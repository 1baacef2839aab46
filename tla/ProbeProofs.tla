----------------------------- MODULE ProbeProofs -----------------------------
(***************************************************************************)
(* Proofs about Probe: for any operators, model calls and messages, any    *)
(* number of calls in flight and of requests, and any interleaving of      *)
(* their reads and writes.                                                 *)
(***************************************************************************)
EXTENDS ProbeEvents, FiniteSetTheorems, SequenceTheorems, TLAPS

(***************************************************************************)
(* The transforms map records to records.                                  *)
(***************************************************************************)
LEMMA DefaultIsRecord == DefaultRecord \in Record
BY SMT DEF DefaultRecord, Record, FsmStates, NoTime

LEMMA TransformsType ==
  ASSUME NEW r \in Record
  PROVE  /\ RequestPause(r) \in Record
         /\ \A t \in Nat : ConfirmPaused(r, t) \in Record
         /\ \A t \in Nat : RequestResume(r, t) \in Record
         /\ \A m \in Messages : SetInject(r, m) \in Record
         /\ ConsumeInject(r) \in Record
<1>1. RequestPause(r) \in Record
  BY DEF RequestPause, Record, FsmStates
<1>2. ASSUME NEW t \in Nat PROVE ConfirmPaused(r, t) \in Record
  BY DEF ConfirmPaused, Record, FsmStates
<1>3. ASSUME NEW t \in Nat PROVE RequestResume(r, t) \in Record
  BY DEF RequestResume, Record, FsmStates
<1>4. ASSUME NEW m \in Messages PROVE SetInject(r, m) \in Record
  BY DEF SetInject, Record
<1>5. ConsumeInject(r) \in Record
  BY DEF ConsumeInject, Record
<1> QED
  BY <1>1, <1>2, <1>3, <1>4, <1>5

(* The variables stay within their types, and a file that does not exist     *)
(* reads as the default record.                                              *)
THEOREM TypeCorrect == Spec => []TypeOK
<1>1. Init => TypeOK
  <2> SUFFICES ASSUME Init PROVE TypeOK
    OBVIOUS
  <2>1. NoWrite \in [busy : BOOLEAN, base : Record, record : Record, for : Procs \cup ModelCalls]
    BY DefaultIsRecord DEF NoWrite, Procs
  <2>2. Absent \in [exists : BOOLEAN, record : Record]
    BY DefaultIsRecord DEF Absent
  <2>3. file \in [exists : BOOLEAN, record : Record] /\ (~file.exists => file = Absent)
    BY <2>2 DEF Init
  <2>4. pending \in [Procs -> [busy : BOOLEAN, base : Record, record : Record,
                              for : Procs \cup ModelCalls]]
    BY <2>1 DEF Init
  <2>5. ops \in 0..MaxOps /\ clock \in Nat
    BY ProbeConstants DEF Init, NoTime
  <2> QED
    BY <2>3, <2>4, <2>5 DEF Init, TypeOK, Phases
<1>2. TypeOK /\ [Next]_vars => TypeOK'
  <2> SUFFICES ASSUME TypeOK, [Next]_vars PROVE TypeOK'
    OBVIOUS
  <2> USE ProbeConstants, DefaultIsRecord
  <2> DEFINE Mutates == [busy : BOOLEAN, base : Record, record : Record,
                         for : Procs \cup ModelCalls]
  <2>r. file.record \in Record /\ pending \in [Procs -> Mutates] /\ clock + 1 \in Nat
    BY DEF TypeOK
  <2>n. NoWrite \in Mutates
    BY DEF NoWrite, Procs
  <2>w. ASSUME NEW p \in Procs, Write(p)
        PROVE  /\ file' \in [exists : BOOLEAN, record : Record] /\ (~file'.exists => file' = Absent)
               /\ pending' \in [Procs -> Mutates]
               /\ holding' \in SUBSET (ModelCalls \X FsmStates) /\ lost' \in BOOLEAN
               /\ pending[p].record.inject \in Messages \cup {NoMessage}
               /\ pending[p].base.inject \in Messages \cup {NoMessage}
    BY <2>w, <2>r, <2>n DEF Write, TypeOK, Record
  <2>d. ASSUME NEW p \in Procs, NEW r \in Record, NEW for \in Procs \cup ModelCalls,
               Read(p, r, for)
        PROVE  pending' \in [Procs -> Mutates]
    BY <2>d, <2>r DEF Read
  <2>f. ASSUME RemoveFile
        PROVE  /\ file' \in [exists : BOOLEAN, record : Record] /\ (~file'.exists => file' = Absent)
               /\ holding' \in SUBSET (ModelCalls \X FsmStates)
               /\ dropped' \in SUBSET Messages
    BY <2>f, <2>r DEF RemoveFile, TypeOK, Absent, Record
  <2>1. ASSUME NEW o \in Operators, Pause(o) PROVE TypeOK'
    <3>1. RequestPause(file.record) \in Record /\ o \in Procs
      BY <2>r, TransformsType DEF Procs
    <3>2. pending' \in [Procs -> Mutates]
      BY <2>1, <2>d, <3>1 DEF Pause, Procs
    <3> QED
      BY <2>1, <3>2 DEF Pause, TypeOK
  <2>2. ASSUME NEW o \in Operators, Resume(o) PROVE TypeOK'
    <3>1. RequestResume(file.record, clock + 1) \in Record /\ o \in Procs
      BY <2>r, TransformsType DEF Procs
    <3>2. pending' \in [Procs -> Mutates]
      BY <2>2, <2>d, <3>1 DEF Resume, Procs
    <3> QED
      BY <2>2, <3>2 DEF Resume, TypeOK
  <2>3. ASSUME NEW o \in Operators, NEW m \in Messages, NEW force \in BOOLEAN, Inject(o, m, force)
        PROVE TypeOK'
    <3>1. SetInject(file.record, m) \in Record /\ o \in Procs
      BY <2>r, TransformsType DEF Procs
    <3>2. pending' \in [Procs -> Mutates]
      BY <2>3, <2>d, <3>1 DEF Inject, Procs
    <3> QED
      BY <2>3, <3>2 DEF Inject, TypeOK
  <2>4. ASSUME NEW o \in Operators, DiscardInject(o) PROVE TypeOK'
    <3>1. ConsumeInject(file.record) \in Record /\ o \in Procs
      BY <2>r, TransformsType DEF Procs
    <3>2. pending' \in [Procs -> Mutates]
      BY <2>4, <2>d, <3>1 DEF DiscardInject, Procs
    <3> QED
      BY <2>4, <3>2 DEF DiscardInject, TypeOK
  <2>5. ASSUME NEW o \in Operators, OperatorWrites(o) PROVE TypeOK'
    BY <2>5, <2>w DEF OperatorWrites, TypeOK, Procs, Taken
  <2>6. ASSUME NEW o \in Operators, Clear(o) PROVE TypeOK'
    BY <2>6, <2>f DEF Clear, TypeOK
  <2>7. ASSUME NEW c \in ModelCalls, EnterCall(c) PROVE TypeOK'
    <3>1. holding' \in SUBSET (ModelCalls \X FsmStates)
      BY <2>7, <2>r DEF EnterCall, TypeOK, Record
    <3>2. call' \in [ModelCalls -> Phases]
      BY <2>7 DEF EnterCall, TypeOK, Phases
    <3> QED
      BY <2>7, <3>1, <3>2 DEF EnterCall, TypeOK
  <2>8. ASSUME NEW c \in ModelCalls, Confirm(c) PROVE TypeOK'
    <3>1. ConfirmPaused(file.record, clock + 1) \in Record /\ Sdk \in Procs
      BY <2>r, TransformsType DEF Procs
    <3>2. pending' \in [Procs -> Mutates]
      BY <2>8, <2>d, <3>1 DEF Confirm, Procs
    <3> QED
      BY <2>8, <3>2 DEF Confirm, TypeOK
  <2>9. ASSUME NEW c \in ModelCalls, Poll(c) PROVE TypeOK'
    BY <2>9 DEF Poll, TypeOK, Phases
  <2>10. ASSUME NEW c \in ModelCalls, Consume(c) PROVE TypeOK'
    <3>1. ConsumeInject(file.record) \in Record /\ Sdk \in Procs
      BY <2>r, TransformsType DEF Procs
    <3>2. pending' \in [Procs -> Mutates]
      BY <2>10, <2>d, <3>1 DEF Consume, Procs
    <3> QED
      BY <2>10, <3>2 DEF Consume, TypeOK
  <2>11. ASSUME NEW c \in ModelCalls, SdkWrites(c) PROVE TypeOK'
    <3>1. call' \in [ModelCalls -> Phases] /\ got' \in [ModelCalls -> Messages \cup {NoMessage}]
      BY <2>11, <2>w DEF SdkWrites, TypeOK, Phases, Procs
    <3> QED
      BY <2>11, <3>1, <2>w DEF SdkWrites, TypeOK, Procs
  <2>12. ASSUME NEW c \in ModelCalls, Return(c) PROVE TypeOK'
    BY <2>12 DEF Return, TypeOK, Phases
  <2>13. ASSUME EndRun PROVE TypeOK'
    BY <2>13, <2>f DEF EndRun, TypeOK
  <2>14. ASSUME UNCHANGED vars PROVE TypeOK'
    BY <2>14 DEF vars, TypeOK
  <2> QED
    BY <2>1, <2>2, <2>3, <2>4, <2>5, <2>6, <2>7, <2>8, <2>9, <2>10, <2>11, <2>12, <2>13, <2>14
       DEF Next, Operator, CallSteps
<1> QED
  BY <1>1, <1>2, PTL DEF Spec
-----------------------------------------------------------------------------
(***************************************************************************)
(* A requested pause holds the call.  A call that found it is still before *)
(* the wait loop or in it, and no call is held while the file says running.*)
(***************************************************************************)
HeldInv ==
  /\ file.record.state = "running" => holding = {}
  /\ \A c \in ModelCalls : <<c, "pause_requested">> \in holding => call[c] \in {"confirm", "poll"}

(* A call that found a pause requested does not reach the model before the   *)
(* run has been resumed or cleared, for any number of calls in flight and    *)
(* whatever updates are lost.                                                *)
THEOREM RequestedPauseHolds == Spec => []RequestedCallsWait
<1>1. Init => HeldInv
  BY DEF Init, HeldInv
<1>2. TypeOK /\ HeldInv /\ [Next]_vars => HeldInv'
  <2> SUFFICES ASSUME TypeOK, HeldInv, [Next]_vars PROVE HeldInv'
    OBVIOUS
  <2>w. ASSUME NEW p \in Procs, Write(p)
        PROVE  /\ file'.record.state = "running" => holding' = {}
               /\ holding' \subseteq holding
               /\ pending[p].record.state = "running" => holding' = {}
    BY <2>w DEF Write, HeldInv
  <2>1. ASSUME NEW o \in Operators, OperatorWrites(o) PROVE HeldInv'
    BY <2>1, <2>w DEF OperatorWrites, HeldInv, Procs
  <2>2. ASSUME RemoveFile, UNCHANGED call PROVE HeldInv'
    BY <2>2 DEF RemoveFile, HeldInv, Absent
  <2>3. ASSUME NEW c \in ModelCalls, EnterCall(c) PROVE HeldInv'
    <3>1. file'.record.state = "running" => holding' = {}
      BY <2>3 DEF EnterCall, HeldInv
    <3>2. ASSUME NEW d \in ModelCalls, <<d, "pause_requested">> \in holding'
          PROVE  call'[d] \in {"confirm", "poll"}
      BY <2>3, <3>2 DEF EnterCall, HeldInv, TypeOK
    <3> QED
      BY <3>1, <3>2 DEF HeldInv
  <2>4. ASSUME NEW c \in ModelCalls, Poll(c) PROVE HeldInv'
    BY <2>4 DEF Poll, HeldInv
  <2>5. ASSUME NEW c \in ModelCalls, SdkWrites(c) PROVE HeldInv'
    <3>1. file'.record.state = "running" => holding' = {}
      BY <2>5, <2>w DEF SdkWrites, Procs
    <3>2. ASSUME NEW d \in ModelCalls, <<d, "pause_requested">> \in holding'
          PROVE  call'[d] \in {"confirm", "poll"}
      <4>1. call[d] \in {"confirm", "poll"} /\ pending[Sdk].record.state # "running"
        BY <3>2, <2>5, <2>w DEF SdkWrites, Procs, HeldInv
      <4> QED
        BY <4>1, <2>5 DEF SdkWrites, TypeOK
    <3> QED
      BY <3>1, <3>2 DEF HeldInv
  <2>6. ASSUME NEW c \in ModelCalls, Return(c) PROVE HeldInv'
    BY <2>6 DEF Return, HeldInv, TypeOK
  <2>7. ASSUME UNCHANGED <<file, call, holding>> PROVE HeldInv'
    BY <2>7 DEF HeldInv
  <2> QED
    BY <2>1, <2>2, <2>3, <2>4, <2>5, <2>6, <2>7
       DEF Next, Operator, CallSteps, Pause, Resume, Inject, DiscardInject, Clear, Confirm,
           Consume, EndRun, vars
<1>3. HeldInv => RequestedCallsWait
  BY DEF HeldInv, RequestedCallsWait
<1> QED
  BY <1>1, <1>2, <1>3, TypeCorrect, PTL DEF Spec

-----------------------------------------------------------------------------
(***************************************************************************)
(* `paused` means somebody waits.  No transform but confirmPaused makes a  *)
(* record paused, and the call that confirms goes to the wait loop with    *)
(* the write; so a write that goes over nobody else's change finds the     *)
(* file as paused as it leaves it, or puts its own call into the loop.     *)
(***************************************************************************)
SdkBusy(c) == pending[Sdk].busy /\ pending[Sdk].for = c

WaitInv ==
  /\ PausedMeansWaiting
  /\ \A o \in Operators :
       pending[o].busy /\ pending[o].record.state = "paused" => pending[o].base.state = "paused"
  /\ \A c \in ModelCalls : SdkBusy(c) =>
       /\ call[c] \in {"confirm", "consume"}
       /\ call[c] = "consume" /\ pending[Sdk].record.state = "paused"
            => pending[Sdk].base.state = "paused"

(* Unless an update was lost, a file that says `paused` has a model call     *)
(* waiting in its loop.                                                      *)
THEOREM PausedIsWaiting == Spec => []PausedMeansWaiting
<1>1. Init => WaitInv
  BY DEF Init, WaitInv, PausedMeansWaiting, Absent, DefaultRecord, NoWrite, Procs, SdkBusy
<1>2. TypeOK /\ WaitInv /\ [Next]_vars => WaitInv'
  <2> SUFFICES ASSUME TypeOK, WaitInv, [Next]_vars PROVE WaitInv'
    OBVIOUS
  <2> USE ProbeConstants
  <2>r. file.record \in Record /\ pending \in [Procs -> [busy : BOOLEAN, base : Record,
                                                        record : Record, for : Procs \cup ModelCalls]]
    BY DEF TypeOK
  (* An operator's read.                                                     *)
  <2>o. ASSUME NEW o \in Operators, NEW r, Read(o, r, o), UNCHANGED <<file, call, lost>>,
               r.state = "paused" => file.record.state = "paused"
        PROVE  WaitInv'
    BY <2>o, <2>r DEF Read, WaitInv, PausedMeansWaiting, SdkBusy, Procs
  (* A read of the SDK's.                                                    *)
  <2>s. ASSUME NEW c \in ModelCalls, NEW r, Read(Sdk, r, c), UNCHANGED <<file, call, lost>>,
               call[c] \in {"confirm", "consume"},
               call[c] = "consume" /\ r.state = "paused" => file.record.state = "paused"
        PROVE  WaitInv'
    BY <2>s, <2>r DEF Read, WaitInv, PausedMeansWaiting, SdkBusy, Procs
  <2>1. ASSUME NEW o \in Operators, Pause(o) PROVE WaitInv'
    <3>1. RequestPause(file.record).state = "paused" => file.record.state = "paused"
      BY <2>r DEF RequestPause, Record
    <3> QED
      BY <2>1, <2>o, <3>1 DEF Pause
  <2>2. ASSUME NEW o \in Operators, Resume(o) PROVE WaitInv'
    <3>1. RequestResume(file.record, clock + 1).state = "paused" => file.record.state = "paused"
      BY <2>r DEF RequestResume, Record
    <3> QED
      BY <2>2, <2>o, <3>1 DEF Resume
  <2>3. ASSUME NEW o \in Operators, NEW m \in Messages, NEW force \in BOOLEAN, Inject(o, m, force)
        PROVE WaitInv'
    <3>1. SetInject(file.record, m).state = "paused" => file.record.state = "paused"
      BY <2>r DEF SetInject, Record
    <3> QED
      BY <2>3, <2>o, <3>1 DEF Inject
  <2>4. ASSUME NEW o \in Operators, DiscardInject(o) PROVE WaitInv'
    <3>1. ConsumeInject(file.record).state = "paused" => file.record.state = "paused"
      BY <2>r DEF ConsumeInject, Record
    <3> QED
      BY <2>4, <2>o, <3>1 DEF DiscardInject
  <2>5. ASSUME NEW o \in Operators, OperatorWrites(o) PROVE WaitInv'
    <3>1. PausedMeansWaiting'
      BY <2>5, <2>r DEF OperatorWrites, Write, WaitInv, PausedMeansWaiting, Procs
    <3>2. \A p \in Procs : pending'[p] = pending[p] \/ ~pending'[p].busy
      BY <2>5, <2>r DEF OperatorWrites, Write, NoWrite, Procs
    <3> QED
      BY <2>5, <3>1, <3>2 DEF OperatorWrites, WaitInv, SdkBusy, Procs
  <2>6. ASSUME RemoveFile, UNCHANGED <<call, pending, lost>> PROVE WaitInv'
    BY <2>6 DEF RemoveFile, WaitInv, PausedMeansWaiting, Absent, DefaultRecord, SdkBusy
  <2>7. ASSUME NEW c \in ModelCalls, EnterCall(c) PROVE WaitInv'
    BY <2>7, <2>r DEF EnterCall, Free, WaitInv, PausedMeansWaiting, SdkBusy, TypeOK
  <2>8. ASSUME NEW c \in ModelCalls, Confirm(c) PROVE WaitInv'
    BY <2>8, <2>s DEF Confirm
  <2>9. ASSUME NEW c \in ModelCalls, Poll(c) PROVE WaitInv'
    BY <2>9, <2>r DEF Poll, Free, WaitInv, PausedMeansWaiting, SdkBusy, TypeOK
  <2>10. ASSUME NEW c \in ModelCalls, Consume(c) PROVE WaitInv'
    <3>1. ConsumeInject(file.record).state = "paused" => file.record.state = "paused"
      BY <2>r DEF ConsumeInject, Record
    <3> QED
      BY <2>10, <2>s, <3>1 DEF Consume
  <2>11. ASSUME NEW c \in ModelCalls, SdkWrites(c) PROVE WaitInv'
    <3>1. SdkBusy(c) /\ call[c] \in {"confirm", "consume"}
      BY <2>11 DEF SdkWrites, SdkBusy, WaitInv
    <3>2. ASSUME ~lost', file'.record.state = "paused" PROVE \E d \in ModelCalls : call'[d] = "poll"
      <4>1. file.record = pending[Sdk].base /\ ~lost /\ pending[Sdk].record.state = "paused"
        BY <2>11, <3>2 DEF SdkWrites, Write
      <4>2. CASE call[c] = "confirm"
        BY <4>1, <4>2, <2>11 DEF SdkWrites, TypeOK
      <4>3. CASE call[c] = "consume"
        <5>1. PICK d \in ModelCalls : call[d] = "poll"
          BY <4>1, <4>3, <3>1 DEF WaitInv, PausedMeansWaiting
        <5> QED
          BY <5>1, <4>3, <2>11 DEF SdkWrites, TypeOK
      <4> QED
        BY <3>1, <4>2, <4>3
    <3>3. ~pending'[Sdk].busy /\ \A o \in Operators : pending'[o] = pending[o]
      BY <2>11, <2>r DEF SdkWrites, Write, NoWrite, Procs
    <3> QED
      BY <3>2, <3>3 DEF WaitInv, PausedMeansWaiting, SdkBusy
  <2>12. ASSUME NEW c \in ModelCalls, Return(c) PROVE WaitInv'
    BY <2>12 DEF Return, WaitInv, PausedMeansWaiting, SdkBusy, TypeOK
  <2>13. ASSUME UNCHANGED vars PROVE WaitInv'
    BY <2>13 DEF vars, WaitInv, PausedMeansWaiting, SdkBusy
  <2> QED
    BY <2>1, <2>2, <2>3, <2>4, <2>5, <2>6, <2>7, <2>8, <2>9, <2>10, <2>11, <2>12, <2>13
       DEF Next, Operator, CallSteps, Clear, EndRun
<1>3. WaitInv => PausedMeansWaiting
  BY DEF WaitInv
<1> QED
  BY <1>1, <1>2, <1>3, TypeCorrect, PTL DEF Spec
-----------------------------------------------------------------------------
(***************************************************************************)
(* An inject is said once.  Until an update is lost, a message that was    *)
(* written to the file is in one place only: in the file, thrown away, or  *)
(* with one call.                                                          *)
(***************************************************************************)
OnePlace ==
  /\ file.record.inject \in asked \cup {NoMessage} /\ dropped \subseteq asked
  /\ \A c \in ModelCalls : got[c] \in asked \cup {NoMessage}
  /\ \A m \in asked : file.record.inject = m \/ m \in dropped \/ \E c \in ModelCalls : got[c] = m
  /\ file.record.inject \notin dropped
  /\ \A c \in ModelCalls :
       got[c] # NoMessage => got[c] \notin dropped /\ got[c] # file.record.inject
  /\ \A c, d \in ModelCalls : got[c] = got[d] /\ got[c] # NoMessage => c = d

(* A call gets its message at the end of consumeInject.                      *)
NothingYet ==
  \A c \in ModelCalls : call[c] \in {"idle", "confirm", "poll", "consume"} => got[c] = NoMessage

(* A write under way leaves the message it read, takes it out, or brings one *)
(* nobody has seen.                                                          *)
Fresh(m) == m \in Messages \ asked
WritesInv ==
  /\ \A p \in Procs :
       /\ ~pending[p].busy => pending[p].record.inject = NoMessage
       /\ pending[p].base.inject \in asked \cup {NoMessage}
       /\ \/ pending[p].record.inject \in {pending[p].base.inject, NoMessage}
          \/ p # Sdk /\ Fresh(pending[p].record.inject)
  /\ \A p, q \in Procs :
       pending[p].record.inject = pending[q].record.inject /\ Fresh(pending[p].record.inject)
         => p = q
  /\ \A c \in ModelCalls : SdkBusy(c) =>
       \/ call[c] = "confirm" /\ pending[Sdk].record.inject = pending[Sdk].base.inject
       \/ call[c] = "consume" /\ pending[Sdk].record.inject = NoMessage

InjectInv == ~lost => OnePlace /\ NothingYet /\ WritesInv

(* No two receivers is at most one.                                          *)
LEMMA OneReceiver ==
  ASSUME TypeOK, OnePlace, NEW m \in asked
  PROVE  Cardinality({c \in ModelCalls : got[c] = m}) <= 1
<1> DEFINE receivers == {c \in ModelCalls : got[c] = m}
<1>1. m # NoMessage
  BY ProbeConstants DEF TypeOK
<1>2. CASE receivers = {}
  BY <1>2, FS_EmptySet
<1>3. CASE receivers # {}
  <2>1. PICK c \in receivers : TRUE
    BY <1>3
  <2>2. receivers = {c}
    BY <2>1, <1>1 DEF OnePlace
  <2> QED
    BY <2>2, FS_Singleton
<1> QED
  BY <1>2, <1>3

(* A read changes no story: only what the process will write.               *)
LEMMA ReadKeepsInjectInv ==
  ASSUME TypeOK, InjectInv, NEW p \in Procs, NEW r, NEW for, Read(p, r, for), Free(p),
         UNCHANGED <<file, call, got, dropped, asked, lost>>,
         \/ r.inject \in {file.record.inject, NoMessage}
         \/ /\ p # Sdk /\ Fresh(r.inject)
            /\ \A q \in Procs : pending[q].record.inject # r.inject,
         p = Sdk => /\ for \in ModelCalls
                    /\ \/ call[for] = "confirm" /\ r.inject = file.record.inject
                       \/ call[for] = "consume" /\ r.inject = NoMessage
  PROVE  InjectInv'
<1> SUFFICES ASSUME ~lost' PROVE OnePlace' /\ NothingYet' /\ WritesInv'
  BY DEF InjectInv
<1>0. OnePlace /\ NothingYet /\ WritesInv
  BY DEF InjectInv
<1>1. OnePlace' /\ NothingYet'
  BY <1>0 DEF OnePlace, NothingYet
<1>2. /\ pending' = [pending EXCEPT ![p] = [busy |-> TRUE, base |-> file.record, record |-> r,
                                            for |-> for]]
      /\ p \in DOMAIN pending /\ DOMAIN pending = Procs
  BY DEF Read, TypeOK
<1>3. /\ pending'[p].busy /\ pending'[p].base = file.record /\ pending'[p].record = r
      /\ pending'[p].for = for
      /\ \A q \in Procs \ {p} : pending'[q] = pending[q]
  BY <1>2
<1>a. asked' = asked /\ call' = call
  OBVIOUS
<1>4. ASSUME NEW q \in Procs
      PROVE  /\ ~pending'[q].busy => pending'[q].record.inject = NoMessage
             /\ pending'[q].base.inject \in asked' \cup {NoMessage}
             /\ \/ pending'[q].record.inject \in {pending'[q].base.inject, NoMessage}
                \/ q # Sdk /\ pending'[q].record.inject \in Messages \ asked'
  <2>1. CASE q = p
    BY <1>0, <1>3, <1>a, <2>1 DEF OnePlace, Fresh
  <2>2. CASE q # p
    BY <1>0, <1>3, <1>a, <2>2 DEF WritesInv, Fresh
  <2> QED
    BY <2>1, <2>2
<1>5. file.record.inject \notin Messages \ asked /\ NoMessage \notin Messages
  BY <1>0, ProbeConstants DEF OnePlace
<1>6. ASSUME NEW q1 \in Procs, NEW q2 \in Procs,
             pending'[q1].record.inject = pending'[q2].record.inject,
             pending'[q1].record.inject \in Messages \ asked'
      PROVE  q1 = q2
  BY <1>0, <1>3, <1>5, <1>6, <1>a DEF WritesInv, Fresh
<1>7. ASSUME NEW c \in ModelCalls, SdkBusy(c)'
      PROVE  \/ call'[c] = "confirm" /\ pending'[Sdk].record.inject = pending'[Sdk].base.inject
             \/ call'[c] = "consume" /\ pending'[Sdk].record.inject = NoMessage
  <2>1. CASE p = Sdk
    BY <1>3, <1>7, <2>1 DEF SdkBusy
  <2>2. CASE p # Sdk
    BY <1>0, <1>3, <1>7, <2>2 DEF SdkBusy, WritesInv, Procs
  <2> QED
    BY <2>1, <2>2
<1>8. WritesInv'
  BY <1>4, <1>6, <1>7 DEF WritesInv, Fresh
<1> QED
  BY <1>1, <1>8

(* The write of a process that is not the SDK's.                             *)
LEMMA OperatorWriteKeepsInjectInv ==
  ASSUME TypeOK, InjectInv, NEW o \in Operators, OperatorWrites(o)
  PROVE  InjectInv'
<1> SUFFICES ASSUME ~lost' PROVE OnePlace' /\ NothingYet' /\ WritesInv'
  BY DEF InjectInv
<1> DEFINE b == pending[o].base.inject
           n == pending[o].record.inject
<1>1. ~lost /\ file.record = pending[o].base
  BY DEF OperatorWrites, Write
<1>0. OnePlace /\ NothingYet /\ WritesInv
  BY <1>1 DEF InjectInv
<1>2. /\ o \in Procs /\ o # Sdk
      /\ file'.record.inject = n /\ file.record.inject = b
      /\ dropped' = dropped \cup ({b} \ {n, NoMessage}) /\ asked' = asked \cup ({n} \ {NoMessage})
      /\ UNCHANGED <<call, got>>
  BY <1>1, ProbeConstants DEF OperatorWrites, Write, Taken, Procs
<1>3. pending'[o] = NoWrite /\ \A q \in Procs \ {o} : pending'[q] = pending[q]
  BY <1>2 DEF OperatorWrites, Write, TypeOK
<1>4. /\ b \in asked \cup {NoMessage}
      /\ n \in {b, NoMessage} \/ n \in Messages \ asked
      /\ NoMessage \notin asked /\ NoMessage \notin Messages
  BY <1>0, <1>2, ProbeConstants DEF WritesInv, Fresh, TypeOK
<1>5. OnePlace'
  <2>1. CASE n = b
    BY <1>0, <1>2, <1>4, <2>1 DEF OnePlace
  <2>2. CASE n = NoMessage
    BY <1>0, <1>2, <1>4, <2>2 DEF OnePlace
  <2>3. CASE n \in Messages \ asked
    BY <1>0, <1>2, <1>4, <2>3 DEF OnePlace
  <2> QED
    BY <1>4, <2>1, <2>2, <2>3
<1>6. NothingYet'
  BY <1>0, <1>2 DEF NothingYet
<1>7. WritesInv'
  <2>1. ASSUME NEW q \in Procs
        PROVE  /\ ~pending'[q].busy => pending'[q].record.inject = NoMessage
               /\ pending'[q].base.inject \in asked' \cup {NoMessage}
               /\ \/ pending'[q].record.inject \in {pending'[q].base.inject, NoMessage}
                  \/ q # Sdk /\ pending'[q].record.inject \in Messages \ asked'
    <3>1. CASE q = o
      BY <1>3, <3>1 DEF NoWrite, DefaultRecord
    <3>2. CASE q # o
      <4>1. pending'[q] = pending[q]
        BY <1>3, <3>2
      <4>2. pending[q].record.inject \in Messages \ asked => pending[q].record.inject # n
        BY <1>0, <1>2, <3>2 DEF WritesInv, Fresh
      <4> QED
        BY <1>0, <1>2, <4>1, <4>2 DEF WritesInv, Fresh
    <3> QED
      BY <3>1, <3>2
  <2>2. ASSUME NEW q1 \in Procs, NEW q2 \in Procs,
               pending'[q1].record.inject = pending'[q2].record.inject,
               pending'[q1].record.inject \in Messages \ asked'
        PROVE  q1 = q2
    <3>1. q1 # o /\ q2 # o
      BY <1>3, <1>4, <2>2 DEF NoWrite, DefaultRecord
    <3> QED
      BY <1>0, <1>2, <1>3, <2>2, <3>1 DEF WritesInv, Fresh
  <2>3. ASSUME NEW c \in ModelCalls, SdkBusy(c)'
        PROVE  \/ call'[c] = "confirm" /\ pending'[Sdk].record.inject = pending'[Sdk].base.inject
               \/ call'[c] = "consume" /\ pending'[Sdk].record.inject = NoMessage
    <3>1. pending'[Sdk] = pending[Sdk] /\ call' = call
      BY <1>2, <1>3 DEF Procs
    <3> QED
      BY <1>0, <2>3, <3>1 DEF WritesInv, SdkBusy
  <2> QED
    BY <2>1, <2>2, <2>3 DEF WritesInv, Fresh
<1> QED
  BY <1>5, <1>6, <1>7

(* The SDK's write: a confirm leaves the message, consumeInject hands it to  *)
(* the call.                                                                 *)
LEMMA SdkWriteKeepsInjectInv ==
  ASSUME TypeOK, InjectInv, NEW c \in ModelCalls, SdkWrites(c)
  PROVE  InjectInv'
<1> SUFFICES ASSUME ~lost' PROVE OnePlace' /\ NothingYet' /\ WritesInv'
  BY DEF InjectInv
<1> DEFINE b == pending[Sdk].base.inject
           n == pending[Sdk].record.inject
<1>1. ~lost /\ file.record = pending[Sdk].base
  BY DEF SdkWrites, Write
<1>0. OnePlace /\ NothingYet /\ WritesInv
  BY <1>1 DEF InjectInv
<1>2. /\ file'.record.inject = n /\ file.record.inject = b
      /\ dropped' = dropped /\ asked' = asked /\ NoMessage \notin asked
  BY <1>1, ProbeConstants DEF SdkWrites, Write, TypeOK
<1>3. /\ \A d \in ModelCalls \ {c} : call'[d] = call[d] /\ got'[d] = got[d]
      /\ call[c] = "consume" => call'[c] = "calling" /\ got'[c] = b
      /\ call[c] # "consume" => got'[c] = got[c]
  BY DEF SdkWrites, TypeOK
<1>4. \/ call[c] = "confirm" /\ n = b
      \/ call[c] = "consume" /\ n = NoMessage
  BY <1>0 DEF SdkWrites, WritesInv, SdkBusy
<1>5. got[c] = NoMessage
  BY <1>0, <1>4 DEF NothingYet
<1>6. OnePlace' /\ NothingYet'
  <2>1. CASE call[c] = "confirm" /\ n = b
    <3>1. \A d \in ModelCalls : got'[d] = got[d]
      BY <1>3, <2>1
    <3> QED
      BY <1>0, <1>2, <1>3, <1>5, <2>1, <3>1 DEF OnePlace, NothingYet
  <2>2. CASE call[c] = "consume" /\ n = NoMessage
    <3>1. NothingYet'
      BY <1>0, <1>3, <2>2 DEF NothingYet
    <3>2. \A m \in asked : m # b => (m \in dropped \/ \E d \in ModelCalls : got'[d] = m)
      BY <1>0, <1>2, <1>3, <1>5 DEF OnePlace
    <3>3. \A d \in ModelCalls \ {c} : got'[d] # NoMessage => got'[d] # b
      BY <1>0, <1>2, <1>3 DEF OnePlace
    <3> QED
      BY <1>0, <1>2, <1>3, <2>2, <3>1, <3>2, <3>3 DEF OnePlace
  <2> QED
    BY <1>4, <2>1, <2>2
<1>7. WritesInv'
  <2>1. pending'[Sdk] = NoWrite /\ \A q \in Procs \ {Sdk} : pending'[q] = pending[q]
    BY DEF SdkWrites, Write, TypeOK, Procs
  <2>2. ASSUME NEW q \in Procs
        PROVE  /\ ~pending'[q].busy => pending'[q].record.inject = NoMessage
               /\ pending'[q].base.inject \in asked' \cup {NoMessage}
               /\ \/ pending'[q].record.inject \in {pending'[q].base.inject, NoMessage}
                  \/ q # Sdk /\ pending'[q].record.inject \in Messages \ asked'
    <3>1. CASE q = Sdk
      BY <2>1, <3>1 DEF NoWrite, DefaultRecord
    <3>2. CASE q # Sdk
      BY <1>0, <1>2, <2>1, <3>2 DEF WritesInv, Fresh
    <3> QED
      BY <3>1, <3>2
  <2>3. ASSUME NEW q1 \in Procs, NEW q2 \in Procs,
               pending'[q1].record.inject = pending'[q2].record.inject,
               pending'[q1].record.inject \in Messages \ asked'
        PROVE  q1 = q2
    <3>1. q1 # Sdk /\ q2 # Sdk
      BY <2>1, <2>3, ProbeConstants DEF NoWrite, DefaultRecord
    <3> QED
      BY <1>0, <1>2, <2>1, <2>3, <3>1 DEF WritesInv, Fresh
  <2> QED
    BY <2>1, <2>2, <2>3 DEF WritesInv, Fresh, SdkBusy, NoWrite
<1> QED
  BY <1>6, <1>7

(* While no update was lost, an injected message is not lost and not said    *)
(* twice, for any number of operators, messages and calls in flight.         *)
THEOREM InjectIsSaidOnce == Spec => []InjectOnce
<1>1. Init => InjectInv
  <2> SUFFICES ASSUME Init PROVE OnePlace /\ NothingYet /\ WritesInv
    BY DEF InjectInv
  <2>1. OnePlace /\ NothingYet
    BY DEF Init, OnePlace, NothingYet, Absent, DefaultRecord
  <2>2. \A p \in Procs : pending[p] = NoWrite
    BY DEF Init
  <2> QED
    BY <2>1, <2>2, ProbeConstants DEF WritesInv, Fresh, NoWrite, DefaultRecord, SdkBusy, Procs
<1>2. TypeOK /\ InjectInv /\ [Next]_vars => InjectInv'
  <2> SUFFICES ASSUME TypeOK, InjectInv, [Next]_vars PROVE InjectInv'
    OBVIOUS
  <2>r. file.record \in Record /\ \A o \in Operators : o \in Procs /\ o # Sdk
    BY ProbeConstants DEF TypeOK, Procs
  <2>1. ASSUME NEW o \in Operators, Pause(o) PROVE InjectInv'
    <3>1. RequestPause(file.record).inject = file.record.inject
      BY <2>r DEF RequestPause, Record
    <3> QED
      BY <2>1, <3>1, <2>r, ReadKeepsInjectInv DEF Pause
  <2>2. ASSUME NEW o \in Operators, Resume(o) PROVE InjectInv'
    <3>1. RequestResume(file.record, clock + 1).inject = file.record.inject
      BY <2>r DEF RequestResume, Record
    <3> QED
      BY <2>2, <3>1, <2>r, ReadKeepsInjectInv DEF Resume
  <2>3. ASSUME NEW o \in Operators, NEW m \in Messages, NEW force \in BOOLEAN, Inject(o, m, force)
        PROVE InjectInv'
    <3>1. SetInject(file.record, m).inject = m
      BY <2>r DEF SetInject, Record
    <3> QED
      BY <2>3, <3>1, <2>r, ReadKeepsInjectInv DEF Inject, Fresh
  <2>4. ASSUME NEW o \in Operators, DiscardInject(o) PROVE InjectInv'
    <3>1. ConsumeInject(file.record).inject = NoMessage
      BY <2>r DEF ConsumeInject, Record
    <3> QED
      BY <2>4, <3>1, <2>r, ReadKeepsInjectInv DEF DiscardInject
  <2>5. ASSUME NEW c \in ModelCalls, Confirm(c) PROVE InjectInv'
    <3>1. ConfirmPaused(file.record, clock + 1).inject = file.record.inject /\ Sdk \in Procs
      BY <2>r DEF ConfirmPaused, Record, Procs
    <3> QED
      BY <2>5, <3>1, ReadKeepsInjectInv DEF Confirm
  <2>6. ASSUME NEW c \in ModelCalls, Consume(c) PROVE InjectInv'
    <3>1. ConsumeInject(file.record).inject = NoMessage /\ Sdk \in Procs
      BY <2>r DEF ConsumeInject, Record, Procs
    <3> QED
      BY <2>6, <3>1, ReadKeepsInjectInv DEF Consume
  <2>7. ASSUME NEW o \in Operators, OperatorWrites(o) PROVE InjectInv'
    BY <2>7, OperatorWriteKeepsInjectInv
  <2>8. ASSUME NEW c \in ModelCalls, SdkWrites(c) PROVE InjectInv'
    BY <2>8, SdkWriteKeepsInjectInv
  <2>9. ASSUME RemoveFile, UNCHANGED <<pending, call, got, asked, lost>> PROVE InjectInv'
    BY <2>9, ProbeConstants DEF RemoveFile, InjectInv, OnePlace, NothingYet, WritesInv, SdkBusy, Fresh,
                                Absent, DefaultRecord, TypeOK
  <2>10. ASSUME NEW c \in ModelCalls, UNCHANGED <<file, pending, got, dropped, asked, lost>>,
                \A d \in ModelCalls \ {c} : call'[d] = call[d],
                ~SdkBusy(c),
                call'[c] \in {"idle", "confirm", "poll", "consume"}
                  => call[c] \in {"idle", "confirm", "poll", "consume"}
         PROVE InjectInv'
    BY <2>10 DEF InjectInv, OnePlace, NothingYet, WritesInv, SdkBusy, Fresh
  <2>11. ASSUME NEW c \in ModelCalls, EnterCall(c) PROVE InjectInv'
    BY <2>11, <2>10 DEF EnterCall, TypeOK, Free, SdkBusy
  <2>12. ASSUME NEW c \in ModelCalls, Poll(c) PROVE InjectInv'
    BY <2>12, <2>10 DEF Poll, TypeOK, Free, SdkBusy
  <2>13. ASSUME NEW c \in ModelCalls, Return(c) PROVE InjectInv'
    <3>1. CASE lost
      BY <2>13, <3>1 DEF Return, InjectInv
    <3>2. CASE ~lost
      <4>1. ~SdkBusy(c)
        BY <2>13, <3>2 DEF Return, InjectInv, WritesInv
      <4> QED
        BY <2>13, <2>10, <4>1 DEF Return, TypeOK
    <3> QED
      BY <3>1, <3>2
  <2>14. ASSUME UNCHANGED vars PROVE InjectInv'
    BY <2>14 DEF vars, InjectInv, OnePlace, NothingYet, WritesInv, SdkBusy, Fresh
  <2> QED
    BY <2>1, <2>2, <2>3, <2>4, <2>5, <2>6, <2>7, <2>8, <2>9, <2>11, <2>12, <2>13, <2>14
       DEF Next, Operator, CallSteps, Clear, EndRun
<1>3. TypeOK /\ InjectInv => InjectOnce
  <2> SUFFICES ASSUME TypeOK, InjectInv, ~lost, NEW m \in asked
               PROVE  LET receivers == {c \in ModelCalls : got[c] = m}
                      IN /\ Cardinality(receivers) <= 1
                         /\ file.record.inject = m \/ m \in dropped \/ receivers # {}
                         /\ ~(m \in dropped /\ receivers # {})
    BY DEF InjectOnce
  <2>1. OnePlace /\ m # NoMessage
    BY ProbeConstants DEF InjectInv, TypeOK
  <2> QED
    BY <2>1, OneReceiver DEF OnePlace
<1> QED
  BY <1>1, <1>2, <1>3, TypeCorrect, PTL DEF Spec

(***************************************************************************)
(* The inspector                                                           *)
(*                                                                         *)
(* EventsOnce is not inductive.  pollProbeStates compares a timestamp with  *)
(* the last one it told, so a timestamp must never come back to the file:   *)
(* one not written yet is nowhere else, and until an update is lost the     *)
(* file's is either the last told or was never told.                       *)
(***************************************************************************)
Kinds == {"paused", "resumed"}
Stamp(r, k) == IF k = "paused" THEN r.paused ELSE r.resumed

(* The process is about to write a timestamp of its own.                    *)
Stamps(p, k) == Stamp(pending[p].record, k) # Stamp(pending[p].base, k)

(* What a step of the operators and the SDK does to the timestamps: nothing, *)
(* a read that takes a new one at most, a write, a removal.                 *)
ReadsFor(p, r) ==
  /\ \E for \in Procs \cup ModelCalls :
       pending' = [pending EXCEPT ![p] = [busy |-> TRUE, base |-> file.record, record |-> r,
                                          for |-> for]]
  /\ \A k \in Kinds : \/ Stamp(r, k) = Stamp(file.record, k)
                      \/ Stamp(r, k) = clock + 1 /\ clock' = clock + 1
  /\ file' = file /\ lost' = lost /\ clock' \in {clock, clock + 1}

WritesOf(p) ==
  /\ file'.record = pending[p].record
  /\ pending' = [pending EXCEPT ![p] = NoWrite]
  /\ lost' = (lost \/ file.record # pending[p].base)
  /\ clock' = clock

StampStep ==
  \/ \E p \in Procs, r \in Record : ReadsFor(p, r)
  \/ \E p \in Procs : WritesOf(p)
  \/ UNCHANGED <<pending, clock, lost>> /\ (file' = Absent \/ file' = file)

LEMMA StampsOfTransforms ==
  ASSUME NEW r, NEW t, NEW m, NEW k \in Kinds
  PROVE  /\ Stamp(RequestPause(r), k) = Stamp(r, k)
         /\ Stamp(ConfirmPaused(r, t), k) \in {Stamp(r, k), t}
         /\ Stamp(RequestResume(r, t), k) \in {Stamp(r, k), t}
         /\ Stamp(SetInject(r, m), k) = Stamp(r, k)
         /\ Stamp(ConsumeInject(r), k) = Stamp(r, k)
<1>1. Stamp(RequestPause(r), k) = Stamp(r, k)
  BY DEF RequestPause, Stamp, Kinds
<1>2. Stamp(ConfirmPaused(r, t), k) \in {Stamp(r, k), t}
  BY DEF ConfirmPaused, Stamp, Kinds
<1>3. Stamp(RequestResume(r, t), k) \in {Stamp(r, k), t}
  BY DEF RequestResume, Stamp, Kinds
<1>4. Stamp(SetInject(r, m), k) = Stamp(r, k) /\ Stamp(ConsumeInject(r), k) = Stamp(r, k)
  BY DEF SetInject, ConsumeInject, Stamp, Kinds
<1> QED
  BY <1>1, <1>2, <1>3, <1>4

LEMMA NextStamps ==
  ASSUME TypeOK, Next
  PROVE  StampStep
<1> USE ProbeConstants
<1>r. file.record \in Record /\ clock + 1 \in Nat
  BY DEF TypeOK
<1>1. ASSUME NEW o \in Operators, Pause(o) PROVE StampStep
  <2>1. RequestPause(file.record) \in Record
    BY <1>r, TransformsType
  <2>2. ReadsFor(o, RequestPause(file.record))
    BY <1>1, StampsOfTransforms DEF Pause, Read, ReadsFor, Procs
  <2> QED
    BY <2>1, <2>2 DEF StampStep, Procs
<1>2. ASSUME NEW o \in Operators, Resume(o) PROVE StampStep
  <2>1. RequestResume(file.record, clock + 1) \in Record
    BY <1>r, TransformsType
  <2>2. \A k \in Kinds : Stamp(RequestResume(file.record, clock + 1), k)
                           \in {Stamp(file.record, k), clock + 1}
    BY StampsOfTransforms
  <2>3. ReadsFor(o, RequestResume(file.record, clock + 1))
    BY <1>2, <2>2 DEF Resume, Read, ReadsFor, Procs
  <2> QED
    BY <2>1, <2>3 DEF StampStep, Procs
<1>3. ASSUME NEW o \in Operators, NEW m \in Messages, NEW force \in BOOLEAN, Inject(o, m, force)
      PROVE  StampStep
  <2>1. SetInject(file.record, m) \in Record
    BY <1>r, TransformsType
  <2>2. ReadsFor(o, SetInject(file.record, m))
    BY <1>3, StampsOfTransforms DEF Inject, Read, ReadsFor, Procs
  <2> QED
    BY <2>1, <2>2 DEF StampStep, Procs
<1>4. ASSUME NEW o \in Operators, DiscardInject(o) PROVE StampStep
  <2>1. ConsumeInject(file.record) \in Record
    BY <1>r, TransformsType
  <2>2. ReadsFor(o, ConsumeInject(file.record))
    BY <1>4, StampsOfTransforms DEF DiscardInject, Read, ReadsFor, Procs
  <2> QED
    BY <2>1, <2>2 DEF StampStep, Procs
<1>5. ASSUME NEW c \in ModelCalls, Confirm(c) PROVE StampStep
  <2>1. ConfirmPaused(file.record, clock + 1) \in Record
    BY <1>r, TransformsType
  <2>2. \A k \in Kinds : Stamp(ConfirmPaused(file.record, clock + 1), k)
                           \in {Stamp(file.record, k), clock + 1}
    BY StampsOfTransforms
  <2>3. ReadsFor(Sdk, ConfirmPaused(file.record, clock + 1))
    BY <1>5, <2>2 DEF Confirm, Read, ReadsFor, Procs
  <2> QED
    BY <2>1, <2>3 DEF StampStep, Procs
<1>6. ASSUME NEW c \in ModelCalls, Consume(c) PROVE StampStep
  <2>1. ConsumeInject(file.record) \in Record
    BY <1>r, TransformsType
  <2>2. ReadsFor(Sdk, ConsumeInject(file.record))
    BY <1>6, StampsOfTransforms DEF Consume, Read, ReadsFor, Procs
  <2> QED
    BY <2>1, <2>2 DEF StampStep, Procs
<1>7. ASSUME NEW p \in Procs, Write(p), clock' = clock PROVE StampStep
  <2>1. WritesOf(p)
    BY <1>7 DEF Write, WritesOf
  <2> QED
    BY <2>1 DEF StampStep
<1>8. ASSUME RemoveFile, UNCHANGED <<pending, clock, lost>> PROVE StampStep
  BY <1>8 DEF RemoveFile, StampStep
<1>9. ASSUME UNCHANGED <<file, pending, clock, lost>> PROVE StampStep
  BY <1>9 DEF StampStep
<1>10. ASSUME NEW o \in Operators, Operator(o) PROVE StampStep
  BY <1>1, <1>2, <1>3, <1>4, <1>7, <1>8, <1>10 DEF Operator, OperatorWrites, Clear, Procs
<1>11. ASSUME NEW c \in ModelCalls, EnterCall(c) \/ CallSteps(c) PROVE StampStep
  BY <1>5, <1>6, <1>7, <1>9, <1>11 DEF EnterCall, CallSteps, Poll, SdkWrites, Return, Procs
<1>12. CASE EndRun
  BY <1>8, <1>12 DEF EndRun
<1> QED
  BY <1>10, <1>11, <1>12 DEF Next

Event == [type : Kinds, at : Nat \ {NoTime}, edits : Nat]
Track == [known : BOOLEAN, state : FsmStates, edits : Nat, lastInject : Messages \cup {NoMessage},
          paused : Nat, resumed : Nat, inWindow : BOOLEAN]

(* No timestamp is ahead of the clock.                                      *)
StampsPast ==
  \A k \in Kinds :
    /\ Stamp(file.record, k) <= clock
    /\ \A p \in Procs : Stamp(pending[p].base, k) <= clock /\ Stamp(pending[p].record, k) <= clock
    /\ \A i \in DOMAIN events : events[i].at <= clock

(* One that is not written yet is in no other record and was never told.    *)
StampsApart ==
  \A p \in Procs, k \in Kinds :
    Stamps(p, k) =>
      LET t == Stamp(pending[p].record, k)
      IN /\ t # NoTime /\ t # Stamp(file.record, k)
         /\ \A q \in Procs \ {p} : t # Stamp(pending[q].base, k) /\ t # Stamp(pending[q].record, k)
         /\ \A i \in DOMAIN events : events[i].type = k => events[i].at # t

(* Of what the file says, only the last told has been told.                 *)
ToldIsTracked ==
  ~lost => \A i \in DOMAIN events :
    events[i].at = Stamp(file.record, events[i].type) => Stamp(track, events[i].type) = events[i].at

EventInv ==
  /\ events \in Seq(Event) /\ track \in Track
  /\ StampsPast /\ StampsApart /\ ToldIsTracked /\ EventsOnce

LEMMA StampTypes ==
  ASSUME TypeOK, NEW k \in Kinds
  PROVE  /\ Stamp(file.record, k) \in Nat /\ clock \in Nat
         /\ \A p \in Procs : Stamp(pending[p].base, k) \in Nat /\ Stamp(pending[p].record, k) \in Nat
         /\ Stamp(NoWrite.base, k) = NoTime /\ Stamp(NoWrite.record, k) = NoTime
         /\ Stamp(Absent.record, k) = NoTime
<1>1. \A r \in Record : Stamp(r, k) \in Nat
  BY DEF Stamp, Record
<1>2. Stamp(DefaultRecord, k) = NoTime
  BY DEF Stamp, DefaultRecord
<1> QED
  BY <1>1, <1>2 DEF TypeOK, NoWrite, Absent

(* The operators' and the SDK's steps.                                      *)
LEMMA StampStepKeeps ==
  ASSUME TypeOK, TypeOK', EventInv, StampStep, UNCHANGED <<track, events>>
  PROVE  EventInv'
<1>1. events \in Seq(Event) /\ \A i \in DOMAIN events : events[i] \in Event
  BY DEF EventInv
<1>t. ASSUME NEW k \in Kinds
      PROVE  /\ Stamp(file.record, k) \in Nat /\ clock \in Nat
             /\ \A p \in Procs : Stamp(pending[p].base, k) \in Nat
                                 /\ Stamp(pending[p].record, k) \in Nat
             /\ Stamp(NoWrite.base, k) = NoTime /\ Stamp(NoWrite.record, k) = NoTime
             /\ Stamp(Absent.record, k) = NoTime
  BY StampTypes
<1>p. DOMAIN pending = Procs
  BY DEF TypeOK
<1>s. StampsPast /\ StampsApart /\ ToldIsTracked /\ EventsOnce /\ track \in Track
  BY DEF EventInv
<1>2. ASSUME NEW p \in Procs, NEW r \in Record, ReadsFor(p, r)
      PROVE  StampsPast' /\ StampsApart' /\ ToldIsTracked' /\ EventsOnce'
  <2>1. PICK for \in Procs \cup ModelCalls :
          pending' = [pending EXCEPT ![p] = [busy |-> TRUE, base |-> file.record, record |-> r,
                                             for |-> for]]
    BY <1>2 DEF ReadsFor
  <2>2. /\ pending'[p].base = file.record /\ pending'[p].record = r
        /\ \A q \in Procs \ {p} : pending'[q] = pending[q]
    BY <1>p, <2>1
  <2>3. file' = file /\ lost' = lost /\ clock' \in {clock, clock + 1}
    BY <1>2 DEF ReadsFor
  <2>4. ASSUME NEW k \in Kinds
        PROVE  /\ \/ Stamp(r, k) = Stamp(file.record, k)
                  \/ Stamp(r, k) = clock + 1 /\ clock' = clock + 1
               /\ Stamp(file.record, k) <= clock
               /\ \A q \in Procs : Stamp(pending[q].base, k) <= clock
                                   /\ Stamp(pending[q].record, k) <= clock
               /\ \A i \in DOMAIN events : events[i].at <= clock /\ events[i].at \in Nat
    BY <1>1, <1>2, <1>s DEF ReadsFor, StampsPast, Event
  <2>5. StampsPast'
    BY <1>t, <2>2, <2>3, <2>4 DEF StampsPast
  <2>6. StampsApart'
    <3> SUFFICES ASSUME NEW q \in Procs, NEW k \in Kinds, Stamps(q, k)'
                 PROVE  LET t == Stamp(pending'[q].record, k)
                        IN /\ t # NoTime /\ t # Stamp(file'.record, k)
                           /\ \A v \in Procs \ {q} : /\ t # Stamp(pending'[v].base, k)
                                                     /\ t # Stamp(pending'[v].record, k)
                           /\ \A i \in DOMAIN events' : events'[i].type = k => events'[i].at # t
      BY DEF StampsApart
    <3>1. CASE q = p
      <4>1. Stamp(pending'[q].record, k) = clock + 1
        BY <2>2, <2>4, <3>1 DEF Stamps
      <4> QED
        BY <1>t, <2>2, <2>3, <2>4, <3>1, <4>1 DEF NoTime
    <3>2. CASE q # p
      <4>1. Stamps(q, k) /\ pending'[q] = pending[q]
        BY <2>2, <3>2 DEF Stamps
      <4>2. Stamp(pending[q].record, k) # Stamp(r, k)
        BY <1>s, <1>t, <2>4, <4>1 DEF StampsApart
      <4> QED
        BY <1>s, <2>2, <2>3, <3>2, <4>1, <4>2 DEF StampsApart
    <3> QED
      BY <3>1, <3>2
  <2>7. ToldIsTracked' /\ EventsOnce'
    BY <1>s, <2>3 DEF ToldIsTracked, EventsOnce
  <2> QED
    BY <2>5, <2>6, <2>7
<1>3. ASSUME NEW p \in Procs, WritesOf(p)
      PROVE  StampsPast' /\ StampsApart' /\ ToldIsTracked' /\ EventsOnce'
  <2>1. /\ pending'[p] = NoWrite /\ \A q \in Procs \ {p} : pending'[q] = pending[q]
        /\ file'.record = pending[p].record /\ clock' = clock
        /\ lost' = (lost \/ file.record # pending[p].base)
    BY <1>3, <1>p DEF WritesOf
  <2>2. StampsPast'
    BY <1>s, <1>t, <2>1 DEF StampsPast, NoTime
  <2>3. StampsApart'
    <3> SUFFICES ASSUME NEW q \in Procs, NEW k \in Kinds, Stamps(q, k)'
                 PROVE  LET t == Stamp(pending'[q].record, k)
                        IN /\ t # NoTime /\ t # Stamp(file'.record, k)
                           /\ \A v \in Procs \ {q} : /\ t # Stamp(pending'[v].base, k)
                                                     /\ t # Stamp(pending'[v].record, k)
                           /\ \A i \in DOMAIN events' : events'[i].type = k => events'[i].at # t
      BY DEF StampsApart
    <3>1. q # p
      BY <1>t, <2>1 DEF Stamps
    <3>2. Stamps(q, k) /\ pending'[q] = pending[q]
      BY <2>1, <3>1 DEF Stamps
    <3> QED
      BY <1>s, <1>t, <2>1, <3>1, <3>2 DEF StampsApart
  <2>4. ToldIsTracked'
    <3> SUFFICES ASSUME ~lost', NEW i \in DOMAIN events,
                        events[i].at = Stamp(file'.record, events[i].type)
                 PROVE  Stamp(track, events[i].type) = events[i].at
      BY DEF ToldIsTracked
    <3>1. ~lost /\ file.record = pending[p].base /\ events[i].type \in Kinds
      BY <1>1, <2>1 DEF Event
    <3>2. ~Stamps(p, events[i].type)
      BY <1>s, <2>1, <3>1 DEF StampsApart
    <3> QED
      BY <1>s, <2>1, <3>1, <3>2 DEF Stamps, ToldIsTracked
  <2>5. EventsOnce'
    BY <1>s, <2>1 DEF EventsOnce
  <2> QED
    BY <2>2, <2>3, <2>4, <2>5
<1>4. ASSUME UNCHANGED <<pending, clock, lost>>, file' = Absent \/ file' = file
      PROVE  StampsPast' /\ StampsApart' /\ ToldIsTracked' /\ EventsOnce'
  <2>1. StampsPast'
    BY <1>4, <1>s, <1>t DEF StampsPast, NoTime
  <2>2. StampsApart'
    BY <1>4, <1>s, <1>t DEF StampsApart, Stamps
  <2>3. ToldIsTracked' /\ EventsOnce'
    <3>1. \A i \in DOMAIN events : events[i].at # NoTime /\ events[i].type \in Kinds
      BY <1>1 DEF Event
    <3> QED
      BY <1>4, <1>s, <1>t, <3>1 DEF ToldIsTracked, EventsOnce
  <2> QED
    BY <2>1, <2>2, <2>3
<1> QED
  BY <1>1, <1>2, <1>3, <1>4, <1>s DEF StampStep, EventInv

(* A tick: what pollProbeStates appends.                                    *)
LEMMA PollAppends ==
  ASSUME NEW t \in Track, NEW r \in Record, NEW told \in Seq(Event)
  PROVE  /\ EventsOf(t, r) \in Seq(Event)
         /\ \A i \in DOMAIN (told \o EventsOf(t, r)) :
              LET e == (told \o EventsOf(t, r))[i]
              IN \/ i \in DOMAIN told /\ e = told[i]
                 \/ i \notin DOMAIN told /\ e.type = "paused" /\ NewPause(t, r) /\ e.at = r.paused
                 \/ i \notin DOMAIN told /\ e.type = "resumed" /\ NewResume(t, r)
                    /\ e.at = r.resumed
         /\ \A i, j \in DOMAIN (told \o EventsOf(t, r)) :
              /\ i \notin DOMAIN told /\ j \notin DOMAIN told
              /\ (told \o EventsOf(t, r))[i].type = (told \o EventsOf(t, r))[j].type
              => i = j
<1> DEFINE pause == [type |-> "paused", at |-> r.paused, edits |-> 0]
           resume == [type |-> "resumed", at |-> r.resumed, edits |-> Edits(t, r)]
           new == EventsOf(t, r)
<1>1. Edits(t, r) \in Nat
  BY DEF Edits, Track
<1>2. r.paused \in Nat /\ r.resumed \in Nat
  BY DEF Record
<1>3. NewPause(t, r) => pause \in Event
  BY <1>2 DEF NewPause, Event, Kinds
<1>4. NewResume(t, r) => resume \in Event
  BY <1>1, <1>2 DEF NewResume, Event, Kinds
<1>5. pause.type = "paused" /\ pause.at = r.paused /\ resume.type = "resumed" /\ resume.at = r.resumed
  OBVIOUS
<1> DEFINE first == IF NewPause(t, r) THEN <<pause>> ELSE <<>>
           second == IF NewResume(t, r) THEN <<resume>> ELSE <<>>
<1>6. new = first \o second
  BY DEF EventsOf
<1> HIDE DEF pause, resume, new
<1>7. first \in Seq(Event) /\ second \in Seq(Event)
  BY <1>3, <1>4
<1>f. /\ Len(first) \in 0..1 /\ Len(second) \in 0..1
      /\ \A n \in 1..Len(first) : n = 1 /\ NewPause(t, r) /\ first[n] = pause
      /\ \A n \in 1..Len(second) : n = 1 /\ NewResume(t, r) /\ second[n] = resume
  <2>1. \A e : Len(<<e>>) = 1 /\ <<e>>[1] = e
    OBVIOUS
  <2>2. Len(first) \in 0..1 /\ \A n \in 1..Len(first) : n = 1 /\ NewPause(t, r) /\ first[n] = pause
    <3>1. CASE NewPause(t, r)
      <4>1. first = <<pause>>
        BY <3>1
      <4> QED
        BY <2>1, <3>1, <4>1
    <3>2. CASE ~NewPause(t, r)
      <4>1. first = <<>>
        BY <3>2
      <4> QED
        BY <4>1
    <3> QED
      BY <3>1, <3>2
  <2>3. /\ Len(second) \in 0..1
        /\ \A n \in 1..Len(second) : n = 1 /\ NewResume(t, r) /\ second[n] = resume
    <3>1. CASE NewResume(t, r)
      <4>1. second = <<resume>>
        BY <3>1
      <4> QED
        BY <2>1, <3>1, <4>1
    <3>2. CASE ~NewResume(t, r)
      <4>1. second = <<>>
        BY <3>2
      <4> QED
        BY <4>1
    <3> QED
      BY <3>1, <3>2
  <2> QED
    BY <2>2, <2>3
<1> HIDE DEF first, second
<1>n. /\ new \in Seq(Event) /\ Len(new) = Len(first) + Len(second)
      /\ \A n \in 1..(Len(first) + Len(second)) :
           new[n] = IF n <= Len(first) THEN first[n] ELSE second[n - Len(first)]
  BY <1>6, <1>7, ConcatProperties
<1> DEFINE all == told \o new
<1>8. /\ Len(all) = Len(told) + Len(new) /\ DOMAIN all = 1..Len(all) /\ DOMAIN told = 1..Len(told)
      /\ \A i \in 1..Len(told) : all[i] = told[i]
      /\ \A i \in 1..Len(new) : all[Len(told) + i] = new[i]
  BY <1>n
<1> HIDE DEF all
<1>9. \A i \in DOMAIN all : \/ i \in DOMAIN told /\ all[i] = told[i]
                            \/ /\ i \notin DOMAIN told /\ i - Len(told) \in 1..Len(new)
                               /\ all[i] = new[i - Len(told)]
  <2> SUFFICES ASSUME NEW i \in DOMAIN all, i \notin DOMAIN told
               PROVE  i - Len(told) \in 1..Len(new) /\ all[i] = new[i - Len(told)]
    BY <1>8
  <2>1. i - Len(told) \in 1..Len(new) /\ i = Len(told) + (i - Len(told))
    BY <1>n, <1>8
  <2> QED
    BY <1>8, <2>1
<1>10. \A n \in 1..Len(new) :
          \/ new[n].type = "paused" /\ NewPause(t, r) /\ new[n].at = r.paused
          \/ new[n].type = "resumed" /\ NewResume(t, r) /\ new[n].at = r.resumed
  <2> SUFFICES ASSUME NEW n \in 1..Len(new)
               PROVE  \/ n <= Len(first) /\ new[n] = pause /\ NewPause(t, r)
                      \/ n > Len(first) /\ new[n] = resume /\ NewResume(t, r)
    BY <1>5
  <2>1. CASE n <= Len(first)
    BY <1>f, <1>n, <2>1
  <2>2. CASE n > Len(first)
    <3>1. n - Len(first) \in 1..Len(second) /\ new[n] = second[n - Len(first)]
      BY <1>f, <1>n, <2>2
    <3> QED
      BY <1>f, <2>2, <3>1
  <2> QED
    BY <1>f, <2>1, <2>2
<1>11. \A n, m \in 1..Len(new) : new[n].type = new[m].type => n = m
  <2> SUFFICES ASSUME NEW n \in 1..Len(new), NEW m \in 1..Len(new), new[n].type = new[m].type, n < m
               PROVE  FALSE
    BY <1>f, <1>n
  <2>1. n = 1 /\ m = 2 /\ Len(first) = 1 /\ Len(second) = 1
    BY <1>f, <1>n
  <2>2. new[1] = pause /\ new[2] = resume
    BY <1>f, <1>n, <2>1
  <2> QED
    BY <1>5, <2>1, <2>2
<1>12. \A i, j \in DOMAIN all :
          i \notin DOMAIN told /\ j \notin DOMAIN told /\ all[i].type = all[j].type => i = j
  <2> SUFFICES ASSUME NEW i \in DOMAIN all, NEW j \in DOMAIN all, i \notin DOMAIN told,
                      j \notin DOMAIN told, all[i].type = all[j].type
               PROVE  i = j
    OBVIOUS
  <2>1. i - Len(told) = j - Len(told)
    BY <1>9, <1>11
  <2> QED
    BY <1>8, <2>1
<1>13. \A i \in DOMAIN all :
          \/ i \in DOMAIN told /\ all[i] = told[i]
          \/ i \notin DOMAIN told /\ all[i].type = "paused" /\ NewPause(t, r) /\ all[i].at = r.paused
          \/ i \notin DOMAIN told /\ all[i].type = "resumed" /\ NewResume(t, r)
             /\ all[i].at = r.resumed
  BY <1>9, <1>10
<1> QED
  BY <1>n, <1>12, <1>13 DEF all, new

LEMMA PollKeeps == TypeOK /\ EventInv /\ PollProbeState => EventInv'
<1> SUFFICES ASSUME TypeOK, EventInv, PollProbeState PROVE EventInv'
  OBVIOUS
<1> DEFINE r == file.record
           all == events \o EventsOf(track, r)
<1>1. UNCHANGED <<file, pending, clock, lost>>
  BY DEF PollProbeState, vars
<1>2. events \in Seq(Event) /\ track \in Track /\ r \in Record
  BY DEF EventInv, TypeOK
<1>3. StampsPast /\ StampsApart /\ ToldIsTracked /\ EventsOnce
  BY DEF EventInv
<1>4. \A i \in DOMAIN events : events[i] \in Event
  BY <1>2
<1>5. CASE ~file.exists
  <2>1. track' = NoTrack /\ events' = events
    BY <1>5 DEF PollProbeState
  <2>2. file.record = DefaultRecord
    BY <1>5 DEF TypeOK, Absent
  <2>3. \A k \in Kinds : Stamp(file.record, k) = NoTime
    BY <2>2 DEF Stamp, DefaultRecord
  <2>4. NoTrack \in Track
    BY DEF NoTrack, Track, FsmStates, NoTime
  <2>5. ToldIsTracked'
    BY <1>1, <1>4, <2>1, <2>3 DEF ToldIsTracked, Event
  <2>6. StampsPast' /\ StampsApart' /\ EventsOnce'
    BY <1>1, <1>3, <2>1 DEF StampsPast, StampsApart, Stamps, EventsOnce
  <2> QED
    BY <1>2, <2>1, <2>4, <2>5, <2>6 DEF EventInv
<1>6. CASE file.exists
  <2>1. events' = all
    BY <1>6 DEF PollProbeState
  <2>2. /\ track'.paused = IF NewPause(track, r) THEN r.paused ELSE track.paused
        /\ track'.resumed = IF NewResume(track, r) THEN r.resumed ELSE track.resumed
    BY <1>6 DEF PollProbeState
  <2>3. track' \in Track
    <3>1. Edits(track, r) \in Nat
      BY <1>2 DEF Edits, Track
    <3>2. /\ r.state \in FsmStates /\ r.inject \in Messages \cup {NoMessage}
          /\ r.paused \in Nat /\ r.resumed \in Nat
          /\ track.paused \in Nat /\ track.resumed \in Nat
      BY <1>2 DEF Track, Record
    <3>3. (r.state \in Window) \in BOOLEAN
      OBVIOUS
    <3> DEFINE edits == IF NewResume(track, r) THEN 0 ELSE Edits(track, r)
               paused == IF NewPause(track, r) THEN r.paused ELSE track.paused
               resumed == IF NewResume(track, r) THEN r.resumed ELSE track.resumed
    <3>4. track' = [known |-> TRUE, state |-> r.state, lastInject |-> r.inject, edits |-> edits,
                    paused |-> paused, resumed |-> resumed, inWindow |-> r.state \in Window]
      BY <1>6 DEF PollProbeState
    <3>5. edits \in Nat /\ paused \in Nat /\ resumed \in Nat
      BY <3>1, <3>2
    <3> HIDE DEF edits, paused, resumed
    <3> QED
      BY <3>2, <3>3, <3>4, <3>5 DEF Track
  <2>4. /\ all \in Seq(Event)
        /\ \A i \in DOMAIN all :
             \/ i \in DOMAIN events /\ all[i] = events[i]
             \/ i \notin DOMAIN events /\ all[i].type = "paused" /\ NewPause(track, r)
                /\ all[i].at = r.paused
             \/ i \notin DOMAIN events /\ all[i].type = "resumed" /\ NewResume(track, r)
                /\ all[i].at = r.resumed
        /\ \A i, j \in DOMAIN all :
             i \notin DOMAIN events /\ j \notin DOMAIN events /\ all[i].type = all[j].type => i = j
    BY <1>2, PollAppends
  <2> HIDE DEF all
  \* What is told is told before, or is the file's and is not what was told last.
  <2>5. \A i \in DOMAIN all :
          \/ i \in DOMAIN events /\ all[i] = events[i]
          \/ /\ i \notin DOMAIN events /\ all[i].at = Stamp(r, all[i].type)
             /\ all[i].at # Stamp(track, all[i].type)
             /\ Stamp(track', all[i].type) = all[i].at
    BY <2>2, <2>4 DEF Stamp, NewPause, NewResume
  <2>6. \A i \in DOMAIN all : all[i] \in Event /\ all[i].at # NoTime /\ all[i].type \in Kinds
    <3>1. \A i \in DOMAIN all : all[i] \in Event
      BY <2>4
    <3> QED
      BY <3>1 DEF Event
  <2>7. StampsPast'
    BY <1>1, <1>3, <2>1, <2>5, <2>6 DEF StampsPast
  <2>8. StampsApart'
    BY <1>1, <1>3, <2>1, <2>5, <2>6 DEF StampsApart, Stamps
  <2>9. ToldIsTracked'
    <3> SUFFICES ASSUME ~lost, NEW i \in DOMAIN all, all[i].at = Stamp(r, all[i].type)
                 PROVE  Stamp(track', all[i].type) = all[i].at
      BY <1>1, <2>1 DEF ToldIsTracked
    <3>1. CASE i \in DOMAIN events /\ all[i] = events[i]
      <4>1. Stamp(track, all[i].type) = all[i].at
        BY <1>3, <3>1 DEF ToldIsTracked
      <4> QED
        BY <2>2, <4>1 DEF Stamp, NewPause, NewResume
    <3> QED
      BY <2>5, <3>1
  <2>10. EventsOnce'
    <3> SUFFICES ASSUME ~lost, NEW i \in DOMAIN all, NEW j \in DOMAIN all,
                        all[i].type = all[j].type, all[i].at = all[j].at
                 PROVE  i = j
      BY <1>1, <2>1 DEF EventsOnce
    <3>1. ASSUME NEW m \in DOMAIN events, NEW n \in DOMAIN all, n \notin DOMAIN events,
                 all[m] = events[m], all[m].type = all[n].type, all[m].at = all[n].at
          PROVE  FALSE
      <4>1. all[n].at = Stamp(r, all[n].type) /\ all[n].at # Stamp(track, all[n].type)
        BY <2>5, <3>1
      <4> QED
        BY <1>3, <3>1, <4>1 DEF ToldIsTracked
    <3> QED
      BY <1>3, <2>4, <2>5, <3>1 DEF EventsOnce
  <2> QED
    BY <2>1, <2>3, <2>4, <2>7, <2>8, <2>9, <2>10 DEF EventInv
<1> QED
  BY <1>5, <1>6

(***************************************************************************)
(* pollProbeStates tells no pause and no resume twice, for any operators,   *)
(* calls and ticks, as long as no update of the file was lost.             *)
(***************************************************************************)
THEOREM EventsAreToldOnce == SpecEvents => []EventsOnce
<1>1. SpecEvents => Spec
  <2>1. InitEvents => Init
    BY DEF InitEvents
  <2>2. [NextEvents]_evars => [Next]_vars
    BY DEF NextEvents, PollProbeState, RestartServer, evars
  <2> QED
    BY <2>1, <2>2, PTL DEF SpecEvents, Spec
<1>2. InitEvents => EventInv
  <2> SUFFICES ASSUME InitEvents PROVE EventInv
    OBVIOUS
  <2>1. /\ events = <<>> /\ track = NoTrack /\ file = Absent /\ clock = NoTime
        /\ \A p \in Procs : pending[p] = NoWrite
    BY DEF InitEvents, Init
  <2>2. \A k \in Kinds : Stamp(DefaultRecord, k) = NoTime
    BY DEF Stamp, DefaultRecord
  <2>3. events \in Seq(Event) /\ track \in Track
    BY <2>1 DEF NoTrack, Track, FsmStates, NoTime
  <2>4. StampsPast /\ StampsApart
    BY <2>1, <2>2 DEF StampsPast, StampsApart, Stamps, NoWrite, Absent, NoTime
  <2>5. ToldIsTracked /\ EventsOnce
    BY <2>1 DEF ToldIsTracked, EventsOnce
  <2> QED
    BY <2>3, <2>4, <2>5 DEF EventInv
<1>3. TypeOK /\ TypeOK' /\ EventInv /\ [NextEvents]_evars => EventInv'
  <2> SUFFICES ASSUME TypeOK, TypeOK', EventInv, [NextEvents]_evars PROVE EventInv'
    OBVIOUS
  <2>1. CASE Next /\ UNCHANGED <<track, events>>
    BY <2>1, NextStamps, StampStepKeeps
  <2>2. CASE PollProbeState
    BY <2>2, PollKeeps
  <2>3. CASE RestartServer
    <3>1. UNCHANGED <<file, pending, clock, lost>> /\ track' = NoTrack /\ events' = <<>>
      BY <2>3 DEF RestartServer, vars
    <3>2. events' \in Seq(Event) /\ track' \in Track
      BY <3>1 DEF NoTrack, Track, FsmStates, NoTime
    <3> QED
      BY <3>1, <3>2 DEF EventInv, StampsPast, StampsApart, Stamps, ToldIsTracked, EventsOnce
  <2>4. CASE UNCHANGED evars
    BY <2>4 DEF evars, vars, EventInv, StampsPast, StampsApart, Stamps, ToldIsTracked, EventsOnce
  <2> QED
    BY <2>1, <2>2, <2>3, <2>4 DEF NextEvents
<1>4. EventInv => EventsOnce
  BY DEF EventInv
<1> QED
  BY <1>1, <1>2, <1>3, <1>4, TypeCorrect, PTL DEF SpecEvents
=============================================================================
