------------------------------- MODULE Probe -------------------------------
(***************************************************************************)
(* Live Probe: pausing, nudging and resuming a running agent through one   *)
(* JSON file per run (packages/shared/src/probe.ts).  Operators are        *)
(* `meter probe` processes (packages/cli/src/commands/probe.ts) and the    *)
(* web server's routes (packages/server/src/web.ts); the SDK side runs in  *)
(* the agent before every model call (packages/agent/src/probe.ts, called  *)
(* by traceAnthropic) and removes the file when the run ends (tracer.ts).  *)
(*                                                                         *)
(* Every change of the file is a `mutate`: read, transform, write the      *)
(* whole record.  mutate is synchronous, so within one process nothing     *)
(* comes between its read and its write; another process may, and then its *)
(* change is lost.                                                         *)
(* A record's timestamps are readings of one clock; requested_at_ms and    *)
(* updated_at_ms are only displayed and are left out.                      *)
(***************************************************************************)
EXTENDS Integers, FiniteSets

CONSTANTS
  Operators,   \* operator processes
  ModelCalls,  \* the agent's model calls, each made at most once
  Messages,    \* what operators inject, each queued at most once
  NoMessage,   \* inject: null
  Sdk,         \* the agent's process
  MaxInFlight, \* model calls the agent has under way at once
  MaxOps       \* bound: operator requests

ASSUME ProbeConstants ==
  /\ Sdk \notin Operators /\ NoMessage \notin Messages
  /\ MaxInFlight \in Nat /\ MaxOps \in Nat

VARIABLES
  file,      \* the probe file: whether it exists, and the record readState returns
  pending,   \* [Procs -> the write of the mutate the process is in, or none]
  call,      \* [ModelCalls -> where the call is]
  clock,     \* the last timestamp given
  ops,       \* operator requests so far
  ended,     \* tracer.end() has run
  got,       \* [ModelCalls -> the message appended to its request]
  dropped,   \* history: messages operators threw away
  asked,     \* history: messages written to the file
  holding,   \* history: calls that found the run not running, and what it was
             \* then, until it is resumed
  lost       \* history: some write went over another process's change

vars == <<file, pending, call, clock, ops, ended, got, dropped, asked, holding, lost>>

Procs == Operators \cup {Sdk}
FsmStates == {"running", "pause_requested", "paused"}
Phases == {"idle", "confirm", "poll", "consume", "calling", "done"}
NoTime == 0
Record == [state : FsmStates, inject : Messages \cup {NoMessage}, paused : Nat, resumed : Nat]
DefaultRecord == [state |-> "running", inject |-> NoMessage, paused |-> NoTime, resumed |-> NoTime]
Absent == [exists |-> FALSE, record |-> DefaultRecord]

NoWrite == [busy |-> FALSE, base |-> DefaultRecord, record |-> DefaultRecord, for |-> Sdk]
InFlight == {c \in ModelCalls : call[c] \notin {"idle", "done"}}

-----------------------------------------------------------------------------
(* The transforms, as functions of the current record.                     *)

RequestPause(r) == IF r.state = "running" THEN [r EXCEPT !.state = "pause_requested"] ELSE r

ConfirmPaused(r, t) ==
  IF r.state = "pause_requested" THEN [r EXCEPT !.state = "paused", !.paused = t] ELSE r

RequestResume(r, t) ==
  IF r.state = "running" THEN r ELSE [r EXCEPT !.state = "running", !.resumed = t]

SetInject(r, m) == [r EXCEPT !.inject = m]

(* Mutant of ConsumeInject: the message stays queued.                       *)
PeekInject(r) == r

ConsumeInject(r) == [r EXCEPT !.inject = NoMessage]

-----------------------------------------------------------------------------
Init ==
  /\ file = Absent
  /\ pending = [p \in Procs |-> NoWrite]
  /\ call = [c \in ModelCalls |-> "idle"]
  /\ clock = NoTime /\ ops = 0 /\ ended = FALSE
  /\ got = [c \in ModelCalls |-> NoMessage]
  /\ dropped = {} /\ asked = {} /\ holding = {} /\ lost = FALSE

(* The process is not inside a mutate.                                      *)
Free(p) == ~pending[p].busy

(* The read half of mutate: what it will write is fixed here.               *)
Read(p, next, for) ==
  pending' = [pending EXCEPT ![p] = [busy |-> TRUE, base |-> file.record, record |-> next,
                                     for |-> for]]

(* The write half: rename over the file.  A record that says running lets    *)
(* every held call go.                                                       *)
Write(p) ==
  /\ file' = [exists |-> TRUE, record |-> pending[p].record]
  /\ pending' = [pending EXCEPT ![p] = NoWrite]
  /\ holding' = IF pending[p].record.state = "running" THEN {} ELSE holding
  /\ lost' = (lost \/ file.record # pending[p].base)

(* The message a mutate took out of the record, if it did.                  *)
Taken(p) == {pending[p].base.inject} \ {pending[p].record.inject, NoMessage}

-----------------------------------------------------------------------------
(* Operators                                                               *)

(* requestPause; the run's status is not looked at.                         *)
Pause(o) ==
  /\ Free(o) /\ ops < MaxOps
  /\ Read(o, RequestPause(file.record), o)
  /\ ops' = ops + 1
  /\ UNCHANGED <<file, call, clock, ended, got, dropped, asked, holding, lost>>

(* requestResume; a pending inject stays.                                   *)
Resume(o) ==
  /\ Free(o) /\ ops < MaxOps
  /\ Read(o, RequestResume(file.record, clock + 1), o)
  /\ clock' = clock + 1 /\ ops' = ops + 1
  /\ UNCHANGED <<file, call, ended, got, dropped, asked, holding, lost>>

(* `inject`: refuses when a message is queued, unless forced; then that      *)
(* message is dropped.  A check gone stale before the mutate is like force.  *)
Inject(o, m, force) ==
  /\ Free(o) /\ ops < MaxOps
  /\ m \notin asked /\ \A p \in Procs : pending[p].record.inject # m
  /\ file.record.inject = NoMessage \/ force
  /\ Read(o, SetInject(file.record, m), o)
  /\ ops' = ops + 1
  /\ UNCHANGED <<file, call, clock, ended, got, dropped, asked, holding, lost>>

(* The web route's { clear: true }: consumeInject, the message unread.      *)
DiscardInject(o) ==
  /\ Free(o) /\ ops < MaxOps
  /\ Read(o, ConsumeInject(file.record), o)
  /\ ops' = ops + 1
  /\ UNCHANGED <<file, call, clock, ended, got, dropped, asked, holding, lost>>

(* An operator's write lands.                                               *)
OperatorWrites(o) ==
  /\ pending[o].busy
  /\ Write(o)
  /\ dropped' = dropped \cup Taken(o)
  /\ asked' = asked \cup ({pending[o].record.inject} \ {NoMessage})
  /\ UNCHANGED <<call, clock, ops, ended, got>>

(* clearProbe: the file goes, with whatever it said.                        *)
RemoveFile ==
  /\ file' = Absent
  /\ dropped' = dropped \cup ({file.record.inject} \ {NoMessage})
  /\ holding' = {}

Clear(o) ==
  /\ Free(o) /\ ops < MaxOps
  /\ RemoveFile
  /\ ops' = ops + 1
  /\ UNCHANGED <<pending, call, clock, ended, got, asked, lost>>

-----------------------------------------------------------------------------
(* The SDK: applyProbeToRequest around one model call                       *)

(* Top of the wrapper: readState; only a pause that is requested is waited   *)
(* for.                                                                      *)
EnterCall(c) ==
  /\ Free(Sdk) /\ ~ended
  /\ call[c] = "idle" /\ Cardinality(InFlight) < MaxInFlight
  /\ call' = [call EXCEPT ![c] = IF file.record.state = "pause_requested" THEN "confirm"
                                 ELSE "consume"]
  /\ holding' = holding \cup ({<<c, file.record.state>>} \ {<<c, "running">>})
  /\ UNCHANGED <<file, pending, clock, ops, ended, got, dropped, asked, lost>>

(* confirmPaused                                                            *)
Confirm(c) ==
  /\ Free(Sdk) /\ call[c] = "confirm"
  /\ Read(Sdk, ConfirmPaused(file.record, clock + 1), c)
  /\ clock' = clock + 1
  /\ UNCHANGED <<file, call, ops, ended, got, dropped, asked, holding, lost>>

(* Mutants of Poll: one sleep is enough; only a resume newer than the pause  *)
(* ends the wait.                                                            *)
PollOnce(c) ==
  /\ Free(Sdk) /\ call[c] = "poll"
  /\ call' = [call EXCEPT ![c] = "consume"]
  /\ UNCHANGED <<file, pending, clock, ops, ended, got, dropped, asked, holding, lost>>

PollByTime(c) ==
  /\ Free(Sdk) /\ call[c] = "poll" /\ file.record.resumed > file.record.paused
  /\ call' = [call EXCEPT ![c] = "consume"]
  /\ UNCHANGED <<file, pending, clock, ops, ended, got, dropped, asked, holding, lost>>

(* One turn of the wait loop, after the sleep.                              *)
Poll(c) ==
  /\ Free(Sdk) /\ call[c] = "poll" /\ file.record.state = "running"
  /\ call' = [call EXCEPT ![c] = "consume"]
  /\ UNCHANGED <<file, pending, clock, ops, ended, got, dropped, asked, holding, lost>>

(* consumeInject writes the record back whether or not it took a message.   *)
Consume(c) ==
  /\ Free(Sdk) /\ call[c] = "consume"
  /\ Read(Sdk, ConsumeInject(file.record), c)
  /\ UNCHANGED <<file, call, clock, ops, ended, got, dropped, asked, holding, lost>>

(* The SDK's write lands and its call moves on: from confirmPaused into the  *)
(* wait loop unless the record says running, from consumeInject with the     *)
(* message it returns to the model.                                          *)
SdkWrites(c) ==
  /\ pending[Sdk].busy /\ pending[Sdk].for = c
  /\ Write(Sdk)
  /\ call' = [call EXCEPT ![c] = IF @ = "consume" THEN "calling"
                                 ELSE IF pending[Sdk].record.state = "running" THEN "consume"
                                 ELSE "poll"]
  /\ got' = [got EXCEPT ![c] = IF call[c] = "consume" THEN pending[Sdk].base.inject ELSE @]
  /\ UNCHANGED <<clock, ops, ended, dropped, asked>>

(* The model answers.                                                       *)
Return(c) ==
  /\ call[c] = "calling"
  /\ call' = [call EXCEPT ![c] = "done"]
  /\ UNCHANGED <<file, pending, clock, ops, ended, got, dropped, asked, holding, lost>>

(* tracer.end(), once the agent has nothing in flight.                      *)
EndRun ==
  /\ Free(Sdk) /\ ~ended /\ InFlight = {}
  /\ ended' = TRUE
  /\ RemoveFile
  /\ UNCHANGED <<pending, call, clock, ops, got, asked, lost>>

Operator(o) ==
  \/ Pause(o) \/ Resume(o) \/ DiscardInject(o) \/ OperatorWrites(o) \/ Clear(o)
  \/ \E m \in Messages, force \in BOOLEAN : Inject(o, m, force)

CallSteps(c) == Confirm(c) \/ Poll(c) \/ Consume(c) \/ SdkWrites(c) \/ Return(c)

Next == \/ \E o \in Operators : Operator(o)
        \/ \E c \in ModelCalls : EnterCall(c) \/ CallSteps(c)
        \/ EndRun

Spec == Init /\ [][Next]_vars

(* A started model call runs on, and a process finishes the write it is in.  *)
(* Nothing makes an operator ask, or the agent make another call.            *)
FairSpec == /\ Spec
            /\ \A c \in ModelCalls : WF_vars(CallSteps(c))
            /\ \A o \in Operators : WF_vars(OperatorWrites(o))

-----------------------------------------------------------------------------
(* The state stays within its types, and a file that does not exist reads as *)
(* the default record.                                                       *)
TypeOK ==
  /\ file \in [exists : BOOLEAN, record : Record] /\ (~file.exists => file = Absent)
  /\ pending \in [Procs -> [busy : BOOLEAN, base : Record, record : Record,
                            for : Procs \cup ModelCalls]]
  /\ call \in [ModelCalls -> Phases] /\ got \in [ModelCalls -> Messages \cup {NoMessage}]
  /\ clock \in Nat /\ ops \in 0..MaxOps /\ ended \in BOOLEAN /\ lost \in BOOLEAN
  /\ dropped \in SUBSET Messages /\ asked \in SUBSET Messages
  /\ holding \in SUBSET (ModelCalls \X FsmStates)

(* While no update was lost, an injected message is not lost and not said    *)
(* twice: it waits in the file, or an operator threw it away, or exactly one *)
(* model call got it.                                                        *)
InjectOnce ==
  ~lost => \A m \in asked :
    LET receivers == {c \in ModelCalls : got[c] = m}
    IN /\ Cardinality(receivers) <= 1
       /\ file.record.inject = m \/ m \in dropped \/ receivers # {}
       /\ ~(m \in dropped /\ receivers # {})

(* SPEC-V0_3 4.3, "Pause ... Next startStep() blocks until resume": a call   *)
(* that found a pause requested does not reach the model before the run has  *)
(* been resumed or cleared, whatever updates are lost.                       *)
RequestedCallsWait ==
  \A c \in ModelCalls : <<c, "pause_requested">> \in holding => call[c] # "calling"

(* The same of a call that found the run paused already, as a second call of *)
(* a parallel agent does.                                                    *)
PausedCallsWait == \A h \in holding : call[h[1]] # "calling"

(* The file never shows a pause nobody is in: unless an update was lost,     *)
(* `paused` means some call is really waiting.                               *)
PausedMeansWaiting ==
  (~lost /\ file.record.state = "paused") => \E c \in ModelCalls : call[c] = "poll"

(* Resume works, lost updates or not: once the file says running for good,   *)
(* every waiting call leaves its loop.                                       *)
ResumeReleases ==
  \A c \in ModelCalls :
    <>[](file.record.state = "running") => <>[](call[c] # "poll")
=============================================================================
