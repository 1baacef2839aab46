---------------------------- MODULE ProbeEvents ----------------------------
(***************************************************************************)
(* The live inspector watching one run's probe file                        *)
(* (packages/server/src/live.ts, pollProbeStates): once per tick it reads  *)
(* the file and turns timestamps it has not seen into run:paused and       *)
(* run:resumed events for the SSE clients.  Composed with Probe, whose     *)
(* operators and SDK go through any number of steps between two ticks.     *)
(***************************************************************************)
EXTENDS Probe, Sequences

CONSTANT MaxEvents   \* bound: the polls stop after about this many events

ASSUME EventConstants == MaxEvents \in Nat

VARIABLES
  track,    \* the run's ProbeTrack
  events    \* what the clients have been sent since the server started

evars == <<vars, track, events>>

NoTrack == [known |-> FALSE, state |-> "running", edits |-> 0, lastInject |-> NoMessage,
            paused |-> NoTime, resumed |-> NoTime, inWindow |-> FALSE]

Window == {"pause_requested", "paused"}

(* Injects counted towards the next run:resumed: entering a pause window     *)
(* starts the count with the message then queued; inside one, each message   *)
(* not seen at the last tick adds one.                                       *)
Edits(t, r) ==
  LET queued == r.inject # NoMessage
  IN CASE r.state \in Window /\ ~t.inWindow -> IF queued THEN 1 ELSE 0
       [] r.state \in Window /\ t.inWindow /\ queued /\ r.inject # t.lastInject -> t.edits + 1
       [] OTHER -> t.edits

(* Mutants: the pause is told while the state lasts, or on a state edge.     *)
PauseWhileState(t, r) == r.state = "paused"
PauseOnEdge(t, r) == r.state = "paused" /\ t.state # "paused"

NewPause(t, r) == r.paused # NoTime /\ r.paused # t.paused
NewResume(t, r) == r.resumed # NoTime /\ r.resumed # t.resumed

EventsOf(t, r) ==
  (IF NewPause(t, r) THEN <<[type |-> "paused", at |-> r.paused, edits |-> 0]>> ELSE <<>>)
    \o (IF NewResume(t, r)
        THEN <<[type |-> "resumed", at |-> r.resumed, edits |-> Edits(t, r)]>> ELSE <<>>)

(* A tick: no file, no track; otherwise emit what is new, pause first.       *)
PollProbeState ==
  /\ Len(events) < MaxEvents
  /\ LET r == file.record
     IN IF ~file.exists
        THEN track' = NoTrack /\ UNCHANGED events
        ELSE /\ events' = events \o EventsOf(track, r)
             /\ track' = [known |-> TRUE, state |-> r.state, lastInject |-> r.inject,
                          edits |-> IF NewResume(track, r) THEN 0 ELSE Edits(track, r),
                          paused |-> IF NewPause(track, r) THEN r.paused ELSE track.paused,
                          resumed |-> IF NewResume(track, r) THEN r.resumed ELSE track.resumed,
                          inWindow |-> r.state \in Window]
  /\ UNCHANGED vars

(* The server restarts: its tracks are gone and its clients connect anew.   *)
RestartServer ==
  /\ events # <<>>
  /\ track' = NoTrack /\ events' = <<>>
  /\ UNCHANGED vars

InitEvents == Init /\ track = NoTrack /\ events = <<>>

NextEvents ==
  \/ Next /\ UNCHANGED <<track, events>>
  \/ PollProbeState
  \/ RestartServer

SpecEvents == InitEvents /\ [][NextEvents]_evars

(* The inspector keeps ticking.                                             *)
FairEvents == SpecEvents /\ WF_evars(PollProbeState)

-----------------------------------------------------------------------------
Told(type, at) == \E i \in DOMAIN events : events[i].type = type /\ events[i].at = at

(* "emitted exactly once": one server run tells no pause or resume twice,    *)
(* unless a lost update brought an old timestamp back.                       *)
EventsOnce ==
  ~lost => \A i, j \in DOMAIN events :
    (events[i].type = events[j].type /\ events[i].at = events[j].at) => i = j

(* "a pure state -> state comparison would silently swallow those events":   *)
(* again and again, the file's latest pause and its latest resume have been  *)
(* told, even if whole cycles fall between two ticks.                        *)
LatestIsTold ==
  []<>(/\ file.record.paused = NoTime \/ Told("paused", file.record.paused)
       /\ file.record.resumed = NoTime \/ Told("resumed", file.record.resumed))
=============================================================================
