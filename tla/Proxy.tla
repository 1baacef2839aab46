------------------------------- MODULE Proxy -------------------------------
(***************************************************************************)
(* The capturing proxy (packages/proxy/src/server.ts, grouping.ts and      *)
(* store-bridge.ts).  It forwards a client's model calls and writes each    *)
(* exchange as a step once the response has ended, off the path of the      *)
(* client: several captures are under way at a time, each awaiting its      *)
(* blobs.  Which run a call belongs to is known only in memory (RunGrouper, *)
(* seenRuns, stepsByRun), the runs and steps are in the store.              *)
(*                                                                          *)
(* An exchange is [prefix, rest, hop, id, seed, msgs, answers, call, result]: *)
(* the path in two parts (the capture path of a dialect, or another; NoName   *)
(* if it is bare) and whether it came from a proxy; the x-meterbility-run-id  *)
(* header or NoId, what the conversation seed hashes, the length of the       *)
(* history, the tool calls whose results it carries, the tool call it         *)
(* responds with or NoCall, how it ends: "ok", "error" (a status from 400),   *)
(* "unparsed".                                                               *)
(***************************************************************************)
EXTENDS StepTable

CONSTANTS Exchanges,    \* the model calls of a behaviour
          Traffic,      \* functions from Exchanges to their records
          Dialect,      \* the registry: the dialect of each provider name
          Builtins,     \* the names registered for the bare paths
          NoName, NoId, NoCall,
          MaxEntries,   \* MAX_ENTRIES of the grouper
          DropCount,    \* how many of the oldest entries an eviction drops
          MaxRestarts,  \* bound: how often the proxy is stopped and started
          MaxPauses     \* bound: how often half an hour passes

ASSUME ProxyConstants ==
  /\ MaxEntries \in Nat \ {0} /\ DropCount \in 1..MaxEntries
  /\ MaxRestarts \in Nat /\ MaxPauses \in Nat

\* The results that a client sends are for calls it was given.
ASSUME TrafficAnswers ==
  \A t \in Traffic : \A e \in Exchanges :
    t[e].answers \in Seq({t[d].call : d \in Exchanges})

VARIABLES
  traffic,   \* what the clients of this behaviour send
  phase,     \* each exchange: where its request or its capture is
  capture,   \* each capture: its run, its sequence, its work left
  entries,   \* RunGrouper.entries in the order of last_seen_ms
  minted,    \* how many run ids the grouper has made
  seen,      \* seenRuns
  calls,     \* stepsByRun: calls whose result has not come, with their step
  runs,      \* the store: runs with their provider label
  steps,     \* the store: the table of steps
  forgotten, \* run ids of grouper entries a restart or an eviction dropped
  restarts, pauses

memory == <<entries, seen, calls>>
store == <<runs, steps>>
vars == <<traffic, phase, capture, memory, minted, store, forgotten, restarts, pauses>>

Request(e) == traffic[e]

-----------------------------------------------------------------------------
(* routes.ts: a bare path is a built-in's capture path, another names its      *)
(* provider; only the capture path of the provider's dialect is captured.      *)
Routes(r) ==
  IF r.prefix = NoName THEN {n \in Builtins : Dialect[n] = r.rest}
  ELSE {r.prefix} \intersect DOMAIN Dialect
Captured(r) == ~r.hop /\ \E n \in Routes(r) : Dialect[n] = r.rest
Provider(r) == CHOOSE n \in Routes(r) : TRUE

-----------------------------------------------------------------------------
NoCapture == [run |-> NoId, seq |-> 0, answers |-> <<>>, row |-> NoId]

-----------------------------------------------------------------------------
(* RunGrouper.                                                             *)

IndexOf(key) == {i \in DOMAIN entries : entries[i].key = key}
Known(key) == IndexOf(key) # {}
Entry(key) == entries[CHOOSE i \in IndexOf(key) : TRUE]
Without(key) ==
  IF Known(key) THEN RemoveAt(entries, CHOOSE i \in IndexOf(key) : TRUE) ELSE entries

\* Mutant of ExplicitKey: ids are not scoped.
UnscopedKey(r) == <<"id", r.id>>

\* An explicit id is the first provider's; another's is scoped to it.
ExplicitKey(r) ==
  LET raw == <<"id", r.id>>
  IN  IF Known(raw) /\ Entry(raw).provider # Provider(r)
      THEN <<"scoped", Provider(r), r.id>> ELSE raw
SeedKey(r) == <<"seed", Provider(r), r.seed>>
KeyOf(r) == IF r.id # NoId THEN ExplicitKey(r) ELSE SeedKey(r)

\* A seed's run goes on within the half hour, while the history has not shrunk.
GoesOn(r) ==
  /\ Known(KeyOf(r))
  /\ r.id # NoId \/ (~Entry(KeyOf(r)).aged /\ r.msgs >= Entry(KeyOf(r)).msgs)

\* The raw id is a run id; the others are made.
FreshRun == <<"run", minted + 1>>
NewRunOf(r) == IF KeyOf(r)[1] = "id" THEN KeyOf(r) ELSE FreshRun

\* The oldest tenth goes when the map has grown too large.
Evict(list) ==
  IF Len(list) <= MaxEntries THEN list ELSE SubSeq(list, DropCount + 1, Len(list))

Used(key, run, r, count) ==
  [key |-> key, run |-> run, provider |-> Provider(r), count |-> count,
   msgs |-> r.msgs, aged |-> FALSE]

\* Mutant of Resolve: a continued run's count is not advanced.
ResolveUncounted(r) ==
  IF GoesOn(r)
  THEN LET x == Entry(KeyOf(r))
       IN  [run |-> x.run, seq |-> x.count, new |-> FALSE,
            entries |-> Append(Without(KeyOf(r)), Used(KeyOf(r), x.run, r, x.count))]
  ELSE [run |-> NewRunOf(r), seq |-> 0, new |-> TRUE,
        entries |-> Evict(Append(Without(KeyOf(r)), Used(KeyOf(r), NewRunOf(r), r, 1)))]

Resolve(r) ==
  IF GoesOn(r)
  THEN LET x == Entry(KeyOf(r))
       IN  [run |-> x.run, seq |-> x.count, new |-> FALSE,
            entries |-> Append(Without(KeyOf(r)), Used(KeyOf(r), x.run, r, x.count + 1))]
  ELSE [run |-> NewRunOf(r), seq |-> 0, new |-> TRUE,
        entries |-> Evict(Append(Without(KeyOf(r)), Used(KeyOf(r), NewRunOf(r), r, 1)))]

-----------------------------------------------------------------------------
(* The capture of an exchange.                                             *)

Refs(run, call) == {c \in calls : c.run = run /\ c.call = call}
Waiting(run, call, refs, table) ==
  {s \in table : \E c \in refs : c.run = run /\ c.call = call /\ c.step = s.id}

\* The loop over the results a request carries, up to the next for a call that
\* waits on a step the store holds: that step is read, its blob is written.
Working(run, seq, answers, refs, table) ==
  LET open == {k \in DOMAIN answers : Waiting(run, answers[k], refs, table) # {}}
  IN  IF open = {} THEN [run |-> run, seq |-> seq, answers |-> <<>>, row |-> NoId]
      ELSE LET k == Min(open)
           IN  [run |-> run, seq |-> seq, answers |-> SubSeq(answers, k, Len(answers)),
                row |-> CHOOSE s \in Waiting(run, answers[k], refs, table) : TRUE]

\* A client sends a result after the response that made the call has reached it.
SendRequest(e) ==
  /\ phase[e] = "new" /\ Captured(Request(e))
  /\ phase' = [phase EXCEPT ![e] = "sent"]
  /\ \A c \in Range(Request(e).answers) :
       \E d \in Exchanges : Request(d).call = c /\ phase[d] \notin {"new", "sent"}
  /\ UNCHANGED <<traffic, capture, memory, minted, store, forgotten, restarts, pauses>>

\* Refused (from a proxy: 508; no route: 404), or passed through: no rows.
PassThrough(e) ==
  /\ phase[e] = "new" /\ ~Captured(Request(e))
  /\ phase' = [phase EXCEPT ![e] = "passed"]
  /\ UNCHANGED <<traffic, capture, memory, minted, store, forgotten, restarts, pauses>>

\* The upstream cannot be reached (the client gets a 502), or resets a stream.
ExchangeFails(e) ==
  /\ phase[e] = "sent"
  /\ phase' = [phase EXCEPT ![e] = "lost"]
  /\ UNCHANGED <<traffic, capture, memory, minted, store, forgotten, restarts, pauses>>

\* ensureRun is for a run this proxy has not made.  Its INSERT throws when the
\* store has the run: the capture is lost, the grouper's entry stays.
Refused(to) == to.new /\ to.run \notin seen /\ \E x \in runs : x.id = to.run
Ensured(to, r) ==
  IF to.new /\ to.run \notin seen THEN runs \union {[id |-> to.run, provider |-> Provider(r)]}
  ELSE runs

ResponseEnds(e) ==
  LET r == Request(e)
      to == Resolve(r)
  IN  /\ phase[e] = "sent"
      /\ entries' = to.entries
      /\ minted' = IF to.new /\ to.run = FreshRun THEN minted + 1 ELSE minted
      /\ forgotten' = forgotten \union
           ({entries[i].run : i \in DOMAIN entries} \ {to.entries[i].run : i \in DOMAIN to.entries})
      /\ IF Refused(to)
         THEN phase' = [phase EXCEPT ![e] = "lost"] /\ UNCHANGED <<capture, seen, runs>>
         ELSE /\ phase' = [phase EXCEPT ![e] = "capture"]
              /\ capture' = [capture EXCEPT ![e] = Working(to.run, to.seq, r.answers, calls, steps)]
              /\ runs' = Ensured(to, r)
              /\ seen' = IF to.new THEN seen \union {to.run} ELSE seen
      /\ UNCHANGED <<traffic, calls, steps, restarts, pauses>>

\* attachToolResult: after its blob is written, the row as it was read goes back
\* with the result as its outcome.
Attached(row, call) == [row EXCEPT !.body.outcome = call]

AttachToolResult(e) ==
  LET c == capture[e]
      call == Head(c.answers)
  IN  /\ phase[e] = "capture" /\ c.row # NoId
      /\ steps' = InsertStep(steps, Attached(c.row, call))
      /\ calls' = calls \ Refs(c.run, call)
      /\ capture' = [capture EXCEPT ![e] =
                       Working(c.run, c.seq, Tail(c.answers), calls', steps')]
      /\ UNCHANGED <<traffic, phase, entries, minted, seen, runs, forgotten, restarts, pauses>>

StepOf(e) ==
  LET r == Request(e)
  IN  [id |-> e, run |-> capture[e].run, seq |-> capture[e].seq,
       body |-> [from |-> e, provider |-> Provider(r), outcome |-> r.result]]

\* Mutant of Registered: a run waits for the result of its last call only.
RegisteredAlone(e) ==
  IF Request(e).result = "ok" /\ Request(e).call # NoCall
  THEN {c \in calls : c.run # capture[e].run} \union
         {[run |-> capture[e].run, call |-> Request(e).call, step |-> e]}
  ELSE calls

\* appendStep, after its blobs: an error is a step without a decision; the
\* call of an ok step waits for its result from then on.
Registered(e) ==
  IF Request(e).result = "ok" /\ Request(e).call # NoCall
  THEN (calls \ Refs(capture[e].run, Request(e).call)) \union
         {[run |-> capture[e].run, call |-> Request(e).call, step |-> e]}
  ELSE calls

AppendStep(e) ==
  /\ phase[e] = "capture" /\ capture[e].row = NoId
  /\ IF Request(e).result = "unparsed"
     THEN phase' = [phase EXCEPT ![e] = "skipped"] /\ UNCHANGED <<steps, calls>>
     ELSE /\ phase' = [phase EXCEPT ![e] = "done"]
          /\ steps' = InsertStep(steps, StepOf(e))
          /\ calls' = Registered(e)
  /\ capture' = [capture EXCEPT ![e] = NoCapture]
  /\ UNCHANGED <<traffic, entries, minted, seen, runs, forgotten, restarts, pauses>>

-----------------------------------------------------------------------------
\* Half an hour without a call: every window has passed.
WindowPasses ==
  /\ pauses < MaxPauses /\ \E i \in DOMAIN entries : ~entries[i].aged
  /\ pauses' = pauses + 1
  /\ entries' = [i \in DOMAIN entries |-> [entries[i] EXCEPT !.aged = TRUE]]
  /\ UNCHANGED <<traffic, phase, capture, minted, seen, calls, store, forgotten, restarts>>

\* The proxy stops (a capture that needs more than the 50 ms of close() is lost,
\* as in a kill) and a new one starts, which knows nothing of what it did.
Restart ==
  /\ restarts < MaxRestarts
  /\ restarts' = restarts + 1
  /\ phase' = [e \in Exchanges |->
                 IF phase[e] \in {"sent", "capture"} THEN "lost" ELSE phase[e]]
  /\ capture' = [e \in Exchanges |-> NoCapture]
  /\ entries' = <<>> /\ seen' = {} /\ calls' = {}
  /\ forgotten' = forgotten \union {entries[i].run : i \in DOMAIN entries}
  /\ UNCHANGED <<traffic, minted, store, pauses>>

ProxyInit ==
  /\ traffic \in Traffic
  /\ phase = [e \in Exchanges |-> "new"]
  /\ capture = [e \in Exchanges |-> NoCapture]
  /\ entries = <<>> /\ minted = 0 /\ seen = {} /\ calls = {}
  /\ runs = {} /\ steps = {} /\ forgotten = {} /\ restarts = 0 /\ pauses = 0

CaptureStep(e) == AttachToolResult(e) \/ AppendStep(e)

ProxyNext ==
  \/ \E e \in Exchanges :
       SendRequest(e) \/ PassThrough(e) \/ ExchangeFails(e) \/ ResponseEnds(e) \/ CaptureStep(e)
  \/ WindowPasses
  \/ Restart

ProxySpec == ProxyInit /\ [][ProxyNext]_vars

-----------------------------------------------------------------------------
\* A run the proxy has not forgotten (no restart or eviction dropped the entry of
\* its id) keeps every exchange captured into it, each in a step of its own and
\* under the provider the run is labelled with, in whatever order the responses
\* end and the captures finish.
ProxyCapturesKept ==
  \A e \in Exchanges : phase[e] = "done" =>
    \/ <<"id", Request(e).id>> \in forgotten
    \/ \E s \in steps, x \in runs :
         /\ s.id = e /\ s.body.from = e /\ x.id = s.run
         /\ x.provider = Provider(Request(e))

\* A result ends up on the step that made the call and on no other, whichever of
\* the captures are under way at a time: until it has come, the call is waited
\* for.  Again a run that was forgotten is excepted: an id that is used anew
\* after an eviction writes over the rows of its run from sequence 0, while the
\* calls of those rows are still waited for, and a late result would go to
\* what a row holds now.
ProxyResultsOnCallers ==
  \A s \in steps :
    LET r == Request(s.body.from)
    IN  \/ s.run \in forgotten
        \/ /\ s.body.outcome \in {r.result, r.call}
           /\ \/ r.call = NoCall \/ r.result # "ok" \/ s.body.outcome = r.call
              \/ [run |-> s.run, call |-> r.call, step |-> s.id] \in calls

\* grouping.ts: "Explicit ids are provider-scoped: the same id sent through two
\* different upstreams yields two Runs, keeping the one-provider-per-run
\* invariant honest."  It is kept by memory alone: after a restart the first
\* provider to use the id continues the run of another.
OneProviderPerRun ==
  \A s \in steps, x \in runs : x.id = s.run => x.provider = s.body.provider
=============================================================================
