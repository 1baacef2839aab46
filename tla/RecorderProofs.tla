--------------------------- MODULE RecorderProofs ---------------------------
(***************************************************************************)
(* Proofs about recorders: the proxy, for any traffic, any registry, any      *)
(* size of the grouper's map, and any number of restarts, evictions and half  *)
(* hours; the ingest of Codex rollouts, for any records and any ingests at     *)
(* once; the Agent SDK tracer with the tests that judge its run; and forks,     *)
(* for any edits, models and tools, while their origins go on.               *)
(***************************************************************************)
EXTENDS Proxy, CodexIngest, Regression, Fork, WellFoundedInduction, FiniteSetTheorems, SequenceTheorems, TLAPS

(* A set of numbers that has an element has a least one.                     *)
LEMMA LeastNumber ==
  ASSUME NEW S, S \subseteq Nat, S # {}
  PROVE  \E least \in S : \A m \in S : least <= m
<1> DEFINE R == {ss \in Nat \X Nat : ss[1] < ss[2]}
<1>1. IsWellFoundedOn(R, Nat)
  BY NatLessThanWellFounded DEF OpToRel
<1> HIDE DEF R
<1>2. PICK least \in S : \A m \in S : <<m, least>> \notin R
  BY <1>1, WFMin
<1>3. ASSUME NEW m \in S PROVE least <= m
  <2>1. <<m, least>> \in Nat \X Nat /\ <<m, least>> \notin R
    BY <1>2
  <2>2. ~ (m < least)
    BY <2>1 DEF R
  <2> QED
    BY <2>2
<1> QED
  BY <1>3

LEMMA LeastIsIn ==
  ASSUME NEW S, S \subseteq Nat, S # {}
  PROVE  Min(S) \in S
BY LeastNumber DEF Min

(***************************************************************************)
(* Runs, entries, rows                                                     *)
(***************************************************************************)
Phases == {"new", "sent", "passed", "capture", "done", "skipped", "lost"}
Ids == {Request(e).id : e \in Exchanges}
Seeds == {Request(e).seed : e \in Exchanges}
CallNames == {Request(e).call : e \in Exchanges}
Providers == {Provider(Request(e)) : e \in Exchanges}
Outcomes == {Request(e).result : e \in Exchanges} \union CallNames

IdRuns == {"id"} \X Ids
Made == {"run"} \X (1..minted)
RunsSoFar == IdRuns \union Made

EntryKeys ==
  IdRuns \union ({"scoped"} \X Providers \X Ids) \union ({"seed"} \X Providers \X Seeds)
EntryRows(named) ==
  [key : EntryKeys, run : named, provider : Providers, count : Nat \ {0},
   msgs : {Request(e).msgs : e \in Exchanges}, aged : BOOLEAN]
StepRows ==
  [id : Exchanges, run : RunsSoFar, seq : Nat,
   body : [from : Exchanges, provider : Providers, outcome : Outcomes]]

ProxyTypes ==
  /\ traffic \in Traffic
  /\ phase \in [Exchanges -> Phases]
  /\ DOMAIN capture = Exchanges
  /\ entries \in Seq(EntryRows(RunsSoFar))
  /\ minted \in Nat
  /\ seen \subseteq RunsSoFar
  /\ calls \subseteq [run : RunsSoFar, call : CallNames, step : Exchanges]
  /\ runs \subseteq [id : RunsSoFar, provider : Providers]
  /\ steps \subseteq StepRows

(* Every entry has a key and a run of its own; a raw id is its run, and      *)
(* another key is of one provider.                                         *)
Apart(list) ==
  \A i, j \in DOMAIN list :
    list[i].key = list[j].key \/ list[i].run = list[j].run => i = j
NamedAfter(x) ==
  IF x.key[1] = "id" THEN x.run = x.key
  ELSE x.run[1] = "run" /\ x.key[2] = x.provider
EntriesNamed == Apart(entries) /\ \A x \in Range(entries) : NamedAfter(x)

(* A run that is anywhere has an entry, or had one that was dropped.         *)
Busy(e) == phase[e] = "capture"
RunsOf(list) == {x.run : x \in Range(list)}
Held(u) == u \in forgotten \/ u \in RunsOf(entries)
RunsHeld ==
  /\ \A x \in runs : Held(x.id)
  /\ \A u \in seen : Held(u)
  /\ \A s \in steps : Held(s.run)
  /\ \A e \in Exchanges : Busy(e) => Held(capture[e].run)

(* A made run is never made again; a raw id may be used anew once its entry  *)
(* was dropped.                                                            *)
Safe(u) == u \notin forgotten \/ u[1] = "run"
Owns(e, u) == u \in {<<"id", Request(e).id>>} \union Made
Labelled(u, e) == [id |-> u, provider |-> Provider(Request(e))] \in runs

CapturesMeant ==
  \A e \in Exchanges : Busy(e) =>
    /\ Owns(e, capture[e].run) /\ capture[e].seq \in Nat
    /\ capture[e].answers \in Seq(CallNames)
    /\ Safe(capture[e].run) => Labelled(capture[e].run, e)

(* An entry counts what its run has, the captures under way included.        *)
CountsAhead ==
  \A x \in Range(entries) : Safe(x.run) =>
    /\ [id |-> x.run, provider |-> x.provider] \in runs
    /\ \A s \in steps : s.run = x.run => s.seq < x.count
    /\ \A e \in Exchanges : Busy(e) /\ capture[e].run = x.run => capture[e].seq < x.count

(* So the slot a capture will write is its own.                            *)
SlotsApart ==
  \A e \in Exchanges : Busy(e) /\ Safe(capture[e].run) =>
    /\ \A d \in Exchanges \ {e} :
         Busy(d) /\ capture[d].run = capture[e].run => capture[d].seq # capture[e].seq
    /\ \A s \in steps : s.run = capture[e].run => s.seq # capture[e].seq

(* And the step that was written stays the exchange's.                      *)
StepStands(s) ==
  /\ phase[s.id] = "done" /\ Owns(s.id, s.run)
  /\ Safe(s.run) => s.body.from = s.id /\ Labelled(s.run, s.id)
StepsStand ==
  /\ \A r, s \in steps : r.id = s.id => r = s
  /\ \A s \in steps : StepStands(s)
  /\ \A e \in Exchanges : phase[e] = "done" =>
       <<"id", Request(e).id>> \in forgotten \/ \E s \in steps : s.id = e

(* The row a capture has read is, but for its outcome, still the table's, and *)
(* made the call whose result is to be attached.                            *)
SamePlace(r, s) == s.id = r.id /\ s.run = r.run /\ s.seq = r.seq
RowRead(row, run, answers) ==
  /\ row \in StepRows /\ row.run = run
  /\ \E s \in steps : SamePlace(row, s)
  /\ Safe(row.run) => row.body.from = row.id
  /\ answers # <<>> /\ Request(row.id).call = Head(answers)
RowsRead ==
  \A e \in Exchanges : Busy(e) /\ capture[e].row # NoId =>
    RowRead(capture[e].row, capture[e].run, capture[e].answers)

(* A call that is waited for is the call of its step.                        *)
CallsPoint ==
  \A c \in calls :
    /\ phase[c.step] = "done" /\ Request(c.step).call = c.call
    /\ \A s \in steps : s.id = c.step => s.run = c.run

ProxyInv ==
  /\ ProxyTypes /\ EntriesNamed /\ RunsHeld /\ CapturesMeant /\ CountsAhead
  /\ SlotsApart /\ StepsStand /\ RowsRead /\ CallsPoint

(***************************************************************************)
(* The grouper                                                             *)
(***************************************************************************)
LEMMA WithoutOne ==
  ASSUME NEW S, NEW s \in Seq(S), NEW i \in DOMAIN s
  PROVE  /\ RemoveAt(s, i) \in Seq(S)
         /\ Len(RemoveAt(s, i)) = Len(s) - 1
         /\ \A j \in 1..(Len(s) - 1) :
              RemoveAt(s, i)[j] = s[IF j < i THEN j ELSE j + 1]
<1> DEFINE a == SubSeq(s, 1, i - 1)
           b == SubSeq(s, i + 1, Len(s))
<1>1. i \in 1..Len(s) /\ Len(s) \in Nat
  OBVIOUS
<1>2. a \in Seq(S) /\ Len(a) = i - 1 /\ \A j \in 1..(i - 1) : a[j] = s[j]
  BY <1>1, SubSeqProperties
<1>3. b \in Seq(S) /\ Len(b) = Len(s) - i /\ \A j \in 1..(Len(s) - i) : b[j] = s[i + j]
  BY <1>1, SubSeqProperties
<1> HIDE DEF a, b
<1>4. /\ a \o b \in Seq(S) /\ Len(a \o b) = Len(a) + Len(b)
      /\ \A j \in 1..(Len(a) + Len(b)) :
           (a \o b)[j] = IF j <= Len(a) THEN a[j] ELSE b[j - Len(a)]
  BY <1>2, <1>3, ConcatProperties
<1>5. RemoveAt(s, i) = a \o b
  BY DEF RemoveAt, a, b
<1>6. ASSUME NEW j \in 1..(Len(s) - 1)
      PROVE  (a \o b)[j] = s[IF j < i THEN j ELSE j + 1]
  <2>1. CASE j < i
    BY <1>1, <1>2, <1>3, <1>4, <2>1
  <2>2. CASE ~ (j < i)
    <3>1. j \in Nat /\ i \in Nat /\ Len(a) = i - 1 /\ i <= j /\ j <= Len(s) - 1
      BY <1>1, <1>2, <2>2
    <3>2. j \in 1..(Len(a) + Len(b)) /\ ~ (j <= Len(a))
      BY <1>1, <1>3, <3>1
    <3>3. (a \o b)[j] = b[j - Len(a)]
      BY <1>4, <3>2
    <3>4. j - Len(a) \in 1..(Len(s) - i) /\ i + (j - Len(a)) = j + 1
      BY <1>1, <3>1
    <3>5. b[j - Len(a)] = s[i + (j - Len(a))]
      BY <1>3, <3>4
    <3> QED
      BY <2>2, <3>3, <3>4, <3>5
  <2> QED
    BY <2>1, <2>2
<1>7. Len(a \o b) = Len(s) - 1
  BY <1>1, <1>2, <1>3, <1>4
<1> QED
  BY <1>4, <1>5, <1>6, <1>7

LEMMA WithoutKey ==
  ASSUME ProxyTypes, EntriesNamed, NEW key
  PROVE  /\ Without(key) \in Seq(EntryRows(RunsSoFar)) /\ Apart(Without(key))
         /\ \A x \in Range(Without(key)) : x \in Range(entries) /\ x.key # key
<1>1. entries \in Seq(EntryRows(RunsSoFar)) /\ Apart(entries)
  BY DEF ProxyTypes, EntriesNamed
<1>2. CASE ~Known(key)
  <2>1. Without(key) = entries /\ \A i \in DOMAIN entries : entries[i].key # key
    BY <1>2 DEF Without, Known, IndexOf
  <2> QED
    BY <1>1, <2>1 DEF Range
<1>3. CASE Known(key)
  <2> DEFINE at == CHOOSE i \in IndexOf(key) : TRUE
             w == RemoveAt(entries, at)
  <2>1. at \in IndexOf(key)
    BY <1>3 DEF Known
  <2>2. at \in DOMAIN entries /\ entries[at].key = key
    BY <2>1 DEF IndexOf
  <2>3. Without(key) = w
    BY <1>3 DEF Without
  <2> HIDE DEF at
  <2>4. /\ w \in Seq(EntryRows(RunsSoFar)) /\ Len(w) = Len(entries) - 1
        /\ \A j \in 1..(Len(entries) - 1) : w[j] = entries[IF j < at THEN j ELSE j + 1]
    BY <1>1, <2>2, WithoutOne
  <2> HIDE DEF w
  <2>5. Len(entries) \in Nat /\ DOMAIN entries = 1..Len(entries) /\ DOMAIN w = 1..(Len(entries) - 1)
    BY <1>1, <2>4
  <2> DEFINE From(j) == IF j < at THEN j ELSE j + 1
  <2>6. \A j \in DOMAIN w : From(j) \in DOMAIN entries /\ From(j) # at /\ w[j] = entries[From(j)]
    BY <2>2, <2>4, <2>5
  <2>7. \A i, j \in DOMAIN w : From(i) = From(j) => i = j
    BY <2>2, <2>5
  <2> HIDE DEF From
  <2>8. Apart(w)
    BY <1>1, <2>6, <2>7 DEF Apart
  <2>9. ASSUME NEW j \in DOMAIN w PROVE w[j] \in Range(entries) /\ w[j].key # key
    <3>1. From(j) \in DOMAIN entries /\ From(j) # at /\ w[j] = entries[From(j)]
      BY <2>6
    <3>2. w[j] \in Range(entries)
      BY <3>1 DEF Range
    <3> QED
      BY <1>1, <2>2, <3>1, <3>2 DEF Apart
  <2> QED
    BY <2>3, <2>4, <2>8, <2>9 DEF Range
<1> QED
  BY <1>2, <1>3

LEMMA EntryOfKey ==
  ASSUME ProxyTypes, EntriesNamed, NEW key, Known(key)
  PROVE  /\ Entry(key) \in Range(entries) /\ Entry(key).key = key
         /\ Entry(key) \in EntryRows(RunsSoFar) /\ NamedAfter(Entry(key))
<1> DEFINE at == CHOOSE i \in IndexOf(key) : TRUE
<1>1. at \in IndexOf(key)
  BY DEF Known
<1>2. at \in DOMAIN entries /\ entries[at].key = key /\ Entry(key) = entries[at]
  BY <1>1 DEF IndexOf, Entry
<1> HIDE DEF at
<1>3. Entry(key) \in Range(entries)
  BY <1>2 DEF Range
<1>4. entries[at] \in EntryRows(RunsSoFar)
  BY <1>2 DEF ProxyTypes
<1> QED
  BY <1>2, <1>3, <1>4 DEF EntriesNamed

(* A newest entry with a key and a run of its own.                           *)
LEMMA NewestApart ==
  ASSUME NEW S, NEW list \in Seq(S), NEW x \in S, Apart(list),
         \A y \in Range(list) : y.key # x.key /\ y.run # x.run
  PROVE  /\ Append(list, x) \in Seq(S) /\ Apart(Append(list, x))
         /\ Len(Append(list, x)) = Len(list) + 1 /\ Append(list, x)[Len(list) + 1] = x
         /\ Range(Append(list, x)) = Range(list) \union {x}
<1> DEFINE a == Append(list, x)
<1>1. /\ a \in Seq(S) /\ Len(a) = Len(list) + 1 /\ Len(list) \in Nat
      /\ \A i \in 1..Len(list) : a[i] = list[i]
      /\ a[Len(list) + 1] = x
  BY AppendProperties
<1> HIDE DEF a
<1>2. DOMAIN a = 1..(Len(list) + 1) /\ DOMAIN list = 1..Len(list)
  BY <1>1
<1>3. \A i \in 1..Len(list) : a[i].key # x.key /\ a[i].run # x.run
  BY <1>1, <1>2 DEF Range
<1>4. ASSUME NEW i \in DOMAIN a, NEW j \in DOMAIN a, a[i].key = a[j].key \/ a[i].run = a[j].run
      PROVE  i = j
  <2>1. CASE i \in 1..Len(list) /\ j \in 1..Len(list)
    BY <1>1, <1>2, <1>4, <2>1 DEF Apart
  <2>2. CASE i = Len(list) + 1 \/ j = Len(list) + 1
    <3>1. i \in 1..Len(list) \/ i = Len(list) + 1
      BY <1>1, <1>2
    <3>2. j \in 1..Len(list) \/ j = Len(list) + 1
      BY <1>1, <1>2
    <3> QED
      BY <1>1, <1>3, <1>4, <2>2, <3>1, <3>2
  <2> QED
    BY <1>1, <1>2, <2>1, <2>2
<1>5. Apart(a)
  BY <1>4 DEF Apart
<1>6. Range(a) \subseteq Range(list) \union {x}
  <2> SUFFICES ASSUME NEW i \in DOMAIN a PROVE a[i] \in Range(list) \union {x}
    BY DEF Range
  <2>1. i \in 1..Len(list) \/ i = Len(list) + 1
    BY <1>1, <1>2
  <2>2. i \in 1..Len(list) => a[i] \in Range(list)
    BY <1>1, <1>2 DEF Range
  <2> QED
    BY <1>1, <2>1, <2>2
<1>7. Range(list) \union {x} \subseteq Range(a)
  <2>1. Len(list) + 1 \in DOMAIN a
    BY <1>1, <1>2
  <2>2. x \in Range(a)
    BY <1>1, <2>1 DEF Range
  <2>3. ASSUME NEW i \in DOMAIN list PROVE list[i] \in Range(a)
    <3>1. i \in DOMAIN a /\ a[i] = list[i]
      BY <1>1, <1>2
    <3> QED
      BY <3>1 DEF Range
  <2> QED
    BY <2>2, <2>3 DEF Range
<1> QED
  BY <1>1, <1>5, <1>6, <1>7 DEF a

(* An eviction keeps the newest.                                           *)
LEMMA NewestStays ==
  ASSUME NEW S, NEW list \in Seq(S), list # <<>>, Apart(list)
  PROVE  /\ Evict(list) \in Seq(S) /\ Apart(Evict(list))
         /\ Range(Evict(list)) \subseteq Range(list)
         /\ list[Len(list)] \in Range(Evict(list))
<1>1. Len(list) \in Nat /\ Len(list) > 0 /\ DOMAIN list = 1..Len(list)
  OBVIOUS
<1>2. CASE Len(list) <= MaxEntries
  <2>1. Evict(list) = list
    BY <1>2 DEF Evict
  <2> QED
    BY <1>1, <2>1 DEF Range
<1>3. CASE ~ (Len(list) <= MaxEntries)
  <2> DEFINE w == SubSeq(list, DropCount + 1, Len(list))
  <2>1. DropCount \in Nat /\ MaxEntries \in Nat /\ DropCount <= MaxEntries
    BY ProxyConstants
  <2>2. DropCount < Len(list)
    BY <1>1, <1>3, <2>1
  <2>3. /\ w \in Seq(S) /\ Len(w) = Len(list) - DropCount
        /\ \A j \in 1..(Len(list) - DropCount) : w[j] = list[DropCount + j]
    <3>1. \A i \in (DropCount + 1)..Len(list) : list[i] \in S
      BY <1>1, <2>1
    <3>2. DropCount + 1 \in 1..Len(list) /\ Len(list) \in 1..Len(list)
      BY <1>1, <2>1, <2>2
    <3> QED
      BY <1>1, <2>1, <2>2, <3>1, <3>2, SubSeqProperties
  <2>4. Evict(list) = w
    BY <1>3 DEF Evict
  <2> HIDE DEF w
  <2>5. /\ DOMAIN w = 1..(Len(list) - DropCount)
        /\ \A j \in DOMAIN w : DropCount + j \in DOMAIN list /\ w[j] = list[DropCount + j]
    BY <1>1, <2>1, <2>2, <2>3
  <2>6. Apart(w)
    <3> SUFFICES ASSUME NEW i \in DOMAIN w, NEW j \in DOMAIN w,
                        w[i].key = w[j].key \/ w[i].run = w[j].run
                 PROVE  i = j
      BY DEF Apart
    <3>1. DropCount + i = DropCount + j
      BY <2>5 DEF Apart
    <3> QED
      BY <1>1, <2>1, <2>5, <3>1
  <2>7. Range(w) \subseteq Range(list)
    BY <2>5 DEF Range
  <2>8. Len(list) - DropCount \in DOMAIN w
    BY <1>1, <2>1, <2>2, <2>5
  <2>9. DropCount + (Len(list) - DropCount) = Len(list)
    BY <1>1, <2>1
  <2>10. w[Len(list) - DropCount] = list[Len(list)]
    BY <2>5, <2>8, <2>9
  <2> QED
    BY <2>3, <2>4, <2>6, <2>7, <2>8, <2>10 DEF Range
<1> QED
  BY <1>2, <1>3

(* The key of a call is the raw id, unless another provider has that, or names *)
(* the provider.                                                           *)
LEMMA KeyOfCall ==
  ASSUME ProxyTypes, EntriesNamed, NEW e \in Exchanges
  PROVE  LET r == Request(e)
             key == KeyOf(r)
         IN  /\ key \in EntryKeys
             /\ key[1] = "id" => key = <<"id", r.id>>
             /\ key[1] # "id" => key[2] = Provider(r)
             /\ Known(key) => Entry(key).provider = Provider(r)
<1> DEFINE r == Request(e)
           raw == <<"id", r.id>>
<1>1. r.id \in Ids /\ r.seed \in Seeds /\ Provider(r) \in Providers
  BY DEF Ids, Seeds, Providers
<1>2. CASE r.id # NoId /\ ~(Known(raw) /\ Entry(raw).provider # Provider(r))
  <2>1. KeyOf(r) = raw
    BY <1>2 DEF KeyOf, ExplicitKey
  <2> HIDE DEF r
  <2>2. raw \in EntryKeys /\ raw[1] = "id"
    BY <1>1 DEF EntryKeys, IdRuns
  <2> QED
    BY <1>2, <2>1, <2>2 DEF r
<1>3. ASSUME NEW key, key \in EntryKeys, key[1] # "id", key[2] = Provider(r), KeyOf(r) = key
      PROVE  Known(key) => Entry(key).provider = Provider(r)
  BY <1>3, EntryOfKey DEF NamedAfter
<1>4. CASE r.id # NoId /\ Known(raw) /\ Entry(raw).provider # Provider(r)
  <2> DEFINE key == <<"scoped", Provider(r), r.id>>
  <2>1. KeyOf(r) = key
    BY <1>4 DEF KeyOf, ExplicitKey
  <2> HIDE DEF r
  <2>2. key \in EntryKeys /\ key[1] # "id" /\ key[2] = Provider(r)
    BY <1>1 DEF EntryKeys
  <2> QED
    BY <1>3, <2>1, <2>2 DEF r
<1>5. CASE r.id = NoId
  <2> DEFINE key == <<"seed", Provider(r), r.seed>>
  <2>1. KeyOf(r) = key
    BY <1>5 DEF KeyOf, SeedKey
  <2> HIDE DEF r
  <2>2. key \in EntryKeys /\ key[1] # "id" /\ key[2] = Provider(r)
    BY <1>1 DEF EntryKeys
  <2> QED
    BY <1>3, <2>1, <2>2 DEF r
<1> QED
  BY <1>2, <1>4, <1>5

(* What a call is resolved to: the run of its entry at the entry's count, or   *)
(* a run that no entry has at 0; and the entry counts the call.               *)
NextRuns == RunsSoFar \union {FreshRun}
Counted(to, e) ==
  \E x \in Range(to.entries) :
    /\ x.run = to.run /\ x.provider = Provider(Request(e)) /\ x.count = to.seq + 1
    /\ NamedAfter(x)
    /\ \A y \in Range(to.entries) \ {x} : y \in Range(entries) /\ y.run # to.run
Continued(to, e) ==
  \E y \in Range(entries) :
    y.run = to.run /\ y.provider = Provider(Request(e)) /\ y.count = to.seq
Resolved(to, e) ==
  /\ to.entries \in Seq(EntryRows(NextRuns)) /\ Apart(to.entries)
  /\ to.seq \in Nat /\ to.new \in BOOLEAN
  /\ to.run \in {<<"id", Request(e).id>>, FreshRun} \union Made
  /\ Counted(to, e)
  /\ IF to.new THEN /\ to.run \in {<<"id", Request(e).id>>, FreshRun} /\ to.seq = 0
                    /\ to.run \notin RunsOf(entries)
     ELSE Continued(to, e)

LEMMA MoreRuns ==
  ASSUME NEW list \in Seq(EntryRows(RunsSoFar))
  PROVE  list \in Seq(EntryRows(NextRuns))
<1>1. EntryRows(RunsSoFar) \subseteq EntryRows(NextRuns)
  BY DEF EntryRows, NextRuns
<1> QED
  BY <1>1, SeqMonotonic

LEMMA CallResolved ==
  ASSUME ProxyTypes, EntriesNamed, NEW e \in Exchanges
  PROVE  Resolved(Resolve(Request(e)), e)
<1> DEFINE r == Request(e)
           key == KeyOf(r)
           w == Without(key)
           to == Resolve(r)
<1>1. /\ key \in EntryKeys
      /\ key[1] = "id" => key = <<"id", r.id>>
      /\ key[1] # "id" => key[2] = Provider(r)
      /\ Known(key) => Entry(key).provider = Provider(r)
  BY KeyOfCall
<1>2. /\ w \in Seq(EntryRows(RunsSoFar)) /\ Apart(w)
      /\ \A x \in Range(w) : x \in Range(entries) /\ x.key # key
  BY WithoutKey
<1>3. w \in Seq(EntryRows(NextRuns))
  BY <1>2, MoreRuns
<1>4. Provider(r) \in Providers /\ r.msgs \in {Request(d).msgs : d \in Exchanges}
  BY DEF Providers
<1>5. minted \in Nat /\ FreshRun = <<"run", minted + 1>> /\ FreshRun \notin RunsSoFar
  BY DEF ProxyTypes, FreshRun, RunsSoFar, IdRuns, Made
<1>6. \A x \in Range(entries) : x \in EntryRows(RunsSoFar) /\ NamedAfter(x)
  BY DEF ProxyTypes, EntriesNamed, Range
<1>7. CASE GoesOn(r)
  <2> DEFINE x == Entry(key)
             new == Used(key, x.run, r, x.count + 1)
  <2>1. x \in Range(entries) /\ x.key = key /\ x \in EntryRows(RunsSoFar) /\ NamedAfter(x)
    <3>1. Known(key)
      BY <1>7 DEF GoesOn
    <3> QED
      BY <3>1, EntryOfKey
  <2>2. x.provider = Provider(r)
    BY <1>1, <1>7 DEF GoesOn
  <2>3. to = [run |-> x.run, seq |-> x.count, new |-> FALSE, entries |-> Append(w, new)]
    BY <1>7 DEF Resolve
  <2> HIDE DEF x, r, key, w, to
  <2>4. /\ new = [key |-> key, run |-> x.run, provider |-> Provider(r), count |-> x.count + 1,
                  msgs |-> r.msgs, aged |-> FALSE]
        /\ new \in EntryRows(NextRuns)
    BY <1>1, <1>4, <2>1 DEF Used, EntryRows, NextRuns
  <2> HIDE DEF new
  <2>5. \A y \in Range(w) : y.key # new.key /\ y.run # new.run
    <3> SUFFICES ASSUME NEW y \in Range(w) PROVE y.key # key /\ y.run # x.run
      BY <2>4
    <3>1. y \in Range(entries) /\ y.key # key
      BY <1>2
    <3>2. PICK i \in DOMAIN entries : y = entries[i]
      BY <3>1 DEF Range
    <3>3. PICK j \in DOMAIN entries : x = entries[j]
      BY <2>1 DEF Range
    <3> QED
      BY <2>1, <3>1, <3>2, <3>3 DEF EntriesNamed, Apart
  <2>6. /\ Append(w, new) \in Seq(EntryRows(NextRuns)) /\ Apart(Append(w, new))
        /\ Range(Append(w, new)) = Range(w) \union {new}
    <3>1. w \in Seq(EntryRows(NextRuns)) /\ new \in EntryRows(NextRuns) /\ Apart(w)
      BY <1>2, <1>3, <2>4
    <3> QED
      BY <2>5, <3>1, NewestApart, ZenonT(30)
  <2>7. NamedAfter(new) /\ x.run \in {<<"id", r.id>>} \union Made /\ x.count \in Nat
    <3>1. x.run \in RunsSoFar /\ x.count \in Nat
      BY <2>1 DEF EntryRows
    <3>2. CASE key[1] = "id"
      BY <1>1, <2>1, <2>4, <3>1, <3>2 DEF NamedAfter
    <3>3. CASE key[1] # "id"
      <4>1. x.run[1] = "run"
        BY <2>1, <3>3 DEF NamedAfter
      <4>2. x.run \in Made
        BY <3>1, <4>1 DEF RunsSoFar, IdRuns
      <4> QED
        BY <1>1, <2>4, <3>1, <3>3, <4>1, <4>2 DEF NamedAfter
    <3> QED
      BY <3>2, <3>3
  <2>8. Counted(to, e)
    <3>1. to.entries = Append(w, new) /\ to.run = x.run /\ to.seq = x.count
      BY <2>3
    <3>2. new \in Range(to.entries)
      BY <2>6, <3>1
    <3>3. new.run = to.run /\ new.provider = Provider(Request(e)) /\ new.count = to.seq + 1
      BY <2>4, <3>1 DEF r
    <3>4. \A y \in Range(to.entries) \ {new} : y \in Range(entries) /\ y.run # to.run
      BY <1>2, <2>4, <2>5, <2>6, <3>1
    <3> QED
      BY <2>7, <3>2, <3>3, <3>4 DEF Counted
  <2>9. Continued(to, e)
    BY <2>1, <2>2, <2>3 DEF Continued, r
  <2> QED
    BY <2>3, <2>6, <2>7, <2>8, <2>9 DEF Resolved, r, to
<1>8. CASE ~GoesOn(r)
  <2> DEFINE run == NewRunOf(r)
             new == Used(key, run, r, 1)
             list == Append(w, new)
  <2>1. to = [run |-> run, seq |-> 0, new |-> TRUE, entries |-> Evict(list)]
    BY <1>8 DEF Resolve
  <2>2. run = IF key[1] = "id" THEN key ELSE FreshRun
    BY DEF NewRunOf
  <2>3. key[1] = "id" => ~Known(key)
    <3> SUFFICES ASSUME key[1] = "id" PROVE r.id # NoId
      BY <1>8 DEF GoesOn
    <3>1. CASE r.id = NoId
      <4>1. key = <<"seed", Provider(r), r.seed>>
        BY <3>1 DEF KeyOf, SeedKey
      <4> QED
        BY <4>1
    <3> QED
      BY <3>1
  <2> HIDE DEF run, r, key, w, to
  <2>4. key[1] = "id" => key \in IdRuns
    BY <1>1 DEF EntryKeys
  <2>5. /\ new = [key |-> key, run |-> run, provider |-> Provider(r), count |-> 1,
                  msgs |-> r.msgs, aged |-> FALSE]
        /\ new \in EntryRows(NextRuns)
    BY <1>1, <1>4, <2>2, <2>4 DEF Used, EntryRows, NextRuns, RunsSoFar
  <2> HIDE DEF new
  <2>6. run \notin RunsOf(entries)
    <3> SUFFICES ASSUME NEW y \in Range(entries), y.run = run PROVE FALSE
      BY DEF RunsOf
    <3>1. y \in EntryRows(RunsSoFar) /\ NamedAfter(y)
      BY <1>6
    <3>2. y.run \in RunsSoFar
      BY <3>1 DEF EntryRows
    <3>3. CASE key[1] = "id"
      <4>1. y.run = key /\ y.run[1] # "run"
        BY <2>2, <3>3
      <4>2. y.key = key
        BY <3>1, <4>1 DEF NamedAfter
      <4>3. Known(key)
        BY <4>2 DEF Known, IndexOf, Range
      <4> QED
        BY <2>3, <3>3, <4>3
    <3>4. CASE key[1] # "id"
      BY <1>5, <2>2, <3>2, <3>4
    <3> QED
      BY <3>3, <3>4
  <2>7. \A y \in Range(w) : y.key # new.key /\ y.run # new.run
    BY <1>2, <2>5, <2>6 DEF RunsOf
  <2>8. /\ list \in Seq(EntryRows(NextRuns)) /\ Apart(list)
        /\ Len(list) = Len(w) + 1 /\ list[Len(w) + 1] = new
        /\ Range(list) = Range(w) \union {new}
    <3>1. w \in Seq(EntryRows(NextRuns)) /\ new \in EntryRows(NextRuns) /\ Apart(w)
      BY <1>2, <1>3, <2>5
    <3>2. /\ Append(w, new) \in Seq(EntryRows(NextRuns)) /\ Apart(Append(w, new))
          /\ Len(Append(w, new)) = Len(w) + 1 /\ Append(w, new)[Len(w) + 1] = new
          /\ Range(Append(w, new)) = Range(w) \union {new}
      BY <2>7, <3>1, NewestApart, ZenonT(30)
    <3> QED
      BY <3>2, Zenon DEF list
  <2> HIDE DEF list
  <2>9. list # <<>> /\ list[Len(list)] = new
    BY <2>8
  <2>10. /\ Evict(list) \in Seq(EntryRows(NextRuns)) /\ Apart(Evict(list))
         /\ Range(Evict(list)) \subseteq Range(list) /\ new \in Range(Evict(list))
    BY <2>8, <2>9, NewestStays
  <2>11. NamedAfter(new)
    BY <1>1, <1>5, <2>2, <2>5 DEF NamedAfter
  <2>12. Counted(to, e)
    <3>1. to.entries = Evict(list) /\ to.run = run /\ to.seq = 0
      BY <2>1
    <3>2. new.run = to.run /\ new.provider = Provider(Request(e)) /\ new.count = to.seq + 1
      BY <2>5, <3>1 DEF r
    <3>3. \A y \in Range(to.entries) \ {new} : y \in Range(entries) /\ y.run # to.run
      BY <1>2, <2>5, <2>7, <2>8, <2>10, <3>1
    <3> QED
      BY <2>10, <2>11, <3>1, <3>2, <3>3 DEF Counted
  <2>13. run \in {<<"id", r.id>>, FreshRun}
    BY <1>1, <2>2
  <2> QED
    BY <2>1, <2>6, <2>10, <2>12, <2>13 DEF Resolved, r, to
<1> QED
  BY <1>7, <1>8

(***************************************************************************)
(* The steps keep the invariant                                            *)
(***************************************************************************)

(* The names come from the traffic and the runs that were made.              *)
SameTraffic ==
  /\ traffic' = traffic
  /\ Ids' = Ids /\ Seeds' = Seeds /\ CallNames' = CallNames /\ Providers' = Providers
  /\ Outcomes' = Outcomes /\ EntryKeys' = EntryKeys
  /\ \A d \in Exchanges : Request(d)' = Request(d)
SameNames ==
  /\ SameTraffic /\ minted' = minted /\ RunsSoFar' = RunsSoFar /\ Made' = Made
  /\ EntryRows(RunsSoFar)' = EntryRows(RunsSoFar) /\ StepRows' = StepRows

LEMMA TrafficStays ==
  ASSUME traffic' = traffic
  PROVE  SameTraffic /\ (minted' = minted => SameNames)
<1>1. /\ Ids' = Ids /\ Seeds' = Seeds /\ CallNames' = CallNames /\ Providers' = Providers
      /\ \A d \in Exchanges : Request(d)' = Request(d)
  BY DEF Ids, Seeds, CallNames, Providers, Request
<1>2. Outcomes' = Outcomes /\ EntryKeys' = EntryKeys
  BY <1>1 DEF Outcomes, EntryKeys, IdRuns, Request
<1>3. SameTraffic
  BY <1>1, <1>2 DEF SameTraffic
<1>4. minted' = minted => RunsSoFar' = RunsSoFar /\ Made' = Made
  BY <1>1 DEF RunsSoFar, IdRuns, Made
<1>5. minted' = minted => EntryRows(RunsSoFar)' = EntryRows(RunsSoFar) /\ StepRows' = StepRows
  BY <1>1, <1>2, <1>4 DEF EntryRows, StepRows, Request
<1> QED
  BY <1>3, <1>4, <1>5 DEF SameNames

(* A request that is not, or not yet, captured changes its phase alone.      *)
LEMMA PhaseGoesOn ==
  ASSUME ProxyInv, NEW e \in Exchanges, NEW p \in Phases \ {"capture", "done"},
         phase[e] \notin {"capture", "done"}, phase' = [phase EXCEPT ![e] = p],
         UNCHANGED <<traffic, capture, memory, minted, store, forgotten, restarts, pauses>>
  PROVE  ProxyInv'
<1>1. /\ phase' \in [Exchanges -> Phases]
      /\ \A d \in Exchanges : Busy(d)' = Busy(d) /\ (phase'[d] = "done") = (phase[d] = "done")
  BY DEF ProxyInv, ProxyTypes, Busy
<1>2. /\ traffic' = traffic /\ capture' = capture /\ entries' = entries /\ seen' = seen
      /\ calls' = calls /\ minted' = minted /\ runs' = runs /\ steps' = steps
      /\ forgotten' = forgotten
  BY DEF memory, store
<1>3. SameNames
  BY <1>2, TrafficStays
<1>4. \A d \in Exchanges : Request(d)' = Request(d)
  BY <1>3 DEF SameNames, SameTraffic
<1>5. ProxyTypes'
  BY <1>1, <1>2, <1>3 DEF ProxyInv, ProxyTypes, SameNames, SameTraffic
<1>6. EntriesNamed'
  BY <1>2 DEF ProxyInv, EntriesNamed, Apart, NamedAfter
<1>7. \A u : Held(u)' = Held(u) /\ Safe(u)' = Safe(u)
  BY <1>2 DEF Held, Safe, RunsOf
<1>8. RunsHeld'
  BY <1>1, <1>2, <1>7 DEF ProxyInv, RunsHeld
<1>9. \A d \in Exchanges : \A u : Owns(d, u)' = Owns(d, u) /\ Labelled(u, d)' = Labelled(u, d)
  BY <1>2, <1>3, <1>4 DEF Owns, Labelled, Request, SameNames
<1>10. CapturesMeant'
  BY <1>1, <1>2, <1>3, <1>7, <1>9 DEF ProxyInv, CapturesMeant, SameNames, SameTraffic
<1>11. CountsAhead' /\ SlotsApart'
  BY <1>1, <1>2, <1>7 DEF ProxyInv, CountsAhead, SlotsApart
<1>12. StepsStand'
  <2>1. \A s \in steps : s.id \in Exchanges
    BY DEF ProxyInv, ProxyTypes, StepRows
  <2>2. \A s \in steps : StepStands(s)'
    BY <1>1, <1>2, <1>7, <1>9, <2>1 DEF ProxyInv, StepsStand, StepStands
  <2> QED
    BY <1>1, <1>2, <1>4, <2>2 DEF ProxyInv, StepsStand
<1>13. RowsRead'
  <2>1. ASSUME NEW d \in Exchanges, Busy(d), capture[d].row # NoId
        PROVE  RowRead(capture[d].row, capture[d].run, capture[d].answers)'
    <3>1. RowRead(capture[d].row, capture[d].run, capture[d].answers)
      BY <2>1 DEF ProxyInv, RowsRead
    <3>2. capture[d].row.id \in Exchanges
      BY <3>1 DEF RowRead, StepRows
    <3> QED
      BY <1>2, <1>3, <1>4, <1>7, <3>1, <3>2 DEF RowRead, SamePlace, SameNames
  <2> QED
    BY <1>1, <1>2, <2>1 DEF RowsRead
<1>14. CallsPoint'
  <2>1. \A c \in calls : c.step \in Exchanges
    BY DEF ProxyInv, ProxyTypes
  <2> QED
    BY <1>1, <1>2, <1>4, <2>1 DEF ProxyInv, CallsPoint
<1> QED
  BY <1>5, <1>6, <1>8, <1>10, <1>11, <1>12, <1>13, <1>14 DEF ProxyInv

(* Half an hour makes entries old and changes nothing else of them.          *)
LEMMA WindowKeeps ==
  ASSUME ProxyInv, WindowPasses
  PROVE  ProxyInv'
<1>1. /\ traffic' = traffic /\ capture' = capture /\ phase' = phase /\ seen' = seen
      /\ calls' = calls /\ minted' = minted /\ runs' = runs /\ steps' = steps
      /\ forgotten' = forgotten
      /\ entries' = [i \in DOMAIN entries |-> [entries[i] EXCEPT !.aged = TRUE]]
  BY DEF WindowPasses, store
<1>2. SameNames
  BY <1>1, TrafficStays
<1>3. \A d \in Exchanges : Request(d)' = Request(d) /\ Busy(d)' = Busy(d)
  BY <1>1, <1>2 DEF SameNames, SameTraffic, Busy
<1>4. entries \in Seq(EntryRows(RunsSoFar))
  BY DEF ProxyInv, ProxyTypes
<1>5. ASSUME NEW i \in DOMAIN entries
      PROVE  /\ entries'[i] \in EntryRows(RunsSoFar)
             /\ entries'[i].key = entries[i].key /\ entries'[i].run = entries[i].run
             /\ entries'[i].provider = entries[i].provider
             /\ entries'[i].count = entries[i].count
  <2>1. entries[i] \in EntryRows(RunsSoFar)
    BY <1>4
  <2>2. entries'[i] = [entries[i] EXCEPT !.aged = TRUE]
    BY <1>1
  <2> QED
    BY <2>1, <2>2 DEF EntryRows
<1>6. entries' \in Seq(EntryRows(RunsSoFar)) /\ DOMAIN entries' = DOMAIN entries
  <2>1. DOMAIN entries = 1..Len(entries) /\ Len(entries) \in Nat
    BY <1>4
  <2>2. entries' \in [1..Len(entries) -> EntryRows(RunsSoFar)]
    BY <1>1, <1>5, <2>1
  <2> QED
    BY <1>1, <2>1, <2>2, IsASeq
<1>7. ProxyTypes'
  BY <1>1, <1>2, <1>6 DEF ProxyInv, ProxyTypes, SameNames, SameTraffic
<1>8. RunsOf(entries)' = RunsOf(entries)
  BY <1>5, <1>6 DEF RunsOf, Range
<1>9. ASSUME NEW x \in Range(entries)'
      PROVE  \E y \in Range(entries) : x.key = y.key /\ x.run = y.run /\ x.provider = y.provider
                                         /\ x.count = y.count
  BY <1>5, <1>6 DEF Range
<1>10. EntriesNamed'
  <2>1. Apart(entries)'
    BY <1>5, <1>6 DEF ProxyInv, EntriesNamed, Apart
  <2>2. ASSUME NEW x \in Range(entries)' PROVE NamedAfter(x)'
    BY <1>9 DEF ProxyInv, EntriesNamed, NamedAfter
  <2> QED
    BY <2>1, <2>2 DEF EntriesNamed
<1>11. \A u : Held(u)' = Held(u) /\ Safe(u)' = Safe(u)
  BY <1>1, <1>8 DEF Held, Safe
<1>12. RunsHeld'
  BY <1>1, <1>3, <1>11 DEF ProxyInv, RunsHeld
<1>13. \A d \in Exchanges : \A u : Owns(d, u)' = Owns(d, u) /\ Labelled(u, d)' = Labelled(u, d)
  BY <1>1, <1>2, <1>3 DEF Owns, Labelled, Request, SameNames
<1>14. CapturesMeant'
  BY <1>1, <1>2, <1>3, <1>11, <1>13 DEF ProxyInv, CapturesMeant, SameNames, SameTraffic
<1>15. CountsAhead'
  <2> SUFFICES ASSUME NEW x \in Range(entries)', Safe(x.run)'
               PROVE  /\ [id |-> x.run, provider |-> x.provider] \in runs
                      /\ \A s \in steps : s.run = x.run => s.seq < x.count
                      /\ \A e \in Exchanges :
                           Busy(e) /\ capture[e].run = x.run => capture[e].seq < x.count
    BY <1>1, <1>3 DEF CountsAhead
  <2>1. PICK y \in Range(entries) : x.key = y.key /\ x.run = y.run /\ x.provider = y.provider
                                      /\ x.count = y.count
    BY <1>9
  <2> QED
    BY <1>11, <2>1 DEF ProxyInv, CountsAhead
<1>16. SlotsApart'
  BY <1>1, <1>3, <1>11 DEF ProxyInv, SlotsApart
<1>17. StepsStand'
  <2>1. \A s \in steps : s.id \in Exchanges
    BY DEF ProxyInv, ProxyTypes, StepRows
  <2>2. \A s \in steps : StepStands(s)'
    BY <1>1, <1>11, <1>13, <2>1 DEF ProxyInv, StepsStand, StepStands
  <2> QED
    BY <1>1, <1>3, <2>2 DEF ProxyInv, StepsStand
<1>18. RowsRead'
  <2>1. ASSUME NEW d \in Exchanges, Busy(d), capture[d].row # NoId
        PROVE  RowRead(capture[d].row, capture[d].run, capture[d].answers)'
    <3>1. RowRead(capture[d].row, capture[d].run, capture[d].answers)
      BY <2>1 DEF ProxyInv, RowsRead
    <3>2. capture[d].row.id \in Exchanges
      BY <3>1 DEF RowRead, StepRows
    <3> QED
      BY <1>1, <1>2, <1>3, <1>11, <3>1, <3>2 DEF RowRead, SamePlace, SameNames
  <2> QED
    BY <1>1, <1>3, <2>1 DEF RowsRead
<1>19. CallsPoint'
  <2>1. \A c \in calls : c.step \in Exchanges
    BY DEF ProxyInv, ProxyTypes
  <2> QED
    BY <1>1, <1>3, <2>1 DEF ProxyInv, CallsPoint
<1> QED
  BY <1>7, <1>10, <1>12, <1>14, <1>15, <1>16, <1>17, <1>18, <1>19 DEF ProxyInv

(* A restart forgets all runs that had an entry, and no capture is under way. *)
LEMMA RestartKeeps ==
  ASSUME ProxyInv, Restart
  PROVE  ProxyInv'
<1>1. /\ traffic' = traffic /\ minted' = minted /\ runs' = runs /\ steps' = steps
      /\ entries' = <<>> /\ seen' = {} /\ calls' = {}
      /\ forgotten' = forgotten \union {entries[i].run : i \in DOMAIN entries}
      /\ capture' = [e \in Exchanges |-> NoCapture]
      /\ phase' = [e \in Exchanges |->
                     IF phase[e] \in {"sent", "capture"} THEN "lost" ELSE phase[e]]
  BY DEF Restart, store
<1>2. SameNames
  BY <1>1, TrafficStays
<1>3. /\ phase' \in [Exchanges -> Phases]
      /\ \A d \in Exchanges : ~Busy(d)' /\ (phase'[d] = "done") = (phase[d] = "done")
                                /\ Request(d)' = Request(d)
  BY <1>1, <1>2 DEF ProxyInv, ProxyTypes, Phases, Busy, SameNames, SameTraffic
<1>4. DOMAIN entries' = {} /\ entries' \in Seq(EntryRows(RunsSoFar)) /\ Range(entries)' = {}
  BY <1>1 DEF Range
<1>5. ProxyTypes'
  BY <1>1, <1>2, <1>3, <1>4 DEF ProxyInv, ProxyTypes, SameNames, SameTraffic
<1>6. EntriesNamed'
  BY <1>4 DEF EntriesNamed, Apart
<1>7. \A u : /\ Held(u) => u \in forgotten'
             /\ u \in forgotten => u \in forgotten'
             /\ Safe(u)' => Safe(u)
  BY <1>1 DEF Held, Safe, RunsOf, Range
<1>8. RunsHeld'
  BY <1>1, <1>3, <1>7 DEF ProxyInv, RunsHeld, Held
<1>9. \A d \in Exchanges : \A u : Owns(d, u)' = Owns(d, u) /\ Labelled(u, d)' = Labelled(u, d)
  BY <1>1, <1>2, <1>3 DEF Owns, Labelled, Request, SameNames
<1>10. CapturesMeant' /\ CountsAhead' /\ SlotsApart' /\ RowsRead' /\ CallsPoint'
  BY <1>1, <1>3, <1>4 DEF CapturesMeant, CountsAhead, SlotsApart, RowsRead, CallsPoint
<1>11. StepsStand'
  <2>1. \A s \in steps : s.id \in Exchanges
    BY DEF ProxyInv, ProxyTypes, StepRows
  <2>2. \A s \in steps : StepStands(s)'
    BY <1>1, <1>3, <1>7, <1>9, <2>1 DEF ProxyInv, StepsStand, StepStands
  <2> QED
    BY <1>1, <1>3, <1>7, <2>2 DEF ProxyInv, StepsStand
<1> QED
  BY <1>5, <1>6, <1>8, <1>10, <1>11 DEF ProxyInv

LEMMA ProxyStarts ==
  ASSUME ProxyInit
  PROVE  ProxyInv
<1> USE DEF ProxyInit
<1>1. /\ DOMAIN entries = {} /\ entries \in Seq(EntryRows(RunsSoFar)) /\ Range(entries) = {}
      /\ \A e \in Exchanges : ~Busy(e) /\ phase[e] # "done"
  BY DEF Range, Busy
<1>2. ProxyTypes
  BY <1>1 DEF ProxyTypes, Phases
<1> QED
  BY <1>1, <1>2 DEF ProxyInv, EntriesNamed, Apart, RunsHeld, CapturesMeant, CountsAhead, SlotsApart,
                    StepsStand, RowsRead, CallsPoint

(* What the loop over the results stops at is a row it was given, of the step  *)
(* that waits for the first of the results left.                            *)
LEMMA WorkingReads ==
  ASSUME NEW S, NEW answers \in Seq(S), NEW run, NEW seq, NEW refs, NEW table
  PROVE  LET c == Working(run, seq, answers, refs, table)
         IN  /\ c.run = run /\ c.seq = seq /\ c.answers \in Seq(S)
             /\ \/ c.row = NoId
                \/ /\ c.row \in table /\ c.answers # <<>>
                   /\ \E ref \in refs : ref.run = run /\ ref.call = Head(c.answers)
                                          /\ ref.step = c.row.id
<1> DEFINE open == {k \in DOMAIN answers : Waiting(run, answers[k], refs, table) # {}}
           c == Working(run, seq, answers, refs, table)
<1>1. CASE open = {}
  <2>1. c = [run |-> run, seq |-> seq, answers |-> <<>>, row |-> NoId]
    BY <1>1 DEF Working
  <2> QED
    BY <2>1
<1>2. CASE open # {}
  <2> DEFINE k == Min(open)
             row == CHOOSE s \in Waiting(run, answers[k], refs, table) : TRUE
             rest == SubSeq(answers, k, Len(answers))
  <2>1. c = [run |-> run, seq |-> seq, answers |-> rest, row |-> row]
    BY <1>2 DEF Working
  <2>2. open \subseteq Nat
    OBVIOUS
  <2>3. k \in open
    BY <1>2, <2>2, LeastIsIn
  <2> HIDE DEF k
  <2>4. k \in 1..Len(answers) /\ Len(answers) \in Nat
        /\ Waiting(run, answers[k], refs, table) # {}
    BY <2>3
  <2>5. row \in Waiting(run, answers[k], refs, table)
    BY <2>4
  <2> HIDE DEF row
  <2>6. row \in table /\ \E ref \in refs : ref.run = run /\ ref.call = answers[k] /\ ref.step = row.id
    BY <2>5 DEF Waiting
  <2>7. rest \in Seq(S) /\ rest # <<>> /\ Head(rest) = answers[k]
    <3>1. rest \in Seq(S) /\ Len(rest) = Len(answers) - k + 1
          /\ \A i \in 1..(Len(answers) - k + 1) : rest[i] = answers[k + i - 1]
      BY <2>4, SubSeqProperties
    <3> HIDE DEF rest
    <3>2. Len(rest) > 0 /\ 1 \in 1..(Len(answers) - k + 1) /\ k + 1 - 1 = k
      BY <2>4, <3>1
    <3>3. rest[1] = answers[k]
      BY <3>1, <3>2
    <3> QED
      BY <3>1, <3>2, <3>3
  <2> HIDE DEF rest, open
  <2> QED
    BY <2>1, <2>6, <2>7
<1> QED
  BY <1>1, <1>2

(* The answers of a call are results of calls of the traffic.                *)
LEMMA AnswersTyped ==
  ASSUME ProxyTypes, NEW e \in Exchanges
  PROVE  Request(e).answers \in Seq(CallNames)
<1>1. traffic[e].answers \in Seq({traffic[d].call : d \in Exchanges})
  BY TrafficAnswers DEF ProxyTypes
<1> QED
  BY <1>1 DEF CallNames, Request

(* A run without an entry that is met again was forgotten, and is a raw id.    *)
Met(u) ==
  \/ u \in seen \/ \E x \in runs : x.id = u
  \/ \E s \in steps : s.run = u
  \/ \E e \in Exchanges : Busy(e) /\ capture[e].run = u

LEMMA MetUnsafe ==
  ASSUME ProxyInv, NEW e \in Exchanges, NEW u \in {<<"id", Request(e).id>>, FreshRun},
         u \notin RunsOf(entries), Met(u)
  PROVE  ~Safe(u)
<1>1. Held(u)
  BY DEF Met, ProxyInv, RunsHeld
<1>2. u \in RunsSoFar
  <2>1. \A d \in Exchanges : Busy(d) => capture[d].run \in RunsSoFar
    BY DEF ProxyInv, CapturesMeant, Owns, RunsSoFar, IdRuns, Ids
  <2>2. /\ seen \subseteq RunsSoFar /\ \A x \in runs : x.id \in RunsSoFar
        /\ \A s \in steps : s.run \in RunsSoFar
    BY DEF ProxyInv, ProxyTypes, StepRows
  <2> QED
    BY <2>1, <2>2 DEF Met
<1>3. u # FreshRun
  BY <1>2 DEF ProxyInv, ProxyTypes, FreshRun, RunsSoFar, IdRuns, Made
<1>4. u[1] = "id"
  BY <1>3
<1> QED
  BY <1>1, <1>4 DEF Held, Safe

(* What the end of a response does to the grouper and to the store.           *)
LEMMA ResponseResolved ==
  ASSUME ProxyInv, NEW e \in Exchanges, ResponseEnds(e)
  PROVE  LET to == Resolve(Request(e))
         IN  /\ Resolved(to, e) /\ entries' = to.entries
             /\ minted' \in Nat /\ minted <= minted'
             /\ to.run \in {<<"id", Request(e).id>>} \union Made'
             /\ forgotten' = forgotten \union (RunsOf(entries) \ RunsOf(entries)')
             /\ runs \subseteq runs' /\ seen \subseteq seen' /\ seen' \subseteq seen \union {to.run}
             /\ runs' \subseteq runs \union {[id |-> to.run, provider |-> Provider(Request(e))]}
             /\ IF Refused(to) THEN phase' = [phase EXCEPT ![e] = "lost"] /\ capture' = capture
                ELSE /\ phase' = [phase EXCEPT ![e] = "capture"]
                     /\ capture' = [capture EXCEPT ![e] =
                          Working(to.run, to.seq, Request(e).answers, calls, steps)]
             /\ Refused(to) => ~Safe(to.run)
             /\ ~Refused(to) /\ Safe(to.run) =>
                  [id |-> to.run, provider |-> Provider(Request(e))] \in runs'
<1> DEFINE r == Request(e)
           to == Resolve(r)
           label == [id |-> to.run, provider |-> Provider(r)]
<1>1. Resolved(to, e)
  BY CallResolved DEF ProxyInv
<1>2. /\ entries' = to.entries
      /\ minted' = IF to.new /\ to.run = FreshRun THEN minted + 1 ELSE minted
      /\ forgotten' = forgotten \union
           ({entries[i].run : i \in DOMAIN entries} \ {to.entries[i].run : i \in DOMAIN to.entries})
      /\ IF Refused(to)
         THEN phase' = [phase EXCEPT ![e] = "lost"] /\ UNCHANGED <<capture, seen, runs>>
         ELSE /\ phase' = [phase EXCEPT ![e] = "capture"]
              /\ capture' = [capture EXCEPT ![e] = Working(to.run, to.seq, r.answers, calls, steps)]
              /\ runs' = Ensured(to, r)
              /\ seen' = IF to.new THEN seen \union {to.run} ELSE seen
  BY DEF ResponseEnds
<1> HIDE DEF to
<1>3. minted \in Nat
  BY DEF ProxyInv, ProxyTypes
<1>4. minted' \in Nat /\ minted <= minted'
  BY <1>2, <1>3
<1>5. to.run \in {<<"id", Request(e).id>>} \union Made'
  <2>1. Made \subseteq Made'
    BY <1>3, <1>4 DEF Made
  <2>2. CASE to.run = FreshRun
    <3>1. to.new
      <4> SUFFICES ASSUME ~to.new PROVE FALSE
        OBVIOUS
      <4>1. PICK y \in Range(entries) : y.run = to.run
        BY <1>1 DEF Resolved, Continued
      <4>2. y \in EntryRows(RunsSoFar)
        BY <4>1 DEF ProxyInv, ProxyTypes, Range
      <4>3. y.run \in RunsSoFar
        BY <4>2 DEF EntryRows
      <4> QED
        BY <1>3, <2>2, <4>1, <4>3 DEF FreshRun, RunsSoFar, IdRuns, Made
    <3>2. minted' = minted + 1
      BY <1>2, <2>2, <3>1
    <3> QED
      BY <1>3, <2>2, <3>2 DEF FreshRun, Made
  <2> QED
    BY <1>1, <2>1, <2>2 DEF Resolved
<1>6. forgotten' = forgotten \union (RunsOf(entries) \ RunsOf(entries)')
  BY <1>2 DEF RunsOf, Range
<1>7. to.new => to.run \in {<<"id", Request(e).id>>, FreshRun} /\ to.run \notin RunsOf(entries)
  BY <1>1 DEF Resolved
<1>8. to.new /\ Met(to.run) => ~Safe(to.run)
  BY <1>7, MetUnsafe
<1>9. Refused(to) => ~Safe(to.run)
  BY <1>8 DEF Refused, Met
<1>10. ~Refused(to) => runs' = (IF to.new /\ to.run \notin seen THEN runs \union {label} ELSE runs)
  BY <1>2 DEF Ensured
<1>11. ~Refused(to) /\ Safe(to.run) => label \in runs'
  <2> SUFFICES ASSUME ~Refused(to), Safe(to.run) PROVE label \in runs'
    OBVIOUS
  <2>1. CASE to.new
    <3>1. to.run \notin seen
      BY <1>8, <2>1 DEF Met
    <3> QED
      BY <1>10, <2>1, <3>1
  <2>2. CASE ~to.new
    <3>1. PICK y \in Range(entries) : y.run = to.run /\ y.provider = Provider(r)
      BY <1>1, <2>2 DEF Resolved, Continued
    <3>2. label \in runs
      BY <3>1 DEF ProxyInv, CountsAhead
    <3> QED
      BY <1>10, <2>2, <3>2
  <2> QED
    BY <2>1, <2>2
<1>12. /\ runs \subseteq runs' /\ seen \subseteq seen' /\ seen' \subseteq seen \union {to.run}
       /\ runs' \subseteq runs \union {label}
  BY <1>2, <1>10
<1>13. IF Refused(to) THEN phase' = [phase EXCEPT ![e] = "lost"] /\ capture' = capture
       ELSE /\ phase' = [phase EXCEPT ![e] = "capture"]
            /\ capture' = [capture EXCEPT ![e] =
                 Working(to.run, to.seq, Request(e).answers, calls, steps)]
  BY <1>2
<1> QED
  BY <1>1, <1>2, <1>4, <1>5, <1>6, <1>9, <1>11, <1>12, <1>13 DEF to

LEMMA ResponseEndsKeeps ==
  ASSUME ProxyInv, NEW e \in Exchanges, ResponseEnds(e)
  PROVE  ProxyInv'
<1> DEFINE to == Resolve(Request(e))
           label == [id |-> to.run, provider |-> Provider(Request(e))]
           work == Working(to.run, to.seq, Request(e).answers, calls, steps)
<1>1. /\ Resolved(to, e) /\ entries' = to.entries
      /\ minted' \in Nat /\ minted <= minted'
      /\ to.run \in {<<"id", Request(e).id>>} \union Made'
      /\ forgotten' = forgotten \union (RunsOf(entries) \ RunsOf(entries)')
      /\ runs \subseteq runs' /\ seen \subseteq seen' /\ seen' \subseteq seen \union {to.run}
      /\ runs' \subseteq runs \union {label}
      /\ IF Refused(to) THEN phase' = [phase EXCEPT ![e] = "lost"] /\ capture' = capture
         ELSE phase' = [phase EXCEPT ![e] = "capture"] /\ capture' = [capture EXCEPT ![e] = work]
      /\ Refused(to) => ~Safe(to.run)
      /\ ~Refused(to) /\ Safe(to.run) => label \in runs'
  BY ResponseResolved
<1>2. phase[e] = "sent" /\ traffic' = traffic /\ steps' = steps /\ calls' = calls
  BY DEF ResponseEnds
<1>3. SameTraffic
  BY <1>2, TrafficStays
<1>4. /\ work.run = to.run /\ work.seq = to.seq /\ work.answers \in Seq(CallNames)
      /\ \/ work.row = NoId
         \/ /\ work.row \in steps /\ work.answers # <<>>
            /\ \E c \in calls : c.run = to.run /\ c.call = Head(work.answers) /\ c.step = work.row.id
  BY AnswersTyped, WorkingReads DEF ProxyInv
<1> HIDE DEF to, work, label
<1>0. PICK u : u = to.run
  OBVIOUS
<1>5. /\ label.id = to.run /\ label.provider = Provider(Request(e))
      /\ label = [id |-> to.run, provider |-> Provider(Request(e))]
  BY DEF label
<1>6. \A d \in Exchanges : Request(d)' = Request(d)
  BY <1>3 DEF SameTraffic
<1>7. minted \in Nat /\ Made \subseteq Made' /\ IdRuns' = IdRuns /\ RunsSoFar \subseteq RunsSoFar'
      /\ StepRows \subseteq StepRows' /\ EntryRows(RunsSoFar) \subseteq EntryRows(RunsSoFar')
  <2>1. minted \in Nat
    BY DEF ProxyInv, ProxyTypes
  <2>2. Made \subseteq Made'
    BY <1>1, <2>1 DEF Made
  <2>3. IdRuns' = IdRuns
    BY <1>3 DEF SameTraffic, IdRuns
  <2>4. RunsSoFar \subseteq RunsSoFar'
    BY <2>2, <2>3 DEF RunsSoFar
  <2>5. StepRows \subseteq StepRows'
    BY <1>3, <2>4 DEF SameTraffic, StepRows
  <2> QED
    BY <2>1, <2>2, <2>3, <2>4, <2>5 DEF EntryRows
<1>8. Owns(e, u)' /\ to.run \in RunsSoFar'
  <2>1. Owns(e, u)'
    BY <1>0, <1>1, <1>6 DEF Owns
  <2> QED
    BY <1>0, <1>1, <1>6, <2>1 DEF RunsSoFar, IdRuns, Ids
<1>9. /\ phase' \in [Exchanges -> Phases] /\ phase[e] = "sent" /\ DOMAIN capture' = Exchanges
      /\ \A d \in Exchanges \ {e} : phase'[d] = phase[d] /\ capture'[d] = capture[d]
      /\ phase'[e] \in {"lost", "capture"}
      /\ Busy(e)' => ~Refused(to) /\ capture'[e] = work
  BY <1>1, <1>2 DEF ProxyInv, ProxyTypes, Busy, Phases
<1>10. /\ \A d \in Exchanges \ {e} : Busy(d)' = Busy(d)
       /\ \A d \in Exchanges : phase'[d] = "done" <=> phase[d] = "done"
       /\ ~Busy(e)
  BY <1>9 DEF Busy
<1>11. \A v : (Held(v) => Held(v)') /\ (v \in forgotten => v \in forgotten') /\ (Safe(v)' => Safe(v))
  BY <1>1 DEF Held, Safe
<1>12. PICK x \in Range(entries)' :
         /\ x.run = to.run /\ x.provider = Provider(Request(e)) /\ x.count = to.seq + 1
         /\ NamedAfter(x)
         /\ \A y \in Range(entries)' \ {x} : y \in Range(entries) /\ y.run # to.run
  BY <1>1 DEF Resolved, Counted
<1>13. Held(u)'
  BY <1>0, <1>12 DEF Held, RunsOf
<1>14. to.seq \in Nat
  BY <1>1 DEF Resolved
<1>15. \A y \in Range(entries) : y \in EntryRows(RunsSoFar)
  BY DEF ProxyInv, ProxyTypes, Range
<1>16. ProxyTypes'
  <2>1. entries' \in Seq(EntryRows(NextRuns))
    BY <1>1 DEF Resolved
  <2>2. ASSUME NEW i \in DOMAIN entries' PROVE entries'[i] \in EntryRows(RunsSoFar')
    <3>1. entries'[i] \in Range(entries)'
      BY DEF Range
    <3>2. CASE entries'[i] = x
      <4>1. x \in EntryRows(NextRuns)
        BY <2>1, <3>2
      <4> QED
        BY <1>8, <1>12, <3>2, <4>1 DEF EntryRows
    <3>3. CASE entries'[i] # x
      BY <1>7, <1>12, <1>15, <3>1, <3>3
    <3> QED
      BY <3>2, <3>3
  <2>3. EntryRows(RunsSoFar)' = EntryRows(RunsSoFar')
    BY <1>3, <1>6 DEF EntryRows, SameTraffic, Request
  <2>4. entries' \in Seq(EntryRows(RunsSoFar)')
    <3>1. DOMAIN entries' = 1..Len(entries') /\ Len(entries') \in Nat
          /\ entries' = [i \in 1..Len(entries') |-> entries'[i]]
      BY <2>1
    <3>2. \A i \in 1..Len(entries') : entries'[i] \in EntryRows(RunsSoFar')
      BY <2>2, <3>1
    <3> QED
      BY <2>3, <3>1, <3>2, IsASeq
  <2>5. seen' \subseteq RunsSoFar'
    BY <1>1, <1>7, <1>8 DEF ProxyInv, ProxyTypes
  <2>6. runs' \subseteq [id : RunsSoFar', provider : Providers']
    <3>1. Provider(Request(e)) \in Providers' /\ Providers' = Providers
      BY <1>3 DEF SameTraffic, Providers
    <3>2. label \in [id : RunsSoFar', provider : Providers']
      BY <1>5, <1>8, <3>1
    <3>3. runs \subseteq [id : RunsSoFar', provider : Providers']
      BY <1>7, <3>1 DEF ProxyInv, ProxyTypes
    <3> QED
      BY <1>1, <3>2, <3>3
  <2>7. calls' \subseteq [run : RunsSoFar', call : CallNames', step : Exchanges]
    BY <1>2, <1>3, <1>7 DEF ProxyInv, ProxyTypes, SameTraffic
  <2> QED
    BY <1>1, <1>2, <1>7, <1>9, <2>4, <2>5, <2>6, <2>7 DEF ProxyInv, ProxyTypes
<1>17. EntriesNamed'
  <2>1. Apart(entries)'
    BY <1>1 DEF Resolved, Apart
  <2>2. ASSUME NEW y \in Range(entries)' PROVE NamedAfter(y)'
    BY <1>12 DEF ProxyInv, EntriesNamed, NamedAfter
  <2> QED
    BY <2>1, <2>2 DEF EntriesNamed
<1>18. RunsHeld'
  <2>1. \A y \in runs' : Held(y.id)'
    BY <1>0, <1>1, <1>5, <1>11, <1>13 DEF ProxyInv, RunsHeld
  <2>2. \A v \in seen' : Held(v)'
    BY <1>0, <1>1, <1>11, <1>13 DEF ProxyInv, RunsHeld
  <2>3. \A s \in steps' : Held(s.run)'
    BY <1>2, <1>11 DEF ProxyInv, RunsHeld
  <2>4. ASSUME NEW d \in Exchanges, Busy(d)' PROVE Held(capture[d].run)'
    <3>1. CASE d = e
      BY <1>0, <1>4, <1>9, <1>13, <2>4, <3>1
    <3>2. CASE d # e
      BY <1>9, <1>10, <1>11, <2>4, <3>2 DEF ProxyInv, RunsHeld
    <3> QED
      BY <3>1, <3>2
  <2> QED
    BY <2>1, <2>2, <2>3, <2>4 DEF RunsHeld
<1>19. \A d \in Exchanges : \A v :
         (Owns(d, v) => Owns(d, v)') /\ (Labelled(v, d) => Labelled(v, d)')
  BY <1>1, <1>6, <1>7 DEF Owns, Labelled
<1>20. CapturesMeant'
  <2> SUFFICES ASSUME NEW d \in Exchanges, Busy(d)'
               PROVE  /\ Owns(d, capture[d].run)' /\ capture'[d].seq \in Nat
                      /\ capture'[d].answers \in Seq(CallNames)
                      /\ Safe(capture[d].run)' => Labelled(capture[d].run, d)'
    BY <1>3 DEF CapturesMeant, SameTraffic
  <2>1. CASE d = e
    <3>1. capture'[d].run = to.run /\ capture'[d].seq \in Nat /\ capture'[d].answers \in Seq(CallNames)
      BY <1>4, <1>9, <1>14, <2>1
    <3>2. Safe(u)' => Labelled(u, e)'
      BY <1>0, <1>1, <1>5, <1>6, <1>9, <1>11, <2>1 DEF Labelled
    <3> QED
      BY <1>0, <1>8, <2>1, <3>1, <3>2
  <2>2. CASE d # e
    <3>1. capture'[d] = capture[d] /\ Busy(d)
      BY <1>9, <1>10, <2>2
    <3> QED
      BY <1>11, <1>19, <3>1 DEF ProxyInv, CapturesMeant
  <2> QED
    BY <2>1, <2>2
<1>21. Safe(to.run) =>
         /\ \A s \in steps : s.run = to.run => s.seq < to.seq
         /\ \A d \in Exchanges : Busy(d) /\ capture[d].run = to.run => capture[d].seq < to.seq
  <2> SUFFICES ASSUME Safe(to.run)
               PROVE  /\ \A s \in steps : s.run = to.run => s.seq < to.seq
                      /\ \A d \in Exchanges :
                           Busy(d) /\ capture[d].run = to.run => capture[d].seq < to.seq
    OBVIOUS
  <2>1. CASE to.new
    <3>1. to.run \in {<<"id", Request(e).id>>, FreshRun} /\ to.run \notin RunsOf(entries)
      BY <1>1, <2>1 DEF Resolved
    <3>2. ~Met(to.run)
      BY <3>1, MetUnsafe
    <3> QED
      BY <3>2 DEF Met
  <2>2. CASE ~to.new
    <3>1. PICK y \in Range(entries) : y.run = to.run /\ y.count = to.seq
      BY <1>1, <2>2 DEF Resolved, Continued
    <3> QED
      BY <3>1 DEF ProxyInv, CountsAhead
  <2> QED
    BY <2>1, <2>2
<1>22. /\ \A s \in steps : s.seq \in Nat
       /\ \A d \in Exchanges : Busy(d) => capture[d].seq \in Nat
  BY DEF ProxyInv, ProxyTypes, StepRows, CapturesMeant
<1>23. CountsAhead'
  <2> SUFFICES ASSUME NEW y \in Range(entries)', Safe(y.run)'
               PROVE  /\ [id |-> y.run, provider |-> y.provider] \in runs'
                      /\ \A s \in steps : s.run = y.run => s.seq < y.count
                      /\ \A d \in Exchanges :
                           Busy(d)' /\ capture'[d].run = y.run => capture'[d].seq < y.count
    BY <1>2 DEF CountsAhead
  <2>1. CASE y = x
    <3>1. Safe(to.run)
      BY <1>11, <1>12, <2>1
    <3>2. [id |-> y.run, provider |-> y.provider] \in runs'
      BY <1>1, <1>5, <1>12, <2>1, <3>1
    <3>3. \A s \in steps : s.run = y.run => s.seq < y.count
      BY <1>12, <1>14, <1>21, <1>22, <2>1, <3>1
    <3>4. ASSUME NEW d \in Exchanges, Busy(d)', capture'[d].run = y.run
          PROVE  capture'[d].seq < y.count
      <4>1. CASE d = e
        BY <1>4, <1>9, <1>12, <1>14, <2>1, <3>4, <4>1
      <4>2. CASE d # e
        BY <1>9, <1>10, <1>12, <1>14, <1>21, <1>22, <2>1, <3>1, <3>4, <4>2
      <4> QED
        BY <4>1, <4>2
    <3> QED
      BY <3>2, <3>3, <3>4
  <2>2. CASE y # x
    <3>1. y \in Range(entries) /\ y.run # to.run
      BY <1>12, <2>2
    <3>2. /\ [id |-> y.run, provider |-> y.provider] \in runs
          /\ \A s \in steps : s.run = y.run => s.seq < y.count
          /\ \A d \in Exchanges : Busy(d) /\ capture[d].run = y.run => capture[d].seq < y.count
      BY <1>11, <3>1 DEF ProxyInv, CountsAhead
    <3>3. ASSUME NEW d \in Exchanges, Busy(d)', capture'[d].run = y.run
          PROVE  capture'[d].seq < y.count
      <4>1. d # e
        BY <1>4, <1>9, <3>1, <3>3
      <4> QED
        BY <1>9, <1>10, <3>2, <3>3, <4>1
    <3> QED
      BY <1>1, <3>2, <3>3
  <2> QED
    BY <2>1, <2>2
<1>24. SlotsApart'
  <2> SUFFICES ASSUME NEW d \in Exchanges, Busy(d)', Safe(capture[d].run)'
               PROVE  /\ \A f \in Exchanges \ {d} :
                           Busy(f)' /\ capture'[f].run = capture'[d].run
                             => capture'[f].seq # capture'[d].seq
                      /\ \A s \in steps : s.run = capture'[d].run => s.seq # capture'[d].seq
    BY <1>2 DEF SlotsApart
  <2>1. Safe(capture'[d].run)
    BY <1>11
  <2>2. CASE d = e
    <3>1. capture'[d].run = to.run /\ capture'[d].seq = to.seq
      BY <1>4, <1>9, <2>2
    <3>2. ASSUME NEW f \in Exchanges \ {d}, Busy(f)', capture'[f].run = capture'[d].run
          PROVE  capture'[f].seq # capture'[d].seq
      BY <1>9, <1>10, <1>14, <1>21, <1>22, <2>1, <2>2, <3>1, <3>2
    <3>3. ASSUME NEW s \in steps, s.run = capture'[d].run
          PROVE  s.seq # capture'[d].seq
      BY <1>14, <1>21, <1>22, <2>1, <3>1, <3>3
    <3> QED
      BY <3>2, <3>3
  <2>3. CASE d # e
    <3>1. capture'[d] = capture[d] /\ Busy(d)
      BY <1>9, <1>10, <2>3
    <3>2. ASSUME NEW f \in Exchanges \ {d}, Busy(f)', capture'[f].run = capture'[d].run
          PROVE  capture'[f].seq # capture'[d].seq
      <4>1. CASE f = e
        <5>1. capture'[f].run = to.run /\ capture'[f].seq = to.seq
          BY <1>4, <1>9, <3>2, <4>1
        <5>2. capture[d].run = to.run /\ Safe(to.run)
          BY <2>1, <3>1, <3>2, <5>1
        <5>3. capture[d].seq < to.seq /\ capture[d].seq \in Nat
          BY <1>21, <1>22, <3>1, <5>2
        <5> QED
          BY <1>14, <3>1, <5>1, <5>3
      <4>2. CASE f # e
        <5>1. capture'[f] = capture[f] /\ Busy(f)
          BY <1>9, <1>10, <3>2, <4>2
        <5> QED
          BY <2>1, <3>1, <3>2, <5>1 DEF ProxyInv, SlotsApart
      <4> QED
        BY <4>1, <4>2
    <3>3. \A s \in steps : s.run = capture'[d].run => s.seq # capture'[d].seq
      BY <2>1, <3>1 DEF ProxyInv, SlotsApart
    <3> QED
      BY <3>2, <3>3
  <2> QED
    BY <2>2, <2>3
<1>25. StepsStand'
  <2>1. \A s \in steps : s.id \in Exchanges
    BY DEF ProxyInv, ProxyTypes, StepRows
  <2>2. \A s \in steps : StepStands(s)'
    BY <1>10, <1>11, <1>19, <2>1 DEF ProxyInv, StepsStand, StepStands
  <2> QED
    BY <1>2, <1>6, <1>10, <1>11, <2>2 DEF ProxyInv, StepsStand
<1>26. RowsRead'
  <2> SUFFICES ASSUME NEW d \in Exchanges, Busy(d)', capture'[d].row # NoId
               PROVE  RowRead(capture[d].row, capture[d].run, capture[d].answers)'
    BY DEF RowsRead
  <2>1. CASE d = e
    <3>1. /\ work.row \in steps /\ work.answers # <<>>
          /\ \E c \in calls : c.run = to.run /\ c.call = Head(work.answers) /\ c.step = work.row.id
      BY <1>4, <1>9, <2>1
    <3>2. PICK c \in calls : c.run = to.run /\ c.call = Head(work.answers) /\ c.step = work.row.id
      BY <3>1
    <3>3. Request(work.row.id).call = Head(work.answers) /\ work.row.run = to.run
      BY <3>1, <3>2 DEF ProxyInv, CallsPoint
    <3>4. work.row \in StepRows /\ work.row.id \in Exchanges
      BY <3>1 DEF ProxyInv, ProxyTypes, StepRows
    <3>5. Safe(work.row.run) => work.row.body.from = work.row.id
      BY <3>1 DEF ProxyInv, StepsStand, StepStands
    <3>6. PICK row : row = work.row
      OBVIOUS
    <3>7. /\ row \in StepRows' /\ SamePlace(row, row)' /\ row \in steps'
          /\ Safe(row.run)' => row.body.from = row.id
          /\ Request(row.id)' = Request(row.id)
      BY <1>2, <1>6, <1>7, <1>11, <3>1, <3>4, <3>5, <3>6 DEF SamePlace
    <3> QED
      BY <1>4, <1>9, <2>1, <3>1, <3>3, <3>6, <3>7 DEF RowRead
  <2>2. CASE d # e
    <3>1. capture'[d] = capture[d] /\ Busy(d)
      BY <1>9, <1>10, <2>2
    <3>2. RowRead(capture[d].row, capture[d].run, capture[d].answers)
      BY <3>1 DEF ProxyInv, RowsRead
    <3>3. capture[d].row.id \in Exchanges
      BY <3>2 DEF RowRead, StepRows
    <3> QED
      BY <1>2, <1>6, <1>7, <1>11, <3>1, <3>2, <3>3 DEF RowRead, SamePlace
  <2> QED
    BY <2>1, <2>2
<1>27. CallsPoint'
  <2>1. \A c \in calls : c.step \in Exchanges
    BY DEF ProxyInv, ProxyTypes
  <2> QED
    BY <1>2, <1>6, <1>10, <2>1 DEF ProxyInv, CallsPoint
<1> QED
  BY <1>16, <1>17, <1>18, <1>20, <1>23, <1>24, <1>25, <1>26, <1>27 DEF ProxyInv

(* Attaching writes over the row that was read, in its place, and no other.    *)
LEMMA RowAttached ==
  ASSUME ProxyInv, NEW e \in Exchanges, AttachToolResult(e)
  PROVE  LET row == capture[e].row
             new == Attached(row, Head(capture[e].answers))
         IN  /\ steps' = {s \in steps : s.id # row.id} \union {new}
             /\ new \in StepRows /\ SamePlace(row, new)
             /\ new.body.from = row.body.from /\ new.body.outcome = Head(capture[e].answers)
<1> DEFINE row == capture[e].row
           call == Head(capture[e].answers)
           new == Attached(row, call)
<1>1. /\ Busy(e) /\ row # NoId /\ steps' = InsertStep(steps, new)
  BY DEF AttachToolResult, Busy
<1>2. RowRead(row, capture[e].run, capture[e].answers)
  BY <1>1 DEF ProxyInv, RowsRead
<1>3. call \in CallNames
  BY <1>1, <1>2 DEF ProxyInv, CapturesMeant, RowRead
<1> HIDE DEF row, call
<1>4. row \in StepRows /\ \E s \in steps : SamePlace(row, s)
  BY <1>2 DEF RowRead
<1>5. /\ new \in StepRows /\ SamePlace(row, new)
      /\ new.body.from = row.body.from /\ new.body.outcome = call
  <2>1. call \in Outcomes
    BY <1>3 DEF Outcomes
  <2>2. /\ row.id \in Exchanges /\ row.run \in RunsSoFar /\ row.seq \in Nat
        /\ row.body \in [from : Exchanges, provider : Providers, outcome : Outcomes]
        /\ row = [id |-> row.id, run |-> row.run, seq |-> row.seq, body |-> row.body]
    BY <1>4 DEF StepRows
  <2>3. new = [row EXCEPT !.body = [row.body EXCEPT !.outcome = call]]
    BY DEF Attached
  <2> DEFINE body == [row.body EXCEPT !.outcome = call]
  <2>4. /\ body \in [from : Exchanges, provider : Providers, outcome : Outcomes]
        /\ body.from = row.body.from /\ body.outcome = call
    BY <2>1, <2>2
  <2> HIDE DEF body
  <2>5. new = [id |-> row.id, run |-> row.run, seq |-> row.seq, body |-> body]
    BY <2>2, <2>3 DEF body
  <2> HIDE DEF new
  <2> QED
    BY <2>2, <2>4, <2>5 DEF StepRows, SamePlace
<1>6. new.id = row.id
  BY <1>5 DEF SamePlace
<1> HIDE DEF new
<1>7. SameId(steps, new) # {} /\ SameId(steps, new) = {s \in steps : s.id = row.id}
  BY <1>4, <1>6 DEF SameId, SamePlace
<1>8. steps' = {s \in steps : s.id # row.id} \union {new}
  BY <1>1, <1>7 DEF InsertStep
<1> QED
  BY <1>5, <1>8 DEF row, call, new

LEMMA AttachKeeps ==
  ASSUME ProxyInv, NEW e \in Exchanges, AttachToolResult(e)
  PROVE  ProxyInv'
<1>1. PICK row, u, q, answers, call, new :
        /\ row = capture[e].row /\ u = capture[e].run /\ q = capture[e].seq
        /\ answers = capture[e].answers /\ call = Head(answers) /\ new = Attached(row, call)
  OBVIOUS
<1>2. /\ Busy(e) /\ row # NoId
      /\ calls' = calls \ Refs(u, call)
      /\ capture' = [capture EXCEPT ![e] = Working(u, q, Tail(answers), calls', steps')]
      /\ traffic' = traffic /\ phase' = phase /\ entries' = entries /\ minted' = minted
      /\ seen' = seen /\ runs' = runs /\ forgotten' = forgotten
  BY <1>1 DEF AttachToolResult, Busy
<1>3. /\ steps' = {s \in steps : s.id # row.id} \union {new}
      /\ new \in StepRows /\ SamePlace(row, new)
      /\ new.body.from = row.body.from
  BY <1>1, RowAttached
<1>4. /\ row \in StepRows /\ row.run = u
      /\ \E s \in steps : SamePlace(row, s)
      /\ Safe(row.run) => row.body.from = row.id
      /\ answers # <<>>
  BY <1>1, <1>2 DEF ProxyInv, RowsRead, RowRead
<1>5. SameNames /\ SameTraffic
  BY <1>2, TrafficStays
<1>6. /\ \A d \in Exchanges : Request(d)' = Request(d) /\ Busy(d)' = Busy(d)
      /\ CallNames' = CallNames /\ StepRows' = StepRows
      /\ \A v : Held(v)' = Held(v) /\ Safe(v)' = Safe(v)
      /\ \A d \in Exchanges : \A v : Owns(d, v)' = Owns(d, v) /\ Labelled(v, d)' = Labelled(v, d)
  <2>1. /\ \A d \in Exchanges : Request(d)' = Request(d) /\ Busy(d)' = Busy(d)
        /\ CallNames' = CallNames /\ StepRows' = StepRows /\ Made' = Made
    BY <1>2, <1>5 DEF SameTraffic, SameNames, Busy
  <2>2. \A v : Held(v)' = Held(v) /\ Safe(v)' = Safe(v)
    BY <1>2 DEF Held, Safe, RunsOf
  <2> QED
    BY <1>2, <2>1, <2>2 DEF Owns, Labelled
<1>7. /\ \A r, s \in steps : r.id = s.id => r = s
      /\ \A s \in steps : s.id \in Exchanges
  BY DEF ProxyInv, StepsStand, ProxyTypes, StepRows
<1>8. /\ \A s \in steps' : \E r \in steps : SamePlace(r, s)
      /\ \A r \in steps : \E s \in steps' : SamePlace(r, s)
  BY <1>3, <1>4, <1>7 DEF SamePlace
<1>9. calls' \subseteq calls
  BY <1>2
<1>10. /\ DOMAIN capture' = Exchanges
       /\ \A d \in Exchanges \ {e} : capture'[d] = capture[d]
       /\ capture'[e] = Working(u, q, Tail(answers), calls', steps')
  BY <1>2 DEF ProxyInv, ProxyTypes
<1>11. Tail(answers) \in Seq(CallNames)
  BY <1>1, <1>2, <1>4 DEF ProxyInv, CapturesMeant
<1>12. PICK work : work = Working(u, q, Tail(answers), calls', steps')
  OBVIOUS
<1>13. /\ work.run = u /\ work.seq = q /\ work.answers \in Seq(CallNames)
       /\ \/ work.row = NoId
          \/ /\ work.row \in steps' /\ work.answers # <<>>
             /\ \E c \in calls' : c.run = u /\ c.call = Head(work.answers) /\ c.step = work.row.id
  <2>1. PICK refs, table : refs = calls' /\ table = steps'
    OBVIOUS
  <2>2. PICK left : left = Tail(answers)
    OBVIOUS
  <2>3. work = Working(u, q, left, refs, table) /\ left \in Seq(CallNames)
    BY <1>11, <1>12, <2>1, <2>2
  <2>4. LET c == Working(u, q, left, refs, table)
        IN  /\ c.run = u /\ c.seq = q /\ c.answers \in Seq(CallNames)
            /\ \/ c.row = NoId
               \/ /\ c.row \in table /\ c.answers # <<>>
                  /\ \E ref \in refs : ref.run = u /\ ref.call = Head(c.answers)
                                         /\ ref.step = c.row.id
    BY <2>3, WorkingReads
  <2> QED
    BY <2>1, <2>3, <2>4
<1>14. \A d \in Exchanges : /\ capture'[d].run = capture[d].run /\ capture'[d].seq = capture[d].seq
                            /\ Busy(d) => capture'[d].answers \in Seq(CallNames)
  BY <1>1, <1>10, <1>12, <1>13 DEF ProxyInv, CapturesMeant
<1>15. ProxyTypes'
  <2>1. steps' \subseteq StepRows
    BY <1>3 DEF ProxyInv, ProxyTypes
  <2> QED
    BY <1>2, <1>5, <1>9, <1>10, <2>1 DEF ProxyInv, ProxyTypes, SameNames, SameTraffic
<1>16. EntriesNamed'
  BY <1>2 DEF ProxyInv, EntriesNamed, Apart, NamedAfter
<1>17. RunsHeld'
  <2>1. \A s \in steps' : Held(s.run)'
    BY <1>6, <1>8 DEF ProxyInv, RunsHeld, SamePlace
  <2> QED
    BY <1>2, <1>6, <1>14, <2>1 DEF ProxyInv, RunsHeld
<1>18. CapturesMeant'
  BY <1>6, <1>14 DEF ProxyInv, CapturesMeant
<1>19. CountsAhead'
  <2> SUFFICES ASSUME NEW x \in Range(entries), Safe(x.run)
               PROVE  /\ [id |-> x.run, provider |-> x.provider] \in runs
                      /\ \A s \in steps' : s.run = x.run => s.seq < x.count
                      /\ \A d \in Exchanges :
                           Busy(d) /\ capture'[d].run = x.run => capture'[d].seq < x.count
    BY <1>2, <1>6 DEF CountsAhead
  <2>1. /\ [id |-> x.run, provider |-> x.provider] \in runs
        /\ \A s \in steps : s.run = x.run => s.seq < x.count
        /\ \A d \in Exchanges : Busy(d) /\ capture[d].run = x.run => capture[d].seq < x.count
    BY DEF ProxyInv, CountsAhead
  <2> QED
    BY <1>8, <1>14, <2>1 DEF SamePlace
<1>20. SlotsApart'
  <2> SUFFICES ASSUME NEW d \in Exchanges, Busy(d), Safe(capture[d].run)
               PROVE  /\ \A f \in Exchanges \ {d} :
                           Busy(f) /\ capture'[f].run = capture'[d].run
                             => capture'[f].seq # capture'[d].seq
                      /\ \A s \in steps' : s.run = capture'[d].run => s.seq # capture'[d].seq
    BY <1>6, <1>14 DEF SlotsApart
  <2> QED
    BY <1>8, <1>14 DEF ProxyInv, SlotsApart, SamePlace
<1>21. StepsStand'
  <2>1. \A r, s \in steps' : r.id = s.id => r = s
    BY <1>3, <1>7 DEF SamePlace
  <2>2. ASSUME NEW s \in steps' PROVE StepStands(s)'
    <3>1. PICK r \in steps : SamePlace(r, s)
      BY <1>8
    <3>2. StepStands(r)
      BY DEF ProxyInv, StepsStand
    <3>3. Safe(s.run) => s.body.from = s.id
      <4>1. CASE s = new
        BY <1>3, <1>4, <4>1 DEF SamePlace
      <4>2. CASE s \in steps
        BY <4>2 DEF ProxyInv, StepsStand, StepStands
      <4> QED
        BY <1>3, <4>1, <4>2
    <3> QED
      BY <1>2, <1>6, <1>7, <3>1, <3>2, <3>3 DEF StepStands, SamePlace
  <2>3. ASSUME NEW d \in Exchanges, phase[d] = "done"
        PROVE  <<"id", Request(d).id>> \in forgotten \/ \E s \in steps' : s.id = d
    BY <1>8, <2>3 DEF ProxyInv, StepsStand, SamePlace
  <2> QED
    BY <1>2, <1>6, <2>1, <2>2, <2>3 DEF StepsStand
<1>22. CallsPoint'
  <2> SUFFICES ASSUME NEW c \in calls
               PROVE  /\ phase[c.step] = "done" /\ Request(c.step).call = c.call
                      /\ Request(c.step)' = Request(c.step)
                      /\ \A s \in steps' : s.id = c.step => s.run = c.run
    BY <1>2, <1>9 DEF CallsPoint
  <2>1. c.step \in Exchanges
    BY DEF ProxyInv, ProxyTypes
  <2> QED
    BY <1>6, <1>8, <2>1 DEF ProxyInv, CallsPoint, SamePlace
<1>23. RowsRead'
  <2> SUFFICES ASSUME NEW d \in Exchanges, Busy(d), capture'[d].row # NoId
               PROVE  RowRead(capture[d].row, capture[d].run, capture[d].answers)'
    BY <1>6 DEF RowsRead
  <2>1. CASE d = e
    <3>1. /\ work.row \in steps' /\ work.answers # <<>>
          /\ \E c \in calls' : c.run = u /\ c.call = Head(work.answers) /\ c.step = work.row.id
      BY <1>10, <1>12, <1>13, <2>1
    <3>2. PICK c \in calls' : c.run = u /\ c.call = Head(work.answers) /\ c.step = work.row.id
      BY <3>1
    <3>3. Request(c.step)' = Request(c.step)
      BY <1>6, <1>9 DEF ProxyInv, ProxyTypes
    <3>4. Request(work.row.id)'.call = Head(work.answers) /\ work.row.run = u
      BY <1>22, <3>1, <3>2 DEF CallsPoint
    <3>5. work.row \in StepRows'
      BY <1>15, <3>1 DEF ProxyTypes
    <3>6. Safe(work.row.run)' => work.row.body.from = work.row.id
      BY <1>21, <3>1 DEF StepsStand, StepStands
    <3> QED
      BY <1>10, <1>12, <1>13, <2>1, <3>1, <3>4, <3>5, <3>6 DEF RowRead, SamePlace
  <2>2. CASE d # e
    <3>1. capture'[d] = capture[d]
      BY <1>10, <2>2
    <3>2. RowRead(capture[d].row, capture[d].run, capture[d].answers)
      BY <3>1 DEF ProxyInv, RowsRead
    <3>3. capture[d].row.id \in Exchanges
      BY <3>2 DEF RowRead, StepRows
    <3>4. \E s \in steps' : SamePlace(capture[d].row, s)
      BY <1>8, <3>2 DEF RowRead, SamePlace
    <3> QED
      BY <1>6, <3>1, <3>2, <3>3, <3>4 DEF RowRead, SamePlace
  <2> QED
    BY <2>1, <2>2
<1> QED
  BY <1>15, <1>16, <1>17, <1>18, <1>19, <1>20, <1>21, <1>22, <1>23 DEF ProxyInv

(* A step that is appended is a row of its own, unless its run is not safe:    *)
(* then it may take the place of another row, whose id stays.                 *)
LEMMA StepAppended ==
  ASSUME ProxyInv, NEW e \in Exchanges, Busy(e), NEW table,
         table = InsertStep(steps, StepOf(e))
  PROVE  LET new == StepOf(e)
         IN  /\ new \in StepRows /\ new.id = e /\ new.run = capture[e].run
             /\ new.seq = capture[e].seq /\ new.body.from = e
             /\ new.body.outcome = Request(e).result
             /\ table \subseteq StepRows
             /\ \A r, s \in table : r.id = s.id => r = s
             /\ \A r \in steps : \E s \in table : SamePlace(r, s)
             /\ \A s \in table : s = new \/ \E r \in steps : SamePlace(r, s)
             /\ IF Safe(new.run) THEN table = steps \union {new}
                ELSE \A s \in table : s \in steps \/ s.run = new.run
<1>1. PICK new : new = StepOf(e)
  OBVIOUS
<1>2. /\ capture[e].run \in RunsSoFar /\ capture[e].seq \in Nat
      /\ Provider(Request(e)) \in Providers /\ Request(e).result \in Outcomes
  BY DEF ProxyInv, CapturesMeant, Owns, RunsSoFar, IdRuns, Ids, Providers, Outcomes
<1>3. new = [id |-> e, run |-> capture[e].run, seq |-> capture[e].seq,
             body |-> [from |-> e, provider |-> Provider(Request(e)),
                       outcome |-> Request(e).result]]
  BY <1>1 DEF StepOf
<1>4. /\ new \in StepRows /\ new.id = e /\ new.run = capture[e].run
      /\ new.seq = capture[e].seq /\ new.body.from = e /\ new.body.outcome = Request(e).result
  BY <1>2, <1>3 DEF StepRows
<1>5. /\ steps \subseteq StepRows
      /\ \A r, s \in steps : r.id = s.id => r = s
      /\ \A s \in steps : phase[s.id] = "done"
  BY DEF ProxyInv, ProxyTypes, StepsStand, StepStands
<1>6. \A s \in steps : s.id # e
  BY <1>5 DEF Busy
<1>7. SameId(steps, new) = {}
  BY <1>4, <1>6 DEF SameId
<1>8. Safe(new.run) => SameSlot(steps, new) = {}
  BY <1>4 DEF ProxyInv, SlotsApart, SameSlot
<1>9. CASE SameSlot(steps, new) = {}
  <2>1. table = steps \union {new}
    BY <1>1, <1>7, <1>9 DEF InsertStep
  <2>2. \A r, s \in table : r.id = s.id => r = s
    BY <1>4, <1>5, <1>6, <2>1
  <2>3. table \subseteq StepRows /\ \A r \in steps : SamePlace(r, r) /\ r \in table
    BY <1>4, <1>5, <2>1 DEF SamePlace
  <2> QED
    BY <1>1, <1>4, <2>1, <2>2, <2>3
<1>10. CASE SameSlot(steps, new) # {}
  <2>1. PICK held : held = CHOOSE r \in SameSlot(steps, new) : TRUE
    OBVIOUS
  <2>2. held \in steps /\ held.run = new.run /\ held.seq = new.seq
    BY <1>10, <2>1 DEF SameSlot
  <2>3. PICK put : put = [new EXCEPT !.id = held.id]
    OBVIOUS
  <2>4. table = (steps \ {held}) \union {put}
    BY <1>1, <1>7, <1>10, <2>1, <2>3 DEF InsertStep
  <2>5. held.id \in Exchanges
    BY <1>5, <2>2 DEF StepRows
  <2>6. put \in StepRows /\ put.id = held.id /\ put.run = new.run /\ put.seq = new.seq
    BY <1>4, <2>3, <2>5 DEF StepRows
  <2>7. SamePlace(held, put) /\ ~Safe(new.run)
    BY <1>8, <1>10, <2>2, <2>6 DEF SamePlace
  <2>8. \A r, s \in table : r.id = s.id => r = s
    BY <1>5, <2>2, <2>4, <2>6
  <2>9. table \subseteq StepRows /\ \A s \in table : s \in steps \/ s.run = new.run
    BY <1>5, <2>4, <2>6
  <2>10. /\ \A r \in steps : \E s \in table : SamePlace(r, s)
         /\ \A s \in table : s = new \/ \E r \in steps : SamePlace(r, s)
    BY <2>2, <2>4, <2>7 DEF SamePlace
  <2> QED
    BY <1>1, <1>4, <2>7, <2>8, <2>9, <2>10
<1> QED
  BY <1>9, <1>10

LEMMA AppendKeeps ==
  ASSUME ProxyInv, NEW e \in Exchanges, AppendStep(e)
  PROVE  ProxyInv'
<1>1. /\ Busy(e) /\ phase[e] = "capture" /\ capture' = [capture EXCEPT ![e] = NoCapture]
      /\ traffic' = traffic /\ entries' = entries /\ minted' = minted
      /\ seen' = seen /\ runs' = runs /\ forgotten' = forgotten
      /\ \/ phase' = [phase EXCEPT ![e] = "skipped"] /\ steps' = steps /\ calls' = calls
         \/ /\ phase' = [phase EXCEPT ![e] = "done"]
            /\ steps' = InsertStep(steps, StepOf(e)) /\ calls' = Registered(e)
  BY DEF AppendStep, Busy
<1>2. SameNames /\ SameTraffic
  BY <1>1, TrafficStays
<1>3. /\ phase' \in [Exchanges -> Phases] /\ DOMAIN capture' = Exchanges
      /\ \A d \in Exchanges \ {e} : phase'[d] = phase[d] /\ capture'[d] = capture[d]
      /\ ~Busy(e)' /\ \A d \in Exchanges \ {e} : Busy(d)' = Busy(d)
      /\ \A d \in Exchanges : Busy(d)' => Busy(d) /\ d # e /\ capture'[d] = capture[d]
      /\ \A d \in Exchanges : phase[d] = "done" => phase'[d] = "done"
  BY <1>1 DEF ProxyInv, ProxyTypes, Phases, Busy
<1>4. /\ \A d \in Exchanges : Request(d)' = Request(d)
      /\ CallNames' = CallNames /\ StepRows' = StepRows
      /\ \A v : Held(v)' = Held(v) /\ Safe(v)' = Safe(v)
      /\ \A d \in Exchanges : \A v : Owns(d, v)' = Owns(d, v) /\ Labelled(v, d)' = Labelled(v, d)
  <2>1. /\ \A d \in Exchanges : Request(d)' = Request(d)
        /\ CallNames' = CallNames /\ StepRows' = StepRows /\ Made' = Made
    BY <1>2 DEF SameTraffic, SameNames
  <2>2. \A v : Held(v)' = Held(v) /\ Safe(v)' = Safe(v)
    BY <1>1 DEF Held, Safe, RunsOf
  <2> QED
    BY <1>1, <2>1, <2>2 DEF Owns, Labelled
<1>5. EntriesNamed'
  BY <1>1 DEF ProxyInv, EntriesNamed, Apart, NamedAfter
<1>6. CapturesMeant'
  BY <1>3, <1>4 DEF ProxyInv, CapturesMeant
<1>7. CASE phase' = [phase EXCEPT ![e] = "skipped"] /\ steps' = steps /\ calls' = calls
  <2>1. \A d \in Exchanges : phase'[d] = "done" <=> phase[d] = "done"
    BY <1>1, <1>7 DEF ProxyInv, ProxyTypes
  <2>2. ProxyTypes'
    BY <1>1, <1>2, <1>3, <1>7 DEF ProxyInv, ProxyTypes, SameNames, SameTraffic
  <2>3. RunsHeld'
    BY <1>1, <1>3, <1>4, <1>7 DEF ProxyInv, RunsHeld
  <2>4. CountsAhead'
    BY <1>1, <1>3, <1>4, <1>7 DEF ProxyInv, CountsAhead
  <2>5. SlotsApart'
    BY <1>1, <1>3, <1>4, <1>7 DEF ProxyInv, SlotsApart
  <2>6. StepsStand'
    <3>1. \A s \in steps : s.id \in Exchanges
      BY DEF ProxyInv, ProxyTypes, StepRows
    <3>2. \A s \in steps : StepStands(s)'
      BY <1>4, <2>1, <3>1 DEF ProxyInv, StepsStand, StepStands
    <3> QED
      BY <1>1, <1>4, <1>7, <2>1, <3>2 DEF ProxyInv, StepsStand
  <2>7. RowsRead'
    <3> SUFFICES ASSUME NEW d \in Exchanges, Busy(d)', capture'[d].row # NoId
                 PROVE  RowRead(capture[d].row, capture[d].run, capture[d].answers)'
      BY DEF RowsRead
    <3>1. capture'[d] = capture[d] /\ Busy(d)
      BY <1>3
    <3>2. RowRead(capture[d].row, capture[d].run, capture[d].answers)
      BY <3>1 DEF ProxyInv, RowsRead
    <3>3. capture[d].row.id \in Exchanges
      BY <3>2 DEF RowRead, StepRows
    <3> QED
      BY <1>4, <1>7, <3>1, <3>2, <3>3 DEF RowRead, SamePlace
  <2>8. CallsPoint'
    <3>1. \A c \in calls : c.step \in Exchanges
      BY DEF ProxyInv, ProxyTypes
    <3> QED
      BY <1>4, <1>7, <2>1, <3>1 DEF ProxyInv, CallsPoint
  <2> QED
    BY <1>5, <1>6, <2>2, <2>3, <2>4, <2>5, <2>6, <2>7, <2>8 DEF ProxyInv
<1>8. CASE /\ phase' = [phase EXCEPT ![e] = "done"]
           /\ steps' = InsertStep(steps, StepOf(e)) /\ calls' = Registered(e)
  <2>1. PICK new, u : new = StepOf(e) /\ u = capture[e].run
    OBVIOUS
  <2>2. /\ new \in StepRows /\ new.id = e /\ new.run = u
        /\ new.seq = capture[e].seq /\ new.body.from = e
        /\ steps' \subseteq StepRows
        /\ \A r, s \in steps' : r.id = s.id => r = s
        /\ \A r \in steps : \E s \in steps' : SamePlace(r, s)
        /\ \A s \in steps' : s = new \/ \E r \in steps : SamePlace(r, s)
        /\ IF Safe(u) THEN steps' = steps \union {new}
           ELSE \A s \in steps' : s \in steps \/ s.run = u
    <3>1. PICK table : table = steps'
      OBVIOUS
    <3> HIDE <1>8
    <3>2. table = InsertStep(steps, StepOf(e))
      BY <1>8, <3>1
    <3> QED
      BY <1>1, <2>1, <3>1, <3>2, StepAppended
  <2>3. /\ Owns(e, u) /\ capture[e].seq \in Nat /\ (Safe(u) => Labelled(u, e)) /\ Held(u)
        /\ u \in RunsSoFar
    BY <1>1, <2>1 DEF ProxyInv, CapturesMeant, RunsHeld, Owns, RunsSoFar, IdRuns, Ids
  <2>4. \A s \in steps : s.id \in Exchanges /\ s.id # e /\ phase[s.id] = "done"
    BY <1>1 DEF ProxyInv, ProxyTypes, StepRows, StepsStand, StepStands
  <2>5. phase'[e] = "done" /\ \A d \in Exchanges : phase'[d] = "done" => d = e \/ phase[d] = "done"
    BY <1>3, <1>8 DEF ProxyInv, ProxyTypes
  <2>6. \A c \in calls' :
          \/ c \in calls
          \/ c = [run |-> u, call |-> Request(e).call, step |-> e]
    BY <1>8, <2>1 DEF Registered
  <2>7. Request(e).call \in CallNames
    BY DEF CallNames
  <2>8. ProxyTypes'
    <3>1. calls' \subseteq [run : RunsSoFar, call : CallNames, step : Exchanges]
      BY <2>3, <2>6, <2>7 DEF ProxyInv, ProxyTypes
    <3> QED
      BY <1>1, <1>2, <1>3, <2>2, <3>1 DEF ProxyInv, ProxyTypes, SameNames, SameTraffic
  <2>9. RunsHeld'
    <3>1. \A s \in steps' : Held(s.run)
      BY <2>2, <2>3 DEF ProxyInv, RunsHeld, SamePlace
    <3> QED
      BY <1>1, <1>3, <1>4, <3>1 DEF ProxyInv, RunsHeld
  <2>10. CountsAhead'
    <3> SUFFICES ASSUME NEW x \in Range(entries), Safe(x.run)
                 PROVE  /\ [id |-> x.run, provider |-> x.provider] \in runs
                        /\ \A s \in steps' : s.run = x.run => s.seq < x.count
                        /\ \A d \in Exchanges :
                             Busy(d)' /\ capture'[d].run = x.run => capture'[d].seq < x.count
      BY <1>1, <1>4 DEF CountsAhead
    <3>1. /\ [id |-> x.run, provider |-> x.provider] \in runs
          /\ \A s \in steps : s.run = x.run => s.seq < x.count
          /\ \A d \in Exchanges : Busy(d) /\ capture[d].run = x.run => capture[d].seq < x.count
      BY DEF ProxyInv, CountsAhead
    <3>2. \A s \in steps' : s.run = x.run => s.seq < x.count
      BY <1>1, <2>1, <2>2, <3>1 DEF SamePlace
    <3> QED
      BY <1>3, <3>1, <3>2
  <2>11. SlotsApart'
    <3> SUFFICES ASSUME NEW d \in Exchanges, Busy(d)', Safe(capture'[d].run)
                 PROVE  /\ \A f \in Exchanges \ {d} :
                             Busy(f)' /\ capture'[f].run = capture'[d].run
                               => capture'[f].seq # capture'[d].seq
                        /\ \A s \in steps' : s.run = capture'[d].run => s.seq # capture'[d].seq
      BY <1>4 DEF SlotsApart
    <3>1. capture'[d] = capture[d] /\ Busy(d) /\ d # e
      BY <1>3
    <3>2. /\ \A f \in Exchanges \ {d} :
               Busy(f) /\ capture[f].run = capture[d].run => capture[f].seq # capture[d].seq
          /\ \A s \in steps : s.run = capture[d].run => s.seq # capture[d].seq
      BY <3>1 DEF ProxyInv, SlotsApart
    <3>3. \A f \in Exchanges \ {d} :
            Busy(f)' /\ capture'[f].run = capture'[d].run => capture'[f].seq # capture'[d].seq
      BY <1>3, <3>1, <3>2
    <3>4. \A s \in steps' : s.run = capture'[d].run => s.seq # capture'[d].seq
      BY <1>1, <2>1, <2>2, <3>1, <3>2 DEF SamePlace
    <3> QED
      BY <3>3, <3>4
  <2>12. StepsStand'
    <3>1. ASSUME NEW s \in steps' PROVE StepStands(s)'
      <4>1. s.id \in Exchanges /\ phase'[s.id] = "done"
        BY <1>3, <2>2, <2>4, <2>5 DEF SamePlace
      <4>2. ASSUME Safe(s.run)
            PROVE  s.body.from = s.id /\ Labelled(s.run, s.id)
        <5>1. CASE s = new
          BY <2>2, <2>3, <4>2, <5>1
        <5>2. CASE s \in steps
          BY <4>2, <5>2 DEF ProxyInv, StepsStand, StepStands
        <5> QED
          BY <2>2, <4>2, <5>1, <5>2
      <4>3. Owns(s.id, s.run)
        <5>1. CASE s = new
          BY <2>2, <2>3, <5>1
        <5>2. CASE s # new
          <6>1. PICK r \in steps : SamePlace(r, s)
            BY <2>2, <5>2
          <6> QED
            BY <6>1 DEF ProxyInv, StepsStand, StepStands, SamePlace
        <5> QED
          BY <5>1, <5>2
      <4> QED
        BY <1>4, <4>1, <4>2, <4>3 DEF StepStands
    <3>2. ASSUME NEW d \in Exchanges, phase'[d] = "done", <<"id", Request(d).id>> \notin forgotten
          PROVE  \E s \in steps' : s.id = d
      <4>1. CASE d = e
        <5>1. Safe(u)
          BY <2>3, <3>2, <4>1 DEF Owns, Safe, Made
        <5> QED
          BY <2>2, <4>1, <5>1
      <4>2. CASE d # e
        <5>1. phase[d] = "done"
          BY <2>5, <3>2, <4>2
        <5>2. PICK r \in steps : r.id = d
          BY <3>2, <5>1 DEF ProxyInv, StepsStand
        <5> QED
          BY <2>2, <5>2 DEF SamePlace
      <4> QED
        BY <4>1, <4>2
    <3> QED
      BY <1>1, <1>4, <2>2, <3>1, <3>2 DEF StepsStand
  <2>13. RowsRead'
    <3> SUFFICES ASSUME NEW d \in Exchanges, Busy(d)', capture'[d].row # NoId
                 PROVE  RowRead(capture[d].row, capture[d].run, capture[d].answers)'
      BY DEF RowsRead
    <3>1. capture'[d] = capture[d] /\ Busy(d)
      BY <1>3
    <3>2. RowRead(capture[d].row, capture[d].run, capture[d].answers)
      BY <3>1 DEF ProxyInv, RowsRead
    <3>3. capture[d].row.id \in Exchanges
      BY <3>2 DEF RowRead, StepRows
    <3>4. \E s \in steps' : SamePlace(capture[d].row, s)
      BY <2>2, <3>2 DEF RowRead, SamePlace
    <3> QED
      BY <1>4, <3>1, <3>2, <3>3, <3>4 DEF RowRead, SamePlace
  <2>14. CallsPoint'
    <3> SUFFICES ASSUME NEW c \in calls'
                 PROVE  /\ phase'[c.step] = "done" /\ Request(c.step)'.call = c.call
                        /\ \A s \in steps' : s.id = c.step => s.run = c.run
      BY DEF CallsPoint
    <3>1. CASE c \in calls
      <4>1. c.step \in Exchanges
        BY <3>1 DEF ProxyInv, ProxyTypes
      <4>2. /\ phase[c.step] = "done" /\ Request(c.step).call = c.call
            /\ \A s \in steps : s.id = c.step => s.run = c.run
        BY <3>1 DEF ProxyInv, CallsPoint
      <4>3. c.step # e
        BY <1>1, <4>2
      <4> QED
        BY <1>3, <1>4, <2>2, <4>1, <4>2, <4>3 DEF SamePlace
    <3>2. CASE c = [run |-> u, call |-> Request(e).call, step |-> e]
      <4>1. c.run = u /\ c.call = Request(e).call /\ c.step = e
        BY <3>2
      <4>2. \A s \in steps' : s.id = e => s.run = u
        BY <2>2, <2>4 DEF SamePlace
      <4> QED
        BY <1>4, <2>5, <4>1, <4>2
    <3> QED
      BY <2>6, <3>1, <3>2
  <2> QED
    BY <1>5, <1>6, <2>8, <2>9, <2>10, <2>11, <2>12, <2>13, <2>14 DEF ProxyInv
<1> QED
  BY <1>1, <1>7, <1>8

LEMMA ProxyStepKeeps ==
  ASSUME ProxyInv, [ProxyNext]_vars
  PROVE  ProxyInv'
<1>1. ASSUME NEW e \in Exchanges, SendRequest(e) PROVE ProxyInv'
  BY <1>1, PhaseGoesOn DEF SendRequest, Phases
<1>2. ASSUME NEW e \in Exchanges, PassThrough(e) PROVE ProxyInv'
  BY <1>2, PhaseGoesOn DEF PassThrough, Phases
<1>3. ASSUME NEW e \in Exchanges, ExchangeFails(e) PROVE ProxyInv'
  BY <1>3, PhaseGoesOn DEF ExchangeFails, Phases
<1>4. CASE WindowPasses
  BY <1>4, WindowKeeps
<1>5. CASE Restart
  BY <1>5, RestartKeeps
<1>6. CASE UNCHANGED vars
  <2>1. /\ traffic' = traffic /\ capture' = capture /\ phase' = phase /\ entries' = entries
        /\ seen' = seen /\ calls' = calls /\ minted' = minted /\ runs' = runs /\ steps' = steps
        /\ forgotten' = forgotten
    BY <1>6 DEF vars, memory, store
  <2>2. SameNames /\ SameTraffic
    BY <2>1, TrafficStays
  <2> QED
    BY <2>1, <2>2 DEF ProxyInv, ProxyTypes, EntriesNamed, Apart, NamedAfter, RunsHeld, Held, RunsOf,
         CapturesMeant, Owns, Labelled, Safe, Busy, CountsAhead, SlotsApart, StepsStand, StepStands,
         RowsRead, RowRead, SamePlace, CallsPoint, Request, SameNames, SameTraffic
<1> QED
  BY <1>1, <1>2, <1>3, <1>4, <1>5, <1>6, ResponseEndsKeeps, AttachKeeps, AppendKeeps
     DEF ProxyNext, CaptureStep

(***************************************************************************)
(* For any traffic, registry and grouper, and however often the proxy is     *)
(* restarted: a capture that was written keeps a step of its own, which      *)
(* holds its exchange, in a run under the label of its provider; unless its  *)
(* explicit id is one that a restart or an eviction dropped.                 *)
(***************************************************************************)
THEOREM CapturesKept == ProxySpec => []ProxyCapturesKept
<1>1. ProxyInit => ProxyInv
  BY ProxyStarts
<1>2. ProxyInv /\ [ProxyNext]_vars => ProxyInv'
  BY ProxyStepKeeps
<1>3. ProxyInv => ProxyCapturesKept
  <2> SUFFICES ASSUME ProxyInv, NEW e \in Exchanges, phase[e] = "done",
                      <<"id", Request(e).id>> \notin forgotten
               PROVE  \E s \in steps, x \in runs :
                        /\ s.id = e /\ s.body.from = e /\ x.id = s.run
                        /\ x.provider = Provider(Request(e))
    BY DEF ProxyCapturesKept
  <2>1. PICK s \in steps : s.id = e
    BY DEF ProxyInv, StepsStand
  <2>2. Owns(e, s.run)
    BY <2>1 DEF ProxyInv, StepsStand, StepStands
  <2>3. Safe(s.run)
    BY <2>2 DEF Owns, Safe, Made
  <2>4. s.body.from = e /\ Labelled(s.run, e)
    BY <2>1, <2>3 DEF ProxyInv, StepsStand, StepStands
  <2>5. PICK x : x = [id |-> s.run, provider |-> Provider(Request(e))]
    OBVIOUS
  <2>6. x \in runs /\ x.id = s.run /\ x.provider = Provider(Request(e))
    BY <2>4, <2>5 DEF Labelled
  <2> QED
    BY <2>1, <2>4, <2>6
<1> QED
  BY <1>1, <1>2, <1>3, PTL DEF ProxySpec

(***************************************************************************)
(* Where the results go                                                    *)
(***************************************************************************)

(* The provider gives each call an id of its own.                           *)
UniqueCalls ==
  \A t \in Traffic : \A d, e \in Exchanges :
    t[d].call = t[e].call /\ t[d].call # NoCall => d = e

Answered(s) ==
  LET r == Request(s.id)
  IN  /\ s.body.outcome \in {r.result, r.call}
      /\ \/ r.call = NoCall \/ r.result # "ok" \/ s.body.outcome = r.call
         \/ [run |-> s.run, call |-> r.call, step |-> s.id] \in calls
ResultsInv == ProxyInv /\ \A s \in steps : s.run \notin forgotten => Answered(s)

LEMMA CallerIsOne ==
  ASSUME UniqueCalls, ProxyInv, NEW d \in Exchanges, NEW e \in Exchanges,
         Request(d).call = Request(e).call, Request(d).call # NoCall
  PROVE  d = e
BY DEF UniqueCalls, ProxyInv, ProxyTypes, Request

(* A step that writes no row and drops no call leaves the results.            *)
LEMMA ResultsStay ==
  ASSUME ResultsInv, traffic' = traffic, steps' = steps, calls' = calls, forgotten \subseteq forgotten'
  PROVE  \A s \in steps' : s.run \notin forgotten' => Answered(s)'
<1>1. \A s \in steps : s.id \in Exchanges
  BY DEF ResultsInv, ProxyInv, ProxyTypes, StepRows
<1>2. \A d \in Exchanges : Request(d)' = Request(d)
  BY DEF Request
<1> QED
  BY <1>1, <1>2 DEF ResultsInv, Answered

LEMMA AttachAnswers ==
  ASSUME UniqueCalls, ResultsInv, NEW e \in Exchanges, AttachToolResult(e)
  PROVE  \A s \in steps' : s.run \notin forgotten' => Answered(s)'
<1>0. ProxyInv
  BY DEF ResultsInv
<1>1. PICK row, u, call, new :
        /\ row = capture[e].row /\ u = capture[e].run
        /\ call = Head(capture[e].answers) /\ new = Attached(row, call)
  OBVIOUS
<1>2. /\ Busy(e) /\ row # NoId /\ calls' = calls \ Refs(u, call)
      /\ traffic' = traffic /\ forgotten' = forgotten
  BY <1>1 DEF AttachToolResult, Busy
<1>3. /\ steps' = {s \in steps : s.id # row.id} \union {new}
      /\ SamePlace(row, new) /\ new.body.outcome = call
  BY <1>0, <1>1, RowAttached
<1>4. row \in StepRows /\ Request(row.id).call = call
  BY <1>0, <1>1, <1>2 DEF ProxyInv, RowsRead, RowRead
<1>5. /\ row.id \in Exchanges /\ \A s \in steps : s.id \in Exchanges
      /\ \A d \in Exchanges : Request(d)' = Request(d)
  BY <1>0, <1>2, <1>4 DEF ProxyInv, ProxyTypes, StepRows, Request
<1>6. Answered(new)'
  BY <1>3, <1>4, <1>5 DEF Answered, SamePlace
<1>7. ASSUME NEW s \in steps, s.id # row.id, s.run \notin forgotten
      PROVE  Answered(s)'
  <2>1. Answered(s)
    BY <1>7 DEF ResultsInv
  <2>2. PICK ref : ref = [run |-> s.run, call |-> Request(s.id).call, step |-> s.id]
    OBVIOUS
  <2>3. ref.call = Request(s.id).call
    BY <2>2
  <2>4. ref \in calls /\ Request(s.id).call # NoCall => ref \in calls'
    <3> SUFFICES ASSUME ref \in calls, Request(s.id).call # NoCall, ref.call = call
                 PROVE  FALSE
      BY <1>2 DEF Refs
    <3>1. Request(s.id).call = Request(row.id).call
      BY <1>4, <2>3
    <3> QED
      BY <1>0, <1>5, <1>7, <3>1, CallerIsOne
  <2> QED
    BY <1>5, <2>1, <2>2, <2>4 DEF Answered
<1> QED
  BY <1>2, <1>3, <1>6, <1>7

LEMMA AppendAnswers ==
  ASSUME UniqueCalls, ResultsInv, NEW e \in Exchanges, AppendStep(e)
  PROVE  \A s \in steps' : s.run \notin forgotten' => Answered(s)'
<1>0. ProxyInv
  BY DEF ResultsInv
<1>1. /\ Busy(e) /\ phase[e] = "capture" /\ traffic' = traffic /\ forgotten' = forgotten
      /\ \/ steps' = steps /\ calls' = calls
         \/ steps' = InsertStep(steps, StepOf(e)) /\ calls' = Registered(e)
  BY DEF AppendStep, Busy
<1>2. CASE steps' = steps /\ calls' = calls
  BY <1>1, <1>2, ResultsStay
<1>3. CASE steps' = InsertStep(steps, StepOf(e)) /\ calls' = Registered(e)
  <2>1. PICK new, u, table : new = StepOf(e) /\ u = capture[e].run /\ table = steps'
    OBVIOUS
  <2>2. table = InsertStep(steps, StepOf(e))
    BY <1>3, <2>1
  <2>3. /\ new.id = e /\ new.run = u /\ new.body.outcome = Request(e).result
        /\ IF Safe(u) THEN table = steps \union {new}
           ELSE \A s \in table : s \in steps \/ s.run = u
    BY <1>0, <1>1, <2>1, <2>2, StepAppended
  <2>4. /\ \A s \in steps : s.id \in Exchanges /\ s.id # e
        /\ \A d \in Exchanges : Request(d)' = Request(d)
    BY <1>0, <1>1 DEF ProxyInv, ProxyTypes, StepRows, StepsStand, StepStands, Request
  <2>5. ~Safe(u) => u \in forgotten
    BY DEF Safe
  <2>6. Answered(new)'
    <3>1. Request(e).call # NoCall /\ Request(e).result = "ok" =>
            [run |-> u, call |-> Request(e).call, step |-> e] \in calls'
      BY <1>3, <2>1 DEF Registered
    <3> QED
      BY <2>3, <2>4, <3>1 DEF Answered
  <2>7. ASSUME NEW s \in steps, s.run \notin forgotten
        PROVE  Answered(s)'
    <3>1. Answered(s)
      BY <2>7 DEF ResultsInv
    <3>2. PICK ref : ref = [run |-> s.run, call |-> Request(s.id).call, step |-> s.id]
      OBVIOUS
    <3>3. ref.call = Request(s.id).call
      BY <3>2
    <3>4. ref \in calls /\ Request(s.id).call # NoCall => ref \in calls'
      <4> SUFFICES ASSUME ref \in calls, Request(s.id).call # NoCall, ref.call = Request(e).call
                   PROVE  FALSE
        BY <1>3 DEF Registered, Refs
      <4>1. Request(s.id).call = Request(e).call
        BY <3>3
      <4> QED
        BY <1>0, <2>4, <4>1, CallerIsOne
    <3> QED
      BY <2>4, <3>1, <3>2, <3>4 DEF Answered
  <2> QED
    BY <1>1, <2>1, <2>3, <2>5, <2>6, <2>7
<1> QED
  BY <1>1, <1>2, <1>3

LEMMA ResultsStepKeeps ==
  ASSUME UniqueCalls, ResultsInv, [ProxyNext]_vars
  PROVE  ResultsInv'
<1>1. ProxyInv'
  BY ProxyStepKeeps DEF ResultsInv
<1>2. ASSUME NEW e \in Exchanges, SendRequest(e) \/ PassThrough(e) \/ ExchangeFails(e) \/ ResponseEnds(e)
      PROVE  traffic' = traffic /\ steps' = steps /\ calls' = calls /\ forgotten \subseteq forgotten'
  BY <1>2 DEF SendRequest, PassThrough, ExchangeFails, ResponseEnds, store, memory
<1>3. CASE WindowPasses \/ UNCHANGED vars
  <2>1. traffic' = traffic /\ steps' = steps /\ calls' = calls /\ forgotten \subseteq forgotten'
    BY <1>3 DEF WindowPasses, vars, store, memory
  <2> QED
    BY <1>1, <2>1, ResultsStay DEF ResultsInv
<1>4. CASE Restart
  <2>1. \A s \in steps' : s.run \in forgotten'
    BY <1>4 DEF ResultsInv, ProxyInv, RunsHeld, Held, RunsOf, Range, Restart, store
  <2> QED
    BY <1>1, <2>1 DEF ResultsInv
<1>5. ASSUME NEW e \in Exchanges, CaptureStep(e)
      PROVE  ResultsInv'
  BY <1>1, <1>5, AttachAnswers, AppendAnswers DEF ResultsInv, CaptureStep
<1> QED
  BY <1>1, <1>2, <1>3, <1>4, <1>5, ResultsStay DEF ResultsInv, ProxyNext

(***************************************************************************)
(* If the calls of a behaviour have ids of their own: in a run that was not   *)
(* forgotten, each step has the outcome its response gave it or the result   *)
(* of its own call, and until the result has come the call is waited for;    *)
(* however many captures read, write blobs and write rows at once.           *)
(***************************************************************************)
THEOREM ResultsOnCallers == UniqueCalls => (ProxySpec => []ProxyResultsOnCallers)
<1> SUFFICES ASSUME UniqueCalls PROVE ProxySpec => []ProxyResultsOnCallers
  OBVIOUS
<1>1. ProxyInit => ResultsInv
  BY ProxyStarts DEF ResultsInv, ProxyInit
<1>2. ResultsInv /\ [ProxyNext]_vars => ResultsInv'
  BY ResultsStepKeeps
<1>3. ResultsInv => ProxyResultsOnCallers
  <2> SUFFICES ASSUME ResultsInv, NEW s \in steps, s.run \notin forgotten
               PROVE  Answered(s) /\ s.body.from = s.id
    BY DEF ProxyResultsOnCallers, Answered
  <2> QED
    BY DEF ResultsInv, ProxyInv, StepsStand, StepStands, Safe
<1> QED
  BY <1>1, <1>2, <1>3, PTL DEF ProxySpec

(***************************************************************************)
(* The steps table                                                         *)
(*                                                                         *)
(* Rows whose ids and slots go together are never refused and overwrite      *)
(* only the rows of their ids.  The one recursion has one solution: the       *)
(* closed form below is one, and no other differs from it at a least place.   *)
(***************************************************************************)
GoTogether(rows) ==
  \A r, s \in rows : r.id = s.id <=> (r.run = s.run /\ r.seq = s.seq)

PutOf(table) == [ok |-> TRUE, table |-> table]

PutNext(before, row) ==
  IF ~before.ok THEN before
  ELSE IF StepRefused(before.table, row) THEN [before EXCEPT !.ok = FALSE]
  ELSE PutOf(InsertStep(before.table, row))

IsPut(put, table, rows) ==
  put = [k \in 0..Len(rows) |-> IF k = 0 THEN PutOf(table) ELSE PutNext(put[k - 1], rows[k])]

(* The table once the first k rows are in.                                   *)
PutUpTo(table, rows, k) ==
  {r \in table : \A j \in 1..k : rows[j].id # r.id} \union {rows[j] : j \in 1..k}

LEMMA OneRowIn ==
  ASSUME NEW table, NEW row, GoTogether(table \union {row})
  PROVE  /\ ~StepRefused(table, row)
         /\ InsertStep(table, row) = {r \in table : r.id # row.id} \union {row}
<1>1. \A r \in table : r.id = row.id <=> (r.run = row.run /\ r.seq = row.seq)
  BY DEF GoTogether
<1>2. SameSlot(table, row) = SameId(table, row)
  BY <1>1 DEF SameSlot, SameId
<1>3. table \ SameId(table, row) = {r \in table : r.id # row.id}
  BY DEF SameId
<1>4. SameId(table, row) = {} => table = {r \in table : r.id # row.id}
  BY DEF SameId
<1> QED
  BY <1>2, <1>3, <1>4 DEF StepRefused, InsertStep

LEMMA NextRowIn ==
  ASSUME NEW table, NEW n \in Nat, NEW rows, DOMAIN rows = 1..n,
         GoTogether(table \union {rows[j] : j \in 1..n}),
         NEW k \in 1..n, \A i, j \in 1..n : rows[i].id = rows[j].id => i = j
  PROVE  /\ ~StepRefused(PutUpTo(table, rows, k - 1), rows[k])
         /\ InsertStep(PutUpTo(table, rows, k - 1), rows[k]) = PutUpTo(table, rows, k)
<1> DEFINE before == PutUpTo(table, rows, k - 1)
<1>1. before \union {rows[k]} \subseteq table \union {rows[j] : j \in 1..n}
  BY DEF PutUpTo
<1>2. GoTogether(before \union {rows[k]})
  BY <1>1 DEF GoTogether
<1>3. {r \in before : r.id # rows[k].id} \union {rows[k]} = PutUpTo(table, rows, k)
  <2>1. 1..k = 1..(k - 1) \union {k} /\ k \notin 1..(k - 1) /\ 1..k \subseteq 1..n
    OBVIOUS
  <2>2. {rows[j] : j \in 1..k} = {rows[j] : j \in 1..(k - 1)} \union {rows[k]}
    BY <2>1
  <2>3. \A j \in 1..(k - 1) : rows[j].id # rows[k].id
    BY <2>1
  <2>4. {r \in {rows[j] : j \in 1..(k - 1)} : r.id # rows[k].id} = {rows[j] : j \in 1..(k - 1)}
    BY <2>3
  <2>5. {r \in {x \in table : \A j \in 1..(k - 1) : rows[j].id # x.id} : r.id # rows[k].id}
          = {x \in table : \A j \in 1..k : rows[j].id # x.id}
    BY <2>1
  <2> QED
    BY <2>2, <2>4, <2>5 DEF PutUpTo
<1> HIDE DEF before
<1>4. /\ ~StepRefused(before, rows[k])
      /\ InsertStep(before, rows[k]) = {r \in before : r.id # rows[k].id} \union {rows[k]}
  BY <1>2, OneRowIn
<1> QED
  BY <1>3, <1>4 DEF before

LEMMA RowsAreIn ==
  ASSUME NEW table, NEW n \in Nat, NEW rows, DOMAIN rows = 1..n, Len(rows) = n,
         GoTogether(table \union {rows[j] : j \in 1..n}),
         \A i, j \in 1..n : rows[i].id = rows[j].id => i = j
  PROVE  InsertSteps(table, rows) = [ok |-> TRUE, table |-> PutUpTo(table, rows, n)]
<1> DEFINE closed == [k \in 0..n |-> PutOf(PutUpTo(table, rows, k))]
           put == CHOOSE f : IsPut(f, table, rows)
<1>1. InsertSteps(table, rows) = put[n]
  BY DEF InsertSteps, IsPut, PutOf, PutNext
<1>2. PutUpTo(table, rows, 0) = table
  BY DEF PutUpTo
<1>3. ASSUME NEW k \in 1..n
      PROVE  PutNext(PutOf(PutUpTo(table, rows, k - 1)), rows[k]) = PutOf(PutUpTo(table, rows, k))
  <2>1. /\ ~StepRefused(PutUpTo(table, rows, k - 1), rows[k])
        /\ InsertStep(PutUpTo(table, rows, k - 1), rows[k]) = PutUpTo(table, rows, k)
    BY NextRowIn
  <2> QED
    BY <2>1 DEF PutNext, PutOf
<1>4. IsPut(closed, table, rows)
  <2>1. \A k \in 1..n : closed[k] = PutNext(closed[k - 1], rows[k])
    <3>1. \A k \in 1..n : /\ closed[k - 1] = PutOf(PutUpTo(table, rows, k - 1))
                          /\ closed[k] = PutOf(PutUpTo(table, rows, k))
      OBVIOUS
    <3> HIDE DEF closed
    <3> QED
      BY <1>3, <3>1
  <2>2. closed[0] = PutOf(table)
    <3>1. closed[0] = PutOf(PutUpTo(table, rows, 0))
      OBVIOUS
    <3> HIDE DEF closed
    <3> QED
      BY <1>2, <3>1
  <2>3. closed = [k \in 0..Len(rows) |-> closed[k]]
    OBVIOUS
  <2>4. \A k \in 0..n : k = 0 \/ k \in 1..n
    OBVIOUS
  <2> HIDE DEF closed
  <2> QED
    BY <2>1, <2>2, <2>3, <2>4 DEF IsPut
<1>5. IsPut(put, table, rows)
  BY <1>4
<1> HIDE DEF put
<1>6. put[0] = PutOf(table) /\ \A k \in 1..n : put[k] = PutNext(put[k - 1], rows[k])
  BY <1>5 DEF IsPut
<1> DEFINE Bad == {k \in 0..n : put[k] # PutOf(PutUpTo(table, rows, k))}
<1>7. ASSUME Bad # {} PROVE FALSE
  <2>1. PICK k \in Bad : \A m \in Bad : k <= m
    <3>1. Bad \subseteq Nat
      OBVIOUS
    <3> HIDE DEF Bad
    <3> QED
      BY <1>7, <3>1, LeastNumber
  <2>2. k # 0
    BY <1>2, <1>6, <2>1
  <2>3. k \in 1..n /\ k - 1 \in 0..n /\ k - 1 \notin Bad
    BY <2>1, <2>2
  <2>4. put[k - 1] = PutOf(PutUpTo(table, rows, k - 1))
    BY <2>3
  <2>5. put[k] = PutOf(PutUpTo(table, rows, k))
    BY <1>3, <1>6, <2>3, <2>4
  <2> QED
    BY <2>1, <2>5
<1>8. put[n] = PutOf(PutUpTo(table, rows, n))
  BY <1>7
<1> QED
  BY <1>1, <1>8 DEF PutOf

(***************************************************************************)
(* Ranks                                                                   *)
(***************************************************************************)
Rank(places, i) == Cardinality({j \in places : j <= i})

LEMMA RankOf ==
  ASSUME NEW places, IsFiniteSet(places), places \subseteq Nat
  PROVE  /\ \A i \in places : Rank(places, i) \in 1..Cardinality(places)
         /\ \A i, k \in places : i < k => Rank(places, i) < Rank(places, k)
<1>1. ASSUME NEW i \in places PROVE Rank(places, i) \in 1..Cardinality(places)
  <2> DEFINE below == {j \in places : j <= i}
  <2>1. IsFiniteSet(below) /\ Cardinality(below) <= Cardinality(places) /\ below # {}
    BY FS_Subset
  <2>2. Cardinality(below) \in Nat /\ Cardinality(below) # 0 /\ Cardinality(places) \in Nat
    BY <2>1, FS_CardinalityType, FS_EmptySet
  <2> HIDE DEF below
  <2>3. Cardinality(below) \in 1..Cardinality(places)
    BY <2>1, <2>2
  <2> QED
    BY <2>3 DEF below, Rank
<1>2. ASSUME NEW i \in places, NEW k \in places, i < k PROVE Rank(places, i) < Rank(places, k)
  <2> DEFINE low == {j \in places : j <= i}
             high == {j \in places : j <= k}
  <2>1. low \subseteq high /\ k \in high /\ k \notin low
    <3>1. i \in Nat /\ k \in Nat /\ ~(k <= i) /\ k <= k
      BY <1>2
    <3>2. \A j \in places : j <= i => j <= k
      BY <1>2
    <3>3. k \in high
      BY <3>1
    <3>4. k \notin low
      BY <3>1
    <3>5. low \subseteq high
      BY <3>2
    <3> QED
      BY <3>3, <3>4, <3>5
  <2>5. IsFiniteSet(high)
    BY FS_Subset
  <2> HIDE DEF low, high
  <2>2. Cardinality(low) <= Cardinality(high) /\ Cardinality(low) # Cardinality(high) /\ IsFiniteSet(low)
    <3>1. low \in SUBSET high /\ low # high
      BY <2>1
    <3> QED
      BY <2>5, <3>1, FS_Subset
  <2>3. Cardinality(low) \in Nat /\ Cardinality(high) \in Nat
    BY <2>2, <2>5, FS_CardinalityType
  <2>4. Cardinality(low) < Cardinality(high)
    BY <2>2, <2>3
  <2> QED
    BY <2>4 DEF low, high, Rank
<1> QED
  BY <1>1, <1>2

LEMMA EveryRank ==
  ASSUME NEW places, IsFiniteSet(places), places \subseteq Nat, NEW n \in 1..Cardinality(places)
  PROVE  \E i \in places : Rank(places, i) = n
<1> DEFINE Bad == {m \in 1..Cardinality(places) : \A i \in places : Rank(places, i) # m}
<1>0. Cardinality(places) \in Nat
  BY FS_CardinalityType
<1>1. ASSUME Bad # {} PROVE FALSE
  <2>1. PICK m \in Bad : \A k \in Bad : m <= k
    <3>1. Bad \subseteq Nat
      BY <1>0
    <3> HIDE DEF Bad
    <3> QED
      BY <1>1, <3>1, LeastNumber
  <2>2. PICK low \in SUBSET places : /\ Cardinality(low) = m - 1
                                     /\ \A j \in low : \A k \in places : k <= j => k \in low
    <3>1. CASE m = 1
      BY <3>1, FS_EmptySet
    <3>2. CASE m # 1
      <4>1. m - 1 \in 1..Cardinality(places) /\ m - 1 \notin Bad
        BY <1>0, <2>1, <3>2
      <4>2. PICK i \in places : Rank(places, i) = m - 1
        BY <4>1
      <4>3. \A j \in {x \in places : x <= i} : \A k \in places : k <= j => k \in {x \in places : x <= i}
        OBVIOUS
      <4> QED
        BY <4>2, <4>3 DEF Rank
    <3> QED
      BY <3>1, <3>2
  <2>3. IsFiniteSet(low)
    BY FS_Subset
  <2>7. low # places
    BY <1>0, <2>1, <2>2
  <2>4. PICK i \in places \ low : \A k \in places \ low : i <= k
    <3>1. places \ low \subseteq Nat /\ places \ low # {}
      BY <2>7
    <3> QED
      BY <3>1, LeastNumber
  <2>5. {j \in places : j <= i} = low \union {i}
    <3>1. \A j \in low : ~(i <= j)
      BY <2>2, <2>4
    <3>2. \A j \in low : j <= i
      BY <2>4, <3>1
    <3>3. \A j \in places : j <= i => j \in low \/ j = i
      BY <2>4
    <3> QED
      BY <2>4, <3>2, <3>3
  <2>8. Cardinality(low \union {i}) = Cardinality(low) + 1
    BY <2>3, <2>4, FS_AddElement
  <2>6. Rank(places, i) = m
    BY <1>0, <2>1, <2>2, <2>5, <2>8 DEF Rank
  <2> QED
    BY <2>1, <2>4, <2>6
<1> QED
  BY <1>1

(***************************************************************************)
(* Codex                                                                   *)
(*                                                                         *)
(* What a record says of itself it says from the records before it, so it     *)
(* is the same in every longer file.                                        *)
(***************************************************************************)
StepPlaces(f) == {i \in DOMAIN f : IsStepRecord(f, i)}
SeqAt(f, i) == Cardinality({j \in 1..(i - 1) : IsStepRecord(f, j)})
View(n) == SubSeq(cxFile, 1, n)

Begins(f, m, file) == DOMAIN f = 1..m /\ Len(f) = m /\ \A i \in 1..m : f[i] = file[i]

LEMMA ViewBegins ==
  ASSUME NEW file, file \in Seq(CodexRecords), NEW m \in 0..Len(file)
  PROVE  Begins(SubSeq(file, 1, m), m, file)
<1>1. SubSeq(file, 1, m) \in Seq(CodexRecords) /\ Len(SubSeq(file, 1, m)) = m
  <2>1. \A i \in 1..m : file[i] \in CodexRecords
    OBVIOUS
  <2> QED
    BY <2>1, SubSeqProperties
<1>2. \A i \in 1..m : SubSeq(file, 1, m)[i] = file[i]
  OBVIOUS
<1> QED
  BY <1>1, <1>2 DEF Begins

LEMMA LastIsIn ==
  ASSUME NEW m \in Nat, NEW S, S \subseteq 1..m, S # {}
  PROVE  Max(S) \in S
<1> DEFINE Above == {m - i : i \in S}
<1>1. Above \subseteq Nat /\ Above # {}
  <2>1. \A i \in S : i \in 1..m /\ m - i \in Nat
    OBVIOUS
  <2> QED
    BY <2>1
<1>2. PICK least \in Above : \A k \in Above : least <= k
  BY <1>1, LeastNumber
<1>3. PICK i \in S : least = m - i
  BY <1>2
<1>4. \A k \in S : k <= i
  <2>1. \A k \in S : m - i <= m - k
    BY <1>2, <1>3
  <2> QED
    BY <2>1
<1> QED
  BY <1>4 DEF Max
LEMMA SameBefore ==
  ASSUME NEW file, NEW m \in Nat, NEW f, Begins(f, m, file), NEW i \in 1..m
  PROVE  /\ IsStepRecord(f, i) <=> IsStepRecord(file, i)
         /\ AnchorStep(f, i) = AnchorStep(file, i) /\ PatchStep(f, i) = PatchStep(file, i)
         /\ ModelAt(f, i) = ModelAt(file, i) /\ SeqAt(f, i) = SeqAt(file, i)
<1>1. \A j \in 1..(i - 1) : j \in 1..m /\ f[j] = file[j]
  BY DEF Begins
<1>2. f[i] = file[i]
  BY DEF Begins
<1>3. {j \in 1..(i - 1) : IsStepRecord(f, j)} = {j \in 1..(i - 1) : IsStepRecord(file, j)}
  BY <1>1 DEF IsStepRecord
<1>4. AnchorStep(f, i) = AnchorStep(file, i)
  BY <1>3 DEF AnchorStep
<1>5. {j \in 1..(i - 1) : f[j].kind = "call" /\ f[j].call = f[i].call}
        = {j \in 1..(i - 1) : file[j].kind = "call" /\ file[j].call = file[i].call}
  BY <1>1, <1>2
<1>6. PatchStep(f, i) = PatchStep(file, i)
  BY <1>4, <1>5 DEF PatchStep
<1> DEFINE turn == Latest({j \in 1..(i - 1) : file[j].kind = "turn"})
<1>7. {j \in 1..(i - 1) : f[j].kind = "turn"} = {j \in 1..(i - 1) : file[j].kind = "turn"}
  BY <1>1
<1>8. turn # 0 => f[turn] = file[turn]
  <2> DEFINE turns == {j \in 1..(i - 1) : file[j].kind = "turn"}
  <2>1. turns = {} \/ Max(turns) \in turns
    BY LastIsIn, i - 1 \in Nat
  <2> QED
    BY <1>1, <2>1 DEF Latest
<1> HIDE DEF turn
<1>9. ModelAt(f, i) = ModelAt(file, i)
  BY <1>7, <1>8 DEF ModelAt, turn
<1> QED
  BY <1>2, <1>3, <1>4, <1>6, <1>9 DEF SeqAt, IsStepRecord

LEMMA SamePatch ==
  ASSUME NEW file, NEW m \in Nat, NEW f, Begins(f, m, file), NEW i \in 1..m
  PROVE  PatchRow(f, i) = PatchRow(file, i)
<1>1. \A j \in 1..(i - 1) : j \in 1..m /\ f[j] = file[j] /\ PatchStep(f, j) = PatchStep(file, j)
  BY SameBefore DEF Begins
<1>2. f[i] = file[i] /\ PatchStep(f, i) = PatchStep(file, i)
  BY SameBefore DEF Begins
<1>3. {j \in 1..(i - 1) : f[j].kind = "patch" /\ PatchStep(f, j) = PatchStep(f, i)}
        = {j \in 1..(i - 1) : file[j].kind = "patch" /\ PatchStep(file, j) = PatchStep(file, i)}
  BY <1>1, <1>2
<1> QED
  BY <1>2, <1>3 DEF PatchRow

(* The steps of a file, as a set: one per message or call, with ids and slots   *)
(* that go together.                                                       *)
LEMMA StepsOfFile ==
  ASSUME NEW m \in Nat, NEW f, DOMAIN f = 1..m
  PROVE  LET made == CodexSteps(f)
             n == Cardinality(StepPlaces(f))
         IN  /\ n \in Nat /\ DOMAIN made = 1..n /\ Len(made) = n
             /\ Range(made) = {CodexStep(f, i) : i \in StepPlaces(f)}
             /\ {made[k] : k \in 1..n} = {CodexStep(f, i) : i \in StepPlaces(f)}
             /\ \A j, k \in 1..n : made[j].id = made[k].id => j = k
<1> DEFINE places == StepPlaces(f)
           n == Cardinality(places)
           made == CodexSteps(f)
           place == [k \in 1..n |-> CHOOSE i \in places : Rank(places, i) = k]
<1>1. IsFiniteSet(places) /\ places \subseteq Nat /\ n \in Nat
  <2>1. IsFiniteSet(1..m) /\ places \in SUBSET (1..m)
    BY FS_Interval DEF StepPlaces
  <2> QED
    BY <2>1, FS_Subset, FS_CardinalityType
<1>2. made = [k \in 1..n |-> CodexStep(f, place[k])]
  BY DEF CodexSteps, StepPlaces, Rank
<1>3. \A k \in 1..n : place[k] \in places /\ Rank(places, place[k]) = k
  <2> SUFFICES ASSUME NEW k \in 1..n PROVE place[k] \in places /\ Rank(places, place[k]) = k
    OBVIOUS
  <2>1. \E i \in places : Rank(places, i) = k
    <3> HIDE DEF places
    <3> QED
      BY <1>1, EveryRank
  <2> HIDE DEF places
  <2> QED
    BY <2>1
<1> HIDE DEF places, made, place
<1>4. \A i \in places : Rank(places, i) \in 1..n /\ place[Rank(places, i)] = i
  <2> SUFFICES ASSUME NEW i \in places
               PROVE  Rank(places, i) \in 1..n /\ place[Rank(places, i)] = i
    OBVIOUS
  <2>1. Rank(places, i) \in 1..n /\ \A k \in places : Rank(places, k) \in 1..n
    BY <1>1, RankOf
  <2> DEFINE k == place[Rank(places, i)]
  <2>2. k \in places /\ Rank(places, k) = Rank(places, i)
    BY <1>3, <2>1
  <2>3. (i < k => Rank(places, i) < Rank(places, k)) /\ (k < i => Rank(places, k) < Rank(places, i))
    BY <1>1, <2>2, RankOf
  <2> HIDE DEF k
  <2>4. k = i
    BY <1>1, <2>1, <2>2, <2>3
  <2> QED
    BY <2>1, <2>4 DEF k
<1>5. {made[k] : k \in 1..n} = {CodexStep(f, i) : i \in places}
  <2>1. \A k \in 1..n : made[k] = CodexStep(f, place[k])
    BY <1>2
  <2>2. \A i \in places : CodexStep(f, i) = made[Rank(places, i)]
    BY <1>4, <2>1
  <2> QED
    BY <1>3, <1>4, <2>1, <2>2
<1>6. DOMAIN made = 1..n /\ Len(made) = n /\ Range(made) = {made[k] : k \in 1..n}
  BY <1>1, <1>2 DEF Range
<1>7. \A j, k \in 1..n : made[j].id = made[k].id => j = k
  <2>1. \A k \in 1..n : made[k].id = place[k]
    BY <1>2 DEF CodexStep
  <2> QED
    BY <1>3, <2>1
<1> QED
  BY <1>1, <1>5, <1>6, <1>7 DEF places, made

LEMMA PatchesOf ==
  ASSUME NEW file, NEW m \in Nat, NEW f, Begins(f, m, file)
  PROVE  CodexChanges(f) = {PatchRow(file, i) : i \in {j \in 1..m : file[j].kind = "patch" /\ PatchStep(file, j) # 0}}
<1>1. \A i \in 1..m : /\ f[i] = file[i] /\ PatchStep(f, i) = PatchStep(file, i)
                      /\ PatchRow(f, i) = PatchRow(file, i)
  BY SameBefore, SamePatch DEF Begins
<1>2. DOMAIN f = 1..m
  BY DEF Begins
<1>3. {j \in DOMAIN f : f[j].kind = "patch" /\ PatchStep(f, j) # 0}
        = {j \in 1..m : file[j].kind = "patch" /\ PatchStep(file, j) # 0}
  BY <1>1, <1>2
<1> QED
  BY <1>1, <1>3 DEF CodexChanges

LEMMA PlacesOf ==
  ASSUME NEW file, NEW m \in Nat, NEW f, Begins(f, m, file)
  PROVE  StepPlaces(f) = {i \in 1..m : IsStepRecord(file, i)}
BY SameBefore DEF StepPlaces, Begins

(* A longer part of the file has the steps and changes of a shorter one, and   *)
(* usage where that had some.                                              *)
LEMMA LongerView ==
  ASSUME NEW file, NEW m \in Nat, NEW n \in Nat, m <= n, NEW f, Begins(f, m, file),
         NEW g, Begins(g, n, file)
  PROVE  /\ StepPlaces(f) \subseteq StepPlaces(g) /\ CodexChanges(f) \subseteq CodexChanges(g)
         /\ CodexHasUsage(f) => CodexHasUsage(g)
<1>0. 1..m \subseteq 1..n
  OBVIOUS
<1>1. StepPlaces(f) \subseteq StepPlaces(g)
  BY <1>0, PlacesOf
<1>2. CodexChanges(f) \subseteq CodexChanges(g)
  <2>1. {j \in 1..m : file[j].kind = "patch" /\ PatchStep(file, j) # 0}
          \subseteq {j \in 1..n : file[j].kind = "patch" /\ PatchStep(file, j) # 0}
    BY <1>0
  <2> QED
    BY <2>1, PatchesOf
<1>3. ASSUME NEW i \in StepPlaces(f), UsageOf(f, i) > 0 PROVE UsageOf(g, i) > 0
  <2> DEFINE less == {j \in 1..m : f[j].kind = "usage" /\ AnchorStep(f, j) = i}
             more == {j \in 1..n : g[j].kind = "usage" /\ AnchorStep(g, j) = i}
  <2>1. \A j \in 1..m : g[j] = f[j] /\ AnchorStep(g, j) = AnchorStep(f, j)
    BY <1>0, SameBefore DEF Begins
  <2>2. less \subseteq more
    BY <1>0, <2>1
  <2>3. IsFiniteSet(more)
    <3>1. IsFiniteSet(1..n)
      BY FS_Interval
    <3> QED
      BY <3>1, FS_Subset
  <2>4. UsageOf(f, i) = Cardinality(less) /\ UsageOf(g, i) = Cardinality(more)
    BY DEF UsageOf, Begins
  <2> HIDE DEF less, more
  <2>5. Cardinality(less) <= Cardinality(more) /\ IsFiniteSet(less)
    BY <2>2, <2>3, FS_Subset
  <2>6. Cardinality(less) \in Nat /\ Cardinality(more) \in Nat
    BY <2>3, <2>5, FS_CardinalityType
  <2> QED
    BY <1>3, <2>4, <2>5, <2>6
<1>4. CodexHasUsage(f) => CodexHasUsage(g)
  BY <1>1, <1>3 DEF CodexHasUsage, StepPlaces
<1> QED
  BY <1>1, <1>2, <1>4

(* Chatter after it changes nothing of what a file says.                     *)
LEMMA ChatterAdds ==
  ASSUME NEW file, NEW m \in Nat, NEW n \in Nat, m <= n, NEW f, Begins(f, m, file),
         NEW g, Begins(g, n, file), \A k \in (m + 1)..n : file[k].kind = "chatter"
  PROVE  /\ StepPlaces(g) = StepPlaces(f) /\ CodexChanges(g) = CodexChanges(f)
         /\ \A i \in StepPlaces(f) : CodexStep(g, i) = CodexStep(f, i)
         /\ CodexHasUsage(g) <=> CodexHasUsage(f)
         /\ FinalStatus(g) = FinalStatus(f)
<1>0. /\ DOMAIN f = 1..m /\ DOMAIN g = 1..n /\ \A j \in 1..m : j \in 1..n
      /\ \A j \in 1..n : j \in 1..m \/ g[j].kind = "chatter"
  <2>1. \A j \in 1..n : j \in 1..m \/ j \in (m + 1)..n
    OBVIOUS
  <2> QED
    BY <2>1 DEF Begins
<1>1. \A j \in 1..m : /\ g[j] = f[j] /\ AnchorStep(g, j) = AnchorStep(f, j)
                      /\ (IsStepRecord(g, j) <=> IsStepRecord(f, j))
                      /\ ModelAt(g, j) = ModelAt(f, j) /\ SeqAt(g, j) = SeqAt(f, j)
  BY <1>0, SameBefore DEF Begins
<1>2. StepPlaces(g) = StepPlaces(f)
  BY <1>0, <1>1 DEF StepPlaces, IsStepRecord
<1>3. CodexChanges(g) = CodexChanges(f)
  <2>1. {j \in 1..n : file[j].kind = "patch" /\ PatchStep(file, j) # 0}
          = {j \in 1..m : file[j].kind = "patch" /\ PatchStep(file, j) # 0}
    BY <1>0 DEF Begins
  <2> QED
    BY <2>1, PatchesOf
<1>4. \A i : UsageOf(g, i) = UsageOf(f, i)
  <2> SUFFICES ASSUME NEW i PROVE UsageOf(g, i) = UsageOf(f, i)
    OBVIOUS
  <2>1. {j \in DOMAIN g : g[j].kind = "usage" /\ AnchorStep(g, j) = i}
          = {j \in DOMAIN f : f[j].kind = "usage" /\ AnchorStep(f, j) = i}
    BY <1>0, <1>1
  <2> QED
    BY <2>1 DEF UsageOf
<1>5. ASSUME NEW i \in 1..m PROVE CodexOutcome(g, i) = CodexOutcome(f, i)
  <2> DEFINE outputs == {j \in DOMAIN f : f[j].kind = "output" /\ f[j].call = f[i].call}
  <2>1. {j \in DOMAIN g : g[j].kind = "output" /\ g[j].call = g[i].call} = outputs
    BY <1>0, <1>1
  <2>2. outputs = {} \/ Max(outputs) \in outputs
    BY <1>0, LastIsIn
  <2>3. OutputOf(g, i) = OutputOf(f, i) /\ (OutputOf(f, i) # 0 => OutputOf(f, i) \in 1..m)
    BY <1>0, <2>1, <2>2 DEF OutputOf, Latest
  <2> HIDE DEF outputs
  <2> QED
    BY <1>1, <2>3 DEF CodexOutcome
<1>6. \A i \in StepPlaces(f) : CodexStep(g, i) = CodexStep(f, i)
  <2>1. \A i \in StepPlaces(f) : i \in 1..m
    BY <1>0 DEF StepPlaces
  <2> QED
    BY <1>1, <1>4, <1>5, <2>1 DEF CodexStep, SeqAt
<1>7. CodexHasUsage(g) <=> CodexHasUsage(f)
  BY <1>2, <1>4 DEF CodexHasUsage, StepPlaces
<1>8. FinalStatus(g) = FinalStatus(f)
  BY <1>0, <1>1 DEF FinalStatus
<1> QED
  BY <1>2, <1>3, <1>6, <1>7, <1>8

(***************************************************************************)
(* What is stored is what the file says.  Steps are never taken away, so       *)
(* what an ingest found covered stays covered; alone, an ingest finds the      *)
(* store as the last one left it.                                          *)
(***************************************************************************)
Parsed == IF cxTorn THEN Len(cxFile) - 1 ELSE Len(cxFile)
Ingesting(i) == cxIngest[i].pc # "idle"

IngestType == [pc : {"idle", "offset", "build"}, offset : Nat, upTo : Nat, known : BOOLEAN]

CodexTypes ==
  /\ cxFile \in Seq(CodexRecords) /\ cxTorn \in BOOLEAN /\ (cxTorn => Len(cxFile) > 0)
  /\ cxOverlap \in BOOLEAN
  /\ DOMAIN cxStore = {"run", "approx", "status", "steps", "changes", "total", "offset"}
  /\ cxStore.offset \in 0..Parsed /\ cxStore.run \in BOOLEAN
  /\ cxIngest \in [CodexIngests -> IngestType]
  /\ \A i \in CodexIngests : cxIngest[i].offset <= Parsed /\ cxIngest[i].upTo <= Parsed

RowFits(r, file) == r.id \in StepPlaces(file) /\ r.run = CodexRun /\ r.seq = SeqAt(file, r.id)
RowsFitFile == \A r \in cxStore.steps : RowFits(r, cxFile)

Has(into, f) ==
  StepPlaces(f) \subseteq {r.id : r \in into.steps} /\ CodexChanges(f) \subseteq into.changes

Covered ==
  /\ Has(cxStore, View(cxStore.offset))
  /\ \A i \in CodexIngests : Ingesting(i) => Has(cxStore, View(cxIngest[i].offset))

StepsIn(f) == {CodexStep(f, i) : i \in StepPlaces(f)}

IsAll(into, f) ==
  /\ into.steps = StepsIn(f) /\ into.changes = CodexChanges(f)
  /\ into.status = FinalStatus(f) /\ into.approx = ~CodexHasUsage(f)
  /\ into.total = RunTotal(StepsIn(f), CodexRun)

StoredAlone ==
  \/ cxStore.offset = 0 /\ ~cxStore.run /\ cxStore.steps = {} /\ cxStore.changes = {}
  \/ cxStore.offset > 0 /\ cxStore.run /\ IsAll(cxStore, View(cxStore.offset))

Alone ==
  cxOverlap \/
    /\ StoredAlone
    /\ \A i, j \in CodexIngests : Ingesting(i) /\ Ingesting(j) => i = j
    /\ \A i \in CodexIngests : Ingesting(i) => cxIngest[i].offset = cxStore.offset
    /\ \A i \in CodexIngests : cxIngest[i].pc = "build" =>
         cxIngest[i].known = cxStore.run /\ cxStore.offset < cxIngest[i].upTo

CodexInv == CodexTypes /\ RowsFitFile /\ Covered /\ Alone

LEMMA ParsedIs == CodexTypes => Len(CodexParsed) = Parsed /\ Parsed \in Nat /\ Parsed <= Len(cxFile)
<1> SUFFICES ASSUME CodexTypes PROVE Len(CodexParsed) = Parsed /\ Parsed \in Nat /\ Parsed <= Len(cxFile)
  OBVIOUS
<1>1. cxFile \in Seq(CodexRecords) /\ Len(cxFile) \in Nat /\ (cxTorn => Len(cxFile) > 0)
  BY DEF CodexTypes
<1>2. ASSUME cxTorn PROVE Len(Front(cxFile)) = Len(cxFile) - 1
  <2>1. Len(cxFile) - 1 \in 0..Len(cxFile)
    BY <1>1, <1>2
  <2>2. Len(SubSeq(cxFile, 1, Len(cxFile) - 1)) = Len(cxFile) - 1
    BY <1>1, <2>1, ViewBegins DEF Begins
  <2> QED
    BY <2>2 DEF Front
<1> QED
  BY <1>1, <1>2 DEF CodexParsed, Parsed

(* A view of the file stays when the file grows.                             *)
LEMMA ViewsStay ==
  ASSUME CodexTypes, NEW r \in CodexRecords, cxFile' = Append(cxFile, r), NEW n \in 0..Len(cxFile)
  PROVE  SubSeq(cxFile', 1, n) = SubSeq(cxFile, 1, n) /\ Begins(cxFile, Len(cxFile), cxFile')
<1>1. cxFile \in Seq(CodexRecords) /\ Len(cxFile) \in Nat
  BY DEF CodexTypes
<1>2. \A i \in 1..Len(cxFile) : cxFile'[i] = cxFile[i]
  BY <1>1
<1>3. Begins(cxFile, Len(cxFile), cxFile')
  BY <1>1, <1>2 DEF Begins
<1>4. cxFile' \in Seq(CodexRecords) /\ Len(cxFile') = Len(cxFile) + 1
  BY <1>1
<1>5. SubSeq(cxFile', 1, n) = SubSeq(cxFile, 1, n)
  <2> DEFINE f == SubSeq(cxFile, 1, n)
             g == SubSeq(cxFile', 1, n)
  <2>1. f \in Seq(CodexRecords) /\ g \in Seq(CodexRecords)
    <3>1. \A i \in 1..n : cxFile[i] \in CodexRecords /\ cxFile'[i] \in CodexRecords
      BY <1>1, <1>4
    <3> QED
      BY <3>1, SubSeqProperties
  <2>6. n \in 0..Len(cxFile')
    BY <1>1, <1>4
  <2>2. Begins(f, n, cxFile) /\ Begins(g, n, cxFile')
    <3>1. Begins(f, n, cxFile)
      BY <1>1, ViewBegins
    <3>2. Begins(g, n, cxFile')
      BY <1>4, <2>6, ViewBegins
    <3> QED
      BY <3>1, <3>2
  <2> HIDE DEF f, g
  <2>3. \A i \in 1..n : f[i] = g[i]
    BY <1>2, <2>2 DEF Begins
  <2>4. Len(f) = n /\ Len(g) = n
    BY <2>2 DEF Begins
  <2>5. f = g
    BY <2>1, <2>3, <2>4, SeqEqual
  <2> QED
    BY <2>5 DEF f, g
<1> QED
  BY <1>3, <1>5

LEMMA RowsStayFit ==
  ASSUME NEW file, NEW m \in Nat, NEW f, Begins(f, m, file), Begins(file, Len(file), file),
         m <= Len(file), Len(file) \in Nat, NEW r, RowFits(r, f)
  PROVE  RowFits(r, file)
<1>1. r.id \in 1..m /\ IsStepRecord(f, r.id)
  BY DEF RowFits, StepPlaces, Begins
<1>2. (IsStepRecord(f, r.id) <=> IsStepRecord(file, r.id)) /\ SeqAt(f, r.id) = SeqAt(file, r.id)
  BY <1>1, SameBefore
<1>3. r.id \in DOMAIN file
  BY <1>1 DEF Begins
<1> QED
  BY <1>1, <1>2, <1>3 DEF RowFits, StepPlaces

LEMMA RowSlotsApart ==
  ASSUME NEW file, NEW n \in Nat, DOMAIN file = 1..n, NEW rows, \A r \in rows : RowFits(r, file)
  PROVE  GoTogether(rows)
<1>1. ASSUME NEW i \in StepPlaces(file), NEW j \in StepPlaces(file), i < j
      PROVE  SeqAt(file, i) < SeqAt(file, j)
  <2> DEFINE low == {k \in 1..(i - 1) : IsStepRecord(file, k)}
             high == {k \in 1..(j - 1) : IsStepRecord(file, k)}
  <2>1. i \in 1..n /\ j \in 1..n /\ IsStepRecord(file, i)
    BY DEF StepPlaces
  <2>2. low \subseteq high
    BY <1>1, <2>1
  <2>3. i \in high /\ i \notin low
    BY <1>1, <2>1
  <2>4. IsFiniteSet(high)
    <3>1. IsFiniteSet(1..(j - 1))
      BY <2>1, FS_Interval
    <3> QED
      BY <3>1, FS_Subset
  <2> HIDE DEF low, high
  <2>5. IsFiniteSet(low) /\ Cardinality(low) <= Cardinality(high) /\ Cardinality(low) # Cardinality(high)
    <3>1. low \in SUBSET high /\ low # high
      BY <2>2, <2>3
    <3> QED
      BY <2>4, <3>1, FS_Subset
  <2>6. Cardinality(low) \in Nat /\ Cardinality(high) \in Nat
    BY <2>4, <2>5, FS_CardinalityType
  <2>7. Cardinality(low) < Cardinality(high)
    BY <2>5, <2>6
  <2> QED
    BY <2>7 DEF low, high, SeqAt
<1>2. \A i \in StepPlaces(file) : i \in Nat /\ SeqAt(file, i) \in Nat
  <2> SUFFICES ASSUME NEW i \in StepPlaces(file) PROVE i \in Nat /\ SeqAt(file, i) \in Nat
    OBVIOUS
  <2>1. i \in 1..n
    BY DEF StepPlaces
  <2>2. IsFiniteSet({k \in 1..(i - 1) : IsStepRecord(file, k)})
    <3>1. IsFiniteSet(1..(i - 1))
      BY <2>1, FS_Interval
    <3> QED
      BY <3>1, FS_Subset
  <2> QED
    BY <2>1, <2>2, FS_CardinalityType DEF SeqAt
<1>3. ASSUME NEW r \in rows, NEW s \in rows PROVE r.id = s.id <=> (r.run = s.run /\ r.seq = s.seq)
  <2>1. /\ r.id \in StepPlaces(file) /\ r.run = CodexRun /\ r.seq = SeqAt(file, r.id)
        /\ s.id \in StepPlaces(file) /\ s.run = CodexRun /\ s.seq = SeqAt(file, s.id)
    BY DEF RowFits
  <2>2. r.id = s.id => r.seq = s.seq
    BY <2>1
  <2>3. r.seq = s.seq => r.id = s.id
    <3>1. r.id \in Nat /\ s.id \in Nat /\ r.seq \in Nat /\ s.seq \in Nat
      BY <1>2, <2>1
    <3>2. (r.id < s.id => r.seq < s.seq) /\ (s.id < r.id => s.seq < r.seq)
      BY <1>1, <2>1
    <3> QED
      BY <3>1, <3>2
  <2> QED
    BY <2>1, <2>2, <2>3
<1> QED
  BY <1>3 DEF GoTogether

LEMMA ViewOf ==
  ASSUME CodexTypes, NEW n \in 0..Parsed
  PROVE  Begins(View(n), n, cxFile) /\ n \in Nat /\ n <= Len(cxFile) /\ Begins(cxFile, Len(cxFile), cxFile)
<1>1. cxFile \in Seq(CodexRecords) /\ n \in 0..Len(cxFile) /\ n \in Nat /\ n <= Len(cxFile)
  BY ParsedIs DEF CodexTypes
<1>2. Begins(View(n), n, cxFile)
  BY <1>1, ViewBegins DEF View
<1> QED
  BY <1>1, <1>2 DEF Begins

(* What a rebuild leaves of the steps table: the rows that its part of the file  *)
(* does not name, and its own.                                             *)
LEMMA RowsWritten ==
  ASSUME CodexTypes, RowsFitFile, NEW n \in 0..Parsed
  PROVE  /\ InsertSteps(cxStore.steps, CodexSteps(View(n))).table
              = {r \in cxStore.steps : r.id \notin StepPlaces(View(n))} \union StepsIn(View(n))
         /\ \A r \in StepsIn(View(n)) : RowFits(r, cxFile)
<1> DEFINE f == View(n)
           rows == CodexSteps(f)
           size == Cardinality(StepPlaces(f))
<1>1. /\ Begins(f, n, cxFile) /\ n \in Nat /\ n <= Len(cxFile)
      /\ Begins(cxFile, Len(cxFile), cxFile) /\ Len(cxFile) \in Nat
  BY ViewOf DEF CodexTypes
<1>2. ASSUME NEW r \in StepsIn(f) PROVE RowFits(r, f)
  <2>1. PICK i \in StepPlaces(f) : r = CodexStep(f, i)
    BY DEF StepsIn
  <2>2. r.id = i /\ r.run = CodexRun /\ r.seq = SeqAt(f, i)
    BY <2>1 DEF CodexStep, SeqAt
  <2> QED
    BY <2>1, <2>2 DEF RowFits
<1>3. \A r \in StepsIn(f) : RowFits(r, cxFile)
  BY <1>1, <1>2, RowsStayFit
<1>4. /\ size \in Nat /\ DOMAIN rows = 1..size /\ Len(rows) = size
      /\ {rows[k] : k \in 1..size} = StepsIn(f)
      /\ \A j, k \in 1..size : rows[j].id = rows[k].id => j = k
  <2>1. DOMAIN f = 1..n
    BY <1>1 DEF Begins
  <2> HIDE DEF f
  <2> QED
    BY <1>1, <2>1, StepsOfFile DEF StepsIn
<1>5. GoTogether(cxStore.steps \union StepsIn(f))
  <2>1. \A r \in cxStore.steps \union StepsIn(f) : RowFits(r, cxFile)
    BY <1>3 DEF RowsFitFile
  <2>2. DOMAIN cxFile = 1..Len(cxFile)
    BY <1>1 DEF Begins
  <2> HIDE DEF f
  <2> QED
    BY <1>1, <2>1, <2>2, RowSlotsApart
<1> HIDE DEF f, rows, size
<1>6. InsertSteps(cxStore.steps, rows).table = PutUpTo(cxStore.steps, rows, size)
  <2>1. GoTogether(cxStore.steps \union {rows[k] : k \in 1..size})
    BY <1>4, <1>5
  <2>2. InsertSteps(cxStore.steps, rows) = [ok |-> TRUE, table |-> PutUpTo(cxStore.steps, rows, size)]
    BY <1>4, <2>1, RowsAreIn
  <2> QED
    BY <2>2
<1>7. {r \in cxStore.steps : \A j \in 1..size : rows[j].id # r.id}
        = {r \in cxStore.steps : r.id \notin StepPlaces(f)}
  <2>1. {rows[k].id : k \in 1..size} = StepPlaces(f)
    <3>1. {rows[k].id : k \in 1..size} = {r.id : r \in StepsIn(f)}
      BY <1>4
    <3>2. {r.id : r \in StepsIn(f)} = StepPlaces(f)
      <4>1. \A i \in StepPlaces(f) : CodexStep(f, i).id = i
        BY DEF CodexStep
      <4> QED
        BY <4>1 DEF StepsIn
    <3> QED
      BY <3>1, <3>2
  <2> QED
    BY <2>1
<1>8. PutUpTo(cxStore.steps, rows, size) = {r \in cxStore.steps : r.id \notin StepPlaces(f)} \union StepsIn(f)
  BY <1>4, <1>7 DEF PutUpTo
<1> QED
  BY <1>3, <1>6, <1>8 DEF f, rows

LEMMA InitCodex == CodexInit => CodexInv
<1> SUFFICES ASSUME CodexInit PROVE CodexInv
  OBVIOUS
<1>1. CodexTypes /\ Parsed = 0
  <2>1. cxFile = <<>> /\ cxFile \in Seq(CodexRecords) /\ Len(cxFile) = 0 /\ cxTorn = FALSE
    BY DEF CodexInit
  <2>2. Parsed = 0
    BY <2>1 DEF Parsed
  <2>3. /\ DOMAIN cxStore = {"run", "approx", "status", "steps", "changes", "total", "offset"}
        /\ cxStore.offset = 0 /\ cxStore.run = FALSE
    BY DEF CodexInit
  <2>4. /\ cxIngest \in [CodexIngests -> IngestType]
        /\ \A i \in CodexIngests : cxIngest[i].offset = 0 /\ cxIngest[i].upTo = 0
    BY DEF CodexInit, CodexIdle, IngestType
  <2>5. cxOverlap \in BOOLEAN
    BY DEF CodexInit
  <2>6. cxTorn \in BOOLEAN /\ ~cxTorn /\ cxStore.run \in BOOLEAN
    BY <2>1, <2>3
  <2>7. /\ cxStore.offset \in 0..Parsed
        /\ \A i \in CodexIngests : cxIngest[i].offset <= Parsed /\ cxIngest[i].upTo <= Parsed
    BY <2>2, <2>3, <2>4
  <2> QED
    BY <2>1, <2>2, <2>3, <2>4, <2>5, <2>6, <2>7 DEF CodexTypes
<1>2. Begins(View(0), 0, cxFile)
  BY <1>1, ViewOf
<1>3. Has(cxStore, View(0))
  <2>1. StepPlaces(View(0)) = {}
    BY <1>2 DEF Begins, StepPlaces
  <2>2. CodexChanges(View(0)) = {}
    BY <1>2 DEF Begins, CodexChanges
  <2> QED
    BY <2>1, <2>2 DEF Has
<1>4. \A i \in CodexIngests : cxIngest[i] = CodexIdle
  BY DEF CodexInit
<1>5. Covered
  BY <1>3, <1>4 DEF Covered, Ingesting, CodexIdle, CodexInit
<1>6. Alone
  BY <1>4 DEF Alone, StoredAlone, Ingesting, CodexIdle, CodexInit
<1>7. RowsFitFile
  BY DEF RowsFitFile, CodexInit
<1> QED
  BY <1>1, <1>5, <1>6, <1>7 DEF CodexInv

(* The CLI writes: the ingests and the store are as they were.                 *)
LEMMA FileGrows ==
  ASSUME CodexInv, CodexWrite \/ CodexWriteRest
  PROVE  CodexInv'
<1>0. CodexTypes /\ RowsFitFile /\ Covered /\ Alone
  BY DEF CodexInv
<1>1. UNCHANGED <<cxStore, cxIngest, cxOverlap>>
  BY DEF CodexWrite, CodexWriteRest
<1>2. /\ cxFile' \in Seq(CodexRecords) /\ cxTorn' \in BOOLEAN /\ (cxTorn' => Len(cxFile') > 0)
      /\ Parsed \in Nat /\ Parsed' \in Nat /\ Parsed <= Parsed'
  <2>1. cxFile \in Seq(CodexRecords) /\ Len(cxFile) \in Nat /\ (cxTorn => Len(cxFile) > 0)
    BY <1>0 DEF CodexTypes
  <2>2. CASE CodexWrite
    <3>1. PICK r \in CodexRecords : cxFile' = Append(cxFile, r)
      BY <2>2 DEF CodexWrite
    <3>2. cxFile' \in Seq(CodexRecords) /\ Len(cxFile') = Len(cxFile) + 1
      BY <2>1, <3>1
    <3>3. ~cxTorn /\ cxTorn' = TRUE
      BY <2>2 DEF CodexWrite
    <3>4. Parsed = Len(cxFile) /\ Parsed' = Len(cxFile') - 1
      BY <3>3 DEF Parsed
    <3>5. cxTorn' \in BOOLEAN /\ Len(cxFile') > 0
      BY <2>1, <3>2, <3>3
    <3>6. Parsed \in Nat /\ Parsed' \in Nat /\ Parsed <= Parsed'
      BY <2>1, <3>2, <3>4
    <3> QED
      BY <3>2, <3>5, <3>6
  <2>3. CASE CodexWriteRest
    <3>1. cxTorn /\ cxTorn' = FALSE /\ cxFile' = cxFile
      BY <2>3 DEF CodexWriteRest
    <3>2. Parsed = Len(cxFile) - 1 /\ Parsed' = Len(cxFile)
      BY <3>1 DEF Parsed
    <3>3. cxTorn' \in BOOLEAN /\ cxFile' \in Seq(CodexRecords) /\ Len(cxFile') > 0
      BY <2>1, <3>1
    <3>4. Parsed \in Nat /\ Parsed' \in Nat /\ Parsed <= Parsed'
      BY <2>1, <3>1, <3>2
    <3> QED
      BY <3>3, <3>4
  <2> QED
    BY <2>2, <2>3
<1>3. CodexTypes'
  <2>1. cxStore'.offset \in 0..Parsed'
    BY <1>0, <1>1, <1>2 DEF CodexTypes
  <2>2. \A i \in CodexIngests : /\ cxIngest[i].offset \in Nat /\ cxIngest[i].upTo \in Nat
                                /\ cxIngest[i].offset <= Parsed /\ cxIngest[i].upTo <= Parsed
    BY <1>0 DEF CodexTypes, IngestType
  <2>3. \A i \in CodexIngests : cxIngest'[i].offset <= Parsed' /\ cxIngest'[i].upTo <= Parsed'
    BY <1>1, <1>2, <2>2
  <2> QED
    BY <1>0, <1>1, <1>2, <2>1, <2>3 DEF CodexTypes
<1>4. \A n \in 0..Parsed : View(n)' = View(n)
  <2> SUFFICES ASSUME NEW n \in 0..Parsed PROVE SubSeq(cxFile', 1, n) = SubSeq(cxFile, 1, n)
    BY DEF View
  <2>1. CASE CodexWrite
    <3>1. n \in 0..Len(cxFile)
      BY <1>0, ParsedIs, ViewOf
    <3> QED
      BY <1>0, <2>1, <3>1, ViewsStay DEF CodexWrite
  <2> QED
    BY <2>1 DEF CodexWriteRest
<1>5. RowsFitFile'
  <2>1. CASE CodexWrite
    <3>1. Begins(cxFile, Len(cxFile), cxFile')
      <4>1. 0 \in 0..Len(cxFile)
        BY <1>0 DEF CodexTypes
      <4> QED
        BY <1>0, <2>1, <4>1, ViewsStay DEF CodexWrite
    <3>2. Len(cxFile) \in Nat /\ Len(cxFile') = Len(cxFile) + 1 /\ cxFile' \in Seq(CodexRecords)
      BY <1>0, <2>1 DEF CodexTypes, CodexWrite
    <3>3. Begins(cxFile', Len(cxFile'), cxFile')
      BY <3>2 DEF Begins
    <3>4. Len(cxFile) <= Len(cxFile') /\ Len(cxFile') \in Nat
      BY <3>2
    <3>5. \A r \in cxStore.steps : RowFits(r, cxFile')
      <4> SUFFICES ASSUME NEW r \in cxStore.steps PROVE RowFits(r, cxFile')
        OBVIOUS
      <4>1. RowFits(r, cxFile)
        BY <1>0 DEF RowsFitFile
      <4> QED
        BY <3>1, <3>2, <3>3, <3>4, <4>1, RowsStayFit
    <3> QED
      BY <1>1, <3>5 DEF RowsFitFile
  <2>2. CASE CodexWriteRest
    BY <1>0, <1>1, <2>2 DEF RowsFitFile, CodexWriteRest
  <2> QED
    BY <2>1, <2>2
<1>6. cxStore.offset \in 0..Parsed /\ \A i \in CodexIngests : cxIngest[i].offset \in 0..Parsed
  BY <1>0, <1>2 DEF CodexTypes, IngestType
<1>8. View(cxStore.offset)' = View(cxStore.offset)
  <2>1. PICK n \in 0..Parsed : n = cxStore.offset
    BY <1>6
  <2>2. cxStore'.offset = n /\ View(n)' = View(n)
    BY <1>1, <1>4, <2>1
  <2> QED
    BY <2>1, <2>2 DEF View
<1>9. \A i \in CodexIngests : View(cxIngest[i].offset)' = View(cxIngest[i].offset)
  <2> SUFFICES ASSUME NEW i \in CodexIngests PROVE View(cxIngest[i].offset)' = View(cxIngest[i].offset)
    OBVIOUS
  <2>1. PICK n \in 0..Parsed : n = cxIngest[i].offset
    BY <1>6
  <2>2. cxIngest'[i].offset = n /\ View(n)' = View(n)
    BY <1>1, <1>4, <2>1
  <2> QED
    BY <2>1, <2>2 DEF View
<1>10. Covered'
  BY <1>0, <1>1, <1>8, <1>9 DEF Covered, Has, Ingesting
<1>11. Alone'
  <2>1. StoredAlone => StoredAlone'
    BY <1>1, <1>8 DEF StoredAlone, IsAll
  <2> QED
    BY <1>0, <1>1, <2>1 DEF Alone, Ingesting
<1> QED
  BY <1>3, <1>5, <1>10, <1>11 DEF CodexInv

LEMMA LooksUp ==
  ASSUME CodexInv, NEW i \in CodexIngests, CodexLookup(i)
  PROVE  CodexInv'
<1>0. CodexTypes /\ RowsFitFile /\ Covered /\ Alone
  BY DEF CodexInv
<1>1. UNCHANGED <<cxFile, cxTorn, cxStore>> /\ Parsed' = Parsed /\ \A n : SubSeq(cxFile', 1, n) = SubSeq(cxFile, 1, n)
  BY DEF CodexLookup, Parsed
<1>2. /\ ~Ingesting(i) /\ cxIngest'[i].pc = "offset" /\ cxIngest'[i].offset = cxStore.offset
      /\ cxIngest'[i].upTo = cxIngest[i].upTo
      /\ cxIngest'[i] \in IngestType
      /\ \A k \in CodexIngests \ {i} : cxIngest'[k] = cxIngest[k]
      /\ DOMAIN cxIngest' = CodexIngests
  <2> DEFINE new == [cxIngest[i] EXCEPT !.pc = "offset", !.offset = cxStore.offset]
  <2>1. cxIngest \in [CodexIngests -> IngestType] /\ cxStore.offset \in Nat
    BY <1>0, ParsedIs DEF CodexTypes
  <2>2. cxIngest' = [cxIngest EXCEPT ![i] = new]
    BY <2>1 DEF CodexLookup
  <2>3. /\ new \in IngestType /\ new.pc = "offset" /\ new.offset = cxStore.offset
        /\ new.upTo = cxIngest[i].upTo
    BY <2>1 DEF IngestType
  <2> HIDE DEF new
  <2> QED
    BY <2>1, <2>2, <2>3 DEF CodexLookup, Ingesting
<1>3. CodexTypes'
  <2>1. cxOverlap' \in BOOLEAN
    BY <1>0 DEF CodexLookup, CodexTypes
  <2>2. cxIngest' \in [CodexIngests -> IngestType]
    <3>1. cxIngest \in [CodexIngests -> IngestType] /\ DOMAIN cxIngest' = CodexIngests
      BY <1>0, <1>2 DEF CodexTypes
    <3>2. cxIngest' = [k \in CodexIngests |-> cxIngest'[k]]
      BY <3>1 DEF CodexLookup
    <3> QED
      BY <1>2, <3>1, <3>2
  <2>3. \A k \in CodexIngests : cxIngest'[k].offset <= Parsed /\ cxIngest'[k].upTo <= Parsed
    BY <1>0, <1>2 DEF CodexTypes
  <2> QED
    BY <1>0, <1>1, <2>1, <2>2, <2>3 DEF CodexTypes
<1>4. RowsFitFile'
  BY <1>0, <1>1 DEF RowsFitFile
<1>5. Covered'
  BY <1>0, <1>1, <1>2 DEF Covered, Ingesting, View
<1>6. Alone'
  <2>1. CASE cxOverlap'
    BY <2>1 DEF Alone
  <2>2. CASE ~cxOverlap'
    <3>1. ~cxOverlap /\ \A k \in CodexIngests \ {i} : ~Ingesting(k)
      BY <2>2 DEF CodexLookup, Ingesting
    <3>2. \A k \in CodexIngests : Ingesting(k)' => k = i
      BY <1>2, <3>1 DEF Ingesting
    <3>3. StoredAlone'
      BY <1>0, <1>1, <3>1 DEF Alone, StoredAlone, View
    <3> QED
      BY <1>1, <1>2, <3>2, <3>3 DEF Alone, Ingesting
  <2> QED
    BY <2>1, <2>2
<1> QED
  BY <1>3, <1>4, <1>5, <1>6 DEF CodexInv

LEMMA Reads ==
  ASSUME CodexInv, NEW i \in CodexIngests, CodexRead(i)
  PROVE  CodexInv'
<1>0. CodexTypes /\ RowsFitFile /\ Covered /\ Alone
  BY DEF CodexInv
<1>1. /\ UNCHANGED <<cxFile, cxTorn, cxStore, cxOverlap>> /\ Parsed' = Parsed
      /\ \A n : SubSeq(cxFile', 1, n) = SubSeq(cxFile, 1, n)
  BY DEF CodexRead, Parsed
<1>2. /\ Ingesting(i) /\ cxIngest'[i].pc = "build" /\ cxIngest'[i].offset = cxIngest[i].offset
      /\ cxIngest'[i].upTo = Parsed /\ cxIngest'[i].known = cxStore.run
      /\ cxIngest[i].offset < Parsed /\ Parsed \in Nat
      /\ \A k \in CodexIngests \ {i} : cxIngest'[k] = cxIngest[k]
      /\ cxIngest' \in [CodexIngests -> IngestType]
  <2> DEFINE new == [cxIngest[i] EXCEPT !.pc = "build", !.upTo = Parsed, !.known = cxStore.run]
  <2>1. /\ cxIngest \in [CodexIngests -> IngestType] /\ cxStore.run \in BOOLEAN
        /\ Parsed \in Nat /\ Len(CodexParsed) = Parsed
    BY <1>0, ParsedIs DEF CodexTypes
  <2>2. cxIngest' = [cxIngest EXCEPT ![i] = new]
    BY <2>1 DEF CodexRead
  <2>3. /\ new \in IngestType /\ new.pc = "build" /\ new.offset = cxIngest[i].offset
        /\ new.upTo = Parsed /\ new.known = cxStore.run
    BY <2>1 DEF IngestType
  <2>4. cxIngest[i].pc = "offset" /\ cxIngest[i].offset < Parsed
    BY <2>1 DEF CodexRead
  <2> HIDE DEF new
  <2> QED
    BY <2>1, <2>2, <2>3, <2>4 DEF Ingesting
<1>3. CodexTypes'
  <2>1. \A k \in CodexIngests : cxIngest'[k].offset <= Parsed /\ cxIngest'[k].upTo <= Parsed
    BY <1>0, <1>2 DEF CodexTypes
  <2> QED
    BY <1>0, <1>1, <1>2, <2>1 DEF CodexTypes
<1>4. RowsFitFile'
  BY <1>0, <1>1 DEF RowsFitFile
<1>5. \A k \in CodexIngests : (Ingesting(k)' <=> Ingesting(k)) /\ cxIngest'[k].offset = cxIngest[k].offset
  BY <1>2 DEF Ingesting
<1>6. Covered'
  BY <1>0, <1>1, <1>5 DEF Covered, View
<1>7. Alone'
  <2>1. StoredAlone => StoredAlone'
    BY <1>1 DEF StoredAlone, View
  <2> QED
    BY <1>0, <1>1, <1>2, <1>5, <2>1 DEF Alone
<1> QED
  BY <1>3, <1>4, <1>6, <1>7 DEF CodexInv

LEMMA FindsNothing ==
  ASSUME CodexInv, NEW i \in CodexIngests, CodexNothingNew(i)
  PROVE  CodexInv'
<1>0. CodexTypes /\ RowsFitFile /\ Covered /\ Alone
  BY DEF CodexInv
<1>1. /\ UNCHANGED <<cxFile, cxTorn, cxOverlap>> /\ Parsed' = Parsed
      /\ \A n : SubSeq(cxFile', 1, n) = SubSeq(cxFile, 1, n)
  BY DEF CodexNothingNew, Parsed
<1>2. /\ Ingesting(i) /\ ~Ingesting(i)' /\ cxIngest'[i] = CodexIdle
      /\ \A k \in CodexIngests \ {i} : cxIngest'[k] = cxIngest[k]
      /\ cxIngest' \in [CodexIngests -> IngestType]
  BY <1>0 DEF CodexTypes, CodexNothingNew, Ingesting, CodexIdle, IngestType
<1>3. /\ cxStore'.run = cxStore.run /\ cxStore'.steps = cxStore.steps /\ cxStore'.changes = cxStore.changes
      /\ cxStore'.status = cxStore.status /\ cxStore'.approx = cxStore.approx /\ cxStore'.total = cxStore.total
      /\ DOMAIN cxStore' = DOMAIN cxStore
  BY <1>0 DEF CodexTypes, CodexNothingNew
<1> DEFINE from == cxIngest[i].offset
<1>4. Parsed \in Nat /\ from \in 0..Parsed /\ Len(CodexParsed) = Parsed /\ cxStore.offset \in 0..Parsed
  BY <1>0, ParsedIs DEF CodexTypes, IngestType
<1>5. \/ cxStore'.offset = cxStore.offset
      \/ /\ cxStore'.offset = Parsed /\ 0 < from /\ from < Parsed
         /\ \A k \in (from + 1)..Parsed : cxFile[k].kind = "chatter"
  <2>1. \/ from >= Parsed /\ cxStore'.offset = cxStore.offset
        \/ /\ ~(from >= Parsed) /\ cxStore'.offset = Parsed /\ from > 0
           /\ \A k \in (from + 1)..Parsed : ~IsMaterialRecord(cxFile, k)
    BY <1>0, <1>4 DEF CodexNothingNew, CodexTypes
  <2> QED
    BY <1>4, <2>1 DEF IsMaterialRecord
<1>6. CodexTypes'
  <2>1. cxStore'.offset \in 0..Parsed
    BY <1>4, <1>5
  <2>2. \A k \in CodexIngests : cxIngest'[k].offset <= Parsed /\ cxIngest'[k].upTo <= Parsed
    <3>1. \A k \in CodexIngests \ {i} : cxIngest'[k].offset <= Parsed /\ cxIngest'[k].upTo <= Parsed
      BY <1>0, <1>2 DEF CodexTypes
    <3>2. cxIngest'[i].offset <= Parsed /\ cxIngest'[i].upTo <= Parsed
      BY <1>2, <1>4 DEF CodexIdle
    <3> QED
      BY <3>1, <3>2
  <2> QED
    BY <1>0, <1>1, <1>2, <1>3, <2>1, <2>2 DEF CodexTypes
<1>7. RowsFitFile'
  BY <1>0, <1>1, <1>3 DEF RowsFitFile
<1>8. CASE cxStore'.offset = cxStore.offset
  <2>1. Covered'
    BY <1>0, <1>1, <1>2, <1>3, <1>8 DEF Covered, Ingesting, View, Has
  <2>2. Alone'
    <3>1. StoredAlone => StoredAlone'
      BY <1>1, <1>3, <1>8 DEF StoredAlone, IsAll, View
    <3> QED
      BY <1>0, <1>1, <1>2, <1>3, <1>8, <3>1 DEF Alone, Ingesting, CodexIdle
  <2> QED
    BY <1>6, <1>7, <2>1, <2>2 DEF CodexInv
<1>9. CASE /\ cxStore'.offset = Parsed /\ 0 < from /\ from < Parsed
           /\ \A k \in (from + 1)..Parsed : cxFile[k].kind = "chatter"
  <2> DEFINE f == SubSeq(cxFile, 1, from)
             g == SubSeq(cxFile, 1, Parsed)
  <2>1. /\ StepPlaces(g) = StepPlaces(f) /\ CodexChanges(g) = CodexChanges(f)
        /\ \A k \in StepPlaces(f) : CodexStep(g, k) = CodexStep(f, k)
        /\ CodexHasUsage(g) <=> CodexHasUsage(f)
        /\ FinalStatus(g) = FinalStatus(f)
    <3>1. Begins(f, from, cxFile) /\ Begins(g, Parsed, cxFile) /\ from \in Nat
      BY <1>0, <1>4, ViewOf DEF View
    <3> HIDE DEF f, g, from
    <3> QED
      BY <1>4, <1>9, <3>1, ChatterAdds
  <2>2. View(cxStore.offset)' = g
    BY <1>1, <1>9 DEF View
  <2>3. Has(cxStore, f)
    BY <1>0, <1>2 DEF Covered, View
  <2>4. Covered'
    <3>1. Has(cxStore', g)
      BY <1>3, <2>1, <2>3 DEF Has
    <3>2. \A k \in CodexIngests : Ingesting(k)' => Ingesting(k) /\ k # i
      BY <1>2 DEF Ingesting
    <3>3. \A k \in CodexIngests : Ingesting(k)' => Has(cxStore', SubSeq(cxFile', 1, cxIngest'[k].offset))
      BY <1>0, <1>1, <1>2, <1>3, <3>2 DEF Covered, View, Has
    <3> QED
      BY <1>1, <1>9, <3>1, <3>3 DEF Covered, View
  <2>5. Alone'
    <3>1. CASE cxOverlap
      BY <1>1, <3>1 DEF Alone
    <3>2. CASE ~cxOverlap
      <4>1. StoredAlone /\ from = cxStore.offset /\ \A k \in CodexIngests : Ingesting(k) => k = i
        BY <1>0, <1>2, <3>2 DEF Alone
      <4>2. cxStore.run /\ IsAll(cxStore, f)
        BY <1>9, <4>1 DEF StoredAlone, View
      <4>3. StepsIn(g) = StepsIn(f)
        BY <2>1 DEF StepsIn
      <4>4. IsAll(cxStore', g)
        <5> HIDE DEF f, g, from
        <5> QED
          BY <1>3, <2>1, <4>2, <4>3 DEF IsAll
      <4>5. cxStore'.offset > 0
        BY <1>4, <1>9
      <4>6. StoredAlone'
        BY <1>3, <2>2, <4>2, <4>4, <4>5 DEF StoredAlone
      <4>7. \A k \in CodexIngests : ~Ingesting(k)'
        BY <1>2, <4>1 DEF Ingesting
      <4> QED
        BY <4>6, <4>7 DEF Alone, Ingesting
    <3> QED
      BY <3>1, <3>2
  <2> QED
    BY <1>6, <1>7, <2>4, <2>5 DEF CodexInv
<1> QED
  BY <1>5, <1>8, <1>9

LEMMA Commits ==
  ASSUME CodexInv, NEW i \in CodexIngests, CodexCommit(i)
  PROVE  CodexInv'
<1>0. CodexTypes /\ RowsFitFile /\ Covered /\ Alone
  BY DEF CodexInv
<1> DEFINE n == cxIngest[i].upTo
           f == SubSeq(cxFile, 1, n)
<1>1. /\ UNCHANGED <<cxFile, cxTorn, cxOverlap>> /\ Parsed' = Parsed
      /\ \A k : SubSeq(cxFile', 1, k) = SubSeq(cxFile, 1, k)
  BY DEF CodexCommit, Parsed
<1>2. /\ Ingesting(i) /\ ~Ingesting(i)' /\ cxIngest'[i] = CodexIdle /\ cxIngest[i].pc = "build"
      /\ \A k \in CodexIngests \ {i} : cxIngest'[k] = cxIngest[k]
      /\ cxIngest' \in [CodexIngests -> IngestType]
  BY <1>0 DEF CodexTypes, CodexCommit, Ingesting, CodexIdle, IngestType
<1>3. n \in 0..Parsed /\ Parsed \in Nat /\ n \in Nat /\ cxIngest[i].known \in BOOLEAN
  BY <1>0, ParsedIs DEF CodexTypes, IngestType
<1>4. Begins(f, n, cxFile) /\ Begins(cxFile, Len(cxFile), cxFile) /\ n <= Len(cxFile) /\ Len(f) = n
  BY <1>0, <1>3, ViewOf DEF View, Begins
<1>5. \A k \in CodexIngests : cxIngest'[k].offset <= Parsed /\ cxIngest'[k].upTo <= Parsed
  <2>1. \A k \in CodexIngests \ {i} : cxIngest'[k].offset <= Parsed /\ cxIngest'[k].upTo <= Parsed
    BY <1>0, <1>2 DEF CodexTypes
  <2>2. cxIngest'[i].offset <= Parsed /\ cxIngest'[i].upTo <= Parsed
    BY <1>2, <1>3 DEF CodexIdle
  <2> QED
    BY <2>1, <2>2
<1>6. \A k \in CodexIngests : Ingesting(k)' => Ingesting(k) /\ k # i
  BY <1>2 DEF Ingesting
<1>7. CASE cxStore.run /\ ~cxIngest[i].known
  <2>1. cxStore' = cxStore
    BY <1>7 DEF CodexCommit
  <2>2. CodexTypes'
    BY <1>0, <1>1, <1>2, <1>5, <2>1 DEF CodexTypes
  <2>3. RowsFitFile'
    BY <1>0, <1>1, <2>1 DEF RowsFitFile
  <2>4. Covered'
    BY <1>0, <1>1, <1>2, <1>6, <2>1 DEF Covered, View
  <2>5. Alone'
    <3>1. cxOverlap
      BY <1>0, <1>2, <1>7 DEF Alone
    <3> QED
      BY <1>1, <3>1 DEF Alone
  <2> QED
    BY <2>2, <2>3, <2>4, <2>5 DEF CodexInv
<1>8. CASE ~(cxStore.run /\ ~cxIngest[i].known)
  <2> DEFINE kept == {r \in cxStore.steps : r.id \notin StepPlaces(f)}
  <2>1. cxStore' = CodexWritten(cxStore, f, cxIngest[i].known)
    BY <1>8 DEF CodexCommit
  <2>2. /\ InsertSteps(cxStore.steps, CodexSteps(f)).table = kept \union StepsIn(f)
        /\ \A r \in StepsIn(f) : RowFits(r, cxFile)
    BY <1>0, <1>3, RowsWritten DEF View
  <2> HIDE DEF f, n
  <2>3. /\ cxStore'.run = TRUE /\ cxStore'.status = FinalStatus(f) /\ cxStore'.offset = n
        /\ cxStore'.approx = ((IF cxIngest[i].known THEN cxStore.approx ELSE TRUE) /\ ~CodexHasUsage(f))
        /\ cxStore'.steps = kept \union StepsIn(f)
        /\ cxStore'.changes = cxStore.changes \union CodexChanges(f)
        /\ cxStore'.total = RunTotal(kept \union StepsIn(f), CodexRun)
        /\ DOMAIN cxStore' = {"run", "approx", "status", "steps", "changes", "total", "offset"}
    BY <1>4, <2>1, <2>2 DEF CodexWritten
  <2>4. CodexTypes'
    BY <1>0, <1>1, <1>2, <1>3, <1>5, <2>3 DEF CodexTypes
  <2>5. RowsFitFile'
    BY <1>0, <1>1, <2>2, <2>3 DEF RowsFitFile
  <2>6. StepPlaces(f) = {r.id : r \in StepsIn(f)}
    <3>1. \A k \in StepPlaces(f) : CodexStep(f, k).id = k
      BY DEF CodexStep
    <3> QED
      BY <3>1 DEF StepsIn
  <2>7. {r.id : r \in cxStore.steps} \subseteq {r.id : r \in cxStore'.steps}
    <3>1. \A r \in cxStore.steps : r.id \in StepPlaces(f) \/ r \in kept
      OBVIOUS
    <3> QED
      BY <2>3, <2>6, <3>1
  <2>8. \A g : Has(cxStore, g) => Has(cxStore', g)
    BY <2>3, <2>7 DEF Has
  <2>9. Has(cxStore', f)
    BY <2>3, <2>6 DEF Has
  <2>10. View(cxStore.offset)' = f
    BY <1>1, <2>3 DEF View, f, n
  <2>11. Covered'
    <3>1. \A k \in CodexIngests : Ingesting(k)' => Has(cxStore', SubSeq(cxFile', 1, cxIngest'[k].offset))
      BY <1>0, <1>1, <1>2, <1>6, <2>8 DEF Covered, View
    <3> QED
      BY <2>9, <2>10, <3>1 DEF Covered, View
  <2>12. Alone'
    <3>1. CASE cxOverlap
      BY <1>1, <3>1 DEF Alone
    <3>2. CASE ~cxOverlap
      <4>1. /\ StoredAlone /\ cxIngest[i].known = cxStore.run /\ cxStore.offset < n
            /\ \A k \in CodexIngests : Ingesting(k) => k = i
        BY <1>0, <1>2, <3>2 DEF Alone, n
      <4>2. cxStore.offset \in 0..Parsed /\ cxStore.offset \in Nat
        BY <1>0, <1>3 DEF CodexTypes
      <4> DEFINE g == View(cxStore.offset)
      <4>3. Begins(g, cxStore.offset, cxFile)
        BY <1>0, <4>2, ViewOf
      <4> HIDE DEF g
      <4>4. /\ StepPlaces(g) \subseteq StepPlaces(f) /\ CodexChanges(g) \subseteq CodexChanges(f)
            /\ CodexHasUsage(g) => CodexHasUsage(f)
        <5>1. cxStore.offset <= n /\ n \in Nat /\ Begins(f, n, cxFile)
          BY <1>3, <1>4, <4>1, <4>2
        <5> HIDE DEF n
        <5> QED
          BY <4>2, <4>3, <5>1, LongerView
      <4>5. kept = {} /\ cxStore.changes \subseteq CodexChanges(f)
        <5>1. CASE cxStore.steps = {} /\ cxStore.changes = {}
          BY <5>1
        <5>2. CASE IsAll(cxStore, g)
          <6>1. ASSUME NEW r \in StepsIn(g) PROVE r.id \in StepPlaces(f)
            <7>1. PICK k \in StepPlaces(g) : r = CodexStep(g, k)
              BY DEF StepsIn
            <7>2. r.id = k
              BY <7>1 DEF CodexStep
            <7> QED
              BY <4>4, <7>1, <7>2
          <6> QED
            BY <4>4, <5>2, <6>1 DEF IsAll
        <5> QED
          BY <4>1, <5>1, <5>2 DEF StoredAlone, g
      <4>6. cxStore'.approx = ~CodexHasUsage(f)
        <5>1. cxStore.run => cxStore.approx = ~CodexHasUsage(g)
          BY <4>1 DEF StoredAlone, IsAll, g
        <5> QED
          BY <2>3, <4>1, <4>4, <5>1
      <4>7. IsAll(cxStore', f)
        BY <2>3, <4>5, <4>6 DEF IsAll
      <4>8. cxStore'.offset > 0
        BY <1>3, <2>3, <4>1, <4>2
      <4>9. StoredAlone'
        BY <2>3, <2>10, <4>7, <4>8 DEF StoredAlone
      <4>10. \A k \in CodexIngests : ~Ingesting(k)'
        BY <1>6, <4>1
      <4> QED
        BY <4>9, <4>10 DEF Alone, Ingesting
    <3> QED
      BY <3>1, <3>2
  <2> QED
    BY <2>4, <2>5, <2>11, <2>12 DEF CodexInv
<1> QED
  BY <1>7, <1>8

(***************************************************************************)
(* OffsetMeansStored: what the offset of a rollout covers is in the store, so   *)
(* that the next ingest may skip it: the steps as the whole file settles them,  *)
(* the file changes, the status and the totals, and not a step or a change      *)
(* less however many ingests overlapped (ingestCodexSession).                 *)
(***************************************************************************)
THEOREM OffsetMeansStored == CodexSpec => []CodexOffsetMeansStored
<1>1. CodexInit => CodexInv
  BY InitCodex
<1>2. CodexInv /\ [CodexNext]_cxVars => CodexInv'
  <2> SUFFICES ASSUME CodexInv, [CodexNext]_cxVars PROVE CodexInv'
    OBVIOUS
  <2>1. CASE CodexWrite \/ CodexWriteRest
    BY <2>1, FileGrows
  <2>2. ASSUME NEW i \in CodexIngests, CodexStepOf(i) PROVE CodexInv'
    BY <2>2, LooksUp, FindsNothing, Reads, Commits DEF CodexStepOf
  <2>3. CASE UNCHANGED cxVars
    <3>1. UNCHANGED <<cxFile, cxTorn, cxStore, cxIngest, cxOverlap>>
      BY <2>3 DEF cxVars
    <3> QED
      BY <3>1 DEF CodexInv, CodexTypes, Parsed, RowsFitFile, Covered, Ingesting, View, Alone, StoredAlone
  <2> QED
    BY <2>1, <2>2, <2>3 DEF CodexNext
<1>3. CodexInv => CodexOffsetMeansStored
  <2> SUFFICES ASSUME CodexInv PROVE CodexOffsetMeansStored
    OBVIOUS
  <2> DEFINE f == SubSeq(cxFile, 1, cxStore.offset)
             m == cxStore.offset
  <2>1. CodexTypes /\ m \in 0..Parsed /\ m \in Nat
    BY ParsedIs DEF CodexInv, CodexTypes
  <2>2. DOMAIN f = 1..m
    BY <2>1, ViewOf DEF View, Begins
  <2> HIDE DEF f
  <2>3. Range(CodexSteps(f)) = StepsIn(f)
    BY <2>1, <2>2, StepsOfFile DEF StepsIn
  <2>4. {s.id : s \in StepsIn(f)} = StepPlaces(f)
    <3>1. \A k \in StepPlaces(f) : CodexStep(f, k).id = k
      BY DEF CodexStep
    <3> QED
      BY <3>1 DEF StepsIn
  <2>5. Has(cxStore, f)
    BY DEF CodexInv, Covered, View, f
  <2>6. cxOverlap \/ cxStore.offset = 0 \/ IsAll(cxStore, f)
    BY DEF CodexInv, Alone, StoredAlone, View, f
  <2> QED
    BY <2>3, <2>4, <2>5, <2>6 DEF CodexOffsetMeansStored, Has, IsAll, f
<1> QED
  BY <1>1, <1>2, <1>3, PTL DEF CodexSpec

(***************************************************************************)
(* The tracer and its tests                                                *)
(*                                                                         *)
(* The cost of a run is a number: the sum over a finite set of rows has one  *)
(* solution, by the smallest size of a set for which it had none.           *)
(***************************************************************************)
(* A sum over a set of rows is taken row by row, in an order that CHOOSE fixes. *)
Picked(s) == CHOOSE r \in s : TRUE

IsCostSum(sum, rows) ==
  sum = [s \in SUBSET rows |-> IF s = {} THEN 0 ELSE sum[s \ {Picked(s)}] + Picked(s).cost]

UpToSize(rows, n) == {s \in SUBSET rows : Cardinality(s) <= n}

SumsUpTo(sum, rows, n) ==
  \A s \in UpToSize(rows, n) :
    sum[s] = IF s = {} THEN 0 ELSE sum[s \ {Picked(s)}] + Picked(s).cost

LEMMA OneFewer ==
  ASSUME NEW rows, IsFiniteSet(rows), NEW s \in SUBSET rows, s # {}
  PROVE  /\ Picked(s) \in s /\ s \ {Picked(s)} \in SUBSET rows
         /\ Cardinality(s) \in Nat /\ Cardinality(s \ {Picked(s)}) = Cardinality(s) - 1
         /\ Cardinality(s) > 0
<1>1. Picked(s) \in s
  BY DEF Picked
<1>2. IsFiniteSet(s)
  BY FS_Subset
<1>3. Cardinality(s) \in Nat /\ Cardinality(s) # 0
  BY <1>2, FS_CardinalityType, FS_EmptySet
<1>4. Cardinality(s \ {Picked(s)}) = Cardinality(s) - 1
  BY <1>1, <1>2, FS_RemoveElement
<1> QED
  BY <1>1, <1>3, <1>4

LEMMA CostSumExists ==
  ASSUME NEW rows, IsFiniteSet(rows)
  PROVE  \E sum : IsCostSum(sum, rows)
<1> DEFINE Bad == {n \in Nat : ~ \E sum : SumsUpTo(sum, rows, n)}
<1>1. Cardinality(rows) \in Nat /\ \A s \in SUBSET rows : Cardinality(s) \in Nat /\ Cardinality(s) <= Cardinality(rows)
  BY FS_CardinalityType, FS_Subset
<1>2. ASSUME Bad # {} PROVE FALSE
  <2>1. PICK n \in Bad : \A m \in Bad : n <= m
    BY <1>2, LeastNumber
  <2>2. PICK sum : n = 0 \/ SumsUpTo(sum, rows, n - 1)
    <3>1. n = 0 \/ n - 1 \in Nat \ Bad
      BY <2>1
    <3> QED
      BY <3>1
  <2> DEFINE next == [s \in UpToSize(rows, n) |->
                        IF s = {} THEN 0
                        ELSE (IF s \ {Picked(s)} = {} THEN 0 ELSE sum[s \ {Picked(s)}]) + Picked(s).cost]
  <2>3. ASSUME NEW s \in UpToSize(rows, n), s # {}
        PROVE  next[s] = next[s \ {Picked(s)}] + Picked(s).cost
    <3> DEFINE less == s \ {Picked(s)}
    <3>1. s \in SUBSET rows /\ Cardinality(s) <= n /\ n \in Nat
      BY <2>1 DEF UpToSize
    <3>2. /\ less \in SUBSET rows /\ Cardinality(less) = Cardinality(s) - 1
          /\ Cardinality(s) \in Nat /\ Cardinality(s) > 0
      BY <2>3, <3>1, OneFewer
    <3>3. less \in UpToSize(rows, n) /\ n # 0 /\ less \in UpToSize(rows, n - 1)
      BY <3>1, <3>2 DEF UpToSize
    <3>4. less # {} => sum[less] = sum[less \ {Picked(less)}] + Picked(less).cost
      BY <2>2, <3>3 DEF SumsUpTo
    <3>5. next[s] = (IF less = {} THEN 0 ELSE sum[less]) + Picked(s).cost
      BY <2>3
    <3>6. next[less] = IF less = {} THEN 0
                       ELSE (IF less \ {Picked(less)} = {} THEN 0 ELSE sum[less \ {Picked(less)}]) + Picked(less).cost
      BY <3>3
    <3>7. less # {} /\ less \ {Picked(less)} = {} => sum[less \ {Picked(less)}] = 0
      <4>1. ASSUME less # {}, less \ {Picked(less)} = {} PROVE sum[{}] = 0
        <5>1. {} \in UpToSize(rows, n - 1)
          <6>1. Cardinality({}) = 0
            BY FS_EmptySet
          <6> QED
            BY <3>1, <3>3, <6>1 DEF UpToSize
        <5> QED
          BY <2>2, <3>3, <5>1 DEF SumsUpTo
      <4> HIDE DEF less
      <4> QED
        BY <4>1
    <3> HIDE DEF less, next
    <3>8. next[less] = IF less = {} THEN 0 ELSE sum[less]
      BY <3>4, <3>6, <3>7
    <3>9. next[s] = next[less] + Picked(s).cost
      BY <3>5, <3>8
    <3> QED
      BY <3>9 DEF less
  <2>4. SumsUpTo(next, rows, n)
    <3>1. \A s \in UpToSize(rows, n) : s = {} => next[s] = 0
      OBVIOUS
    <3> HIDE DEF next
    <3> QED
      BY <2>3, <3>1 DEF SumsUpTo
  <2> QED
    BY <2>1, <2>4
<1>3. PICK sum : SumsUpTo(sum, rows, Cardinality(rows))
  BY <1>1, <1>2
<1> DEFINE total == [s \in SUBSET rows |-> sum[s]]
<1>4. UpToSize(rows, Cardinality(rows)) = SUBSET rows
  BY <1>1 DEF UpToSize
<1>5. \A s \in SUBSET rows : total[s] = IF s = {} THEN 0 ELSE total[s \ {Picked(s)}] + Picked(s).cost
  BY <1>3, <1>4 DEF SumsUpTo
<1>6. total = [s \in SUBSET rows |-> total[s]]
  OBVIOUS
<1> HIDE DEF total
<1>7. IsCostSum(total, rows)
  BY <1>5, <1>6 DEF IsCostSum
<1> QED
  BY <1>7

LEMMA CostsAddUp ==
  ASSUME NEW rows, IsFiniteSet(rows), \A r \in rows : r.cost \in Nat
  PROVE  CostOf(rows) \in Nat
<1> DEFINE sum == CHOOSE f : IsCostSum(f, rows)
<1>1. CostOf(rows) = sum[rows]
  BY DEF CostOf, FoldSet, MapThenFoldSet, IsCostSum, Picked
<1>2. IsCostSum(sum, rows)
  BY CostSumExists
<1> HIDE DEF sum
<1> DEFINE Bad == {n \in Nat : \E s \in SUBSET rows : Cardinality(s) = n /\ sum[s] \notin Nat}
<1>3. ASSUME Bad # {} PROVE FALSE
  <2>1. PICK n \in Bad : \A m \in Bad : n <= m
    BY <1>3, LeastNumber
  <2>2. PICK s \in SUBSET rows : Cardinality(s) = n /\ sum[s] \notin Nat
    BY <2>1
  <2>3. s # {}
    BY <1>2, <2>2 DEF IsCostSum
  <2> DEFINE less == s \ {Picked(s)}
  <2>4. less \in SUBSET rows /\ Cardinality(less) = n - 1 /\ n - 1 \in Nat /\ Picked(s) \in rows
    BY <2>2, <2>3, OneFewer
  <2>5. sum[less] \in Nat
    BY <2>1, <2>4
  <2>6. sum[s] = sum[less] + Picked(s).cost
    BY <1>2, <2>3 DEF IsCostSum
  <2> QED
    BY <2>2, <2>4, <2>5, <2>6
<1>4. Cardinality(rows) \in Nat
  BY FS_CardinalityType
<1>5. sum[rows] \in Nat
  BY <1>3, <1>4
<1> QED
  BY <1>1, <1>5

(***************************************************************************)
(* Tests                                                                   *)
(***************************************************************************)
SaidBy(rows) == {r.status : r \in rows}

StatusOf(rows) ==
  IF "error" \in SaidBy(rows) THEN "error"
  ELSE IF "ok" \in SaidBy(rows) THEN "ok" ELSE "in_progress"

Statuses == {"none", "in_progress", "ok", "error", "abandoned"}
IsRun(run) == run \in [status : Statuses, sealed : BOOLEAN, steps : Nat, cost : Nat]

(* A test derived from a run and its steps holds of them.                     *)
LEMMA DerivedTest ==
  ASSUME NEW run, IsRun(run), NEW rows, IsFiniteSet(rows)
  PROVE  TestPasses(DeriveAssertionsFromRun(run, rows), run, rows) <=>
           rows # {} /\ "error" \notin SaidBy(rows)
<1> DEFINE derived == DeriveAssertionsFromRun(run, rows)
           n == Cardinality(rows)
           least == IF HalfOf(n) < 1 THEN 1 ELSE HalfOf(n)
           Holds(a) == EvaluateAssertion(a, run, rows)
<1>1. n \in Nat /\ (n = 0 <=> rows = {})
  BY FS_CardinalityType, FS_EmptySet
<1>2. run.cost \in Nat
  BY DEF IsRun
<1>3. Holds(Assertion("final_status", run.status))
  BY DEF EvaluateAssertion, Assertion
<1>4. Holds(Assertion("no_error_step", 0)) <=> "error" \notin SaidBy(rows)
  BY DEF EvaluateAssertion, Assertion, SaidBy
<1>5. Holds(Assertion("min_steps", least)) <=> rows # {}
  <2>1. Holds(Assertion("min_steps", least)) <=> n >= least
    BY DEF EvaluateAssertion, Assertion
  <2>2. n >= least <=> n # 0
    <3>1. n # 0 => HalfOf(n) <= n
      BY <1>1 DEF HalfOf
    <3>2. HalfOf(n) \in Nat
      BY <1>1 DEF HalfOf
    <3> QED
      BY <1>1, <3>1, <3>2
  <2> QED
    BY <1>1, <2>1, <2>2
<1>6. Holds(Assertion("max_steps", HalfMore(n)))
  <2>1. n <= HalfMore(n)
    BY <1>1 DEF HalfMore
  <2> QED
    BY <2>1 DEF EvaluateAssertion, Assertion
<1>7. Holds(Assertion("max_cost_cents", HalfMore(run.cost)))
  <2>1. run.cost <= HalfMore(run.cost)
    BY <1>2 DEF HalfMore
  <2> QED
    BY <2>1 DEF EvaluateAssertion, Assertion
<1>8. \A s \in {x \in rows : x.action.kind = "tool_call"} :
        Holds(Assertion("includes_tool_call", s.action.name))
  BY DEF EvaluateAssertion, Assertion, ToolCalls
<1>9. derived = {Assertion("final_status", run.status), Assertion("no_error_step", 0),
                 Assertion("min_steps", least), Assertion("max_steps", HalfMore(n)),
                 Assertion("max_cost_cents", HalfMore(run.cost))}
                \union {Assertion("includes_tool_call", s.action.name) :
                          s \in {x \in rows : x.action.kind = "tool_call"}}
  BY DEF DeriveAssertionsFromRun
<1> HIDE DEF derived, Holds, least, n
<1>10. (\A a \in derived : Holds(a)) <=> rows # {} /\ "error" \notin SaidBy(rows)
  BY <1>3, <1>4, <1>5, <1>6, <1>7, <1>8, <1>9
<1> QED
  BY <1>10 DEF TestPasses, derived, Holds

(***************************************************************************)
(* The tracer                                                              *)
(***************************************************************************)
TracerAt ==
  {<<"find", 1>>, <<"put", 1>>, <<"find", 2>>, <<"put", 2>>, <<"insert">>, <<"running">>,
   <<"totals">>, <<"ended">>, <<"failed">>, <<"dead">>}
Built == {<<"running">>, <<"totals">>}

TracerType == [lang : {"ts", "py"}, at : TracerAt, found : BOOLEAN, status : Statuses, told : BOOLEAN]
TracedStep == [state : {"open", "ending", "stored", "lost"}, action : TcActions, outcome : {"pending", "ok", "error"}]

TracerTypes ==
  /\ tcTracer \in TracerType /\ tcSteps \in Seq(TracedStep)
  /\ IsRun(tcRun) /\ IsFiniteSet(tcRows)
  /\ \A r \in tcRows : r.cost \in Nat /\ r.status \in {"in_progress", "ok", "error"}

(* Until it ends, the tracer's own status is that of the rows it wrote; when it  *)
(* ends, the row of the run gets that and the totals of the rows, and neither   *)
(* changes after.                                                          *)
StatusKept ==
  /\ tcTracer.at \notin Built \union {<<"ended">>, <<"dead">>} =>
       tcRows = {} /\ tcTracer.status = "in_progress"
  /\ tcTracer.at \in Built => tcTracer.status = StatusOf(tcRows)

SealedIsTotal ==
  tcRun.sealed =>
    /\ tcTracer.at = <<"ended">>
    /\ tcRun = RunTotals(tcRun, tcRows)
    /\ tcTracer.told \/ tcRun.status = StatusOf(tcRows)

TracerInv == TracerTypes /\ StatusKept /\ SealedIsTotal

LEMMA TracerPlaces ==
  /\ DOMAIN Constructing = 1..2 /\ Len(Constructing) = 2 /\ Built \subseteq TracerAt
  /\ \A i \in 1..2 : <<"find", i>> \in TracerAt \ (Built \union {<<"ended">>, <<"dead">>})
  /\ \A i \in 1..2 : <<"put", i>> \in TracerAt \ (Built \union {<<"ended">>, <<"dead">>})
  /\ <<"insert">> \in TracerAt \ (Built \union {<<"ended">>, <<"dead">>})
  /\ <<"failed">> \in TracerAt \ (Built \union {<<"ended">>, <<"dead">>})
  /\ <<"ended">> \notin Built /\ <<"dead">> \notin Built
  /\ <<"running">> \in Built /\ <<"totals">> \in Built
  /\ <<"ended">> \in TracerAt /\ <<"dead">> \in TracerAt /\ <<"ended">> # <<"dead">>
BY DEF Constructing, TracerAt, Built

LEMMA TracerGoing ==
  ASSUME TracerTypes, NEW place \in TracerAt, TracerGoes(place)
  PROVE  /\ tcTracer' \in TracerType /\ tcTracer'.at = place
         /\ tcTracer'.status = tcTracer.status /\ tcTracer'.told = tcTracer.told
BY DEF TracerTypes, TracerGoes, TracerType

LEMMA RunTotalsAre ==
  ASSUME NEW run, IsRun(run), NEW rows, IsFiniteSet(rows), \A r \in rows : r.cost \in Nat
  PROVE  /\ IsRun(RunTotals(run, rows))
         /\ RunTotals(run, rows).status = run.status /\ RunTotals(run, rows).sealed = run.sealed
         /\ RunTotals(run, rows).steps = Cardinality(rows) /\ RunTotals(run, rows).cost = CostOf(rows)
<1>1. CostOf(rows) \in Nat /\ Cardinality(rows) \in Nat
  BY CostsAddUp, FS_CardinalityType
<1> QED
  BY <1>1 DEF RunTotals, IsRun

LEMMA InitTracer == TracerInit => TracerInv
<1> SUFFICES ASSUME TracerInit PROVE TracerInv
  OBVIOUS
<1>1. tcTracer \in TracerType /\ tcTracer.at = <<"find", 1>> /\ tcTracer.status = "in_progress"
  <2>1. <<"find", 1>> \in TracerAt /\ "in_progress" \in Statuses
    BY DEF TracerAt, Statuses
  <2> QED
    BY <2>1 DEF TracerInit, TracerType
<1>2. tcSteps \in Seq(TracedStep) /\ tcRows = {} /\ IsFiniteSet(tcRows)
  BY FS_EmptySet DEF TracerInit
<1>3. IsRun(tcRun) /\ ~tcRun.sealed
  BY DEF TracerInit, NoRunRow, IsRun, Statuses
<1>4. tcTracer.at \notin Built
  BY <1>1, TracerPlaces
<1> QED
  BY <1>1, <1>2, <1>3, <1>4 DEF TracerInv, TracerTypes, StatusKept, SealedIsTotal

(* A step of the tracer that writes neither rows nor the run's row.           *)
LEMMA TracerMoves ==
  ASSUME TracerInv, UNCHANGED <<tcRun, tcRows>>, tcSteps' \in Seq(TracedStep),
         tcTracer' \in TracerType, tcTracer'.status = tcTracer.status,
         tcTracer'.told = tcTracer.told,
         tcRun.sealed => tcTracer'.at = tcTracer.at,
         tcTracer'.at \in Built => tcTracer.at \in Built,
         tcTracer'.at \notin Built \union {<<"ended">>, <<"dead">>} =>
           tcTracer.at \notin Built \union {<<"ended">>, <<"dead">>}
  PROVE  TracerInv'
<1>1. TracerTypes'
  BY DEF TracerInv, TracerTypes
<1>2. StatusKept'
  BY DEF TracerInv, StatusKept
<1>3. SealedIsTotal'
  BY DEF TracerInv, SealedIsTotal
<1> QED
  BY <1>1, <1>2, <1>3 DEF TracerInv

LEMMA StepsKept ==
  ASSUME tcSteps \in Seq(TracedStep), NEW i \in DOMAIN tcSteps, NEW step \in TracedStep
  PROVE  [tcSteps EXCEPT ![i] = step] \in Seq(TracedStep)
BY ExceptSeq

LEMMA StepTracer == TracerInv /\ [TracerNext]_tracerVars => TracerInv'
<1> SUFFICES ASSUME TracerInv, [TracerNext]_tracerVars PROVE TracerInv'
  OBVIOUS
<1> USE TracerPlaces
<1>a. TracerTypes /\ StatusKept /\ SealedIsTotal
  BY DEF TracerInv
<1>b. tcTracer \in TracerType /\ tcTracer.at \in TracerAt /\ tcSteps \in Seq(TracedStep)
  BY <1>a DEF TracerTypes, TracerType
<1>1. ASSUME NEW i \in DOMAIN Constructing, FindRow(i) PROVE TracerInv'
  <2>1. /\ tcTracer.at = <<"find", i>> /\ UNCHANGED <<tcSteps, tcRun, tcRows>>
        /\ tcTracer' = [tcTracer EXCEPT !.at = <<"put", i>>, !.found = Constructing[i] \in tcKnown]
    BY <1>1 DEF FindRow
  <2>2. tcTracer' \in TracerType /\ tcTracer'.at = <<"put", i>>
        /\ tcTracer'.status = tcTracer.status /\ tcTracer'.told = tcTracer.told
    <3>1. <<"put", i>> \in TracerAt
      OBVIOUS
    <3>2. PICK place \in TracerAt : place = <<"put", i>>
      BY <3>1
    <3>3. PICK found \in BOOLEAN : found = (Constructing[i] \in tcKnown)
      <4>1. (Constructing[i] \in tcKnown) \in BOOLEAN
        OBVIOUS
      <4> QED
        BY <4>1
    <3>4. tcTracer' = [tcTracer EXCEPT !.at = place, !.found = found]
      BY <2>1, <3>2, <3>3
    <3> QED
      BY <1>b, <3>2, <3>4 DEF TracerType
  <2>3. ~tcRun.sealed
    BY <1>a, <2>1 DEF SealedIsTotal
  <2> QED
    BY <1>b, <2>1, <2>2, <2>3, TracerMoves
<1>2. ASSUME NEW i \in DOMAIN Constructing, PutRow(i) PROVE TracerInv'
  <2>1. tcTracer.at = <<"put", i>> /\ UNCHANGED <<tcSteps, tcRun, tcRows>>
    BY <1>2 DEF PutRow
  <2>2. PICK place \in {<<"find", 2>>, <<"insert">>, <<"failed">>} : TracerGoes(place)
    BY <1>2 DEF PutRow
  <2>3. /\ tcTracer' \in TracerType /\ tcTracer'.at = place
        /\ tcTracer'.status = tcTracer.status /\ tcTracer'.told = tcTracer.told
    <3>1. place \in TracerAt
      OBVIOUS
    <3> QED
      BY <1>a, <2>2, <3>1, TracerGoing
  <2>4. ~tcRun.sealed
    BY <1>a, <2>1 DEF SealedIsTotal
  <2>5. /\ tcTracer'.at \notin Built
        /\ tcTracer.at \notin Built /\ tcTracer.at \notin {<<"ended">>, <<"dead">>}
    BY <2>1, <2>2, <2>3
  <2> QED
    BY <1>b, <2>1, <2>3, <2>4, <2>5, TracerMoves
<1>3. ASSUME NEW i \in DOMAIN Constructing, AnotherTracer(i) PROVE TracerInv'
  <2>1. UNCHANGED <<tcRun, tcRows>> /\ tcTracer' = tcTracer /\ tcSteps' = tcSteps
    BY <1>3 DEF AnotherTracer
  <2>2. tcSteps' \in Seq(TracedStep) /\ tcTracer' \in TracerType
    BY <1>b, <2>1
  <2> QED
    BY <2>1, <2>2, TracerMoves
<1>4. CASE InsertTracerRun
  <2>1. /\ tcTracer.at = <<"insert">> /\ TracerGoes(<<"running">>)
        /\ tcRun' = [NoRunRow EXCEPT !.status = "in_progress"] /\ UNCHANGED <<tcSteps, tcRows>>
    BY <1>4 DEF InsertTracerRun
  <2>2. IsRun(tcRun)' /\ ~tcRun'.sealed
    BY <2>1 DEF NoRunRow, IsRun, Statuses
  <2>3. tcTracer' \in TracerType /\ tcTracer'.at = <<"running">> /\ tcTracer'.status = tcTracer.status
    BY <1>a, <2>1, TracerGoing
  <2>4. tcRows = {} /\ tcTracer.status = "in_progress"
    BY <1>a, <2>1 DEF StatusKept
  <2>5. StatusKept'
    BY <2>1, <2>3, <2>4 DEF StatusKept, StatusOf, SaidBy
  <2> QED
    BY <1>a, <2>1, <2>2, <2>3, <2>5 DEF TracerInv, TracerTypes, SealedIsTotal
<1>5. CASE StartStep
  <2>1. [state |-> "open", action |-> NoAction, outcome |-> "pending"] \in TracedStep
    BY TracerConstants DEF TracedStep
  <2>2. tcSteps' \in Seq(TracedStep)
    BY <1>5, <1>b, <2>1, AppendProperties DEF StartStep
  <2> QED
    BY <1>5, <1>b, <2>2, TracerMoves DEF StartStep
<1>6. CASE RefreshTotals
  <2>1. /\ tcTracer.at = <<"totals">> /\ TracerGoes(<<"running">>)
        /\ tcRun' = RunTotals(tcRun, tcRows) /\ UNCHANGED <<tcSteps, tcRows>>
    BY <1>6 DEF RefreshTotals
  <2>2. /\ tcTracer' \in TracerType /\ tcTracer'.at = <<"running">>
        /\ tcTracer'.status = tcTracer.status
    BY <1>a, <2>1, TracerGoing
  <2>3. ~tcRun.sealed
    BY <1>a, <2>1 DEF SealedIsTotal
  <2>4. IsRun(tcRun)' /\ ~tcRun'.sealed
    BY <1>a, <2>1, <2>3, RunTotalsAre DEF TracerTypes
  <2>5. StatusKept'
    BY <1>a, <2>1, <2>2 DEF StatusKept
  <2> QED
    BY <1>a, <2>1, <2>2, <2>4, <2>5 DEF TracerInv, TracerTypes, SealedIsTotal
<1>7. CASE TracerDies
  <2>1. /\ tcTracer.at # <<"ended">> /\ TracerGoes(<<"dead">>)
        /\ UNCHANGED <<tcSteps, tcRun, tcRows>>
    BY <1>7 DEF TracerDies
  <2>2. /\ tcTracer' \in TracerType /\ tcTracer'.at = <<"dead">>
        /\ tcTracer'.status = tcTracer.status /\ tcTracer'.told = tcTracer.told
    BY <1>a, <2>1, TracerGoing
  <2>3. ~tcRun.sealed
    BY <1>a, <2>1 DEF SealedIsTotal
  <2> QED
    BY <1>b, <2>1, <2>2, <2>3, TracerMoves
<1>8. ASSUME NEW i \in DOMAIN tcSteps, NEW a \in TcActions, NEW o \in {"pending", "ok", "error"},
             RecordOnStep(i, a, o)
      PROVE  TracerInv'
  <2>1. tcSteps[i] \in TracedStep
    BY <1>b
  <2>2. tcSteps' = [tcSteps EXCEPT ![i] = [tcSteps[i] EXCEPT !.action = a, !.outcome = o]]
    BY <1>8, <1>b, <2>1 DEF RecordOnStep
  <2>3. [tcSteps[i] EXCEPT !.action = a, !.outcome = o] \in TracedStep
    BY <2>1 DEF TracedStep
  <2>4. tcSteps' \in Seq(TracedStep)
    BY <1>b, <2>2, <2>3, StepsKept
  <2>5. tcTracer' = tcTracer /\ tcRun' = tcRun /\ tcRows' = tcRows
    BY <1>8 DEF RecordOnStep
  <2> QED
    BY <1>b, <2>4, <2>5, TracerMoves
<1>9. ASSUME NEW i \in DOMAIN tcSteps, NEW a \in TcActions, NEW o \in {"pending", "ok", "error"},
             TracedCallEnds(i, a, o)
      PROVE  TracerInv'
  <2>1. [state |-> "ending", action |-> a, outcome |-> o] \in TracedStep
    BY DEF TracedStep
  <2> QED
    BY <1>9, <1>b, <2>1, StepsKept, TracerMoves DEF TracedCallEnds
<1>10. ASSUME NEW i \in DOMAIN tcSteps, EndStep(i) \/ PersistFails(i) PROVE TracerInv'
  <2>1. tcSteps[i] \in TracedStep
    BY <1>b
  <2>2. PICK state \in {"ending", "lost"} :
          tcSteps' = [tcSteps EXCEPT ![i] = [tcSteps[i] EXCEPT !.state = state]]
    BY <1>10, <1>b, <2>1 DEF EndStep, PersistFails
  <2>3. [tcSteps[i] EXCEPT !.state = state] \in TracedStep
    BY <2>1 DEF TracedStep
  <2> QED
    BY <1>10, <1>b, <2>2, <2>3, StepsKept, TracerMoves DEF EndStep, PersistFails
<1>11. ASSUME NEW i \in DOMAIN tcSteps, PersistStep(i) PROVE TracerInv'
  <2> DEFINE row == StepRow(i)
  <2>1. /\ tcTracer.at = <<"running">> /\ tcRun' = tcRun
        /\ tcRows' = tcRows \union {row}
        /\ tcTracer' = [tcTracer EXCEPT !.at = <<"totals">>, !.status = AfterStep(tcTracer.status, row.status)]
    BY <1>11 DEF PersistStep
  <2>2. row.cost \in Nat /\ row.status \in {"in_progress", "ok", "error"}
    <3>1. tcSteps[i].action \in TcActions /\ tcSteps[i].outcome \in {"pending", "ok", "error"}
      <4>1. tcSteps[i] \in TracedStep
        BY <1>b
      <4> QED
        BY <4>1 DEF TracedStep
    <3>2. row.cost = TcCost[tcSteps[i].action] /\ row.status = StepStatus(tcSteps[i].outcome)
      BY DEF StepRow
    <3> QED
      BY <3>1, <3>2, TracerConstants DEF StepStatus
  <2> HIDE DEF row
  <2>3. tcSteps' \in Seq(TracedStep)
    <3>1. tcSteps[i] \in TracedStep
      BY <1>b
    <3>2. [tcSteps[i] EXCEPT !.state = "stored"] \in TracedStep
      BY <3>1 DEF TracedStep
    <3>3. tcSteps' = [tcSteps EXCEPT ![i] = [tcSteps[i] EXCEPT !.state = "stored"]]
      BY <1>11, <1>b, <3>1 DEF PersistStep
    <3> QED
      BY <1>b, <3>2, <3>3, StepsKept
  <2>4. AfterStep(tcTracer.status, row.status) \in Statuses
    BY <1>b DEF AfterStep, TracerType, Statuses
  <2>5. /\ tcTracer' \in TracerType /\ tcTracer'.at = <<"totals">>
        /\ tcTracer'.status = AfterStep(tcTracer.status, row.status)
    BY <1>b, <2>1, <2>4 DEF TracerType
  <2>6. tcTracer.status = StatusOf(tcRows)
    BY <1>a, <2>1 DEF StatusKept
  <2>7. AfterStep(StatusOf(tcRows), row.status) = StatusOf(tcRows \union {row})
    <3>1. SaidBy(tcRows \union {row}) = SaidBy(tcRows) \union {row.status}
      BY DEF SaidBy
    <3> QED
      BY <2>2, <3>1 DEF AfterStep, StatusOf
  <2>8. IsFiniteSet(tcRows')
    BY <1>a, <2>1, FS_AddElement DEF TracerTypes
  <2>9. ~tcRun.sealed
    BY <1>a, <2>1 DEF SealedIsTotal
  <2>10. TracerTypes'
    BY <1>a, <2>1, <2>2, <2>3, <2>5, <2>8 DEF TracerTypes
  <2>11. StatusKept'
    BY <2>1, <2>5, <2>6, <2>7 DEF StatusKept
  <2> QED
    BY <2>1, <2>9, <2>10, <2>11 DEF TracerInv, SealedIsTotal
<1>12. ASSUME NEW override \in {"none", "error", "abandoned"}, EndTracer(override) PROVE TracerInv'
  <2> DEFINE status == IF override = "none" THEN tcTracer.status ELSE override
             totals == RunTotals(tcRun, tcRows)
  <2>1. /\ tcTracer.at = <<"running">> /\ UNCHANGED <<tcSteps, tcRows>>
        /\ tcTracer' = [tcTracer EXCEPT !.at = <<"ended">>, !.told = override # "none"]
        /\ tcRun' = [totals EXCEPT !.status = status, !.sealed = TRUE]
    BY <1>12 DEF EndTracer
  <2>2. /\ tcTracer' \in TracerType /\ tcTracer'.at = <<"ended">>
        /\ tcTracer'.told = (override # "none")
    BY <1>b, <2>1 DEF TracerType
  <2>3. tcTracer.status = StatusOf(tcRows) /\ status \in Statuses
    BY <1>a, <1>b, <2>1 DEF StatusKept, TracerType, Statuses
  <2>4. IsRun(totals) /\ totals.steps = Cardinality(tcRows) /\ totals.cost = CostOf(tcRows)
    BY <1>a, RunTotalsAre DEF TracerTypes
  <2>5. tcTracer'.told \/ status = StatusOf(tcRows)
    BY <2>2, <2>3
  <2> HIDE DEF totals, status
  <2>6. /\ IsRun(tcRun') /\ tcRun'.status = status
        /\ tcRun'.steps = Cardinality(tcRows) /\ tcRun'.cost = CostOf(tcRows)
    BY <2>1, <2>3, <2>4 DEF IsRun
  <2>7. tcRun' = RunTotals(tcRun', tcRows)
    BY <2>6 DEF RunTotals, IsRun
  <2>8. SealedIsTotal'
    BY <2>1, <2>2, <2>5, <2>6, <2>7 DEF SealedIsTotal
  <2>9. TracerTypes' /\ StatusKept'
    BY <1>a, <2>1, <2>2, <2>6 DEF TracerTypes, StatusKept
  <2> QED
    BY <2>8, <2>9 DEF TracerInv
<1>13. CASE UNCHANGED tracerVars
  BY <1>13, <1>b, TracerMoves DEF tracerVars
<1>14. ASSUME NEW reply \in TcReplies PROVE ActionOf(reply) \in TcActions
  BY RepliesDecide
<1> QED
  BY <1>1, <1>2, <1>3, <1>4, <1>5, <1>6, <1>7, <1>8, <1>9, <1>10, <1>11, <1>12, <1>13, <1>14,
     TracerConstants DEF TracerNext

(***************************************************************************)
(* Results                                                                 *)
(*                                                                         *)
(* Who has read a sealed run has read the run as it stays, and the steps     *)
(* read later are the same.                                                *)
(***************************************************************************)
ResultHolds(r) == r.passed = TestPasses(r.assertions, tcRun, tcRows)

TesterInv ==
  /\ DOMAIN rgTester = Testers
  /\ \A p \in Testers : rgTester[p].run.sealed => tcRun.sealed /\ rgTester[p].run = tcRun
  /\ \A r \in rgResults : r.run.sealed => tcRun.sealed /\ ResultHolds(r)

LEMMA SealedStays ==
  ASSUME TracerInv, [TracerNext]_tracerVars, tcRun.sealed
  PROVE  tcRun' = tcRun /\ tcRows' = tcRows
<1>1. tcTracer.at = <<"ended">>
  BY DEF TracerInv, SealedIsTotal
<1>2. /\ tcTracer.at # <<"insert">> /\ tcTracer.at # <<"totals">> /\ tcTracer.at # <<"running">>
  BY <1>1
<1>3. ~InsertTracerRun /\ ~RefreshTotals /\ \A i \in DOMAIN tcSteps : ~PersistStep(i)
  BY <1>2 DEF InsertTracerRun, RefreshTotals, PersistStep
<1>4. \A override \in {"none", "error", "abandoned"} : ~EndTracer(override)
  BY <1>2 DEF EndTracer
<1> QED
  BY <1>3, <1>4
  DEF TracerNext, tracerVars, FindRow, PutRow, AnotherTracer, StartStep, TracerDies, RecordOnStep,
      TracedCallEnds, EndStep, PersistFails

LEMMA InitTesters == RegressionInit => TesterInv
<1> SUFFICES ASSUME RegressionInit PROVE TesterInv
  OBVIOUS
<1>1. rgTester = [p \in Testers |-> NoJob] /\ rgResults = {} /\ ~NoJob.run.sealed
  BY DEF RegressionInit, NoJob, NoRunRow
<1> QED
  BY <1>1 DEF TesterInv

(* A tester that starts or ends a job.                                      *)
LEMMA JobKept ==
  ASSUME TesterInv, NEW p \in Testers, NEW job, rgTester' = [rgTester EXCEPT ![p] = job],
         job.run.sealed => tcRun.sealed /\ job.run = tcRun,
         UNCHANGED <<tcRun, tcRows>>,
         \A r \in rgResults' : r \in rgResults \/ (r.run.sealed => tcRun.sealed /\ ResultHolds(r))
  PROVE  TesterInv'
<1>1. /\ DOMAIN rgTester' = Testers /\ rgTester'[p] = job
      /\ \A q \in Testers \ {p} : rgTester'[q] = rgTester[q]
  BY DEF TesterInv
<1>2. \A r : ResultHolds(r)' <=> ResultHolds(r)
  BY DEF ResultHolds
<1>3. \A q \in Testers : rgTester'[q].run.sealed => tcRun'.sealed /\ rgTester'[q].run = tcRun'
  BY <1>1 DEF TesterInv
<1>4. \A r \in rgResults' : r.run.sealed => tcRun.sealed /\ ResultHolds(r)
  BY DEF TesterInv
<1> QED
  BY <1>1, <1>2, <1>3, <1>4 DEF TesterInv

LEMMA JobStarts ==
  ASSUME TesterInv, NEW p \in Testers, NEW job,
         NEW number, job.run.sealed => tcRun.sealed /\ job.run = tcRun,
         rgTester' = [rgTester EXCEPT ![p] = [job EXCEPT !.job = number]],
         "run" \in DOMAIN job, UNCHANGED <<tcRun, tcRows, rgResults>>
  PROVE  TesterInv'
<1>1. [job EXCEPT !.job = number].run = job.run
  OBVIOUS
<1> QED
  BY <1>1, JobKept

LEMMA StepTesters ==
  TracerInv /\ TesterInv /\ [RegressionNext]_<<tracerVars, rgVars>> => TesterInv'
<1> SUFFICES ASSUME TracerInv, TesterInv, [RegressionNext]_<<tracerVars, rgVars>>
             PROVE  TesterInv'
  OBVIOUS
<1>1. CASE [TracerNext]_tracerVars /\ UNCHANGED rgVars
  <2>1. UNCHANGED <<rgTester, rgResults>>
    BY <1>1 DEF rgVars
  <2>2. CASE tcRun.sealed
    <3>1. tcRun' = tcRun /\ tcRows' = tcRows
      BY <1>1, <2>2, SealedStays
    <3> QED
      BY <2>1, <3>1 DEF TesterInv, ResultHolds
  <2>3. CASE ~tcRun.sealed
    BY <2>1, <2>3 DEF TesterInv
  <2> QED
    BY <2>2, <2>3
<1>2. CASE UNCHANGED <<tracerVars, rgVars>>
  BY <1>1, <1>2
<1>3. CASE DeleteTest /\ UNCHANGED tracerVars
  <2>1. rgTester' = rgTester /\ rgResults' = {} /\ tcRun' = tcRun /\ tcRows' = tcRows
    BY <1>3 DEF DeleteTest, tracerVars
  <2> QED
    BY <2>1 DEF TesterInv, ResultHolds
<1>4. ASSUME NEW p \in Testers, TesterStep(p), UNCHANGED tracerVars PROVE TesterInv'
  <2>a. UNCHANGED <<tcRun, tcRows>>
    BY <1>4 DEF tracerVars
  <2>b. ~NoJob.run.sealed /\ DOMAIN NoJob = {"at", "job", "run", "test", "added"}
    BY DEF NoJob, NoRunRow
  <2>1. CASE DeriveFrom(p) \/ ReadRun(p)
    <3>1. PICK job : /\ job.run = tcRun /\ "run" \in DOMAIN job
                     /\ rgTester' = [rgTester EXCEPT ![p] = [job EXCEPT !.job = rgJobs']]
                     /\ rgResults' = rgResults
      <4>1. CASE DeriveFrom(p)
        <5> DEFINE job == [NoJob EXCEPT !.at = "derive", !.run = tcRun]
        <5>1. job.run = tcRun /\ "run" \in DOMAIN job
          BY <2>b
        <5>2. /\ rgTester' = [rgTester EXCEPT ![p] = [job EXCEPT !.job = rgJobs']]
              /\ rgResults' = rgResults
          BY <4>1 DEF DeriveFrom, StartsJob
        <5> QED
          BY <5>1, <5>2
      <4>2. CASE ReadRun(p)
        <5> DEFINE job == [NoJob EXCEPT !.at = "run", !.test = rgTest, !.run = tcRun]
        <5>1. job.run = tcRun /\ "run" \in DOMAIN job
          BY <2>b
        <5>2. /\ rgTester' = [rgTester EXCEPT ![p] = [job EXCEPT !.job = rgJobs']]
              /\ rgResults' = rgResults
          BY <4>2 DEF ReadRun, StartsJob
        <5> QED
          BY <5>1, <5>2
      <4> QED
        BY <2>1, <4>1, <4>2
    <3> QED
      BY <2>a, <3>1, JobStarts
  <2>2. ASSUME NEW a \in RgAdded, NEW kept \in BOOLEAN, LookUpTest(p, a, kept) PROVE TesterInv'
    <3> DEFINE job == [NoJob EXCEPT !.at = "add", !.test = rgTest,
                         !.added = {a} \union {b \in rgTest.assertions : kept}]
    <3>1. job.run = NoJob.run /\ "run" \in DOMAIN job
      BY <2>b
    <3>2. /\ rgTester' = [rgTester EXCEPT ![p] = [job EXCEPT !.job = rgJobs']]
          /\ rgResults' = rgResults
      BY <2>2 DEF LookUpTest, StartsJob
    <3> HIDE DEF job
    <3> QED
      BY <2>a, <2>b, <3>1, <3>2, JobStarts
  <2>3. CASE CreateTest(p) \/ AddAssertion(p)
    <3>1. rgTester' = [rgTester EXCEPT ![p] = NoJob] /\ rgResults' = rgResults
      BY <2>3 DEF CreateTest, AddAssertion, FinishesJob
    <3> QED
      BY <2>a, <2>b, <3>1, JobKept
  <2>4. CASE RunTest(p)
    <3>1. rgTester' = [rgTester EXCEPT ![p] = NoJob]
      BY <2>4 DEF RunTest, FinishesJob
    <3>2. PICK row : /\ row.run = rgTester[p].run
                     /\ row.passed = TestPasses(row.assertions, rgTester[p].run, tcRows)
                     /\ rgResults' \subseteq rgResults \union {row}
      <4> DEFINE row == [assertions |-> rgTester[p].test.assertions, run |-> rgTester[p].run,
                         passed |-> TestPasses(rgTester[p].test.assertions, rgTester[p].run, tcRows)]
      <4>1. rgResults' \subseteq rgResults \union {row}
        BY <2>4 DEF RunTest
      <4>2. /\ row.run = rgTester[p].run
            /\ row.passed = TestPasses(row.assertions, rgTester[p].run, tcRows)
        OBVIOUS
      <4> HIDE DEF row
      <4> QED
        BY <4>1, <4>2
    <3>3. row.run.sealed => tcRun.sealed /\ ResultHolds(row)
      BY <3>2 DEF TesterInv, ResultHolds
    <3> QED
      BY <2>a, <2>b, <3>1, <3>2, <3>3, JobKept
  <2> QED
    BY <1>4, <2>1, <2>2, <2>3, <2>4 DEF TesterStep
<1> QED
  BY <1>1, <1>2, <1>3, <1>4 DEF RegressionNext

(***************************************************************************)
(* RunsHoldOnceSealed: once a tracer has ended, its run tells what its steps  *)
(* were and never changes, a result got from it holds for good, and a test     *)
(* derived from it passes on it unless it has no step or a failed one          *)
(* (tracer.end, updateRunTotals; deriveAssertionsFromRun, runTest).           *)
(***************************************************************************)
THEOREM RunsHoldOnceSealed == RegressionSpec => []SealedRunHolds
<1>1. RegressionInit => TracerInv /\ TesterInv
  BY InitTracer, InitTesters DEF RegressionInit
<1>2. TracerInv /\ [RegressionNext]_<<tracerVars, rgVars>> => TracerInv'
  <2>1. [RegressionNext]_<<tracerVars, rgVars>> => [TracerNext]_tracerVars
    BY DEF RegressionNext
  <2> QED
    BY <2>1, StepTracer
<1>3. TracerInv /\ TesterInv => SealedRunHolds
  <2> SUFFICES ASSUME TracerInv, TesterInv, tcRun.sealed PROVE SealedRunHolds
    BY DEF SealedRunHolds
  <2>1. IsRun(tcRun) /\ IsFiniteSet(tcRows)
    BY DEF TracerInv, TracerTypes
  <2>2. TestPasses(DeriveAssertionsFromRun(tcRun, tcRows), tcRun, tcRows) <=>
          tcRows # {} /\ "error" \notin SaidBy(tcRows)
    BY <2>1, DerivedTest
  <2>3. tcRun = RunTotals(tcRun, tcRows) /\ (tcTracer.told \/ tcRun.status = StatusOf(tcRows))
    BY DEF TracerInv, SealedIsTotal
  <2>4. \A r \in rgResults : r.run.sealed => r.passed = TestPasses(r.assertions, tcRun, tcRows)
    BY DEF TesterInv, ResultHolds
  <2> QED
    BY <2>2, <2>3, <2>4 DEF SealedRunHolds, SaidBy, StatusOf
<1> QED
  BY <1>1, <1>2, <1>3, StepTesters, PTL DEF RegressionSpec

(***************************************************************************)
(* Forks                                                                   *)
(***************************************************************************)
IsSequence(s) == s \in Seq(Range(s))

LEMMA SequencesAre ==
  ASSUME NEW S, NEW s \in Seq(S)
  PROVE  IsSequence(s)
<1>1. \A i \in 1..Len(s) : s[i] \in Range(s)
  BY DEF Range
<1>2. s \in Seq(S) /\ Len(s) \in Nat /\ DOMAIN s = 1..Len(s)
  OBVIOUS
<1>3. s \in [1..Len(s) -> Range(s)]
  BY <1>1, <1>2
<1> QED
  BY <1>2, <1>3, SeqDef DEF IsSequence

LEMMA Joined ==
  ASSUME NEW s, NEW t, NEW u, IsSequence(s), IsSequence(t), IsSequence(u)
  PROVE  /\ IsSequence(s \o t) /\ (s \o t) \o u = s \o (t \o u)
         /\ s \o <<>> = s /\ <<>> \o s = s
<1> DEFINE S == Range(s) \union Range(t) \union Range(u)
<1>1. s \in Seq(S) /\ t \in Seq(S) /\ u \in Seq(S)
  <2>1. /\ s \in Seq(Range(s)) /\ t \in Seq(Range(t)) /\ u \in Seq(Range(u))
        /\ Range(s) \subseteq S /\ Range(t) \subseteq S /\ Range(u) \subseteq S
    BY DEF IsSequence
  <2> HIDE DEF S
  <2> QED
    BY <2>1
<1> HIDE DEF S
<1>2. s \o t \in Seq(S)
  BY <1>1
<1>3. (s \o t) \o u = s \o (t \o u)
  BY <1>1, ConcatAssociative
<1> QED
  BY <1>1, <1>2, <1>3, SequencesAre, ConcatEmptySeq

(* Rows numbered from 0 without a gap.                                       *)
Whole(rows, n) ==
  {r.seq : r \in rows} = 0..(n - 1) /\ \A r, s \in rows : r.seq = s.seq => r = s
At(rows, k) == CHOOSE r \in rows : r.seq = k

LEMMA WholeAt ==
  ASSUME NEW rows, NEW n \in Nat, Whole(rows, n), NEW k \in 0..(n - 1)
  PROVE  /\ At(rows, k) \in rows /\ At(rows, k).seq = k
         /\ \A r \in rows : r.seq = k => r = At(rows, k)
<1>1. \E r \in rows : r.seq = k
  BY DEF Whole
<1> QED
  BY <1>1 DEF At, Whole

LEMMA NewestIn ==
  ASSUME NEW rows, rows # {}, NEW m \in Nat, \A r \in rows : r.seq \in 0..m
  PROVE  Newest(rows) \in rows /\ \A s \in rows : s.seq <= Newest(rows).seq
<1> DEFINE Left == {m - r.seq : r \in rows}
<1>1. Left \subseteq Nat /\ Left # {}
  <2>1. \A r \in rows : m - r.seq \in Nat
    OBVIOUS
  <2> QED
    BY <2>1
<1>2. PICK least \in Left : \A k \in Left : least <= k
  BY <1>1, LeastNumber
<1>3. PICK r \in rows : least = m - r.seq
  BY <1>2
<1>4. \A s \in rows : s.seq <= r.seq
  <2>1. \A s \in rows : m - r.seq <= m - s.seq
    BY <1>2, <1>3
  <2> QED
    BY <2>1
<1> QED
  BY <1>4 DEF Newest

LEMMA WholeNewest ==
  ASSUME NEW rows, NEW n \in Nat, Whole(rows, n), n > 0
  PROVE  Newest(rows) \in rows /\ Newest(rows).seq = n - 1 /\ Newest(rows) = At(rows, n - 1)
<1>1. At(rows, n - 1) \in rows /\ At(rows, n - 1).seq = n - 1
  BY WholeAt
<1>2. \A r \in rows : r.seq \in 0..(n - 1)
  BY DEF Whole
<1>3. Newest(rows) \in rows /\ \A s \in rows : s.seq <= Newest(rows).seq
  BY <1>1, <1>2, NewestIn
<1>4. Newest(rows).seq = n - 1
  BY <1>1, <1>2, <1>3
<1> QED
  BY <1>3, <1>4, WholeAt

LEMMA WholeMore ==
  ASSUME NEW rows, NEW n \in Nat, Whole(rows, n), NEW row, row.seq = n
  PROVE  /\ Whole(rows \union {row}, n + 1) /\ row \notin rows
         /\ At(rows \union {row}, n) = row
         /\ \A k \in 0..(n - 1) : At(rows \union {row}, k) = At(rows, k)
<1>1. \A r \in rows : r.seq \in 0..(n - 1) /\ r.seq # n
  BY DEF Whole
<1>2. {r.seq : r \in rows \union {row}} = 0..n
  <2>1. {r.seq : r \in rows \union {row}} = {r.seq : r \in rows} \union {n}
    OBVIOUS
  <2>2. 0..n = 0..(n - 1) \union {n}
    OBVIOUS
  <2> QED
    BY <2>1, <2>2 DEF Whole
<1>3. \A r, s \in rows \union {row} : r.seq = s.seq => r = s
  BY <1>1 DEF Whole
<1>4. Whole(rows \union {row}, n + 1)
  <2>1. n + 1 - 1 = n
    OBVIOUS
  <2> QED
    BY <1>2, <1>3, <2>1 DEF Whole
<1>5. At(rows \union {row}, n) = row
  BY <1>4, WholeAt, n \in 0..(n + 1 - 1)
<1>6. ASSUME NEW k \in 0..(n - 1) PROVE At(rows \union {row}, k) = At(rows, k)
  <2>1. At(rows, k) \in rows /\ At(rows, k).seq = k
    BY WholeAt
  <2>2. k \in 0..(n + 1 - 1) /\ n + 1 \in Nat
    OBVIOUS
  <2> QED
    BY <1>4, <2>1, <2>2, WholeAt
<1> QED
  BY <1>1, <1>4, <1>5, <1>6

Replaced(rows, old, row) == (rows \ {old}) \union {row}

LEMMA WholeChanged ==
  ASSUME NEW rows, NEW n \in Nat, Whole(rows, n), NEW old \in rows, NEW row, row.seq = old.seq
  PROVE  /\ Whole(Replaced(rows, old, row), n)
         /\ At(Replaced(rows, old, row), row.seq) = row
         /\ \A k \in 0..(n - 1) : k # row.seq => At(Replaced(rows, old, row), k) = At(rows, k)
<1> USE DEF Replaced
<1> DEFINE new == (rows \ {old}) \union {row}
<1>1. {r.seq : r \in new} = {r.seq : r \in rows}
  OBVIOUS
<1>2. \A r \in rows \ {old} : r.seq # row.seq
  BY DEF Whole
<1>3. Whole(new, n)
  BY <1>1, <1>2 DEF Whole
<1>4. row.seq \in 0..(n - 1) /\ row \in new
  BY DEF Whole
<1>5. At(new, row.seq) = row
  BY <1>3, <1>4, WholeAt
<1>6. ASSUME NEW k \in 0..(n - 1), k # row.seq PROVE At(new, k) = At(rows, k)
  <2>1. At(rows, k) \in rows /\ At(rows, k).seq = k
    BY WholeAt
  <2>2. At(rows, k) \in new
    BY <1>6, <2>1
  <2> QED
    BY <1>3, <2>1, <2>2, WholeAt
<1> QED
  BY <1>3, <1>5, <1>6

LEMMA WholeSize ==
  ASSUME NEW rows, NEW n \in Nat, Whole(rows, n)
  PROVE  IsFiniteSet(rows) /\ Cardinality(rows) = n
<1> DEFINE at == [k \in 0..(n - 1) |-> At(rows, k)]
<1>1. \A k \in 0..(n - 1) : at[k] \in rows /\ at[k].seq = k
  BY WholeAt
<1>2. \A r \in rows : r.seq \in 0..(n - 1) /\ at[r.seq] = r
  <2>1. \A r \in rows : r.seq \in 0..(n - 1)
    BY DEF Whole
  <2> QED
    BY <2>1, WholeAt
<1> HIDE DEF at
<1>3. at \in Bijection(0..(n - 1), rows)
  <2>1. at \in [0..(n - 1) -> rows]
    BY <1>1 DEF at
  <2>2. \A i, j \in 0..(n - 1) : i # j => at[i] # at[j]
    BY <1>1
  <2>3. \A r \in rows : \E k \in 0..(n - 1) : at[k] = r
    BY <1>2
  <2> QED
    BY <2>1, <2>2, <2>3 DEF Bijection, Injection, Surjection, IsInjective
<1>4. IsFiniteSet(0..(n - 1)) /\ Cardinality(0..(n - 1)) = n
  BY FS_Interval
<1>5. ExistsBijection(0..(n - 1), rows)
  BY <1>3 DEF ExistsBijection
<1> QED
  BY <1>4, <1>5, FS_Bijection

IsAction(action) == action = [kind |-> action.kind, tool |-> action.tool, input |-> action.input]
IsContext(context) == DOMAIN context = {"system", "history"} /\ IsSequence(context.history)
                      /\ context = [f \in DOMAIN context |-> context[f]]
IsTurn(r) ==
  /\ DOMAIN r = {"id", "run", "seq", "body"} /\ r.seq \in Nat
  /\ DOMAIN r.body = {"action", "outcome", "result", "saw", "parent", "tags", "usage", "status"}
  /\ IsAction(r.body.action) /\ IsContext(r.body.saw)

(* The context that the next call sees.                                      *)
AfterTurn(body) == [body.saw EXCEPT !.history = body.saw.history \o TurnOf(body)]

(* What a fork is made of: an origin that is numbered from 0 without a gap, and   *)
(* answers and results that are what they say.                              *)
ForkData ==
  /\ \A o \in FkOrigins :
       /\ o # {} /\ IsFiniteSet(o) /\ Whole(o, Cardinality(o))
       /\ \A r \in o : IsTurn(r) /\ r.run = "origin" /\ r.id[1] = "step"
       /\ \A r, s \in o : r.id = s.id => r = s
  /\ \A reply \in FkReplies : IsSequence(reply) /\ \A k \in DOMAIN reply : IsAction(reply[k])
  /\ NoResult \notin FkResults \union {"note"}

LEMMA TurnIsSequence ==
  ASSUME NEW body
  PROVE  IsSequence(TurnOf(body))
<1>1. \A m : IsSequence(<<m>>)
  <2> SUFFICES ASSUME NEW m PROVE IsSequence(<<m>>)
    OBVIOUS
  <2>1. <<m>> \in Seq({m})
    OBVIOUS
  <2> QED
    BY <2>1, SequencesAre
<1>2. IsSequence(<<>>)
  <2>1. <<>> \in Seq({})
    OBVIOUS
  <2> QED
    BY <2>1, SequencesAre
<1>3. \A s, t : IsSequence(s) /\ IsSequence(t) => IsSequence(s \o t)
  BY <1>2, Joined
<1> QED
  BY <1>1, <1>2, <1>3 DEF TurnOf

LEMMA NextContext ==
  ASSUME NEW body, IsContext(body.saw)
  PROVE  IsContext(AfterTurn(body)) /\ AfterTurn(body).history = body.saw.history \o TurnOf(body)
<1>1. IsSequence(body.saw.history \o TurnOf(body))
  BY TurnIsSequence, Joined DEF IsContext
<1> QED
  BY <1>1 DEF IsContext, AfterTurn

LEMMA EditedContext ==
  ASSUME NEW context, IsContext(context), NEW edit
  PROVE  IsContext(RewriteSnapshot(context, edit))
<1>1. IsSequence(context.history)
  BY DEF IsContext
<1>2. IsSequence(ReplaceUser(context.history))
  <2> DEFINE history == context.history
             users == {k \in DOMAIN history : history[k].role = "user"}
  <2>1. history \in Seq(Range(history)) /\ Len(history) \in Nat /\ DOMAIN history = 1..Len(history)
    BY <1>1 DEF IsSequence
  <2>2. CASE users = {}
    BY <1>1, <2>2 DEF ReplaceUser
  <2>3. CASE users # {}
    <3>1. Max(users) \in 1..Len(history)
      BY <2>1, <2>3, LastIsIn
    <3> DEFINE new == [history[Max(users)] EXCEPT !.text = "edited"]
               S == Range(history) \union {new}
    <3>2. history \in Seq(S) /\ new \in S
      <4> HIDE DEF new
      <4>1. Range(history) \subseteq S
        OBVIOUS
      <4> QED
        BY <2>1, <4>1, SeqMonotonic
    <3>3. [history EXCEPT ![Max(users)] = new] \in Seq(S)
      <4> HIDE DEF new, S, users, history
      <4> QED
        BY <3>1, <3>2, ExceptSeq
    <3>4. ReplaceUser(history) = [history EXCEPT ![Max(users)] = new]
      BY <2>3 DEF ReplaceUser
    <3> QED
      BY <3>3, <3>4, SequencesAre
  <2> QED
    BY <2>2, <2>3
<1>3. IsSequence(Append(context.history, Message("user", "edited")))
  <2> DEFINE m == Message("user", "edited")
             S == Range(context.history) \union {m}
  <2>1. context.history \in Seq(S) /\ m \in S
    <3> HIDE DEF m
    <3>1. Range(context.history) \subseteq S
      OBVIOUS
    <3> QED
      BY <1>1, <3>1, SeqMonotonic DEF IsSequence
  <2> HIDE DEF m, S
  <2>2. Append(context.history, m) \in Seq(S)
    BY <2>1
  <2> QED
    BY <2>2, SequencesAre DEF m
<1>4. CASE edit = "system"
  BY <1>4 DEF RewriteSnapshot, IsContext
<1>5. CASE edit = "user"
  BY <1>2, <1>5 DEF RewriteSnapshot, IsContext
<1>6. CASE edit = "inject"
  BY <1>3, <1>6 DEF RewriteSnapshot, IsContext
<1>7. CASE edit \notin {"system", "user", "inject"}
  BY <1>7 DEF RewriteSnapshot
<1> QED
  BY <1>4, <1>5, <1>6, <1>7

LEMMA DecisionIs ==
  ASSUME ForkData, NEW reply \in FkReplies
  PROVE  /\ IsAction(Decision(reply)) /\ (IsCall(Decision(reply)) \/ Decision(reply).kind = "message")
         /\ IsAction(LiveAnswer(reply))
<1> DEFINE asked == {k \in DOMAIN reply : IsCall(reply[k])}
<1>1. IsAction(TextOf(reply)) /\ TextOf(reply).kind = "message"
  BY DEF TextOf, IsAction
<1>2. CASE asked = {}
  BY <1>1, <1>2 DEF Decision, LiveAnswer
<1>3. CASE asked # {}
  <2>1. asked \subseteq Nat
    BY DEF ForkData, IsSequence
  <2>2. Min(asked) \in asked
    BY <1>3, <2>1, LeastIsIn
  <2>3. Decision(reply) = reply[Min(asked)]
    BY <1>3 DEF Decision
  <2> QED
    BY <1>1, <2>2, <2>3 DEF ForkData, LiveAnswer
<1> QED
  BY <1>2, <1>3

(***************************************************************************)
(* The invariant                                                           *)
(***************************************************************************)
ForkKinds == {"copy", "live", "turn", "error"}
Edited == RewriteSnapshot(Newest(fkRead).body.saw, fkCall.edit)
FirstOut == IF fkCall.live THEN ForkAt + 1 ELSE ForkAt
SawKnown(context) == \E s \in fkSnapshots : s.id = context

ForkTypes ==
  /\ \A r \in fkSteps : IsTurn(r) /\ r.run \in {"origin", "fork"} /\ SawKnown(r.body.saw)
  /\ GoTogether(fkSteps)
  /\ \A s \in fkSnapshots : s.context = s.id
  /\ DOMAIN fkRun = {"status", "total"}

OriginGrown ==
  \E m \in Nat : /\ Whole(OriginRows, m + 1)
                 /\ \A r \in OriginRows : r.id[1] = "step" \/ r.id = <<"more", r.seq - 1>>

(* What was read of it when the fork began.                                  *)
PrefixRead ==
  fkPc # "none" =>
    /\ ForkAt \in Nat /\ Whole(fkRead, ForkAt + 1)
    /\ \A r \in fkRead : IsTurn(r) /\ SawKnown(r.body.saw)

(* The rows of the fork: the copies, the fork point, then the turns, each on top  *)
(* of the one before.                                                      *)
Copied(r) == \E x \in fkRead : r = CopyStep(fkRead, x)
AtPoint(r) ==
  /\ r.id = <<"copy", ForkAt>> /\ r.body.parent = ParentAmong(fkRead, Newest(fkRead))
  /\ r.body.saw = Edited
Follows(r) ==
  /\ r.body.parent = At(ForkRows, r.seq - 1).id
  /\ \/ r.id[1] = "live" /\ fkCall.live /\ r.seq = FirstOut /\ r.body.saw = Edited
     \/ /\ r.id[1] = "turn" /\ r.seq > FirstOut /\ At(ForkRows, r.seq - 1).id[1] # "error"
        /\ r.body.saw = AfterTurn(At(ForkRows, r.seq - 1).body)
     \/ r.id[1] = "error" /\ r.seq > FirstOut /\ fkPc = "done"

InPlace(r) ==
  /\ r.id = <<r.id[1], r.seq>> /\ r.id[1] \in ForkKinds
  /\ r.seq < ForkAt => Copied(r)
  /\ r.seq = ForkAt => AtPoint(r)
  /\ r.seq > ForkAt => Follows(r)

IsResolved(r) == IsCall(r.body.action) /\ r.body.result # NoResult
TurnAnswered(r) ==
  r.id[1] = "turn" =>
    /\ fkCall.mode = "simulate" /\ r.body.result # NoResult =>
         \E o \in OriginRows : o.body.action = r.body.action /\ o.body.result = r.body.result
    /\ r # Newest(ForkRows) => IsResolved(r)

(* How many rows there are, and what the newest is, at each point of the fork.    *)
Stage(n) ==
  /\ fkPc = "none" => n = 0
  /\ fkPc = "copy" => n <= ForkAt
  /\ fkPc = "edit" => n = ForkAt
  /\ fkPc = "live" => n = ForkAt + 1 /\ fkCall.live
  /\ fkPc = "continue" => n = FirstOut + 1
  /\ fkPc = "call" => n > FirstOut /\
       (Newest(ForkRows).id[1] = "turn" => IsResolved(Newest(ForkRows)))
  /\ fkPc = "resolve" => n > FirstOut + 1 /\ IsCall(Newest(ForkRows).body.action)
  /\ fkPc = "complete" => n > FirstOut + 1 /\ Newest(ForkRows).body.action.kind = "message"
  /\ fkForked <=> fkPc # "none" /\ n > ForkAt

ForkGrown == \E n \in Nat : Whole(ForkRows, n) /\ Stage(n)

ForkPcs == {"none", "copy", "edit", "live", "continue", "call", "resolve", "complete", "done"}
ForkMarked ==
  /\ fkPc \in ForkPcs
  /\ fkPc # "done" => fkRun.status \in {"none", "in_progress"}
  /\ fkRun.status = "ok" => Newest(ForkRows).body.action.kind = "message"
  /\ fkRun.status = "error" => Newest(ForkRows).body.outcome = "error"
  /\ fkRun.status \in {"ok", "error"} => fkRun.total = RunTotal(fkSteps, "fork")
  /\ fkIndex \subseteq ToolIndex

ForkInv ==
  /\ ForkTypes /\ OriginGrown /\ PrefixRead /\ ForkGrown /\ ForkMarked
  /\ \A r \in ForkRows : InPlace(r) /\ TurnAnswered(r)

LEMMA RowIsNew ==
  ASSUME NEW table, GoTogether(table), NEW row,
         \A r \in table : r.id # row.id /\ ~(r.run = row.run /\ r.seq = row.seq)
  PROVE  InsertStep(table, row) = table \union {row} /\ GoTogether(table \union {row})
<1>1. GoTogether(table \union {row})
  BY DEF GoTogether
<1>2. {r \in table : r.id # row.id} = table
  OBVIOUS
<1> QED
  BY <1>1, <1>2, OneRowIn

LEMMA RowIsKnown ==
  ASSUME NEW table, GoTogether(table), NEW old \in table, NEW row,
         row.id = old.id, row.run = old.run, row.seq = old.seq,
         \A r \in table : r.id = old.id => r = old
  PROVE  /\ InsertStep(table, row) = (table \ {old}) \union {row}
         /\ GoTogether((table \ {old}) \union {row})
<1>1. GoTogether(table \union {row})
  BY DEF GoTogether
<1>2. InsertStep(table, row) = {r \in table : r.id # row.id} \union {row}
  BY <1>1, OneRowIn
<1>3. {r \in table : r.id # row.id} = table \ {old}
  OBVIOUS
<1>4. GoTogether((table \ {old}) \union {row})
  BY <1>1 DEF GoTogether
<1> QED
  BY <1>2, <1>3, <1>4

-----------------------------------------------------------------------------
(* How the rows of the fork change.                                          *)
LEMMA ForkIds ==
  ASSUME ForkInv
  PROVE  /\ \A r, s \in fkSteps : r.id = s.id => r = s
         /\ fkSteps = OriginRows \union ForkRows
         /\ \A r \in OriginRows : r.id[1] \notin ForkKinds
<1>1. PICK m \in Nat : Whole(OriginRows, m + 1)
  BY DEF ForkInv, OriginGrown
<1>2. PICK n \in Nat : Whole(ForkRows, n)
  BY DEF ForkInv, ForkGrown
<1>3. ASSUME NEW r \in fkSteps, NEW s \in fkSteps, r.id = s.id PROVE r = s
  <2>1. r.run = s.run /\ r.seq = s.seq /\ r.run \in {"origin", "fork"}
    BY <1>3 DEF ForkInv, ForkTypes, GoTogether
  <2>2. CASE r.run = "origin"
    <3>1. r \in OriginRows /\ s \in OriginRows
      BY <2>1, <2>2 DEF OriginRows, StepsOfRun
    <3> QED
      BY <1>1, <2>1, <3>1 DEF Whole
  <2>3. CASE r.run = "fork"
    <3>1. r \in ForkRows /\ s \in ForkRows
      BY <2>1, <2>3 DEF ForkRows, StepsOfRun
    <3> QED
      BY <1>2, <2>1, <3>1 DEF Whole
  <2> QED
    BY <2>1, <2>2, <2>3
<1>4. fkSteps = OriginRows \union ForkRows
  BY DEF OriginRows, ForkRows, StepsOfRun, ForkInv, ForkTypes
<1>5. ASSUME NEW r \in OriginRows PROVE r.id[1] \notin ForkKinds
  BY DEF ForkInv, OriginGrown, ForkKinds
<1> QED
  BY <1>3, <1>4, <1>5

LEMMA ForkRowPut ==
  ASSUME ForkInv, NEW n \in Nat, Whole(ForkRows, n),
         NEW row, NEW kind \in ForkKinds, row.id = <<kind, n>>, row.run = "fork", row.seq = n,
         fkSteps' = InsertStep(fkSteps, row)
  PROVE  /\ fkSteps' = fkSteps \union {row} /\ GoTogether(fkSteps')
         /\ OriginRows' = OriginRows /\ ForkRows' = ForkRows \union {row}
         /\ Whole(ForkRows', n + 1) /\ Newest(ForkRows') = row /\ row \notin ForkRows
         /\ At(ForkRows', n) = row
         /\ \A k \in 0..(n - 1) : At(ForkRows', k) = At(ForkRows, k)
<1>1. ASSUME NEW r \in fkSteps
      PROVE  r.id # row.id /\ ~(r.run = row.run /\ r.seq = row.seq)
  <2>1. CASE r \in ForkRows
    <3>1. r.seq # n
      BY <2>1 DEF Whole
    <3>2. r.id = <<r.id[1], r.seq>>
      BY <2>1 DEF ForkInv, InPlace
    <3> QED
      BY <3>1, <3>2
  <2>2. CASE r \in OriginRows
    <3>1. r.id[1] # row.id[1]
      BY <2>2, ForkIds
    <3>2. r.run = "origin"
      BY <2>2 DEF OriginRows, StepsOfRun
    <3> QED
      BY <3>1, <3>2
  <2> QED
    BY <2>1, <2>2, ForkIds
<1>2. fkSteps' = fkSteps \union {row} /\ GoTogether(fkSteps')
  <2>1. GoTogether(fkSteps)
    BY DEF ForkInv, ForkTypes
  <2>2. InsertStep(fkSteps, row) = fkSteps \union {row} /\ GoTogether(fkSteps \union {row})
    BY <1>1, <2>1, RowIsNew
  <2> QED
    BY <2>2
<1>3. OriginRows' = OriginRows /\ ForkRows' = ForkRows \union {row}
  BY <1>2 DEF OriginRows, ForkRows, StepsOfRun
<1> DEFINE rows == ForkRows \union {row}
<1>4. /\ Whole(rows, n + 1) /\ row \notin ForkRows /\ At(rows, n) = row
      /\ \A k \in 0..(n - 1) : At(rows, k) = At(ForkRows, k)
  BY WholeMore
<1> HIDE DEF rows
<1>5. Newest(rows) = At(rows, n)
  <2>1. n + 1 \in Nat /\ n + 1 > 0 /\ n + 1 - 1 = n
    OBVIOUS
  <2> QED
    BY <1>4, <2>1, WholeNewest
<1> QED
  BY <1>2, <1>3, <1>4, <1>5 DEF rows

LEMMA ForkRowChanged ==
  ASSUME ForkInv, NEW n \in Nat, n > 0, Whole(ForkRows, n),
         NEW row, row.id = Newest(ForkRows).id, row.run = "fork", row.seq = Newest(ForkRows).seq,
         fkSteps' = InsertStep(fkSteps, row)
  PROVE  /\ fkSteps' = (fkSteps \ {Newest(ForkRows)}) \union {row} /\ GoTogether(fkSteps')
         /\ OriginRows' = OriginRows /\ ForkRows' = (ForkRows \ {Newest(ForkRows)}) \union {row}
         /\ Whole(ForkRows', n) /\ Newest(ForkRows') = row /\ row.seq = n - 1
         /\ \A k \in 0..(n - 2) : At(ForkRows', k) = At(ForkRows, k)
<1> DEFINE old == Newest(ForkRows)
           rows == (ForkRows \ {old}) \union {row}
<1>1. old \in ForkRows /\ old.seq = n - 1
  BY WholeNewest
<1>2. old \in fkSteps /\ old.run = "fork"
  BY <1>1 DEF ForkRows, StepsOfRun
<1>3. fkSteps' = (fkSteps \ {old}) \union {row} /\ GoTogether(fkSteps')
  <2> HIDE DEF old
  <2>1. GoTogether(fkSteps)
    BY DEF ForkInv, ForkTypes
  <2>2. \A r \in fkSteps : r.id = old.id => r = old
    BY <1>2, ForkIds
  <2>3. row.id = old.id /\ row.seq = old.seq /\ row.run = old.run
    BY <1>2 DEF old
  <2>4. /\ InsertStep(fkSteps, row) = (fkSteps \ {old}) \union {row}
        /\ GoTogether((fkSteps \ {old}) \union {row})
    BY <1>2, <2>1, <2>2, <2>3, RowIsKnown
  <2> QED
    BY <2>4
<1>4. OriginRows' = OriginRows /\ ForkRows' = rows
  <2> HIDE DEF old
  <2>1. ForkRows' = rows
    BY <1>2, <1>3 DEF ForkRows, StepsOfRun, rows
  <2>2. OriginRows' = OriginRows
    BY <1>2, <1>3 DEF OriginRows, StepsOfRun
  <2> QED
    BY <2>1, <2>2
<1>5. /\ Whole(rows, n) /\ At(rows, n - 1) = row
      /\ \A k \in 0..(n - 1) : k # n - 1 => At(rows, k) = At(ForkRows, k)
  <2>1. row.seq = old.seq
    OBVIOUS
  <2> HIDE DEF old
  <2>2. /\ Whole(Replaced(ForkRows, old, row), n)
        /\ At(Replaced(ForkRows, old, row), row.seq) = row
        /\ \A k \in 0..(n - 1) : k # row.seq => At(Replaced(ForkRows, old, row), k) = At(ForkRows, k)
    BY <1>1, <2>1, WholeChanged
  <2>3. row.seq = n - 1
    BY <1>1, <2>1
  <2>4. rows = Replaced(ForkRows, old, row)
    BY DEF Replaced
  <2> HIDE DEF rows
  <2> QED
    BY <2>2, <2>3, <2>4
<1>6. Newest(rows) = row
  <2> HIDE DEF rows
  <2> QED
    BY <1>5, WholeNewest
<1>7. \A k \in 0..(n - 2) : At(rows, k) = At(ForkRows, k)
  <2>1. \A k \in 0..(n - 2) : k \in 0..(n - 1) /\ k # n - 1
    OBVIOUS
  <2> HIDE DEF rows
  <2> QED
    BY <1>5, <2>1
<1> QED
  BY <1>1, <1>3, <1>4, <1>5, <1>6, <1>7

(* Snapshots are added under the context they are of, or not at all.          *)
SnapshotsKept ==
  /\ \A context : SawKnown(context) => SawKnown(context)'
  /\ \A s \in fkSnapshots' : s.context = s.id

LEMMA SameSnapshots ==
  ASSUME ForkTypes, fkSnapshots' = fkSnapshots
  PROVE  SnapshotsKept
BY DEF ForkTypes, SnapshotsKept, SawKnown

LEMMA RecordKeeps ==
  ASSUME ForkTypes, NEW id, NEW context, id = context \/ SawKnown(id),
         fkSnapshots' = RecordSnapshot(fkSnapshots, id, context)
  PROVE  SnapshotsKept /\ \E s \in fkSnapshots' : s.id = id
<1>1. CASE SawKnown(id)
  <2>1. fkSnapshots' = fkSnapshots
    BY <1>1 DEF RecordSnapshot, SawKnown
  <2> QED
    BY <1>1, <2>1, SameSnapshots DEF SawKnown
<1>2. CASE ~SawKnown(id)
  <2>1. fkSnapshots' = fkSnapshots \union {[id |-> id, context |-> context]} /\ id = context
    BY <1>2 DEF RecordSnapshot, SawKnown
  <2>2. \A s \in fkSnapshots' : s.context = s.id
    BY <2>1 DEF ForkTypes
  <2>3. \A c : SawKnown(c) => SawKnown(c)'
    BY <2>1 DEF SawKnown
  <2>4. \E s \in fkSnapshots' : s.id = id
    <3>1. [id |-> id, context |-> context].id = id
      OBVIOUS
    <3>2. [id |-> id, context |-> context] \in fkSnapshots'
      BY <2>1
    <3> QED
      BY <3>1, <3>2
  <2> QED
    BY <2>2, <2>3, <2>4 DEF SnapshotsKept
<1> QED
  BY <1>1, <1>2

LEMMA ContextIs ==
  ASSUME ForkTypes, NEW context, SawKnown(context)
  PROVE  ContextOf(context) = context
BY DEF ForkTypes, SawKnown, ContextOf

-----------------------------------------------------------------------------
(* What stays of a row while others change.                                  *)
LEMMA PlaceStays ==
  ASSUME ForkInv, NEW m \in Nat, fkPc # "none", fkRead' = fkRead, fkCall' = fkCall,
         fkPc = "done" => fkPc' = "done",
         \A k \in 0..(m - 1) : At(ForkRows', k) = At(ForkRows, k),
         NEW r \in ForkRows, r.seq <= m
  PROVE  InPlace(r)'
<1>1. ForkAt \in Nat /\ r.seq \in Nat
  BY DEF ForkInv, PrefixRead, ForkTypes, IsTurn, ForkRows, StepsOfRun
<1>2. InPlace(r)
  BY DEF ForkInv
<1>3. ForkAt' = ForkAt /\ Edited' = Edited /\ FirstOut' = FirstOut
  BY DEF ForkAt, Edited, FirstOut
<1>4. Copied(r)' <=> Copied(r)
  BY DEF Copied
<1>5. AtPoint(r)' <=> AtPoint(r)
  BY <1>3 DEF AtPoint
<1>6. ASSUME r.seq > ForkAt, Follows(r) PROVE Follows(r)'
  <2>1. At(ForkRows', r.seq - 1) = At(ForkRows, r.seq - 1)
    <3>1. r.seq - 1 \in 0..(m - 1)
      BY <1>1, <1>6
    <3> QED
      BY <3>1
  <2>2. /\ r.body.parent = At(ForkRows', r.seq - 1).id
        /\ \/ r.id[1] = "live" /\ fkCall'.live /\ r.seq = FirstOut' /\ r.body.saw = Edited'
           \/ /\ r.id[1] = "turn" /\ r.seq > FirstOut' /\ At(ForkRows', r.seq - 1).id[1] # "error"
              /\ r.body.saw = AfterTurn(At(ForkRows', r.seq - 1).body)
           \/ r.id[1] = "error" /\ r.seq > FirstOut' /\ fkPc' = "done"
    BY <1>3, <1>6, <2>1 DEF Follows
  <2> QED
    BY <2>2 DEF Follows
<1> QED
  BY <1>2, <1>3, <1>4, <1>5, <1>6 DEF InPlace

ResultsRemain ==
  \A o \in OriginRows : o.body.result # NoResult => o \in OriginRows'

LEMMA AnswerStays ==
  ASSUME ResultsRemain, fkCall' = fkCall, NEW r, TurnAnswered(r),
         r.id[1] = "turn" => r = Newest(ForkRows') \/ r # Newest(ForkRows) \/ IsResolved(r)
  PROVE  TurnAnswered(r)'
<1> SUFFICES ASSUME r.id[1] = "turn" PROVE TurnAnswered(r)'
  BY DEF TurnAnswered
<1>1. ASSUME fkCall'.mode = "simulate", r.body.result # NoResult
      PROVE  \E o \in OriginRows' : o.body.action = r.body.action /\ o.body.result = r.body.result
  <2>1. PICK o \in OriginRows : o.body.action = r.body.action /\ o.body.result = r.body.result
    BY <1>1 DEF TurnAnswered
  <2>2. o \in OriginRows'
    BY <1>1, <2>1 DEF ResultsRemain
  <2> QED
    BY <2>1, <2>2
<1>2. r # Newest(ForkRows') => IsResolved(r)
  BY DEF TurnAnswered, IsResolved
<1> QED
  BY <1>1, <1>2 DEF TurnAnswered, IsResolved

LEMMA SawStays ==
  ASSUME SnapshotsKept, fkRead' = fkRead, (fkPc' # "none" => fkPc # "none"), PrefixRead
  PROVE  PrefixRead'
BY DEF PrefixRead, SnapshotsKept, ForkAt

LEMMA OriginStays ==
  ASSUME OriginGrown, OriginRows' = OriginRows
  PROVE  OriginGrown' /\ ResultsRemain
BY DEF OriginGrown, ResultsRemain

(* One row more, on top of a newest that is resolved if it is a turn.        *)
ForkRowsHold ==
  /\ ForkTypes /\ OriginGrown /\ PrefixRead
  /\ \A r \in ForkRows : InPlace(r) /\ TurnAnswered(r)

LEMMA PutKeeps ==
  ASSUME ForkInv, NEW n \in Nat, Whole(ForkRows, n), fkPc \notin {"none", "done"}, fkPc' # "none",
         NEW row, IsTurn(row), NEW kind \in ForkKinds, row.id = <<kind, n>>, row.run = "fork", row.seq = n,
         fkSteps' = InsertStep(fkSteps, row), fkRead' = fkRead, fkCall' = fkCall,
         SnapshotsKept, SawKnown(row.body.saw)', DOMAIN fkRun' = {"status", "total"},
         n > 0 /\ Newest(ForkRows).id[1] = "turn" => IsResolved(Newest(ForkRows)),
         InPlace(row)', TurnAnswered(row)'
  PROVE  ForkRowsHold'
<1>1. /\ fkSteps' = fkSteps \union {row} /\ GoTogether(fkSteps')
      /\ OriginRows' = OriginRows /\ ForkRows' = ForkRows \union {row}
      /\ Newest(ForkRows') = row
      /\ \A k \in 0..(n - 1) : At(ForkRows', k) = At(ForkRows, k)
  BY ForkRowPut
<1>2. ForkTypes'
  <2>1. ASSUME NEW r \in fkSteps'
        PROVE  IsTurn(r) /\ r.run \in {"origin", "fork"} /\ SawKnown(r.body.saw)'
    <3>1. CASE r \in fkSteps
      BY <3>1 DEF ForkInv, ForkTypes, SnapshotsKept
    <3>2. CASE r = row
      BY <3>2
    <3> QED
      BY <1>1, <2>1, <3>1, <3>2
  <2> QED
    BY <1>1, <2>1 DEF ForkTypes, SnapshotsKept
<1>3. OriginGrown' /\ ResultsRemain /\ PrefixRead'
  BY <1>1, OriginStays, SawStays DEF ForkInv
<1>4. ASSUME NEW r \in ForkRows PROVE InPlace(r)' /\ TurnAnswered(r)'
  <2>1. r.seq <= n /\ r.seq \in 0..(n - 1)
    BY DEF Whole
  <2>2. InPlace(r)'
    BY <1>1, <2>1, PlaceStays
  <2>3. n > 0
    BY <2>1
  <2>4. TurnAnswered(r)'
    BY <1>3, <2>3, AnswerStays DEF ForkInv
  <2> QED
    BY <2>2, <2>4
<1> QED
  BY <1>1, <1>2, <1>3, <1>4 DEF ForkRowsHold

(* The newest row is written again.                                          *)
LEMMA ChangeKeeps ==
  ASSUME ForkInv, NEW n \in Nat, n > 0, Whole(ForkRows, n), fkPc \notin {"none", "done"}, fkPc' # "none",
         NEW row, IsTurn(row), row.id = Newest(ForkRows).id, row.run = "fork", row.seq = Newest(ForkRows).seq,
         fkSteps' = InsertStep(fkSteps, row), fkRead' = fkRead, fkCall' = fkCall,
         fkSnapshots' = fkSnapshots, row.body.saw = Newest(ForkRows).body.saw, DOMAIN fkRun' = {"status", "total"},
         InPlace(row)', TurnAnswered(row)'
  PROVE  ForkRowsHold'
<1>1. /\ fkSteps' = (fkSteps \ {Newest(ForkRows)}) \union {row} /\ GoTogether(fkSteps')
      /\ OriginRows' = OriginRows /\ ForkRows' = (ForkRows \ {Newest(ForkRows)}) \union {row}
      /\ Newest(ForkRows') = row
      /\ \A k \in 0..(n - 2) : At(ForkRows', k) = At(ForkRows, k)
  BY ForkRowChanged
<1>2. Newest(ForkRows) \in ForkRows /\ Newest(ForkRows) \in fkSteps /\ Newest(ForkRows).seq = n - 1
  BY WholeNewest DEF ForkRows, StepsOfRun
<1>3. SnapshotsKept
  BY SameSnapshots DEF ForkInv
<1>4. ForkTypes'
  <2>1. ASSUME NEW r \in fkSteps'
        PROVE  IsTurn(r) /\ r.run \in {"origin", "fork"} /\ SawKnown(r.body.saw)'
    <3>1. CASE r \in fkSteps
      BY <1>3, <3>1 DEF ForkInv, ForkTypes, SnapshotsKept
    <3>2. CASE r = row
      <4>1. SawKnown(r.body.saw)
        BY <1>2, <3>2 DEF ForkInv, ForkTypes
      <4> QED
        BY <1>3, <3>2, <4>1 DEF SnapshotsKept
    <3> QED
      BY <1>1, <2>1, <3>1, <3>2
  <2> QED
    BY <1>1, <1>3, <2>1 DEF ForkTypes, SnapshotsKept
<1>5. OriginGrown' /\ ResultsRemain /\ PrefixRead'
  BY <1>1, <1>3, OriginStays, SawStays DEF ForkInv
<1>6. ASSUME NEW r \in ForkRows \ {Newest(ForkRows)} PROVE InPlace(r)' /\ TurnAnswered(r)'
  <2>1. r.seq \in 0..(n - 1) /\ r.seq # n - 1
    BY <1>2 DEF Whole
  <2>2. r.seq <= n - 1 /\ n - 1 \in Nat
    BY <2>1
  <2>3. \A k \in 0..((n - 1) - 1) : At(ForkRows', k) = At(ForkRows, k)
    <3>1. (n - 1) - 1 = n - 2
      OBVIOUS
    <3> QED
      BY <1>1, <3>1
  <2>4. InPlace(r)'
    BY <2>2, <2>3, PlaceStays
  <2>5. TurnAnswered(r)'
    BY <1>5, AnswerStays DEF ForkInv
  <2> QED
    BY <2>4, <2>5
<1> QED
  BY <1>1, <1>4, <1>5, <1>6 DEF ForkRowsHold

(* Nothing of the fork's rows is written.                                    *)
LEMMA UntouchedKeeps ==
  ASSUME ForkInv, fkSteps' = fkSteps, fkSnapshots' = fkSnapshots, fkRead' = fkRead, fkCall' = fkCall,
         fkPc # "none", fkPc' # "none", fkPc = "done" => fkPc' = "done", DOMAIN fkRun' = {"status", "total"}
  PROVE  ForkRowsHold' /\ OriginRows' = OriginRows /\ ForkRows' = ForkRows
<1>1. OriginRows' = OriginRows /\ ForkRows' = ForkRows
  BY DEF OriginRows, ForkRows
<1>2. SnapshotsKept
  BY SameSnapshots DEF ForkInv
<1>3. ForkTypes'
  BY <1>2 DEF ForkInv, ForkTypes, SnapshotsKept
<1>4. OriginGrown' /\ ResultsRemain /\ PrefixRead'
  BY <1>1, <1>2, OriginStays, SawStays DEF ForkInv
<1>5. ASSUME NEW r \in ForkRows PROVE InPlace(r)' /\ TurnAnswered(r)'
  <2>1. r.seq \in Nat
    BY DEF ForkInv, ForkTypes, IsTurn, ForkRows, StepsOfRun
  <2>2. InPlace(r)'
    BY <1>1, <2>1, PlaceStays
  <2>3. TurnAnswered(r)'
    BY <1>1, <1>4, AnswerStays DEF ForkInv
  <2> QED
    BY <2>2, <2>3
<1> QED
  BY <1>1, <1>3, <1>4, <1>5 DEF ForkRowsHold

-----------------------------------------------------------------------------
(* Where the rows are.                                                       *)
LEMMA WholePrefix ==
  ASSUME NEW rows, NEW n \in Nat, Whole(rows, n), NEW k \in 0..(n - 1)
  PROVE  Whole({r \in rows : r.seq <= k}, k + 1)
<1> DEFINE prefix == {r \in rows : r.seq <= k}
<1>1. \A r \in prefix : r.seq \in 0..k
  BY DEF Whole
<1>2. \A j \in 0..k : \E r \in prefix : r.seq = j
  <2> SUFFICES ASSUME NEW j \in 0..k PROVE \E r \in prefix : r.seq = j
    OBVIOUS
  <2>1. j \in 0..(n - 1)
    OBVIOUS
  <2>2. \E r \in rows : r.seq = j
    BY <2>1 DEF Whole
  <2> QED
    BY <2>2
<1>3. {r.seq : r \in prefix} = 0..k
  <2> HIDE DEF prefix
  <2> QED
    BY <1>1, <1>2
<1>4. \A r, s \in prefix : r.seq = s.seq => r = s
  BY DEF Whole
<1>5. k + 1 - 1 = k
  OBVIOUS
<1> QED
  BY <1>3, <1>4, <1>5 DEF Whole

LEMMA CopyIs ==
  ASSUME NEW prefix, NEW r, IsTurn(r)
  PROVE  LET copy == CopyStep(prefix, r)
         IN  /\ IsTurn(copy) /\ copy.id = <<"copy", r.seq>> /\ copy.run = "fork" /\ copy.seq = r.seq
             /\ copy.body.parent = ParentAmong(prefix, r)
             /\ copy.body.action = r.body.action /\ copy.body.outcome = r.body.outcome
             /\ copy.body.result = r.body.result /\ copy.body.saw = r.body.saw
BY DEF CopyStep, IsTurn, IsAction, IsContext

LEMMA ParentsAre ==
  ASSUME NEW prefix, NEW n \in Nat, Whole(prefix, n), NEW r \in prefix, r.seq > 0
  PROVE  ParentAmong(prefix, r) = <<"copy", r.seq - 1>>
<1> DEFINE before == {x \in prefix : x.seq < r.seq}
<1>1. r.seq \in 0..(n - 1) /\ r.seq - 1 \in 0..(n - 1)
  BY DEF Whole
<1>2. \A x \in prefix : x.seq < r.seq <=> x.seq <= r.seq - 1
  BY <1>1 DEF Whole
<1>3. before = {x \in prefix : x.seq <= r.seq - 1}
  BY <1>2
<1>4. Whole(before, r.seq)
  <2>1. r.seq - 1 + 1 = r.seq
    BY <1>1
  <2> QED
    BY <1>1, <1>3, <2>1, WholePrefix
<1> HIDE DEF before
<1>5. Newest(before).seq = r.seq - 1 /\ Newest(before) \in before
  BY <1>1, <1>4, WholeNewest
<1>6. ParentAmong(prefix, r) = <<"copy", Newest(before).seq>>
  BY <1>5 DEF ParentAmong, before
<1> QED
  BY <1>5, <1>6

LEMMA PrefixIs ==
  ASSUME ForkInv, fkPc # "none"
  PROVE  /\ ForkAt \in Nat /\ FirstOut \in Nat /\ FirstOut >= ForkAt /\ Whole(fkRead, ForkAt + 1)
         /\ Newest(fkRead) \in fkRead /\ Newest(fkRead).seq = ForkAt
         /\ \A r \in fkRead : /\ IsTurn(r) /\ r.seq \in 0..ForkAt
                              /\ SawKnown(r.body.saw) /\ ContextOf(r.body.saw) = r.body.saw
         /\ IsContext(Edited)
<1>1. /\ ForkAt \in Nat /\ Whole(fkRead, ForkAt + 1)
      /\ \A r \in fkRead : IsTurn(r) /\ SawKnown(r.body.saw)
  BY DEF ForkInv, PrefixRead
<1>2. Newest(fkRead) \in fkRead /\ Newest(fkRead).seq = ForkAt
  <2>1. ForkAt + 1 \in Nat /\ ForkAt + 1 > 0 /\ ForkAt + 1 - 1 = ForkAt
    BY <1>1
  <2> QED
    BY <1>1, <2>1, WholeNewest
<1>3. \A r \in fkRead : r.seq \in 0..ForkAt
  BY <1>1 DEF Whole
<1>4. \A r \in fkRead : ContextOf(r.body.saw) = r.body.saw
  BY <1>1, ContextIs DEF ForkInv
<1>5. IsContext(Edited)
  BY <1>1, <1>2, EditedContext DEF Edited, IsTurn
<1>6. FirstOut \in Nat /\ FirstOut >= ForkAt
  BY <1>1 DEF FirstOut
<1> QED
  BY <1>1, <1>2, <1>3, <1>4, <1>5, <1>6

LEMMA RowKinds ==
  ASSUME ForkInv, fkPc # "none", NEW r \in ForkRows
  PROVE  /\ r.seq \in Nat /\ r.id = <<r.id[1], r.seq>>
         /\ r.seq <= ForkAt => r.id[1] = "copy"
         /\ r.seq = FirstOut => r.id[1] \in {"copy", "live"} /\ r.body.saw = Edited
         /\ r.seq > FirstOut => Follows(r) /\ r.id[1] \in {"turn", "error"}
         /\ r.id[1] = "error" => fkPc = "done"
         /\ r.id[1] = "turn" => r.seq > FirstOut
<1>1. r.seq \in Nat /\ InPlace(r) /\ r.id = <<r.id[1], r.seq>>
  BY DEF ForkInv, ForkTypes, IsTurn, ForkRows, StepsOfRun, InPlace
<1>2. /\ ForkAt \in Nat /\ FirstOut \in {ForkAt, ForkAt + 1} /\ (FirstOut = ForkAt + 1 <=> fkCall.live)
      /\ \A x \in fkRead : IsTurn(x)
  BY PrefixIs DEF FirstOut
<1>3. ASSUME r.seq < ForkAt PROVE r.id[1] = "copy"
  <2>1. PICK x \in fkRead : r = CopyStep(fkRead, x)
    BY <1>1, <1>3 DEF InPlace, Copied
  <2> QED
    BY <1>2, <2>1, CopyIs
<1>4. ASSUME r.seq = ForkAt PROVE r.id[1] = "copy" /\ r.body.saw = Edited
  BY <1>1, <1>4 DEF InPlace, AtPoint
<1>5. ASSUME r.seq > ForkAt PROVE Follows(r)
  BY <1>1, <1>5 DEF InPlace
<1>6. ASSUME r.seq > ForkAt
      PROVE  /\ r.seq = FirstOut => r.id[1] = "live" /\ r.body.saw = Edited
             /\ r.seq # FirstOut => r.id[1] \in {"turn", "error"}
             /\ r.id[1] = "error" => fkPc = "done"
             /\ r.id[1] \in {"turn", "error"} => r.seq > FirstOut
  BY <1>1, <1>2, <1>5, <1>6 DEF Follows
<1> QED
  BY <1>1, <1>2, <1>3, <1>4, <1>5, <1>6

LEMMA ForkSettles ==
  ASSUME ForkRowsHold', NEW n \in Nat, Whole(ForkRows', n), Stage(n)', ForkMarked'
  PROVE  ForkInv'
<1>1. ForkGrown'
  BY DEF ForkGrown
<1> QED
  BY <1>1 DEF ForkInv, ForkRowsHold

LEMMA OpenMarked ==
  ASSUME fkPc' \in ForkPcs, fkPc' # "none", fkRun'.status \in {"none", "in_progress"}, fkIndex' \subseteq ToolIndex'
  PROVE  ForkMarked'
BY DEF ForkMarked

LEMMA IndexStays ==
  ASSUME ForkInv, OriginRows' = OriginRows
  PROVE  fkIndex \subseteq ToolIndex'
BY DEF ForkInv, ForkMarked, ToolIndex

-----------------------------------------------------------------------------
(* The origin goes on.                                                       *)
TotalOf(rows) == MapThenSumSet(LAMBDA r : r.body.usage, rows)

LEMMA OriginMoves ==
  ASSUME ForkInv, ForkTypes', OriginGrown', ResultsRemain, ForkRows' = ForkRows,
         UNCHANGED <<fkSnapshots, fkRun, fkForked, fkCall, fkPc, fkRead, fkIndex>>
  PROVE  ForkInv'
<1>1. SnapshotsKept
  BY SameSnapshots DEF ForkInv
<1>2. PrefixRead'
  BY <1>1, SawStays DEF ForkInv
<1>3. ASSUME NEW r \in ForkRows PROVE InPlace(r)' /\ TurnAnswered(r)'
  <2>1. r.seq \in Nat
    BY DEF ForkInv, ForkTypes, IsTurn, ForkRows, StepsOfRun
  <2>2. fkPc # "none"
    <3>1. PICK n \in Nat : Whole(ForkRows, n) /\ Stage(n)
      BY DEF ForkInv, ForkGrown
    <3>2. fkPc = "none" => ForkRows = {}
      BY <3>1 DEF Stage, Whole
    <3> QED
      BY <3>2
  <2>3. InPlace(r)'
    BY <2>1, <2>2, PlaceStays
  <2>4. TurnAnswered(r)'
    BY AnswerStays DEF ForkInv
  <2> QED
    BY <2>3, <2>4
<1>4. ForkGrown'
  BY DEF ForkInv, ForkGrown, Stage, FirstOut, ForkAt
<1>5. RunTotal(fkSteps', "fork") = RunTotal(fkSteps, "fork")
  <2>1. \A table : RunTotal(table, "fork") = TotalOf(StepsOfRun(table, "fork"))
    BY DEF RunTotal, TotalOf
  <2>2. StepsOfRun(fkSteps', "fork") = StepsOfRun(fkSteps, "fork")
    BY DEF ForkRows
  <2> QED
    BY <2>1, <2>2
<1>6. fkIndex' \subseteq ToolIndex'
  BY DEF ForkInv, ForkMarked, ToolIndex, ResultsRemain
<1>7. ForkMarked'
  BY <1>5, <1>6 DEF ForkInv, ForkMarked
<1> QED
  BY <1>2, <1>3, <1>4, <1>7 DEF ForkInv

LEMMA OriginResolves ==
  ASSUME ForkInv, NEW r \in OriginRows, r.body.result = NoResult, NEW row,
         IsTurn(row), row.id = r.id, row.run = "origin", row.seq = r.seq, row.body.saw = r.body.saw,
         fkSteps' = InsertStep(fkSteps, row),
         UNCHANGED <<fkSnapshots, fkRun, fkForked, fkCall, fkPc, fkRead, fkIndex>>
  PROVE  ForkInv'
<1>1. PICK m \in Nat :
        /\ Whole(OriginRows, m + 1)
        /\ \A x \in OriginRows : x.id[1] = "step" \/ x.id = <<"more", x.seq - 1>>
  BY DEF ForkInv, OriginGrown
<1>2. r \in fkSteps /\ r.run = "origin"
  BY DEF OriginRows, StepsOfRun
<1>3. fkSteps' = (fkSteps \ {r}) \union {row} /\ GoTogether(fkSteps')
  <2>1. GoTogether(fkSteps) /\ \A x \in fkSteps : x.id = r.id => x = r
    BY <1>2, ForkIds DEF ForkInv, ForkTypes
  <2>2. row.run = r.run
    BY <1>2
  <2>3. /\ InsertStep(fkSteps, row) = (fkSteps \ {r}) \union {row}
        /\ GoTogether((fkSteps \ {r}) \union {row})
    BY <1>2, <2>1, <2>2, RowIsKnown
  <2> QED
    BY <2>3
<1>4. OriginRows' = Replaced(OriginRows, r, row) /\ ForkRows' = ForkRows
  <2>1. OriginRows' = Replaced(OriginRows, r, row)
    BY <1>2, <1>3 DEF OriginRows, StepsOfRun, Replaced
  <2>2. ForkRows' = ForkRows
    BY <1>2, <1>3 DEF ForkRows, StepsOfRun
  <2> QED
    BY <2>1, <2>2
<1>5. OriginGrown'
  <2>1. Whole(OriginRows', m + 1)
    <3>1. m + 1 \in Nat
      OBVIOUS
    <3>2. Whole(Replaced(OriginRows, r, row), m + 1)
      BY <1>1, <3>1, WholeChanged
    <3> QED
      BY <1>4, <3>2
  <2>2. \A x \in OriginRows' : x.id[1] = "step" \/ x.id = <<"more", x.seq - 1>>
    BY <1>1, <1>4 DEF Replaced
  <2> QED
    BY <2>1, <2>2 DEF OriginGrown
<1>6. ForkTypes'
  <2>1. SnapshotsKept
    BY SameSnapshots DEF ForkInv
  <2>2. ASSUME NEW x \in fkSteps'
        PROVE  IsTurn(x) /\ x.run \in {"origin", "fork"} /\ SawKnown(x.body.saw)'
    <3>1. CASE x \in fkSteps
      BY <2>1, <3>1 DEF ForkInv, ForkTypes, SnapshotsKept
    <3>2. CASE x = row
      BY <1>2, <2>1, <3>2 DEF ForkInv, ForkTypes, SnapshotsKept
    <3> QED
      BY <1>3, <2>2, <3>1, <3>2
  <2>3. DOMAIN fkRun' = {"status", "total"}
    BY DEF ForkInv, ForkTypes
  <2> QED
    BY <1>3, <2>1, <2>2, <2>3 DEF ForkTypes, SnapshotsKept
<1>7. ResultsRemain
  BY <1>4 DEF ResultsRemain, Replaced
<1> QED
  BY <1>4, <1>5, <1>6, <1>7, OriginMoves

LEMMA OriginGrows ==
  ASSUME ForkInv, NEW row, row.id = <<"more", Newest(OriginRows).seq>>, row.run = "origin",
         row.seq = Newest(OriginRows).seq + 1, row.body.saw = Newest(OriginRows).body.saw, IsTurn(row),
         fkSteps' = InsertStep(fkSteps, row),
         UNCHANGED <<fkSnapshots, fkRun, fkForked, fkCall, fkPc, fkRead, fkIndex>>
  PROVE  ForkInv'
<1>1. PICK m \in Nat :
        /\ Whole(OriginRows, m + 1)
        /\ \A x \in OriginRows : x.id[1] = "step" \/ x.id = <<"more", x.seq - 1>>
  BY DEF ForkInv, OriginGrown
<1>2. Newest(OriginRows) \in OriginRows /\ Newest(OriginRows).seq = m
  <2>1. m + 1 \in Nat /\ m + 1 > 0 /\ m + 1 - 1 = m
    OBVIOUS
  <2> QED
    BY <1>1, <2>1, WholeNewest
<1>3. row.id = <<"more", m>> /\ row.seq = m + 1
  BY <1>2
<1>4. ASSUME NEW x \in fkSteps PROVE x.id # row.id /\ ~(x.run = row.run /\ x.seq = row.seq)
  <2>1. CASE x \in OriginRows
    <3>1. x.seq \in 0..m
      BY <1>1, <2>1 DEF Whole
    <3>2. x.id[1] = "step" => x.id # row.id
      BY <1>3
    <3>3. x.id = <<"more", x.seq - 1>> => x.id # row.id
      BY <1>3, <3>1
    <3> QED
      BY <1>1, <1>3, <2>1, <3>1, <3>2, <3>3
  <2>2. CASE x \in ForkRows
    <3>1. x.id[1] \in ForkKinds /\ x.run = "fork"
      BY <2>2 DEF ForkInv, InPlace, ForkRows, StepsOfRun
    <3>2. row.id[1] = "more"
      BY <1>3
    <3> QED
      BY <3>1, <3>2 DEF ForkKinds
  <2> QED
    BY <2>1, <2>2, ForkIds
<1>5. fkSteps' = fkSteps \union {row} /\ GoTogether(fkSteps')
  <2>1. GoTogether(fkSteps)
    BY DEF ForkInv, ForkTypes
  <2>2. InsertStep(fkSteps, row) = fkSteps \union {row} /\ GoTogether(fkSteps \union {row})
    BY <1>4, <2>1, RowIsNew
  <2> QED
    BY <2>2
<1>6. OriginRows' = OriginRows \union {row} /\ ForkRows' = ForkRows
  BY <1>5 DEF OriginRows, ForkRows, StepsOfRun
<1>7. OriginGrown'
  <2>1. Whole(OriginRows', (m + 1) + 1)
    <3>1. m + 1 \in Nat
      OBVIOUS
    <3>2. Whole(OriginRows \union {row}, (m + 1) + 1)
      BY <1>1, <1>3, <3>1, WholeMore
    <3> QED
      BY <1>6, <3>2
  <2>2. row.id = <<"more", row.seq - 1>>
    <3>1. m + 1 - 1 = m
      OBVIOUS
    <3> QED
      BY <1>3, <3>1
  <2>3. \A x \in OriginRows' : x.id[1] = "step" \/ x.id = <<"more", x.seq - 1>>
    BY <1>1, <1>6, <2>2
  <2> QED
    BY <2>1, <2>3 DEF OriginGrown
<1>8. ForkTypes'
  <2>1. SnapshotsKept
    BY SameSnapshots DEF ForkInv
  <2>2. Newest(OriginRows) \in fkSteps
    BY <1>2 DEF OriginRows, StepsOfRun
  <2>3. ASSUME NEW x \in fkSteps'
        PROVE  IsTurn(x) /\ x.run \in {"origin", "fork"} /\ SawKnown(x.body.saw)'
    <3>1. CASE x \in fkSteps
      BY <2>1, <3>1 DEF ForkInv, ForkTypes, SnapshotsKept
    <3>2. CASE x = row
      <4>1. SawKnown(x.body.saw)
        BY <2>2, <3>2 DEF ForkInv, ForkTypes
      <4> QED
        BY <2>1, <3>2, <4>1 DEF SnapshotsKept
    <3> QED
      BY <1>5, <2>3, <3>1, <3>2
  <2>4. DOMAIN fkRun' = {"status", "total"}
    BY DEF ForkInv, ForkTypes
  <2> QED
    BY <1>5, <2>1, <2>3, <2>4 DEF ForkTypes, SnapshotsKept
<1>9. ResultsRemain
  BY <1>6 DEF ResultsRemain
<1> QED
  BY <1>6, <1>7, <1>8, <1>9, OriginMoves

LEMMA OriginKeeps ==
  ASSUME ForkData, ForkInv, OriginStep
  PROVE  ForkInv'
<1>1. UNCHANGED <<fkSnapshots, fkRun, fkForked, fkCall, fkPc, fkRead, fkIndex>>
  BY DEF OriginStep
<1>2. ASSUME NEW r \in OriginRows, NEW result \in FkResults, r.body.result = NoResult,
             fkSteps' = InsertStep(fkSteps, [r EXCEPT !.body.outcome = "ok", !.body.result = result])
      PROVE  ForkInv'
  <2>1. PICK row : row = [r EXCEPT !.body.outcome = "ok", !.body.result = result]
    OBVIOUS
  <2>2. IsTurn(r) /\ r.run = "origin"
    BY DEF ForkInv, ForkTypes, OriginRows, StepsOfRun
  <2>3. /\ IsTurn(row) /\ row.id = r.id /\ row.run = "origin" /\ row.seq = r.seq
        /\ row.body.saw = r.body.saw
    BY <2>1, <2>2 DEF IsTurn
  <2> QED
    BY <1>1, <1>2, <2>1, <2>3, OriginResolves
<1>3. ASSUME NEW reply \in FkReplies,
             fkSteps' = InsertStep(fkSteps,
               [Newest(OriginRows) EXCEPT !.id = <<"more", Newest(OriginRows).seq>>,
                  !.seq = Newest(OriginRows).seq + 1,
                  !.body.action = Decision(reply), !.body.result = NoResult, !.body.outcome = "pending"])
      PROVE  ForkInv'
  <2>1. PICK r : r = Newest(OriginRows)
    OBVIOUS
  <2>2. PICK row : row = [r EXCEPT !.id = <<"more", r.seq>>, !.seq = r.seq + 1,
                  !.body.action = Decision(reply), !.body.result = NoResult, !.body.outcome = "pending"]
    OBVIOUS
  <2>3. r \in OriginRows
    <3>1. PICK m \in Nat : Whole(OriginRows, m + 1)
      BY DEF ForkInv, OriginGrown
    <3>2. m + 1 \in Nat /\ m + 1 > 0
      OBVIOUS
    <3> QED
      BY <2>1, <3>1, <3>2, WholeNewest
  <2>4. IsTurn(r) /\ r.run = "origin"
    BY <2>3 DEF ForkInv, ForkTypes, OriginRows, StepsOfRun
  <2>5. IsAction(Decision(reply))
    BY DecisionIs
  <2>6. /\ row.id = <<"more", r.seq>> /\ row.run = "origin" /\ row.seq = r.seq + 1
        /\ row.body.saw = r.body.saw /\ row.body.action = Decision(reply)
        /\ DOMAIN row = DOMAIN r /\ DOMAIN row.body = DOMAIN r.body
    BY <2>2, <2>4 DEF IsTurn
  <2>7. IsTurn(row)
    BY <2>4, <2>5, <2>6 DEF IsTurn
  <2> QED
    BY <1>1, <1>3, <2>1, <2>2, <2>6, <2>7, OriginGrows
<1> QED
  BY <1>2, <1>3 DEF OriginStep, OriginContinues

-----------------------------------------------------------------------------
(* forkRun.                                                                  *)
LEMMA StartKeeps ==
  ASSUME ForkInv, NEW at \in OriginRows, NEW edit, NEW live, NEW mode, StartFork(at, edit, live, mode)
  PROVE  ForkInv'
<1>1. /\ fkPc = "none" /\ fkPc' = "copy" /\ fkRun' = [status |-> "in_progress", total |-> 0]
      /\ fkSteps' = fkSteps /\ fkSnapshots' = fkSnapshots /\ fkForked' = fkForked /\ fkIndex' = fkIndex
      /\ fkRead' = {r \in OriginRows : r.seq <= at.seq}
  BY DEF StartFork
<1>2. PICK m \in Nat : Whole(OriginRows, m + 1)
  BY DEF ForkInv, OriginGrown
<1>3. PICK n \in Nat : Whole(ForkRows, n) /\ Stage(n)
  BY DEF ForkInv, ForkGrown
<1>4. n = 0 /\ ForkRows = {} /\ ~fkForked
  BY <1>1, <1>3 DEF Stage, Whole
<1>5. OriginRows' = OriginRows /\ ForkRows' = {}
  BY <1>1, <1>4 DEF OriginRows, ForkRows
<1>6. at.seq \in 0..m /\ at.seq \in Nat
  BY <1>2 DEF Whole
<1>7. Whole(fkRead', at.seq + 1)
  <2>1. m + 1 \in Nat /\ m + 1 - 1 = m
    OBVIOUS
  <2>2. Whole({r \in OriginRows : r.seq <= at.seq}, at.seq + 1)
    BY <1>2, <1>6, <2>1, WholePrefix
  <2> QED
    BY <1>1, <2>2
<1>8. ForkAt' = at.seq
  <2>1. at.seq + 1 \in Nat /\ at.seq + 1 > 0 /\ at.seq + 1 - 1 = at.seq
    BY <1>6
  <2>2. PICK k \in Nat : k = at.seq + 1
    BY <2>1
  <2>3. Newest(fkRead').seq = k - 1
    BY <1>7, <2>1, <2>2, WholeNewest
  <2> QED
    BY <1>6, <2>1, <2>2, <2>3 DEF ForkAt
<1>9. ForkTypes'
  BY <1>1 DEF ForkInv, ForkTypes, SawKnown
<1>10. PrefixRead'
  <2>1. \A r \in fkRead' : IsTurn(r) /\ SawKnown(r.body.saw)'
    BY <1>1 DEF ForkInv, ForkTypes, SawKnown, OriginRows, StepsOfRun
  <2> QED
    BY <1>6, <1>7, <1>8, <2>1 DEF PrefixRead
<1>11. ForkRowsHold'
  <2>1. OriginGrown'
    BY <1>5 DEF ForkInv, OriginGrown
  <2> QED
    BY <1>5, <1>9, <1>10, <2>1 DEF ForkRowsHold
<1>12. Stage(n)'
  BY <1>1, <1>4, <1>6, <1>8 DEF Stage
<1>13. Whole(ForkRows', n)
  BY <1>3, <1>4, <1>5
<1>14. ForkMarked'
  <2>1. fkIndex' \subseteq ToolIndex'
    BY <1>1, <1>5, IndexStays
  <2> QED
    BY <1>1, <2>1, OpenMarked DEF ForkPcs
<1> QED
  BY <1>11, <1>12, <1>13, <1>14, ForkSettles

LEMMA CopyKeeps ==
  ASSUME ForkInv, CopyPrefix
  PROVE  ForkInv'
<1> DEFINE left == {r \in fkRead \ {Newest(fkRead)} : \A c \in ForkRows : c.seq # r.seq}
<1>1. /\ fkPc = "copy" /\ fkSnapshots' = fkSnapshots /\ fkRun' = fkRun /\ fkForked' = fkForked
      /\ fkCall' = fkCall /\ fkRead' = fkRead /\ fkIndex' = fkIndex
  BY DEF CopyPrefix
<1>2. PICK n \in Nat : Whole(ForkRows, n) /\ Stage(n)
  BY DEF ForkInv, ForkGrown
<1>3. /\ ForkAt \in Nat /\ Whole(fkRead, ForkAt + 1) /\ n <= ForkAt /\ ~fkForked
      /\ Newest(fkRead) \in fkRead /\ Newest(fkRead).seq = ForkAt
      /\ \A r \in fkRead : IsTurn(r) /\ r.seq \in 0..ForkAt /\ SawKnown(r.body.saw)
  BY <1>1, <1>2, PrefixIs DEF Stage
<1>4. /\ fkRun'.status \in {"none", "in_progress"} /\ DOMAIN fkRun' = {"status", "total"}
      /\ SnapshotsKept
  BY <1>1, SameSnapshots DEF ForkInv, ForkTypes, ForkMarked
<1>5. ForkAt' = ForkAt /\ FirstOut' = FirstOut
  BY <1>1 DEF ForkAt, FirstOut
<1>6. \A r \in left : r.seq \in n..(ForkAt - 1)
  <2> SUFFICES ASSUME NEW r \in left PROVE r.seq \in n..(ForkAt - 1)
    OBVIOUS
  <2>1. r \in fkRead /\ r # Newest(fkRead) /\ \A c \in ForkRows : c.seq # r.seq
    OBVIOUS
  <2>2. r.seq # ForkAt
    BY <1>3, <2>1 DEF Whole
  <2>3. r.seq \notin 0..(n - 1)
    BY <1>2, <2>1 DEF Whole
  <2> QED
    BY <1>3, <2>1, <2>2, <2>3
<1>7. CASE left = {}
  <2>1. n = ForkAt
    <3> SUFFICES ASSUME n < ForkAt PROVE FALSE
      BY <1>3
    <3>1. n \in 0..(ForkAt + 1 - 1) /\ ForkAt + 1 \in Nat
      BY <1>3
    <3>2. At(fkRead, n) \in fkRead /\ At(fkRead, n).seq = n
      BY <1>3, <3>1, WholeAt
    <3>3. At(fkRead, n) # Newest(fkRead)
      BY <1>3, <3>2
    <3>4. \A c \in ForkRows : c.seq # n
      BY <1>2 DEF Whole
    <3>5. At(fkRead, n) \in left
      BY <3>2, <3>3, <3>4
    <3> QED
      BY <1>7, <3>5
  <2>2. fkPc' = "edit" /\ fkSteps' = fkSteps
    BY <1>7 DEF CopyPrefix
  <2>3. ForkRowsHold' /\ OriginRows' = OriginRows /\ ForkRows' = ForkRows
    BY <1>1, <1>4, <2>2, UntouchedKeeps
  <2>4. Stage(n)'
    BY <1>1, <1>3, <1>5, <2>1, <2>2 DEF Stage
  <2>5. ForkMarked'
    BY <1>1, <1>4, <2>2, <2>3, IndexStays, OpenMarked DEF ForkPcs
  <2>6. Whole(ForkRows', n)
    BY <1>2, <2>3
  <2> QED
    BY <2>3, <2>4, <2>5, <2>6, ForkSettles
<1>8. CASE left # {}
  <2>1. PICK r \in left : /\ \A l \in left : r.seq <= l.seq
                          /\ fkSteps' = InsertStep(fkSteps, CopyStep(fkRead, r))
    BY <1>8 DEF CopyPrefix
  <2>2. fkPc' = "copy"
    BY <1>1, <1>8 DEF CopyPrefix
  <2>3. r \in fkRead /\ IsTurn(r) /\ r.seq \in n..(ForkAt - 1) /\ SawKnown(r.body.saw)
    BY <1>3, <1>6
  <2>4. r.seq = n /\ n < ForkAt
    <3>1. n < ForkAt
      BY <1>2, <1>3, <2>3
    <3>2. n \in 0..(ForkAt + 1 - 1) /\ ForkAt + 1 \in Nat
      BY <1>3
    <3>3. At(fkRead, n) \in fkRead /\ At(fkRead, n).seq = n
      BY <1>3, <3>2, WholeAt
    <3>4. At(fkRead, n) # Newest(fkRead)
      BY <1>3, <3>1, <3>3
    <3>5. \A c \in ForkRows : c.seq # n
      BY <1>2 DEF Whole
    <3>6. At(fkRead, n) \in left
      BY <3>3, <3>4, <3>5
    <3>7. r.seq <= n
      BY <2>1, <3>3, <3>6
    <3> QED
      BY <1>3, <2>3, <3>1, <3>7
  <2>5. PICK row : row = CopyStep(fkRead, r)
    OBVIOUS
  <2>6. /\ IsTurn(row) /\ row.id = <<"copy", n>> /\ row.run = "fork" /\ row.seq = n
        /\ row.body.saw = r.body.saw
    BY <2>3, <2>4, <2>5, CopyIs
  <2>7. InPlace(row)'
    <3>1. Copied(row)'
      BY <1>1, <2>3, <2>5 DEF Copied
    <3>2. row.id = <<row.id[1], row.seq>> /\ row.id[1] \in ForkKinds /\ row.seq < ForkAt /\ row.seq \in Nat
      BY <2>4, <2>6 DEF ForkKinds
    <3> QED
      BY <1>3, <1>5, <3>1, <3>2 DEF InPlace
  <2>8. TurnAnswered(row)'
    BY <2>6 DEF TurnAnswered
  <2>9. n > 0 /\ Newest(ForkRows).id[1] = "turn" => IsResolved(Newest(ForkRows))
    <3> SUFFICES ASSUME n > 0, Newest(ForkRows).id[1] = "turn" PROVE FALSE
      OBVIOUS
    <3>1. Newest(ForkRows) \in ForkRows /\ Newest(ForkRows).seq = n - 1
      BY <1>2, WholeNewest
    <3>2. Newest(ForkRows).id[1] = "copy"
      BY <1>1, <1>3, <2>4, <3>1, RowKinds
    <3> QED
      BY <3>2
  <2>10. SawKnown(row.body.saw)'
    BY <1>4, <2>3, <2>6 DEF SnapshotsKept
  <2>11. "copy" \in ForkKinds
    BY DEF ForkKinds
  <2>12. fkSteps' = InsertStep(fkSteps, row)
    BY <2>1, <2>5
  <2>13. ForkRowsHold'
    BY <1>1, <1>2, <1>4, <2>2, <2>6, <2>7, <2>8, <2>9, <2>10, <2>11, <2>12, PutKeeps
  <2>14. Whole(ForkRows', n + 1) /\ OriginRows' = OriginRows
    BY <1>2, <2>6, <2>11, <2>12, ForkRowPut
  <2>15. Stage(n + 1)'
    BY <1>1, <1>3, <1>5, <2>2, <2>4 DEF Stage
  <2>16. ForkMarked'
    BY <1>1, <1>4, <2>2, <2>14, IndexStays, OpenMarked DEF ForkPcs
  <2> QED
    BY <2>13, <2>14, <2>15, <2>16, ForkSettles
<1> QED
  BY <1>7, <1>8


LEMMA PointKeeps ==
  ASSUME ForkInv, PlaceForkPoint
  PROVE  ForkInv'
<1>1. /\ fkPc = "edit" /\ fkRead' = fkRead /\ fkCall' = fkCall /\ fkIndex' = fkIndex
      /\ fkForked' = TRUE /\ fkPc' = After("edit") /\ fkRun' = Settled("in_progress", fkSteps')
  BY DEF PlaceForkPoint, RecordFork
<1>2. PICK n \in Nat : Whole(ForkRows, n) /\ Stage(n)
  BY DEF ForkInv, ForkGrown
<1>3. n = ForkAt
  BY <1>1, <1>2 DEF Stage
<1>4. /\ ForkAt \in Nat /\ Whole(fkRead, ForkAt + 1)
      /\ Newest(fkRead) \in fkRead /\ Newest(fkRead).seq = ForkAt /\ IsContext(Edited)
      /\ \A r \in fkRead : IsTurn(r) /\ SawKnown(r.body.saw) /\ ContextOf(r.body.saw) = r.body.saw
  BY <1>1, PrefixIs
<1>5. PICK old : old = Newest(fkRead)
  OBVIOUS
<1>6. PICK edited : edited = Edited
  OBVIOUS
<1>7. /\ IsTurn(ForkPoint) /\ ForkPoint.id = <<"copy", n>> /\ ForkPoint.run = "fork" /\ ForkPoint.seq = n
      /\ ForkPoint.body.parent = ParentAmong(fkRead, old) /\ ForkPoint.body.saw = old.body.saw
  <2>1. IsTurn(old) /\ old.seq = n /\ ForkPoint = CopyStep(fkRead, old)
    BY <1>3, <1>4, <1>5 DEF ForkPoint
  <2> QED
    BY <2>1, CopyIs
<1>8. RewriteSnapshot(ContextOf(ForkPoint.body.saw), fkCall.edit) = edited
  BY <1>4, <1>5, <1>6, <1>7 DEF Edited
<1>9. PICK point : point = ForkPoint
  OBVIOUS
<1>10. PICK row : row = [point EXCEPT !.body.saw = edited, !.body.outcome = "pending",
                           !.body.result = NoResult, !.body.status = "in_progress"]
  OBVIOUS
<1>11. fkSnapshots' = RecordSnapshot(fkSnapshots, edited, edited) /\ fkSteps' = InsertStep(fkSteps, row)
  BY <1>8, <1>9, <1>10 DEF PlaceForkPoint
<1>12. /\ row.id = <<"copy", n>> /\ row.run = "fork" /\ row.seq = n /\ row.body.saw = edited
       /\ row.body.parent = ParentAmong(fkRead, old) /\ row.body.action = point.body.action
       /\ DOMAIN row = DOMAIN point /\ DOMAIN row.body = DOMAIN point.body
  BY <1>7, <1>9, <1>10 DEF IsTurn
<1>13. IsTurn(row)
  BY <1>4, <1>6, <1>7, <1>9, <1>12 DEF IsTurn
<1>14. SnapshotsKept /\ SawKnown(row.body.saw)'
  BY <1>11, <1>12, RecordKeeps DEF ForkInv, SawKnown
<1>15. ForkAt' = ForkAt /\ FirstOut' = FirstOut /\ Edited' = Edited
  BY <1>1 DEF ForkAt, FirstOut, Edited
<1>16. InPlace(row)'
  <2>1. row.id = <<row.id[1], row.seq>> /\ row.id[1] \in ForkKinds
    BY <1>12 DEF ForkKinds
  <2>2. AtPoint(row)'
    <3>1. row.id = <<"copy", ForkAt'>> /\ row.body.saw = Edited'
      BY <1>3, <1>6, <1>12, <1>15
    <3>2. row.body.parent = ParentAmong(fkRead', Newest(fkRead'))
      BY <1>1, <1>5, <1>12
    <3> QED
      BY <3>1, <3>2 DEF AtPoint
  <2>3. ~(row.seq < ForkAt') /\ ~(row.seq > ForkAt')
    BY <1>3, <1>12, <1>15
  <2> QED
    BY <2>1, <2>2, <2>3 DEF InPlace
<1>17. TurnAnswered(row)'
  BY <1>12 DEF TurnAnswered
<1>18. n > 0 /\ Newest(ForkRows).id[1] = "turn" => IsResolved(Newest(ForkRows))
  <2> SUFFICES ASSUME n > 0, Newest(ForkRows).id[1] = "turn" PROVE FALSE
    OBVIOUS
  <2>1. Newest(ForkRows) \in ForkRows /\ Newest(ForkRows).seq = n - 1
    BY <1>2, WholeNewest
  <2>2. Newest(ForkRows).id[1] = "copy"
    BY <1>1, <1>3, <2>1, RowKinds
  <2> QED
    BY <2>2
<1>19. "copy" \in ForkKinds
  BY DEF ForkKinds
<1>20. fkPc' \in {"live", "continue", "done"} /\ (fkPc' = "live" <=> fkCall.live)
  BY <1>1 DEF After
<1>21. DOMAIN fkRun' = {"status", "total"} /\ fkRun'.status = "in_progress"
  BY <1>1 DEF Settled
<1>22. ForkRowsHold'
  BY <1>1, <1>2, <1>11, <1>12, <1>13, <1>14, <1>16, <1>17, <1>18, <1>19, <1>20, <1>21, PutKeeps
<1>23. Whole(ForkRows', n + 1) /\ OriginRows' = OriginRows
  BY <1>2, <1>11, <1>12, <1>19, ForkRowPut
<1>24. Stage(n + 1)'
  <2>1. FirstOut' = IF fkCall.live THEN n + 1 ELSE n
    BY <1>3, <1>15 DEF FirstOut
  <2>2. n + 1 > ForkAt' /\ fkForked' = TRUE /\ ForkAt' = n
    BY <1>1, <1>3, <1>15
  <2> QED
    BY <1>1, <1>20, <2>1, <2>2 DEF Stage
<1>25. ForkMarked'
  BY <1>1, <1>20, <1>21, <1>23, IndexStays, OpenMarked DEF ForkPcs
<1> QED
  BY <1>22, <1>23, <1>24, <1>25, ForkSettles

LEMMA LiveKeeps ==
  ASSUME ForkData, ForkInv, NEW reply \in FkReplies, LiveSuffix(reply)
  PROVE  ForkInv'
<1>1. /\ fkPc = "live" /\ fkRead' = fkRead /\ fkCall' = fkCall /\ fkIndex' = fkIndex
      /\ fkForked' = fkForked /\ fkPc' = After("live")
      /\ fkRun' = [fkRun EXCEPT !.total = RunTotal(fkSteps', "fork")]
  BY DEF LiveSuffix
<1>2. PICK n \in Nat : Whole(ForkRows, n) /\ Stage(n)
  BY DEF ForkInv, ForkGrown
<1>3. ForkAt \in Nat /\ n = ForkAt + 1 /\ fkCall.live /\ fkForked
  BY <1>1, <1>2, PrefixIs DEF Stage
<1>4. PICK last : last = Newest(ForkRows)
  OBVIOUS
<1>5. last \in ForkRows /\ last.seq = n - 1 /\ last = At(ForkRows, n - 1)
  BY <1>2, <1>3, <1>4, WholeNewest
<1>6. last \in fkSteps /\ IsTurn(last) /\ SawKnown(last.body.saw)
  BY <1>5 DEF ForkInv, ForkTypes, ForkRows, StepsOfRun
<1>7. last.body.saw = Edited
  BY <1>1, <1>3, <1>5 DEF ForkInv, InPlace, AtPoint
<1>8. Cardinality(ForkRows) = n
  BY <1>2, WholeSize
<1>9. PICK row : row = NewStep("live", n, LiveAnswer(reply), "ok", last.body.saw, last.id, {})
  OBVIOUS
<1>10. /\ fkSnapshots' = RecordSnapshot(fkSnapshots, last.body.saw, NoContext)
       /\ fkSteps' = InsertStep(fkSteps, row)
  BY <1>4, <1>8, <1>9 DEF LiveSuffix
<1>11. /\ row.id = <<"live", n>> /\ row.run = "fork" /\ row.seq = n /\ row.body.saw = last.body.saw
       /\ row.body.parent = last.id /\ IsTurn(row)
  <2>1. IsAction(LiveAnswer(reply))
    BY DecisionIs
  <2> QED
    BY <1>6, <1>9, <2>1 DEF NewStep, IsTurn
<1>12. SnapshotsKept /\ SawKnown(row.body.saw)'
  BY <1>6, <1>10, <1>11, RecordKeeps DEF ForkInv, SnapshotsKept
<1>13. ForkAt' = ForkAt /\ FirstOut' = FirstOut /\ Edited' = Edited /\ FirstOut = n
  BY <1>1, <1>3 DEF ForkAt, FirstOut, Edited
<1>14. "live" \in ForkKinds
  BY DEF ForkKinds
<1>15. /\ Whole(ForkRows', n + 1) /\ OriginRows' = OriginRows
       /\ \A k \in 0..(n - 1) : At(ForkRows', k) = At(ForkRows, k)
  BY <1>2, <1>10, <1>11, <1>14, ForkRowPut
<1>16. InPlace(row)'
  <2>1. row.id = <<row.id[1], row.seq>> /\ row.id[1] = "live"
    BY <1>11
  <2>2. At(ForkRows', row.seq - 1) = last
    BY <1>3, <1>5, <1>11, <1>15
  <2>3. Follows(row)'
    BY <1>1, <1>3, <1>7, <1>11, <1>13, <2>1, <2>2 DEF Follows
  <2>4. ~(row.seq < ForkAt') /\ ~(row.seq = ForkAt')
    BY <1>3, <1>11, <1>13
  <2> QED
    BY <1>14, <2>1, <2>3, <2>4 DEF InPlace
<1>17. TurnAnswered(row)'
  BY <1>11 DEF TurnAnswered
<1>18. n > 0 /\ Newest(ForkRows).id[1] = "turn" => IsResolved(Newest(ForkRows))
  <2>1. last.id[1] = "copy"
    BY <1>1, <1>3, <1>5, RowKinds
  <2> QED
    BY <1>4, <2>1
<1>19. fkPc' \in {"continue", "done"}
  BY <1>1 DEF After
<1>20. DOMAIN fkRun' = {"status", "total"} /\ fkRun'.status \in {"none", "in_progress"}
  BY <1>1 DEF ForkInv, ForkTypes, ForkMarked
<1>21. ForkRowsHold'
  BY <1>1, <1>2, <1>10, <1>11, <1>12, <1>14, <1>16, <1>17, <1>18, <1>19, <1>20, PutKeeps
<1>22. Stage(n + 1)'
  BY <1>1, <1>3, <1>13, <1>19 DEF Stage
<1>23. ForkMarked'
  BY <1>1, <1>15, <1>19, <1>20, IndexStays, OpenMarked DEF ForkPcs
<1> QED
  BY <1>15, <1>21, <1>22, <1>23, ForkSettles

-----------------------------------------------------------------------------
(* continueFork.                                                             *)
LEMMA ContinueKeeps ==
  ASSUME ForkInv, StartContinuation
  PROVE  ForkInv'
<1>1. /\ fkPc = "continue" /\ fkPc' = "call" /\ fkRead' = fkRead /\ fkCall' = fkCall
      /\ fkSteps' = fkSteps /\ fkSnapshots' = fkSnapshots /\ fkRun' = fkRun /\ fkForked' = fkForked
      /\ fkIndex' \subseteq ToolIndex
  BY DEF StartContinuation
<1>2. PICK n \in Nat : Whole(ForkRows, n) /\ Stage(n)
  BY DEF ForkInv, ForkGrown
<1>3. /\ fkRun'.status \in {"none", "in_progress"} /\ DOMAIN fkRun' = {"status", "total"}
  BY <1>1 DEF ForkInv, ForkTypes, ForkMarked
<1>4. ForkRowsHold' /\ OriginRows' = OriginRows /\ ForkRows' = ForkRows
  BY <1>1, <1>3, UntouchedKeeps
<1>5. /\ FirstOut \in Nat /\ ForkAt \in Nat /\ FirstOut >= ForkAt /\ n = FirstOut + 1
      /\ FirstOut' = FirstOut /\ ForkAt' = ForkAt
  <2>1. FirstOut' = FirstOut /\ ForkAt' = ForkAt
    BY <1>1 DEF FirstOut, ForkAt
  <2> QED
    BY <1>1, <1>2, <2>1, PrefixIs DEF Stage
<1>6. Newest(ForkRows).id[1] # "turn"
  <2>1. Newest(ForkRows) \in ForkRows /\ Newest(ForkRows).seq = FirstOut
    BY <1>2, <1>5, WholeNewest
  <2> QED
    BY <1>1, <2>1, RowKinds
<1>7. Stage(n)'
  <2>1. Newest(ForkRows').id[1] # "turn"
    BY <1>4, <1>6
  <2>2. fkForked' <=> n > ForkAt'
    BY <1>1, <1>2, <1>5 DEF Stage
  <2> QED
    BY <1>1, <1>5, <2>1, <2>2 DEF Stage
<1>8. ForkMarked'
  <2>1. fkIndex' \subseteq ToolIndex'
    BY <1>1, <1>4 DEF ToolIndex
  <2> QED
    BY <1>1, <1>3, <2>1, OpenMarked DEF ForkPcs
<1>9. Whole(ForkRows', n)
  BY <1>2, <1>4
<1> QED
  BY <1>4, <1>7, <1>8, <1>9, ForkSettles

(* The newest row when the model is called, and when its call is resolved.    *)
LEMMA PriorIs ==
  ASSUME ForkInv, fkPc \in {"call", "resolve", "complete"}
  PROVE  \E n \in Nat :
           /\ Whole(ForkRows, n) /\ Stage(n) /\ n > FirstOut /\ n > 0
           /\ FirstOut \in Nat /\ ForkAt \in Nat /\ FirstOut >= ForkAt
           /\ Newest(ForkRows) \in ForkRows /\ Newest(ForkRows) = At(ForkRows, n - 1)
           /\ Newest(ForkRows).seq = n - 1 /\ IsTurn(Newest(ForkRows)) /\ Newest(ForkRows).run = "fork"
           /\ Newest(ForkRows).id = <<Newest(ForkRows).id[1], n - 1>>
           /\ SawKnown(Newest(ForkRows).body.saw)
           /\ Newest(ForkRows).id[1] # "error"
           /\ fkPc # "call" => Newest(ForkRows).id[1] = "turn" /\ n > FirstOut + 1
           /\ fkForked
<1>1. PICK n \in Nat : Whole(ForkRows, n) /\ Stage(n)
  BY DEF ForkInv, ForkGrown
<1>2. FirstOut \in Nat /\ ForkAt \in Nat /\ FirstOut >= ForkAt
  BY PrefixIs
<1>3. n > FirstOut /\ n > 0 /\ (fkPc # "call" => n > FirstOut + 1)
  BY <1>1, <1>2 DEF Stage
<1>4. PICK last : last = Newest(ForkRows)
  OBVIOUS
<1>5. last \in ForkRows /\ last.seq = n - 1 /\ last = At(ForkRows, n - 1)
  BY <1>1, <1>3, <1>4, WholeNewest
<1>6. last \in fkSteps /\ IsTurn(last) /\ SawKnown(last.body.saw) /\ last.run = "fork"
  BY <1>5 DEF ForkInv, ForkTypes, ForkRows, StepsOfRun
<1>7. /\ last.id = <<last.id[1], n - 1>> /\ last.id[1] # "error"
      /\ n - 1 > FirstOut => last.id[1] = "turn"
  <2>1. fkPc \notin {"none", "done"}
    OBVIOUS
  <2>2. /\ last.id = <<last.id[1], last.seq>> /\ (last.id[1] = "error" => fkPc = "done")
        /\ last.seq > FirstOut => last.id[1] \in {"turn", "error"}
    BY <1>5, <2>1, RowKinds
  <2> QED
    BY <1>5, <2>1, <2>2
<1>8. fkForked
  BY <1>1, <1>2, <1>3 DEF Stage
<1>9. fkPc # "call" => last.id[1] = "turn" /\ n > FirstOut + 1
  BY <1>2, <1>3, <1>7
<1> QED
  BY <1>1, <1>2, <1>3, <1>4, <1>5, <1>6, <1>7, <1>8, <1>9

LEMMA AnswerKeeps ==
  ASSUME ForkData, ForkInv, NEW reply \in FkReplies, ModelAnswers(reply)
  PROVE  ForkInv'
<1>1. /\ fkPc = "call" /\ fkRead' = fkRead /\ fkCall' = fkCall /\ fkIndex' = fkIndex
      /\ fkForked' = fkForked /\ fkRun' = fkRun
      /\ fkPc' = IF IsCall(Decision(reply)) THEN "resolve" ELSE "complete"
  BY DEF ModelAnswers
<1>2. PICK prior : prior = Newest(ForkRows)
  OBVIOUS
<1>3. PICK n \in Nat :
        /\ Whole(ForkRows, n) /\ Stage(n) /\ n > FirstOut /\ n > 0
        /\ FirstOut \in Nat /\ ForkAt \in Nat /\ FirstOut >= ForkAt
        /\ prior \in ForkRows /\ prior = At(ForkRows, n - 1) /\ prior.seq = n - 1 /\ IsTurn(prior)
        /\ SawKnown(prior.body.saw) /\ prior.id[1] # "error" /\ fkForked
  BY <1>1, <1>2, PriorIs
<1>4. AssembleHistory(prior) = AfterTurn(prior.body) /\ IsContext(AfterTurn(prior.body))
  <2>1. ContextOf(prior.body.saw) = prior.body.saw
    BY <1>3, ContextIs DEF ForkInv
  <2>2. IsContext(AfterTurn(prior.body))
    BY <1>3, NextContext DEF IsTurn
  <2> QED
    BY <2>1, <2>2 DEF AssembleHistory, AfterTurn
<1>5. PICK context : context = AfterTurn(prior.body)
  OBVIOUS
<1>6. PICK row : row = NewStep("turn", n, Decision(reply), "pending", context, prior.id, {})
  OBVIOUS
<1>7. fkSnapshots' = RecordSnapshot(fkSnapshots, context, context) /\ fkSteps' = InsertStep(fkSteps, row)
  <2>1. prior.seq + 1 = n
    BY <1>3
  <2> QED
    BY <1>2, <1>4, <1>5, <1>6, <2>1 DEF ModelAnswers
<1>8. /\ row.id = <<"turn", n>> /\ row.run = "fork" /\ row.seq = n /\ row.body.saw = context
      /\ row.body.parent = prior.id /\ row.body.action = Decision(reply) /\ row.body.result = NoResult
      /\ IsTurn(row)
  <2>1. IsAction(Decision(reply))
    BY DecisionIs
  <2>2. IsContext(context)
    BY <1>4, <1>5
  <2> QED
    BY <1>6, <2>1, <2>2 DEF NewStep, IsTurn
<1>9. SnapshotsKept /\ SawKnown(row.body.saw)'
  BY <1>7, <1>8, RecordKeeps DEF ForkInv, SawKnown
<1>10. ForkAt' = ForkAt /\ FirstOut' = FirstOut
  BY <1>1 DEF ForkAt, FirstOut
<1>11. "turn" \in ForkKinds
  BY DEF ForkKinds
<1>12. /\ Whole(ForkRows', n + 1) /\ OriginRows' = OriginRows /\ Newest(ForkRows') = row
       /\ \A k \in 0..(n - 1) : At(ForkRows', k) = At(ForkRows, k)
  BY <1>3, <1>7, <1>8, <1>11, ForkRowPut
<1>13. InPlace(row)'
  <2>1. row.id = <<row.id[1], row.seq>> /\ row.id[1] = "turn"
    BY <1>8
  <2>2. At(ForkRows', row.seq - 1) = prior
    BY <1>3, <1>8, <1>12
  <2>3. Follows(row)'
    BY <1>3, <1>5, <1>8, <1>10, <2>1, <2>2 DEF Follows
  <2>4. ~(row.seq < ForkAt') /\ ~(row.seq = ForkAt')
    BY <1>3, <1>8, <1>10
  <2> QED
    BY <1>11, <2>1, <2>3, <2>4 DEF InPlace
<1>14. TurnAnswered(row)'
  BY <1>8, <1>12 DEF TurnAnswered
<1>15. n > 0 /\ Newest(ForkRows).id[1] = "turn" => IsResolved(Newest(ForkRows))
  BY <1>1, <1>3 DEF Stage
<1>16. /\ fkPc' \in {"resolve", "complete"}
       /\ fkPc' = "resolve" => IsCall(row.body.action)
       /\ fkPc' = "complete" => row.body.action.kind = "message"
  BY <1>1, <1>8, DecisionIs
<1>17. DOMAIN fkRun' = {"status", "total"} /\ fkRun'.status \in {"none", "in_progress"}
  BY <1>1 DEF ForkInv, ForkTypes, ForkMarked
<1>18. ForkRowsHold'
  BY <1>1, <1>3, <1>7, <1>8, <1>9, <1>11, <1>13, <1>14, <1>15, <1>16, <1>17, PutKeeps
<1>19. Stage(n + 1)'
  <2>1. n + 1 > FirstOut' /\ n + 1 > FirstOut' + 1 /\ n + 1 > ForkAt'
    BY <1>3, <1>10
  <2> QED
    BY <1>1, <1>3, <1>12, <1>16, <2>1 DEF Stage
<1>20. ForkMarked'
  BY <1>1, <1>12, <1>16, <1>17, IndexStays, OpenMarked DEF ForkPcs
<1>21. n + 1 \in Nat
  OBVIOUS
<1> QED
  BY <1>12, <1>18, <1>19, <1>20, <1>21, ForkSettles

LEMMA ThrowKeeps ==
  ASSUME ForkInv, ModelThrows
  PROVE  ForkInv'
<1>1. /\ fkPc = "call" /\ fkRead' = fkRead /\ fkCall' = fkCall /\ fkIndex' = fkIndex
      /\ fkForked' = fkForked /\ fkRun' = fkRun /\ fkPc' = "done"
      /\ fkSnapshots' = RecordSnapshot(fkSnapshots, NoContext, NoContext)
  BY DEF ModelThrows
<1>2. PICK prior : prior = Newest(ForkRows)
  OBVIOUS
<1>3. PICK n \in Nat :
        /\ Whole(ForkRows, n) /\ Stage(n) /\ n > FirstOut /\ n > 0
        /\ FirstOut \in Nat /\ ForkAt \in Nat /\ FirstOut >= ForkAt
        /\ prior \in ForkRows /\ prior = At(ForkRows, n - 1) /\ prior.seq = n - 1 /\ fkForked
  BY <1>1, <1>2, PriorIs
<1>4. PICK none : none = [kind |-> "none", tool |-> "none", input |-> "none"]
  OBVIOUS
<1>5. PICK row : row = NewStep("error", n, none, "error", NoContext, prior.id, {"model_error"})
  OBVIOUS
<1>6. fkSteps' = InsertStep(fkSteps, row)
  <2>1. prior.seq + 1 = n
    BY <1>3
  <2> QED
    BY <1>2, <1>4, <1>5, <2>1 DEF ModelThrows
<1>7. IsContext(NoContext)
  <2>1. <<>> \in Seq({})
    OBVIOUS
  <2> QED
    BY <2>1, SequencesAre DEF NoContext, IsContext
<1>8. /\ row.id = <<"error", n>> /\ row.run = "fork" /\ row.seq = n /\ row.body.saw = NoContext
      /\ row.body.parent = prior.id /\ IsTurn(row)
  <2>1. IsAction(none)
    BY <1>4 DEF IsAction
  <2> QED
    BY <1>5, <1>7, <2>1 DEF NewStep, IsTurn
<1>9. SnapshotsKept /\ SawKnown(row.body.saw)'
  BY <1>1, <1>8, RecordKeeps DEF ForkInv, SawKnown
<1>10. ForkAt' = ForkAt /\ FirstOut' = FirstOut
  BY <1>1 DEF ForkAt, FirstOut
<1>11. "error" \in ForkKinds
  BY DEF ForkKinds
<1>12. /\ Whole(ForkRows', n + 1) /\ OriginRows' = OriginRows
       /\ \A k \in 0..(n - 1) : At(ForkRows', k) = At(ForkRows, k)
  BY <1>3, <1>6, <1>8, <1>11, ForkRowPut
<1>13. InPlace(row)'
  <2>1. row.id = <<row.id[1], row.seq>> /\ row.id[1] = "error"
    BY <1>8
  <2>2. At(ForkRows', row.seq - 1) = prior
    BY <1>3, <1>8, <1>12
  <2>3. Follows(row)'
    BY <1>1, <1>3, <1>8, <1>10, <2>1, <2>2 DEF Follows
  <2>4. ~(row.seq < ForkAt') /\ ~(row.seq = ForkAt')
    BY <1>3, <1>8, <1>10
  <2> QED
    BY <1>11, <2>1, <2>3, <2>4 DEF InPlace
<1>14. TurnAnswered(row)'
  BY <1>8 DEF TurnAnswered
<1>15. n > 0 /\ Newest(ForkRows).id[1] = "turn" => IsResolved(Newest(ForkRows))
  BY <1>1, <1>3 DEF Stage
<1>16. DOMAIN fkRun' = {"status", "total"} /\ fkRun'.status \in {"none", "in_progress"}
  BY <1>1 DEF ForkInv, ForkTypes, ForkMarked
<1>17. ForkRowsHold'
  BY <1>1, <1>3, <1>6, <1>8, <1>9, <1>11, <1>13, <1>14, <1>15, <1>16, PutKeeps
<1>18. Stage(n + 1)'
  <2>1. n + 1 > ForkAt'
    BY <1>3, <1>10
  <2> QED
    BY <1>1, <1>3, <2>1 DEF Stage
<1>19. ForkMarked'
  BY <1>1, <1>12, <1>16, IndexStays, OpenMarked DEF ForkPcs
<1>20. n + 1 \in Nat
  OBVIOUS
<1> QED
  BY <1>12, <1>17, <1>18, <1>19, <1>20, ForkSettles

(* The process goes on or stops, and no row changes.                         *)
LEMMA EndKeeps ==
  ASSUME ForkInv, ModelCompletes \/ ForkStops
  PROVE  ForkInv'
<1>1. /\ fkPc \notin {"none", "done"} /\ fkPc' = "done" /\ fkRead' = fkRead /\ fkCall' = fkCall
      /\ fkSteps' = fkSteps /\ fkSnapshots' = fkSnapshots /\ fkForked' = fkForked /\ fkIndex' = fkIndex
      /\ fkRun' = fkRun \/ (fkPc = "complete" /\ fkRun' = Settled("ok", fkSteps))
  BY DEF ModelCompletes, ForkStops
<1>2. PICK n \in Nat : Whole(ForkRows, n) /\ Stage(n)
  BY DEF ForkInv, ForkGrown
<1>3. DOMAIN fkRun' = {"status", "total"}
  BY <1>1 DEF ForkInv, ForkTypes, Settled
<1>4. ForkRowsHold' /\ OriginRows' = OriginRows /\ ForkRows' = ForkRows
  BY <1>1, <1>3, UntouchedKeeps
<1>5. Stage(n)'
  <2>1. ForkAt' = ForkAt
    BY <1>1 DEF ForkAt
  <2> QED
    BY <1>1, <1>2, <2>1 DEF Stage
<1>6. ForkMarked'
  <2>1. fkIndex' \subseteq ToolIndex'
    BY <1>1, <1>4, IndexStays
  <2>2. CASE fkRun' = fkRun
    BY <1>1, <2>1, <2>2, OpenMarked DEF ForkInv, ForkMarked, ForkPcs
  <2>3. CASE fkPc = "complete" /\ fkRun' = Settled("ok", fkSteps)
    <3>1. Newest(ForkRows').body.action.kind = "message"
      BY <1>2, <1>4, <2>3 DEF Stage
    <3>2. fkRun'.status = "ok" /\ fkRun'.total = RunTotal(fkSteps', "fork")
      BY <1>1, <2>3 DEF Settled
    <3> QED
      BY <1>1, <2>1, <3>1, <3>2 DEF ForkMarked, ForkPcs
  <2> QED
    BY <1>1, <2>2, <2>3
<1>7. Whole(ForkRows', n)
  BY <1>2, <1>4
<1> QED
  BY <1>4, <1>5, <1>6, <1>7, ForkSettles

LEMMA TurnRewritten ==
  ASSUME ForkInv, fkPc = "resolve", fkPc' # "none", NEW row, IsTurn(row),
         row.id = Newest(ForkRows).id, row.run = "fork", row.seq = Newest(ForkRows).seq,
         row.body.saw = Newest(ForkRows).body.saw, row.body.parent = Newest(ForkRows).body.parent,
         row.body.action = Newest(ForkRows).body.action,
         fkCall.mode = "simulate" /\ row.body.result # NoResult =>
           \E o \in OriginRows : o.body.action = row.body.action /\ o.body.result = row.body.result,
         fkSteps' = InsertStep(fkSteps, row),
         UNCHANGED <<fkSnapshots, fkRead, fkCall>>, DOMAIN fkRun' = {"status", "total"}
  PROVE  /\ ForkRowsHold' /\ OriginRows' = OriginRows /\ Newest(ForkRows') = row
         /\ \E n \in Nat : Whole(ForkRows', n) /\ n > FirstOut' /\ n > ForkAt'
         /\ row.id[1] = "turn" /\ IsCall(row.body.action) /\ fkForked
<1>1. PICK last : last = Newest(ForkRows)
  OBVIOUS
<1>2. PICK n \in Nat :
        /\ Whole(ForkRows, n) /\ Stage(n) /\ n > FirstOut + 1 /\ n > 0
        /\ FirstOut \in Nat /\ ForkAt \in Nat /\ FirstOut >= ForkAt
        /\ last \in ForkRows /\ last.seq = n - 1 /\ IsTurn(last)
        /\ last.id = <<last.id[1], n - 1>> /\ last.id[1] = "turn" /\ fkForked
  BY <1>1, PriorIs
<1>3. /\ Whole(ForkRows', n) /\ OriginRows' = OriginRows /\ Newest(ForkRows') = row
      /\ \A k \in 0..(n - 2) : At(ForkRows', k) = At(ForkRows, k)
  BY <1>2, ForkRowChanged
<1>4. ForkAt' = ForkAt /\ FirstOut' = FirstOut
  BY DEF ForkAt, FirstOut
<1>5. /\ row.id = <<"turn", n - 1>> /\ row.seq = n - 1 /\ row.body.saw = last.body.saw
      /\ row.body.parent = last.body.parent
  BY <1>1, <1>2
<1>6. Follows(last)
  BY <1>2, RowKinds
<1>7. InPlace(row)'
  <2>1. row.id = <<row.id[1], row.seq>> /\ row.id[1] = "turn" /\ "turn" \in ForkKinds
    BY <1>5 DEF ForkKinds
  <2>2. /\ last.body.parent = At(ForkRows, n - 2).id /\ At(ForkRows, n - 2).id[1] # "error"
        /\ last.body.saw = AfterTurn(At(ForkRows, n - 2).body)
    <3>1. last.seq - 1 = n - 2
      BY <1>2
    <3> QED
      BY <1>2, <1>6, <3>1 DEF Follows
  <2>3. At(ForkRows', row.seq - 1) = At(ForkRows, n - 2)
    <3>1. row.seq - 1 = n - 2 /\ n - 2 \in 0..(n - 2)
      BY <1>2, <1>5
    <3> QED
      BY <1>3, <3>1
  <2>4. row.seq > FirstOut'
    BY <1>2, <1>4, <1>5
  <2>5. Follows(row)'
    BY <1>5, <2>1, <2>2, <2>3, <2>4 DEF Follows
  <2>6. ~(row.seq < ForkAt') /\ ~(row.seq = ForkAt')
    BY <1>2, <1>4, <1>5
  <2> QED
    BY <2>1, <2>5, <2>6 DEF InPlace
<1>8. TurnAnswered(row)'
  BY <1>3 DEF TurnAnswered
<1>9. ForkRowsHold'
  BY <1>2, <1>7, <1>8, ChangeKeeps
<1>10. IsCall(row.body.action)
  BY <1>2 DEF Stage
<1>11. n > FirstOut' /\ n > ForkAt'
  BY <1>2, <1>4
<1>12. row.id[1] = "turn"
  BY <1>5
<1> QED
  BY <1>2, <1>3, <1>9, <1>10, <1>11, <1>12

LEMMA RunMarked ==
  ASSUME fkPc' = "done", fkIndex' \subseteq ToolIndex', NEW status \in {"in_progress", "error"},
         fkRun' = Settled(status, fkSteps'), status = "error" => Newest(ForkRows').body.outcome = "error"
  PROVE  ForkMarked' /\ DOMAIN fkRun' = {"status", "total"}
BY DEF ForkMarked, Settled, ForkPcs

LEMMA SettledIs == \A status, table : DOMAIN Settled(status, table) = {"status", "total"}
BY DEF Settled

LEMMA MissKeeps ==
  ASSUME ForkInv, SimulateMiss
  PROVE  ForkInv'
<1>1. /\ fkPc = "resolve" /\ fkPc' = "done" /\ fkRun' = Settled("in_progress", fkSteps')
      /\ UNCHANGED <<fkSnapshots, fkForked, fkCall, fkRead, fkIndex>>
  BY DEF SimulateMiss
<1>2. PICK last : last = Newest(ForkRows)
  OBVIOUS
<1>3. IsTurn(last) /\ last.run = "fork" /\ last \in ForkRows
  BY <1>1, <1>2, PriorIs
<1>4. PICK row : row = [last EXCEPT !.body.tags = last.body.tags \union {"simulate_miss"}]
  OBVIOUS
<1>5. fkSteps' = InsertStep(fkSteps, row)
  BY <1>2, <1>3, <1>4 DEF SimulateMiss, IsTurn
<1>6. /\ IsTurn(row) /\ row.id = last.id /\ row.run = "fork" /\ row.seq = last.seq
      /\ row.body.saw = last.body.saw /\ row.body.parent = last.body.parent
      /\ row.body.action = last.body.action /\ row.body.result = last.body.result
  BY <1>3, <1>4 DEF IsTurn
<1>7. fkCall.mode = "simulate" /\ row.body.result # NoResult =>
        \E o \in OriginRows : o.body.action = row.body.action /\ o.body.result = row.body.result
  <2>1. last.id[1] = "turn" /\ TurnAnswered(last)
    BY <1>1, <1>2, <1>3, PriorIs DEF ForkInv
  <2> QED
    BY <1>6, <2>1 DEF TurnAnswered
<1>8. DOMAIN fkRun' = {"status", "total"}
  BY <1>1, SettledIs
<1>9. /\ ForkRowsHold' /\ OriginRows' = OriginRows
      /\ \E n \in Nat : Whole(ForkRows', n) /\ n > FirstOut' /\ n > ForkAt'
      /\ fkForked
  BY <1>1, <1>2, <1>5, <1>6, <1>7, <1>8, TurnRewritten
<1>10. PICK n \in Nat : Whole(ForkRows', n) /\ n > FirstOut' /\ n > ForkAt'
  BY <1>9
<1>11. Stage(n)'
  BY <1>1, <1>9, <1>10 DEF Stage
<1>12. ForkMarked'
  BY <1>1, <1>9, IndexStays, RunMarked
<1> QED
  BY <1>9, <1>10, <1>11, <1>12, ForkSettles

(* What a call gets: in simulation, what the origin got for that very call.   *)
LEMMA ResolutionIs ==
  ASSUME ForkData, ForkInv, NEW action, IsAction(action), IsCall(action),
         fkCall.mode = "live" \/ Hits(action) # {}, NEW got \in Resolutions(action)
  PROVE  /\ got.result # NoResult
         /\ fkCall.mode = "simulate" =>
              \E o \in OriginRows : o.body.action = action /\ o.body.result = got.result
<1>1. CASE fkCall.mode = "simulate"
  <2>1. PICK m \in Nat : Whole(OriginRows, m + 1)
    BY DEF ForkInv, OriginGrown
  <2>2. \A r \in Hits(action) : r \in ToolIndex /\ r \in OriginRows /\ r.seq \in 0..m
    BY <2>1 DEF Hits, ForkInv, ForkMarked, ToolIndex, Whole
  <2>3. Hits(action) # {}
    BY <1>1
  <2>4. PICK hit : hit = Newest(Hits(action))
    OBVIOUS
  <2>5. hit \in Hits(action)
    BY <2>2, <2>3, <2>4, NewestIn
  <2>6. /\ hit \in OriginRows /\ IsCall(hit.body.action) /\ hit.body.result # NoResult
        /\ SameCall(hit.body.action, action)
    BY <2>2, <2>5 DEF Hits, ToolIndex
  <2>7. IsAction(hit.body.action)
    BY <2>6 DEF ForkInv, ForkTypes, IsTurn, OriginRows, StepsOfRun
  <2>8. hit.body.action = action
    BY <2>6, <2>7 DEF IsAction, IsCall, SameCall
  <2>9. got.result = hit.body.result
    BY <1>1, <2>4 DEF Resolutions
  <2> QED
    BY <2>6, <2>8, <2>9
<1>2. CASE fkCall.mode # "simulate"
  <2>1. got \in RunTool(action)
    BY <1>2 DEF Resolutions
  <2>2. got.result \in FkResults \union {"note"}
    BY <2>1 DEF RunTool
  <2> QED
    BY <1>2, <2>2 DEF ForkData
<1> QED
  BY <1>1, <1>2

LEMMA ResolveKeeps ==
  ASSUME ForkData, ForkInv, ResolveCall
  PROVE  ForkInv'
<1>1. fkPc = "resolve" /\ UNCHANGED <<fkSnapshots, fkForked, fkCall, fkRead, fkIndex>>
  BY DEF ResolveCall
<1>2. PICK last : last = Newest(ForkRows)
  OBVIOUS
<1>3. IsTurn(last) /\ last.run = "fork" /\ last \in ForkRows /\ IsCall(last.body.action)
  BY <1>1, <1>2, PriorIs DEF Stage
<1>4. PICK got \in Resolutions(last.body.action) :
        /\ fkSteps' = InsertStep(fkSteps, [last EXCEPT !.body.result = got.result,
             !.body.outcome = got.outcome, !.body.status = got.outcome])
        /\ \/ got.outcome = "error" /\ fkRun' = Settled("error", fkSteps') /\ fkPc' = "done"
           \/ fkRun' = Settled("in_progress", fkSteps') /\ fkPc' = "done"
           \/ fkPc' = "call" /\ fkRun' = fkRun
  BY <1>2 DEF ResolveCall
<1>5. PICK row : row = [last EXCEPT !.body.result = got.result,
                          !.body.outcome = got.outcome, !.body.status = got.outcome]
  OBVIOUS
<1>6. fkSteps' = InsertStep(fkSteps, row)
  BY <1>4, <1>5
<1>7. /\ IsTurn(row) /\ row.id = last.id /\ row.run = "fork" /\ row.seq = last.seq
      /\ row.body.saw = last.body.saw /\ row.body.parent = last.body.parent
      /\ row.body.action = last.body.action /\ row.body.result = got.result
      /\ row.body.outcome = got.outcome
  BY <1>3, <1>5 DEF IsTurn
<1>8. /\ got.result # NoResult
      /\ fkCall.mode = "simulate" =>
           \E o \in OriginRows : o.body.action = last.body.action /\ o.body.result = got.result
  <2>1. fkCall.mode = "live" \/ Hits(last.body.action) # {}
    BY <1>2 DEF ResolveCall
  <2>2. IsAction(last.body.action)
    BY <1>3 DEF IsTurn
  <2> QED
    BY <1>3, <2>1, <2>2, ResolutionIs
<1>9. DOMAIN fkRun' = {"status", "total"} /\ fkPc' # "none"
  BY <1>4, SettledIs DEF ForkInv, ForkTypes
<1>10. /\ ForkRowsHold' /\ OriginRows' = OriginRows /\ Newest(ForkRows') = row
       /\ \E n \in Nat : Whole(ForkRows', n) /\ n > FirstOut' /\ n > ForkAt'
       /\ IsCall(row.body.action) /\ fkForked
  BY <1>1, <1>2, <1>6, <1>7, <1>8, <1>9, TurnRewritten
<1>11. PICK n \in Nat : Whole(ForkRows', n) /\ n > FirstOut' /\ n > ForkAt'
  BY <1>10
<1>12. IsResolved(row)
  BY <1>7, <1>8, <1>10 DEF IsResolved
<1>13. Stage(n)'
  <2>1. fkForked' /\ fkPc' \in {"call", "done"}
    BY <1>1, <1>4, <1>10
  <2> QED
    BY <1>10, <1>11, <1>12, <2>1 DEF Stage
<1>14. ForkMarked'
  <2>1. fkIndex' \subseteq ToolIndex'
    BY <1>1, <1>10, IndexStays
  <2>2. CASE fkPc' = "call" /\ fkRun' = fkRun
    <3>1. fkRun.status \in {"none", "in_progress"}
      BY <1>1 DEF ForkInv, ForkMarked
    <3> QED
      BY <2>1, <2>2, <3>1, OpenMarked DEF ForkPcs
  <2>3. CASE fkRun' = Settled("in_progress", fkSteps') /\ fkPc' = "done"
    BY <2>1, <2>3, RunMarked
  <2>4. CASE got.outcome = "error" /\ fkRun' = Settled("error", fkSteps') /\ fkPc' = "done"
    <3>1. Newest(ForkRows').body.outcome = "error"
      BY <1>7, <1>10, <2>4
    <3> QED
      BY <2>1, <2>4, <3>1, RunMarked
  <2> QED
    BY <1>4, <2>2, <2>3, <2>4
<1> QED
  BY <1>10, <1>11, <1>13, <1>14, ForkSettles

-----------------------------------------------------------------------------
LEMMA ForkInvInit ==
  ASSUME ForkData, ForkInit
  PROVE  ForkInv
<1>1. PICK o \in FkOrigins : fkSteps = o
  BY DEF ForkInit
<1>2. /\ fkSteps # {} /\ IsFiniteSet(fkSteps) /\ Whole(fkSteps, Cardinality(fkSteps))
      /\ \A r \in fkSteps : IsTurn(r) /\ r.run = "origin" /\ r.id[1] = "step"
      /\ \A r, s \in fkSteps : r.id = s.id => r = s
  BY <1>1 DEF ForkData
<1>3. /\ fkSnapshots = {[id |-> r.body.saw, context |-> r.body.saw] : r \in fkSteps}
      /\ fkRun = [status |-> "none", total |-> 0] /\ fkForked = FALSE
      /\ fkPc = "none" /\ fkIndex = {}
  BY DEF ForkInit
<1>4. OriginRows = fkSteps /\ ForkRows = {}
  BY <1>2 DEF OriginRows, ForkRows, StepsOfRun
<1>5. PICK c \in Nat : c = Cardinality(fkSteps)
  BY <1>2, FS_CardinalityType
<1>6. c > 0
  <2>1. PICK r \in fkSteps : TRUE
    BY <1>2
  <2>2. r.seq \in 0..(c - 1)
    BY <1>2, <1>5 DEF Whole
  <2> QED
    BY <2>2
<1>7. ForkTypes
  <2>1. GoTogether(fkSteps)
    BY <1>2 DEF GoTogether, Whole
  <2>2. ASSUME NEW r \in fkSteps PROVE SawKnown(r.body.saw)
    <3>1. [id |-> r.body.saw, context |-> r.body.saw] \in fkSnapshots
      BY <1>3
    <3>2. [id |-> r.body.saw, context |-> r.body.saw].id = r.body.saw
      OBVIOUS
    <3> QED
      BY <3>1, <3>2 DEF SawKnown
  <2>3. \A s \in fkSnapshots : s.context = s.id
    BY <1>3
  <2>4. DOMAIN fkRun = {"status", "total"}
    BY <1>3
  <2> QED
    BY <1>2, <2>1, <2>2, <2>3, <2>4 DEF ForkTypes
<1>8. OriginGrown
  <2>1. PICK m \in Nat : c = m + 1
    <3>1. c - 1 \in Nat /\ c = c - 1 + 1
      BY <1>6
    <3> QED
      BY <3>1
  <2> QED
    BY <1>2, <1>4, <1>5, <2>1 DEF OriginGrown
<1>9. PrefixRead
  BY <1>3 DEF PrefixRead
<1>10. ForkGrown
  <2>1. Whole(ForkRows, 0)
    BY <1>4 DEF Whole
  <2>2. Stage(0)
    BY <1>3 DEF Stage
  <2> QED
    BY <2>1, <2>2 DEF ForkGrown
<1>11. ForkMarked
  BY <1>3 DEF ForkMarked, ForkPcs
<1> QED
  BY <1>4, <1>7, <1>8, <1>9, <1>10, <1>11 DEF ForkInv

LEMMA ForkInvNext ==
  ASSUME ForkData, ForkInv, [ForkNext]_fkVars
  PROVE  ForkInv'
<1>1. CASE UNCHANGED fkVars
  <2>1. OriginRows' = OriginRows /\ ForkRows' = ForkRows
    BY <1>1 DEF fkVars, OriginRows, ForkRows
  <2>2. ForkTypes' /\ OriginGrown' /\ ResultsRemain
    BY <1>1, <2>1 DEF fkVars, ForkInv, ForkTypes, OriginGrown, ResultsRemain, SawKnown
  <2> QED
    BY <1>1, <2>1, <2>2, OriginMoves DEF fkVars
<1>2. CASE OriginStep
  BY <1>2, OriginKeeps
<1>3. ASSUME NEW at \in OriginRows, NEW edit \in FkEdits, NEW live \in BOOLEAN,
             NEW mode \in {"none", "simulate", "live"}, StartFork(at, edit, live, mode)
      PROVE  ForkInv'
  BY <1>3, StartKeeps
<1>4. CASE CopyPrefix
  BY <1>4, CopyKeeps
<1>5. CASE PlaceForkPoint
  BY <1>5, PointKeeps
<1>6. ASSUME NEW reply \in FkReplies, LiveSuffix(reply) PROVE ForkInv'
  BY <1>6, LiveKeeps
<1>7. ASSUME NEW reply \in FkReplies, ModelAnswers(reply) PROVE ForkInv'
  BY <1>7, AnswerKeeps
<1>8. CASE StartContinuation
  BY <1>8, ContinueKeeps
<1>9. CASE ModelThrows
  BY <1>9, ThrowKeeps
<1>10. CASE ModelCompletes \/ ForkStops
  BY <1>10, EndKeeps
<1>11. CASE SimulateMiss
  BY <1>11, MissKeeps
<1>12. CASE ResolveCall
  BY <1>12, ResolveKeeps
<1> QED
  BY <1>1, <1>2, <1>3, <1>4, <1>5, <1>6, <1>7, <1>8, <1>9, <1>10, <1>11, <1>12 DEF ForkNext

-----------------------------------------------------------------------------
(* The turns of a fork, one after the other: there is such a function, since  *)
(* the shortest that is missing could be made from the one before.           *)
IsTurns(f, first, m, turn) ==
  f = [n \in (first - 1)..m |-> IF n < first THEN <<>> ELSE f[n - 1] \o turn[n]]

LEMMA TurnsExist ==
  ASSUME NEW first \in Int, NEW m \in Int, m >= first - 1, NEW turn
  PROVE  \E f : IsTurns(f, first, m, turn)
<1> DEFINE UpTo(d) == first - 1 + d
           Missing == {d \in Nat : ~\E f : IsTurns(f, first, UpTo(d), turn)}
<1>1. SUFFICES ASSUME Missing # {} PROVE FALSE
  <2>1. m - (first - 1) \in Nat /\ UpTo(m - (first - 1)) = m
    OBVIOUS
  <2> HIDE DEF UpTo
  <2> QED
    BY <2>1
<1>2. PICK d \in Missing : \A e \in Missing : d <= e
  BY <1>1, LeastNumber
<1>3. d \in Nat /\ UpTo(d) \in Int
  OBVIOUS
<1>4. CASE d = 0
  <2> DEFINE f == [n \in (first - 1)..UpTo(d) |-> <<>>]
  <2>1. \A n \in (first - 1)..UpTo(d) : n < first
    BY <1>4
  <2>2. IsTurns(f, first, UpTo(d), turn)
    BY <2>1 DEF IsTurns
  <2> QED
    BY <1>2, <2>2
<1>5. CASE d # 0
  <2>1. d - 1 \in Nat /\ d - 1 < d /\ UpTo(d - 1) = UpTo(d) - 1 /\ UpTo(d) >= first
    BY <1>3, <1>5
  <2>2. d - 1 \notin Missing
    BY <1>2, <2>1
  <2>3. PICK f : IsTurns(f, first, UpTo(d) - 1, turn)
    BY <2>1, <2>2
  <2> DEFINE last == UpTo(d)
  <2>4. last \in Int /\ last >= first
    BY <1>3, <2>1
  <2>5. ~\E g : IsTurns(g, first, last, turn)
    BY <1>2
  <2> HIDE DEF last, UpTo, Missing
  <2> DEFINE g == [n \in (first - 1)..last |-> IF n = last THEN f[last - 1] \o turn[last] ELSE f[n]]
  <2>6. IsTurns(f, first, last - 1, turn)
    BY <2>3 DEF last
  <2>7. \A n \in (first - 1)..(last - 1) : f[n] = IF n < first THEN <<>> ELSE f[n - 1] \o turn[n]
    <3> DEFINE h == [n \in (first - 1)..(last - 1) |-> IF n < first THEN <<>> ELSE f[n - 1] \o turn[n]]
    <3>1. f = h
      BY <2>6 DEF IsTurns
    <3>2. \A n \in (first - 1)..(last - 1) : h[n] = IF n < first THEN <<>> ELSE f[n - 1] \o turn[n]
      OBVIOUS
    <3> HIDE DEF h
    <3> QED
      BY <3>1, <3>2
  <2>8. ASSUME NEW n \in (first - 1)..last
        PROVE  g[n] = IF n < first THEN <<>> ELSE g[n - 1] \o turn[n]
    <3>1. CASE n = last
      <4>1. /\ last - 1 \in (first - 1)..last /\ last \in (first - 1)..last
            /\ last - 1 # last /\ ~(last < first)
        BY <2>4
      <4>2. g[last - 1] = f[last - 1] /\ g[last] = f[last - 1] \o turn[last]
        BY <2>4, <4>1
      <4> QED
        BY <3>1, <4>1, <4>2
    <3>2. CASE n # last
      <4>1. n \in (first - 1)..(last - 1) /\ g[n] = f[n]
        BY <2>4, <3>2
      <4>2. CASE n < first
        BY <2>7, <4>1, <4>2
      <4>3. CASE ~(n < first)
        <5>1. n - 1 \in (first - 1)..last /\ n - 1 # last
          BY <2>4, <4>1, <4>3
        <5>2. g[n - 1] = f[n - 1]
          BY <5>1
        <5> QED
          BY <2>7, <4>1, <4>3, <5>2
      <4> QED
        BY <4>2, <4>3
    <3> QED
      BY <3>1, <3>2
  <2>9. IsTurns(g, first, last, turn)
    <3>1. g = [n \in (first - 1)..last |-> g[n]]
      OBVIOUS
    <3> HIDE DEF g
    <3> QED
      BY <2>8, <3>1 DEF IsTurns
  <2> QED
    BY <2>5, <2>9
<1> QED
  BY <1>4, <1>5

AreForkTurns(f, first, m) ==
  f = [n \in (first - 1)..m |-> IF n < first THEN <<>> ELSE f[n - 1] \o TurnOf(RowAt(n).body)]

LEMMA TurnsAre ==
  ASSUME NEW first \in Int, NEW m \in Int, NEW f, AreForkTurns(f, first, m)
  PROVE  /\ m >= first - 1 => f[first - 1] = <<>>
         /\ \A n \in first..m : f[n] = f[n - 1] \o TurnOf(RowAt(n).body)
<1> DEFINE h == [n \in (first - 1)..m |->
                   IF n < first THEN <<>> ELSE f[n - 1] \o TurnOf(RowAt(n).body)]
<1>1. f = h
  BY DEF AreForkTurns
<1>2. ASSUME m >= first - 1 PROVE h[first - 1] = <<>>
  <2>1. first - 1 \in (first - 1)..m /\ first - 1 < first
    BY <1>2
  <2> QED
    BY <2>1
<1>3. ASSUME NEW n \in first..m PROVE h[n] = f[n - 1] \o TurnOf(RowAt(n).body)
  <2>1. n \in (first - 1)..m /\ ~(n < first)
    OBVIOUS
  <2> QED
    BY <2>1
<1> HIDE DEF h
<1> QED
  BY <1>1, <1>2, <1>3

(* A context that is an edited one and then the turns, with one turn more.    *)
Onward(edited, turns) == [edited EXCEPT !.history = edited.history \o turns]

LEMMA OneTurnMore ==
  ASSUME NEW edited, IsContext(edited), NEW turns, IsSequence(turns), NEW body,
         body.saw = Onward(edited, turns)
  PROVE  /\ IsSequence(turns \o TurnOf(body))
         /\ AfterTurn(body) = Onward(edited, turns \o TurnOf(body))
<1> USE DEF Onward
<1>1. PICK turn : turn = TurnOf(body)
  OBVIOUS
<1>2. IsSequence(turn)
  BY <1>1, TurnIsSequence
<1>3. /\ IsSequence(edited.history)
      /\ DOMAIN edited = {"system", "history"} /\ edited = [f \in DOMAIN edited |-> edited[f]]
  BY DEF IsContext
<1>4. (edited.history \o turns) \o turn = edited.history \o (turns \o turn)
  BY <1>2, <1>3, Joined
<1>5. body.saw.history = edited.history \o turns
  BY <1>3
<1>6. AfterTurn(body) = [body.saw EXCEPT !.history = (edited.history \o turns) \o turn]
  BY <1>1, <1>5 DEF AfterTurn
<1>7. AfterTurn(body) = [edited EXCEPT !.history = (edited.history \o turns) \o turn]
  BY <1>3, <1>6
<1>8. IsSequence(turns \o turn)
  BY <1>2, Joined
<1> QED
  BY <1>1, <1>4, <1>7, <1>8

LEMMA TurnsSeen ==
  ASSUME ForkInv, fkPc # "none", NEW r \in ForkRows, r.id[1] = "turn"
  PROVE  r.body.saw = Onward(Edited, TurnsBefore(r.seq))
<1>1. PICK n \in Nat : Whole(ForkRows, n)
  BY DEF ForkInv, ForkGrown
<1>2. PICK edited : edited = Edited
  OBVIOUS
<1>3. PICK first \in Nat : first = FirstOut
  BY PrefixIs
<1>4. IsContext(edited)
  BY <1>2, PrefixIs
<1>5. PICK top \in Nat : top = r.seq
  BY RowKinds
<1>6. top > first /\ top \in 0..(n - 1)
  BY <1>1, <1>3, <1>5, RowKinds DEF Whole
<1> DEFINE turn == [k \in (first - 1)..top |-> TurnOf(RowAt(k).body)]
<1>7. PICK turns : AreForkTurns(turns, first, top) /\ TurnsBefore(top) = turns[top - 1]
  <2>1. first \in Int /\ top \in Int /\ top >= first - 1
    BY <1>6
  <2>2. \A f : IsTurns(f, first, top, turn) <=> AreForkTurns(f, first, top)
    BY DEF IsTurns, AreForkTurns
  <2>3. \E f : AreForkTurns(f, first, top)
    <3> HIDE DEF turn
    <3>1. \E f : IsTurns(f, first, top, turn)
      BY <2>1, TurnsExist
    <3> QED
      BY <2>2, <3>1
  <2>4. TurnsBefore(top) = (CHOOSE f : AreForkTurns(f, first, top))[top - 1]
    BY <1>3 DEF TurnsBefore, FirstOut, AreForkTurns
  <2> QED
    BY <2>3, <2>4
<1>8. TurnsBefore(top) = turns[top - 1]
  BY <1>7
<1>9. /\ turns[first - 1] = <<>>
      /\ \A k \in first..top : turns[k] = turns[k - 1] \o TurnOf(At(ForkRows, k).body)
  <2>1. first \in Int /\ top \in Int /\ top >= first - 1
    BY <1>6
  <2>2. \A k \in first..top : RowAt(k) = At(ForkRows, k)
    BY DEF RowAt, At
  <2>3. AreForkTurns(turns, first, top)
    BY <1>7
  <2>4. turns[first - 1] = <<>>
    BY <2>1, <2>3, TurnsAre
  <2>5. \A k \in first..top : turns[k] = turns[k - 1] \o TurnOf(RowAt(k).body)
    BY <2>1, <2>3, TurnsAre
  <2> QED
    BY <2>2, <2>4, <2>5
<1> HIDE DEF turn
<1> DEFINE Row(k) == At(ForkRows, k)
           Sees(k) == /\ IsSequence(turns[k - 1])
                      /\ Row(k).body.saw = Onward(edited, turns[k - 1])
           Wrong == {k \in first..top : Row(k).id[1] # "error" /\ ~Sees(k)}
<1>10. \A k \in first..top : k \in Nat /\ Row(k) \in ForkRows /\ Row(k).seq = k
  <2>1. \A k \in first..top : k \in 0..(n - 1) /\ k \in Nat
    BY <1>6
  <2> QED
    BY <1>1, <2>1, WholeAt
<1>11. Wrong = {}
  <2> SUFFICES ASSUME Wrong # {} PROVE FALSE
    OBVIOUS
  <2>1. PICK k \in Wrong : \A j \in Wrong : k <= j
    <3>1. Wrong \subseteq Nat
      BY <1>10
    <3> HIDE DEF Wrong
    <3> QED
      BY <3>1, LeastNumber
  <2>2. k \in first..top /\ Row(k).id[1] # "error" /\ ~Sees(k)
    BY <2>1
  <2>3. CASE k = first
    <3>1. Row(k).body.saw = edited
      BY <1>2, <1>3, <1>10, <2>2, <2>3, RowKinds
    <3>2. turns[k - 1] = <<>>
      BY <1>9, <2>3
    <3>3. IsSequence(<<>>) /\ edited.history \o <<>> = edited.history
      <4>1. <<>> \in Seq({})
        OBVIOUS
      <4>2. IsSequence(<<>>)
        BY <4>1, SequencesAre
      <4> QED
        BY <1>4, <4>2, Joined DEF IsContext
    <3>4. edited = Onward(edited, <<>>)
      BY <1>4, <3>3 DEF IsContext, Onward
    <3> QED
      BY <2>2, <3>1, <3>2, <3>3, <3>4
  <2>4. CASE k # first
    <3>1. k - 1 \in first..top /\ k - 1 < k /\ k > first
      BY <2>2, <2>4
    <3>2. Follows(Row(k)) /\ Row(k).id[1] = "turn"
      BY <1>3, <1>10, <2>2, <3>1, RowKinds
    <3>3. Row(k - 1).id[1] # "error" /\ Row(k).body.saw = AfterTurn(Row(k - 1).body)
      BY <1>10, <2>2, <3>2 DEF Follows
    <3>4. Sees(k - 1)
      <4>1. k - 1 \notin Wrong
        <5>1. ~(k <= k - 1)
          BY <2>2
        <5> HIDE DEF Wrong
        <5> QED
          BY <2>1, <5>1
      <4> QED
        BY <3>1, <3>3, <4>1
    <3>5. turns[k - 1] = turns[k - 1 - 1] \o TurnOf(Row(k - 1).body)
      BY <1>9, <3>1
    <3>6. PICK body : body = Row(k - 1).body
      OBVIOUS
    <3>7. PICK past : past = turns[k - 1 - 1]
      OBVIOUS
    <3>8. IsSequence(past) /\ body.saw = Onward(edited, past)
      BY <3>4, <3>6, <3>7
    <3>9. /\ IsSequence(past \o TurnOf(body))
          /\ AfterTurn(body) = Onward(edited, past \o TurnOf(body))
      BY <1>4, <3>8, OneTurnMore
    <3>10. turns[k - 1] = past \o TurnOf(body)
      BY <3>5, <3>6, <3>7
    <3>11. Row(k).body.saw = AfterTurn(body)
      BY <3>3, <3>6
    <3> QED
      BY <2>2, <3>9, <3>10, <3>11
  <2> QED
    BY <2>3, <2>4
<1>12. Row(top) = r
  BY <1>1, <1>5, <1>6, WholeAt
<1>13. Sees(top)
  <2>1. top \in first..top /\ Row(top).id[1] # "error"
    BY <1>6, <1>12
  <2> QED
    BY <1>11, <2>1
<1> QED
  BY <1>2, <1>5, <1>8, <1>12, <1>13

-----------------------------------------------------------------------------
LEMMA ForkBegun ==
  ASSUME ForkInv, NEW r \in ForkRows
  PROVE  fkPc # "none"
<1>1. PICK n \in Nat : Whole(ForkRows, n) /\ Stage(n)
  BY DEF ForkInv, ForkGrown
<1>2. fkPc = "none" => ForkRows = {}
  BY <1>1 DEF Stage, Whole
<1> QED
  BY <1>2

LEMMA RowsAreChained ==
  ASSUME ForkInv, NEW r \in ForkRows, r.seq # 0
  PROVE  r.body.parent = RowAt(r.seq - 1).id
<1>1. fkPc # "none"
  BY ForkBegun
<1>2. PICK n \in Nat : Whole(ForkRows, n)
  BY DEF ForkInv, ForkGrown
<1>3. PICK seq \in Nat : seq = r.seq
  BY <1>1, RowKinds
<1>4. seq - 1 \in 0..(n - 1) /\ seq > 0 /\ seq - 1 \in Nat
  BY <1>2, <1>3 DEF Whole
<1>5. PICK before \in ForkRows : before = At(ForkRows, seq - 1) /\ before.seq = seq - 1
  BY <1>2, <1>4, WholeAt
<1>6. RowAt(r.seq - 1) = before
  BY <1>3, <1>5 DEF RowAt, At
<1>7. InPlace(r) /\ before.id = <<before.id[1], seq - 1>>
  BY <1>1, <1>5, RowKinds DEF ForkInv
<1>8. ForkAt \in Nat /\ ForkAt + 1 \in Nat /\ Whole(fkRead, ForkAt + 1)
  BY <1>1, PrefixIs
<1>9. seq <= ForkAt => before.id = <<"copy", seq - 1>>
  <2>1. seq <= ForkAt => before.seq <= ForkAt
    BY <1>4, <1>5, <1>8
  <2> QED
    BY <1>1, <1>7, <2>1, RowKinds
<1>10. CASE seq < ForkAt
  <2>1. PICK x \in fkRead : r = CopyStep(fkRead, x)
    BY <1>3, <1>7, <1>10 DEF InPlace, Copied
  <2>2. IsTurn(x)
    BY <1>1, PrefixIs
  <2>3. r.body.parent = ParentAmong(fkRead, x) /\ x.seq = seq
    BY <1>3, <2>1, <2>2, CopyIs
  <2>4. ParentAmong(fkRead, x) = <<"copy", x.seq - 1>>
    BY <1>4, <1>8, <2>3, ParentsAre
  <2> QED
    BY <1>6, <1>9, <1>10, <1>8, <2>3, <2>4
<1>11. CASE seq = ForkAt
  <2>1. r.body.parent = ParentAmong(fkRead, Newest(fkRead))
    BY <1>3, <1>7, <1>11 DEF InPlace, AtPoint
  <2>2. PICK x \in fkRead : x = Newest(fkRead) /\ x.seq = seq
    BY <1>1, <1>11, PrefixIs
  <2>3. ParentAmong(fkRead, x) = <<"copy", x.seq - 1>>
    BY <1>4, <1>8, <2>2, ParentsAre
  <2> QED
    BY <1>6, <1>8, <1>9, <1>11, <2>1, <2>2, <2>3
<1>12. CASE seq > ForkAt
  BY <1>3, <1>5, <1>6, <1>7, <1>12 DEF InPlace, Follows
<1> QED
  BY <1>8, <1>10, <1>11, <1>12

LEMMA PrefixIsCopied ==
  ASSUME ForkInv, fkForked
  PROVE  /\ fkPc # "none"
         /\ \A r \in fkRead : r.seq < ForkAt => \E copy \in ForkRows : SameTurn(copy, r)
         /\ ContextOf(RowAt(ForkAt).body.saw) = Edited
<1>1. PICK n \in Nat : Whole(ForkRows, n) /\ Stage(n)
  BY DEF ForkInv, ForkGrown
<1>2. fkPc # "none" /\ n > ForkAt
  BY <1>1 DEF Stage
<1>3. ForkAt \in Nat /\ ForkAt + 1 \in Nat /\ Whole(fkRead, ForkAt + 1)
  BY <1>2, PrefixIs
<1>4. ASSUME NEW r \in fkRead, r.seq < ForkAt PROVE \E copy \in ForkRows : SameTurn(copy, r)
  <2>1. r.seq \in 0..ForkAt /\ IsTurn(r) /\ ContextOf(r.body.saw) = r.body.saw
    BY <1>2, PrefixIs
  <2>2. r.seq \in 0..(n - 1)
    BY <1>2, <1>3, <2>1
  <2>3. PICK copy \in ForkRows : copy.seq = r.seq
    BY <1>1, <2>2 DEF Whole
  <2>4. PICK x \in fkRead : copy = CopyStep(fkRead, x)
    BY <1>4, <2>3 DEF ForkInv, InPlace, Copied
  <2>5. x.seq = r.seq
    <3>1. IsTurn(x)
      BY <1>2, PrefixIs
    <3> QED
      BY <2>3, <2>4, <3>1, CopyIs
  <2>6. x = r
    BY <1>3, <2>5 DEF Whole
  <2>7. /\ copy.body.action = r.body.action /\ copy.body.outcome = r.body.outcome
        /\ copy.body.result = r.body.result /\ copy.body.saw = r.body.saw
    BY <2>1, <2>4, <2>6, CopyIs
  <2> QED
    BY <2>1, <2>3, <2>7 DEF SameTurn
<1>5. ContextOf(RowAt(ForkAt).body.saw) = Edited
  <2>1. ForkAt \in 0..(n - 1)
    BY <1>2, <1>3, <1>1
  <2>2. PICK point \in ForkRows : point = At(ForkRows, ForkAt) /\ point.seq = ForkAt
    BY <1>1, <2>1, WholeAt
  <2>3. point.body.saw = Edited /\ SawKnown(point.body.saw)
    BY <2>2 DEF ForkInv, InPlace, AtPoint, ForkTypes, ForkRows, StepsOfRun
  <2>4. ContextOf(point.body.saw) = Edited
    BY <2>3, ContextIs DEF ForkInv
  <2> QED
    BY <2>2, <2>4 DEF RowAt, At
<1> QED
  BY <1>2, <1>4, <1>5

LEMMA ForkIsFork ==
  ASSUME ForkInv
  PROVE  ForkContinuesOrigin
<1>1. \A r \in fkSteps : ContextOf(r.body.saw) = r.body.saw
  BY ContextIs DEF ForkInv, ForkTypes
<1>2. ForkRows \subseteq fkSteps /\ OriginRows \subseteq fkSteps
  BY DEF ForkRows, OriginRows, StepsOfRun
<1>3. ForkExtendsOrigin
  <2>1. \A r \in ForkRows : r.seq = 0 \/ r.body.parent = RowAt(r.seq - 1).id
    BY RowsAreChained
  <2>2. ASSUME fkForked, NEW r \in ForkRows, r.id[1] = "turn"
        PROVE  ContextOf(r.body.saw) = [Edited EXCEPT !.history = Edited.history \o TurnsBefore(r.seq)]
    <3>1. r.body.saw = Onward(Edited, TurnsBefore(r.seq))
      BY <2>2, ForkBegun, TurnsSeen
    <3> QED
      BY <1>1, <1>2, <3>1 DEF Onward
  <2>3. \A r \in OriginRows : ContextOf(r.body.saw) = r.body.saw
    BY <1>1, <1>2
  <2> QED
    BY <2>1, <2>2, <2>3, PrefixIsCopied DEF ForkExtendsOrigin, Edited
<1>4. ForkAnswers
  <2>1. ASSUME NEW r \in ForkRows, r.id[1] = "turn"
        PROVE  /\ fkCall.mode = "simulate" /\ r.body.result # NoResult =>
                    \E o \in OriginRows : o.body.action = r.body.action /\ o.body.result = r.body.result
               /\ r # Newest(ForkRows) => IsCall(r.body.action) /\ r.body.result # NoResult
    BY <2>1 DEF ForkInv, TurnAnswered, IsResolved
  <2>2. ForkMarked
    BY DEF ForkInv
  <2> QED
    BY <2>1, <2>2 DEF ForkAnswers, ForkMarked
<1> QED
  BY <1>3, <1>4 DEF ForkContinuesOrigin

(***************************************************************************)
(* If an origin's steps are numbered from 0 without a gap: its fork (forkRun,  *)
(* continueFork) has the origin's steps up to the fork point and is one chain  *)
(* of steps; each later turn has seen the edited context and then every turn   *)
(* in between, in order; what is simulated is what the origin got for that     *)
(* very call, only the newest turn can be without its result, and a run that   *)
(* says ok or error ends in a message or in a failed call.  The origin's own   *)
(* contexts stay what they were.                                             *)
(***************************************************************************)
THEOREM ForkGoesOn == ForkData => (ForkSpec => []ForkContinuesOrigin)
<1> SUFFICES ASSUME ForkData PROVE ForkSpec => []ForkContinuesOrigin
  OBVIOUS
<1>1. ForkInit => ForkInv
  BY ForkInvInit
<1>2. ForkInv /\ [ForkNext]_fkVars => ForkInv'
  BY ForkInvNext
<1>3. ForkInv => ForkContinuesOrigin
  BY ForkIsFork
<1> QED
  BY <1>1, <1>2, <1>3, PTL DEF ForkSpec
=============================================================================
