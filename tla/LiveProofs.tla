----------------------------- MODULE LiveProofs -----------------------------
(***************************************************************************)
(* Proofs about `meter live`.  CaptureClaim: for any roots and processes of  *)
(* both kinds, any freshness of two periods or more, and any launches,       *)
(* signals and crashes.  LiveInspector: for any sessions and any number of   *)
(* overlapping ticks, other writers, rewrites and restarts.                  *)
(***************************************************************************)
EXTENDS CaptureClaim, LiveInspector, FiniteSetTheorems, SequenceTheorems, TLAPS

(***************************************************************************)
(* The invariant                                                           *)
(***************************************************************************)
Pcs == {"off", "guard", "claim", "starting", "failed", "backfill", "up", "leaving"}
Writes == {"nothing", "claim", "release", "exit", "refresh"}
Claim == [owner : Processes \union {Nobody}, age : Nat]
Process ==
  [pc : Pcs, root : ClaimRoots, forced : BOOLEAN, refresher : BOOLEAN, sentinel : BOOLEAN,
   claimed : BOOLEAN, viewer : BOOLEAN, doing : Writes, saw : [ClaimRoots -> Claim]]

Past == [launches : Nat, crashes : Nat, lost : BOOLEAN]

ClaimTypes ==
  /\ clRow \in [ClaimRoots -> Claim]
  /\ clProc \in [Processes -> Process]
  /\ clPast \in Past

(* How far a process is, and what it holds and writes then.                 *)
ProcessOK(p) ==
  LET proc == clProc[p]
  IN  /\ proc.pc # "off" => proc.root \in ClRoots
      /\ proc.pc \in {"off", "guard", "claim", "failed", "leaving"} => ~proc.refresher
      /\ proc.pc \notin {"backfill", "up"} => ~proc.sentinel
      /\ proc.refresher \/ proc.pc = "claim" => proc.claimed
      /\ proc.viewer => /\ proc.pc \notin {"guard", "claim", "starting", "failed"}
                        /\ ~proc.refresher /\ ~proc.sentinel
      /\ proc.doing = "claim" => proc.pc = "claim"
      /\ proc.doing = "release" => proc.pc = "failed"
      /\ proc.doing = "exit" => proc.pc = "leaving"
      /\ proc.doing = "refresh" => proc.refresher

(* A holder's claim is renewed in each period.                              *)
RenewedInTime(root) ==
  \A q \in Processes :
    Holder(q, root) /\ clRow[root].owner = q =>
      /\ clRow[root].age <= 1
      /\ <<q, "refresh">> \in clFired => clRow[root].age = 0

(* Where nothing is contested the claim is the sole holder's.               *)
HoldersClaim(root) ==
  root \notin clContested => \A q \in Processes : Holder(q, root) => clRow[root].owner = q

(* A claim that counts has a process behind it, unless one crashed.         *)
Backs(o, root) ==
  clProc[o].root = root /\ (clProc[o].refresher \/ clProc[o].pc \in {"failed", "leaving"})

Backed(root) ==
  clPast.crashes = 0 /\ Fresh(clRow[root]) /\ clRow[root].owner # Nobody =>
    Backs(clRow[root].owner, root)

ClaimInv ==
  /\ ClaimTypes
  /\ \A p \in Processes : ProcessOK(p)
  /\ clPast.lost \/ \A root \in ClRoots : RenewedInTime(root) /\ HoldersClaim(root) /\ Backed(root)

(***************************************************************************)
(* The steps of one process that leave the setting alone                   *)
(***************************************************************************)

(* A process that goes on changes its own state and no other's.             *)
LEMMA OneMoves ==
  ASSUME ClaimTypes, NEW p \in Processes, NEW proc, Become(p, proc)
  PROVE  /\ clProc'[p] = proc
         /\ \A q \in Processes \ {p} : clProc'[q] = clProc[q]
BY DEF ClaimTypes, Become

LEMMA OthersAsTheyWere ==
  ASSUME ClaimInv, NEW p \in Processes, NEW proc, Become(p, proc), ProcessOK(p)', proc \in Process
  PROVE  clProc' \in [Processes -> Process] /\ \A q \in Processes : ProcessOK(q)'
<1>1. clProc'[p] = proc /\ \A q \in Processes \ {p} : clProc'[q] = clProc[q]
  BY OneMoves DEF ClaimInv
<1>2. \A q \in Processes : ProcessOK(q)'
  BY <1>1 DEF ClaimInv, ProcessOK
<1> QED
  BY <1>2 DEF ClaimInv, ClaimTypes, Become

(* What is remembered of a root: who holds it uncontested is alone with it,  *)
(* and if it was contested before, has its claim there again.               *)
Remembers == clContested' = {root \in ClRoots : ~SoleClaim(root)}

LEMMA Uncontested ==
  ASSUME Remembers, NEW root \in ClRoots, root \notin clContested', NEW q \in Processes,
         Holder(q, root)'
  PROVE  /\ \A r \in Processes : Holder(r, root)' => r = q
         /\ root \in clContested => ClaimOwner(clRow, root)' = q
BY DEF Remembers, SoleClaim

(* A step that leaves the setting alone and makes no holder.                *)
LEMMA RowStays ==
  ASSUME ClaimInv, Remembers, NEW p \in Processes, NEW proc \in Process, Become(p, proc),
         ProcessOK(p)', clRow' = clRow,
         clPast' \in Past, clPast'.lost = clPast.lost,
         clPast'.crashes = 0 => clPast.crashes = 0,
         proc.refresher => clProc[p].refresher /\ proc.root = clProc[p].root,
         \A q \in Processes : <<q, "refresh">> \in clFired' => <<q, "refresh">> \in clFired,
         \A root \in ClRoots :
           clPast'.crashes = 0 /\ clRow[root].owner = p /\ Fresh(clRow[root]) /\ Backs(p, root) =>
             proc.root = root /\ (proc.refresher \/ proc.pc \in {"failed", "leaving"})
  PROVE  ClaimInv'
<1>1. /\ clProc'[p] = proc
      /\ \A q \in Processes \ {p} : clProc'[q] = clProc[q]
  BY OneMoves DEF ClaimInv
<1>2. clProc' \in [Processes -> Process] /\ \A q \in Processes : ProcessOK(q)'
  BY OthersAsTheyWere
<1>3. \A q \in Processes, root \in ClRoots : Holder(q, root)' => Holder(q, root)
  BY <1>1 DEF Holder
<1>4. ASSUME NEW root \in ClRoots, ~ clPast'.lost
      PROVE  (RenewedInTime(root) /\ HoldersClaim(root) /\ Backed(root))'
  <2>1. RenewedInTime(root) /\ HoldersClaim(root) /\ Backed(root)
    BY <1>4 DEF ClaimInv
  <2>2. RenewedInTime(root)'
    BY <1>3, <2>1 DEF RenewedInTime
  <2>3. HoldersClaim(root)'
    <3> SUFFICES ASSUME root \notin clContested', NEW q \in Processes, Holder(q, root)'
                 PROVE  clRow[root].owner = q
      BY DEF HoldersClaim
    <3>1. Holder(q, root)
      BY <1>3
    <3>2. CASE root \in clContested
      <4>1. ClaimOwner(clRow, root)' = q
        BY <3>2, Uncontested
      <4> QED
        BY <4>1, ClaimConstants DEF ClaimOwner, Processes
    <3> QED
      BY <2>1, <3>1, <3>2 DEF HoldersClaim
  <2>4. Backed(root)'
    <3> SUFFICES ASSUME clPast'.crashes = 0, Fresh(clRow[root]), clRow[root].owner # Nobody
                 PROVE  Backs(clRow[root].owner, root)'
      BY DEF Backed, Fresh
    <3>1. clRow[root].owner \in Processes /\ Backs(clRow[root].owner, root)
      BY <2>1 DEF Backed, ClaimInv, ClaimTypes, Claim, ClaimRoots
    <3> QED
      BY <1>1, <3>1 DEF Backs
  <2> QED
    BY <2>2, <2>3, <2>4
<1>5. clRow' \in [ClaimRoots -> Claim]
  BY DEF ClaimInv, ClaimTypes
<1> QED
  BY <1>2, <1>4, <1>5 DEF ClaimInv, ClaimTypes

LEMMA LaunchKeeps ==
  ASSUME ClaimInv, Remembers, NEW p \in Processes, NEW root \in ClRoots, NEW forced \in BOOLEAN,
         Launch(p, root, forced)
  PROVE  ClaimInv'
<1> DEFINE proc == [NotRunning EXCEPT !.pc = "guard", !.root = root, !.forced = forced]
<1>1. Become(p, proc) /\ clProc[p].pc = "off" /\ UNCHANGED <<clRow, clFired>>
  BY DEF Launch
<1>2. /\ proc \in Process
      /\ proc.pc = "guard" /\ proc.root = root /\ proc.refresher = FALSE
      /\ proc.sentinel = FALSE /\ proc.viewer = FALSE /\ proc.doing = "nothing"
  BY ClaimConstants DEF NotRunning, Process, Pcs, Writes, Claim, ClaimRoots, NoClaim
<1> HIDE DEF proc
<1>3. clProc'[p] = proc
  BY <1>1, OneMoves DEF ClaimInv
<1>4. ProcessOK(p)'
  BY <1>2, <1>3 DEF ProcessOK
<1>5. clPast' \in Past /\ clPast'.lost = clPast.lost /\ clPast'.crashes = clPast.crashes
  BY DEF Launch, ClaimInv, ClaimTypes, Past
<1>6. \A r \in ClRoots : ~ Backs(p, r)
  BY <1>1 DEF ClaimInv, ProcessOK, Backs
<1> QED
  BY <1>1, <1>2, <1>4, <1>5, <1>6, RowStays DEF ClaimInv, ClaimTypes

(* The other steps of a process that leave setting and past alone: what      *)
(* remains to be seen of each.                                             *)
LEMMA GoesOn ==
  ASSUME ClaimInv, Remembers, NEW p \in Processes, NEW proc \in Process, Become(p, proc),
         ProcessOK(p)', clRow' = clRow, clPast' = clPast,
         proc.root = clProc[p].root, proc.refresher => clProc[p].refresher,
         \A q \in Processes : <<q, "refresh">> \in clFired' => <<q, "refresh">> \in clFired,
         \/ proc.refresher = clProc[p].refresher /\ clProc[p].pc \notin {"failed", "leaving"}
         \/ proc.pc \in {"failed", "leaving"}
         \/ clRow[proc.root].owner # p
  PROVE  ClaimInv'
<1>1. clPast'.lost = clPast.lost /\ clPast'.crashes = clPast.crashes /\ clPast' \in Past
  BY DEF ClaimInv, ClaimTypes
<1>2. \A root \in ClRoots :
        clRow[root].owner = p /\ Backs(p, root) =>
          proc.root = root /\ (proc.refresher \/ proc.pc \in {"failed", "leaving"})
  BY DEF Backs
<1> QED
  BY <1>1, <1>2, RowStays

LEMMA GuardKeeps ==
  ASSUME ClaimInv, Remembers, NEW p \in Processes, Guard(p)
  PROVE  ClaimInv'
<1> DEFINE old == clProc[p]
           proc == IF ~ (~old.forced /\ HeldFor(clRow, old.root)) THEN [old EXCEPT !.pc = "claim", !.claimed = TRUE]
                   ELSE IF p \in Lives THEN [old EXCEPT !.pc = "backfill", !.viewer = TRUE]
                   ELSE [old EXCEPT !.pc = "up"]
<1>1. Become(p, proc) /\ old.pc = "guard" /\ UNCHANGED <<clRow, clFired, clPast>>
  BY DEF Guard
<1>2. old \in Process /\ ProcessOK(p)
  BY DEF ClaimInv, ClaimTypes
<1>3. /\ proc \in Process
      /\ proc.root = old.root /\ proc.refresher = old.refresher /\ proc.sentinel = old.sentinel
      /\ proc.doing = old.doing
      /\ proc.pc \in {"claim", "backfill", "up"}
      /\ proc.pc = "claim" => proc.claimed /\ proc.viewer = old.viewer
  BY <1>2 DEF Process, Pcs
<1> HIDE DEF proc
<1>4. clProc'[p] = proc
  BY <1>1, OneMoves DEF ClaimInv
<1>5. ProcessOK(p)'
  BY <1>1, <1>2, <1>3, <1>4 DEF ProcessOK
<1> QED
  BY <1>1, <1>3, <1>5, GoesOn

LEMMA ReadKeeps ==
  ASSUME ClaimInv, Remembers, NEW p \in Processes, ReadClaims(p)
  PROVE  ClaimInv'
<1> DEFINE old == clProc[p]
           proc == [old EXCEPT !.doing = Due(p), !.saw = clRow]
<1>1. Become(p, proc) /\ Due(p) # "nothing" /\ UNCHANGED <<clRow, clFired, clPast>>
  BY DEF ReadClaims
<1>2. old \in Process /\ ProcessOK(p) /\ clRow \in [ClaimRoots -> Claim]
  BY DEF ClaimInv, ClaimTypes
<1>3. Due(p) \in Writes
  BY DEF Due, Writes
<1>4. /\ proc \in Process
      /\ proc.pc = old.pc /\ proc.root = old.root /\ proc.refresher = old.refresher
      /\ proc.sentinel = old.sentinel /\ proc.claimed = old.claimed /\ proc.viewer = old.viewer
      /\ proc.doing = Due(p)
  BY <1>2, <1>3 DEF Process
<1> HIDE DEF proc
<1>5. clProc'[p] = proc
  BY <1>1, OneMoves DEF ClaimInv
<1>6. ProcessOK(p)'
  BY <1>2, <1>4, <1>5 DEF ProcessOK, Due
<1>7. \A root \in ClRoots : Backs(p, root) =>
        proc.root = root /\ (proc.refresher \/ proc.pc \in {"failed", "leaving"})
  BY <1>4 DEF Backs
<1>8. clPast'.lost = clPast.lost /\ clPast'.crashes = clPast.crashes /\ clPast' \in Past
  BY <1>1 DEF ClaimInv, ClaimTypes
<1> QED
  BY <1>1, <1>4, <1>6, <1>7, <1>8, RowStays

(* The sentinel's start, whatever comes of it, and the end of the backfill.  *)
LEMMA StartKeeps ==
  ASSUME ClaimInv, Remembers, NEW p \in Processes,
         SentinelStarts(p) \/ SentinelFails(p) \/ BackfillEnds(p)
  PROVE  ClaimInv'
<1>1. clProc[p] \in Process /\ ProcessOK(p)
  BY DEF ClaimInv, ClaimTypes
<1>2. CASE SentinelStarts(p)
  <2> DEFINE proc == [clProc[p] EXCEPT !.sentinel = TRUE,
                                       !.pc = IF p \in Lives THEN "backfill" ELSE "up"]
  <2>1. Become(p, proc) /\ clProc[p].pc = "starting" /\ ~Busy(p) /\ UNCHANGED <<clRow, clFired, clPast>>
    BY <1>2 DEF SentinelStarts
  <2>2. /\ proc \in Process
        /\ proc.pc \in {"backfill", "up"} /\ proc.root = clProc[p].root /\ proc.sentinel = TRUE
        /\ proc.refresher = clProc[p].refresher
        /\ proc.claimed = clProc[p].claimed /\ proc.viewer = clProc[p].viewer
        /\ proc.doing = clProc[p].doing
    BY <1>1 DEF Process, Pcs
  <2> HIDE DEF proc
  <2>3. clProc'[p] = proc
    BY <2>1, OneMoves DEF ClaimInv
  <2>4. ~proc.viewer /\ proc.doing = "nothing"
    BY <1>1, <2>1, <2>2 DEF ProcessOK, Busy
  <2>5. proc.refresher => proc.claimed
    BY <1>1, <2>2 DEF ProcessOK
  <2>6. proc.root \in ClRoots
    BY <1>1, <2>1, <2>2 DEF ProcessOK
  <2>7. ProcessOK(p)'
    BY <2>2, <2>3, <2>4, <2>5, <2>6 DEF ProcessOK
  <2> QED
    BY <2>1, <2>2, <2>7, GoesOn
<1>3. CASE SentinelFails(p)
  <2> DEFINE proc == [clProc[p] EXCEPT !.refresher = FALSE, !.pc = "failed"]
  <2>1. Become(p, proc) /\ clProc[p].pc = "starting" /\ ~Busy(p) /\ UNCHANGED <<clRow, clFired, clPast>>
    BY <1>3 DEF SentinelFails
  <2>2. /\ proc \in Process
        /\ proc.pc = "failed" /\ proc.root = clProc[p].root /\ proc.refresher = FALSE
        /\ proc.sentinel = clProc[p].sentinel /\ proc.viewer = clProc[p].viewer
        /\ proc.doing = clProc[p].doing
    BY <1>1 DEF Process, Pcs
  <2> HIDE DEF proc
  <2>3. clProc'[p] = proc
    BY <2>1, OneMoves DEF ClaimInv
  <2>4. ProcessOK(p)'
    BY <1>1, <2>1, <2>2, <2>3 DEF ProcessOK, Busy
  <2> QED
    BY <2>1, <2>2, <2>4, GoesOn
<1>4. CASE BackfillEnds(p)
  <2> DEFINE proc == [clProc[p] EXCEPT !.pc = "up"]
  <2>1. Become(p, proc) /\ clProc[p].pc = "backfill" /\ ~Busy(p) /\ UNCHANGED <<clRow, clFired, clPast>>
    BY <1>4 DEF BackfillEnds
  <2>2. /\ proc \in Process
        /\ proc.pc = "up" /\ proc.root = clProc[p].root /\ proc.refresher = clProc[p].refresher
        /\ proc.sentinel = clProc[p].sentinel /\ proc.viewer = clProc[p].viewer
        /\ proc.claimed = clProc[p].claimed /\ proc.doing = clProc[p].doing
    BY <1>1 DEF Process, Pcs
  <2> HIDE DEF proc
  <2>3. clProc'[p] = proc
    BY <2>1, OneMoves DEF ClaimInv
  <2>4. ProcessOK(p)'
    BY <1>1, <2>1, <2>2, <2>3 DEF ProcessOK, Busy
  <2> QED
    BY <2>1, <2>2, <2>4, GoesOn
<1> QED
  BY <1>2, <1>3, <1>4

(* The evaluator: who yields is not the owner of the claim it sees.         *)
LEMMA EvaluateKeeps ==
  ASSUME ClaimInv, Remembers, NEW p \in Processes, Evaluate(p)
  PROVE  ClaimInv'
<1> DEFINE yielded == [clProc[p] EXCEPT !.sentinel = FALSE, !.refresher = FALSE, !.viewer = TRUE]
           proc == IF SeesForeign(p) THEN yielded ELSE clProc[p]
<1>1. /\ Become(p, proc) /\ UNCHANGED <<clRow, clPast>>
      /\ clProc[p].pc = "up" /\ clProc[p].doing = "nothing"
      /\ clFired' = clFired \union {<<p, "evaluate">>}
  BY DEF Evaluate, Busy
<1>2. clProc[p] \in Process /\ ProcessOK(p)
  BY DEF ClaimInv, ClaimTypes
<1>3. /\ yielded \in Process
      /\ yielded.pc = "up" /\ yielded.root = clProc[p].root /\ yielded.doing = "nothing"
      /\ yielded.refresher = FALSE /\ yielded.sentinel = FALSE /\ yielded.viewer = TRUE
  BY <1>1, <1>2 DEF Process
<1> HIDE DEF yielded
<1>4. \A q \in Processes : <<q, "refresh">> \in clFired' => <<q, "refresh">> \in clFired
  BY <1>1
<1>5. CASE SeesForeign(p)
  <2>1. Become(p, yielded)
    BY <1>1, <1>5
  <2>2. clProc'[p] = yielded
    BY <2>1, OneMoves DEF ClaimInv
  <2>3. ProcessOK(p)'
    BY <1>1, <1>2, <1>3, <2>2 DEF ProcessOK
  <2>4. clRow[yielded.root].owner # p
    BY <1>3, <1>5 DEF SeesForeign, ClaimOwner
  <2> QED
    BY <1>1, <1>3, <1>4, <2>1, <2>3, <2>4, GoesOn
<1>6. CASE ~SeesForeign(p)
  <2>1. Become(p, clProc[p])
    BY <1>1, <1>6
  <2>2. clProc'[p] = clProc[p]
    BY <2>1, OneMoves DEF ClaimInv
  <2>3. ProcessOK(p)'
    BY <1>2, <2>2 DEF ProcessOK
  <2> QED
    BY <1>1, <1>2, <1>4, <2>1, <2>3, GoesOn
<1> QED
  BY <1>5, <1>6

LEMMA NotRunningIs ==
  /\ NotRunning \in Process
  /\ NotRunning.pc = "off" /\ NotRunning.root = Star /\ NotRunning.refresher = FALSE
  /\ NotRunning.sentinel = FALSE /\ NotRunning.viewer = FALSE /\ NotRunning.doing = "nothing"
BY ClaimConstants DEF NotRunning, Process, Pcs, Writes, Claim, ClaimRoots, NoClaim

(* A process that is gone without a claim of its own to leave, or in a crash.  *)
LEMMA GoneKeeps ==
  ASSUME ClaimInv, Remembers, NEW p \in Processes, Become(p, NotRunning), clRow' = clRow,
         clPast' \in Past, clPast'.lost = clPast.lost,
         clPast'.crashes = 0 => clPast.crashes = 0,
         clFired' = clFired \ {<<p, t>> : t \in {"refresh", "evaluate"}},
         \/ clPast'.crashes # 0
         \/ ~clProc[p].refresher /\ clProc[p].pc \notin {"failed", "leaving"}
  PROVE  ClaimInv'
<1>1. clProc'[p] = NotRunning
  BY OneMoves DEF ClaimInv
<1>2. ProcessOK(p)'
  BY <1>1, NotRunningIs DEF ProcessOK
<1>3. \A root \in ClRoots :
        ~ (clPast'.crashes = 0 /\ clRow[root].owner = p /\ Fresh(clRow[root]) /\ Backs(p, root))
  BY DEF Backs
<1> QED
  BY <1>2, <1>3, NotRunningIs, RowStays

LEMMA CrashKeeps ==
  ASSUME ClaimInv, Remembers, NEW p \in Processes, Crash(p)
  PROVE  ClaimInv'
<1>1. clPast' \in Past /\ clPast'.lost = clPast.lost /\ clPast'.crashes # 0
  BY DEF Crash, ClaimInv, ClaimTypes, Past
<1> QED
  BY <1>1, GoneKeeps DEF Crash

LEMMA StopKeeps ==
  ASSUME ClaimInv, Remembers, NEW p \in Processes, Stop(p)
  PROVE  ClaimInv'
<1> DEFINE releases == IF p \in Lives THEN clProc[p].claimed ELSE clProc[p].refresher
           proc == [clProc[p] EXCEPT !.refresher = FALSE, !.sentinel = FALSE, !.pc = "leaving"]
<1>1. /\ Become(p, IF releases THEN proc ELSE NotRunning)
      /\ clFired' = clFired \ {<<p, t>> : t \in {"refresh", "evaluate"}}
      /\ UNCHANGED <<clRow, clPast>>
      /\ clProc[p].doing = "nothing" /\ clProc[p].pc \in {"starting", "backfill", "up"}
  BY DEF Stop, Busy
<1>2. clProc[p] \in Process /\ ProcessOK(p)
  BY DEF ClaimInv, ClaimTypes
<1>3. /\ proc \in Process
      /\ proc.pc = "leaving" /\ proc.root = clProc[p].root /\ proc.doing = "nothing"
      /\ proc.refresher = FALSE /\ proc.sentinel = FALSE
  BY <1>1, <1>2 DEF Process, Pcs
<1>4. clProc[p].root \in ClRoots
  BY <1>1, <1>2 DEF ProcessOK
<1> HIDE DEF proc
<1>5. CASE releases
  <2>1. Become(p, proc)
    BY <1>1, <1>5
  <2>2. clProc'[p] = proc
    BY <2>1, OneMoves DEF ClaimInv
  <2>3. ProcessOK(p)'
    BY <1>3, <1>4, <2>2 DEF ProcessOK
  <2> QED
    BY <1>1, <1>3, <2>1, <2>3, GoesOn
<1>6. CASE ~releases
  <2>1. ~clProc[p].refresher
    BY <1>2, <1>6 DEF ProcessOK
  <2>2. Become(p, NotRunning)
    BY <1>1, <1>6
  <2>3. clPast'.lost = clPast.lost /\ clPast'.crashes = clPast.crashes /\ clPast' \in Past
    BY <1>1 DEF ClaimInv, ClaimTypes
  <2> QED
    BY <1>1, <2>1, <2>2, <2>3, GoneKeeps
<1> QED
  BY <1>5, <1>6

(***************************************************************************)
(* The writes, and the period                                              *)
(***************************************************************************)

(* A write takes the fresh claims of the roots that are not the writer's along.  *)
OthersKept(row, root) ==
  \A r \in ClRoots \ {root} : row[r] = IF Fresh(clRow[r]) THEN clRow[r] ELSE NoClaim

LEMMA WriteKeepsOthers ==
  ASSUME ClaimInv, ~clPast.lost, Remembers, NEW p \in Processes, NEW proc, Become(p, proc),
         clProc[p].root \in ClRoots, proc.root \in {clProc[p].root, Star},
         OthersKept(clRow', clProc[p].root), clPast'.crashes = clPast.crashes,
         clFired' \subseteq clFired \union {<<p, "refresh">>},
         NEW root \in ClRoots, root # clProc[p].root
  PROVE  (RenewedInTime(root) /\ HoldersClaim(root) /\ Backed(root))'
<1>1. /\ clProc'[p] = proc
      /\ \A q \in Processes \ {p} : clProc'[q] = clProc[q]
  BY OneMoves DEF ClaimInv
<1>2. proc.root # root
  BY ClaimConstants
<1>3. \A q \in Processes : Holder(q, root)' => q # p /\ Holder(q, root)
  BY <1>1, <1>2 DEF Holder
<1>4. RenewedInTime(root) /\ HoldersClaim(root) /\ Backed(root)
  BY DEF ClaimInv
<1>5. clRow'[root] = IF Fresh(clRow[root]) THEN clRow[root] ELSE NoClaim
  BY DEF OthersKept
<1>6. RenewedInTime(root)'
  <2> SUFFICES ASSUME NEW q \in Processes, Holder(q, root)', clRow'[root].owner = q
               PROVE  /\ clRow'[root].age <= 1
                      /\ <<q, "refresh">> \in clFired' => clRow'[root].age = 0
    BY DEF RenewedInTime
  <2>1. clRow'[root] = clRow[root]
    BY <1>5, ClaimConstants DEF NoClaim, Processes
  <2> QED
    BY <1>3, <1>4, <2>1 DEF RenewedInTime
<1>7. HoldersClaim(root)'
  <2> SUFFICES ASSUME root \notin clContested', NEW q \in Processes, Holder(q, root)'
               PROVE  clRow'[root].owner = q
    BY DEF HoldersClaim
  <2>1. CASE root \in clContested
    <3>1. ClaimOwner(clRow, root)' = q
      BY <2>1, Uncontested
    <3> QED
      BY <3>1, ClaimConstants DEF ClaimOwner, Processes
  <2>2. CASE root \notin clContested
    <3>1. clRow[root].owner = q /\ clRow[root].age <= 1
      BY <1>3, <1>4, <2>2 DEF HoldersClaim, RenewedInTime
    <3>2. clRow[root].age \in Nat
      BY DEF ClaimInv, ClaimTypes, Claim, ClaimRoots
    <3> QED
      BY <1>5, <3>1, <3>2, ClaimConstants DEF Fresh
  <2> QED
    BY <2>1, <2>2
<1>8. Backed(root)'
  <2> SUFFICES ASSUME clPast.crashes = 0, Fresh(clRow'[root]), clRow'[root].owner # Nobody
               PROVE  Backs(clRow[root].owner, root)'
    BY DEF Backed, Fresh
  <2>1. Fresh(clRow[root]) /\ clRow'[root] = clRow[root]
    BY <1>5 DEF NoClaim
  <2>2. clRow[root].owner \in Processes /\ Backs(clRow[root].owner, root)
    BY <1>4, <2>1 DEF Backed, ClaimInv, ClaimTypes, Claim, ClaimRoots
  <2>3. clRow[root].owner # p
    BY <2>2 DEF Backs
  <2> QED
    BY <1>1, <2>1, <2>2, <2>3 DEF Backs
<1> QED
  BY <1>6, <1>7, <1>8

LEMMA WritesAreClaims ==
  ASSUME NEW row \in [ClaimRoots -> Claim], NEW p \in Processes, NEW root \in ClRoots
  PROVE  /\ Claimed(row, root, p) \in [ClaimRoots -> Claim]
         /\ Released(row, root, p) \in [ClaimRoots -> Claim]
         /\ Claimed(row, root, p)[root] = [owner |-> p, age |-> 0]
         /\ Released(row, root, p)[root] =
              IF Fresh(row[root]) /\ row[root].owner \notin {p, Nobody} THEN row[root] ELSE NoClaim
         /\ \A r \in ClRoots \ {root} :
              /\ Claimed(row, root, p)[r] = IF Fresh(row[r]) THEN row[r] ELSE NoClaim
              /\ Released(row, root, p)[r] = IF Fresh(row[r]) THEN row[r] ELSE NoClaim
<1>1. NoClaim \in Claim /\ [owner |-> p, age |-> 0] \in Claim
  BY ClaimConstants DEF NoClaim, Claim
<1>2. \A r \in ClRoots : r \in ClaimRoots /\ r # Star
  BY ClaimConstants DEF ClaimRoots
<1>3. Claimed(row, root, p) \in [ClaimRoots -> Claim]
  BY <1>1 DEF Claimed
<1>4. Released(row, root, p) \in [ClaimRoots -> Claim]
  BY <1>1 DEF Released
<1> QED
  BY <1>2, <1>3, <1>4 DEF Claimed, Released


(* A process after its write: it holds what it claimed, and nothing when it   *)
(* let go.                                                                 *)
LEMMA AfterWriteIs ==
  ASSUME ClaimInv, NEW p \in Processes, Busy(p), Become(p, AfterWrite(p))
  PROVE  /\ AfterWrite(p) \in Process
         /\ ProcessOK(p)'
         /\ clProc[p].root \in ClRoots /\ AfterWrite(p).root \in {clProc[p].root, Star}
         /\ clProc[p].doing \in {"claim", "refresh"} =>
              AfterWrite(p).refresher /\ AfterWrite(p).root = clProc[p].root
         /\ clProc[p].doing \notin {"claim", "refresh"} => ~AfterWrite(p).refresher
<1> DEFINE old == clProc[p]
           idle == [old EXCEPT !.doing = "nothing", !.saw = NotRunning.saw]
           claimed == [idle EXCEPT !.pc = "starting", !.refresher = TRUE]
           failed == [idle EXCEPT !.pc = IF p \in Lives THEN "backfill" ELSE "up"]
<1>1. old \in Process /\ ProcessOK(p)
  BY DEF ClaimInv, ClaimTypes
<1>2. old.doing \in Writes \ {"nothing"}
  BY <1>1 DEF Busy, Process
<1>3. NotRunning.saw \in [ClaimRoots -> Claim]
  BY NotRunningIs DEF Process
<1>4. /\ idle \in Process
      /\ idle.pc = old.pc /\ idle.root = old.root /\ idle.refresher = old.refresher
      /\ idle.sentinel = old.sentinel /\ idle.claimed = old.claimed /\ idle.viewer = old.viewer
      /\ idle.doing = "nothing"
  BY <1>1, <1>3 DEF Process, Writes
<1>5. AfterWrite(p) = CASE idle.pc = "claim" -> claimed
                        [] idle.pc = "failed" -> failed
                        [] idle.pc = "leaving" -> NotRunning
                        [] OTHER -> idle
  BY DEF AfterWrite
<1> HIDE DEF idle
<1>6. /\ claimed \in Process
      /\ claimed.pc = "starting" /\ claimed.root = old.root /\ claimed.refresher = TRUE
      /\ claimed.sentinel = old.sentinel /\ claimed.claimed = old.claimed
      /\ claimed.viewer = old.viewer /\ claimed.doing = "nothing"
  BY <1>4 DEF Process, Pcs
<1>7. /\ failed \in Process
      /\ failed.pc \in {"backfill", "up"} /\ failed.root = old.root
      /\ failed.refresher = old.refresher /\ failed.sentinel = old.sentinel
      /\ failed.claimed = old.claimed /\ failed.viewer = old.viewer /\ failed.doing = "nothing"
  BY <1>4 DEF Process, Pcs
<1> HIDE DEF claimed, failed
<1>8. clProc'[p] = AfterWrite(p)
  BY OneMoves DEF ClaimInv
<1>9. old.pc # "off" /\ old.root \in ClRoots
  BY <1>1, <1>2 DEF ProcessOK, Writes
<1>10. CASE old.pc = "claim"
  <2>1. AfterWrite(p) = claimed
    BY <1>4, <1>5, <1>10
  <2>2. ~old.sentinel /\ ~old.viewer /\ ~old.refresher /\ old.claimed
    BY <1>1, <1>10 DEF ProcessOK
  <2>3. old.doing = "claim"
    BY <1>1, <1>2, <1>10, <2>2 DEF ProcessOK, Writes
  <2>4. ProcessOK(p)'
    BY <1>6, <1>8, <1>9, <2>1, <2>2 DEF ProcessOK
  <2> QED
    BY <1>6, <1>9, <2>1, <2>3, <2>4
<1>11. CASE old.pc = "failed"
  <2>1. AfterWrite(p) = failed
    BY <1>4, <1>5, <1>11
  <2>2. ~old.sentinel /\ ~old.viewer /\ ~old.refresher
    BY <1>1, <1>11 DEF ProcessOK
  <2>3. old.doing = "release"
    BY <1>1, <1>2, <1>11, <2>2 DEF ProcessOK, Writes
  <2>4. ~failed.refresher /\ ~failed.viewer
    BY <1>7, <2>2
  <2>5. ProcessOK(p)'
    BY <1>7, <1>8, <1>9, <2>1, <2>4 DEF ProcessOK
  <2> QED
    BY <1>7, <1>9, <2>1, <2>3, <2>4, <2>5
<1>12. CASE old.pc = "leaving"
  <2>1. AfterWrite(p) = NotRunning
    BY <1>4, <1>5, <1>12
  <2>2. ~old.refresher
    BY <1>1, <1>12 DEF ProcessOK
  <2>3. old.doing = "exit"
    BY <1>1, <1>2, <1>12, <2>2 DEF ProcessOK, Writes
  <2>4. ProcessOK(p)'
    BY <1>8, <2>1, NotRunningIs DEF ProcessOK
  <2> QED
    BY <1>9, <2>1, <2>3, <2>4, NotRunningIs
<1>13. CASE old.pc \notin {"claim", "failed", "leaving"}
  <2>1. AfterWrite(p) = idle
    BY <1>4, <1>5, <1>13
  <2>2. old.doing = "refresh" /\ old.refresher
    BY <1>1, <1>2, <1>13 DEF ProcessOK, Writes
  <2>3. ProcessOK(p)'
    BY <1>1, <1>4, <1>8, <2>1 DEF ProcessOK
  <2> QED
    BY <1>4, <1>9, <2>1, <2>2, <2>3
<1> QED
  BY <1>10, <1>11, <1>12, <1>13

LEMMA WriteKeeps ==
  ASSUME ClaimInv, Remembers, NEW p \in Processes, WriteClaims(p)
  PROVE  ClaimInv'
<1> DEFINE proc == AfterWrite(p)
           mine == clProc[p].root
           claims == clProc[p].doing \in {"claim", "refresh"}
<1>1. /\ Busy(p) /\ Become(p, proc)
      /\ clRow' = IF claims THEN Claimed(clProc[p].saw, mine, p) ELSE Released(clProc[p].saw, mine, p)
      /\ clPast' = [clPast EXCEPT !.lost = @ \/ clRow # clProc[p].saw]
  BY DEF WriteClaims
<1>2. /\ proc \in Process /\ ProcessOK(p)'
      /\ mine \in ClRoots /\ proc.root \in {mine, Star}
      /\ claims => proc.refresher /\ proc.root = mine
      /\ ~claims => ~proc.refresher
  BY <1>1, AfterWriteIs
<1>3. clProc'[p] = proc /\ \A q \in Processes \ {p} : clProc'[q] = clProc[q]
  BY <1>1, OneMoves DEF ClaimInv
<1>4. clProc' \in [Processes -> Process] /\ \A q \in Processes : ProcessOK(q)'
  BY <1>1, <1>2, OthersAsTheyWere
<1>5. clProc[p].saw \in [ClaimRoots -> Claim]
  BY DEF ClaimInv, ClaimTypes, Process
<1>6. clRow' \in [ClaimRoots -> Claim]
  BY <1>1, <1>2, <1>5, WritesAreClaims
<1>7. clFired' \subseteq clFired \union {<<p, "refresh">>}
  BY DEF WriteClaims
<1> HIDE DEF proc
<1>8. ASSUME ~clPast'.lost, NEW root \in ClRoots
      PROVE  (RenewedInTime(root) /\ HoldersClaim(root) /\ Backed(root))'
  <2>1. ~clPast.lost /\ clProc[p].saw = clRow /\ clPast'.crashes = clPast.crashes
    BY <1>1, <1>8 DEF ClaimInv, ClaimTypes, Past
  <2>2. OthersKept(clRow', mine)
    <3>1. mine \in ClRoots /\ clRow \in [ClaimRoots -> Claim]
      BY <1>2, <1>5, <2>1
    <3>2. ASSUME NEW r \in ClRoots \ {mine}
          PROVE  /\ Claimed(clRow, mine, p)[r] = IF Fresh(clRow[r]) THEN clRow[r] ELSE NoClaim
                 /\ Released(clRow, mine, p)[r] = IF Fresh(clRow[r]) THEN clRow[r] ELSE NoClaim
      BY <3>1, ClaimConstants DEF Claimed, Released, ClaimRoots
    <3>3. clRow' \in {Claimed(clRow, mine, p), Released(clRow, mine, p)}
      BY <1>1, <2>1
    <3> QED
      BY <3>2, <3>3 DEF OthersKept
  <2>3. CASE root # mine
    BY <1>1, <1>2, <1>7, <2>1, <2>2, <2>3, WriteKeepsOthers
  <2>4. CASE root = mine /\ claims
    <3>1. clRow'[root] = [owner |-> p, age |-> 0]
      BY <1>1, <1>2, <1>5, <2>4, WritesAreClaims
    <3>2. Holder(p, root)'
      BY <1>2, <1>3, <2>4 DEF Holder
    <3>3. RenewedInTime(root)'
      BY <3>1 DEF RenewedInTime
    <3>4. HoldersClaim(root)'
      <4> SUFFICES ASSUME root \notin clContested', NEW q \in Processes, Holder(q, root)'
                   PROVE  clRow'[root].owner = q
        BY DEF HoldersClaim
      <4>1. p = q
        BY <3>2, Uncontested
      <4> QED
        BY <3>1, <4>1
    <3>5. Backs(p, root)'
      BY <3>2 DEF Holder, Backs
    <3>6. Backed(root)'
      BY <3>1, <3>5 DEF Backed
    <3> QED
      BY <3>3, <3>4, <3>6
  <2>5. CASE root = mine /\ ~claims
    <3>1. clRow'[root] = IF Fresh(clRow[root]) /\ clRow[root].owner \notin {p, Nobody}
                         THEN clRow[root] ELSE NoClaim
      BY <1>1, <1>2, <1>5, <2>1, <2>5, WritesAreClaims
    <3>2. \A q \in Processes : Holder(q, root)' => q # p /\ Holder(q, root)
      BY <1>2, <1>3, <2>5 DEF Holder
    <3>3. RenewedInTime(root) /\ HoldersClaim(root) /\ Backed(root)
      BY <2>1 DEF ClaimInv
    <3>4. RenewedInTime(root)'
      <4> SUFFICES ASSUME NEW q \in Processes, Holder(q, root)', clRow'[root].owner = q
                   PROVE  /\ clRow'[root].age <= 1
                          /\ <<q, "refresh">> \in clFired' => clRow'[root].age = 0
        BY DEF RenewedInTime
      <4>1. clRow'[root] = clRow[root]
        BY <3>1, ClaimConstants DEF NoClaim, Processes
      <4> QED
        BY <1>7, <3>2, <3>3, <4>1 DEF RenewedInTime
    <3>5. HoldersClaim(root)'
      <4> SUFFICES ASSUME root \notin clContested', NEW q \in Processes, Holder(q, root)'
                   PROVE  clRow'[root].owner = q
        BY DEF HoldersClaim
      <4>1. CASE root \in clContested
        <5>1. ClaimOwner(clRow, root)' = q
          BY <4>1, Uncontested
        <5> QED
          BY <5>1, ClaimConstants DEF ClaimOwner, Processes
      <4>2. CASE root \notin clContested
        <5>1. clRow[root].owner = q /\ clRow[root].age <= 1
          BY <3>2, <3>3, <4>2 DEF HoldersClaim, RenewedInTime
        <5>2. clRow[root].age \in Nat
          BY DEF ClaimInv, ClaimTypes, Claim, ClaimRoots
        <5>3. Fresh(clRow[root]) /\ q # p /\ q # Nobody
          BY <3>2, <5>1, <5>2, ClaimConstants DEF Fresh, Processes
        <5> QED
          BY <3>1, <5>1, <5>3
      <4> QED
        BY <4>1, <4>2
    <3>6. Backed(root)'
      <4> SUFFICES ASSUME clPast.crashes = 0, Fresh(clRow'[root]), clRow'[root].owner # Nobody
                   PROVE  Backs(clRow[root].owner, root)'
        BY <2>1 DEF Backed, Fresh
      <4>1. /\ Fresh(clRow[root]) /\ clRow'[root] = clRow[root]
            /\ clRow[root].owner \notin {p, Nobody}
        BY <3>1 DEF NoClaim
      <4>2. clRow[root].owner \in Processes /\ Backs(clRow[root].owner, root)
        BY <3>3, <4>1 DEF Backed, ClaimInv, ClaimTypes, Claim, ClaimRoots
      <4> QED
        BY <1>3, <4>1, <4>2 DEF Backs
    <3> QED
      BY <3>4, <3>5, <3>6
  <2> QED
    BY <2>3, <2>4, <2>5
<1>9. clPast' \in Past
  BY <1>1 DEF ClaimInv, ClaimTypes, Past
<1> QED
  BY <1>4, <1>6, <1>8, <1>9 DEF ClaimInv, ClaimTypes

(* A period: every holder has renewed its claim in the last one.            *)
LEMMA PeriodKeeps ==
  ASSUME ClaimInv, Remembers, ClPeriod
  PROVE  ClaimInv'
<1>1. UNCHANGED <<clProc, clPast>> /\ clFired' = {}
  BY DEF ClPeriod
<1>2. clRow \in [ClaimRoots -> Claim] /\ NoClaim \in Claim
  BY ClaimConstants DEF ClaimInv, ClaimTypes, NoClaim, Claim
<1>3. \A r \in ClaimRoots :
        clRow'[r] = IF clRow[r].age + 1 < FreshPeriods
                    THEN [owner |-> clRow[r].owner, age |-> clRow[r].age + 1] ELSE NoClaim
  BY <1>2 DEF ClPeriod, Claim
<1>4. clRow' \in [ClaimRoots -> Claim]
  <2>1. \A r \in ClaimRoots : [owner |-> clRow[r].owner, age |-> clRow[r].age + 1] \in Claim
    BY <1>2 DEF Claim
  <2>2. clRow' = [r \in ClaimRoots |-> clRow'[r]]
    BY DEF ClPeriod
  <2> QED
    BY <1>2, <1>3, <2>1, <2>2
<1>5. \A q \in Processes, root \in ClRoots : Holder(q, root)' <=> Holder(q, root)
  BY <1>1 DEF Holder
<1>6. ASSUME ~clPast.lost, NEW root \in ClRoots
      PROVE  (RenewedInTime(root) /\ HoldersClaim(root) /\ Backed(root))'
  <2>1. RenewedInTime(root) /\ HoldersClaim(root) /\ Backed(root)
    BY <1>6 DEF ClaimInv
  <2>2. root \in ClaimRoots /\ clRow[root] \in Claim
    BY <1>2 DEF ClaimRoots
  <2>3. \A q \in Processes : Holder(q, root) /\ clRow[root].owner = q => clRow[root].age = 0
    BY <2>1 DEF ClPeriod, RenewedInTime, Holder
  <2>4. RenewedInTime(root)'
    <3> SUFFICES ASSUME NEW q \in Processes, Holder(q, root)', clRow'[root].owner = q
                 PROVE  clRow'[root].age <= 1
      BY <1>1 DEF RenewedInTime
    <3>1. /\ clRow'[root] = [owner |-> clRow[root].owner, age |-> clRow[root].age + 1]
          /\ clRow[root].owner = q
      BY <1>3, <2>2, ClaimConstants DEF NoClaim, Processes
    <3> QED
      BY <1>5, <2>3, <3>1
  <2>5. HoldersClaim(root)'
    <3> SUFFICES ASSUME root \notin clContested', NEW q \in Processes, Holder(q, root)'
                 PROVE  clRow'[root].owner = q
      BY DEF HoldersClaim
    <3>1. CASE root \in clContested
      <4>1. ClaimOwner(clRow, root)' = q
        BY <3>1, Uncontested
      <4> QED
        BY <4>1, ClaimConstants DEF ClaimOwner, Processes
    <3>2. CASE root \notin clContested
      <4>1. clRow[root].owner = q /\ clRow[root].age = 0
        BY <1>5, <2>1, <2>3, <3>2 DEF HoldersClaim
      <4>2. clRow[root].age + 1 < FreshPeriods
        BY <4>1, ClaimConstants
      <4>3. clRow'[root] = [owner |-> clRow[root].owner, age |-> clRow[root].age + 1]
        BY <1>3, <2>2, <4>2
      <4> QED
        BY <4>1, <4>3
    <3> QED
      BY <3>1, <3>2
  <2>6. Backed(root)'
    <3> SUFFICES ASSUME clPast.crashes = 0, Fresh(clRow'[root]), clRow'[root].owner # Nobody
                 PROVE  Backs(clRow'[root].owner, root)
      BY <1>1 DEF Backed, Fresh, Backs
    <3>1. clRow[root].age + 1 < FreshPeriods
      <4> SUFFICES ASSUME ~ (clRow[root].age + 1 < FreshPeriods)
                   PROVE  FALSE
        OBVIOUS
      <4>1. clRow'[root] = NoClaim
        BY <1>3, <2>2
      <4> QED
        BY <4>1 DEF NoClaim
    <3>2. Fresh(clRow[root])
      BY <2>2, <3>1, ClaimConstants DEF Fresh, Claim
    <3>3. clRow'[root] = [owner |-> clRow[root].owner, age |-> clRow[root].age + 1]
      BY <1>3, <2>2, <3>1
    <3> QED
      BY <2>1, <3>2, <3>3 DEF Backed
  <2> QED
    BY <2>4, <2>5, <2>6
<1>7. clPast' = clPast /\ clProc' = clProc
  BY <1>1
<1>8. \A q \in Processes : ProcessOK(q)'
  BY <1>7 DEF ClaimInv, ProcessOK
<1> QED
  BY <1>4, <1>6, <1>7, <1>8 DEF ClaimInv, ClaimTypes

(***************************************************************************)
(* The invariant holds                                                     *)
(***************************************************************************)

(* How any step of the claims goes.                                         *)
LEMMA ClaimCases ==
  ASSUME ClaimAction
  PROVE  \/ \E p \in Processes, root \in ClRoots, forced \in BOOLEAN : Launch(p, root, forced)
         \/ \E p \in Processes :
              \/ Guard(p) \/ ReadClaims(p) \/ WriteClaims(p)
              \/ SentinelStarts(p) \/ SentinelFails(p) \/ BackfillEnds(p)
              \/ Evaluate(p) \/ Stop(p) \/ Crash(p)
         \/ ClPeriod
<1>1. MayForce \subseteq Processes
  BY ClaimConstants DEF Processes
<1>2. CASE \E p \in Processes : ClaimStep(p) \/ Stop(p) \/ Crash(p)
  BY <1>2 DEF ClaimStep
<1> QED
  BY <1>1, <1>2 DEF ClaimAction

LEMMA ClaimInvInit ==
  ASSUME ClaimInit
  PROVE  ClaimInv
<1>1. clPast \in Past /\ clFired = {} /\ clContested = {}
  BY DEF ClaimInit, Past
<1>2. \A p \in Processes : clProc[p] = NotRunning
  BY DEF ClaimInit
<1>3. clProc \in [Processes -> Process] /\ \A p \in Processes : ProcessOK(p)
  BY <1>2, NotRunningIs DEF ClaimInit, ProcessOK
<1>4. \A p \in Processes, root \in ClRoots : ~ Holder(p, root)
  BY <1>2, NotRunningIs DEF Holder
<1> DEFINE none == [r \in ClaimRoots |-> NoClaim]
           legacy == [none EXCEPT ![Star].age = 0]
<1>5. clRow \in {none, legacy}
  BY DEF ClaimInit
<1>6. NoClaim \in Claim
  BY ClaimConstants DEF NoClaim, Claim
<1>7. /\ none \in [ClaimRoots -> Claim] /\ legacy \in [ClaimRoots -> Claim]
      /\ \A root \in ClRoots : none[root] = NoClaim /\ legacy[root] = NoClaim
  BY <1>6, ClaimConstants DEF ClaimRoots, Claim
<1> HIDE DEF none, legacy
<1>8. clRow \in [ClaimRoots -> Claim] /\ \A root \in ClRoots : clRow[root].owner = Nobody
  BY <1>5, <1>7 DEF NoClaim
<1>9. \A root \in ClRoots : RenewedInTime(root) /\ HoldersClaim(root) /\ Backed(root)
  BY <1>4, <1>8 DEF RenewedInTime, HoldersClaim, Backed
<1> QED
  BY <1>1, <1>3, <1>8, <1>9 DEF ClaimInv, ClaimTypes

LEMMA ClaimInvNext ==
  ASSUME ClaimInv, [ClaimNext]_claimVars
  PROVE  ClaimInv'
<1>1. CASE ClaimNext
  <2>1. Remembers
    BY <1>1 DEF ClaimNext, Remembers
  <2>2. CASE ClPeriod
    BY <2>1, <2>2, PeriodKeeps
  <2>3. ASSUME NEW p \in Processes, NEW root \in ClRoots, NEW forced \in BOOLEAN,
               Launch(p, root, forced)
        PROVE  ClaimInv'
    BY <2>1, <2>3, LaunchKeeps
  <2>4. ASSUME NEW p \in Processes,
               \/ Guard(p) \/ ReadClaims(p) \/ WriteClaims(p)
               \/ SentinelStarts(p) \/ SentinelFails(p) \/ BackfillEnds(p)
               \/ Evaluate(p) \/ Stop(p) \/ Crash(p)
        PROVE  ClaimInv'
    BY <2>1, <2>4, GuardKeeps, ReadKeeps, WriteKeeps, StartKeeps, EvaluateKeeps, StopKeeps,
       CrashKeeps
  <2> QED
    BY <1>1, <2>2, <2>3, <2>4, ClaimCases DEF ClaimNext
<1>2. CASE UNCHANGED claimVars
  <2>1. /\ clRow' = clRow /\ clProc' = clProc /\ clFired' = clFired /\ clPast' = clPast
        /\ clContested' = clContested
    BY <1>2 DEF claimVars
  <2>2. \A root \in ClRoots :
          /\ RenewedInTime(root)' <=> RenewedInTime(root)
          /\ HoldersClaim(root)' <=> HoldersClaim(root)
          /\ Backed(root)' <=> Backed(root)
    BY <2>1 DEF RenewedInTime, HoldersClaim, Backed, Holder, Fresh, Backs
  <2>3. \A p \in Processes : ProcessOK(p)' <=> ProcessOK(p)
    BY <2>1 DEF ProcessOK
  <2> QED
    BY <2>1, <2>2, <2>3 DEF ClaimInv, ClaimTypes
<1> QED
  BY <1>1, <1>2

(***************************************************************************)
(* What a step may not do                                                  *)
(***************************************************************************)

(* A step that neither enters nor yields cannot go wrong.                   *)
LEMMA HarmlessSteps ==
  ASSUME ClaimInv, NEW p \in Processes, NEW proc, Become(p, proc),
         ~ (clProc[p].pc = "guard" /\ proc.pc = "claim"),
         ~ (clProc[p].sentinel /\ proc.viewer)
  PROVE  GuardHolds /\ GivesWayToHolder
<1>1. clProc'[p] = proc /\ \A q \in Processes \ {p} : clProc'[q] = clProc[q]
  BY OneMoves DEF ClaimInv
<1>2. \A q \in Processes : ~Enters(q)
  BY <1>1 DEF Enters
<1>3. \A q \in Processes : ~Yields(q)
  BY <1>1 DEF Yields, ClaimInv, ProcessOK
<1> QED
  BY <1>2, <1>3 DEF GuardHolds, GivesWayToHolder

(* Whoever enters has looked: an uncontested holder's claim would have held it.  *)
LEMMA GuardIsHeld ==
  ASSUME ClaimInv, ~clPast.lost, NEW p \in Processes, Guard(p)
  PROVE  GuardHolds /\ GivesWayToHolder
<1> DEFINE old == clProc[p]
           taken == ~old.forced /\ HeldFor(clRow, old.root)
           viewer == [old EXCEPT !.pc = "backfill", !.viewer = TRUE]
           without == [old EXCEPT !.pc = "up"]
           enters == [old EXCEPT !.pc = "claim", !.claimed = TRUE]
           proc == IF ~taken THEN enters ELSE IF p \in Lives THEN viewer ELSE without
<1>1. Become(p, proc) /\ old.pc = "guard"
  BY DEF Guard
<1>2. old \in Process /\ ProcessOK(p) /\ old.root \in ClRoots /\ ~old.sentinel
  BY <1>1 DEF ClaimInv, ClaimTypes, ProcessOK
<1>3. viewer.pc = "backfill" /\ without.pc = "up"
  BY <1>2 DEF Process
<1> HIDE DEF viewer, without, enters
<1>4. CASE taken
  <2>1. proc.pc # "claim"
    BY <1>3, <1>4
  <2> QED
    BY <1>1, <1>2, <2>1, HarmlessSteps
<1>5. CASE ~taken
  <2>1. \A q \in Processes \ {p} : clProc'[q] = clProc[q]
    BY <1>1, OneMoves DEF ClaimInv
  <2>2. GivesWayToHolder
    BY <1>2, <2>1 DEF GivesWayToHolder, Yields, ClaimInv, ProcessOK
  <2>3. GuardHolds
    <3> SUFFICES ASSUME ~old.forced, NEW q \in Processes, Holder(q, old.root),
                        old.root \notin clContested
                 PROVE  FALSE
      BY <1>1, <2>1 DEF GuardHolds, Enters
    <3>1. RenewedInTime(old.root) /\ HoldersClaim(old.root)
      BY <1>2 DEF ClaimInv
    <3>2. clRow[old.root].age <= 1 /\ clRow[old.root].age \in Nat
      BY <1>2, <3>1 DEF RenewedInTime, HoldersClaim, ClaimInv, ClaimTypes, Claim, ClaimRoots
    <3>3. Fresh(clRow[old.root])
      BY <3>2, ClaimConstants DEF Fresh
    <3> QED
      BY <1>5, <3>3 DEF HeldFor
  <2> QED
    BY <2>2, <2>3
<1> QED
  BY <1>4, <1>5

(* Whoever yields has seen a claim, and a claim has a process behind it.     *)
LEMMA EvaluateGivesWay ==
  ASSUME ClaimInv, ~clPast.lost, NEW p \in Processes, Evaluate(p)
  PROVE  GuardHolds /\ GivesWayToHolder
<1> DEFINE yielded == [clProc[p] EXCEPT !.sentinel = FALSE, !.refresher = FALSE, !.viewer = TRUE]
           proc == IF SeesForeign(p) THEN yielded ELSE clProc[p]
<1>1. Become(p, proc) /\ clProc[p].pc = "up"
  BY DEF Evaluate
<1>2. ProcessOK(p) /\ clProc[p].root \in ClRoots
  BY <1>1 DEF ClaimInv, ProcessOK
<1> HIDE DEF yielded
<1>3. CASE ~SeesForeign(p)
  <2>1. Become(p, clProc[p])
    BY <1>1, <1>3
  <2>2. ~ (clProc[p].sentinel /\ clProc[p].viewer)
    BY <1>2 DEF ProcessOK
  <2> QED
    BY <1>1, <2>1, <2>2, HarmlessSteps
<1>4. CASE SeesForeign(p)
  <2> DEFINE root == clProc[p].root
             owner == clRow[root].owner
  <2>1. \A q \in Processes \ {p} : clProc'[q] = clProc[q]
    BY <1>1, OneMoves DEF ClaimInv
  <2>2. GuardHolds
    BY <1>1, <2>1 DEF GuardHolds, Enters
  <2>3. Fresh(clRow[root]) /\ owner \notin {p, Nobody}
    BY <1>4 DEF SeesForeign, ClaimOwner
  <2>4. owner \in Processes
    BY <1>2, <2>3 DEF ClaimInv, ClaimTypes, Claim, ClaimRoots
  <2>5. clPast.crashes > 0 \/ Backs(owner, root)
    BY <1>2, <2>3 DEF ClaimInv, ClaimTypes, Past, Backed
  <2>6. \A q \in Processes \ {p} : ~Yields(q)
    BY <2>1 DEF Yields, ClaimInv, ProcessOK
  <2> QED
    BY <2>2, <2>3, <2>4, <2>5, <2>6 DEF GivesWayToHolder, Backs
<1> QED
  BY <1>3, <1>4

(* The steps that neither look at the setting nor give way.                  *)
LEMMA OtherStepsHold ==
  ASSUME ClaimInv, NEW p \in Processes,
         \/ ReadClaims(p) \/ WriteClaims(p) \/ SentinelStarts(p) \/ SentinelFails(p)
         \/ BackfillEnds(p) \/ Stop(p) \/ Crash(p)
  PROVE  GuardHolds /\ GivesWayToHolder
<1> DEFINE old == clProc[p]
           reads == [old EXCEPT !.doing = Due(p), !.saw = clRow]
           idle == [old EXCEPT !.doing = "nothing", !.saw = NotRunning.saw]
           claimed == [idle EXCEPT !.pc = "starting", !.refresher = TRUE]
           failed == [idle EXCEPT !.pc = IF p \in Lives THEN "backfill" ELSE "up"]
           starts == [old EXCEPT !.sentinel = TRUE, !.pc = IF p \in Lives THEN "backfill" ELSE "up"]
           fails == [old EXCEPT !.refresher = FALSE, !.pc = "failed"]
           ends == [old EXCEPT !.pc = "up"]
           leaves == [old EXCEPT !.refresher = FALSE, !.sentinel = FALSE, !.pc = "leaving"]
<1>1. old \in Process /\ ProcessOK(p)
  BY DEF ClaimInv, ClaimTypes
<1>2. reads.pc = old.pc /\ reads.viewer = old.viewer
  BY <1>1 DEF Process
<1>3. idle.pc = old.pc /\ idle.viewer = old.viewer /\ DOMAIN idle = DOMAIN old
  BY <1>1 DEF Process
<1>4. claimed.pc = "starting" /\ claimed.viewer = old.viewer
  BY <1>1 DEF Process
<1>5. failed.pc \in {"backfill", "up"} /\ failed.viewer = old.viewer
  BY <1>1 DEF Process
<1>6. starts.pc \in {"backfill", "up"} /\ starts.viewer = old.viewer
  BY <1>1 DEF Process
<1>7. fails.pc = "failed" /\ fails.viewer = old.viewer
  BY <1>1 DEF Process
<1>8. ends.pc = "up" /\ ends.viewer = old.viewer
  BY <1>1 DEF Process
<1>9. leaves.pc = "leaving" /\ leaves.viewer = old.viewer
  BY <1>1 DEF Process
<1>10. ~ (old.sentinel /\ old.viewer)
  BY <1>1 DEF ProcessOK
<1>11. CASE ReadClaims(p)
  <2>1. Become(p, reads)
    BY <1>11 DEF ReadClaims
  <2> HIDE DEF reads
  <2> QED
    BY <1>2, <1>10, <2>1, HarmlessSteps
<1>12. CASE WriteClaims(p)
  <2>1. Become(p, AfterWrite(p))
    BY <1>12 DEF WriteClaims
  <2>2. AfterWrite(p) = CASE idle.pc = "claim" -> claimed
                          [] idle.pc = "failed" -> failed
                          [] idle.pc = "leaving" -> NotRunning
                          [] OTHER -> idle
    BY DEF AfterWrite
  <2> HIDE DEF idle, claimed, failed
  <2>3. AfterWrite(p) \in {claimed, failed, NotRunning, idle}
    BY <2>2
  <2>4. ~ (old.pc = "guard" /\ AfterWrite(p).pc = "claim")
    BY <1>3, <1>4, <1>5, <2>3, NotRunningIs
  <2>5. ~ (old.sentinel /\ AfterWrite(p).viewer)
    BY <1>3, <1>4, <1>5, <1>10, <2>3, NotRunningIs
  <2> QED
    BY <2>1, <2>4, <2>5, HarmlessSteps
<1>13. CASE SentinelStarts(p)
  <2>1. Become(p, starts)
    BY <1>13 DEF SentinelStarts
  <2> HIDE DEF starts
  <2> QED
    BY <1>6, <1>10, <2>1, HarmlessSteps
<1>14. CASE SentinelFails(p)
  <2>1. Become(p, fails)
    BY <1>14 DEF SentinelFails
  <2> HIDE DEF fails
  <2> QED
    BY <1>7, <1>10, <2>1, HarmlessSteps
<1>15. CASE BackfillEnds(p)
  <2>1. Become(p, ends)
    BY <1>15 DEF BackfillEnds
  <2> HIDE DEF ends
  <2> QED
    BY <1>8, <1>10, <2>1, HarmlessSteps
<1>16. CASE Stop(p) \/ Crash(p)
  <2>1. Become(p, leaves) \/ Become(p, NotRunning)
    BY <1>16 DEF Stop, Crash
  <2> HIDE DEF leaves
  <2> QED
    BY <1>9, <1>10, <2>1, HarmlessSteps, NotRunningIs
<1> QED
  BY <1>11, <1>12, <1>13, <1>14, <1>15, <1>16

LEMMA LaunchIsHarmless ==
  ASSUME ClaimInv, NEW p \in Processes, NEW root \in ClRoots, NEW forced \in BOOLEAN,
         Launch(p, root, forced)
  PROVE  GuardHolds /\ GivesWayToHolder
<1> DEFINE proc == [NotRunning EXCEPT !.pc = "guard", !.root = root, !.forced = forced]
<1>1. Become(p, proc)
  BY DEF Launch
<1>2. proc.pc = "guard" /\ proc.viewer = FALSE
  BY DEF NotRunning
<1> HIDE DEF proc
<1> QED
  BY <1>1, <1>2, HarmlessSteps

LEMMA ClaimStepsHold ==
  ASSUME ClaimInv, [ClaimNext]_claimVars
  PROVE  [clPast.lost \/ (GuardHolds /\ GivesWayToHolder)]_claimVars
<1> SUFFICES ASSUME ClaimNext, ~clPast.lost
             PROVE  GuardHolds /\ GivesWayToHolder
  OBVIOUS
<1>1. CASE ClPeriod
  BY <1>1 DEF ClPeriod, GuardHolds, GivesWayToHolder, Enters, Yields, ClaimInv, ProcessOK
<1>2. ASSUME NEW p \in Processes, NEW root \in ClRoots, NEW forced \in BOOLEAN,
             Launch(p, root, forced)
      PROVE  GuardHolds /\ GivesWayToHolder
  BY <1>2, LaunchIsHarmless
<1>3. ASSUME NEW p \in Processes,
             \/ Guard(p) \/ ReadClaims(p) \/ WriteClaims(p)
             \/ SentinelStarts(p) \/ SentinelFails(p) \/ BackfillEnds(p)
             \/ Evaluate(p) \/ Stop(p) \/ Crash(p)
      PROVE  GuardHolds /\ GivesWayToHolder
  BY <1>3, GuardIsHeld, EvaluateGivesWay, OtherStepsHold
<1> QED
  BY <1>1, <1>2, <1>3, ClaimCases DEF ClaimNext

(* One sentinel per root, as far as claims without locks can give it: until  *)
(* an update of the setting was lost, a process that is not forced finds the  *)
(* root taken while somebody holds it uncontested, and one that gives way     *)
(* gives way to somebody.                                                  *)
THEOREM ClaimsAreHeld == ClaimSpec => ClaimsHold
<1>1. ClaimInit => ClaimInv
  BY ClaimInvInit
<1>2. ClaimInv /\ [ClaimNext]_claimVars => ClaimInv'
  BY ClaimInvNext
<1>3. ClaimInv /\ [ClaimNext]_claimVars => [clPast.lost \/ (GuardHolds /\ GivesWayToHolder)]_claimVars
  BY ClaimStepsHold
<1> QED
  BY <1>1, <1>2, <1>3, PTL DEF ClaimSpec, ClaimsHold

(***************************************************************************)
(* The live inspector                                                      *)
(***************************************************************************)
StoredStep == [id : Nat \X Nat, tool : BOOLEAN, rows : Nat]
StoredRun == [status : {"none", "in_progress", "ok"}, offset : Nat, steps : Seq(StoredStep)]
SelfFields == {"size", "known", "status", "maxSeq", "rows", "fired"}
ToldFields == {"steps", "past", "rows", "alerts", "created", "ended", "twice", "upTo", "hidden"}

(* The store has the steps up to the offset; a step's id tells its position  *)
(* and the rewrite it came after.                                          *)
StoredUpTo(r) ==
  /\ liFile[r] \in Seq(LiveItems) /\ liStore[r] \in StoredRun
  /\ liStore[r].offset \in 0..Len(liFile[r])
  /\ LiveMax(r) = StepCount(liFile[r], liStore[r].offset)
  /\ \A n \in 1..LiveMax(r) :
       liStore[r].steps[n].id[1] = n /\ liStore[r].steps[n].id[2] <= liCount.rewinds

(* What the subscribers have heard of was stored at some time: since the last  *)
(* rewrite it is in the store still, and whatever of it is in the store the   *)
(* cursor is past.                                                         *)
Heard(t) == t.steps \union t.past
WasStored(id, r) ==
  id \in Nat \X Nat /\ id[2] <= liCount.rewinds /\ (id[2] = liCount.rewinds => id[1] <= LiveMax(r))

NothingAhead(s, t, r) ==
  /\ s.maxSeq \in Nat
  /\ \A id \in Heard(t) : WasStored(id, r)
  /\ \A n \in 1..LiveMax(r) : liStore[r].steps[n].id \in Heard(t) => n <= s.maxSeq

(* What the maps hold of a run agrees with what was told of it.              *)
MapsAgree(s, t) ==
  /\ DOMAIN s = SelfFields /\ DOMAIN t = ToldFields
  /\ t.created => s.known
  /\ t.ended => s.status = "ok"
  /\ ~t.twice

ToldInv ==
  /\ liCount \in [rewinds : Nat, starts : Nat, throws : Nat]
  /\ liFile \in [LiveRuns -> Seq(LiveItems)] /\ liStore \in [LiveRuns -> StoredRun]
  /\ DOMAIN liSelf = LiveRuns /\ DOMAIN liTold = LiveRuns
  /\ \A r \in LiveRuns :
       StoredUpTo(r) /\ MapsAgree(liSelf[r], liTold[r]) /\ NothingAhead(liSelf[r], liTold[r], r)

-----------------------------------------------------------------------------
LEMMA StepCounts ==
  ASSUME NEW file, NEW n \in Nat
  PROVE  /\ StepCount(file, n) \in 0..n
         /\ \A m \in 0..n : StepCount(file, m) <= StepCount(file, n)
<1> DEFINE upTo(m) == {i \in 1..m : IsStepItem(file[i])}
<1>1. IsFiniteSet(1..n) /\ Cardinality(1..n) = n
  BY FS_Interval
<1>2. IsFiniteSet(upTo(n)) /\ Cardinality(upTo(n)) <= n
  BY <1>1, FS_Subset
<1>3. Cardinality(upTo(n)) \in Nat
  BY <1>2, FS_CardinalityType
<1>4. \A m \in 0..n : Cardinality(upTo(m)) <= Cardinality(upTo(n))
  BY <1>2, FS_Subset
<1> QED
  BY <1>2, <1>3, <1>4 DEF StepCount

LEMMA CountsGoByItems ==
  ASSUME NEW file, NEW other, NEW n \in Nat, \A i \in 1..n : other[i] = file[i]
  PROVE  StepCount(other, n) = StepCount(file, n)
BY DEF StepCount

LEMMA StoredSteps ==
  ASSUME NEW r, StoredUpTo(r)
  PROVE  /\ liStore[r].steps \in Seq(StoredStep) /\ LiveMax(r) \in Nat
         /\ \A n \in 1..LiveMax(r) :
              liStore[r].steps[n] \in StoredStep /\ liStore[r].steps[n].id \in Nat \X Nat
<1>1. liStore[r].steps \in Seq(StoredStep)
  BY DEF StoredUpTo, StoredRun
<1>2. \A n \in 1..LiveMax(r) : liStore[r].steps[n] \in StoredStep
  BY <1>1, ElementOfSeq DEF LiveMax
<1>3. LiveMax(r) \in Nat
  BY <1>1 DEF LiveMax
<1>4. \A step \in StoredStep : step.id \in Nat \X Nat
  BY DEF StoredStep
<1> QED
  BY <1>1, <1>2, <1>3, <1>4

LEMMA IdsAtAre ==
  ASSUME NEW r, NEW positions, NEW id
  PROVE  id \in IdsAt(r, positions) <=> \E n \in positions : id = liStore[r].steps[n].id
BY DEF IdsAt

(* A pass that tells a run tells nothing twice, and is past it all after.     *)
LEMMA PassTells ==
  ASSUME NEW r \in LiveRuns, StoredUpTo(r), NEW s, NEW t, MapsAgree(s, t), NothingAhead(s, t, r)
  PROVE  /\ MapsAgree(Seen(s, r), TellRun(s, t, r))
         /\ NothingAhead(Seen(s, r), TellRun(s, t, r), r)
<1> DEFINE seen == Seen(s, r)
           told == TellRun(s, t, r)
           new == IdsAt(r, NewSteps(s, r))
<1>1. LiveMax(r) \in Nat /\ \A n \in 1..LiveMax(r) : liStore[r].steps[n].id \in Nat \X Nat
  BY StoredSteps
<1>2. /\ DOMAIN seen = SelfFields /\ seen.known = TRUE
      /\ seen.status = liStore[r].status /\ seen.maxSeq = LiveMax(r)
  BY DEF MapsAgree, Seen, Cursor, SelfFields
<1>3. /\ DOMAIN told = ToldFields
      /\ told.steps = t.steps \union new /\ told.past = t.past
      /\ told.ended = (liStore[r].status = "ok" /\ (t.ended \/ Completes(s, r)))
      /\ told.twice = \/ t.twice
                      \/ ~s.known /\ t.created
                      \/ s.known /\ new \intersect (t.steps \union t.past) # {}
                      \/ Completes(s, r) /\ t.ended
  BY DEF MapsAgree, TellRun, ToldFields
<1>4. new \intersect Heard(t) = {}
  BY <1>1, IdsAtAre DEF NothingAhead, NewSteps
<1> HIDE DEF seen, told
<1>5. ~told.twice
  BY <1>3, <1>4 DEF MapsAgree, Heard, Completes
<1>6. MapsAgree(seen, told)
  BY <1>2, <1>3, <1>5 DEF MapsAgree
<1>7. \A id \in new : WasStored(id, r)
  BY <1>1, IdsAtAre DEF NewSteps, StoredUpTo, WasStored
<1>8. NothingAhead(seen, told, r)
  BY <1>1, <1>2, <1>3, <1>7 DEF NothingAhead, Heard
<1> QED
  BY <1>6, <1>8 DEF seen, told

(* So is a silent one.                                                      *)
LEMMA BackfillTells ==
  ASSUME NEW r \in LiveRuns, StoredUpTo(r), NEW s, NEW t, MapsAgree(s, t), NothingAhead(s, t, r)
  PROVE  /\ MapsAgree(Seen(s, r), Backfill(t, r))
         /\ NothingAhead(Seen(s, r), Backfill(t, r), r)
<1> DEFINE seen == Seen(s, r)
           told == Backfill(t, r)
<1>1. LiveMax(r) \in Nat /\ \A n \in 1..LiveMax(r) : liStore[r].steps[n].id \in Nat \X Nat
  BY StoredSteps
<1>2. /\ DOMAIN seen = SelfFields /\ seen.known = TRUE
      /\ seen.status = liStore[r].status /\ seen.maxSeq = LiveMax(r)
  BY DEF MapsAgree, Seen, Cursor, SelfFields
<1>3. /\ DOMAIN told = ToldFields
      /\ told.steps = t.steps /\ told.past = t.past \union AllIds(r)
      /\ told.ended = (liStore[r].status = "ok") /\ told.twice = t.twice
  BY DEF MapsAgree, Backfill, ToldFields
<1> HIDE DEF seen, told
<1>4. MapsAgree(seen, told)
  BY <1>2, <1>3 DEF MapsAgree
<1>5. \A id \in AllIds(r) : WasStored(id, r)
  BY <1>1, IdsAtAre DEF AllIds, StoredUpTo, WasStored
<1>6. NothingAhead(seen, told, r)
  BY <1>1, <1>2, <1>3, <1>5 DEF NothingAhead, Heard
<1> QED
  BY <1>4, <1>6 DEF seen, told

(* Rows, alerts and the rest have no part in it.                            *)
LEMMA SameTold ==
  ASSUME NEW r, NEW s, NEW t, MapsAgree(s, t), NothingAhead(s, t, r),
         NEW s2, DOMAIN s2 = DOMAIN s,
         s2.known = s.known, s2.status = s.status, s2.maxSeq = s.maxSeq,
         NEW t2, DOMAIN t2 = DOMAIN t, t2.steps = t.steps, t2.past = t.past,
         t2.created = t.created, t2.ended => t.ended, t2.twice = t.twice
  PROVE  MapsAgree(s2, t2) /\ NothingAhead(s2, t2, r)
BY DEF MapsAgree, NothingAhead, Heard

-----------------------------------------------------------------------------
(* What an ingest or a trim of the store leaves of it.                      *)
StoreMoves(r) ==
  /\ liFile' \in [LiveRuns -> Seq(LiveItems)] /\ liStore' \in [LiveRuns -> StoredRun]
  /\ StoredUpTo(r)'
  /\ liCount'.rewinds \in Nat
  /\ \/ /\ liCount'.rewinds = liCount.rewinds /\ LiveMax(r)' >= LiveMax(r)
        /\ \A n \in 1..LiveMax(r) : liStore'[r].steps[n].id = liStore[r].steps[n].id
        /\ \A n \in 1..LiveMax(r)' : n > LiveMax(r) => liStore'[r].steps[n].id = <<n, liCount.rewinds>>
     \/ /\ liCount'.rewinds > liCount.rewinds /\ LiveMax(r)' <= LiveMax(r)
        /\ \A n \in 1..LiveMax(r)' : liStore'[r].steps[n].id = liStore[r].steps[n].id

LEMMA StoreMovesBehind ==
  ASSUME NEW r \in LiveRuns, liCount.rewinds \in Nat, StoredUpTo(r), StoreMoves(r),
         MapsAgree(liSelf[r], liTold[r]), NothingAhead(liSelf[r], liTold[r], r),
         liSelf'[r] = liSelf[r], DOMAIN liTold'[r] = DOMAIN liTold[r],
         liTold'[r].steps = liTold[r].steps, liTold'[r].past = liTold[r].past,
         liTold'[r].created = liTold[r].created, liTold'[r].ended => liTold[r].ended,
         liTold'[r].twice = liTold[r].twice
  PROVE  StoredUpTo(r)' /\ MapsAgree(liSelf[r], liTold[r])' /\ NothingAhead(liSelf[r], liTold[r], r)'
<1>1. LiveMax(r) \in Nat /\ LiveMax(r)' \in Nat
  BY StoredSteps DEF StoreMoves, StoredUpTo, StoredRun, LiveMax
<1>2. Heard(liTold[r])' = Heard(liTold[r])
  BY DEF Heard
<1>3. ASSUME NEW id \in Heard(liTold[r])
      PROVE  WasStored(id, r)'
  BY <1>1, <1>3 DEF StoreMoves, NothingAhead, WasStored
<1>4. ASSUME NEW n \in 1..LiveMax(r)', liStore'[r].steps[n].id \in Heard(liTold[r])
      PROVE  n <= liSelf[r].maxSeq
  <2>1. CASE n > LiveMax(r) /\ liCount'.rewinds = liCount.rewinds
    <3>1. liStore'[r].steps[n].id = <<n, liCount.rewinds>>
      BY <2>1 DEF StoreMoves
    <3>2. WasStored(<<n, liCount.rewinds>>, r)
      BY <1>4, <3>1 DEF NothingAhead
    <3> QED
      BY <1>1, <2>1, <3>2 DEF WasStored
  <2>2. CASE n <= LiveMax(r)
    <3>1. n \in 1..LiveMax(r)
      BY <1>1, <2>2
    <3>2. liStore'[r].steps[n].id = liStore[r].steps[n].id
      BY <1>1, <1>4, <3>1 DEF StoreMoves
    <3> QED
      BY <1>4, <3>1, <3>2 DEF NothingAhead
  <2> QED
    BY <1>1, <2>1, <2>2 DEF StoreMoves
<1>5. NothingAhead(liSelf[r], liTold[r], r)'
  BY <1>2, <1>3, <1>4 DEF NothingAhead
<1>6. MapsAgree(liSelf[r], liTold[r])'
  BY DEF MapsAgree
<1> QED
  BY <1>5, <1>6 DEF StoreMoves

(* A pass looks at the store and leaves it as it is.                        *)
LEMMA StoreStays ==
  ASSUME NEW r \in LiveRuns, UNCHANGED <<liFile, liStore>>, liCount'.rewinds = liCount.rewinds,
         StoredUpTo(r), MapsAgree(liSelf'[r], liTold'[r]), NothingAhead(liSelf'[r], liTold'[r], r)
  PROVE  StoredUpTo(r)' /\ MapsAgree(liSelf[r], liTold[r])' /\ NothingAhead(liSelf[r], liTold[r], r)'
<1>1. LiveMax(r)' = LiveMax(r)
  BY DEF LiveMax
<1> QED
  BY <1>1 DEF StoredUpTo, StepCount, MapsAgree, NothingAhead, WasStored, Heard

-----------------------------------------------------------------------------
(* What an ingest leaves.                                                   *)
LEMMA StatusIs == ASSUME NEW file PROVE StatusOf(file) \in {"none", "in_progress", "ok"}
BY DEF StatusOf

LEMMA IngestedIs ==
  ASSUME ToldInv, NEW r \in LiveRuns
  PROVE  /\ Ingested(r) \in StoredRun /\ Ingested(r).offset = Len(liFile[r])
         /\ Len(Ingested(r).steps) = StepCount(liFile[r], Len(liFile[r]))
         /\ Len(Ingested(r).steps) >= LiveMax(r)
         /\ \A n \in 1..Len(Ingested(r).steps) :
              Ingested(r).steps[n].id = IF n <= LiveMax(r) THEN liStore[r].steps[n].id
                                        ELSE <<n, liCount.rewinds>>
<1> DEFINE count == StepCount(liFile[r], Len(liFile[r]))
           tool(n) == StepItems(liFile[r])[n] = "tool"
           step(n) == IF n <= Len(liStore[r].steps) THEN liStore[r].steps[n]
                      ELSE [id |-> <<n, liCount.rewinds>>, tool |-> tool(n), rows |-> 0]
           steps == [n \in 1..count |-> step(n)]
<1>1. StoredUpTo(r) /\ liCount.rewinds \in Nat
  BY DEF ToldInv
<1>2. Len(liFile[r]) \in Nat /\ liStore[r].offset \in 0..Len(liFile[r])
  BY <1>1 DEF StoredUpTo
<1>3. count \in Nat /\ LiveMax(r) <= count /\ LiveMax(r) \in Nat
  BY <1>1, <1>2, StepCounts, StoredSteps DEF StoredUpTo
<1>4. \A n \in 1..count : step(n) \in StoredStep
  <2> SUFFICES ASSUME NEW n \in 1..count PROVE step(n) \in StoredStep
    OBVIOUS
  <2>1. CASE n <= LiveMax(r)
    BY <1>1, <1>3, <2>1, StoredSteps DEF LiveMax
  <2>2. CASE ~ (n <= LiveMax(r))
    BY <1>1, <1>3, <2>2 DEF LiveMax, StoredStep
  <2> QED
    BY <2>1, <2>2
<1>5. Ingested(r) = [status |-> StatusOf(liFile[r]), offset |-> Len(liFile[r]), steps |-> steps]
  BY DEF Ingested
<1>6. \A n \in 1..count : step(n).id = IF n <= LiveMax(r) THEN liStore[r].steps[n].id
                                       ELSE <<n, liCount.rewinds>>
  BY DEF LiveMax
<1> HIDE DEF count, step
<1>7. steps \in Seq(StoredStep) /\ Len(steps) = count /\ \A n \in 1..count : steps[n] = step(n)
  BY <1>3, <1>4, IsASeq
<1> HIDE DEF steps
<1> QED
  BY <1>2, <1>3, <1>5, <1>6, <1>7, StatusIs DEF StoredRun, count

LEMMA IngestMoves ==
  ASSUME ToldInv, NEW r \in LiveRuns, liStore' = [liStore EXCEPT ![r] = Ingested(r)],
         liFile' = liFile, liCount' = liCount
  PROVE  StoreMoves(r)
<1>1. liStore'[r] = Ingested(r) /\ liStore' \in [LiveRuns -> StoredRun]
  BY IngestedIs DEF ToldInv
<1>2. LiveMax(r) \in Nat /\ LiveMax(r)' = Len(Ingested(r).steps) /\ LiveMax(r)' \in Nat
  BY <1>1, StoredSteps, IngestedIs DEF ToldInv, LiveMax, StoredRun
<1>3. Len(liFile[r]) \in Nat /\ liFile[r] \in Seq(LiveItems)
  BY DEF ToldInv
<1>4. ASSUME NEW n \in 1..LiveMax(r)'
      PROVE  /\ n <= LiveMax(r) => liStore'[r].steps[n].id = liStore[r].steps[n].id
             /\ ~ (n <= LiveMax(r)) => liStore'[r].steps[n].id = <<n, liCount.rewinds>>
  <2>1. n \in 1..Len(Ingested(r).steps)
    BY <1>2
  <2> QED
    BY <1>1, <2>1, IngestedIs
<1>5. \A n \in 1..LiveMax(r)' :
        liStore'[r].steps[n].id[1] = n /\ liStore'[r].steps[n].id[2] <= liCount.rewinds
  <2> SUFFICES ASSUME NEW n \in 1..LiveMax(r)'
               PROVE  liStore'[r].steps[n].id[1] = n /\ liStore'[r].steps[n].id[2] <= liCount.rewinds
    OBVIOUS
  <2>1. CASE n <= LiveMax(r)
    <3>1. n \in 1..LiveMax(r) /\ liStore'[r].steps[n].id = liStore[r].steps[n].id
      BY <1>2, <1>4, <2>1
    <3> QED
      BY <3>1 DEF ToldInv, StoredUpTo
  <2>2. CASE ~ (n <= LiveMax(r))
    <3>1. liStore'[r].steps[n].id = <<n, liCount.rewinds>> /\ liCount.rewinds \in Nat
      BY <1>4, <2>2 DEF ToldInv
    <3> QED
      BY <3>1
  <2> QED
    BY <2>1, <2>2
<1>6. StoredUpTo(r)'
  BY <1>1, <1>2, <1>3, <1>5, IngestedIs DEF StoredUpTo
<1>7. LiveMax(r)' >= LiveMax(r)
  BY <1>2, IngestedIs
<1>8. ASSUME NEW n \in 1..LiveMax(r)
      PROVE  liStore'[r].steps[n].id = liStore[r].steps[n].id
  <2>1. n \in 1..LiveMax(r)' /\ n <= LiveMax(r)
    BY <1>2, <1>7
  <2> QED
    BY <2>1, <1>4
<1>9. liFile' \in [LiveRuns -> Seq(LiveItems)] /\ liCount'.rewinds = liCount.rewinds /\ liCount'.rewinds \in Nat
  BY DEF ToldInv
<1>10. ASSUME NEW n \in 1..LiveMax(r)', n > LiveMax(r)
       PROVE  liStore'[r].steps[n].id = <<n, liCount.rewinds>>
  <2>1. ~ (n <= LiveMax(r))
    BY <1>2, <1>10
  <2> QED
    BY <2>1, <1>4
<1> QED
  BY <1>1, <1>6, <1>7, <1>8, <1>9, <1>10 DEF StoreMoves

(* A source that was cut and the store's tail with it.                      *)
LEMMA RewindMoves ==
  ASSUME ToldInv, NEW r \in LiveRuns, OtherRewinds(r)
  PROVE  StoreMoves(r)
<1>1. PICK n \in 1..(Len(liFile[r]) - 1) :
        LET file == SubSeq(liFile[r], 1, n)
        IN  /\ liFile' = [liFile EXCEPT ![r] = file]
            /\ liStore' = [liStore EXCEPT ![r] = [status |-> StatusOf(file), offset |-> n,
                  steps |-> SubSeq(liStore[r].steps, 1, StepCount(file, n))]]
  BY DEF OtherRewinds
<1> DEFINE file == SubSeq(liFile[r], 1, n)
           steps == SubSeq(liStore[r].steps, 1, StepCount(file, n))
<1>2. /\ liFile[r] \in Seq(LiveItems) /\ Len(liFile[r]) \in Nat
      /\ StoredUpTo(r) /\ liStore[r].offset = Len(liFile[r])
      /\ liCount.rewinds \in Nat /\ liCount'.rewinds = liCount.rewinds + 1
  BY DEF ToldInv, OtherRewinds
<1>3. n \in Nat /\ n \in 0..Len(liFile[r])
  BY <1>2
<1>4. file \in Seq(LiveItems) /\ Len(file) = n /\ \A i \in 1..n : file[i] = liFile[r][i]
  BY <1>2, <1>3, SubSeqProperties
<1> HIDE DEF file
<1>5. StepCount(file, n) \in Nat /\ StepCount(file, n) <= LiveMax(r)
  <2>1. StepCount(file, n) = StepCount(liFile[r], n)
    BY <1>3, <1>4, CountsGoByItems
  <2>2. StepCount(liFile[r], n) \in 0..n
    BY <1>3, StepCounts
  <2>3. StepCount(liFile[r], n) <= StepCount(liFile[r], Len(liFile[r]))
    BY <1>2, <1>3, StepCounts
  <2>4. LiveMax(r) = StepCount(liFile[r], Len(liFile[r]))
    BY <1>2 DEF StoredUpTo
  <2> QED
    BY <1>3, <2>1, <2>2, <2>3, <2>4
<1>6. liStore[r].steps \in Seq(StoredStep) /\ LiveMax(r) \in Nat /\ LiveMax(r) = Len(liStore[r].steps)
  BY <1>2, StoredSteps DEF LiveMax
<1>7. /\ steps \in Seq(StoredStep) /\ Len(steps) = StepCount(file, n)
      /\ \A i \in 1..StepCount(file, n) : steps[i] = liStore[r].steps[i]
  BY <1>5, <1>6, SubSeqProperties
<1> HIDE DEF steps
<1>8. /\ liStore'[r] = [status |-> StatusOf(file), offset |-> n, steps |-> steps]
      /\ liFile'[r] = file
  BY <1>1 DEF ToldInv, file, steps
<1>9. [status |-> StatusOf(file), offset |-> n, steps |-> steps] \in StoredRun
  BY <1>3, <1>7, StatusIs DEF StoredRun
<1>10. liStore' \in [LiveRuns -> StoredRun] /\ liFile' \in [LiveRuns -> Seq(LiveItems)]
  BY <1>1, <1>4, <1>9 DEF ToldInv, file, steps
<1>11. LiveMax(r)' = StepCount(file, n)
  BY <1>7, <1>8 DEF LiveMax
<1>12. \A i \in 1..LiveMax(r)' :
         i \in 1..LiveMax(r) /\ liStore'[r].steps[i].id = liStore[r].steps[i].id
  BY <1>5, <1>6, <1>7, <1>8, <1>11
<1>13. \A i \in 1..LiveMax(r)' :
         liStore'[r].steps[i].id[1] = i /\ liStore'[r].steps[i].id[2] <= liCount'.rewinds
  <2> SUFFICES ASSUME NEW i \in 1..LiveMax(r)'
               PROVE  liStore'[r].steps[i].id[1] = i /\ liStore'[r].steps[i].id[2] <= liCount'.rewinds
    OBVIOUS
  <2>1. i \in 1..LiveMax(r) /\ liStore'[r].steps[i].id = liStore[r].steps[i].id
    BY <1>12
  <2>2. liStore[r].steps[i].id \in Nat \X Nat
    BY <1>2, <2>1, StoredSteps
  <2>3. liStore[r].steps[i].id[1] = i /\ liStore[r].steps[i].id[2] <= liCount.rewinds
    BY <1>2, <2>1 DEF StoredUpTo
  <2> QED
    BY <1>2, <2>1, <2>2, <2>3
<1>14. StoredUpTo(r)'
  BY <1>3, <1>4, <1>8, <1>9, <1>11, <1>13 DEF StoredUpTo
<1>15. LiveMax(r)' <= LiveMax(r) /\ liCount'.rewinds > liCount.rewinds /\ liCount'.rewinds \in Nat
  BY <1>2, <1>5, <1>11
<1> QED
  BY <1>10, <1>12, <1>14, <1>15 DEF StoreMoves

LEMMA RowMoves ==
  ASSUME ToldInv, NEW r \in LiveRuns, OtherRow(r)
  PROVE  StoreMoves(r)
<1> DEFINE old == liStore[r].steps
           step == [old[LiveMax(r)] EXCEPT !.rows = @ + 1]
           steps == [old EXCEPT ![LiveMax(r)] = step]
           run == [liStore[r] EXCEPT !.steps = steps]
<1>1. StoredUpTo(r) /\ old \in Seq(StoredStep) /\ LiveMax(r) \in Nat /\ LiveMax(r) = Len(old)
  BY StoredSteps DEF ToldInv, LiveMax
<1>2. liStore' = [liStore EXCEPT ![r] = run] /\ old # <<>> /\ UNCHANGED <<liFile, liCount>>
  BY DEF OtherRow
<1>3. LiveMax(r) \in 1..LiveMax(r)
  BY <1>1, <1>2, EmptySeq
<1>4. step \in StoredStep /\ step.id = old[LiveMax(r)].id
  <2>1. old[LiveMax(r)] \in StoredStep
    BY <1>1, <1>3, StoredSteps
  <2> DEFINE last == old[LiveMax(r)]
  <2> HIDE DEF last
  <2>2. last \in StoredStep
    BY <2>1 DEF last
  <2>3. [last EXCEPT !.rows = @ + 1] \in StoredStep /\ [last EXCEPT !.rows = @ + 1].id = last.id
    BY <2>2 DEF StoredStep
  <2> QED
    BY <2>3 DEF last
<1> HIDE DEF step
<1>5. /\ steps \in Seq(StoredStep) /\ Len(steps) = LiveMax(r)
      /\ \A n \in 1..LiveMax(r) : steps[n] = IF n = LiveMax(r) THEN step ELSE old[n]
  BY <1>1, <1>3, <1>4, ExceptSeq
<1> HIDE DEF steps
<1>6. run \in StoredRun /\ run.offset = liStore[r].offset /\ run.steps = steps
  BY <1>5 DEF ToldInv, StoredRun
<1> HIDE DEF run
<1>7. liStore'[r] = run /\ liStore' \in [LiveRuns -> StoredRun]
  BY <1>2, <1>6 DEF ToldInv
<1>8. LiveMax(r)' = LiveMax(r)
  BY <1>5, <1>6, <1>7 DEF LiveMax
<1>9. \A n \in 1..LiveMax(r) : liStore'[r].steps[n].id = liStore[r].steps[n].id
  BY <1>4, <1>5, <1>6, <1>7
<1>10. liCount' = liCount /\ liFile' = liFile
  BY <1>2
<1>11. StoredUpTo(r)'
  BY <1>1, <1>6, <1>7, <1>8, <1>9, <1>10 DEF StoredUpTo, StepCount
<1> QED
  BY <1>1, <1>7, <1>8, <1>9, <1>10, <1>11 DEF StoreMoves, ToldInv

(* A run whose store is left alone, its file grown or not.                   *)
LEMMA FileGrows ==
  ASSUME ToldInv, NEW r \in LiveRuns, liStore'[r] = liStore[r],
         liFile' \in [LiveRuns -> Seq(LiveItems)], liStore' \in [LiveRuns -> StoredRun],
         Len(liFile'[r]) >= Len(liFile[r]), \A i \in 1..Len(liFile[r]) : liFile'[r][i] = liFile[r][i],
         liCount'.rewinds \in Nat, liCount'.rewinds >= liCount.rewinds
  PROVE  StoreMoves(r)
<1>1. /\ liFile[r] \in Seq(LiveItems) /\ Len(liFile[r]) \in Nat /\ liStore[r] \in StoredRun
      /\ StoredUpTo(r) /\ liStore[r].offset \in 0..Len(liFile[r]) /\ liCount.rewinds \in Nat
  <2>1. StoredUpTo(r) /\ liCount.rewinds \in Nat
    BY DEF ToldInv
  <2>2. liFile[r] \in Seq(LiveItems) /\ liStore[r] \in StoredRun /\ liStore[r].offset \in 0..Len(liFile[r])
    BY <2>1 DEF StoredUpTo
  <2>3. Len(liFile[r]) \in Nat
    BY <2>2
  <2> QED
    BY <2>1, <2>2, <2>3
<1>2. LiveMax(r)' = LiveMax(r) /\ LiveMax(r) \in Nat
  BY <1>1, StoredSteps DEF LiveMax
<1>3. StepCount(liFile'[r], liStore[r].offset) = StepCount(liFile[r], liStore[r].offset)
  <2>1. liStore[r].offset \in Nat /\ liStore[r].offset <= Len(liFile[r])
    BY <1>1
  <2>2. \A i \in 1..liStore[r].offset : liFile'[r][i] = liFile[r][i]
    BY <1>1, <2>1
  <2> QED
    BY <2>1, <2>2, CountsGoByItems
<1>4. \A n \in 1..LiveMax(r) : liStore[r].steps[n].id[1] = n /\ liStore[r].steps[n].id[2] <= liCount'.rewinds
  <2> SUFFICES ASSUME NEW n \in 1..LiveMax(r)
               PROVE  liStore[r].steps[n].id[1] = n /\ liStore[r].steps[n].id[2] <= liCount'.rewinds
    OBVIOUS
  <2>1. liStore[r].steps[n].id \in Nat \X Nat
    BY <1>1, StoredSteps
  <2>2. liStore[r].steps[n].id[1] = n /\ liStore[r].steps[n].id[2] <= liCount.rewinds
    BY <1>1 DEF StoredUpTo
  <2> QED
    BY <1>1, <2>1, <2>2
<1>5. liFile'[r] \in Seq(LiveItems) /\ Len(liFile'[r]) \in Nat
  OBVIOUS
<1>6. StoredUpTo(r)'
  BY <1>1, <1>2, <1>3, <1>4, <1>5 DEF StoredUpTo
<1>7. CASE liCount'.rewinds = liCount.rewinds
  BY <1>2, <1>6, <1>7 DEF StoreMoves
<1>8. CASE liCount'.rewinds > liCount.rewinds
  BY <1>2, <1>6, <1>8 DEF StoreMoves
<1> QED
  BY <1>1, <1>7, <1>8

(* What StoreMovesBehind asks of a step that tells nothing.                  *)
ToldKept(r) ==
  /\ DOMAIN liTold'[r] = DOMAIN liTold[r]
  /\ liTold'[r].steps = liTold[r].steps /\ liTold'[r].past = liTold[r].past
  /\ liTold'[r].created = liTold[r].created /\ (liTold'[r].ended => liTold[r].ended)
  /\ liTold'[r].twice = liTold[r].twice

LiveCounts == [rewinds : Nat, starts : Nat, throws : Nat]

LEMMA StoreMoved ==
  ASSUME ToldInv, liCount' \in LiveCounts, liSelf' = liSelf, DOMAIN liTold' = LiveRuns,
         liFile' \in [LiveRuns -> Seq(LiveItems)], liStore' \in [LiveRuns -> StoredRun],
         \A r \in LiveRuns : StoreMoves(r) /\ ToldKept(r)
  PROVE  ToldInv'
<1>1. ASSUME NEW r \in LiveRuns
      PROVE  StoredUpTo(r)' /\ MapsAgree(liSelf[r], liTold[r])' /\ NothingAhead(liSelf[r], liTold[r], r)'
  <2>1. StoreMoves(r) /\ ToldKept(r) /\ liSelf'[r] = liSelf[r]
    OBVIOUS
  <2>2. /\ StoredUpTo(r) /\ MapsAgree(liSelf[r], liTold[r]) /\ NothingAhead(liSelf[r], liTold[r], r)
        /\ liCount.rewinds \in Nat
    BY DEF ToldInv
  <2> QED
    BY <2>1, <2>2, StoreMovesBehind DEF ToldKept
<1> QED
  BY <1>1 DEF ToldInv, LiveCounts

LEMMA StorePassed ==
  ASSUME ToldInv, UNCHANGED <<liFile, liStore>>, liCount' \in LiveCounts,
         liCount'.rewinds = liCount.rewinds, DOMAIN liSelf' = LiveRuns, DOMAIN liTold' = LiveRuns,
         \A r \in LiveRuns : MapsAgree(liSelf'[r], liTold'[r]) /\ NothingAhead(liSelf'[r], liTold'[r], r)
  PROVE  ToldInv'
<1>1. ASSUME NEW r \in LiveRuns
      PROVE  StoredUpTo(r)' /\ MapsAgree(liSelf[r], liTold[r])' /\ NothingAhead(liSelf[r], liTold[r], r)'
  <2>1. StoredUpTo(r)
    BY DEF ToldInv
  <2> QED
    BY <2>1, StoreStays
<1> QED
  BY <1>1 DEF ToldInv, LiveCounts

-----------------------------------------------------------------------------
(* The steps of the sessions, of other processes, and of the inspector.      *)
LEMMA SessionGrowsTells ==
  ASSUME ToldInv, NEW q \in LiveRuns, SessionGrows(q)
  PROVE  ToldInv'
<1>1. PICK item \in LiveItems : liFile' = [liFile EXCEPT ![q] = Append(@, item)]
  BY DEF SessionGrows
<1>2. UNCHANGED <<liStore, liSelf, liTold, liCount>>
  BY DEF SessionGrows
<1>3. liFile \in [LiveRuns -> Seq(LiveItems)] /\ liFile' \in [LiveRuns -> Seq(LiveItems)]
  BY <1>1 DEF ToldInv
<1>4. ASSUME NEW r \in LiveRuns
      PROVE  /\ Len(liFile'[r]) >= Len(liFile[r])
             /\ \A i \in 1..Len(liFile[r]) : liFile'[r][i] = liFile[r][i]
  <2>1. CASE r = q
    BY <1>1, <1>3, <2>1
  <2>2. CASE r # q
    BY <1>1, <1>3, <2>2
  <2> QED
    BY <2>1, <2>2
<1>5. ASSUME NEW r \in LiveRuns PROVE StoreMoves(r)
  <2>1. liStore' \in [LiveRuns -> StoredRun] /\ liCount'.rewinds \in Nat /\ liCount'.rewinds >= liCount.rewinds
    BY <1>2 DEF ToldInv
  <2>2. liStore'[r] = liStore[r]
    BY <1>2
  <2> QED
    BY <1>3, <1>4, <2>1, <2>2, FileGrows
<1>6. ASSUME NEW r \in LiveRuns PROVE ToldKept(r)
  BY <1>2 DEF ToldKept
<1> QED
  BY <1>2, <1>3, <1>5, <1>6, StoreMoved DEF ToldInv, LiveCounts

(* Where one run's store moves, the others stay as they are.                  *)
LEMMA OthersMove ==
  ASSUME ToldInv, NEW q \in LiveRuns, StoreMoves(q), NEW r \in LiveRuns, r # q,
         liStore'[r] = liStore[r], liFile'[r] = liFile[r], liCount'.rewinds >= liCount.rewinds
  PROVE  StoreMoves(r)
<1>1. /\ liFile' \in [LiveRuns -> Seq(LiveItems)] /\ liStore' \in [LiveRuns -> StoredRun]
      /\ liCount'.rewinds \in Nat
  BY DEF StoreMoves
<1>2. Len(liFile[r]) \in Nat
  BY DEF ToldInv
<1> QED
  BY <1>1, <1>2, FileGrows

LEMMA StoreIngestTells ==
  ASSUME ToldInv, NEW q \in LiveRuns, StoreIngest(q), UNCHANGED <<liFile, liSelf, liCount>>
  PROVE  ToldInv'
<1>1. liStore' = [liStore EXCEPT ![q] = Ingested(q)] /\ liFile' = liFile /\ liCount' = liCount
  BY DEF StoreIngest
<1>2. StoreMoves(q)
  BY <1>1, IngestMoves
<1>3. liCount \in LiveCounts /\ liCount.rewinds \in Nat
  BY DEF ToldInv, LiveCounts
<1>4. ASSUME NEW r \in LiveRuns PROVE StoreMoves(r)
  <2>1. CASE r # q
    <3>1. liStore'[r] = liStore[r]
      BY <1>1, <2>1 DEF ToldInv
    <3> QED
      BY <1>1, <1>2, <1>3, <2>1, <3>1, OthersMove DEF ToldInv
  <2> QED
    BY <1>2, <2>1
<1>5. ASSUME NEW r \in LiveRuns PROVE ToldKept(r)
  <2>1. DOMAIN liTold[r] = ToldFields
    BY DEF ToldInv, MapsAgree
  <2> QED
    BY <2>1 DEF StoreIngest, ToldKept, ToldFields, ToldInv
<1>6. DOMAIN liTold' = LiveRuns
  BY DEF StoreIngest, ToldInv
<1> QED
  BY <1>1, <1>2, <1>3, <1>4, <1>5, <1>6, StoreMoved DEF StoreMoves

LEMMA OtherRewindsTells ==
  ASSUME ToldInv, NEW q \in LiveRuns, OtherRewinds(q)
  PROVE  ToldInv'
<1>1. PICK n \in 1..(Len(liFile[q]) - 1) :
        LET file == SubSeq(liFile[q], 1, n)
        IN  /\ liFile' = [liFile EXCEPT ![q] = file]
            /\ liStore' = [liStore EXCEPT ![q] = [status |-> StatusOf(file), offset |-> n,
                  steps |-> SubSeq(liStore[q].steps, 1, StepCount(file, n))]]
            /\ liTold' = [liTold EXCEPT ![q].ended = @ /\ StatusOf(file) = "ok"]
  BY DEF OtherRewinds
<1>2. StoreMoves(q)
  BY RewindMoves
<1>3. liCount \in LiveCounts /\ liCount' = [liCount EXCEPT !.rewinds = @ + 1] /\ liSelf' = liSelf
  BY DEF ToldInv, LiveCounts, OtherRewinds
<1>4. liCount' \in LiveCounts /\ liCount'.rewinds >= liCount.rewinds
  BY <1>3 DEF LiveCounts
<1>5. ASSUME NEW r \in LiveRuns PROVE StoreMoves(r)
  <2>1. CASE r # q
    <3>1. liStore'[r] = liStore[r] /\ liFile'[r] = liFile[r]
      BY <1>1, <2>1 DEF ToldInv
    <3> QED
      BY <1>2, <1>4, <2>1, <3>1, OthersMove
  <2> QED
    BY <1>2, <2>1
<1>6. ASSUME NEW r \in LiveRuns PROVE ToldKept(r)
  <2>1. DOMAIN liTold[r] = ToldFields
    BY DEF ToldInv, MapsAgree
  <2> QED
    BY <1>1, <2>1 DEF ToldKept, ToldFields, ToldInv
<1>7. DOMAIN liTold' = LiveRuns
  BY <1>1 DEF ToldInv
<1> QED
  BY <1>2, <1>3, <1>4, <1>5, <1>6, <1>7, StoreMoved DEF StoreMoves

LEMMA OtherRowTells ==
  ASSUME ToldInv, NEW q \in LiveRuns, OtherRow(q)
  PROVE  ToldInv'
<1>1. UNCHANGED <<liFile, liSelf, liTold, liCount>> /\ StoreMoves(q)
  BY RowMoves DEF OtherRow
<1>2. liCount \in LiveCounts /\ liCount.rewinds \in Nat
  BY DEF ToldInv, LiveCounts
<1>3. ASSUME NEW r \in LiveRuns PROVE StoreMoves(r)
  <2>1. CASE r # q
    <3>1. liStore'[r] = liStore[r]
      BY <2>1 DEF ToldInv, OtherRow
    <3> QED
      BY <1>1, <1>2, <2>1, <3>1, OthersMove
  <2> QED
    BY <1>1, <2>1
<1>4. ASSUME NEW r \in LiveRuns PROVE ToldKept(r)
  BY <1>1 DEF ToldKept
<1> QED
  BY <1>1, <1>2, <1>3, <1>4, StoreMoved DEF StoreMoves, ToldInv

(* start() seeds the maps and the subscribers' past from the same store.       *)
LEMMA LiveStartTells ==
  ASSUME ToldInv, LiveStart
  PROVE  ToldInv'
<1>1. /\ UNCHANGED <<liFile, liStore>> /\ liCount' = [liCount EXCEPT !.starts = @ + 1]
      /\ liSelf' = [r \in LiveRuns |->
           IF liStore[r].status = "none" THEN NothingSeen
           ELSE [NothingSeen EXCEPT !.known = TRUE, !.status = liStore[r].status,
                                    !.maxSeq = LiveMax(r)]]
      /\ liTold' = [r \in LiveRuns |->
           IF liStore[r].status = "none" THEN NothingTold
           ELSE [Backfill(NothingTold, r) EXCEPT !.rows = NoRows]]
  BY DEF LiveStart
<1>2. liCount' \in LiveCounts /\ liCount'.rewinds = liCount.rewinds
  <2>1. liCount \in LiveCounts
    BY DEF ToldInv, LiveCounts
  <2>2. liCount' = [liCount EXCEPT !.starts = @ + 1]
    BY <1>1
  <2> QED
    BY <2>1, <2>2 DEF LiveCounts
<1>3. ASSUME NEW r \in LiveRuns
      PROVE  MapsAgree(liSelf'[r], liTold'[r]) /\ NothingAhead(liSelf'[r], liTold'[r], r)
  <2>1. /\ StoredUpTo(r) /\ LiveMax(r) \in Nat
        /\ \A n \in 1..LiveMax(r) : liStore[r].steps[n].id \in Nat \X Nat
    BY StoredSteps DEF ToldInv
  <2>2. CASE liStore[r].status = "none"
    <3>1. liSelf'[r] = NothingSeen /\ liTold'[r] = NothingTold
      BY <1>1, <2>2
    <3>2. MapsAgree(NothingSeen, NothingTold)
      BY DEF MapsAgree, NothingSeen, NothingTold, SelfFields, ToldFields
    <3>3. NothingSeen.maxSeq = 0 /\ Heard(NothingTold) = {}
      BY DEF NothingSeen, NothingTold, Heard
    <3> QED
      BY <3>1, <3>2, <3>3 DEF NothingAhead
  <2>3. CASE liStore[r].status # "none"
    <3>1. /\ DOMAIN liSelf'[r] = SelfFields /\ liSelf'[r].known = TRUE
          /\ liSelf'[r].status = liStore[r].status /\ liSelf'[r].maxSeq = LiveMax(r)
      BY <1>1, <2>3 DEF NothingSeen, SelfFields
    <3>2. /\ DOMAIN liTold'[r] = ToldFields /\ Heard(liTold'[r]) = AllIds(r)
          /\ (liTold'[r].ended => liStore[r].status = "ok") /\ ~liTold'[r].twice
      BY <1>1, <2>3 DEF Backfill, NothingTold, ToldFields, Heard
    <3>3. MapsAgree(liSelf'[r], liTold'[r])
      BY <3>1, <3>2 DEF MapsAgree
    <3>4. \A id \in AllIds(r) : WasStored(id, r)
      BY <2>1, IdsAtAre DEF AllIds, StoredUpTo, WasStored
    <3>5. NothingAhead(liSelf'[r], liTold'[r], r)
      BY <2>1, <3>1, <3>2, <3>4 DEF NothingAhead
    <3> QED
      BY <3>3, <3>5
  <2> QED
    BY <2>2, <2>3
<1> QED
  BY <1>1, <1>2, <1>3, StorePassed

(* A tick that looks at files, marks or skips leaves what was told as it is.    *)
LEMMA QuietTick ==
  ASSUME ToldInv, UNCHANGED <<liFile, liStore, liTold>>, liCount' \in LiveCounts,
         liCount'.rewinds = liCount.rewinds, DOMAIN liSelf' = LiveRuns,
         \A r \in LiveRuns : /\ DOMAIN liSelf'[r] = DOMAIN liSelf[r]
                            /\ liSelf'[r].known = liSelf[r].known
                            /\ liSelf'[r].status = liSelf[r].status
                            /\ liSelf'[r].maxSeq = liSelf[r].maxSeq
  PROVE  ToldInv'
<1>1. ASSUME NEW r \in LiveRuns
      PROVE  MapsAgree(liSelf'[r], liTold'[r]) /\ NothingAhead(liSelf'[r], liTold'[r], r)
  <2>1. MapsAgree(liSelf[r], liTold[r]) /\ NothingAhead(liSelf[r], liTold[r], r) /\ liTold'[r] = liTold[r]
    BY DEF ToldInv
  <2> QED
    BY <2>1, SameTold
<1>2. DOMAIN liTold' = LiveRuns
  BY DEF ToldInv
<1> QED
  BY <1>1, <1>2, StorePassed

LEMMA TickMarkTells ==
  ASSUME ToldInv, NEW t \in LiveTicks, TickMark(t)
  PROVE  ToldInv'
<1> DEFINE grown == {r \in LiveRuns : liTick[t].sizes[r] > liSelf[r].size}
<1>1. /\ UNCHANGED <<liFile, liStore, liTold, liCount>>
      /\ liSelf' = [r \in LiveRuns |->
           IF r \in grown THEN [liSelf[r] EXCEPT !.size = liTick[t].sizes[r]] ELSE liSelf[r]]
  BY DEF TickMark
<1>2. ASSUME NEW r \in LiveRuns
      PROVE  /\ DOMAIN liSelf'[r] = DOMAIN liSelf[r]
             /\ liSelf'[r].known = liSelf[r].known
             /\ liSelf'[r].status = liSelf[r].status
             /\ liSelf'[r].maxSeq = liSelf[r].maxSeq
  <2> HIDE DEF grown
  <2>1. DOMAIN liSelf[r] = SelfFields
    BY DEF ToldInv, MapsAgree
  <2>2. CASE r \in grown
    BY <1>1, <2>1, <2>2 DEF SelfFields
  <2>3. CASE r \notin grown
    BY <1>1, <2>3
  <2> QED
    BY <2>2, <2>3
<1>3. liCount' \in LiveCounts /\ liCount'.rewinds = liCount.rewinds /\ DOMAIN liSelf' = LiveRuns
  BY <1>1 DEF ToldInv, LiveCounts
<1> QED
  BY <1>1, <1>2, <1>3, QuietTick

LEMMA TickAnnounceTells ==
  ASSUME ToldInv, NEW t \in LiveTicks, NEW q \in LiveRuns, TickAnnounce(t, q)
  PROVE  ToldInv'
<1> DEFINE s == liSelf[q]
           seen == liSelf'[q]
           told == liTold'[q]
<1>1. /\ UNCHANGED <<liFile, liStore, liCount>>
      /\ liSelf' = [liSelf EXCEPT ![q] = seen] /\ liTold' = [liTold EXCEPT ![q] = told]
  BY DEF TickAnnounce, ToldInv
<1>2. /\ StoredUpTo(q) /\ MapsAgree(s, liTold[q]) /\ NothingAhead(s, liTold[q], q)
      /\ DOMAIN s = SelfFields /\ DOMAIN liTold[q] = ToldFields
  BY DEF ToldInv, MapsAgree
<1>3. /\ DOMAIN seen = DOMAIN Seen(s, q) /\ seen.known = Seen(s, q).known
      /\ seen.status = Seen(s, q).status /\ seen.maxSeq = Seen(s, q).maxSeq
  <2>1. DOMAIN Seen(s, q) = SelfFields
    BY <1>2 DEF Seen
  <2>2. \E rows, fired : seen = [Seen(s, q) EXCEPT !.rows = rows, !.fired = fired]
    BY DEF TickAnnounce, ToldInv
  <2> QED
    BY <2>1, <2>2 DEF SelfFields
<1>4. ASSUME liUp # "up" PROVE MapsAgree(seen, told) /\ NothingAhead(seen, told, q)
  <2>1. told = Backfill(liTold[q], q)
    BY <1>4 DEF TickAnnounce, ToldInv
  <2> QED
    BY <1>2, <1>3, <2>1, BackfillTells, SameTold
<1>5. ASSUME liUp = "up" PROVE MapsAgree(seen, told) /\ NothingAhead(seen, told, q)
  <2> DEFINE tell == TellRun(s, liTold[q], q)
  <2>1. told = [tell EXCEPT !.alerts = @ \union AlertKeys(s, q)]
    BY <1>5 DEF TickAnnounce, ToldInv
  <2>2. DOMAIN tell = ToldFields
    BY <1>2 DEF TellRun
  <2> HIDE DEF tell
  <2>3. /\ DOMAIN told = DOMAIN tell /\ told.steps = tell.steps /\ told.past = tell.past
        /\ told.created = tell.created /\ told.ended = tell.ended /\ told.twice = tell.twice
    BY <2>1, <2>2 DEF ToldFields
  <2>4. MapsAgree(Seen(s, q), tell) /\ NothingAhead(Seen(s, q), tell, q)
    BY <1>2, PassTells DEF tell
  <2> QED
    BY <1>3, <2>3, <2>4, SameTold
<1>6. ASSUME NEW r \in LiveRuns
      PROVE  MapsAgree(liSelf'[r], liTold'[r]) /\ NothingAhead(liSelf'[r], liTold'[r], r)
  <2>1. CASE r = q
    BY <1>4, <1>5, <2>1
  <2>2. CASE r # q
    <3>1. liSelf'[r] = liSelf[r] /\ liTold'[r] = liTold[r]
      BY <1>1, <2>2 DEF ToldInv
    <3> QED
      BY <3>1 DEF ToldInv
  <2> QED
    BY <2>1, <2>2
<1>7. /\ liCount' \in LiveCounts /\ liCount'.rewinds = liCount.rewinds
      /\ DOMAIN liSelf' = LiveRuns /\ DOMAIN liTold' = LiveRuns
  BY <1>1 DEF ToldInv, LiveCounts
<1> QED
  BY <1>1, <1>6, <1>7, StorePassed

LEMMA TickArrivalsTells ==
  ASSUME ToldInv, NEW t \in LiveTicks, TickArrivals(t)
  PROVE  ToldInv'
<1>1. ASSUME NEW r \in LiveRuns
      PROVE  MapsAgree(liSelf'[r], liTold'[r]) /\ NothingAhead(liSelf'[r], liTold'[r], r)
  <2> DEFINE s == ArrivalsSeen(liSelf[r], r)
             told == ArrivalsTold(liSelf[r], liTold[r], r)
  <2>1. /\ StoredUpTo(r) /\ MapsAgree(liSelf[r], liTold[r]) /\ NothingAhead(liSelf[r], liTold[r], r)
        /\ DOMAIN liSelf[r] = SelfFields /\ DOMAIN liTold[r] = ToldFields
    BY DEF ToldInv, MapsAgree
  <2>2. MapsAgree(s, told) /\ NothingAhead(s, told, r)
    <3>1. CASE ~Arrived(liSelf[r], r)
      BY <2>1, <3>1 DEF ArrivalsSeen, ArrivalsTold
    <3>2. CASE Arrived(liSelf[r], r)
      <4> DEFINE seen == Seen(liSelf[r], r)
      <4>1. \E rows : s = [seen EXCEPT !.rows = rows]
        BY <3>2 DEF ArrivalsSeen
      <4>2. DOMAIN seen = SelfFields
        BY <2>1 DEF Seen
      <4> HIDE DEF seen
      <4>3. /\ DOMAIN s = DOMAIN seen /\ s.known = seen.known
            /\ s.status = seen.status /\ s.maxSeq = seen.maxSeq
        BY <4>1, <4>2 DEF SelfFields
      <4>4. MapsAgree(seen, told) /\ NothingAhead(seen, told, r)
        BY <2>1, <3>2, PassTells, BackfillTells DEF ArrivalsTold, seen
      <4> QED
        BY <4>3, <4>4, SameTold
    <3> QED
      BY <3>1, <3>2
  <2>3. \E rows : liSelf'[r] = [s EXCEPT !.rows = rows]
    BY DEF TickArrivals
  <2>4. \E rows : liTold'[r] = [told EXCEPT !.rows = rows]
    BY DEF TickArrivals
  <2>5. DOMAIN s = SelfFields /\ DOMAIN told = ToldFields
    BY <2>2 DEF MapsAgree
  <2> HIDE DEF s, told
  <2>6. /\ DOMAIN liSelf'[r] = DOMAIN s /\ liSelf'[r].known = s.known
        /\ liSelf'[r].status = s.status /\ liSelf'[r].maxSeq = s.maxSeq
    BY <2>3, <2>5 DEF SelfFields
  <2>7. /\ DOMAIN liTold'[r] = DOMAIN told
        /\ liTold'[r].steps = told.steps /\ liTold'[r].past = told.past
        /\ liTold'[r].created = told.created /\ liTold'[r].ended = told.ended
        /\ liTold'[r].twice = told.twice
    BY <2>4, <2>5 DEF ToldFields
  <2> QED
    BY <2>2, <2>6, <2>7, SameTold
<1>2. UNCHANGED <<liFile, liStore, liCount>> /\ DOMAIN liSelf' = LiveRuns /\ DOMAIN liTold' = LiveRuns
  BY DEF TickArrivals
<1>3. liCount' \in LiveCounts /\ liCount'.rewinds = liCount.rewinds
  BY <1>2 DEF ToldInv, LiveCounts
<1> QED
  BY <1>1, <1>2, <1>3, StorePassed

-----------------------------------------------------------------------------
LEMMA ToldInvInit == LiveInit => ToldInv
<1> SUFFICES ASSUME LiveInit PROVE ToldInv
  OBVIOUS
<1>1. <<>> \in Seq(LiveItems) /\ <<>> \in Seq(StoredStep) /\ Len(<<>>) = 0
  BY EmptySeq
<1>2. NotStored \in StoredRun /\ NotStored.steps = <<>> /\ NotStored.offset = 0
  BY <1>1 DEF NotStored, StoredRun
<1>3. ASSUME NEW r \in LiveRuns
      PROVE  StoredUpTo(r) /\ MapsAgree(liSelf[r], liTold[r]) /\ NothingAhead(liSelf[r], liTold[r], r)
  <2>1. /\ liFile[r] = <<>> /\ liStore[r] = NotStored /\ LiveMax(r) = 0
        /\ liSelf[r] = NothingSeen /\ liTold[r] = NothingTold
    BY <1>1, <1>2 DEF LiveInit, LiveMax
  <2>2. StepCount(liFile[r], 0) = 0
    BY StepCounts
  <2>3. StoredUpTo(r)
    BY <1>1, <1>2, <2>1, <2>2 DEF StoredUpTo
  <2>4. MapsAgree(NothingSeen, NothingTold)
    BY DEF MapsAgree, NothingSeen, NothingTold, SelfFields, ToldFields
  <2>5. NothingSeen.maxSeq = 0 /\ Heard(NothingTold) = {}
    BY DEF NothingSeen, NothingTold, Heard
  <2> QED
    BY <2>1, <2>3, <2>4, <2>5 DEF NothingAhead
<1> QED
  BY <1>1, <1>2, <1>3 DEF LiveInit, ToldInv

LEMMA ToldInvNext == ToldInv /\ [LiveNext]_liVars => ToldInv'
<1> SUFFICES ASSUME ToldInv, [LiveNext]_liVars PROVE ToldInv'
  OBVIOUS
<1>1. liCount \in LiveCounts /\ DOMAIN liSelf = LiveRuns
  BY DEF ToldInv, LiveCounts
<1>2. ASSUME NEW r \in LiveRuns, SessionGrows(r) PROVE ToldInv'
  BY <1>2, SessionGrowsTells
<1>3. ASSUME NEW r \in LiveRuns, OtherIngests(r) PROVE ToldInv'
  BY <1>3, StoreIngestTells DEF OtherIngests
<1>4. ASSUME NEW r \in LiveRuns, OtherRewinds(r) PROVE ToldInv'
  BY <1>4, OtherRewindsTells
<1>5. ASSUME NEW r \in LiveRuns, OtherRow(r) PROVE ToldInv'
  BY <1>5, OtherRowTells
<1>6. CASE LiveStart
  BY <1>6, LiveStartTells
<1>7. CASE LiveStop
  BY <1>1, <1>7, QuietTick DEF LiveStop
<1>8. ASSUME NEW t \in LiveTicks, TickStep(t) PROVE ToldInv'
  <2>1. CASE TickStart(t)
    BY <1>1, <2>1, QuietTick DEF TickStart
  <2>2. CASE TickDiscover(t)
    BY <1>1, <2>2, QuietTick DEF TickDiscover
  <2>3. CASE TickMark(t)
    BY <2>3, TickMarkTells
  <2>4. CASE TickArrivals(t)
    BY <2>4, TickArrivalsTells
  <2>5. ASSUME NEW r \in LiveRuns, TickSkip(t, r) PROVE ToldInv'
    <3>1. UNCHANGED <<liFile, liStore, liSelf, liTold>>
      BY <2>5 DEF TickSkip
    <3>2. liCount' \in LiveCounts /\ liCount'.rewinds = liCount.rewinds
      BY <1>1, <2>5 DEF TickSkip, LiveCounts
    <3> QED
      BY <1>1, <3>1, <3>2, QuietTick
  <2>6. ASSUME NEW r \in LiveRuns, TickIngest(t, r) PROVE ToldInv'
    BY <2>6, StoreIngestTells DEF TickIngest
  <2>7. ASSUME NEW r \in LiveRuns, TickAnnounce(t, r) PROVE ToldInv'
    BY <2>7, TickAnnounceTells
  <2> QED
    BY <1>8, <2>1, <2>2, <2>3, <2>4, <2>5, <2>6, <2>7 DEF TickStep
<1>9. CASE UNCHANGED liVars
  BY <1>1, <1>9, QuietTick DEF liVars
<1> QED
  BY <1>2, <1>3, <1>4, <1>5, <1>6, <1>7, <1>8, <1>9 DEF LiveNext

(* LiveToldOnce: however many ticks overlap, whoever else ingests, trims or     *)
(* adds rows, and however often the inspector is stopped and started again, no   *)
(* subscriber hears twice of a run, of a step or of an end: the cursor and the  *)
(* status a pass leaves behind are always past what was told.                  *)
THEOREM ToldOnce == LiveSpec => []LiveToldOnce
<1>1. ToldInv => LiveToldOnce
  BY DEF ToldInv, MapsAgree, LiveToldOnce
<1> QED
  BY <1>1, ToldInvInit, ToldInvNext, PTL DEF LiveSpec
=============================================================================
