---------------------------- MODULE CaptureClaim ----------------------------
(***************************************************************************)
(* Who captures the files of a root.  Two file sentinels on one directory  *)
(* would write every change twice, so `meter live` and `meter watch        *)
(* --files` claim a root before they watch it: the live.heartbeat setting  *)
(* is one JSON map from roots to claims, which every holder reads and      *)
(* writes back whole every five seconds, without a lock (settings.ts).  A  *)
(* claim that was not renewed for two minutes no longer counts.            *)
(*                                                                         *)
(* One ClPeriod is the period of the two timers: in it each running timer  *)
(* fires once, in any order.  Statements that follow each other in one     *)
(* process without an await take no time, though other processes may come  *)
(* between them.                                                           *)
(***************************************************************************)
EXTENDS Integers

CONSTANTS
  ClRoots,         \* the directories that are watched
  Lives,           \* processes of `meter live`
  Watches,         \* processes of `meter watch --files`
  Star,            \* the root of a claim that a pre-fix build wrote
  Nobody,          \* no owner
  MayForce,        \* the Lives that may be started with --force-capture
  FreshPeriods,    \* periods after which a claim is stale (24 in the code)
  MaxLaunches,     \* bound on the times a process is started
  MaxCrashes       \* bound on the crashes

\* A claim that was renewed in the last period is fresh.
ASSUME ClaimConstants ==
  /\ Star \notin ClRoots /\ Nobody \notin Lives \union Watches
  /\ MayForce \subseteq Lives
  /\ FreshPeriods \in Nat \ {0, 1}

VARIABLES
  clRow,           \* [ClRoots and Star -> claim]: the live.heartbeat setting
  clProc,          \* [Lives and Watches -> the process]
  clFired,         \* the timers that have fired in this period
  clPast,          \* launches and crashes so far, whether an update was lost
  clContested      \* the roots that two claim, until one is left and its claim is in

claimVars == <<clRow, clProc, clFired, clPast, clContested>>

Processes == Lives \union Watches
ClaimRoots == ClRoots \union {Star}
NoClaim == [owner |-> Nobody, age |-> FreshPeriods]
NotRunning ==
  [pc |-> "off", root |-> Star, forced |-> FALSE, refresher |-> FALSE, sentinel |-> FALSE,
   claimed |-> FALSE, viewer |-> FALSE, doing |-> "nothing", saw |-> [r \in ClaimRoots |-> NoClaim]]

-----------------------------------------------------------------------------
(* The setting.                                                            *)

\* isLiveHeartbeatFresh
Fresh(claim) == claim.age < FreshPeriods

\* liveCaptureHeldFor
HeldFor(row, root) == \E r \in {root, Star} : Fresh(row[r])

\* liveClaimOwner
ClaimOwner(row, root) == IF Fresh(row[root]) THEN row[root].owner ELSE Nobody

\* writeLiveHeartbeat: the claim, the other roots' that are fresh, no legacy one.
Claimed(row, root, p) ==
  [r \in ClaimRoots |->
    IF r = root THEN [owner |-> p, age |-> 0]
    ELSE IF r # Star /\ Fresh(row[r]) THEN row[r] ELSE NoClaim]

\* Mutant of Released: whoever stops takes the claim of its root along.
ReleasedAnyones(row, root, p) ==
  [r \in ClaimRoots |-> IF Fresh(row[r]) /\ r # root THEN row[r] ELSE NoClaim]

\* Mutant of Released: the caller's own claim is kept, and left to go stale.
ReleasedStale(row, root, p) ==
  [r \in ClaimRoots |-> IF Fresh(row[r]) THEN row[r] ELSE NoClaim]

\* clearLiveHeartbeat: what is fresh, but for the caller's own claim.
Released(row, root, p) ==
  [r \in ClaimRoots |->
    IF Fresh(row[r]) /\ ~(r = root /\ row[r].owner \in {p, Nobody}) THEN row[r] ELSE NoClaim]

-----------------------------------------------------------------------------
Holder(p, root) == clProc[p].refresher /\ clProc[p].root = root

\* A process between two statements of its own: nothing else of it can run.
Busy(p) == clProc[p].doing # "nothing"
InOneGo == {"guard", "claim", "failed", "leaving"}

Become(p, changed) == clProc' = [clProc EXCEPT ![p] = changed]

ClaimInit ==
  /\ clRow \in {[r \in ClaimRoots |-> NoClaim],
                [[r \in ClaimRoots |-> NoClaim] EXCEPT ![Star].age = 0]}
  /\ clProc = [p \in Processes |-> NotRunning]
  /\ clFired = {}
  /\ clPast = [launches |-> 0, crashes |-> 0, lost |-> FALSE]
  /\ clContested = {}

Launch(p, root, forced) ==
  /\ clProc[p].pc = "off" /\ clPast.launches < MaxLaunches
  /\ Become(p, [NotRunning EXCEPT !.pc = "guard", !.root = root, !.forced = forced])
  /\ clPast' = [clPast EXCEPT !.launches = @ + 1]
  /\ UNCHANGED <<clRow, clFired>>

\* The viewer-guard.  A watch that finds the root taken goes on without files.
Guard(p) ==
  LET proc == clProc[p]
      taken == ~proc.forced /\ HeldFor(clRow, proc.root)
  IN  /\ proc.pc = "guard"
      /\ Become(p, IF ~taken THEN [proc EXCEPT !.pc = "claim", !.claimed = TRUE]
                   ELSE IF p \in Lives THEN [proc EXCEPT !.pc = "backfill", !.viewer = TRUE]
                   ELSE [proc EXCEPT !.pc = "up"])
      /\ UNCHANGED <<clRow, clFired, clPast>>

\* What writes the setting next: the first claim, a failed start, a clean exit,
\* or the refresher's timer.
Due(p) ==
  CASE clProc[p].pc = "claim" -> "claim"
    [] clProc[p].pc = "failed" -> "release"
    [] clProc[p].pc = "leaving" -> "exit"
    [] OTHER -> IF clProc[p].refresher /\ <<p, "refresh">> \notin clFired THEN "refresh" ELSE "nothing"

\* readLiveHeartbeats, the first half of every write.
ReadClaims(p) ==
  /\ ~Busy(p) /\ Due(p) # "nothing"
  /\ Become(p, [clProc[p] EXCEPT !.doing = Due(p), !.saw = clRow])
  /\ UNCHANGED <<clRow, clFired, clPast>>

\* Where a process is after the write.
AfterWrite(p) ==
  LET idle == [clProc[p] EXCEPT !.doing = "nothing", !.saw = NotRunning.saw]
  IN  CASE idle.pc = "claim" -> [idle EXCEPT !.pc = "starting", !.refresher = TRUE]
        [] idle.pc = "failed" -> [idle EXCEPT !.pc = IF p \in Lives THEN "backfill" ELSE "up"]
        [] idle.pc = "leaving" -> NotRunning
        [] OTHER -> idle

\* setSetting or deleteSetting: the whole map, as it was read.
WriteClaims(p) ==
  LET proc == clProc[p]
  IN  /\ Busy(p)
      /\ clRow' = IF proc.doing \in {"claim", "refresh"} THEN Claimed(proc.saw, proc.root, p)
                  ELSE Released(proc.saw, proc.root, p)
      /\ Become(p, AfterWrite(p))
      /\ clFired' = IF proc.doing = "refresh" THEN clFired \union {<<p, "refresh">>}
                    ELSE IF proc.doing = "exit" THEN clFired \ {<<p, t>> : t \in {"refresh", "evaluate"}}
                    ELSE clFired
      /\ clPast' = [clPast EXCEPT !.lost = @ \/ clRow # proc.saw]

\* sentinel.start() settles.
SentinelStarts(p) ==
  /\ clProc[p].pc = "starting" /\ ~Busy(p)
  /\ Become(p, [clProc[p] EXCEPT !.sentinel = TRUE,
                                 !.pc = IF p \in Lives THEN "backfill" ELSE "up"])
  /\ UNCHANGED <<clRow, clFired, clPast>>

SentinelFails(p) ==
  /\ clProc[p].pc = "starting" /\ ~Busy(p)
  /\ Become(p, [clProc[p] EXCEPT !.refresher = FALSE, !.pc = "failed"])
  /\ UNCHANGED <<clRow, clFired, clPast>>

\* live.start() settles: from now on the evaluator runs.
BackfillEnds(p) ==
  /\ clProc[p].pc = "backfill" /\ ~Busy(p)
  /\ Become(p, [clProc[p] EXCEPT !.pc = "up"])
  /\ UNCHANGED <<clRow, clFired, clPast>>

\* The evaluator looks whose claim it is: a holder that finds another's owner
\* becomes a viewer.
SeesForeign(p) ==
  clProc[p].sentinel /\ ClaimOwner(clRow, clProc[p].root) \notin {p, Nobody}

Evaluate(p) ==
  /\ p \in Lives /\ clProc[p].pc = "up" /\ ~Busy(p) /\ <<p, "evaluate">> \notin clFired
  /\ Become(p, IF SeesForeign(p)
               THEN [clProc[p] EXCEPT !.sentinel = FALSE, !.refresher = FALSE, !.viewer = TRUE]
               ELSE clProc[p])
  /\ clFired' = clFired \union {<<p, "evaluate">>}
  /\ UNCHANGED <<clRow, clPast>>

\* A signal.  `meter live` handles it as soon as it has claimed, `meter watch` once
\* it is up; the former releases what it ever claimed, the latter what it holds.
Stop(p) ==
  LET proc == clProc[p]
      releases == IF p \in Lives THEN proc.claimed ELSE proc.refresher
  IN  /\ ~Busy(p)
      /\ proc.pc \in IF p \in Lives THEN {"starting", "backfill", "up"} ELSE {"up"}
      /\ Become(p, IF releases THEN [proc EXCEPT !.refresher = FALSE, !.sentinel = FALSE, !.pc = "leaving"]
                   ELSE NotRunning)
      /\ clFired' = clFired \ {<<p, t>> : t \in {"refresh", "evaluate"}}
      /\ UNCHANGED <<clRow, clPast>>

Crash(p) ==
  /\ clProc[p].pc # "off" /\ clPast.crashes < MaxCrashes
  /\ Become(p, NotRunning)
  /\ clFired' = clFired \ {<<p, t>> : t \in {"refresh", "evaluate"}}
  /\ clPast' = [clPast EXCEPT !.crashes = @ + 1]
  /\ UNCHANGED clRow

\* The next period: every timer has fired in this one.
ClPeriod ==
  /\ \A p \in Processes :
       /\ ~Busy(p) /\ clProc[p].pc \notin InOneGo
       /\ clProc[p].refresher => <<p, "refresh">> \in clFired
       /\ (p \in Lives /\ clProc[p].pc = "up") => <<p, "evaluate">> \in clFired
  /\ clRow' = [r \in ClaimRoots |->
       IF clRow[r].age + 1 < FreshPeriods THEN [clRow[r] EXCEPT !.age = @ + 1] ELSE NoClaim]
  /\ clFired' = {}
  /\ UNCHANGED <<clProc, clPast>>

ClaimStep(p) ==
  \/ Guard(p) \/ ReadClaims(p) \/ WriteClaims(p) \/ SentinelStarts(p) \/ SentinelFails(p)
  \/ BackfillEnds(p) \/ Evaluate(p)

ClaimAction ==
  \/ \E p \in Processes, root \in ClRoots : Launch(p, root, FALSE)
  \/ \E p \in MayForce, root \in ClRoots : Launch(p, root, TRUE)
  \/ \E p \in Processes : ClaimStep(p) \/ Stop(p) \/ Crash(p)
  \/ ClPeriod

\* What is remembered of the past: a root is contested while two hold it, and
\* until the claim of the one that is left is in the setting.
SoleClaim(root) ==
  /\ \A p, q \in Processes : (Holder(p, root) /\ Holder(q, root))' => p = q
  /\ root \in clContested => \A p \in Processes : Holder(p, root)' => ClaimOwner(clRow, root)' = p

ClaimNext == ClaimAction /\ clContested' = {root \in ClRoots : ~SoleClaim(root)}

ClaimSpec == ClaimInit /\ [][ClaimNext]_claimVars

-----------------------------------------------------------------------------
Enters(p) == clProc[p].pc = "guard" /\ clProc'[p].pc = "claim"
Yields(p) == clProc[p].sentinel /\ clProc'[p].viewer

\* A process that was not forced claims a root only if nobody holds it, unless two
\* have claimed it at once and are not sorted out yet.
GuardHolds ==
  \A p, q \in Processes :
    Enters(p) /\ ~clProc[p].forced /\ Holder(q, clProc[p].root) => clProc[p].root \in clContested

\* A `meter live` that sees a foreign claim and becomes a viewer leaves the root to
\* another process that holds it, or is just letting go of it, unless one crashed.
GivesWayToHolder ==
  \A p \in Processes :
    Yields(p) => \/ clPast.crashes > 0
                 \/ \E q \in Processes \ {p} :
                      /\ clProc[q].root = clProc[p].root
                      /\ clProc[q].refresher \/ clProc[q].pc \in {"failed", "leaving"}

\* One sentinel per root, as far as claims without locks can give it: until an
\* update of the setting was lost, the guard keeps a second one out, and who gives
\* way gives way to somebody.  It takes renewals in time, stale claims that go, and
\* exits that leave the claims of others alone (live.ts:146-194, 420-446,
\* watch.ts:180-270, settings.ts:140-174).
ClaimsHold == [][clPast.lost \/ (GuardHolds /\ GivesWayToHolder)]_claimVars
=============================================================================
