--------------------------- MODULE MCHookCapture ---------------------------
(***************************************************************************)
(* What watches the files an agent changes, for TLC: the hooks about a       *)
(* shell call (one small content and two oversize ones of one size), the     *)
(* file sentinel, and the claims that keep a second sentinel off a root.     *)
(* They share nothing but the file_change table (WatchRows), so one of them  *)
(* runs at a time.                                                           *)
(***************************************************************************)
EXTENDS HookCapture, FileSentinel, CaptureClaim, TLC

CONSTANTS c1, c2

VARIABLE watcher

Mixed == {"x", "B1", "B2"}
MixedSize == [b \in Mixed |-> IF b = "x" THEN 1 ELSE 9]

(* The calls are alike.                                                    *)
Alike == Permutations(Calls)

WatchInit ==
  /\ watcher \in {"hooks", "sentinel", "claims"} /\ Init /\ SentinelInit /\ ClaimInit
  /\ watcher = "hooks" \/ fs = [p \in Paths |-> [bytes |-> Gone, stamp |-> 0]]
  /\ watcher = "claims" \/ ~Fresh(clRow[Star])

WatchNext ==
  \/ watcher = "hooks" /\ Next /\ UNCHANGED <<fsVars, claimVars, watcher>>
  \/ watcher = "sentinel" /\ SentinelNext /\ UNCHANGED <<vars, claimVars, watcher>>
  \/ watcher = "claims" /\ ClaimNext /\ UNCHANGED <<vars, fsVars, watcher>>

WatchSpec == WatchInit /\ [][WatchNext]_<<vars, fsVars, claimVars, watcher>>
=============================================================================
