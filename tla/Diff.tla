-------------------------------- MODULE Diff --------------------------------
(***************************************************************************)
(* The structural diff of two runs (packages/server/src/diff.ts), and what   *)
(* it has to show of a fork and its origin.  Steps are aligned by their place *)
(* in the run.  The decision of a step, which its action is read off, is its  *)
(* action here.                                                            *)
(***************************************************************************)
EXTENDS Fork

\* listSteps.
InOrder(rows) == SetToSortSeq(rows, LAMBDA r, s : r.seq < s.seq)

\* Mutant of Classify: the outcome is looked at first.
ClassifyOutcome(a, b) ==
  CASE a.body.outcome # b.body.outcome -> "outcome_diff"
    [] a.body.saw # b.body.saw -> "context_diff"
    [] OTHER -> IF a.body.action # b.body.action THEN "decision_diff" ELSE "shared"

Classify(a, b) ==
  CASE a.body.saw # b.body.saw -> "context_diff"
    [] a.body.saw = b.body.saw /\ a.body.action # b.body.action -> "decision_diff"
    [] OTHER -> IF a.body.outcome # b.body.outcome THEN "outcome_diff" ELSE "shared"

SharedPrefix(as, bs) ==
  Max({n \in 0..Min({Len(as), Len(bs)}) : \A i \in 1..n : Classify(as[i], bs[i]) = "shared"})

\* From the second difference on a row has diverged, whatever is in it.
DiffRows(as, bs) ==
  LET shared == SharedPrefix(as, bs)
  IN  [i \in 1..Max({Len(as), Len(bs)}) |->
         CASE i > Len(as) -> "only_b"
           [] i > Len(bs) -> "only_a"
           [] OTHER -> IF i <= shared + 1 THEN Classify(as[i], bs[i]) ELSE "diverged"]

-----------------------------------------------------------------------------
\* While the steps that were copied have not changed in the origin, the diff
\* calls everything before the fork point shared and shows the edit there; an
\* edit that leaves the context as it was shows by the answer that is missing.
\* A message the model gave after it is a row of the fork alone or has diverged.
DiffShowsFork ==
  fkForked /\ fkRead \subseteq OriginRows =>
    LET rows == DiffRows(InOrder(OriginRows), InOrder(ForkRows))
        at == Cardinality(fkRead)
        original == Newest(fkRead).body
    IN  /\ \A i \in 1..(at - 1) : rows[i] = "shared"
        /\ rows[at] = IF RewriteSnapshot(original.saw, fkCall.edit) # original.saw THEN "context_diff"
                      ELSE IF original.outcome = "pending" THEN "shared" ELSE "outcome_diff"
        /\ rows[at] # "shared" =>
             \A i \in (at + 1)..Len(rows) : rows[i] \in {"only_a", "only_b", "diverged"}
=============================================================================
