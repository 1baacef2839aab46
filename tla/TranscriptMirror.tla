-------------------------- MODULE TranscriptMirror --------------------------
(***************************************************************************)
(* What ingest promises of one session file: the store is a mirror that    *)
(* may lag but never goes back.  view is the outcome of each step as the   *)
(* store shows it, seen the number of lines that are done with.            *)
(*                                                                         *)
(* A step may be learnt from any prefix at least as long as seen, and seen *)
(* may advance to n only when every step of the first n lines has been     *)
(* learnt from n lines or more.  What a prefix says of a step is a         *)
(* parameter: Ingest gives it Transcript's reading.                        *)
(***************************************************************************)
EXTENDS Naturals, Sequences

CONSTANTS
  Keys,
  Absent,              \* the outcome of a step the store does not have
  KeysAt(_, _),        \* the steps the first n lines have
  OutcomeAt(_, _, _)   \* the outcome the first n lines give a step

VARIABLES lines, view, seen

Known(n) ==
  \A key \in KeysAt(lines, n) :
    \E m \in n..Len(lines) : view[key] = OutcomeAt(lines, key, m)

Init ==
  /\ lines = <<>>
  /\ view = [key \in Keys |-> Absent]
  /\ seen = 0

\* The agent appends a line.
Grow ==
  /\ Len(lines') = Len(lines) + 1
  /\ lines' = Append(lines, lines'[Len(lines')])
  /\ UNCHANGED <<view, seen>>

Learn ==
  /\ \E key \in Keys, n \in 1..Len(lines) :
       /\ n >= seen
       /\ key \in KeysAt(lines, n)
       /\ view' = [view EXCEPT ![key] = OutcomeAt(lines, key, n)]
  /\ UNCHANGED <<lines, seen>>

Advance ==
  /\ \E n \in (seen + 1)..Len(lines) : Known(n) /\ seen' = n
  /\ UNCHANGED <<lines, view>>

Next == Grow \/ Learn \/ Advance

Spec == Init /\ [][Next]_<<lines, view, seen>>
=============================================================================
