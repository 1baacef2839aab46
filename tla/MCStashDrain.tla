---------------------------- MODULE MCStashDrain ----------------------------
(***************************************************************************)
(* StashDrain for TLC: calls in turns of their own with distinct commands. *)
(***************************************************************************)
EXTENDS StashDrain

CONSTANTS c1, c2

Alone == [c \in Calls |-> c]
Distinct == [c \in Calls |-> c]
=============================================================================
