------------------------------ MODULE MCProbe ------------------------------
(***************************************************************************)
(* Probe for TLC: an agent that may have two model calls under way.        *)
(***************************************************************************)
EXTENDS Probe

CONSTANTS o1, o2, k1, k2, m1, m2
=============================================================================
