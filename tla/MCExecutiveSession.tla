------------------------- MODULE MCExecutiveSession -------------------------
(* Instances of ExecutiveSession for TLC. *)
EXTENDS ExecutiveSession, TLC
MCSymmetry == Permutations(Request) \cup Permutations(Version)
=============================================================================
