------------------------- MODULE MCRuntimeAdmission -------------------------
(* Instances of RuntimeAdmission for TLC. *)
EXTENDS RuntimeAdmission, TLC
MCSymmetry == Permutations(Request) \cup Permutations(Action)
MCRetryAfter == {0, 2}
=============================================================================
