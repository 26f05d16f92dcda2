----------------------- MODULE MCExecutiveInteraction -----------------------
(* Instances of ExecutiveInteraction for TLC. *)
EXTENDS ExecutiveInteraction
=============================================================================
