----------------------------- MODULE ServerClock -----------------------------
(***************************************************************************)
(* The clock of the Gateway's process, which its components read together. *)
(***************************************************************************)
EXTENDS Naturals

CONSTANTS
    Epoch,   \* the time the process starts
    MaxTime  \* bound on the clock

ASSUME ClockAssumption == Epoch \in Nat \ {0} /\ MaxTime \in Nat

VARIABLE now

ClockOK == now \in Nat /\ now >= Epoch

ClockStarts == now = Epoch

Passes == now < MaxTime /\ now' = now + 1
=============================================================================
