------------------------------ MODULE LoginLimit ------------------------------
(***************************************************************************)
(* What the limit on failed logins promises, kept by a limiter that never  *)
(* drops anything: a key is looked at if and only if fewer than Limit keys *)
(* were found wrong in the window that ends now.  A key that is right and  *)
(* a restart of the process forget the wrong ones.                         *)
(***************************************************************************)
EXTENDS Naturals, Sequences, FiniteSets

CONSTANTS
    Login,        \* the logins that can be under way together
    Window,       \* how long a wrong key counts
    Limit         \* how many of them count before logins are refused

VARIABLES
    now,          \* the clock
    process,      \* which process this is
    wrong,        \* when each key since was found wrong
    refused       \* the logins refused for the number of wrong keys

vars == <<now, process, wrong, refused>>

Init ==
    /\ now = 0
    /\ process = 0
    /\ wrong = << >>
    /\ refused = {}

(* How many keys were found wrong in the window that ends at a time. *)
WrongKeys(end) ==
    Cardinality({i \in DOMAIN wrong : wrong[i] <= end /\ end - wrong[i] < Window})

WrongKey ==
    /\ WrongKeys(now) < Limit
    /\ wrong' = Append(wrong, now)
    /\ UNCHANGED <<now, process, refused>>

RightKey ==
    /\ WrongKeys(now) < Limit
    /\ wrong' = << >>
    /\ UNCHANGED <<now, process, refused>>

Refuse(r) ==
    /\ WrongKeys(now) >= Limit
    /\ refused' = refused \cup {r}
    /\ UNCHANGED <<now, process, wrong>>

(* The login learns of it, or never does. *)
Over(r) ==
    /\ r \in refused
    /\ refused' = refused \ {r}
    /\ UNCHANGED <<now, process, wrong>>

Restart ==
    /\ process' = process + 1
    /\ wrong' = << >>
    /\ UNCHANGED <<now, refused>>

Tick ==
    /\ now' = now + 1
    /\ UNCHANGED <<process, wrong, refused>>

Next ==
    \/ WrongKey \/ RightKey \/ Restart \/ Tick
    \/ \E r \in Login : Refuse(r) \/ Over(r)

Spec == Init /\ [][Next]_vars
=============================================================================
