----------------------- MODULE MCProviderAuthentication -----------------------
EXTENDS ProviderAuthentication

CONSTANTS k1, k2

(* One token of each key that stays valid and one that expires. *)
MCToken ==
    {[kid |-> k, issued |-> 1, expires |-> 9, authenticated |-> 1] : k \in {k1, k2}}
    \cup {[kid |-> k1, issued |-> 1, expires |-> 4, authenticated |-> 1]}
=============================================================================
