------------------------- MODULE ProviderAuthentication -------------------------
(***************************************************************************)
(* How the Gateway learns which provider identity a request comes from.    *)
(* The adapter asks one verifier, chosen by the deployment when the server *)
(* is created: the interactive sign-in's session, or tokens and the keys   *)
(* of the provider.  Of the settings only that choice matters afterwards.  *)
(***************************************************************************)
EXTENDS Deployment, ProviderKeys, ProviderSignIn

VARIABLE verifier

others == <<now, settings, verifier, keyVars>>
vars == <<others, signInVars>>

TypeOK ==
    /\ ClockOK
    /\ settings \in Settings \cup {NoSettings}
    /\ verifier \in {"none", "session", "token"}
    /\ KeysTypeOK
    /\ SignInTypeOK

Init ==
    /\ ClockStarts
    /\ settings \in Settings
    /\ verifier = "none"
    /\ KeysInit /\ SignInInit

(* The settings are admitted; otherwise the process ends. *)
Starts ==
    /\ settings # NoSettings /\ Starting
    /\ verifier' = VerifierOf(Loaded(settings))
    /\ settings' = NoSettings
    /\ UNCHANGED <<now, keyVars, signInVars>>

Verifies ==
    \/ verifier = "token" /\ KeysNext /\ UNCHANGED signInVars
    \/ verifier = "session" /\ SignInNext /\ UNCHANGED keyVars

Tick == verifier # "none" /\ KeysLetTimePass /\ Passes /\ UNCHANGED <<keyVars, signInVars>>

Next ==
    \/ Starts
    \/ ((Verifies /\ UNCHANGED now) \/ Tick) /\ UNCHANGED <<settings, verifier>>

(* Discovery and every later wait end by the timeout of the OIDC client.   *)
Fairness ==
    /\ WF_vars((DiscoverySucceeds \/ DiscoveryFails) /\ UNCHANGED others)
    /\ \A c \in Call : WF_vars(Served(c) /\ UNCHANGED others)

Spec == Init /\ [][Next]_vars /\ Fairness

(* Every sign-in, callback and sign-out is answered: a discovery that      *)
(* failed is not what later requests wait for or are failed by.            *)
CallsAreAnswered ==
    \A c \in Call : call[c].phase = "waiting" ~> call[c].phase # "waiting"
=============================================================================
