----------------------------- MODULE ProviderKeys -----------------------------
(***************************************************************************)
(* Verification of Replit Auth tokens by the Gateway when no interactive   *)
(* verifier is configured: the cache of the provider's public keys (JWKS), *)
(* its one shared refresh, and the requests whose tokens it verifies.      *)
(*                                                                         *)
(* A handler runs to its next await in one step.  keys() and the forced    *)
(* keys(true) of an unknown key run in one step when the first is answered *)
(* from the cache, since nothing but promise jobs lies between them; the   *)
(* requests waiting for one refresh go on in the step that settles it.     *)
(* The provider answers a fetch from its keys at one moment between the    *)
(* start of the fetch and its end.                                         *)
(***************************************************************************)
EXTENDS Integers, ServerClock

CONSTANTS
    Kid,          \* key identifiers of the provider
    Token,        \* the tokens presented, see TokenAssumption
    Verification, \* the requests being verified together
    NoToken,      \* no request yet
    Interval,     \* JWKS_MINIMUM_REFRESH_INTERVAL_MS
    CacheSeconds, \* replitAuthJwksCacheSeconds
    FetchTimeout, \* replitAuthJwksTimeoutMs
    TokenSkew     \* replitAuthClockSkewSeconds

(* issued and expires are iat and exp (notBefore is issued by default). *)
ASSUME TokenAssumption ==
    /\ Token \subseteq [kid : Kid, issued : Nat, expires : Nat, authenticated : Nat]
    /\ NoToken \notin Token

(* 30 s, 30 s to 3600 s, and 100 ms to 15 s. *)
ASSUME KeyLimitAssumption ==
    /\ Interval \in Nat \ {0} /\ CacheSeconds \in Nat /\ FetchTimeout \in Nat
    /\ FetchTimeout < Interval /\ Interval <= CacheSeconds
    /\ Interval <= Epoch
    /\ TokenSkew \in Nat

VARIABLES
    published,        \* the keys the provider publishes
    changedAt,        \* history: when it last published or withdrew each, or 0
    jwks,             \* the keys held
    jwksExpiresAt,
    jwksLastAttemptAt,
    jwksLastFailure,  \* the last refresh failed
    fetch,            \* the refresh under way (jwksRefreshPromise)
    verification      \* the requests

provider == <<published, changedAt>>
cache == <<jwks, jwksExpiresAt, jwksLastAttemptAt, jwksLastFailure>>
keyVars == <<provider, cache, fetch, verification>>

(* answer: the keys the provider has answered with, {} before it does. *)
Fetch == [underWay : BOOLEAN, answer : SUBSET Kid]

VerificationState ==
    [token : Token \cup {NoToken},
     phase : {"idle", "waiting", "accepted", "refused", "unavailable"}]

KeysTypeOK ==
    /\ published \subseteq Kid
    /\ changedAt \in [Kid -> Nat]
    /\ jwks \subseteq Kid
    /\ jwksExpiresAt \in Nat
    /\ jwksLastAttemptAt \in Nat
    /\ jwksLastFailure \in BOOLEAN
    /\ fetch \in Fetch
    /\ verification \in [Verification -> VerificationState]

KeysInit ==
    /\ published \in (SUBSET Kid) \ {{}}
    /\ changedAt = [k \in Kid |-> 0]
    /\ jwks = {} /\ jwksExpiresAt = 0
    /\ jwksLastAttemptAt = 0 /\ jwksLastFailure = FALSE
    /\ fetch = [underWay |-> FALSE, answer |-> {}]
    /\ verification =
         [v \in Verification |-> [token |-> NoToken, phase |-> "idle"]]

-----------------------------------------------------------------------------
(* What keys(force) does: the keys held, a refresh it starts or joins, or   *)
(* the last failure again.                                                  *)

\* Variant: keys that have expired are still used.
HeldAndCurrentForever == jwks # {}

HeldAndCurrent == jwks # {} /\ jwksExpiresAt > now

HeldBack(force) ==
    /\ now - jwksLastAttemptAt < Interval
    /\ force \/ jwksLastFailure

\* Variant: a refresh under way is joined before the keys held are looked at.
KeysJoinedFirst(force) ==
    IF fetch.underWay THEN "waiting"
    ELSE IF ~force /\ HeldAndCurrent THEN "held"
    ELSE IF ~HeldBack(force) THEN "waiting"
    ELSE IF jwksLastFailure THEN "unavailable" ELSE "held"

Keys(force) ==
    IF ~force /\ HeldAndCurrent THEN "held"
    ELSE IF fetch.underWay THEN "waiting"
    ELSE IF HeldBack(force)
         THEN IF jwksLastFailure THEN "unavailable" ELSE "held"
    ELSE "waiting"

(* A token whose key keys() does not return is looked up again by force. *)
\* Variant: a token with an unknown key is refused on the keys held.
KeysForHeld(token) == Keys(FALSE)

KeysFor(token) ==
    IF Keys(FALSE) = "held" /\ token.kid \notin jwks THEN Keys(TRUE) ELSE Keys(FALSE)

(* normalizeJwtIdentity, on the clock after the keys have come. *)
ClaimsHold(token) ==
    /\ token.expires > token.issued
    /\ token.issued <= now + TokenSkew
    /\ token.expires > now - TokenSkew
    /\ token.authenticated <= now + TokenSkew

Verdict(token, keys) ==
    IF token.kid \in keys /\ ClaimsHold(token) THEN "accepted" ELSE "refused"

Reached(token, phase) == [token |-> token, phase |-> phase]

-----------------------------------------------------------------------------
(* A refresh starts unless it joins the one under way. *)
FetchStarts ==
    IF fetch.underWay
    THEN UNCHANGED <<jwksLastAttemptAt, fetch>>
    ELSE /\ jwksLastAttemptAt' = now
         /\ fetch' = [underWay |-> TRUE, answer |-> {}]

TokenArrives(v, token) ==
    /\ verification[v].phase # "waiting"
    /\ LET found == KeysFor(token)
       IN /\ verification' =
               [verification EXCEPT ![v] =
                  Reached(token, IF found = "held" THEN Verdict(token, jwks) ELSE found)]
          /\ IF found = "waiting"
             THEN FetchStarts
             ELSE UNCHANGED <<jwksLastAttemptAt, fetch>>
    /\ UNCHANGED <<provider, jwks, jwksExpiresAt, jwksLastFailure>>

Waiting == {v \in Verification : verification[v].phase = "waiting"}

(* Those that asked without force and miss their key ask again by force,   *)
(* within Interval of the attempt: they get the keys just fetched.         *)
RefreshSucceeds ==
    /\ fetch.underWay /\ fetch.answer # {}
    /\ jwks' = fetch.answer
    /\ jwksExpiresAt' = now + CacheSeconds
    /\ jwksLastFailure' = FALSE
    /\ fetch' = [underWay |-> FALSE, answer |-> {}]
    /\ verification' =
         [v \in Verification |->
            IF v \in Waiting
            THEN Reached(verification[v].token,
                         Verdict(verification[v].token, fetch.answer))
            ELSE verification[v]]
    /\ UNCHANGED <<provider, jwksLastAttemptAt>>

(* The fetch fails, its timeout passes or its body is not a key set: the   *)
(* keys held and their expiry stay.                                        *)
RefreshFails ==
    /\ fetch.underWay
    /\ jwksLastFailure' = TRUE
    /\ fetch' = [underWay |-> FALSE, answer |-> {}]
    /\ verification' =
         [v \in Verification |->
            IF v \in Waiting
            THEN Reached(verification[v].token, "unavailable")
            ELSE verification[v]]
    /\ UNCHANGED <<provider, jwks, jwksExpiresAt, jwksLastAttemptAt>>

(* The provider, which is outside the repository. *)
ProviderAnswers ==
    /\ fetch.underWay /\ fetch.answer = {}
    /\ fetch' = [fetch EXCEPT !.answer = published]
    /\ UNCHANGED <<provider, cache, verification>>

ProviderRotates(k) ==
    /\ published' = IF k \in published THEN published \ {k} ELSE published \cup {k}
    /\ published' # {}
    /\ changedAt' = [changedAt EXCEPT ![k] = now]
    /\ UNCHANGED <<cache, fetch, verification>>

KeysNext ==
    \/ \E v \in Verification, token \in Token : TokenArrives(v, token)
    \/ RefreshSucceeds \/ RefreshFails
    \/ ProviderAnswers
    \/ \E k \in Kid : ProviderRotates(k)

(* The abort timer of fetchJwks ends a fetch at FetchTimeout. *)
KeysLetTimePass == fetch.underWay => now < jwksLastAttemptAt + FetchTimeout

KeysTick == KeysLetTimePass /\ Passes /\ UNCHANGED keyVars

KeysSpec ==
    /\ ClockStarts /\ KeysInit
    /\ [][KeysTick \/ (KeysNext /\ UNCHANGED now)]_<<now, keyVars>>

-----------------------------------------------------------------------------
(* Decided(v, phase): in this step request v reaches that phase. *)
Decided(v, phase) ==
    /\ verification'[v] # verification[v]
    /\ verification'[v].phase = phase

(* A token is accepted on a key the provider publishes, or withdrew less   *)
(* than the lifetime of the cache and of one fetch ago: neither a failed   *)
(* refresh nor one that is shared makes a withdrawn key live longer        *)
(* (createReplitAuthAdapter keys and verifyJwt).                           *)
KeysAreCurrent ==
    [][\A v \in Verification : Decided(v, "accepted") =>
         LET k == verification'[v].token.kid
         IN \/ k \in published
            \/ changedAt[k] > 0 /\ now - changedAt[k] < CacheSeconds + FetchTimeout
      ]_verification

(* A token with sound claims is refused for its key only if the key has    *)
(* been published for less than Interval: a key that is new is found by    *)
(* the forced refresh, however long the old keys could still be held.      *)
RotationIsSeen ==
    [][\A v \in Verification : Decided(v, "refused") =>
         LET token == verification'[v].token
         IN \/ ~ClaimsHold(token)
            \/ token.kid \notin published
            \/ now - changedAt[token.kid] < Interval
      ]_verification

(* No request waits for a refresh while the key it needs is held and       *)
(* current: the unknown key of one caller, or an outage of the provider,   *)
(* does not reach the callers whose keys are cached.                       *)
HeldKeysServe ==
    \A v \in Waiting :
        HeldAndCurrent => verification[v].token.kid \notin jwks
=============================================================================
