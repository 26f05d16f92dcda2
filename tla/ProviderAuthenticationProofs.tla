---------------------- MODULE ProviderAuthenticationProofs ----------------------
(***************************************************************************)
(* What the two ways of authenticating at the provider promise, for any    *)
(* number of keys, tokens, sign-ins and requests, any lifetimes and any    *)
(* failures of the provider: first the cache of its keys, then interactive *)
(* sign-in, then the Gateway that has them both, and last the settings it  *)
(* may be started with.                                                    *)
(*                                                                         *)
(* Nothing in the state says when the provider answered for its keys; what *)
(* counts is that it did so after the attempt the Gateway remembers, and   *)
(* that a fetch ends within its timeout.                                   *)
(***************************************************************************)
EXTENDS ProviderAuthentication, TLAPS

(* Key k is published, or has been withdrawn at or after time t. *)
PublishedSince(k, t) == k \in published \/ (changedAt[k] > 0 /\ changedAt[k] >= t)

(* Key k is not published, or has been published at or after time t. *)
NewSince(k, t) == k \in published => changedAt[k] >= t

(* The clock has started, and changes and attempts are in the past. *)
TimeInv ==
    /\ ClockOK
    /\ \A k \in Kid : changedAt[k] <= now
    /\ jwksLastAttemptAt <= now
    /\ jwksExpiresAt <= now + CacheSeconds

(* A fetch is young, and has been answered since it started. *)
FetchInv ==
    /\ fetch.underWay => now <= jwksLastAttemptAt + FetchTimeout
    /\ ~fetch.underWay => fetch.answer = {}
    /\ fetch.answer # {} =>
          /\ \A k \in fetch.answer : PublishedSince(k, jwksLastAttemptAt)
          /\ \A k \in Kid \ fetch.answer : NewSince(k, jwksLastAttemptAt)

(* The keys held were published when they were fetched; and if no attempt  *)
(* failed since, then a key that is missing came after that attempt.       *)
HeldInv ==
    /\ \A k \in jwks : PublishedSince(k, jwksExpiresAt - CacheSeconds - FetchTimeout)
    /\ jwks # {} /\ ~fetch.underWay /\ ~jwksLastFailure =>
          \A k \in Kid \ jwks : NewSince(k, jwksLastAttemptAt)

(* A request that waits has presented a token. *)
WaitingInv == \A v \in Waiting : verification[v].token \in Token

KeysInv == KeysTypeOK /\ TimeInv /\ FetchInv /\ HeldInv /\ WaitingInv /\ HeldKeysServe

KeysVars == <<now, keyVars>>
KeysStep == KeysTick \/ (KeysNext /\ UNCHANGED now)

-----------------------------------------------------------------------------
LEMMA KeysInitInv == ClockStarts /\ KeysInit => KeysInv
<1> SUFFICES ASSUME ClockStarts, KeysInit PROVE KeysInv
  OBVIOUS
<1>1. now \in Nat /\ now > 0 /\ ClockOK
  BY ClockAssumption DEF ClockStarts, ClockOK
<1>2. KeysTypeOK
  <2>1. verification \in [Verification -> VerificationState]
    BY DEF KeysInit, VerificationState
  <2>2. fetch \in Fetch
    BY DEF KeysInit, Fetch
  <2>3. QED
    BY <2>1, <2>2 DEF KeysInit, KeysTypeOK
<1>3. TimeInv /\ FetchInv /\ HeldInv
  BY <1>1, KeyLimitAssumption DEF KeysInit, TimeInv, FetchInv, HeldInv
<1>4. HeldKeysServe /\ WaitingInv
  BY DEF KeysInit, HeldKeysServe, WaitingInv, Waiting
<1>5. QED
  BY <1>2, <1>3, <1>4 DEF KeysInv

(* A verdict is one of the phases, and what Keys answers with one, too. *)
LEMMA ReachedTyped ==
    ASSUME NEW token \in Token \cup {NoToken},
           NEW phase \in {"idle", "waiting", "accepted", "refused", "unavailable"}
    PROVE  /\ Reached(token, phase) \in VerificationState
           /\ Reached(token, phase).token = token
           /\ Reached(token, phase).phase = phase
  BY DEF Reached, VerificationState

(* Keys without force answers from the keys held only while they are current,
   and with force only within Interval of an attempt that succeeded. *)
LEMMA KeysAnswers ==
    /\ Keys(FALSE) \in {"held", "waiting", "unavailable"}
    /\ Keys(TRUE) \in {"held", "waiting", "unavailable"}
    /\ Keys(FALSE) = "held" <=> HeldAndCurrent
    /\ Keys(TRUE) = "held" => ~fetch.underWay /\ HeldBack(TRUE) /\ ~jwksLastFailure
  BY Zenon DEF Keys, HeldBack

(* A request for a token waits, is decided on the keys held, or is told that
   the keys are unavailable. *)
LEMMA KeysForAnswers ==
    ASSUME NEW token \in Token
    PROVE  /\ KeysFor(token) \in {"held", "waiting", "unavailable"}
           /\ KeysFor(token) = "held" =>
                 /\ HeldAndCurrent
                 /\ token.kid \notin jwks =>
                       ~fetch.underWay /\ HeldBack(TRUE) /\ ~jwksLastFailure
           /\ KeysFor(token) = "waiting" /\ HeldAndCurrent => token.kid \notin jwks
<1>1. CASE Keys(FALSE) = "held" /\ token.kid \notin jwks
  BY <1>1, KeysAnswers, Zenon DEF KeysFor
<1>2. CASE ~(Keys(FALSE) = "held" /\ token.kid \notin jwks)
  <2>1. KeysFor(token) = Keys(FALSE)
    BY <1>2, Zenon DEF KeysFor
  <2>2. QED
    BY <1>2, <2>1, KeysAnswers
<1>3. QED
  BY <1>1, <1>2

-----------------------------------------------------------------------------
LEMMA TickInv == KeysInv /\ KeysTick => KeysInv'
<1> SUFFICES ASSUME KeysInv, KeysTick PROVE KeysInv'
  OBVIOUS
<1>1. /\ now' = now + 1 /\ now \in Nat /\ now >= Epoch
      /\ UNCHANGED <<published, changedAt, jwks, jwksExpiresAt, jwksLastAttemptAt,
                     jwksLastFailure, fetch, verification>>
  BY DEF KeysInv, TimeInv, ClockOK, KeysTick, Passes, keyVars, provider, cache
<1>2. KeysTypeOK'
  BY <1>1 DEF KeysInv, KeysTypeOK
<1>3. TimeInv'
  <2>1. ClockOK'
    BY <1>1, ClockAssumption DEF ClockOK
  <2>2. QED
    BY <1>1, <2>1, KeyLimitAssumption DEF KeysInv, TimeInv, KeysTypeOK
<1>4. FetchInv'
  <2>1. fetch.underWay => now + 1 <= jwksLastAttemptAt + FetchTimeout
    BY <1>1, KeyLimitAssumption DEF KeysInv, KeysTypeOK, KeysTick, KeysLetTimePass
  <2>2. QED
    BY <1>1, <2>1 DEF KeysInv, FetchInv, PublishedSince, NewSince
<1>5. HeldInv'
  BY <1>1 DEF KeysInv, HeldInv, PublishedSince, NewSince
<1>6. HeldKeysServe' /\ WaitingInv'
  BY <1>1 DEF KeysInv, KeysTypeOK, HeldKeysServe, WaitingInv, HeldAndCurrent, Waiting
<1>7. QED
  BY <1>2, <1>3, <1>4, <1>5, <1>6 DEF KeysInv

(* A request asks for the keys, and may start the refresh. *)
LEMMA ArrivesInv ==
    ASSUME KeysInv, UNCHANGED now, NEW v \in Verification, NEW token \in Token,
           TokenArrives(v, token)
    PROVE  KeysInv'
<1>1. PICK found \in {"held", "waiting", "unavailable"} : found = KeysFor(token)
  BY KeysForAnswers
<1>2. PICK phase \in {"waiting", "accepted", "refused", "unavailable"} :
        /\ phase = IF found = "held" THEN Verdict(token, jwks) ELSE found
        /\ phase = "waiting" <=> found = "waiting"
  BY <1>1 DEF Verdict
<1>3. /\ verification' = [verification EXCEPT ![v] = Reached(token, phase)]
      /\ found = "waiting" => FetchStarts
      /\ found # "waiting" => UNCHANGED <<jwksLastAttemptAt, fetch>>
      /\ UNCHANGED <<published, changedAt, jwks, jwksExpiresAt, jwksLastFailure>>
  BY <1>1, <1>2, Zenon DEF TokenArrives, provider
<1>4. /\ verification' \in [Verification -> VerificationState]
      /\ verification'[v].token = token /\ verification'[v].phase = phase
      /\ \A o \in Verification \ {v} : verification'[o] = verification[o]
  BY <1>3, ReachedTyped DEF KeysInv, KeysTypeOK
<1>5. \/ UNCHANGED <<jwksLastAttemptAt, fetch>>
      \/ /\ jwksLastAttemptAt' = now /\ fetch'.underWay /\ fetch'.answer = {}
         /\ fetch' \in Fetch
  <2>1. \/ UNCHANGED <<jwksLastAttemptAt, fetch>>
        \/ jwksLastAttemptAt' = now /\ fetch' = [underWay |-> TRUE, answer |-> {}]
    BY <1>1, <1>3, Zenon DEF FetchStarts
  <2>2. [underWay |-> TRUE, answer |-> {}] \in Fetch
    BY DEF Fetch
  <2>3. CASE UNCHANGED <<jwksLastAttemptAt, fetch>>
    BY <2>3
  <2>4. CASE jwksLastAttemptAt' = now /\ fetch' = [underWay |-> TRUE, answer |-> {}]
    <3>1. fetch'.underWay = TRUE /\ fetch'.answer = {}
      BY <2>4
    <3>2. QED
      BY <2>2, <2>4, <3>1
  <2>5. QED
    BY <2>1, <2>3, <2>4
<1>6. KeysTypeOK'
  BY <1>3, <1>4, <1>5 DEF KeysInv, KeysTypeOK, TimeInv, ClockOK
<1>7. TimeInv'
  BY <1>3, <1>5 DEF KeysInv, KeysTypeOK, TimeInv, ClockOK
<1>8. FetchInv'
  BY <1>3, <1>5, KeyLimitAssumption
     DEF KeysInv, KeysTypeOK, TimeInv, ClockOK, FetchInv, PublishedSince, NewSince
<1>9. HeldInv'
  BY <1>3, <1>5 DEF KeysInv, HeldInv, PublishedSince, NewSince
<1>10. HeldKeysServe'
  <2>1. HeldAndCurrent' <=> HeldAndCurrent
    BY <1>3 DEF HeldAndCurrent
  <2>2. ASSUME NEW o \in Waiting', HeldAndCurrent
        PROVE  verification'[o].token.kid \notin jwks
    <3>1. CASE o = v
      BY <1>1, <1>2, <1>4, <2>2, <3>1, KeysForAnswers DEF Waiting
    <3>2. CASE o # v
      BY <1>4, <2>2, <3>2 DEF KeysInv, HeldKeysServe, Waiting
    <3>3. QED
      BY <3>1, <3>2
  <2>3. QED
    BY <1>3, <2>1, <2>2 DEF HeldKeysServe
<1>11. WaitingInv'
  BY <1>4 DEF KeysInv, WaitingInv, Waiting
<1>12. QED
  BY <1>6, <1>7, <1>8, <1>9, <1>10, <1>11 DEF KeysInv

LEMMA RefreshSucceedsInv == KeysInv /\ UNCHANGED now /\ RefreshSucceeds => KeysInv'
<1> SUFFICES ASSUME KeysInv, UNCHANGED now, RefreshSucceeds PROVE KeysInv'
  OBVIOUS
<1>1. /\ fetch.underWay /\ fetch.answer # {} /\ fetch.answer \subseteq Kid
      /\ jwks' = fetch.answer /\ jwksExpiresAt' = now + CacheSeconds
      /\ jwksLastFailure' = FALSE /\ fetch' = [underWay |-> FALSE, answer |-> {}]
      /\ UNCHANGED <<published, changedAt, jwksLastAttemptAt>>
  BY DEF RefreshSucceeds, provider, KeysInv, KeysTypeOK, Fetch
<1>2. /\ fetch' \in Fetch /\ ~fetch'.underWay /\ fetch'.answer = {}
  BY <1>1 DEF Fetch
<1>3. /\ verification' \in [Verification -> VerificationState]
      /\ \A v \in Verification : verification'[v].phase # "waiting"
  <2>1. verification' = [v \in Verification |-> IF v \in Waiting
          THEN Reached(verification[v].token, Verdict(verification[v].token, fetch.answer))
          ELSE verification[v]]
    BY DEF RefreshSucceeds
  <2>2. ASSUME NEW v \in Verification
        PROVE  /\ verification'[v] \in VerificationState
               /\ verification'[v].phase # "waiting"
    <3>1. /\ verification[v] \in VerificationState
          /\ verification[v].token \in Token \cup {NoToken}
      BY DEF KeysInv, KeysTypeOK, VerificationState
    <3>2. PICK phase \in {"accepted", "refused"} :
            phase = Verdict(verification[v].token, fetch.answer)
      BY DEF Verdict
    <3>3. verification'[v] = IF v \in Waiting
            THEN Reached(verification[v].token, phase) ELSE verification[v]
      BY <2>1, <3>2
    <3>4. QED
      BY <3>1, <3>3, ReachedTyped DEF Waiting
  <2>3. QED
    BY <2>1, <2>2
<1>4. KeysTypeOK'
  <2>1. jwksLastFailure' \in BOOLEAN
    BY <1>1
  <2>2. jwksExpiresAt' \in Nat
    BY <1>1, KeyLimitAssumption DEF KeysInv, TimeInv, ClockOK
  <2>3. QED
    BY <1>1, <1>2, <1>3, <2>1, <2>2 DEF KeysInv, KeysTypeOK
<1>5. TimeInv' /\ FetchInv'
  BY <1>1, <1>2, KeyLimitAssumption DEF KeysInv, TimeInv, ClockOK, FetchInv
<1>6. HeldInv'
  <2>1. now + CacheSeconds - CacheSeconds - FetchTimeout <= jwksLastAttemptAt
    BY <1>1, KeyLimitAssumption DEF KeysInv, TimeInv, ClockOK, FetchInv, KeysTypeOK
  <2>2. \A k \in jwks' : (PublishedSince(k, jwksLastAttemptAt))'
    BY <1>1 DEF KeysInv, FetchInv, PublishedSince
  <2>3. \A k \in jwks' : k \in Kid /\ changedAt'[k] \in Nat
    BY <1>1 DEF KeysInv, KeysTypeOK
  <2>4. \A k \in jwks' : (PublishedSince(k, jwksExpiresAt - CacheSeconds - FetchTimeout))'
    BY <1>1, <2>1, <2>2, <2>3, KeyLimitAssumption
       DEF PublishedSince, KeysInv, KeysTypeOK, TimeInv, ClockOK
  <2>5. \A k \in Kid \ jwks' : (NewSince(k, jwksLastAttemptAt))'
    BY <1>1 DEF KeysInv, FetchInv, NewSince
  <2>6. QED
    BY <2>4, <2>5 DEF HeldInv
<1>7. HeldKeysServe' /\ WaitingInv'
  BY <1>3 DEF HeldKeysServe, WaitingInv, Waiting
<1>8. QED
  BY <1>4, <1>5, <1>6, <1>7 DEF KeysInv

LEMMA RefreshFailsInv == KeysInv /\ UNCHANGED now /\ RefreshFails => KeysInv'
<1> SUFFICES ASSUME KeysInv, UNCHANGED now, RefreshFails PROVE KeysInv'
  OBVIOUS
<1>1. /\ jwksLastFailure' = TRUE /\ fetch' = [underWay |-> FALSE, answer |-> {}]
      /\ UNCHANGED <<published, changedAt, jwks, jwksExpiresAt, jwksLastAttemptAt>>
  BY DEF RefreshFails, provider
<1>2. /\ fetch' \in Fetch /\ ~fetch'.underWay /\ fetch'.answer = {}
  BY <1>1 DEF Fetch
<1>3. /\ verification' \in [Verification -> VerificationState]
      /\ \A v \in Verification : verification'[v].phase # "waiting"
  <2>1. verification' = [v \in Verification |-> IF v \in Waiting
          THEN Reached(verification[v].token, "unavailable") ELSE verification[v]]
    BY DEF RefreshFails
  <2>2. \A v \in Verification : /\ verification[v] \in VerificationState
                                /\ verification[v].token \in Token \cup {NoToken}
    BY DEF KeysInv, KeysTypeOK, VerificationState
  <2>3. QED
    BY <2>1, <2>2, ReachedTyped DEF Waiting
<1>4. KeysTypeOK'
  BY <1>1, <1>2, <1>3 DEF KeysInv, KeysTypeOK
<1>5. TimeInv' /\ FetchInv' /\ HeldInv'
  BY <1>1, <1>2 DEF KeysInv, TimeInv, ClockOK, FetchInv, HeldInv, PublishedSince
<1>6. HeldKeysServe' /\ WaitingInv'
  BY <1>3 DEF HeldKeysServe, WaitingInv, Waiting
<1>7. QED
  BY <1>4, <1>5, <1>6 DEF KeysInv

LEMMA AnswersInv == KeysInv /\ UNCHANGED now /\ ProviderAnswers => KeysInv'
<1> SUFFICES ASSUME KeysInv, UNCHANGED now, ProviderAnswers PROVE KeysInv'
  OBVIOUS
<1>1. /\ fetch.underWay /\ fetch' = [fetch EXCEPT !.answer = published]
      /\ UNCHANGED <<published, changedAt, jwks, jwksExpiresAt, jwksLastAttemptAt,
                     jwksLastFailure, verification>>
  BY DEF ProviderAnswers, provider, cache
<1>2. fetch' \in Fetch /\ fetch'.underWay = fetch.underWay /\ fetch'.answer = published
  BY <1>1 DEF KeysInv, KeysTypeOK, Fetch
<1>3. KeysTypeOK' /\ TimeInv'
  BY <1>1, <1>2 DEF KeysInv, KeysTypeOK, TimeInv, ClockOK
<1>4. FetchInv' /\ HeldInv'
  BY <1>1, <1>2 DEF KeysInv, FetchInv, HeldInv, PublishedSince, NewSince
<1>5. HeldKeysServe' /\ WaitingInv'
  BY <1>1 DEF KeysInv, HeldKeysServe, WaitingInv, HeldAndCurrent, Waiting
<1>6. QED
  BY <1>3, <1>4, <1>5 DEF KeysInv

(* A rotation is a change of the present, later than every fetch so far. *)
LEMMA RotatesInv ==
    ASSUME KeysInv, UNCHANGED now, NEW c \in Kid, ProviderRotates(c)
    PROVE  KeysInv'
<1>1. /\ published' = IF c \in published THEN published \ {c} ELSE published \cup {c}
      /\ changedAt' = [changedAt EXCEPT ![c] = now]
      /\ UNCHANGED <<jwks, jwksExpiresAt, jwksLastAttemptAt, jwksLastFailure,
                     fetch, verification>>
  BY DEF ProviderRotates, cache
<1>2. /\ now \in Nat /\ now > 0 /\ jwksLastAttemptAt \in Nat /\ jwksLastAttemptAt <= now
      /\ changedAt \in [Kid -> Nat] /\ published \subseteq Kid /\ jwks \subseteq Kid
      /\ jwksExpiresAt \in Nat /\ fetch.answer \subseteq Kid
  BY ClockAssumption DEF KeysInv, TimeInv, ClockOK, KeysTypeOK, Fetch
<1>3. /\ published' \subseteq Kid /\ changedAt' \in [Kid -> Nat] /\ changedAt'[c] = now
      /\ \A k \in Kid \ {c} : /\ changedAt'[k] = changedAt[k]
                              /\ k \in published' <=> k \in published
  BY <1>1, <1>2
<1>4. KeysTypeOK' /\ TimeInv'
  BY <1>1, <1>2, <1>3 DEF KeysInv, KeysTypeOK, TimeInv, ClockOK
<1>5. ASSUME NEW k \in Kid, NEW t \in Int, t <= now
      PROVE  /\ PublishedSince(k, t) =>
                   (k \in published' \/ (changedAt'[k] > 0 /\ changedAt'[k] >= t))
             /\ NewSince(k, t) => (k \in published' => changedAt'[k] >= t)
  <2>1. CASE k = c
    BY <1>2, <1>3, <1>5, <2>1 DEF PublishedSince, NewSince
  <2>2. CASE k # c
    <3>1. changedAt'[k] = changedAt[k] /\ (k \in published' <=> k \in published)
      BY <1>3, <2>2
    <3>2. QED
      BY <3>1 DEF PublishedSince, NewSince
  <2>3. QED
    BY <2>1, <2>2
<1>6. FetchInv'
  BY <1>1, <1>2, <1>5 DEF KeysInv, FetchInv, PublishedSince, NewSince
<1>7. HeldInv'
  <2>1. jwks # {} => jwksExpiresAt - CacheSeconds - FetchTimeout <= now
    BY <1>2, KeyLimitAssumption DEF KeysInv, TimeInv
  <2>2. QED
    BY <1>1, <1>2, <1>5, <2>1, KeyLimitAssumption DEF KeysInv, HeldInv, PublishedSince, NewSince
<1>8. HeldKeysServe' /\ WaitingInv'
  BY <1>1 DEF KeysInv, HeldKeysServe, WaitingInv, HeldAndCurrent, Waiting
<1>9. QED
  BY <1>4, <1>6, <1>7, <1>8 DEF KeysInv

LEMMA KeysStepInv == KeysInv /\ [KeysStep]_KeysVars => KeysInv'
<1> SUFFICES ASSUME KeysInv, [KeysStep]_KeysVars PROVE KeysInv'
  OBVIOUS
<1>1. CASE KeysTick
  BY <1>1, TickInv
<1>2. CASE KeysNext /\ UNCHANGED now
  BY <1>2, ArrivesInv, RefreshSucceedsInv, RefreshFailsInv, AnswersInv, RotatesInv
     DEF KeysNext
<1>3. CASE UNCHANGED KeysVars
  BY <1>3 DEF KeysVars, keyVars, provider, cache, KeysInv, KeysTypeOK, TimeInv, ClockOK,
              FetchInv, HeldInv, PublishedSince, NewSince, WaitingInv, HeldKeysServe,
              HeldAndCurrent, Waiting
<1>4. QED
  BY <1>1, <1>2, <1>3 DEF KeysStep

-----------------------------------------------------------------------------
(* The keys a token is decided on: each was published less than a lifetime of
   the cache and of a fetch ago, and a key that is missing is new. *)
Sound(token, keys) ==
    /\ \A k \in keys : k \in published \/
          (changedAt[k] > 0 /\ now - changedAt[k] < CacheSeconds + FetchTimeout)
    /\ (token.kid \notin keys /\ token.kid \in published) =>
          now - changedAt[token.kid] < Interval

LEMMA Decisions ==
    ASSUME KeysInv, KeysStep, NEW v \in Verification,
           NEW phase \in {"accepted", "refused"}, Decided(v, phase)
    PROVE  /\ UNCHANGED <<now>>
           /\ \E token \in Token, keys \in SUBSET Kid :
                 /\ verification'[v].token = token
                 /\ phase = Verdict(token, keys)
                 /\ Sound(token, keys)
<1>1. verification'[v] # verification[v] /\ verification'[v].phase = phase
  BY DEF Decided
<1>2. /\ now \in Nat /\ jwksExpiresAt \in Nat /\ jwksLastAttemptAt \in Nat
      /\ changedAt \in [Kid -> Nat] /\ jwks \subseteq Kid /\ fetch.answer \subseteq Kid
      /\ jwksLastAttemptAt <= now
      /\ CacheSeconds \in Nat /\ FetchTimeout \in Nat /\ Interval \in Nat
      /\ FetchTimeout < Interval /\ Interval <= CacheSeconds
      /\ \A token \in Token : token.kid \in Kid
  BY TokenAssumption, KeyLimitAssumption DEF KeysInv, TimeInv, ClockOK, KeysTypeOK, Fetch
<1>3. KeysNext /\ UNCHANGED now
  BY <1>1 DEF KeysStep, KeysTick, keyVars
<1>4. ASSUME NEW w \in Verification, NEW token \in Token, TokenArrives(w, token)
      PROVE  \E t \in Token, keys \in SUBSET Kid :
                 verification'[v].token = t /\ phase = Verdict(t, keys) /\ Sound(t, keys)
  <2>1. PICK found \in {"held", "waiting", "unavailable"} : found = KeysFor(token)
    BY KeysForAnswers
  <2>2. PICK reached : reached = IF found = "held" THEN Verdict(token, jwks) ELSE found
    OBVIOUS
  <2>3. verification' = [verification EXCEPT ![w] = Reached(token, reached)]
    BY <1>4, <2>1, <2>2, Zenon DEF TokenArrives
  <2>4. w = v /\ verification'[v] = Reached(token, reached)
    BY <1>1, <2>3 DEF KeysInv, KeysTypeOK
  <2>5. verification'[v].token = token /\ reached = phase
    BY <1>1, <2>4 DEF Reached
  <2>6. found = "held" /\ phase = Verdict(token, jwks)
    BY <2>1, <2>2, <2>5
  <2>7. /\ jwks # {} /\ jwksExpiresAt > now
        /\ token.kid \notin jwks =>
              ~fetch.underWay /\ now - jwksLastAttemptAt < Interval /\ ~jwksLastFailure
    BY <2>1, <2>6, KeysForAnswers DEF HeldAndCurrent, HeldBack
  <2>8. ASSUME NEW k \in jwks
        PROVE  k \in published \/
                 (changedAt[k] > 0 /\ now - changedAt[k] < CacheSeconds + FetchTimeout)
    BY <1>2, <2>7 DEF KeysInv, HeldInv, PublishedSince
  <2>9. ASSUME token.kid \notin jwks, token.kid \in published
        PROVE  now - changedAt[token.kid] < Interval
    BY <1>2, <2>7, <2>9 DEF KeysInv, HeldInv, NewSince
  <2>10. Sound(token, jwks)
    BY <2>8, <2>9 DEF Sound
  <2>11. QED
    BY <1>2, <2>5, <2>6, <2>10
<1>5. CASE RefreshSucceeds
  <2>1. /\ fetch.underWay /\ fetch.answer # {}
        /\ verification' = [o \in Verification |-> IF o \in Waiting
             THEN Reached(verification[o].token, Verdict(verification[o].token, fetch.answer))
             ELSE verification[o]]
    BY <1>5 DEF RefreshSucceeds
  <2>2. v \in Waiting
    BY <1>1, <2>1
  <2>3. PICK token \in Token : token = verification[v].token
    BY <2>2 DEF KeysInv, WaitingInv
  <2>4. verification'[v] = Reached(token, Verdict(token, fetch.answer))
    BY <2>1, <2>2, <2>3
  <2>5. verification'[v].token = token /\ phase = Verdict(token, fetch.answer)
    BY <1>1, <2>4 DEF Reached
  <2>6. now <= jwksLastAttemptAt + FetchTimeout
    BY <2>1 DEF KeysInv, FetchInv
  <2>7. ASSUME NEW k \in fetch.answer
        PROVE  k \in published \/
                 (changedAt[k] > 0 /\ now - changedAt[k] < CacheSeconds + FetchTimeout)
    BY <1>2, <2>1, <2>6 DEF KeysInv, FetchInv, PublishedSince
  <2>8. ASSUME token.kid \notin fetch.answer, token.kid \in published
        PROVE  now - changedAt[token.kid] < Interval
    BY <1>2, <2>1, <2>6, <2>8 DEF KeysInv, FetchInv, NewSince
  <2>9. Sound(token, fetch.answer)
    BY <2>7, <2>8 DEF Sound
  <2>10. fetch.answer \in SUBSET Kid
    BY <1>2
  <2>11. QED
    BY <1>3, <2>5, <2>9, <2>10
<1>6. CASE RefreshFails
  <2>1. verification'[v] \in {verification[v], Reached(verification[v].token, "unavailable")}
    BY <1>6 DEF RefreshFails
  <2>2. FALSE
    BY <1>1, <2>1 DEF Reached
  <2>3. QED
    BY <2>2
<1>7. CASE ProviderAnswers \/ \E k \in Kid : ProviderRotates(k)
  BY <1>1, <1>7 DEF ProviderAnswers, ProviderRotates
<1>8. QED
  BY <1>3, <1>4, <1>5, <1>6, <1>7 DEF KeysNext

-----------------------------------------------------------------------------
(* The strengthened invariant holds in every reachable state. *)
THEOREM KeysInvariance == KeysSpec => []KeysInv
<1>1. KeysInv /\ [KeysTick \/ (KeysNext /\ UNCHANGED now)]_<<now, keyVars>> => KeysInv'
  BY KeysStepInv DEF KeysStep, KeysVars
<1>2. QED
  BY <1>1, KeysInitInv, PTL DEF KeysSpec

(* The types of the cache and of the requests. *)
THEOREM Typing == KeysSpec => []KeysTypeOK
  BY KeysInvariance, PTL DEF KeysInv

(* No request waits for a refresh while the key it needs is held (keys). *)
THEOREM HeldKeysAreServed == KeysSpec => []HeldKeysServe
  BY KeysInvariance, PTL DEF KeysInv

(* A withdrawn key is accepted for the lifetime of the cache and one fetch at
   most, whatever fails in between (keys, verifyJwt). *)
THEOREM AcceptedKeysAreCurrent == KeysSpec => KeysAreCurrent
<1>1. KeysInv /\ [KeysTick \/ (KeysNext /\ UNCHANGED now)]_<<now, keyVars>> =>
        [\A v \in Verification : Decided(v, "accepted") =>
           LET k == verification'[v].token.kid
           IN \/ k \in published
              \/ changedAt[k] > 0 /\ now - changedAt[k] < CacheSeconds + FetchTimeout
        ]_verification
  <2> SUFFICES ASSUME KeysInv, KeysStep, NEW v \in Verification, Decided(v, "accepted")
               PROVE  LET k == verification'[v].token.kid
                      IN \/ k \in published
                         \/ /\ changedAt[k] > 0
                            /\ now - changedAt[k] < CacheSeconds + FetchTimeout
    BY DEF KeysStep, keyVars
  <2>1. PICK token \in Token, keys \in SUBSET Kid :
           /\ verification'[v].token = token /\ "accepted" = Verdict(token, keys)
           /\ Sound(token, keys)
    BY Decisions
  <2>2. token.kid \in keys
    BY <2>1 DEF Verdict
  <2>3. QED
    BY <2>1, <2>2 DEF Sound
<1>2. QED
  BY <1>1, KeysInvariance, PTL DEF KeysSpec, KeysAreCurrent

(* A token is refused for its key only when the key has been published for
   less than Interval (keys, verifyJwt). *)
THEOREM NewKeysAreFound == KeysSpec => RotationIsSeen
<1>1. KeysInv /\ [KeysTick \/ (KeysNext /\ UNCHANGED now)]_<<now, keyVars>> =>
        [\A v \in Verification : Decided(v, "refused") =>
           LET token == verification'[v].token
           IN \/ ~ClaimsHold(token)
              \/ token.kid \notin published
              \/ now - changedAt[token.kid] < Interval
        ]_verification
  <2> SUFFICES ASSUME KeysInv, KeysStep, NEW v \in Verification, Decided(v, "refused")
               PROVE  LET token == verification'[v].token
                      IN \/ ~ClaimsHold(token)
                         \/ token.kid \notin published
                         \/ now - changedAt[token.kid] < Interval
    BY DEF KeysStep, keyVars
  <2>1. PICK token \in Token, keys \in SUBSET Kid :
           /\ verification'[v].token = token /\ "refused" = Verdict(token, keys)
           /\ Sound(token, keys)
    BY Decisions
  <2>2. token.kid \notin keys \/ ~ClaimsHold(token)
    BY <2>1 DEF Verdict
  <2>3. QED
    BY <2>1, <2>2 DEF Sound
<1>2. QED
  BY <1>1, KeysInvariance, PTL DEF KeysSpec, RotationIsSeen

-----------------------------------------------------------------------------
(* Interactive sign-in.  Sign-ins are only added, and stay bound to the    *)
(* origin they were started at; a session names its own, and was issued    *)
(* soon after the authentication.                                          *)
SessionOK(s) ==
    s # NoSession =>
        /\ s.of \in 1 .. Len(transaction)
        /\ s.origin = transaction[s.of].origin
        /\ s.issuedAt - s.authnTime <= MaxAuthnAge

(* A login that waits has passed Recognised, and a callback OriginFits.    *)
CallOK(x) ==
    /\ SessionOK(x.session)
    /\ x.kind = "login" /\ x.phase = "waiting" => x.origin \in Origin
    /\ x.kind = "callback" /\ x.phase = "waiting" =>
          x.of \in 1 .. Len(transaction) /\ x.origin = transaction[x.of].origin

SignInInv ==
    /\ ClockOK
    /\ SignInTypeOK
    /\ transaction \in Seq(Transaction)
    /\ SessionOK(cookies.session)
    /\ \A c \in Call : CallOK(call[c])

SignInStep == (SignInNext /\ UNCHANGED now) \/ (Passes /\ UNCHANGED signInVars)

Grows ==
    /\ Len(transaction) \in Nat /\ Len(transaction') \in Nat
    /\ Len(transaction) <= Len(transaction')
    /\ \A t \in 1 .. Len(transaction) : transaction'[t].origin = transaction[t].origin

-----------------------------------------------------------------------------
LEMMA CallStateIs ==
    ASSUME NEW kind \in {"none", "login", "callback", "logout"},
           NEW phase \in {"idle", "waiting", "answered"},
           NEW o \in Origin \cup {Elsewhere}, NEW of \in 0 .. SignIns, NEW at \in Nat,
           NEW sets \in SUBSET {"transaction", "session"},
           NEW session \in Session \cup {NoSession}
    PROVE  [kind |-> kind, phase |-> phase, origin |-> o, of |-> of, at |-> at,
            sets |-> sets, session |-> session] \in CallState
  BY DEF CallState

LEMMA NothingIsBound ==
    /\ Unused \in CallState /\ Unused.session = NoSession /\ Unused.phase = "idle"
    /\ \A kind \in {"none", "login", "callback", "logout"} :
          /\ Failed(kind) \in CallState
          /\ Failed(kind).session = NoSession
          /\ Failed(kind).phase # "waiting"
<1>1. 0 \in 0 .. SignIns
  BY SignInLimitAssumption
<1>2. Unused \in CallState /\ Unused.session = NoSession /\ Unused.phase = "idle"
  BY <1>1, CallStateIs DEF Unused
<1>3. Failed("callback") =
        [kind |-> "callback", phase |-> "answered", origin |-> Elsewhere, of |-> 0,
         at |-> 0, sets |-> {"transaction"}, session |-> NoSession]
  BY DEF Failed, Unused
<1>4. Failed("callback") \in CallState
  BY <1>1, <1>3, CallStateIs
<1>5. \A kind : kind # "callback" => Failed(kind) = Unused
  BY DEF Failed
<1>6. QED
  BY <1>2, <1>3, <1>4, <1>5

LEMMA SignInInitInv == ClockStarts /\ SignInInit => SignInInv
<1> SUFFICES ASSUME ClockStarts, SignInInit PROVE SignInInv
  OBVIOUS
<1>1. ClockOK
  BY ClockAssumption DEF ClockStarts, ClockOK
<1>2. transaction \in Seq(Transaction) /\ Len(transaction) = 0
  BY DEF SignInInit
<1>3. call \in [Call -> CallState] /\ cookies \in Cookies
  BY NothingIsBound, SignInLimitAssumption DEF SignInInit, Cookies
<1>4. SignInTypeOK
  BY <1>2, <1>3, SignInLimitAssumption DEF SignInInit, SignInTypeOK
<1>5. QED
  BY <1>1, <1>2, <1>4, NothingIsBound DEF SignInInit, SignInInv, SessionOK, CallOK

(* What is bound stays bound while sign-ins are only added. *)
LEMMA BoundStays ==
    ASSUME Grows, NEW x
    PROVE  /\ SessionOK(x) => SessionOK(x)'
           /\ CallOK(x) => CallOK(x)'
  BY DEF Grows, SessionOK, CallOK

(* One request changes, to a state that is bound. *)
LEMMA CallChanges ==
    ASSUME SignInInv, Grows, NEW c \in Call, NEW x \in CallState, CallOK(x)',
           call' = [call EXCEPT ![c] = x]
    PROVE  call' \in [Call -> CallState] /\ \A d \in Call : CallOK(call[d])'
<1>1. call \in [Call -> CallState] /\ \A d \in Call : CallOK(call[d])
  BY DEF SignInInv, SignInTypeOK
<1>2. call' \in [Call -> CallState] /\ call'[c] = x /\ \A d \in Call \ {c} : call'[d] = call[d]
  BY <1>1
<1>3. ASSUME NEW d \in Call PROVE CallOK(call[d])'
  <2>1. CASE d = c
    BY <1>2, <2>1 DEF CallOK, SessionOK
  <2>2. CASE d # c
    <3>1. PICK y : y = call[d]
      OBVIOUS
    <3>2. CallOK(y)' /\ call'[d] = y
      BY <1>1, <1>2, <2>2, <3>1, BoundStays
    <3>3. QED
      BY <3>2 DEF CallOK, SessionOK
  <2>3. QED
    BY <2>1, <2>2
<1>4. QED
  BY <1>2, <1>3

(* Most steps leave the sign-ins and the cookies as they are. *)
LEMMA OneCallStep ==
    ASSUME SignInInv, UNCHANGED <<now, transaction, cookies>>,
           oidcPromise' \in {"none", "pending", "fulfilled"},
           NEW c \in Call, NEW x \in CallState, CallOK(x),
           call' = [call EXCEPT ![c] = x]
    PROVE  SignInInv'
<1>1. Grows
  BY DEF SignInInv, Grows
<1>2. CallOK(x)'
  BY <1>1, BoundStays
<1>3. call' \in [Call -> CallState] /\ \A d \in Call : CallOK(call[d])'
  BY <1>1, <1>2, CallChanges
<1>4. SignInTypeOK' /\ ClockOK'
  BY <1>3 DEF SignInInv, SignInTypeOK, ClockOK
<1>5. QED
  BY <1>3, <1>4 DEF SignInInv, SessionOK

(* A request arrives, or is over without a session. *)
LEMMA ArrivalsInv ==
    ASSUME SignInInv, UNCHANGED now, NEW c \in Call,
           \/ \E o \in Origin : LoginArrives(c, o)
           \/ \E t \in DOMAIN transaction, o \in Origin \cup {Elsewhere} :
                 CallbackArrives(c, t, o)
           \/ LogoutArrives(c) \/ LogoutEnds(c) \/ ProviderFails(c) \/ AnswerIsLost(c)
    PROVE  SignInInv'
<1>1. oidcPromise' \in {"none", "pending", "fulfilled"}
  BY DEF SignInInv, SignInTypeOK, LoginArrives, CallbackArrives, LogoutArrives, LogoutEnds,
         ProviderFails, AnswerIsLost, ClientAsked
<1>2. UNCHANGED <<transaction, cookies>>
  BY DEF LoginArrives, CallbackArrives, LogoutArrives, LogoutEnds, ProviderFails,
         AnswerIsLost
<1>3. SUFFICES \E x \in CallState : CallOK(x) /\ call' = [call EXCEPT ![c] = x]
  BY <1>1, <1>2, OneCallStep
<1>4. ASSUME NEW o \in Origin, LoginArrives(c, o)
      PROVE  \E x \in CallState : CallOK(x) /\ call' = [call EXCEPT ![c] = x]
  <2>1. PICK x : x = [Unused EXCEPT !.kind = "login", !.phase = "waiting", !.origin = o]
    OBVIOUS
  <2>2. x = [kind |-> "login", phase |-> "waiting", origin |-> o, of |-> 0, at |-> 0,
             sets |-> {}, session |-> NoSession]
    BY <2>1 DEF Unused
  <2>3. x \in CallState
    BY <2>2, CallStateIs, SignInLimitAssumption
  <2>4. QED
    BY <1>4, <2>1, <2>2, <2>3 DEF LoginArrives, CallOK, SessionOK
<1>5. ASSUME NEW t \in DOMAIN transaction, NEW o \in Origin \cup {Elsewhere},
             CallbackArrives(c, t, o)
      PROVE  \E x \in CallState : CallOK(x) /\ call' = [call EXCEPT ![c] = x]
  <2>1. CASE TransactionFits(t) /\ OriginFits(t, o)
    <3>1. PICK x : x = [Unused EXCEPT !.kind = "callback", !.phase = "waiting",
                                      !.origin = o, !.of = t, !.at = now]
      OBVIOUS
    <3>2. t \in 1 .. Len(transaction) /\ t \in 0 .. SignIns /\ now \in Nat
      BY SignInLimitAssumption DEF SignInInv, SignInTypeOK, ClockOK
    <3>3. x \in CallState /\ x.session = NoSession /\ x.of = t /\ x.origin = o
         /\ x.kind = "callback"
      BY <3>1, <3>2, SignInLimitAssumption DEF Unused, CallState
    <3>4. CallOK(x)
      BY <2>1, <3>2, <3>3 DEF CallOK, SessionOK, OriginFits
    <3>5. QED
      BY <1>5, <2>1, <3>1, <3>3, <3>4 DEF CallbackArrives
  <2>2. CASE ~(TransactionFits(t) /\ OriginFits(t, o))
    <3>1. call' = [call EXCEPT ![c] = Failed("callback")]
      BY <1>5, <2>2, Zenon DEF CallbackArrives
    <3>2. QED
      BY <3>1, NothingIsBound DEF CallOK, SessionOK
  <2>3. QED
    BY <2>1, <2>2
<1>6. ASSUME LogoutArrives(c)
      PROVE  \E x \in CallState : CallOK(x) /\ call' = [call EXCEPT ![c] = x]
  <2>1. PICK x : x = [Unused EXCEPT !.kind = "logout", !.phase = "waiting"]
    OBVIOUS
  <2>2. x = [kind |-> "logout", phase |-> "waiting", origin |-> Elsewhere, of |-> 0,
             at |-> 0, sets |-> {}, session |-> NoSession]
    BY <2>1 DEF Unused
  <2>3. x \in CallState
    BY <2>2, CallStateIs, SignInLimitAssumption
  <2>4. QED
    BY <1>6, <2>1, <2>2, <2>3 DEF LogoutArrives, CallOK, SessionOK
<1>7. ASSUME LogoutEnds(c)
      PROVE  \E x \in CallState : CallOK(x) /\ call' = [call EXCEPT ![c] = x]
  <2>1. PICK x : x = [Unused EXCEPT !.kind = "logout", !.phase = "answered",
                                    !.sets = {"session"}]
    OBVIOUS
  <2>2. x = [kind |-> "logout", phase |-> "answered", origin |-> Elsewhere, of |-> 0,
             at |-> 0, sets |-> {"session"}, session |-> NoSession]
    BY <2>1 DEF Unused
  <2>3. x \in CallState
    BY <2>2, CallStateIs, SignInLimitAssumption
  <2>4. QED
    BY <1>7, <2>1, <2>2, <2>3 DEF LogoutEnds, CallOK, SessionOK
<1>8. ASSUME ProviderFails(c)
      PROVE  \E x \in CallState : CallOK(x) /\ call' = [call EXCEPT ![c] = x]
  <2>1. call' = [call EXCEPT ![c] = Failed(call[c].kind)]
    BY <1>8 DEF ProviderFails
  <2>2. Failed(call[c].kind) \in CallState /\ CallOK(Failed(call[c].kind))
    <3>1. Failed("none") = Unused
      BY DEF Failed
    <3>2. call[c].kind \in {"none", "login", "callback", "logout"}
      BY DEF SignInInv, SignInTypeOK, CallState
    <3>3. QED
      BY <3>1, <3>2, NothingIsBound DEF CallOK, SessionOK
  <2>3. QED
    BY <2>1, <2>2
<1>9. ASSUME AnswerIsLost(c)
      PROVE  \E x \in CallState : CallOK(x) /\ call' = [call EXCEPT ![c] = x]
  BY <1>9, NothingIsBound DEF AnswerIsLost, CallOK, SessionOK
<1>10. QED
  BY <1>4, <1>5, <1>6, <1>7, <1>8, <1>9

(* A sign-in is added, and its login answered. *)
LEMMA RedirectsInv ==
    ASSUME SignInInv, UNCHANGED now, NEW c \in Call, LoginRedirects(c)
    PROVE  SignInInv'
<1>1. PICK added : added = [origin |-> call[c].origin, issuedAt |-> now, authnTime |-> 0,
                            redeemed |-> FALSE]
  OBVIOUS
<1>2. PICK x : x = [call[c] EXCEPT !.phase = "answered", !.sets = {"transaction"},
                                   !.of = Len(transaction')]
  OBVIOUS
<1>3. /\ call[c].kind = "login" /\ Len(transaction) < SignIns
      /\ transaction' = Append(transaction, added)
      /\ call' = [call EXCEPT ![c] = x]
      /\ UNCHANGED <<oidcPromise, cookies>>
  BY <1>1, <1>2 DEF LoginRedirects
<1>4. call[c] \in CallState /\ CallOK(call[c]) /\ now \in Nat
  BY DEF SignInInv, SignInTypeOK, ClockOK
<1>5. PICK n \in Nat : n = Len(transaction)
  BY DEF SignInInv
<1>6. call[c].origin \in Origin
  BY <1>3, <1>4 DEF LoginRedirects, CallOK
<1>7. added \in Transaction
  BY <1>1, <1>4, <1>6 DEF Transaction
<1>8. /\ transaction' \in Seq(Transaction) /\ Len(transaction') = n + 1
      /\ \A t \in 1 .. n : transaction'[t] = transaction[t]
      /\ transaction'[n + 1] = added
  BY <1>3, <1>5, <1>7 DEF SignInInv
<1>9. Grows
  BY <1>5, <1>8 DEF Grows
<1>10. /\ x \in CallState /\ x.session = call[c].session /\ x.kind = "login"
       /\ x.phase = "answered"
  <2>1. Len(transaction') \in 0 .. SignIns
    BY <1>3, <1>5, <1>8, SignInLimitAssumption
  <2>2. QED
    BY <1>2, <1>3, <1>4, <2>1 DEF CallState
<1>11. CallOK(x)'
  BY <1>4, <1>9, <1>10, BoundStays DEF CallOK
<1>12. call' \in [Call -> CallState] /\ \A d \in Call : CallOK(call[d])'
  BY <1>3, <1>9, <1>10, <1>11, CallChanges
<1>13. SignInTypeOK' /\ ClockOK'
  <2>1. Len(transaction') <= SignIns
    BY <1>3, <1>5, <1>8, SignInLimitAssumption
  <2>2. \A t \in DOMAIN transaction' : transaction'[t] \in Transaction
    BY <1>8
  <2>3. QED
    BY <1>3, <1>12, <2>1, <2>2 DEF SignInInv, SignInTypeOK, ClockOK
<1>14. SessionOK(cookies.session)'
  BY <1>3, <1>9 DEF SignInInv, SessionOK, Grows
<1>15. QED
  BY <1>8, <1>12, <1>13, <1>14 DEF SignInInv

(* One sign-in changes, but not its origin. *)
LEMMA TransactionChanges ==
    ASSUME SignInInv, NEW t \in 1 .. Len(transaction), NEW changed \in Transaction,
           changed.origin = transaction[t].origin,
           transaction' = [transaction EXCEPT ![t] = changed]
    PROVE  /\ Grows
           /\ transaction' \in Seq(Transaction) /\ Len(transaction') = Len(transaction)
           /\ \A u \in DOMAIN transaction' : transaction'[u] \in Transaction
<1>1. PICK n \in Nat : n = Len(transaction)
  BY DEF SignInInv
<1>2. transaction' \in Seq(Transaction) /\ Len(transaction') = n
  BY <1>1 DEF SignInInv
<1>3. \A u \in 1 .. n : transaction'[u].origin = transaction[u].origin
  BY <1>1 DEF SignInInv
<1>4. QED
  BY <1>1, <1>2, <1>3 DEF Grows

(* The session of a callback names the sign-in its request was bound to, and
   is issued only while the authentication is recent. *)
LEMMA ExchangesInv ==
    ASSUME SignInInv, UNCHANGED now, NEW c \in Call, CallbackExchanges(c)
    PROVE  SignInInv'
<1>1. PICK t, authnTime : t = call[c].of /\ authnTime = transaction[t].authnTime
  OBVIOUS
<1>2. /\ call[c].kind = "callback" /\ call[c].phase = "waiting"
      /\ transaction' = [transaction EXCEPT ![t].redeemed = TRUE]
      /\ UNCHANGED <<oidcPromise, cookies>>
  BY <1>1, Zenon DEF CallbackExchanges
<1>3. PICK issued : issued = [of |-> t, origin |-> call[c].origin,
                              authnTime |-> authnTime, issuedAt |-> now]
  OBVIOUS
<1>4. PICK good : good = [Failed("callback") EXCEPT !.sets = {"transaction", "session"},
                                                    !.session = issued]
  OBVIOUS
<1>5. \/ Issuable(authnTime) /\ call' = [call EXCEPT ![c] = good]
      \/ call' = [call EXCEPT ![c] = Failed("callback")]
  BY <1>1, <1>3, <1>4, Zenon DEF CallbackExchanges
<1>6. /\ call[c] \in CallState /\ now \in Nat
      /\ t \in 1 .. Len(transaction) /\ call[c].origin = transaction[t].origin
  BY <1>1, <1>2 DEF SignInInv, SignInTypeOK, ClockOK, CallOK
<1>7. transaction[t] \in Transaction /\ authnTime \in Nat /\ t \in 1 .. SignIns
  <2>1. transaction[t] \in Transaction /\ Len(transaction) <= SignIns
    BY <1>6 DEF SignInInv, SignInTypeOK
  <2>2. Len(transaction) \in Nat
    BY DEF SignInInv
  <2>3. QED
    BY <1>1, <1>6, <2>1, <2>2, SignInLimitAssumption DEF Transaction
<1>8. PICK changed : changed = [transaction[t] EXCEPT !.redeemed = TRUE]
  OBVIOUS
<1>9. /\ changed \in Transaction /\ changed.origin = transaction[t].origin
      /\ transaction' = [transaction EXCEPT ![t] = changed]
  BY <1>2, <1>6, <1>7, <1>8 DEF Transaction
<1>10. /\ Grows /\ transaction' \in Seq(Transaction)
       /\ Len(transaction') = Len(transaction)
       /\ \A u \in DOMAIN transaction' : transaction'[u] \in Transaction
  BY <1>6, <1>9, TransactionChanges
<1>11. call' \in [Call -> CallState] /\ \A d \in Call : CallOK(call[d])'
  <2>1. CASE call' = [call EXCEPT ![c] = Failed("callback")]
    <3>1. Failed("callback") \in CallState /\ CallOK(Failed("callback"))
      BY NothingIsBound DEF CallOK, SessionOK
    <3>2. PICK x \in CallState : x = Failed("callback") /\ CallOK(x)
      BY <3>1
    <3>3. CallOK(x)'
      BY <1>10, <3>2, BoundStays
    <3>4. QED
      BY <1>10, <2>1, <3>2, <3>3, CallChanges
  <2>2. CASE Issuable(authnTime) /\ call' = [call EXCEPT ![c] = good]
    <3>1. issued \in Session
      BY <1>3, <1>6, <1>7 DEF Session, CallState
    <3>2. /\ good \in CallState /\ good.session = issued /\ good.phase = "answered"
      <4>1. good = [kind |-> "callback", phase |-> "answered", origin |-> Elsewhere,
                    of |-> 0, at |-> 0, sets |-> {"transaction", "session"},
                    session |-> issued]
        BY <1>4 DEF Failed, Unused
      <4>2. good \in CallState
        BY <3>1, <4>1, CallStateIs, SignInLimitAssumption
      <4>3. QED
        BY <4>1, <4>2
    <3>3. issued.issuedAt - issued.authnTime <= MaxAuthnAge
      BY <1>3, <2>2 DEF Issuable
    <3>4. CallOK(good)
      BY <1>3, <1>6, <3>2, <3>3 DEF CallOK, SessionOK
    <3>5. PICK x \in CallState : x = good /\ CallOK(x)
      BY <3>2, <3>4
    <3>6. CallOK(x)'
      BY <1>10, <3>5, BoundStays
    <3>7. QED
      BY <1>10, <2>2, <3>5, <3>6, CallChanges
  <2>3. QED
    BY <1>5, <2>1, <2>2
<1>12. SignInTypeOK' /\ ClockOK'
  BY <1>2, <1>10, <1>11 DEF SignInInv, SignInTypeOK, ClockOK
<1>13. SessionOK(cookies.session)'
  BY <1>2, <1>10 DEF SignInInv, SessionOK, Grows
<1>14. QED
  BY <1>10, <1>11, <1>12, <1>13 DEF SignInInv

(* The user authenticates. *)
LEMMA AuthenticatesInv ==
    ASSUME SignInInv, UNCHANGED now, NEW t \in DOMAIN transaction,
           NEW age \in 0 .. MaxAuthnAge, UserAuthenticates(t, age)
    PROVE  SignInInv'
<1>1. /\ age < now /\ transaction' = [transaction EXCEPT ![t].authnTime = now - age]
      /\ UNCHANGED <<oidcPromise, cookies, call>>
  BY DEF UserAuthenticates
<1>2. t \in 1 .. Len(transaction) /\ transaction[t] \in Transaction
  BY DEF SignInInv, SignInTypeOK
<1>3. now - age \in Nat
  BY <1>1, SignInLimitAssumption DEF SignInInv, ClockOK
<1>4. PICK changed : changed = [transaction[t] EXCEPT !.authnTime = now - age]
  OBVIOUS
<1>5. /\ changed \in Transaction /\ changed.origin = transaction[t].origin
      /\ transaction' = [transaction EXCEPT ![t] = changed]
  BY <1>1, <1>2, <1>3, <1>4 DEF Transaction
<1>6. /\ Grows /\ transaction' \in Seq(Transaction)
      /\ Len(transaction') = Len(transaction)
      /\ \A u \in DOMAIN transaction' : transaction'[u] \in Transaction
  BY <1>2, <1>5, TransactionChanges
<1>7. SignInTypeOK' /\ ClockOK'
  BY <1>1, <1>6 DEF SignInInv, SignInTypeOK, ClockOK
<1>8. SessionOK(cookies.session)' /\ \A c \in Call : CallOK(call[c])'
  BY <1>1, <1>6 DEF SignInInv, CallOK, SessionOK, Grows
<1>9. QED
  BY <1>6, <1>7, <1>8 DEF SignInInv

(* The browser takes what an answer brings. *)
LEMMA ReachesInv ==
    ASSUME SignInInv, UNCHANGED now, NEW c \in Call, AnswerReaches(c)
    PROVE  SignInInv'
<1>1. PICK t, s :
        /\ t = IF "transaction" \in call[c].sets THEN call[c].of ELSE cookies.transaction
        /\ s = IF "session" \in call[c].sets THEN call[c].session ELSE cookies.session
  OBVIOUS
<1>2. /\ cookies' = [transaction |-> t, session |-> s]
      /\ call' = [call EXCEPT ![c] = Unused]
      /\ UNCHANGED <<oidcPromise, transaction>>
  BY <1>1 DEF AnswerReaches
<1>3. call[c] \in CallState /\ cookies \in Cookies /\ Grows
  BY <1>2 DEF SignInInv, SignInTypeOK, Grows
<1>4. cookies' \in Cookies
  BY <1>1, <1>2, <1>3 DEF CallState, Cookies
<1>5. SessionOK(s)
  BY <1>1 DEF SignInInv, CallOK
<1>6. SessionOK(cookies.session)'
  BY <1>2, <1>5 DEF SessionOK
<1>7. PICK x \in CallState : x = Unused /\ CallOK(x)
  BY NothingIsBound DEF CallOK, SessionOK
<1>8. CallOK(x)'
  BY <1>3, <1>7, BoundStays
<1>9. call' \in [Call -> CallState] /\ \A d \in Call : CallOK(call[d])'
  BY <1>2, <1>3, <1>7, <1>8, CallChanges
<1>10. QED
  BY <1>2, <1>4, <1>6, <1>9 DEF SignInInv, SignInTypeOK, ClockOK

(* The discovery of the client ends, and may fail all that wait for it. *)
LEMMA DiscoveryInv ==
    ASSUME SignInInv, UNCHANGED now, DiscoverySucceeds \/ DiscoveryFails
    PROVE  SignInInv'
<1>1. /\ oidcPromise' \in {"none", "pending", "fulfilled"}
      /\ UNCHANGED <<transaction, cookies>>
      /\ \/ UNCHANGED call
         \/ call' = [c \in Call |-> IF call[c].phase = "waiting"
                                   THEN Failed(call[c].kind) ELSE call[c]]
  BY DEF DiscoverySucceeds, DiscoveryFails
<1>2. ASSUME NEW c \in Call
      PROVE  Failed(call[c].kind) \in CallState /\ CallOK(Failed(call[c].kind))
  <2>1. Failed("none") = Unused
    BY DEF Failed
  <2>2. call[c].kind \in {"none", "login", "callback", "logout"}
    BY DEF SignInInv, SignInTypeOK, CallState
  <2>3. QED
    BY <2>1, <2>2, NothingIsBound DEF CallOK, SessionOK
<1>3. call \in [Call -> CallState] /\ \A c \in Call : CallOK(call[c])
  BY DEF SignInInv, SignInTypeOK
<1>4. call' \in [Call -> CallState]
  BY <1>1, <1>2, <1>3
<1>5. \A c \in Call : CallOK(call'[c])
  BY <1>1, <1>2, <1>3
<1>6. \A c \in Call : CallOK(call[c])'
  BY <1>1, <1>5 DEF CallOK, SessionOK
<1>7. QED
  BY <1>1, <1>4, <1>6 DEF SignInInv, SignInTypeOK, ClockOK, SessionOK

(* Every step of a sign-in, and of the clock, preserves the invariant. *)
LEMMA SignInStepInv ==
    ASSUME SignInInv, [SignInStep]_<<now, signInVars>>
    PROVE  SignInInv'
<1>1. ASSUME UNCHANGED signInVars, now' = now \/ Passes PROVE SignInInv'
  <2>1. ClockOK'
    BY <1>1, ClockAssumption DEF SignInInv, ClockOK, Passes
  <2>2. QED
    BY <1>1, <2>1 DEF SignInInv, SignInTypeOK, CallOK, SessionOK, signInVars
<1>2. ASSUME SignInNext, UNCHANGED now PROVE SignInInv'
  BY <1>2, ArrivalsInv, RedirectsInv, ExchangesInv, AuthenticatesInv, ReachesInv,
     DiscoveryInv DEF SignInNext, Served
<1>3. QED
  BY <1>1, <1>2 DEF SignInStep

(* A session that can still be read was issued less than its lifetime ago. *)
LEMMA BoundSessions == SignInInv => SessionsAreBound
<1> SUFFICES ASSUME SignInInv,
                    NEW s \in {cookies.session} \cup {call[c].session : c \in Call},
                    s # NoSession
             PROVE  /\ s.origin = transaction[s.of].origin
                    /\ Readable(s) => now - s.authnTime < MaxAuthnAge + SessionTtl
  BY DEF SessionsAreBound
<1>1. SessionOK(s)
  BY DEF SignInInv, CallOK
<1>2. s \in Session
  BY DEF SignInInv, SignInTypeOK, Cookies, CallState
<1>3. s.authnTime \in Nat /\ s.issuedAt \in Nat /\ now \in Nat
  BY <1>2 DEF Session, SignInInv, ClockOK
<1>4. QED
  BY <1>1, <1>3, SignInLimitAssumption DEF SessionOK, Readable

-----------------------------------------------------------------------------
(* The two ways of verifying in one Gateway: a step of one leaves the      *)
(* other alone, and they share the clock.                                  *)
LEMMA ComposedStep ==
    ASSUME [Next]_vars
    PROVE  /\ [KeysTick \/ (KeysNext /\ UNCHANGED now)]_<<now, keyVars>>
           /\ [SignInStep]_<<now, signInVars>>
<1>1. CASE Starts
  BY <1>1 DEF Starts
<1>2. CASE Verifies /\ UNCHANGED now
  BY <1>2 DEF Verifies, SignInStep
<1>3. CASE Tick
  BY <1>3 DEF Tick, KeysTick, SignInStep
<1>4. CASE UNCHANGED vars
  BY <1>4 DEF vars, others
<1>5. QED
  BY <1>1, <1>2, <1>3, <1>4 DEF Next

(* The Gateway that verifies either way implements the cache of the keys.  *)
THEOREM KeysAreCached == Spec => KeysSpec
<1>1. Init => ClockStarts /\ KeysInit
  BY DEF Init
<1>2. [Next]_vars => [KeysTick \/ (KeysNext /\ UNCHANGED now)]_<<now, keyVars>>
  BY ComposedStep
<1>3. QED
  BY <1>1, <1>2, PTL DEF Spec, KeysSpec

(* What the sign-ins keep holds in every reachable state.                  *)
THEOREM SignInInvariance == Spec => []SignInInv
<1>1. Init => SignInInv
  BY SignInInitInv DEF Init
<1>2. SignInInv /\ [Next]_vars => SignInInv'
  BY ComposedStep, SignInStepInv
<1>3. QED
  BY <1>1, <1>2, PTL DEF Spec

(* A session comes from a sign-in started where its callback arrived, and  *)
(* dies in time, for any number of sign-ins, origins and requests.         *)
THEOREM SessionsStayBound == Spec => []SessionsAreBound
  BY SignInInvariance, BoundSessions, PTL
-----------------------------------------------------------------------------
(* The deployments that are admitted.  The lemmas are about any settings,  *)
(* so that the number in which they differ from a deployment is no limit.  *)
Names == DOMAIN Local

\* What is true of any environment: every setting has a value, and no secret is
\* the stand-in of a session that is not enabled.
Environment(d) ==
    /\ d = [n \in Names |-> d[n]]
    /\ \A s \in SecretNames : d[s] # UnusedSecret

LEMMA NamesAre ==
    Names = {"https", "bindings", "trust", "runtimeToken", "tokenRef", "contextSecret",
             "contextRef", "local", "replay", "operational", "mode", "operationalToken",
             "operationalSecret", "accessKey", "secure", "deployed", "domains", "replitId",
             "interactive", "providerSecret", "providerRef", "providerLifetime", "managed",
             "jwks", "executive", "cookieSecret", "assertionSecret", "sessionLifetime",
             "assertionLifetime", "accepted", "registrations"}
  BY DEF Names, Local

LEMMA LocalIsEnvironment == Environment(Local)
<1>1. Local = [n \in Names |-> Local[n]]
  BY DEF Names, Local
<1>2. \A s \in SecretNames : Local[s] # UnusedSecret
  <2>1. Absent # UnusedSecret
    BY Zenon DEF Absent, UnusedSecret
  <2>2. "runtime" # UnusedSecret /\ "context" # UnusedSecret
    BY DEF UnusedSecret
  <2>3. \A s \in SecretNames : Local[s] \in {"runtime", "context", Absent}
    BY DEF Local, SecretNames
  <2>4. QED
    BY <2>1, <2>2, <2>3
<1>3. QED
  BY <1>1, <1>2 DEF Environment

\* A setting that is off, or only different, leaves an environment.
LEMMA ChangedIsEnvironment ==
    ASSUME NEW d, Environment(d), NEW name \in Names, NEW v,
           name \in SecretNames => v # UnusedSecret
    PROVE  Environment([d EXCEPT ![name] = v])
<1>1. PICK e : e = [d EXCEPT ![name] = v]
  OBVIOUS
<1>2. e = [n \in Names |-> IF n = name THEN v ELSE d[n]]
  BY <1>1 DEF Environment
<1>3. SecretNames \subseteq Names
  BY NamesAre DEF SecretNames
<1>4. \A s \in SecretNames : e[s] # UnusedSecret
  BY <1>2, <1>3 DEF Environment
<1>5. e = [n \in Names |-> e[n]]
  BY <1>2
<1>6. QED
  BY <1>1, <1>4, <1>5 DEF Environment

LEMMA OffIsEnvironment ==
    ASSUME NEW ds, \A d \in ds : Environment(d)
    PROVE  \A d \in Off(ds) : Environment(d)
<1> DEFINE changed(d, name) == {[d EXCEPT ![name] = v] : v \in Values(name)}
<1>1. ASSUME NEW d \in ds, NEW name \in Names, NEW e \in changed(d, name)
      PROVE  Environment(e)
  <2>1. PICK v \in Values(name) : e = [d EXCEPT ![name] = v]
    OBVIOUS
  <2>2. name \in SecretNames => v # UnusedSecret
    <3>1. SUFFICES ASSUME name \in SecretNames PROVE v # UnusedSecret
      OBVIOUS
    <3>2. name \notin Lifetimes /\ name # "mode" /\ name # "registrations"
      BY <3>1 DEF SecretNames, Lifetimes
    <3>3. Values(name) = {Absent, Short, "runtime", "session", "cookie", "provider"}
      BY <3>1, <3>2 DEF Values
    <3>4. Absent # UnusedSecret
      BY Zenon DEF Absent, UnusedSecret
    <3>5. Short # UnusedSecret /\ "runtime" # UnusedSecret /\ "session" # UnusedSecret
          /\ "cookie" # UnusedSecret /\ "provider" # UnusedSecret
      BY DEF Short, UnusedSecret
    <3>6. QED
      BY <2>1, <3>3, <3>4, <3>5
  <2>3. QED
    BY <2>1, <2>2, ChangedIsEnvironment
<1>2. Off(ds) = ds \union UNION {changed(d, name) : d \in ds, name \in Names}
  BY DEF Off, Names
<1> HIDE DEF changed
<1>3. ASSUME NEW e \in Off(ds)
      PROVE  e \in ds \/ \E d \in ds : \E name \in Names : e \in changed(d, name)
  BY <1>2, SMT
<1>4. QED
  BY <1>1, <1>3

LEMMA HostedIsEnvironment == Environment(Hosted) /\ Environment(Executive) /\ Environment(Published)
<1>1. Environment(Hosted)
  BY LocalIsEnvironment, NamesAre DEF Hosted, Environment, SecretNames, UnusedSecret
<1>2. Environment(Executive)
  <2>1. Executive = [n \in Names |-> Executive[n]]
    BY <1>1 DEF Executive, Environment
  <2>2. Executive.cookieSecret = "cookie" /\ Executive.assertionSecret = "assertion"
    BY <1>1, NamesAre DEF Executive, Environment
  <2>3. \A s \in SecretNames \ {"cookieSecret", "assertionSecret"} : Executive[s] = Hosted[s]
    BY <1>1, NamesAre DEF Executive, Environment, SecretNames
  <2>4. QED
    BY <1>1, <2>1, <2>2, <2>3 DEF Environment, UnusedSecret
<1>3. Environment(Published)
  <2>1. Published = [n \in Names |-> Published[n]]
    BY <1>2 DEF Published, Environment
  <2>2. Published.providerSecret = "provider"
    BY <1>2, NamesAre DEF Published, Environment
  <2>3. \A s \in SecretNames \ {"providerSecret"} : Published[s] = Executive[s]
    BY <1>2, NamesAre DEF Published, Environment, SecretNames
  <2>4. QED
    BY <1>2, <2>1, <2>2, <2>3 DEF Environment, UnusedSecret
<1>4. QED
  BY <1>1, <1>2, <1>3

LEMMA SettingsAreEnvironments == \A d \in Settings : Environment(d)
  BY LocalIsEnvironment, HostedIsEnvironment, OffIsEnvironment DEF Settings

Replaced == {"operationalToken", "operationalSecret", "accessKey", "providerSecret",
             "cookieSecret", "assertionSecret", "managed", "registrations",
             "sessionLifetime", "assertionLifetime", "providerLifetime"}

\* What Loaded makes of each setting.
LoadedFrom(c, d) ==
    /\ c = [n \in Names |-> c[n]]
    /\ \A n \in Names \ Replaced : c[n] = d[n]
    /\ c.operationalToken  = IF d.operational THEN d.operationalToken ELSE Absent
    /\ c.operationalSecret = IF d.operational THEN d.operationalSecret ELSE UnusedSecret
    /\ c.accessKey = IF d.operational /\ d.mode = "access_key" THEN d.accessKey
                     ELSE "automatic-session-no-access-key"
    /\ c.providerSecret  = IF d.interactive THEN d.providerSecret ELSE Absent
    /\ c.cookieSecret    = IF d.executive THEN d.cookieSecret ELSE Absent
    /\ c.assertionSecret = IF d.executive THEN d.assertionSecret ELSE Absent
    /\ c.managed         = ((d.executive \/ d.interactive) /\ d.managed)
    /\ c.registrations   = IF d.executive THEN d.registrations ELSE <<>>
    /\ c.sessionLifetime   = Integer(d.sessionLifetime, MaxSessionLifetime, 300)
    /\ c.assertionLifetime = Integer(d.assertionLifetime, MaxAssertionLifetime, 1)
    /\ c.providerLifetime  = Integer(d.providerLifetime, 3600, 60)

LEMMA LoadedIs ==
    ASSUME NEW d, d = [n \in Names |-> d[n]]
    PROVE  LoadedFrom(Loaded(d), d)
<1>1. PICK a, b, c : /\ a = IF d.operational THEN d.operationalToken ELSE Absent
                     /\ b = IF d.operational THEN d.operationalSecret ELSE UnusedSecret
                     /\ c = IF d.operational /\ d.mode = "access_key" THEN d.accessKey
                            ELSE "automatic-session-no-access-key"
  OBVIOUS
<1>2. PICK e, f, g : /\ e = IF d.interactive THEN d.providerSecret ELSE Absent
                     /\ f = IF d.executive THEN d.cookieSecret ELSE Absent
                     /\ g = IF d.executive THEN d.assertionSecret ELSE Absent
  OBVIOUS
<1>3. PICK h : h = ((d.executive \/ d.interactive) /\ d.managed)
  BY Zenon
<1>4. PICK i : i = IF d.executive THEN d.registrations ELSE <<>>
  OBVIOUS
<1>5. PICK j : j = Integer(d.sessionLifetime, MaxSessionLifetime, 300)
  OBVIOUS
<1>6. PICK k : k = Integer(d.assertionLifetime, MaxAssertionLifetime, 1)
  OBVIOUS
<1>7. PICK l : l = Integer(d.providerLifetime, 3600, 60)
  OBVIOUS
<1>8. PICK x : x = Loaded(d)
  OBVIOUS
<1>9. x = [d EXCEPT !.operationalToken = a, !.operationalSecret = b, !.accessKey = c,
                    !.providerSecret = e, !.cookieSecret = f, !.assertionSecret = g,
                    !.managed = h, !.registrations = i,
                    !.sessionLifetime = j, !.assertionLifetime = k, !.providerLifetime = l]
  BY <1>1, <1>2, <1>3, <1>4, <1>5, <1>6, <1>7, <1>8 DEF Loaded
<1>10. x = [n \in Names |-> x[n]]
  BY <1>9
<1>11. x.operationalToken = a /\ x.operationalSecret = b /\ x.accessKey = c
  BY <1>9, NamesAre
<1>12. x.providerSecret = e /\ x.cookieSecret = f /\ x.assertionSecret = g
  BY <1>9, NamesAre
<1>13. x.managed = h
  BY <1>9, NamesAre
<1>14. /\ x.registrations = i /\ x.sessionLifetime = j
       /\ x.assertionLifetime = k /\ x.providerLifetime = l
  BY <1>9, NamesAre
<1>15. \A n \in Names \ Replaced : x[n] = d[n]
  BY <1>9, NamesAre DEF Replaced
<1>16. x.managed = ((d.executive \/ d.interactive) /\ d.managed)
  BY <1>3, <1>13, Zenon
<1>17. QED
  BY <1>1, <1>2, <1>4, <1>5, <1>6, <1>7, <1>8, <1>10, <1>11, <1>12, <1>14,
     <1>15, <1>16 DEF LoadedFrom

-----------------------------------------------------------------------------
\* The settings that no part of the server replaces.
LEMMA Kept ==
    ASSUME NEW d, NEW c, LoadedFrom(c, d)
    PROVE  /\ c.https = d.https /\ c.bindings = d.bindings /\ c.trust = d.trust
           /\ c.runtimeToken = d.runtimeToken /\ c.tokenRef = d.tokenRef
           /\ c.contextSecret = d.contextSecret /\ c.contextRef = d.contextRef
           /\ c.local = d.local /\ c.replay = d.replay /\ c.operational = d.operational
           /\ c.mode = d.mode /\ c.secure = d.secure /\ c.deployed = d.deployed
           /\ c.domains = d.domains /\ c.replitId = d.replitId /\ c.interactive = d.interactive
           /\ c.providerRef = d.providerRef /\ c.jwks = d.jwks /\ c.executive = d.executive
           /\ c.accepted = d.accepted
<1> DEFINE At(n) == c[n] = d[n]
<1>1. {"https", "bindings", "trust", "runtimeToken", "tokenRef", "contextSecret", "contextRef",
       "local", "replay", "operational"} \subseteq Names \ Replaced
  BY NamesAre DEF Replaced
<1>2. {"mode", "secure", "deployed", "domains", "replitId", "interactive", "providerRef",
       "jwks", "executive", "accepted"} \subseteq Names \ Replaced
  BY NamesAre DEF Replaced
<1>3. \A n \in Names \ Replaced : At(n)
  BY DEF LoadedFrom
<1> HIDE DEF At
<1>4. /\ At("https") /\ At("bindings") /\ At("trust") /\ At("runtimeToken") /\ At("tokenRef")
      /\ At("contextSecret") /\ At("contextRef") /\ At("local") /\ At("replay") /\ At("operational")
  BY <1>1, <1>3
<1>5. /\ At("mode") /\ At("secure") /\ At("deployed") /\ At("domains") /\ At("replitId")
      /\ At("interactive") /\ At("providerRef") /\ At("jwks") /\ At("executive") /\ At("accepted")
  BY <1>2, <1>3
<1>6. QED
  BY <1>4, <1>5 DEF At

LEMMA ManagedIs ==
    ASSUME NEW d, NEW c, LoadedFrom(c, d)
    PROVE  c.managed <=> (d.executive \/ d.interactive) /\ d.managed
<1>1. c.managed = ((d.executive \/ d.interactive) /\ d.managed)
  BY DEF LoadedFrom
<1>2. QED
  BY <1>1

\* What was loaded loads to itself.
LEMMA LoadsToTheSame ==
    ASSUME NEW d, NEW c, NEW e, LoadedFrom(c, d), LoadedFrom(e, c)
    PROVE  e = c
<1>1. \A n \in Names \ Replaced : e[n] = c[n]
  BY DEF LoadedFrom
<1>2. /\ c.operational = d.operational /\ c.mode = d.mode /\ c.interactive = d.interactive
      /\ c.executive = d.executive
  BY Kept
<1>3. /\ e.operationalToken = c.operationalToken /\ e.operationalSecret = c.operationalSecret
      /\ e.accessKey = c.accessKey
  BY <1>2 DEF LoadedFrom
<1>4. /\ e.providerSecret = c.providerSecret /\ e.cookieSecret = c.cookieSecret
      /\ e.assertionSecret = c.assertionSecret /\ e.registrations = c.registrations
  BY <1>2 DEF LoadedFrom
<1>5. e.managed = c.managed
  <2>1. c.managed = ((d.executive \/ d.interactive) /\ d.managed)
    BY DEF LoadedFrom
  <2>2. e.managed = ((c.executive \/ c.interactive) /\ c.managed)
    BY DEF LoadedFrom
  <2>3. (((d.executive \/ d.interactive) /\ d.managed) <=> c.managed)
    BY <2>1
  <2>4. QED
    BY <1>2, <2>1, <2>2
<1>6. /\ e.sessionLifetime = c.sessionLifetime /\ e.assertionLifetime = c.assertionLifetime
      /\ e.providerLifetime = c.providerLifetime
  BY DEF LoadedFrom, Integer, MaxSessionLifetime, MaxAssertionLifetime
<1>7. \A n \in Names : e[n] = c[n]
  BY <1>1, <1>3, <1>4, <1>5, <1>6 DEF Replaced
<1>8. c = [n \in Names |-> c[n]] /\ e = [n \in Names |-> e[n]]
  BY DEF LoadedFrom
<1>9. QED
  BY <1>7, <1>8

\* Each check of loadConfig that settings pass, the configuration passes again.
LEMMA AdmittedAgain ==
    ASSUME NEW d, Admits(d), NEW c, LoadedFrom(c, d)
    PROVE  Admits(c)
<1>1. TrustHolds(c)
  BY Kept DEF Admits, TrustHolds
<1>2. OperationsHold(c)
  BY Kept DEF Admits, OperationsHold, LoadedFrom
<1>3. LifetimesHold(c)
  BY DEF Admits, LifetimesHold, LoadedFrom, Integer, MaxSessionLifetime, MaxAssertionLifetime
<1>4. ExecutiveSecretsHold(c)
  BY Kept DEF Admits, ExecutiveSecretsHold, LoadedFrom
<1>5. ProviderHolds(c)
  <2>1. c.managed <=> (d.executive \/ d.interactive) /\ d.managed
    BY ManagedIs
  <2>2. c.managed /\ (c.executive \/ c.interactive) => c.replitId
    BY Kept, <2>1 DEF Admits, ProviderHolds
  <2>3. ASSUME c.interactive
        PROVE  /\ Strong(c.providerSecret) /\ c.providerRef
               /\ c.replitId /\ c.managed
    BY <2>1, <2>3, Kept DEF Admits, ProviderHolds, LoadedFrom
  <2>4. ASSUME c.interactive
        PROVE  Integer(c.providerLifetime, 3600, 60) <= MaxProviderLifetime
    BY <2>4, Kept DEF Admits, ProviderHolds, LoadedFrom, Integer
  <2>5. ASSUME c.interactive
        PROVE  Distinct(c, PurposeBound(c))
    <3>1. Distinct(d, PurposeBound(d))
      BY <2>5, Kept DEF Admits, ProviderHolds
    <3>2. PurposeBound(c) = PurposeBound(d)
      BY Kept DEF PurposeBound
    <3>3. \A n \in PurposeBound(d) : c[n] = d[n]
      BY <2>5, Kept DEF PurposeBound, LoadedFrom
    <3>4. QED
      BY <3>1, <3>2, <3>3 DEF Distinct
  <2>6. QED
    BY <2>2, <2>3, <2>4, <2>5 DEF ProviderHolds
<1>6. ExecutiveHolds(c)
  <2>1. SUFFICES ASSUME c.executive
                 PROVE  /\ c.trust /\ c.accepted
                        /\ Distinct(c, {"runtimeToken", "contextSecret", "cookieSecret",
                                        "assertionSecret"})
                        /\ c.secure
                        /\ c.deployed => c.managed /\ c.domains
                        /\ RegistrationsHold(c)
    BY DEF ExecutiveHolds
  <2>2. d.executive /\ ExecutiveHolds(d)
    BY <2>1, Kept DEF Admits
  <2>3. c.trust /\ c.accepted /\ c.secure
    BY <2>2, Kept DEF ExecutiveHolds
  <2>4. c.deployed => c.managed /\ c.domains
    <3>1. c.deployed => d.managed /\ d.domains
      BY <2>2, Kept DEF ExecutiveHolds
    <3>2. c.managed <=> (d.executive \/ d.interactive) /\ d.managed
      BY ManagedIs
    <3>3. c.domains = d.domains
      BY Kept
    <3>4. QED
      BY <2>2, <3>1, <3>2, <3>3
  <2>5. RegistrationsHold(c)
    BY <2>2 DEF ExecutiveHolds, RegistrationsHold, LoadedFrom
  <2>6. Distinct(c, {"runtimeToken", "contextSecret", "cookieSecret", "assertionSecret"})
    <3>1. \A n \in {"runtimeToken", "contextSecret", "cookieSecret", "assertionSecret"} :
             c[n] = d[n]
      BY <2>2, Kept DEF LoadedFrom
    <3>2. QED
      BY <2>2, <3>1 DEF ExecutiveHolds, Distinct
  <2>7. QED
    BY <2>3, <2>4, <2>5, <2>6
<1>7. QED
  BY <1>1, <1>2, <1>3, <1>4, <1>5, <1>6 DEF Admits

\* The public trust of an admitted configuration is off or complete.
LEMMA TrustIsShown ==
    ASSUME NEW d, Admits(d), NEW c, LoadedFrom(c, d)
    PROVE  PublicTrust(c) \in {"disabled", "configured_not_verified"}
<1>1. TrustHolds(c)
  BY AdmittedAgain DEF Admits
<1>2. CASE ~ c.trust
  BY <1>2 DEF PublicTrust
<1>3. CASE c.trust
  <2>1. c.https /\ c.bindings /\ c.tokenRef /\ c.contextRef
        /\ c.runtimeToken # Absent /\ c.contextSecret # Absent
    BY <1>1, <1>3 DEF TrustHolds, Strong
  <2>2. PublicTrust(c) = "configured_not_verified"
    BY <1>3, <2>1 DEF PublicTrust
  <2>3. QED
    BY <2>2
<1>4. QED
  BY <1>2, <1>3

\* The sign-in that published sessions need compares every secret that is in use;
\* the ones that are not are the stand-in and the absent one.
LEMMA SecretsAreApart ==
    ASSUME NEW d, Environment(d), Admits(d), LoadedFrom(Loaded(d), d)
    PROVE  PublishedSessionsAreApart(d)
<1>1. SUFFICES ASSUME d.deployed, d.executive
               PROVE  /\ Distinct(Loaded(d), SecretNames \ {"accessKey"})
                      /\ VerifierOf(Loaded(d)) = "session"
  BY DEF PublishedSessionsAreApart
<1>2. PICK c : c = Loaded(d)
  OBVIOUS
<1>3. LoadedFrom(c, d)
  BY <1>2
<1>4. d.interactive /\ d.trust
  BY <1>1 DEF Admits, ExecutiveSecretsHold, ExecutiveHolds
<1>5. Distinct(d, PurposeBound(d))
  BY <1>4 DEF Admits, ProviderHolds
<1>6. \A n \in {"runtimeToken", "contextSecret", "providerSecret", "cookieSecret",
                 "assertionSecret"} :
         c[n] = d[n] /\ n \in PurposeBound(d)
  BY <1>1, <1>3, <1>4, Kept DEF LoadedFrom, PurposeBound
<1> DEFINE other == {"runtimeToken", "contextSecret", "providerSecret", "cookieSecret",
                     "assertionSecret"}
           session == {"operationalToken", "operationalSecret"}
<1>7. SecretNames \ {"accessKey"} = other \union session /\ other \intersect session = {}
  BY DEF SecretNames
<1> HIDE DEF other, session
<1>8. \A m, n \in other : c[m] = c[n] => m = n
  BY <1>5, <1>6 DEF Distinct, other
<1>9. ASSUME d.operational
      PROVE  Distinct(c, SecretNames \ {"accessKey"})
  <2>1. \A n \in session : c[n] = d[n] /\ n \in PurposeBound(d)
    BY <1>3, <1>9 DEF LoadedFrom, PurposeBound, session
  <2>2. \A n \in other \union session : c[n] = d[n] /\ n \in PurposeBound(d)
    BY <1>6, <2>1 DEF other
  <2>3. ASSUME NEW m \in other \union session, NEW n \in other \union session, c[m] = c[n]
        PROVE  m = n
    BY <1>5, <2>2, <2>3 DEF Distinct
  <2>4. QED
    BY <1>7, <2>3, Zenon DEF Distinct
<1>10. ASSUME ~ d.operational
       PROVE  Distinct(c, SecretNames \ {"accessKey"})
  <2>1. c.operationalToken = Absent /\ c.operationalSecret = UnusedSecret
    BY <1>3, <1>10 DEF LoadedFrom
  <2>2. d.runtimeToken # Absent /\ d.contextSecret # Absent
    BY <1>4 DEF Admits, TrustHolds, Strong
  <2>3. d.providerSecret # Absent /\ d.cookieSecret # Absent /\ d.assertionSecret # Absent
    BY <1>1, <1>4 DEF Admits, ProviderHolds, ExecutiveSecretsHold, Strong
  <2>4. other \subseteq SecretNames
    BY DEF other, SecretNames
  <2>5. \A n \in other : c[n] = d[n] /\ d[n] # UnusedSecret
    BY <1>6, <2>4 DEF Environment, other
  <2>6. \A n \in other : c[n] # Absent
    BY <2>2, <2>3, <2>5 DEF other
  <2>7. Absent # UnusedSecret
    BY Zenon DEF Absent, UnusedSecret
  <2>8. \A m, n \in session : c[m] = c[n] => m = n
    BY <2>1, <2>7 DEF session
  <2>9. \A n \in session : c[n] \in {Absent, UnusedSecret}
    BY <2>1 DEF session
  <2>10. ASSUME NEW m \in other \union session, NEW n \in other \union session, c[m] = c[n]
         PROVE  m = n
    BY <1>8, <2>5, <2>6, <2>8, <2>9, <2>10
  <2>11. QED
    BY <1>7, <2>10, Zenon DEF Distinct
<1>11. Distinct(c, SecretNames \ {"accessKey"})
  BY <1>9, <1>10
<1>12. VerifierOf(c) = "session"
  BY <1>3, <1>4, Kept DEF VerifierOf
<1>13. QED
  BY <1>2, <1>11, <1>12

\* Registrations that differ differ in their binding and in their principal, so an
\* identity resolves to one at most.
LEMMA PrincipalsAreApart ==
    ASSUME NEW d, Admits(d), NEW c, LoadedFrom(c, d)
    PROVE  ExecutivesAreApart(c)
<1> DEFINE identities == [binding : {"a", "b"}, methods : {"password", "passkey"}]
           Principals(identity) == {c.registrations[i].principal : i \in Resolved(c, identity)}
<1>1. CASE ~ d.executive
  <2>1. c.registrations = <<>>
    BY <1>1 DEF LoadedFrom
  <2>2. \A identity : Resolved(c, identity) = {}
    BY <2>1 DEF Resolved
  <2>3. QED
    BY <2>2 DEF ExecutivesAreApart
<1>2. CASE d.executive
  <2>1. RegistrationsHold(c)
    BY <1>2, AdmittedAgain, Kept DEF Admits, ExecutiveHolds
  <2>2. \A i \in DOMAIN c.registrations : c.registrations[i].principal \notin {Service, Client}
    BY <2>1 DEF RegistrationsHold
  <2>3. \A i, j \in DOMAIN c.registrations :
          \/ c.registrations[i].binding = c.registrations[j].binding
          \/ c.registrations[i].principal = c.registrations[j].principal
          => i = j
    BY <2>1 DEF RegistrationsHold
  <2>4. \A identity : \A i \in Resolved(c, identity) :
          /\ i \in DOMAIN c.registrations
          /\ c.registrations[i].binding = identity.binding
          /\ c.registrations[i].methods = identity.methods
    BY DEF Resolved
  <2>5. ASSUME NEW one, NEW two, NEW i \in Resolved(c, one), NEW j \in Resolved(c, two),
               \/ c.registrations[i].principal = c.registrations[j].principal
               \/ one.binding = two.binding
        PROVE  i = j
    BY <2>3, <2>4, <2>5
  <2>6. \A identity : \A p, q \in Principals(identity) : p = q /\ p \notin {Service, Client}
    BY <2>2, <2>4, <2>5
  <2>7. ASSUME NEW one \in identities, NEW two \in identities,
               Principals(one) \intersect Principals(two) # {}
        PROVE  one = two
    <3>1. PICK i \in Resolved(c, one), j \in Resolved(c, two) :
              c.registrations[i].principal = c.registrations[j].principal
      BY <2>7
    <3>2. i = j
      BY <2>5, <3>1
    <3>3. one.binding = two.binding /\ one.methods = two.methods
      BY <2>4, <3>1, <3>2
    <3>4. QED
      BY <3>3
  <2>8. \A one, two \in identities :
           /\ \A p, q \in Principals(one) : p = q /\ p \notin {Service, Client}
           /\ Principals(one) \intersect Principals(two) # {} => one = two
    BY <2>6, <2>7
  <2>9. QED
    BY <2>8, Zenon DEF ExecutivesAreApart
<1>3. QED
  BY <1>1, <1>2

(* What loadConfig admits it admits again and loads to the same, shows no  *)
(* broken trust, and keeps secrets and principals apart, in every          *)
(* environment the Gateway may be started in.                              *)
THEOREM DeploymentsAreSound == Spec => []AdmittedDeploymentsAreSound
<1> DEFINE SettingsInv == settings \in Settings \union {NoSettings}
<1>1. Init => SettingsInv
  BY DEF Init
<1>2. SettingsInv /\ [Next]_vars => SettingsInv'
  <2>1. SUFFICES ASSUME SettingsInv, [Next]_vars PROVE SettingsInv'
    OBVIOUS
  <2>2. settings' = settings \/ settings' = NoSettings
    BY <2>1 DEF Next, Starts, vars, others
  <2>3. QED
    BY <2>1, <2>2
<1>3. SettingsInv => AdmittedDeploymentsAreSound
  <2>1. SUFFICES ASSUME settings \in Settings, Admits(settings)
                 PROVE  /\ LoadsAgain(settings)
                        /\ PublicTrust(Loaded(settings)) \in {"disabled", "configured_not_verified"}
                        /\ PublishedSessionsAreApart(settings)
                        /\ ExecutivesAreApart(Loaded(settings))
    BY DEF AdmittedDeploymentsAreSound
  <2>2. Environment(settings)
    BY <2>1, SettingsAreEnvironments
  <2>3. LoadedFrom(Loaded(settings), settings)
    BY <2>2, LoadedIs DEF Environment
  <2>4. LoadedFrom(Loaded(Loaded(settings)), Loaded(settings))
    BY <2>3, LoadedIs DEF LoadedFrom
  <2>5. LoadsAgain(settings)
    BY <2>1, <2>3, <2>4, AdmittedAgain, LoadsToTheSame DEF LoadsAgain
  <2>6. QED
    BY <2>1, <2>2, <2>3, <2>5, TrustIsShown, SecretsAreApart, PrincipalsAreApart
<1>4. QED
  BY <1>1, <1>2, <1>3, PTL DEF Spec
=============================================================================
