---------------------------- MODULE ProviderSignIn ----------------------------
(***************************************************************************)
(* Interactive Replit Auth (OIDC): the routes /api/auth/login, callback    *)
(* and logout of the Gateway, and one browser.  The Gateway keeps nothing  *)
(* for a browser but two sealed cookies, the transaction of a sign-in and  *)
(* the session it ends in; its one shared state is the OIDC client, which  *)
(* it discovers on first use.                                              *)
(*                                                                         *)
(* The cookies sent with a request are those of the moment it is sent, and *)
(* those of its answer reach the browser later, or never, in any order.    *)
(***************************************************************************)
EXTENDS Integers, Sequences, ServerClock

CONSTANTS
    Origin,          \* the origins of one host that requestOrigin recognises
    Elsewhere,       \* an origin it does not
    Call,            \* the requests in progress together
    SignIns,         \* bound on the sign-ins started
    TransactionTtl,  \* TRANSACTION_TTL_SECONDS
    SessionTtl,      \* providerSessionTtlSeconds
    MaxAuthnAge      \* MAX_PROVIDER_AUTHENTICATION_AGE_SECONDS

ASSUME OriginAssumption == Elsewhere \notin Origin
ASSUME SignInLimitAssumption ==
    /\ SignIns \in Nat /\ TransactionTtl \in Nat \ {0}
    /\ SessionTtl \in Nat \ {0} /\ MaxAuthnAge \in Nat

VARIABLES
    oidcPromise,  \* the discovery of the client: "none", "pending", "fulfilled"
    transaction,  \* the sign-ins started, in order, and what the provider knows
    cookies,      \* the two cookies of the browser
    call          \* the requests

signInVars == <<oidcPromise, transaction, cookies, call>>

(* authnTime is 0 until the user has authenticated; redeemed: the          *)
(* authorization code has been exchanged.                                  *)
Transaction ==
    [origin : Origin, issuedAt : Nat, authnTime : Nat, redeemed : BOOLEAN]

(* The sealed session; origin and of say where it comes from.              *)
Session == [of : 1..SignIns, origin : Origin \cup {Elsewhere},
            authnTime : Nat, issuedAt : Nat]
NoSession == [of |-> 0, origin |-> Elsewhere, authnTime |-> 0, issuedAt |-> 0]

Cookies == [transaction : 0..SignIns, session : Session \cup {NoSession}]

(* of: the transaction of a login's answer or a callback's URL.            *)
(* at: `current' of a callback, read before it waits.                      *)
(* answer: the cookies the answer sets, as a function of those of the      *)
(* browser: each is kept, cleared or replaced.                             *)
CallState ==
    [kind : {"none", "login", "callback", "logout"},
     phase : {"idle", "waiting", "answered"},
     origin : Origin \cup {Elsewhere},
     of : 0..SignIns,
     at : Nat,
     sets : SUBSET {"transaction", "session"},
     session : Session \cup {NoSession}]

Unused ==
    [kind |-> "none", phase |-> "idle", origin |-> Elsewhere, of |-> 0, at |-> 0,
     sets |-> {}, session |-> NoSession]

SignInTypeOK ==
    /\ oidcPromise \in {"none", "pending", "fulfilled"}
    /\ Len(transaction) <= SignIns
    /\ \A t \in DOMAIN transaction : transaction[t] \in Transaction
    /\ cookies \in Cookies
    /\ call \in [Call -> CallState]

SignInInit ==
    /\ oidcPromise = "none"
    /\ transaction = <<>>
    /\ cookies = [transaction |-> 0, session |-> NoSession]
    /\ call = [c \in Call |-> Unused]

-----------------------------------------------------------------------------
(* readSession: the expiry is that of the issue and the lifetime. *)
Readable(session) ==
    /\ session # NoSession
    /\ session.authnTime <= session.issuedAt /\ session.issuedAt <= now
    /\ session.issuedAt + SessionTtl > now

(* requestOrigin. *)
Recognised(o) == o \in Origin

(* issueCookie, on the clock at that moment. *)
Issuable(authnTime) ==
    authnTime > 0 /\ authnTime <= now /\ now - authnTime <= MaxAuthnAge

(* The transaction the browser sends fits the callback. *)
TransactionFits(t) ==
    /\ cookies.transaction = t
    /\ transaction[t].issuedAt <= now
    /\ transaction[t].issuedAt + TransactionTtl > now

\* Variant: the callback may arrive on any origin.
OriginFitsAny(t, o) == TRUE

(* The callback arrives on the origin its sign-in is bound to. *)
OriginFits(t, o) == Recognised(o) /\ o = transaction[t].origin

(* An answer without a new session.  A callback's clears the transaction;  *)
(* any other sets no cookie, and its request is over for the model.        *)
Failed(kind) ==
    IF kind = "callback"
    THEN [Unused EXCEPT !.kind = kind, !.phase = "answered", !.sets = {"transaction"}]
    ELSE Unused

(* A request that needs the client joins its discovery or starts it. *)
ClientAsked ==
    oidcPromise' = IF oidcPromise = "none" THEN "pending" ELSE oidcPromise

Free(c) == call[c].phase = "idle"

-----------------------------------------------------------------------------
(* From any other origin a sign-in is refused and nothing changes.          *)
LoginArrives(c, o) ==
    /\ Free(c) /\ Recognised(o)
    /\ call' = [call EXCEPT ![c] =
         [Unused EXCEPT !.kind = "login", !.phase = "waiting", !.origin = o]]
    /\ ClientAsked
    /\ UNCHANGED <<transaction, cookies>>

(* The clock is read after the client and the redirect have come. *)
LoginRedirects(c) ==
    /\ call[c].phase = "waiting" /\ call[c].kind = "login"
    /\ oidcPromise = "fulfilled"
    /\ Len(transaction) < SignIns
    /\ transaction' = Append(transaction,
         [origin |-> call[c].origin, issuedAt |-> now, authnTime |-> 0,
          redeemed |-> FALSE])
    /\ call' = [call EXCEPT
         ![c] = [@ EXCEPT !.phase = "answered", !.sets = {"transaction"},
                          !.of = Len(transaction')]]
    /\ UNCHANGED <<oidcPromise, cookies>>

(* The callback URL of transaction t is opened at origin o. *)
CallbackArrives(c, t, o) ==
    /\ Free(c) /\ t \in DOMAIN transaction /\ transaction[t].authnTime # 0
    /\ IF TransactionFits(t) /\ OriginFits(t, o)
       THEN /\ call' = [call EXCEPT ![c] =
                 [Unused EXCEPT !.kind = "callback", !.phase = "waiting",
                                !.origin = o, !.of = t, !.at = now]]
            /\ ClientAsked
       ELSE /\ call' = [call EXCEPT ![c] = Failed("callback")]
            /\ UNCHANGED oidcPromise
    /\ UNCHANGED <<transaction, cookies>>

(* The exchange succeeds if the provider has not redeemed the code before; *)
(* the identity is then held against the clock of the arrival and, when    *)
(* the session is issued, against the clock of that moment.                *)
CallbackExchanges(c) ==
    LET t == call[c].of
        authnTime == transaction[t].authnTime
        sound == authnTime <= call[c].at /\ call[c].at - authnTime <= MaxAuthnAge
    IN /\ call[c].phase = "waiting" /\ call[c].kind = "callback"
       /\ oidcPromise = "fulfilled" /\ ~transaction[t].redeemed
       /\ transaction' = [transaction EXCEPT ![t].redeemed = TRUE]
       /\ call' = [call EXCEPT ![c] =
            IF sound /\ Issuable(authnTime)
            THEN [Failed("callback") EXCEPT
                    !.sets = {"transaction", "session"},
                    !.session = [of |-> t, origin |-> call[c].origin,
                                 authnTime |-> authnTime, issuedAt |-> now]]
            ELSE Failed("callback")]
       /\ UNCHANGED <<oidcPromise, cookies>>

(* Without a session it reads, or from an origin that is not its own, a    *)
(* sign-out is refused and nothing changes.                                *)
LogoutArrives(c) ==
    /\ Free(c) /\ Readable(cookies.session)
    /\ call' = [call EXCEPT ![c] =
         [Unused EXCEPT !.kind = "logout", !.phase = "waiting"]]
    /\ ClientAsked
    /\ UNCHANGED <<transaction, cookies>>

LogoutEnds(c) ==
    /\ call[c].phase = "waiting" /\ call[c].kind = "logout"
    /\ oidcPromise = "fulfilled"
    /\ call' = [call EXCEPT ![c] =
         [Unused EXCEPT !.kind = "logout", !.phase = "answered", !.sets = {"session"}]]
    /\ UNCHANGED <<oidcPromise, transaction, cookies>>

(* The provider does not answer: no redirect, exchange or end-session URL. *)
ProviderFails(c) ==
    /\ call[c].phase = "waiting" /\ oidcPromise = "fulfilled"
    /\ call' = [call EXCEPT ![c] = Failed(@.kind)]
    /\ UNCHANGED <<oidcPromise, transaction, cookies>>

DiscoverySucceeds ==
    /\ oidcPromise = "pending" /\ oidcPromise' = "fulfilled"
    /\ UNCHANGED <<transaction, cookies, call>>

\* Variant: the rejected promise stays.
DiscoveryFailsForGood ==
    /\ oidcPromise = "pending" /\ oidcPromise' = "rejected"
    /\ call' = [c \in Call |->
                  IF call[c].phase = "waiting" THEN Failed(call[c].kind) ELSE call[c]]
    /\ UNCHANGED <<transaction, cookies>>

(* The promise is dropped, and fails every request that waits for it. *)
DiscoveryFails ==
    /\ oidcPromise = "pending" /\ oidcPromise' = "none"
    /\ call' = [c \in Call |->
                  IF call[c].phase = "waiting" THEN Failed(call[c].kind) ELSE call[c]]
    /\ UNCHANGED <<transaction, cookies>>

(* The browser takes the cookies of an answer, or never gets it. *)
AnswerReaches(c) ==
    /\ call[c].phase = "answered"
    /\ cookies' =
         [transaction |-> IF "transaction" \in call[c].sets
                          THEN call[c].of ELSE cookies.transaction,
          session |-> IF "session" \in call[c].sets
                      THEN call[c].session ELSE cookies.session]
    /\ call' = [call EXCEPT ![c] = Unused]
    /\ UNCHANGED <<oidcPromise, transaction>>

AnswerIsLost(c) ==
    /\ call[c].phase = "answered"
    /\ call' = [call EXCEPT ![c] = Unused]
    /\ UNCHANGED <<oidcPromise, transaction, cookies>>

(* The user authenticates at the provider, or had some time ago; whether   *)
(* the provider honours max_age is left open.                              *)
UserAuthenticates(t, age) ==
    /\ t \in DOMAIN transaction /\ transaction[t].authnTime = 0
    /\ \A c \in Call : call[c].kind = "login" => call[c].of # t
    /\ age < now
    /\ transaction' = [transaction EXCEPT ![t].authnTime = now - age]
    /\ UNCHANGED <<oidcPromise, cookies, call>>

(* What waits for the provider.  Every wait is bounded by the timeout the  *)
(* client is created with.                                                 *)
Served(c) ==
    LoginRedirects(c) \/ CallbackExchanges(c) \/ LogoutEnds(c) \/ ProviderFails(c)

SignInNext ==
    \/ \E c \in Call :
         \/ \E o \in Origin : LoginArrives(c, o)
         \/ \E t \in DOMAIN transaction, o \in Origin \cup {Elsewhere} :
              CallbackArrives(c, t, o)
         \/ LogoutArrives(c)
         \/ Served(c)
         \/ AnswerReaches(c) \/ AnswerIsLost(c)
    \/ DiscoverySucceeds \/ DiscoveryFails
    \/ \E t \in DOMAIN transaction, age \in 0..MaxAuthnAge : UserAuthenticates(t, age)

-----------------------------------------------------------------------------
(* A session, in the browser or on its way there, comes from a sign-in     *)
(* that was started at the origin its callback arrived on, although the    *)
(* origins of one host share their cookies and two sign-ins share one      *)
(* transaction cookie; and while the Gateway still reads it, it is no      *)
(* older than an authentication may be at its issue and a session may      *)
(* last, however long the callback waited for the provider.                *)
SessionsAreBound ==
    \A s \in {cookies.session} \cup {call[c].session : c \in Call} :
        s # NoSession =>
            /\ s.origin = transaction[s.of].origin
            /\ Readable(s) => now - s.authnTime < MaxAuthnAge + SessionTtl
=============================================================================
