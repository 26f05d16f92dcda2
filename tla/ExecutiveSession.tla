-------------------------- MODULE ExecutiveSession --------------------------
(***************************************************************************)
(* The Registered Executive session of the Experience Gateway: the browser *)
(* that holds the signed cookie, the Gateway process that issues, checks   *)
(* and locally revokes sessions, and the NEXUS Runtime that records them   *)
(* durably (the Runtime is external and is modelled from the way the       *)
(* Gateway calls it).                                                      *)
(*                                                                         *)
(* Every request is a process of its own.  A handler of the Gateway runs   *)
(* without interruption between two awaits, so each action below is one    *)
(* such stretch of a handler; requests, Runtime calls and replies can be   *)
(* delayed, reordered and lost, and the Gateway can restart at any point.  *)
(*                                                                         *)
(* A session identifier is random.  Here the session that login request r  *)
(* mints is named r: one login mints at most one session.                  *)
(***************************************************************************)
EXTENDS Naturals

CONSTANTS
    Request,       \* the requests the browser may send, each at most once
    Version,       \* versions of the server-owned registration
    NoSid,         \* "no cookie", "no CSRF token"
    SessionTtl,    \* min(session TTL, maximum lifetime of the registration)
    AssertionTtl,  \* lifetime of a human-session assertion (60 s at most)
    AuthnMaxAge,   \* MAX_PROVIDER_AUTHENTICATION_AGE_SECONDS
    MaxTime        \* bound on the clock

ASSUME NoSidAssumption == NoSid \notin Request
ASSUME LifetimeAssumption ==
    /\ SessionTtl \in Nat \ {0}
    /\ AssertionTtl \in Nat \ {0}
    /\ AuthnMaxAge \in Nat
    /\ MaxTime \in Nat

VARIABLES
    now,           \* the clock, in seconds, from 1; 0 stands for "no time"
    registration,  \* version of the registration in the running configuration
    issued,        \* the sessions minted so far
    claims,        \* the signed claims of each minted session
    revoked,       \* the authority's in-memory Map: sid to expiry, 0 if absent
    runtime,       \* the Runtime's durable record of each session
    calls,         \* requests whose Runtime call is still in the network
    request,       \* the requests, from sending to delivery of the reply
    jar,           \* the browser's session cookie
    token,         \* the session whose CSRF token the page holds
    provider,      \* authentication time in the provider cookie, 0 if none
    doomed         \* history: requests sent on a session already over at the Runtime

gateway == <<registration, issued, claims, revoked>>
browser == <<jar, token, provider>>
vars == <<now, gateway, runtime, calls, request, browser, doomed>>

Op == {"login", "status", "revoke", "execute", "signout"}

(* unsent -> sent -> [waiting ->] calling -> answered -> replied -> delivered;
   waiting: the body, the provider's verification or the action admission is
   being awaited; dropped: a restart took the handler, no reply will ever come. *)
Phase == {"unsent", "sent", "waiting", "calling", "answered", "replied",
          "delivered", "dropped"}

(* What the Runtime client returns or throws, and what the reply then says. *)
Answer == {"active", "expired", "revoked", "absent", "rejected", "failed"}
Outcome == {"granted", "none", "ended", "refused", "unavailable", "signedout"}

RequestState ==
    [op : Op, phase : Phase, sid : Request \cup {NoSid},
     csrf : Request \cup {NoSid}, authn : Nat, deadline : Nat,
     result : Answer \cup Outcome \cup {"pending"},
     cookie : {"keep", "set", "clear"}]

Unsent ==
    [op |-> "status", phase |-> "unsent", sid |-> NoSid, csrf |-> NoSid,
     authn |-> 0, deadline |-> 0, result |-> "pending", cookie |-> "keep"]

TypeOK ==
    /\ now \in Nat \ {0}
    /\ registration \in Version
    /\ issued \subseteq Request
    /\ claims \in [Request -> [version : Version, authn : Nat, iat : Nat, exp : Nat]]
    /\ revoked \in [Request -> Nat]
    /\ runtime \in [Request -> {"absent", "active", "revoked"}]
    /\ calls \subseteq Request
    /\ request \in [Request -> RequestState]
    /\ \A r \in Request :   \* a handler past its cookie check has a session
          \/ request[r].phase \in {"calling", "answered"}
          \/ request[r].phase = "waiting" /\ request[r].op # "login"
          => request[r].sid \in Request
    /\ jar \in Request \cup {NoSid}
    /\ token \in Request \cup {NoSid}
    /\ provider \in Nat
    /\ doomed \subseteq Request

-----------------------------------------------------------------------------
(* The session authority. *)

(* What the cookie of session s must satisfy besides its signature: the
   fingerprint of the current registration, fresh authentication, lifetime. *)
ActiveClaims(s) ==
    /\ s \in issued
    /\ claims[s].version = registration
    /\ claims[s].authn <= claims[s].iat
    /\ claims[s].iat - claims[s].authn <= AuthnMaxAge
    /\ claims[s].exp - claims[s].iat <= SessionTtl
    /\ now < claims[s].exp

(* The Map forgets an entry at its expiry, and only when it is looked up; an
   entry that has expired and no entry at all answer the same. *)
IsRevoked(s) == revoked[s] > now

Authenticates(s) == ActiveClaims(s) /\ ~IsRevoked(s)

(* Variant: the entry lives only as long as an assertion. *)
RevokeBriefly(s) == revoked' = [revoked EXCEPT ![s] = claims[s].iat + AssertionTtl]

RevokeLocally(s) == revoked' = [revoked EXCEPT ![s] = claims[s].exp]

(* Expiry of an assertion minted now for a session that expires at exp. *)
AssertionDeadline(exp) ==
    IF exp < now + AssertionTtl THEN exp ELSE now + AssertionTtl

(* What the Runtime says of session s. *)
RuntimeState(s) ==
    IF runtime[s] = "active" /\ claims[s].exp <= now THEN "expired" ELSE runtime[s]

Replied(r, outcome, setCookie) ==
    [request[r] EXCEPT !.phase = "replied", !.result = outcome, !.cookie = setCookie]

Answered(r, answer) ==
    [request[r] EXCEPT !.phase = "answered", !.result = answer]

Calling(r, s, exp) ==
    [request[r] EXCEPT !.phase = "calling", !.sid = s,
                       !.deadline = AssertionDeadline(exp)]

-----------------------------------------------------------------------------
Init ==
    /\ now = 1
    /\ registration \in Version
    /\ issued = {}
    /\ claims = [s \in Request |->
                    [version |-> registration, authn |-> 0, iat |-> 0, exp |-> 0]]
    /\ revoked = [s \in Request |-> 0]
    /\ runtime = [s \in Request |-> "absent"]
    /\ calls = {}
    /\ request = [r \in Request |-> Unsent]
    /\ jar = NoSid
    /\ token = NoSid
    /\ provider = 0
    /\ doomed = {}

(* The browser sends a request with the cookies and the token it holds now. *)
Sent(op) ==
    [op |-> op, phase |-> "sent",
     sid |-> IF op = "login" THEN NoSid ELSE jar,
     csrf |-> IF op = "revoke" THEN token ELSE NoSid,
     authn |-> IF op \in {"login", "signout"} THEN provider ELSE 0,
     deadline |-> 0, result |-> "pending", cookie |-> "keep"]

Send(r, op) ==
    /\ request[r].phase = "unsent"
    /\ request' = [request EXCEPT ![r] = Sent(op)]
    /\ doomed' = IF /\ op # "login"
                    /\ jar \in Request
                    /\ RuntimeState(jar) \in {"expired", "revoked"}
                 THEN doomed \cup {r} ELSE doomed
    /\ UNCHANGED <<now, gateway, runtime, calls, browser>>

(* Login reads its body and awaits the provider's verification. *)
ReceiveLogin(r) ==
    /\ request[r].phase = "sent" /\ request[r].op = "login"
    /\ request' = [request EXCEPT ![r].phase = "waiting"]
    /\ UNCHANGED <<now, gateway, runtime, calls, browser, doomed>>

(* Variant: GET trusts the cookie and the local map, without the Runtime. *)
ReceiveStatusLocally(r) ==
    /\ request[r].phase = "sent" /\ request[r].op = "status"
    /\ request' = [request EXCEPT ![r] =
          IF Authenticates(request[r].sid) THEN Replied(r, "granted", "keep")
                                           ELSE Replied(r, "none", "keep")]
    /\ UNCHANGED <<now, gateway, runtime, calls, browser, doomed>>

(* GET: an unauthenticated cookie is cleared, an authenticated one is read
   back from the Runtime. *)
ReceiveStatus(r) ==
    /\ request[r].phase = "sent" /\ request[r].op = "status"
    /\ LET s == request[r].sid IN
       \/ /\ ~ Authenticates(s)
          /\ request' = [request EXCEPT ![r] =
                Replied(r, "none", IF s = NoSid THEN "keep" ELSE "clear")]
          /\ UNCHANGED calls
       \/ /\ Authenticates(s)
          /\ request' = [request EXCEPT ![r] = Calling(r, s, claims[s].exp)]
          /\ calls' = calls \cup {r}
    /\ UNCHANGED <<now, gateway, runtime, browser, doomed>>

(* Revoke needs the cookie and the CSRF token of the same session, and then
   awaits its body. *)
ReceiveRevoke(r) ==
    /\ request[r].phase = "sent" /\ request[r].op = "revoke"
    /\ LET s == request[r].sid IN
       \/ /\ ~ Authenticates(s) \/ request[r].csrf # s
          /\ request' = [request EXCEPT ![r] = Replied(r, "refused", "keep")]
       \/ /\ Authenticates(s)
          /\ request[r].csrf = s
          /\ request' = [request EXCEPT ![r].phase = "waiting"]
    /\ UNCHANGED <<now, gateway, runtime, calls, browser, doomed>>

(* Canonical execution checks the cookie and then awaits action admission. *)
ReceiveExecute(r) ==
    /\ request[r].phase = "sent" /\ request[r].op = "execute"
    /\ \/ /\ ~ Authenticates(request[r].sid)
          /\ request' = [request EXCEPT ![r] = Replied(r, "refused", "keep")]
       \/ /\ Authenticates(request[r].sid)
          /\ request' = [request EXCEPT ![r].phase = "waiting"]
    /\ UNCHANGED <<now, gateway, runtime, calls, browser, doomed>>

(* Provider sign-out is refused while the executive cookie authenticates; it
   needs a provider session, which may be over by now, and the provider, which
   may be unreachable. *)
ReceiveSignOut(r) ==
    /\ request[r].phase = "sent" /\ request[r].op = "signout"
    /\ \/ /\ Authenticates(request[r].sid) \/ request[r].authn = 0
          /\ request' = [request EXCEPT ![r] = Replied(r, "refused", "keep")]
       \/ /\ ~ Authenticates(request[r].sid)
          /\ request[r].authn # 0
          /\ \E outcome \in {"signedout", "refused", "unavailable"} :
                request' = [request EXCEPT ![r] = Replied(r, outcome, "keep")]
    /\ UNCHANGED <<now, gateway, runtime, calls, browser, doomed>>

-----------------------------------------------------------------------------
(* The second stretch of the handlers that await before they call. *)

(* Variant: the age of the provider's authentication is not checked. *)
IssueStaleSession(r) ==
    /\ request[r].phase = "waiting" /\ request[r].op = "login"
    /\ request[r].authn # 0
    /\ issued' = issued \cup {r}
    /\ claims' = [claims EXCEPT ![r] =
          [version |-> registration, authn |-> request[r].authn,
           iat |-> now, exp |-> now + SessionTtl]]
    /\ request' = [request EXCEPT ![r] = Calling(r, r, now + SessionTtl)]
    /\ calls' = calls \cup {r}
    /\ UNCHANGED <<now, registration, revoked, runtime, browser, doomed>>

(* The provider's authentication must be fresh when the session is minted;
   the Runtime is asked to verify it in the same stretch. *)
IssueSession(r) ==
    /\ request[r].phase = "waiting" /\ request[r].op = "login"
    /\ request[r].authn # 0
    /\ request[r].authn <= now
    /\ now - request[r].authn <= AuthnMaxAge
    /\ issued' = issued \cup {r}
    /\ claims' = [claims EXCEPT ![r] =
          [version |-> registration, authn |-> request[r].authn,
           iat |-> now, exp |-> now + SessionTtl]]
    /\ request' = [request EXCEPT ![r] = Calling(r, r, now + SessionTtl)]
    /\ calls' = calls \cup {r}
    /\ UNCHANGED <<now, registration, revoked, runtime, browser, doomed>>

(* No provider session, a stale one, or no registration for the identity. *)
RefuseLogin(r) ==
    /\ request[r].phase = "waiting" /\ request[r].op = "login"
    /\ request' = [request EXCEPT ![r] = Replied(r, "refused", "keep")]
    /\ UNCHANGED <<now, gateway, runtime, calls, browser, doomed>>

CallRevoke(r) ==
    /\ request[r].phase = "waiting" /\ request[r].op = "revoke"
    /\ ActiveClaims(request[r].sid)
    /\ request' = [request EXCEPT ![r] =
          Calling(r, request[r].sid, claims[request[r].sid].exp)]
    /\ calls' = calls \cup {r}
    /\ UNCHANGED <<now, gateway, runtime, browser, doomed>>

(* A malformed body, or a session that expired while the body was awaited. *)
AbortRevoke(r) ==
    /\ request[r].phase = "waiting" /\ request[r].op = "revoke"
    /\ request' = [request EXCEPT ![r] = Answered(r, "failed")]
    /\ UNCHANGED <<now, gateway, runtime, calls, browser, doomed>>

(* The claims are those decoded before the admission was awaited; minting the
   assertion checks them again, but not the revocation map. *)
CallExecute(r) ==
    /\ request[r].phase = "waiting" /\ request[r].op = "execute"
    /\ ActiveClaims(request[r].sid)
    /\ request' = [request EXCEPT ![r] =
          Calling(r, request[r].sid, claims[request[r].sid].exp)]
    /\ calls' = calls \cup {r}
    /\ UNCHANGED <<now, gateway, runtime, browser, doomed>>

(* The action is not admitted, or the session expired in the meantime. *)
AbortExecute(r) ==
    /\ request[r].phase = "waiting" /\ request[r].op = "execute"
    /\ request' = [request EXCEPT ![r] = Replied(r, "unavailable", "keep")]
    /\ UNCHANGED <<now, gateway, runtime, calls, browser, doomed>>

-----------------------------------------------------------------------------
(* The Runtime. *)

(* It takes a call from the network, possibly after the Gateway gave up on it,
   and refuses an assertion past its deadline.  The answer may get lost. *)
RuntimeServes(r) ==
    LET s == request[r].sid
        op == request[r].op
        valid == now < request[r].deadline
        effect == CASE op = "login" /\ valid -> "active"
                    [] op = "revoke" /\ valid /\ RuntimeState(s) = "active" -> "revoked"
                    [] OTHER -> runtime[s]
        answer == CASE ~valid -> "rejected"
                    [] valid /\ op \in {"login", "revoke"} -> effect
                    [] OTHER -> RuntimeState(s)
    IN  /\ r \in calls
        /\ calls' = calls \ {r}
        /\ runtime' = [runtime EXCEPT ![s] = effect]
        /\ \/ UNCHANGED request
           \/ /\ request[r].phase = "calling"
              /\ request' = [request EXCEPT ![r] = Answered(r, answer)]
        /\ UNCHANGED <<now, gateway, browser, doomed>>

(* The call times out, the connection breaks or the response is not a valid
   session envelope; the call may still reach the Runtime. *)
CallFails(r) ==
    /\ request[r].phase = "calling"
    /\ request' = [request EXCEPT ![r] = Answered(r, "failed")]
    /\ UNCHANGED <<now, gateway, runtime, calls, browser, doomed>>

-----------------------------------------------------------------------------
(* The last stretch of the handlers. *)

(* Variant: the cookie is set although the Runtime did not verify the session. *)
ReplyLoginUnverified(r) ==
    /\ request[r].phase = "answered" /\ request[r].op = "login"
    /\ request' = [request EXCEPT ![r] =
          IF request[r].result \in {"active", "failed"} THEN Replied(r, "granted", "set")
                                                       ELSE Replied(r, "refused", "keep")]
    /\ UNCHANGED <<now, gateway, runtime, calls, browser, doomed>>

ReplyLogin(r) ==
    /\ request[r].phase = "answered" /\ request[r].op = "login"
    /\ request' = [request EXCEPT ![r] =
          CASE request[r].result = "active" -> Replied(r, "granted", "set")
            [] request[r].result = "failed" -> Replied(r, "unavailable", "keep")
            [] OTHER -> Replied(r, "refused", "keep")]
    /\ UNCHANGED <<now, gateway, runtime, calls, browser, doomed>>

(* Variant: a verified GET renews the cookie. *)
ReplyStatusRenewing(r) ==
    /\ request[r].phase = "answered" /\ request[r].op = "status"
    /\ \/ /\ request[r].result = "active"
          /\ request' = [request EXCEPT ![r] = Replied(r, "granted", "set")]
          /\ UNCHANGED revoked
       \/ /\ request[r].result \in {"expired", "revoked", "absent"}
          /\ request' = [request EXCEPT ![r] = Replied(r, "refused", "clear")]
          /\ RevokeLocally(request[r].sid)
    /\ UNCHANGED <<now, registration, issued, claims, runtime, calls, browser, doomed>>

(* A terminal failure revokes the session here and clears the cookie; any
   other failure leaves both as they are. *)
ReplyStatus(r) ==
    /\ request[r].phase = "answered" /\ request[r].op = "status"
    /\ \/ /\ request[r].result = "active"
          /\ request' = [request EXCEPT ![r] = Replied(r, "granted", "keep")]
          /\ UNCHANGED revoked
       \/ /\ request[r].result \in {"expired", "revoked", "absent"}
          /\ request' = [request EXCEPT ![r] = Replied(r, "refused", "clear")]
          /\ RevokeLocally(request[r].sid)
       \/ /\ request[r].result \in {"failed", "rejected"}
          /\ request' = [request EXCEPT ![r] = Replied(r, "unavailable", "keep")]
          /\ UNCHANGED revoked
    /\ UNCHANGED <<now, registration, issued, claims, runtime, calls, browser, doomed>>

(* Whatever the Runtime said, the session is revoked here and the cookie is
   cleared. *)
ReplyRevoke(r) ==
    /\ request[r].phase = "answered" /\ request[r].op = "revoke"
    /\ request' = [request EXCEPT ![r] =
          Replied(r, IF request[r].result = "revoked" THEN "ended" ELSE "unavailable",
                  "clear")]
    /\ RevokeLocally(request[r].sid)
    /\ UNCHANGED <<now, registration, issued, claims, runtime, calls, browser, doomed>>

ReplyExecute(r) ==
    /\ request[r].phase = "answered" /\ request[r].op = "execute"
    /\ request' = [request EXCEPT ![r] =
          Replied(r, IF request[r].result = "active" THEN "granted" ELSE "unavailable",
                  "keep")]
    /\ UNCHANGED <<now, gateway, runtime, calls, browser, doomed>>

-----------------------------------------------------------------------------
(* The browser takes a reply: the cookie jar first, then the page's token,
   which every failed revoke and every 4xx forgets and a 5xx keeps.  A reply
   that is never delivered is a lost one. *)
Deliver(r) ==
    /\ request[r].phase = "replied"
    /\ request' = [request EXCEPT ![r].phase = "delivered"]
    /\ jar' = CASE request[r].cookie = "set" -> request[r].sid
                [] request[r].cookie = "clear" -> NoSid
                [] OTHER -> jar
    /\ token' = CASE request[r].op \in {"execute", "signout"} -> token
                  [] request[r].op \in {"login", "status"}
                     /\ request[r].result = "granted" -> request[r].sid
                  [] request[r].op \in {"login", "status"}
                     /\ request[r].result = "unavailable" -> token
                  [] OTHER -> NoSid
    /\ provider' = IF request[r].result = "signedout" THEN 0 ELSE provider
    /\ UNCHANGED <<now, gateway, runtime, calls, doomed>>

(* The interactive provider login completes: the provider authenticated the user
   a moment ago, or at most AuthnMaxAge ago. *)
ProviderSignIn ==
    /\ \E authn \in 1 .. now :
          /\ now - authn <= AuthnMaxAge
          /\ provider # authn
          /\ provider' = authn
    /\ UNCHANGED <<now, gateway, runtime, calls, request, jar, token, doomed>>

(* The Gateway process restarts, perhaps with another registration: the
   revocation map and every unfinished handler are gone. *)
Restart ==
    /\ registration' \in Version
    /\ revoked' = [s \in Request |-> 0]
    /\ request' = [r \in Request |->
          IF request[r].phase \in {"waiting", "calling", "answered"}
          THEN [request[r] EXCEPT !.phase = "dropped"] ELSE request[r]]
    /\ UNCHANGED <<now, issued, claims, runtime, calls, browser, doomed>>

Tick ==
    /\ now < MaxTime
    /\ now' = now + 1
    /\ UNCHANGED <<gateway, runtime, calls, request, browser, doomed>>

Receive(r) ==
    \/ ReceiveLogin(r) \/ ReceiveStatus(r) \/ ReceiveRevoke(r)
    \/ ReceiveExecute(r) \/ ReceiveSignOut(r)

Resume(r) ==
    \/ IssueSession(r) \/ RefuseLogin(r) \/ CallRevoke(r) \/ AbortRevoke(r)
    \/ CallExecute(r) \/ AbortExecute(r)

Reply(r) == ReplyLogin(r) \/ ReplyStatus(r) \/ ReplyRevoke(r) \/ ReplyExecute(r)

Next ==
    \/ \E r \in Request :
          \/ \E op \in Op : Send(r, op)
          \/ Receive(r) \/ Resume(r) \/ RuntimeServes(r) \/ CallFails(r)
          \/ Reply(r) \/ Deliver(r)
    \/ ProviderSignIn \/ Restart \/ Tick

Spec == Init /\ [][Next]_vars

-----------------------------------------------------------------------------
(* Safety. *)

(* A session in the revocation map does not authenticate, at any later time
   of the same process: an entry is never forgotten before its cookie dies. *)
RevocationOutlivesCookie ==
    \A s \in Request : revoked[s] # 0 => ~ Authenticates(s)

(* A request sent after the Runtime ended its session is never granted, even
   if the Gateway has restarted and forgotten that it revoked the session, and
   whatever other handlers were doing meanwhile. *)
NoGrantAfterEnd ==
    \A r \in doomed : request[r].phase \in {"replied", "delivered"} =>
        request[r].result # "granted"

(* The browser holds the cookie of a session only after the Runtime has
   recorded it: a login whose verification fails or is lost sets no cookie. *)
VerifiedBeforeCookie ==
    jar # NoSid => jar \in issued /\ runtime[jar] # "absent"

(* Once a reply that clears the cookie of session s has reached the browser,
   no reply still under way brings that cookie back. *)
SignedOutStaysOut ==
    \A r \in Request :
        request[r].phase = "delivered" /\ request[r].cookie = "clear"
            => jar # request[r].sid

(* The Runtime changes the record of a session only while that session is
   unexpired, and creates it within one assertion lifetime of a provider
   authentication that was fresh: calls the Gateway has given up on are inert
   once their assertion is stale. *)
RuntimeChangesAreTimely ==
    [][\A s \in Request : runtime'[s] # runtime[s] =>
          /\ now < claims[s].exp
          /\ runtime[s] = "absent" =>
                now < claims[s].authn + AuthnMaxAge + AssertionTtl]_vars

(* The promise to the user (module SessionLifecycle): the record of a session is
   the Runtime's, the browser holds the session of its cookie, and the sessions
   it held before are those whose cookies were set by a delivered login. *)
RecordOf(s) ==
    CASE RuntimeState(s) = "absent" -> "none"
      [] RuntimeState(s) = "active" -> "active"
      [] RuntimeState(s) \in {"expired", "revoked"} -> "over"

HeldBefore ==
    {s \in Request : /\ request[s].phase = "delivered"
                     /\ request[s].cookie = "set"
                     /\ s # jar}

UseOf(r) ==
    IF request[r].phase = "unsent" THEN "idle"
    ELSE IF request[r].op = "login" THEN "renewal"
    ELSE IF r \in doomed THEN "barred"
    ELSE IF /\ request[r].phase \in {"replied", "delivered"}
            /\ request[r].result = "granted" THEN "granted"
    ELSE "open"

Lifecycle ==
    INSTANCE SessionLifecycle WITH
        Session <- Request, Use <- Request, NoSession <- NoSid,
        record <- [s \in Request |-> RecordOf(s)],
        held <- jar,
        past <- HeldBefore,
        use <- [r \in Request |-> UseOf(r)]

(* The Gateway, its browser and its Runtime keep that promise, with lost and late
   calls, replies in any order and restarts. *)
ImplementsLifecycle == Lifecycle!Spec

(* Provider sign-out "refuses while an active NEXUS session exists, and requires
   the NEXUS session to be revoked through its CSRF-protected Runtime route
   first": when sign-out is granted after the user revoked session s, s is over
   at the Runtime.  The Gateway looks at its own cookie check only. *)
SignOutAfterRevocation ==
    [][\A r, p \in Request :
          /\ request[r].result # "signedout"
          /\ request'[r].result = "signedout"
          /\ request[p].op = "revoke"
          /\ request[p].phase = "delivered"
          /\ request[p].cookie = "clear"
          => RuntimeState(request[p].sid) # "active"]_vars

=============================================================================
