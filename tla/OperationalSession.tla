------------------------- MODULE OperationalSession -------------------------
(***************************************************************************)
(* The operational session: a signed cookie that the Gateway issues after  *)
(* a login with the access key, or by itself in a private workspace, the   *)
(* relay of reads and mutations under it, and the page that follows it.    *)
(*                                                                         *)
(* The Gateway keeps two things in memory, the revocations and the failed  *)
(* logins of an address (addresses share nothing: there is one here), and  *)
(* a restart forgets both.  The page polls GET /api/session, one poll at a *)
(* time, and sends any number of other requests; replies come in any order.*)
(***************************************************************************)
EXTENDS Naturals, Sequences, FiniteSets

CONSTANTS
    Request,      \* the requests, other than polls, that can be under way together
    MaxSend,      \* bound on the requests sent
    MaxSession,   \* bound on the sessions issued
    Lifetime,     \* operationalSessionTtlSeconds
    Window,       \* how long a failed login counts
    Limit,        \* failed logins in a window before logins are refused
    MaxTime,      \* bound on the clock
    MaxRestart    \* bound on the restarts of the Gateway

ASSUME BoundAssumption ==
    /\ MaxSend \in Nat \ {0}
    /\ MaxSession \in Nat \ {0}
    /\ MaxTime \in Nat
    /\ MaxRestart \in Nat

ASSUME LimitAssumption ==
    /\ Lifetime \in Nat \ {0}
    /\ Window \in Nat \ {0}
    /\ Limit \in Nat \ {0}

VARIABLES
    now,          \* the clock
    mode,         \* operationalSessionMode of the deployment
    issued,       \* sessions issued so far; they are named 1, 2, ...
    expiry,       \* exp of each session issued
    revoked,      \* revokedSessions: the expiry of each revoked session, or 0
    failures,     \* failures: the times of the failed logins
    restarts,     \* restarts so far
    jar,          \* the session whose cookie the browser holds
    page,         \* capabilityTransport: the session whose CSRF token is in use
    poll,         \* the GET /api/session under way
    req,          \* the other requests under way
    sends,        \* how many of them have been sent
    guesses,      \* history: the keys found wrong in this process since a success
    ended,        \* history: the sessions revoked in this process
    loggedOut     \* history: the sessions whose logout the browser saw succeed

sessions == <<issued, expiry>>
gateway == <<sessions, revoked, failures>>
browser == <<jar, page>>
history == <<guesses, ended, loggedOut>>
requests == <<req, sends>>
vars == <<now, mode, gateway, restarts, browser, poll, requests, history>>

Sid == 1 .. MaxSession
NoSid == 0

Mode == {"access_key", "automatic_private_workspace"}

NoPoll == [at |-> "idle", sid |-> NoSid, outcome |-> "none", cookie |-> NoSid]

Unsent ==
    [kind |-> "none", at |-> "unsent", sid |-> NoSid, token |-> NoSid, outcome |-> "none",
     cookie |-> NoSid]

Outcome ==
    {"none", "active", "absent", "refused", "unauthorized", "limited", "logged_out", "done"}

TypeOK ==
    /\ now \in 0 .. MaxTime
    /\ mode \in Mode
    /\ issued \in 0 .. MaxSession
    /\ expiry \in [Sid -> Nat]
    /\ revoked \in [Sid -> Nat]
    /\ failures \in Seq(0 .. MaxTime)
    /\ restarts \in 0 .. MaxRestart
    /\ jar \in Sid \cup {NoSid}
    /\ page \in Sid \cup {NoSid}
    /\ poll \in [at : {"idle", "sent", "replied"}, sid : Sid \cup {NoSid},
                 outcome : {"none", "active", "absent", "refused"}, cookie : Sid \cup {NoSid}]
    /\ req \in [Request ->
         [kind : {"none", "login", "guess", "logout", "read", "mutation"},
          at : {"unsent", "sent", "waiting", "relayed", "broken", "replied"},
          sid : Sid \cup {NoSid}, token : Sid \cup {NoSid}, outcome : Outcome,
          cookie : Sid \cup {NoSid}]]
    /\ \A r \in Request : req[r].at \in {"waiting", "relayed"} => req[r].sid \in 1 .. issued
    /\ sends \in 0 .. MaxSend
    /\ guesses \in Seq(0 .. MaxTime)
    /\ ended \subseteq Sid
    /\ loggedOut \subseteq Sid

Init ==
    /\ now = 0
    /\ mode \in Mode
    /\ issued = 0
    /\ expiry = [s \in Sid |-> 0]
    /\ revoked = [s \in Sid |-> 0]
    /\ failures = << >>
    /\ restarts = 0
    /\ jar = NoSid
    /\ page = NoSid
    /\ poll = NoPoll
    /\ req = [r \in Request |-> Unsent]
    /\ sends = 0
    /\ guesses = << >>
    /\ ended = {}
    /\ loggedOut = {}

----------------------------------------------------------------------------
(* createSessionAuthority *)

(* Variant: the entry is forgotten a second before the cookie expires. *)
IsRevokedBriefly(s) == revoked[s] > now + 1

IsRevoked(s) == revoked[s] > now

Authenticates(s) ==
    /\ s \in 1 .. issued
    /\ expiry[s] > now
    /\ ~IsRevoked(s)

(* issue: a fresh sid. *)
Issue ==
    /\ issued < MaxSession
    /\ issued' = issued + 1
    /\ expiry' = [expiry EXCEPT ![issued'] = now + Lifetime]

RevokeLocally(s) ==
    /\ revoked' = [revoked EXCEPT ![s] = expiry[s]]
    /\ ended' = ended \cup {s}

(* Variant: failed logins are never forgotten. *)
EveryFailure == failures

(* The failed logins that still count, in their order. *)
Recent ==
    LET kept[i \in 0 .. Len(failures)] ==
          IF i = 0 THEN << >>
          ELSE IF now - failures[i] < Window THEN Append(kept[i - 1], failures[i])
          ELSE kept[i - 1]
    IN  kept[Len(failures)]

----------------------------------------------------------------------------
(* The Gateway: /api/session *)

(* Variant: a poll renews the cookie of a session that is good. *)
PollArrivesRenewing ==
    /\ poll.at = "sent"
    /\ poll' = IF Authenticates(poll.sid)
               THEN [poll EXCEPT !.at = "replied", !.outcome = "active", !.cookie = poll.sid]
               ELSE [poll EXCEPT !.at = "replied", !.outcome = "absent"]
    /\ UNCHANGED <<now, mode, gateway, restarts, browser, requests, history>>

PollArrives ==
    /\ poll.at = "sent"
    /\ \/ /\ Authenticates(poll.sid)
          /\ poll' = [poll EXCEPT !.at = "replied", !.outcome = "active"]
          /\ UNCHANGED sessions
       \/ /\ ~Authenticates(poll.sid)
          /\ mode = "access_key"
          /\ poll' = [poll EXCEPT !.at = "replied", !.outcome = "absent"]
          /\ UNCHANGED sessions
       \/ /\ ~Authenticates(poll.sid)
          /\ mode = "automatic_private_workspace"
          /\ \/ /\ poll' = [poll EXCEPT !.at = "replied", !.outcome = "refused"]
                /\ UNCHANGED sessions
             \/ /\ Issue
                /\ poll' = [poll EXCEPT !.at = "replied", !.outcome = "active",
                                        !.sid = issued', !.cookie = issued']
    /\ UNCHANGED <<now, mode, revoked, failures, restarts, browser, requests, history>>

Replied(r, outcome, cookie) ==
    req' = [req EXCEPT ![r].at = "replied", ![r].outcome = outcome, ![r].cookie = cookie]

(* login: the limit is looked at before the key. *)
LoginArrives(r) ==
    /\ req[r].at = "sent"
    /\ req[r].kind \in {"login", "guess"}
    /\ \/ /\ mode # "access_key"
          /\ Replied(r, "refused", NoSid)
          /\ UNCHANGED <<gateway, guesses>>
       \/ /\ mode = "access_key"
          /\ Len(Recent) >= Limit
          /\ Replied(r, "limited", NoSid)
          /\ UNCHANGED <<gateway, guesses>>
       \/ /\ mode = "access_key"
          /\ Len(Recent) < Limit
          /\ req[r].kind = "guess"
          /\ failures' = Append(Recent, now)
          /\ guesses' = Append(guesses, now)
          /\ Replied(r, "refused", NoSid)
          /\ UNCHANGED <<sessions, revoked>>
       \/ /\ mode = "access_key"
          /\ Len(Recent) < Limit
          /\ req[r].kind = "login"
          /\ Issue
          /\ failures' = << >>
          /\ guesses' = << >>
          /\ Replied(r, "active", issued')
          /\ UNCHANGED revoked
    /\ UNCHANGED <<sends, now, mode, restarts, browser, poll, ended, loggedOut>>

(* csrfValid revokes the session of a logout itself, and the handler again. *)
LogoutArrives(r) ==
    /\ req[r].at = "sent"
    /\ req[r].kind = "logout"
    /\ IF /\ mode = "access_key"
          /\ Authenticates(req[r].sid)
          /\ req[r].token = req[r].sid
       THEN RevokeLocally(req[r].sid) /\ Replied(r, "logged_out", NoSid)
       ELSE Replied(r, "refused", NoSid) /\ UNCHANGED <<revoked, ended>>
    /\ UNCHANGED <<sends, now, mode, sessions, failures, restarts, browser, poll, guesses, loggedOut>>

----------------------------------------------------------------------------
(* The Gateway: /api/operations *)

(* A read waits for its action admission, a mutation for its body: what was
   found of the session is not looked at again. *)
RelayArrives(r) ==
    /\ req[r].at = "sent"
    /\ req[r].kind \in {"read", "mutation"}
    /\ IF ~Authenticates(req[r].sid)
       THEN Replied(r, "unauthorized", NoSid)
       ELSE IF req[r].kind = "mutation" /\ req[r].token # req[r].sid
            THEN Replied(r, "refused", NoSid)
            ELSE req' = [req EXCEPT ![r].at = "waiting"]
    /\ UNCHANGED <<sends, now, mode, gateway, restarts, browser, poll, history>>

(* Only a named operator, who has logged in, may change anything. *)
Relay(r) ==
    /\ req[r].at = "waiting"
    /\ \/ /\ req[r].kind = "read" \/ mode = "access_key"
          /\ req' = [req EXCEPT ![r].at = "relayed"]
       \/ Replied(r, "refused", NoSid)
    /\ UNCHANGED <<sends, now, mode, gateway, restarts, browser, poll, history>>

(* The Runtime's answer, its failure, or the Gateway's timeout. *)
RelayEnds(r) ==
    /\ req[r].at = "relayed"
    /\ Replied(r, "done", NoSid)
    /\ UNCHANGED <<sends, now, mode, gateway, restarts, browser, poll, history>>

(* The memory is gone, and with it every connection. *)
Restart ==
    /\ restarts < MaxRestart
    /\ restarts' = restarts + 1
    /\ revoked' = [s \in Sid |-> 0]
    /\ failures' = << >>
    /\ guesses' = << >>
    /\ ended' = {}
    /\ req' = [r \in Request |->
         IF req[r].at \in {"waiting", "relayed"} THEN [req[r] EXCEPT !.at = "broken"] ELSE req[r]]
    /\ UNCHANGED <<sends, now, mode, sessions, browser, poll, loggedOut>>

----------------------------------------------------------------------------
(* The browser *)

(* What the Set-Cookie of a reply makes of the cookie the browser holds. *)
JarAfter(reply) ==
    CASE reply.outcome = "logged_out" -> NoSid
      [] reply.cookie # NoSid -> reply.cookie
      [] OTHER -> jar

(* The page load, the timer and the focus of the window poll; a poll under way
   is shared (createSerializedRefresh). *)
PollSent ==
    /\ poll.at = "idle"
    /\ poll' = [NoPoll EXCEPT !.at = "sent", !.sid = jar]
    /\ UNCHANGED <<now, mode, gateway, restarts, browser, requests, history>>

(* asOperationalSession rejects a session that has expired on the way. *)
PollDelivered ==
    /\ poll.at = "replied"
    /\ poll' = NoPoll
    /\ jar' = JarAfter(poll)
    /\ page' = IF poll.outcome = "active" /\ expiry[poll.sid] > now THEN poll.sid ELSE NoSid
    /\ UNCHANGED <<now, mode, gateway, restarts, requests, history>>

(* Variant: a poll that fails changes nothing. *)
PollFailsQuietly ==
    /\ poll.at # "idle"
    /\ poll' = NoPoll
    /\ jar' \in {jar, JarAfter(poll)}
    /\ UNCHANGED <<page, now, mode, gateway, restarts, requests, history>>

(* Timeout, broken connection or a reply that fails validation: the page falls
   back to local mode, and the cookie may have been set all the same. *)
PollFails ==
    /\ poll.at # "idle"
    /\ poll' = NoPoll
    /\ jar' \in {jar, JarAfter(poll)}
    /\ page' = NoSid
    /\ UNCHANGED <<now, mode, gateway, restarts, requests, history>>

(* A login is not part of the page; anything else needs the hosted mode. *)
Send(r, kind) ==
    /\ req[r] = Unsent
    /\ sends < MaxSend
    /\ sends' = sends + 1
    /\ kind \in {"logout", "read", "mutation"} => page # NoSid
    /\ req' = [req EXCEPT ![r] = [Unsent EXCEPT
         !.kind = kind, !.at = "sent", !.sid = jar, !.token = page]]
    /\ UNCHANGED <<now, mode, gateway, restarts, browser, poll, history>>

(* A 401 of the relay invalidates the session of the page, whichever it is. *)
Deliver(r) ==
    /\ req[r].at = "replied"
    /\ req' = [req EXCEPT ![r] = Unsent]
    /\ jar' = JarAfter(req[r])
    /\ page' = IF req[r].outcome \in {"logged_out", "unauthorized"} THEN NoSid ELSE page
    /\ loggedOut' =
         IF req[r].outcome = "logged_out" THEN loggedOut \cup {req[r].sid} ELSE loggedOut
    /\ UNCHANGED <<sends, now, mode, gateway, restarts, poll, guesses, ended>>

RequestFails(r) ==
    /\ req[r].at \in {"sent", "waiting", "relayed", "broken", "replied"}
    /\ req' = [req EXCEPT ![r] = Unsent]
    /\ jar' \in {jar, JarAfter(req[r])}
    /\ UNCHANGED <<sends, now, mode, gateway, restarts, page, poll, history>>

Tick ==
    /\ now < MaxTime
    /\ now' = now + 1
    /\ UNCHANGED <<mode, gateway, restarts, browser, poll, requests, history>>

----------------------------------------------------------------------------
Next ==
    \/ PollSent \/ PollArrives \/ PollDelivered \/ PollFails
    \/ \E r \in Request :
         \/ \E kind \in {"login", "guess", "logout", "read", "mutation"} : Send(r, kind)
         \/ LoginArrives(r) \/ LogoutArrives(r)
         \/ RelayArrives(r) \/ Relay(r) \/ RelayEnds(r)
         \/ Deliver(r) \/ RequestFails(r)
    \/ Restart
    \/ Tick

(* The timer polls, and runBoundedTask ends every poll. *)
Fairness ==
    /\ WF_vars(PollSent)
    /\ WF_vars(PollDelivered \/ PollFails)

Spec == Init /\ [][Next]_vars /\ Fairness

----------------------------------------------------------------------------
(* Properties *)

(* Once the browser has seen a logout succeed, the cookie of that session does
   not come back: not by a poll that was answered before, nor by a late reply,
   nor after a restart that forgot the revocation.  (handleSessionApi) *)
LoggedOutStaysOut == jar \notin loggedOut

(* A session that this process has revoked authenticates nothing any more, up to
   the second in which its cookie expires.  (revoked, decode) *)
RevocationHolds == \A s \in ended : ~Authenticates(s)

(* What is left of the failures after those out of the window are dropped decides
   as if nothing had been dropped (module LoginLimit).  (login) *)
Limiter ==
    INSTANCE LoginLimit WITH
        Login <- Request,
        process <- restarts,
        wrong <- guesses,
        refused <- {r \in Request : req[r].outcome = "limited"}

ImplementsLimit == Limiter!Spec

(* The session that the Gateway would find in the browser's next request. *)
Accepted == IF Authenticates(jar) THEN jar ELSE NoSid

(* The page does not go on for ever with a session that has been revoked, has
   expired or been replaced, whatever replies arrive late, and also if every poll
   fails.  (App: revalidate, invalidate) *)
PageFollows == page # NoSid /\ page # Accepted ~> page = NoSid \/ page = Accepted

=============================================================================
