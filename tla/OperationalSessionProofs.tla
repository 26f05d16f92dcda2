------------------------ MODULE OperationalSessionProofs ------------------------
(***************************************************************************)
(* What a revocation, a logout and the limit on failed logins of the       *)
(* operational session promise, for any number of requests, sessions and   *)
(* restarts, any lifetime, any window and any limit.                       *)
(*                                                                         *)
(* A cookie that is being set is on its way in one reply only and has been *)
(* nowhere yet: that is why no late reply brings back one that is gone.    *)
(* The failed logins that the Gateway drops are out of the window, since   *)
(* they are in the order of the clock: what it keeps is the end of what    *)
(* happened, and its length the number of keys found wrong in the window.  *)
(***************************************************************************)
EXTENDS OperationalSession, WellFoundedInduction, FiniteSetTheorems, TLAPS

(* The types the cookies need; GuessInv has those of the failed logins. *)
Kind == {"none", "login", "guess", "logout", "read", "mutation"}
Stage == {"unsent", "idle", "sent", "waiting", "relayed", "broken", "replied"}
Exchange ==
    [kind : Kind, at : Stage, sid : Nat, token : Nat, outcome : Outcome, cookie : Nat]
Poll == [at : Stage, sid : Nat, outcome : Outcome, cookie : Nat]

Types ==
    /\ now \in Nat
    /\ issued \in Nat /\ issued <= MaxSession
    /\ expiry \in [Sid -> Nat]
    /\ revoked \in [Sid -> Nat]
    /\ jar \in Nat /\ page \in Nat
    /\ poll \in Poll
    /\ req \in [Request -> Exchange]
    /\ ended \subseteq Sid /\ loggedOut \subseteq Sid

(* The sessions revoked in this process are remembered up to their expiry. *)
RevocationInv == \A s \in ended : s <= issued /\ revoked[s] = expiry[s]

(* The cookie of session s has not reached the browser. *)
Undelivered(s) ==
    /\ s # jar
    /\ s \notin loggedOut
    /\ \A r \in Request : req[r].sid # s

(* What the browser holds, has sent or has seen logged out has been issued. *)
IssuedInv ==
    /\ jar <= issued
    /\ \A s \in loggedOut : s <= issued
    /\ poll.cookie <= issued
    /\ poll.outcome # "logged_out"
    /\ \A r \in Request :
          /\ req[r].sid <= issued
          /\ req[r].cookie <= issued
          /\ req[r].outcome = "logged_out" =>
                req[r].sid \in Sid /\ req[r].cookie = NoSid

(* No two replies set the same cookie, and none sets one the browser has had. *)
CookieInv ==
    /\ poll.cookie # NoSid =>
          Undelivered(poll.cookie) /\ \A r \in Request : req[r].cookie # poll.cookie
    /\ \A r \in Request : req[r].cookie # NoSid =>
          /\ Undelivered(req[r].cookie)
          /\ \A q \in Request \ {r} : req[q].cookie # req[r].cookie

Inv == Types /\ RevocationInv /\ IssuedInv /\ CookieInv /\ LoggedOutStaysOut

-----------------------------------------------------------------------------
(* What is not there yet, and the initial state. *)
LEMMA Sentinels ==
    /\ Unsent \in Exchange /\ Unsent.sid = NoSid /\ Unsent.cookie = NoSid
    /\ Unsent.outcome = "none"
    /\ NoPoll \in Poll /\ NoPoll.cookie = NoSid /\ NoPoll.outcome = "none"
    /\ NoSid = 0 /\ NoSid \notin Sid
<1>1. Unsent \in Exchange /\ NoPoll \in Poll
  BY DEF Unsent, NoPoll, Exchange, Poll, NoSid, Kind, Stage, Outcome
<1>2. QED
  BY <1>1 DEF Unsent, NoPoll, NoSid, Sid

LEMMA InitInv == Init => Inv
<1> SUFFICES ASSUME Init PROVE Inv
  OBVIOUS
<1>1. Types
  BY Sentinels, BoundAssumption DEF Init, Types
<1>2. /\ poll.cookie = 0 /\ poll.outcome = "none" /\ jar = 0 /\ issued = 0 /\ ended = {} /\ loggedOut = {}
      /\ \A r \in Request : /\ req[r].sid = 0 /\ req[r].cookie = 0
                            /\ req[r].outcome = "none"
  BY Sentinels DEF Init
<1>3. QED
  BY <1>1, <1>2, Sentinels
     DEF Inv, RevocationInv, IssuedInv, CookieInv, LoggedOutStaysOut

(* A request is answered: only its outcome and its cookie change. *)
LEMMA RepliedStep ==
    ASSUME Types, NEW r \in Request, NEW outcome \in Outcome, NEW cookie \in Nat,
           Replied(r, outcome, cookie)
    PROVE  /\ req' \in [Request -> Exchange]
           /\ \A q \in Request \ {r} : req'[q] = req[q]
           /\ req'[r].sid = req[r].sid /\ req'[r].outcome = outcome
           /\ req'[r].cookie = cookie
<1>1. PICK p \in Exchange : p = req[r]
  BY DEF Types
<1>2. PICK q : q = [p EXCEPT !.at = "replied", !.outcome = outcome, !.cookie = cookie]
  OBVIOUS
<1>3. q = [kind |-> p.kind, at |-> "replied", sid |-> p.sid, token |-> p.token,
           outcome |-> outcome, cookie |-> cookie]
  BY <1>1, <1>2 DEF Exchange
<1>4. req' = [req EXCEPT ![r] = q]
  BY <1>1, <1>2 DEF Replied, Types
<1> HIDE <1>2
<1>5. q \in Exchange /\ q.sid = p.sid /\ q.outcome = outcome /\ q.cookie = cookie
  <2>1. q \in Exchange
    BY <1>1, <1>3 DEF Exchange, Stage
  <2>2. QED
    BY <1>3, <2>1
<1>6. QED
  BY <1>1, <1>4, <1>5 DEF Types

(* A session that has just been issued is nobody's. *)
LEMMA IssueStep ==
    ASSUME Inv, Issue
    PROVE  /\ issued' \in Sid /\ issued' = issued + 1 /\ issued' <= MaxSession
           /\ expiry' \in [Sid -> Nat]
           /\ \A s \in Sid : s <= issued => expiry'[s] = expiry[s]
           /\ issued' # NoSid /\ Undelivered(issued') /\ issued' # poll.cookie
           /\ \A r \in Request : req[r].cookie # issued'
<1>1. /\ issued' = issued + 1 /\ issued' \in Sid /\ issued' <= MaxSession /\ issued' # NoSid
  BY BoundAssumption DEF Issue, Inv, Types, Sid, NoSid
<1>2. now + Lifetime \in Nat
  BY LimitAssumption DEF Inv, Types
<1>3. expiry' \in [Sid -> Nat]
  BY <1>1, <1>2 DEF Issue, Inv, Types
<1>4. \A s \in Sid : s <= issued => expiry'[s] = expiry[s]
  BY <1>1 DEF Issue, Inv, Types, Sid
<1>5. \A s \in Nat : s <= issued => s # issued'
  BY <1>1 DEF Inv, Types
<1>6. /\ poll.cookie \in Nat /\ jar \in Nat
      /\ \A r \in Request : req[r].sid \in Nat /\ req[r].cookie \in Nat
      /\ \A s \in loggedOut : s \in Nat
  BY DEF Inv, Types, Exchange, Poll, Sid
<1>7. QED
  BY <1>1, <1>3, <1>4, <1>5, <1>6 DEF Inv, IssuedInv, Undelivered

(* A request is answered without a cookie, or with that of a new session. *)
LEMMA ReplyInv ==
    ASSUME Inv, NEW r \in Request, NEW outcome \in Outcome, NEW cookie \in Nat,
           Replied(r, outcome, cookie), UNCHANGED <<jar, poll, loggedOut>>,
           outcome = "logged_out" => req[r].sid \in Sid /\ cookie = NoSid,
           \/ cookie = NoSid /\ UNCHANGED issued
           \/ cookie = issued' /\ Issue
    PROVE  IssuedInv' /\ CookieInv' /\ req' \in [Request -> Exchange] /\ LoggedOutStaysOut'
<1>1. /\ req' \in [Request -> Exchange]
      /\ \A q \in Request : req'[q].sid = req[q].sid
      /\ \A q \in Request \ {r} : req'[q] = req[q]
      /\ req'[r].outcome = outcome /\ req'[r].cookie = cookie
  BY RepliedStep DEF Inv
<1>2. /\ issued \in Nat /\ jar \in Nat /\ poll.cookie \in Nat
      /\ \A q \in Request : req[q].sid \in Nat /\ req[q].cookie \in Nat
      /\ \A s \in loggedOut : s \in Nat
  BY DEF Inv, Types, Exchange, Poll, Sid
<1>3. \A s : Undelivered(s) => Undelivered(s)'
  BY <1>1 DEF Undelivered
<1>4. CASE cookie = NoSid /\ UNCHANGED issued
  <2>1. IssuedInv'
    BY <1>1, <1>2, <1>4, Sentinels DEF Inv, IssuedInv
  <2>2. CookieInv'
    BY <1>1, <1>3, <1>4 DEF Inv, CookieInv
  <2>3. QED
    BY <1>1, <2>1, <2>2 DEF Inv, LoggedOutStaysOut
<1>5. CASE cookie = issued' /\ Issue
  <2>1. /\ issued' = issued + 1 /\ Undelivered(issued') /\ issued' # poll.cookie
        /\ \A q \in Request : req[q].cookie # issued'
    BY <1>5, IssueStep
  <2>2. IssuedInv'
    <3>1. \A n \in Nat : n <= issued => n <= issued'
      BY <1>2, <2>1
    <3>2. \A q \in Request : req'[q].cookie <= issued'
      BY <1>1, <1>2, <1>5, <2>1, <3>1 DEF Inv, IssuedInv
    <3>3. \A q \in Request : req'[q].outcome = "logged_out" =>
              req'[q].sid \in Sid /\ req'[q].cookie = NoSid
      BY <1>1 DEF Inv, IssuedInv
    <3>4. QED
      BY <1>1, <1>2, <3>1, <3>2, <3>3 DEF Inv, IssuedInv
  <2>3. CookieInv'
    BY <1>1, <1>3, <1>5, <2>1 DEF Inv, CookieInv
  <2>4. QED
    BY <1>1, <2>2, <2>3 DEF Inv, LoggedOutStaysOut
<1>6. QED
  BY <1>4, <1>5

(* Sessions are issued beside the ones revoked. *)
LEMMA RevocationStays ==
    ASSUME Inv, UNCHANGED <<revoked, ended>>, UNCHANGED sessions \/ Issue
    PROVE  RevocationInv'
<1>1. CASE UNCHANGED sessions
  BY <1>1 DEF sessions, Inv, RevocationInv
<1>2. CASE Issue
  BY <1>2, IssueStep DEF Inv, Types, RevocationInv, Sid
<1>3. QED
  BY <1>1, <1>2

LEMMA PollArrivesInv == ASSUME Inv, PollArrives PROVE Inv'
<1>0. \A q \in Poll : q.sid \in Nat
  BY DEF Poll
<1>1. PICK p \in Poll : p = poll
  BY DEF Inv, Types
<1>2. CASE UNCHANGED sessions /\ \E outcome \in {"active", "absent", "refused"} :
              poll' = [p EXCEPT !.at = "replied", !.outcome = outcome]
  <2>1. PICK outcome \in {"active", "absent", "refused"} :
              poll' = [p EXCEPT !.at = "replied", !.outcome = outcome]
    BY <1>2
  <2>2. poll' = [at |-> "replied", sid |-> p.sid, outcome |-> outcome, cookie |-> p.cookie]
    BY <2>1 DEF Poll
  <2>3. poll' \in Poll /\ poll'.cookie = poll.cookie /\ poll'.outcome # "logged_out"
    BY <1>1, <2>2 DEF Poll, Stage, Outcome
  <2>4. RevocationInv'
    BY <1>2, RevocationStays DEF PollArrives, history
  <2>5. QED
    BY <1>2, <2>3, <2>4
       DEF PollArrives, Inv, Types, IssuedInv, CookieInv, Undelivered, LoggedOutStaysOut,
           sessions, browser, requests, history
<1>3. CASE Issue /\ poll' = [p EXCEPT !.at = "replied", !.outcome = "active",
                                      !.sid = issued', !.cookie = issued']
  <2>1. poll' = [at |-> "replied", sid |-> issued', outcome |-> "active", cookie |-> issued']
    BY <1>3 DEF Poll
  <2>2. /\ issued' \in Sid /\ issued' = issued + 1 /\ issued' <= MaxSession
        /\ expiry' \in [Sid -> Nat] /\ Undelivered(issued')
        /\ \A r \in Request : req[r].cookie # issued'
    BY <1>3, IssueStep
  <2>3. issued' \in Nat
    BY <2>2 DEF Sid
  <2>4. poll' \in Poll /\ poll'.cookie = issued' /\ poll'.outcome = "active"
    BY <2>1, <2>3 DEF Poll, Stage, Outcome
  <2>5. RevocationInv'
    BY <1>3, RevocationStays DEF PollArrives, history
  <2>6. Types'
    BY <2>2, <2>3, <2>4 DEF PollArrives, Inv, Types, browser, requests, history
  <2>7. \A n \in Nat : n <= issued => n <= issued'
    BY <2>2, <2>3 DEF Inv, Types
  <2>8. IssuedInv'
    BY <2>3, <2>4, <2>7
       DEF PollArrives, Inv, Types, IssuedInv, Exchange, Sid, browser, requests, history
  <2>9. CookieInv' /\ LoggedOutStaysOut'
    BY <2>2, <2>4
       DEF PollArrives, Inv, CookieInv, Undelivered, LoggedOutStaysOut, browser, requests, history
  <2>10. QED
    BY <2>5, <2>6, <2>8, <2>9 DEF Inv
<1>4. QED
  BY <1>1, <1>2, <1>3 DEF PollArrives

LEMMA LoginArrivesInv == ASSUME Inv, NEW r \in Request, LoginArrives(r) PROVE Inv'
<1>1. PICK outcome \in {"refused", "limited", "active"}, cookie \in {NoSid, issued'} :
        /\ Replied(r, outcome, cookie)
        /\ \/ cookie = NoSid /\ UNCHANGED sessions
           \/ cookie = issued' /\ Issue
        /\ UNCHANGED revoked
  BY DEF LoginArrives, gateway
<1>2. cookie \in Nat
  BY <1>1, IssueStep, Sentinels DEF Sid
<1>3. UNCHANGED sessions \/ Issue
  BY <1>1
<1>4. \/ cookie = NoSid /\ UNCHANGED issued
      \/ cookie = issued' /\ Issue
  <2>1. UNCHANGED sessions => UNCHANGED issued
    BY DEF sessions
  <2>2. QED
    BY <1>1, <2>1
<1>5. outcome \in Outcome /\ outcome # "logged_out"
  BY DEF Outcome
<1>6. UNCHANGED <<now, jar, page, poll, ended, loggedOut, revoked>>
  BY <1>1 DEF LoginArrives, browser
<1>7. RevocationInv'
  BY <1>3, <1>6, RevocationStays
<1>8. IssuedInv' /\ CookieInv' /\ req' \in [Request -> Exchange] /\ LoggedOutStaysOut'
  BY <1>1, <1>2, <1>4, <1>5, <1>6, ReplyInv
<1>9. issued' \in Nat /\ issued' <= MaxSession /\ expiry' \in [Sid -> Nat]
  <2>1. CASE UNCHANGED sessions
    BY <2>1 DEF sessions, Inv, Types
  <2>2. CASE Issue
    BY <2>2, IssueStep DEF Sid
  <2>3. QED
    BY <1>3, <2>1, <2>2
<1>10. QED
  BY <1>6, <1>7, <1>8, <1>9 DEF Inv, Types

LEMMA LogoutArrivesInv == ASSUME Inv, NEW r \in Request, LogoutArrives(r) PROVE Inv'
<1>1. UNCHANGED <<now, sessions, jar, page, poll, loggedOut>>
  BY DEF LogoutArrives, browser
<1>2. CASE /\ Authenticates(req[r].sid) /\ RevokeLocally(req[r].sid)
           /\ Replied(r, "logged_out", NoSid)
  <2>1. req[r].sid \in Sid
    BY <1>2, BoundAssumption DEF Authenticates, Inv, Types, Sid
  <2>2. IssuedInv' /\ CookieInv' /\ req' \in [Request -> Exchange] /\ LoggedOutStaysOut'
    BY <1>1, <1>2, <2>1, Sentinels, ReplyInv DEF Outcome, sessions
  <2>3. /\ ended' \subseteq Sid /\ revoked' \in [Sid -> Nat] /\ RevocationInv'
    BY <1>1, <1>2, <2>1 DEF RevokeLocally, Authenticates, Inv, Types, RevocationInv, sessions
  <2>4. QED
    BY <1>1, <2>2, <2>3 DEF Inv, Types, sessions
<1>3. CASE Replied(r, "refused", NoSid) /\ UNCHANGED <<revoked, ended>>
  <2>1. IssuedInv' /\ CookieInv' /\ req' \in [Request -> Exchange] /\ LoggedOutStaysOut'
    BY <1>1, <1>3, Sentinels, ReplyInv DEF Outcome, sessions
  <2>2. RevocationInv'
    BY <1>1, <1>3, RevocationStays
  <2>3. QED
    BY <1>1, <1>3, <2>1, <2>2 DEF Inv, Types, sessions
<1>4. QED
  BY <1>2, <1>3 DEF LogoutArrives

(* Nothing the argument is about changes but where a request is. *)
LEMMA RelayInv ==
    ASSUME Inv, NEW r \in Request, RelayArrives(r) \/ Relay(r) \/ RelayEnds(r) PROVE Inv'
<1>1. /\ UNCHANGED <<now, sessions, revoked, jar, page, poll, ended, loggedOut>>
      /\ UNCHANGED issued
  BY DEF RelayArrives, Relay, RelayEnds, gateway, sessions, browser, history
<1>2. RevocationInv'
  BY <1>1, RevocationStays
<1>3. CASE \E at \in {"waiting", "relayed"} : req' = [req EXCEPT ![r].at = at]
  <2>1. PICK at \in {"waiting", "relayed"} : req' = [req EXCEPT ![r].at = at]
    BY <1>3
  <2>2. PICK p \in Exchange : p = req[r]
    BY DEF Inv, Types
  <2>3. PICK q : q = [p EXCEPT !.at = at]
    OBVIOUS
  <2>4. q \in Exchange /\ q.sid = p.sid /\ q.outcome = p.outcome /\ q.cookie = p.cookie
    BY <2>3 DEF Exchange, Stage
  <2>5. req' = [req EXCEPT ![r] = q]
    BY <2>1, <2>2, <2>3 DEF Inv, Types
  <2> HIDE <2>3
  <2>6. /\ req' \in [Request -> Exchange]
        /\ \A o \in Request : /\ req'[o].sid = req[o].sid /\ req'[o].outcome = req[o].outcome
                              /\ req'[o].cookie = req[o].cookie
    BY <2>2, <2>4, <2>5 DEF Inv, Types
  <2>7. IssuedInv' /\ CookieInv' /\ LoggedOutStaysOut'
    BY <1>1, <2>6 DEF Inv, IssuedInv, CookieInv, Undelivered, LoggedOutStaysOut
  <2>8. QED
    BY <1>1, <1>2, <2>6, <2>7 DEF Inv, Types, sessions
<1>4. CASE \E outcome \in {"unauthorized", "refused", "done"} : Replied(r, outcome, NoSid)
  <2>1. IssuedInv' /\ CookieInv' /\ req' \in [Request -> Exchange] /\ LoggedOutStaysOut'
    BY <1>1, <1>4, Sentinels, ReplyInv DEF Outcome
  <2>2. QED
    BY <1>1, <1>2, <2>1 DEF Inv, Types, sessions
<1>5. QED
  BY <1>3, <1>4 DEF RelayArrives, Relay, RelayEnds

(* A restart forgets the revocations, not what the browser has seen. *)
LEMMA RestartInv == ASSUME Inv, Restart PROVE Inv'
<1>1. /\ req' \in [Request -> Exchange]
      /\ \A o \in Request : /\ req'[o].sid = req[o].sid /\ req'[o].outcome = req[o].outcome
                            /\ req'[o].cookie = req[o].cookie
  <2>1. \A p \in Exchange : LET q == [p EXCEPT !.at = "broken"]
                            IN /\ q \in Exchange /\ q.sid = p.sid
                               /\ q.outcome = p.outcome /\ q.cookie = p.cookie
    BY DEF Exchange, Stage
  <2>2. \A o \in Request : req[o] \in Exchange
    BY DEF Inv, Types
  <2>3. QED
    BY <2>1, <2>2 DEF Restart
<1>2. revoked' \in [Sid -> Nat] /\ ended' = {}
      /\ UNCHANGED <<now, sessions, jar, page, poll, loggedOut>>
  BY DEF Restart, browser
<1>3. IssuedInv' /\ CookieInv' /\ LoggedOutStaysOut'
  BY <1>1, <1>2 DEF Inv, IssuedInv, CookieInv, Undelivered, LoggedOutStaysOut, sessions
<1>4. QED
  BY <1>1, <1>2, <1>3 DEF Inv, Types, RevocationInv, sessions

(* What the browser keeps of a reply. *)
LEMMA JarStep ==
    ASSUME NEW reply, reply.outcome = "logged_out" => reply.cookie = NoSid
    PROVE  /\ JarAfter(reply) \in {NoSid, reply.cookie, jar}
           /\ reply.outcome = "logged_out" => JarAfter(reply) = NoSid
<1>1. CASE reply.outcome = "logged_out"
  BY <1>1 DEF JarAfter
<1>2. CASE reply.outcome # "logged_out" /\ reply.cookie # NoSid
  BY <1>2 DEF JarAfter
<1>3. CASE reply.outcome # "logged_out" /\ reply.cookie = NoSid
  BY <1>3 DEF JarAfter
<1>4. QED
  BY <1>1, <1>2, <1>3

LEMMA PollSentInv == ASSUME Inv, PollSent PROVE Inv'
<1>1. poll' = [at |-> "sent", sid |-> jar, outcome |-> "none", cookie |-> 0]
  BY DEF PollSent, NoPoll, NoSid
<1>2. poll' \in Poll /\ poll'.cookie = NoSid /\ poll'.outcome = "none"
  BY <1>1 DEF Inv, Types, Poll, Stage, Outcome, NoSid
<1>3. UNCHANGED <<now, sessions, revoked, jar, page, req, ended, loggedOut>>
  BY DEF PollSent, gateway, browser, requests, history
<1>4. IssuedInv' /\ CookieInv' /\ LoggedOutStaysOut'
  BY <1>2, <1>3, Sentinels
     DEF Inv, Types, IssuedInv, CookieInv, Undelivered, LoggedOutStaysOut, sessions
<1>5. QED
  BY <1>2, <1>3, <1>4 DEF Inv, Types, RevocationInv, sessions

(* The reply to a poll is delivered or lost, with or without its cookie. *)
LEMMA PollEndsInv == ASSUME Inv, PollDelivered \/ PollFails PROVE Inv'
<1>1. /\ poll' = NoPoll /\ jar' \in {jar, JarAfter(poll)} /\ page' \in {poll.sid, NoSid}
      /\ UNCHANGED <<now, sessions, revoked, req, ended, loggedOut>>
  BY DEF PollDelivered, PollFails, gateway, requests, history
<1>2. jar' \in {jar, poll.cookie, NoSid}
  BY <1>1, JarStep DEF Inv, IssuedInv
<1>3. Types'
  BY <1>1, <1>2, Sentinels DEF Inv, Types, Poll, sessions
<1>4. jar' = poll.cookie /\ jar' # NoSid => Undelivered(jar') /\ \A r \in Request : req[r].cookie # jar'
  BY DEF Inv, CookieInv
<1>5. jar' # NoSid => jar' \notin loggedOut /\ \A r \in Request : req[r].cookie # NoSid => req[r].cookie # jar'
  BY <1>2, <1>4 DEF Inv, CookieInv, Undelivered, LoggedOutStaysOut
<1>6. IssuedInv'
  BY <1>1, <1>2, Sentinels DEF Inv, Types, IssuedInv, sessions
<1>7. CookieInv' /\ LoggedOutStaysOut'
  BY <1>1, <1>5, Sentinels DEF Inv, Types, CookieInv, Undelivered, LoggedOutStaysOut
<1>8. QED
  BY <1>1, <1>3, <1>6, <1>7 DEF Inv, RevocationInv, sessions

(* A request carries what the browser holds, which has been delivered. *)
LEMMA SendInv ==
    ASSUME Inv, NEW r \in Request, NEW kind \in Kind, Send(r, kind) PROVE Inv'
<1>1. PICK q : q = [Unsent EXCEPT !.kind = kind, !.at = "sent", !.sid = jar, !.token = page]
               /\ req' = [req EXCEPT ![r] = q]
  BY DEF Send
<1>2. q = [kind |-> kind, at |-> "sent", sid |-> jar, token |-> page, outcome |-> "none",
           cookie |-> 0]
  BY <1>1 DEF Unsent, NoSid
<1>3. req' = [req EXCEPT ![r] = q]
  BY <1>1
<1> HIDE <1>1
<1>4. q \in Exchange /\ q.sid = jar /\ q.outcome = "none" /\ q.cookie = NoSid
  <2>1. q \in Exchange
    BY <1>2 DEF Inv, Types, Exchange, Stage, Outcome
  <2>2. QED
    BY <1>2, <2>1 DEF NoSid
<1>5. /\ req' \in [Request -> Exchange] /\ req'[r] = q
      /\ \A o \in Request \ {r} : req'[o] = req[o]
  BY <1>3, <1>4 DEF Inv, Types
<1>6. UNCHANGED <<now, sessions, revoked, jar, page, poll, ended, loggedOut>>
  BY DEF Send, gateway, browser, history
<1>7. IssuedInv'
  BY <1>4, <1>5, <1>6, Sentinels DEF Inv, Types, IssuedInv, sessions
<1>8. \A s : Undelivered(s) => Undelivered(s)'
  BY <1>4, <1>5, <1>6 DEF Undelivered
<1>9. CookieInv' /\ LoggedOutStaysOut'
  BY <1>4, <1>5, <1>6, <1>8 DEF Inv, CookieInv, LoggedOutStaysOut
<1>10. QED
  BY <1>5, <1>6, <1>7, <1>9 DEF Inv, Types, RevocationInv, sessions

(* A reply is delivered or lost: its cookie is that of no other reply, and a
   logout leaves the browser with none. *)
LEMMA ReplyEndsInv ==
    ASSUME Inv, NEW r \in Request, Deliver(r) \/ RequestFails(r) PROVE Inv'
<1>1. /\ req' = [req EXCEPT ![r] = Unsent] /\ page' \in {page, NoSid}
      /\ \/ UNCHANGED loggedOut /\ jar' \in {jar, JarAfter(req[r])}
         \/ req[r].outcome # "logged_out" /\ UNCHANGED loggedOut /\ jar' = JarAfter(req[r])
         \/ /\ req[r].outcome = "logged_out" /\ jar' = JarAfter(req[r])
            /\ loggedOut' = loggedOut \cup {req[r].sid}
      /\ UNCHANGED <<now, sessions, revoked, poll, ended>>
  BY DEF Deliver, RequestFails, gateway, browser, history
<1>2. /\ req[r].outcome = "logged_out" => req[r].sid \in Sid /\ req[r].cookie = NoSid
      /\ JarAfter(req[r]) \in {NoSid, req[r].cookie, jar}
      /\ req[r].outcome = "logged_out" => JarAfter(req[r]) = NoSid
  BY JarStep DEF Inv, IssuedInv
<1>3. /\ jar' \in {jar, req[r].cookie, NoSid}
      /\ \/ loggedOut' = loggedOut
         \/ jar' = NoSid /\ req[r].sid \in Sid /\ loggedOut' = loggedOut \cup {req[r].sid}
  BY <1>1, <1>2
<1>4. /\ req' \in [Request -> Exchange] /\ req'[r] = Unsent
      /\ \A o \in Request \ {r} : req'[o] = req[o]
  BY <1>1, Sentinels DEF Inv, Types
<1>5. Types'
  BY <1>1, <1>3, <1>4, Sentinels DEF Inv, Types, Exchange, sessions
<1>6. IssuedInv'
  BY <1>1, <1>3, <1>4, Sentinels DEF Inv, Types, IssuedInv, sessions
<1>7. ASSUME NEW s \in Nat, s # NoSid, Undelivered(s), s # req[r].cookie
      PROVE  Undelivered(s)'
  BY <1>3, <1>4, <1>7, Sentinels DEF Undelivered
<1>8. CookieInv'
  <2>1. ASSUME poll'.cookie # NoSid
        PROVE  Undelivered(poll.cookie)' /\ \A o \in Request : req'[o].cookie # poll'.cookie
    <3>1. PICK s \in Nat : s = poll.cookie /\ s = poll'.cookie
      BY <1>1 DEF Inv, Types, Poll
    <3>2. Undelivered(s) /\ s # NoSid /\ \A o \in Request : req[o].cookie # s
      BY <2>1, <3>1 DEF Inv, CookieInv
    <3>3. Undelivered(s)'
      BY <1>7, <3>2
    <3>4. \A o \in Request : req'[o].cookie # s
      BY <1>4, <3>2, Sentinels
    <3>5. QED
      BY <3>1, <3>3, <3>4
  <2>2. ASSUME NEW o \in Request, req'[o].cookie # NoSid
        PROVE  /\ Undelivered(req[o].cookie)'
               /\ \A q \in Request \ {o} : req'[q].cookie # req'[o].cookie
    <3>1. o # r /\ req'[o] = req[o]
      BY <1>4, <2>2, Sentinels
    <3>2. PICK s \in Nat : s = req[o].cookie /\ s = req'[o].cookie
      BY <3>1 DEF Inv, Types, Exchange
    <3>3. /\ Undelivered(s) /\ s # NoSid /\ s # req[r].cookie
          /\ \A q \in Request \ {o} : req[q].cookie # s
      BY <2>2, <3>1, <3>2 DEF Inv, CookieInv
    <3>4. Undelivered(s)'
      BY <1>7, <3>3
    <3>5. \A q \in Request \ {o} : req'[q].cookie # s
      BY <1>4, <3>3, Sentinels
    <3>6. QED
      BY <3>2, <3>4, <3>5
  <2>3. QED
    BY <2>1, <2>2 DEF CookieInv
<1>9. LoggedOutStaysOut'
  <2>1. req[r].cookie # NoSid => req[r].cookie \notin loggedOut
    BY DEF Inv, CookieInv, Undelivered
  <2>2. NoSid \notin loggedOut /\ jar \notin loggedOut
    BY Sentinels DEF Inv, Types, LoggedOutStaysOut
  <2>3. QED
    BY <1>3, <2>1, <2>2, Sentinels DEF LoggedOutStaysOut
<1>10. QED
  BY <1>1, <1>5, <1>6, <1>8, <1>9 DEF Inv, RevocationInv, sessions

(* Every step preserves the invariant. *)
LEMMA StepInv == Inv /\ [Next]_vars => Inv'
<1> SUFFICES ASSUME Inv, [Next]_vars PROVE Inv'
  OBVIOUS
<1>1. CASE PollSent \/ PollArrives \/ PollDelivered \/ PollFails
  BY <1>1, PollSentInv, PollArrivesInv, PollEndsInv
<1>2. ASSUME NEW r \in Request, NEW kind \in Kind, Send(r, kind) PROVE Inv'
  BY <1>2, SendInv
<1>3. ASSUME NEW r \in Request,
             \/ LoginArrives(r) \/ LogoutArrives(r)
             \/ RelayArrives(r) \/ Relay(r) \/ RelayEnds(r)
             \/ Deliver(r) \/ RequestFails(r)
      PROVE  Inv'
  BY <1>3, LoginArrivesInv, LogoutArrivesInv, RelayInv, ReplyEndsInv
<1>4. CASE Restart
  BY <1>4, RestartInv
<1>5. CASE Tick \/ UNCHANGED vars
  BY <1>5
     DEF Tick, vars, gateway, sessions, browser, requests, history, Inv, Types, RevocationInv,
         IssuedInv, CookieInv, Undelivered, LoggedOutStaysOut
<1>6. QED
  BY <1>1, <1>2, <1>3, <1>4, <1>5 DEF Next, Kind

-----------------------------------------------------------------------------
(* The strengthened invariant holds in every reachable state. *)
THEOREM Invariance == Spec => []Inv
  BY InitInv, StepInv, PTL DEF Spec

(* Once the browser has seen a logout succeed, no reply and no restart brings
   the cookie of that session back (handleSessionApi). *)
THEOREM LogoutsHold == Spec => []LoggedOutStaysOut
  BY Invariance, PTL DEF Inv

(* A session that was revoked authenticates nothing in this process, whatever
   the lifetime of its cookie (revoked, decode). *)
THEOREM RevocationsHold == Spec => []RevocationHolds
<1>1. Inv => RevocationHolds
  BY DEF Inv, Types, RevocationInv, RevocationHolds, Authenticates, IsRevoked
<1>2. QED
  BY <1>1, Invariance, PTL

-----------------------------------------------------------------------------
(* The failed logins. *)

(* A set of naturals that is not empty has a least element. *)
LEMMA LeastElement ==
    ASSUME NEW S \in SUBSET Nat, S # {}
    PROVE  \E m \in S : \A n \in S : m <= n
<1> DEFINE R == {ss \in Nat \X Nat : ss[1] < ss[2]}
<1>1. IsWellFoundedOn(R, Nat)
  BY NatLessThanWellFounded DEF OpToRel
<1> HIDE DEF R
<1>2. PICK x \in S : \A y \in S : ~ (<<y, x>> \in R)
  BY <1>1, WFMin
<1>3. \A y \in S : ~ (y < x)
  BY <1>2 DEF R
<1>4. QED
  BY <1>3

(* Times in the order of the clock. *)
Ordered(s) == \A i, j \in 1 .. Len(s) : i <= j => s[i] <= s[j]

(* The times before "first" are out of the window, the others in it. *)
Divides(s, first) ==
    /\ first \in 1 .. Len(s) + 1
    /\ \A i \in 1 .. Len(s) : now - s[i] < Window <=> i >= first

(* Of times in the order of the clock, the window holds the last ones. *)
LEMMA WindowIsSuffix ==
    ASSUME now \in Nat, NEW s \in Seq(Nat), Ordered(s)
    PROVE  \E first \in Nat : Divides(s, first)
<1> DEFINE In == {i \in Nat : i = Len(s) + 1 \/ (i \in 1 .. Len(s) /\ now - s[i] < Window)}
<1>1. Len(s) \in Nat /\ \A i \in 1 .. Len(s) : s[i] \in Nat
  OBVIOUS
<1>2. In \in SUBSET Nat /\ In # {}
  BY <1>1
<1>3. PICK m \in In : \A n \in In : m <= n
  BY <1>2, LeastElement
<1>4. m \in 1 .. Len(s) + 1
  BY <1>1, <1>3
<1>5. ASSUME NEW i \in 1 .. Len(s)
      PROVE  now - s[i] < Window <=> i >= m
  <2>1. now - s[i] < Window => i \in In
    BY <1>1
  <2>2. ASSUME i >= m PROVE now - s[i] < Window
    <3>1. m \in 1 .. Len(s) /\ now - s[m] < Window
      BY <1>1, <1>3, <1>4, <2>2
    <3>2. s[m] <= s[i]
      BY <1>1, <2>2, <3>1 DEF Ordered
    <3>3. QED
      BY <1>1, <3>1, <3>2, LimitAssumption
  <2>3. QED
    BY <1>1, <1>3, <2>1, <2>2
<1>6. QED
  BY <1>1, <1>4, <1>5 DEF Divides

(* The loop that drops what is out of the window leaves the last ones: were it
   otherwise, there would be a first place where it differs. *)
LEMMA RecentIsSuffix ==
    ASSUME now \in Nat, failures \in Seq(Nat), NEW first \in Nat, Divides(failures, first)
    PROVE  Recent = SubSeq(failures, first, Len(failures))
<1> DEFINE n == Len(failures)
           Kept(f) == [i \in 0 .. n |->
              IF i = 0 THEN << >>
              ELSE IF now - failures[i] < Window THEN Append(f[i - 1], failures[i])
              ELSE f[i - 1]]
           filter == CHOOSE f : f = Kept(f)
           suffix == [i \in 0 .. n |-> SubSeq(failures, first, i)]
<1>1. Recent = filter[n]
  BY Zenon DEF Recent
<1>2. n \in Nat /\ \A i \in 1 .. n : failures[i] \in Nat
  OBVIOUS
<1>3. first \in 1 .. n + 1 /\ \A i \in 1 .. n : now - failures[i] < Window <=> i >= first
  BY DEF Divides
<1>4. \A i \in 1 .. n : i < first => SubSeq(failures, first, i) = << >>
  BY <1>2, <1>3
<1>5. ASSUME NEW i \in 1 .. n, i >= first
      PROVE  SubSeq(failures, first, i) = Append(SubSeq(failures, first, i - 1), failures[i])
  BY <1>2, <1>3, <1>5
<1>6. SubSeq(failures, first, 0) = << >>
  BY <1>2, <1>3
<1>7. suffix = Kept(suffix)
  <2>1. ASSUME NEW i \in 0 .. n
        PROVE  suffix[i] = IF i = 0 THEN << >>
              ELSE IF now - failures[i] < Window THEN Append(suffix[i - 1], failures[i])
              ELSE suffix[i - 1]
    <3>0. \/ i = 0
          \/ i \in 1 .. n /\ i - 1 \in 0 .. n /\ i < first
          \/ i \in 1 .. n /\ i - 1 \in 0 .. n /\ i >= first
      BY <1>2, <1>3
    <3>1. ASSUME i = 0 PROVE suffix[i] = << >>
      BY <1>6, <3>1, <1>2
    <3>2. ASSUME i \in 1 .. n, i - 1 \in 0 .. n, i < first
          PROVE  suffix[i] = suffix[i - 1] /\ ~ (now - failures[i] < Window) /\ i # 0
      <4>1. ~ (now - failures[i] < Window) /\ i # 0
        BY <1>2, <1>3, <3>2
      <4>2. suffix[i] = << >> /\ suffix[i - 1] = << >>
        BY <1>2, <1>4, <1>6, <3>2, <4>1
      <4>3. QED
        BY <4>1, <4>2
    <3>3. ASSUME i \in 1 .. n, i - 1 \in 0 .. n, i >= first
          PROVE  /\ suffix[i] = Append(suffix[i - 1], failures[i])
                 /\ now - failures[i] < Window /\ i # 0
      <4>1. now - failures[i] < Window /\ i # 0
        BY <1>2, <1>3, <3>3
      <4>2. QED
        BY <1>5, <3>3, <4>1
    <3> HIDE DEF suffix, n
    <3>4. QED
      BY <3>0, <3>1, <3>2, <3>3, Zenon
  <2>2. QED
    BY <2>1, Zenon
<1>8. filter = Kept(filter)
  BY <1>7, Zenon
<1>9. \A i \in 0 .. n : filter[i] = suffix[i]
  <2>19. ASSUME NEW i \in 0 .. n
        PROVE  filter[i] = IF i = 0 THEN << >>
              ELSE IF now - failures[i] < Window THEN Append(filter[i - 1], failures[i])
              ELSE filter[i - 1]
    BY <1>8, Zenon
  <2>20. ASSUME NEW i \in 0 .. n
        PROVE  suffix[i] = IF i = 0 THEN << >>
              ELSE IF now - failures[i] < Window THEN Append(suffix[i - 1], failures[i])
              ELSE suffix[i - 1]
    BY <1>7, Zenon
  <2> HIDE DEF filter, suffix
  <2> DEFINE Off == {i \in 0 .. n : filter[i] # suffix[i]}
  <2>1. SUFFICES ASSUME Off # {} PROVE FALSE
    OBVIOUS
  <2>10. Off \in SUBSET Nat
    BY <1>2
  <2>11. \E m \in Off : \A i \in Off : m <= i
    BY ONLY <2>1, <2>10, LeastElement
  <2>2. PICK m \in Off : \A i \in Off : m <= i
    BY <2>11
  <2>3. CASE m = 0
    BY <1>2, <2>19, <2>20, <2>2, <2>3
  <2>4. CASE m # 0
    <3>1. m - 1 \in 0 .. n /\ m - 1 < m
      BY <1>2, <2>2, <2>4
    <3>2. filter[m - 1] = suffix[m - 1]
      BY <1>2, <2>2, <3>1
    <3>3. QED
      BY <1>2, <2>19, <2>20, <2>2, <2>4, <3>2
  <2>5. QED
    BY <2>3, <2>4
<1>10. suffix[n] = SubSeq(failures, first, n)
  BY <1>2
<1> HIDE DEF filter, suffix
<1>11. filter[n] = suffix[n]
  BY <1>2, <1>9
<1>12. QED
  BY <1>1, <1>10, <1>11
(* WrongKeys of the limiter, of any times. *)
Wrong(times, end) ==
    Cardinality({i \in DOMAIN times : times[i] <= end /\ end - times[i] < Window})

(* What the Gateway forgot is out of the window, and it keeps the rest. *)
GuessInv ==
    /\ guesses \in Seq(Nat) /\ failures \in Seq(Nat)
    /\ Ordered(guesses)
    /\ \A i \in 1 .. Len(guesses) : guesses[i] <= now
    /\ Len(failures) <= Len(guesses)
    /\ \A i \in 1 .. Len(failures) :
          failures[i] = guesses[Len(guesses) - Len(failures) + i]
    /\ \A i \in 1 .. Len(guesses) - Len(failures) : now - guesses[i] >= Window
    /\ \A g \in 1 .. Len(guesses) : Wrong(guesses, guesses[g]) <= Limit

(* If the window that ends at a time holds the last entries, it has that many. *)
LEMMA LastKeys ==
    ASSUME NEW times \in Seq(Nat), NEW end \in Nat, NEW k \in Nat, k <= Len(times),
           \A i \in 1 .. Len(times) : times[i] <= end,
           \A i \in 1 .. Len(times) : end - times[i] < Window <=> i > k
    PROVE  Wrong(times, end) = Len(times) - k
<1>1. Len(times) \in Nat /\ DOMAIN times = 1 .. Len(times)
  OBVIOUS
<1>2. {i \in DOMAIN times : times[i] <= end /\ end - times[i] < Window} = k + 1 .. Len(times)
  BY <1>1
<1>3. Cardinality(k + 1 .. Len(times)) = Len(times) - k
  <2>1. k + 1 \in Int /\ Len(times) \in Int
    BY <1>1
  <2>2. Cardinality(k + 1 .. Len(times)) =
          IF k + 1 > Len(times) THEN 0 ELSE Len(times) - (k + 1) + 1
    BY <2>1, FS_Interval
  <2>3. QED
    BY <1>1, <2>2
<1>4. QED
  BY <1>2, <1>3 DEF Wrong

(* What the Gateway still counts is the end of what happened. *)
LEMMA RecentGuesses ==
    ASSUME now \in Nat, GuessInv
    PROVE  \E k \in Nat :
             /\ k <= Len(guesses)
             /\ Recent \in Seq(Nat) /\ Len(Recent) = Len(guesses) - k
             /\ \A i \in 1 .. Len(Recent) : Recent[i] = guesses[k + i]
             /\ \A i \in 1 .. Len(guesses) : now - guesses[i] < Window <=> i > k
<1>1. /\ guesses \in Seq(Nat) /\ failures \in Seq(Nat)
      /\ Len(guesses) \in Nat /\ Len(failures) \in Nat /\ Len(failures) <= Len(guesses)
      /\ \A i \in 1 .. Len(guesses) : guesses[i] \in Nat
      /\ \A i \in 1 .. Len(failures) : failures[i] \in Nat
  BY DEF GuessInv
<1> DEFINE d == Len(guesses) - Len(failures)
<1>2. d \in Nat /\ d + Len(failures) = Len(guesses)
  BY <1>1
<1>3. \A i \in 1 .. Len(failures) : failures[i] = guesses[d + i]
  BY DEF GuessInv
<1>4. \A i \in 1 .. d : now - guesses[i] >= Window
  BY DEF GuessInv
<1> HIDE DEF d
<1>5. Ordered(failures)
  <2>1. SUFFICES ASSUME NEW i \in 1 .. Len(failures), NEW j \in 1 .. Len(failures), i <= j
                 PROVE  failures[i] <= failures[j]
    BY DEF Ordered
  <2>2. d + i \in 1 .. Len(guesses) /\ d + j \in 1 .. Len(guesses) /\ d + i <= d + j
    BY <1>1, <1>2, <2>1
  <2>3. QED
    BY <1>3, <2>2 DEF GuessInv, Ordered
<1>6. PICK first \in Nat : Divides(failures, first)
  BY <1>1, <1>5, WindowIsSuffix
<1>7. /\ first \in 1 .. Len(failures) + 1
      /\ \A i \in 1 .. Len(failures) : now - failures[i] < Window <=> i >= first
  BY <1>6 DEF Divides
<1>8. Recent = SubSeq(failures, first, Len(failures))
  BY <1>1, <1>6, RecentIsSuffix
<1>9. PICK k \in Nat : k = d + first - 1
  BY <1>2, <1>7
<1>10. k <= Len(guesses)
  BY <1>1, <1>2, <1>7, <1>9
<1>11. Recent \in Seq(Nat) /\ Len(Recent) = Len(failures) - first + 1
  BY <1>1, <1>7, <1>8
<1>12. \A i \in 1 .. Len(Recent) : Recent[i] = failures[first + i - 1]
  BY <1>1, <1>7, <1>8
<1>13. ASSUME NEW i \in 1 .. Len(Recent) PROVE Recent[i] = guesses[k + i]
  <2>1. first + i - 1 \in 1 .. Len(failures) /\ d + (first + i - 1) = k + i
    BY <1>1, <1>2, <1>7, <1>9, <1>11
  <2>2. QED
    BY <1>3, <1>12, <2>1
<1>14. ASSUME NEW i \in 1 .. Len(guesses) PROVE now - guesses[i] < Window <=> i > k
  <2>1. CASE i <= d
    BY <1>1, <1>2, <1>4, <1>7, <1>9, <2>1, LimitAssumption
  <2>2. CASE i > d
    <3>1. i - d \in 1 .. Len(failures) /\ d + (i - d) = i
      BY <1>1, <1>2, <2>2
    <3>2. guesses[i] = failures[i - d]
      BY <1>3, <3>1
    <3>3. i - d >= first <=> i > k
      BY <1>1, <1>2, <1>7, <1>9
    <3>4. QED
      BY <1>7, <3>1, <3>2, <3>3
  <2>3. QED
    BY <1>2, <2>1, <2>2
<1>15. Len(Recent) = Len(guesses) - k
  <2>1. \A n, m \in Nat : d + m = n => m - first + 1 = n - k
    BY <1>2, <1>9
  <2>2. Len(failures) - first + 1 = Len(guesses) - k
    BY <1>1, <1>2, <2>1
  <2>3. QED
    BY <1>11, <2>2
<1>16. QED
  BY <1>10, <1>11, <1>13, <1>14, <1>15

(* The length of the list is the number of keys found wrong in the window. *)
LEMMA RecentCounts ==
    ASSUME now \in Nat, GuessInv
    PROVE  Wrong(guesses, now) = Len(Recent)
<1>1. PICK k \in Nat : /\ k <= Len(guesses) /\ Len(Recent) = Len(guesses) - k
                       /\ \A i \in 1 .. Len(guesses) : now - guesses[i] < Window <=> i > k
  BY RecentGuesses
<1>2. QED
  BY <1>1, LastKeys DEF GuessInv

(* One more wrong key: the old ones that the Gateway drops are out of the window. *)
LEMMA GuessStep ==
    ASSUME now \in Nat, GuessInv, Len(Recent) < Limit, UNCHANGED now,
           failures' = Append(Recent, now), guesses' = Append(guesses, now)
    PROVE  GuessInv'
<1>1. PICK k \in Nat :
             /\ k <= Len(guesses)
             /\ Recent \in Seq(Nat) /\ Len(Recent) = Len(guesses) - k
             /\ \A i \in 1 .. Len(Recent) : Recent[i] = guesses[k + i]
             /\ \A i \in 1 .. Len(guesses) : now - guesses[i] < Window <=> i > k
  BY RecentGuesses
<1>2. /\ guesses \in Seq(Nat) /\ Len(guesses) \in Nat /\ Len(Recent) \in Nat
      /\ \A i \in 1 .. Len(guesses) : guesses[i] \in Nat /\ guesses[i] <= now
  BY <1>1 DEF GuessInv
<1>3. /\ guesses' \in Seq(Nat) /\ Len(guesses') = Len(guesses) + 1
      /\ \A i \in 1 .. Len(guesses) : guesses'[i] = guesses[i]
      /\ guesses'[Len(guesses) + 1] = now
  BY <1>2
<1>4. /\ failures' \in Seq(Nat) /\ Len(failures') = Len(Recent) + 1
      /\ \A i \in 1 .. Len(Recent) : failures'[i] = Recent[i]
      /\ failures'[Len(Recent) + 1] = now
  BY <1>1
<1>5. Ordered(guesses')
  <2>1. SUFFICES ASSUME NEW i \in 1 .. Len(guesses) + 1, NEW j \in 1 .. Len(guesses) + 1, i <= j
                 PROVE  guesses'[i] <= guesses'[j]
    BY <1>3 DEF Ordered
  <2>2. CASE j = Len(guesses) + 1
    BY <1>2, <1>3, <2>2
  <2>3. CASE j \in 1 .. Len(guesses)
    <3>1. i \in 1 .. Len(guesses)
      BY <1>2, <2>1, <2>3
    <3>2. QED
      BY <1>3, <2>1, <2>3, <3>1 DEF GuessInv, Ordered
  <2>4. QED
    BY <1>2, <2>2, <2>3
<1>6. \A i \in 1 .. Len(guesses') : guesses'[i] <= now
  BY <1>2, <1>3
<1>7. Len(guesses') - Len(failures') = k /\ Len(failures') <= Len(guesses')
  BY <1>1, <1>2, <1>3, <1>4
<1>8. ASSUME NEW i \in 1 .. Len(failures') PROVE failures'[i] = guesses'[k + i]
  <2>1. CASE i \in 1 .. Len(Recent)
    <3>1. k + i \in 1 .. Len(guesses)
      BY <1>1, <1>2, <2>1
    <3>2. QED
      BY <1>1, <1>3, <1>4, <2>1, <3>1
  <2>2. CASE i = Len(Recent) + 1
    <3>1. k + i = Len(guesses) + 1
      BY <1>1, <1>2, <2>2
    <3>2. QED
      BY <1>3, <1>4, <2>2, <3>1
  <2>3. i \in 1 .. Len(Recent) + 1
    BY <1>4
  <2>4. i \in 1 .. Len(Recent) \/ i = Len(Recent) + 1
    BY <1>2, <2>3
  <2>5. QED
    BY <2>1, <2>2, <2>4
<1>9. \A i \in 1 .. k : now - guesses'[i] >= Window
  <2>1. SUFFICES ASSUME NEW i \in 1 .. k PROVE now - guesses'[i] >= Window
    OBVIOUS
  <2>2. i \in 1 .. Len(guesses) /\ ~ (i > k)
    BY <1>1, <1>2
  <2>3. guesses'[i] = guesses[i] /\ guesses[i] \in Nat /\ ~ (now - guesses[i] < Window)
    BY <1>1, <1>2, <1>3, <2>2
  <2>4. QED
    BY <2>3, LimitAssumption
<1>10. Wrong(guesses', now) <= Limit
  <2>1. \A i \in 1 .. Len(guesses') : now - guesses'[i] < Window <=> i > k
    BY <1>1, <1>2, <1>3, LimitAssumption
  <2>2. guesses' \in Seq(Nat) /\ k <= Len(guesses')
    BY <1>1, <1>2, <1>3
  <2>3. Wrong(guesses', now) = Len(guesses') - k
    BY <1>6, <2>1, <2>2, LastKeys
  <2>4. QED
    BY <1>1, <1>2, <1>3, <2>3, LimitAssumption
<1>11. ASSUME NEW g \in 1 .. Len(guesses') PROVE Wrong(guesses', guesses'[g]) <= Limit
  <2>1. CASE guesses'[g] = now
    BY <1>10, <2>1
  <2>2. CASE guesses'[g] # now
    <3>1. g \in 1 .. Len(guesses) /\ guesses'[g] = guesses[g] /\ guesses[g] \in Nat /\ guesses[g] < now
      BY <1>2, <1>3, <2>2
    <3>2. DOMAIN guesses = 1 .. Len(guesses) /\ DOMAIN guesses' = 1 .. Len(guesses) + 1
      BY <1>2, <1>3
    <3>3. {i \in DOMAIN guesses' : guesses'[i] <= guesses[g] /\ guesses[g] - guesses'[i] < Window}
            = {i \in DOMAIN guesses : guesses[i] <= guesses[g] /\ guesses[g] - guesses[i] < Window}
      <4>1. \A i \in DOMAIN guesses' : i \notin DOMAIN guesses => guesses'[i] = now
        BY <1>2, <1>3, <3>2
      <4>2. \A i \in DOMAIN guesses : i \in DOMAIN guesses' /\ guesses'[i] = guesses[i]
        BY <1>2, <1>3, <3>2
      <4>3. ~ (now <= guesses[g])
        BY <3>1
      <4>4. QED
        BY ONLY <4>1, <4>2, <4>3, Zenon
    <3>4. Wrong(guesses', guesses'[g]) = Wrong(guesses, guesses[g])
      BY <3>1, <3>3 DEF Wrong
    <3>5. QED
      BY <3>1, <3>4 DEF GuessInv
  <2>3. QED
    BY <2>1, <2>2
<1>12. QED
  BY <1>3, <1>4, <1>5, <1>6, <1>7, <1>8, <1>9, <1>11 DEF GuessInv

-----------------------------------------------------------------------------
(* The limiter. *)

(* Only a reply can have been refused for the number of wrong keys. *)
RefusalInv == \A r \in Request : req[r].outcome = "limited" => req[r].at = "replied"

Refused == {r \in Request : req[r].outcome = "limited"}

(* What a step can do to the failed logins. *)
KeyFoundWrong ==
    /\ Len(Recent) < Limit
    /\ failures' = Append(Recent, now) /\ guesses' = Append(guesses, now)
    /\ UNCHANGED <<now, restarts, Refused>>

KeyFoundRight ==
    /\ Len(Recent) < Limit
    /\ failures' = << >> /\ guesses' = << >>
    /\ UNCHANGED <<now, restarts, Refused>>

LoginRefused ==
    /\ Len(Recent) >= Limit
    /\ \E r \in Request : Refused' = Refused \cup {r}
    /\ UNCHANGED <<now, restarts, failures, guesses>>

RefusalOver ==
    /\ \E r \in Refused : Refused' = Refused \ {r}
    /\ UNCHANGED <<now, restarts, failures, guesses>>

AllForgotten ==
    /\ failures' = << >> /\ guesses' = << >>
    /\ restarts' = restarts + 1
    /\ UNCHANGED <<now, Refused>>

TimePasses ==
    /\ now' = now + 1
    /\ UNCHANGED <<restarts, failures, guesses, Refused>>

Apart == UNCHANGED <<now, restarts, failures, guesses, Refused>>

LimitStep ==
    \/ KeyFoundWrong \/ KeyFoundRight \/ LoginRefused \/ RefusalOver
    \/ AllForgotten \/ TimePasses \/ Apart

(* A request whose entry changes: what that makes of the refusals. *)
LEMMA RefusedBy ==
    ASSUME Types, NEW r \in Request, NEW e, req' = [req EXCEPT ![r] = e]
    PROVE  /\ \A q \in Request \ {r} : req'[q] = req[q]
           /\ req'[r] = e
           /\ e.outcome = "limited" => Refused' = Refused \cup {r}
           /\ e.outcome # "limited" => Refused' = Refused \ {r}
<1>1. /\ \A q \in Request \ {r} : req'[q] = req[q]
      /\ req'[r] = e
  BY DEF Types
<1>2. QED
  BY <1>1 DEF Refused

(* A request that is answered was not refused before. *)
LEMMA RefusedByReply ==
    ASSUME Types, RefusalInv, NEW r \in Request, NEW outcome \in Outcome, NEW cookie,
           req[r].at # "replied", Replied(r, outcome, cookie)
    PROVE  /\ RefusalInv'
           /\ outcome = "limited" => Refused' = Refused \cup {r}
           /\ outcome # "limited" => Refused' = Refused
<1>1. PICK p \in Exchange : p = req[r]
  BY DEF Types
<1>2. PICK e : e = [p EXCEPT !.at = "replied", !.outcome = outcome, !.cookie = cookie]
  OBVIOUS
<1>3. e.outcome = outcome /\ e.at = "replied"
  BY <1>2 DEF Exchange
<1>4. req' = [req EXCEPT ![r] = e]
  BY <1>1, <1>2 DEF Replied, Types
<1> HIDE <1>2
<1>5. /\ \A q \in Request \ {r} : req'[q] = req[q]
      /\ req'[r] = e
      /\ e.outcome = "limited" => Refused' = Refused \cup {r}
      /\ e.outcome # "limited" => Refused' = Refused \ {r}
  BY <1>4, RefusedBy
<1>6. r \notin Refused
  BY DEF RefusalInv, Refused
<1>7. QED
  BY <1>3, <1>5, <1>6 DEF RefusalInv

LEMMA LoginLimitStep ==
    ASSUME Types, RefusalInv, NEW r \in Request, LoginArrives(r)
    PROVE  LimitStep /\ RefusalInv'
<1>1. req[r].at # "replied" /\ UNCHANGED <<now, restarts>>
  BY DEF LoginArrives
<1>2. CASE Replied(r, "refused", NoSid) /\ UNCHANGED <<gateway, guesses>>
  <2>1. RefusalInv' /\ Refused' = Refused
    BY <1>1, <1>2, RefusedByReply DEF Outcome
  <2>2. QED
    BY <1>1, <1>2, <2>1 DEF LimitStep, Apart, gateway
<1>3. CASE Len(Recent) >= Limit /\ Replied(r, "limited", NoSid) /\ UNCHANGED <<gateway, guesses>>
  <2>1. RefusalInv' /\ Refused' = Refused \cup {r}
    BY <1>1, <1>3, RefusedByReply DEF Outcome
  <2>2. LoginRefused
    BY <1>1, <1>3, <2>1 DEF LoginRefused, gateway
  <2>3. QED
    BY <2>1, <2>2 DEF LimitStep
<1>4. CASE /\ Len(Recent) < Limit /\ Replied(r, "refused", NoSid)
           /\ failures' = Append(Recent, now) /\ guesses' = Append(guesses, now)
  <2>1. RefusalInv' /\ Refused' = Refused
    BY <1>1, <1>4, RefusedByReply DEF Outcome
  <2>2. KeyFoundWrong
    BY <1>1, <1>4, <2>1 DEF KeyFoundWrong
  <2>3. QED
    BY <2>1, <2>2 DEF LimitStep
<1>5. CASE /\ Len(Recent) < Limit /\ Replied(r, "active", issued')
           /\ failures' = << >> /\ guesses' = << >>
  <2>1. RefusalInv' /\ Refused' = Refused
    BY <1>1, <1>5, RefusedByReply DEF Outcome
  <2>2. KeyFoundRight
    BY <1>1, <1>5, <2>1 DEF KeyFoundRight
  <2>3. QED
    BY <2>1, <2>2 DEF LimitStep
<1>6. QED
  BY <1>2, <1>3, <1>4, <1>5 DEF LoginArrives

(* The other answers, and the relay. *)
LEMMA RelayLimitStep ==
    ASSUME Types, RefusalInv, NEW r \in Request,
           LogoutArrives(r) \/ RelayArrives(r) \/ Relay(r) \/ RelayEnds(r)
    PROVE  LimitStep /\ RefusalInv'
<1>1. req[r].at # "replied" /\ UNCHANGED <<now, restarts, failures, guesses>>
  BY DEF LogoutArrives, RelayArrives, Relay, RelayEnds, gateway, history
<1>2. CASE \E outcome \in {"logged_out", "refused", "unauthorized", "done"} : Replied(r, outcome, NoSid)
  <2>1. RefusalInv' /\ Refused' = Refused
    BY <1>1, <1>2, RefusedByReply DEF Outcome
  <2>2. QED
    BY <1>1, <2>1 DEF LimitStep, Apart
<1>3. CASE \E at \in {"waiting", "relayed"} : req' = [req EXCEPT ![r].at = at]
  <2>1. PICK at \in {"waiting", "relayed"} : req' = [req EXCEPT ![r].at = at]
    BY <1>3
  <2>2. PICK p \in Exchange : p = req[r]
    BY DEF Types
  <2>3. PICK e : e = [p EXCEPT !.at = at]
    OBVIOUS
  <2>4. e.outcome = p.outcome
    BY <2>3 DEF Exchange
  <2>5. req' = [req EXCEPT ![r] = e]
    BY <2>1, <2>2, <2>3 DEF Types
  <2> HIDE <2>3
  <2>6. p.outcome # "limited" /\ r \notin Refused
    BY <1>1, <2>2 DEF RefusalInv, Refused
  <2>7. /\ \A q \in Request \ {r} : req'[q] = req[q]
        /\ req'[r] = e
        /\ e.outcome # "limited" => Refused' = Refused \ {r}
    BY <2>5, RefusedBy
  <2>8. RefusalInv' /\ Refused' = Refused
    BY <2>4, <2>6, <2>7 DEF RefusalInv
  <2>9. QED
    BY <1>1, <2>8 DEF LimitStep, Apart
<1>4. QED
  BY <1>2, <1>3 DEF LogoutArrives, RelayArrives, Relay, RelayEnds

(* A request that is over or has been sent has no outcome. *)
LEMMA BrowserLimitStep ==
    ASSUME Types, RefusalInv, NEW r \in Request,
           \/ Deliver(r) \/ RequestFails(r)
           \/ \E kind \in Kind : Send(r, kind)
    PROVE  LimitStep /\ RefusalInv'
<1>1. UNCHANGED <<now, restarts, failures, guesses>>
  BY DEF Deliver, RequestFails, Send, gateway, history
<1>2. PICK e : e.outcome = "none" /\ req' = [req EXCEPT ![r] = e]
  <2>1. CASE Deliver(r) \/ RequestFails(r)
    BY <2>1, Sentinels DEF Deliver, RequestFails
  <2>2. ASSUME NEW kind \in Kind, Send(r, kind)
        PROVE  \E e : e.outcome = "none" /\ req' = [req EXCEPT ![r] = e]
    <3>1. PICK e : e = [Unsent EXCEPT !.kind = kind, !.at = "sent", !.sid = jar, !.token = page]
      OBVIOUS
    <3>2. req' = [req EXCEPT ![r] = e]
      BY <2>2, <3>1 DEF Send
    <3>3. e.outcome = "none"
      BY <3>1 DEF Unsent
    <3>4. QED
      BY <3>2, <3>3
  <2>3. QED
    BY <2>1, <2>2
<1>3. /\ \A q \in Request \ {r} : req'[q] = req[q]
      /\ req'[r] = e /\ Refused' = Refused \ {r}
  BY <1>2, RefusedBy
<1>4. RefusalInv'
  BY <1>2, <1>3 DEF RefusalInv
<1>5. CASE r \in Refused
  <2>1. RefusalOver
    BY <1>1, <1>3, <1>5 DEF RefusalOver
  <2>2. QED
    BY <1>4, <2>1 DEF LimitStep
<1>6. CASE r \notin Refused
  <2>1. Refused' = Refused
    BY <1>3, <1>6
  <2>2. QED
    BY <1>1, <1>4, <2>1 DEF LimitStep, Apart
<1>7. QED
  BY <1>5, <1>6

(* Every step is one of them. *)
LEMMA LimitShapes == Types /\ RefusalInv /\ [Next]_vars => LimitStep /\ RefusalInv'
<1> SUFFICES ASSUME Types, RefusalInv, [Next]_vars PROVE LimitStep /\ RefusalInv'
  OBVIOUS
<1>1. ASSUME UNCHANGED req PROVE RefusalInv' /\ Refused' = Refused
  BY <1>1 DEF RefusalInv, Refused
<1>2. CASE PollSent \/ PollArrives \/ PollDelivered \/ PollFails \/ UNCHANGED vars
  <2>1. UNCHANGED <<req, now, restarts, failures, guesses>>
    BY <1>2
       DEF PollSent, PollArrives, PollDelivered, PollFails, vars, gateway, requests, history
  <2>2. QED
    BY <1>1, <2>1 DEF LimitStep, Apart
<1>3. ASSUME NEW r \in Request,
             \/ LoginArrives(r) \/ LogoutArrives(r)
             \/ RelayArrives(r) \/ Relay(r) \/ RelayEnds(r)
             \/ Deliver(r) \/ RequestFails(r)
             \/ \E kind \in Kind : Send(r, kind)
      PROVE  LimitStep /\ RefusalInv'
  BY <1>3, LoginLimitStep, RelayLimitStep, BrowserLimitStep
<1>4. CASE Restart
  <2>1. \A o \in Request : /\ req'[o].outcome = req[o].outcome
                           /\ req[o].at = "replied" => req'[o].at = "replied"
    <3>1. \A p \in Exchange : [p EXCEPT !.at = "broken"].outcome = p.outcome
      BY DEF Exchange
    <3>2. \A o \in Request : req[o] \in Exchange
      BY DEF Types
    <3>3. QED
      BY <1>4, <3>1, <3>2 DEF Restart
  <2>2. RefusalInv' /\ Refused' = Refused
    BY <2>1 DEF RefusalInv, Refused
  <2>3. AllForgotten
    BY <1>4, <2>2 DEF AllForgotten, Restart
  <2>4. QED
    BY <2>2, <2>3 DEF LimitStep
<1>5. CASE Tick
  <2>1. UNCHANGED <<req, restarts, failures, guesses>> /\ now' = now + 1
    BY <1>5 DEF Tick, gateway, requests, history
  <2>2. RefusalInv' /\ TimePasses
    BY <1>1, <2>1 DEF TimePasses
  <2>3. QED
    BY <2>2 DEF LimitStep
<1>6. QED
  BY <1>2, <1>3, <1>4, <1>5 DEF Next, Kind

LEMMA NextGuessInv == Types /\ GuessInv /\ LimitStep => GuessInv'
<1> SUFFICES ASSUME Types, GuessInv, LimitStep PROVE GuessInv'
  OBVIOUS
<1>1. ASSUME UNCHANGED <<guesses, failures>>, now' \in Nat, now' >= now PROVE GuessInv'
  <2>1. now \in Nat /\ guesses' = guesses /\ failures' = failures
    BY <1>1 DEF Types
  <2>2. \A i \in 1 .. Len(guesses) : guesses[i] \in Nat
    BY DEF GuessInv
  <2>3. /\ \A i \in 1 .. Len(guesses) : guesses[i] <= now'
        /\ Len(failures) \in Nat /\ Len(guesses) \in Nat /\ Len(failures) <= Len(guesses)
    BY <1>1, <2>1, <2>2 DEF GuessInv
  <2>4. \A i \in 1 .. Len(guesses) - Len(failures) : now' - guesses[i] >= Window
    <3>1. SUFFICES ASSUME NEW i \in 1 .. Len(guesses) - Len(failures)
                   PROVE  now' - guesses[i] >= Window
      OBVIOUS
    <3>2. i \in 1 .. Len(guesses) /\ now - guesses[i] >= Window
      BY <2>3 DEF GuessInv
    <3>3. QED
      BY <1>1, <2>1, <2>2, <3>2, LimitAssumption
  <2>5. \A g \in 1 .. Len(guesses) :
            Wrong(guesses', guesses'[g]) = Wrong(guesses, guesses[g])
    BY <2>1 DEF Wrong
  <2>6. QED
    BY <2>1, <2>3, <2>4, <2>5 DEF GuessInv, Ordered
<1>2. ASSUME failures' = << >>, guesses' = << >> PROVE GuessInv'
  <2>1. Len(failures') = 0 /\ Len(guesses') = 0
    BY <1>2
  <2>2. QED
    BY <1>2, <2>1 DEF GuessInv, Ordered
<1>3. CASE KeyFoundWrong
  BY <1>3, GuessStep DEF KeyFoundWrong, Types
<1>4. CASE KeyFoundRight \/ AllForgotten
  BY <1>2, <1>4 DEF KeyFoundRight, AllForgotten
<1>5. CASE LoginRefused \/ RefusalOver \/ TimePasses \/ Apart
  BY <1>1, <1>5 DEF LoginRefused, RefusalOver, TimePasses, Apart, Types
<1>6. QED
  BY <1>3, <1>4, <1>5 DEF LimitStep

(* Under the mapping, the limiter counts the history. *)
LEMMA LimiterCounts == ASSUME NEW end PROVE Limiter!WrongKeys(end) = Wrong(guesses, end)
<1>1. \A S : Limiter!Cardinality(S) = Cardinality(S)
  BY DEF Limiter!Cardinality, Cardinality
<1>2. Limiter!WrongKeys(end) =
        Limiter!Cardinality({i \in DOMAIN guesses :
                                guesses[i] <= end /\ end - guesses[i] < Window})
  BY DEF Limiter!WrongKeys
<1>3. QED
  BY <1>1, <1>2 DEF Wrong

(* Under the mapping, each step is one of the limiter. *)
LEMMA LimitStepImplements ==
    ASSUME Types, GuessInv, LimitStep
    PROVE  [Limiter!Next]_Limiter!vars
<1>1. Limiter!WrongKeys(now) = Len(Recent)
  BY LimiterCounts, RecentCounts DEF Types
<1>2. Refused = {r \in Request : req[r].outcome = "limited"}
  BY DEF Refused
<1>3. CASE KeyFoundWrong
  BY <1>1, <1>2, <1>3 DEF KeyFoundWrong, Refused, Limiter!WrongKey, Limiter!Next
<1>4. CASE KeyFoundRight
  BY <1>1, <1>2, <1>4 DEF KeyFoundRight, Refused, Limiter!RightKey, Limiter!Next
<1>5. CASE LoginRefused
  BY <1>1, <1>2, <1>5 DEF LoginRefused, Refused, Limiter!Refuse, Limiter!Next
<1>6. CASE RefusalOver
  BY <1>1, <1>2, <1>6 DEF RefusalOver, Refused, Limiter!Over, Limiter!Next
<1>7. CASE AllForgotten
  BY <1>2, <1>7 DEF AllForgotten, Refused, Limiter!Restart, Limiter!Next
<1>8. CASE TimePasses
  BY <1>2, <1>8 DEF TimePasses, Refused, Limiter!Tick, Limiter!Next
<1>9. CASE Apart
  BY <1>2, <1>9 DEF Apart, Refused, Limiter!vars
<1>10. QED
  BY <1>3, <1>4, <1>5, <1>6, <1>7, <1>8, <1>9 DEF LimitStep

-----------------------------------------------------------------------------
(* What the Gateway keeps of the failed logins is the end of what happened, and
   what it has dropped is out of the window (login). *)
THEOREM GuessInvariance == Spec => [](GuessInv /\ RefusalInv)
<1>1. Init => GuessInv
  BY DEF Init, GuessInv, Ordered
<1>2. Init => RefusalInv
  BY Sentinels DEF Init, RefusalInv
<1>3. Inv => Types
  BY DEF Inv
<1>4. Types /\ GuessInv /\ RefusalInv /\ [Next]_vars => GuessInv' /\ RefusalInv'
  BY LimitShapes, NextGuessInv
<1>5. QED
  BY <1>1, <1>2, <1>3, <1>4, Invariance, PTL DEF Spec

(* In no window are more than Limit keys tried and found wrong by one process
   without a success between them, however many logins are under way together and
   whatever was dropped of the failures when each was looked at.  (login) *)
GuessesAreLimited ==
    \A g \in DOMAIN guesses : Limiter!WrongKeys(guesses[g]) <= Limit

(* The limit bounds the wrong keys of every window (login): a consequence of what is
   kept of them, also for logins that are under way together. *)
THEOREM GuessesStayLimited == Spec => []GuessesAreLimited
<1>1. ASSUME GuessInv PROVE GuessesAreLimited
  <2>1. DOMAIN guesses = 1 .. Len(guesses)
    BY <1>1 DEF GuessInv
  <2>2. \A g \in 1 .. Len(guesses) : Wrong(guesses, guesses[g]) <= Limit
    BY <1>1 DEF GuessInv
  <2>3. QED
    BY <2>1, <2>2, LimiterCounts DEF GuessesAreLimited
<1>2. QED
  BY <1>1, GuessInvariance, PTL

(* The Gateway, which drops the failures that are out of the window, decides as
   the limiter that drops nothing: whether a key is looked at, and whether a login
   is refused for the number of wrong keys (login). *)
THEOREM LimitImplemented == Spec => ImplementsLimit
<1>1. Init => Limiter!Init
  BY Sentinels DEF Init, Limiter!Init
<1>2. Inv => Types
  BY DEF Inv
<1>3. Types /\ GuessInv /\ RefusalInv /\ [Next]_vars => [Limiter!Next]_Limiter!vars
  BY LimitShapes, LimitStepImplements
<1>4. QED
  BY <1>1, <1>2, <1>3, Invariance, GuessInvariance, PTL
     DEF Spec, ImplementsLimit, Limiter!Spec

=============================================================================
