----------------------- MODULE ExecutiveSessionProofs -----------------------
(***************************************************************************)
(* The safety properties of ExecutiveSession, for any number of requests,  *)
(* any lifetimes and any clock.                                            *)
(***************************************************************************)
EXTENDS ExecutiveSession, TLAPS

(* Session s is over at the Runtime, for good. *)
Over(s) ==
    \/ runtime[s] = "revoked"
    \/ runtime[s] = "active" /\ claims[s].exp <= now

(* A session has a record at the Runtime only after its minting call was served,
   and a local revocation lasts exactly as long as the cookie. *)
SessionInv ==
    \A s \in Request :
        /\ s \in issued => /\ request[s].op = "login"
                           /\ request[s].phase \notin {"unsent", "sent", "waiting"}
        /\ runtime[s] # "absent" => s \in issued /\ s \notin calls
        /\ revoked[s] # 0 => s \in issued /\ revoked[s] = claims[s].exp

(* Session s was set as a cookie by the login request that minted it, whose reply
   has been delivered. *)
Delivered(s) ==
    /\ s \in Request
    /\ request[s].op = "login"
    /\ request[s].phase = "delivered"
    /\ request[s].cookie = "set"
    /\ s \in issued
    /\ runtime[s] # "absent"

(* The session of a request: none for a login until it mints its own; the cookie
   that was in the jar for the others. *)
RequestInv(r) ==
    LET q == request[r] IN
    /\ q.op # "login" /\ q.sid # NoSid => Delivered(q.sid)
    /\ q.op = "login" /\ q.phase \in {"calling", "answered"} => q.sid = r /\ r \in issued
    /\ q.op = "login" /\ q.phase = "answered" /\ q.result = "active"
          => runtime[r] # "absent"
    /\ q.cookie = "set" => /\ q.op = "login" /\ q.sid = r
                           /\ r \in issued /\ runtime[r] # "absent"
    /\ q.cookie = "clear" => q.op # "login" /\ q.sid # NoSid
    /\ q.cookie # "keep" => q.phase \in {"replied", "delivered"}

(* A call still in the network carries an assertion that dies with its session,
   and with the freshness of the authentication it was minted on. *)
CallInv(r) ==
    LET q == request[r] IN
    r \in calls =>
        /\ q.phase \notin {"unsent", "sent", "waiting"}
        /\ q.sid \in issued
        /\ q.deadline <= claims[q.sid].exp
        /\ q.op = "login" => /\ q.sid = r
                             /\ q.deadline <= claims[r].iat + AssertionTtl
                             /\ claims[r].iat <= claims[r].authn + AuthnMaxAge

(* A request sent on a session that was over is on the way to a refusal. *)
DoomedInv(r) ==
    LET q == request[r] IN
    r \in doomed =>
        /\ q.op # "login"
        /\ q.sid \in Request
        /\ Over(q.sid)
        /\ q.phase # "unsent"
        /\ q.phase = "answered" /\ q.op \in {"status", "execute"} => q.result # "active"
        /\ q.phase \in {"replied", "delivered"} => q.result # "granted"

(* The cookie the browser holds. *)
JarInv ==
    /\ jar # NoSid => Delivered(jar)
    /\ SignedOutStaysOut

Inv ==
    /\ TypeOK
    /\ SessionInv
    /\ \A r \in Request : RequestInv(r) /\ CallInv(r) /\ DoomedInv(r)
    /\ JarInv

-----------------------------------------------------------------------------
(* The records the actions put in place of a request. *)
LEMMA RequestFields ==
    ASSUME TypeOK, NEW r \in Request
    PROVE  /\ request[r] \in RequestState
           /\ request[r].op \in Op /\ request[r].phase \in Phase
           /\ request[r].sid \in Request \cup {NoSid}
           /\ request[r].csrf \in Request \cup {NoSid}
           /\ request[r].authn \in Nat /\ request[r].deadline \in Nat
           /\ request[r].result \in Answer \cup Outcome \cup {"pending"}
           /\ request[r].cookie \in {"keep", "set", "clear"}
  BY DEF TypeOK, RequestState

(* A handler that replies. *)
LEMMA RepliedFields ==
    ASSUME TypeOK, NEW r \in Request, NEW outcome \in Outcome,
           NEW setCookie \in {"keep", "set", "clear"}
    PROVE  LET q == Replied(r, outcome, setCookie) IN
           /\ q \in RequestState
           /\ q.op = request[r].op /\ q.phase = "replied" /\ q.sid = request[r].sid
           /\ q.deadline = request[r].deadline
           /\ q.result = outcome /\ q.cookie = setCookie
  BY RequestFields DEF Replied, RequestState, Phase

(* A handler whose Runtime call has ended. *)
LEMMA AnsweredFields ==
    ASSUME TypeOK, NEW r \in Request, NEW answer \in Answer
    PROVE  LET q == Answered(r, answer) IN
           /\ q \in RequestState
           /\ q.op = request[r].op /\ q.phase = "answered" /\ q.sid = request[r].sid
           /\ q.deadline = request[r].deadline
           /\ q.result = answer /\ q.cookie = request[r].cookie
  BY RequestFields DEF Answered, RequestState, Phase

(* A handler that calls the Runtime for session s. *)
LEMMA CallingFields ==
    ASSUME TypeOK, NEW r \in Request, NEW s \in Request, NEW exp \in Nat
    PROVE  LET q == Calling(r, s, exp) IN
           /\ q \in RequestState
           /\ q.op = request[r].op /\ q.phase = "calling" /\ q.sid = s
           /\ q.deadline <= exp /\ q.deadline <= now + AssertionTtl
           /\ q.result = request[r].result /\ q.cookie = request[r].cookie
<1>1. AssertionDeadline(exp) \in Nat
      /\ AssertionDeadline(exp) <= exp /\ AssertionDeadline(exp) <= now + AssertionTtl
  BY LifetimeAssumption DEF AssertionDeadline, TypeOK
<1>2. QED
  BY <1>1, RequestFields DEF Calling, RequestState, Phase

(* A request the browser sends. *)
LEMMA SentFields ==
    ASSUME TypeOK, NEW op \in Op
    PROVE  /\ Sent(op) \in RequestState
           /\ Sent(op).op = op /\ Sent(op).phase = "sent"
           /\ Sent(op).sid = IF op = "login" THEN NoSid ELSE jar
           /\ Sent(op).result = "pending" /\ Sent(op).cookie = "keep"
  BY DEF Sent, RequestState, Phase, TypeOK

(* A handler that only moves to another phase. *)
LEMMA PhaseFields ==
    ASSUME TypeOK, NEW r \in Request, NEW phase \in Phase
    PROVE  LET q == [request[r] EXCEPT !.phase = phase] IN
           /\ q \in RequestState
           /\ q.op = request[r].op /\ q.phase = phase /\ q.sid = request[r].sid
           /\ q.deadline = request[r].deadline
           /\ q.result = request[r].result /\ q.cookie = request[r].cookie
  BY RequestFields DEF RequestState

-----------------------------------------------------------------------------
(* The steps of the handlers, by what they have in common. *)

(* A handler passes its checks and waits for a body, the provider or admission. *)
Waits(r) ==
    /\ request[r].phase = "sent"
    /\ request[r].op # "login" => request[r].sid \in issued
    /\ request' = [request EXCEPT ![r] = [request[r] EXCEPT !.phase = "waiting"]]
    /\ UNCHANGED <<now, gateway, runtime, calls, browser, doomed>>

(* A handler calls the Runtime with an assertion for the session of its request. *)
Starts(r) ==
    /\ request[r].phase \in {"sent", "waiting"}
    /\ request[r].op # "login"
    /\ request[r].sid \in issued
    /\ request' = [request EXCEPT ![r] =
          Calling(r, request[r].sid, claims[request[r].sid].exp)]
    /\ calls' = calls \cup {r}
    /\ UNCHANGED <<now, gateway, runtime, browser, doomed>>

(* A handler goes on without an answer of the Runtime. *)
Fails(r) ==
    /\ \/ request[r].phase = "calling"
       \/ request[r].phase = "waiting" /\ request[r].op # "login"
    /\ request' = [request EXCEPT ![r] = Answered(r, "failed")]
    /\ UNCHANGED <<now, gateway, runtime, calls, browser, doomed>>

(* A handler ends, and may revoke the session of its request. *)
Replies(r, outcome, setCookie) ==
    /\ request[r].phase \in {"sent", "waiting", "answered"}
    /\ request' = [request EXCEPT ![r] = Replied(r, outcome, setCookie)]
    /\ setCookie = "set" => /\ request[r].op = "login" /\ request[r].phase = "answered"
                            /\ request[r].result = "active"
    /\ setCookie = "clear" => request[r].op # "login" /\ request[r].sid # NoSid
    /\ outcome = "granted" => /\ request[r].op \in {"login", "status", "execute"}
                              /\ request[r].phase = "answered"
                              /\ request[r].result = "active"
    /\ \/ revoked' = revoked
       \/ /\ request[r].op # "login" /\ request[r].sid \in Request
          /\ RevokeLocally(request[r].sid)
    /\ UNCHANGED <<now, registration, issued, claims, runtime, calls, browser, doomed>>

Cookie == {"keep", "set", "clear"}

(* Every step is one of these. *)
LEMMA Shapes ==
    ASSUME TypeOK, Next
    PROVE  \/ \E r \in Request :
                 \/ \E op \in Op : Send(r, op)
                 \/ Waits(r) \/ IssueSession(r) \/ Starts(r) \/ Fails(r)
                 \/ RuntimeServes(r) \/ Deliver(r)
                 \/ \E outcome \in Outcome, setCookie \in Cookie :
                       Replies(r, outcome, setCookie)
           \/ ProviderSignIn \/ Restart \/ Tick
<1> DEFINE Ends(r) == \E outcome \in Outcome, setCookie \in Cookie :
                         Replies(r, outcome, setCookie)
<1>0. ASSUME NEW s, Authenticates(s) \/ ActiveClaims(s) PROVE s \in issued /\ s \in Request
  BY <1>0 DEF Authenticates, ActiveClaims, TypeOK
<1>1. ASSUME NEW r \in Request, Receive(r) PROVE Waits(r) \/ Starts(r) \/ Ends(r)
  <2>1. CASE ReceiveLogin(r)
    BY <2>1 DEF ReceiveLogin, Waits
  <2>2. CASE ReceiveStatus(r)
    <3>1. CASE ~ Authenticates(request[r].sid)
      <4>1. PICK c \in {"keep", "clear"} :
               /\ request' = [request EXCEPT ![r] = Replied(r, "none", c)]
               /\ c = "clear" => request[r].sid # NoSid
        BY <2>2, <3>1 DEF ReceiveStatus
      <4>2. Replies(r, "none", c)
        BY <2>2, <3>1, <4>1 DEF ReceiveStatus, Replies, gateway
      <4>3. QED
        BY <4>2 DEF Outcome, Cookie
    <3>2. CASE Authenticates(request[r].sid)
      BY <1>0, <2>2, <3>2 DEF ReceiveStatus, Starts
    <3>3. QED
      BY <3>1, <3>2
  <2>3. CASE ReceiveRevoke(r)
    <3>1. Waits(r) \/ Replies(r, "refused", "keep")
      BY <1>0, <2>3 DEF ReceiveRevoke, Waits, Replies, gateway
    <3>2. QED
      BY <3>1 DEF Outcome, Cookie
  <2>4. CASE ReceiveExecute(r)
    <3>1. Waits(r) \/ Replies(r, "refused", "keep")
      BY <1>0, <2>4 DEF ReceiveExecute, Waits, Replies, gateway
    <3>2. QED
      BY <3>1 DEF Outcome, Cookie
  <2>5. CASE ReceiveSignOut(r)
    <3>1. \E outcome \in {"refused", "signedout", "unavailable"} :
             Replies(r, outcome, "keep")
      BY <2>5 DEF ReceiveSignOut, Replies, gateway
    <3>2. QED
      BY <3>1 DEF Outcome, Cookie
  <2>6. QED
    BY <1>1, <2>1, <2>2, <2>3, <2>4, <2>5 DEF Receive
<1>2. ASSUME NEW r \in Request, Resume(r)
      PROVE  IssueSession(r) \/ Starts(r) \/ Fails(r) \/ Ends(r)
  <2>1. CASE RefuseLogin(r)
    <3>1. Replies(r, "refused", "keep")
      BY <2>1 DEF RefuseLogin, Replies, gateway
    <3>2. QED
      BY <3>1 DEF Outcome, Cookie
  <2>2. CASE AbortExecute(r)
    <3>1. Replies(r, "unavailable", "keep")
      BY <2>2 DEF AbortExecute, Replies, gateway
    <3>2. QED
      BY <3>1 DEF Outcome, Cookie
  <2>3. CASE CallRevoke(r)
    BY <1>0, <2>3 DEF CallRevoke, Starts
  <2>4. CASE CallExecute(r)
    BY <1>0, <2>4 DEF CallExecute, Starts
  <2>5. CASE AbortRevoke(r)
    BY <2>5 DEF AbortRevoke, Fails
  <2>6. QED
    BY <1>2, <2>1, <2>2, <2>3, <2>4, <2>5 DEF Resume
<1>3. ASSUME NEW r \in Request, CallFails(r) PROVE Fails(r)
  BY <1>3 DEF CallFails, Fails
<1>4. ASSUME NEW r \in Request, Reply(r) PROVE Ends(r)
  <2>0. request[r].phase = "answered" => request[r].sid \in Request
    BY DEF TypeOK
  <2>1. CASE ReplyLogin(r)
    <3>1. \/ Replies(r, "granted", "set")
          \/ Replies(r, "unavailable", "keep")
          \/ Replies(r, "refused", "keep")
      BY <2>1 DEF ReplyLogin, Replies, gateway
    <3>2. QED
      BY <3>1 DEF Outcome, Cookie
  <2>2. CASE ReplyStatus(r)
    <3>1. \/ Replies(r, "granted", "keep")
          \/ Replies(r, "refused", "clear")
          \/ Replies(r, "unavailable", "keep")
      BY <2>0, <2>2, NoSidAssumption DEF ReplyStatus, Replies
    <3>2. QED
      BY <3>1 DEF Outcome, Cookie
  <2>3. CASE ReplyRevoke(r)
    <3>1. \/ Replies(r, "ended", "clear")
          \/ Replies(r, "unavailable", "clear")
      BY <2>0, <2>3, NoSidAssumption DEF ReplyRevoke, Replies
    <3>2. QED
      BY <3>1 DEF Outcome, Cookie
  <2>4. CASE ReplyExecute(r)
    <3>1. \/ Replies(r, "granted", "keep")
          \/ Replies(r, "unavailable", "keep")
      BY <2>4 DEF ReplyExecute, Replies, gateway
    <3>2. QED
      BY <3>1 DEF Outcome, Cookie
  <2>5. QED
    BY <1>4, <2>1, <2>2, <2>3, <2>4 DEF Reply
<1>5. QED
  BY <1>1, <1>2, <1>3, <1>4 DEF Next

-----------------------------------------------------------------------------
(* The session of a request that is past its cookie check, or that has a call in
   the network, is a minted one. *)
LEMMA SessionOfRequest ==
    ASSUME Inv, NEW r \in Request
    PROVE  /\ r \in calls => request[r].sid \in issued /\ request[r].sid \in Request
           /\ request[r].op # "login" /\ request[r].sid # NoSid => Delivered(request[r].sid)
           /\ r \in issued => /\ request[r].op = "login"
                             /\ request[r].phase \notin {"unsent", "sent", "waiting"}
  BY DEF Inv, TypeOK, CallInv, RequestInv, SessionInv

(* Minting: the session is new, and so is everything said of it. *)
LEMMA MintedIsNew ==
    ASSUME Inv, NEW r \in Request, request[r].op # "login" \/
                                   request[r].phase \in {"unsent", "sent", "waiting"}
    PROVE  r \notin issued /\ runtime[r] = "absent" /\ revoked[r] = 0
  BY DEF Inv, SessionInv

(* What the Runtime answers: never that a session is active when it is over, and
   that a minting is verified only once it has recorded it. *)
LEMMA RuntimeAnswer ==
    ASSUME Inv, NEW r \in Request, RuntimeServes(r)
    PROVE  \/ request' = request
           \/ \E answer \in Answer :
                 /\ request[r].phase = "calling"
                 /\ request' = [request EXCEPT ![r] = Answered(r, answer)]
                 /\ request[r].op = "login" /\ answer = "active"
                       => runtime'[request[r].sid] # "absent"
                 /\ request[r].op \in {"status", "execute"} /\ Over(request[r].sid)
                       => answer # "active"
<1> DEFINE s == request[r].sid
<1>0. TypeOK /\ s \in Request
  BY SessionOfRequest DEF Inv, RuntimeServes
<1>1. RuntimeState(s) \in Answer /\ (Over(s) => RuntimeState(s) # "active")
  BY <1>0 DEF RuntimeState, TypeOK, Answer, Over
<1>2. QED
  BY <1>0, <1>1 DEF RuntimeServes, TypeOK, Answer

(* What a step of the Runtime changes of the requests. *)
LEMMA ServedFields ==
    ASSUME Inv, NEW r \in Request, RuntimeServes(r), NEW p \in Request
    PROVE  \/ request'[p] = request[p]
           \/ /\ p = r
              /\ request'[p].op = request[p].op /\ request'[p].sid = request[p].sid
              /\ request'[p].phase = "answered" /\ request[p].phase = "calling"
<1>0. TypeOK
  BY DEF Inv
<1>1. CASE request' = request
  BY <1>1
<1>2. ASSUME NEW answer \in Answer, request[r].phase = "calling",
             request' = [request EXCEPT ![r] = Answered(r, answer)]
      PROVE  \/ request'[p] = request[p]
             \/ /\ p = r
                /\ request'[p].op = request[p].op /\ request'[p].sid = request[p].sid
                /\ request'[p].phase = "answered" /\ request[p].phase = "calling"
  BY <1>0, <1>2, AnsweredFields DEF TypeOK
<1>3. QED
  BY <1>1, <1>2, RuntimeAnswer

(* Every step preserves the types. *)
LEMMA TypeStep ==
    ASSUME Inv, Next
    PROVE  TypeOK'
<1>0. TypeOK
  BY DEF Inv
<1> USE DEF gateway, browser
<1>1. ASSUME NEW r \in Request, NEW op \in Op, Send(r, op) PROVE TypeOK'
  <2>1. request' = [request EXCEPT ![r] = Sent(op)] /\ doomed' \in {doomed, doomed \cup {r}}
    BY <1>1 DEF Send
  <2>2. QED
    BY <1>0, <1>1, <2>1, SentFields DEF Send, TypeOK
<1>2. ASSUME NEW r \in Request, Waits(r) PROVE TypeOK'
  <2>1. issued \subseteq Request
    BY <1>0 DEF TypeOK
  <2> DEFINE q == [request[r] EXCEPT !.phase = "waiting"]
  <2>2. /\ q \in RequestState
        /\ q.phase = "waiting"
        /\ q.op # "login" => q.sid \in Request
    BY <1>0, <1>2, <2>1, PhaseFields DEF Waits, Phase
  <2>3. request' = [request EXCEPT ![r] = q]
    BY <1>2 DEF Waits
  <2> HIDE DEF q
  <2>4. QED
    BY <1>0, <1>2, <2>2, <2>3 DEF Waits, TypeOK
<1>3. ASSUME NEW r \in Request, IssueSession(r) PROVE TypeOK'
  <2>1. now + SessionTtl \in Nat
    BY <1>0, LifetimeAssumption DEF TypeOK
  <2>2. request[r].authn \in Nat
    BY <1>0, RequestFields
  <2>3. /\ request' = [request EXCEPT ![r] = Calling(r, r, now + SessionTtl)]
        /\ claims' = [claims EXCEPT ![r] =
              [version |-> registration, authn |-> request[r].authn,
               iat |-> now, exp |-> now + SessionTtl]]
    BY <1>3 DEF IssueSession
  <2>4. /\ Calling(r, r, now + SessionTtl) \in RequestState
        /\ Calling(r, r, now + SessionTtl).sid \in Request
    BY <1>0, <2>1, CallingFields
  <2>5. QED
    BY <1>0, <1>3, <2>1, <2>2, <2>3, <2>4 DEF IssueSession, TypeOK
<1>4. ASSUME NEW r \in Request, Starts(r) PROVE TypeOK'
  <2> DEFINE s == request[r].sid
             q == Calling(r, s, claims[s].exp)
  <2>1. s \in Request /\ claims[s].exp \in Nat
    BY <1>0, <1>4 DEF Starts, TypeOK
  <2>2. q \in RequestState /\ q.sid \in Request
    BY <1>0, <2>1, CallingFields
  <2>3. request' = [request EXCEPT ![r] = q]
    BY <1>4 DEF Starts
  <2> HIDE DEF q
  <2>4. QED
    BY <1>0, <1>4, <2>2, <2>3 DEF Starts, TypeOK
<1>5. ASSUME NEW r \in Request, Fails(r) PROVE TypeOK'
  <2> DEFINE q == Answered(r, "failed")
  <2>1. q \in RequestState /\ q.sid \in Request
    BY <1>0, <1>5, AnsweredFields DEF Fails, Answer, TypeOK
  <2>2. request' = [request EXCEPT ![r] = q]
    BY <1>5 DEF Fails
  <2> HIDE DEF q
  <2>3. QED
    BY <1>0, <1>5, <2>1, <2>2 DEF Fails, TypeOK
<1>6. ASSUME NEW r \in Request, RuntimeServes(r) PROVE TypeOK'
  <2> DEFINE s == request[r].sid
  <2>1. s \in Request
    BY <1>6, SessionOfRequest DEF RuntimeServes
  <2>2. PICK effect \in {"absent", "active", "revoked"} :
           runtime' = [runtime EXCEPT ![s] = effect]
    BY <1>0, <1>6, <2>1 DEF RuntimeServes, TypeOK
  <2>3. \/ request' = request
        \/ \E answer \in Answer : request' = [request EXCEPT ![r] = Answered(r, answer)]
    BY <1>6, RuntimeAnswer
  <2>4. request' \in [Request -> RequestState]
    BY <1>0, <2>3, AnsweredFields DEF TypeOK
  <2>5. ASSUME NEW p \in Request PROVE request'[p].sid = request[p].sid
    BY <1>6, ServedFields
  <2>6. ASSUME NEW p \in Request PROVE p = r \/ request'[p] = request[p]
    BY <1>6, ServedFields
  <2>7. runtime' \in [Request -> {"absent", "active", "revoked"}]
    BY <1>0, <2>2 DEF TypeOK
  <2>8. QED
    BY <1>0, <1>6, <2>1, <2>4, <2>5, <2>6, <2>7 DEF RuntimeServes, TypeOK
<1>7. ASSUME NEW r \in Request, Deliver(r) PROVE TypeOK'
  <2> DEFINE q == [request[r] EXCEPT !.phase = "delivered"]
  <2>1. q \in RequestState /\ q.phase = "delivered"
    BY <1>0, PhaseFields DEF Phase
  <2>2. request' = [request EXCEPT ![r] = q]
    BY <1>7 DEF Deliver
  <2>3. /\ jar' \in Request \cup {NoSid} /\ token' \in Request \cup {NoSid}
        /\ provider' \in Nat
    BY <1>0, <1>7, RequestFields DEF Deliver, TypeOK
  <2> HIDE DEF q
  <2>4. QED
    BY <1>0, <1>7, <2>1, <2>2, <2>3 DEF Deliver, TypeOK
<1>8. ASSUME NEW r \in Request, NEW outcome \in Outcome, NEW setCookie \in Cookie,
             Replies(r, outcome, setCookie)
      PROVE  TypeOK'
  <2> DEFINE q == Replied(r, outcome, setCookie)
  <2>1. q \in RequestState /\ q.phase = "replied"
    BY <1>0, RepliedFields DEF Cookie
  <2>2. request' = [request EXCEPT ![r] = q]
    BY <1>8 DEF Replies
  <2>3. revoked' \in [Request -> Nat]
    BY <1>0, <1>8 DEF Replies, RevokeLocally, TypeOK
  <2>4. UNCHANGED <<now, registration, issued, claims, runtime, calls, browser, doomed>>
    BY <1>8 DEF Replies
  <2> HIDE DEF q
  <2>5. QED
    BY <1>0, <2>1, <2>2, <2>3, <2>4 DEF TypeOK
<1>9. ASSUME ProviderSignIn \/ Tick PROVE TypeOK'
  BY <1>0, <1>9 DEF ProviderSignIn, Tick, TypeOK
<1>10. ASSUME Restart PROVE TypeOK'
  <2>1. ASSUME NEW r \in Request
        PROVE  /\ request'[r] \in RequestState
               /\ request'[r] = request[r] \/ request'[r].phase = "dropped"
    BY <1>0, <1>10, RequestFields, PhaseFields DEF Restart, Phase
  <2>2. request' \in [Request -> RequestState]
    BY <1>10, <2>1 DEF Restart
  <2>3. QED
    BY <1>0, <1>10, <2>1, <2>2 DEF Restart, TypeOK
<1>11. QED
  BY <1>0, <1>1, <1>2, <1>3, <1>4, <1>5, <1>6, <1>7, <1>8, <1>9, <1>10, Shapes

-----------------------------------------------------------------------------
(* What only grows, and what a step leaves of a request it does not advance. *)

(* Time, the minted sessions and the Runtime's records only grow; the claims of a
   minted session never change; a delivered request stays as it is. *)
Grows ==
    /\ now <= now'
    /\ issued \subseteq issued'
    /\ \A s \in issued : claims'[s] = claims[s]
    /\ \A s \in Request :
          /\ runtime[s] # "absent" => runtime'[s] # "absent"
          /\ runtime[s] = "revoked" => runtime'[s] = "revoked"
          /\ request[s].phase = "delivered" => request'[s] = request[s]

(* Every step keeps what only grows: time, the minted sessions with their claims,
   the Runtime records and the delivered requests. *)
LEMMA Growth ==
    ASSUME Inv, Next
    PROVE  Grows
<1>0. TypeOK
  BY DEF Inv
<1> USE DEF gateway, browser
<1>1. ASSUME NEW r \in Request, NEW op \in Op, Send(r, op) PROVE Grows
  BY <1>0, <1>1 DEF Send, TypeOK, Grows
<1>2. ASSUME NEW r \in Request, Waits(r) PROVE Grows
  BY <1>0, <1>2 DEF Waits, TypeOK, Grows
<1>3. ASSUME NEW r \in Request, IssueSession(r) PROVE Grows
  <2>1. r \notin issued
    BY <1>3, MintedIsNew DEF IssueSession
  <2>2. QED
    BY <1>0, <1>3, <2>1 DEF IssueSession, TypeOK, Grows
<1>4. ASSUME NEW r \in Request, Starts(r) PROVE Grows
  BY <1>0, <1>4 DEF Starts, TypeOK, Grows
<1>5. ASSUME NEW r \in Request, Fails(r) PROVE Grows
  BY <1>0, <1>5 DEF Fails, TypeOK, Grows
<1>6. ASSUME NEW r \in Request, RuntimeServes(r) PROVE Grows
  <2> DEFINE s == request[r].sid
  <2>1. s \in Request /\ (request[r].op = "login" => s = r)
    BY <1>6, SessionOfRequest DEF RuntimeServes, Inv, CallInv
  <2>2. request[r].op = "login" => runtime[s] = "absent"
    BY <1>6, <2>1 DEF RuntimeServes, Inv, SessionInv
  <2>3. PICK effect :
           /\ runtime' = [runtime EXCEPT ![s] = effect]
           /\ runtime[s] # "absent" => effect # "absent"
           /\ runtime[s] = "revoked" => effect = "revoked"
    BY <1>6, <2>1, <2>2 DEF RuntimeServes
  <2>4. \A p \in Request : request[p].phase = "delivered" => request'[p] = request[p]
    BY <1>0, <1>6 DEF RuntimeServes, TypeOK
  <2>5. UNCHANGED <<now, gateway>>
    BY <1>6 DEF RuntimeServes
  <2>6. QED
    BY <1>0, <2>1, <2>3, <2>4, <2>5 DEF TypeOK, Grows
<1>7. ASSUME NEW r \in Request, Deliver(r) PROVE Grows
  BY <1>0, <1>7 DEF Deliver, TypeOK, Grows
<1>8. ASSUME NEW r \in Request, NEW outcome \in Outcome, NEW setCookie \in Cookie,
             Replies(r, outcome, setCookie)
      PROVE  Grows
  BY <1>0, <1>8 DEF Replies, TypeOK, Grows
<1>9. ASSUME ProviderSignIn \/ Tick PROVE Grows
  BY <1>0, <1>9 DEF ProviderSignIn, Tick, TypeOK, Grows
<1>10. ASSUME Restart PROVE Grows
  BY <1>0, <1>10 DEF Restart, TypeOK, Grows
<1>11. QED
  BY <1>0, <1>1, <1>2, <1>3, <1>4, <1>5, <1>6, <1>7, <1>8, <1>9, <1>10, Shapes

(* A session that was set as a cookie stays one, and one that is over stays over. *)
LEMMA Stable ==
    ASSUME Inv, TypeOK', Grows, NEW s \in Request
    PROVE  /\ Delivered(s) => Delivered(s)'
           /\ Over(s) => Over(s)'
<1>1. runtime[s] # "absent" => s \in issued
  BY DEF Inv, SessionInv
<1>2. s \in Request /\ claims[s].exp \in Nat /\ now \in Nat /\ now' \in Nat
  BY DEF Inv, TypeOK
<1>3. runtime'[s] \in {"absent", "active", "revoked"}
  BY DEF TypeOK
<1>4. Delivered(s) => Delivered(s)'
  BY DEF Grows, Delivered
<1>5. Over(s) => Over(s)'
  BY <1>1, <1>2, <1>3 DEF Grows, Over
<1>6. QED
  BY <1>4, <1>5

(* The invariant of a request that a step does not change, whatever else it does. *)
LEMMA Unmoved ==
    ASSUME Inv, TypeOK', Grows, NEW p \in Request, request'[p] = request[p],
           p \in calls' => p \in calls, p \in doomed' => p \in doomed
    PROVE  RequestInv(p)' /\ CallInv(p)' /\ DoomedInv(p)'
<1>1. RequestInv(p) /\ CallInv(p) /\ DoomedInv(p)
  BY DEF Inv
<1>2. request[p].sid \in Request \cup {NoSid}
  BY RequestFields DEF Inv
<1>3. RequestInv(p)'
  BY <1>1, <1>2, Stable DEF RequestInv, Grows
<1>4. CallInv(p)'
  BY <1>1 DEF CallInv, Grows
<1>5. DoomedInv(p)'
  BY <1>1, Stable DEF DoomedInv
<1>6. QED
  BY <1>3, <1>4, <1>5

-----------------------------------------------------------------------------
(* One lemma for each part of the invariant. *)

(* Every step preserves the invariant of the sessions. *)
LEMMA SessionStep ==
    ASSUME Inv, TypeOK', Grows, Next
    PROVE  SessionInv'
<1>0. TypeOK /\ SessionInv
  BY DEF Inv
<1> USE DEF gateway, browser
<1>1. ASSUME NEW r \in Request, NEW op \in Op, Send(r, op) PROVE SessionInv'
  <2>1. r \notin issued
    BY <1>1, MintedIsNew DEF Send
  <2>2. QED
    BY <1>0, <1>1, <2>1 DEF Send, TypeOK, SessionInv
<1>2. ASSUME NEW r \in Request, Waits(r) PROVE SessionInv'
  <2>1. r \notin issued
    BY <1>2, MintedIsNew DEF Waits
  <2>2. QED
    BY <1>0, <1>2, <2>1 DEF Waits, TypeOK, SessionInv
<1>3. ASSUME NEW r \in Request, IssueSession(r) PROVE SessionInv'
  <2>1. r \notin issued /\ runtime[r] = "absent" /\ revoked[r] = 0
    BY <1>3, MintedIsNew DEF IssueSession
  <2>2. now + SessionTtl \in Nat
    BY <1>0, LifetimeAssumption DEF TypeOK
  <2>3. /\ request'[r].op = "login" /\ request'[r].phase = "calling"
        /\ \A p \in Request \ {r} : request'[p] = request[p]
    <3>1. request' = [request EXCEPT ![r] = Calling(r, r, now + SessionTtl)]
          /\ request[r].op = "login"
      BY <1>3 DEF IssueSession
    <3>2. QED
      BY <1>0, <2>2, <3>1, CallingFields DEF TypeOK
  <2>4. QED
    BY <1>0, <1>3, <2>1, <2>3 DEF IssueSession, TypeOK, SessionInv
<1>4. ASSUME NEW r \in Request, Starts(r) PROVE SessionInv'
  <2>1. r \notin issued
    BY <1>4, MintedIsNew DEF Starts
  <2>2. QED
    BY <1>0, <1>4, <2>1 DEF Starts, TypeOK, SessionInv
<1>5. ASSUME NEW r \in Request, Fails(r) PROVE SessionInv'
  <2>1. /\ request'[r].op = request[r].op /\ request'[r].phase = "answered"
        /\ \A p \in Request \ {r} : request'[p] = request[p]
    BY <1>0, <1>5, AnsweredFields DEF Fails, Answer, TypeOK
  <2>2. QED
    BY <1>0, <1>5, <2>1 DEF Fails, SessionInv
<1>6. ASSUME NEW r \in Request, RuntimeServes(r) PROVE SessionInv'
  <2> DEFINE s == request[r].sid
  <2>1. s \in Request /\ s \in issued /\ (request[r].op = "login" => s = r)
    BY <1>6, SessionOfRequest DEF RuntimeServes, Inv, CallInv
  <2>2. \A p \in Request : /\ request'[p].op = request[p].op
                            /\ request'[p].phase \in {request[p].phase, "answered"}
    BY <1>6, ServedFields
  <2>3. \A p \in Request : runtime'[p] # "absent" => p \in issued /\ p \notin calls'
    <3>1. request[r].op = "login" => s \notin calls'
      BY <1>0, <1>6, <2>1 DEF RuntimeServes
    <3>2. request[r].op # "login" /\ runtime'[s] # "absent" => runtime[s] # "absent"
      BY <1>0, <1>6, <2>1 DEF RuntimeServes, RuntimeState, TypeOK
    <3>3. \A p \in Request \ {s} : runtime'[p] = runtime[p]
      BY <1>0, <1>6 DEF RuntimeServes, TypeOK
    <3>4. calls' \subseteq calls
      BY <1>6 DEF RuntimeServes
    <3>5. QED
      BY <1>0, <2>1, <3>1, <3>2, <3>3, <3>4 DEF SessionInv
  <2>4. UNCHANGED gateway
    BY <1>6 DEF RuntimeServes
  <2>5. QED
    BY <1>0, <2>2, <2>3, <2>4 DEF SessionInv
<1>7. ASSUME NEW r \in Request, Deliver(r) PROVE SessionInv'
  BY <1>0, <1>7 DEF Deliver, TypeOK, SessionInv, RequestState
<1>8. ASSUME NEW r \in Request, NEW outcome \in Outcome, NEW setCookie \in Cookie,
             Replies(r, outcome, setCookie)
      PROVE  SessionInv'
  <2>1. \A p \in Request : /\ request'[p].op = request[p].op
                            /\ request'[p].phase \in {request[p].phase, "replied"}
    BY <1>0, <1>8, RepliedFields DEF Replies, Cookie, TypeOK
  <2>2. \A p \in Request : revoked'[p] # 0 => p \in issued /\ revoked'[p] = claims[p].exp
    <3>1. request[r].op # "login" /\ request[r].sid \in Request => request[r].sid \in issued
      BY SessionOfRequest, NoSidAssumption DEF Delivered
    <3>2. QED
      BY <1>0, <1>8, <3>1 DEF Replies, RevokeLocally, TypeOK, SessionInv
  <2>3. UNCHANGED <<issued, claims, runtime, calls>>
    BY <1>8 DEF Replies
  <2>4. QED
    BY <1>0, <2>1, <2>2, <2>3 DEF SessionInv
<1>9. ASSUME ProviderSignIn \/ Tick PROVE SessionInv'
  BY <1>0, <1>9 DEF ProviderSignIn, Tick, SessionInv
<1>10. ASSUME Restart PROVE SessionInv'
  <2>1. \A p \in Request : /\ request'[p].op = request[p].op
                            /\ request'[p].phase \in {request[p].phase, "dropped"}
    BY <1>0, <1>10 DEF Restart, TypeOK, RequestState
  <2>2. QED
    BY <1>0, <1>10, <2>1 DEF Restart, SessionInv
<1>11. QED
  BY <1>0, <1>1, <1>2, <1>3, <1>4, <1>5, <1>6, <1>7, <1>8, <1>9, <1>10, Shapes

(* Every step preserves the invariant of the cookie jar. *)
LEMMA JarStep ==
    ASSUME Inv, TypeOK', Grows, Next
    PROVE  JarInv'
<1>0. TypeOK /\ JarInv
  BY DEF Inv
<1> USE DEF gateway, browser
<1>1. ASSUME jar' = jar,
             \A p \in Request :
                \/ request'[p] = request[p]
                \/ request'[p].phase # "delivered"
      PROVE  JarInv'
  <2>1. jar' # NoSid => Delivered(jar)'
    BY <1>0, <1>1, Stable DEF JarInv, Delivered, TypeOK
  <2>2. SignedOutStaysOut'
    BY <1>0, <1>1 DEF JarInv, SignedOutStaysOut
  <2>3. QED
    BY <2>1, <2>2 DEF JarInv
<1>2. ASSUME NEW r \in Request, NEW q,
             request' = [request EXCEPT ![r] = q], q.phase # "delivered", jar' = jar
      PROVE  JarInv'
  BY <1>0, <1>1, <1>2 DEF TypeOK
<1>3. ASSUME NEW r \in Request, NEW op \in Op, Send(r, op) PROVE JarInv'
  BY <1>0, <1>2, <1>3, SentFields DEF Send
<1>4. ASSUME NEW r \in Request, Waits(r) PROVE JarInv'
  <2>1. [request[r] EXCEPT !.phase = "waiting"].phase # "delivered"
    BY <1>0, PhaseFields DEF Phase
  <2>2. QED
    BY <1>2, <1>4, <2>1 DEF Waits
<1>5. ASSUME NEW r \in Request, IssueSession(r) PROVE JarInv'
  <2>1. now + SessionTtl \in Nat
    BY <1>0, LifetimeAssumption DEF TypeOK
  <2>2. Calling(r, r, now + SessionTtl).phase # "delivered"
    BY <1>0, <2>1, CallingFields
  <2>3. QED
    BY <1>2, <1>5, <2>2 DEF IssueSession
<1>6. ASSUME NEW r \in Request, Starts(r) PROVE JarInv'
  <2> DEFINE s == request[r].sid
  <2>1. s \in Request /\ claims[s].exp \in Nat
    BY <1>0, <1>6 DEF Starts, TypeOK
  <2>2. Calling(r, s, claims[s].exp).phase # "delivered"
    BY <1>0, <2>1, CallingFields
  <2>3. QED
    BY <1>2, <1>6, <2>2 DEF Starts
<1>7. ASSUME NEW r \in Request, Fails(r) PROVE JarInv'
  <2>1. Answered(r, "failed").phase # "delivered"
    BY <1>0, AnsweredFields DEF Answer
  <2>2. QED
    BY <1>2, <1>7, <2>1 DEF Fails
<1>8. ASSUME NEW r \in Request, RuntimeServes(r) PROVE JarInv'
  <2>1. \A p \in Request : request'[p] = request[p] \/ request'[p].phase = "answered"
    BY <1>8, ServedFields
  <2>2. QED
    BY <1>1, <1>8, <2>1 DEF RuntimeServes
<1>9. ASSUME NEW r \in Request, Deliver(r) PROVE JarInv'
  <2> DEFINE q == [request[r] EXCEPT !.phase = "delivered"]
  <2>1. /\ q.op = request[r].op /\ q.phase = "delivered" /\ q.sid = request[r].sid
        /\ q.cookie = request[r].cookie
    BY <1>0, PhaseFields DEF Phase
  <2>2. request' = [request EXCEPT ![r] = q]
    BY <1>9 DEF Deliver
  <2>3. /\ request[r].cookie = "set" => jar' = request[r].sid
        /\ request[r].cookie = "clear" => jar' = NoSid
        /\ request[r].cookie = "keep" => jar' = jar
        /\ UNCHANGED <<issued, runtime>>
    BY <1>9 DEF Deliver
  <2>4. request[r].phase = "replied" /\ request[r].cookie \in {"keep", "set", "clear"}
    BY <1>0, <1>9, RequestFields DEF Deliver
  <2>5. RequestInv(r)
    BY DEF Inv
  <2> HIDE DEF q
  <2>6. /\ request'[r] = q
        /\ \A p \in Request \ {r} : request'[p] = request[p]
    BY <1>0, <2>2 DEF TypeOK
  <2>7. jar' # NoSid => Delivered(jar)'
    <3>1. CASE request[r].cookie = "set"
      BY <2>1, <2>3, <2>5, <2>6, <3>1 DEF RequestInv, Delivered
    <3>2. CASE request[r].cookie = "keep"
      BY <1>0, <2>3, <3>2, Stable DEF JarInv, Delivered
    <3>3. QED
      BY <2>3, <2>4, <3>1, <3>2
  <2>8. ASSUME NEW p \in Request,
               request'[p].phase = "delivered", request'[p].cookie = "clear"
        PROVE  jar' # request'[p].sid
    <3>1. CASE p = r
      BY <2>1, <2>3, <2>5, <2>6, <2>8, <3>1 DEF RequestInv
    <3>2. CASE p # r
      <4>1. /\ request[p].op # "login" /\ request[p].sid # NoSid
            /\ Delivered(request[p].sid) /\ jar # request[p].sid
            /\ request'[p].sid = request[p].sid
        BY <1>0, <2>6, <2>8, <3>2 DEF Inv, RequestInv, JarInv, SignedOutStaysOut
      <4>2. request[p].sid # r
        BY <2>4, <4>1 DEF Delivered
      <4>3. request[r].cookie = "set" => request[r].sid = r
        BY <2>5 DEF RequestInv
      <4>4. QED
        BY <2>3, <2>4, <4>1, <4>2, <4>3
    <3>3. QED
      BY <3>1, <3>2
  <2>9. QED
    BY <2>7, <2>8 DEF JarInv, SignedOutStaysOut
<1>10. ASSUME NEW r \in Request, NEW outcome \in Outcome, NEW setCookie \in Cookie,
              Replies(r, outcome, setCookie)
       PROVE  JarInv'
  <2>1. Replied(r, outcome, setCookie).phase # "delivered"
    BY <1>0, RepliedFields DEF Cookie
  <2>2. QED
    BY <1>2, <1>10, <2>1 DEF Replies
<1>11. ASSUME ProviderSignIn \/ Tick PROVE JarInv'
  BY <1>1, <1>11 DEF ProviderSignIn, Tick
<1>12. ASSUME Restart PROVE JarInv'
  <2>1. \A p \in Request : request'[p] = request[p] \/ request'[p].phase = "dropped"
    BY <1>0, <1>12 DEF Restart, TypeOK, RequestState
  <2>2. QED
    BY <1>1, <1>12, <2>1 DEF Restart
<1>13. QED
  BY <1>0, <1>3, <1>4, <1>5, <1>6, <1>7, <1>8, <1>9, <1>10, <1>11, <1>12, Shapes

(* What the invariant says of one request. *)
Good(r) == RequestInv(r) /\ CallInv(r) /\ DoomedInv(r)

(* The fields a step leaves alone when the handler of r moves on without setting
   a cookie, without an answer and without a call. *)
LEMMA MovesOn ==
    ASSUME Inv, TypeOK', Grows, NEW r \in Request,
           request'[r].op = request[r].op, request'[r].sid = request[r].sid,
           request'[r].deadline = request[r].deadline,
           request'[r].phase \notin {"unsent", "sent", "calling"},
           request'[r].phase = "answered" =>
                 request[r].phase \in {"calling", "waiting", "answered"}
                 /\ (request[r].phase = "waiting" => request[r].op # "login"),
           request'[r].phase = "waiting" => r \notin calls,
           r \in calls' => r \in calls, r \in doomed' => r \in doomed,
           request'[r].phase = "answered" => request'[r].result = "failed",
           request'[r].phase \in {"replied", "delivered"} =>
                 \/ request'[r].result # "granted"
                 \/ request[r].phase = "replied" /\ request'[r].result = request[r].result,
           \/ request'[r].cookie = "keep"
           \/ /\ request'[r].cookie = request[r].cookie
              /\ request'[r].phase \in {"replied", "delivered"}
    PROVE  Good(r)'
<1>1. RequestInv(r) /\ CallInv(r) /\ DoomedInv(r)
  BY DEF Inv
<1>2. request[r].sid \in Request \cup {NoSid}
  BY RequestFields DEF Inv
<1>3. RequestInv(r)'
  BY <1>1, <1>2, Stable DEF RequestInv, Grows
<1>4. CallInv(r)'
  BY <1>1 DEF CallInv, Grows
<1>5. DoomedInv(r)'
  BY <1>1, Stable DEF DoomedInv
<1>6. QED
  BY <1>3, <1>4, <1>5 DEF Good

(* Every step preserves the invariant of each request. *)
LEMMA RequestStep ==
    ASSUME Inv, TypeOK', Grows, Next
    PROVE  \A p \in Request : Good(p)'
<1>0. TypeOK /\ \A p \in Request : RequestInv(p) /\ CallInv(p) /\ DoomedInv(p)
  BY DEF Inv
<1> USE DEF gateway, browser
<1>1. ASSUME NEW r \in Request, Good(r)',
             \A p \in Request \ {r} : /\ request'[p] = request[p]
                                      /\ p \in calls' => p \in calls
                                      /\ p \in doomed' => p \in doomed
      PROVE  \A p \in Request : Good(p)'
  BY <1>1, Unmoved DEF Good
<1>2. ASSUME NEW r \in Request, NEW op \in Op, Send(r, op) PROVE \A p \in Request : Good(p)'
  <2> DEFINE q == Sent(op)
  <2>1. /\ q.op = op /\ q.phase = "sent" /\ q.sid = (IF op = "login" THEN NoSid ELSE jar)
        /\ q.result = "pending" /\ q.cookie = "keep"
    BY <1>0, SentFields
  <2>2. request' = [request EXCEPT ![r] = q] /\ request[r].phase = "unsent"
    BY <1>2 DEF Send
  <2>3. r \in doomed' => op # "login" /\ jar \in Request /\ Over(jar)
    <3>1. r \notin doomed
      BY <1>0, <2>2 DEF DoomedInv
    <3>2. QED
      BY <1>0, <1>2, <3>1 DEF Send, RuntimeState, Over, TypeOK
  <2>4. UNCHANGED <<now, claims, runtime, calls>>
        /\ \A p \in Request \ {r} : p \in doomed' => p \in doomed
    BY <1>2 DEF Send
  <2> HIDE DEF q
  <2>5. request'[r] = q /\ \A p \in Request \ {r} : request'[p] = request[p]
    BY <1>0, <2>2 DEF TypeOK
  <2>6. RequestInv(r)'
    <3>0. jar \in Request \cup {NoSid}
      BY <1>0 DEF TypeOK
    <3>1. \A t \in Request : t = jar => Delivered(t)'
      BY Stable, NoSidAssumption DEF Inv, JarInv
    <3>2. QED
      BY <2>1, <2>5, <3>0, <3>1 DEF RequestInv
  <2>7. CallInv(r)'
    BY <1>0, <2>2, <2>4 DEF CallInv
  <2>8. DoomedInv(r)'
    BY <2>1, <2>3, <2>5, Stable DEF DoomedInv
  <2>9. QED
    BY <1>1, <2>4, <2>5, <2>6, <2>7, <2>8 DEF Good
<1>3. ASSUME NEW r \in Request, Waits(r) PROVE \A p \in Request : Good(p)'
  <2> DEFINE q == [request[r] EXCEPT !.phase = "waiting"]
  <2>1. /\ q.op = request[r].op /\ q.phase = "waiting" /\ q.sid = request[r].sid
        /\ q.deadline = request[r].deadline
        /\ q.result = request[r].result /\ q.cookie = request[r].cookie
    BY <1>0, PhaseFields DEF Phase
  <2>2. /\ request' = [request EXCEPT ![r] = q] /\ request[r].phase = "sent"
        /\ UNCHANGED <<calls, doomed>>
    BY <1>3 DEF Waits
  <2>3. r \notin calls /\ request[r].cookie = "keep"
    BY <1>0, <2>2, RequestFields DEF CallInv, RequestInv
  <2> HIDE DEF q
  <2>4. request'[r] = q /\ \A p \in Request \ {r} : request'[p] = request[p]
    BY <1>0, <2>2 DEF TypeOK
  <2>5. Good(r)'
    BY <2>1, <2>2, <2>3, <2>4, MovesOn
  <2>6. QED
    BY <1>1, <2>2, <2>4, <2>5
<1>4. ASSUME NEW r \in Request, IssueSession(r) PROVE \A p \in Request : Good(p)'
  <2> DEFINE exp == now + SessionTtl
             q == Calling(r, r, exp)
  <2>1. exp \in Nat
    BY <1>0, LifetimeAssumption DEF TypeOK
  <2>2. /\ q.op = request[r].op /\ q.phase = "calling" /\ q.sid = r
        /\ q.deadline <= exp /\ q.deadline <= now + AssertionTtl
        /\ q.cookie = request[r].cookie
    BY <1>0, <2>1, CallingFields
  <2>3. /\ request' = [request EXCEPT ![r] = q]
        /\ request[r].phase = "waiting" /\ request[r].op = "login"
        /\ calls' = calls \cup {r} /\ UNCHANGED doomed
    BY <1>4 DEF IssueSession
  <2>4. /\ r \in issued' /\ claims'[r].exp = exp /\ claims'[r].iat = now
        /\ claims'[r].iat <= claims'[r].authn + AuthnMaxAge
    BY <1>0, <1>4, RequestFields, LifetimeAssumption DEF IssueSession, TypeOK
  <2>5. request[r].cookie = "keep" /\ r \notin doomed
    BY <1>0, <2>3, RequestFields DEF RequestInv, DoomedInv
  <2> HIDE DEF exp, q
  <2>6. request'[r] = q /\ \A p \in Request \ {r} : request'[p] = request[p]
    BY <1>0, <2>3 DEF TypeOK
  <2>7. RequestInv(r)'
    BY <2>2, <2>3, <2>4, <2>5, <2>6 DEF RequestInv
  <2>8. CallInv(r)'
    <3>1. now' = now
      BY <1>4 DEF IssueSession
    <3>2. QED
      BY <2>2, <2>4, <2>6, <3>1 DEF CallInv
  <2>9. DoomedInv(r)'
    BY <2>3, <2>5 DEF DoomedInv
  <2>10. QED
    BY <1>1, <2>3, <2>6, <2>7, <2>8, <2>9 DEF Good
<1>5. ASSUME NEW r \in Request, Starts(r) PROVE \A p \in Request : Good(p)'
  <2> DEFINE s == request[r].sid
             exp == claims[s].exp
             q == Calling(r, s, exp)
  <2>1. s \in Request /\ s \in issued /\ exp \in Nat
    BY <1>0, <1>5 DEF Starts, TypeOK
  <2>2. /\ q.op = request[r].op /\ q.phase = "calling" /\ q.sid = s
        /\ q.deadline <= exp /\ q.cookie = request[r].cookie
    BY <1>0, <2>1, CallingFields
  <2>3. /\ request' = [request EXCEPT ![r] = q]
        /\ request[r].phase \in {"sent", "waiting"} /\ request[r].op # "login"
        /\ calls' = calls \cup {r} /\ UNCHANGED doomed
    BY <1>5 DEF Starts
  <2>4. request[r].cookie = "keep"
    BY <1>0, <2>3, RequestFields DEF RequestInv
  <2>5. s \in issued' /\ claims'[s].exp = exp
    BY <2>1 DEF Grows
  <2>6. \A t \in Request : t = s => Delivered(t)' /\ (Over(t) => Over(t)')
    BY <2>1, <2>3, SessionOfRequest, NoSidAssumption, Stable
  <2>7. RequestInv(r) /\ DoomedInv(r)
    BY <1>0
  <2> HIDE DEF s, exp, q
  <2>8. request'[r] = q /\ \A p \in Request \ {r} : request'[p] = request[p]
    BY <1>0, <2>3 DEF TypeOK
  <2>9. RequestInv(r)'
    BY <2>1, <2>2, <2>3, <2>4, <2>6, <2>8 DEF RequestInv
  <2>10. CallInv(r)'
    BY <2>2, <2>3, <2>5, <2>8 DEF CallInv
  <2>11. DoomedInv(r)'
    BY <2>1, <2>2, <2>3, <2>6, <2>7, <2>8 DEF DoomedInv, s
  <2>12. QED
    BY <1>1, <2>3, <2>8, <2>9, <2>10, <2>11 DEF Good
<1>6. ASSUME NEW r \in Request, Fails(r) PROVE \A p \in Request : Good(p)'
  <2> DEFINE q == Answered(r, "failed")
  <2>1. /\ q.op = request[r].op /\ q.phase = "answered" /\ q.sid = request[r].sid
        /\ q.deadline = request[r].deadline
        /\ q.result = "failed" /\ q.cookie = request[r].cookie
    BY <1>0, AnsweredFields DEF Answer
  <2>2. /\ request' = [request EXCEPT ![r] = q] /\ UNCHANGED <<calls, doomed>>
        /\ \/ request[r].phase = "calling"
           \/ request[r].phase = "waiting" /\ request[r].op # "login"
    BY <1>6 DEF Fails
  <2>3. request[r].cookie = "keep"
    BY <1>0, <2>2, RequestFields DEF RequestInv
  <2> HIDE DEF q
  <2>4. request'[r] = q /\ \A p \in Request \ {r} : request'[p] = request[p]
    BY <1>0, <2>2 DEF TypeOK
  <2>5. Good(r)'
    BY <2>1, <2>2, <2>3, <2>4, MovesOn
  <2>6. QED
    BY <1>1, <2>2, <2>4, <2>5
<1>7. ASSUME NEW r \in Request, RuntimeServes(r) PROVE \A p \in Request : Good(p)'
  <2> DEFINE s == request[r].sid
  <2>1. /\ r \in calls /\ calls' \subseteq calls /\ doomed' = doomed
        /\ s \in Request /\ s \in issued
    BY <1>7, SessionOfRequest DEF RuntimeServes
  <2>2. CASE request' = request
    BY <2>1, <2>2, Unmoved DEF Good
  <2>3. ASSUME NEW answer \in Answer,
               request[r].phase = "calling",
               request' = [request EXCEPT ![r] = Answered(r, answer)],
               request[r].op = "login" /\ answer = "active" => runtime'[s] # "absent",
               request[r].op \in {"status", "execute"} /\ Over(s) => answer # "active"
        PROVE  \A p \in Request : Good(p)'
    <3> DEFINE q == Answered(r, answer)
    <3>1. /\ q.op = request[r].op /\ q.phase = "answered" /\ q.sid = s
          /\ q.deadline = request[r].deadline
          /\ q.result = answer /\ q.cookie = request[r].cookie
      BY <1>0, AnsweredFields
    <3>2. request[r].cookie = "keep" /\ (request[r].op = "login" => s = r)
      BY <1>0, <2>1, <2>3, RequestFields DEF RequestInv, CallInv
    <3> HIDE DEF q
    <3>3. request'[r] = q /\ \A p \in Request \ {r} : request'[p] = request[p]
      BY <1>0, <2>3 DEF TypeOK, q
    <3>4. s \in issued'
      BY <2>1 DEF Grows
    <3>5. RequestInv(r)'
      <4>1. request[r].op # "login" => \A t \in Request : t = s => Delivered(t)'
        BY <2>1, SessionOfRequest, NoSidAssumption, Stable
      <4>2. QED
        BY <2>1, <2>3, <3>1, <3>2, <3>3, <3>4, <4>1 DEF RequestInv
    <3>6. CallInv(r)'
      BY <1>0, <2>1, <3>1, <3>2, <3>3 DEF CallInv, Grows
    <3>7. DoomedInv(r)'
      BY <1>0, <2>1, <2>3, <3>1, <3>3, Stable DEF DoomedInv
    <3>8. QED
      BY <1>1, <2>1, <3>3, <3>5, <3>6, <3>7 DEF Good
  <2>4. QED
    BY <1>7, <2>2, <2>3, RuntimeAnswer
<1>8. ASSUME NEW r \in Request, Deliver(r) PROVE \A p \in Request : Good(p)'
  <2> DEFINE q == [request[r] EXCEPT !.phase = "delivered"]
  <2>1. /\ q.op = request[r].op /\ q.phase = "delivered" /\ q.sid = request[r].sid
        /\ q.deadline = request[r].deadline
        /\ q.result = request[r].result /\ q.cookie = request[r].cookie
    BY <1>0, PhaseFields DEF Phase
  <2>2. /\ request' = [request EXCEPT ![r] = q] /\ UNCHANGED <<calls, doomed>>
        /\ request[r].phase = "replied"
    BY <1>8 DEF Deliver
  <2> HIDE DEF q
  <2>3. request'[r] = q /\ \A p \in Request \ {r} : request'[p] = request[p]
    BY <1>0, <2>2 DEF TypeOK
  <2>4. Good(r)'
    BY <2>1, <2>2, <2>3, MovesOn
  <2>5. QED
    BY <1>1, <2>2, <2>3, <2>4
<1>9. ASSUME NEW r \in Request, NEW outcome \in Outcome, NEW setCookie \in Cookie,
             Replies(r, outcome, setCookie)
      PROVE  \A p \in Request : Good(p)'
  <2> DEFINE q == Replied(r, outcome, setCookie)
  <2>1. /\ q.op = request[r].op /\ q.phase = "replied" /\ q.sid = request[r].sid
        /\ q.deadline = request[r].deadline
        /\ q.result = outcome /\ q.cookie = setCookie
    BY <1>0, RepliedFields DEF Cookie
  <2>2. /\ request' = [request EXCEPT ![r] = q]
        /\ request[r].phase \in {"sent", "waiting", "answered"}
        /\ setCookie = "set" => /\ request[r].op = "login" /\ request[r].phase = "answered"
                                /\ request[r].result = "active"
        /\ setCookie = "clear" => request[r].op # "login" /\ request[r].sid # NoSid
        /\ outcome = "granted" => /\ request[r].op \in {"login", "status", "execute"}
                                  /\ request[r].phase = "answered"
                                  /\ request[r].result = "active"
        /\ UNCHANGED <<runtime, calls, doomed>>
    BY <1>9 DEF Replies
  <2>3. RequestInv(r) /\ CallInv(r) /\ DoomedInv(r)
    BY <1>0
  <2> HIDE DEF q
  <2>4. request'[r] = q /\ \A p \in Request \ {r} : request'[p] = request[p]
    BY <1>0, <2>2 DEF TypeOK
  <2>5. RequestInv(r)'
    <3>0. request[r].sid \in Request \cup {NoSid}
      BY <1>0, RequestFields
    <3>1. q.op # "login" => \A t \in Request : t = q.sid => Delivered(t)'
      BY <2>1, <2>3, Stable, NoSidAssumption DEF RequestInv
    <3>2. setCookie = "set" => /\ request[r].sid = r
                              /\ r \in issued' /\ runtime'[r] # "absent"
      BY <1>0, <2>2, <2>3, RequestFields DEF RequestInv, Grows
    <3>3. QED
      BY <2>1, <2>2, <2>4, <3>0, <3>1, <3>2 DEF RequestInv
  <2>6. CallInv(r)'
    BY <2>1, <2>2, <2>3, <2>4 DEF CallInv, Grows
  <2>7. DoomedInv(r)'
    <3>1. r \in doomed => \A t \in Request : t = request[r].sid => Over(t)'
      BY <2>3, Stable DEF DoomedInv
    <3>2. QED
      BY <2>1, <2>2, <2>3, <2>4, <3>1 DEF DoomedInv
  <2>8. QED
    BY <1>1, <2>2, <2>4, <2>5, <2>6, <2>7 DEF Good
<1>10. ASSUME ProviderSignIn \/ Tick PROVE \A p \in Request : Good(p)'
  BY <1>10, Unmoved DEF ProviderSignIn, Tick, Good
<1>11. ASSUME Restart, NEW r \in Request PROVE Good(r)'
  <2> DEFINE q == [request[r] EXCEPT !.phase = "dropped"]
  <2>1. /\ q.op = request[r].op /\ q.phase = "dropped" /\ q.sid = request[r].sid
        /\ q.deadline = request[r].deadline
        /\ q.result = request[r].result /\ q.cookie = request[r].cookie
    BY <1>0, PhaseFields DEF Phase
  <2>2. /\ request'[r] = request[r] \/ request'[r] = q
        /\ UNCHANGED <<calls, doomed>>
    BY <1>0, <1>11 DEF Restart, TypeOK
  <2>3. request'[r] = q => request[r].cookie = "keep"
    <3>1. request'[r] # request[r] => request[r].phase \in {"waiting", "calling", "answered"}
      BY <1>0, <1>11 DEF Restart, TypeOK
    <3>2. ASSUME request'[r] = request[r], request'[r] = q
          PROVE  request[r].cookie = "keep"
      <4>1. request[r].phase = "dropped"
        BY <2>1, <3>2
      <4>2. QED
        BY <1>0, <4>1, RequestFields DEF RequestInv
    <3>3. QED
      BY <1>0, <3>1, <3>2, RequestFields DEF RequestInv
  <2> HIDE DEF q
  <2>4. CASE request'[r] = request[r]
    BY <2>2, <2>4, Unmoved DEF Good
  <2>5. CASE request'[r] = q
    BY <2>1, <2>2, <2>3, <2>5, MovesOn
  <2>6. QED
    BY <2>2, <2>4, <2>5
<1>12. QED
  BY <1>0, <1>2, <1>3, <1>4, <1>5, <1>6, <1>7, <1>8, <1>9, <1>10, <1>11, Shapes

-----------------------------------------------------------------------------
(* The theorems. *)

(* The initial states satisfy the invariant. *)
LEMMA Initial ==
    Init => Inv
<1> SUFFICES ASSUME Init PROVE Inv
  OBVIOUS
<1>1. Unsent \in RequestState
  BY DEF Unsent, RequestState, Op, Phase
<1>2. \A r \in Request :
         /\ request[r] = Unsent /\ revoked[r] = 0 /\ runtime[r] = "absent"
         /\ claims[r] \in [version : Version, authn : Nat, iat : Nat, exp : Nat]
  BY DEF Init
<1>3. TypeOK
  BY <1>1, <1>2 DEF Init, TypeOK, Unsent
<1>4. SessionInv
  BY <1>2 DEF Init, SessionInv
<1>5. \A r \in Request : RequestInv(r) /\ CallInv(r) /\ DoomedInv(r)
  BY <1>2 DEF Init, RequestInv, CallInv, DoomedInv, Unsent
<1>6. JarInv
  BY <1>2 DEF Init, JarInv, SignedOutStaysOut, Unsent
<1>7. QED
  BY <1>3, <1>4, <1>5, <1>6 DEF Inv

(* Every step preserves the invariant. *)
LEMMA Inductive ==
    Inv /\ [Next]_vars => Inv'
<1> SUFFICES ASSUME Inv, [Next]_vars PROVE Inv'
  OBVIOUS
<1>1. CASE Next
  <2>1. TypeOK'
    BY <1>1, TypeStep
  <2>2. Grows
    BY <1>1, Growth
  <2>3. SessionInv' /\ JarInv' /\ \A r \in Request : Good(r)'
    BY <1>1, <2>1, <2>2, SessionStep, JarStep, RequestStep
  <2>4. QED
    BY <2>1, <2>3 DEF Inv, Good
<1>2. CASE UNCHANGED vars
  <2> USE <1>2 DEF vars, gateway, browser
  <2>1. TypeOK' /\ SessionInv' /\ JarInv'
    BY DEF Inv, TypeOK, SessionInv, JarInv, Delivered, SignedOutStaysOut
  <2>2. \A r \in Request : RequestInv(r)' /\ CallInv(r)' /\ DoomedInv(r)'
    BY DEF Inv, RequestInv, CallInv, DoomedInv, Delivered, Over
  <2>3. QED
    BY <2>1, <2>2 DEF Inv
<1>3. QED
  BY <1>1, <1>2

(* Every reachable state of browser, Gateway and Runtime satisfies the inductive
   invariant, whatever is delayed, lost, reordered or restarted. *)
THEOREM Invariance == Spec => []Inv
  BY Initial, Inductive, PTL DEF Spec

(* Variables, requests and handlers keep the shape they are declared with; a
   handler past its cookie check has a session. *)
THEOREM Typing == Spec => []TypeOK
<1>1. Inv => TypeOK
  BY DEF Inv
<1>2. QED
  BY <1>1, Invariance, PTL

(* A session in the authority's revocation map does not authenticate for as long
   as the process lives: the entry dies no sooner than the cookie. *)
THEOREM RevocationsHold == Spec => []RevocationOutlivesCookie
<1>1. Inv => RevocationOutlivesCookie
  <2> SUFFICES ASSUME Inv, NEW s \in Request, revoked[s] # 0, Authenticates(s)
               PROVE  FALSE
    BY DEF RevocationOutlivesCookie
  <2>1. revoked[s] = claims[s].exp
    BY DEF Inv, SessionInv
  <2>2. now < claims[s].exp /\ ~ (revoked[s] > now)
    BY DEF Authenticates, ActiveClaims, IsRevoked
  <2>3. now \in Nat /\ revoked[s] \in Nat
    BY DEF Inv, TypeOK
  <2>4. QED
    BY <2>1, <2>2, <2>3
<1>2. QED
  BY <1>1, Invariance, PTL

(* A request sent on a session the Runtime has ended is not granted, by any
   interleaving of handlers, late answers and restarts. *)
THEOREM EndedSessionsGetNothing == Spec => []NoGrantAfterEnd
<1>1. Inv => NoGrantAfterEnd
  <2>1. Inv => doomed \subseteq Request
    BY DEF Inv, TypeOK
  <2>2. QED
    BY <2>1 DEF Inv, DoomedInv, NoGrantAfterEnd
<1>2. QED
  BY <1>1, Invariance, PTL

(* The browser never holds the cookie of a session the Runtime has not recorded. *)
THEOREM CookiesAreVerified == Spec => []VerifiedBeforeCookie
<1>1. Inv => VerifiedBeforeCookie
  BY DEF Inv, JarInv, Delivered, VerifiedBeforeCookie
<1>2. QED
  BY <1>1, Invariance, PTL

(* A cookie that a delivered reply cleared does not come back. *)
THEOREM ClearedCookiesStayCleared == Spec => []SignedOutStaysOut
<1>1. Inv => SignedOutStaysOut
  BY DEF Inv, JarInv
<1>2. QED
  BY <1>1, Invariance, PTL

(* A step that changes the Runtime's record of a session happens while the
   session is unexpired; the one that creates the record happens within an
   assertion lifetime of an authentication that was fresh. *)
Timely ==
    \A s \in Request : runtime'[s] # runtime[s] =>
        /\ now < claims[s].exp
        /\ runtime[s] = "absent" =>
              now < claims[s].authn + AuthnMaxAge + AssertionTtl

(* A step that changes a Runtime record takes a call whose assertion is valid. *)
LEMMA TimelyStep ==
    ASSUME Inv, Next
    PROVE  Timely
<1>0. TypeOK
  BY DEF Inv
<1>1. CASE runtime' = runtime
  BY <1>1 DEF Timely
<1>2. ASSUME NEW r \in Request, RuntimeServes(r) PROVE Timely
  <2> DEFINE s == request[r].sid
  <2>1. r \in calls /\ s \in Request /\ s \in issued
    BY <1>2, SessionOfRequest DEF RuntimeServes
  <2>2. /\ \A p \in Request \ {s} : runtime'[p] = runtime[p]
        /\ runtime'[s] # runtime[s] =>
              /\ now < request[r].deadline
              /\ runtime[s] = "absent" => request[r].op = "login"
    BY <1>0, <1>2, <2>1 DEF RuntimeServes, RuntimeState, TypeOK
  <2>3. /\ request[r].deadline <= claims[s].exp
        /\ request[r].op = "login" =>
              /\ s = r
              /\ request[r].deadline <= claims[r].iat + AssertionTtl
              /\ claims[r].iat <= claims[r].authn + AuthnMaxAge
    BY <2>1 DEF Inv, CallInv
  <2>4. /\ now \in Nat /\ request[r].deadline \in Nat
        /\ claims[s].exp \in Nat /\ claims[s].iat \in Nat /\ claims[s].authn \in Nat
        /\ AuthnMaxAge \in Nat /\ AssertionTtl \in Nat
    BY <1>0, <2>1, RequestFields, LifetimeAssumption DEF TypeOK
  <2> HIDE DEF s
  <2>5. QED
    BY <2>1, <2>2, <2>3, <2>4 DEF Timely
<1>3. QED
  BY <1>0, <1>1, <1>2, Shapes
     DEF Send, Waits, IssueSession, Starts, Fails, Replies, Deliver,
         ProviderSignIn, Restart, Tick

(* Calls the Gateway has given up on are inert once their assertion is stale: the
   Runtime neither verifies nor revokes a session on a late one. *)
THEOREM LateCallsAreInert == Spec => RuntimeChangesAreTimely
<1>1. Inv /\ [Next]_vars => [Timely]_vars
  BY TimelyStep
<1>2. [][Timely]_vars => RuntimeChangesAreTimely
  BY PTL DEF RuntimeChangesAreTimely, Timely
<1>3. QED
  BY <1>1, <1>2, Invariance, PTL DEF Spec

-----------------------------------------------------------------------------
(* ExecutiveSession implements SessionLifecycle: every step of the Gateway, the
   browser or the Runtime is a step of the lifecycle or leaves it alone.      *)

Records == [s \in Request |-> RecordOf(s)]
Uses == [r \in Request |-> UseOf(r)]

(* What the user is promised is not touched.                               *)
Unseen == UNCHANGED <<Records, jar, HeldBefore, Uses>>

(* A session's record changes with the Runtime's and with time only.       *)
LEMMA RecordKept ==
    ASSUME NEW s \in Request, now' = now, runtime'[s] = runtime[s],
           runtime[s] # "absent" => claims'[s] = claims[s]
    PROVE  RecordOf(s)' = RecordOf(s)
  BY DEF RecordOf, RuntimeState

LEMMA RecordsKept ==
    ASSUME now' = now, runtime' = runtime,
           \A s \in Request : runtime[s] # "absent" => claims'[s] = claims[s]
    PROVE  Records' = Records
  BY RecordKept DEF Records

(* The sessions held before change with the jar and with a delivery only.  *)
LEMMA HeldKept ==
    ASSUME jar' = jar,
           \A s \in Request :
              \/ request'[s] = request[s]
              \/ request[s].phase # "delivered" /\ request'[s].phase # "delivered"
    PROVE  HeldBefore' = HeldBefore
  BY DEF HeldBefore

(* A request that is neither sent nor replied to by the step.              *)
LEMMA UseKept ==
    ASSUME NEW r \in Request, r \in doomed' <=> r \in doomed,
           request'[r].op = request[r].op,
           \/ request'[r] = request[r]
           \/ /\ request[r].phase \notin {"unsent", "replied", "delivered"}
              /\ request'[r].phase \notin {"unsent", "replied", "delivered"}
           \/ /\ request[r].phase \in {"replied", "delivered"}
              /\ request'[r].phase \in {"replied", "delivered"}
              /\ request'[r].result = request[r].result
           \/ /\ request[r].phase \notin {"unsent", "replied", "delivered"}
              /\ request'[r].phase \in {"replied", "delivered"}
              /\ request'[r].result # "granted"
    PROVE  UseOf(r)' = UseOf(r)
  BY DEF UseOf

LEMMA UsesKept ==
    ASSUME \A r \in Request : UseOf(r)' = UseOf(r)
    PROVE  Uses' = Uses
  BY DEF Uses

(* A request is sent: it renews, or it asks on the session that is held.   *)
LEMMA SendStep ==
    ASSUME Inv, NEW r \in Request, NEW op \in Op, Send(r, op)
    PROVE  Lifecycle!Renew(r) \/ Lifecycle!Ask(r)
<1> USE DEF gateway, browser
<1>0. /\ TypeOK /\ request[r].phase = "unsent" /\ r \notin doomed
      /\ jar \in Request \cup {NoSid}
  BY DEF Inv, DoomedInv, Send, TypeOK
<1>1. request'[r] = Sent(op) /\ \A p \in Request \ {r} : request'[p] = request[p]
  BY <1>0 DEF Send, TypeOK
<1>2. Sent(op).op = op /\ Sent(op).phase = "sent"
  BY <1>0, SentFields
<1>3. Records' = Records /\ jar' = jar
  BY RecordsKept DEF Send
<1>4. HeldBefore' = HeldBefore
  BY <1>0, <1>1, <1>2, <1>3, HeldKept
<1>5. \A p \in Request \ {r} : UseOf(p)' = UseOf(p)
  BY <1>1, UseKept DEF Send
<1>6. Uses[r] = "idle" /\ Uses \in [Request -> {"idle", "renewal", "barred", "granted", "open"}]
  BY <1>0 DEF Uses, UseOf
<1>7. CASE op = "login"
  <2>1. UseOf(r)' = "renewal"
    BY <1>1, <1>2, <1>7 DEF UseOf
  <2>2. Uses' = [Uses EXCEPT ![r] = "renewal"]
    BY <1>5, <2>1 DEF Uses
  <2>3. QED
    BY <1>3, <1>4, <1>6, <2>2 DEF Lifecycle!Renew, Records, Uses
<1>8. CASE op # "login"
  <2> DEFINE over == \E s \in {jar} \ {NoSid} : Records[s] = "over"
  <2>1. over <=> jar \in Request /\ RuntimeState(jar) \in {"expired", "revoked"}
    <3>1. ASSUME jar \in Request
          PROVE  Records[jar] = "over" <=> RuntimeState(jar) \in {"expired", "revoked"}
      BY <1>0, <3>1 DEF Records, RecordOf, RuntimeState, TypeOK
    <3>2. QED
      BY <1>0, <3>1, NoSidAssumption
  <2>2. r \in doomed' <=> over
    BY <1>0, <1>8, <2>1 DEF Send
  <2> HIDE DEF over
  <2>3. UseOf(r)' = IF over THEN "barred" ELSE "open"
    BY <1>1, <1>2, <1>8, <2>2 DEF UseOf
  <2>4. Uses' = [Uses EXCEPT ![r] = IF over THEN "barred" ELSE "open"]
    BY <1>5, <2>3 DEF Uses
  <2>5. QED
    BY <1>3, <1>4, <1>6, <2>4 DEF Lifecycle!Ask, Lifecycle!Given, Records, Uses, over
<1>9. QED
  BY <1>7, <1>8

(* A handler that goes on, without a reply, is not seen.                   *)
LEMMA HandlerStep ==
    ASSUME Inv, NEW r \in Request,
           Waits(r) \/ IssueSession(r) \/ Starts(r) \/ Fails(r)
    PROVE  Unseen
<1> USE DEF gateway, browser
<1>0. TypeOK
  BY DEF Inv
<1>1. /\ request[r].phase \in {"sent", "waiting", "calling"}
      /\ request'[r].phase \in {"waiting", "calling", "answered"}
      /\ request'[r].op = request[r].op
      /\ \A p \in Request \ {r} : request'[p] = request[p]
  <2>1. CASE Waits(r)
    BY <1>0, <2>1 DEF Waits, TypeOK, RequestState
  <2>2. CASE IssueSession(r)
    BY <1>0, <2>2 DEF IssueSession, Calling, TypeOK, RequestState
  <2>3. CASE Starts(r)
    BY <1>0, <2>3 DEF Starts, Calling, TypeOK, RequestState
  <2>4. CASE Fails(r)
    BY <1>0, <2>4 DEF Fails, Answered, TypeOK, RequestState
  <2>5. QED
    BY <2>1, <2>2, <2>3, <2>4
<1>2. UNCHANGED <<now, runtime, jar, doomed>>
  BY DEF Waits, IssueSession, Starts, Fails
<1>3. \A s \in Request : runtime[s] # "absent" => claims'[s] = claims[s]
  <2>1. CASE IssueSession(r)
    <3>1. runtime[r] = "absent"
      BY <2>1, MintedIsNew DEF IssueSession
    <3>2. QED
      BY <1>0, <2>1, <3>1 DEF IssueSession, TypeOK
  <2>2. QED
    BY <2>1 DEF Waits, Starts, Fails
<1>4. Records' = Records
  BY <1>2, <1>3, RecordsKept
<1>5. HeldBefore' = HeldBefore
  BY <1>1, <1>2, HeldKept
<1>6. \A p \in Request : UseOf(p)' = UseOf(p)
  BY <1>1, <1>2, UseKept
<1>7. QED
  BY <1>2, <1>4, <1>5, <1>6, UsesKept DEF Unseen

(* A reply grants the request, or is not seen.                             *)
LEMMA ReplyStep ==
    ASSUME Inv, NEW r \in Request, NEW outcome \in Outcome, NEW setCookie \in Cookie,
           Replies(r, outcome, setCookie)
    PROVE  Unseen \/ Lifecycle!Grant(r)
<1> USE DEF browser
<1>0. TypeOK
  BY DEF Inv
<1>1. /\ request[r].phase \in {"sent", "waiting", "answered"}
      /\ request'[r].phase = "replied" /\ request'[r].op = request[r].op
      /\ request'[r].result = outcome
      /\ \A p \in Request \ {r} : request'[p] = request[p]
  BY <1>0 DEF Replies, Replied, TypeOK, RequestState
<1>2. UNCHANGED <<now, runtime, claims, jar, doomed>>
  BY DEF Replies
<1>3. Records' = Records
  BY <1>2, RecordsKept
<1>4. HeldBefore' = HeldBefore
  BY <1>1, <1>2, HeldKept
<1>5. \A p \in Request \ {r} : UseOf(p)' = UseOf(p)
  BY <1>1, <1>2, UseKept
<1>6. CASE UseOf(r)' = UseOf(r)
  BY <1>2, <1>3, <1>4, <1>5, <1>6, UsesKept DEF Unseen
<1>7. CASE UseOf(r)' # UseOf(r)
  <2>1. outcome = "granted" /\ request[r].op # "login" /\ r \notin doomed
    BY <1>1, <1>2, <1>7 DEF UseOf
  <2>2. UseOf(r) = "open" /\ UseOf(r)' = "granted"
    BY <1>1, <1>2, <2>1 DEF UseOf
  <2>3. Uses[r] = "open" /\ Uses' = [Uses EXCEPT ![r] = "granted"]
    BY <1>5, <2>2 DEF Uses
  <2>4. QED
    BY <1>2, <1>3, <1>4, <2>3 DEF Lifecycle!Grant, Records, Uses
<1>8. QED
  BY <1>6, <1>7

(* The Runtime serves a call: a session begins, ends, or keeps its record. *)
LEMMA ServeStep ==
    ASSUME Inv, NEW r \in Request, RuntimeServes(r)
    PROVE  \/ Unseen
           \/ \E s \in Request : Lifecycle!Begin(s) \/ Lifecycle!End({s})
<1> USE DEF gateway, browser
<1>0. TypeOK /\ r \in calls
  BY DEF Inv, RuntimeServes
<1>1. PICK s \in Request : s = request[r].sid /\ s \in issued
  BY <1>0, SessionOfRequest
<1>2. UNCHANGED <<now, claims, jar, doomed>>
  BY DEF RuntimeServes
<1>3. /\ now < request[r].deadline => now < claims[s].exp
      /\ request[r].op = "login" => runtime[s] = "absent"
  <2>1. request[r].deadline <= claims[s].exp /\ (request[r].op = "login" => s = r)
    BY <1>0, <1>1 DEF Inv, CallInv
  <2>2. now \in Nat /\ request[r].deadline \in Nat /\ claims[s].exp \in Nat
    BY <1>0, <1>1, RequestFields DEF TypeOK
  <2>3. QED
    BY <1>0, <1>1, <2>1, <2>2 DEF Inv, SessionInv
<1>4. \A p \in Request :
         \/ request'[p] = request[p]
         \/ /\ request[p].phase = "calling" /\ request'[p].phase = "answered"
            /\ request'[p].op = request[p].op
  BY ServedFields
<1>5. HeldBefore' = HeldBefore
  BY <1>2, <1>4, HeldKept
<1>6. Uses' = Uses
  <2>1. \A p \in Request : UseOf(p)' = UseOf(p)
    BY <1>2, <1>4, UseKept
  <2>2. QED
    BY <2>1, UsesKept
<1>7. runtime' = [runtime EXCEPT ![s] = runtime'[s]]
  BY <1>0, <1>1 DEF RuntimeServes, TypeOK
<1>8. \A p \in Request \ {s} : RecordOf(p)' = RecordOf(p)
  <2>1. \A p \in Request \ {s} : runtime'[p] = runtime[p]
    BY <1>0, <1>7 DEF TypeOK
  <2>2. QED
    BY <1>2, <2>1, RecordKept
<1>9. \/ runtime'[s] = runtime[s]
      \/ runtime[s] = "absent" /\ runtime'[s] = "active" /\ now < claims[s].exp
      \/ runtime[s] = "active" /\ runtime'[s] = "revoked" /\ now < claims[s].exp
  BY <1>0, <1>1, <1>3 DEF RuntimeServes, RuntimeState, TypeOK
<1>10. now \in Nat /\ claims[s].exp \in Nat
  BY <1>0, <1>1 DEF TypeOK
<1>11. CASE runtime'[s] = runtime[s]
  <2>1. RecordOf(s)' = RecordOf(s)
    BY <1>1, <1>2, <1>11, RecordKept
  <2>2. Records' = Records
    BY <1>8, <2>1 DEF Records
  <2>3. QED
    BY <1>2, <1>5, <1>6, <2>2 DEF Unseen
<1>12. CASE runtime[s] = "absent" /\ runtime'[s] = "active" /\ now < claims[s].exp
  <2>1. RecordOf(s) = "none" /\ RecordOf(s)' = "active"
    BY <1>2, <1>10, <1>12 DEF RecordOf, RuntimeState
  <2>2. Records[s] = "none" /\ Records' = [Records EXCEPT ![s] = "active"]
    BY <1>1, <1>8, <2>1 DEF Records
  <2>3. Lifecycle!Begin(s)
    BY <1>2, <1>5, <1>6, <2>2 DEF Lifecycle!Begin, Records, Uses
  <2>4. QED
    BY <1>1, <2>3
<1>13. CASE runtime[s] = "active" /\ runtime'[s] = "revoked" /\ now < claims[s].exp
  <2>1. RecordOf(s) = "active" /\ RecordOf(s)' = "over"
    BY <1>2, <1>10, <1>13 DEF RecordOf, RuntimeState
  <2>2. /\ Records[s] = "active"
        /\ Records' = [p \in Request |-> IF p \in {s} THEN "over" ELSE Records[p]]
    BY <1>1, <1>8, <2>1 DEF Records
  <2>3. Lifecycle!End({s})
    BY <1>2, <1>5, <1>6, <2>2 DEF Lifecycle!End, Records, Uses
  <2>4. QED
    BY <1>1, <2>3
<1>14. QED
  BY <1>9, <1>11, <1>12, <1>13

(* A delivered reply gives the browser a session, takes the one it has, or *)
(* leaves it.                                                              *)
LEMMA DeliverStep ==
    ASSUME Inv, NEW r \in Request, Deliver(r)
    PROVE  Unseen \/ Lifecycle!Hold(r) \/ Lifecycle!Drop
<1> USE DEF gateway, browser
<1>0. TypeOK /\ jar \in Request \cup {NoSid}
  BY DEF Inv, TypeOK
<1>1. /\ request[r].phase = "replied" /\ request'[r].phase = "delivered"
      /\ request'[r].op = request[r].op /\ request'[r].result = request[r].result
      /\ request'[r].cookie = request[r].cookie
      /\ \A p \in Request \ {r} : request'[p] = request[p]
  BY <1>0 DEF Deliver, TypeOK, RequestState
<1>2. UNCHANGED <<now, runtime, claims, doomed>>
  BY DEF Deliver
<1>3. Records' = Records
  BY <1>2, RecordsKept
<1>4. Uses' = Uses
  <2>1. \A p \in Request : UseOf(p)' = UseOf(p)
    BY <1>1, <1>2, UseKept
  <2>2. QED
    BY <2>1, UsesKept
<1>5. jar # NoSid => Delivered(jar)
  BY DEF Inv, JarInv
<1>6. CASE request[r].cookie = "set"
  <2>1. request[r].sid = r /\ runtime[r] # "absent"
    BY <1>6 DEF Inv, RequestInv
  <2>2. jar' = r
    BY <1>6, <2>1 DEF Deliver
  <2>3. Records[r] # "none"
    BY <1>0, <2>1 DEF Records, RecordOf, RuntimeState, TypeOK
  <2>4. r \notin HeldBefore \cup ({jar} \ {NoSid})
    BY <1>1, <1>5 DEF HeldBefore, Delivered
  <2>5. HeldBefore' = HeldBefore \cup ({jar} \ {NoSid})
    BY <1>0, <1>1, <1>5, <2>2, <2>4, NoSidAssumption DEF HeldBefore, Delivered
  <2>6. QED
    BY <1>3, <1>4, <2>2, <2>3, <2>4, <2>5
       DEF Lifecycle!Hold, Lifecycle!Given, Records, Uses
<1>7. CASE request[r].cookie = "clear"
  <2>1. jar' = NoSid
    BY <1>7 DEF Deliver
  <2>2. HeldBefore' = HeldBefore \cup ({jar} \ {NoSid})
    BY <1>0, <1>1, <1>5, <1>7, <2>1, NoSidAssumption DEF HeldBefore, Delivered
  <2>3. CASE jar = NoSid
    BY <1>3, <1>4, <2>1, <2>2, <2>3 DEF Unseen
  <2>4. CASE jar # NoSid
    BY <1>3, <1>4, <2>1, <2>2, <2>4
       DEF Lifecycle!Drop, Lifecycle!Given, Records, Uses
  <2>5. QED
    BY <2>3, <2>4
<1>8. CASE request[r].cookie = "keep"
  <2>1. jar' = jar
    BY <1>8 DEF Deliver
  <2>2. HeldBefore' = HeldBefore
    BY <1>1, <1>8, <2>1 DEF HeldBefore
  <2>3. QED
    BY <1>3, <1>4, <2>1, <2>2 DEF Unseen
<1>9. QED
  BY <1>0, <1>6, <1>7, <1>8, RequestFields

(* A restart and a sign-in at the provider are not seen.                   *)
LEMMA OutsideStep ==
    ASSUME Inv, Restart \/ ProviderSignIn
    PROVE  Unseen
<1> USE DEF gateway, browser
<1>0. TypeOK
  BY DEF Inv
<1>1. UNCHANGED <<now, runtime, claims, jar, doomed>>
  BY DEF Restart, ProviderSignIn
<1>2. \A p \in Request :
         \/ request'[p] = request[p]
         \/ /\ request[p].phase \in {"waiting", "calling", "answered"}
            /\ request'[p].phase = "dropped" /\ request'[p].op = request[p].op
  BY <1>0 DEF Restart, ProviderSignIn, TypeOK, RequestState
<1>3. Records' = Records
  BY <1>1, RecordsKept
<1>4. HeldBefore' = HeldBefore
  BY <1>1, <1>2, HeldKept
<1>5. \A p \in Request : UseOf(p)' = UseOf(p)
  BY <1>1, <1>2, UseKept
<1>6. QED
  BY <1>1, <1>3, <1>4, <1>5, UsesKept DEF Unseen

(* Time passes: the sessions that expire end.                              *)
LEMMA TickStep ==
    ASSUME Inv, Tick
    PROVE  \E ended \in SUBSET Request : Lifecycle!End(ended)
<1> DEFINE ended == {s \in Request : RecordOf(s) = "active" /\ RecordOf(s)' # "active"}
<1> USE DEF gateway, browser
<1>0. TypeOK
  BY DEF Inv
<1>1. now' = now + 1 /\ UNCHANGED <<runtime, claims, request, jar, doomed>>
  BY DEF Tick
<1>2. ASSUME NEW s \in Request
      PROVE  RecordOf(s)' = IF s \in ended THEN "over" ELSE RecordOf(s)
  <2>1. runtime[s] \in {"absent", "active", "revoked"} /\ now \in Nat /\ claims[s].exp \in Nat
    BY <1>0 DEF TypeOK
  <2>2. \/ RecordOf(s)' = RecordOf(s)
        \/ RecordOf(s) = "active" /\ RecordOf(s)' = "over"
    BY <1>1, <2>1 DEF RecordOf, RuntimeState
  <2>3. QED
    BY <2>2
<1>3. \A s \in ended : Records[s] = "active"
  BY DEF Records
<1> HIDE DEF ended
<1>4. Records' = [s \in Request |-> IF s \in ended THEN "over" ELSE Records[s]]
  BY <1>2 DEF Records
<1>5. HeldBefore' = HeldBefore
  BY <1>1, HeldKept
<1>6. Uses' = Uses
  <2>1. \A p \in Request : UseOf(p)' = UseOf(p)
    BY <1>1, UseKept
  <2>2. QED
    BY <2>1, UsesKept
<1>7. Lifecycle!End(ended)
  BY <1>1, <1>3, <1>4, <1>5, <1>6 DEF Lifecycle!End, Records, Uses
<1>8. ended \in SUBSET Request
  BY DEF ended
<1>9. QED
  BY <1>7, <1>8

-----------------------------------------------------------------------------
LEMMA InitiallyIdle ==
    Init => Lifecycle!Init
<1> SUFFICES ASSUME Init PROVE Lifecycle!Init
  OBVIOUS
<1>1. \A s \in Request : RecordOf(s) = "none" /\ UseOf(s) = "idle"
  BY DEF Init, RecordOf, RuntimeState, UseOf, Unsent
<1>2. HeldBefore = {}
  BY DEF Init, HeldBefore, Unsent
<1>3. jar = NoSid
  BY DEF Init
<1>4. QED
  BY <1>1, <1>2, <1>3 DEF Lifecycle!Init

(* A step that is not seen leaves the lifecycle alone.                     *)
LEMMA UnseenStutters ==
    Unseen => UNCHANGED Lifecycle!vars
  BY DEF Unseen, Lifecycle!vars, Records, Uses

LEMMA StepImplements ==
    ASSUME Inv, [Next]_vars
    PROVE  [Lifecycle!Next]_Lifecycle!vars
<1>1. ASSUME NEW r \in Request, NEW op \in Op, Send(r, op) PROVE Lifecycle!Next
  BY <1>1, SendStep DEF Lifecycle!Next
<1>2. ASSUME NEW r \in Request, Waits(r) \/ IssueSession(r) \/ Starts(r) \/ Fails(r)
      PROVE  UNCHANGED Lifecycle!vars
  BY <1>2, HandlerStep, UnseenStutters
<1>3. ASSUME NEW r \in Request, NEW outcome \in Outcome, NEW setCookie \in Cookie,
             Replies(r, outcome, setCookie)
      PROVE  [Lifecycle!Next]_Lifecycle!vars
  BY <1>3, ReplyStep, UnseenStutters DEF Lifecycle!Next
<1>4. ASSUME NEW r \in Request, RuntimeServes(r)
      PROVE  [Lifecycle!Next]_Lifecycle!vars
  BY <1>4, ServeStep, UnseenStutters DEF Lifecycle!Next
<1>5. ASSUME NEW r \in Request, Deliver(r)
      PROVE  [Lifecycle!Next]_Lifecycle!vars
  BY <1>5, DeliverStep, UnseenStutters DEF Lifecycle!Next
<1>6. ASSUME Restart \/ ProviderSignIn PROVE UNCHANGED Lifecycle!vars
  BY <1>6, OutsideStep, UnseenStutters
<1>7. ASSUME Tick PROVE Lifecycle!Next
  BY <1>7, TickStep DEF Lifecycle!Next
<1>8. CASE UNCHANGED vars
  <2>1. Unseen
    BY <1>8 DEF vars, gateway, browser, Unseen, Records, RecordOf, RuntimeState,
                HeldBefore, Uses, UseOf
  <2>2. QED
    BY <2>1, UnseenStutters
<1>9. CASE Next
  <2>1. TypeOK
    BY DEF Inv
  <2>2. QED
    BY <1>1, <1>2, <1>3, <1>4, <1>5, <1>6, <1>7, <1>9, <2>1, Shapes
<1>10. QED
  BY <1>8, <1>9

(* The Gateway, the browser and the Runtime together keep the promise that *)
(* SessionLifecycle states: no loss, delay or reordering of calls and      *)
(* replies, and no restart, makes a session live, be held or be used       *)
(* otherwise.                                                              *)
THEOREM Implementation == Spec => ImplementsLifecycle
<1>1. Init => Lifecycle!Init
  BY InitiallyIdle
<1>2. Inv /\ [Next]_vars => [Lifecycle!Next]_Lifecycle!vars
  BY StepImplements
<1>3. QED
  BY <1>1, <1>2, Invariance, PTL DEF Spec, ImplementsLifecycle, Lifecycle!Spec
=============================================================================
