------------------------ MODULE RuntimeAdmissionProofs ------------------------
(***************************************************************************)
(* The three properties of RuntimeAdmission, for any number of requests    *)
(* and actions and any age, skew, cooldown and concurrency.                *)
(***************************************************************************)
EXTENDS RuntimeAdmission, TLAPS

(* What the Runtime made available last: never in the future, and an action
   that is available is so now. *)
RuntimeInv ==
    \A a \in Action : /\ lastAvailable[a] <= now
                      /\ a \in available => lastAvailable[a] = now

(* The Runtime made each action that p admits available no earlier than Skew
   before it says it evaluated p. *)
Known(p) == \A a \in p.admits : lastAvailable[a] # 0 /\ p.at <= lastAvailable[a] + Skew

HeldInv == projection # None => expiresAt = projection.at + MaxAge /\ Known(projection)

(* What a request in this state knows: of the projection it was answered with,
   and of the children a bootstrap has yet to read. *)
Good(q) ==
    /\ q.sentAt <= now
    /\ q.answer # None =>
          Known(q.answer) /\ \A a \in q.answer.admits : lastAvailable[a] >= q.sentAt
    /\ \A a \in q.todo : lastAvailable[a] # 0 /\ lastAvailable[a] >= q.sentAt
    /\ q.kind # "bootstrap" => q.todo = {}
    /\ q.phase \in {"refreshing", "joined"} => q.target # {}

(* The promise is that of the one request whose refresh is under way. *)
PromiseInv == \A r \in Request : request[r].phase = "refreshing" <=> refreshPromise = r

(* As long as no refresh is under way, a failure is remembered with its cooldown. *)
CooldownInv ==
    refreshPromise = None /\ failedAt # 0 =>
        refreshFailure /\ refreshRetryAt >= failedAt + Cooldown

Inv ==
    /\ TypeOK /\ RuntimeInv /\ HeldInv /\ PromiseInv /\ CooldownInv
    /\ \A r \in Request : Good(request[r])

-----------------------------------------------------------------------------
(* The fields of a state that is built from Idle. *)
State(kind, phase, target, basis, reading, sentAt) ==
    [kind |-> kind, phase |-> phase, target |-> target, answer |-> None, basis |-> basis,
     reading |-> reading, todo |-> {}, sentAt |-> sentAt]

LEMMA IdleIs == ASSUME NEW q, q = Idle PROVE q = State("read", "idle", {}, 0, {}, 0)
  BY DEF Idle, State

LEMMA ReadingIs ==
    ASSUME NEW basis, NEW reading, NEW q,
           q = [Idle EXCEPT !.phase = "reading", !.basis = basis, !.reading = reading]
    PROVE  q = State("read", "reading", {}, basis, reading, 0)
  BY DEF Idle, State

LEMMA TargetIs ==
    ASSUME NEW phase, NEW a, NEW q, q = [Idle EXCEPT !.phase = phase, !.target = {a}]
    PROVE  q = State("read", phase, {a}, 0, {}, 0)
  BY DEF Idle, State

LEMMA FetchingIs ==
    ASSUME NEW kind, NEW q,
           q = [Idle EXCEPT !.kind = kind, !.phase = "fetching", !.sentAt = now]
    PROVE  q = State(kind, "fetching", {}, 0, {}, now)
  BY DEF Idle, State

(* Such a state is one of a request. *)
LEMMA StateType ==
    ASSUME NEW kind \in {"read", "registry", "bootstrap"},
           NEW phase \in {"idle", "refreshing", "joined", "fetching", "reading"},
           NEW target \in SUBSET Action, NEW basis \in Int, NEW reading \in SUBSET Action,
           NEW sentAt \in Nat, NEW q, q = State(kind, phase, target, basis, reading, sentAt)
    PROVE  /\ q \in RequestState
           /\ q.kind = kind /\ q.phase = phase /\ q.answer = None /\ q.reading = reading
           /\ q.todo = {} /\ q.sentAt = sentAt /\ q.target = target
<1>1. q \in RequestState
  BY DEF State, RequestState
<1>2. QED
  BY <1>1 DEF State

(* The longer of two waits. *)
LEMMA Longer ==
    ASSUME NEW m \in Nat, NEW n \in Nat PROVE Max({m, n}) \in Nat /\ Max({m, n}) >= m
<1>1. PICK x \in {m, n} : \A y \in {m, n} : x >= y
  OBVIOUS
<1>2. Max({m, n}) \in {m, n} /\ \A y \in {m, n} : Max({m, n}) >= y
  BY <1>1 DEF Max
<1>3. QED
  BY <1>2

(* The initial state satisfies the invariant. *)
LEMMA InitInv == Init => Inv
<1> SUFFICES ASSUME Init PROVE Inv
  OBVIOUS
<1>1. PICK q : q = Idle
  OBVIOUS
<1>2. /\ q \in RequestState /\ q.kind = "read" /\ q.phase = "idle" /\ q.answer = None
      /\ q.reading = {} /\ q.todo = {} /\ q.sentAt = 0
  BY <1>1, IdleIs, StateType
<1>3. \A r \in Request : request[r] = q
  BY <1>1 DEF Init
<1>4. TypeOK
  <2>1. request \in [Request -> RequestState]
    BY <1>1, <1>2 DEF Init
  <2>2. lastAvailable \in [Action -> Nat]
    BY DEF Init
  <2>3. \A r \in Request : request[r].phase = "reading" <=> request[r].reading # {}
    BY <1>2, <1>3
  <2>4. /\ now \in Nat \ {0} /\ available \subseteq Action
        /\ projection \in Projection \cup {None}
        /\ expiresAt \in Int /\ refreshPromise \in Request \cup {None}
        /\ refreshFailure \in BOOLEAN /\ refreshRetryAt \in Nat /\ failedAt \in Nat
    <3>1. /\ now = 1 /\ available \in SUBSET Action /\ projection = None /\ expiresAt = 0
          /\ refreshPromise = None /\ refreshFailure = FALSE /\ refreshRetryAt = 0
          /\ failedAt = 0
      BY DEF Init
    <3>2. available \subseteq Action
      BY <3>1
    <3>3. refreshFailure \in BOOLEAN
      BY <3>1
    <3>4. refreshRetryAt \in Nat /\ failedAt \in Nat /\ now \in Nat \ {0} /\ expiresAt \in Int
      BY <3>1
    <3>5. QED
      BY <3>1, <3>2, <3>3, <3>4
  <2>5. QED
    BY <2>1, <2>2, <2>3, <2>4 DEF TypeOK
<1>5. PromiseInv
  BY <1>2, <1>3, NoneAssumption DEF Init, PromiseInv
<1>6. \A r \in Request : Good(request[r])
  BY <1>2, <1>3 DEF Init, Good
<1>7. QED
  BY <1>4, <1>5, <1>6 DEF Init, Inv, RuntimeInv, HeldInv, CooldownInv

-----------------------------------------------------------------------------
(* While the Runtime's state and the clock stand still, what is known stays so. *)
LEMMA GoodStays ==
    ASSUME UNCHANGED <<now, runtime>>, NEW q, Good(q) PROVE Good(q)'
  BY DEF Good, Known, runtime

LEMMA HeldStays ==
    ASSUME Inv, UNCHANGED <<now, runtime, held>> PROVE HeldInv'
  BY DEF Inv, HeldInv, Known, runtime, held

(* One request moves to a state that is good. *)
LEMMA OneRequest ==
    ASSUME Inv, UNCHANGED <<now, runtime>>, NEW r \in Request, NEW q \in RequestState,
           request' = [request EXCEPT ![r] = q],
           Good(q), q.phase = "reading" <=> q.reading # {}
    PROVE  /\ request' \in [Request -> RequestState]
           /\ \A o \in Request : request'[o].phase = "reading" <=> request'[o].reading # {}
           /\ \A o \in Request : Good(request[o])'
           /\ request'[r] = q /\ \A o \in Request \ {r} : request'[o] = request[o]
<1>1. \A o \in Request : request'[o] = IF o = r THEN q ELSE request[o]
  BY DEF Inv, TypeOK
<1>2. ASSUME NEW o \in Request PROVE Good(request[o])'
  <2>1. PICK p : p = request'[o]
    OBVIOUS
  <2>2. Good(p)
    BY <1>1, <2>1 DEF Inv
  <2>3. Good(p)'
    BY <2>2, GoodStays
  <2>4. QED
    BY <2>1, <2>3
<1>3. QED
  BY <1>1, <1>2 DEF Inv, TypeOK

(* A state that holds no answer and no children is good. *)
LEMMA BareIsGood ==
    ASSUME Inv, NEW q \in RequestState, q.answer = None, q.todo = {}, q.sentAt \in {0, now},
           q.phase \in {"refreshing", "joined"} => q.target # {}
    PROVE  Good(q)
  BY DEF Good, Inv, TypeOK

LEMMA IdleBare ==
    ASSUME Inv
    PROVE  /\ Idle \in RequestState /\ Good(Idle) /\ Idle.phase = "idle" /\ Idle.reading = {}
           /\ Idle.answer = None /\ Idle.todo = {} /\ Idle.kind = "read"
<1>1. PICK q : q = Idle
  OBVIOUS
<1>2. /\ q \in RequestState /\ q.phase = "idle" /\ q.answer = None /\ q.todo = {}
      /\ q.sentAt = 0 /\ q.reading = {} /\ q.kind = "read"
  BY <1>1, IdleIs, StateType
<1>3. Good(q)
  BY <1>2, BareIsGood
<1>4. QED
  BY <1>1, <1>2, <1>3

(* A read that is decided on p reads its target, or nothing. *)
Verdict(target, p) ==
    IF target \subseteq p.admits
    THEN [Idle EXCEPT !.phase = "reading", !.basis = p.at, !.reading = target]
    ELSE Idle

LEMMA VerdictIs ==
    ASSUME NEW target, NEW p, NEW q, q = Verdict(target, p)
    PROVE  \/ target \subseteq p.admits /\ q = State("read", "reading", {}, p.at, target, 0)
           \/ q = Idle
  BY ReadingIs DEF Verdict

LEMMA ReadingBare ==
    ASSUME Inv, NEW at \in Int, NEW target \in SUBSET Action, NEW q,
           q = State("read", "reading", {}, at, target, 0)
    PROVE  /\ q \in RequestState /\ Good(q) /\ q.kind = "read" /\ q.phase = "reading"
           /\ q.reading = target
<1>1. /\ q \in RequestState /\ q.phase = "reading" /\ q.answer = None /\ q.todo = {}
      /\ q.sentAt = 0 /\ q.reading = target /\ q.kind = "read"
  BY DEF State, RequestState
<1>2. QED
  BY <1>1, BareIsGood

-----------------------------------------------------------------------------
(* What the steps of one request leave to show. *)
LEMMA KeepsInv ==
    ASSUME Inv, UNCHANGED <<now, runtime>>,
           projection' \in Projection \cup {None}, expiresAt' \in Int, HeldInv',
           refreshPromise' \in Request \cup {None}, refreshFailure' \in BOOLEAN,
           refreshRetryAt' \in Nat, failedAt' \in Nat, PromiseInv', CooldownInv',
           request' \in [Request -> RequestState],
           \A o \in Request : request'[o].phase = "reading" <=> request'[o].reading # {},
           \A o \in Request : Good(request[o])'
    PROVE  Inv'
  BY DEF Inv, TypeOK, RuntimeInv, runtime

(* A request moves between other phases than "refreshing". *)
LEMMA PromiseStays ==
    ASSUME Inv, UNCHANGED refreshPromise, NEW r \in Request,
           request[r].phase # "refreshing", request'[r].phase # "refreshing",
           \A o \in Request \ {r} : request'[o] = request[o]
    PROVE  PromiseInv'
  BY DEF Inv, PromiseInv

LEMMA ReadDecidesInv ==
    ASSUME Inv, NEW r \in Request, NEW a \in Action, ReadDecides(r, a)
    PROVE  /\ Inv'
           /\ \A b \in request'[r].reading : lastAvailable[b] # 0
                 /\ now < lastAvailable[b] + MaxAge + Skew
           /\ request'[r].kind = "read" /\ request'[r].phase # "refreshing"
           /\ \A o \in Request \ {r} : request'[o] = request[o]
<1>1. projection \in Projection /\ now < projection.at + MaxAge /\ Known(projection)
  BY DEF ReadDecides, Holds, Inv, TypeOK, HeldInv
<1>2. PICK p \in Projection : p = projection
  BY <1>1
<1>3. PICK q : q = Verdict({a}, p)
  OBVIOUS
<1>4. request' = [request EXCEPT ![r] = q]
  <2>1. a \in p.admits <=> {a} \subseteq p.admits
    OBVIOUS
  <2>2. QED
    BY <1>2, <1>3, <2>1 DEF ReadDecides, Verdict
<1>a. \/ {a} \subseteq p.admits /\ q = State("read", "reading", {}, p.at, {a}, 0)
      \/ q = Idle
  BY <1>3, VerdictIs
<1> HIDE <1>3
<1>5. /\ q \in RequestState /\ Good(q) /\ q.kind = "read"
      /\ q.reading \subseteq p.admits /\ q.phase \in {"reading", "idle"}
      /\ q.phase = "reading" <=> q.reading # {}
  <2>1. p.at \in Int
    BY DEF Projection
  <2>2. QED
    BY <1>a, <2>1, ReadingBare, IdleBare
<1>6. UNCHANGED <<now, runtime, held, refreshPromise, cooldown>> /\ UNCHANGED <<now, runtime>>
      /\ UNCHANGED <<now, runtime, held>>
  BY DEF ReadDecides
<1>7. /\ request' \in [Request -> RequestState]
      /\ \A o \in Request : request'[o].phase = "reading" <=> request'[o].reading # {}
      /\ \A o \in Request : Good(request[o])'
      /\ request'[r] = q /\ \A o \in Request \ {r} : request'[o] = request[o]
  BY <1>4, <1>5, <1>6, OneRequest
<1>8. PromiseInv'
  BY <1>5, <1>6, <1>7, PromiseStays DEF ReadDecides
<1>9. Inv'
  BY <1>6, <1>7, <1>8, HeldStays, KeepsInv DEF Inv, TypeOK, CooldownInv, held, cooldown
<1>10. ASSUME NEW b \in q.reading
       PROVE  lastAvailable[b] # 0 /\ now < lastAvailable[b] + MaxAge + Skew
  <2>1. b \in p.admits /\ b \in Action
    BY <1>5 DEF Projection
  <2>2. lastAvailable[b] # 0 /\ p.at <= lastAvailable[b] + Skew
    BY <1>1, <1>2, <2>1 DEF Known
  <2>3. p.at \in Int /\ now \in Nat /\ lastAvailable[b] \in Nat /\ MaxAge \in Nat /\ Skew \in Nat
    BY <2>1, LimitAssumption DEF Inv, TypeOK, Projection
  <2>4. QED
    BY <1>1, <1>2, <2>2, <2>3
<1>11. QED
  BY <1>5, <1>7, <1>9, <1>10

(* A read that finds no projection keeps its target and what it waits for. *)
LEMMA TargetBare ==
    ASSUME Inv, NEW phase \in {"refreshing", "joined"}, NEW a \in Action, NEW q,
           q = [Idle EXCEPT !.phase = phase, !.target = {a}]
    PROVE  /\ q \in RequestState /\ Good(q) /\ q.phase = phase /\ q.reading = {}
<1>1. q = State("read", phase, {a}, 0, {}, 0)
  BY TargetIs
<1>2. PICK p : p = State("read", phase, {a}, 0, {}, 0)
  OBVIOUS
<1>3. /\ p \in RequestState /\ p.phase = phase /\ p.reading = {} /\ p.answer = None
      /\ p.todo = {} /\ p.sentAt = 0 /\ p.target # {}
  BY <1>2 DEF State, RequestState
<1>4. QED
  BY <1>1, <1>2, <1>3, BareIsGood

(* The Gateway holds nothing. *)
LEMMA Cleared ==
    ASSUME projection' = None, expiresAt' = 0
    PROVE  projection' \in Projection \cup {None} /\ expiresAt' \in Int /\ HeldInv'
  BY DEF HeldInv

LEMMA ReadRefreshesInv ==
    ASSUME Inv, NEW r \in Request, NEW a \in Action, ReadRefreshes(r, a)
    PROVE  /\ Inv'
           /\ request'[r].reading = {}
           /\ \A q \in Request : request[q].phase # "refreshing"
           /\ failedAt # 0 => now >= failedAt + Cooldown
           /\ \A o \in Request \ {r} : request'[o] = request[o]
<1>1. PICK q : q = [Idle EXCEPT !.phase = "refreshing", !.target = {a}]
  OBVIOUS
<1>2. request' = [request EXCEPT ![r] = q]
  BY <1>1 DEF ReadRefreshes
<1>3. /\ q \in RequestState /\ Good(q) /\ q.phase = "refreshing" /\ q.reading = {}
  BY <1>1, TargetBare
<1> HIDE <1>1
<1>4. UNCHANGED <<now, runtime>>
  BY DEF ReadRefreshes
<1>5. /\ request' \in [Request -> RequestState]
      /\ \A o \in Request : request'[o].phase = "reading" <=> request'[o].reading # {}
      /\ \A o \in Request : Good(request[o])'
      /\ request'[r] = q /\ \A o \in Request \ {r} : request'[o] = request[o]
  BY <1>2, <1>3, <1>4, OneRequest
<1>6. \A o \in Request : request[o].phase # "refreshing"
  BY NoneAssumption DEF ReadRefreshes, Inv, PromiseInv
<1>7. refreshPromise' = r /\ PromiseInv'
  BY <1>3, <1>5, <1>6 DEF ReadRefreshes, PromiseInv
<1>8. CooldownInv'
  BY <1>7, NoneAssumption DEF CooldownInv
<1>9. /\ projection' = None /\ expiresAt' = 0 /\ refreshRetryAt' = 0 /\ UNCHANGED failedAt
      /\ refreshFailure' = FALSE
  BY DEF ReadRefreshes
<1>10. refreshFailure' \in BOOLEAN
  BY <1>9
<1>11. refreshRetryAt' \in Nat /\ failedAt' \in Nat /\ refreshPromise' \in Request \cup {None}
  BY <1>7, <1>9 DEF Inv, TypeOK
<1>12. Inv'
  BY <1>4, <1>5, <1>7, <1>8, <1>9, <1>10, <1>11, Cleared, KeepsInv
<1>13. failedAt # 0 => now >= failedAt + Cooldown
  BY LimitAssumption DEF ReadRefreshes, MayRefresh, Inv, CooldownInv, TypeOK
<1>14. QED
  BY <1>3, <1>5, <1>6, <1>12, <1>13

(* The promise and the cooldown are left as they are. *)
LEMMA WaitStays ==
    ASSUME Inv, UNCHANGED refreshPromise, UNCHANGED cooldown
    PROVE  /\ CooldownInv' /\ refreshPromise' \in Request \cup {None}
           /\ refreshFailure' \in BOOLEAN /\ refreshRetryAt' \in Nat /\ failedAt' \in Nat
  BY DEF Inv, TypeOK, CooldownInv, cooldown

(* The steps that take a request out of phases other than "refreshing", read
   nothing and clear the projection. *)
LEMMA ClearingInv ==
    ASSUME Inv, NEW r \in Request, NEW q \in RequestState,
           request' = [request EXCEPT ![r] = q], Good(q),
           q.phase \notin {"reading", "refreshing"}, q.reading = {},
           request[r].phase # "refreshing",
           Clear, UNCHANGED <<now, runtime, refreshPromise>>
    PROVE  Inv' /\ request'[r] = q /\ \A o \in Request \ {r} : request'[o] = request[o]
<1>1. UNCHANGED <<now, runtime>> /\ UNCHANGED refreshPromise /\ UNCHANGED cooldown
      /\ projection' = None /\ expiresAt' = 0
  BY DEF Clear
<1>2. /\ request' \in [Request -> RequestState]
      /\ \A o \in Request : request'[o].phase = "reading" <=> request'[o].reading # {}
      /\ \A o \in Request : Good(request[o])'
      /\ request'[r] = q /\ \A o \in Request \ {r} : request'[o] = request[o]
  BY <1>1, OneRequest
<1>3. PromiseInv'
  BY <1>1, <1>2, PromiseStays
<1>4. QED
  BY <1>1, <1>2, <1>3, Cleared, WaitStays, KeepsInv

LEMMA ReadWaitsInv ==
    ASSUME Inv, NEW r \in Request, NEW a \in Action, ReadJoins(r, a) \/ ReadCoolsDown(r, a)
    PROVE  /\ Inv' /\ request'[r].reading = {} /\ request'[r].phase # "refreshing"
           /\ \A o \in Request \ {r} : request'[o] = request[o]
<1>1. CASE ReadJoins(r, a)
  <2>1. PICK q : q = [Idle EXCEPT !.phase = "joined", !.target = {a}]
    OBVIOUS
  <2>2. request' = [request EXCEPT ![r] = q]
    BY <1>1, <2>1 DEF ReadJoins
  <2>3. /\ q \in RequestState /\ Good(q) /\ q.phase = "joined" /\ q.reading = {}
    BY <2>1, TargetBare
  <2> HIDE <2>1
  <2>4. Clear /\ UNCHANGED <<now, runtime, refreshPromise>> /\ request[r].phase # "refreshing"
    BY <1>1 DEF ReadJoins
  <2>5. QED
    BY <2>2, <2>3, <2>4, ClearingInv
<1>2. CASE ReadCoolsDown(r, a)
  <2>1. /\ request' = [request EXCEPT ![r] = Idle] /\ request[r].phase # "refreshing"
        /\ Clear /\ UNCHANGED <<now, runtime, refreshPromise>>
    BY <1>2 DEF ReadCoolsDown
  <2>2. QED
    BY <2>1, IdleBare, ClearingInv
<1>3. QED
  BY <1>1, <1>2

LEMMA RegistryFailsInv ==
    ASSUME Inv, NEW r \in Request, RegistryFails(r)
    PROVE  /\ Inv' /\ request'[r].reading = {} /\ request'[r].phase # "refreshing"
           /\ \A o \in Request \ {r} : request'[o] = request[o]
<1>1. /\ request' = [request EXCEPT ![r] = Idle] /\ request[r].phase # "refreshing"
      /\ Clear /\ UNCHANGED <<now, runtime, refreshPromise>>
  BY DEF RegistryFails
<1>2. QED
  BY <1>1, IdleBare, ClearingInv

(* The steps that leave everything but one request alone. *)
LEMMA OnlyRequest ==
    ASSUME Inv, NEW r \in Request, NEW q \in RequestState,
           request' = [request EXCEPT ![r] = q], Good(q),
           q.phase = "reading" <=> q.reading # {},
           q.phase = "refreshing" <=> request[r].phase = "refreshing",
           UNCHANGED <<now, runtime, held, refreshPromise, cooldown>>
    PROVE  Inv' /\ request'[r] = q /\ \A o \in Request \ {r} : request'[o] = request[o]
<1>1. /\ UNCHANGED <<now, runtime>> /\ UNCHANGED <<now, runtime, held>>
      /\ UNCHANGED refreshPromise /\ UNCHANGED cooldown
      /\ UNCHANGED projection /\ UNCHANGED expiresAt
  BY DEF held
<1>2. /\ request' \in [Request -> RequestState]
      /\ \A o \in Request : request'[o].phase = "reading" <=> request'[o].reading # {}
      /\ \A o \in Request : Good(request[o])'
      /\ request'[r] = q /\ \A o \in Request \ {r} : request'[o] = request[o]
  BY <1>1, OneRequest
<1>3. PromiseInv'
  BY <1>1, <1>2 DEF Inv, PromiseInv
<1>4. projection' \in Projection \cup {None} /\ expiresAt' \in Int
  BY <1>1 DEF Inv, TypeOK
<1>5. QED
  BY <1>1, <1>2, <1>3, <1>4, HeldStays, WaitStays, KeepsInv

LEMMA FetchStartsInv ==
    ASSUME Inv, NEW r \in Request, NEW kind \in {"registry", "bootstrap"}, FetchStarts(r, kind)
    PROVE  /\ Inv' /\ request'[r].reading = {} /\ request'[r].phase # "refreshing"
           /\ \A o \in Request \ {r} : request'[o] = request[o]
<1>1. PICK q : q = State(kind, "fetching", {}, 0, {}, now)
  OBVIOUS
<1>2. request' = [request EXCEPT ![r] = q]
  <2>1. PICK p : p = [Idle EXCEPT !.kind = kind, !.phase = "fetching", !.sentAt = now]
                 /\ request' = [request EXCEPT ![r] = p]
    BY DEF FetchStarts
  <2>2. p = q
    BY <1>1, <2>1, FetchingIs
  <2>3. QED
    BY <2>1, <2>2
<1>3. now \in Nat
  BY DEF Inv, TypeOK
<1>4. /\ q \in RequestState /\ q.phase = "fetching" /\ q.answer = None /\ q.reading = {}
      /\ q.todo = {} /\ q.sentAt = now
  BY <1>1, <1>3 DEF State, RequestState
<1>5. Good(q)
  BY <1>4, BareIsGood
<1>6. /\ request[r].phase # "refreshing"
      /\ UNCHANGED <<now, runtime, held, refreshPromise, cooldown>>
  BY DEF FetchStarts
<1>7. QED
  BY <1>2, <1>4, <1>5, <1>6, OnlyRequest

-----------------------------------------------------------------------------
(* The Runtime answers from what it makes available now. *)
LEMMA RuntimeAnswersInv ==
    ASSUME Inv, NEW r \in Request, RuntimeAnswers(r)
    PROVE  /\ Inv' /\ \A o \in Request : request'[o].reading = request[o].reading
           /\ \A o \in Request : request'[o].phase = request[o].phase
<1>1. PICK drift \in {0, Skew}, foreign \in BOOLEAN :
         request' = [request EXCEPT ![r].answer =
            [at |-> now + drift, foreign |-> foreign, admits |-> available]]
  BY DEF RuntimeAnswers
<1>2. PICK p : p = [at |-> now + drift, foreign |-> foreign, admits |-> available]
  OBVIOUS
<1>3. p \in Projection
  BY <1>2, LimitAssumption DEF Projection, Inv, TypeOK
<1>4. p.at = now + drift /\ p.admits = available
  BY <1>2
<1>5. PICK old \in RequestState : old = request[r]
  BY DEF Inv, TypeOK
<1>6. PICK q : q = [old EXCEPT !.answer = p]
  OBVIOUS
<1>7. request' = [request EXCEPT ![r] = q]
  BY <1>1, <1>2, <1>5, <1>6 DEF Inv, TypeOK
<1>8. /\ q \in RequestState /\ q.phase = old.phase /\ q.reading = old.reading
      /\ q.target = old.target
      /\ q.todo = old.todo /\ q.kind = old.kind /\ q.sentAt = old.sentAt /\ q.answer = p
  BY <1>3, <1>6 DEF RequestState
<1>9. Good(old) /\ (old.phase = "reading" <=> old.reading # {}) /\ old.sentAt \in Nat
  BY <1>5 DEF Inv, TypeOK, RequestState
<1> HIDE <1>1, <1>2, <1>6
<1>10. Known(p)
  BY <1>4, LimitAssumption DEF Known, Inv, RuntimeInv, TypeOK
<1>11. \A a \in p.admits : lastAvailable[a] >= q.sentAt
  BY <1>4, <1>8, <1>9 DEF Good, Inv, RuntimeInv, TypeOK
<1>12. Good(q)
  BY <1>8, <1>9, <1>10, <1>11 DEF Good
<1>13. UNCHANGED <<now, runtime, held, refreshPromise, cooldown>>
  BY DEF RuntimeAnswers
<1>14. Inv' /\ request'[r] = q /\ \A o \in Request \ {r} : request'[o] = request[o]
  BY <1>5, <1>7, <1>8, <1>9, <1>12, <1>13, OnlyRequest
<1>15. QED
  BY <1>5, <1>8, <1>14

(* An answer that is adopted is held with its own expiry, and ends the cooldown. *)
LEMMA Adopted ==
    ASSUME Inv, UNCHANGED <<now, runtime>>, NEW r \in Request,
           Adoptable(request[r].answer), Adopt(request[r].answer)
    PROVE  /\ request[r].answer \in Projection /\ Known(request[r].answer)
           /\ now < request[r].answer.at + MaxAge
           /\ \A a \in request[r].answer.admits : lastAvailable[a] >= request[r].sentAt
           /\ projection' \in Projection \cup {None} /\ expiresAt' \in Int /\ HeldInv'
           /\ refreshFailure' \in BOOLEAN /\ refreshRetryAt' \in Nat /\ failedAt' \in Nat
           /\ CooldownInv'
<1>1. request[r] \in RequestState /\ Good(request[r]) /\ request[r].answer # None
  BY DEF Inv, TypeOK, Adoptable
<1>2. request[r].answer \in Projection
  BY <1>1 DEF RequestState
<1>3. PICK p \in Projection : p = request[r].answer
  BY <1>2
<1>4. /\ Known(p) /\ now < p.at + MaxAge
      /\ \A a \in p.admits : lastAvailable[a] >= request[r].sentAt
  BY <1>1, <1>3 DEF Good, Adoptable
<1>5. Known(p)'
  BY <1>4 DEF Known, runtime
<1>6. projection' = p /\ expiresAt' = p.at + MaxAge
  BY <1>3 DEF Adopt
<1>7. HeldInv' /\ expiresAt' \in Int
  <2>1. p.at \in Int /\ MaxAge \in Int
    BY LimitAssumption DEF Projection
  <2>2. Known(projection)'
    BY <1>5, <1>6 DEF Known
  <2>3. QED
    BY <1>6, <2>1, <2>2 DEF HeldInv
<1>8. refreshFailure' = FALSE /\ refreshRetryAt' = 0 /\ failedAt' = 0
  BY DEF Adopt
<1>9. CooldownInv'
  BY <1>8 DEF CooldownInv
<1>10. refreshFailure' \in BOOLEAN
  BY <1>8
<1>11. refreshRetryAt' \in Nat /\ failedAt' \in Nat
  BY <1>8
<1>12. QED
  BY <1>3, <1>4, <1>6, <1>7, <1>9, <1>10, <1>11

(* What an acceptable projection admits was available less than its age ago. *)
LEMMA AdmittedIsCurrent ==
    ASSUME Inv, NEW p \in Projection, Known(p), now < p.at + MaxAge, NEW a \in p.admits
    PROVE  a \in Action /\ lastAvailable[a] # 0 /\ now < lastAvailable[a] + MaxAge + Skew
<1>1. a \in Action /\ p.at \in Int
  BY DEF Projection
<1>2. lastAvailable[a] # 0 /\ p.at <= lastAvailable[a] + Skew
  BY DEF Known
<1>3. now \in Nat /\ lastAvailable[a] \in Nat /\ MaxAge \in Nat /\ Skew \in Nat
  BY <1>1, LimitAssumption DEF Inv, TypeOK
<1>4. QED
  BY <1>1, <1>2, <1>3

LEMMA RegistryAdoptedInv ==
    ASSUME Inv, NEW r \in Request, RegistryAdopted(r)
    PROVE  /\ Inv' /\ request'[r].reading = {} /\ request'[r].phase # "refreshing"
           /\ \A o \in Request \ {r} : request'[o] = request[o]
<1>1. /\ request' = [request EXCEPT ![r] = Idle] /\ request[r].phase # "refreshing"
      /\ Adoptable(request[r].answer) /\ Adopt(request[r].answer)
      /\ UNCHANGED <<now, runtime>> /\ UNCHANGED refreshPromise
  BY DEF RegistryAdopted
<1>2. /\ request' \in [Request -> RequestState]
      /\ \A o \in Request : request'[o].phase = "reading" <=> request'[o].reading # {}
      /\ \A o \in Request : Good(request[o])'
      /\ request'[r] = Idle /\ \A o \in Request \ {r} : request'[o] = request[o]
  BY <1>1, IdleBare, OneRequest
<1>3. PromiseInv'
  BY <1>1, <1>2, IdleBare, PromiseStays
<1>4. refreshPromise' \in Request \cup {None}
  BY <1>1 DEF Inv, TypeOK
<1>5. /\ projection' \in Projection \cup {None} /\ expiresAt' \in Int /\ HeldInv'
      /\ refreshFailure' \in BOOLEAN /\ refreshRetryAt' \in Nat /\ failedAt' \in Nat
      /\ CooldownInv'
  BY <1>1, Adopted
<1>6. QED
  BY <1>1, <1>2, <1>3, <1>4, <1>5, IdleBare, KeepsInv

(* A bootstrap reads what its own projection admits, some of it now. *)
LEMMA BootstrapAdoptedInv ==
    ASSUME Inv, NEW r \in Request, BootstrapAdopted(r)
    PROVE  /\ Inv' /\ request'[r].phase # "refreshing"
           /\ request'[r].reading # {} => request'[r].kind = "bootstrap"
           /\ \A a \in request'[r].reading :
                 lastAvailable[a] # 0 /\ lastAvailable[a] >= request[r].sentAt
           /\ \A o \in Request \ {r} : request'[o] = request[o]
<1>1. PICK old \in RequestState : old = request[r]
  BY DEF Inv, TypeOK
<1>2. /\ request[r].phase = "fetching" /\ old.kind = "bootstrap"
      /\ Adoptable(request[r].answer) /\ Adopt(request[r].answer)
      /\ UNCHANGED <<now, runtime>> /\ UNCHANGED refreshPromise
  BY <1>1 DEF BootstrapAdopted
<1>3. PICK p \in Projection :
         /\ p = request[r].answer /\ Known(p)
         /\ \A a \in p.admits : lastAvailable[a] >= old.sentAt
  BY <1>1, <1>2, Adopted
<1>4a. PICK started \in SUBSET p.admits :
         request' = [request EXCEPT ![r] =
            IF started = {} THEN Idle
            ELSE [old EXCEPT !.phase = "reading", !.answer = None, !.basis = p.at,
                             !.reading = started, !.todo = p.admits \ started]]
  BY <1>1, <1>3 DEF BootstrapAdopted, FirstReads, Inv, TypeOK
<1>4b. PICK q : q = IF started = {} THEN Idle
                    ELSE [old EXCEPT !.phase = "reading", !.answer = None, !.basis = p.at,
                                     !.reading = started, !.todo = p.admits \ started]
  OBVIOUS
<1>4. /\ request' = [request EXCEPT ![r] = q]
      /\ q = IF started = {} THEN Idle
             ELSE [old EXCEPT !.phase = "reading", !.answer = None, !.basis = p.at,
                              !.reading = started, !.todo = p.admits \ started]
  BY <1>4a, <1>4b
<1>5. p.at \in Int /\ p.admits \subseteq Action
  BY DEF Projection
<1>6. CASE started # {}
  <2>1. q = [kind |-> old.kind, phase |-> "reading", target |-> old.target, answer |-> None,
             basis |-> p.at, reading |-> started, todo |-> p.admits \ started,
             sentAt |-> old.sentAt]
    BY <1>4, <1>6 DEF RequestState
  <2>2. PICK n : n = [kind |-> old.kind, phase |-> "reading", target |-> old.target,
                      answer |-> None, basis |-> p.at, reading |-> started,
                      todo |-> p.admits \ started, sentAt |-> old.sentAt]
    OBVIOUS
  <2>3. /\ n \in RequestState
        /\ n.phase = "reading" /\ n.answer = None /\ n.reading = started
        /\ n.todo \subseteq p.admits /\ n.sentAt = old.sentAt /\ n.kind = "bootstrap"
    BY <1>2, <1>5, <2>2 DEF RequestState
  <2>4. Good(old)
    BY <1>1 DEF Inv
  <2>5. Good(n)
    BY <1>3, <2>3, <2>4 DEF Good, Known
  <2>6. \A a \in started : lastAvailable[a] # 0 /\ lastAvailable[a] >= old.sentAt
    BY <1>3, <1>4 DEF Known
  <2>7. n = q
    BY <2>1, <2>2
  <2>8. /\ request' \in [Request -> RequestState]
        /\ \A o \in Request : request'[o].phase = "reading" <=> request'[o].reading # {}
        /\ \A o \in Request : Good(request[o])'
        /\ request'[r] = n /\ \A o \in Request \ {r} : request'[o] = request[o]
    BY <1>2, <1>4, <1>6, <2>3, <2>5, <2>7, OneRequest
  <2>9. PromiseInv'
    BY <1>2, <2>3, <2>8, PromiseStays
  <2>10. refreshPromise' \in Request \cup {None}
    BY <1>2 DEF Inv, TypeOK
  <2>11. /\ projection' \in Projection \cup {None} /\ expiresAt' \in Int /\ HeldInv'
         /\ refreshFailure' \in BOOLEAN /\ refreshRetryAt' \in Nat /\ failedAt' \in Nat
         /\ CooldownInv'
    BY <1>2, Adopted
  <2>12. Inv'
    BY <1>2, <2>8, <2>9, <2>10, <2>11, KeepsInv
  <2>13. QED
    BY <1>1, <2>3, <2>6, <2>8, <2>12
<1>7. CASE started = {}
  <2>1. request' = [request EXCEPT ![r] = Idle]
    BY <1>4, <1>7
  <2>2. /\ request' \in [Request -> RequestState]
        /\ \A o \in Request : request'[o].phase = "reading" <=> request'[o].reading # {}
        /\ \A o \in Request : Good(request[o])'
        /\ request'[r] = Idle /\ \A o \in Request \ {r} : request'[o] = request[o]
    BY <1>2, <2>1, IdleBare, OneRequest
  <2>3. PromiseInv'
    BY <1>2, <2>2, IdleBare, PromiseStays
  <2>4. refreshPromise' \in Request \cup {None}
    BY <1>2 DEF Inv, TypeOK
  <2>5. /\ projection' \in Projection \cup {None} /\ expiresAt' \in Int /\ HeldInv'
        /\ refreshFailure' \in BOOLEAN /\ refreshRetryAt' \in Nat /\ failedAt' \in Nat
        /\ CooldownInv'
    BY <1>2, Adopted
  <2>6. Inv'
    BY <1>2, <2>2, <2>3, <2>4, <2>5, KeepsInv
  <2>7. QED
    BY <2>2, <2>6, IdleBare
<1>8. QED
  BY <1>6, <1>7

(* What is left of a request when its read of a ends and no child is left. *)
Remaining(q, a) ==
    IF q.reading = {a} THEN Idle ELSE [q EXCEPT !.reading = q.reading \ {a}]

LEMMA RemainingIs ==
    ASSUME NEW old \in RequestState, NEW a, old.reading # {a}, NEW q, q = Remaining(old, a)
    PROVE  /\ q \in RequestState /\ q.reading = old.reading \ {a} /\ q.phase = old.phase
           /\ q.todo = old.todo /\ q.answer = old.answer /\ q.kind = old.kind
           /\ q.sentAt = old.sentAt
<1>1. q = [old EXCEPT !.reading = old.reading \ {a}]
  BY DEF Remaining
<1>2. QED
  BY <1>1 DEF RequestState

(* Only a bootstrap has another child to read when a read ends. *)
LEMMA ReadEndsInv ==
    ASSUME Inv, NEW r \in Request, NEW a \in Action, ReadEnds(r, a)
    PROVE  /\ Inv' /\ request'[r].phase # "refreshing"
           /\ \A b \in request'[r].reading \ request[r].reading :
                 /\ request[r].kind = "bootstrap" /\ request'[r].kind = "bootstrap"
                 /\ lastAvailable[b] # 0 /\ lastAvailable[b] >= request[r].sentAt
           /\ \A o \in Request \ {r} : request'[o] = request[o]
<1>1. PICK old \in RequestState : old = request[r]
  BY DEF Inv, TypeOK
<1>2. /\ old.phase = "reading" /\ a \in old.reading /\ Good(old)
      /\ UNCHANGED <<now, runtime, held, refreshPromise, cooldown>>
  BY <1>1 DEF ReadEnds, Inv
<1>3. CASE old.todo = {} /\ request' = [request EXCEPT ![r] = Remaining(request[r], a)]
  <2>1. CASE old.reading = {a}
    <3>1. request' = [request EXCEPT ![r] = Idle]
      BY <1>1, <1>3, <2>1 DEF Remaining
    <3>2. Inv' /\ request'[r] = Idle /\ \A o \in Request \ {r} : request'[o] = request[o]
      BY <1>1, <1>2, <3>1, IdleBare, OnlyRequest
    <3>3. QED
      BY <3>2, IdleBare
  <2>2. CASE old.reading # {a}
    <3>1. PICK q : q = Remaining(old, a)
      OBVIOUS
    <3>2. request' = [request EXCEPT ![r] = q]
      BY <1>1, <1>3, <3>1
    <3>3. /\ q \in RequestState /\ q.reading = old.reading \ {a} /\ q.phase = "reading"
          /\ q.todo = old.todo /\ q.answer = old.answer /\ q.kind = old.kind
          /\ q.sentAt = old.sentAt
      BY <1>2, <2>2, <3>1, RemainingIs
    <3>4. Good(q) /\ q.reading # {}
      BY <1>2, <2>2, <3>3 DEF Good
    <3>5. Inv' /\ request'[r] = q /\ \A o \in Request \ {r} : request'[o] = request[o]
      BY <1>1, <1>2, <3>2, <3>3, <3>4, OnlyRequest
    <3>6. QED
      BY <1>1, <3>3, <3>5
  <2>3. QED
    BY <2>1, <2>2
<1>4. CASE \E next \in old.todo : request' = [request EXCEPT
                ![r].reading = (@ \ {a}) \cup {next}, ![r].todo = @ \ {next}]
  <2>1. PICK next \in old.todo : request' = [request EXCEPT
                ![r].reading = (@ \ {a}) \cup {next}, ![r].todo = @ \ {next}]
    BY <1>4
  <2>2. PICK q : q = [old EXCEPT !.reading = (old.reading \ {a}) \cup {next},
                                 !.todo = old.todo \ {next}]
    OBVIOUS
  <2>3. request' = [request EXCEPT ![r] = q]
    BY <1>1, <2>1, <2>2 DEF Inv, TypeOK
  <2>4. q = [kind |-> old.kind, phase |-> old.phase, target |-> old.target,
             answer |-> old.answer, basis |-> old.basis,
             reading |-> (old.reading \ {a}) \cup {next}, todo |-> old.todo \ {next},
             sentAt |-> old.sentAt]
    BY <2>2 DEF RequestState
  <2> HIDE <2>1, <2>2
  <2>5. next \in Action
    BY DEF RequestState
  <2>6. /\ q \in RequestState /\ q.reading = (old.reading \ {a}) \cup {next}
        /\ q.phase = "reading" /\ q.todo = old.todo \ {next} /\ q.answer = old.answer
        /\ q.kind = old.kind /\ q.sentAt = old.sentAt
    <3>1. q \in RequestState
      BY <2>4, <2>5 DEF RequestState
    <3>2. QED
      BY <1>2, <2>4, <3>1
  <2>7. Good(q) /\ q.reading # {}
    BY <1>2, <2>6 DEF Good
  <2>8. Inv' /\ request'[r] = q /\ \A o \in Request \ {r} : request'[o] = request[o]
    BY <1>1, <1>2, <2>3, <2>6, <2>7, OnlyRequest
  <2>9. /\ lastAvailable[next] # 0 /\ lastAvailable[next] >= old.sentAt
        /\ old.kind = "bootstrap"
    BY <1>2 DEF Good
  <2>10. QED
    BY <1>1, <2>6, <2>8, <2>9
<1>5. CASE /\ request[r].todo = {}
           /\ request' = [request EXCEPT ![r] =
                IF @.reading = {a} THEN Idle
                ELSE [request[r] EXCEPT !.reading = request[r].reading \ {a}]]
  <2>1. request' = [request EXCEPT ![r] = Remaining(request[r], a)]
    BY <1>5 DEF Remaining
  <2>2. old.todo = {}
    BY <1>1, <1>5
  <2>3. QED
    BY <1>3, <2>1, <2>2
<1>6. CASE \E next \in request[r].todo : request' = [request EXCEPT
                ![r].reading = (@ \ {a}) \cup {next}, ![r].todo = @ \ {next}]
  <2>1. \E next \in old.todo : request' = [request EXCEPT
                ![r].reading = (@ \ {a}) \cup {next}, ![r].todo = @ \ {next}]
    BY <1>1, <1>6
  <2>2. QED
    BY <1>4, <2>1
<1>7. QED
  BY <1>5, <1>6, ZenonT(30) DEF ReadEnds

(* The handlers that waited for the refresh are decided on what it adopted. *)
LEMMA RefreshSettlesInv ==
    ASSUME Inv, NEW r \in Request, RefreshSettles(r)
    PROVE  /\ Inv'
           /\ \A o \in Request : request'[o] = request[o] \/
                 /\ request'[o].kind = "read" /\ request'[o].phase # "refreshing"
                 /\ \A b \in request'[o].reading : lastAvailable[b] # 0
                       /\ now < lastAvailable[b] + MaxAge + Skew
<1>1. /\ Adoptable(request[r].answer) /\ Adopt(request[r].answer)
      /\ UNCHANGED <<now, runtime>> /\ refreshPromise' = None
      /\ request[r].phase = "refreshing"
  BY DEF RefreshSettles
<1>2. PICK p \in Projection : p = request[r].answer /\ Known(p) /\ now < p.at + MaxAge
  BY <1>1, Adopted
<1>3. \A o \in Request :
         request'[o] = IF o \in Waiting(r) THEN Verdict(request[o].target, p) ELSE request[o]
  BY <1>2 DEF RefreshSettles, Decided, Verdict
<1>4. request' = [o \in Request |->
         IF o \in Waiting(r) THEN Verdict(request[o].target, p) ELSE request[o]]
  BY <1>2 DEF RefreshSettles, Decided, Verdict
<1>5. ASSUME NEW o \in Waiting(r)
      PROVE  /\ request'[o] \in RequestState /\ Good(request'[o]) /\ request'[o].kind = "read"
             /\ request'[o].phase = "reading" <=> request'[o].reading # {}
             /\ request'[o].phase # "refreshing"
             /\ \A b \in request'[o].reading : lastAvailable[b] # 0
                   /\ now < lastAvailable[b] + MaxAge + Skew
  <2>1. o \in Request /\ request[o].target \in SUBSET Action /\ p.at \in Int
    BY DEF Waiting, Inv, TypeOK, RequestState, Projection
  <2>2. PICK q : q = request'[o]
    OBVIOUS
  <2>3. q = Verdict(request[o].target, p)
    BY <1>3, <2>1, <2>2
  <2>4. CASE request[o].target \subseteq p.admits
             /\ q = State("read", "reading", {}, p.at, request[o].target, 0)
    <3>1. /\ q \in RequestState /\ Good(q) /\ q.kind = "read" /\ q.phase = "reading"
          /\ q.reading = request[o].target
      BY <2>1, <2>4, ReadingBare
    <3>2. request[o].target # {}
      BY <1>1, <2>1 DEF Waiting, Inv, Good
    <3>3. \A b \in request[o].target : lastAvailable[b] # 0
             /\ now < lastAvailable[b] + MaxAge + Skew
      BY <1>2, <2>4, AdmittedIsCurrent
    <3>4. QED
      BY <2>2, <3>1, <3>2, <3>3
  <2>5. CASE q = Idle
    BY <2>2, <2>5, IdleBare
  <2>6. QED
    BY <2>3, <2>4, <2>5, VerdictIs
<1>6. ASSUME NEW o \in Request PROVE Good(request[o])'
  <2>1. PICK q : q = request'[o]
    OBVIOUS
  <2>2. Good(q)
    BY <1>3, <1>5, <2>1 DEF Inv
  <2>3. Good(q)'
    BY <1>1, <2>2, GoodStays
  <2>4. QED
    BY <2>1, <2>3
<1>7. /\ request' \in [Request -> RequestState]
      /\ \A o \in Request : request'[o].phase = "reading" <=> request'[o].reading # {}
  <2>1. \A o \in Request : request'[o] \in RequestState
    BY <1>3, <1>5 DEF Inv, TypeOK
  <2>2. \A o \in Request : request'[o].phase = "reading" <=> request'[o].reading # {}
    BY <1>3, <1>5 DEF Inv, TypeOK
  <2>3. QED
    BY <1>4, <2>1, <2>2
<1>8. PromiseInv'
  <2>1. \A o \in Request : request'[o].phase # "refreshing"
    <3>1. \A o \in Request : o \notin Waiting(r) => request[o].phase # "refreshing"
      BY <1>1 DEF Inv, PromiseInv, Waiting
    <3>2. QED
      BY <1>3, <1>5, <3>1
  <2>2. QED
    BY <1>1, <2>1, NoneAssumption DEF PromiseInv
<1>9. /\ projection' \in Projection \cup {None} /\ expiresAt' \in Int /\ HeldInv'
      /\ refreshFailure' \in BOOLEAN /\ refreshRetryAt' \in Nat /\ failedAt' \in Nat
      /\ CooldownInv'
  BY <1>1, Adopted
<1>10. refreshPromise' \in Request \cup {None}
  BY <1>1
<1>11. Inv'
  BY <1>1, <1>6, <1>7, <1>8, <1>9, <1>10, KeepsInv
<1>12. QED
  BY <1>3, <1>5, <1>11

(* They are all refused, and the cooldown begins. *)
LEMMA RefreshFailsInv ==
    ASSUME Inv, NEW r \in Request, RefreshFails(r)
    PROVE  /\ Inv'
           /\ \A o \in Request : request'[o] = request[o] \/ request'[o] = Idle
<1>1. /\ UNCHANGED <<now, runtime>> /\ refreshPromise' = None
      /\ projection' = None /\ expiresAt' = 0 /\ refreshFailure' = TRUE /\ failedAt' = now
      /\ request[r].phase = "refreshing"
      /\ request' = [o \in Request |-> IF o \in Waiting(r) THEN Idle ELSE request[o]]
  BY DEF RefreshFails
<1>2. PICK after \in RetryAfter : refreshRetryAt' = now + Max({Cooldown, after})
  BY DEF RefreshFails
<1>3. /\ Max({Cooldown, after}) \in Nat /\ Max({Cooldown, after}) >= Cooldown
      /\ Cooldown \in Nat /\ now \in Nat
  BY Longer, LimitAssumption DEF Inv, TypeOK
<1>4. refreshRetryAt' \in Nat /\ refreshRetryAt' >= failedAt' + Cooldown /\ failedAt' \in Nat
  BY <1>1, <1>2, <1>3
<1>5. CooldownInv'
  BY <1>1, <1>4 DEF CooldownInv
<1>6. \A o \in Request : request'[o] = IF o \in Waiting(r) THEN Idle ELSE request[o]
  BY <1>1
<1>7. ASSUME NEW o \in Request PROVE Good(request[o])'
  <2>1. PICK q : q = request'[o]
    OBVIOUS
  <2>2. Good(q)
    BY <1>6, <2>1, IdleBare DEF Inv
  <2>3. Good(q)'
    BY <1>1, <2>2, GoodStays
  <2>4. QED
    BY <2>1, <2>3
<1>8. /\ request' \in [Request -> RequestState]
      /\ \A o \in Request : request'[o].phase = "reading" <=> request'[o].reading # {}
  BY <1>1, <1>6, IdleBare DEF Inv, TypeOK
<1>9. PromiseInv'
  <2>1. \A o \in Request : o \notin Waiting(r) => request[o].phase # "refreshing"
    BY <1>1 DEF Inv, PromiseInv, Waiting
  <2>2. QED
    BY <1>1, <1>6, <2>1, IdleBare, NoneAssumption DEF PromiseInv
<1>10. refreshFailure' \in BOOLEAN
  BY <1>1
<1>11. refreshPromise' \in Request \cup {None}
  BY <1>1
<1>12. Inv'
  BY <1>1, <1>4, <1>5, <1>7, <1>8, <1>9, <1>10, <1>11, Cleared, KeepsInv
<1>13. QED
  BY <1>6, <1>12

-----------------------------------------------------------------------------
(* The Runtime and the clock move on: what was available stays known. *)
LEMMA WorldInv ==
    ASSUME Inv, (\E a \in Action : RuntimeChanges(a)) \/ Tick PROVE Inv' /\ UNCHANGED request
<1>1. /\ UNCHANGED <<held, refreshPromise, cooldown, request>>
      /\ now' \in Nat \ {0} /\ now' >= now
  BY DEF RuntimeChanges, Tick, Inv, TypeOK
<1>2. available' \subseteq Action /\ lastAvailable' \in [Action -> Nat] /\ RuntimeInv'
  <2>1. CASE Tick
    BY <2>1 DEF Tick, Inv, TypeOK, RuntimeInv
  <2>2. ASSUME NEW a \in Action, RuntimeChanges(a)
        PROVE  available' \subseteq Action /\ lastAvailable' \in [Action -> Nat] /\ RuntimeInv'
    BY <2>2 DEF RuntimeChanges, Inv, TypeOK, RuntimeInv
  <2>3. QED
    BY <2>1, <2>2
<1>3. \A a \in Action : lastAvailable'[a] >= lastAvailable[a]
  BY DEF RuntimeChanges, Tick, Inv, TypeOK, RuntimeInv
<1>4. ASSUME NEW p \in Projection, Known(p) PROVE Known(p)'
  <2>1. ASSUME NEW a \in p.admits PROVE lastAvailable'[a] # 0 /\ p.at <= lastAvailable'[a] + Skew
    <3>1. /\ a \in Action /\ p.at \in Int /\ Skew \in Nat
          /\ lastAvailable[a] \in Nat /\ lastAvailable'[a] \in Nat
      BY <1>2, LimitAssumption DEF Projection, Inv, TypeOK
    <3>2. lastAvailable[a] # 0 /\ p.at <= lastAvailable[a] + Skew
      BY <1>4 DEF Known
    <3>3. lastAvailable'[a] >= lastAvailable[a]
      BY <1>3, <3>1
    <3>4. QED
      BY <3>1, <3>2, <3>3
  <2>2. QED
    BY <2>1 DEF Known
<1>5. ASSUME NEW q \in RequestState, Good(q) PROVE Good(q)'
  <2>1. q.answer # None => Known(q.answer)'
    BY <1>4, <1>5 DEF Good, RequestState
  <2>2. ASSUME NEW a \in Action, lastAvailable[a] >= q.sentAt
        PROVE  lastAvailable'[a] >= q.sentAt /\ (lastAvailable[a] # 0 => lastAvailable'[a] # 0)
    BY <1>2, <1>3, <2>2 DEF Inv, TypeOK, RequestState
  <2>3. q.answer # None => q.answer.admits \subseteq Action
    BY DEF RequestState, Projection
  <2>4. q.todo \subseteq Action /\ q.sentAt \in Nat /\ now \in Nat
    BY DEF RequestState, Inv, TypeOK
  <2>5. q.sentAt <= now'
    BY <1>1, <1>5, <2>4 DEF Good
  <2>6. QED
    BY <1>5, <2>1, <2>2, <2>3, <2>4, <2>5 DEF Good
<1>6. \A r \in Request : Good(request[r])'
  <2> SUFFICES ASSUME NEW r \in Request PROVE Good(request[r])'
    OBVIOUS
  <2>1. PICK q \in RequestState : q = request[r] /\ q = request'[r] /\ Good(q)
    BY <1>1 DEF Inv, TypeOK
  <2>2. Good(q)'
    BY <1>5, <2>1
  <2>3. QED
    BY <2>1, <2>2
<1>7. HeldInv'
  <2>1. UNCHANGED projection /\ UNCHANGED expiresAt
    BY <1>1 DEF held
  <2>2. CASE projection = None
    BY <2>1, <2>2 DEF HeldInv
  <2>3. CASE projection # None
    <3>1. PICK p \in Projection : p = projection /\ p = projection' /\ Known(p)
      BY <2>1, <2>3 DEF Inv, TypeOK, HeldInv
    <3>2. Known(p)'
      BY <1>4, <3>1
    <3>3. QED
      BY <2>1, <3>1, <3>2 DEF Inv, HeldInv
  <2>4. QED
    BY <2>2, <2>3
<1>8. QED
  BY <1>1, <1>2, <1>6, <1>7 DEF Inv, TypeOK, PromiseInv, CooldownInv, held, cooldown

(* What a step does to the requests, and that it preserves the invariant. *)
Steps ==
    /\ Inv'
    /\ \A r \in Request, a \in Action : a \in request'[r].reading \ request[r].reading =>
          /\ request'[r].kind = "read" =>
                lastAvailable[a] # 0 /\ now < lastAvailable[a] + MaxAge + Skew
          /\ request'[r].kind = "bootstrap" =>
                lastAvailable[a] # 0 /\ lastAvailable[a] >= request[r].sentAt
    /\ \A r \in Request :
          request[r].phase # "refreshing" /\ request'[r].phase = "refreshing" =>
             /\ \A q \in Request : request[q].phase # "refreshing"
             /\ failedAt # 0 => now >= failedAt + Cooldown

LEMMA StepInv == ASSUME Inv, [Next]_vars PROVE Steps
<1>1. CASE \E r \in Request, a \in Action : ReadDecides(r, a)
  BY <1>1, ReadDecidesInv DEF Steps
<1>2. CASE \E r \in Request, a \in Action : ReadRefreshes(r, a)
  BY <1>2, ReadRefreshesInv DEF Steps
<1>3. CASE \E r \in Request, a \in Action : ReadJoins(r, a) \/ ReadCoolsDown(r, a)
  BY <1>3, ReadWaitsInv DEF Steps
<1>4. CASE \E r \in Request : FetchStarts(r, "registry") \/ FetchStarts(r, "bootstrap")
  BY <1>4, FetchStartsInv DEF Steps
<1>5. CASE \E r \in Request : RuntimeAnswers(r)
  BY <1>5, RuntimeAnswersInv DEF Steps
<1>6. CASE \E r \in Request : RefreshSettles(r)
  BY <1>6, RefreshSettlesInv DEF Steps
<1>7. CASE \E r \in Request : RefreshFails(r)
  BY <1>7, RefreshFailsInv, IdleBare DEF Steps
<1>8. CASE \E r \in Request : RegistryAdopted(r) \/ RegistryFails(r)
  BY <1>8, RegistryAdoptedInv, RegistryFailsInv DEF Steps
<1>9. CASE \E r \in Request : BootstrapAdopted(r)
  BY <1>9, BootstrapAdoptedInv DEF Steps
<1>10. CASE \E r \in Request, a \in Action : ReadEnds(r, a)
  BY <1>10, ReadEndsInv DEF Steps
<1>11. CASE (\E a \in Action : RuntimeChanges(a)) \/ Tick
  BY <1>11, WorldInv DEF Steps
<1>12. CASE UNCHANGED vars
  BY <1>12 DEF vars, runtime, held, cooldown, Steps, Inv, TypeOK, RuntimeInv, HeldInv, Known,
               Good, PromiseInv, CooldownInv
<1>13. QED
  BY <1>1, <1>2, <1>3, <1>4, <1>5, <1>6, <1>7, <1>8, <1>9, <1>10, <1>11, <1>12
     DEF Next, Receive, Settle

-----------------------------------------------------------------------------
(* The strengthened invariant holds in every reachable state. *)
THEOREM Invariance == Spec => []Inv
<1>1. Inv /\ [Next]_vars => Inv'
  BY StepInv DEF Steps
<1>2. QED
  BY <1>1, InitInv, PTL DEF Spec

(* The types of what the Gateway holds and of what its handlers hold. *)
THEOREM Typing == Spec => []TypeOK
  BY Invariance, PTL DEF Inv

(* No chain of refreshes, joins and late answers admits a read on knowledge of
   the Runtime older than MaxAge and Skew (admit, refresh). *)
THEOREM ReadsHold == Spec => ReadsAreCurrent
<1>1. Inv /\ [Next]_vars =>
        [\A r \in Request, a \in Action :
          Contacts(r, a) /\ request'[r].kind = "read"
             => lastAvailable[a] # 0 /\ now < lastAvailable[a] + MaxAge + Skew]_vars
  BY StepInv DEF Steps, Contacts
<1>2. QED
  BY <1>1, Invariance, PTL DEF Spec, ReadsAreCurrent

(* A bootstrap decides its children on what the Runtime made available since it
   was sent, whatever other handlers adopt or forget meanwhile. *)
THEOREM BootstrapsHold == Spec => BootstrapReadsItsOwnRegistry
<1>1. Inv /\ [Next]_vars =>
        [\A r \in Request, a \in Action :
          Contacts(r, a) /\ request'[r].kind = "bootstrap"
             => lastAvailable[a] # 0 /\ lastAvailable[a] >= request[r].sentAt]_vars
  BY StepInv DEF Steps, Contacts
<1>2. QED
  BY <1>1, Invariance, PTL DEF Spec, BootstrapReadsItsOwnRegistry

(* One refresh at a time, and after one that failed none before its cooldown,
   for any number of handlers that clear or join (refresh, clear). *)
THEOREM SpacingHolds == Spec => RefreshesAreSpaced
<1>1. Inv /\ [Next]_vars =>
        [\A r \in Request :
          request[r].phase # "refreshing" /\ request'[r].phase = "refreshing" =>
             /\ \A q \in Request : request[q].phase # "refreshing"
             /\ failedAt # 0 => now >= failedAt + Cooldown]_vars
  BY StepInv DEF Steps
<1>2. QED
  BY <1>1, Invariance, PTL DEF Spec, RefreshesAreSpaced

=============================================================================
