-------------------------- MODULE RuntimeAdmission --------------------------
(***************************************************************************)
(* Admission of Runtime reads by the Experience Gateway.  The Gateway      *)
(* holds one projection of the Runtime-owned Capability Registry; a read   *)
(* contacts the Runtime only if that projection is current and admits its  *)
(* action.  A read that finds none starts a refresh or joins the one under *)
(* way; a registry read and a bootstrap replace the projection on their    *)
(* own, and a bootstrap then reads its children on the projection it got.  *)
(*                                                                         *)
(* Handlers interleave at their awaits.  The handlers that wait for one    *)
(* refresh all go on in the turn of the event loop that settles it, so     *)
(* RefreshSettles moves them together.  A registry fetch is answered from  *)
(* the Runtime's state at one moment between its start and its end, which  *)
(* covers a fetch that is retried.                                         *)
(***************************************************************************)
EXTENDS Integers, FiniteSets, FiniteSetsExt

CONSTANTS
    Request,      \* the requests in progress together
    Action,       \* the canonical read actions that need admission
    None,         \* "no projection", "no answer", "no request"
    MaxAge,       \* maxAgeSeconds of the verification policy
    Skew,         \* CAPABILITY_REGISTRY_MAXIMUM_FUTURE_SKEW_SECONDS
    Cooldown,     \* refreshFailureCooldownMs
    RetryAfter,   \* the retryAfterMs values of a failed fetch, 0 among them
    Concurrency,  \* RUNTIME_BOOTSTRAP_CONCURRENCY
    MaxTime       \* bound on the clock

ASSUME NoneAssumption == None \notin Request
ASSUME LimitAssumption ==
    /\ MaxAge \in Nat \ {0} /\ Skew \in Nat /\ Cooldown \in Nat \ {0}
    /\ RetryAfter \subseteq Nat /\ 0 \in RetryAfter
    /\ Concurrency \in Nat \ {0} /\ MaxTime \in Nat

VARIABLES
    now,            \* the Gateway's clock, from 1
    available,      \* the actions the Runtime makes available
    lastAvailable,  \* history: last time each action was available, 0 if never
    projection,     \* the projection the Gateway holds, or None
    expiresAt,      \* when it expires, 0 if there is none
    refreshPromise, \* the request whose refresh is under way, or None
    refreshFailure, \* the last refresh failed, nothing has been adopted since
    refreshRetryAt, \* no refresh starts before this time after a failure
    failedAt,       \* history: time of that failure, 0 if none
    request         \* the requests and what their handlers hold

runtime == <<available, lastAvailable>>
held == <<projection, expiresAt>>
cooldown == <<refreshFailure, refreshRetryAt, failedAt>>
vars == <<now, runtime, held, refreshPromise, cooldown, request>>

(* at is evaluatedAt; foreign: of another tenant or workspace. *)
Projection == [at : Int, foreign : BOOLEAN, admits : SUBSET Action]

(* read:      idle -> [refreshing | joined ->] reading -> idle
   registry:  idle -> fetching -> idle
   bootstrap: idle -> fetching -> reading -> idle *)
RequestState ==
    [kind : {"read", "registry", "bootstrap"},
     phase : {"idle", "refreshing", "joined", "fetching", "reading"},
     target : SUBSET Action,        \* the one action of a read
     answer : Projection \cup {None},  \* what the registry fetch will return
     basis : Int,                   \* at of the projection it was admitted on
     reading : SUBSET Action,       \* the actions it reads from the Runtime now
     todo : SUBSET Action,          \* the admitted children it has yet to read
     sentAt : Nat]                 \* when the fetch for it started

Idle ==
    [kind |-> "read", phase |-> "idle", target |-> {}, answer |-> None,
     basis |-> 0, reading |-> {}, todo |-> {}, sentAt |-> 0]

TypeOK ==
    /\ now \in Nat \ {0}
    /\ available \subseteq Action
    /\ lastAvailable \in [Action -> Nat]
    /\ projection \in Projection \cup {None}
    /\ expiresAt \in Int
    /\ refreshPromise \in Request \cup {None}
    /\ refreshFailure \in BOOLEAN
    /\ refreshRetryAt \in Nat
    /\ failedAt \in Nat
    /\ request \in [Request -> RequestState]
    /\ \A r \in Request :   \* a bootstrap with children left keeps a worker busy
          request[r].phase = "reading" <=> request[r].reading # {}

-----------------------------------------------------------------------------
(* createRuntimeActionAdmissionState *)

(* Variant: forgetting the projection forgets the cooldown with it. *)
ClearAll ==
    /\ projection' = None
    /\ expiresAt' = 0
    /\ refreshFailure' = FALSE
    /\ UNCHANGED <<refreshRetryAt, failedAt>>

(* The handlers that clear after a failure leave the cooldown as it is. *)
Clear ==
    /\ projection' = None
    /\ expiresAt' = 0
    /\ UNCHANGED cooldown

(* The projection passes validation and is of this tenant and workspace. *)
Adoptable(p) ==
    p # None /\ p.at <= now + Skew /\ now < p.at + MaxAge /\ ~ p.foreign

Adopt(p) ==
    /\ projection' = p
    /\ expiresAt' = p.at + MaxAge
    /\ refreshFailure' = FALSE
    /\ refreshRetryAt' = 0
    /\ failedAt' = 0

(* Variant: a projection, once adopted, is good until it is replaced. *)
HoldsAny == projection # None

(* The Gateway holds a projection that has not expired. *)
Holds == projection # None /\ now < expiresAt

MayRefresh == ~ (refreshFailure /\ refreshRetryAt > now)

(* The state of read request r, admitted or not by projection p. *)
Decided(r, p) ==
    IF request[r].target \subseteq p.admits
    THEN [Idle EXCEPT !.phase = "reading", !.basis = p.at,
                        !.reading = request[r].target]
    ELSE Idle

-----------------------------------------------------------------------------
Init ==
    /\ now = 1
    /\ available \in SUBSET Action
    /\ lastAvailable = [a \in Action |-> IF a \in available THEN 1 ELSE 0]
    /\ projection = None
    /\ expiresAt = 0
    /\ refreshPromise = None
    /\ refreshFailure = FALSE
    /\ refreshRetryAt = 0
    /\ failedAt = 0
    /\ request = [r \in Request |-> Idle]

(* A read that finds a current projection is decided on it at once. *)
ReadDecides(r, a) ==
    /\ request[r].phase = "idle"
    /\ Holds
    /\ request' = [request EXCEPT ![r] =
          IF a \in projection.admits
          THEN [Idle EXCEPT !.phase = "reading", !.basis = projection.at,
                              !.reading = {a}]
          ELSE Idle]
    /\ UNCHANGED <<now, runtime, held, refreshPromise, cooldown>>

(* Without one it starts a refresh, *)
ReadRefreshes(r, a) ==
    /\ request[r].phase = "idle"
    /\ ~ Holds
    /\ refreshPromise = None
    /\ MayRefresh
    /\ request' = [request EXCEPT ![r] =
          [Idle EXCEPT !.phase = "refreshing", !.target = {a}]]
    /\ refreshPromise' = r
    /\ projection' = None /\ expiresAt' = 0
    /\ refreshFailure' = FALSE /\ refreshRetryAt' = 0
    /\ UNCHANGED <<now, runtime, failedAt>>

(* joins the one under way, *)
ReadJoins(r, a) ==
    /\ request[r].phase = "idle"
    /\ ~ Holds
    /\ refreshPromise # None
    /\ request' = [request EXCEPT ![r] =
          [Idle EXCEPT !.phase = "joined", !.target = {a}]]
    /\ Clear
    /\ UNCHANGED <<now, runtime, refreshPromise>>

(* or is denied while the last failure cools down. *)
ReadCoolsDown(r, a) ==
    /\ request[r].phase = "idle"
    /\ ~ Holds
    /\ refreshPromise = None
    /\ ~ MayRefresh
    /\ request' = [request EXCEPT ![r] = Idle]
    /\ Clear
    /\ UNCHANGED <<now, runtime, refreshPromise>>

(* A registry read or a bootstrap fetches the registry in any case: it is never
   cached. *)
FetchStarts(r, kind) ==
    /\ request[r].phase = "idle"
    /\ request' = [request EXCEPT ![r] =
          [Idle EXCEPT !.kind = kind, !.phase = "fetching", !.sentAt = now]]
    /\ UNCHANGED <<now, runtime, held, refreshPromise, cooldown>>

-----------------------------------------------------------------------------
(* The Runtime evaluates its registry for a fetch, by a clock that can be ahead
   of the Gateway's; the projection can be of another scope. *)
RuntimeAnswers(r) ==
    /\ request[r].phase \in {"refreshing", "fetching"}
    /\ request[r].answer = None
    /\ \E drift \in {0, Skew}, foreign \in BOOLEAN :
          request' = [request EXCEPT ![r].answer =
             [at |-> now + drift, foreign |-> foreign, admits |-> available]]
    /\ UNCHANGED <<now, runtime, held, refreshPromise, cooldown>>

Waiting(r) == {q \in Request : request[q].phase = "joined"} \cup {r}

(* The refresh ends well: its projection is adopted, and every handler that
   waited for it decides again. *)
RefreshSettles(r) ==
    /\ request[r].phase = "refreshing"
    /\ Adoptable(request[r].answer)
    /\ Adopt(request[r].answer)
    /\ refreshPromise' = None
    /\ request' = [q \in Request |->
          IF q \in Waiting(r) THEN Decided(q, request[r].answer) ELSE request[q]]
    /\ UNCHANGED <<now, runtime>>

(* It fails: the fetch times out or is refused, or the projection is not
   acceptable.  Even a projection adopted meanwhile is forgotten. *)
RefreshFails(r) ==
    /\ request[r].phase = "refreshing"
    /\ projection' = None /\ expiresAt' = 0
    /\ refreshFailure' = TRUE
    /\ \E after \in RetryAfter : refreshRetryAt' = now + Max({Cooldown, after})
    /\ failedAt' = now
    /\ refreshPromise' = None
    /\ request' = [q \in Request |-> IF q \in Waiting(r) THEN Idle ELSE request[q]]
    /\ UNCHANGED <<now, runtime>>

(* The registry read of request r ends well. *)
RegistryAdopted(r) ==
    /\ request[r].phase = "fetching" /\ request[r].kind = "registry"
    /\ Adoptable(request[r].answer)
    /\ Adopt(request[r].answer)
    /\ request' = [request EXCEPT ![r] = Idle]
    /\ UNCHANGED <<now, runtime, refreshPromise>>

(* The read of the registry failed, for a bootstrap as well. *)
RegistryFails(r) ==
    /\ request[r].phase = "fetching"
    /\ Clear
    /\ request' = [request EXCEPT ![r] = Idle]
    /\ UNCHANGED <<now, runtime, refreshPromise>>

(* At most Concurrency of the admitted actions are read at the same time. *)
FirstReads(admitted) ==
    {started \in SUBSET admitted : Cardinality(started) = Min({Concurrency, Cardinality(admitted)})}

(* Variant: a bootstrap prefers the projection the Gateway holds already. *)
BootstrapAdoptedHeld(r) ==
    LET p == IF Holds THEN projection ELSE request[r].answer IN
    /\ request[r].phase = "fetching" /\ request[r].kind = "bootstrap"
    /\ Adoptable(p)
    /\ Adopt(p)
    /\ \E started \in FirstReads(p.admits) :
          request' = [request EXCEPT ![r] =
             IF started = {} THEN Idle
             ELSE [@ EXCEPT !.phase = "reading", !.answer = None, !.basis = p.at,
                            !.reading = started, !.todo = p.admits \ started]]
    /\ UNCHANGED <<now, runtime, refreshPromise>>

(* The bootstrap goes on with the projection it read: its children are decided
   on that one, whatever the Gateway holds later. *)
BootstrapAdopted(r) ==
    LET p == request[r].answer IN
    /\ request[r].phase = "fetching" /\ request[r].kind = "bootstrap"
    /\ Adoptable(p)
    /\ Adopt(p)
    /\ \E started \in FirstReads(p.admits) :
          request' = [request EXCEPT ![r] =
             IF started = {} THEN Idle
             ELSE [@ EXCEPT !.phase = "reading", !.answer = None, !.basis = p.at,
                            !.reading = started, !.todo = p.admits \ started]]
    /\ UNCHANGED <<now, runtime, refreshPromise>>

(* A Runtime read ends, with data or by its timeout; the worker that made it
   takes the next child. *)
ReadEnds(r, a) ==
    /\ request[r].phase = "reading"
    /\ a \in request[r].reading
    /\ \/ /\ request[r].todo = {}
          /\ request' = [request EXCEPT ![r] =
                IF @.reading = {a} THEN Idle
                ELSE [request[r] EXCEPT !.reading = request[r].reading \ {a}]]
       \/ \E next \in request[r].todo :
             request' = [request EXCEPT
                ![r].reading = (@ \ {a}) \cup {next},
                ![r].todo = @ \ {next}]
    /\ UNCHANGED <<now, runtime, held, refreshPromise, cooldown>>

-----------------------------------------------------------------------------
RuntimeChanges(a) ==
    /\ available' = IF a \in available THEN available \ {a} ELSE available \cup {a}
    /\ lastAvailable' = [lastAvailable EXCEPT ![a] = now]
    /\ UNCHANGED <<now, held, refreshPromise, cooldown, request>>

Tick ==
    /\ now < MaxTime
    /\ now' = now + 1
    /\ lastAvailable' = [a \in Action |->
          IF a \in available THEN now + 1 ELSE lastAvailable[a]]
    /\ UNCHANGED <<available, held, refreshPromise, cooldown, request>>

Receive(r) ==
    \/ \E a \in Action :
          ReadDecides(r, a) \/ ReadRefreshes(r, a) \/ ReadJoins(r, a) \/ ReadCoolsDown(r, a)
    \/ FetchStarts(r, "registry")
    \/ FetchStarts(r, "bootstrap")

Settle(r) ==
    \/ RefreshSettles(r) \/ RefreshFails(r)
    \/ RegistryAdopted(r) \/ RegistryFails(r) \/ BootstrapAdopted(r)
    \/ \E a \in Action : ReadEnds(r, a)

Next ==
    \/ \E r \in Request : Receive(r) \/ RuntimeAnswers(r) \/ Settle(r)
    \/ \E a \in Action : RuntimeChanges(a)
    \/ Tick

Spec == Init /\ [][Next]_vars

-----------------------------------------------------------------------------
(* request r starts to read action a from the Runtime in this step. *)
Contacts(r, a) == a \in request'[r].reading \ request[r].reading

(* A read contacts the Runtime for an action that the Runtime made available
   less than MaxAge ago (and Skew, when the Runtime's clock is ahead): no chain
   of refreshes, joins and late answers admits it on older knowledge. *)
ReadsAreCurrent ==
    [][\A r \in Request, a \in Action :
          Contacts(r, a) /\ request'[r].kind = "read"
             => lastAvailable[a] # 0 /\ now < lastAvailable[a] + MaxAge + Skew]_vars

(* A bootstrap reads only children that were available at some moment since the
   bootstrap was sent. *)
BootstrapReadsItsOwnRegistry ==
    [][\A r \in Request, a \in Action :
          Contacts(r, a) /\ request'[r].kind = "bootstrap"
             => lastAvailable[a] # 0 /\ lastAvailable[a] >= request[r].sentAt]_vars

(* A refresh starts only when no other one is in the network and, after one that
   failed, when the cooldown is over or some handler has adopted a projection in
   the meantime, whatever other handlers forget.  (refresh, clear) *)
RefreshesAreSpaced ==
    [][\A r \in Request :
          request[r].phase # "refreshing" /\ request'[r].phase = "refreshing" =>
             /\ \A q \in Request : request[q].phase # "refreshing"
             /\ failedAt # 0 => now >= failedAt + Cooldown]_vars

(* "Unavailable, stale, mismatched, or unregistered actions fail closed": no
   Runtime read starts on a projection that has expired. *)
StaleFailsClosed ==
    [][\A r \in Request, a \in Action :
          Contacts(r, a) => now < request'[r].basis + MaxAge]_vars

=============================================================================
