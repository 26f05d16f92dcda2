---------------------------- MODULE GatewayCache ----------------------------
(***************************************************************************)
(* readThroughGateway: the Gateway's in-memory cache of one Runtime read,  *)
(* and the bounded retries that fill it.  The routes do not share entries, *)
(* so one route is enough; its Runtime data is a version that grows.       *)
(*                                                                         *)
(* Requests interleave at their awaits: each keeps the entry it found when *)
(* it came in, fetches, and stores what it fetched.  Timers are taken to   *)
(* fire on time, so the bounds below hold up to the lateness of a timer.   *)
(***************************************************************************)
EXTENDS Integers

CONSTANTS
    Handler,      \* the requests the Gateway handles at the same time
    NoReply,      \* "the last step answered no request"
    MaxVersion,   \* bound on the versions of the Runtime's data
    Ttl,          \* cacheTtlMs
    Timeout,      \* timeoutMs of one attempt
    RetryDelay,   \* retryDelayMs
    MaxAttempts,  \* maxAttempts
    MaxTime       \* bound on the clock

ASSUME LimitAssumption ==
    /\ MaxVersion \in Nat \ {0} /\ Ttl \in Nat \ {0} /\ Timeout \in Nat \ {0}
    /\ RetryDelay \in Nat /\ MaxAttempts \in Nat \ {0} /\ MaxTime \in Nat

VARIABLES
    now,            \* the Gateway's clock, from 1
    version,        \* the version the Runtime has now, from 1
    supersededAt,   \* history: when each version stopped being current, 0 if not yet
    cache,          \* the entry of the route; version 0 is "no entry"
    request,        \* what each handler holds; a handler is used over and over
    reply,          \* history: the reply sent in the last step, or NoReply
    invalidatedAt   \* history: when the last no-cache request came in, 0 if none

runtime == <<version, supersededAt>>
vars == <<now, runtime, cache, request, reply, invalidatedAt>>

Version == 0 .. MaxVersion

Entry == [version : Version, expiresAt : Nat]
NoEntry == [version |-> 0, expiresAt |-> 0]

(* A read may be served from the cache; a refresh carries no-cache; a bypass is
   for a route that is not in CACHEABLE_ROUTES. *)
Kind == {"read", "refresh", "bypass"}

RequestState ==
    [kind : Kind,
     phase : {"idle", "fetching", "delaying"},
     existing : Entry,              \* the entry found when the request came in
     attempt : 0 .. MaxAttempts,
     since : Nat,                   \* start of the attempt, or of the delay
     answer : Version,              \* what the attempt will return, 0 if nothing
     sentAt : Nat,                  \* history: when the request came in
     invalidatedAt : Nat]           \* history: invalidatedAt at that moment

Idle ==
    [kind |-> "read", phase |-> "idle", existing |-> NoEntry, attempt |-> 0,
     since |-> 0, answer |-> 0, sentAt |-> 0, invalidatedAt |-> 0]

(* The data of a reply, labelled stale or not, and the request it is for. *)
Reply ==
    [data : Version \ {0}, stale : BOOLEAN, kind : Kind, sentAt : Nat,
     invalidatedAt : Nat]

TypeOK ==
    /\ now \in Nat \ {0}
    /\ version \in Version \ {0}
    /\ supersededAt \in [Version -> Nat]
    /\ cache \in Entry
    /\ request \in [Handler -> RequestState]
    /\ reply \in Reply \cup {NoReply}
    /\ invalidatedAt \in Nat
    /\ \A r \in Handler :   \* only a read ever has an entry to fall back on
          request[r].existing # NoEntry => request[r].kind = "read"

Init ==
    /\ now = 1
    /\ version = 1
    /\ supersededAt = [v \in Version |-> 0]
    /\ cache = NoEntry
    /\ request = [r \in Handler |-> Idle]
    /\ reply = NoReply
    /\ invalidatedAt = 0

-----------------------------------------------------------------------------
Arrived(kind) ==
    [Idle EXCEPT !.kind = kind, !.sentAt = now, !.invalidatedAt = invalidatedAt]

(* Request q is answered with this data. *)
Serve(q, data, stale) ==
    reply' = [data |-> data, stale |-> stale, kind |-> q.kind,
              sentAt |-> q.sentAt, invalidatedAt |-> q.invalidatedAt]

(* Variant: an entry is fresh until it is replaced. *)
FreshForever == cache.version # 0

Fresh == now < cache.expiresAt

(* A fresh entry is served at once. *)
Hit(r) ==
    /\ request[r].phase = "idle"
    /\ Fresh
    /\ Serve(Arrived("read"), cache.version, FALSE)
    /\ UNCHANGED <<now, runtime, cache, request, invalidatedAt>>

FetchStarts(r, kind, existing) ==
    /\ request' = [request EXCEPT ![r] =
          [Arrived(kind) EXCEPT !.phase = "fetching", !.existing = existing,
                                !.attempt = 1, !.since = now]]
    /\ reply' = NoReply

(* An expired entry is kept by the handler in case the fetch fails. *)
Miss(r) ==
    /\ request[r].phase = "idle"
    /\ ~ Fresh
    /\ FetchStarts(r, "read", cache)
    /\ UNCHANGED <<now, runtime, cache, invalidatedAt>>

(* Variant: no-cache skips the entry but leaves it in the cache. *)
RefreshKeepsEntry(r) ==
    /\ request[r].phase = "idle"
    /\ FetchStarts(r, "refresh", NoEntry)
    /\ invalidatedAt' = now
    /\ UNCHANGED <<now, runtime, cache>>

(* Variant: the entry is looked up before it is deleted. *)
RefreshKeepsExisting(r) ==
    /\ request[r].phase = "idle"
    /\ FetchStarts(r, "refresh", cache)
    /\ cache' = NoEntry
    /\ invalidatedAt' = now
    /\ UNCHANGED <<now, runtime>>

(* no-cache deletes the entry before it is looked up. *)
Refresh(r) ==
    /\ request[r].phase = "idle"
    /\ FetchStarts(r, "refresh", NoEntry)
    /\ cache' = NoEntry
    /\ invalidatedAt' = now
    /\ UNCHANGED <<now, runtime>>

Bypass(r) ==
    /\ request[r].phase = "idle"
    /\ FetchStarts(r, "bypass", NoEntry)
    /\ UNCHANGED <<now, runtime, cache, invalidatedAt>>

(* The Runtime answers the attempt with the data it has now. *)
RuntimeAnswers(r) ==
    /\ request[r].phase = "fetching"
    /\ request[r].answer = 0
    /\ request' = [request EXCEPT ![r].answer = version]
    /\ reply' = NoReply
    /\ UNCHANGED <<now, runtime, cache, invalidatedAt>>

(* The validated answer is stored, whatever the cache holds by now. *)
FetchSucceeds(r) ==
    /\ request[r].phase = "fetching"
    /\ request[r].answer # 0
    /\ request' = [request EXCEPT ![r] = Idle]
    /\ Serve(request[r], request[r].answer, FALSE)
    /\ cache' = IF request[r].kind = "bypass" THEN cache
                ELSE [version |-> request[r].answer, expiresAt |-> now + Ttl]
    /\ UNCHANGED <<now, runtime, invalidatedAt>>

(* Variant: one attempt too many. *)
RetryDelaysOnce(r) ==
    /\ request[r].phase = "fetching"
    /\ request[r].attempt <= MaxAttempts
    /\ request' = [request EXCEPT ![r].phase = "delaying", ![r].since = now,
                                  ![r].answer = 0]
    /\ reply' = NoReply
    /\ UNCHANGED <<now, runtime, cache, invalidatedAt>>

(* A network failure, a timeout, a 429 or a 5xx, without Retry-After. *)
RetryDelays(r) ==
    /\ request[r].phase = "fetching"
    /\ request[r].attempt < MaxAttempts
    /\ request' = [request EXCEPT ![r].phase = "delaying", ![r].since = now,
                                  ![r].answer = 0]
    /\ reply' = NoReply
    /\ UNCHANGED <<now, runtime, cache, invalidatedAt>>

RetryStarts(r) ==
    /\ request[r].phase = "delaying"
    /\ now >= request[r].since + RetryDelay
    /\ request' = [request EXCEPT ![r].phase = "fetching", ![r].since = now,
                                  ![r].attempt = @ + 1]
    /\ reply' = NoReply
    /\ UNCHANGED <<now, runtime, cache, invalidatedAt>>

(* A failure that is not retried, or the last attempt: the entry the handler
   found is served, labelled stale, and if there was none the failure is. *)
FetchFails(r) ==
    /\ request[r].phase = "fetching"
    /\ request' = [request EXCEPT ![r] = Idle]
    /\ IF request[r].existing = NoEntry THEN reply' = NoReply
       ELSE Serve(request[r], request[r].existing.version, TRUE)
    /\ UNCHANGED <<now, runtime, cache, invalidatedAt>>

RuntimeChanges ==
    /\ version < MaxVersion
    /\ version' = version + 1
    /\ supersededAt' = [supersededAt EXCEPT ![version] = now]
    /\ reply' = NoReply
    /\ UNCHANGED <<now, cache, request, invalidatedAt>>

(* When the running timer of request r is due. *)
Due(r) == CASE request[r].phase = "fetching" -> request[r].since + Timeout
            [] request[r].phase = "delaying" -> request[r].since + RetryDelay
            [] OTHER -> MaxTime

(* Time passes no timer that is due. *)
Tick ==
    /\ \A r \in Handler : now < Due(r)
    /\ now < MaxTime
    /\ now' = now + 1
    /\ reply' = NoReply
    /\ UNCHANGED <<runtime, cache, request, invalidatedAt>>

Next ==
    \/ \E r \in Handler :
          \/ Hit(r) \/ Miss(r) \/ Refresh(r) \/ Bypass(r)
          \/ RuntimeAnswers(r) \/ FetchSucceeds(r)
          \/ RetryDelays(r) \/ RetryStarts(r) \/ FetchFails(r)
    \/ RuntimeChanges
    \/ Tick

Spec == Init /\ [][Next]_vars

-----------------------------------------------------------------------------
(* Version v was current at time t or later. *)
CurrentSince(v, t) == supersededAt[v] = 0 \/ supersededAt[v] >= t

(* "A browser refresh sends Cache-Control: no-cache, which invalidates the route
   entry before fetching": a no-cache request, or one for a route that is not
   cacheable, is served data fetched since it came in or a failure; never an
   older entry, stale or fresh. *)
NoCacheIsFresh ==
    reply # NoReply /\ reply.kind # "read" => CurrentSince(reply.data, reply.sentAt)

(* A reply that is not labelled stale carries data that was current less than
   Ttl and one attempt's Timeout ago: an entry ages from the end of the fetch,
   and a slow fetch that overwrites a newer entry makes it no older than that. *)
FreshIsBounded ==
    reply # NoReply /\ ~ reply.stale =>
        CurrentSince(reply.data, now + 1 - (Ttl + Timeout))

(* A no-cache request is remembered: what any request that comes in later is
   served, a stale entry included, was current when the no-cache request came in
   or at most the Timeout of a fetch already under way before it. *)
InvalidationHolds ==
    reply # NoReply /\ reply.invalidatedAt # 0 =>
        CurrentSince(reply.data, reply.invalidatedAt - Timeout)

(* "Up to three bounded attempts": every request is answered within its attempts
   and the delays between them. *)
BoundedResponse ==
    \A r \in Handler : request[r].phase # "idle" =>
        /\ request[r].attempt <= MaxAttempts
        /\ now <= request[r].sentAt + MaxAttempts * Timeout + (MaxAttempts - 1) * RetryDelay
=============================================================================
