-------------------------- MODULE GatewayCacheProofs --------------------------
(***************************************************************************)
(* The invariants of GatewayCache, for any number of requests, attempts    *)
(* and versions, and any lifetimes and timeouts.                           *)
(***************************************************************************)
EXTENDS GatewayCache, TLAPS

(* Only the versions before the current one have been superseded. *)
VersionInv ==
    /\ \A v \in Version : supersededAt[v] <= now
    /\ \A v \in Version : v = 0 \/ v >= version => supersededAt[v] = 0
    /\ invalidatedAt <= now

(* An entry, in the cache or kept by a request, is one of this invariant: it is
   bounded by the time it was stored at, and by the no-cache request before. *)
Bounded(entry, invalidated) ==
    /\ entry.version = 0 => entry = NoEntry
    /\ entry.expiresAt - Ttl <= now
    /\ CurrentSince(entry.version, entry.expiresAt - Ttl - Timeout)
    /\ invalidated # 0 => CurrentSince(entry.version, invalidated - Timeout)

(* How far a request can have come by now: its timers fire on time. *)
Paced(q) ==
    /\ q.phase = "fetching" =>
         /\ q.attempt \in 1 .. MaxAttempts
         /\ q.since <= q.sentAt + (q.attempt - 1) * (Timeout + RetryDelay)
         /\ now <= q.since + Timeout
    /\ q.phase = "delaying" =>
         /\ q.attempt \in 1 .. MaxAttempts - 1
         /\ q.since <= q.sentAt + (q.attempt - 1) * (Timeout + RetryDelay) + Timeout
         /\ now <= q.since + RetryDelay
         /\ q.answer = 0

(* What a request under way holds. *)
Holding(q) ==
    /\ q.sentAt <= q.since /\ q.since <= now
    /\ q.invalidatedAt <= q.sentAt
    /\ q.answer # 0 => CurrentSince(q.answer, q.since)
    /\ Bounded(q.existing, q.invalidatedAt)

RequestInv ==
    \A r \in Handler :
        request[r].phase # "idle" => Paced(request[r]) /\ Holding(request[r])

Inv ==
    /\ TypeOK /\ VersionInv /\ Bounded(cache, invalidatedAt) /\ RequestInv
    /\ NoCacheIsFresh /\ FreshIsBounded /\ InvalidationHolds

-----------------------------------------------------------------------------
(* The initial state satisfies the invariant. *)
LEMMA InitInv == Init => Inv
  BY LimitAssumption
     DEF Init, Inv, TypeOK, VersionInv, Bounded, RequestInv, NoCacheIsFresh,
         FreshIsBounded, InvalidationHolds, CurrentSince, Version, Entry, NoEntry,
         RequestState, Idle, Kind

(* A version that was current at a time not after now still is: versions are
   superseded at the time of a step, never before it. *)
LEMMA CurrentStays ==
    ASSUME TypeOK, VersionInv, [Next]_vars,
           NEW v \in Version, NEW t \in Int, t <= now, CurrentSince(v, t)
    PROVE  CurrentSince(v, t)'
<1>1. supersededAt' = supersededAt
        \/ supersededAt' = [supersededAt EXCEPT ![version] = now]
  BY DEF Next, vars, runtime, Hit, Miss, Refresh, Bypass, RuntimeAnswers, FetchSucceeds,
         RetryDelays, RetryStarts, FetchFails, RuntimeChanges, Tick
<1>2. QED
  BY <1>1 DEF CurrentSince, TypeOK

(* Time does not go back, and what was bounded or held stays so. *)
LEMMA TimePasses == ASSUME TypeOK, [Next]_vars PROVE now' \in Nat /\ now <= now'
<1>1. now' = now \/ now' = now + 1
  BY DEF Next, vars, runtime, Hit, Miss, Refresh, Bypass, RuntimeAnswers,
         FetchSucceeds, RetryDelays, RetryStarts, FetchFails, RuntimeChanges, Tick
<1>2. QED
  BY <1>1 DEF TypeOK

LEMMA BoundedStays ==
    ASSUME TypeOK, VersionInv, [Next]_vars,
           NEW entry \in Entry, NEW i \in Nat, i <= now, Bounded(entry, i)
    PROVE  Bounded(entry, i)'
<1> DEFINE stored == entry.expiresAt - Ttl - Timeout
<1>1. entry.version \in Version /\ entry.expiresAt \in Nat /\ now \in Nat
      /\ Ttl \in Nat /\ Timeout \in Nat
  BY LimitAssumption DEF Entry, TypeOK
<1>2. CurrentSince(entry.version, stored)'
  BY <1>1, CurrentStays DEF Bounded
<1>3. i # 0 => CurrentSince(entry.version, i - Timeout)'
  BY <1>1, CurrentStays DEF Bounded
<1>4. QED
  BY <1>1, <1>2, <1>3, TimePasses DEF Bounded

LEMMA HoldingStays ==
    ASSUME TypeOK, VersionInv, [Next]_vars, NEW q \in RequestState, Holding(q)
    PROVE  Holding(q)'
<1>1. q.answer # 0 => CurrentSince(q.answer, q.since)'
  BY CurrentStays DEF Holding, RequestState
<1>2. Bounded(q.existing, q.invalidatedAt)'
  BY BoundedStays DEF Holding, RequestState, TypeOK
<1>3. QED
  BY <1>1, <1>2, TimePasses DEF Holding, RequestState, TypeOK

(* The types of what the actions write. *)
LEMMA Written ==
    /\ Idle \in RequestState /\ Idle.phase = "idle" /\ NoEntry \in Entry
    /\ \A v \in Version, t \in Nat : [version |-> v, expiresAt |-> t] \in Entry
  BY LimitAssumption DEF Idle, RequestState, NoEntry, Entry, Version, Kind

(* A request that has just been sent, whole. *)
Sent(kind, existing) ==
    [kind |-> kind, phase |-> "fetching", existing |-> existing, attempt |-> 1,
     since |-> now, answer |-> 0, sentAt |-> now, invalidatedAt |-> invalidatedAt]

LEMMA SentIs ==
    ASSUME NEW kind, NEW existing, NEW q,
           q = [Arrived(kind) EXCEPT !.phase = "fetching", !.existing = existing,
                                     !.attempt = 1, !.since = now]
    PROVE  q = Sent(kind, existing)
  BY DEF Arrived, Idle, Sent

(* It is well paced and holds the entry it found. *)
LEMMA Starting ==
    ASSUME Inv, NEW kind \in Kind, NEW existing \in Entry, Bounded(existing, invalidatedAt)
    PROVE  Sent(kind, existing) \in RequestState
           /\ Paced(Sent(kind, existing)) /\ Holding(Sent(kind, existing))
<1>1. Sent(kind, existing) \in RequestState
  BY LimitAssumption DEF Sent, RequestState, Inv, TypeOK, Version
<1>2. Paced(Sent(kind, existing))
  BY LimitAssumption DEF Sent, Paced, Inv, TypeOK
<1>3. QED
  BY <1>1, <1>2 DEF Sent, Holding, Inv, TypeOK, VersionInv

(* The step of one request: the others stay as they are. *)
LEMMA OneRequest ==
    ASSUME Inv, [Next]_vars, UNCHANGED now, NEW r \in Handler, NEW q \in RequestState,
           request' = [request EXCEPT ![r] = q],
           q.existing # NoEntry => q.kind = "read",
           q.phase # "idle" => Paced(q)' /\ Holding(q)'
    PROVE  /\ request' \in [Handler -> RequestState]
           /\ \A o \in Handler : request'[o].existing # NoEntry => request'[o].kind = "read"
           /\ RequestInv'
<1>1. \A o \in Handler : request'[o] = IF o = r THEN q ELSE request[o]
  BY DEF Inv, TypeOK
<1>2. \A o \in Handler \ {r} : request[o].phase # "idle" =>
                                 Paced(request[o])' /\ Holding(request[o])'
  <2> SUFFICES ASSUME NEW o \in Handler \ {r}, NEW p \in RequestState, p = request[o],
                      o # r, p.phase # "idle"
               PROVE  Paced(request[o])' /\ Holding(request[o])'
    BY DEF Inv, TypeOK
  <2>1. Paced(p) /\ Holding(p) /\ request'[o] = p
    BY <1>1 DEF Inv, RequestInv
  <2>2. Holding(p)'
    BY <2>1, HoldingStays DEF Inv
  <2>3. Paced(p)'
    BY <2>1 DEF Paced
  <2>4. QED
    BY <2>1, <2>2, <2>3
<1>3. QED
  BY <1>1, <1>2 DEF RequestInv, Inv, TypeOK

(* The step of no request. *)
LEMMA NoRequest ==
    ASSUME Inv, [Next]_vars, UNCHANGED <<now, request>> PROVE RequestInv'
<1> SUFFICES ASSUME NEW o \in Handler, NEW p \in RequestState, p = request[o],
                    p.phase # "idle"
             PROVE  Paced(request[o])' /\ Holding(request[o])'
  BY DEF Inv, TypeOK, RequestInv
<1>1. Paced(p) /\ Holding(p) /\ request'[o] = p
  BY DEF Inv, RequestInv
<1>2. Holding(p)'
  BY <1>1, HoldingStays DEF Inv
<1>3. Paced(p)'
  BY <1>1 DEF Paced
<1>4. QED
  BY <1>1, <1>2, <1>3

(* The cache is left alone. *)
LEMMA CacheStays ==
    ASSUME Inv, [Next]_vars, UNCHANGED <<cache, invalidatedAt>>
    PROVE  Bounded(cache, invalidatedAt)'
<1>1. PICK entry \in Entry, i \in Nat : entry = cache /\ i = invalidatedAt
  BY DEF Inv, TypeOK
<1>2. Bounded(entry, i)'
  BY <1>1, BoundedStays DEF Inv, VersionInv
<1>3. QED
  BY <1>1, <1>2

(* No request is answered, or one is, with what it may be answered with. *)
LEMMA Silent ==
    ASSUME reply' = NoReply PROVE NoCacheIsFresh' /\ FreshIsBounded' /\ InvalidationHolds'
  BY DEF NoCacheIsFresh, FreshIsBounded, InvalidationHolds

LEMMA Served ==
    ASSUME Inv, UNCHANGED <<now, runtime>>, NEW q \in RequestState,
           NEW data \in Version \ {0}, NEW stale \in BOOLEAN, Serve(q, data, stale),
           q.kind # "read" => CurrentSince(data, q.sentAt),
           ~ stale => CurrentSince(data, now + 1 - (Ttl + Timeout)),
           q.invalidatedAt # 0 => CurrentSince(data, q.invalidatedAt - Timeout)
    PROVE  /\ reply' \in Reply
           /\ NoCacheIsFresh' /\ FreshIsBounded' /\ InvalidationHolds'
<1>1. reply' \in Reply
  BY DEF Serve, Reply, RequestState
<1>2. /\ reply'.data = data /\ reply'.stale = stale /\ reply'.kind = q.kind
      /\ reply'.sentAt = q.sentAt /\ reply'.invalidatedAt = q.invalidatedAt
  BY DEF Serve
<1>3. QED
  BY <1>1, <1>2 DEF NoCacheIsFresh, FreshIsBounded, InvalidationHolds, CurrentSince, runtime

-----------------------------------------------------------------------------
(* A fresh entry was stored less than Ttl ago. *)
LEMMA HitInv == ASSUME Inv, NEW r \in Handler, Hit(r) PROVE Inv'
<1>0. [Next]_vars
  BY DEF Next
<1>1. Arrived("read") \in RequestState /\ Arrived("read").kind = "read"
      /\ Arrived("read").invalidatedAt = invalidatedAt
  <2>1. PICK q : q = Arrived("read")
    OBVIOUS
  <2>2. q = [kind |-> "read", phase |-> "idle", existing |-> NoEntry, attempt |-> 0,
             since |-> 0, answer |-> 0, sentAt |-> now, invalidatedAt |-> invalidatedAt]
    BY <2>1 DEF Arrived, Idle
  <2>3. QED
    BY <2>1, <2>2, Written, LimitAssumption DEF Inv, TypeOK, RequestState, Version, Kind
<1>2. cache.version \in Version \ {0} /\ now + 1 - (Ttl + Timeout) <= cache.expiresAt - Ttl
  BY LimitAssumption DEF Hit, Fresh, Inv, Bounded, NoEntry, TypeOK, Entry
<1>3. /\ CurrentSince(cache.version, now + 1 - (Ttl + Timeout))
      /\ invalidatedAt # 0 => CurrentSince(cache.version, invalidatedAt - Timeout)
  <2>1. now + 1 - (Ttl + Timeout) <= cache.expiresAt - Ttl - Timeout
    BY LimitAssumption DEF Hit, Fresh, Inv, TypeOK, Entry
  <2>2. QED
    BY <2>1, <1>2, LimitAssumption DEF Inv, Bounded, CurrentSince, TypeOK, Entry
<1>4. /\ reply' \in Reply /\ NoCacheIsFresh' /\ FreshIsBounded' /\ InvalidationHolds'
  BY <1>1, <1>2, <1>3, Served DEF Hit
<1>5. Bounded(cache, invalidatedAt)'
  BY <1>0, CacheStays DEF Hit
<1>6. RequestInv'
  BY <1>0, NoRequest DEF Hit
<1>7. QED
  BY <1>4, <1>5, <1>6 DEF Inv, Hit, TypeOK, VersionInv, runtime

(* The three ways a fetch starts: it holds no entry, or the one of the cache. *)
LEMMA FetchStartsInv ==
    ASSUME Inv, [Next]_vars, NEW r \in Handler, NEW kind \in Kind, NEW existing \in Entry,
           existing # NoEntry => kind = "read", Bounded(existing, invalidatedAt),
           FetchStarts(r, kind, existing), UNCHANGED <<now, runtime>>
    PROVE  /\ request' \in [Handler -> RequestState]
           /\ \A o \in Handler : request'[o].existing # NoEntry => request'[o].kind = "read"
           /\ RequestInv' /\ reply' = NoReply
           /\ NoCacheIsFresh' /\ FreshIsBounded' /\ InvalidationHolds'
<1>1. PICK q : /\ q = [Arrived(kind) EXCEPT !.phase = "fetching", !.existing = existing,
                                            !.attempt = 1, !.since = now]
               /\ request' = [request EXCEPT ![r] = q]
  BY DEF FetchStarts
<1>2. q = Sent(kind, existing)
  BY <1>1, SentIs
<1>3. q \in RequestState /\ Paced(q) /\ Holding(q)
  BY <1>2, Starting
<1>4. Holding(q)' /\ Paced(q)'
  BY <1>3, HoldingStays DEF Paced, Inv
<1>5. q.existing # NoEntry => q.kind = "read"
  BY <1>2 DEF Sent
<1>6. request' = [request EXCEPT ![r] = q]
  BY <1>1
<1> HIDE <1>1
<1>7. QED
  BY <1>3, <1>4, <1>5, <1>6, OneRequest, Silent DEF FetchStarts

LEMMA MissInv == ASSUME Inv, NEW r \in Handler, Miss(r) PROVE Inv'
<1>0. [Next]_vars /\ "read" \in Kind
  BY DEF Next, Kind
<1>1. Bounded(cache, invalidatedAt)'
  BY <1>0, CacheStays DEF Miss
<1>2. QED
  BY <1>0, <1>1, FetchStartsInv DEF Inv, Miss, TypeOK, VersionInv, runtime

LEMMA NoEntryBounded == ASSUME Inv, NEW i \in Nat PROVE Bounded(NoEntry, i)
  BY LimitAssumption DEF Bounded, NoEntry, CurrentSince, Inv, VersionInv, TypeOK, Version

LEMMA RefreshInv == ASSUME Inv, NEW r \in Handler, Refresh(r) PROVE Inv'
<1>0. [Next]_vars /\ "refresh" \in Kind /\ Bounded(NoEntry, invalidatedAt)
      /\ Bounded(NoEntry, now)
  BY NoEntryBounded DEF Next, Kind, Inv, TypeOK
<1>1. Bounded(cache, invalidatedAt)'
  BY <1>0 DEF Refresh, Bounded, CurrentSince, runtime
<1>2. QED
  BY <1>0, <1>1, Written, FetchStartsInv
     DEF Inv, Refresh, TypeOK, VersionInv, runtime

LEMMA BypassInv == ASSUME Inv, NEW r \in Handler, Bypass(r) PROVE Inv'
<1>0. [Next]_vars /\ "bypass" \in Kind /\ Bounded(NoEntry, invalidatedAt)
  BY NoEntryBounded DEF Next, Kind, Inv, TypeOK
<1>1. Bounded(cache, invalidatedAt)'
  BY <1>0, CacheStays DEF Bypass
<1>2. QED
  BY <1>0, <1>1, Written, FetchStartsInv DEF Inv, Bypass, TypeOK, VersionInv, runtime

(* The answer was current when it was given, after the attempt had started. *)
LEMMA RuntimeAnswersInv == ASSUME Inv, NEW r \in Handler, RuntimeAnswers(r) PROVE Inv'
<1>0. [Next]_vars
  BY DEF Next
<1>1. PICK q : q = [request[r] EXCEPT !.answer = version]
               /\ request' = [request EXCEPT ![r] = q]
  BY DEF RuntimeAnswers
<1>2. request[r] \in RequestState
  BY DEF Inv, TypeOK
<1>3. q \in RequestState
  BY <1>1, <1>2 DEF RequestState, Inv, TypeOK
<1>4. /\ q.phase = "fetching" /\ q.attempt = request[r].attempt /\ q.since = request[r].since
      /\ q.sentAt = request[r].sentAt /\ q.invalidatedAt = request[r].invalidatedAt
      /\ q.existing = request[r].existing /\ q.kind = request[r].kind /\ q.answer = version
  BY <1>1, <1>2 DEF RequestState, RuntimeAnswers
<1>5. CurrentSince(version, q.since)
  BY LimitAssumption DEF CurrentSince, Inv, VersionInv, TypeOK, Version
<1>6. request' = [request EXCEPT ![r] = q]
  BY <1>1
<1>7. Paced(request[r]) /\ Holding(request[r])
  BY DEF Inv, RequestInv, RuntimeAnswers
<1> HIDE <1>1
<1>8. Paced(q) /\ Holding(q)
  BY <1>4, <1>5, <1>7 DEF Paced, Holding, RuntimeAnswers
<1>9. Paced(q)' /\ Holding(q)'
  BY <1>0, <1>3, <1>8, HoldingStays DEF Paced, Inv, RuntimeAnswers
<1>10. q.existing # NoEntry => q.kind = "read"
  BY <1>4 DEF Inv, TypeOK
<1>11. /\ request' \in [Handler -> RequestState] /\ RequestInv'
       /\ \A o \in Handler : request'[o].existing # NoEntry => request'[o].kind = "read"
  BY <1>0, <1>3, <1>6, <1>9, <1>10, OneRequest DEF RuntimeAnswers
<1>12. Bounded(cache, invalidatedAt)'
  BY <1>0, CacheStays DEF RuntimeAnswers
<1>13. QED
  BY <1>11, <1>12, Silent DEF Inv, RuntimeAnswers, TypeOK, VersionInv, runtime

(* A request that ends is idle again. *)
LEMMA EndsInv ==
    ASSUME Inv, [Next]_vars, UNCHANGED now, NEW r \in Handler,
           request' = [request EXCEPT ![r] = Idle]
    PROVE  /\ request' \in [Handler -> RequestState] /\ RequestInv'
           /\ \A o \in Handler : request'[o].existing # NoEntry => request'[o].kind = "read"
<1>1. Idle.existing = NoEntry
  BY DEF Idle
<1>2. QED
  BY <1>1, Written, OneRequest

(* What is stored was current when the attempt began, at most Timeout ago and
   since the request came in. *)
LEMMA FetchSucceedsInv == ASSUME Inv, NEW r \in Handler, FetchSucceeds(r) PROVE Inv'
<1>0. [Next]_vars
  BY DEF Next
<1>1. PICK q \in RequestState : q = request[r]
  BY DEF Inv, TypeOK
<1>2. /\ q.phase = "fetching" /\ q.answer \in Version \ {0}
      /\ CurrentSince(q.answer, q.since) /\ q.since <= now /\ now <= q.since + Timeout
      /\ q.invalidatedAt <= q.sentAt /\ q.sentAt <= q.since
  BY <1>1 DEF Inv, RequestInv, Paced, Holding, FetchSucceeds, RequestState
<1>3. /\ now \in Nat /\ q.since \in Nat /\ q.sentAt \in Nat /\ q.invalidatedAt \in Nat
      /\ Ttl \in Nat \ {0} /\ Timeout \in Nat \ {0} /\ invalidatedAt \in Nat
      /\ invalidatedAt <= now /\ q.kind \in Kind
      /\ supersededAt \in [Version -> Nat]
  BY <1>1, LimitAssumption DEF Inv, TypeOK, RequestState, VersionInv
<1>4. \A t \in Int : t <= q.since => CurrentSince(q.answer, t)
  BY <1>2, <1>3 DEF CurrentSince
<1>5. Serve(q, q.answer, FALSE)
  BY <1>1 DEF FetchSucceeds
<1>6. /\ reply' \in Reply /\ NoCacheIsFresh' /\ FreshIsBounded' /\ InvalidationHolds'
  <2>1. /\ q.sentAt <= q.since /\ now + 1 - (Ttl + Timeout) <= q.since
        /\ q.invalidatedAt - Timeout <= q.since
    BY <1>2, <1>3
  <2>2. /\ CurrentSince(q.answer, q.sentAt)
        /\ CurrentSince(q.answer, now + 1 - (Ttl + Timeout))
        /\ CurrentSince(q.answer, q.invalidatedAt - Timeout)
    BY <1>3, <1>4, <2>1
  <2>3. UNCHANGED <<now, runtime>>
    BY DEF FetchSucceeds
  <2>4. QED
    BY <1>2, <1>5, <2>2, <2>3, Served
<1>7. ASSUME q.kind = "bypass" PROVE Bounded(cache, invalidatedAt)' /\ cache' \in Entry
  BY <1>0, <1>1, <1>7, CacheStays DEF FetchSucceeds, Inv, TypeOK
<1>8. ASSUME q.kind # "bypass" PROVE Bounded(cache, invalidatedAt)' /\ cache' \in Entry
  <2> DEFINE entry == [version |-> q.answer, expiresAt |-> now + Ttl]
  <2>1. entry \in Entry /\ entry.version = q.answer /\ entry.expiresAt = now + Ttl
    BY <1>2, <1>3 DEF Entry
  <2>2. cache' = entry /\ invalidatedAt' = invalidatedAt
    BY <1>1, <1>8 DEF FetchSucceeds
  <2> HIDE DEF entry
  <2>3. /\ CurrentSince(q.answer, now + Ttl - Ttl - Timeout)
        /\ CurrentSince(q.answer, invalidatedAt - Timeout)
    <3>1. now + Ttl - Ttl - Timeout <= q.since /\ invalidatedAt - Timeout <= q.since
      BY <1>2, <1>3
    <3>2. QED
      BY <1>3, <1>4, <3>1
  <2>4. Bounded(entry, invalidatedAt)
    BY <1>2, <1>3, <2>1, <2>3 DEF Bounded
  <2>5. QED
    BY <2>1, <2>2, <2>4 DEF Bounded, CurrentSince, FetchSucceeds, runtime
<1>9. QED
  BY <1>0, <1>6, <1>7, <1>8, EndsInv DEF Inv, FetchSucceeds, TypeOK, VersionInv, runtime

(* What a failed request is served is the entry it found. *)
LEMMA FetchFailsInv == ASSUME Inv, NEW r \in Handler, FetchFails(r) PROVE Inv'
<1>0. [Next]_vars
  BY DEF Next
<1>1. PICK q \in RequestState : q = request[r]
  BY DEF Inv, TypeOK
<1>2. /\ Bounded(q.existing, q.invalidatedAt)
      /\ q.existing # NoEntry => q.kind = "read"
  BY <1>1 DEF Inv, TypeOK, RequestInv, Holding, FetchFails
<1>3. /\ reply' \in Reply \cup {NoReply}
      /\ NoCacheIsFresh' /\ FreshIsBounded' /\ InvalidationHolds'
  <2>1. CASE q.existing = NoEntry
    BY <1>1, <2>1, Silent DEF FetchFails
  <2>2. CASE q.existing # NoEntry
    <3>1. q.existing.version \in Version \ {0}
      BY <1>2, <2>2 DEF Bounded, RequestState, Entry
    <3>2. Serve(q, q.existing.version, TRUE) /\ UNCHANGED <<now, runtime>>
      BY <1>1, <2>2 DEF FetchFails
    <3>3. q.invalidatedAt # 0 => CurrentSince(q.existing.version, q.invalidatedAt - Timeout)
      BY <1>2 DEF Bounded
    <3>4. QED
      BY <1>2, <2>2, <3>1, <3>2, <3>3, Served
  <2>3. QED
    BY <2>1, <2>2
<1>4. Bounded(cache, invalidatedAt)'
  BY <1>0, CacheStays DEF FetchFails
<1>5. QED
  BY <1>0, <1>3, <1>4, EndsInv DEF Inv, FetchFails, TypeOK, VersionInv, runtime

(* The state of a request can be changed field by field. *)
LEMMA Fields ==
    ASSUME NEW q \in RequestState
    PROVE  /\ \A phase \in {"idle", "fetching", "delaying"} :
                 [q EXCEPT !.phase = phase] \in RequestState
           /\ \A t \in Nat : [q EXCEPT !.since = t] \in RequestState
           /\ \A n \in 0 .. MaxAttempts : [q EXCEPT !.attempt = n] \in RequestState
           /\ \A v \in Version : [q EXCEPT !.answer = v] \in RequestState
<1>1. \A phase \in {"idle", "fetching", "delaying"} : [q EXCEPT !.phase = phase] \in RequestState
  BY DEF RequestState
<1>2. \A t \in Nat : [q EXCEPT !.since = t] \in RequestState
  BY DEF RequestState
<1>3. \A n \in 0 .. MaxAttempts : [q EXCEPT !.attempt = n] \in RequestState
  BY DEF RequestState
<1>4. \A v \in Version : [q EXCEPT !.answer = v] \in RequestState
  BY DEF RequestState
<1>5. QED
  BY <1>1, <1>2, <1>3, <1>4

(* The delay before the next attempt, which is at most the last one. *)
LEMMA RetryDelaysInv == ASSUME Inv, NEW r \in Handler, RetryDelays(r) PROVE Inv'
<1>0. [Next]_vars
  BY DEF Next
<1>1. PICK p \in RequestState : p = request[r]
  BY DEF Inv, TypeOK
<1>2. PICK q : q = [p EXCEPT !.phase = "delaying", !.since = now, !.answer = 0]
  OBVIOUS
<1>3. request' = [request EXCEPT ![r] = q]
  BY <1>1, <1>2 DEF RetryDelays, Inv, TypeOK
<1>4. q \in RequestState
  <2>1. PICK o \in RequestState : o = [p EXCEPT !.phase = "delaying"]
    BY Fields
  <2>2. PICK n \in RequestState : n = [o EXCEPT !.since = now]
    BY Fields DEF Inv, TypeOK
  <2>3. 0 \in Version
    BY LimitAssumption DEF Version
  <2>4. [n EXCEPT !.answer = 0] \in RequestState
    BY <2>3, Fields
  <2>5. QED
    BY <1>2, <2>1, <2>2, <2>4
<1>5. /\ q.phase = "delaying" /\ q.attempt = p.attempt /\ q.since = now
      /\ q.sentAt = p.sentAt /\ q.invalidatedAt = p.invalidatedAt
      /\ q.existing = p.existing /\ q.kind = p.kind /\ q.answer = 0
  BY <1>2 DEF RequestState
<1>6. /\ Paced(p) /\ Holding(p) /\ p.phase = "fetching" /\ p.attempt < MaxAttempts
      /\ p.existing # NoEntry => p.kind = "read"
  BY <1>1 DEF Inv, TypeOK, RequestInv, RetryDelays
<1> HIDE <1>2
<1>7. Holding(q)
  BY <1>1, <1>5, <1>6 DEF Holding, RequestState, Inv, TypeOK
<1>8. Paced(q)
  BY <1>5, <1>6, LimitAssumption DEF Paced, RequestState, Inv, TypeOK
<1>9. Paced(q)' /\ Holding(q)'
  BY <1>0, <1>4, <1>7, <1>8, HoldingStays DEF Paced, Inv, RetryDelays
<1>10. /\ request' \in [Handler -> RequestState] /\ RequestInv'
       /\ \A o \in Handler : request'[o].existing # NoEntry => request'[o].kind = "read"
  <2>1. UNCHANGED now /\ (q.existing # NoEntry => q.kind = "read")
    BY <1>5, <1>6 DEF RetryDelays
  <2>2. QED
    BY <1>0, <1>3, <1>4, <1>9, <2>1, OneRequest
<1>11. Bounded(cache, invalidatedAt)'
  BY <1>0, CacheStays DEF RetryDelays
<1>12. QED
  BY <1>10, <1>11, Silent DEF Inv, RetryDelays, TypeOK, VersionInv, runtime

(* The next attempt starts no later than the delay after the last one ended. *)
LEMMA RetryStartsInv == ASSUME Inv, NEW r \in Handler, RetryStarts(r) PROVE Inv'
<1>0. [Next]_vars
  BY DEF Next
<1>1. PICK p \in RequestState : p = request[r]
  BY DEF Inv, TypeOK
<1>2. PICK q : q = [p EXCEPT !.phase = "fetching", !.since = now, !.attempt = p.attempt + 1]
  OBVIOUS
<1>3. request' = [request EXCEPT ![r] = q]
  BY <1>1, <1>2 DEF RetryStarts, Inv, TypeOK
<1>4. /\ Paced(p) /\ Holding(p) /\ p.phase = "delaying"
      /\ p.existing # NoEntry => p.kind = "read"
  BY <1>1 DEF Inv, TypeOK, RequestInv, RetryStarts
<1>5. p.attempt + 1 \in 2 .. MaxAttempts
  BY <1>4, LimitAssumption DEF Paced
<1>6. q \in RequestState
  <2>1. PICK o \in RequestState : o = [p EXCEPT !.phase = "fetching"]
    BY Fields
  <2>2. PICK n \in RequestState : n = [o EXCEPT !.since = now]
    BY Fields DEF Inv, TypeOK
  <2>3. p.attempt + 1 \in 0 .. MaxAttempts
    BY <1>5, LimitAssumption
  <2>4. [n EXCEPT !.attempt = p.attempt + 1] \in RequestState
    BY <2>3, Fields
  <2>5. QED
    BY <1>2, <2>1, <2>2, <2>4
<1>7. /\ q.phase = "fetching" /\ q.attempt = p.attempt + 1 /\ q.since = now
      /\ q.sentAt = p.sentAt /\ q.invalidatedAt = p.invalidatedAt
      /\ q.existing = p.existing /\ q.kind = p.kind /\ q.answer = p.answer
  BY <1>2 DEF RequestState
<1> HIDE <1>2
<1>8. Holding(q)
  BY <1>1, <1>4, <1>7 DEF Holding, Paced, RequestState, Inv, TypeOK
<1>9. Paced(q)
  <2>1. (q.attempt - 1) * (Timeout + RetryDelay)
          = (p.attempt - 1) * (Timeout + RetryDelay) + (Timeout + RetryDelay)
    BY <1>1, <1>7, LimitAssumption DEF RequestState
  <2>2. (p.attempt - 1) * (Timeout + RetryDelay) \in Int
    BY <1>1, LimitAssumption DEF RequestState
  <2>3. now <= q.sentAt + (q.attempt - 1) * (Timeout + RetryDelay)
    BY <1>1, <1>4, <1>7, <2>1, <2>2, LimitAssumption DEF Paced, RequestState, Inv, TypeOK
  <2>4. QED
    BY <1>5, <1>7, <2>3, LimitAssumption DEF Paced, Inv, TypeOK
<1>10. Paced(q)' /\ Holding(q)'
  BY <1>0, <1>6, <1>8, <1>9, HoldingStays DEF Paced, Inv, RetryStarts
<1>11. /\ request' \in [Handler -> RequestState] /\ RequestInv'
       /\ \A o \in Handler : request'[o].existing # NoEntry => request'[o].kind = "read"
  <2>1. UNCHANGED now /\ (q.existing # NoEntry => q.kind = "read")
    BY <1>4, <1>7 DEF RetryStarts
  <2>2. QED
    BY <1>0, <1>3, <1>6, <1>10, <2>1, OneRequest
<1>12. Bounded(cache, invalidatedAt)'
  BY <1>0, CacheStays DEF RetryStarts
<1>13. QED
  BY <1>11, <1>12, Silent DEF Inv, RetryStarts, TypeOK, VersionInv, runtime

LEMMA RuntimeChangesInv == ASSUME Inv, RuntimeChanges PROVE Inv'
<1>0. [Next]_vars
  BY DEF Next
<1>1. VersionInv' /\ TypeOK'
  BY LimitAssumption DEF Inv, VersionInv, TypeOK, RuntimeChanges, Version
<1>2. Bounded(cache, invalidatedAt)' /\ RequestInv'
  BY <1>0, CacheStays, NoRequest DEF RuntimeChanges
<1>3. QED
  BY <1>1, <1>2, Silent DEF Inv, RuntimeChanges

(* Time passes no timer that is due. *)
LEMMA TickInv == ASSUME Inv, Tick PROVE Inv'
<1>0. [Next]_vars
  BY DEF Next
<1>1. VersionInv' /\ TypeOK'
  BY DEF Inv, VersionInv, TypeOK, Tick, runtime
<1>2. Bounded(cache, invalidatedAt)'
  BY <1>0, CacheStays DEF Tick
<1>3. ASSUME NEW r \in Handler, NEW q \in RequestState, q = request[r], q.phase # "idle"
      PROVE  Paced(request[r])' /\ Holding(request[r])'
  <2>1. Paced(q) /\ Holding(q) /\ request'[r] = q
    BY <1>3 DEF Inv, RequestInv, Tick
  <2>2. now' = now + 1 /\ now < Due(r)
    BY DEF Tick
  <2>3. q.phase \in {"fetching", "delaying"} /\ q.since \in Nat /\ now \in Nat
    BY <1>3 DEF RequestState, Inv, TypeOK
  <2>4. Paced(q)'
    BY <1>3, <2>1, <2>2, <2>3, LimitAssumption DEF Due, Paced
  <2>5. Holding(q)'
    BY <1>0, <2>1, HoldingStays DEF Inv
  <2>6. QED
    BY <2>1, <2>4, <2>5
<1>4. RequestInv'
  BY <1>3 DEF RequestInv, Inv, TypeOK, Tick
<1>5. QED
  BY <1>1, <1>2, <1>4, Silent DEF Inv, Tick

(* Every step preserves the invariant. *)
LEMMA StepInv == Inv /\ [Next]_vars => Inv'
<1> SUFFICES ASSUME Inv, [Next]_vars PROVE Inv'
  OBVIOUS
<1>1. CASE \E r \in Handler :
              \/ Hit(r) \/ Miss(r) \/ Refresh(r) \/ Bypass(r)
              \/ RuntimeAnswers(r) \/ FetchSucceeds(r)
              \/ RetryDelays(r) \/ RetryStarts(r) \/ FetchFails(r)
  BY <1>1, HitInv, MissInv, RefreshInv, BypassInv, RuntimeAnswersInv, FetchSucceedsInv,
     RetryDelaysInv, RetryStartsInv, FetchFailsInv
<1>2. CASE RuntimeChanges
  BY <1>2, RuntimeChangesInv
<1>3. CASE Tick
  BY <1>3, TickInv
<1>4. CASE UNCHANGED vars
  BY <1>4 DEF vars, runtime, Inv, TypeOK, VersionInv, Bounded, CurrentSince, RequestInv, Paced,
              Holding, NoCacheIsFresh, FreshIsBounded, InvalidationHolds
<1>5. QED
  BY <1>1, <1>2, <1>3, <1>4 DEF Next

-----------------------------------------------------------------------------
(* The strengthened invariant holds in every reachable state. *)
THEOREM Invariance == Spec => []Inv
  BY InitInv, StepInv, PTL DEF Spec

(* The types of the cache, the requests and the replies. *)
THEOREM Typing == Spec => []TypeOK
  BY Invariance, PTL DEF Inv

(* No request with no-cache, and none for a route that is not cacheable, is
   answered with data older than the request (readThroughGateway: the entry is
   deleted before it is looked up). *)
THEOREM NoCacheRepliesAreFresh == Spec => []NoCacheIsFresh
  BY Invariance, PTL DEF Inv

(* A reply that is not labelled stale is never older than the lifetime of an
   entry and one timeout, also when a slow fetch overwrites a newer entry. *)
THEOREM FreshRepliesAreBounded == Spec => []FreshIsBounded
  BY Invariance, PTL DEF Inv

(* What a no-cache request invalidated is not served to a later request, not
   even as the stale answer of a failure. *)
THEOREM InvalidatedDataStaysOut == Spec => []InvalidationHolds
  BY Invariance, PTL DEF Inv

(* For every number of attempts a request is answered within them and the
   delays between them (fetchWithRetry). *)
THEOREM RepliesAreBounded == Spec => []BoundedResponse
<1>1. Inv => BoundedResponse
  <2> SUFFICES ASSUME Inv, NEW r \in Handler, NEW q \in RequestState, q = request[r],
                      q.phase # "idle"
               PROVE  /\ q.attempt <= MaxAttempts
                      /\ now <= q.sentAt + MaxAttempts * Timeout
                                  + (MaxAttempts - 1) * RetryDelay
    BY DEF BoundedResponse, Inv, TypeOK
  <2> DEFINE pace == Timeout + RetryDelay
  <2>1. /\ q.phase \in {"fetching", "delaying"} /\ q.attempt \in Nat
        /\ q.since \in Nat /\ q.sentAt \in Nat /\ now \in Nat
        /\ Timeout \in Nat /\ RetryDelay \in Nat /\ MaxAttempts \in Nat \ {0}
    BY LimitAssumption DEF RequestState, Inv, TypeOK
  <2>2. Paced(q)
    BY DEF Inv, RequestInv
  <2>3. \A k, m, n \in Nat : m <= n => m * k <= n * k
    OBVIOUS
  <2>4. MaxAttempts * Timeout + (MaxAttempts - 1) * RetryDelay
          = (MaxAttempts - 1) * pace + Timeout
    BY <2>1
  <2>5. CASE q.phase = "fetching"
    <3>1. q.attempt - 1 \in Nat /\ MaxAttempts - 1 \in Nat /\ q.attempt <= MaxAttempts
          /\ q.since <= q.sentAt + (q.attempt - 1) * pace /\ now <= q.since + Timeout
      BY <2>1, <2>2, <2>5 DEF Paced
    <3>2. (q.attempt - 1) * pace <= (MaxAttempts - 1) * pace
      BY <2>1, <2>3, <3>1
    <3>3. /\ (q.attempt - 1) * pace \in Int /\ (MaxAttempts - 1) * pace \in Int
          /\ MaxAttempts * Timeout \in Int /\ (MaxAttempts - 1) * RetryDelay \in Int
      BY <2>1
    <3> HIDE DEF pace
    <3>4. QED
      BY <2>1, <2>4, <3>1, <3>2, <3>3
  <2>6. CASE q.phase = "delaying"
    <3>1. /\ q.attempt <= MaxAttempts - 1
          /\ q.since <= q.sentAt + (q.attempt - 1) * pace + Timeout
          /\ now <= q.since + RetryDelay
      BY <2>1, <2>2, <2>6 DEF Paced
    <3>2. q.attempt * pace <= (MaxAttempts - 1) * pace
      BY <2>1, <2>3, <3>1
    <3>3. q.attempt * pace = (q.attempt - 1) * pace + Timeout + RetryDelay
      BY <2>1
    <3>4. /\ q.attempt * pace \in Int /\ (q.attempt - 1) * pace \in Int
          /\ (MaxAttempts - 1) * pace \in Int
          /\ MaxAttempts * Timeout \in Int /\ (MaxAttempts - 1) * RetryDelay \in Int
      BY <2>1
    <3> HIDE DEF pace
    <3>5. QED
      BY <2>1, <2>4, <3>1, <3>2, <3>3, <3>4
  <2>7. QED
    BY <2>1, <2>5, <2>6
<1>2. QED
  BY <1>1, Invariance, PTL

=============================================================================
