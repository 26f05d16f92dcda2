# Verification of the NEXUS Command Portal

TLA+ models of the NEXUS Command Portal and its Experience Gateway, checked with
TLC on small instances and, in eight proof modules, proved with TLAPS for every value
of the constants. The modules are translated from the code (`server/`,
`src/lib/`, `src/components/`, `src/App.tsx`); the lines each definition stands
for are in `PROJECT.json` under `map`.

## The system

A browser application (React) talks only to the Experience Gateway, a Node.js
process (`server/portal-server.mjs`). The Gateway holds the service credential
and calls the NEXUS Runtime, an external service. Everything the Gateway keeps is
in memory; durable state is the Runtime's, and the browser's cookies and
sessionStorage.

| Component | Code | State it keeps | Operations | What is hard | Module |
|---|---|---|---|---|---|
| Registered Executive session | `executive-session.mjs`, `portal-server.mjs:2727-2988`, `3106-3352`, `5096-5128` | `revoked` Map; claims live in the signed cookie | login, status, revoke, canonical execution, sign-out interlock | awaits between check and use, replies out of order, memory lost on restart | `ExecutiveSession`, `SessionLifecycle` |
| Executive session Runtime client | `executive-session-runtime.mjs` | one abort timer per call | verify, get, revoke | calls that arrive after the Gateway gave up, answers that get lost | `ExecutiveSession` |
| Registered session in the browser | `local-client.ts:886-974`, `RegisteredExecutiveSession.tsx` | cookie jar, CSRF token, the panel | login, revoke, 30 s, focus and visibility revalidation | late answers overwrite newer ones | `ExecutivePanel` |
| Provider authentication | `replit-auth-oidc.mjs`, `replit-auth-provider.mjs`, `executive-session.mjs:271-606` | transaction and session cookies, discovered client, JWKS cache | sign-in, callback, sign-out, token verification | concurrent sign-ins share one cookie, coalesced key refresh | `ProviderSignIn`, `ProviderKeys` |
| Deployment and start-up | `portal-server.mjs:423-1181`, `5020-5052`, `index.mjs`, `executive-session.mjs:608-762` | the frozen configuration | load, admit, start | some seventy settings that depend on each other, loaded twice | `Deployment` |
| Runtime action admission | `portal-server.mjs:4051-4269` and the handlers at `4776-4978` | the projection held, its expiry, the refresh promise, the failure cooldown | decide, refresh, adopt, clear | handlers replace one projection, joined refreshes, expiry during a bootstrap | `RuntimeAdmission` |
| Routes, registry and relay | `portal-server.mjs:112-360`, `1556-2635`, `2990-4122`, `hosted-capability-gate.ts`, `portal-client.ts` | none of its own | resolve a path, admit its action, bind and forward a mutation, offer an action | three tables that must agree, ages that add up over validators | `GatewayRoutes`, `CapabilityRegistry`, `GatewayInputs`, `GatewayDispatch` |
| Read-through cache | `portal-server.mjs:4464-4686` | one entry per route | hit, miss, no-cache, retry, stale fallback | overlapping fetches, an entry captured before an await | `GatewayCache` |
| Serialized refresh | `request-coordination.mjs:177-205` | `active`, `queuedForce` | call, forcing call | microtask order, a failing predecessor | `SerializedRefresh` |
| Application shell | `App.tsx`, `portal-client.ts:430-649`, `request-coordination.mjs:18-59` | snapshot, failures, connection state | refresh, merge, change route | what is merged when, and from which bootstrap | `SnapshotPage`, `AppShell` |
| Executive interactions | `runtime-voice-admission.ts`, `NexusCopilot.tsx`, `VoiceWorkspace.tsx`, `canonical-action-intent.ts` | two sessionStorage slots, drafts, the approval card of each surface | ask, speak, act, retry, reconcile, approve, deny, recover after a reload | lost and late submissions, three surfaces sharing the slots, decisions crossing | `ExecutiveInteraction` |
| Conclave requests | `conclave-request-identity.ts`, `canonical-action-intent.ts`, `ConclaveWorkspace.tsx` | kept requests, ids retained by retry key | start, run, admit Evidence, retry, select, refresh | an id must survive a retry and change with the content | `ConclaveRequests` |
| Operational session | `operational-auth.mjs`, `portal-server.mjs:2637-2692` | revocation Map, login failures per address | establish, login, logout, CSRF check | memory lost on restart, rate limit window | `OperationalSession`, `LoginLimit` |
| Realtime voice, static files, presentation | `realtime-voice-client.ts`, `serveStatic`, components | - | - | quarantined route (always 503), I/O, rendering | - |

The components meet in these places: a login reads the provider session and calls
the Runtime through the Runtime client; canonical execution authenticates the
executive session *and then* awaits the action admission; the admission decides
on a Capability Registry projection that registry reads, bootstraps and its own
refresh all replace; reads that are admitted go through the cache; the browser's
snapshot loader issues those reads inside a serialized refresh and its gate reads
the same projection; an executive interaction is a mutation that the Gateway
relays and does not retry, so it is the browser that reconciles what became of
it, and a Conclave request is one of those.

What makes each correct, in one line: a session that is over is never served and
a cookie that was cleared does not come back; a Runtime read is admitted by its
own action, on current knowledge of the right scope only; a mutation is bound to
its operator and its id; a reply says how old it can be and is bounded in age and
time; refreshes do not overlap and nobody waits for ever. The hazards behind
these, each at its line, are listed in `PROJECT.json` under `hazards`.

## Modules

### `ExecutiveSession` - the Registered Executive session

Browser, Gateway and Runtime together. Each request is a process:
`unsent -> sent -> [waiting ->] calling -> answered -> replied -> delivered`
(or `dropped` by a restart). An action is one stretch of a handler between two
awaits: `ReceiveX` runs up to the first await, `IssueSession`, `CallRevoke`,
`CallExecute` (and `RefuseLogin`, `AbortX`) up to the Runtime call, `ReplyX` from
the answer to the reply. The Gateway is single-threaded, so a stretch is atomic
and has one reading of the clock.

- A session identifier is random; the session that login request `r` mints is
  named `r`. `claims[s]` is what its signed cookie says, `revoked[s]` the entry of
  the authority's Map, `runtime[s]` the durable record of the Runtime.
- `calls` holds the Runtime calls still in the network. `RuntimeServes` may take
  one after `CallFails` (timeout, broken connection, invalid envelope) already
  ended the wait, and its answer may get lost. The Runtime refuses an assertion
  past its `deadline`; this, and that a revoked session stays revoked, is all that
  is assumed of it.
- `Deliver` is the browser taking a reply, in any order; a reply that is never
  delivered is a lost one. `jar` is the cookie, `token` the CSRF token of the page.
- `Restart` forgets the map and drops every handler, and may come up with another
  registration version, which changes the fingerprint old cookies carry.
- A revoke with a malformed body is answered as a failure and still revokes
  locally, as in the code: `AbortRevoke` followed by `ReplyRevoke`.

Left out: signatures (a cookie names its session or none), field formats, the
provider session's own lifetime (sign-out may be refused for lack of one at any
time), other browsers. The pruning of expired map entries cannot be observed and
is folded into `IsRevoked`. Browser and Gateway clock and the Runtime's expiry
share one monotone clock.

### `SessionLifecycle` - what the session promises

The abstract specification: a session is recorded once and over for good; a
browser holds it for one stretch of time after it was recorded; a request sent on
a session that is over is not granted. `ExecutiveSession` has the mapping
(`RecordOf`: the Runtime's record, over when it is revoked or expired;
`HeldBefore`: cookies that a delivered reply set and the jar no longer has;
`UseOf`: what became of a request), checked as `ImplementsLifecycle` and proved
in `ExecutiveSessionProofs`.

### `RuntimeAdmission` - admission of Runtime reads

`createRuntimeActionAdmissionState` with the three kinds of request that use it.
A read decides on the projection held, starts a refresh, joins the one under way
or is denied during the cooldown. A registry read and a bootstrap fetch the
registry in any case; a bootstrap then reads its children, `Concurrency` at a
time, on the projection it captured. A projection is its evaluation time `at`,
whether it is `foreign`, and the actions it `admits`; validation of its other
fields is `Adoptable` or a failure. The Runtime's clock may be ahead by at most
`Skew`; a Runtime that is behind looks like a late answer. The handlers that
joined a refresh continue in the turn of the event loop that settles it, so
`RefreshSettles` and `RefreshFails` move them together. A fetch is answered from
one moment between its start and end, which covers one that is retried. A
restart is an initial state: nothing is persistent.

### `GatewayRoutes`, `CapabilityRegistry`, `GatewayInputs`, `GatewayDispatch`

One browser request on its way through the Gateway. `GatewayRoutes` has the route tables as
data (templates are sequences of segments, in which `":uuid"` and the like stand for an
identifier, which is one of a few kinds) and the functions that resolve a path, filter
retired ones and find the canonical action of a resolved path. `CapabilityRegistry` has a
registry projection as its three readers judge it: the Gateway's validator and admission
decision, the browser's parser, and the browser's hosted gate. Times are ticks, `Second`
of them in a second (the code has milliseconds), because the validator mixes the two:
receipts are compared in milliseconds, the age a connector reports is in whole seconds
and compared with the floor of the measured one (`AgeAgrees`, `portal-server.mjs:3811`).
The Gateway looks an action up by its identity and asks that it is on the fixed contract
of its route (`OnContract`); the gate takes the first record listed for a capability and a
route (`Found`, by `pos`) and asks neither. `GatewayInputs` enumerates
every path of the tables with every kind of identifier, and registry projections that are
right or off in one respect. `GatewayDispatch` is the handler: retired filter, resolution,
session, scope, admission (with the refresh it may wait for, while `RegistryRead` replaces
the projection beneath it), body, key, identity binding, relay. Its phases are those at
which the handler awaits.

So the two do differ, and `RefusedOffersAreExplained` says exactly where. A read control
may be enabled by a record that is off its contract, which the Gateway refuses. Every control that is not a read
is offered to sessions with `operations:read`, and the Gateway refuses the interaction to
an operator that is not named; `docs/HostedOperationalGateway.md:28` describes this as
the boundary of the automatic workspace-service principal.

Left out: origin, query-string and size checks, which come before everything
else; the formats of single values. A body is its group of fields, its id and
whether it names an untrusted field.

### `GatewayCache` - the read-through cache

`readThroughGateway`, `fetchWithRetry` and `fetchRuntime` for one route (routes
share nothing). Data is a version number that the Runtime increases. A handler
keeps the entry it found (`existing`) over its fetch, and `FetchFails` serves it,
labelled stale. Timers are punctual (`Tick` does not pass one that is due), so
the bounds hold up to the lateness of the event loop. `Retry-After` only
suppresses a retry, which `FetchFails` allows at every attempt.

### `SerializedRefresh`, `SnapshotPage` - the browser's loaders

The steps of `createSerializedRefresh` are microtasks: the start of a run, the
reaction that clears `active`, the launch of the queued run, the reaction that
clears `queuedForce`, the return of a call. Calls come in any turn, also in
between the microtasks after a run has ended (`Quiet` tells the two apart). The
bounded task inside a run settles in success or failure. `SnapshotPage` puts the
snapshot loader into it: a run reads one bootstrap, whose body may not fit or
fail, `collectSnapshot` turns it into parts and failures, and `App.refresh` merges
what each call returns when it returns; `Shown` is the connection state derived
from it.

After one healthy bootstrap an unreachable Gateway still shows Healthy, because
the parts of the last one stay; `tests/request-coordination.test.mjs:222-225` asks
for that, and the model has it.

### `ExecutivePanel` - the panel of the Registered Executive session

What the panel asks (in the order it likes: a timer, focus, a button) and how it
accepts or rejects each answer when it arrives. The session itself is
`ExecutiveSession`; here it is what a request of this browser would find.

### `ExecutiveInteraction` - governed interactions of the browser

The copilot panel, the voice workspace and the workspaces that ask for an action
(`admitCanonicalActionIntent`, the surface `"action"`, one action at a time) submit a
request to the Runtime under an interaction id; the last keeps its id for a retry
(`DraftLane`) and shows no approval card. Each surface has a lane per kind of asynchronous call (text,
voice, decision about an approval, recovery at load), and an action is what a lane
does between two awaits:
`post -> (answer) | look -> (answer) | post again -> look -> (answer or give up)`.
`ReplyAdmitted`, `ReplyMalformed`, `ReplyAmbiguous` and `ReplyRefused` are the four
ways a POST ends; `LookFinds`, `LookMisses` and `LookGivesUp` the ways a lookup
does. A lookup is two steps: the Runtime's record is read (`LookUp`), and the
browser acts on it later. `pointer` and `reconcile` are the two sessionStorage
slots, shared by the surfaces; `Reload` keeps them and draws new conversation
ids. `card` is the approval a surface offers for decision and `draft` the voice
request it keeps for an exact retry.

- A message in `net` may reach the Runtime at any time or never, also after its
  lane went on (`RuntimeReceives`), in any order.
- The Runtime is external. Assumed of it: it runs an id once, a decision about
  an approval is final, a denied interaction is blocked and only an approved one is
  resumed. While a continuation runs, the record may still be the one of the
  gate (`Readings`).
- `unresolved`, `denied` and `shown` are history: what was given up in doubt (and
  whether it was remembered in the slot or only thrown), what was shown as denied,
  what the last step presented.

Abstractions: a lane has one call at a time; the envelope the Runtime retains is
the one submitted, so a mismatch or a malformed record is the outcome
"unavailable"; surfaces are mounted at every load; the checks of
`projectExecutiveInteraction` on fields are one outcome, valid or not.

After a reload no remembered interaction matches the new conversation id, so
`PrecheckBlocks` refuses every request of the tab
(`runtime-voice-admission.ts:369-378`), which is on the safe side; what is left is to
decide about the approval of that very interaction, if it came to its gate.

There is one slot for the pending approval and one for reconciliation: a second
interaction that reaches its gate, or ends in doubt, overwrites the first. So a block
ends in two ways (`BlockEndsByResultOrOverwrite`): its own result is admitted, or a call
that was under way beside it, or the continuation of an approval, is given up in doubt
and takes its place. The displaced interaction then blocks nothing, although it is as
much in doubt as before.

### `ConclaveRequests` - what the Conclave workspace submits

Investigations to start or restart, runs of a Review, Evidence. A request is
submitted under the id kept for its retry key until the Runtime has admitted it.
`Starts`, `Runs`, `RetriesEvidence` and `AdmitsEvidence` are the handlers,
`EvidenceTyped`, `Selects` and `DirectoryRead` what the operator and the directory do
to what is kept, `ReviewChanges` a Review that gets another version at the
Runtime. `open` holds the submissions not yet admitted.

Two behaviours of the code that a reader might not expect: after a restart that
failed, "Retry start" with no workspace selected submits without a predecessor,
which is another request and goes out under a new id; and typing in the Evidence
form gives up the request that was kept, so the same Evidence typed again goes
out under a new id (`Supersedes`). Not modelled: a reload of the page, which
forgets every kept request and every id.

### `AppShell` - the browser's page together

The snapshot, the operational session's loader, the panel and the Conclave
workspace share no state. A behaviour of `AppShell` follows one of them, chosen in
the initial state; the others stay as they are. That is enough for properties each
of which speaks of one of them, and it does not multiply their states.

### `OperationalSession` - the hosted operational mode

`createSessionAuthority`, `handleSessionApi`, `handleOperationalApi` and the page
that lives with them. A cookie is named by its `sid`; `expiry` is what it says,
`revoked` and `failures` are the Gateway's memory, lost by `Restart`. `poll` is
the `GET /api/session` under way (`createSerializedRefresh` lets there be one, and
in a private workspace its answer may issue a session); `req` are the other
requests, whose replies come in any order. `page` is `capabilityTransport`: the
session whose CSRF token the page uses, or none in local mode. A request carries
the cookie and the token of the moment it is sent, which may differ after a login
elsewhere or a reissue.

- A relayed request is authenticated when it arrives and not again after it has
  waited for its admission or body (`RelayArrives`, then `Relay`).
- A 401 makes the page drop its session whichever it has by then; a poll that
  fails in any way does the same (`PollFails`).
- `guesses`, `ended` and `loggedOut` are history.

Abstractions: one remote address; a mode and principal fixed by the deployment;
failed admission, scope, idempotency and body checks are the outcome "refused"
(they are `GatewayDispatch`); the operations workspace's own copy of the session
is left out; browser and Gateway read one clock.

### `LoginLimit` - what the limit on failed logins promises

The abstract specification: a limiter that drops nothing. A key is looked at if and
only if fewer than `Limit` keys were found wrong in the window that ends now; a right
key and a restart forget the wrong ones. The Gateway keeps a list per address,
filters it by age at each login and appends to what the filter left
(`operational-auth.mjs:82-94`, `Recent`). `OperationalSession` has the mapping (the
wrong keys are `guesses`, the refused logins those with outcome "limited"), checked as
`ImplementsLimit` and proved in `OperationalSessionProofs`: dropping a failure that
still counts would let a guess through, keeping one that does not would refuse the
right key.

### `ProviderKeys`, `ProviderSignIn`, `Deployment`, `ProviderAuthentication`

How the Gateway learns which provider identity a request comes from.
`ProviderKeys` is the token verifier with its JWKS cache: requests, their one
shared refresh (`fetch`), forced refreshes for unknown keys, the minimum interval
and the last failure, beside a provider that rotates its keys. `ProviderSignIn`
is the interactive sign-in: the two sealed cookies of one browser, the discovery
of the OIDC client, callbacks that repeat, come late or on another origin, answers
that reach the browser in any order or never. `Deployment` is `loadConfig`: which
settings are admitted and what is derived from them, with one or two settings off
a sound deployment; a loaded configuration is loaded again by
`createPortalServer`. `ServerClock` is the clock they read.
`ProviderAuthentication` composes them: the deployment chooses the verifier, so a
behaviour follows the settings, the keys or the sign-in, as in `AppShell`.

`docs/REPLIT_DEPLOYMENT.md:91-95` and
`docs/mission3/REGISTERED_EXECUTIVE_SESSION.md:122-124` ask operators for secrets
that are all distinct. `loadConfig` enforces the full list only with interactive
sign-in, which a published deployment needs; without it only the four secrets of
Missions 1 and 3, so that in an unpublished deployment the operational session's
secret may coincide with another. `Deployment` states what the code enforces
(`PublishedSessionsAreApart`). The Replit header verifier cannot
be reached in an admitted deployment and is not modelled.

The `Variant` definitions in these modules are plausible mistakes in the code, one
for each property; nothing uses them except the check that each property would
notice its mistake.

## Runs

| Run | Checks | Instance |
|---|---|---|
| `executive_session` | `RevocationOutlivesCookie`, `NoGrantAfterEnd`, `SignedOutStaysOut`, `RuntimeChangesAreTimely`, `ImplementsLifecycle` | 3 requests, 1 registration, session 2, assertion 1, authentication age 1, clock to 3 |
| `executive_session_sign_out` | `SignOutAfterRevocation` (violated) | the same |
| `runtime_admission` | `ReadsAreCurrent`, `BootstrapReadsItsOwnRegistry`, `RefreshesAreSpaced` | 2 requests used over and over, 2 actions, age 1, skew 1, cooldown 1 (or 2 by Retry-After), 1 worker, clock to 3 |
| `runtime_admission_stale` | `StaleFailsClosed` (violated) | the same with age 2 |
| `gateway_cache` | `BoundedResponse`, `NoCacheIsFresh`, `FreshIsBounded`, `InvalidationHolds` | 2 handlers used over and over, 3 versions, TTL 2, timeout 1, delay 1, 2 attempts, clock to 5 |
| `gateway_dispatch` | `MutationsAreBound`, `ReadsHaveTheirAction`, `EvidenceIsBounded`, `RefusedOffersAreExplained` | one request for every path of the tables, registry projections with one thing off, 2 ticks to the second, age 1 s, skew 1 s, clock to 2 |
| `executive_interaction` | `ContinuationsAreApproved`, `AnswersFitTheQuestion`, `BlockIsInDoubt`, `BlockEndsByResultOrOverwrite` | copilot and actions, 2 ids, 3 calls, 1 reload |
| `executive_interaction_shared` | `DenialIsFinal`, `CallsEnd` | copilot and voice workspace, 1 id, 3 calls, 1 reload |
| `executive_interaction_unresolved` | `UnresolvedBlocksNewIds` (violated) | copilot, 2 ids, 2 calls |
| `operational_session` | `LoggedOutStaysOut`, `RevocationHolds`, `ImplementsLimit`, `PageFollows` | both modes, 2 requests at a time (3 in all) and the poll, 2 sessions, lifetime 2, window 2, limit 1, clock to 3, 1 restart |
| `provider_authentication` | `AdmittedDeploymentsAreSound`, `HeldKeysServe`, `KeysAreCurrent`, `RotationIsSeen`, `SessionsAreBound`, `CallsAreAnswered` | settings off a sound deployment; 2 keys, 3 tokens, 2 requests; 1 origin and another host, 2 calls, 2 sign-ins; clock from 2 to 5 |
| `app_shell` | `SingleFlight`, `ForcedRunForForcedCall`, `NoFinishedRun`, `SnapshotIsOneBootstrap`, `SnapshotNeverGoesBack`, `CallsReturn`, `PanelCatchesUp`, `OneIdPerRequest` | 3 calls and 3 runs of a loader; 2 requests of the panel; 2 proposals, 1 Evidence, 2 Reviews, 2 versions, 4 UUIDs |

Why these bounds are enough to meet the interesting cases:

- *ExecutiveSession.* Three requests are a login, the request that ends the
  session and the one that races it. The lifetimes differ (session 2, assertion
  and authentication age 1), and a clock to 3 lets a session of the first second
  expire while another is active. More than one registration version matters only
  to which cookies a restart invalidates.
- *RuntimeAdmission.* Two requests replace the projection against each other; two
  actions and one worker make a bootstrap read its second child after time has
  passed and the first has ended. A request that has ended may begin again.
- *GatewayCache.* Two handlers overlap in every way two fetches can; three
  versions make an entry older than the one it overwrites; a clock to 5 covers an
  entry's lifetime and a whole retried request after it.
- *GatewayDispatch.* The route tables are complete. A projection is a sound one
  with one field, receipt, connector or action changed or one action added (the
  interaction, or another record for the route of the first, listed before or after
  it), before, at and past the limits of the ages; two ticks to the second are enough
  for a measured age that is not whole. Requests meet only in the projection, which
  `RegistryRead` changes.
- *ExecutiveInteraction.* Two ids are one request in doubt and the next one; three
  calls are a question, its decision or retry, and another question, or a question and
  an action under way together; a reload in between leaves late messages and stored
  slots behind. The shared run has two surfaces on one interaction, which is what a reload produces: both recover the
  same card, and one approves while the other denies.
- *OperationalSession.* Three requests are a login, its logout and one that races
  it, or two wrong keys and the login they hold up; two sessions let a reissued one
  meet replies about the first. A limit of 1 in a window of 2 fills and empties
  within the clock; the restart comes at any point.
- *ProviderAuthentication.* Two keys and a rotation are an old, a new and a withdrawn
  key; two requests share a refresh that one of them starts for an unknown key. Two
  sign-ins compete for the transaction cookie, and a clock of three units passes every
  lifetime. The keys are also proved for any number.
- *AppShell.* Three calls are one running, one queued and one in the gap; more runs
  than calls cannot start. Two requests of the panel overtake each other. Two
  versions of two Reviews, and proposals that return after another, are what could
  confuse two ids. The loader and the ids are also proved for any number.

`MaxTime`, `MaxVersion`, `MaxRun` and `MaxIdentity` bound counters that the code
leaves unbounded; they guard `Tick`, `RuntimeChanges`, `ReviewChanges`, `Launch` and
`Submits`. `MaxId`, `MaxCall` and `MaxReload` bound what the operator does; they
guard `Ask`, `Speak`, `Start` and `Reload`. `MaxSend`, `MaxSession` and `MaxRestart`
guard `Send`, `Issue` and `Restart`; `SignIns` the logins. Symmetry of requests and
handlers is used in runs without liveness properties only. Deadlock is checked for
`operational_session`, where the page polls for ever; it is not for the others: each
request is sent once, calls are counted or the clock stops, so every instance comes
to rest.

*Fairness.* The event loop runs every handler that can go on and every microtask;
`runBoundedTask` ends every run of a loader, and a timer or the default OIDC client
ends the discovery and every exchange with the provider; a lookup of the browser
ends by `CLIENT_READ_TIMEOUT_MS`, and a POST because the Gateway answers it by its
own timeouts or the connection breaks. The page polls its operational session on a
30 s timer while it is visible, and the panel of the executive session revalidates
on one. Nothing is assumed of the Runtime (it may never answer), the network, the
user or the provider. The properties of the other runs are safety properties and
assume no fairness.

### What the runs show

The passing runs show the safety of the session over lost and late calls and
restarts, and that it implements its abstract lifecycle; that admission acts on
current knowledge of the own scope; that every accepted read has the action of its
own template, every forwarded mutation its operator and id, and every offer of the
browser that the Gateway refuses one of two known reasons; how old the evidence in use
can be; the age and time bounds of cached replies; that a governed interaction is
continued only when approved, answers the question it is shown for, blocks others only
while in doubt and until its own result is read or another takes the slot, and ends;
that a logged-out operational session does not come back and the page does not keep one the Gateway would refuse;
that a deployment that starts has its secrets and principals apart; that a token is
accepted on current keys and a new key is found; that a provider session comes from
the sign-in it was started by; that loaders run one at a time, forcing calls get forced runs,
snapshots do not go back; and that a Conclave request keeps its id. The login limit
is one of a process: a restart forgets it, and with it revocations
(`RevocationHolds` speaks of one process only). `NoGrantAfterEnd` is about requests sent
after the end of their session; one that was sent before and waited may be granted, and
what it can still do is bounded by `ImplementsLifecycle` and `SignedOutStaysOut`.
`EvidenceIsBounded` is about what is live verified: an action that is live degraded is
admitted without a receipt (`portal-server.mjs:3852-3862`).
`ReadsHaveTheirAction` leaves out identifiers that are words of the tables
(`missions/events` fits two templates).

Three runs show that a document or comment says more than the code does:

- `executive_session_sign_out`: `docs/REPLIT_DEPLOYMENT.md:107-110` says provider
  sign-out refuses while an active NEXUS session exists. The code asks its own
  cookie check only (`portal-server.mjs:5100`). After a revoke whose Runtime call
  failed, the cookie is cleared and sign-out goes through with the Runtime session
  still active.
- `runtime_admission_stale`: `README.md:58-61` says stale actions fail closed. A
  bootstrap decides its children on the projection it captured
  (`portal-server.mjs:4842`) without looking at its expiry again, so a late child
  is read on an expired one. `BootstrapReadsItsOwnRegistry` states what does hold.
- `executive_interaction_unresolved`: the comment at
  `runtime-voice-admission.ts:668-669` says an unresolved outcome blocks every new
  id. When the one permitted resubmission is refused (line 416), the error is
  thrown and the first submission, which may still be served, is not remembered.

Two passing properties name what the code does not promise either, as alternatives that
TLC needs: without them it finds the rest violated.

- `BlockEndsByResultOrOverwrite`: the slot at `runtime-voice-admission.ts:172` holds one
  interaction in doubt. A question and an action, or a spoken request, can be under way
  together; when both end in doubt the second displaces the first, its own result then
  clears the slot, and the next request goes out under a new id while the first is still
  in doubt. This is the second way in which the comment at lines 668-669 does not hold.
- `RefusedOffersAreExplained`: the gate enables a read control by a record that is live
  and invocable (`hosted-capability-gate.ts:174`) without looking at the identity,
  surfaces and paths on which the Gateway refuses it (`portal-server.mjs:4088`), although
  `README.md:94` says a control is enabled only when, among others, the action admission
  passes; and it offers interactions to operators the Gateway refuses because they are
  not named (`portal-server.mjs:2544`).

## Proofs

| Module | Theorems | Assumptions |
|---|---|---|
| `ExecutiveSessionProofs` | `Invariance`, `Typing`, `RevocationsHold`, `EndedSessionsGetNothing`, `CookiesAreVerified`, `ClearedCookiesStayCleared`, `LateCallsAreInert`, `Implementation` (of `SessionLifecycle`) | `NoSidAssumption`, `LifetimeAssumption` |
| `RuntimeAdmissionProofs` | `Invariance`, `Typing`, `ReadsHold`, `BootstrapsHold`, `SpacingHolds` | `NoneAssumption`, `LimitAssumption` |
| `GatewayCacheProofs` | `Invariance`, `Typing`, `NoCacheRepliesAreFresh`, `FreshRepliesAreBounded`, `InvalidatedDataStaysOut`, `RepliesAreBounded` | `LimitAssumption` |
| `GatewayDispatchProofs` | `RequestInvariance`, `BoundMutations`, `HeldInvariance`, `BoundedEvidence`, `RefusalsAreExplained`, `Typing` | `RegistryAssumption`, `DispatchAssumption` |
| `OperationalSessionProofs` | `Invariance`, `LogoutsHold`, `RevocationsHold`, `GuessInvariance`, `GuessesStayLimited`, `LimitImplemented` (of `LoginLimit`) | `BoundAssumption`, `LimitAssumption` |
| `ProviderAuthenticationProofs` | `KeysInvariance`, `Typing`, `HeldKeysAreServed`, `AcceptedKeysAreCurrent`, `NewKeysAreFound`, `KeysAreCached`, `SignInInvariance`, `SessionsStayBound`, `DeploymentsAreSound` | `TokenAssumption`, `KeyLimitAssumption`, `ClockAssumption`, `OriginAssumption`, `SignInLimitAssumption` |
| `ExecutiveInteractionProofs` | `Invariance`, `Typing`, `DenialsAreFinal`, `ContinuationsAreGranted`, `AnswersAreOwn`, `BlocksAreInDoubt`, `BlocksEnd` | `SurfaceAssumption`, `TextAssumption`, `BoundAssumption` |
| `AppShellProofs` | `LoaderInvariance`, `LoaderTyping`, `RunsDoNotOverlap`, `ForcingCallsGetForcedRuns`, `CallsGetUnfinishedRuns`, `RequestInvariance`, `RequestsKeepTheirIds`, `ComponentsHold`, `PageInvariance`, `PageShowsOneBootstrap`, `PageNeverGoesBack` | `ConstantAssumption`, `ConclaveAssumption`, `NoChoiceAssumption` |

Hardly one of the properties is inductive as it stands. Each module proves an invariant
(`Inv`, or one for each component it is about) that is, with one lemma per action, and
derives the properties from it; an action property follows from `Inv` in one step. The type
invariants are parts of these; no run checks them on their own.

*ExecutiveSession.* `Inv` adds to `TypeOK`: `SessionInv` (only a served call creates a
record, and a revocation entry is exactly the cookie's expiry), `RequestInv` (a
request other than login carries the session of a cookie that was *delivered*, hence
recorded), `CallInv` (a call in the network has a deadline within its session and
within the freshness of its authentication), `DoomedInv` (a request sent on a session
that is over is on the way to a refusal: its answer can no longer be "active") and
`JarInv`. `Shapes` reduces the actions to eleven shapes of step; `Growth` and `Stable`
collect what only grows; `Unmoved` carries the invariant over every request a step does
not touch. The refinement uses the same invariant: each action is a step of
`SessionLifecycle` under the mapping or leaves it alone.

*RuntimeAdmission.* `Known(p)`: every action that projection `p` admits was available in the
Runtime no earlier than `Skew` before the evaluation of `p`. `HeldInv` says this of the
projection held, whose expiry is its evaluation time and `MaxAge`; `Good` says it of what a
request was answered with, and that this was available since the request was sent. `PromiseInv`
ties the refresh promise to the one request that is refreshing, and `CooldownInv` says that a
failure is remembered with its cooldown as long as no refresh is under way, which is what the
clears of other handlers must not disturb.

*GatewayCache.* `VersionInv`: only versions before the current one have been superseded.
`Bounded(entry, invalidated)`: the entry was current at some time since it was stored, less one
timeout, and at some time since the last invalidation, less one timeout. `Paced` bounds how
far a request can have come by its attempt; `Holding` says what a request under way holds: an
answer that was current since the attempt began, and an entry bounded by the invalidation before
the request came in.

*GatewayDispatch.* `RequestInv` keeps with a request what the checks it has passed said of
it, over the awaits at which the projection beneath it may be replaced: the route tables
take no other mutation than the canonical ones (`MutationsAreCanonical`), the body that was
accepted fits a schema of its path, and no schema has an identity field
(`SchemasNameNoIdentity`). `HeldInv` says that the projection held was adopted at some time
up to now; its expiry and the ages the validator allowed then add up to the bounds of
`EvidenceIsBounded`, where `WholeSeconds` turns the age of a connector back into ticks.
`RefusalsAreExplained` compares the two readers: a record that the gate found and that is
on its contract is the one the Gateway looks up (`OfferedIsAllowed`), and the scope the
gate asks for an interaction is the Gateway's (`InteractionsAreServed`). What follows for one projection is proved of every one that is
`Judged`, whatever its receipts, connectors and actions; only then is it used for the ones
of `GatewayInputs`, which are shown to be judged family by family.

*OperationalSession.* The late reply that could bring a cookie back is excluded by
`CookieInv`: a cookie that is being set is in one reply only and has not been in the
browser. `IssuedInv` says that everything the browser holds was issued, `RevocationInv` that
a revocation of this process is remembered up to the expiry of the cookie.

For the login limit, `GuessInv` relates the list the Gateway filters to the history that
nothing is dropped from: what was dropped is out of the window, what is kept is the end of
the history, in order. `Recent` is a recursive function over the list. The prover has no
induction over it, but `<` on the naturals is well founded: a position at which the
filtered list is not a suffix would have a least one (`LeastElement`), and just before that
it is (`WindowIsSuffix`). So the length of the filtered list is the number of wrong
keys in the window (`RecentCounts`), and every login decides as the limiter does.
`RefusalInv` says that a login refused for its number has its reply on the way, so that it
is over once.

*ProviderAuthentication.* For the keys (`KeysInv`) nothing in the state says when the
provider answered. `FetchInv` and `HeldInv` date the answer and the keys held by the last
attempt: a key that is held was published since, and a key that is missing was published
after, as long as no attempt failed. For the sign-ins (`SignInInv`) a request that has passed
a check carries what the check established (`CallOK`), and `SessionOK` says that a session
names a sign-in of its own origin and was issued soon after the authentication; sign-ins are only added
(`Grows`), so a late callback finds the one its cookie named. `KeysAreCached` shows that
the Gateway with both ways of verifying implements the cache. Of the deployments,
`LoadedFrom` says setting by setting what loading makes of them, and `AdmittedAgain`,
`TrustIsShown`, `SecretsAreApart` and `PrincipalsAreApart` are proved of any settings that
are admitted, so that "two settings off" bounds the run and not the argument; that an
environment does not contain the stand-in secret `disabled-session-secret-not-used` is what
they need (`Environment`).

*ExecutiveInteraction.* `RuntimeInv` ties the Runtime's record of an interaction to the
record of its approval. `LaneOK` says of a call of a surface, over every await, that the
request retained under its id is the one its operator asked in this conversation, that a
decision goes on only once the approval was granted, and that a final outcome it has read
is the one retained, which is what makes acting on it later safe. `DraftInv` keeps the id of
a draft for that draft, and `FreshInv` says that an id not yet drawn was not submitted. What
the Runtime serves late or twice changes neither a grant, nor a denial, nor an outcome that
is final (`Steady`).

What ends a block needs a second invariant on top: by `ReadInv` a lane that submits
does not recover a card, so that its request is of this conversation or it decides about an
approval; and a result that a lane has read is one the Runtime had reached, from
where a continuation may have gone on but nothing goes back (`Kept`). Only an admitted
result empties the slot, and only for its own id; the only other write to it is that of
a call that is given up, for its own id, and it settles nothing that is in doubt.

*SerializedRefresh* (in `AppShellProofs`). `RunInv` says that a run in progress is the one
`active` names and that a queued run waits for a predecessor that is active or has ended;
`CallInv` what each call was given; `WaiterInv` that as long as `active` or `queuedForce`
holds a promise, some call still waits for it. `LaunchStep` (a launch happens only while
nothing is in progress) and `HeldIsNotSettled` (a promise still held in a turn of its own
has not settled) carry the two hard cases.

*SnapshotPage* (in `AppShellProofs`). Only the run launched last is ever active
(`ActiveIsLast`), so that the result still to be merged is never older than what the page
shows, and its routes come from one bootstrap (`PageInv`), in whole or in part. `AppStep`
takes both to the shell: the parts share no state.

*ConclaveRequests* (in `AppShellProofs`). `OpenInv` says that the id of an open submission
is retained under the key its request determines (`KeyFits`: the version to run, or the key
of the request that is kept); `RetainedInv` that keys and ids correspond one to one.
`SubmissionInv` is needed for the moment a request is admitted, when its id is forgotten and
no other submission may lose its own.

Only model-checked, with the reason:

- liveness (`CallsReturn`, `CallsEnd`, `PageFollows`, `CallsAreAnswered`, `PanelCatchesUp`):
  fairness and `ENABLED` are outside the prover;
- `ReadsHaveTheirAction`: a statement about the constant route tables, where each path has
  to be looked up through `CHOOSE` and compared with a folded template. The run goes through
  the complete tables, so that nothing is left for a proof to generalise.

## Not modelled

- Realtime voice: `commandPortalRealtimeActivationAllowed()` is constant false and the
  Gateway answers its route with 503. Static files, security headers, rendering, the design
  system: I/O and presentation without a protocol.
- The exact-field validators of single responses, the formats of single values, URL syntax:
  input validation without state, covered by unit tests.
- What an abandoned task of `runBoundedTask` still does after its timeout; the cursor of
  `registryFirstSettledMap`.
- Several browsers or addresses at once, except where a session that ends "elsewhere" or a
  registry read stands for them; a reload of the Conclave workspace.
- Cryptography: a signature fits or does not; a random identifier is a new one.
