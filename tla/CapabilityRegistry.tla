------------------------- MODULE CapabilityRegistry -------------------------
(***************************************************************************)
(* The Runtime-owned Capability Registry projection as its three readers   *)
(* judge it: the Gateway's validator and admission decision                *)
(* (server/portal-server.mjs), the browser's parser                        *)
(* (src/lib/portal-client.ts) and the browser's hosted capability gate     *)
(* (src/lib/hosted-capability-gate.ts).                                    *)
(*                                                                         *)
(* A projection is [at, tenant, sound, mission3, capabilities, connectors, *)
(* actions, receipts], the last four sets of records.  "sound" stands for  *)
(* every field both validators compare with a pinned value or type:        *)
(* contract fingerprint, source identity, constitutional basis, policy,    *)
(* vocabularies, scope derivation, authority flags, counts, digest and     *)
(* Executive Continuity.  Times are ticks, of which the code has a thousand *)
(* in a second; ages and policy are in seconds.                            *)
(***************************************************************************)
EXTENDS Integers, FiniteSets

CONSTANTS
    Second,            \* the ticks of a second (1000)
    MaxAge,            \* verificationPolicy.maxAgeSeconds (300)
    Skew,              \* how far ahead of the Gateway's clock a projection may be (30)
    Tenant,            \* the tenant and workspace the Gateway is bound to
    SessionCapability  \* MISSION3_SESSION_CAPABILITIES

ASSUME RegistryAssumption ==
    /\ Second \in Nat \ {0}
    /\ MaxAge \in Nat \ {0}
    /\ Skew \in Nat
    /\ IsFiniteSet(SessionCapability)

Live == {"live_verified", "live_degraded"}
NonOperational == {"configured_unverified", "staged", "simulated", "unavailable"}
Classification == Live \union NonOperational

Never == -1          \* lastSuccessfulVerification = null
NoConnector == "none"
RuntimeApi == "context_runtime.local_api"

\* The policy in ticks, how far a receipt or a verification may be ahead of the
\* evaluation (a second), and a projection ahead of the Gateway's clock.
Policy    == MaxAge * Second
Tolerance == Second
Ahead     == Skew * Second

DuplicateFree(records) ==
    \A r, s \in records : r.id = s.id => r = s

\* Within the policy at the time the projection was evaluated.
CurrentAt(p, time) == p.at - time >= -Tolerance /\ p.at - time < Policy

Cited(p, refs) == {r \in p.receipts : r.id \in refs}

CurrentSuccessfulReceipt(p, refs, connector) ==
    \E r \in Cited(p, refs) :
        /\ r.ok
        /\ connector # NoConnector => r.connector = connector
        /\ CurrentAt(p, r.at)

CapabilityHolds(p, c) ==
    /\ c.class \in NonOperational => ~ c.available
    /\ c.class = "live_verified" =>
          c.available /\ CurrentSuccessfulReceipt(p, c.refs, NoConnector)

Larger(a, b) == IF a >= b THEN a ELSE b

\* The age a connector reports, in whole seconds, against the measured one.
\* Variant: two seconds of difference are taken.
AgeAgreesWithinTwo(measured, age) == Larger(0, measured \div Second) - age \in -2 .. 2

AgeAgrees(measured, age) == Larger(0, measured \div Second) - age \in -1 .. 1

FreshnessHolds(p, c) ==
    IF c.freshness = "never"
      THEN c.age = Never /\ c.verifiedAt = Never /\ ~ c.fresh
      ELSE /\ c.verifiedAt # Never
           /\ p.at - c.verifiedAt >= -Tolerance
           /\ AgeAgrees(p.at - c.verifiedAt, Larger(0, c.age))
           /\ \E r \in Cited(p, c.refs) : r.ok /\ r.connector = c.id /\ r.at = c.verifiedAt
           /\ c.freshness = "current" => c.age < MaxAge /\ c.fresh
           /\ c.freshness = "stale" => c.age >= MaxAge /\ ~ c.fresh /\ c.verification = "expired"

ConnectorHolds(p, c) ==
    /\ FreshnessHolds(p, c)
    /\ c.class = "live_verified" =>
          /\ c.configuration = "configured" /\ c.reachability = "reachable"
          /\ c.verification = "verified" /\ c.health = "healthy"
          /\ c.operational = "available" /\ c.freshness = "current" /\ c.fresh
    /\ c.class = "live_degraded" =>
          c.operational = "degraded" /\ c.freshness = "current" /\ c.fresh
    /\ c.class \in NonOperational => c.operational = "unavailable"

\* Variant: an invocable action need not be available.
ActionHoldsUnavailable(p, a) ==
    /\ a.class \in NonOperational => ~ a.available /\ ~ a.invocable
    /\ a.class = "live_verified" => CurrentSuccessfulReceipt(p, a.refs, a.connector)

ActionHolds(p, a) ==
    /\ a.class \in NonOperational => ~ a.available /\ ~ a.invocable
    /\ a.invocable => a.available
    /\ a.class = "live_verified" => CurrentSuccessfulReceipt(p, a.refs, a.connector)

-----------------------------------------------------------------------------
(* Mission 3 admission of the executive-session capabilities.              *)

\* The receipts that establish one session capability.
DependencyReceipts(p, c) ==
    {r \in Cited(p, c.refs) :
        /\ r.ok
        /\ r.dependency
        /\ r.connector = RuntimeApi
        /\ c.id \in r.covers
        /\ r.at = c.verifiedAt
        /\ CurrentAt(p, r.at)}

SessionCapabilityHolds(p, c) ==
    /\ c.class = "live_verified" /\ c.available /\ c.verified
    /\ c.verifiedAt # Never /\ CurrentAt(p, c.verifiedAt)
    /\ Cardinality(DependencyReceipts(p, c)) = 1
    /\ LET actions == {a \in p.actions : a.capability = c.id} IN
          /\ actions # {}
          /\ \A a \in actions :
                /\ a.class = "live_verified" /\ a.available /\ a.invocable
                /\ a.connector = RuntimeApi
                /\ a.verifiedAt = c.verifiedAt
                /\ \E r \in DependencyReceipts(p, c) : r.id \in a.refs

InAge(p, now) == now - p.at >= -Ahead /\ now - p.at < Policy

Mission3Admission(p, now) ==
    LET session == {c \in p.capabilities : c.id \in SessionCapability} IN
    /\ InAge(p, now)
    /\ {c.id : c \in session} = SessionCapability
    /\ Cardinality(session) = Cardinality(SessionCapability)
    /\ \A c \in session : SessionCapabilityHolds(p, c)
    /\ \A c, d \in session :
          c # d => DependencyReceipts(p, c) # DependencyReceipts(p, d)

-----------------------------------------------------------------------------
(* The Gateway's validator, in the order of its failures.                  *)

Consistent(p) ==
    /\ DuplicateFree(p.capabilities) /\ DuplicateFree(p.connectors)
    /\ DuplicateFree(p.actions) /\ DuplicateFree(p.receipts)
    /\ \A c \in p.capabilities : CapabilityHolds(p, c)
    /\ \A c \in p.connectors : ConnectorHolds(p, c)
    /\ \A a \in p.actions : ActionHolds(p, a)

Validated(p, now) ==
    /\ p.sound
    /\ InAge(p, now)
    /\ Consistent(p)
    /\ p.mission3 = Mission3Admission(p, now)

\* adoptValidated: the Gateway's own tenant and workspace, and not expired.
Adopted(p, now) ==
    /\ Validated(p, now)
    /\ p.tenant = Tenant
    /\ now < p.at + Policy

-----------------------------------------------------------------------------
(* What the Gateway decides about a canonical action.                      *)

ActionById(p, id) == {a \in p.actions : a.id = id}

Usable(a) == a.class \in Live /\ a.invocable /\ a.available

\* The fixed contract of an action: the route of its identity, and the surfaces
\* and invocation paths it declares for it.
OnContract(a) == a.route = a.id /\ a.declared

\* One record, on the fixed contract of the alias, live and invocable.
Allowed(p, id) ==
    /\ Cardinality(ActionById(p, id)) = 1
    /\ \A a \in ActionById(p, id) : OnContract(a) /\ Usable(a)

-----------------------------------------------------------------------------
(* What the browser makes of a projection.                                 *)

\* asCapabilityRegistryProjection: neither the age nor any receipt is looked at.
Parsed(p) ==
    /\ p.sound
    /\ DuplicateFree(p.capabilities) /\ DuplicateFree(p.connectors) /\ DuplicateFree(p.actions)
    /\ \A a \in p.actions : a.class \in NonOperational => ~ a.invocable

InteractionAction == <<"POST", <<"executive", "interactions">>>>

\* canonicalActionAvailability and canonicalInteractionAvailability: the one
\* action every control that is not a read goes through.
InteractionOffered(p) ==
    LET matching == ActionById(p, InteractionAction) IN
    /\ Cardinality(matching) = 1
    /\ \A a \in matching : OnContract(a) /\ Usable(a)

\* The first record of a capability and a route, in the order of the listing.
Found(p, requirement) ==
    LET matching == {a \in p.actions : a.capability = requirement.capability
                                       /\ a.route = requirement.route} IN
    {a \in matching : \A b \in matching : a.pos <= b.pos}

\* canonicalHostedActionAvailability: neither the identity nor the surfaces of
\* the record found are looked at, nor its operationalAvailability.
ReadOffered(p, requirement) ==
    \E a \in Found(p, requirement) : a.invocable /\ a.class \in Live

\* canonicalHostedControlAvailability and hostedSessionActionAvailability.
ControlOffered(p, requirement, access, scope) ==
    LET read == requirement.route[1] = "GET" IN
    /\ IF read THEN ReadOffered(p, requirement) ELSE InteractionOffered(p)
    /\ access.hosted =>
          /\ access.authenticated
          /\ (IF read THEN scope ELSE "operations:read") \in access.scopes

\* moduleCapabilityStateView and capabilityStateView of a registered module.
ModuleState(p, required, mount) ==
    LET applicable == {c \in p.capabilities : c.id \in required}
        actions    == {a \in p.actions : a.capability \in required}
        usable(a)  == a.invocable /\ a.class \in Live
    IN  IF required = {} THEN "not_applicable"
        ELSE IF \/ \E m \in mount : ~ ReadOffered(p, m)
                \/ mount = {} /\ ~ (/\ \E c \in applicable : c.class \in Live
                                    /\ \E a \in actions : usable(a))
          THEN "unavailable"
        ELSE IF \/ {c.id : c \in applicable} # required
                \/ \E c \in applicable : c.class # "live_verified"
                \/ \E a \in actions : ~ usable(a)
                \/ \E m \in mount : \E a \in Found(p, m) : a \in actions /\ a.class = "live_degraded"
          THEN "degraded"
        ELSE "live"
=============================================================================
