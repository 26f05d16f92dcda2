--------------------------- MODULE GatewayInputs ---------------------------
(***************************************************************************)
(* The bounded inputs of GatewayDispatch: the browser paths asked, the     *)
(* sessions, keys and bodies of the requests and the registry projections  *)
(* the Runtime publishes.  They are definitions and not substituted        *)
(* constants so that TLC evaluates what is built from them once.           *)
(***************************************************************************)
EXTENDS GatewayRoutes, CapabilityRegistry
CONSTANT MaxTime

Templates(api) ==
    CASE api = "local" -> {r[2] : r \in LocalFixed \union LocalBesides \union LocalDynamic}
      [] api = "operations" -> {r[2] : r \in OperationalFixed}
                               \union {OperationalDynamic[i][2] : i \in DOMAIN OperationalDynamic}
      [] api = "runtime" -> DOMAIN RuntimeReads \union ReplayReads
      [] api = "canonical-execution" -> {<<>>, <<"missions">>, <<"missions", ":record">>}

\* The identifiers tried in place of the first parameter of a template: one of
\* each kind, and every word that another template has in this place.
Tried(t, i, templates) ==
    {"id", "uuid", "NODE-1", "a@b", "b%d", "observation"}
    \union {u[i] : u \in {v \in templates : Len(v) >= i /\ SubSeq(v, 1, i - 1) = SubSeq(t, 1, i - 1)
                                            /\ ~ IsParam(v[i])}}

Instances(t, templates) ==
    LET params == {i \in DOMAIN t : IsParam(t[i])} IN
    IF params = {} THEN {t}
    ELSE LET first == CHOOSE i \in params : \A j \in params : i <= j IN
         {[i \in DOMAIN t |-> IF i = first THEN id
                              ELSE IF i \in params THEN "observation" ELSE t[i]] :
             id \in Tried(t, first, templates)}

Asked ==
    (UNION {{<<api, segs>> : segs \in UNION {Instances(t, Templates(api)) : t \in Templates(api)}} :
               api \in {"local", "operations", "runtime", "canonical-execution"}})
    \union RetiredBases

Session ==
    { [operator |-> "o1", named |-> TRUE,  scopes |-> {"operations:read", "approvals:decide"}],
      [operator |-> "o2", named |-> TRUE,  scopes |-> {"operations:read"}],
      [operator |-> "s1", named |-> FALSE, scopes |-> {"operations:read", "approvals:decide"}] }

Key == {"k1"}

Complete == {"interaction_id", "session_id", "input", "context"}

Body ==
    { [id |-> "k1", fields |-> f, sound |-> TRUE] :
        f \in {Complete, Complete \union {"approval_id"}, Complete \union {"tenant_id"},
               Complete \ {"input"}, {}, {"reason"}, {"reason", "role"}, {"name"}} }
    \union {[id |-> "k1", fields |-> Complete, sound |-> FALSE]}

Probe(id, at) ==
    [id |-> id, ok |-> TRUE, dependency |-> FALSE, connector |-> "missions.api", at |-> at, covers |-> {}]

Mission == [id |-> "mission_executor", class |-> "live_degraded", available |-> TRUE,
            verified |-> TRUE, verifiedAt |-> Never, refs |-> {"p1"}]

Read == [id |-> <<"GET", <<"missions">>>>, capability |-> "mission_executor",
         route |-> <<"GET", <<"missions">>>>, pos |-> 1, declared |-> TRUE, class |-> "live_degraded",
         available |-> TRUE, invocable |-> TRUE, connector |-> "missions.api",
         verifiedAt |-> Never, refs |-> {"p1"}]

Link(at) ==
    [id |-> "missions.api", class |-> "live_verified", configuration |-> "configured",
     reachability |-> "reachable", verification |-> "verified", health |-> "healthy",
     operational |-> "available", verifiedAt |-> at, fresh |-> TRUE, freshness |-> "current",
     age |-> 0, refs |-> {"p1"}]

Base(at) ==
    [at |-> at, tenant |-> Tenant, sound |-> TRUE, mission3 |-> FALSE, capabilities |-> {Mission},
     connectors |-> {}, actions |-> {Read}, receipts |-> {Probe("p1", at)}]

Classes == {"live_verified", "live_degraded", "staged"}
Around(at) == {at - Policy - 1, at - Policy, at - Policy + 1, at, at + Tolerance, at + Tolerance + 1}

\* The whole projection is off, or one action, connector or capability is varied.
Altered(at, tenant, sound, mission3) ==
    [Base(at) EXCEPT !.tenant = tenant, !.sound = sound, !.mission3 = mission3]

Whole(at) ==
    {Altered(at, t, s, m) : t \in {Tenant, "other"}, s \in BOOLEAN, m \in BOOLEAN}

ReadAs(class, available, invocable) ==
    [Read EXCEPT !.class = class, !.available = available, !.invocable = invocable]

Listing(at, actions) == [Base(at) EXCEPT !.actions = actions]

Citing(at, connector, ok, time) ==
    [Listing(at, {[Read EXCEPT !.class = "live_verified", !.connector = connector]}) EXCEPT
        !.receipts = {[Probe("p1", time) EXCEPT !.ok = ok]}]

Create == [Read EXCEPT !.id = <<"POST", <<"projects">>>>, !.route = <<"POST", <<"projects">>>>]

Varied ==
    {ReadAs(c, v, i) : c \in Classes, v \in BOOLEAN, i \in BOOLEAN}
    \union {[Read EXCEPT !.declared = FALSE]}

Staged(a) == [a EXCEPT !.class = "staged", !.available = FALSE, !.invocable = FALSE]

\* The action of the interactions: usable, not declared for them, or staged.
Talk ==
    LET talk == [Create EXCEPT !.id = InteractionAction, !.route = InteractionAction] IN
    {talk, [talk EXCEPT !.declared = FALSE], Staged(talk)}

\* Another action with the route of Read, listed before or after it.
Astray ==
    UNION {LET other == [Read EXCEPT !.id = <<"GET", <<"projects">>>>, !.pos = pos] IN
           {other, Staged(other)} : pos \in {0, 2}}

Actions(at) ==
    {Listing(at, {a}) : a \in Varied}
    \union {Listing(at, {Read, b}) : b \in {Create} \union Talk \union Astray}
    \union {Citing(at, n, ok, time) :
                n \in {"missions.api", "other.api"}, ok \in BOOLEAN, time \in Around(at)}

LinkAs(class, freshness, fresh, age, operational, time) ==
    [Link(time) EXCEPT
        !.class = class, !.freshness = freshness, !.fresh = fresh, !.age = age,
        !.operational = operational,
        !.verification = IF freshness = "stale" THEN "expired" ELSE "verified"]

Linked(at, link, time) ==
    [Base(at) EXCEPT !.connectors = {link}, !.receipts = {Probe("p1", time)}]

Connectors(at) ==
    {Linked(at, LinkAs(c, f, b, age, o, time), time) :
        c \in {"live_verified", "staged"}, f \in {"current", "stale", "never"}, b \in BOOLEAN,
        age \in {Never, 0, MaxAge}, o \in {"available", "unavailable"},
        time \in {Never, at - Policy - Second - 1, at - Policy - 1, at - Policy, at + 1}}

Evidence(id, at, covers) ==
    [id |-> id, ok |-> TRUE, dependency |-> TRUE, connector |-> RuntimeApi, at |-> at, covers |-> covers]

SessionAction(c, class, at) ==
    [Read EXCEPT !.id = <<"POST", <<c>>>>, !.route = <<"POST", <<c>>>>, !.capability = c,
                 !.class = class, !.connector = RuntimeApi, !.verifiedAt = at,
                 !.refs = {"e1", "e2"}]

Established(at, mission3, refs, class, covers, time) ==
    [Base(at) EXCEPT
        !.mission3 = mission3,
        !.capabilities = {[Mission EXCEPT !.id = c, !.class = "live_verified",
                              !.verifiedAt = at, !.refs = refs[c]] : c \in SessionCapability},
        !.actions = {SessionAction(c, class, at) : c \in SessionCapability},
        !.receipts = {Evidence("e1", at, covers), Evidence("e2", time, SessionCapability)}]

Sessions(at) ==
    {Established(at, m, refs, cls, covers, time) :
        m \in BOOLEAN,
        refs \in {[c \in SessionCapability |-> {"e1"}],
                  [c \in SessionCapability |-> {"e1", "e2"}],
                  [c \in SessionCapability |-> IF c = "read" THEN {"e2"} ELSE {"e1"}]},
        cls \in {"live_verified", "live_degraded"},
        covers \in {{"authenticate"}, SessionCapability}, time \in {at, at - 1}}

Published ==
    UNION {Whole(at) \union Actions(at) \union Connectors(at) \union Sessions(at) :
              at \in -Policy .. MaxTime + Ahead + 1}
=============================================================================
