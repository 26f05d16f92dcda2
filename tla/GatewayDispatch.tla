--------------------------- MODULE GatewayDispatch ---------------------------
(***************************************************************************)
(* One browser request on its way through the Experience Gateway           *)
(* (server/portal-server.mjs): the retired-route filter, the route tables, *)
(* the session, the admission of its canonical action, its body, and what  *)
(* is forwarded to the Runtime in its name.  Requests meet only in the     *)
(* held Capability Registry projection, which this one reads when it       *)
(* arrives and when the refresh it waits for ends: RegistryRead stands for *)
(* what the others do to it in between.                                    *)
(*                                                                         *)
(* A refused request leaves the Gateway as it was: no step.  The origin,   *)
(* query-string and size checks come before everything here and are left   *)
(* out; the registered session of the canonical-execution routes is that   *)
(* of ExecutiveSession; concurrent refreshes are those of RuntimeAdmission.*)
(***************************************************************************)
EXTENDS GatewayInputs

CONSTANT Configured
ASSUME DispatchAssumption ==
    /\ MaxTime \in Nat
    /\ \A s \in Session : s.named \in BOOLEAN

NoKey        == "no key"
NoSession    == [operator |-> "nobody", named |-> FALSE, scopes |-> {}]
NoProjection == [at |-> -1]
NoBody       == [id |-> NoKey, fields |-> {}, sound |-> FALSE]

VARIABLES
    clock,      \* ticks
    held,       \* the projection the Gateway has adopted
    req         \* the request followed

vars == <<clock, held, req>>

Idle == [phase |-> "idle", api |-> "", segs |-> <<>>, method |-> "GET",
         claims |-> NoSession, key |-> NoKey, csrf |-> FALSE, body |-> NoBody, actor |-> "nobody"]

TypeOK ==
    /\ clock \in 0 .. MaxTime
    /\ held = NoProjection \/ (held.at \in Int /\ held.tenant = Tenant)
    /\ req.phase \in {"idle", "admission", "unresolved", "body", "forwarded"}
    /\ req.phase # "idle" => <<req.api, req.segs>> \in Asked
    /\ req.method \in {"GET", "POST"}
    /\ req.claims \in Session \union {NoSession}
    /\ req.key \in Key \union {NoKey}
    /\ req.body \in Body \union {NoBody}

-----------------------------------------------------------------------------
(* Request bodies.                                                         *)

\* Required and optional fields of each mutation, by Runtime template.
Takes(template, required, optional) ==
    [template |-> template, required |-> required, optional |-> optional]

InteractionSchemas ==
    { Takes(<<"executive", "interactions">>,
            {"interaction_id", "session_id", "input", "context"}, {"approval_id"}) }

KnowledgeSchemas ==
    { Takes(<<"runtime", "baselines">>, {}, {"expectedDeployedCommit"}),
      Takes(<<"knowledge", "promotions">>, {"candidateId"}, {}),
      Takes(<<"knowledge", "acquisitions", ":record", "promotion-candidates">>,
            {}, {"expectedMissionVersion"}),
      Takes(<<"knowledge", "intake">>,
            {"missionId", "taskId", "origin", "sourceClassification", "confidence", "claim"},
            {"collector", "supportingArtifacts", "relationships", "operationalContext",
             "completeTask"}) }

ConclaveSchemas ==
    { Takes(<<"conclave", "workspaces">>, {"proposal"}, {"predecessor"}),
      Takes(<<"conclave", "workspaces", ":plain", "run">>, {"expectedWorkspaceVersion"}, {}),
      Takes(<<"conclave", "workspaces", ":plain", "tasks", ":plain", "evidence">>,
            {"origin", "sourceClassification", "confidence", "claim"},
            {"supportingArtifacts", "relationships", "operationalContext"}) }

CoordinationSchemas ==
    {Takes(<<"runtime-coordination", "admissions">>, {"missionId", "intent"}, {"idempotencyKey"})}
    \union {Takes(<<"runtime-coordination", "admissions", ":record">> \o tail,
                  {"expectedVersion", "reason"}, {"idempotencyKey"}) : tail \in AdmissionTail("POST")}

WorkSchemas ==
    { Takes(<<"intake", "upload">>, {"filename", "contentBase64"}, {"projectId"}),
      Takes(<<"intake", "query">>, {"question"}, {"projectId", "sourceIds"}),
      Takes(<<"projects">>, {"name"}, {}),
      Takes(<<"work-sessions", "start">>, {"objective"}, {}),
      Takes(<<"missions", ":plain", "execute-step">>, {"stepId"}, {}),
      Takes(<<"approvals", ":plain", "approve">>, {}, {}),
      Takes(<<"approvals", ":plain", "deny">>, {"reason"}, {}),
      Takes(<<"projects", ":record", "compile">>, {"artifactType"}, {"options"}) }
    \union {Takes(<<"work-sessions", ":plain">> \o step, {}, {}) : step \in SessionSteps}

SchemaOf(path) ==
    {s \in InteractionSchemas \union KnowledgeSchemas \union ConclaveSchemas
              \union CoordinationSchemas \union WorkSchemas : Fits(s.template, path)}

ValidBody(path, body) ==
    /\ body.sound
    /\ \E s \in SchemaOf(path) :
          s.required \subseteq body.fields /\ body.fields \subseteq s.required \union s.optional

\* Fields by which a body would choose its own identity, scope or approval.
UntrustedFields == {"tenant_id", "role", "approval_id"}

Trusted(path, body) ==
    body.fields \intersect UntrustedFields \subseteq
        IF path = <<"executive", "interactions">> THEN {"approval_id"} ELSE {}

-----------------------------------------------------------------------------
Init ==
    /\ clock = 0
    /\ held = NoProjection
    /\ req = Idle

Accepted(api, segs, method) ==
    /\ ~ RetiredRoute(api, segs, method)
    /\ api \in {"runtime", "canonical-execution"} => method = "GET"
    /\ Resolve(api, segs, method).status = "accepted"

\* The requests the tables accept, the Runtime path and template each stands
\* for, and the canonical action that is asked for it.
Taken(method) == {ask \in Asked : Accepted(ask[1], ask[2], method)}
Reads     == Taken("GET")
Mutations == Taken("POST")

Routing ==
    [q \in (Reads \X {"GET"}) \union (Mutations \X {"POST"}) |->
        LET to == Resolve(q[1][1], q[1][2], q[2])
        IN  [path |-> to.path, template |-> to.template, action |-> ActionOf(q[1][1], q[1][2], q[2])]]

RouteOf(r) == Routing[<<<<r.api, r.segs>>, r.method>>]
PathOf(r)  == RouteOf(r).path

\* What the Gateway relays without an admitted action: interactions, decisions
\* and the read of the registry itself (what it does to "held" is RegistryRead).
Ungoverned(r) == Interaction(PathOf(r)) \/ Decision(PathOf(r))
Exempt(r)     == Ungoverned(r) \/ PathOf(r) = <<"runtime", "capability-registry">>

Hosted(r) == r.api = "operations"

\* fetchOperationalCapability: interactions and decisions need a named operator.
OperatorServes(r) == Hosted(r) /\ Ungoverned(r) => r.claims.named

\* The identity a request is forwarded under.
ActorOf(r) ==
    IF Hosted(r) THEN r.claims.operator
    ELSE IF Interaction(PathOf(r)) THEN Configured
    ELSE NoSession.operator

Relayed(r) ==
    IF OperatorServes(r) THEN [r EXCEPT !.phase = "forwarded", !.actor = ActorOf(r)] ELSE Idle

\* After the admission: the scope, and for a hosted mutation CSRF and the key.
Cleared(r) ==
    Hosted(r) =>
        /\ RequiredScope(PathOf(r), r.method) \in r.claims.scopes
        /\ r.method = "POST" => r.csrf /\ r.key # NoKey

Proceeds(r) ==
    IF ~ Cleared(r) THEN Idle
    ELSE IF r.method = "POST" THEN [r EXCEPT !.phase = "body"]
    ELSE Relayed(r)

Expired(p) == clock >= p.at + Policy

Decided(r, p) ==
    IF Allowed(p, RouteOf(r).action) THEN Proceeds(r) ELSE Idle

\* A request arrives: everything up to the first wait.  One without an action
\* is answered that its route is unresolved; without a current projection it
\* waits for a refresh, and what was held is dropped.
Receive(r) ==
    /\ req.phase = "idle"
    /\ IF Exempt(r)
         THEN req' = Proceeds(r) /\ UNCHANGED held
         ELSE IF RouteOf(r).action = NoAction
           THEN req' = [r EXCEPT !.phase = "unresolved"] /\ UNCHANGED held
         ELSE IF held = NoProjection \/ Expired(held)
           THEN req' = r /\ held' = NoProjection
         ELSE req' = Decided(r, held) /\ UNCHANGED held
    /\ UNCHANGED clock

\* The operations API answers 401 without a session; the others have none.
SessionsFor(ask) == IF ask[1] = "operations" THEN Session ELSE {NoSession}

Asks(ask, method, claims) ==
    [Idle EXCEPT !.phase = "admission", !.api = ask[1], !.segs = ask[2],
                 !.method = method, !.claims = claims]

ReceiveRead ==
    \E ask \in Reads : \E claims \in SessionsFor(ask) : Receive(Asks(ask, "GET", claims))

ReceiveMutation ==
    \E ask \in Mutations, key \in Key \union {NoKey}, csrf \in BOOLEAN :
        \E claims \in SessionsFor(ask) :
            Receive([Asks(ask, "POST", claims) EXCEPT !.key = key, !.csrf = csrf])

\* What the Gateway may adopt of all that a registry read may return: old,
\* current or ahead of its clock.  Anything else leaves it without a projection.
Adoptable == [now \in 0 .. MaxTime |-> {p \in Published : Adopted(p, now)}]

\* ensureRuntimeActionAdmission: the refresh this request waits for ends.
RefreshEnds ==
    /\ req.phase = "admission"
    /\ \/ \E p \in Adoptable[clock] : held' = p /\ req' = Decided(req, p)
       \/ held' = NoProjection /\ req' = Idle
    /\ UNCHANGED clock

\* The local mutations that need a key; a hosted one was refused without it.
Keyed(path) ==
    \/ path \in {<<"executive", "interactions">>, <<"conclave", "workspaces">>,
                 <<"runtime-coordination", "admissions">>}
    \/ \E t \in {<<"runtime-coordination", "admissions", ":any", "cancel">>,
                 <<"runtime-coordination", "admissions", ":any", "challenge", "reissue">>,
                 <<"conclave", "workspaces", ":plain", "run">>,
                 <<"conclave", "workspaces", ":plain", "tasks", ":plain", "evidence">>} :
          Fits(t, path)

\* The key the Runtime will see is that of the interaction.
KeyHolds(r, body) ==
    /\ Keyed(PathOf(r)) => r.key # NoKey
    /\ PathOf(r) = <<"executive", "interactions">> => body.id = r.key

BodyArrives ==
    /\ req.phase = "body"
    /\ \E body \in Body :
          req' = IF /\ Hosted(req) => Trusted(PathOf(req), body)
                    /\ ValidBody(PathOf(req), body)
                    /\ KeyHolds(req, body)
                   THEN Relayed([req EXCEPT !.body = body])
                   ELSE Idle
    /\ UNCHANGED <<clock, held>>

\* The Runtime answers, or the call times out, or the refusal is read: over.
Reply ==
    /\ req.phase \in {"forwarded", "unresolved"}
    /\ req' = Idle
    /\ UNCHANGED <<clock, held>>

-----------------------------------------------------------------------------
(* The other requests and the clock.                                       *)

\* A read of the registry, a bootstrap or another request's refresh.
RegistryRead ==
    /\ req.phase = "idle"
    /\ held' \in Adoptable[clock] \union {NoProjection}
    /\ UNCHANGED <<clock, req>>

Tick ==
    /\ clock < MaxTime
    /\ clock' = clock + 1
    /\ UNCHANGED <<held, req>>

Next ==
    \/ ReceiveRead \/ RefreshEnds \/ ReceiveMutation \/ BodyArrives \/ Reply
    \/ RegistryRead \/ Tick

Spec == Init /\ [][Next]_vars

-----------------------------------------------------------------------------
(* Properties.                                                             *)

\* The only mutations that reach the Runtime are canonical interactions and
\* approval decisions, whatever the two route tables still list: under the key
\* that is the interaction's own id, as the operator the request was received
\* from (a named one when hosted, whoever signs in meanwhile) and with no field
\* of the body that could choose identity or scope.
MutationsAreBound ==
    req.phase = "forwarded" /\ req.method = "POST" =>
        /\ CanonicalMutation(req.api, req.segs)
        /\ Interaction(PathOf(req)) =>
              /\ req.body.id = req.key /\ req.key # NoKey
              /\ req.actor = IF Hosted(req) THEN req.claims.operator ELSE Configured
        /\ Hosted(req) => req.claims.named /\ req.actor # NoSession.operator
        /\ req.body.fields \intersect {"tenant_id", "role"} = {}

\* The identifiers of an accepted path that are themselves words of the tables.
Ambiguous(template, path) ==
    \E i \in DOMAIN path : IsParam(template[i]) /\ path[i] \in Reserved

\* The route tables and the table of canonical actions agree: every read the
\* tables accept has one action, and it is the action of the very template the
\* path was accepted by, so that what the registry admits is what is read.  The
\* exception is an identifier that is a word of the tables.
ReadsHaveTheirAction ==
    /\ req.phase = "unresolved" => Quarantined(req.segs)
    /\ req.phase = "admission" =>
          LET template == RouteOf(req).template
              action   == RouteOf(req).action[2]
          IN  ~ Ambiguous(template, PathOf(req)) =>
                  \A i \in DOMAIN template :
                      IF IsParam(template[i]) THEN IsParam(action[i])
                                              ELSE action[i] = template[i]

\* The executive-session capabilities rest on as many recent receipts as there
\* are capabilities, and all their actions would be admitted.
Mission3IsEstablished(p, recent) ==
    LET session == {c \in p.capabilities : c.id \in SessionCapability} IN
    /\ Cardinality((UNION {DependencyReceipts(p, c) : c \in session}) \intersect recent)
          >= Cardinality(SessionCapability)
    /\ \A a \in p.actions :
          a.capability \in SessionCapability /\ OnContract(a) => Allowed(p, a.id)

\* Evidence has a bounded age when it is used.  An action the held projection
\* still admits as live verified rests on a successful receipt, and Mission 3
\* shown as admitted on receipts of its own, less than two policy ages old: one
\* until the evaluation, one until the use.  A connector shown as not
\* unavailable was verified a second more ago at most, as its age is told in
\* whole seconds and may be off by one.  An action that is live degraded is
\* admitted without a receipt.
EvidenceIsBounded ==
    held # NoProjection /\ ~ Expired(held) =>
        /\ \A a \in held.actions :
              Allowed(held, a.id) /\ a.class = "live_verified" =>
                  \E r \in Cited(held, a.refs) : r.ok /\ clock - r.at < 2 * Policy
        /\ \A c \in held.connectors :
              c.operational # "unavailable" => clock - c.verifiedAt < 2 * Policy + Second
        /\ held.mission3 =>
              Mission3IsEstablished(held, {r \in held.receipts : r.ok /\ clock - r.at < 2 * Policy})

\* An interaction the session asks for passes every check before its body.
InteractionServed(s) ==
    \A ask \in Mutations :
        LET r == [Asks(ask, "POST", s) EXCEPT !.key = "k1", !.csrf = TRUE] IN
        Hosted(r) /\ PathOf(r) = <<"executive", "interactions">> =>
            Cleared(r) /\ (OperatorServes(r) <=> s.named)

\* What the browser's gate makes of the held projection and what the Gateway
\* decides on it differ in two ways only, and the refused offers are explained
\* by them.  A read offered, or a module shown as live or degraded by its mount
\* read, is served, unless the record the gate found is off the contract of its
\* route (the gate looks at neither identity nor surfaces).  A read control is
\* offered to sessions with the scope the Gateway asks for.  A control that is
\* an interaction passes the scope of the Gateway wherever it is offered, and
\* is refused exactly to operators that are not named (the gate asks for
\* operations:read only).
RefusedOffersAreExplained ==
    held # NoProjection /\ ~ Expired(held) =>
        /\ Parsed(held)
        /\ \A a \in held.actions :
              LET mount == [capability |-> a.capability, route |-> a.route]
                  shown == ModuleState(held, {a.capability}, {mount})
                  served == \/ Allowed(held, a.route)
                            \/ \E b \in Found(held, mount) : ~ OnContract(b)
                  access(s) == [hosted |-> TRUE, authenticated |-> TRUE, scopes |-> s.scopes]
                  needs == RequiredScope(a.route[2], a.route[1])
              IN  /\ ReadOffered(held, mount) => served
                  /\ shown \in {"live", "degraded"} => served
                  /\ \A s \in Session :
                        ControlOffered(held, mount, access(s), needs) =>
                            IF a.route[1] = "GET" THEN served /\ needs \in s.scopes
                                                  ELSE InteractionServed(s)
=============================================================================
