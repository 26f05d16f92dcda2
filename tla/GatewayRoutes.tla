--------------------------- MODULE GatewayRoutes ---------------------------
(***************************************************************************)
(* The route tables of the Experience Gateway (server/portal-server.mjs):  *)
(* what a browser path resolves to on the local, operational, Runtime and  *)
(* canonical-execution APIs, which paths are retired, and which canonical  *)
(* action of the Runtime a resolved path stands for.                       *)
(*                                                                         *)
(* A path is [api, segs]: the API its prefix selects and the sequence of   *)
(* its remaining segments.  A template is such a sequence in which a name  *)
(* after a colon stands for an identifier.                                 *)
(***************************************************************************)
EXTENDS Integers, Sequences, FiniteSets, SequencesExt

\* The identifiers tried: a plain one, an interaction id, a node name, one with
\* an "@" and one that fails to decode.  Words of the tables are tried as well.
Plain     == {"id", "uuid", "NODE-1"}
RecordId  == Plain \union {"a@b"}
Unusable  == {"b%d"}
Reserved  == {"missions", "receipts", "failures", "history", "start", "plan", "events",
              "artifact-types"}

\* What each parameter of a template accepts.  The resolvers of the operational
\* API match any segment first and check the identifier afterwards.
Accepts ==
    [p \in {":uuid", ":node", ":record", ":mission", ":plain", ":stage", ":any"} |->
        CASE p = ":uuid"  -> {"uuid"}
          [] p = ":node"  -> {"NODE-1"}
          [] p = ":plain" -> Plain \union Reserved
          [] p = ":stage" -> {"observation"}
          [] p = ":any"   -> RecordId \union Reserved \union Unusable \union {"observation"}
          [] OTHER         -> RecordId \union Reserved]

IsParam(segment) == segment \in DOMAIN Accepts

\* The segments a parameter matches before its identifier is checked.
Matches(param) ==
    CASE param \in {":uuid", ":node", ":plain", ":stage"} -> Accepts[param]
      [] param = ":mission" -> Accepts[":any"] \ {"plan"}
      [] OTHER -> Accepts[":any"]

HasShape(template, segs) ==
    /\ Len(template) = Len(segs)
    /\ \A i \in DOMAIN segs :
          IF IsParam(template[i]) THEN segs[i] \in Matches(template[i])
                                  ELSE segs[i] = template[i]

Fits(template, segs) ==
    /\ HasShape(template, segs)
    /\ \A i \in DOMAIN segs : IsParam(template[i]) => segs[i] \in Accepts[template[i]]

Under(base, tails) == {base \o t : t \in tails}
Route(method, templates) == {<<method, t>> : t \in templates}

-----------------------------------------------------------------------------
(* Local capabilities.                                                     *)

LocalFixed ==
    Route("GET",
          { <<"status">>, <<"intake", "history">>, <<"projects", "artifact-types">>,
            <<"client-capabilities">>, <<"governance", "readiness">>,
            <<"authority", "readiness">>, <<"missions">>, <<"conclave", "workspaces">>,
            <<"work-sessions">>, <<"approvals">>, <<"connectors">>,
            <<"connectors", "health">>, <<"proofs">>, <<"receipts">>, <<"voice", "status">> }
          \union Under(<<"voice-operator">>, {<<"status">>, <<"history">>, <<"receipts">>}))
    \union
    Route("POST",
          { <<"executive-interactions">>, <<"intake", "upload">>, <<"intake", "query">>,
            <<"projects">>, <<"work-sessions", "start">> })

\* Tested by code before or besides the table.
LocalBesides ==
    { <<"GET",  <<"runtime-coordination", "nodes">>>>,
      <<"GET",  <<"runtime-coordination", "admissions">>>>,
      <<"POST", <<"runtime-coordination", "admissions">>>>,
      <<"POST", <<"conclave", "workspaces">>>> }

ProjectReads == {<<"sources">>, <<"evidence">>, <<"scope">>, <<"estimate">>,
                 <<"planning-model">>, <<"artifacts">>}

SessionSteps == {<<"step">>, <<"continue">>, <<"pause">>, <<"cancel">>}

AdmissionTail(method) ==
    IF method = "GET" THEN {<<>>, <<"receipt">>, <<"replay">>}
                      ELSE {<<"cancel">>, <<"challenge", "reissue">>}

LocalDynamic ==
    Route("GET",
          {<<"executive-interactions", ":uuid">>, <<"runtime-coordination", "nodes", ":node">>}
          \union Under(<<"runtime-coordination", "admissions", ":record">>, AdmissionTail("GET"))
          \union Under(<<"projects", ":plain">>, ProjectReads)
          \union {<<"conclave", "workspaces", ":plain">>}
          \union Under(<<"work-sessions", ":plain">>, {<<>>, <<"receipt">>}))
    \union
    Route("POST",
          Under(<<"runtime-coordination", "admissions", ":record">>, AdmissionTail("POST"))
          \union {<<"projects", ":plain", "compile">>,
                  <<"conclave", "workspaces", ":plain", "run">>,
                  <<"conclave", "workspaces", ":plain", "tasks", ":plain", "evidence">>,
                  <<"missions", ":plain", "execute-step">>}
          \union Under(<<"approvals", ":plain">>, {<<"approve">>, <<"deny">>})
          \union Under(<<"work-sessions", ":plain">>, SessionSteps))

-----------------------------------------------------------------------------
(* Operational (hosted) capabilities.                                      *)

OperationalFixed ==
    Route("GET",
          { <<"capabilities", "readiness">>, <<"client-capabilities">>, <<"intake", "history">>,
            <<"projects", "artifact-types">>, <<"missions">>, <<"work-sessions">>,
            <<"approvals">>, <<"proofs">>, <<"conclave", "workspaces">>,
            <<"operational-replay">>, <<"operational-replay", "failures">>, <<"receipts">>,
            <<"mission-store">>, <<"runtime", "baselines">>, <<"governance", "readiness">>,
            <<"authority", "readiness">> }
          \union Under(<<"voice-operator">>, {<<"status">>, <<"history">>})
          \union Under(<<"knowledge">>, {<<"acquisitions">>, <<"promotion-candidates">>,
                                         <<"promotions">>, <<"store">>, <<"receipts">>})
          \union Under(<<"runtime-coordination">>, {<<"nodes">>, <<"events">>, <<"admissions">>}))
    \union
    Route("POST",
          { <<"executive-interactions">>, <<"intake", "upload">>, <<"intake", "query">>,
            <<"projects">>, <<"work-sessions", "start">>, <<"conclave", "workspaces">>,
            <<"knowledge", "intake">>, <<"knowledge", "promotions">>, <<"runtime", "baselines">>,
            <<"runtime-coordination", "admissions">> })

\* The patterns in the order the resolver tries them: the first that has the
\* shape of the path decides, whether or not its identifiers are usable.
OperationalDynamic ==
    LET Get(t) == <<"GET", t>>
        Post(t) == <<"POST", t>>
    IN  << Get(<<"executive-interactions", ":uuid">>),
           Get(<<"projects", ":record", "scope">>),
           Get(<<"projects", ":record", "estimate">>),
           Get(<<"projects", ":record", "planning-model">>),
           Post(<<"projects", ":record", "compile">>),
           Get(<<"operational-replay", ":record", "stages", ":record", "explain">>),
           Get(<<"operational-replay", ":record", "stages", ":record">>),
           Get(<<"operational-replay", ":record", "events">>),
           Get(<<"operational-replay", "missions", ":record">>),
           Get(<<"operational-replay", "receipts", ":record">>),
           Get(<<"operational-replay", ":record">>),
           Get(<<"receipts", "missions", ":record">>),
           Get(<<"receipts", ":record", "proofs">>),
           Get(<<"receipts", ":record">>),
           Post(<<"conclave", "workspaces", ":record", "tasks", ":record", "evidence">>),
           Post(<<"conclave", "workspaces", ":record", "run">>),
           Get(<<"conclave", "workspaces", ":record">>),
           Post(<<"knowledge", "acquisitions", ":record", "promotion-candidates">>),
           Get(<<"knowledge", "acquisitions", ":record">>),
           Get(<<"knowledge", "promotion-candidates", ":record">>),
           Get(<<"knowledge", "store", ":record", "versions">>),
           Get(<<"knowledge", "store", ":record">>),
           Get(<<"knowledge", "receipts", ":record">>),
           Get(<<"mission-store", ":record">>),
           Post(<<"missions", ":record", "execute-step">>),
           Get(<<"missions", ":mission">>),
           Get(<<"work-sessions", ":record">>),
           Get(<<"work-sessions", ":record", "receipt">>),
           Post(<<"work-sessions", ":record", "step">>),
           Post(<<"work-sessions", ":record", "continue">>),
           Post(<<"work-sessions", ":record", "pause">>),
           Post(<<"work-sessions", ":record", "cancel">>),
           Post(<<"approvals", ":record", "approve">>),
           Post(<<"approvals", ":record", "deny">>),
           Get(<<"runtime", "baselines", ":record">>),
           Get(<<"runtime-coordination", "nodes", ":record">>),
           Get(<<"runtime-coordination", "admissions", ":record">>),
           Get(<<"runtime-coordination", "admissions", ":record", "receipt">>),
           Get(<<"runtime-coordination", "admissions", ":record", "replay">>),
           Post(<<"runtime-coordination", "admissions", ":record", "cancel">>),
           Post(<<"runtime-coordination", "admissions", ":record", "challenge", "reissue">>) >>

-----------------------------------------------------------------------------
(* Resolution.                                                             *)

\* The Runtime path of a gateway path: its own segments, but for these.
RuntimePath(api, segs) ==
    CASE segs # <<>> /\ Head(segs) = "executive-interactions" ->
            <<"executive", "interactions">> \o Tail(segs)
      [] segs = <<"proofs">> -> <<"proof", "recent">>
      [] api = "local" /\ segs = <<"status">> -> <<"health">>
      [] api = "local" /\ segs = <<"missions">> -> <<"missions", "history">>
      [] api = "canonical-execution" -> <<"executive-authority", "canonical-execution">> \o segs
      [] OTHER -> segs

None     == [status |-> "none"]
Mismatch == [status |-> "mismatch"]
Resolved(api, template, segs) ==
    [status |-> "accepted", path |-> RuntimePath(api, segs),
     template |-> RuntimePath(api, template)]

ByMethod(api, template, segs, expected, method) ==
    IF method \in expected THEN Resolved(api, template, segs) ELSE Mismatch

MethodsOf(fixed, segs) == {r[1] : r \in {f \in fixed : f[2] = segs}}

\* Every template of a local dynamic path has one method, and two templates of
\* one shape differ in a literal: at most one of them fits a path.
ResolveLocal(segs, method) ==
    LET direct  == MethodsOf(LocalFixed \union LocalBesides, segs)
        dynamic == {r \in LocalDynamic : Fits(r[2], segs)}
    IN  IF direct # {} THEN ByMethod("local", segs, segs, direct, method)
        ELSE IF dynamic = {} THEN None
        ELSE LET r == CHOOSE x \in dynamic : TRUE
             IN  ByMethod("local", r[2], segs, {r[1]}, method)

ResolveOperational(segs, method) ==
    LET direct == MethodsOf(OperationalFixed, segs)
        first  == SelectInSeq(OperationalDynamic, LAMBDA r : HasShape(r[2], segs))
    IN  IF direct # {} THEN ByMethod("operations", segs, segs, direct, method)
        ELSE IF first = 0 \/ ~ Fits(OperationalDynamic[first][2], segs) THEN None
        ELSE ByMethod("operations", OperationalDynamic[first][2], segs,
                      {OperationalDynamic[first][1]}, method)

ResolveCanonicalExecution(segs, method) ==
    LET fitting == {t \in {<<>>, <<"missions", ":record">>} : Fits(t, segs)}
    IN  IF fitting = {} THEN None
        ELSE ByMethod("canonical-execution", CHOOSE t \in fitting : TRUE, segs, {"GET"}, method)

\* The read routes of the Runtime API and the Runtime path of each.
RuntimeSurfaces ==
    {"status", "version", "providers", "capabilities", "proofs", "receipts", "environment",
     "diagnostics", "governance", "connectors", "capability-registry", "replay"}

RuntimeReads ==
    [segs \in {<<n>> : n \in RuntimeSurfaces \union {"health", "ready", "realtime-voice",
                                                     "conclave", "eox"}} |->
        CASE segs = <<"realtime-voice">> -> <<"runtime", "voice", "realtime", "status">>
          [] segs = <<"conclave">>       -> <<"runtime", "conclave", "status">>
          [] segs = <<"eox">>            -> <<"runtime", "executive-operating-loop">>
          [] segs[1] \in RuntimeSurfaces -> <<"runtime">> \o segs
          [] OTHER                       -> segs]

ReplayReads ==
    {<<"replay", ":plain">>, <<"replay", ":plain", "events">>,
     <<"replay", ":plain", "stages", ":stage", "explain">>}

ResolveRuntime(segs) ==
    IF segs \in DOMAIN RuntimeReads
      THEN [status |-> "accepted", path |-> RuntimeReads[segs], template |-> RuntimeReads[segs]]
    ELSE IF \E t \in ReplayReads : Fits(t, segs)
      THEN [status |-> "accepted", path |-> <<"runtime">> \o segs,
            template |-> <<"runtime">> \o (CHOOSE t \in ReplayReads : Fits(t, segs))]
    ELSE None

\* Registered aliases that never forward: the legacy replay and Realtime voice.
Quarantined(segs) ==
    segs = <<"realtime-voice">> \/ (segs # <<>> /\ Head(segs) = "replay")

Resolve(api, segs, method) ==
    CASE api = "local"               -> ResolveLocal(segs, method)
      [] api = "operations"          -> ResolveOperational(segs, method)
      [] api = "canonical-execution" -> ResolveCanonicalExecution(segs, method)
      [] api = "runtime"             -> ResolveRuntime(segs)

-----------------------------------------------------------------------------
(* Retired routes.                                                         *)

RetiredBases ==
    ({"runtime"} \X {<<"executive-briefing">>, <<"conclave", "reviews">>})
    \union
    ({"runtime", "local", "operations"} \X
        {<<"interactions">>, <<"executive-intents">>, <<"voice-operator", "route-transcript">>})
    \union
    ({"local", "operations"} \X
        {<<"actions", "dry-run">>, <<"actions", "execute">>,
         <<"missions", "plan">>, <<"work-sessions", "plan">>})

CanonicalMutation(api, segs) ==
    /\ api \in {"local", "operations"}
    /\ \/ segs = <<"executive-interactions">>
       \/ \E verdict \in {"approve", "deny"} : Fits(<<"approvals", ":plain", verdict>>, segs)

\* Variant: only the named bases are retired, not every other mutation.
RetiredByName(api, segs, method) ==
    \E b \in RetiredBases : b[1] = api /\ IsPrefix(b[2], segs)

RetiredRoute(api, segs, method) ==
    \/ \E b \in RetiredBases : b[1] = api /\ IsPrefix(b[2], segs)
    \/ /\ method = "POST"
       /\ \/ api \in {"local", "operations"} /\ ~ CanonicalMutation(api, segs)
          \/ api = "canonical-execution" /\ segs = <<"missions">>
          \/ api = "canonical-execution" /\ HasShape(<<"missions", ":any", "actions">>, segs)

-----------------------------------------------------------------------------
(* The canonical action of a resolved path.                                *)

DynamicActions ==
    LET any == ":any" IN
    Route("GET",
          Under(<<"projects", any>>, ProjectReads)
          \union Under(<<"operational-replay">>,
                       {<<any>>, <<any, "events">>, <<any, "stages", any>>,
                        <<any, "stages", any, "explain">>, <<"missions", any>>, <<"receipts", any>>})
          \union Under(<<"receipts">>, {<<"missions", any>>, <<any>>, <<any, "proofs">>})
          \union Under(<<"knowledge">>,
                       {<<"acquisitions", any>>, <<"promotion-candidates", any>>, <<"store", any>>,
                        <<"store", any, "versions">>, <<"receipts", any>>})
          \union {<<"conclave", "workspaces", any>>, <<"work-sessions", any>>,
                  <<"work-sessions", any, "receipt">>, <<"mission-store", any>>,
                  <<"missions", any>>, <<"runtime", "baselines", any>>,
                  <<"runtime-coordination", "nodes", any>>}
          \union Under(<<"executive-authority", "canonical-execution">>, {<<>>, <<"missions", any>>})
          \union Under(<<"runtime-coordination", "admissions", any>>, AdmissionTail("GET")))
    \union
    Route("POST",
          {<<"projects", any, "compile">>, <<"conclave", "workspaces", any, "run">>,
           <<"conclave", "workspaces", any, "tasks", any, "evidence">>,
           <<"missions", any, "execute-step">>, <<"approvals", any, "approve">>,
           <<"approvals", any, "deny">>,
           <<"knowledge", "acquisitions", any, "promotion-candidates">>}
          \union Under(<<"work-sessions", any>>, SessionSteps)
          \union Under(<<"runtime-coordination", "admissions", any>>, AdmissionTail("POST")))

ActionTemplates ==
    {<<r[1], RuntimePath("operations", r[2])>> : r \in OperationalFixed}
    \union {<<r[1], RuntimePath("local", r[2])>> : r \in LocalFixed}
    \union {<<"POST", <<"conclave", "workspaces">>>>}
    \union DynamicActions

\* More literal segments first, then more literal text.
LiteralCount(t) == Cardinality({i \in DOMAIN t : ~ IsParam(t[i])})
LiteralText(t)  == FoldSeq(LAMBDA s, n : n + IF IsParam(s) THEN 0 ELSE Len(s), 0, t)

\* Variant: the literal text is not compared.
AsSpecificByCount(t, u) == LiteralCount(t) >= LiteralCount(u)

AsSpecific(t, u) ==
    \/ LiteralCount(t) > LiteralCount(u)
    \/ LiteralCount(t) = LiteralCount(u) /\ LiteralText(t) >= LiteralText(u)

NoAction == <<"none", <<>>>>

\* One action, or none: a path no template matches or that two match alike.
CanonicalAction(method, path) ==
    LET matches == {a \in ActionTemplates : a[1] = method /\ Fits(a[2], path)}
        best    == {a \in matches : \A b \in matches : AsSpecific(a[2], b[2])}
    IN  IF Cardinality(best) = 1 THEN CHOOSE a \in best : TRUE ELSE NoAction

\* The action by which the Gateway judges an accepted request.
ActionOf(api, segs, method) ==
    IF api # "runtime" THEN CanonicalAction(method, Resolve(api, segs, method).path)
    ELSE IF Quarantined(segs) THEN NoAction
    ELSE <<"GET", RuntimeReads[segs]>>

-----------------------------------------------------------------------------
(* Scopes and request bodies.                                              *)

Decision(path)    == \E v \in {"approve", "deny"} : HasShape(<<"approvals", ":any", v>>, path)
Interaction(path) == IsPrefix(<<"executive", "interactions">>, path)

RequiredScope(path, method) ==
    IF method = "GET" \/ path \in {<<"executive", "interactions">>, <<"intake", "query">>}
      THEN "operations:read"
    ELSE IF path = <<"knowledge", "promotions">> THEN "knowledge:promote"
    ELSE IF \/ path \in {<<"knowledge", "intake">>, <<"intake", "upload">>}
            \/ Fits(<<"conclave", "workspaces", ":any", "tasks", ":any", "evidence">>, path)
      THEN "evidence:write"
    ELSE IF Fits(<<"runtime-coordination", "admissions", ":record", "challenge", "reissue">>, path)
      THEN "edge:node_admission:review"
    ELSE IF \/ path = <<"runtime-coordination", "admissions">>
            \/ Fits(<<"runtime-coordination", "admissions", ":record", "cancel">>, path)
      THEN "edge:node_admission:request"
    ELSE IF Decision(path) THEN "approvals:decide"
    ELSE "operations:write"
=============================================================================
