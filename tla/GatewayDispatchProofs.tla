----------------------- MODULE GatewayDispatchProofs -----------------------
(***************************************************************************)
(* Proofs about GatewayDispatch: what a forwarded mutation is, what the    *)
(* held projection was adopted for and when, and what follows for the age  *)
(* of the evidence in use and for what the browser offers.                 *)
(*                                                                         *)
(* RequestInv keeps with a request on its way what the table and the       *)
(* checks it has passed said of it; HeldInv keeps with the held projection *)
(* the moment it was adopted at.  Each is inductive on its own.            *)
(***************************************************************************)
EXTENDS GatewayDispatch, FiniteSetTheorems, TLAPS

-----------------------------------------------------------------------------
(* Paths are sequences.                                                    *)

\* A sequence, of whatever elements.
IsSeq(s) == \E S : s \in Seq(S)

LEMMA Tuples ==
    /\ IsSeq(<<>>)
    /\ \A a : IsSeq(<<a>>)
    /\ \A a, b : IsSeq(<<a, b>>)
    /\ \A a, b, c : IsSeq(<<a, b, c>>)
    /\ \A a, b, c, d : IsSeq(<<a, b, c, d>>)
    /\ \A a, b, c, d, e : IsSeq(<<a, b, c, d, e>>)
    /\ \A a, b, c, d, e, f : IsSeq(<<a, b, c, d, e, f>>)
<1>0. IsSeq(<<>>)
  <2>1. <<>> \in Seq({})
    OBVIOUS
  <2>2. QED BY <2>1 DEF IsSeq
<1>1. ASSUME NEW a PROVE IsSeq(<<a>>)
  <2>1. <<a>> \in Seq({a})
    OBVIOUS
  <2>2. QED BY <2>1 DEF IsSeq
<1>2. ASSUME NEW a, NEW b PROVE IsSeq(<<a, b>>)
  <2>1. <<a, b>> \in Seq({a, b})
    OBVIOUS
  <2>2. QED BY <2>1 DEF IsSeq
<1>3. ASSUME NEW a, NEW b, NEW c PROVE IsSeq(<<a, b, c>>)
  <2>1. <<a, b, c>> \in Seq({a, b, c})
    OBVIOUS
  <2>2. QED BY <2>1 DEF IsSeq
<1>4. ASSUME NEW a, NEW b, NEW c, NEW d PROVE IsSeq(<<a, b, c, d>>)
  <2>1. <<a, b, c, d>> \in Seq({a, b, c, d})
    OBVIOUS
  <2>2. QED BY <2>1 DEF IsSeq
<1>5. ASSUME NEW a, NEW b, NEW c, NEW d, NEW e PROVE IsSeq(<<a, b, c, d, e>>)
  <2>1. <<a, b, c, d, e>> \in Seq({a, b, c, d, e})
    OBVIOUS
  <2>2. QED BY <2>1 DEF IsSeq
<1>6. ASSUME NEW a, NEW b, NEW c, NEW d, NEW e, NEW f PROVE IsSeq(<<a, b, c, d, e, f>>)
  <2>1. <<a, b, c, d, e, f>> \in Seq({a, b, c, d, e, f})
    OBVIOUS
  <2>2. QED BY <2>1 DEF IsSeq
<1>7. QED
  BY <1>0, <1>1, <1>2, <1>3, <1>4, <1>5, <1>6

LEMMA Appended ==
    ASSUME NEW base, IsSeq(base), NEW tails, \A t \in tails : IsSeq(t)
    PROVE  \A t \in Under(base, tails) : IsSeq(t)
<1>1. ASSUME NEW t \in tails PROVE IsSeq(base \o t)
  <2>1. PICK S : base \in Seq(S)
    BY DEF IsSeq
  <2>2. PICK T : t \in Seq(T)
    BY DEF IsSeq
  <2>3. base \in Seq(S \union T) /\ t \in Seq(S \union T)
    BY <2>1, <2>2
  <2>4. base \o t \in Seq(S \union T)
    BY <2>3
  <2>5. QED BY <2>4 DEF IsSeq
<1>2. QED
  BY <1>1 DEF Under

LEMMA DomainOfSeq ==
    ASSUME NEW s, IsSeq(s)
    PROVE  DOMAIN s = 1 .. Len(s) /\ Len(s) \in Nat
  BY DEF IsSeq

LEMMA SameDomain ==
    ASSUME NEW s, IsSeq(s), NEW f, f = [i \in DOMAIN s |-> f[i]]
    PROVE  IsSeq(f)
<1>1. PICK n \in Nat : f = [i \in 1 .. n |-> f[i]]
  BY DomainOfSeq
<1>2. f \in Seq({f[i] : i \in 1 .. n})
  BY <1>1
<1>3. QED
  BY <1>2 DEF IsSeq

AllSeq(routes) == \A r \in routes : IsSeq(r[2])

LEMMA RoutesAreSeq ==
    ASSUME NEW method, NEW templates, \A t \in templates : IsSeq(t)
    PROVE  AllSeq(Route(method, templates))
  BY DEF Route, AllSeq

LEMMA LocalFixedIsSeq == AllSeq(LocalFixed)
<1>1. \A t \in Under(<<"voice-operator">>, {<<"status">>, <<"history">>, <<"receipts">>}) : IsSeq(t)
  BY Appended, Tuples
<1>2. QED
  BY <1>1, RoutesAreSeq, Tuples DEF LocalFixed, AllSeq

LEMMA LocalBesidesIsSeq == AllSeq(LocalBesides)
  BY Tuples DEF LocalBesides, AllSeq

LEMMA LocalDynamicIsSeq == AllSeq(LocalDynamic)
<1>1. \A t \in Under(<<"runtime-coordination", "admissions", ":record">>, AdmissionTail("GET")) : IsSeq(t)
  BY Appended, Tuples DEF AdmissionTail
<1>2. \A t \in Under(<<"projects", ":plain">>, ProjectReads) : IsSeq(t)
  BY Appended, Tuples DEF ProjectReads
<1>3. \A t \in Under(<<"work-sessions", ":plain">>, {<<>>, <<"receipt">>}) : IsSeq(t)
  BY Appended, Tuples
<1>4. \A t \in Under(<<"runtime-coordination", "admissions", ":record">>, AdmissionTail("POST")) : IsSeq(t)
  BY Appended, Tuples DEF AdmissionTail
<1>5. \A t \in Under(<<"approvals", ":plain">>, {<<"approve">>, <<"deny">>}) : IsSeq(t)
  BY Appended, Tuples
<1>6. \A t \in Under(<<"work-sessions", ":plain">>, SessionSteps) : IsSeq(t)
  BY Appended, Tuples DEF SessionSteps
<1> DEFINE reads == {<<"executive-interactions", ":uuid">>, <<"runtime-coordination", "nodes", ":node">>}
                      \union Under(<<"runtime-coordination", "admissions", ":record">>, AdmissionTail("GET"))
                      \union Under(<<"projects", ":plain">>, ProjectReads)
                      \union {<<"conclave", "workspaces", ":plain">>}
                      \union Under(<<"work-sessions", ":plain">>, {<<>>, <<"receipt">>})
           writes == Under(<<"runtime-coordination", "admissions", ":record">>, AdmissionTail("POST"))
                       \union {<<"projects", ":plain", "compile">>,
                              <<"conclave", "workspaces", ":plain", "run">>,
                              <<"conclave", "workspaces", ":plain", "tasks", ":plain", "evidence">>,
                              <<"missions", ":plain", "execute-step">>}
                       \union Under(<<"approvals", ":plain">>, {<<"approve">>, <<"deny">>})
                       \union Under(<<"work-sessions", ":plain">>, SessionSteps)
<1>7. \A t \in reads : IsSeq(t)
  BY <1>1, <1>2, <1>3, Tuples
<1>8. \A t \in writes : IsSeq(t)
  <2>1. /\ IsSeq(<<"projects", ":plain", "compile">>)
        /\ IsSeq(<<"conclave", "workspaces", ":plain", "run">>)
        /\ IsSeq(<<"missions", ":plain", "execute-step">>)
    BY Tuples
  <2>2. IsSeq(<<"conclave", "workspaces", ":plain", "tasks", ":plain", "evidence">>)
    BY Tuples
  <2>3. QED
    BY <1>4, <1>5, <1>6, <2>1, <2>2
<1>9. LocalDynamic = Route("GET", reads) \union Route("POST", writes)
  BY DEF LocalDynamic
<1>10. AllSeq(Route("GET", reads)) /\ AllSeq(Route("POST", writes))
  <2> HIDE DEF reads, writes
  <2>1. QED
    BY <1>7, <1>8, RoutesAreSeq
<1>11. QED
  BY <1>9, <1>10 DEF AllSeq

LEMMA OperationalFixedIsSeq == AllSeq(OperationalFixed)
<1>1. \A t \in Under(<<"voice-operator">>, {<<"status">>, <<"history">>}) : IsSeq(t)
  BY Appended, Tuples
<1>2. \A t \in Under(<<"knowledge">>, {<<"acquisitions">>, <<"promotion-candidates">>,
                                         <<"promotions">>, <<"store">>, <<"receipts">>}) : IsSeq(t)
  BY Appended, Tuples
<1>3. \A t \in Under(<<"runtime-coordination">>, {<<"nodes">>, <<"events">>, <<"admissions">>}) : IsSeq(t)
  BY Appended, Tuples
<1>4. QED
  BY <1>1, <1>2, <1>3, RoutesAreSeq, Tuples DEF OperationalFixed, AllSeq

At(i) == IsSeq(OperationalDynamic[i][2])

LEMMA OperationalDynamicIsSeq == \A i \in DOMAIN OperationalDynamic : At(i)
<1>1. DOMAIN OperationalDynamic = 1 .. 41
  BY SMT DEF OperationalDynamic
<1>2. At(1) /\ At(2) /\ At(3) /\ At(4) /\ At(5) /\ At(6)
      /\ At(7) /\ At(8) /\ At(9) /\ At(10)
  BY Tuples, SMT DEF OperationalDynamic, At
<1>3. At(11) /\ At(12) /\ At(13) /\ At(14) /\ At(15) /\ At(16)
      /\ At(17) /\ At(18) /\ At(19) /\ At(20)
  BY Tuples, SMT DEF OperationalDynamic, At
<1>4. At(21) /\ At(22) /\ At(23) /\ At(24) /\ At(25) /\ At(26)
      /\ At(27) /\ At(28) /\ At(29) /\ At(30)
  BY Tuples, SMT DEF OperationalDynamic, At
<1>5. At(31) /\ At(32) /\ At(33) /\ At(34) /\ At(35) /\ At(36)
      /\ At(37) /\ At(38) /\ At(39) /\ At(40) /\ At(41)
  BY Tuples, SMT DEF OperationalDynamic, At
<1>6. \A i \in 1 .. 41 : At(i)
  BY <1>2, <1>3, <1>4, <1>5
<1>7. QED
  BY <1>1, <1>6

LEMMA TemplatesAreSeq ==
    ASSUME NEW api \in {"local", "operations"}
    PROVE  \A t \in Templates(api) : IsSeq(t)
<1>1. CASE api = "local"
  BY <1>1, LocalFixedIsSeq, LocalBesidesIsSeq, LocalDynamicIsSeq DEF Templates, AllSeq
<1>2. CASE api = "operations"
  BY <1>2, OperationalFixedIsSeq, OperationalDynamicIsSeq DEF Templates, AllSeq, At
<1>3. QED
  BY <1>1, <1>2

LEMMA InstancesAreSeq ==
    ASSUME NEW t, IsSeq(t), NEW templates, NEW segs \in Instances(t, templates)
    PROVE  IsSeq(segs)
<1>1. segs = t \/ segs = [i \in DOMAIN t |-> segs[i]]
  BY Zenon DEF Instances
<1>2. QED
  BY <1>1, SameDomain

\* What is asked: an instance of a template of its API, or a retired path.
LEMMA AskedIsInstance ==
    ASSUME NEW ask \in Asked, ask \notin RetiredBases
    PROVE  \E a \in {"local", "operations", "runtime", "canonical-execution"} :
               \E t \in Templates(a) : \E s \in Instances(t, Templates(a)) : ask = <<a, s>>
<1> DEFINE paths(a) == {<<a, s>> : s \in UNION {Instances(t, Templates(a)) : t \in Templates(a)}}
           apis == {"local", "operations", "runtime", "canonical-execution"}
<1>1. Asked = (UNION {paths(a) : a \in apis}) \union RetiredBases
  BY Zenon DEF Asked
<1>2. \A x : x \in Asked /\ x \notin RetiredBases => \E a \in apis : x \in paths(a)
  <2> HIDE DEF paths, apis
  <2>1. QED
    BY <1>1, SMT
<1>3. \A a, x : x \in paths(a) =>
          \E t \in Templates(a) : \E s \in Instances(t, Templates(a)) : x = <<a, s>>
  OBVIOUS
<1>4. ask \in Asked /\ ask \notin RetiredBases
  OBVIOUS
<1> HIDE DEF paths, apis
<1>5. PICK a \in apis : ask \in paths(a)
  BY <1>2, <1>4
<1>6. QED
  BY <1>3, <1>5 DEF apis

LEMMA AskedIsPath ==
    ASSUME NEW ask \in Asked
    PROVE  /\ ask = <<ask[1], ask[2]>>
           /\ ask[1] \in {"local", "operations", "runtime", "canonical-execution"}
           /\ ask[1] \in {"local", "operations"} => IsSeq(ask[2])
<1>1. CASE ask \in RetiredBases
  BY <1>1, Tuples DEF RetiredBases
<1>2. CASE ask \notin RetiredBases
  <2>1. PICK a \in {"local", "operations", "runtime", "canonical-execution"} :
            \E t \in Templates(a) : \E s \in Instances(t, Templates(a)) : ask = <<a, s>>
    BY <1>2, AskedIsInstance
  <2>2. PICK t \in Templates(a) : \E s \in Instances(t, Templates(a)) : ask = <<a, s>>
    BY <2>1
  <2>3. PICK s \in Instances(t, Templates(a)) : ask = <<a, s>>
    BY <2>2
  <2>4. a \in {"local", "operations"} => IsSeq(s)
    BY TemplatesAreSeq, InstancesAreSeq
  <2>5. QED
    BY <2>3, <2>4
<1>3. QED
  BY <1>1, <1>2

-----------------------------------------------------------------------------
(* The mutations the Gateway takes.                                        *)

LEMMA ResolvedPath ==
    ASSUME NEW api \in {"local", "operations"}, NEW segs, NEW method,
           Resolve(api, segs, method).status = "accepted"
    PROVE  Resolve(api, segs, method).path = RuntimePath(api, segs)
<1>1. ASSUME NEW template, NEW expected, ByMethod(api, template, segs, expected, method).status = "accepted"
      PROVE  ByMethod(api, template, segs, expected, method).path = RuntimePath(api, segs)
  BY <1>1 DEF ByMethod, Resolved, Mismatch
<1>2. CASE api = "local"
  <2>1. \/ Resolve(api, segs, method) = None
        \/ \E template, expected :
              Resolve(api, segs, method) = ByMethod(api, template, segs, expected, method)
    BY <1>2, Zenon DEF Resolve, ResolveLocal
  <2>2. QED
    BY <1>1, <2>1 DEF None
<1>3. CASE api = "operations"
  <2>1. \/ Resolve(api, segs, method) = None
        \/ \E template, expected :
              Resolve(api, segs, method) = ByMethod(api, template, segs, expected, method)
    <3>1. Resolve(api, segs, method) = ResolveOperational(segs, method)
      BY <1>3 DEF Resolve
    <3>2. QED
      BY <1>3, <3>1, Zenon DEF ResolveOperational
  <2>2. QED
    BY <1>1, <2>1 DEF None
<1>4. QED
  BY <1>2, <1>3

LEMMA InteractionPath ==
    /\ RuntimePath("local", <<"executive-interactions">>) = <<"executive", "interactions">>
    /\ RuntimePath("operations", <<"executive-interactions">>) = <<"executive", "interactions">>
    /\ Interaction(<<"executive", "interactions">>)
<1>1. <<"executive-interactions">> # <<>> /\ Head(<<"executive-interactions">>) = "executive-interactions"
  OBVIOUS
<1>2. <<"executive", "interactions">> \o Tail(<<"executive-interactions">>) = <<"executive", "interactions">>
  OBVIOUS
<1>3. QED
  BY <1>1, <1>2 DEF RuntimePath, Interaction, IsPrefix

LEMMA DecisionPath ==
    ASSUME NEW api \in {"local", "operations"}, NEW segs, IsSeq(segs),
           NEW verdict \in {"approve", "deny"}, Fits(<<"approvals", ":plain", verdict>>, segs)
    PROVE  /\ RuntimePath(api, segs) = segs
           /\ Decision(segs)
           /\ ~ Interaction(segs)
<1> DEFINE template == <<"approvals", ":plain", verdict>>
<1>1. Len(segs) = 3 /\ HasShape(template, segs)
  BY DEF Fits, HasShape
<1>2. DOMAIN segs = 1 .. 3
  BY <1>1, DomainOfSeq
<1>3. ~ IsParam("approvals") /\ ~ IsParam(verdict) /\ IsParam(":plain")
  BY DEF IsParam, Accepts
<1>4. segs[1] = "approvals" /\ segs[3] = verdict /\ segs[2] \in Accepts[":plain"]
  BY <1>1, <1>2, <1>3 DEF HasShape, Fits
<1>5. segs # <<>> /\ Head(segs) = "approvals"
  BY <1>1, <1>4 DEF IsSeq
<1>6. RuntimePath(api, segs) = segs
  BY <1>4, <1>5 DEF RuntimePath
<1>7. ~ Interaction(segs)
  BY <1>1, <1>4 DEF Interaction, IsPrefix, IsSeq
<1>8. Accepts[":plain"] \subseteq Matches(":any") /\ IsParam(":any")
  BY DEF Accepts, Matches, RecordId, IsParam
<1>9. HasShape(<<"approvals", ":any", verdict>>, segs)
  BY <1>1, <1>2, <1>3, <1>4, <1>8 DEF HasShape
<1>10. QED
  BY <1>6, <1>7, <1>9 DEF Decision

\* The mutations that are forwarded are interactions and decisions.
LEMMA MutationsAreCanonical ==
    ASSUME NEW api, NEW segs, <<api, segs>> \in Mutations
    PROVE  /\ api \in {"local", "operations"}
           /\ CanonicalMutation(api, segs)
           /\ LET path == Resolve(api, segs, "POST").path IN
              /\ Interaction(path) \/ Decision(path)
              /\ Interaction(path) => path = <<"executive", "interactions">>
<1>1. <<api, segs>> \in Asked /\ Accepted(api, segs, "POST")
  BY DEF Mutations, Taken
<1>2. api \in {"local", "operations"} /\ IsSeq(segs)
  BY <1>1, AskedIsPath DEF Accepted
<1>3. CanonicalMutation(api, segs)
  BY <1>1, <1>2 DEF Accepted, RetiredRoute
<1>4. Resolve(api, segs, "POST").path = RuntimePath(api, segs)
  BY <1>1, <1>2, ResolvedPath DEF Accepted
<1>5. CASE segs = <<"executive-interactions">>
  BY <1>2, <1>3, <1>4, <1>5, InteractionPath
<1>6. CASE \E verdict \in {"approve", "deny"} : Fits(<<"approvals", ":plain", verdict>>, segs)
  BY <1>2, <1>3, <1>4, <1>6, DecisionPath
<1>7. QED
  BY <1>3, <1>5, <1>6 DEF CanonicalMutation

\* No schema has a field by which a body would choose its tenant or its role.
LEMMA SchemasNameNoIdentity ==
    ASSUME NEW path, NEW body, ValidBody(path, body)
    PROVE  body.fields \intersect {"tenant_id", "role"} = {}
<1> DEFINE Bare(s) == {"tenant_id", "role"} \intersect (s.required \union s.optional) = {}
<1>1. \A s \in InteractionSchemas \union KnowledgeSchemas : Bare(s)
  BY DEF InteractionSchemas, KnowledgeSchemas, Takes
<1>2. \A s \in ConclaveSchemas \union CoordinationSchemas : Bare(s)
  BY DEF ConclaveSchemas, CoordinationSchemas, Takes
<1>3. \A s \in WorkSchemas : Bare(s)
  BY DEF WorkSchemas, Takes
<1>4. QED
  BY <1>1, <1>2, <1>3 DEF ValidBody, SchemaOf

-----------------------------------------------------------------------------
(* Mutations are bound to the operator and the key they came with.         *)

\* A request has exactly these fields.
Shaped(r) ==
    r = [phase |-> r.phase, api |-> r.api, segs |-> r.segs, method |-> r.method,
         claims |-> r.claims, key |-> r.key, csrf |-> r.csrf, body |-> r.body, actor |-> r.actor]

\* A mutation on its way, and one that was forwarded.
TypedRequest(r) ==
    /\ r.method \in {"GET", "POST"}
    /\ r.claims \in Session \union {NoSession}
    /\ r.key \in Key \union {NoKey}
    /\ r.body \in Body \union {NoBody}

MutationOK(r) ==
    /\ TypedRequest(r)
    /\ <<r.api, r.segs>> \in Asked
    /\ r.method = "POST" =>
          /\ <<r.api, r.segs>> \in Mutations
          /\ Hosted(r) => r.claims \in Session

ForwardedOK(r) ==
    r.method = "POST" =>
        /\ r.actor = ActorOf(r)
        /\ OperatorServes(r)
        /\ ValidBody(PathOf(r), r.body)
        /\ KeyHolds(r, r.body)

RequestOK(r) ==
    /\ Shaped(r) /\ TypedRequest(r)
    /\ r.phase \in {"idle", "admission", "unresolved", "body", "forwarded"}
    /\ r.phase # "idle" => MutationOK(r)
    /\ r.phase = "forwarded" => ForwardedOK(r)

RequestInv == RequestOK(req)

LEMMA IdleIsOK == RequestOK(Idle)
  BY DEF Idle, RequestOK, Shaped, TypedRequest

\* The path depends on these three fields only.
LEMMA SameRoute ==
    ASSUME NEW r, NEW s, s.api = r.api, s.segs = r.segs, s.method = r.method
    PROVE  /\ PathOf(s) = PathOf(r) /\ RouteOf(s) = RouteOf(r)
           /\ Hosted(s) = Hosted(r)
           /\ Ungoverned(s) = Ungoverned(r)
  BY DEF PathOf, RouteOf, Hosted, Ungoverned

LEMMA RelayedIsOK ==
    ASSUME NEW r, Shaped(r), MutationOK(r),
           r.method = "POST" => ValidBody(PathOf(r), r.body) /\ KeyHolds(r, r.body)
    PROVE  RequestOK(Relayed(r))
<1>1. CASE ~ OperatorServes(r)
  BY <1>1, IdleIsOK DEF Relayed
<1>2. CASE OperatorServes(r)
  <2>1. PICK s : s = [r EXCEPT !.phase = "forwarded", !.actor = ActorOf(r)]
    OBVIOUS
  <2>2. s = [phase |-> "forwarded", api |-> r.api, segs |-> r.segs, method |-> r.method,
             claims |-> r.claims, key |-> r.key, csrf |-> r.csrf, body |-> r.body, actor |-> ActorOf(r)]
    BY <2>1 DEF Shaped
  <2>3. /\ PathOf(s) = PathOf(r) /\ Hosted(s) = Hosted(r) /\ Ungoverned(s) = Ungoverned(r)
    BY <2>2, SameRoute
  <2>4. Shaped(s) /\ MutationOK(s)
    BY <2>2, <2>3 DEF Shaped, MutationOK, TypedRequest
  <2>5. ActorOf(s) = ActorOf(r) /\ OperatorServes(s) /\ s.body = r.body
    BY <1>2, <2>2, <2>3 DEF ActorOf, OperatorServes
  <2>6. KeyHolds(r, r.body) => KeyHolds(s, s.body)
    BY <2>2, <2>3 DEF KeyHolds
  <2>7. ForwardedOK(s)
    BY <2>2, <2>3, <2>5, <2>6 DEF ForwardedOK
  <2>8. QED
    BY <1>2, <2>1, <2>2, <2>4, <2>7 DEF Relayed, RequestOK, MutationOK
<1>3. QED
  BY <1>1, <1>2

LEMMA ProceedsIsOK ==
    ASSUME NEW r, Shaped(r), MutationOK(r)
    PROVE  RequestOK(Proceeds(r))
<1>1. CASE ~ Cleared(r)
  BY <1>1, IdleIsOK DEF Proceeds
<1>2. CASE Cleared(r) /\ r.method = "POST"
  <2>1. PICK s : s = [r EXCEPT !.phase = "body"]
    OBVIOUS
  <2>2. s = [phase |-> "body", api |-> r.api, segs |-> r.segs, method |-> r.method,
             claims |-> r.claims, key |-> r.key, csrf |-> r.csrf, body |-> r.body, actor |-> r.actor]
    BY <2>1 DEF Shaped
  <2>3. Shaped(s) /\ MutationOK(s) /\ s.phase = "body"
    BY <2>2 DEF Shaped, MutationOK, Hosted, TypedRequest
  <2>4. QED
    BY <1>2, <2>1, <2>3 DEF Proceeds, RequestOK, MutationOK
<1>3. CASE Cleared(r) /\ r.method # "POST"
  BY <1>3, RelayedIsOK DEF Proceeds
<1>4. QED
  BY <1>1, <1>2, <1>3

LEMMA ReceiveIsOK ==
    ASSUME NEW r, Shaped(r), MutationOK(r), r.phase = "admission", Receive(r)
    PROVE  RequestInv'
<1>1. CASE Exempt(r)
  BY <1>1, ProceedsIsOK DEF Receive, RequestInv
<1>2. CASE ~ Exempt(r) /\ RouteOf(r).action = NoAction
  <2>1. PICK s : s = [r EXCEPT !.phase = "unresolved"]
    OBVIOUS
  <2>2. s = [phase |-> "unresolved", api |-> r.api, segs |-> r.segs, method |-> r.method,
             claims |-> r.claims, key |-> r.key, csrf |-> r.csrf, body |-> r.body, actor |-> r.actor]
    BY <2>1 DEF Shaped
  <2>3. RequestOK(s)
    BY <2>2 DEF Shaped, MutationOK, Hosted, RequestOK, TypedRequest
  <2>4. QED
    BY <1>2, <2>1, <2>3 DEF Receive, RequestInv
<1>3. CASE ~ Exempt(r) /\ RouteOf(r).action # NoAction
  <2>1. req' = r \/ req' = Decided(r, held)
    BY <1>3 DEF Receive
  <2>2. RequestOK(r)
    BY DEF RequestOK, MutationOK
  <2>3. RequestOK(Decided(r, held))
    BY ProceedsIsOK, IdleIsOK DEF Decided
  <2>4. QED
    BY <2>1, <2>2, <2>3 DEF RequestInv
<1>4. QED
  BY <1>1, <1>2, <1>3

LEMMA AsksIs ==
    ASSUME NEW ask, NEW method, NEW claims
    PROVE  Asks(ask, method, claims) =
              [phase |-> "admission", api |-> ask[1], segs |-> ask[2], method |-> method,
               claims |-> claims, key |-> NoKey, csrf |-> FALSE, body |-> NoBody, actor |-> "nobody"]
<1>1. PICK a, s : a = ask[1] /\ s = ask[2]
  OBVIOUS
<1>2. PICK idle : idle = Idle
  OBVIOUS
<1>3. Asks(ask, method, claims) =
          [idle EXCEPT !.phase = "admission", !.api = a, !.segs = s, !.method = method, !.claims = claims]
  BY <1>1, <1>2 DEF Asks
<1>4. QED
  BY <1>1, <1>2, <1>3 DEF Idle

LEMMA RequestStep ==
    ASSUME RequestInv, [Next]_vars
    PROVE  RequestInv'
<1>1. CASE ReceiveRead
  <2>1. PICK ask \in Reads : \E claims \in SessionsFor(ask) : Receive(Asks(ask, "GET", claims))
    BY <1>1, Zenon DEF ReceiveRead
  <2>2. PICK claims \in SessionsFor(ask) : Receive(Asks(ask, "GET", claims))
    BY <2>1, Zenon
  <2>3. PICK r : r = Asks(ask, "GET", claims)
    OBVIOUS
  <2>4. r = [phase |-> "admission", api |-> ask[1], segs |-> ask[2], method |-> "GET",
             claims |-> claims, key |-> NoKey, csrf |-> FALSE, body |-> NoBody, actor |-> "nobody"]
    BY <2>3, AsksIs
  <2>5. ask \in Asked /\ ask = <<ask[1], ask[2]>>
    BY AskedIsPath DEF Reads, Taken
  <2>6. claims \in Session \union {NoSession}
    BY DEF SessionsFor
  <2>7. Shaped(r) /\ MutationOK(r) /\ r.phase = "admission"
    BY <2>4, <2>5, <2>6 DEF Shaped, MutationOK, TypedRequest
  <2>8. QED
    BY <2>2, <2>3, <2>7, ReceiveIsOK
<1>2. CASE ReceiveMutation
  <2>1. PICK ask \in Mutations, key \in Key \union {NoKey}, csrf \in BOOLEAN :
            \E claims \in SessionsFor(ask) :
                Receive([Asks(ask, "POST", claims) EXCEPT !.key = key, !.csrf = csrf])
    BY <1>2, Zenon DEF ReceiveMutation
  <2>2. PICK claims \in SessionsFor(ask) :
                Receive([Asks(ask, "POST", claims) EXCEPT !.key = key, !.csrf = csrf])
    BY <2>1, Zenon
  <2>3. PICK r : r = [Asks(ask, "POST", claims) EXCEPT !.key = key, !.csrf = csrf]
    OBVIOUS
  <2>4. r = [phase |-> "admission", api |-> ask[1], segs |-> ask[2], method |-> "POST",
             claims |-> claims, key |-> key, csrf |-> csrf, body |-> NoBody, actor |-> "nobody"]
    BY <2>3, AsksIs
  <2>5. ask \in Asked /\ ask = <<ask[1], ask[2]>>
    BY AskedIsPath DEF Mutations, Taken
  <2>6. Shaped(r) /\ MutationOK(r) /\ r.phase = "admission"
    <3>1. claims \in Session \union {NoSession} /\ (ask[1] = "operations" => claims \in Session)
      BY DEF SessionsFor
    <3>2. QED
      BY <2>4, <2>5, <3>1 DEF Shaped, MutationOK, TypedRequest, Hosted
  <2>7. QED
    BY <2>2, <2>3, <2>6, ReceiveIsOK
<1>3. CASE RefreshEnds
  <2>1. Shaped(req) /\ MutationOK(req)
    BY <1>3 DEF RefreshEnds, RequestInv, RequestOK
  <2>2. \A p : RequestOK(Decided(req, p))
    BY <2>1, ProceedsIsOK, IdleIsOK DEF Decided
  <2>3. QED
    BY <1>3, <2>2, IdleIsOK DEF RefreshEnds, RequestInv
<1>4. CASE BodyArrives
  <2>1. Shaped(req) /\ MutationOK(req)
    BY <1>4 DEF BodyArrives, RequestInv, RequestOK
  <2>2. PICK body \in Body :
          req' = IF /\ Hosted(req) => Trusted(PathOf(req), body)
                    /\ ValidBody(PathOf(req), body)
                    /\ KeyHolds(req, body)
                   THEN Relayed([req EXCEPT !.body = body])
                   ELSE Idle
    BY <1>4 DEF BodyArrives
  <2>3. CASE req' = Idle
    BY <2>3, IdleIsOK DEF RequestInv
  <2>4. CASE req' # Idle
    <3>1. ValidBody(PathOf(req), body) /\ KeyHolds(req, body)
      BY <2>2, <2>4
    <3>2. PICK s : s = [req EXCEPT !.body = body]
      OBVIOUS
    <3>3. s = [phase |-> req.phase, api |-> req.api, segs |-> req.segs, method |-> req.method,
               claims |-> req.claims, key |-> req.key, csrf |-> req.csrf, body |-> body,
               actor |-> req.actor]
      BY <2>1, <3>2 DEF Shaped
    <3>4. Shaped(s) /\ MutationOK(s) /\ PathOf(s) = PathOf(req)
      BY <2>1, <3>3, SameRoute DEF Shaped, MutationOK, TypedRequest, Hosted
    <3>5. ValidBody(PathOf(s), s.body) /\ KeyHolds(s, s.body)
      BY <3>1, <3>3, <3>4 DEF KeyHolds
    <3>6. QED
      BY <2>2, <2>4, <3>2, <3>4, <3>5, RelayedIsOK DEF RequestInv
  <2>5. QED
    BY <2>3, <2>4
<1>5. CASE Reply
  BY <1>5, IdleIsOK DEF Reply, RequestInv
<1>6. CASE RegistryRead \/ Tick \/ UNCHANGED vars
  BY <1>6 DEF RegistryRead, Tick, vars, RequestInv
<1>7. QED
  BY <1>1, <1>2, <1>3, <1>4, <1>5, <1>6 DEF Next

LEMMA PathOfMutation ==
    ASSUME NEW r, r.method = "POST", <<r.api, r.segs>> \in Mutations
    PROVE  PathOf(r) = Resolve(r.api, r.segs, "POST").path
<1>1. PICK q : q = <<<<r.api, r.segs>>, r.method>>
  OBVIOUS
<1>2. q \in (Reads \X {"GET"}) \union (Mutations \X {"POST"}) /\ q[1][1] = r.api /\ q[1][2] = r.segs /\ q[2] = "POST"
  BY <1>1
<1>3. QED
  BY <1>1, <1>2 DEF PathOf, RouteOf, Routing

\* Every request on its way is one the tables accept, and a forwarded one has
\* passed every check of its body, its key and its operator.
THEOREM RequestInvariance == Spec => []RequestInv
<1>1. Init => RequestInv
  BY IdleIsOK DEF Init, RequestInv
<1>2. RequestInv /\ [Next]_vars => RequestInv'
  BY RequestStep
<1>3. QED
  BY <1>1, <1>2, PTL DEF Spec

\* MutationsAreBound: only interactions and decisions are forwarded as
\* mutations, under their own key and in the name of who sent them.
THEOREM BoundMutations == Spec => []MutationsAreBound
<1>1. RequestInv => MutationsAreBound
  <2> SUFFICES ASSUME RequestInv, req.phase = "forwarded", req.method = "POST"
               PROVE  /\ CanonicalMutation(req.api, req.segs)
                      /\ Interaction(PathOf(req)) =>
                            /\ req.body.id = req.key /\ req.key # NoKey
                            /\ req.actor = IF Hosted(req) THEN req.claims.operator ELSE Configured
                      /\ Hosted(req) => req.claims.named /\ req.actor # NoSession.operator
                      /\ req.body.fields \intersect {"tenant_id", "role"} = {}
    BY DEF MutationsAreBound
  <2>1. MutationOK(req) /\ ForwardedOK(req)
    BY DEF RequestInv, RequestOK
  <2>2. <<req.api, req.segs>> \in Mutations /\ (Hosted(req) => req.claims \in Session)
    BY <2>1 DEF MutationOK
  <2>3. /\ CanonicalMutation(req.api, req.segs)
        /\ Interaction(PathOf(req)) \/ Decision(PathOf(req))
        /\ Interaction(PathOf(req)) => PathOf(req) = <<"executive", "interactions">>
    BY <2>2, MutationsAreCanonical, PathOfMutation
  <2>4. req.body.fields \intersect {"tenant_id", "role"} = {}
    BY <2>1, SchemasNameNoIdentity DEF ForwardedOK
  <2>5. ASSUME Interaction(PathOf(req))
        PROVE  /\ req.body.id = req.key /\ req.key # NoKey
               /\ req.actor = IF Hosted(req) THEN req.claims.operator ELSE Configured
    BY <2>1, <2>3, <2>5 DEF ForwardedOK, KeyHolds, Keyed, ActorOf
  <2>6. ASSUME Hosted(req)
        PROVE  req.claims.named /\ req.actor # NoSession.operator
    <3>1. req.claims.named /\ req.actor = req.claims.operator
      BY <2>1, <2>3, <2>6 DEF ForwardedOK, OperatorServes, Ungoverned, ActorOf
    <3>2. \A s \in Session : s.operator # NoSession.operator
      BY DEF Session, NoSession
    <3>3. QED
      BY <2>2, <2>6, <3>1, <3>2
  <2>7. QED
    BY <2>3, <2>4, <2>5, <2>6
<1>2. QED
  BY <1>1, RequestInvariance, PTL

-----------------------------------------------------------------------------
(* Evidence.  What is read of a projection before it is judged.            *)

Judged(p) ==
    /\ p.at \in Int
    /\ IsFiniteSet(p.receipts) /\ \A r \in p.receipts : r.at \in Int
    /\ \A c \in p.connectors : c.class \in Classification /\ c.verifiedAt \in Int /\ c.age \in Int

LEMMA PolicyIsPositive ==
    /\ Second \in Nat \ {0} /\ MaxAge \in Nat \ {0} /\ Skew \in Nat
    /\ Policy \in Nat \ {0} /\ Ahead \in Nat /\ Tolerance \in Nat
<1>1. \A m, s \in Nat : m * s \in Nat
  OBVIOUS
<1>2. \A m, s \in Nat \ {0} : m * s # 0
  OBVIOUS
<1>3. QED
  BY <1>1, <1>2, RegistryAssumption DEF Policy, Ahead, Tolerance

\* An age in whole seconds bounds the time it stands for.
LEMMA WholeSeconds ==
    ASSUME NEW m \in Int, NEW n \in Int, m \div Second <= n
    PROVE  m \div Second \in Int /\ m < (n + 1) * Second
<1>1. Second \in Nat \ {0}
  BY RegistryAssumption
<1>2. m \div Second \in Int /\ m < (m \div Second + 1) * Second
  BY <1>1, SMT
<1>3. QED
  BY <1>1, <1>2, SMT

LEMMA OneActionIsAllowed ==
    ASSUME NEW p, DuplicateFree(p.actions), NEW a \in p.actions, OnContract(a), Usable(a)
    PROVE  Allowed(p, a.id)
<1>1. ActionById(p, a.id) = {a}
  BY DEF ActionById, DuplicateFree
<1>2. Cardinality({a}) = 1
  BY FS_Singleton
<1>3. QED
  BY <1>1, <1>2 DEF Allowed

\* The receipt of an admitted live-verified action.
LEMMA ActionEvidence ==
    ASSUME NEW p, Judged(p), NEW t, Adopted(p, t), NEW now \in Int, now < p.at + Policy,
           NEW a \in p.actions, a.class = "live_verified"
    PROVE  \E r \in Cited(p, a.refs) : r.ok /\ now - r.at < 2 * Policy
<1>1. CurrentSuccessfulReceipt(p, a.refs, a.connector)
  BY DEF Adopted, Validated, Consistent, ActionHolds
<1>2. PICK r \in Cited(p, a.refs) : r.ok /\ CurrentAt(p, r.at)
  BY <1>1 DEF CurrentSuccessfulReceipt
<1>3. r.at \in Int /\ p.at \in Int
  BY <1>2 DEF Cited, Judged
<1>4. now - r.at < 2 * Policy
  BY <1>2, <1>3, PolicyIsPositive DEF CurrentAt
<1>5. QED
  BY <1>2, <1>4

\* The verification of a connector that is shown as available or degraded.
LEMMA ConnectorEvidence ==
    ASSUME NEW p, Judged(p), NEW t, Adopted(p, t), NEW now \in Int, now < p.at + Policy,
           NEW c \in p.connectors, c.operational # "unavailable"
    PROVE  now - c.verifiedAt < 2 * Policy + Second
<1>1. /\ p.at \in Int /\ c.verifiedAt \in Int /\ c.age \in Int
      /\ c.class \in Classification
  BY DEF Judged
<1>2. ConnectorHolds(p, c)
  BY DEF Adopted, Validated, Consistent
<1>3. c.freshness = "current"
  BY <1>1, <1>2 DEF ConnectorHolds, Classification, Live
<1>4. AgeAgrees(p.at - c.verifiedAt, Larger(0, c.age)) /\ c.age < MaxAge
  BY <1>2, <1>3 DEF ConnectorHolds, FreshnessHolds
<1>5. PICK m \in Int : m = p.at - c.verifiedAt
  BY <1>1
<1>6. m \div Second <= MaxAge
  <2>1. m \div Second \in Int
    BY PolicyIsPositive, SMT
  <2>2. Larger(0, m \div Second) - Larger(0, c.age) \in -1 .. 1
    BY <1>4, <1>5 DEF AgeAgrees
  <2>3. QED
    BY <1>1, <1>4, <2>1, <2>2, PolicyIsPositive DEF Larger
<1>7. m < Policy + Second
  <2>1. m < (MaxAge + 1) * Second
    BY <1>6, PolicyIsPositive, WholeSeconds
  <2>2. (MaxAge + 1) * Second = MaxAge * Second + Second
    BY PolicyIsPositive, SMT
  <2>3. QED
    BY <2>1, <2>2 DEF Policy
<1>8. QED
  BY <1>1, <1>5, <1>7, PolicyIsPositive

\* Mission 3: every session capability has a receipt of its own, and recent.
LEMMA Mission3Evidence ==
    ASSUME NEW p, Judged(p), NEW t, Adopted(p, t), NEW now \in Int, now < p.at + Policy, p.mission3
    PROVE  Mission3IsEstablished(p, {r \in p.receipts : r.ok /\ now - r.at < 2 * Policy})
<1> DEFINE session == {c \in p.capabilities : c.id \in SessionCapability}
           recent == {r \in p.receipts : r.ok /\ now - r.at < 2 * Policy}
           theirs == UNION {DependencyReceipts(p, c) : c \in session}
<1>1. Mission3Admission(p, t)
  BY DEF Adopted, Validated
<1>2. \A c \in session : SessionCapabilityHolds(p, c)
  BY <1>1 DEF Mission3Admission
<1>3. /\ {c.id : c \in session} = SessionCapability
      /\ Cardinality(session) = Cardinality(SessionCapability)
      /\ \A c, d \in session : c # d => DependencyReceipts(p, c) # DependencyReceipts(p, d)
  BY <1>1 DEF Mission3Admission
<1>4. theirs \subseteq p.receipts
  BY DEF DependencyReceipts, Cited
<1>5. theirs \subseteq recent
  <2>1. ASSUME NEW c, NEW r \in DependencyReceipts(p, c)
        PROVE  r \in recent
    <3>1. r \in p.receipts /\ r.ok /\ CurrentAt(p, r.at)
      BY <2>1 DEF DependencyReceipts, Cited
    <3>2. r.at \in Int /\ p.at \in Int
      BY <3>1 DEF Judged
    <3>3. QED
      BY <3>1, <3>2, PolicyIsPositive DEF CurrentAt
  <2>2. QED
    BY <2>1
<1>6. IsFiniteSet(theirs)
  BY <1>4, FS_Subset DEF Judged
<1>7. \A c \in session : \E r : DependencyReceipts(p, c) = {r}
  <2>1. ASSUME NEW c \in session PROVE \E r : DependencyReceipts(p, c) = {r}
    <3>1. Cardinality(DependencyReceipts(p, c)) = 1
      BY <1>2 DEF SessionCapabilityHolds
    <3>2. DependencyReceipts(p, c) \subseteq p.receipts
      BY DEF DependencyReceipts, Cited
    <3>3. IsFiniteSet(DependencyReceipts(p, c))
      BY <3>2, FS_Subset DEF Judged
    <3>4. QED
      BY <3>1, <3>3, FS_Singleton
  <2>2. QED
    BY <2>1
<1>8. Cardinality(session) <= Cardinality(theirs)
  <2> DEFINE own == [c \in session |-> CHOOSE r : DependencyReceipts(p, c) = {r}]
  <2>1. \A c \in session : DependencyReceipts(p, c) = {own[c]}
    BY <1>7
  <2>2. own \in [session -> theirs]
    BY <2>1
  <2>3. \A c, d \in session : own[c] = own[d] => c = d
    BY <1>3, <2>1
  <2>4. own \in Injection(session, theirs)
    BY <2>2, <2>3 DEF Injection, IsInjective
  <2>5. QED
    BY <1>6, <2>4, FS_Injection
<1>9. theirs \intersect recent = theirs
  BY <1>5
<1>10. ASSUME NEW a \in p.actions, a.capability \in SessionCapability, OnContract(a)
       PROVE  Allowed(p, a.id)
  <2>1. PICK c \in session : c.id = a.capability
    BY <1>3, <1>10
  <2>2. Usable(a)
    BY <1>2, <2>1 DEF SessionCapabilityHolds, Usable, Live
  <2>3. DuplicateFree(p.actions)
    BY DEF Adopted, Validated, Consistent
  <2>4. QED
    BY <1>10, <2>2, <2>3, OneActionIsAllowed
<1>11. Cardinality(theirs \intersect recent) >= Cardinality(SessionCapability)
  <2>1. Cardinality(theirs) \in Nat
    BY <1>6, FS_CardinalityType
  <2>2. Cardinality(SessionCapability) \in Nat
    BY RegistryAssumption, FS_CardinalityType
  <2>3. QED
    BY <1>3, <1>8, <1>9, <2>1, <2>2
<1>12. QED
  BY <1>10, <1>11 DEF Mission3IsEstablished

\* What the browser makes of an adopted projection.
LEMMA AdoptedIsParsed ==
    ASSUME NEW p, NEW t, Adopted(p, t)
    PROVE  Parsed(p)
  BY DEF Adopted, Validated, Consistent, ActionHolds, Parsed

\* The record the gate found is admitted if it is on the contract of its route.
LEMMA OfferedIsAllowed ==
    ASSUME NEW p, NEW t, Adopted(p, t), NEW needed, ReadOffered(p, needed)
    PROVE  Allowed(p, needed.route) \/ \E b \in Found(p, needed) : ~ OnContract(b)
<1>1. PICK b \in Found(p, needed) : b.invocable /\ b.class \in Live
  BY DEF ReadOffered
<1>2. b \in p.actions /\ b.route = needed.route
  BY DEF Found
<1>3. DuplicateFree(p.actions) /\ Usable(b)
  BY <1>1, <1>2 DEF Adopted, Validated, Consistent, ActionHolds, Usable
<1>4. CASE OnContract(b)
  <2>1. Allowed(p, b.id)
    BY <1>2, <1>3, <1>4, OneActionIsAllowed
  <2>2. b.id = needed.route
    BY <1>2, <1>4 DEF OnContract
  <2>3. QED
    BY <2>1, <2>2
<1>5. CASE ~ OnContract(b)
  BY <1>5
<1>6. QED
  BY <1>4, <1>5

\* Every scope the gate asks for an interaction is the one the Gateway asks for.
LEMMA InteractionsAreServed ==
    ASSUME NEW s \in Session, "operations:read" \in s.scopes
    PROVE  InteractionServed(s)
<1>0. SUFFICES ASSUME NEW ask \in Mutations, NEW r,
                      r = [Asks(ask, "POST", s) EXCEPT !.key = "k1", !.csrf = TRUE],
                      Hosted(r), PathOf(r) = <<"executive", "interactions">>
               PROVE  Cleared(r) /\ (OperatorServes(r) <=> s.named)
  BY DEF InteractionServed
<1>1. r = [phase |-> "admission", api |-> ask[1], segs |-> ask[2], method |-> "POST",
           claims |-> s, key |-> "k1", csrf |-> TRUE, body |-> NoBody, actor |-> "nobody"]
  BY <1>0, AsksIs
<1>2. r.method = "POST" /\ r.claims = s /\ r.key = "k1" /\ r.csrf
  BY <1>1
<1>3. Cleared(r)
  <2>1. RequiredScope(<<"executive", "interactions">>, "POST") = "operations:read"
    BY InteractionPath DEF RequiredScope
  <2>2. r.key # NoKey
    BY <1>2 DEF NoKey
  <2>3. QED
    BY <1>0, <1>2, <2>1, <2>2 DEF Cleared
<1>4. OperatorServes(r) <=> s.named
  <2>1. Ungoverned(r)
    BY <1>0, InteractionPath DEF Ungoverned
  <2>2. s.named \in BOOLEAN
    BY DispatchAssumption
  <2>3. QED
    BY <1>0, <1>2, <2>1, <2>2 DEF OperatorServes
<1>5. QED
  BY <1>3, <1>4

LEMMA ShownIsOffered ==
    ASSUME NEW p, NEW required, required # {}, NEW mount, NEW needed \in mount,
           ModuleState(p, required, mount) # "unavailable"
    PROVE  ReadOffered(p, needed)
  BY DEF ModuleState

-----------------------------------------------------------------------------
(* Everything the Runtime publishes can be judged.                         *)

LEMMA TwoAreFinite ==
    ASSUME NEW x, NEW y
    PROVE  IsFiniteSet({x}) /\ IsFiniteSet({x, y})
<1>1. IsFiniteSet({x})
  BY FS_Singleton
<1>2. IsFiniteSet({x} \union {y})
  BY <1>1, FS_AddElement
<1>3. {x} \union {y} = {x, y}
  OBVIOUS
<1>4. QED
  BY <1>1, <1>2, <1>3

LEMMA BaseIs ==
    ASSUME NEW at
    PROVE  Base(at) = [at |-> at, tenant |-> Tenant, sound |-> TRUE, mission3 |-> FALSE,
                       capabilities |-> {Mission}, connectors |-> {}, actions |-> {Read},
                       receipts |-> {Probe("p1", at)}]
  BY DEF Base

\* A projection with receipts and connectors of these shapes.
LEMMA SimpleIsJudged ==
    ASSUME NEW p, p.at \in Int,
           NEW x, NEW y, p.receipts \subseteq {x, y}, x.at \in Int, y.at \in Int,
           \A c \in p.connectors : c.class \in Classification /\ c.verifiedAt \in Int /\ c.age \in Int
    PROVE  Judged(p)
<1>1. IsFiniteSet(p.receipts)
  BY TwoAreFinite, FS_Subset
<1>2. QED
  BY <1>1 DEF Judged

LEMMA WholeIsJudged ==
    ASSUME NEW at \in Int, NEW p \in Whole(at)
    PROVE  Judged(p)
<1>1. PICK t, s, m : p = Altered(at, t, s, m)
  BY SMT DEF Whole
<1>2. PICK base : base = Base(at)
  OBVIOUS
<1>3. p = [base EXCEPT !.tenant = t, !.sound = s, !.mission3 = m]
  BY <1>1, <1>2 DEF Altered
<1>4. /\ p.at = at /\ p.connectors = {} /\ p.actions = {Read}
      /\ p.receipts = {Probe("p1", at)}
  BY <1>2, <1>3, BaseIs
<1>5. Probe("p1", at).at \in Int
  BY DEF Probe
<1>6. QED
  BY <1>4, <1>5, SimpleIsJudged

LEMMA ListingIs ==
    ASSUME NEW at, NEW acts
    PROVE  Listing(at, acts) =
              [at |-> at, tenant |-> Tenant, sound |-> TRUE, mission3 |-> FALSE,
               capabilities |-> {Mission}, connectors |-> {}, actions |-> acts,
               receipts |-> {Probe("p1", at)}]
<1>1. PICK base : base = Base(at)
  OBVIOUS
<1>2. Listing(at, acts) = [base EXCEPT !.actions = acts]
  BY <1>1 DEF Listing
<1>3. QED
  BY <1>1, <1>2, BaseIs

LEMMA ActionsIsJudged ==
    ASSUME NEW at \in Int, NEW p \in Actions(at)
    PROVE  Judged(p)
<1>1. \/ \E acts : p = Listing(at, acts)
      \/ \E n, ok : \E time \in Around(at) : p = Citing(at, n, ok, time)
  <2> DEFINE varied == {Listing(at, {a}) : a \in Varied}
             listed == {Listing(at, {Read, b}) : b \in {Create} \union Talk \union Astray}
             citing == {Citing(at, n, ok, time) :
                          n \in {"missions.api", "other.api"}, ok \in BOOLEAN, time \in Around(at)}
  <2>1. Actions(at) = varied \union listed \union citing
    BY DEF Actions
  <2>2. p \in varied \/ p \in listed => \E acts : p = Listing(at, acts)
    BY Zenon
  <2>3. p \in citing => \E n, ok : \E time \in Around(at) : p = Citing(at, n, ok, time)
    BY SMT
  <2> HIDE DEF varied, listed, citing
  <2>4. QED
    BY <2>1, <2>2, <2>3
<1>2. Probe("p1", at).at \in Int
  BY DEF Probe
<1>3. ASSUME NEW acts, p = Listing(at, acts)
      PROVE  p.at = at /\ p.connectors = {} /\ p.actions = acts /\ p.receipts = {Probe("p1", at)}
  BY <1>3, ListingIs
<1>4. ASSUME NEW acts, p = Listing(at, acts)
      PROVE  Judged(p)
  <2>1. p.at = at /\ p.connectors = {} /\ p.actions = acts /\ p.receipts = {Probe("p1", at)}
    BY <1>3, <1>4
  <2>2. QED
    BY <1>2, <2>1, SimpleIsJudged
<1>5. ASSUME NEW n, NEW ok, NEW time \in Around(at), p = Citing(at, n, ok, time)
      PROVE  Judged(p)
  <2>1. PICK a, x : /\ a = [Read EXCEPT !.class = "live_verified", !.connector = n]
                    /\ x = [Probe("p1", time) EXCEPT !.ok = ok]
    OBVIOUS
  <2>2. x.at = time /\ time \in Int
    BY <2>1, PolicyIsPositive DEF Probe, Around
  <2>3. p = [Listing(at, {a}) EXCEPT !.receipts = {x}]
    BY <1>5, <2>1 DEF Citing
  <2>4. p.at = at /\ p.connectors = {} /\ p.actions = {a} /\ p.receipts = {x}
    BY <2>3, ListingIs
  <2>5. QED
    BY <2>2, <2>4, SimpleIsJudged
<1>6. QED
  BY <1>1, <1>4, <1>5

LEMMA ConnectorsIsJudged ==
    ASSUME NEW at \in Int, NEW p \in Connectors(at)
    PROVE  Judged(p)
<1>1. PICK c \in {"live_verified", "staged"}, age \in {Never, 0, MaxAge},
           time \in {Never, at - Policy - Second - 1, at - Policy - 1, at - Policy, at + 1} :
              \E f, b, o : p = Linked(at, LinkAs(c, f, b, age, o, time), time)
  BY SMT DEF Connectors
<1>2. PICK f, b, o : p = Linked(at, LinkAs(c, f, b, age, o, time), time)
  BY <1>1
<1>3. PICK link : link = LinkAs(c, f, b, age, o, time)
  OBVIOUS
<1>4. link.class = c /\ link.age = age /\ link.verifiedAt = time
  BY <1>3 DEF LinkAs, Link
<1>5. PICK base, x : base = Base(at) /\ x = Probe("p1", time)
  OBVIOUS
<1>6. p = [base EXCEPT !.connectors = {link}, !.receipts = {x}]
  BY <1>2, <1>3, <1>5 DEF Linked
<1>7. p.at = at /\ p.connectors = {link} /\ p.actions = {Read} /\ p.receipts = {x}
  BY <1>5, <1>6, BaseIs
<1>8. time \in Int /\ age \in Int /\ x.at = time
  BY <1>5, PolicyIsPositive DEF Never, Probe
<1>9. c \in Classification
  BY DEF Classification, Live, NonOperational
<1>10. QED
  BY <1>4, <1>7, <1>8, <1>9, SimpleIsJudged

LEMMA SessionsIsJudged ==
    ASSUME NEW at \in Int, NEW p \in Sessions(at)
    PROVE  Judged(p)
<1>1. PICK time \in {at, at - 1} :
          \E m, refs, cls, covers : p = Established(at, m, refs, cls, covers, time)
  <2> DEFINE cited == {[c \in SessionCapability |-> {"e1"}],
                       [c \in SessionCapability |-> {"e1", "e2"}],
                       [c \in SessionCapability |-> IF c = "read" THEN {"e2"} ELSE {"e1"}]}
             covered == {{"authenticate"}, SessionCapability}
  <2>1. Sessions(at) = {Established(at, m, refs, cls, covers, time) :
                          m \in BOOLEAN, refs \in cited, cls \in {"live_verified", "live_degraded"},
                          covers \in covered, time \in {at, at - 1}}
    BY DEF Sessions
  <2> HIDE DEF cited, covered
  <2>2. QED
    BY <2>1, SMT
<1>2. PICK m, refs, cls, covers : p = Established(at, m, refs, cls, covers, time)
  BY <1>1
<1>3. PICK base, caps :
          /\ base = Base(at)
          /\ caps = {[Mission EXCEPT !.id = c, !.class = "live_verified",
                         !.verifiedAt = at, !.refs = refs[c]] : c \in SessionCapability}
  OBVIOUS
<1>4. PICK acts : acts = {SessionAction(c, cls, at) : c \in SessionCapability}
  OBVIOUS
<1>5. PICK x, y : x = Evidence("e1", at, covers) /\ y = Evidence("e2", time, SessionCapability)
  OBVIOUS
<1>6. p = [base EXCEPT !.mission3 = m, !.capabilities = caps, !.actions = acts, !.receipts = {x, y}]
  BY <1>2, <1>3, <1>4, <1>5 DEF Established
<1>7. \A a, b \in acts : a.capability = b.capability => a = b
  <2>1. \A c : SessionAction(c, cls, at).capability = c
    BY DEF SessionAction, Read
  <2>2. QED
    BY <1>4, <2>1
<1>8. p.at = at /\ p.connectors = {} /\ p.actions = acts /\ p.receipts = {x, y}
  <2>1. base = [at |-> at, tenant |-> Tenant, sound |-> TRUE, mission3 |-> FALSE,
                capabilities |-> {Mission}, connectors |-> {}, actions |-> {Read},
                receipts |-> {Probe("p1", at)}]
    BY <1>3, BaseIs
  <2>2. QED
    BY <1>6, <2>1
<1>9. x.at = at /\ y.at = time /\ time \in Int
  BY <1>5 DEF Evidence
<1>10. QED
  BY <1>7, <1>8, <1>9, SimpleIsJudged

LEMMA PublishedIsJudged ==
    ASSUME NEW p \in Published
    PROVE  Judged(p)
<1>1. PICK at \in -Policy .. MaxTime + Ahead + 1 :
          p \in Whole(at) \union Actions(at) \union Connectors(at) \union Sessions(at)
  BY DEF Published
<1>2. at \in Int
  BY PolicyIsPositive, DispatchAssumption
<1>3. QED
  BY <1>1, <1>2, WholeIsJudged, ActionsIsJudged, ConnectorsIsJudged, SessionsIsJudged

-----------------------------------------------------------------------------
(* What the Gateway holds was adopted, at some earlier time.               *)

HeldInv ==
    /\ clock \in 0 .. MaxTime
    /\ held # NoProjection =>
          held \in Published /\ \E now \in 0 .. clock : Adopted(held, now)

LEMMA HeldStep ==
    ASSUME HeldInv, [Next]_vars
    PROVE  HeldInv'
<1>1. ASSUME clock' = clock, held' = held \/ held' = NoProjection \/ held' \in Adoptable[clock]
      PROVE  HeldInv'
  <2>1. Adoptable[clock] = {p \in Published : Adopted(p, clock)}
    BY DEF Adoptable, HeldInv
  <2>2. clock \in 0 .. clock
    BY DispatchAssumption DEF HeldInv
  <2>3. QED
    BY <1>1, <2>1, <2>2 DEF HeldInv
<1>2. CASE Tick
  BY <1>2, DispatchAssumption DEF Tick, HeldInv
<1>3. CASE ReceiveRead \/ ReceiveMutation
  <2>1. PICK r : Receive(r)
    BY <1>3, Zenon DEF ReceiveRead, ReceiveMutation
  <2>2. clock' = clock /\ (held' = held \/ held' = NoProjection)
    BY <2>1 DEF Receive
  <2>3. QED
    BY <1>1, <2>2
<1>4. CASE RefreshEnds \/ RegistryRead \/ BodyArrives \/ Reply \/ UNCHANGED vars
  BY <1>1, <1>4 DEF RefreshEnds, RegistryRead, BodyArrives, Reply, vars
<1>5. QED
  BY <1>2, <1>3, <1>4 DEF Next

\* The Gateway holds only what it adopted, at a time that has been.
THEOREM HeldInvariance == Spec => []HeldInv
<1>1. Init => HeldInv
  BY DispatchAssumption DEF Init, HeldInv
<1>2. HeldInv /\ [Next]_vars => HeldInv'
  BY HeldStep
<1>3. QED
  BY <1>1, <1>2, PTL DEF Spec

LEMMA HeldIsJudged ==
    ASSUME HeldInv, held # NoProjection, ~ Expired(held)
    PROVE  /\ Judged(held)
           /\ \E now \in Int : Adopted(held, now)
           /\ clock \in Int /\ clock < held.at + Policy
<1>1. Judged(held)
  BY PublishedIsJudged DEF HeldInv
<1>2. held.at \in Int
  BY <1>1 DEF Judged
<1>3. QED
  BY <1>1, <1>2, PolicyIsPositive, DispatchAssumption DEF HeldInv, Expired

\* EvidenceIsBounded: the receipt that admits an action as live verified and
\* those that establish Mission 3 are never two policy ages old while they are
\* used, the verification of a connector shown never a second more.
THEOREM BoundedEvidence == Spec => []EvidenceIsBounded
<1>1. HeldInv => EvidenceIsBounded
  <2>1. SUFFICES ASSUME HeldInv, held # NoProjection, ~ Expired(held)
                 PROVE  /\ \A a \in held.actions :
                              Allowed(held, a.id) /\ a.class = "live_verified" =>
                                  \E r \in Cited(held, a.refs) : r.ok /\ clock - r.at < 2 * Policy
                        /\ \A c \in held.connectors :
                              c.operational # "unavailable" => clock - c.verifiedAt < 2 * Policy + Second
                        /\ held.mission3 =>
                              Mission3IsEstablished(held,
                                  {r \in held.receipts : r.ok /\ clock - r.at < 2 * Policy})
    BY DEF EvidenceIsBounded
  <2>2. PICK now \in Int : Adopted(held, now)
    BY <2>1, HeldIsJudged
  <2>3. Judged(held) /\ clock \in Int /\ clock < held.at + Policy
    BY <2>1, HeldIsJudged
  <2>4. QED
    BY <2>2, <2>3, ActionEvidence, ConnectorEvidence, Mission3Evidence
<1>2. QED
  BY <1>1, HeldInvariance, PTL

\* RefusedOffersAreExplained: where the browser's gate and the Gateway differ
\* on the held projection, it is by a record off its contract or an operator
\* that is not named.
THEOREM RefusalsAreExplained == Spec => []RefusedOffersAreExplained
<1>1. HeldInv => RefusedOffersAreExplained
  <2>1. SUFFICES ASSUME HeldInv, held # NoProjection, ~ Expired(held)
                 PROVE  RefusedOffersAreExplained
    BY DEF RefusedOffersAreExplained
  <2>2. PICK now \in Int : Adopted(held, now)
    BY <2>1, HeldIsJudged
  <2>3. Parsed(held)
    BY <2>2, AdoptedIsParsed
  <2>4. ASSUME NEW a \in held.actions
        PROVE  LET mount == [capability |-> a.capability, route |-> a.route]
                   shown == ModuleState(held, {a.capability}, {mount})
                   served == \/ Allowed(held, a.route)
                             \/ \E b \in Found(held, mount) : ~ OnContract(b)
                   access(s) == [hosted |-> TRUE, authenticated |-> TRUE, scopes |-> s.scopes]
                   needs == RequiredScope(a.route[2], a.route[1])
               IN  /\ ReadOffered(held, mount) => served
                   /\ shown \in {"live", "degraded"} => served
                   /\ \A s \in Session :
                        ControlOffered(held, mount, access(s), needs) =>
                            IF a.route[1] = "GET" THEN served /\ needs \in s.scopes
                                                  ELSE InteractionServed(s)
    <3> DEFINE mount == [capability |-> a.capability, route |-> a.route]
               served == \/ Allowed(held, a.route)
                         \/ \E b \in Found(held, mount) : ~ OnContract(b)
    <3>1. ReadOffered(held, mount) => served
      BY <2>2, OfferedIsAllowed
    <3>2. ModuleState(held, {a.capability}, {mount}) \in {"live", "degraded"} => served
      <4>1. PICK needed, required, mounts :
                needed = mount /\ required = {a.capability} /\ mounts = {needed}
        OBVIOUS
      <4>2. ModuleState(held, required, mounts) # "unavailable" => ReadOffered(held, needed)
        BY <4>1, ShownIsOffered
      <4>3. QED
        BY <3>1, <4>1, <4>2
    <3>3. ASSUME NEW s \in Session, NEW needs,
                 ControlOffered(held, mount,
                                [hosted |-> TRUE, authenticated |-> TRUE, scopes |-> s.scopes], needs)
          PROVE  IF a.route[1] = "GET" THEN ReadOffered(held, mount) /\ needs \in s.scopes
                                       ELSE "operations:read" \in s.scopes
      BY <3>3 DEF ControlOffered
    <3>4. QED
      BY <3>1, <3>2, <3>3, InteractionsAreServed
  <2>5. QED
    BY <2>3, <2>4 DEF RefusedOffersAreExplained
<1>2. QED
  BY <1>1, HeldInvariance, PTL

\* TypeOK, from both invariants.
THEOREM Typing == Spec => []TypeOK
<1>1. HeldInv /\ RequestInv => TypeOK
  <2>1. SUFFICES ASSUME HeldInv, RequestInv
                 PROVE  TypeOK
    OBVIOUS
  <2>2. held = NoProjection \/ (held.at \in Int /\ held.tenant = Tenant)
    BY <2>1, PublishedIsJudged DEF HeldInv, Judged, Adopted
  <2>3. RequestOK(req) /\ clock \in 0 .. MaxTime
    BY <2>1 DEF HeldInv, RequestInv
  <2>4. QED
    BY <2>2, <2>3 DEF RequestOK, TypedRequest, MutationOK, TypeOK
<1>2. QED
  BY <1>1, HeldInvariance, RequestInvariance, PTL
=============================================================================
