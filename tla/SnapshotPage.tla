----------------------------- MODULE SnapshotPage -----------------------------
(***************************************************************************)
(* The Runtime snapshot of the application shell: App's refresh calls the  *)
(* serialized loader of portal-client.ts, which reads one bootstrap from   *)
(* the Gateway within a bounded time, and merges what each call returns.   *)
(*                                                                         *)
(* A run ends in a turn of its own (an answer of the network or a timer),  *)
(* so every reaction to the run before it has gone by then.                *)
(***************************************************************************)
EXTENDS SerializedRefresh, FiniteSets

(* Two of the bootstrap's routes tell what the page must tell apart: the   *)
(* registry, which admits the others, and the health the shell reports.    *)
Route == {"registry", "health"}

(* The connection states of an envelope: of a success, of a failure that   *)
(* concerns trust, and of a failure of the connection.                     *)
ConnectionState == {"Healthy", "Unauthorized", "Unavailable"}
Trust == {"Unauthorized"}

VARIABLES
    result,  \* what the run that settled last resolved to
    page     \* the state of the App component

pageVars == <<vars, result, page>>

(* run is where an envelope comes from, 0 for none.                        *)
Envelope == [run : Run \cup {0}, state : ConnectionState \cup {"none"}]
NoEnvelope == [run |-> 0, state |-> "none"]

(* A result has the envelopes of a bootstrap, or none of them.             *)
Result ==
    [data : [Route -> Envelope], failures : SUBSET ConnectionState]

(* generation: the last refresh asked for (refreshGeneration).             *)
Page ==
    [snapshot : [Route -> Envelope], failures : SUBSET ConnectionState,
     loading : BOOLEAN, generation : Caller \cup {Pending}]

NoData == [r \in Route |-> NoEnvelope]

PageTypeOK ==
    /\ TypeOK
    /\ result \in Result
    /\ page \in Page

PageInit ==
    /\ Init
    /\ result = [data |-> NoData, failures |-> {}]
    /\ page = [snapshot |-> NoData, failures |-> {}, loading |-> TRUE,
               generation |-> Pending]

-----------------------------------------------------------------------------
(* What the Gateway may answer: for each route the state of its envelope,  *)
(* or "none" if it is missing; whether it says the registry is admitted,   *)
(* and which routes it says have failed.                                   *)
Body ==
    [state : [Route -> ConnectionState \cup {"none"}],
     registryAdmitted : BOOLEAN,
     failedRoutes : SUBSET Route]

(* asGatewayEnvelope: ok exactly with a state of success.                  *)
Ok(state) == state = "Healthy"

\* Variant: a bootstrap may lack routes.
BootstrapFitsInPart(body) ==
    LET ok == {r \in Route : Ok(body.state[r])}
    IN /\ body.registryAdmitted = ("registry" \in ok)
       /\ ~body.registryAdmitted => ok = {}
       /\ body.failedRoutes = Route \ ok

(* asRuntimeBootstrapEnvelope.                                             *)
BootstrapFits(body) ==
    LET ok == {r \in Route : Ok(body.state[r])}
    IN /\ \A r \in Route : body.state[r] # "none"
       /\ body.registryAdmitted = ("registry" \in ok)
       /\ ~body.registryAdmitted => ok = {}
       /\ body.failedRoutes = Route \ ok

(* loadSnapshot never rejects: a bootstrap that does not come in time or   *)
(* does not fit is a result without data and with one failure.             *)
Unusable(state) == [data |-> NoData, failures |-> {state}]

Loaded(k, body) ==
    IF BootstrapFits(body)
    THEN [data |-> [r \in Route |->
             IF body.state[r] = "none" THEN NoEnvelope
             ELSE [run |-> k, state |-> body.state[r]]],
          failures |-> {body.state[r] : r \in body.failedRoutes} \ {"none"}]
    ELSE Unusable("Unavailable")

(* setSnapshot((current) => ({ ...current, ...result.data })).             *)
Merged(snapshot, data) ==
    [r \in Route |-> IF data[r] = NoEnvelope THEN snapshot[r] ELSE data[r]]

-----------------------------------------------------------------------------
(* refresh, from a timer, an accepted session or a fleet change. *)
RefreshAsked(c) ==
    /\ Calls(c)
    /\ page' = [page EXCEPT !.generation = c, !.loading = TRUE]
    /\ UNCHANGED result

(* The run ends with what the Gateway answered, or because the request or  *)
(* its bounded time failed.                                                *)
SnapshotLoaded(k) ==
    /\ Quiet
    /\ RunSettles(k) /\ run'[k].ok
    /\ \/ \E body \in Body : result' = Loaded(k, body)
       \/ result' = Unusable("Unavailable")
    /\ UNCHANGED page

(* The call's reactions: merge, then the end of loading if no other        *)
(* refresh has been asked for since.                                       *)
RefreshReturns(c) ==
    /\ CallReturns(c)
    /\ page' = [page EXCEPT
         !.snapshot = Merged(@, result.data),
         !.failures = result.failures,
         !.loading = @ /\ page.generation # c]
    /\ UNCHANGED result

PageMicrotask ==
    \/ /\ \/ \E k \in Run : RunStarts(k) \/ ActiveCleared(k) \/ QueuedCleared(k)
          \/ QueuedLaunches
       /\ UNCHANGED <<result, page>>
    \/ \E c \in Caller : RefreshReturns(c)

PageNext ==
    \/ \E c \in Caller : RefreshAsked(c)
    \/ \E k \in Run : SnapshotLoaded(k)
    \/ PageMicrotask

-----------------------------------------------------------------------------
(* derivePortalConnectionState. *)
Shown ==
    LET states == page.failures \cup {page.snapshot[r].state : r \in Route}
    IN IF states \cap Trust # {} THEN "Unauthorized"
       ELSE IF page.snapshot = NoData
            THEN IF page.loading THEN "Connecting" ELSE "Unavailable"
       ELSE page.snapshot["health"].state

-----------------------------------------------------------------------------
(* The routes the page shows together come from one bootstrap, and neither *)
(* a route nor the connection is shown as a success beside a registry that *)
(* did not admit it: a partial answer or a failed refresh does not mix two *)
(* of them.                                                                *)
SnapshotIsOneBootstrap ==
    /\ \A q, r \in Route : page.snapshot[q].run = page.snapshot[r].run
    /\ (\E r \in Route : Ok(page.snapshot[r].state)) \/ Shown = "Healthy"
          => Ok(page.snapshot["registry"].state)

(* What is shown never comes from an older run than before, although each  *)
(* refresh merges when it returns, newest or not: the loader returns them  *)
(* in the order of their runs.                                             *)
SnapshotNeverGoesBack ==
    [][\A r \in Route : page'.snapshot[r].run >= page.snapshot[r].run]_pageVars
=============================================================================
