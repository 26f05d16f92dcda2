------------------------------- MODULE AppShell -------------------------------
(***************************************************************************)
(* The application shell: the snapshot of the Runtime it loads, the        *)
(* operational session it loads in the same serialized way, and two of its *)
(* workspaces.  They share no state, so no step of one can matter to       *)
(* another; a behaviour here follows one of them, whichever it is.         *)
(***************************************************************************)
EXTENDS SnapshotPage, ExecutivePanel, ConclaveRequests

VARIABLE workspace   \* what the behaviour follows

Workspace == {"snapshot", "session", "executive", "conclave"}

appVars == <<pageVars, panelVars, conclaveVars, workspace>>

AppInit ==
    /\ workspace \in Workspace
    /\ PageInit
    /\ PanelInit
    /\ ConclaveInit
    /\ workspace = "executive" \/ established

OfSnapshot ==
    workspace = "snapshot" /\ UNCHANGED <<panelVars, conclaveVars, workspace>>

(* The loader of operationalSessionClient.status, which may fail.          *)
OfSession ==
    /\ workspace = "session"
    /\ UNCHANGED <<result, page, panelVars, conclaveVars, workspace>>

OfPanel == workspace = "executive" /\ UNCHANGED <<pageVars, conclaveVars, workspace>>
OfConclave == workspace = "conclave" /\ UNCHANGED <<pageVars, panelVars, workspace>>

AppNext ==
    \/ PageNext /\ OfSnapshot
    \/ Next /\ OfSession
    \/ PanelNext /\ OfPanel
    \/ ConclaveNext /\ OfConclave

(* Microtasks run; runBoundedTask ends every run; the timer of the panel   *)
(* goes on while it is visible; the Gateway answers in bounded time, or    *)
(* the request fails.                                                      *)
AppFairness ==
    /\ WF_appVars(PageMicrotask /\ OfSnapshot)
    /\ \A k \in Run : WF_appVars(SnapshotLoaded(k) /\ OfSnapshot)
    /\ WF_appVars(Microtask /\ OfSession)
    /\ \A k \in Run : WF_appVars(RunSettles(k) /\ OfSession)
    /\ WF_appVars(SomeRevalidation /\ OfPanel)
    /\ \A c \in PanelCall : WF_appVars(PanelCallGoesOn(c) /\ OfPanel)

AppSpec == AppInit /\ [][AppNext]_appVars /\ AppFairness
=============================================================================
