---------------------------- MODULE ExecutivePanel ----------------------------
(***************************************************************************)
(* The panel of the Registered Executive session in the browser.  It asks  *)
(* for the session's status on a timer, on focus and when it becomes       *)
(* visible, and offers login and revocation; their answers are applied in  *)
(* the order they arrive.  The session itself is module ExecutiveSession;  *)
(* here it is what a request of this browser would find.                   *)
(***************************************************************************)
CONSTANT PanelCall     \* bound on the requests under way together

VARIABLES
    configured,   \* the deployment has Registered Executive sessions
    established,  \* the browser's session is active
    visible,      \* document.visibilityState
    panel,        \* the state of the component
    panelCall     \* its requests

panelVars == <<configured, established, visible, panel, panelCall>>

Answer == {"active", "inactive", "disabled", "failed"}

(* cookie: a session was established when the request was sent.            *)
PanelCallState ==
    [kind : {"none", "status", "login", "revoke"}, cookie : BOOLEAN,
     answer : Answer \cup {"none"}]

NoPanelCall == [kind |-> "none", cookie |-> FALSE, answer |-> "none"]

Availability == {"checking", "enabled", "disabled", "unavailable"}

PanelTypeOK ==
    /\ {configured, established, visible} \subseteq BOOLEAN
    /\ panel \in [active : BOOLEAN, availability : Availability, busy : BOOLEAN]
    /\ panelCall \in [PanelCall -> PanelCallState]

PanelInit ==
    /\ configured \in BOOLEAN
    /\ established \in IF configured THEN BOOLEAN ELSE {FALSE}
    /\ visible = TRUE
    /\ panel = [active |-> FALSE, availability |-> "checking", busy |-> FALSE]
    /\ panelCall = [c \in PanelCall |-> NoPanelCall]

-----------------------------------------------------------------------------
Requests(c, kind) ==
    /\ panelCall[c] = NoPanelCall
    /\ panelCall' = [panelCall EXCEPT ![c] =
                        [kind |-> kind, cookie |-> established, answer |-> "none"]]
    /\ panel' = [panel EXCEPT !.busy = TRUE]
    /\ UNCHANGED <<configured, established, visible>>

(* revalidate, whatever is under way. *)
Revalidates(c) == visible /\ Requests(c, "status")

Offered(kind) ==
    CASE kind = "status" -> TRUE
      [] kind = "login"  -> ~panel.active /\ panel.availability # "disabled"
      [] kind = "revoke" -> panel.active

Pressed(c, kind) == ~panel.busy /\ Offered(kind) /\ Requests(c, kind)

Gives(c, answer) == panelCall' = [panelCall EXCEPT ![c].answer = answer]

(* The Gateway, with its Runtime, answers. A revocation that fails after   *)
(* its checks ends the session of this browser nevertheless.               *)
SessionAnswers(c) ==
    /\ panelCall[c].kind # "none" /\ panelCall[c].answer = "none"
    /\ LET held == panelCall[c].cookie /\ established
       IN \/ Gives(c, "failed") /\ UNCHANGED established
          \/ ~configured /\ Gives(c, "disabled") /\ UNCHANGED established
          \/ /\ configured /\ panelCall[c].kind = "status"
             /\ Gives(c, IF held THEN "active" ELSE "inactive")
             /\ UNCHANGED established
          \/ /\ configured /\ panelCall[c].kind = "login"
             /\ Gives(c, "active")
             /\ established' = TRUE
          \/ /\ configured /\ panelCall[c].kind = "revoke" /\ held
             /\ \E answer \in {"inactive", "failed"} : Gives(c, answer)
             /\ established' = FALSE
    /\ UNCHANGED <<configured, visible, panel>>

(* accept *)
Accepted(answer) ==
    [active |-> answer = "active", availability |-> "enabled", busy |-> FALSE]

\* Variant: a failure only adds its message.
RejectedInPlace(answer) ==
    [panel EXCEPT !.busy = FALSE,
       !.availability = IF answer = "disabled" THEN "disabled" ELSE "unavailable"]

(* reject *)
Rejected(answer) ==
    [active |-> FALSE, busy |-> FALSE,
     availability |-> IF answer = "disabled" THEN "disabled" ELSE "unavailable"]

(* The answer arrives, or is lost and the request fails. Either way the    *)
(* call clears busy, also when another one is under way.                   *)
AnswerArrives(c) ==
    /\ panelCall[c].answer # "none"
    /\ panelCall' = [panelCall EXCEPT ![c] = NoPanelCall]
    /\ \/ /\ panelCall[c].answer \in {"active", "inactive"}
          /\ panel' = Accepted(panelCall[c].answer)
       \/ panel' = Rejected(panelCall[c].answer)
    /\ UNCHANGED <<configured, established, visible>>

(* It expires, is revoked elsewhere, or the Runtime ends it.               *)
SessionEnds ==
    /\ established
    /\ established' = FALSE
    /\ UNCHANGED <<configured, visible, panel, panelCall>>

VisibilityChanges ==
    /\ visible' = ~visible
    /\ UNCHANGED <<configured, established, panel, panelCall>>

PanelCallGoesOn(c) == SessionAnswers(c) \/ AnswerArrives(c)

SomeRevalidation == \E c \in PanelCall : Revalidates(c)

PanelNext ==
    \/ SomeRevalidation
    \/ \E c \in PanelCall :
          \/ \E kind \in {"status", "login", "revoke"} : Pressed(c, kind)
          \/ PanelCallGoesOn(c)
    \/ SessionEnds \/ VisibilityChanges

-----------------------------------------------------------------------------
(* A session that has ended for good is not shown as active for good, with *)
(* answers that overtake each other, get lost, or fail at the Gateway: the *)
(* panel ends up without it as long as it is looked at.                    *)
PanelCatchesUp ==
    <>[](~established /\ visible) => <>[](~panel.active)
=============================================================================
