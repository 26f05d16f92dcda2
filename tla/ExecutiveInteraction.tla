------------------------ MODULE ExecutiveInteraction ------------------------
(***************************************************************************)
(* Governed interactions as the browser runs them: a question or a spoken  *)
(* request goes to the Runtime under an interaction id, an uncertain       *)
(* outcome is reconciled by looking the same id up, an outcome that stays  *)
(* uncertain is remembered in sessionStorage, and an interaction behind an *)
(* approval gate is approved and resumed, or denied.                       *)
(*                                                                         *)
(* Three surfaces of one tab share the two slots of sessionStorage: the    *)
(* copilot panel (NexusCopilot), the voice workspace, and the workspaces   *)
(* that ask for an action (canonical-action-intent), which submit and keep *)
(* an id for a retry but leave the decision about an approval to the other *)
(* two.  Each has a lane per kind of asynchronous call; the lanes          *)
(* interleave at their awaits.  The Runtime is external: it runs an        *)
(* interaction id once, and its decisions about an approval are final.     *)
(***************************************************************************)
EXTENDS Naturals

CONSTANTS
    Surface,      \* the surfaces that are open
    Text,         \* what the operator may ask for
    NoText,       \* no text
    MaxId,        \* bound on the interaction ids drawn
    MaxCall,      \* bound on the calls the operator starts
    MaxReload     \* bound on the reloads of the page

ASSUME SurfaceAssumption == Surface \subseteq {"copilot", "voice_workspace", "action"}

ASSUME TextAssumption == NoText \notin Text

ASSUME BoundAssumption ==
    /\ MaxId \in Nat \ {0}
    /\ MaxCall \in Nat \ {0}
    /\ MaxReload \in Nat

VARIABLES
    lane,         \* the asynchronous call of each lane
    calls,        \* calls the operator has started
    card,         \* pendingApproval: the interaction each surface offers to decide
    draft,        \* the request each surface keeps for an exact retry
    busy,         \* the busy flag of each surface
    mount,        \* reloads so far; conversation ids are drawn at every load
    pointer,      \* sessionStorage: the pending approval
    reconcile,    \* sessionStorage: the interaction that awaits reconciliation
    nextId,       \* the next id newExecutiveInteractionId draws
    request,      \* the request submitted under each id, retained by the Runtime
    sent,         \* submissions of each id so far
    net,          \* requests on their way to the Runtime
    ledger,       \* the Runtime's record of each interaction
    approval,     \* the Runtime's record of the approval of each interaction
    unresolved,   \* history: submissions given up in doubt, not admitted since: the
                  \* id, the kind, and whether it was remembered or only thrown
    denied,       \* history: the interactions whose denial was shown as recorded
    shown         \* history: what the last step presented, or NotShown

page == <<card, draft, busy, mount>>
storage == <<pointer, reconcile>>
runtime == <<ledger, approval>>
ids == <<nextId, request, sent>>
history == <<unresolved, denied, shown>>
vars == <<lane, calls, page, storage, ids, net, runtime, history>>

Id == 1 .. MaxId
NoId == 0

Modality == {"text", "voice"}
Lane == Surface \X (Modality \cup {"decision", "recovery"})

(* The lane that submits what a surface keeps for a retry. *)
DraftLane(s) == <<s, IF s = "action" THEN "text" ELSE "voice">>

NotSubmitted == [surface |-> "none"]
Request ==
    [surface : Surface, conversation : 0 .. MaxReload, modality : Modality, text : Text]

Final == {"answered", "blocked", "executed"}
Terminal == Final \cup {"gate"}      \* "gate" is approval_required

Idle ==
    [at |-> "idle", id |-> NoId, text |-> NoText, doubt |-> FALSE, n |-> 0, seen |-> "nothing"]

Call ==
    [at : {"idle", "precheck", "post", "look", "recover", "approve", "deny"},
     id : Id \cup {NoId},
     text : Text \cup {NoText},
     doubt : BOOLEAN,        \* an earlier submission of this call is in doubt
     n : Nat,                \* which submission of the id it waits for
     seen : Terminal \cup {"nothing", "absent", "running", "unavailable"}]

NoDraft == [id |-> NoId, text |-> NoText]
NotShown == [lane |-> <<"none", "none">>, id |-> NoId, text |-> NoText, outcome |-> "none"]

(* A submission in doubt. *)
Doubt == Id \X {"submit", "resume"} \X {"remembered", "thrown"}

Message ==
    [kind : {"submit", "resume", "approve", "deny"}, id : Id, n : Nat]

TypeOK ==
    /\ lane \in [Lane -> Call]
    /\ calls \in 0 .. MaxCall
    /\ card \in [Surface -> Id \cup {NoId}]
    /\ draft \in [Surface -> [id : Id, text : Text] \cup {NoDraft}]
    /\ busy \in [Surface -> BOOLEAN]
    /\ mount \in 0 .. MaxReload
    /\ pointer \in Id \cup {NoId}
    /\ reconcile \in Id \cup {NoId}
    /\ nextId \in 1 .. MaxId + 1
    /\ request \in [Id -> Request \cup {NotSubmitted}]
    /\ sent \in [Id -> Nat]
    /\ net \subseteq Message
    /\ ledger \in [Id -> {"absent", "running", "resuming"} \cup Terminal]
    /\ approval \in [Id -> {"none", "pending", "approved", "consumed", "denied"}]
    /\ unresolved \subseteq Doubt
    /\ denied \subseteq Id
    /\ shown \in {NotShown} \cup
         [lane : Lane, id : Id, text : Text \cup {NoText}, outcome : Terminal]

Init ==
    /\ lane = [l \in Lane |-> Idle]
    /\ calls = 0
    /\ card = [s \in Surface |-> NoId]
    /\ draft = [s \in Surface |-> NoDraft]
    /\ busy = [s \in Surface |-> FALSE]
    /\ mount = 0
    /\ pointer = NoId
    /\ reconcile = NoId
    /\ nextId = 1
    /\ request = [i \in Id |-> NotSubmitted]
    /\ sent = [i \in Id |-> 0]
    /\ net = {}
    /\ ledger = [i \in Id |-> "absent"]
    /\ approval = [i \in Id |-> "none"]
    /\ unresolved = {}
    /\ denied = {}
    /\ shown = NotShown

----------------------------------------------------------------------------
(* Submission *)

(* The operator makes a surface start a call. *)
Start(l) ==
    /\ lane[l] = Idle
    /\ calls < MaxCall
    /\ calls' = calls + 1

(* What newExecutiveInteractionRequest builds for a call of lane l. *)
NewRequest(l, t) ==
    [surface |-> l[1], conversation |-> mount, modality |-> l[2], text |-> t]

Kind(l) == IF l[2] = "decision" THEN "resume" ELSE "submit"

Awaited(l) == [kind |-> Kind(l), id |-> lane[l].id, n |-> lane[l].n]

(* localNexusClient.executiveInteraction: one POST under the id as its key. *)
Post(l, i, t, doubt) ==
    /\ sent' = [sent EXCEPT ![i] = @ + 1]
    /\ net' = net \cup {[kind |-> Kind(l), id |-> i, n |-> sent'[i]]}
    /\ lane' = [lane EXCEPT ![l] =
         [Idle EXCEPT !.at = "post", !.id = i, !.text = t, !.doubt = doubt, !.n = sent'[i]]]

(* admitExecutiveInteraction: while an interaction awaits reconciliation the
   call looks that one up; otherwise it submits its own id. *)
Admission(l, i, t) ==
    IF reconcile # NoId
    THEN /\ lane' = [lane EXCEPT ![l] =
              [Idle EXCEPT !.at = "precheck", !.id = reconcile, !.text = t]]
         /\ UNCHANGED <<request, sent, net>>
    ELSE /\ Post(l, i, t, FALSE)
         /\ request' = [request EXCEPT ![i] = NewRequest(l, t)]

(* ask: the id is drawn only when the request is built. *)
Ask(s, t) ==
    /\ s = "copilot"
    /\ Start(<<s, "text">>)
    /\ ~busy[s]
    /\ nextId <= MaxId
    /\ Admission(<<s, "text">>, nextId, t)
    /\ nextId' = IF reconcile # NoId THEN nextId ELSE nextId + 1
    /\ busy' = [busy EXCEPT ![s] = TRUE]
    /\ shown' = NotShown
    /\ UNCHANGED <<card, draft, mount, storage, runtime, unresolved, denied>>

(* routeGovernedVoice, routeGovernedTranscript, admitCanonicalActionIntent: the id
   is drawn with the draft.  The copilot's microphone is enabled while a typed
   question is under way. *)
Speak(s, t) ==
    /\ Start(DraftLane(s))
    /\ s # "copilot" => ~busy[s]
    /\ nextId <= MaxId
    /\ Admission(DraftLane(s), nextId, t)
    /\ nextId' = nextId + 1
    /\ draft' = [draft EXCEPT ![s] = [id |-> nextId, text |-> t]]
    /\ busy' = [busy EXCEPT ![s] = TRUE]
    /\ shown' = NotShown
    /\ UNCHANGED <<card, mount, storage, runtime, unresolved, denied>>

(* "Retry exact governed Voice request", or the same action under its retry key:
   the draft keeps its id. *)
Retry(s) ==
    /\ Start(DraftLane(s))
    /\ ~busy[s]
    /\ draft[s] # NoDraft
    /\ Admission(DraftLane(s), draft[s].id, draft[s].text)
    /\ busy' = [busy EXCEPT ![s] = TRUE]
    /\ shown' = NotShown
    /\ UNCHANGED <<nextId, card, draft, mount, storage, runtime, unresolved, denied>>

----------------------------------------------------------------------------
(* The end of a call *)

Release(l) ==
    /\ lane' = [lane EXCEPT ![l] = Idle]
    /\ busy' = IF l[2] \in Modality THEN [busy EXCEPT ![l[1]] = FALSE] ELSE busy

(* An error the surface shows; a draft is kept for a retry. *)
Throw(l) ==
    /\ Release(l)
    /\ shown' = NotShown
    /\ UNCHANGED <<card, draft, mount, pointer>>

(* CanonicalInteractionIndeterminateError, with the id remembered. *)
GiveUp(l) ==
    /\ Throw(l)
    /\ reconcile' = lane[l].id
    /\ unresolved' = unresolved \cup {<<lane[l].id, Kind(l), "remembered">>}

(* presentAdmission with rememberPendingExecutiveApproval; only the pointer tells
   of an approval that an action waits for. *)
Present(l, outcome) ==
    LET s == l[1]
        i == lane[l].id
    IN  /\ Release(l)
        /\ pointer' = CASE outcome = "gate" -> i
                        [] outcome # "gate" /\ pointer = i -> NoId
                        [] OTHER -> pointer
        /\ card' = [card EXCEPT ![s] = IF outcome = "gate" /\ s # "action" THEN i ELSE NoId]
        /\ draft' = IF l = DraftLane(s) THEN [draft EXCEPT ![s] = NoDraft] ELSE draft
        /\ shown' = [lane |-> l, id |-> i, text |-> lane[l].text, outcome |-> outcome]
        /\ UNCHANGED mount

(* Variant: the slot is cleared only by hand. *)
StaysBlocked(i) == reconcile

(* Variant: any result that is admitted clears the slot. *)
UnblocksAny(i) == NoId

(* clearPendingInteractionReconciliation *)
Unblocked(i) == IF reconcile = i THEN NoId ELSE reconcile

(* A result passed projectExecutiveInteraction.  A continuation that comes back
   to the approval gate is an error, after the slot has been cleared. *)
Admit(l, outcome) ==
    LET i == lane[l].id
        settled == IF outcome = "gate" THEN {"submit"} ELSE {"submit", "resume"}
    IN  /\ reconcile' = Unblocked(i)
        /\ unresolved' = unresolved \ ({i} \X settled \X {"remembered", "thrown"})
        /\ UNCHANGED <<net, ids, runtime, denied, calls>>
        /\ IF l[2] = "decision" /\ outcome = "gate" THEN Throw(l) ELSE Present(l, outcome)

----------------------------------------------------------------------------
(* submitExecutiveInteractionWithReconciliation *)

(* What a read of the Runtime's record can say.  While a continuation runs, the
   latest response may still be the one of the gate. *)
Readings(i) ==
    CASE ledger[i] = "resuming" -> {"running", "gate"}
      [] OTHER -> {ledger[i]}

ReplyAdmitted(l) ==
    /\ lane[l].at = "post"
    /\ Awaited(l) \notin net
    /\ \E outcome \in Readings(lane[l].id) \cap Terminal : Admit(l, outcome)

(* A response that fails the projection is looked up; nothing is sent again. *)
ReplyMalformed(l) ==
    /\ lane[l].at = "post"
    /\ Awaited(l) \notin net
    /\ Readings(lane[l].id) \cap Terminal # {}
    /\ lane' = [lane EXCEPT ![l].at = "look", ![l].doubt = TRUE]
    /\ shown' = NotShown
    /\ UNCHANGED <<page, storage, ids, net, runtime, unresolved, denied, calls>>

(* No response, or one that ambiguousInteractionFailure cannot rule out: the
   request may have been lost, or be late, or have been served. *)
ReplyAmbiguous(l) ==
    /\ lane[l].at = "post"
    /\ net' \in {net, net \ {Awaited(l)}}
    /\ lane' = [lane EXCEPT ![l].at = "look"]
    /\ shown' = NotShown
    /\ UNCHANGED <<page, storage, ids, runtime, unresolved, denied, calls>>

(* A definite refusal (400, 401, 403, 404, 422): this submission has no effect,
   and the error is thrown as it is. *)
ReplyRefused(l) ==
    /\ lane[l].at = "post"
    /\ Awaited(l) \in net
    /\ net' = net \ {Awaited(l)}
    /\ unresolved' =
         IF lane[l].doubt
         THEN unresolved \cup {<<lane[l].id, Kind(l), "thrown">>}
         ELSE unresolved
    /\ Throw(l)
    /\ UNCHANGED <<reconcile, ids, runtime, denied, calls>>

(* executiveInteractionLookup: the record is read now and acted on later. *)
LookUp(l) ==
    /\ lane[l].at \in {"precheck", "look", "recover"}
    /\ lane[l].seen = "nothing"
    /\ \E r \in Readings(lane[l].id) \cup {"unavailable"} :
         lane' = [lane EXCEPT ![l].seen = r]
    /\ shown' = NotShown
    /\ UNCHANGED <<page, storage, ids, net, runtime, unresolved, denied, calls>>

LookFinds(l) ==
    /\ lane[l].at = "look"
    /\ lane[l].seen \in Terminal
    /\ Admit(l, lane[l].seen)

(* A verified "not found" permits one more submission of the same id. *)
Resubmits(l) == lane[l].seen = "absent" /\ ~lane[l].doubt

LookMisses(l) ==
    /\ lane[l].at = "look"
    /\ Resubmits(l)
    /\ Post(l, lane[l].id, lane[l].text, TRUE)
    /\ shown' = NotShown
    /\ UNCHANGED <<page, storage, nextId, request, runtime, unresolved, denied, calls>>

(* Variant: a retained interaction that still runs is waited for. *)
UnusableUnlessRunning(l) == lane[l].seen \in {"absent", "unavailable"}

Unusable(l) == lane[l].seen \in {"absent", "running", "unavailable"}

LookGivesUp(l) ==
    /\ lane[l].at = "look"
    /\ Unusable(l)
    /\ ~Resubmits(l)
    /\ GiveUp(l)
    /\ UNCHANGED <<net, ids, runtime, denied, calls>>

(* Variant: what was remembered is admitted to any request. *)
ReconcilesAnyRequest(l) == lane[l].seen \in Terminal

(* reconcilePendingInteractionBeforeSubmission admits the remembered interaction
   to the same request of the same conversation only, and blocks any other. *)
Reconciles(l) ==
    /\ lane[l].seen \in Terminal
    /\ request[lane[l].id] = NewRequest(l, lane[l].text)

PrecheckAdmits(l) ==
    /\ lane[l].at = "precheck"
    /\ Reconciles(l)
    /\ Admit(l, lane[l].seen)

PrecheckBlocks(l) ==
    /\ lane[l].at = "precheck"
    /\ lane[l].seen # "nothing"
    /\ ~Reconciles(l)
    /\ Throw(l)
    /\ UNCHANGED <<reconcile, ids, net, runtime, unresolved, denied, calls>>

----------------------------------------------------------------------------
(* Approval *)

(* approvePendingIntent, denyPendingIntent *)
Decide(s, verdict) ==
    LET l == <<s, "decision">>
        i == card[s]
    IN  /\ Start(l)
        /\ i # NoId
        /\ lane' = [lane EXCEPT ![l] = [Idle EXCEPT !.at = verdict, !.id = i]]
        /\ net' = net \cup {[kind |-> verdict, id |-> i, n |-> 0]}
        /\ shown' = NotShown
        /\ UNCHANGED <<page, storage, ids, runtime, unresolved, denied>>

Decision(l) == [kind |-> lane[l].at, id |-> lane[l].id, n |-> 0]

DecisionFails(l) ==
    /\ lane[l].at \in {"approve", "deny"}
    /\ net' \in {net, net \ {Decision(l)}}
    /\ Throw(l)
    /\ UNCHANGED <<reconcile, ids, runtime, unresolved, denied, calls>>

(* Variant: any answer to the approval counts. *)
ApprovalAnswers(i) == approval[i] # "pending"

(* What admitApprovedExecutiveInteraction asks of the approval response. *)
ApprovalHolds(i) == approval[i] \in {"approved", "consumed"}

(* The continuation: the exact stored request again, with the approval id. *)
ApprovalAnswered(l) ==
    /\ lane[l].at = "approve"
    /\ Decision(l) \notin net
    /\ IF ApprovalHolds(lane[l].id)
       THEN /\ Post(l, lane[l].id, NoText, FALSE)
            /\ shown' = NotShown
            /\ UNCHANGED <<page, pointer, nextId, request>>
       ELSE Throw(l) /\ UNCHANGED <<net, ids>>
    /\ UNCHANGED <<reconcile, runtime, unresolved, denied, calls>>

(* Variant: any answer to the denial counts. *)
DenialAnswers(i) == approval[i] # "pending"

(* What validateExecutiveInteractionDenial asks of the denial response. *)
DenialHolds(i) == approval[i] = "denied"

DenialAnswered(l) ==
    LET i == lane[l].id
    IN  /\ lane[l].at = "deny"
        /\ Decision(l) \notin net
        /\ IF DenialHolds(i)
           THEN /\ Release(l)
                /\ pointer' = IF pointer = i THEN NoId ELSE pointer
                /\ card' = [card EXCEPT ![l[1]] = NoId]
                /\ denied' = denied \cup {i}
                /\ shown' = NotShown
                /\ UNCHANGED <<draft, mount>>
           ELSE Throw(l) /\ UNCHANGED denied
        /\ UNCHANGED <<reconcile, ids, net, runtime, unresolved, calls>>

(* recoverPendingExecutiveApproval, after the page has loaded. *)
Recover(l) ==
    LET i == lane[l].id
        r == lane[l].seen
    IN  /\ lane[l].at = "recover"
        /\ r # "nothing"
        /\ Release(l)
        /\ card' = IF r = "gate" THEN [card EXCEPT ![l[1]] = i] ELSE card
        /\ pointer' = IF r \notin {"gate", "unavailable"} /\ pointer = i THEN NoId ELSE pointer
        /\ shown' = NotShown
        /\ UNCHANGED <<draft, mount, reconcile, ids, net, runtime, unresolved, denied, calls>>

(* A reload forgets everything but sessionStorage. *)
Reload ==
    /\ mount < MaxReload
    /\ mount' = mount + 1
    /\ lane' = [l \in Lane |->
         IF l[2] = "recovery" /\ l[1] # "action" /\ pointer # NoId
         THEN [Idle EXCEPT !.at = "recover", !.id = pointer]
         ELSE Idle]
    /\ card' = [s \in Surface |-> NoId]
    /\ draft' = [s \in Surface |-> NoDraft]
    /\ busy' = [s \in Surface |-> FALSE]
    /\ shown' = NotShown
    /\ UNCHANGED <<storage, ids, net, runtime, unresolved, denied, calls>>

----------------------------------------------------------------------------
(* The Runtime (external): an id runs once, a decision is final. *)

Serve(m) ==
    LET i == m.id
    IN  CASE m.kind = "submit" /\ ledger[i] = "absent" ->
               ledger' = [ledger EXCEPT ![i] = "running"] /\ UNCHANGED approval
          [] m.kind = "resume" /\ ledger[i] = "gate" /\ approval[i] = "approved" ->
               /\ ledger' = [ledger EXCEPT ![i] = "resuming"]
               /\ approval' = [approval EXCEPT ![i] = "consumed"]
          [] m.kind = "approve" /\ approval[i] = "pending" ->
               approval' = [approval EXCEPT ![i] = "approved"] /\ UNCHANGED ledger
          [] m.kind = "deny" /\ approval[i] = "pending" ->
               /\ ledger' = [ledger EXCEPT ![i] = "blocked"]
               /\ approval' = [approval EXCEPT ![i] = "denied"]
          [] OTHER -> UNCHANGED runtime

RuntimeReceives(m) ==
    /\ Serve(m)
    /\ net' = net \ {m}
    /\ shown' = NotShown
    /\ UNCHANGED <<lane, page, storage, ids, unresolved, denied, calls>>

RuntimeFinishes(i) ==
    /\ \/ /\ ledger[i] = "running"
          /\ \E outcome \in Final :
               ledger' = [ledger EXCEPT ![i] = outcome] /\ UNCHANGED approval
       \/ /\ ledger[i] = "running"
          /\ ledger' = [ledger EXCEPT ![i] = "gate"]
          /\ approval' = [approval EXCEPT ![i] = "pending"]
       \/ /\ ledger[i] = "resuming"
          /\ \E outcome \in {"blocked", "executed"} :
               ledger' = [ledger EXCEPT ![i] = outcome] /\ UNCHANGED approval
    /\ shown' = NotShown
    /\ UNCHANGED <<lane, page, storage, ids, net, unresolved, denied, calls>>

----------------------------------------------------------------------------
(* The steps that a response, a failure or a timeout makes a call take. *)
Continue(l) ==
    \/ ReplyAdmitted(l) \/ ReplyMalformed(l) \/ ReplyAmbiguous(l) \/ ReplyRefused(l)
    \/ LookUp(l) \/ LookFinds(l) \/ LookMisses(l) \/ LookGivesUp(l)
    \/ PrecheckAdmits(l) \/ PrecheckBlocks(l)
    \/ DecisionFails(l) \/ ApprovalAnswered(l) \/ DenialAnswered(l)
    \/ Recover(l)

Next ==
    \/ \E s \in Surface, t \in Text : Ask(s, t) \/ Speak(s, t)
    \/ \E s \in Surface : Retry(s)
    \/ \E s \in Surface, verdict \in {"approve", "deny"} : Decide(s, verdict)
    \/ \E l \in Lane : Continue(l)
    \/ Reload
    \/ \E m \in net : RuntimeReceives(m)
    \/ \E i \in Id : RuntimeFinishes(i)

(* A lookup ends by the client's read timeout and a POST by the Gateway's, so a
   call that waits goes on at some time. *)
Fairness == \A l \in Lane : WF_vars(Continue(l))

Spec == Init /\ [][Next]_vars /\ Fairness

----------------------------------------------------------------------------
(* Properties *)

(* Once a surface has shown that the Runtime recorded a denial, the interaction
   is not executed: not by a continuation that the other surface sends, nor by
   an approval that is still on its way.  (denyPendingIntent) *)
DenialIsFinal ==
    \A i \in denied : ledger[i] \notin {"resuming", "executed"}

(* A continuation is sent only for an approval that the Runtime has recorded as
   granted, whatever happened since its card was shown.
   (admitApprovedExecutiveInteraction) *)
ContinuationsAreApproved ==
    \A m \in net : m.kind = "resume" => approval[m.id] \in {"approved", "consumed"}

(* What a lane presents answers what the operator asked in it, in this very
   conversation, also when an older interaction was reconciled for it; and an
   outcome shown as final is the one the Runtime retains.
   (reconcilePendingInteractionBeforeSubmission, lookupUncertainInteraction) *)
AnswersFitTheQuestion ==
    shown # NotShown =>
        /\ shown.lane[2] \in Modality =>
               request[shown.id] = NewRequest(shown.lane, shown.text)
        /\ shown.outcome \in Final => ledger[shown.id] = shown.outcome

(* The interaction that blocks new requests was given up in doubt and has not been
   admitted since: a result that has been admitted blocks nobody.
   (clearPendingInteractionReconciliation) *)
BlockIsInDoubt ==
    reconcile # NoId =>
        \E kind \in {"submit", "resume"} : <<reconcile, kind, "remembered">> \in unresolved

(* Lane l ends with a result of the interaction that blocks. *)
LiftedByOwnResult(l) ==
    /\ reconcile' = NoId /\ lane[l].id = reconcile
    /\ l[2] = "decision" \/ request[reconcile].conversation = mount
    /\ ledger[reconcile] \in Terminal \cup {"resuming"}

(* Lane l gives up another interaction in doubt, which takes the slot. *)
Overwritten(l) ==
    /\ reconcile' # NoId /\ lane[l].id = reconcile'
    /\ <<reconcile', Kind(l), "remembered">> \in unresolved'
    /\ unresolved \subseteq unresolved'

(* What awaits reconciliation leaves the slot in two ways only, whatever becomes of
   the calls beside it.  A call of its own ends with a result that the Runtime has
   reached; asking again after a reload is another conversation, and then only the
   decision about its approval does this.  Or another call that was let through, one
   under way when the block was set or the continuation of an approval, gives up its
   own interaction, which then blocks in its place; the one it displaces is as much
   in doubt as before.
   (clearPendingInteractionReconciliation, rememberPendingInteractionReconciliation) *)
BlockEndsByResultOrOverwrite ==
    [][reconcile # NoId /\ reconcile' # reconcile =>
          \E l \in Lane :
              /\ lane[l] # Idle /\ lane'[l] = Idle
              /\ LiftedByOwnResult(l) \/ Overwritten(l)]_vars

(* Every call ends: there is one more submission after a lookup that finds
   nothing, and no further.  (submitExecutiveInteractionWithReconciliation) *)
CallsEnd == \A l \in Lane : lane[l] # Idle ~> lane[l] = Idle

(* A request goes out under an id that was not sent before. *)
NewIdSent == \E i \in Id : sent[i] = 0 /\ sent'[i] > 0

(* "An unresolved outcome blocks every new ID" (runtime-voice-admission.ts:669):
   no request goes out under a new id while another one was given up in doubt.
   Does not hold: when the resubmission is refused, the error is thrown and the
   first submission, which may still be served, is not remembered. *)
UnresolvedBlocksNewIds == [][NewIdSent => unresolved = {}]_vars

=============================================================================
