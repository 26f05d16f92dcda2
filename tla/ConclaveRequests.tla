--------------------------- MODULE ConclaveRequests ---------------------------
(***************************************************************************)
(* What the Conclave workspace of the browser submits: investigations to   *)
(* start or restart, runs of a Review, and Evidence for it.  Each request  *)
(* goes to the Runtime as an interaction whose id is kept under a retry    *)
(* key until the Runtime has admitted it, so that a request whose answer   *)
(* was lost is sent again under the same id.  How one submission is        *)
(* reconciled with the Runtime is module ExecutiveInteraction.             *)
(***************************************************************************)
EXTENDS Naturals, FiniteSets

CONSTANTS
    Proposal,      \* what the operator may type as a question
    Evidence,      \* and as Evidence
    Review,        \* the current Reviews; "legacy" is a historical one
    NoChoice,      \* nothing typed, selected or kept
    MaxVersion,    \* bound on the versions of a Review
    MaxIdentity    \* bound on the UUIDs drawn

ASSUME ConclaveAssumption ==
    Proposal # {} /\ MaxVersion \in Nat \ {0} /\ MaxIdentity \in Nat

VARIABLES
    selected,        \* the workspace selected
    known,           \* the Reviews as the directory last told them
    pendingCreate,   \* the creation kept for a retry
    pendingEvidence, \* the Evidence kept for a retry
    retained,        \* legacyRetryIds: retry key and interaction id
    drawn,           \* UUIDs drawn so far
    submission,      \* the submission under way; busy unless idle
    actual,          \* the Reviews as the Runtime has them
    open             \* history: submissions not admitted since, nor given up
                     \* for another request of their kind

conclaveVars == <<selected, known, pendingCreate, pendingEvidence, retained, drawn,
                  submission, actual, open>>

Identity == 1 .. MaxIdentity
Version == 1 .. MaxVersion

(* The proposal that the legacy Review was made for.                       *)
LegacyProposal == CHOOSE p \in Proposal : TRUE

CreateRequest ==
    [kind : {"create"}, proposal : Proposal, predecessor : {"legacy", NoChoice}]
EvidenceRequest == [kind : {"evidence"}, review : Review, evidence : Evidence]
RunRequest == [kind : {"run"}, review : Review, version : Version]
ConclaveRequest == CreateRequest \cup EvidenceRequest \cup RunRequest

(* A retry key holds the UUID drawn for it, or the version to run.         *)
RetryKey == {"create", "evidence"} \X Identity \cup {"run"} \X Review \X Version

Keyed(requests) == [request : requests, key : RetryKey]
Kept(requests) == Keyed(requests) \cup {NoChoice}
ASSUME NoChoiceAssumption == NoChoice \notin Keyed(ConclaveRequest)

Retained == [key : RetryKey, id : Identity]
ReviewState == [version : Version, completed : BOOLEAN]

Submission ==
    [request : ConclaveRequest, key : RetryKey, at : {"sent", "refreshing"}]

ConclaveTypeOK ==
    /\ selected \in Review \cup {"legacy", NoChoice}
    /\ known \in [Review -> ReviewState]
    /\ pendingCreate \in Kept(CreateRequest)
    /\ pendingEvidence \in Kept(EvidenceRequest)
    /\ retained \subseteq Retained
    /\ drawn \in 0 .. MaxIdentity
    /\ submission \in Submission \cup {NoChoice}
    /\ actual \in [Review -> ReviewState]
    /\ open \subseteq [request : ConclaveRequest, id : Identity]

FirstVersion == [r \in Review |-> [version |-> 1, completed |-> FALSE]]

ConclaveInit ==
    /\ selected = NoChoice
    /\ known = FirstVersion /\ actual = FirstVersion
    /\ pendingCreate = NoChoice /\ pendingEvidence = NoChoice
    /\ retained = {}
    /\ drawn = 0
    /\ submission = NoChoice
    /\ open = {}

-----------------------------------------------------------------------------
Busy == submission # NoChoice

(* resolvePendingConclaveCreate and its counterpart for Evidence: what is  *)
(* kept for the same request, or the request with a key of its own.        *)
Resolved(pending, request) ==
    IF pending # NoChoice /\ pending.request = request THEN pending
    ELSE [request |-> request, key |-> <<request.kind, drawn + 1>>]

\* Variant: the key names the Review and not its version.
RunKeyOfReview(r) == <<"run", r, 1>>

(* stableConclaveRunIdempotencyKey *)
RunKey(r) == <<"run", r, known[r].version>>

HeldFor(key) == {kept \in retained : kept.key = key}

(* canonicalInteractionId; uuid is the next one.                           *)
IdFor(key, uuid) ==
    IF HeldFor(key) # {} THEN (CHOOSE kept \in HeldFor(key) : TRUE).id ELSE uuid

(* A request takes the place of another of its kind in the workspace; runs *)
(* of different versions do not.                                           *)
Supersedes(request, other) ==
    request.kind # "run" /\ other.kind = request.kind /\ other # request

(* admitCanonicalActionIntent; the first UUIDs are those of the key.       *)
Submits(request, key, keyDrawn) ==
    LET used == drawn + keyDrawn
        id == IdFor(key, used + 1)
    IN /\ drawn' = IF id = used + 1 THEN used + 1 ELSE used
       /\ drawn' <= MaxIdentity
       /\ retained' = retained \cup {[key |-> key, id |-> id]}
       /\ submission' = [request |-> request, key |-> key, at |-> "sent"]
       /\ open' = {o \in open : ~Supersedes(request, o.request)}
                     \cup {[request |-> request, id |-> id]}

(* startInvestigation, with what is typed. *)
Starts(typed) ==
    LET restart == selected = "legacy"
        proposal == CASE restart -> LegacyProposal
                      [] ~restart /\ typed # NoChoice -> typed
                      [] OTHER -> pendingCreate.request.proposal
        kept == Resolved(pendingCreate,
                  [kind |-> "create", proposal |-> proposal,
                   predecessor |-> IF restart THEN "legacy" ELSE NoChoice])
    IN /\ ~Busy
       /\ \/ restart
          \/ selected = NoChoice /\ (typed # NoChoice \/ pendingCreate # NoChoice)
       /\ pendingCreate' = kept
       /\ Submits(kept.request, kept.key, IF kept = pendingCreate THEN 0 ELSE 1)
       /\ UNCHANGED <<selected, known, pendingEvidence, actual>>

(* retryInvestigation *)
Runs ==
    /\ ~Busy
    /\ selected \in Review /\ ~known[selected].completed
    /\ Submits([kind |-> "run", review |-> selected, version |-> known[selected].version],
               RunKey(selected), 0)
    /\ UNCHANGED <<selected, known, pendingCreate, pendingEvidence, actual>>

(* The fields of the Evidence form are emptied when it is kept, and typing *)
(* in any of them gives up what is kept, also while it is under way.       *)
EvidenceTyped ==
    /\ pendingEvidence # NoChoice
    /\ pendingEvidence' = NoChoice
    /\ open' = {o \in open : o.request # pendingEvidence.request}
    /\ UNCHANGED <<selected, known, pendingCreate, retained, drawn, submission, actual>>

(* admitEvidence, of what is kept for the Review, *)
RetriesEvidence ==
    /\ ~Busy
    /\ pendingEvidence # NoChoice /\ pendingEvidence.request.review = selected
    /\ Submits(pendingEvidence.request, pendingEvidence.key, 0)
    /\ UNCHANGED <<selected, known, pendingCreate, pendingEvidence, actual>>

(* or of what is typed. *)
AdmitsEvidence(typed) ==
    LET kept == Resolved(NoChoice,
                  [kind |-> "evidence", review |-> selected, evidence |-> typed])
    IN /\ ~Busy
       /\ selected \in Review
       /\ pendingEvidence = NoChoice
       /\ pendingEvidence' = kept
       /\ Submits(kept.request, kept.key, 1)
       /\ UNCHANGED <<selected, known, pendingCreate, actual>>

(* The interaction is admitted: nothing is kept for a retry, and the       *)
(* directory is read.                                                      *)
SubmissionAdmitted ==
    /\ Busy /\ submission.at = "sent"
    /\ retained' = retained \ HeldFor(submission.key)
    /\ pendingCreate' = IF submission.request.kind = "create" THEN NoChoice ELSE pendingCreate
    /\ pendingEvidence' =
         IF submission.request.kind = "evidence" THEN NoChoice ELSE pendingEvidence
    /\ submission' = [submission EXCEPT !.at = "refreshing"]
    /\ open' = {o \in open : o.request # submission.request}
    /\ UNCHANGED <<selected, known, drawn, actual>>

(* It is refused, or its outcome is not known: the workspace shows the     *)
(* error and keeps the request.                                            *)
SubmissionFails ==
    /\ Busy /\ submission.at = "sent"
    /\ submission' = NoChoice
    /\ UNCHANGED <<selected, known, pendingCreate, pendingEvidence, retained, drawn, actual,
                   open>>

(* refreshDirectory, which does not throw: when nothing is selected, the   *)
(* default workspace of the directory is, if it has one.                   *)
DirectoryRead ==
    /\ Busy /\ submission.at = "refreshing"
    /\ \/ UNCHANGED <<known, selected>>
       \/ /\ known' = actual
          /\ selected' \in IF selected = NoChoice THEN Review \cup {"legacy", NoChoice}
                           ELSE {selected}
    /\ submission' = NoChoice
    /\ UNCHANGED <<pendingCreate, pendingEvidence, retained, drawn, actual, open>>

(* refreshWorkspace *)
Refreshes ==
    /\ ~Busy
    /\ selected \in Review
    /\ known' = [known EXCEPT ![selected] = actual[selected]]
    /\ UNCHANGED <<selected, pendingCreate, pendingEvidence, retained, drawn, submission,
                   actual, open>>

Selects(r) ==
    /\ selected' = r
    /\ UNCHANGED <<known, pendingCreate, pendingEvidence, retained, drawn, submission, actual,
                   open>>

(* A run, Evidence or another client changes a Review.                     *)
ReviewChanges(r) ==
    /\ actual[r].version < MaxVersion /\ ~actual[r].completed
    /\ \E completed \in BOOLEAN :
          actual' = [actual EXCEPT ![r] =
                       [version |-> @.version + 1, completed |-> completed]]
    /\ UNCHANGED <<selected, known, pendingCreate, pendingEvidence, retained, drawn,
                   submission, open>>

ConclaveNext ==
    \/ \E typed \in Proposal \cup {NoChoice} : Starts(typed)
    \/ Runs
    \/ \E typed \in Evidence : AdmitsEvidence(typed)
    \/ EvidenceTyped \/ RetriesEvidence
    \/ SubmissionAdmitted \/ SubmissionFails \/ DirectoryRead \/ Refreshes
    \/ \E r \in Review \cup {"legacy", NoChoice} : Selects(r)
    \/ \E r \in Review : ReviewChanges(r)

-----------------------------------------------------------------------------
(* A request that is sent again goes out under the id it had, so that the  *)
(* Runtime cannot take it for a second one, and no id goes out with two    *)
(* different requests: not when other requests came in between, the        *)
(* selection moved, or the Review has got a new version since.             *)
OneIdPerRequest ==
    \A o, p \in open : o.request = p.request <=> o.id = p.id
=============================================================================
