---------------------- MODULE ExecutiveInteractionProofs ----------------------
(***************************************************************************)
(* What the governed interactions of the browser promise, for any surfaces *)
(* and texts and any number of ids, calls and reloads, with messages that  *)
(* are lost, late or out of order.                                         *)
(*                                                                         *)
(* The Runtime's record of an interaction and that of its approval go      *)
(* together; what a lane has read of them is either not final or stays     *)
(* true; and the request retained under the id a lane waits for is the one *)
(* its operator asked.                                                     *)
(***************************************************************************)
EXTENDS ExecutiveInteraction, TLAPS

(* The record of an interaction and the record of its approval. *)
Recorded(i) ==
    \/ ledger[i] \in {"absent", "running", "answered"} /\ approval[i] = "none"
    \/ ledger[i] = "gate" /\ approval[i] \in {"pending", "approved"}
    \/ ledger[i] = "resuming" /\ approval[i] = "consumed"
    \/ ledger[i] = "blocked" /\ approval[i] \in {"none", "denied", "consumed"}
    \/ ledger[i] = "executed" /\ approval[i] \in {"none", "consumed"}

RuntimeInv ==
    /\ \A i \in Id : Recorded(i)
    /\ \A i \in denied : approval[i] = "denied"

(* Lane l waits for what becomes of a submission of its own. *)
Submitting(l) == lane[l].at \in {"post", "look"}

(* A lane has an interaction; a decision submits once the approval has been
   granted, and any other lane what its operator asked in this conversation; a
   final outcome it has read is the one retained. *)
LaneOK(l) ==
    /\ lane[l].at # "idle" => lane[l].id \in Id
    /\ lane[l].at \in {"approve", "deny"} => l[2] = "decision"
    /\ Submitting(l) /\ l[2] = "decision" => ApprovalHolds(lane[l].id)
    /\ Submitting(l) /\ l[2] \in Modality =>
          request[lane[l].id] = NewRequest(l, lane[l].text)
    /\ lane[l].seen \in Final =>
          lane[l].id \in Id /\ ledger[lane[l].id] = lane[l].seen

LaneInv == \A l \in Lane : LaneOK(l)

(* A draft has an id of its own, under which nothing else is submitted. *)
DraftInv ==
    /\ \A s \in Surface : draft[s] # NoDraft =>
          /\ draft[s].id < nextId
          /\ request[draft[s].id] \in
                {NotSubmitted, NewRequest(DraftLane(s), draft[s].text)}
    /\ \A s, u \in Surface :
          s # u /\ draft[s] # NoDraft /\ draft[u] # NoDraft => draft[s].id # draft[u].id

(* An id that has not been drawn has not been submitted. *)
FreshInv == \A i \in Id : i >= nextId => request[i] = NotSubmitted

Inv ==
    /\ TypeOK /\ RuntimeInv /\ LaneInv /\ DraftInv /\ FreshInv
    /\ ContinuationsAreApproved /\ AnswersFitTheQuestion /\ BlockIsInDoubt

-----------------------------------------------------------------------------
(* The sentinels. *)
LEMMA Sentinels ==
    /\ Idle \in Call /\ Idle.at = "idle" /\ Idle.seen = "nothing"
    /\ NotSubmitted.surface = "none"
    /\ NoId \notin Id
    /\ NoDraft \notin [id : Id, text : Text]
    /\ NotShown \notin [lane : Lane, id : Id, text : Text \cup {NoText}, outcome : Terminal]
<1>1. Idle \in Call /\ Idle.at = "idle" /\ Idle.seen = "nothing"
  BY DEF Idle, Call
<1>2. NoId \notin Id
  BY DEF NoId, Id
<1>3. NoDraft \notin [id : Id, text : Text]
  BY <1>2 DEF NoDraft
<1>4. NotShown \notin [lane : Lane, id : Id, text : Text \cup {NoText}, outcome : Terminal]
  BY <1>2 DEF NotShown
<1>5. QED
  BY <1>1, <1>2, <1>3, <1>4 DEF NotSubmitted

LEMMA InitInv == Init => Inv
<1> SUFFICES ASSUME Init PROVE Inv
  OBVIOUS
<1>1. TypeOK
  BY Sentinels, BoundAssumption DEF Init, TypeOK, Id, NoId
<1>2. RuntimeInv
  BY DEF Init, RuntimeInv, Recorded
<1>3. LaneInv
  BY Sentinels DEF Init, LaneInv, LaneOK, Submitting, Final
<1>4. DraftInv /\ FreshInv
  BY DEF Init, DraftInv, FreshInv
<1>5. ContinuationsAreApproved /\ AnswersFitTheQuestion /\ BlockIsInDoubt
  BY DEF Init, ContinuationsAreApproved, AnswersFitTheQuestion, BlockIsInDoubt
<1>6. QED
  BY <1>1, <1>2, <1>3, <1>4, <1>5 DEF Inv

-----------------------------------------------------------------------------
(* The Runtime: what it serves keeps the two records together, an outcome that
   is final stays, and so does a grant or a denial. *)
Steady ==
    /\ \A i \in Id : ledger[i] \in Final => ledger'[i] = ledger[i]
    /\ \A i \in Id : ApprovalHolds(i) => ApprovalHolds(i)'
    /\ \A i \in Id : DenialHolds(i) => DenialHolds(i)'

RuntimeOK ==
    /\ ledger \in [Id -> {"absent", "running", "resuming"} \cup Terminal]
    /\ approval \in [Id -> {"none", "pending", "approved", "consumed", "denied"}]
    /\ \A i \in Id : Recorded(i)

LEMMA ServeStep ==
    ASSUME RuntimeOK, NEW m \in Message, Serve(m)
    PROVE  RuntimeOK' /\ Steady
<1>1. m.id \in Id
  BY DEF Message
<1>2. CASE m.kind = "submit" /\ ledger[m.id] = "absent"
  BY <1>1, <1>2
     DEF Serve, RuntimeOK, Recorded, Steady, ApprovalHolds, DenialHolds, Final, Terminal
<1>3. CASE m.kind = "resume" /\ ledger[m.id] = "gate" /\ approval[m.id] = "approved"
  BY <1>1, <1>3
     DEF Serve, RuntimeOK, Recorded, Steady, ApprovalHolds, DenialHolds, Final, Terminal
<1>4. CASE m.kind = "approve" /\ approval[m.id] = "pending"
  BY <1>1, <1>4
     DEF Serve, RuntimeOK, Recorded, Steady, ApprovalHolds, DenialHolds, Final, Terminal
<1>5. CASE m.kind = "deny" /\ approval[m.id] = "pending"
  BY <1>1, <1>5
     DEF Serve, RuntimeOK, Recorded, Steady, ApprovalHolds, DenialHolds, Final, Terminal
<1>6. CASE /\ ~(m.kind = "submit" /\ ledger[m.id] = "absent")
           /\ ~(m.kind = "resume" /\ ledger[m.id] = "gate" /\ approval[m.id] = "approved")
           /\ ~(m.kind = "approve" /\ approval[m.id] = "pending")
           /\ ~(m.kind = "deny" /\ approval[m.id] = "pending")
  <2>1. UNCHANGED runtime
    BY <1>6 DEF Serve
  <2>2. QED
    BY <2>1 DEF runtime, RuntimeOK, Recorded, Steady, ApprovalHolds, DenialHolds
<1>7. QED
  BY <1>2, <1>3, <1>4, <1>5, <1>6

LEMMA FinishStep ==
    ASSUME RuntimeOK, NEW i \in Id, RuntimeFinishes(i)
    PROVE  RuntimeOK' /\ Steady
  BY DEF RuntimeFinishes, RuntimeOK, Recorded, Steady, ApprovalHolds, DenialHolds,
         Final, Terminal

LEMMA UnservedStep ==
    ASSUME RuntimeOK, UNCHANGED runtime PROVE RuntimeOK' /\ Steady
  BY DEF runtime, RuntimeOK, Recorded, Steady, ApprovalHolds, DenialHolds

-----------------------------------------------------------------------------
(* A step that moves one lane leaves the others as they were. *)
LEMMA OneLaneMoves ==
    ASSUME TypeOK, LaneInv, Steady, mount' = mount,
           NEW l \in Lane, NEW c \in Call, lane' = [lane EXCEPT ![l] = c],
           \A d \in Lane \ {l} : d[2] \in Modality /\ Submitting(d) =>
               request'[lane[d].id] = request[lane[d].id],
           LaneOK(l)'
    PROVE  lane' \in [Lane -> Call] /\ LaneInv'
<1>1. lane' \in [Lane -> Call]
  BY DEF TypeOK
<1>2. ASSUME NEW d \in Lane \ {l} PROVE LaneOK(d)'
  <2>1. lane'[d] = lane[d] /\ LaneOK(d) /\ lane[d] \in Call
    BY DEF TypeOK, LaneInv
  <2>2. NewRequest(d, lane[d].text)' = NewRequest(d, lane[d].text)
    BY <2>1 DEF NewRequest
  <2>3. lane[d].at # "idle" => lane[d].id \in Id
    BY <2>1 DEF LaneOK
  <2>4. lane[d].seen \in Final => lane[d].id \in Id
    BY <2>1 DEF LaneOK
  <2>5. QED
    BY <2>1, <2>2, <2>3, <2>4 DEF LaneOK, Submitting, Steady
<1>3. QED
  BY <1>1, <1>2 DEF LaneInv

(* What a call that goes on leaves alone, and what is left to show of it. *)
LEMMA ContinueFrame ==
    ASSUME Inv, UNCHANGED <<nextId, request, mount, runtime, calls>>,
           NEW l \in Lane, NEW c \in Call, lane' = [lane EXCEPT ![l] = c], LaneOK(l)',
           card' \in [Surface -> Id \cup {NoId}], busy' \in [Surface -> BOOLEAN],
           draft' = draft \/ draft' = [draft EXCEPT ![l[1]] = NoDraft],
           pointer' \in Id \cup {NoId}, reconcile' \in Id \cup {NoId},
           sent' \in [Id -> Nat], net' \subseteq Message,
           unresolved' \subseteq Doubt, denied' \subseteq Id,
           \A i \in denied' : approval[i] = "denied",
           shown' \in {NotShown} \cup
               [lane : Lane, id : Id, text : Text \cup {NoText}, outcome : Terminal],
           ContinuationsAreApproved', AnswersFitTheQuestion', BlockIsInDoubt'
    PROVE  Inv'
<1>1. /\ nextId' = nextId /\ request' = request /\ mount' = mount /\ calls' = calls
      /\ ledger' = ledger /\ approval' = approval
  BY DEF runtime
<1>2. RuntimeOK' /\ Steady
  BY UnservedStep DEF Inv, TypeOK, RuntimeInv, RuntimeOK
<1>3. RuntimeInv'
  BY <1>1, <1>2 DEF RuntimeOK, RuntimeInv
<1>4. lane' \in [Lane -> Call] /\ LaneInv'
  BY <1>1, <1>2, OneLaneMoves DEF Inv
<1>5. draft' \in [Surface -> [id : Id, text : Text] \cup {NoDraft}]
      /\ \A s \in Surface : draft'[s] # NoDraft => draft'[s] = draft[s]
  BY DEF Inv, TypeOK
<1>6. TypeOK'
  BY <1>1, <1>4, <1>5 DEF Inv, TypeOK
<1>7. DraftInv'
  BY <1>1, <1>5 DEF Inv, DraftInv, NewRequest
<1>8. FreshInv'
  BY <1>1 DEF Inv, FreshInv
<1>9. QED
  BY <1>3, <1>4, <1>6, <1>7, <1>8 DEF Inv

(* The lane of the draft of a surface. *)
LEMMA DraftLaneIs ==
    ASSUME NEW s \in Surface
    PROVE  /\ DraftLane(s) \in Lane /\ DraftLane(s)[1] = s
           /\ DraftLane(s)[2] \in Modality
           /\ \A u \in Surface : DraftLane(s) = DraftLane(u) => s = u
  BY DEF DraftLane, Lane, Modality

(* A lane has a surface, and what it tells of itself has a type. *)
LEMMA LaneFields ==
    ASSUME TypeOK, NEW l \in Lane
    PROVE  /\ l[1] \in Surface /\ Kind(l) \in {"submit", "resume"}
           /\ lane[l] \in Call
           /\ lane[l].text \in Text \cup {NoText} /\ lane[l].n \in Nat
  BY DEF TypeOK, Lane, Kind, Call

(* Releasing a lane. *)
LEMMA ReleaseStep ==
    ASSUME TypeOK, NEW l \in Lane, Release(l)
    PROVE  /\ lane' = [lane EXCEPT ![l] = Idle] /\ Idle \in Call /\ LaneOK(l)'
           /\ busy' \in [Surface -> BOOLEAN]
<1>1. lane' = [lane EXCEPT ![l] = Idle] /\ lane'[l] = Idle
  BY DEF Release, TypeOK
<1>2. LaneOK(l)'
  BY <1>1, Sentinels DEF LaneOK, Submitting, Final
<1>3. QED
  BY <1>1, <1>2, Sentinels DEF Release, TypeOK

(* An error shows nothing and keeps what the surface has. *)
LEMMA ThrowStep ==
    ASSUME Inv, NEW l \in Lane, Throw(l),
           UNCHANGED <<ids, runtime, denied, calls>>,
           reconcile' \in Id \cup {NoId}, net' \subseteq net,
           unresolved' \subseteq Doubt, BlockIsInDoubt'
    PROVE  Inv'
<1>1. /\ Release(l) /\ shown' = NotShown
      /\ card' = card /\ draft' = draft /\ mount' = mount /\ pointer' = pointer
      /\ nextId' = nextId /\ request' = request /\ sent' = sent
      /\ ledger' = ledger /\ approval' = approval /\ denied' = denied
  BY DEF Throw, ids, runtime
<1>2. TypeOK /\ \A i \in denied' : approval[i] = "denied"
  BY <1>1 DEF Inv, RuntimeInv
<1>3. ContinuationsAreApproved'
  BY <1>1 DEF Inv, ContinuationsAreApproved
<1>4. AnswersFitTheQuestion'
  BY <1>1 DEF AnswersFitTheQuestion
<1>5. QED
  <2>1. /\ card' \in [Surface -> Id \cup {NoId}] /\ pointer' \in Id \cup {NoId}
        /\ sent' \in [Id -> Nat] /\ net' \subseteq Message /\ denied' \subseteq Id
    BY <1>1, <1>2 DEF TypeOK
  <2>2. lane' = [lane EXCEPT ![l] = Idle] /\ Idle \in Call /\ LaneOK(l)'
        /\ busy' \in [Surface -> BOOLEAN]
    BY <1>1, <1>2, ReleaseStep
  <2>3. UNCHANGED <<nextId, request, mount, runtime, calls>>
    BY <1>1
  <2>4. QED
    BY <1>1, <1>2, <1>3, <1>4, <2>1, <2>2, <2>3, ContinueFrame

(* A result is admitted for the question of its lane, and clears no other
   block than its own. *)
LEMMA AdmitStep ==
    ASSUME Inv, NEW l \in Lane, NEW outcome \in Terminal, lane[l].id \in Id,
           l[2] \in Modality => request[lane[l].id] = NewRequest(l, lane[l].text),
           outcome \in Final => ledger[lane[l].id] = outcome,
           Admit(l, outcome)
    PROVE  Inv'
<1> DEFINE i == lane[l].id
<1>1. /\ reconcile' = Unblocked(i) /\ unresolved' \subseteq unresolved
      /\ \A x \in unresolved : x \in unresolved' \/ x[1] = i
      /\ UNCHANGED <<net, ids, runtime, denied, calls>>
  BY DEF Admit
<1>2. TypeOK
  BY DEF Inv
<1>3. reconcile' \in Id \cup {NoId} /\ unresolved' \subseteq Doubt
  BY <1>1, <1>2 DEF Unblocked, TypeOK
<1>4. BlockIsInDoubt'
  <2>1. SUFFICES ASSUME reconcile' # NoId
                 PROVE  /\ \E kind \in {"submit", "resume"} :
                               <<reconcile, kind, "remembered">> \in unresolved'
                        /\ reconcile' = reconcile
    BY DEF BlockIsInDoubt
  <2>2. reconcile' = reconcile /\ reconcile # i /\ reconcile # NoId
    BY <1>1, <2>1 DEF Unblocked
  <2>3. PICK kind \in {"submit", "resume"} :
            <<reconcile, kind, "remembered">> \in unresolved
    BY <2>2 DEF Inv, BlockIsInDoubt
  <2>4. QED
    BY <1>1, <2>2, <2>3
<1>5. CASE l[2] = "decision" /\ outcome = "gate"
  <2>1. Throw(l)
    BY <1>5 DEF Admit
  <2>2. net' \subseteq net
    BY <1>1
  <2>3. QED
    BY <1>1, <1>3, <1>4, <2>1, <2>2, ThrowStep
<1>6. CASE ~(l[2] = "decision" /\ outcome = "gate")
  <2>1. Present(l, outcome)
    BY <1>6 DEF Admit
  <2>2. /\ Release(l) /\ mount' = mount
        /\ shown' = [lane |-> l, id |-> i, text |-> lane[l].text, outcome |-> outcome]
        /\ draft' = draft \/ draft' = [draft EXCEPT ![l[1]] = NoDraft]
    BY <2>1 DEF Present
  <2>3. pointer' \in Id \cup {NoId}
    <3>1. pointer' = i \/ pointer' = NoId \/ pointer' = pointer
      BY <2>1 DEF Present
    <3>2. QED
      BY <1>2, <3>1 DEF TypeOK
  <2>4. card' \in [Surface -> Id \cup {NoId}]
    BY <1>2, <2>1 DEF Present, TypeOK
  <2>5. shown' \in {NotShown} \cup
            [lane : Lane, id : Id, text : Text \cup {NoText}, outcome : Terminal]
    BY <1>2, <2>2, LaneFields
  <2>6. /\ nextId' = nextId /\ request' = request /\ sent' = sent /\ net' = net
        /\ ledger' = ledger /\ approval' = approval /\ denied' = denied
    BY <1>1 DEF ids, runtime
  <2>7. AnswersFitTheQuestion'
    <3>1. /\ shown'.lane = l /\ shown'.id = i /\ shown'.text = lane[l].text
          /\ shown'.outcome = outcome
      BY <2>2
    <3>2. NewRequest(l, lane[l].text)
            = [surface |-> l[1], conversation |-> mount', modality |-> l[2],
               text |-> lane[l].text]
      BY <2>2 DEF NewRequest
    <3>3. QED
      BY <2>6, <3>1, <3>2 DEF AnswersFitTheQuestion, NewRequest
  <2>8. ContinuationsAreApproved'
    BY <2>6 DEF Inv, ContinuationsAreApproved
  <2>9. /\ lane' = [lane EXCEPT ![l] = Idle] /\ Idle \in Call /\ LaneOK(l)'
        /\ busy' \in [Surface -> BOOLEAN]
    BY <1>2, <2>2, ReleaseStep
  <2>10. /\ sent' \in [Id -> Nat] /\ net' \subseteq Message /\ denied' \subseteq Id
         /\ \A j \in denied' : approval[j] = "denied"
    BY <1>2, <2>6 DEF TypeOK, Inv, RuntimeInv
  <2>11. UNCHANGED <<nextId, request, mount, runtime, calls>>
    BY <1>1, <2>2, <2>6
  <2>12. QED
    BY <1>3, <1>4, <2>2, <2>3, <2>4, <2>5, <2>7, <2>8, <2>9, <2>10, <2>11, ContinueFrame
<1>7. QED
  BY <1>5, <1>6

(* One more submission under id i, the first of its call or the last, and what
   waits for it. *)
Posts(l, i, t) == Post(l, i, t, FALSE) \/ Post(l, i, t, TRUE)

LEMMA PostStep ==
    ASSUME TypeOK, NEW l \in Lane, NEW i \in Id, NEW t \in Text \cup {NoText},
           Posts(l, i, t)
    PROVE  /\ sent' \in [Id -> Nat]
           /\ [kind |-> Kind(l), id |-> i, n |-> sent'[i]] \in Message
           /\ net' = net \cup {[kind |-> Kind(l), id |-> i, n |-> sent'[i]]}
           /\ lane' = [lane EXCEPT ![l] = lane'[l]] /\ lane'[l] \in Call
           /\ lane'[l].at = "post" /\ lane'[l].id = i /\ lane'[l].text = t
           /\ lane'[l].seen = "nothing"
<1>1. sent' \in [Id -> Nat] /\ sent'[i] \in Nat
  BY DEF Posts, Post, TypeOK
<1>2. [kind |-> Kind(l), id |-> i, n |-> sent'[i]] \in Message
  BY <1>1 DEF Message, Kind
<1>3. net' = net \cup {[kind |-> Kind(l), id |-> i, n |-> sent'[i]]}
  BY DEF Posts, Post
<1>4. lane'[l] \in Call /\ lane' = [lane EXCEPT ![l] = lane'[l]]
      /\ lane'[l].at = "post" /\ lane'[l].id = i /\ lane'[l].text = t
      /\ lane'[l].seen = "nothing"
  <2>1. CASE Post(l, i, t, FALSE)
    BY <1>1, <2>1 DEF Post, TypeOK, Idle, Call
  <2>2. CASE Post(l, i, t, TRUE)
    BY <1>1, <2>2 DEF Post, TypeOK, Idle, Call
  <2>3. QED
    BY <2>1, <2>2 DEF Posts
<1>5. QED
  BY <1>1, <1>2, <1>3, <1>4

(* A lane moves on, alone, or with a message that got lost. *)
LEMMA WaitStep ==
    ASSUME Inv, NEW l \in Lane, NEW c \in Call, lane' = [lane EXCEPT ![l] = c],
           LaneOK(l)', shown' = NotShown, net' \subseteq net,
           UNCHANGED <<page, storage, ids, runtime, unresolved, denied, calls>>
    PROVE  Inv'
<1>1. /\ UNCHANGED <<nextId, request, mount, runtime, calls>>
      /\ card' = card /\ draft' = draft /\ busy' = busy /\ pointer' = pointer
      /\ reconcile' = reconcile /\ sent' = sent /\ unresolved' = unresolved
      /\ denied' = denied /\ approval' = approval
  BY DEF page, storage, ids, runtime
<1>2. /\ card' \in [Surface -> Id \cup {NoId}] /\ busy' \in [Surface -> BOOLEAN]
      /\ pointer' \in Id \cup {NoId} /\ reconcile' \in Id \cup {NoId}
      /\ sent' \in [Id -> Nat] /\ net' \subseteq Message
      /\ unresolved' \subseteq Doubt /\ denied' \subseteq Id
      /\ \A i \in denied' : approval[i] = "denied"
  BY <1>1 DEF Inv, TypeOK, RuntimeInv
<1>3. ContinuationsAreApproved' /\ AnswersFitTheQuestion' /\ BlockIsInDoubt'
  BY <1>1 DEF Inv, ContinuationsAreApproved, AnswersFitTheQuestion, BlockIsInDoubt
<1>4. QED
  BY <1>1, <1>2, <1>3, ContinueFrame

(* A call submits its interaction again, or continues the one approved. *)
LEMMA SubmitStep ==
    ASSUME Inv, NEW l \in Lane, lane[l].id \in Id, NEW t \in Text \cup {NoText},
           Posts(l, lane[l].id, t),
           l[2] = "decision" => ApprovalHolds(lane[l].id),
           l[2] \in Modality => request[lane[l].id] = NewRequest(l, t),
           shown' = NotShown,
           UNCHANGED <<page, storage, nextId, request, runtime, unresolved, denied, calls>>
    PROVE  Inv'
<1> DEFINE i == lane[l].id
           m == [kind |-> Kind(l), id |-> i, n |-> sent'[i]]
           c == lane'[l]
<1>1. /\ UNCHANGED <<nextId, request, mount, runtime, calls>>
      /\ card' = card /\ draft' = draft /\ busy' = busy /\ pointer' = pointer
      /\ reconcile' = reconcile /\ unresolved' = unresolved /\ mount' = mount
      /\ denied' = denied /\ approval' = approval /\ request' = request
  BY DEF page, storage, runtime
<1>2. TypeOK
  BY DEF Inv
<1>3. /\ lane' = [lane EXCEPT ![l] = c] /\ c \in Call
      /\ c.at = "post" /\ c.id = i /\ c.text = t /\ c.seen = "nothing"
  BY <1>2, PostStep
<1>4. sent' \in [Id -> Nat] /\ m \in Message /\ net' = net \cup {m}
  BY <1>2, PostStep
<1>5. LaneOK(l)'
  <2>1. NewRequest(l, t)' = NewRequest(l, t)
    BY <1>1 DEF NewRequest
  <2>2. l[2] \in Modality => request'[i] = NewRequest(l, t)'
    BY <1>1, <2>1
  <2>3. l[2] = "decision" => approval'[i] \in {"approved", "consumed"}
    BY <1>1 DEF ApprovalHolds
  <2>4. QED
    BY <1>3, <2>2, <2>3 DEF LaneOK, Submitting, Final, NewRequest, ApprovalHolds
<1>6. ContinuationsAreApproved'
  <2>1. m.kind = "resume" => approval[m.id] \in {"approved", "consumed"}
    BY DEF Kind, ApprovalHolds
  <2>2. QED
    BY <1>1, <1>4, <2>1 DEF Inv, ContinuationsAreApproved
<1>7. AnswersFitTheQuestion' /\ BlockIsInDoubt'
  BY <1>1 DEF Inv, AnswersFitTheQuestion, BlockIsInDoubt
<1>8. /\ card' \in [Surface -> Id \cup {NoId}] /\ busy' \in [Surface -> BOOLEAN]
      /\ pointer' \in Id \cup {NoId} /\ reconcile' \in Id \cup {NoId}
      /\ net' \subseteq Message
      /\ unresolved' \subseteq Doubt /\ denied' \subseteq Id
      /\ \A j \in denied' : approval[j] = "denied"
  BY <1>1, <1>2, <1>4 DEF Inv, TypeOK, RuntimeInv
<1>9. QED
  BY <1>1, <1>3, <1>4, <1>5, <1>6, <1>7, <1>8, ContinueFrame

-----------------------------------------------------------------------------
(* The answers to a submission. *)
LEMMA Waiting ==
    ASSUME Inv, NEW l \in Lane, lane[l].at # "idle"
    PROVE  /\ TypeOK /\ LaneOK(l) /\ lane[l] \in Call /\ lane[l].id \in Id
           /\ lane[l].text \in Text \cup {NoText}
  BY LaneFields DEF Inv, LaneInv, LaneOK

LEMMA ReplyAdmittedStep == ASSUME Inv, NEW l \in Lane, ReplyAdmitted(l) PROVE Inv'
<1>1. PICK outcome \in Readings(lane[l].id) \cap Terminal : Admit(l, outcome)
  BY DEF ReplyAdmitted
<1>2. lane[l].at = "post" /\ LaneOK(l) /\ lane[l].id \in Id
  BY Waiting DEF ReplyAdmitted
<1>3. outcome \in Final => ledger[lane[l].id] = outcome
  BY <1>1 DEF Readings, Final
<1>4. l[2] \in Modality => request[lane[l].id] = NewRequest(l, lane[l].text)
  BY <1>2 DEF LaneOK, Submitting
<1>5. QED
  BY <1>1, <1>2, <1>3, <1>4, AdmitStep

(* A reply that cannot be used is looked up by the same call. *)
LEMMA LookStep ==
    ASSUME Inv, NEW l \in Lane, lane[l].at = "post", NEW doubt \in BOOLEAN,
           lane' = [lane EXCEPT ![l] = [@ EXCEPT !.at = "look", !.doubt = doubt]],
           shown' = NotShown, net' \subseteq net,
           UNCHANGED <<page, storage, ids, runtime, unresolved, denied, calls>>
    PROVE  Inv'
<1> DEFINE c == [lane[l] EXCEPT !.at = "look", !.doubt = doubt]
<1>1. TypeOK /\ LaneOK(l) /\ lane[l] \in Call /\ lane[l].id \in Id
  BY Waiting
<1>2. /\ c \in Call /\ c.at = "look" /\ c.id = lane[l].id /\ c.text = lane[l].text
      /\ c.seen = lane[l].seen
  BY <1>1 DEF Call
<1>3. lane' = [lane EXCEPT ![l] = c] /\ lane'[l] = c
  BY <1>1 DEF TypeOK
<1>4. UNCHANGED <<mount, request, ledger, approval>>
  BY DEF page, ids, runtime
<1>5. LaneOK(l)'
  BY <1>1, <1>2, <1>3, <1>4 DEF LaneOK, Submitting, NewRequest, ApprovalHolds
<1>6. QED
  BY <1>2, <1>3, <1>5, WaitStep

LEMMA ReplyMalformedStep == ASSUME Inv, NEW l \in Lane, ReplyMalformed(l) PROVE Inv'
<1>1. TypeOK /\ lane[l] \in Call
  BY Waiting DEF ReplyMalformed
<1>2. lane' = [lane EXCEPT ![l] = [@ EXCEPT !.at = "look", !.doubt = TRUE]]
  BY <1>1 DEF ReplyMalformed, TypeOK
<1>3. net' \subseteq net
  BY DEF ReplyMalformed
<1>4. QED
  BY <1>2, <1>3, LookStep DEF ReplyMalformed

LEMMA ReplyAmbiguousStep == ASSUME Inv, NEW l \in Lane, ReplyAmbiguous(l) PROVE Inv'
<1>1. TypeOK /\ lane[l] \in Call /\ lane[l].doubt \in BOOLEAN
  BY Waiting DEF ReplyAmbiguous, Call
<1>2. lane' = [lane EXCEPT ![l] = [@ EXCEPT !.at = "look", !.doubt = lane[l].doubt]]
  BY <1>1 DEF ReplyAmbiguous, TypeOK, Call
<1>3. net' \subseteq net
  BY DEF ReplyAmbiguous
<1>4. QED
  BY <1>1, <1>2, <1>3, LookStep DEF ReplyAmbiguous

LEMMA ReplyRefusedStep == ASSUME Inv, NEW l \in Lane, ReplyRefused(l) PROVE Inv'
<1>1. TypeOK /\ lane[l].id \in Id /\ Kind(l) \in {"submit", "resume"}
  BY Waiting, LaneFields DEF ReplyRefused
<1>2. /\ Throw(l) /\ net' \subseteq net /\ reconcile' = reconcile
      /\ UNCHANGED <<ids, runtime, denied, calls>>
      /\ \/ unresolved' = unresolved
         \/ unresolved' = unresolved \cup {<<lane[l].id, Kind(l), "thrown">>}
  BY DEF ReplyRefused
<1>3. /\ reconcile' \in Id \cup {NoId}
      /\ unresolved' \subseteq Doubt /\ unresolved \subseteq unresolved'
  BY <1>1, <1>2 DEF TypeOK, Doubt
<1>4. BlockIsInDoubt'
  BY <1>2, <1>3 DEF Inv, BlockIsInDoubt
<1>5. QED
  BY <1>2, <1>3, <1>4, ThrowStep

-----------------------------------------------------------------------------
(* The record of an interaction, looked up. *)
LEMMA LookUpStep == ASSUME Inv, NEW l \in Lane, LookUp(l) PROVE Inv'
<1>1. /\ TypeOK /\ LaneOK(l) /\ lane[l] \in Call /\ lane[l].id \in Id
      /\ ledger[lane[l].id] \in {"absent", "running", "resuming"} \cup Terminal
  BY Waiting DEF LookUp, TypeOK
<1>2. PICK r \in Readings(lane[l].id) \cup {"unavailable"} :
          lane' = [lane EXCEPT ![l].seen = r]
  BY DEF LookUp
<1> DEFINE c == [lane[l] EXCEPT !.seen = r]
<1>3. /\ r \in Terminal \cup {"nothing", "absent", "running", "unavailable"}
      /\ r \in Final => ledger[lane[l].id] = r
  BY <1>1 DEF Readings, Final, Terminal
<1>4. /\ c \in Call /\ c.at = lane[l].at /\ c.id = lane[l].id /\ c.text = lane[l].text
      /\ c.seen = r
  BY <1>1, <1>3 DEF Call
<1>5. lane' = [lane EXCEPT ![l] = c] /\ lane'[l] = c
  BY <1>1, <1>2 DEF TypeOK
<1>6. UNCHANGED <<mount, request, ledger, approval>> /\ net' \subseteq net
  BY DEF LookUp, page, ids, runtime
<1>7. LaneOK(l)'
  BY <1>1, <1>3, <1>4, <1>5, <1>6 DEF LaneOK, Submitting, NewRequest, ApprovalHolds
<1>8. QED
  BY <1>4, <1>5, <1>6, <1>7, WaitStep DEF LookUp

LEMMA LookFindsStep == ASSUME Inv, NEW l \in Lane, LookFinds(l) PROVE Inv'
<1>1. lane[l].at = "look" /\ LaneOK(l) /\ lane[l].id \in Id
  BY Waiting DEF LookFinds
<1>2. l[2] \in Modality => request[lane[l].id] = NewRequest(l, lane[l].text)
  BY <1>1 DEF LaneOK, Submitting
<1>3. lane[l].seen \in Final => ledger[lane[l].id] = lane[l].seen
  BY <1>1 DEF LaneOK
<1>4. QED
  BY <1>1, <1>2, <1>3, AdmitStep DEF LookFinds

LEMMA LookMissesStep == ASSUME Inv, NEW l \in Lane, LookMisses(l) PROVE Inv'
<1>1. /\ lane[l].at = "look" /\ LaneOK(l) /\ lane[l].id \in Id
      /\ lane[l].text \in Text \cup {NoText}
  BY Waiting DEF LookMisses
<1>2. /\ l[2] = "decision" => ApprovalHolds(lane[l].id)
      /\ l[2] \in Modality => request[lane[l].id] = NewRequest(l, lane[l].text)
  BY <1>1 DEF LaneOK, Submitting
<1>3. Posts(l, lane[l].id, lane[l].text)
  BY DEF LookMisses, Posts
<1>4. QED
  BY <1>1, <1>2, <1>3, SubmitStep DEF LookMisses

LEMMA LookGivesUpStep == ASSUME Inv, NEW l \in Lane, LookGivesUp(l) PROVE Inv'
<1>1. TypeOK /\ lane[l].id \in Id /\ Kind(l) \in {"submit", "resume"}
  BY Waiting, LaneFields DEF LookGivesUp
<1>2. /\ Throw(l) /\ net' \subseteq net /\ reconcile' = lane[l].id
      /\ UNCHANGED <<ids, runtime, denied, calls>>
      /\ unresolved' = unresolved \cup {<<lane[l].id, Kind(l), "remembered">>}
  BY DEF LookGivesUp, GiveUp
<1>3. /\ reconcile' \in Id \cup {NoId}
      /\ unresolved' \subseteq Doubt
  BY <1>1, <1>2 DEF TypeOK, Doubt
<1>4. BlockIsInDoubt'
  BY <1>1, <1>2 DEF BlockIsInDoubt
<1>5. QED
  BY <1>2, <1>3, <1>4, ThrowStep

LEMMA PrecheckAdmitsStep == ASSUME Inv, NEW l \in Lane, PrecheckAdmits(l) PROVE Inv'
<1>1. LaneOK(l) /\ lane[l].id \in Id
  BY Waiting DEF PrecheckAdmits
<1>2. lane[l].seen \in Final => ledger[lane[l].id] = lane[l].seen
  BY <1>1 DEF LaneOK
<1>3. QED
  BY <1>1, <1>2, AdmitStep DEF PrecheckAdmits, Reconciles

(* An error that leaves what is in doubt as it is. *)
LEMMA ErrorStep ==
    ASSUME Inv, NEW l \in Lane, Throw(l), net' \subseteq net,
           UNCHANGED <<reconcile, ids, runtime, unresolved, denied, calls>>
    PROVE  Inv'
<1>1. reconcile' \in Id \cup {NoId} /\ unresolved' \subseteq Doubt
  BY DEF Inv, TypeOK
<1>2. BlockIsInDoubt'
  BY DEF Inv, BlockIsInDoubt
<1>3. QED
  BY <1>1, <1>2, ThrowStep

LEMMA PrecheckBlocksStep == ASSUME Inv, NEW l \in Lane, PrecheckBlocks(l) PROVE Inv'
  BY ErrorStep DEF PrecheckBlocks

-----------------------------------------------------------------------------
(* Approvals. *)
LEMMA DecisionFailsStep == ASSUME Inv, NEW l \in Lane, DecisionFails(l) PROVE Inv'
<1>1. net' \subseteq net
  BY DEF DecisionFails
<1>2. QED
  BY <1>1, ErrorStep DEF DecisionFails

LEMMA ApprovalAnsweredStep == ASSUME Inv, NEW l \in Lane, ApprovalAnswered(l) PROVE Inv'
<1>1. LaneOK(l) /\ lane[l].id \in Id /\ lane[l].at = "approve"
  BY Waiting DEF ApprovalAnswered
<1>2. CASE ApprovalHolds(lane[l].id)
  <2>1. Posts(l, lane[l].id, NoText)
    BY <1>2 DEF ApprovalAnswered, Posts
  <2>2. l[2] = "decision" /\ l[2] \notin Modality
    BY <1>1 DEF LaneOK, Modality
  <2>3. /\ shown' = NotShown
        /\ UNCHANGED <<page, storage, nextId, request, runtime, unresolved, denied, calls>>
    BY <1>2 DEF ApprovalAnswered, storage
  <2>4. NoText \in Text \cup {NoText}
    OBVIOUS
  <2>5. QED
    BY <1>1, <1>2, <2>1, <2>2, <2>3, <2>4, SubmitStep
<1>3. CASE ~ApprovalHolds(lane[l].id)
  <2>1. Throw(l) /\ UNCHANGED <<net, ids, reconcile, runtime, unresolved, denied, calls>>
    BY <1>3 DEF ApprovalAnswered
  <2>2. net' \subseteq net
    BY <2>1
  <2>3. QED
    BY <2>1, <2>2, ErrorStep
<1>4. QED
  BY <1>2, <1>3

LEMMA DenialAnsweredStep == ASSUME Inv, NEW l \in Lane, DenialAnswered(l) PROVE Inv'
<1> DEFINE i == lane[l].id
<1>1. TypeOK /\ LaneOK(l) /\ i \in Id
  BY Waiting DEF DenialAnswered
<1>2. UNCHANGED <<reconcile, ids, net, runtime, unresolved, calls>>
  BY DEF DenialAnswered
<1>3. CASE DenialHolds(i)
  <2>1. /\ Release(l) /\ shown' = NotShown /\ denied' = denied \cup {i}
        /\ pointer' = (IF pointer = i THEN NoId ELSE pointer)
        /\ card' = [card EXCEPT ![l[1]] = NoId]
        /\ UNCHANGED <<draft, mount>>
    BY <1>3 DEF DenialAnswered
  <2>2. /\ nextId' = nextId /\ request' = request /\ sent' = sent /\ net' = net
        /\ ledger' = ledger /\ approval' = approval /\ reconcile' = reconcile
        /\ unresolved' = unresolved
    BY <1>2 DEF ids, runtime
  <2>3. /\ card' \in [Surface -> Id \cup {NoId}] /\ pointer' \in Id \cup {NoId}
        /\ reconcile' \in Id \cup {NoId} /\ sent' \in [Id -> Nat]
        /\ net' \subseteq Message /\ denied' \subseteq Id
        /\ unresolved' \subseteq Doubt
    BY <1>1, <2>1, <2>2 DEF TypeOK
  <2>4. \A j \in denied' : approval[j] = "denied"
    BY <1>3, <2>1 DEF Inv, RuntimeInv, DenialHolds
  <2>5. ContinuationsAreApproved' /\ AnswersFitTheQuestion' /\ BlockIsInDoubt'
    BY <2>1, <2>2
       DEF Inv, ContinuationsAreApproved, AnswersFitTheQuestion, BlockIsInDoubt
  <2>6. /\ lane' = [lane EXCEPT ![l] = Idle] /\ Idle \in Call /\ LaneOK(l)'
        /\ busy' \in [Surface -> BOOLEAN]
    BY <1>1, <2>1, ReleaseStep
  <2>7. UNCHANGED <<nextId, request, mount, runtime, calls>>
    BY <1>2, <2>1, <2>2
  <2>8. QED
    BY <2>1, <2>3, <2>4, <2>5, <2>6, <2>7, ContinueFrame
<1>4. CASE ~DenialHolds(i)
  <2>1. Throw(l) /\ denied' = denied
    BY <1>4 DEF DenialAnswered
  <2>2. net' \subseteq net
    BY <1>2
  <2>3. QED
    BY <1>2, <2>1, <2>2, ErrorStep
<1>5. QED
  BY <1>3, <1>4

LEMMA RecoverStep == ASSUME Inv, NEW l \in Lane, Recover(l) PROVE Inv'
<1>1. TypeOK /\ lane[l].id \in Id
  BY Waiting DEF Recover
<1>2. /\ Release(l) /\ shown' = NotShown
      /\ card' = card \/ card' = [card EXCEPT ![l[1]] = lane[l].id]
      /\ pointer' = NoId \/ pointer' = pointer
      /\ UNCHANGED <<draft, mount, reconcile, ids, net, runtime, unresolved, denied, calls>>
  BY DEF Recover
<1>3. /\ nextId' = nextId /\ request' = request /\ sent' = sent /\ net' = net
      /\ ledger' = ledger /\ approval' = approval
  BY <1>2 DEF ids, runtime
<1>4. /\ card' \in [Surface -> Id \cup {NoId}] /\ pointer' \in Id \cup {NoId}
      /\ reconcile' \in Id \cup {NoId} /\ sent' \in [Id -> Nat]
      /\ net' \subseteq Message /\ denied' \subseteq Id
      /\ unresolved' \subseteq Doubt
      /\ \A j \in denied' : approval[j] = "denied"
  BY <1>1, <1>2, <1>3 DEF TypeOK, Inv, RuntimeInv
<1>5. ContinuationsAreApproved' /\ AnswersFitTheQuestion' /\ BlockIsInDoubt'
  BY <1>2, <1>3 DEF Inv, ContinuationsAreApproved, AnswersFitTheQuestion, BlockIsInDoubt
<1>6. /\ lane' = [lane EXCEPT ![l] = Idle] /\ Idle \in Call /\ LaneOK(l)'
      /\ busy' \in [Surface -> BOOLEAN]
  BY <1>1, <1>2, ReleaseStep
<1>7. UNCHANGED <<nextId, request, mount, runtime, calls>>
  BY <1>2, <1>3
<1>8. QED
  BY <1>2, <1>4, <1>5, <1>6, <1>7, ContinueFrame

-----------------------------------------------------------------------------
(* The operator starts a call. *)

(* No lane other than l waits under id i for a request of its own. *)
Private(l, i) ==
    \A d \in Lane \ {l} : d[2] \in Modality /\ Submitting(d) => lane[d].id # i

(* An id that has not been submitted is private. *)
LEMMA FreshIsPrivate ==
    ASSUME Inv, NEW l \in Lane, NEW i \in Id, request[i] = NotSubmitted
    PROVE  Private(l, i)
<1> SUFFICES ASSUME NEW d \in Lane, d[2] \in Modality, Submitting(d), lane[d].id = i
             PROVE  FALSE
  BY DEF Private
<1>1. request[i] = NewRequest(d, lane[d].text) /\ d[1] \in Surface
  BY LaneFields DEF Inv, LaneInv, LaneOK
<1>2. d[1] # "none" /\ NewRequest(d, lane[d].text).surface = d[1]
  BY <1>1, SurfaceAssumption DEF NewRequest
<1>3. QED
  BY <1>1, <1>2, Sentinels

(* And so is the id of a draft to the lane that submits it. *)
LEMMA DraftIsPrivate ==
    ASSUME Inv, NEW s \in Surface, draft[s] # NoDraft
    PROVE  Private(DraftLane(s), draft[s].id)
<1> DEFINE l == DraftLane(s)
           i == draft[s].id
<1> SUFFICES ASSUME NEW d \in Lane \ {l}, d[2] \in Modality, Submitting(d),
                    lane[d].id = i
             PROVE  FALSE
  BY DEF Private
<1>1. request[i] = NewRequest(d, lane[d].text)
  BY DEF Inv, LaneInv, LaneOK
<1>2. CASE request[i] = NotSubmitted
  <2>1. i \in Id /\ l \in Lane
    BY DraftLaneIs DEF Inv, TypeOK
  <2>2. QED
    BY <1>2, <2>1, FreshIsPrivate DEF Private
<1>3. CASE request[i] = NewRequest(l, draft[s].text)
  <2>1. d[1] = l[1] /\ d[2] = l[2]
    BY <1>1, <1>3 DEF NewRequest
  <2>2. d = <<d[1], d[2]>> /\ l = <<l[1], l[2]>>
    BY DEF Lane, DraftLane
  <2>3. QED
    BY <2>1, <2>2
<1>4. QED
  BY <1>2, <1>3 DEF Inv, DraftInv

(* The call looks up what awaits reconciliation, or submits its own request. *)
LEMMA AdmissionStep ==
    ASSUME Inv, NEW l \in Lane, l[2] \in Modality, NEW i \in Id, NEW t \in Text,
           Admission(l, i, t), Private(l, i),
           mount' = mount, reconcile' = reconcile, UNCHANGED runtime
    PROVE  /\ lane' \in [Lane -> Call] /\ LaneInv'
           /\ sent' \in [Id -> Nat] /\ net' \subseteq Message
           /\ ContinuationsAreApproved'
           /\ request' \in [Id -> Request \cup {NotSubmitted}]
           /\ \/ reconcile # NoId /\ request' = request
              \/ reconcile = NoId /\ request' = [request EXCEPT ![i] = NewRequest(l, t)]
<1>1. TypeOK /\ LaneInv /\ ContinuationsAreApproved /\ l[1] \in Surface
  BY LaneFields DEF Inv
<1>2. ledger' = ledger /\ approval' = approval /\ Steady
  BY UnservedStep DEF runtime, Inv, TypeOK, RuntimeInv, RuntimeOK
<1>3. CASE reconcile # NoId
  <2> DEFINE c == [Idle EXCEPT !.at = "precheck", !.id = reconcile, !.text = t]
  <2>1. /\ lane' = [lane EXCEPT ![l] = c]
        /\ request' = request /\ sent' = sent /\ net' = net
    BY <1>3 DEF Admission
  <2>2. reconcile \in Id
    BY <1>1, <1>3 DEF TypeOK
  <2>3. c \in Call /\ c.at = "precheck" /\ c.id = reconcile /\ c.seen = "nothing"
    BY <2>2 DEF Idle, Call
  <2>4. lane'[l] = c
    BY <1>1, <2>1 DEF TypeOK
  <2>5. LaneOK(l)'
    BY <2>2, <2>3, <2>4 DEF LaneOK, Submitting, Final
  <2>6. lane' \in [Lane -> Call] /\ LaneInv'
    BY <1>1, <1>2, <2>1, <2>3, <2>5, OneLaneMoves
  <2>7. QED
    BY <1>1, <1>2, <1>3, <2>1, <2>6 DEF TypeOK, ContinuationsAreApproved
<1>4. CASE reconcile = NoId
  <2>1. Post(l, i, t, FALSE) /\ request' = [request EXCEPT ![i] = NewRequest(l, t)]
    BY <1>4 DEF Admission
  <2> DEFINE c == lane'[l]
             m == [kind |-> Kind(l), id |-> i, n |-> sent'[i]]
  <2>2. /\ sent' \in [Id -> Nat] /\ m \in Message /\ net' = net \cup {m}
        /\ lane' = [lane EXCEPT ![l] = c] /\ c \in Call
        /\ c.at = "post" /\ c.id = i /\ c.text = t /\ c.seen = "nothing"
    <3>1. Posts(l, i, t) /\ t \in Text \cup {NoText}
      BY <2>1 DEF Posts
    <3>2. QED
      BY <1>1, <3>1, PostStep
  <2>3. m.kind = "submit"
    BY DEF Kind, Modality
  <2>4. NewRequest(l, t)' = NewRequest(l, t) /\ NewRequest(l, t) \in Request
    BY <1>1 DEF NewRequest, Request, TypeOK
  <2>5. request' \in [Id -> Request \cup {NotSubmitted}] /\ request'[i] = NewRequest(l, t)
    BY <1>1, <2>1, <2>4 DEF TypeOK
  <2>6. LaneOK(l)'
    <3>1. l[2] # "decision"
      BY DEF Modality
    <3>2. QED
      BY <2>2, <2>4, <2>5, <3>1 DEF LaneOK, Submitting, Final, NewRequest
  <2>7. \A d \in Lane \ {l} : d[2] \in Modality /\ Submitting(d) =>
            request'[lane[d].id] = request[lane[d].id]
    <3>1. SUFFICES ASSUME NEW d \in Lane \ {l}, d[2] \in Modality, Submitting(d)
                   PROVE  request'[lane[d].id] = request[lane[d].id]
      OBVIOUS
    <3>2. lane[d].id \in Id /\ lane[d].id # i
      BY <1>1, <3>1 DEF Private, LaneInv, LaneOK, Submitting
    <3>3. QED
      BY <1>1, <2>1, <3>2 DEF TypeOK
  <2>8. lane' \in [Lane -> Call] /\ LaneInv'
    BY <1>1, <1>2, <2>2, <2>6, <2>7, OneLaneMoves
  <2>9. ContinuationsAreApproved' /\ net' \subseteq Message
    BY <1>1, <1>2, <2>2, <2>3 DEF ContinuationsAreApproved, TypeOK
  <2>10. QED
    BY <1>4, <2>1, <2>2, <2>5, <2>8, <2>9
<1>5. QED
  BY <1>3, <1>4

(* What a call that starts leaves alone, and what is left to show of it. *)
LEMMA StartFrame ==
    ASSUME Inv, NEW l \in Lane, Start(l), UNCHANGED <<mount, card, storage, runtime>>,
           UNCHANGED <<unresolved, denied>>, shown' = NotShown,
           busy' \in [Surface -> BOOLEAN], nextId' \in 1 .. MaxId + 1,
           draft' \in [Surface -> [id : Id, text : Text] \cup {NoDraft}],
           lane' \in [Lane -> Call], LaneInv',
           sent' \in [Id -> Nat], net' \subseteq Message,
           request' \in [Id -> Request \cup {NotSubmitted}],
           ContinuationsAreApproved', DraftInv', FreshInv'
    PROVE  Inv'
<1>1. /\ mount' = mount /\ card' = card /\ pointer' = pointer /\ reconcile' = reconcile
      /\ ledger' = ledger /\ approval' = approval
      /\ unresolved' = unresolved /\ denied' = denied
  BY DEF storage, runtime
<1>2. calls' \in 0 .. MaxCall
  BY BoundAssumption DEF Start, Inv, TypeOK
<1>3. shown' \in {NotShown} \cup
          [lane : Lane, id : Id, text : Text \cup {NoText}, outcome : Terminal]
  OBVIOUS
<1>4. TypeOK'
  BY <1>1, <1>2, <1>3 DEF Inv, TypeOK
<1>5. RuntimeInv'
  BY <1>1 DEF Inv, RuntimeInv, Recorded
<1>6. AnswersFitTheQuestion' /\ BlockIsInDoubt'
  BY <1>1 DEF Inv, AnswersFitTheQuestion, BlockIsInDoubt
<1>7. QED
  BY <1>4, <1>5, <1>6 DEF Inv

(* The next id has not been submitted, nor has a draft it. *)
LEMMA NextIdIsFresh ==
    ASSUME Inv, nextId <= MaxId
    PROVE  /\ nextId \in Id /\ request[nextId] = NotSubmitted
           /\ nextId + 1 \in 1 .. MaxId + 1 /\ nextId \in Nat
           /\ \A s \in Surface : draft[s] # NoDraft =>
                 draft[s].id \in Id /\ draft[s].id < nextId
<1>1. nextId \in Id /\ nextId + 1 \in 1 .. MaxId + 1 /\ nextId \in Nat
  BY BoundAssumption DEF Inv, TypeOK, Id
<1>2. request[nextId] = NotSubmitted
  BY <1>1 DEF Inv, FreshInv
<1>3. \A s \in Surface : draft[s] # NoDraft =>
          draft[s].id \in Id /\ draft[s].id < nextId
  BY DEF Inv, DraftInv, TypeOK
<1>4. QED
  BY <1>1, <1>2, <1>3

LEMMA AskStep ==
    ASSUME Inv, NEW s \in Surface, NEW t \in Text, Ask(s, t) PROVE Inv'
<1> DEFINE l == <<s, "text">>
           i == nextId
<1>1. /\ l \in Lane /\ l[2] \in Modality /\ l[1] = s /\ TypeOK
  BY DEF Lane, Modality, Inv
<1>2. /\ i \in Id /\ request[i] = NotSubmitted /\ i \in Nat
      /\ i + 1 \in 1 .. MaxId + 1
      /\ \A u \in Surface : draft[u] # NoDraft => draft[u].id \in Id /\ draft[u].id < i
  BY NextIdIsFresh DEF Ask
<1>3. Private(l, i)
  BY <1>1, <1>2, FreshIsPrivate
<1>4. /\ Start(l) /\ Admission(l, i, t) /\ shown' = NotShown
      /\ UNCHANGED <<mount, card, storage, runtime>> /\ UNCHANGED <<unresolved, denied>>
      /\ reconcile' = reconcile /\ mount' = mount /\ draft' = draft
      /\ nextId' = (IF reconcile # NoId THEN i ELSE i + 1)
      /\ busy' = [busy EXCEPT ![s] = TRUE]
  BY DEF Ask, storage
<1>5. /\ lane' \in [Lane -> Call] /\ LaneInv'
      /\ sent' \in [Id -> Nat] /\ net' \subseteq Message /\ ContinuationsAreApproved'
      /\ request' \in [Id -> Request \cup {NotSubmitted}]
      /\ \/ reconcile # NoId /\ request' = request
         \/ reconcile = NoId /\ request' = [request EXCEPT ![i] = NewRequest(l, t)]
  BY <1>1, <1>2, <1>3, <1>4, AdmissionStep
<1>6. FreshInv'
  <2>1. CASE reconcile # NoId
    BY <1>4, <1>5, <2>1 DEF Inv, FreshInv
  <2>2. CASE reconcile = NoId
    <3>1. \A j \in Id : j >= i + 1 => j >= i /\ j # i
      BY <1>2 DEF Id
    <3>2. QED
      BY <1>1, <1>4, <1>5, <2>2, <3>1 DEF Inv, FreshInv, TypeOK
  <2>3. QED
    BY <2>1, <2>2
<1>7. DraftInv'
  <2>1. i <= nextId' /\ nextId' \in 1 .. MaxId + 1
    BY <1>1, <1>2, <1>4 DEF TypeOK
  <2>2. \A u \in Surface : draft[u] # NoDraft =>
            draft[u].id < nextId' /\ request'[draft[u].id] = request[draft[u].id]
    BY <1>1, <1>2, <1>5, <2>1 DEF TypeOK, Id
  <2>3. QED
    BY <1>4, <2>2 DEF Inv, DraftInv, NewRequest
<1>8. busy' \in [Surface -> BOOLEAN] /\ nextId' \in 1 .. MaxId + 1
  BY <1>1, <1>2, <1>4 DEF TypeOK
<1>9. draft' \in [Surface -> [id : Id, text : Text] \cup {NoDraft}]
  BY <1>1, <1>4 DEF TypeOK
<1>10. QED
  BY <1>1, <1>4, <1>5, <1>6, <1>7, <1>8, <1>9, StartFrame

LEMMA SpeakStep ==
    ASSUME Inv, NEW s \in Surface, NEW t \in Text, Speak(s, t) PROVE Inv'
<1> DEFINE l == DraftLane(s)
           i == nextId
           new == [id |-> i, text |-> t]
<1>1. /\ l \in Lane /\ l[2] \in Modality /\ l[1] = s /\ TypeOK
  BY DraftLaneIs DEF Inv
<1>2. /\ i \in Id /\ request[i] = NotSubmitted /\ i \in Nat
      /\ i + 1 \in 1 .. MaxId + 1
      /\ \A u \in Surface : draft[u] # NoDraft => draft[u].id \in Id /\ draft[u].id < i
  BY NextIdIsFresh DEF Speak
<1>3. Private(l, i)
  BY <1>1, <1>2, FreshIsPrivate
<1>4. /\ Start(l) /\ Admission(l, i, t) /\ shown' = NotShown
      /\ UNCHANGED <<mount, card, storage, runtime>> /\ UNCHANGED <<unresolved, denied>>
      /\ reconcile' = reconcile /\ mount' = mount
      /\ draft' = [draft EXCEPT ![s] = new]
      /\ nextId' = i + 1
      /\ busy' = [busy EXCEPT ![s] = TRUE]
  BY DEF Speak, storage
<1>5. /\ lane' \in [Lane -> Call] /\ LaneInv'
      /\ sent' \in [Id -> Nat] /\ net' \subseteq Message /\ ContinuationsAreApproved'
      /\ request' \in [Id -> Request \cup {NotSubmitted}]
      /\ \/ reconcile # NoId /\ request' = request
         \/ reconcile = NoId /\ request' = [request EXCEPT ![i] = NewRequest(l, t)]
  BY <1>1, <1>2, <1>3, <1>4, AdmissionStep
<1>6. FreshInv'
  BY <1>1, <1>2, <1>4, <1>5 DEF Inv, FreshInv, TypeOK, Id
<1>7. draft' \in [Surface -> [id : Id, text : Text] \cup {NoDraft}]
      /\ draft'[s] = new /\ \A u \in Surface \ {s} : draft'[u] = draft[u]
  BY <1>1, <1>2, <1>4 DEF TypeOK
<1>8. DraftInv'
  <2>1. new.id < nextId' /\ request'[new.id] \in {NotSubmitted, NewRequest(l, t)}
    BY <1>1, <1>2, <1>4, <1>5 DEF TypeOK
  <2>2. \A u \in Surface : draft[u] # NoDraft =>
            /\ draft[u].id < nextId' /\ draft[u].id # new.id
            /\ request'[draft[u].id] = request[draft[u].id]
    BY <1>1, <1>2, <1>4, <1>5 DEF TypeOK, Id
  <2>3. NewRequest(l, t)' = NewRequest(l, t)
    BY <1>4 DEF NewRequest
  <2>4. \A u \in Surface : draft'[u] # NoDraft =>
            /\ draft'[u].id < nextId'
            /\ request'[draft'[u].id] \in
                 {NotSubmitted, NewRequest(DraftLane(u), draft'[u].text)}
    <3>1. ASSUME NEW u \in Surface \ {s}, draft'[u] # NoDraft
          PROVE  /\ draft'[u].id < nextId'
                 /\ request'[draft'[u].id] \in
                      {NotSubmitted, NewRequest(DraftLane(u), draft'[u].text)}
      BY <1>7, <2>2, <3>1 DEF Inv, DraftInv
    <3>2. QED
      BY <1>7, <2>1, <3>1
  <2>5. \A u, v \in Surface :
            u # v /\ draft'[u] # NoDraft /\ draft'[v] # NoDraft =>
                draft'[u].id # draft'[v].id
    BY <1>7, <2>2 DEF Inv, DraftInv
  <2>6. QED
    BY <1>4, <2>4, <2>5 DEF DraftInv, NewRequest
<1>9. busy' \in [Surface -> BOOLEAN] /\ nextId' \in 1 .. MaxId + 1
  BY <1>1, <1>2, <1>4 DEF TypeOK
<1>10. QED
  BY <1>1, <1>4, <1>5, <1>6, <1>7, <1>8, <1>9, StartFrame

LEMMA RetryStep == ASSUME Inv, NEW s \in Surface, Retry(s) PROVE Inv'
<1> DEFINE l == DraftLane(s)
           i == draft[s].id
           t == draft[s].text
<1>1. /\ l \in Lane /\ l[2] \in Modality /\ l[1] = s /\ TypeOK /\ draft[s] # NoDraft
  BY DraftLaneIs DEF Inv, Retry
<1>2. i \in Id /\ t \in Text /\ i < nextId
  BY <1>1 DEF TypeOK, Inv, DraftInv
<1>3. Private(l, i)
  BY <1>1, DraftIsPrivate
<1>4. /\ Start(l) /\ Admission(l, i, t) /\ shown' = NotShown
      /\ UNCHANGED <<mount, card, storage, runtime>> /\ UNCHANGED <<unresolved, denied>>
      /\ reconcile' = reconcile /\ mount' = mount /\ draft' = draft
      /\ nextId' = nextId /\ busy' = [busy EXCEPT ![s] = TRUE]
  BY DEF Retry, storage
<1>5. /\ lane' \in [Lane -> Call] /\ LaneInv'
      /\ sent' \in [Id -> Nat] /\ net' \subseteq Message /\ ContinuationsAreApproved'
      /\ request' \in [Id -> Request \cup {NotSubmitted}]
      /\ \/ reconcile # NoId /\ request' = request
         \/ reconcile = NoId /\ request' = [request EXCEPT ![i] = NewRequest(l, t)]
  BY <1>1, <1>2, <1>3, <1>4, AdmissionStep
<1>6. FreshInv'
  BY <1>1, <1>2, <1>4, <1>5 DEF Inv, FreshInv, TypeOK, Id
<1>7. DraftInv'
  <2>1. \A u \in Surface : draft[u] # NoDraft =>
            request'[draft[u].id] \in
                {NotSubmitted, NewRequest(DraftLane(u), draft[u].text)}
    <3>1. ASSUME NEW u \in Surface \ {s}, draft[u] # NoDraft
          PROVE  request'[draft[u].id] = request[draft[u].id]
      <4>1. draft[u].id # i /\ draft[u].id \in Id
        BY <1>1, <3>1 DEF Inv, DraftInv, TypeOK
      <4>2. QED
        BY <1>1, <1>5, <4>1 DEF TypeOK
    <3>2. request'[i] \in {NotSubmitted, NewRequest(l, t)}
      BY <1>1, <1>2, <1>5 DEF Inv, DraftInv, TypeOK
    <3>3. QED
      BY <3>1, <3>2 DEF Inv, DraftInv
  <2>2. QED
    BY <1>4, <2>1 DEF Inv, DraftInv, NewRequest
<1>8. busy' \in [Surface -> BOOLEAN] /\ nextId' \in 1 .. MaxId + 1
  BY <1>1, <1>4 DEF TypeOK
<1>9. draft' \in [Surface -> [id : Id, text : Text] \cup {NoDraft}]
  BY <1>1, <1>4 DEF TypeOK
<1>10. QED
  BY <1>1, <1>4, <1>5, <1>6, <1>7, <1>8, <1>9, StartFrame

(* The operator decides about an approval. *)
LEMMA DecideStep ==
    ASSUME Inv, NEW s \in Surface, NEW verdict \in {"approve", "deny"}, Decide(s, verdict)
    PROVE  Inv'
<1> DEFINE l == <<s, "decision">>
           i == card[s]
           c == [Idle EXCEPT !.at = verdict, !.id = i]
           m == [kind |-> verdict, id |-> i, n |-> 0]
<1>1. /\ Start(l) /\ i # NoId /\ lane' = [lane EXCEPT ![l] = c]
      /\ net' = net \cup {m} /\ shown' = NotShown
      /\ UNCHANGED <<page, storage, ids, runtime, unresolved, denied>>
  BY DEF Decide
<1>2. /\ UNCHANGED <<mount, card, storage, runtime>> /\ UNCHANGED <<unresolved, denied>>
      /\ busy' = busy /\ draft' = draft /\ nextId' = nextId /\ request' = request
      /\ sent' = sent /\ mount' = mount /\ ledger' = ledger /\ approval' = approval
  BY <1>1 DEF page, ids, runtime
<1>3. l \in Lane /\ l[2] = "decision" /\ TypeOK /\ i \in Id
  BY <1>1 DEF Lane, Inv, TypeOK
<1>4. /\ c \in Call /\ c.at = verdict /\ c.id = i /\ c.seen = "nothing"
      /\ m \in Message /\ m.kind = verdict
  BY <1>3 DEF Idle, Call, Message
<1>5. lane'[l] = c
  BY <1>1, <1>3 DEF TypeOK
<1>6. LaneOK(l)'
  BY <1>3, <1>4, <1>5 DEF LaneOK, Submitting, Final
<1>7. Steady
  BY <1>2, UnservedStep DEF Inv, TypeOK, RuntimeInv, RuntimeOK
<1>8. lane' \in [Lane -> Call] /\ LaneInv'
  BY <1>1, <1>2, <1>3, <1>4, <1>6, <1>7, OneLaneMoves DEF Inv
<1>9. ContinuationsAreApproved' /\ net' \subseteq Message
  BY <1>1, <1>2, <1>3, <1>4 DEF Inv, ContinuationsAreApproved, TypeOK
<1>10. DraftInv' /\ FreshInv'
  BY <1>2 DEF Inv, DraftInv, FreshInv, NewRequest
<1>11. /\ busy' \in [Surface -> BOOLEAN] /\ nextId' \in 1 .. MaxId + 1
       /\ draft' \in [Surface -> [id : Id, text : Text] \cup {NoDraft}]
       /\ sent' \in [Id -> Nat] /\ request' \in [Id -> Request \cup {NotSubmitted}]
  BY <1>2, <1>3 DEF TypeOK
<1>12. QED
  BY <1>1, <1>2, <1>3, <1>8, <1>9, <1>10, <1>11, StartFrame

-----------------------------------------------------------------------------
(* A reload, and what the Runtime does. *)
LEMMA ReloadStep == ASSUME Inv, Reload PROVE Inv'
<1>1. /\ mount < MaxReload /\ mount' = mount + 1
      /\ lane' = [l \in Lane |->
           IF l[2] = "recovery" /\ l[1] # "action" /\ pointer # NoId
           THEN [Idle EXCEPT !.at = "recover", !.id = pointer]
           ELSE Idle]
      /\ card' = [s \in Surface |-> NoId] /\ draft' = [s \in Surface |-> NoDraft]
      /\ busy' = [s \in Surface |-> FALSE] /\ shown' = NotShown
      /\ pointer' = pointer /\ reconcile' = reconcile /\ nextId' = nextId
      /\ request' = request /\ sent' = sent /\ net' = net /\ ledger' = ledger
      /\ approval' = approval /\ unresolved' = unresolved /\ denied' = denied
      /\ calls' = calls
  BY DEF Reload, storage, ids, runtime
<1> DEFINE c == [Idle EXCEPT !.at = "recover", !.id = pointer]
<1>2. pointer # NoId =>
          c \in Call /\ c.at = "recover" /\ c.id \in Id /\ c.seen = "nothing"
  BY DEF Inv, TypeOK, Idle, Call
<1> HIDE DEF c
<1>3. \A l \in Lane : lane'[l] = Idle \/ (pointer # NoId /\ lane'[l] = c)
  BY <1>1 DEF c
<1>4. lane' \in [Lane -> Call]
  BY <1>1, <1>2, <1>3, Sentinels
<1>5. LaneInv'
  BY <1>2, <1>3, Sentinels DEF LaneInv, LaneOK, Submitting, Final
<1>6. mount' \in 0 .. MaxReload
  BY <1>1, BoundAssumption DEF Inv, TypeOK
<1>7. TypeOK'
  BY <1>1, <1>4, <1>6 DEF Inv, TypeOK
<1>8. RuntimeInv'
  BY <1>1 DEF Inv, RuntimeInv, Recorded
<1>9. DraftInv' /\ FreshInv'
  BY <1>1 DEF Inv, DraftInv, FreshInv
<1>10. ContinuationsAreApproved' /\ AnswersFitTheQuestion' /\ BlockIsInDoubt'
  BY <1>1 DEF Inv, ContinuationsAreApproved, AnswersFitTheQuestion, BlockIsInDoubt
<1>11. QED
  BY <1>5, <1>7, <1>8, <1>9, <1>10 DEF Inv

(* A step of the Runtime takes messages from the network and moves its records. *)
LEMMA RuntimeFrame ==
    ASSUME Inv, RuntimeOK', Steady, net' \subseteq net, shown' = NotShown,
           UNCHANGED <<lane, page, storage, ids, unresolved, denied, calls>>
    PROVE  Inv'
<1>1. /\ card' = card /\ draft' = draft /\ busy' = busy /\ mount' = mount
      /\ pointer' = pointer /\ reconcile' = reconcile /\ nextId' = nextId
      /\ request' = request /\ sent' = sent /\ lane' = lane
      /\ unresolved' = unresolved /\ denied' = denied /\ calls' = calls
  BY DEF page, storage, ids
<1>2. TypeOK'
  BY <1>1 DEF Inv, TypeOK, RuntimeOK
<1>3. RuntimeInv'
  BY <1>1 DEF Inv, TypeOK, RuntimeOK, RuntimeInv, Steady, DenialHolds
<1>4. LaneInv'
  BY <1>1 DEF Inv, LaneInv, LaneOK, Submitting, Steady, NewRequest
<1>5. DraftInv' /\ FreshInv'
  BY <1>1 DEF Inv, DraftInv, FreshInv, NewRequest
<1>6. ContinuationsAreApproved'
  BY <1>1 DEF Inv, TypeOK, Message, ContinuationsAreApproved, Steady, ApprovalHolds
<1>7. AnswersFitTheQuestion' /\ BlockIsInDoubt'
  BY <1>1 DEF Inv, AnswersFitTheQuestion, BlockIsInDoubt
<1>8. QED
  BY <1>2, <1>3, <1>4, <1>5, <1>6, <1>7 DEF Inv

LEMMA ReceiveStep == ASSUME Inv, NEW m \in net, RuntimeReceives(m) PROVE Inv'
<1>1. RuntimeOK /\ m \in Message
  BY DEF Inv, TypeOK, RuntimeInv, RuntimeOK
<1>2. RuntimeOK' /\ Steady
  BY <1>1, ServeStep DEF RuntimeReceives
<1>3. net' \subseteq net
  BY DEF RuntimeReceives
<1>4. QED
  BY <1>2, <1>3, RuntimeFrame DEF RuntimeReceives

LEMMA FinishesStep == ASSUME Inv, NEW i \in Id, RuntimeFinishes(i) PROVE Inv'
<1>1. RuntimeOK' /\ Steady
  BY FinishStep DEF Inv, TypeOK, RuntimeInv, RuntimeOK
<1>2. net' \subseteq net
  BY DEF RuntimeFinishes
<1>3. QED
  BY <1>1, <1>2, RuntimeFrame DEF RuntimeFinishes

-----------------------------------------------------------------------------
LEMMA ContinueStep == ASSUME Inv, NEW l \in Lane, Continue(l) PROVE Inv'
<1>1. CASE ReplyAdmitted(l)
  BY <1>1, ReplyAdmittedStep
<1>2. CASE ReplyMalformed(l)
  BY <1>2, ReplyMalformedStep
<1>3. CASE ReplyAmbiguous(l)
  BY <1>3, ReplyAmbiguousStep
<1>4. CASE ReplyRefused(l)
  BY <1>4, ReplyRefusedStep
<1>5. CASE LookUp(l)
  BY <1>5, LookUpStep
<1>6. CASE LookFinds(l)
  BY <1>6, LookFindsStep
<1>7. CASE LookMisses(l)
  BY <1>7, LookMissesStep
<1>8. CASE LookGivesUp(l)
  BY <1>8, LookGivesUpStep
<1>9. CASE PrecheckAdmits(l)
  BY <1>9, PrecheckAdmitsStep
<1>10. CASE PrecheckBlocks(l)
  BY <1>10, PrecheckBlocksStep
<1>11. CASE DecisionFails(l)
  BY <1>11, DecisionFailsStep
<1>12. CASE ApprovalAnswered(l)
  BY <1>12, ApprovalAnsweredStep
<1>13. CASE DenialAnswered(l)
  BY <1>13, DenialAnsweredStep
<1>14. CASE Recover(l)
  BY <1>14, RecoverStep
<1>15. QED
  BY <1>1, <1>2, <1>3, <1>4, <1>5, <1>6, <1>7, <1>8, <1>9, <1>10, <1>11, <1>12,
     <1>13, <1>14 DEF Continue

LEMMA StutterStep == ASSUME Inv, UNCHANGED vars PROVE Inv'
<1>1. /\ lane' = lane /\ calls' = calls /\ card' = card /\ draft' = draft
      /\ busy' = busy /\ mount' = mount /\ pointer' = pointer /\ reconcile' = reconcile
      /\ nextId' = nextId /\ request' = request /\ sent' = sent /\ net' = net
      /\ ledger' = ledger /\ approval' = approval /\ unresolved' = unresolved
      /\ denied' = denied /\ shown' = shown
  BY DEF vars, page, storage, ids, runtime, history
<1>2. TypeOK'
  BY <1>1 DEF Inv, TypeOK
<1>3. RuntimeInv' /\ LaneInv'
  BY <1>1 DEF Inv, RuntimeInv, Recorded, LaneInv, LaneOK, Submitting, NewRequest, ApprovalHolds
<1>4. DraftInv' /\ FreshInv'
  BY <1>1 DEF Inv, DraftInv, FreshInv, NewRequest
<1>5. ContinuationsAreApproved' /\ AnswersFitTheQuestion' /\ BlockIsInDoubt'
  BY <1>1 DEF Inv, ContinuationsAreApproved, AnswersFitTheQuestion, BlockIsInDoubt, NewRequest
<1>6. QED
  BY <1>2, <1>3, <1>4, <1>5 DEF Inv

LEMMA NextInv == Inv /\ [Next]_vars => Inv'
<1> SUFFICES ASSUME Inv, [Next]_vars PROVE Inv'
  OBVIOUS
<1>1. CASE \E s \in Surface, t \in Text : Ask(s, t) \/ Speak(s, t)
  BY <1>1, AskStep, SpeakStep
<1>2. CASE \E s \in Surface : Retry(s)
  BY <1>2, RetryStep
<1>3. CASE \E s \in Surface, verdict \in {"approve", "deny"} : Decide(s, verdict)
  BY <1>3, DecideStep
<1>4. CASE \E l \in Lane : Continue(l)
  BY <1>4, ContinueStep
<1>5. CASE Reload
  BY <1>5, ReloadStep
<1>6. CASE \E m \in net : RuntimeReceives(m)
  BY <1>6, ReceiveStep
<1>7. CASE \E i \in Id : RuntimeFinishes(i)
  BY <1>7, FinishesStep
<1>8. CASE UNCHANGED vars
  BY <1>8, StutterStep
<1>9. QED
  BY <1>1, <1>2, <1>3, <1>4, <1>5, <1>6, <1>7, <1>8 DEF Next

-----------------------------------------------------------------------------
(* What ends a block.  Reached: the Runtime has, or had before a continuation, a
   result of the interaction. *)
Reached == Terminal \cup {"resuming"}

(* A lane that recovers a card does not submit, and a lane that has read a result
   has read one that the Runtime had. *)
ReadOK(l) ==
    /\ Submitting(l) => l[2] # "recovery"
    /\ lane[l].seen \in Terminal => lane[l].id \in Id /\ ledger[lane[l].id] \in Reached

ReadInv == \A l \in Lane : ReadOK(l)

(* A result is never taken back. *)
Kept == \A i \in Id : ledger[i] \in Reached => ledger'[i] \in Reached

LEMMA InitReadInv == Init => ReadInv
  BY Sentinels DEF Init, ReadInv, ReadOK, Submitting, Terminal, Final

LEMMA UnservedKept == ASSUME UNCHANGED runtime PROVE Kept
  BY DEF runtime, Kept

LEMMA ServedKept ==
    ASSUME Inv, NEW m \in net, RuntimeReceives(m) PROVE Kept
<1>1. m.id \in Id /\ ledger \in [Id -> {"absent", "running", "resuming"} \cup Terminal]
      /\ Serve(m) /\ Recorded(m.id)
  BY DEF Inv, TypeOK, RuntimeInv, RuntimeReceives, Message
<1>2. CASE m.kind = "submit" /\ ledger[m.id] = "absent"
  BY <1>1, <1>2 DEF Serve, Kept, Reached, Terminal, Final
<1>3. CASE m.kind = "resume" /\ ledger[m.id] = "gate" /\ approval[m.id] = "approved"
  BY <1>1, <1>3 DEF Serve, Kept, Reached, Terminal, Final
<1>4. CASE m.kind = "approve" /\ approval[m.id] = "pending"
  BY <1>1, <1>4 DEF Serve, Kept
<1>5. CASE m.kind = "deny" /\ approval[m.id] = "pending"
  BY <1>1, <1>5 DEF Serve, Kept, Reached, Terminal, Final
<1>6. CASE /\ ~(m.kind = "submit" /\ ledger[m.id] = "absent")
           /\ ~(m.kind = "resume" /\ ledger[m.id] = "gate" /\ approval[m.id] = "approved")
           /\ ~(m.kind = "approve" /\ approval[m.id] = "pending")
           /\ ~(m.kind = "deny" /\ approval[m.id] = "pending")
  <2>1. UNCHANGED runtime
    BY <1>1, <1>6 DEF Serve
  <2>2. QED
    BY <2>1, UnservedKept
<1>7. QED
  BY <1>2, <1>3, <1>4, <1>5, <1>6

LEMMA FinishedKept ==
    ASSUME Inv, NEW i \in Id, RuntimeFinishes(i) PROVE Kept
<1>1. ledger \in [Id -> {"absent", "running", "resuming"} \cup Terminal]
  BY DEF Inv, TypeOK
<1>2. QED
  BY <1>1 DEF RuntimeFinishes, Kept, Reached, Terminal, Final

(* A step that moves one lane, or none. *)
LEMMA OneLaneReads ==
    ASSUME Inv, ReadInv, Kept, NEW l \in Lane, NEW c, lane' = [lane EXCEPT ![l] = c],
           c.at \in {"post", "look"} => l[2] # "recovery",
           c.seen \in Terminal => c.id \in Id /\ ledger'[c.id] \in Reached
    PROVE  ReadInv'
<1>1. lane \in [Lane -> Call]
  BY DEF Inv, TypeOK
<1>2. ASSUME NEW d \in Lane PROVE ReadOK(d)'
  <2>1. CASE d = l
    <3>1. lane'[d] = c
      BY <1>1, <2>1
    <3>2. QED
      BY <2>1, <3>1 DEF ReadOK, Submitting
  <2>2. CASE d # l
    <3>1. lane'[d] = lane[d] /\ ReadOK(d)
      BY <1>1, <2>2 DEF ReadInv
    <3>2. QED
      BY <3>1 DEF ReadOK, Submitting, Kept
  <2>3. QED
    BY <2>1, <2>2
<1>3. QED
  BY <1>2 DEF ReadInv

LEMMA NoLaneReads ==
    ASSUME ReadInv, Kept, lane' = lane PROVE ReadInv'
<1>1. ASSUME NEW d \in Lane PROVE ReadOK(d)'
  <2>1. ReadOK(d)
    BY DEF ReadInv
  <2>2. QED
    BY <2>1 DEF ReadOK, Submitting, Kept
<1>2. QED
  BY <1>1 DEF ReadInv

LEMMA ReleasedReads ==
    ASSUME Inv, ReadInv, Kept, NEW l \in Lane, Release(l) PROVE ReadInv'
<1>1. /\ lane' = [lane EXCEPT ![l] = Idle]
      /\ Idle.at \notin {"post", "look"} /\ Idle.seen \notin Terminal
  BY Sentinels DEF Release, Terminal, Final
<1>2. QED
  BY <1>1, OneLaneReads

LEMMA PostedReads ==
    ASSUME Inv, ReadInv, Kept, NEW l \in Lane, NEW i \in Id, NEW t \in Text \cup {NoText},
           Posts(l, i, t), l[2] # "recovery"
    PROVE  ReadInv'
<1> DEFINE c == lane'[l]
<1>1. lane' = [lane EXCEPT ![l] = c] /\ c.seen = "nothing"
  BY PostStep DEF Inv
<1> HIDE DEF c
<1>2. c.seen \notin Terminal
  BY <1>1 DEF Terminal, Final
<1>3. QED
  BY <1>1, <1>2, OneLaneReads

LEMMA AdmissionReads ==
    ASSUME Inv, ReadInv, NEW l \in Lane, l[2] \in Modality, NEW i \in Id, NEW t \in Text,
           Admission(l, i, t), UNCHANGED runtime
    PROVE  ReadInv'
<1>1. Kept /\ l[2] # "recovery"
  BY UnservedKept DEF Modality
<1>2. CASE reconcile # NoId
  <2> DEFINE c == [Idle EXCEPT !.at = "precheck", !.id = reconcile, !.text = t]
  <2>1. lane' = [lane EXCEPT ![l] = c]
    BY <1>2 DEF Admission
  <2>2. c.seen = "nothing"
    BY DEF Idle
  <2> HIDE DEF c
  <2>3. c.seen \notin Terminal
    BY <2>2 DEF Terminal, Final
  <2>4. QED
    BY <1>1, <2>1, <2>3, OneLaneReads
<1>3. CASE reconcile = NoId
  <2>1. Posts(l, i, t) /\ t \in Text \cup {NoText}
    BY <1>3 DEF Admission, Posts
  <2>2. QED
    BY <1>1, <2>1, PostedReads
<1>4. QED
  BY <1>2, <1>3

LEMMA LookReads ==
    ASSUME Inv, ReadInv, NEW l \in Lane, LookUp(l) PROVE ReadInv'
<1>1. /\ lane \in [Lane -> Call] /\ lane[l] \in Call /\ lane[l].id \in Id /\ ReadOK(l)
      /\ ledger[lane[l].id] \in {"absent", "running", "resuming"} \cup Terminal
      /\ ledger' = ledger /\ Kept
  BY Waiting, UnservedKept DEF LookUp, TypeOK, ReadInv, runtime
<1>2. PICK r \in Readings(lane[l].id) \cup {"unavailable"} :
          lane' = [lane EXCEPT ![l].seen = r]
  BY DEF LookUp
<1> DEFINE c == [lane[l] EXCEPT !.seen = r]
<1>3. r \in Terminal => ledger'[lane[l].id] \in Reached
  BY <1>1 DEF Readings, Reached, Final, Terminal
<1>4. lane' = [lane EXCEPT ![l] = c]
  BY <1>1, <1>2
<1>5. c.at = lane[l].at /\ c.id = lane[l].id /\ c.seen = r
  BY <1>1 DEF Call
<1> HIDE DEF c
<1>6. QED
  BY <1>1, <1>3, <1>4, <1>5, OneLaneReads DEF ReadOK, Submitting

LEMMA WaitReads ==
    ASSUME Inv, ReadInv, NEW l \in Lane, ReplyMalformed(l) \/ ReplyAmbiguous(l)
    PROVE  ReadInv'
<1>1. /\ lane \in [Lane -> Call] /\ lane[l] \in Call /\ ReadOK(l) /\ lane[l].at = "post"
      /\ ledger' = ledger /\ Kept
  BY UnservedKept DEF Inv, TypeOK, ReplyMalformed, ReplyAmbiguous, ReadInv, runtime
<1>2. PICK doubt \in BOOLEAN :
          lane' = [lane EXCEPT ![l] = [@ EXCEPT !.at = "look", !.doubt = doubt]]
  <2>1. CASE ReplyMalformed(l)
    BY <1>1, <2>1 DEF ReplyMalformed
  <2>2. CASE ReplyAmbiguous(l)
    <3>1. /\ lane[l].doubt \in BOOLEAN
          /\ lane' = [lane EXCEPT ![l] = [@ EXCEPT !.at = "look", !.doubt = lane[l].doubt]]
      BY <1>1, <2>2 DEF ReplyAmbiguous, Call
    <3>2. QED
      BY <3>1
  <2>3. QED
    BY <2>1, <2>2
<1> DEFINE c == [lane[l] EXCEPT !.at = "look", !.doubt = doubt]
<1>3. lane' = [lane EXCEPT ![l] = c] /\ c.id = lane[l].id /\ c.seen = lane[l].seen
  BY <1>1, <1>2 DEF Call
<1> HIDE DEF c
<1>4. l[2] # "recovery" /\ (c.seen \in Terminal => c.id \in Id /\ ledger'[c.id] \in Reached)
  BY <1>1, <1>3 DEF ReadOK, Submitting
<1>5. QED
  BY <1>1, <1>3, <1>4, OneLaneReads

(* The steps that end a call. *)
Ends(l) ==
    \/ ReplyAdmitted(l) \/ ReplyRefused(l) \/ LookFinds(l) \/ LookGivesUp(l)
    \/ PrecheckAdmits(l) \/ PrecheckBlocks(l) \/ DecisionFails(l) \/ DenialAnswered(l)
    \/ Recover(l)

LEMMA AdmitEnds ==
    ASSUME NEW l, NEW outcome, Admit(l, outcome) PROVE Release(l) /\ UNCHANGED runtime
<1>1. UNCHANGED runtime
  BY DEF Admit
<1>2. Throw(l) \/ Present(l, outcome)
  BY DEF Admit
<1>3. QED
  BY <1>1, <1>2 DEF Throw, Present

LEMMA EndsRelease ==
    ASSUME NEW l \in Lane, Ends(l) PROVE Release(l) /\ UNCHANGED runtime
<1>1. CASE ReplyAdmitted(l) \/ LookFinds(l) \/ PrecheckAdmits(l)
  BY <1>1, AdmitEnds DEF ReplyAdmitted, LookFinds, PrecheckAdmits
<1>2. CASE ReplyRefused(l) \/ PrecheckBlocks(l) \/ DecisionFails(l)
  BY <1>2 DEF ReplyRefused, PrecheckBlocks, DecisionFails, Throw
<1>3. CASE LookGivesUp(l)
  BY <1>3 DEF LookGivesUp, GiveUp, Throw
<1>4. CASE DenialAnswered(l)
  BY <1>4 DEF DenialAnswered, Throw
<1>5. CASE Recover(l)
  BY <1>5 DEF Recover
<1>6. QED
  BY <1>1, <1>2, <1>3, <1>4, <1>5 DEF Ends

LEMMA ContinueReads ==
    ASSUME Inv, ReadInv, NEW l \in Lane, Continue(l) PROVE ReadInv'
<1>1. CASE Ends(l)
  BY <1>1, EndsRelease, UnservedKept, ReleasedReads
<1>2. CASE ReplyMalformed(l) \/ ReplyAmbiguous(l)
  BY <1>2, WaitReads
<1>3. CASE LookUp(l)
  BY <1>3, LookReads
<1>4. CASE LookMisses(l)
  <2>1. /\ Posts(l, lane[l].id, lane[l].text) /\ lane[l].id \in Id
        /\ lane[l].text \in Text \cup {NoText} /\ Kept
    BY <1>4, Waiting, UnservedKept DEF LookMisses, Posts
  <2>2. l[2] # "recovery"
    BY <1>4 DEF LookMisses, ReadInv, ReadOK, Submitting
  <2>3. QED
    BY <2>1, <2>2, PostedReads
<1>5. CASE ApprovalAnswered(l)
  <2>1. l[2] = "decision" /\ lane[l].id \in Id /\ Kept
    BY <1>5, Waiting, UnservedKept DEF ApprovalAnswered, LaneOK
  <2>2. CASE ApprovalHolds(lane[l].id)
    <3>1. Posts(l, lane[l].id, NoText) /\ l[2] # "recovery"
      BY <1>5, <2>1, <2>2 DEF ApprovalAnswered, Posts
    <3>2. QED
      BY <2>1, <3>1, PostedReads
  <2>3. CASE ~ApprovalHolds(lane[l].id)
    <3>1. Release(l)
      BY <1>5, <2>3 DEF ApprovalAnswered, Throw
    <3>2. QED
      BY <2>1, <3>1, ReleasedReads
  <2>4. QED
    BY <2>2, <2>3
<1>6. QED
  BY <1>1, <1>2, <1>3, <1>4, <1>5 DEF Continue, Ends

LEMMA StartReads ==
    ASSUME Inv, ReadInv, NEW s \in Surface, NEW t \in Text, Ask(s, t) \/ Speak(s, t)
    PROVE  ReadInv'
<1>1. nextId \in Id /\ UNCHANGED runtime
  BY NextIdIsFresh DEF Ask, Speak
<1>2. CASE Ask(s, t)
  <2>1. <<s, "text">> \in Lane /\ "text" \in Modality
    BY DEF Lane, Modality
  <2>2. Admission(<<s, "text">>, nextId, t)
    BY <1>2 DEF Ask
  <2>3. QED
    BY <1>1, <2>1, <2>2, AdmissionReads
<1>3. CASE Speak(s, t)
  <2>1. DraftLane(s) \in Lane /\ DraftLane(s)[2] \in Modality
    BY DraftLaneIs
  <2>2. Admission(DraftLane(s), nextId, t)
    BY <1>3 DEF Speak
  <2>3. QED
    BY <1>1, <2>1, <2>2, AdmissionReads
<1>4. QED
  BY <1>2, <1>3

LEMMA RetryReads ==
    ASSUME Inv, ReadInv, NEW s \in Surface, Retry(s) PROVE ReadInv'
<1>1. /\ DraftLane(s) \in Lane /\ DraftLane(s)[2] \in Modality
      /\ UNCHANGED runtime
  BY DraftLaneIs DEF Retry
<1>2. draft[s].id \in Id /\ draft[s].text \in Text
  BY DEF Inv, TypeOK, Retry
<1>3. Admission(DraftLane(s), draft[s].id, draft[s].text)
  BY DEF Retry
<1>4. QED
  BY <1>1, <1>2, <1>3, AdmissionReads

LEMMA DecideReads ==
    ASSUME Inv, ReadInv, NEW s \in Surface, NEW verdict \in {"approve", "deny"},
           Decide(s, verdict)
    PROVE  ReadInv'
<1> DEFINE l == <<s, "decision">>
           c == [Idle EXCEPT !.at = verdict, !.id = card[s]]
<1>1. l \in Lane /\ Kept /\ lane' = [lane EXCEPT ![l] = c]
  BY UnservedKept DEF Lane, Decide
<1>2. c.at = verdict /\ c.seen = "nothing"
  BY DEF Idle
<1> HIDE DEF c, l
<1>3. c.at \notin {"post", "look"} /\ c.seen \notin Terminal
  BY <1>2 DEF Terminal, Final
<1>4. QED
  BY <1>1, <1>3, OneLaneReads

LEMMA ReloadReads == ASSUME Reload PROVE ReadInv'
<1> DEFINE c == [Idle EXCEPT !.at = "recover", !.id = pointer]
<1>1. lane' = [l \in Lane |->
           IF l[2] = "recovery" /\ l[1] # "action" /\ pointer # NoId
           THEN c ELSE Idle]
  BY DEF Reload
<1>2. c.at = "recover" /\ c.seen = "nothing"
  BY DEF Idle
<1> HIDE DEF c
<1>3. ASSUME NEW l \in Lane PROVE ReadOK(l)'
  <2>1. lane'[l].at \in {"idle", "recover"} /\ lane'[l].seen = "nothing"
    BY <1>1, <1>2, Sentinels
  <2>2. QED
    BY <2>1 DEF ReadOK, Submitting, Terminal, Final
<1>4. QED
  BY <1>3 DEF ReadInv

LEMMA NextReadInv == Inv /\ ReadInv /\ [Next]_vars => ReadInv'
<1> SUFFICES ASSUME Inv, ReadInv, [Next]_vars PROVE ReadInv'
  OBVIOUS
<1>1. CASE \E s \in Surface, t \in Text : Ask(s, t) \/ Speak(s, t)
  BY <1>1, StartReads
<1>2. CASE \E s \in Surface : Retry(s)
  BY <1>2, RetryReads
<1>3. CASE \E s \in Surface, verdict \in {"approve", "deny"} : Decide(s, verdict)
  BY <1>3, DecideReads
<1>4. CASE \E l \in Lane : Continue(l)
  BY <1>4, ContinueReads
<1>5. CASE Reload
  BY <1>5, ReloadReads
<1>6. CASE \E m \in net : RuntimeReceives(m)
  BY <1>6, ServedKept, NoLaneReads DEF RuntimeReceives
<1>7. CASE \E i \in Id : RuntimeFinishes(i)
  BY <1>7, FinishedKept, NoLaneReads DEF RuntimeFinishes
<1>8. CASE UNCHANGED vars
  BY <1>8, UnservedKept, NoLaneReads DEF vars
<1>9. QED
  BY <1>1, <1>2, <1>3, <1>4, <1>5, <1>6, <1>7, <1>8 DEF Next

(* Lane l ends, and the block with it or in favour of its own interaction. *)
EndsBlock(l) ==
    /\ lane[l] # Idle /\ lane'[l] = Idle
    /\ LiftedByOwnResult(l) \/ Overwritten(l)

LEMMA AdmitLifts ==
    ASSUME Inv, NEW l \in Lane, NEW outcome, lane[l].at # "idle", Admit(l, outcome),
           l[2] = "decision" \/ request[lane[l].id].conversation = mount,
           ledger[lane[l].id] \in Reached,
           reconcile # NoId, reconcile' # reconcile
    PROVE  EndsBlock(l)
<1>1. reconcile' = Unblocked(lane[l].id)
  BY DEF Admit
<1>2. lane[l].id = reconcile /\ reconcile' = NoId
  BY <1>1 DEF Unblocked
<1>3. lane'[l] = Idle
  BY AdmitEnds DEF Release, Inv, TypeOK
<1>4. lane[l] # Idle
  BY Sentinels
<1>5. QED
  BY <1>2, <1>3, <1>4 DEF EndsBlock, LiftedByOwnResult, Reached

(* A call that gives up takes the slot and forgets no doubt. *)
LEMMA GivingUpOverwrites ==
    ASSUME Inv, NEW l \in Lane, LookGivesUp(l) PROVE EndsBlock(l)
<1>1. /\ lane[l].at = "look" /\ Release(l) /\ reconcile' = lane[l].id
      /\ unresolved' = unresolved \cup {<<lane[l].id, Kind(l), "remembered">>}
  BY DEF LookGivesUp, GiveUp, Throw
<1>2. lane[l].id # NoId /\ lane[l] # Idle
  BY <1>1, Waiting, Sentinels
<1>3. lane'[l] = Idle
  BY <1>1 DEF Release, Inv, TypeOK
<1>4. Overwritten(l)
  BY <1>1, <1>2 DEF Overwritten
<1>5. QED
  BY <1>2, <1>3, <1>4 DEF EndsBlock

(* A call that submits is of this conversation, or decides about an approval. *)
LEMMA SubmittingIsOwn ==
    ASSUME Inv, ReadInv, NEW l \in Lane, Submitting(l)
    PROVE  l[2] = "decision" \/ request[lane[l].id].conversation = mount
<1>1. LaneOK(l) /\ l[2] # "recovery"
  BY DEF Inv, LaneInv, ReadInv, ReadOK
<1>2. CASE l[2] \in Modality
  BY <1>1, <1>2 DEF LaneOK, NewRequest
<1>3. CASE l[2] = "decision"
  BY <1>3
<1>4. QED
  BY <1>1, <1>2, <1>3 DEF Lane

LEMMA ContinueEndsBlock ==
    ASSUME Inv, ReadInv, NEW l \in Lane, Continue(l),
           reconcile # NoId, reconcile' # reconcile
    PROVE  EndsBlock(l)
<1>1. CASE ReplyAdmitted(l)
  <2>1. PICK outcome \in Readings(lane[l].id) \cap Terminal : Admit(l, outcome)
    BY <1>1 DEF ReplyAdmitted
  <2>2. lane[l].at = "post" /\ Submitting(l)
    BY <1>1 DEF ReplyAdmitted, Submitting
  <2>3. ledger[lane[l].id] \in Reached
    BY <2>1 DEF Readings, Reached
  <2>4. QED
    BY <2>1, <2>2, <2>3, SubmittingIsOwn, AdmitLifts
<1>2. CASE LookFinds(l)
  <2>1. lane[l].at = "look" /\ Submitting(l) /\ Admit(l, lane[l].seen)
    BY <1>2 DEF LookFinds, Submitting
  <2>2. ledger[lane[l].id] \in Reached
    BY <1>2 DEF LookFinds, ReadInv, ReadOK
  <2>3. QED
    BY <2>1, <2>2, SubmittingIsOwn, AdmitLifts
<1>3. CASE PrecheckAdmits(l)
  <2>1. lane[l].at = "precheck" /\ Admit(l, lane[l].seen)
    BY <1>3 DEF PrecheckAdmits
  <2>2. ledger[lane[l].id] \in Reached
    BY <1>3 DEF PrecheckAdmits, Reconciles, ReadInv, ReadOK
  <2>3. request[lane[l].id].conversation = mount
    BY <1>3 DEF PrecheckAdmits, Reconciles, NewRequest
  <2>4. QED
    BY <2>1, <2>2, <2>3, AdmitLifts
<1>4. CASE LookGivesUp(l)
  BY <1>4, GivingUpOverwrites
<1>5. CASE \/ ReplyMalformed(l) \/ ReplyAmbiguous(l) \/ ReplyRefused(l) \/ LookUp(l)
           \/ LookMisses(l) \/ PrecheckBlocks(l) \/ DecisionFails(l)
           \/ ApprovalAnswered(l) \/ DenialAnswered(l) \/ Recover(l)
  <2>1. reconcile' = reconcile
    BY <1>5 DEF ReplyMalformed, ReplyAmbiguous, ReplyRefused, LookUp, LookMisses,
       PrecheckBlocks, DecisionFails, ApprovalAnswered, DenialAnswered, Recover, storage
  <2>2. QED
    BY <2>1
<1>6. QED
  BY <1>1, <1>2, <1>3, <1>4, <1>5 DEF Continue

LEMMA NextEndsBlock ==
    Inv /\ ReadInv /\ [Next]_vars =>
        [reconcile # NoId /\ reconcile' # reconcile => \E l \in Lane : EndsBlock(l)]_vars
<1> SUFFICES ASSUME Inv, ReadInv, [Next]_vars, reconcile # NoId, reconcile' # reconcile
             PROVE  \E l \in Lane : EndsBlock(l)
  OBVIOUS
<1>1. CASE \E l \in Lane : Continue(l)
  BY <1>1, ContinueEndsBlock
<1>2. CASE \/ \E s \in Surface, t \in Text : Ask(s, t) \/ Speak(s, t)
           \/ \E s \in Surface : Retry(s)
           \/ \E s \in Surface, verdict \in {"approve", "deny"} : Decide(s, verdict)
           \/ Reload
           \/ \E m \in net : RuntimeReceives(m)
           \/ \E i \in Id : RuntimeFinishes(i)
           \/ UNCHANGED vars
  <2>1. reconcile' = reconcile
    BY <1>2 DEF Ask, Speak, Retry, Decide, Reload, RuntimeReceives, RuntimeFinishes,
       vars, storage
  <2>2. QED
    BY <2>1
<1>3. QED
  BY <1>1, <1>2 DEF Next

(* Every reachable state satisfies the invariant. *)
THEOREM Invariance == Spec => []Inv
  BY InitInv, NextInv, PTL DEF Spec

(* Every reachable state is a state of the right type. *)
THEOREM Typing == Spec => []TypeOK
<1>1. Inv => TypeOK
  BY DEF Inv
<1>2. QED
  BY <1>1, Invariance, PTL

(* Once a surface has shown a denial as recorded, nothing executes the
   interaction: not the continuation of the other surface, nor an approval that
   is late.  (denyPendingIntent) *)
THEOREM DenialsAreFinal == Spec => []DenialIsFinal
<1>1. Inv => DenialIsFinal
  BY DEF Inv, TypeOK, RuntimeInv, Recorded, DenialIsFinal
<1>2. QED
  BY <1>1, Invariance, PTL

(* Whatever was lost, late or reloaded since its card was shown, a continuation
   is on its way only if the Runtime has granted the approval.
   (admitApprovedExecutiveInteraction) *)
THEOREM ContinuationsAreGranted == Spec => []ContinuationsAreApproved
<1>1. Inv => ContinuationsAreApproved
  BY DEF Inv
<1>2. QED
  BY <1>1, Invariance, PTL

(* What a lane presents answers what was asked in it, in this conversation, and
   is what the Runtime retains.  (reconcilePendingInteractionBeforeSubmission) *)
THEOREM AnswersAreOwn == Spec => []AnswersFitTheQuestion
<1>1. Inv => AnswersFitTheQuestion
  BY DEF Inv
<1>2. QED
  BY <1>1, Invariance, PTL

(* What blocks new requests has not been admitted since it was given up in
   doubt.  (clearPendingInteractionReconciliation) *)
THEOREM BlocksAreInDoubt == Spec => []BlockIsInDoubt
<1>1. Inv => BlockIsInDoubt
  BY DEF Inv
<1>2. QED
  BY <1>1, Invariance, PTL

(* The interaction that awaits reconciliation gives up the slot in two ways only: a
   call of its own ends with a result that the Runtime had reached, in the same
   conversation or in the decision about its approval; or another call gives up an
   interaction in doubt, which blocks from then on, and nothing that was in doubt is
   settled by that.
   (clearPendingInteractionReconciliation, rememberPendingInteractionReconciliation) *)
THEOREM BlocksEnd == Spec => BlockEndsByResultOrOverwrite
<1>1. Init => ReadInv
  BY InitReadInv
<1>2. Inv /\ ReadInv /\ [Next]_vars => ReadInv'
  BY NextReadInv
<1>3. Inv /\ ReadInv /\ [Next]_vars =>
          [reconcile # NoId /\ reconcile' # reconcile => \E l \in Lane : EndsBlock(l)]_vars
  BY NextEndsBlock
<1>4. Spec => [][reconcile # NoId /\ reconcile' # reconcile =>
                     \E l \in Lane : EndsBlock(l)]_vars
  BY <1>1, <1>2, <1>3, Invariance, PTL DEF Spec
<1>5. QED
  BY <1>4 DEF BlockEndsByResultOrOverwrite, EndsBlock
=============================================================================
