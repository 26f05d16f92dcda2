------------------------- MODULE SerializedRefresh --------------------------
(***************************************************************************)
(* createSerializedRefresh: the browser's loaders of the Runtime snapshot  *)
(* and of the operational session run one at a time.  Calls that do not    *)
(* force share the run in progress; calls that force share one queued run  *)
(* that starts after it.                                                   *)
(*                                                                         *)
(* The steps are the microtasks of the promises involved.  Calls come from *)
(* any turn of the event loop, and from the reactions of earlier calls in  *)
(* between the microtasks of a run that has just ended.                    *)
(***************************************************************************)
EXTENDS Naturals

CONSTANTS
    Caller,    \* the calls, each made at most once
    MaxRun,    \* bound on the runs launched
    Pending    \* "the queued run has not been launched yet"

Run == 1 .. MaxRun

ASSUME ConstantAssumption == MaxRun \in Nat /\ Pending \notin Nat

VARIABLES
    launched,     \* number of runs launched so far; they are named 1 .. launched
    run,          \* the runs
    active,       \* the operation in `active', 0 if null
    queuedForce,  \* the run `queuedForce' follows, Pending, or 0 if null
    predecessor,  \* the operation the queued run waits for, 0 if none
    call          \* the calls, with the promise each one was given

vars == <<launched, run, active, queuedForce, predecessor, call>>

RunState ==
    [phase : {"none", "launched", "running", "settled"}, force : BOOLEAN, ok : BOOLEAN]

(* on: the run the promise of the call follows.  queued: it follows it through
   queuedForce.  before: history, the runs that had settled when the call was
   made, if no microtask was left to run then. *)
CallState ==
    [phase : {"none", "waiting", "done"}, force : BOOLEAN,
     on : Run \cup {0, Pending}, queued : BOOLEAN, before : SUBSET Run]

TypeOK ==
    /\ launched \in 0 .. MaxRun
    /\ run \in [Run -> RunState]
    /\ active \in Run \cup {0}
    /\ queuedForce \in Run \cup {0, Pending}
    /\ predecessor \in Run \cup {0}
    /\ call \in [Caller -> CallState]
    /\ predecessor # 0 <=> queuedForce = Pending
    /\ queuedForce \in Run => run[queuedForce].force   \* it holds runs that force

InProgress(k) == run[k].phase \in {"launched", "running"}
Settled(k) == run[k].phase = "settled"

Init ==
    /\ launched = 0
    /\ run = [k \in Run |-> [phase |-> "none", force |-> FALSE, ok |-> FALSE]]
    /\ active = 0
    /\ queuedForce = 0
    /\ predecessor = 0
    /\ call = [c \in Caller |-> [phase |-> "none", force |-> FALSE, on |-> 0,
                                 queued |-> FALSE, before |-> {}]]

-----------------------------------------------------------------------------
(* No reaction is left to run: every run that was launched has started, the
   queued run does not wait for a run that has settled, and every call that
   follows a settled run has returned. *)
Quiet ==
    /\ \A k \in Run : run[k].phase # "launched"
    /\ predecessor # 0 => ~ Settled(predecessor)
    /\ \A c \in Caller :
          call[c].phase = "waiting" /\ call[c].on \in Run => ~ Settled(call[c].on)

Given(force, promise, queued) ==
    [phase |-> "waiting", force |-> force, on |-> promise, queued |-> queued,
     before |-> IF Quiet THEN {k \in Run : Settled(k)} ELSE {}]

(* launch(forceRefresh): run number launched + 1 *)
Launch(force) ==
    /\ launched < MaxRun
    /\ launched' = launched + 1
    /\ run' = [run EXCEPT ![launched + 1] =
                  [phase |-> "launched", force |-> force, ok |-> FALSE]]
    /\ active' = launched + 1

(* Variant: a call that finds nothing active launches, queued run or not. *)
CallLaunchesAlways(c, force) ==
    /\ call[c].phase = "none"
    /\ active = 0
    /\ Launch(force)
    /\ call' = [call EXCEPT ![c] = Given(force, launched + 1, FALSE)]
    /\ UNCHANGED <<queuedForce, predecessor>>

(* Nothing is active or queued. *)
CallLaunches(c, force) ==
    /\ call[c].phase = "none"
    /\ active = 0
    /\ queuedForce = 0
    /\ Launch(force)
    /\ call' = [call EXCEPT ![c] = Given(force, launched + 1, FALSE)]
    /\ UNCHANGED <<queuedForce, predecessor>>

(* A call that does not force shares the active run. *)
CallJoins(c) ==
    /\ call[c].phase = "none"
    /\ active # 0
    /\ call' = [call EXCEPT ![c] = Given(FALSE, active, FALSE)]
    /\ UNCHANGED <<launched, run, active, queuedForce, predecessor>>

(* A call that forces, and any call between two runs, shares the queued run;
   that run may have been launched already. *)
CallJoinsQueued(c, force) ==
    /\ call[c].phase = "none"
    /\ active = 0 \/ force
    /\ queuedForce # 0
    /\ call' = [call EXCEPT ![c] = Given(force, queuedForce, TRUE)]
    /\ UNCHANGED <<launched, run, active, queuedForce, predecessor>>

(* The first call that forces queues a run behind the active one. *)
CallQueues(c) ==
    /\ call[c].phase = "none"
    /\ active # 0
    /\ queuedForce = 0
    /\ queuedForce' = Pending
    /\ predecessor' = active
    /\ call' = [call EXCEPT ![c] = Given(TRUE, Pending, TRUE)]
    /\ UNCHANGED <<launched, run, active>>

-----------------------------------------------------------------------------
RunStarts(k) ==
    /\ run[k].phase = "launched"
    /\ run' = [run EXCEPT ![k].phase = "running"]
    /\ UNCHANGED <<launched, active, queuedForce, predecessor, call>>

(* The bounded task inside the run ends, in success or failure. *)
RunSettles(k) ==
    /\ run[k].phase = "running"
    /\ \E ok \in BOOLEAN :
          run' = [run EXCEPT ![k].phase = "settled", ![k].ok = ok]
    /\ UNCHANGED <<launched, active, queuedForce, predecessor, call>>

(* The first reaction of an operation clears `active'. *)
ActiveCleared(k) ==
    /\ active = k
    /\ Settled(k)
    /\ active' = 0
    /\ UNCHANGED <<launched, run, queuedForce, predecessor, call>>

Follow(k) ==
    [c \in Caller |-> IF call[c].on = Pending THEN [call[c] EXCEPT !.on = k] ELSE call[c]]

(* Variant: the failure of the predecessor is not caught, and fails the queued
   promise in its place. *)
QueuedFollowsFailure ==
    /\ queuedForce = Pending
    /\ Settled(predecessor)
    /\ active # predecessor
    /\ \/ run[predecessor].ok /\ Launch(TRUE) /\ queuedForce' = launched'
          /\ call' = Follow(launched')
       \/ ~ run[predecessor].ok /\ queuedForce' = predecessor
          /\ call' = Follow(predecessor)
          /\ UNCHANGED <<launched, run, active>>
    /\ predecessor' = 0

(* Variant: the queued promise is resolved by the success of the predecessor, and
   never settles otherwise. *)
QueuedNeedsSuccess ==
    /\ queuedForce = Pending
    /\ Settled(predecessor) /\ run[predecessor].ok
    /\ active # predecessor
    /\ Launch(TRUE)
    /\ queuedForce' = launched + 1
    /\ predecessor' = 0
    /\ call' = Follow(launched + 1)

(* Variant: the queued run does not wait for its predecessor. *)
QueuedLaunchesAtOnce ==
    /\ queuedForce = Pending
    /\ Launch(TRUE)
    /\ queuedForce' = launched + 1
    /\ predecessor' = 0
    /\ call' = Follow(launched + 1)

(* The predecessor has settled, either way: the queued run is launched. *)
QueuedLaunches ==
    /\ queuedForce = Pending
    /\ Settled(predecessor)
    /\ active # predecessor
    /\ Launch(TRUE)
    /\ queuedForce' = launched + 1
    /\ predecessor' = 0
    /\ call' = Follow(launched + 1)

(* Variant: queuedForce is never reset. *)
QueuedStays(k) ==
    /\ queuedForce = k /\ Settled(k) /\ active # k
    /\ call' = [c \in Caller |->
          IF call[c].on = k /\ call[c].queued THEN [call[c] EXCEPT !.phase = "done"]
                                              ELSE call[c]]
    /\ UNCHANGED <<launched, run, active, queuedForce, predecessor>>

(* The queued promise settles after the operation it follows, and its first
   reaction clears `queuedForce'. *)
QueuedCleared(k) ==
    /\ queuedForce = k
    /\ Settled(k)
    /\ active # k
    /\ queuedForce' = 0
    /\ UNCHANGED <<launched, run, active, predecessor, call>>

(* The promise of a call settles: later reactions of the same promises. *)
CallReturns(c) ==
    /\ call[c].phase = "waiting"
    /\ call[c].on \in Run
    /\ Settled(call[c].on)
    /\ active # call[c].on
    /\ call[c].queued => queuedForce # call[c].on
    /\ call' = [call EXCEPT ![c].phase = "done"]
    /\ UNCHANGED <<launched, run, active, queuedForce, predecessor>>

Calls(c) ==
    \/ CallJoins(c) \/ CallQueues(c)
    \/ \E force \in BOOLEAN : CallLaunches(c, force) \/ CallJoinsQueued(c, force)

Microtask ==
    \/ \E k \in Run : RunStarts(k) \/ ActiveCleared(k) \/ QueuedCleared(k)
    \/ QueuedLaunches
    \/ \E c \in Caller : CallReturns(c)

Next ==
    \/ \E c \in Caller : Calls(c)
    \/ \E k \in Run : RunSettles(k)
    \/ Microtask

Spec == Init /\ [][Next]_vars

-----------------------------------------------------------------------------
(* "one force refresh queues without overlap": two runs are never in progress
   at once, a run launched from the queue included. *)
SingleFlight ==
    \A j, k \in Run : InProgress(j) /\ InProgress(k) => j = k

(* A call that forces is given the result of a run that forces, even when the
   run it queued behind fails or has just ended. *)
ForcedRunForForcedCall ==
    \A c \in Caller : call[c].phase = "done" /\ call[c].force => run[call[c].on].force

(* A call made in a turn of its own is never given the result of a run that had
   ended before it. *)
NoFinishedRun ==
    \A c \in Caller : call[c].on \notin call[c].before

(* Every call is answered: none waits for a run that nothing will launch. *)
CallsReturn ==
    \A c \in Caller : call[c].phase = "waiting" ~> call[c].phase = "done"
=============================================================================
