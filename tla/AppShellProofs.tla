---------------------------- MODULE AppShellProofs ----------------------------
(***************************************************************************)
(* What the application shell promises, for any number of calls, of runs,  *)
(* of proposals, Evidence, Reviews and their versions: first the           *)
(* serialized loader, then the page it fills, then the ids of Conclave     *)
(* requests, and last the shell that all of them run in.                   *)
(***************************************************************************)
EXTENDS AppShell, TLAPS


(* The runs in progress are at most the active one; the queued run is launched
   only once its predecessor is neither in progress nor active, and nothing has
   taken its place because a call then shares the queued run. *)
RunInv ==
    /\ \A k \in Run : run[k].phase # "none" <=> k <= launched
    /\ \A k \in Run : InProgress(k) => active = k
    /\ active # 0 => run[active].phase # "none"
    /\ queuedForce = Pending =>
          \/ active = predecessor
          \/ active = 0 /\ Settled(predecessor)
    /\ queuedForce \in Run => run[queuedForce].phase # "none"

(* What a call was given. *)
CallInv ==
    \A c \in Caller :
        /\ call[c].phase = "done" => call[c].on \in Run
        /\ call[c].on = Pending => call[c].phase = "waiting" /\ call[c].queued
        /\ call[c].on \in Run => run[call[c].on].phase # "none"
        /\ call[c].on \in Run /\ call[c].force => run[call[c].on].force
        /\ \A k \in call[c].before : Settled(k)
        /\ call[c].on \notin call[c].before

(* As long as `active' or `queuedForce' holds a promise, a call that was given
   that promise has not returned: its reaction comes after the one that clears
   the variable. *)
WaiterInv ==
    /\ active # 0 => \E c \in Caller : call[c].phase = "waiting" /\ call[c].on = active
    /\ queuedForce # 0 =>
          \E c \in Caller : /\ call[c].phase = "waiting" /\ call[c].queued
                            /\ call[c].on = queuedForce

LoaderInv == TypeOK /\ RunInv /\ CallInv /\ WaiterInv

-----------------------------------------------------------------------------
(* null, Pending and the runs are different things. *)
LEMMA Sentinels == MaxRun \in Nat /\ 0 \notin Run /\ Pending \notin Run /\ Pending # 0
  BY ConstantAssumption DEF Run

(* What a call was given when it is made with this promise. *)
LEMMA GivenType ==
    ASSUME TypeOK, NEW force \in BOOLEAN, NEW queued \in BOOLEAN,
           NEW promise \in Run \cup {0, Pending}
    PROVE  /\ Given(force, promise, queued) \in CallState
           /\ Given(force, promise, queued).phase = "waiting"
           /\ Given(force, promise, queued).force = force
           /\ Given(force, promise, queued).on = promise
           /\ Given(force, promise, queued).queued = queued
           /\ \A k \in Given(force, promise, queued).before : k \in Run /\ Settled(k)
           /\ Given(force, promise, queued).before # {} => Quiet
  BY DEF Given, CallState

(* The initial state satisfies the invariant. *)
LEMMA LoaderInit == Init => LoaderInv
  BY Sentinels DEF Init, LoaderInv, TypeOK, RunInv, CallInv, WaiterInv, RunState, CallState,
         InProgress, Settled, Run

(* Every step preserves the types. *)
LEMMA LoaderTypes == LoaderInv /\ [Next]_vars => TypeOK'
<1> SUFFICES ASSUME LoaderInv, [Next]_vars PROVE TypeOK'
  OBVIOUS
<1> USE Sentinels DEF LoaderInv, TypeOK
<1>1. ASSUME NEW c \in Caller, NEW force \in BOOLEAN, CallLaunches(c, force)
      PROVE  TypeOK'
  <2>1. launched + 1 \in Run
    BY <1>1 DEF CallLaunches, Launch, Run
  <2>2. run' \in [Run -> RunState]
    BY <1>1, <2>1 DEF CallLaunches, Launch, RunState
  <2>3. call' \in [Caller -> CallState]
    BY <1>1, <2>1, GivenType DEF CallLaunches
  <2>4. launched' \in 0 .. MaxRun /\ active' \in Run
    BY <1>1, <2>1 DEF CallLaunches, Launch, Run
  <2>5. QED
    BY <1>1, <2>2, <2>3, <2>4 DEF CallLaunches
<1>2. ASSUME NEW c \in Caller, CallJoins(c) PROVE TypeOK'
  <2>1. call' \in [Caller -> CallState]
    BY <1>2, GivenType DEF CallJoins
  <2>2. QED
    BY <1>2, <2>1 DEF CallJoins
<1>3. ASSUME NEW c \in Caller, NEW force \in BOOLEAN, CallJoinsQueued(c, force)
      PROVE  TypeOK'
  <2>1. call' \in [Caller -> CallState]
    BY <1>3, GivenType DEF CallJoinsQueued
  <2>2. QED
    BY <1>3, <2>1 DEF CallJoinsQueued
<1>4. ASSUME NEW c \in Caller, CallQueues(c) PROVE TypeOK'
  <2>1. call' \in [Caller -> CallState]
    BY <1>4, GivenType DEF CallQueues
  <2>2. QED
    BY <1>4, <2>1 DEF CallQueues
<1>5. ASSUME NEW k \in Run, RunStarts(k) PROVE TypeOK'
  BY <1>5 DEF RunStarts, RunState
<1>6. ASSUME NEW k \in Run, RunSettles(k) PROVE TypeOK'
  <2>1. PICK ok \in BOOLEAN :
           run' = [run EXCEPT ![k].phase = "settled", ![k].ok = ok]
    BY <1>6 DEF RunSettles
  <2>2. [[run[k] EXCEPT !.phase = "settled"] EXCEPT !.ok = ok] \in RunState
    BY DEF RunState
  <2>3. run' \in [Run -> RunState] /\ \A j \in Run : run'[j].force = run[j].force
    BY <2>1, <2>2 DEF RunState
  <2>4. QED
    BY <1>6, <2>3 DEF RunSettles
<1>7. ASSUME NEW k \in Run, ActiveCleared(k) PROVE TypeOK'
  BY <1>7 DEF ActiveCleared
<1>8. ASSUME NEW k \in Run, QueuedCleared(k) PROVE TypeOK'
  BY <1>8 DEF QueuedCleared
<1>9. ASSUME QueuedLaunches PROVE TypeOK'
  <2>1. launched + 1 \in Run
    BY <1>9 DEF QueuedLaunches, Launch, Run
  <2>2. run' \in [Run -> RunState] /\ run'[launched + 1].force
    BY <1>9, <2>1 DEF QueuedLaunches, Launch, RunState
  <2>3. call' \in [Caller -> CallState]
    BY <1>9, <2>1 DEF QueuedLaunches, Follow, CallState
  <2>4. launched' \in 0 .. MaxRun /\ active' \in Run
    BY <1>9, <2>1 DEF QueuedLaunches, Launch, Run
  <2>5. QED
    BY <1>9, <2>1, <2>2, <2>3, <2>4 DEF QueuedLaunches
<1>10. ASSUME NEW c \in Caller, CallReturns(c) PROVE TypeOK'
  BY <1>10 DEF CallReturns, CallState
<1>11. CASE UNCHANGED vars
  BY <1>11 DEF vars
<1>12. QED
  BY <1>1, <1>2, <1>3, <1>4, <1>5, <1>6, <1>7, <1>8, <1>9, <1>10, <1>11
     DEF Next, Calls, Microtask

(* What the steps of a run change. *)
LEMMA RunStep ==
    ASSUME LoaderInv, NEW k \in Run, RunStarts(k) \/ RunSettles(k)
    PROVE  /\ UNCHANGED <<launched, active, queuedForce, predecessor, call>>
           /\ InProgress(k)
           /\ run'[k].phase \in {"running", "settled"}
           /\ run'[k].force = run[k].force
           /\ \A j \in Run \ {k} : run'[j] = run[j]
<1> USE DEF LoaderInv, TypeOK, RunState, InProgress
<1>1. CASE RunStarts(k)
  BY <1>1 DEF RunStarts
<1>2. CASE RunSettles(k)
  <2>1. PICK ok \in BOOLEAN :
           run' = [run EXCEPT ![k].phase = "settled", ![k].ok = ok]
    BY <1>2 DEF RunSettles
  <2>2. QED
    BY <1>2, <2>1 DEF RunSettles
<1>3. QED
  BY <1>1, <1>2

(* A launch happens while no run is in progress, and adds one. *)
LEMMA LaunchStep ==
    ASSUME LoaderInv, NEW force \in BOOLEAN, active = 0, Launch(force)
    PROVE  /\ launched' = launched + 1 /\ launched' \in Run
           /\ active' = launched'
           /\ run[launched'].phase = "none"
           /\ run'[launched'].phase = "launched"
           /\ run'[launched'].force = force
           /\ \A j \in Run \ {launched'} : run'[j] = run[j] /\ ~ InProgress(j)
           /\ \A j \in Run : run'[j].phase # "none" <=> j <= launched'
<1>1. /\ launched' = launched + 1 /\ launched' \in Run
      /\ active' = launched'
      /\ run[launched'].phase = "none"
  BY Sentinels DEF LoaderInv, TypeOK, RunInv, Launch, Run
<1>2. /\ run'[launched'].phase = "launched"
      /\ run'[launched'].force = force
      /\ \A j \in Run \ {launched'} : run'[j] = run[j]
  BY <1>1 DEF LoaderInv, TypeOK, Launch, RunState
<1>3. \A j \in Run : ~ InProgress(j)
  BY Sentinels DEF LoaderInv, RunInv
<1>4. \A j \in Run \ {launched'} : j \in Nat /\ (j <= launched' <=> j <= launched)
  BY <1>1, Sentinels DEF LoaderInv, TypeOK, Run
<1>5. \A j \in Run : run'[j].phase # "none" <=> j <= launched'
  <2>1. launched' <= launched'
    BY <1>1, Sentinels DEF Run
  <2>2. QED
    BY <1>1, <1>2, <1>4, <2>1 DEF LoaderInv, RunInv
<1>6. QED
  BY <1>1, <1>2, <1>3, <1>5

(* Every step preserves the invariant of the runs. *)
LEMMA RunInductive == LoaderInv /\ [Next]_vars => RunInv'
<1> SUFFICES ASSUME LoaderInv, [Next]_vars PROVE RunInv'
  OBVIOUS
<1>0. \A k \in Run : k \in Nat /\ k # 0
  BY DEF Run
<1>00. launched \in Nat /\ active \in Run \cup {0}
  BY Sentinels DEF LoaderInv, TypeOK
<1> USE Sentinels
<1>1. ASSUME NEW c \in Caller, NEW force \in BOOLEAN, CallLaunches(c, force)
      PROVE  RunInv'
  <2>1. \A k \in Run : InProgress(k)' => active' = k
    BY <1>1, LaunchStep DEF CallLaunches, InProgress
  <2>2. active' # 0 => run'[active'].phase # "none"
    BY <1>1, LaunchStep DEF CallLaunches
  <2>3. QED
    BY <1>1, <2>1, <2>2, LaunchStep DEF CallLaunches, RunInv
<1>2. CASE UNCHANGED <<launched, run, active, queuedForce, predecessor>>
  BY <1>2 DEF LoaderInv, RunInv, InProgress, Settled
<1>3. ASSUME NEW c \in Caller, CallQueues(c) PROVE RunInv'
  BY <1>3 DEF CallQueues, LoaderInv, RunInv, InProgress, Settled
<1>4. ASSUME NEW k \in Run, RunStarts(k) \/ RunSettles(k) PROVE RunInv'
  BY <1>4, <1>00, RunStep DEF LoaderInv, TypeOK, RunInv, InProgress, Settled
<1>5. ASSUME NEW k \in Run, ActiveCleared(k) PROVE RunInv'
  BY <1>5, <1>0 DEF ActiveCleared, LoaderInv, RunInv, InProgress, Settled
<1>6. ASSUME NEW k \in Run, QueuedCleared(k) PROVE RunInv'
  BY <1>6 DEF QueuedCleared, LoaderInv, RunInv, InProgress, Settled
<1>7. ASSUME QueuedLaunches PROVE RunInv'
  <2>1. active = 0
    BY <1>7 DEF QueuedLaunches, LoaderInv, RunInv
  <2>2. /\ launched' \in Run /\ active' = launched' /\ queuedForce' = launched'
        /\ run'[launched'].phase = "launched"
        /\ \A j \in Run \ {launched'} : run'[j] = run[j] /\ ~ InProgress(j)
        /\ \A j \in Run : run'[j].phase # "none" <=> j <= launched'
    BY <1>7, <2>1, LaunchStep DEF QueuedLaunches
  <2>3. \A k \in Run : InProgress(k)' => active' = k
    BY <2>2 DEF InProgress
  <2>4. QED
    BY <2>2, <2>3 DEF RunInv
<1>8. QED
  BY <1>1, <1>2, <1>3, <1>4, <1>5, <1>6, <1>7
     DEF Next, Calls, Microtask, CallJoins, CallJoinsQueued, CallReturns, vars

(* A call that is made changes nothing else. *)
LEMMA GivenStep ==
    ASSUME LoaderInv, NEW c \in Caller, NEW force \in BOOLEAN, NEW queued \in BOOLEAN,
           NEW promise \in Run \cup {0, Pending},
           call' = [call EXCEPT ![c] = Given(force, promise, queued)]
    PROVE  /\ call'[c].phase = "waiting" /\ call'[c].on = promise
           /\ call'[c].force = force /\ call'[c].queued = queued
           /\ \A k \in call'[c].before : k \in Run /\ Settled(k)
           /\ call'[c].before # {} => Quiet
           /\ \A d \in Caller \ {c} : call'[d] = call[d]
  BY GivenType DEF LoaderInv, TypeOK

(* A promise that is still held is not one whose run had ended in an earlier
   turn: the call that waits for it would have returned. *)
LEMMA HeldIsNotSettled ==
    ASSUME LoaderInv, Quiet
    PROVE  /\ active \in Run => ~ Settled(active)
           /\ queuedForce \in Run => ~ Settled(queuedForce)
  BY Sentinels DEF LoaderInv, WaiterInv, Quiet

(* Every step preserves what the calls were given. *)
LEMMA CallInductive == LoaderInv /\ [Next]_vars => CallInv'
<1> SUFFICES ASSUME LoaderInv, [Next]_vars PROVE CallInv'
  OBVIOUS
<1> DEFINE Good(c) ==
      /\ call[c].phase = "done" => call[c].on \in Run
      /\ call[c].on = Pending => call[c].phase = "waiting" /\ call[c].queued
      /\ call[c].on \in Run => run[call[c].on].phase # "none"
      /\ call[c].on \in Run /\ call[c].force => run[call[c].on].force
      /\ \A k \in call[c].before : Settled(k)
      /\ call[c].on \notin call[c].before
<1>1. \A c \in Caller : Good(c)
  BY DEF LoaderInv, CallInv
<1>2. \A c \in Caller : call[c].before \subseteq Run
  BY DEF LoaderInv, TypeOK, CallState
<1>3. SUFFICES \A c \in Caller : Good(c)'
  BY DEF CallInv
<1> HIDE DEF Good
<1>4. ASSUME NEW d \in Caller, call'[d] = call[d],
             \A k \in Run : run[k].phase # "none" =>
                /\ run'[k].phase # "none"
                /\ run'[k].force = run[k].force
                /\ Settled(k) => Settled(k)'
      PROVE  Good(d)'
  BY <1>1, <1>2, <1>4 DEF Good, Settled
<1>5. ASSUME NEW c \in Caller, NEW force \in BOOLEAN, CallLaunches(c, force)
      PROVE  \A d \in Caller : Good(d)'
  <2>1. /\ launched' = launched + 1 /\ launched' \in Run
        /\ run[launched'].phase = "none"
        /\ run'[launched'].phase = "launched"
        /\ run'[launched'].force = force
        /\ \A j \in Run \ {launched'} : run'[j] = run[j]
    BY <1>5, LaunchStep DEF CallLaunches
  <2>2. /\ call'[c].phase = "waiting" /\ call'[c].on = launched'
        /\ call'[c].force = force
        /\ \A k \in call'[c].before : k \in Run /\ Settled(k)
        /\ \A d \in Caller \ {c} : call'[d] = call[d]
    <3>1. call' = [call EXCEPT ![c] = Given(force, launched', FALSE)]
      BY <1>5, <2>1 DEF CallLaunches
    <3>2. launched' \in Run \cup {0, Pending} /\ FALSE \in BOOLEAN
      BY <2>1
    <3>3. QED
      BY <3>1, <3>2, GivenStep
  <2>3. Good(c)'
    BY <2>1, <2>2, Sentinels DEF Good, Settled
  <2>4. ASSUME NEW d \in Caller \ {c} PROVE Good(d)'
    BY <1>4, <2>1, <2>2 DEF Settled
  <2>5. QED
    BY <2>3, <2>4
<1>6. ASSUME NEW c \in Caller, NEW force \in BOOLEAN, NEW queued \in BOOLEAN,
             NEW promise \in Run \cup {Pending}, UNCHANGED run,
             call' = [call EXCEPT ![c] = Given(force, promise, queued)],
             promise = Pending => queued,
             promise \in Run => /\ run[promise].phase # "none"
                                /\ force => run[promise].force
                                /\ Quiet => ~ Settled(promise)
      PROVE  \A d \in Caller : Good(d)'
  <2>1. /\ call'[c].phase = "waiting" /\ call'[c].on = promise
        /\ call'[c].force = force /\ call'[c].queued = queued
        /\ \A k \in call'[c].before : k \in Run /\ Settled(k)
        /\ call'[c].before # {} => Quiet
        /\ \A d \in Caller \ {c} : call'[d] = call[d]
    <3>1. promise \in Run \cup {0, Pending}
      BY <1>6
    <3>2. call' = [call EXCEPT ![c] = Given(force, promise, queued)]
      BY <1>6
    <3>3. QED
      BY <3>1, <3>2, GivenStep
  <2>2. promise \notin call'[c].before
    BY <1>6, <2>1, Sentinels
  <2>3. Good(c)'
    BY <1>6, <2>1, <2>2, Sentinels DEF Good, Settled
  <2>4. ASSUME NEW d \in Caller \ {c} PROVE Good(d)'
    BY <1>4, <1>6, <2>1 DEF Settled
  <2>5. QED
    BY <2>3, <2>4
<1>7. ASSUME NEW c \in Caller, CallJoins(c) PROVE \A d \in Caller : Good(d)'
  <2>1. active \in Run /\ run[active].phase # "none" /\ (Quiet => ~ Settled(active))
    BY <1>7, HeldIsNotSettled DEF CallJoins, LoaderInv, TypeOK, RunInv
  <2>2. QED
    BY <1>6, <1>7, <2>1, Sentinels DEF CallJoins
<1>8. ASSUME NEW c \in Caller, NEW force \in BOOLEAN, CallJoinsQueued(c, force)
      PROVE  \A d \in Caller : Good(d)'
  <2>1. /\ queuedForce \in Run \cup {Pending}
        /\ queuedForce \in Run => /\ run[queuedForce].phase # "none"
                                  /\ run[queuedForce].force
                                  /\ Quiet => ~ Settled(queuedForce)
    BY <1>8, HeldIsNotSettled DEF CallJoinsQueued, LoaderInv, TypeOK, RunInv
  <2>2. QED
    BY <1>6, <1>8, <2>1 DEF CallJoinsQueued
<1>9. ASSUME NEW c \in Caller, CallQueues(c) PROVE \A d \in Caller : Good(d)'
  BY <1>6, <1>9, Sentinels DEF CallQueues
<1>10. ASSUME NEW k \in Run, RunStarts(k) \/ RunSettles(k)
       PROVE  \A d \in Caller : Good(d)'
  <2>1. /\ UNCHANGED call
        /\ InProgress(k)
        /\ run'[k].phase \in {"running", "settled"}
        /\ run'[k].force = run[k].force
        /\ \A j \in Run \ {k} : run'[j] = run[j]
    BY <1>10, RunStep
  <2>2. \A j \in Run : run[j].phase # "none" =>
                /\ run'[j].phase # "none"
                /\ run'[j].force = run[j].force
                /\ Settled(j) => Settled(j)'
    BY <2>1 DEF InProgress, Settled
  <2>3. QED
    BY <1>4, <2>1, <2>2
<1>11. CASE UNCHANGED <<run, call>>
  BY <1>4, <1>11 DEF Settled
<1>12. ASSUME QueuedLaunches PROVE \A d \in Caller : Good(d)'
  <2>1. active = 0
    BY <1>12 DEF QueuedLaunches, LoaderInv, RunInv
  <2>2. /\ launched' = launched + 1 /\ launched' \in Run
        /\ run[launched'].phase = "none"
        /\ run'[launched'].phase = "launched"
        /\ run'[launched'].force = TRUE
        /\ \A j \in Run \ {launched'} : run'[j] = run[j]
    BY <1>12, <2>1, LaunchStep DEF QueuedLaunches
  <2>3. ASSUME NEW d \in Caller PROVE Good(d)'
    <3>1. CASE call[d].on = Pending
      <4>1. /\ call'[d].on = launched'
            /\ call'[d].phase = "waiting"
            /\ call'[d].before = call[d].before
        BY <1>1, <1>12, <2>2, <3>1 DEF QueuedLaunches, Follow, Good, LoaderInv, TypeOK, CallState
      <4>2. \A k \in call[d].before : k # launched' /\ run'[k] = run[k] /\ Settled(k)
        BY <1>1, <1>2, <2>2 DEF Good, Settled
      <4>3. QED
        BY <2>2, <4>1, <4>2, Sentinels DEF Good, Settled
    <3>2. CASE call[d].on # Pending
      <4>1. call'[d] = call[d]
        BY <1>12, <3>2 DEF QueuedLaunches, Follow
      <4>2. QED
        BY <1>4, <2>2, <4>1 DEF Settled
    <3>3. QED
      BY <3>1, <3>2
  <2>4. QED
    BY <2>3
<1>13. ASSUME NEW c \in Caller, CallReturns(c) PROVE \A d \in Caller : Good(d)'
  <2>1. /\ UNCHANGED run
        /\ call[c].on \in Run
        /\ call'[c].on = call[c].on /\ call'[c].phase = "done"
        /\ call'[c].force = call[c].force /\ call'[c].before = call[c].before
        /\ \A d \in Caller \ {c} : call'[d] = call[d]
    BY <1>13 DEF CallReturns, LoaderInv, TypeOK, CallState
  <2>2. Good(c)'
    BY <1>1, <2>1, Sentinels DEF Good, Settled
  <2>3. ASSUME NEW d \in Caller \ {c} PROVE Good(d)'
    BY <1>4, <2>1 DEF Settled
  <2>4. QED
    BY <2>2, <2>3
<1>14. QED
  BY <1>5, <1>7, <1>8, <1>9, <1>10, <1>11, <1>12, <1>13
     DEF Next, Calls, Microtask, ActiveCleared, QueuedCleared, vars

(* Every step keeps a waiting call for each promise that is still held. *)
LEMMA WaiterInductive == LoaderInv /\ [Next]_vars => WaiterInv'
<1> SUFFICES ASSUME LoaderInv, [Next]_vars PROVE WaiterInv'
  OBVIOUS
<1>1. ASSUME NEW c \in Caller, call[c].phase = "none",
             \A d \in Caller \ {c} : call'[d] = call[d],
             UNCHANGED <<active, queuedForce>>
      PROVE  WaiterInv'
  BY <1>1 DEF LoaderInv, WaiterInv
<1>2. ASSUME NEW c \in Caller, NEW force \in BOOLEAN, CallLaunches(c, force)
      PROVE  WaiterInv'
  <2>1. launched' = launched + 1 /\ launched' \in Run /\ active' = launched'
    BY <1>2, LaunchStep DEF CallLaunches
  <2>2. call'[c].phase = "waiting" /\ call'[c].on = active'
    BY <1>2, <2>1, GivenStep DEF CallLaunches
  <2>3. queuedForce' = 0
    BY <1>2 DEF CallLaunches
  <2>4. QED
    BY <2>2, <2>3 DEF WaiterInv
<1>3. ASSUME NEW c \in Caller, CallJoins(c) PROVE WaiterInv'
  <2>1. active \in Run
    BY <1>3 DEF CallJoins, LoaderInv, TypeOK
  <2>2. QED
    BY <1>1, <1>3, <2>1, GivenStep DEF CallJoins
<1>4. ASSUME NEW c \in Caller, NEW force \in BOOLEAN, CallJoinsQueued(c, force)
      PROVE  WaiterInv'
  <2>1. queuedForce \in Run \cup {Pending}
    BY <1>4 DEF CallJoinsQueued, LoaderInv, TypeOK
  <2>2. QED
    BY <1>1, <1>4, <2>1, GivenStep DEF CallJoinsQueued
<1>5. ASSUME NEW c \in Caller, CallQueues(c) PROVE WaiterInv'
  <2>1. /\ call'[c].phase = "waiting" /\ call'[c].on = Pending /\ call'[c].queued
        /\ \A d \in Caller \ {c} : call'[d] = call[d]
    BY <1>5, GivenStep DEF CallQueues
  <2>2. call[c].phase = "none" /\ active' = active /\ queuedForce' = Pending
    BY <1>5 DEF CallQueues
  <2>3. QED
    BY <2>1, <2>2 DEF LoaderInv, WaiterInv
<1>6. CASE UNCHANGED <<active, queuedForce, call>>
  BY <1>6 DEF LoaderInv, WaiterInv
<1>7. ASSUME NEW k \in Run, ActiveCleared(k) \/ QueuedCleared(k) PROVE WaiterInv'
  BY <1>7 DEF ActiveCleared, QueuedCleared, LoaderInv, WaiterInv
<1>8. ASSUME QueuedLaunches PROVE WaiterInv'
  <2>1. PICK c \in Caller : /\ call[c].phase = "waiting" /\ call[c].queued
                            /\ call[c].on = Pending
    BY <1>8, Sentinels DEF QueuedLaunches, LoaderInv, WaiterInv
  <2>2. active' = launched + 1 /\ queuedForce' = launched + 1
    BY <1>8 DEF QueuedLaunches, Launch
  <2>3. /\ call'[c].phase = "waiting" /\ call'[c].queued
        /\ call'[c].on = launched + 1
    BY <1>8, <2>1 DEF QueuedLaunches, Follow, LoaderInv, TypeOK, CallState
  <2>4. QED
    BY <2>2, <2>3 DEF WaiterInv
<1>9. ASSUME NEW c \in Caller, CallReturns(c) PROVE WaiterInv'
  <2>1. /\ UNCHANGED <<active, queuedForce>>
        /\ active # call[c].on
        /\ call[c].queued => queuedForce # call[c].on
        /\ \A d \in Caller \ {c} : call'[d] = call[d]
    BY <1>9 DEF CallReturns, LoaderInv, TypeOK
  <2>2. QED
    BY <2>1 DEF LoaderInv, WaiterInv
<1>10. QED
  BY <1>2, <1>3, <1>4, <1>5, <1>6, <1>7, <1>8, <1>9
     DEF Next, Calls, Microtask, RunStarts, RunSettles, vars

-----------------------------------------------------------------------------
(* The invariant holds in every reachable state. *)
THEOREM LoaderInvariance == Spec => []LoaderInv
<1>1. LoaderInv /\ [Next]_vars => LoaderInv'
  BY LoaderTypes, RunInductive, CallInductive, WaiterInductive DEF LoaderInv
<1>2. QED
  BY LoaderInit, <1>1, PTL DEF Spec

(* The state has its types, and what queuedForce holds is a run that forces. *)
THEOREM LoaderTyping == Spec => []TypeOK
<1>1. LoaderInv => TypeOK
  BY DEF LoaderInv
<1>2. QED
  BY LoaderInvariance, <1>1, PTL

(* Two runs of the loader never overlap, however many calls force. *)
THEOREM RunsDoNotOverlap == Spec => []SingleFlight
<1>1. LoaderInv => SingleFlight
  BY DEF LoaderInv, RunInv, SingleFlight
<1>2. QED
  BY LoaderInvariance, <1>1, PTL

(* A forcing call never gets the result of a run that did not force. *)
THEOREM ForcingCallsGetForcedRuns == Spec => []ForcedRunForForcedCall
<1>1. LoaderInv => ForcedRunForForcedCall
  BY DEF LoaderInv, CallInv, ForcedRunForForcedCall
<1>2. QED
  BY LoaderInvariance, <1>1, PTL

(* A call made in a turn of its own never gets a result that is older than it. *)
THEOREM CallsGetUnfinishedRuns == Spec => []NoFinishedRun
<1>1. LoaderInv => NoFinishedRun
  BY DEF LoaderInv, CallInv, NoFinishedRun
<1>2. QED
  BY LoaderInvariance, <1>1, PTL

-----------------------------------------------------------------------------
(* The snapshot of the page.  Only the last run launched can be in         *)
(* progress, so that what settles is never older than what is shown.       *)

(* All routes come from one bootstrap, of a run that was launched, or none *)
(* has come yet; and none is a success without the registry.               *)
OneBootstrap(data) ==
    /\ data \in [Route -> Envelope]
    /\ \A q, r \in Route : data[q].run = data[r].run
    /\ \A r \in Route : /\ data[r].run <= launched
                        /\ data[r].run = 0 => data[r] = NoEnvelope
                        /\ Ok(data[r].state) => Ok(data["registry"].state)

ActiveIsLast == active \in {0, launched}

PageInv ==
    /\ result \in Result /\ OneBootstrap(result.data)
    /\ page \in Page /\ OneBootstrap(page.snapshot)
    /\ \A r \in Route : \/ result.data[r] = NoEnvelope
                        \/ page.snapshot[r].run <= result.data[r].run

(* The loader behind the page, or the one behind the operational session.  *)
PageStep == PageNext \/ (Next /\ UNCHANGED <<result, page>>)

LEMMA RouteIs == Route # {} /\ "registry" \in Route /\ "health" \in Route
  BY DEF Route

LEMMA NoEnvelopeIs ==
    /\ NoEnvelope \in Envelope /\ NoEnvelope.run = 0 /\ ~Ok(NoEnvelope.state)
    /\ \A r \in Route : NoData[r] = NoEnvelope
  BY DEF NoEnvelope, NoData, Envelope, Ok

LEMMA EnvelopeType ==
    ASSUME NEW data \in [Route -> Envelope], NEW r \in Route
    PROVE  data[r].run \in Run \cup {0} /\ data[r].run \in Nat
  BY DEF Envelope, Run

(* No bootstrap at all is one. *)
LEMMA NoDataIsOne == ASSUME launched \in Nat PROVE OneBootstrap(NoData)
  BY NoEnvelopeIs DEF OneBootstrap, NoData

LEMMA PageInitInv == PageInit => PageInv /\ ActiveIsLast
<1> SUFFICES ASSUME PageInit PROVE PageInv /\ ActiveIsLast
  OBVIOUS
<1>1. ActiveIsLast /\ launched \in Nat
  BY DEF PageInit, Init, ActiveIsLast
<1>2. NoData \in [Route -> Envelope]
  BY NoEnvelopeIs DEF NoData
<1>3. result \in Result /\ page \in Page
  BY <1>2 DEF PageInit, Result, Page
<1>4. QED
  BY <1>1, <1>3, NoDataIsOne, NoEnvelopeIs DEF PageInit, PageInv

(* Runs are launched one after the other, and active holds the last one. *)
LEMMA LaunchedGrows ==
    ASSUME TypeOK, ActiveIsLast, [Next]_vars
    PROVE  ActiveIsLast' /\ launched' >= launched
<1> USE Sentinels DEF TypeOK, ActiveIsLast
<1>1. ASSUME NEW force \in BOOLEAN, Launch(force)
      PROVE  ActiveIsLast' /\ launched' >= launched
  BY <1>1 DEF Launch
<1>2. CASE UNCHANGED <<launched, active>>
  BY <1>2
<1>3. ASSUME NEW k \in Run, ActiveCleared(k)
      PROVE  ActiveIsLast' /\ launched' >= launched
  BY <1>3 DEF ActiveCleared
<1>4. QED
  BY <1>1, <1>2, <1>3 DEF Next, Calls, Microtask, CallLaunches, CallJoins, CallJoinsQueued,
     CallQueues, RunStarts, RunSettles, QueuedCleared, QueuedLaunches, CallReturns, vars

(* A bootstrap stays one when further runs are launched. *)
LEMMA OneBootstrapStays ==
    ASSUME NEW data, OneBootstrap(data), launched \in Nat, launched' \in Nat,
           launched' >= launched
    PROVE  OneBootstrap(data)'
  BY EnvelopeType DEF OneBootstrap

(* What a run can resolve to. *)
LEMMA LoadedIs ==
    ASSUME NEW k \in Run, NEW body \in Body, k <= launched, launched \in Nat
    PROVE  /\ Loaded(k, body) \in Result
           /\ OneBootstrap(Loaded(k, body).data)
           /\ \A r \in Route : \/ Loaded(k, body).data[r] = NoEnvelope
                               \/ Loaded(k, body).data[r].run = k
<1>1. /\ body.state \in [Route -> ConnectionState \cup {"none"}]
      /\ body.failedRoutes \subseteq Route
  BY DEF Body
<1>2. CASE BootstrapFits(body)
  <2>1. \A r \in Route : body.state[r] # "none"
    BY <1>2 DEF BootstrapFits
  <2>2. (\E r \in Route : Ok(body.state[r])) => Ok(body.state["registry"])
    BY <1>2 DEF BootstrapFits
  <2>3. /\ Loaded(k, body).data =
             [r \in Route |-> [run |-> k, state |-> body.state[r]]]
        /\ Loaded(k, body).failures =
             {body.state[r] : r \in body.failedRoutes} \ {"none"}
        /\ Loaded(k, body) = [data |-> Loaded(k, body).data,
                              failures |-> Loaded(k, body).failures]
    BY <1>2, <2>1 DEF Loaded
  <2>4. \A r \in Route : /\ Loaded(k, body).data[r] = [run |-> k, state |-> body.state[r]]
                         /\ Loaded(k, body).data[r].run = k
                         /\ Loaded(k, body).data[r].state = body.state[r]
    BY <2>3
  <2>5. Loaded(k, body).data \in [Route -> Envelope]
    BY <1>1, <2>3 DEF Envelope
  <2>6. Loaded(k, body).failures \subseteq ConnectionState
    BY <1>1, <2>3
  <2>7. k # 0
    BY DEF Run
  <2>8. Loaded(k, body) \in Result
    BY <2>3, <2>5, <2>6 DEF Result
  <2>9. OneBootstrap(Loaded(k, body).data)
    BY <2>2, <2>4, <2>5, <2>7, RouteIs DEF OneBootstrap
  <2>10. QED
    BY <2>4, <2>8, <2>9
<1>3. CASE ~BootstrapFits(body)
  <2>1. Loaded(k, body) = [data |-> NoData, failures |-> {"Unavailable"}]
    BY <1>3 DEF Loaded, Unusable
  <2>2. NoData \in [Route -> Envelope]
    BY NoEnvelopeIs DEF NoData
  <2>3. QED
    BY <2>1, <2>2, NoDataIsOne, NoEnvelopeIs DEF Result, ConnectionState
<1>4. QED
  BY <1>2, <1>3

(* What settles comes from the last run, or brings no data. *)
LEMMA SettlesInv ==
    ASSUME LoaderInv, ActiveIsLast, PageInv, NEW k \in Run, SnapshotLoaded(k)
    PROVE  PageInv'
<1>1. /\ RunSettles(k) /\ UNCHANGED page
      /\ (\E body \in Body : result' = Loaded(k, body)) \/ result' = Unusable("Unavailable")
  BY DEF SnapshotLoaded
<1>2. k = launched /\ launched' = launched /\ launched \in Nat
  <2>1. InProgress(k) /\ UNCHANGED launched
    BY <1>1 DEF RunSettles, InProgress
  <2>2. active = k /\ k # 0
    BY <2>1 DEF LoaderInv, RunInv, Run
  <2>3. QED
    BY <2>1, <2>2, Sentinels DEF ActiveIsLast, LoaderInv, TypeOK
<1>3. /\ result' \in Result /\ OneBootstrap(result'.data)
      /\ \A r \in Route : result'.data[r] = NoEnvelope \/ result'.data[r].run = k
  <2>1. CASE \E body \in Body : result' = Loaded(k, body)
    BY <1>2, <2>1, LoadedIs
  <2>2. CASE result' = Unusable("Unavailable")
    <3>1. result' = [data |-> NoData, failures |-> {"Unavailable"}]
      BY <2>2 DEF Unusable
    <3>2. NoData \in [Route -> Envelope]
      BY NoEnvelopeIs DEF NoData
    <3>3. QED
      BY <1>2, <3>1, <3>2, NoDataIsOne, NoEnvelopeIs DEF Result, ConnectionState
  <2>3. QED
    BY <1>1, <2>1, <2>2
<1>4. OneBootstrap(result.data)' /\ OneBootstrap(page.snapshot)'
  BY <1>1, <1>2, <1>3 DEF OneBootstrap, PageInv
<1>5. \A r \in Route : page'.snapshot[r].run <= k
  BY <1>1, <1>2 DEF PageInv, OneBootstrap
<1>6. QED
  BY <1>1, <1>3, <1>4, <1>5 DEF PageInv

(* Merging a bootstrap takes all of it, or nothing. *)
LEMMA MergedIs ==
    ASSUME NEW snapshot \in [Route -> Envelope], NEW data, OneBootstrap(data)
    PROVE  Merged(snapshot, data) = snapshot \/ Merged(snapshot, data) = data
<1>1. data \in [Route -> Envelope] /\ (\A q, r \in Route : data[q].run = data[r].run)
      /\ (\A r \in Route : data[r].run = 0 => data[r] = NoEnvelope)
  BY DEF OneBootstrap
<1>2. CASE \A r \in Route : data[r] = NoEnvelope
  <2>1. Merged(snapshot, data) = [r \in Route |-> snapshot[r]]
    BY <1>2 DEF Merged
  <2>2. QED
    BY <2>1
<1>3. CASE \E r \in Route : data[r] # NoEnvelope
  <2>1. \A r \in Route : data[r] # NoEnvelope
    BY <1>1, <1>3, NoEnvelopeIs
  <2>2. Merged(snapshot, data) = [r \in Route |-> data[r]]
    BY <2>1 DEF Merged
  <2>3. QED
    BY <1>1, <2>2
<1>4. QED
  BY <1>2, <1>3

LEMMA ReturnsInv ==
    ASSUME PageInv, NEW c \in Caller, RefreshReturns(c)
    PROVE  /\ PageInv'
           /\ \A r \in Route : page'.snapshot[r].run >= page.snapshot[r].run
<1>1. /\ UNCHANGED <<launched, result>>
      /\ page' = [page EXCEPT
           !.snapshot = Merged(page.snapshot, result.data),
           !.failures = result.failures,
           !.loading = page.loading /\ page.generation # c]
  BY DEF RefreshReturns, CallReturns
<1>2. /\ page.snapshot \in [Route -> Envelope] /\ result.failures \in SUBSET ConnectionState
      /\ page.generation \in Caller \cup {Pending} /\ result.data \in [Route -> Envelope]
      /\ page = [snapshot |-> page.snapshot, failures |-> page.failures,
                 loading |-> page.loading, generation |-> page.generation]
  BY DEF PageInv, Page, Result
<1>3. PICK merged : merged = Merged(page.snapshot, result.data)
  OBVIOUS
<1>4. merged = page.snapshot \/ merged = result.data
  BY <1>2, <1>3, MergedIs DEF PageInv
<1>5. PICK loading \in BOOLEAN : loading = (page.loading /\ page.generation # c)
  OBVIOUS
<1>6. page' = [snapshot |-> merged, failures |-> result.failures,
               loading |-> loading, generation |-> page.generation]
  BY <1>1, <1>2, <1>3, <1>5
<1>7. page' \in Page /\ page'.snapshot = merged
  BY <1>2, <1>4, <1>6 DEF Page
<1>8. OneBootstrap(result.data)' /\ OneBootstrap(page.snapshot)'
  BY <1>1, <1>4, <1>7 DEF PageInv, OneBootstrap
<1>9. \A r \in Route :
        /\ merged[r].run >= page.snapshot[r].run
        /\ result.data[r] = NoEnvelope \/ merged[r].run <= result.data[r].run
  <2> SUFFICES ASSUME NEW r \in Route
               PROVE  /\ merged[r].run >= page.snapshot[r].run
                      /\ result.data[r] = NoEnvelope \/ merged[r].run <= result.data[r].run
    OBVIOUS
  <2>1. page.snapshot[r].run \in Nat /\ result.data[r].run \in Nat
    BY <1>2, EnvelopeType
  <2>2. CASE merged = page.snapshot
    BY <2>1, <2>2 DEF PageInv
  <2>3. CASE merged = result.data /\ result.data[r] # NoEnvelope
    BY <2>1, <2>3 DEF PageInv
  <2>4. CASE merged = result.data /\ result.data[r] = NoEnvelope
    <3>1. merged[r] = page.snapshot[r]
      BY <1>3, <2>4 DEF Merged
    <3>2. QED
      BY <2>1, <2>4, <3>1
  <2>5. QED
    BY <1>4, <2>2, <2>3, <2>4
<1>10. QED
  BY <1>1, <1>7, <1>8, <1>9 DEF PageInv

(* Every step of either loader is one of the serialized loader. *)
LEMMA PageStepIsNext == PageStep => Next
  BY DEF PageStep, PageNext, PageMicrotask, RefreshAsked, SnapshotLoaded, RefreshReturns,
         Next, Microtask

LEMMA PageInductive ==
    ASSUME LoaderInv, ActiveIsLast, PageInv, [PageStep]_pageVars
    PROVE  /\ PageInv'
           /\ \A r \in Route : page'.snapshot[r].run >= page.snapshot[r].run
<1>1. launched \in Nat /\ launched' \in Nat /\ launched' >= launched
  <2>1. [Next]_vars
    BY PageStepIsNext DEF pageVars
  <2>2. TypeOK /\ TypeOK'
    BY <2>1, LoaderTypes DEF LoaderInv
  <2>3. QED
    BY <2>1, <2>2, LaunchedGrows, Sentinels DEF TypeOK
<1>2. ASSUME UNCHANGED result, page'.snapshot = page.snapshot, page' \in Page
      PROVE  PageInv' /\ \A r \in Route : page'.snapshot[r].run >= page.snapshot[r].run
  <2>1. OneBootstrap(result.data)' /\ OneBootstrap(page.snapshot)'
    BY <1>1, <1>2 DEF PageInv, OneBootstrap, Envelope, Run
  <2>2. QED
    BY <1>2, <2>1, EnvelopeType DEF PageInv, Page
<1>3. CASE UNCHANGED <<result, page>>
  BY <1>2, <1>3 DEF PageInv
<1>4. ASSUME NEW c \in Caller, RefreshAsked(c)
      PROVE  PageInv' /\ \A r \in Route : page'.snapshot[r].run >= page.snapshot[r].run
  <2>1. page' \in Page /\ page'.snapshot = page.snapshot
    BY <1>4 DEF RefreshAsked, PageInv, Page
  <2>2. QED
    BY <1>2, <1>4, <2>1 DEF RefreshAsked
<1>5. ASSUME NEW k \in Run, SnapshotLoaded(k)
      PROVE  PageInv' /\ \A r \in Route : page'.snapshot[r].run >= page.snapshot[r].run
  <2>1. PageInv' /\ UNCHANGED page
    BY <1>5, SettlesInv DEF SnapshotLoaded
  <2>2. QED
    BY <2>1, EnvelopeType DEF PageInv, Page
<1>6. QED
  BY <1>3, <1>4, <1>5, ReturnsInv DEF PageStep, PageNext, PageMicrotask, pageVars

(* The invariant implies what the page promises in a state. *)
LEMMA PageShowsOne == PageInv => SnapshotIsOneBootstrap
<1> SUFFICES ASSUME PageInv PROVE SnapshotIsOneBootstrap
  OBVIOUS
<1>1. \A q, r \in Route : page.snapshot[q].run = page.snapshot[r].run
  BY DEF PageInv, OneBootstrap
<1>2. \A r \in Route : Ok(page.snapshot[r].state) => Ok(page.snapshot["registry"].state)
  BY DEF PageInv, OneBootstrap
<1>3. Shown = "Healthy" => Ok(page.snapshot["health"].state)
  BY DEF Shown, Ok
<1>4. QED
  BY <1>1, <1>2, <1>3, RouteIs DEF SnapshotIsOneBootstrap

-----------------------------------------------------------------------------
(* The ids of Conclave requests.  The id of an open submission is retained *)
(* under a key that its request determines: the version to run, or the key *)
(* of the request that is kept.                                            *)

ConclaveSpec == ConclaveInit /\ [][ConclaveNext]_conclaveVars

(* Key is the retry key under which request goes out in this state.        *)
KeyFits(key, request) ==
    \/ /\ request \in RunRequest
       /\ key = <<"run", request.review, request.version>>
    \/ /\ request \in CreateRequest
       /\ pendingCreate # NoChoice
       /\ request = pendingCreate.request /\ key = pendingCreate.key
    \/ /\ request \in EvidenceRequest
       /\ pendingEvidence # NoChoice
       /\ request = pendingEvidence.request /\ key = pendingEvidence.key

(* RequestTypes, with the tag of each key. *)
Tagged(key, tag) == \E n \in 1 .. drawn : key = <<tag, n>>

RequestTypes ==
    /\ known \in [Review -> ReviewState]
    /\ actual \in [Review -> ReviewState]
    /\ drawn \in 0 .. MaxIdentity
    /\ pendingCreate \in Kept(CreateRequest)
    /\ pendingCreate # NoChoice => Tagged(pendingCreate.key, "create")
    /\ pendingEvidence \in Kept(EvidenceRequest)
    /\ pendingEvidence # NoChoice => Tagged(pendingEvidence.key, "evidence")

(* One id is retained for a key and one key for an id, all of them drawn.  *)
DrawnKey(key) ==
    \/ Tagged(key, "create") \/ Tagged(key, "evidence")
    \/ \E r \in Review, v \in Version : key = <<"run", r, v>>

RetainedInv ==
    /\ \A x \in retained : /\ x = [key |-> x.key, id |-> x.id]
                           /\ x.id \in 1 .. drawn /\ DrawnKey(x.key)
    /\ \A x, y \in retained : x.key = y.key <=> x.id = y.id

(* Every open submission has its id retained. *)
OpenInv ==
    \A o \in open :
        /\ o = [request |-> o.request, id |-> o.id]
        /\ \E x \in retained : KeyFits(x.key, o.request) /\ x.id = o.id

(* What is under way is what is kept, unless it has been given up. *)
SubmissionInv ==
    /\ submission # NoChoice =>
          submission = [request |-> submission.request, key |-> submission.key,
                        at |-> submission.at]
    /\ submission # NoChoice /\ submission.at = "sent" =>
        LET request == submission.request
            key == submission.key
        IN \/ request \in RunRequest /\ KeyFits(key, request)
           \/ request \in CreateRequest /\ KeyFits(key, request)
           \/ /\ request \in EvidenceRequest
              /\ Tagged(key, "evidence")
              /\ pendingEvidence # NoChoice => KeyFits(key, request)

RequestInv == RequestTypes /\ RetainedInv /\ OpenInv /\ SubmissionInv

-----------------------------------------------------------------------------
(* The three kinds of request, and of key, are apart. *)
LEMMA Kinds ==
    /\ \A q \in RunRequest : q.kind = "run" /\ q.review \in Review /\ q.version \in Version
    /\ \A q \in CreateRequest : q.kind = "create"
    /\ \A q \in EvidenceRequest : q.kind = "evidence"
    /\ \A p, q \in RunRequest : p.review = q.review /\ p.version = q.version => p = q
  BY DEF RunRequest, CreateRequest, EvidenceRequest

LEMMA Tags ==
    /\ \A key : Tagged(key, "create") => key[1] = "create"
    /\ \A key : Tagged(key, "evidence") => key[1] = "evidence"
    /\ \A r, v : <<"run", r, v>>[1] = "run"
  BY DEF Tagged

LEMMA KeyTag ==
    ASSUME RequestTypes, NEW k, NEW q, KeyFits(k, q)
    PROVE  /\ q \in RunRequest \cup CreateRequest \cup EvidenceRequest
           /\ k[1] = q.kind
  BY Kinds, Tags DEF KeyFits, RequestTypes

(* A request has one key, and a key one request. *)
LEMMA OneKey ==
    ASSUME RequestTypes, NEW p, NEW q, NEW k, NEW l, KeyFits(k, p), KeyFits(l, q)
    PROVE  k = l <=> p = q
<1>1. CASE p \in RunRequest /\ q \in RunRequest
  <2>1. /\ k = <<"run", p.review, p.version>> /\ l = <<"run", q.review, q.version>>
    BY <1>1, Kinds DEF KeyFits
  <2>2. k = l <=> p.review = q.review /\ p.version = q.version
    BY <2>1
  <2>3. QED
    BY <1>1, <2>2, Kinds
<1>2. CASE p \in CreateRequest /\ q \in CreateRequest
  BY <1>2, Kinds DEF KeyFits
<1>3. CASE p \in EvidenceRequest /\ q \in EvidenceRequest
  BY <1>3, Kinds DEF KeyFits
<1>4. QED
  BY <1>1, <1>2, <1>3, KeyTag, Kinds

(* So the property follows. *)
LEMMA InvOneId == RequestInv => OneIdPerRequest
<1> SUFFICES ASSUME RequestInv, NEW o \in open, NEW p \in open
             PROVE  o.request = p.request <=> o.id = p.id
  BY DEF OneIdPerRequest
<1>1. PICK x \in retained : KeyFits(x.key, o.request) /\ x.id = o.id
  BY DEF RequestInv, OpenInv
<1>2. PICK y \in retained : KeyFits(y.key, p.request) /\ y.id = p.id
  BY DEF RequestInv, OpenInv
<1>3. x.key = y.key <=> o.request = p.request
  BY <1>1, <1>2, OneKey DEF RequestInv
<1>4. x.key = y.key <=> x.id = y.id
  BY DEF RequestInv, RetainedInv
<1>5. QED
  BY <1>1, <1>2, <1>3, <1>4

LEMMA RequestInit == ConclaveInit => RequestInv
<1> SUFFICES ASSUME ConclaveInit PROVE RequestInv
  OBVIOUS
<1>1. FirstVersion \in [Review -> ReviewState]
  BY ConclaveAssumption DEF FirstVersion, ReviewState, Version
<1>2. RequestTypes
  BY <1>1, ConclaveAssumption DEF ConclaveInit, RequestTypes, Kept
<1>3. RetainedInv /\ OpenInv /\ SubmissionInv
  BY DEF ConclaveInit, RetainedInv, OpenInv, SubmissionInv
<1>4. QED
  BY <1>2, <1>3 DEF RequestInv

-----------------------------------------------------------------------------
(* What is retained for a key, if anything, is one id; submitting draws a new
   one if nothing is. *)
LEMMA IdForIs ==
    ASSUME RetainedInv, NEW key, NEW uuid
    PROVE  \/ \E x \in retained : x.key = key /\ IdFor(key, uuid) = x.id
           \/ (\A x \in retained : x.key # key) /\ IdFor(key, uuid) = uuid
<1>1. CASE HeldFor(key) # {}
  <2>1. PICK x : x = (CHOOSE kept \in HeldFor(key) : TRUE)
    OBVIOUS
  <2>2. x \in HeldFor(key)
    BY <1>1, <2>1
  <2>3. IdFor(key, uuid) = x.id
    BY <1>1, <2>1 DEF IdFor
  <2>4. QED
    BY <2>2, <2>3 DEF HeldFor
<1>2. CASE HeldFor(key) = {}
  BY <1>2 DEF HeldFor, IdFor
<1>3. QED
  BY <1>1, <1>2

(* A submission of request under key, when what is kept after the step is
   what was kept, or this very request. *)
LEMMA SubmitInv ==
    ASSUME RequestInv, NEW request, NEW key, NEW keyDrawn \in {0, 1},
           Submits(request, key, keyDrawn),
           RequestTypes', KeyFits(key, request)', (DrawnKey(key))',
           keyDrawn = 1 => \A x \in retained : x.key # key,
           \A o \in open, x \in retained :
              KeyFits(x.key, o.request) =>
                 \/ Supersedes(request, o.request)
                 \/ KeyFits(x.key, o.request)'
    PROVE  RequestInv'
<1>1. PICK id : id = IdFor(key, drawn + keyDrawn + 1)
  OBVIOUS
<1>2. /\ drawn' = IF id = drawn + keyDrawn + 1 THEN drawn + keyDrawn + 1
                  ELSE drawn + keyDrawn
      /\ drawn' <= MaxIdentity
      /\ retained' = retained \cup {[key |-> key, id |-> id]}
      /\ submission' = [request |-> request, key |-> key, at |-> "sent"]
      /\ open' = {o \in open : ~Supersedes(request, o.request)}
                    \cup {[request |-> request, id |-> id]}
  BY <1>1 DEF Submits
<1>3. drawn \in Nat
  BY DEF RequestInv, RequestTypes
<1>4. drawn' \in Nat /\ drawn <= drawn'
  BY <1>2, <1>3
<1>5. \/ \E x \in retained : x.key = key /\ id = x.id
      \/ (\A x \in retained : x.key # key) /\ id = drawn + keyDrawn + 1
  BY <1>1, IdForIs DEF RequestInv
<1>6. \A x \in retained : x.id \in 1 .. drawn
  BY DEF RequestInv, RetainedInv
<1>7. id \in 1 .. drawn'
  BY <1>2, <1>3, <1>5, <1>6
<1>8. \A k : DrawnKey(k) => DrawnKey(k)'
  <2>1. \A n : n \in 1 .. drawn => n \in 1 .. drawn'
    BY <1>3, <1>4
  <2>2. QED
    BY <2>1 DEF DrawnKey, Tagged
<1>9. \A x \in retained : x.key = key <=> x.id = id
  BY <1>3, <1>5, <1>6 DEF RequestInv, RetainedInv
<1>10. RetainedInv'
  <2>1. PICK new : new = [key |-> key, id |-> id]
    OBVIOUS
  <2>2. new.key = key /\ new.id = id /\ new = [key |-> new.key, id |-> new.id]
    BY <2>1
  <2>3. retained' = retained \cup {new}
    BY <1>2, <2>1
  <2>4. \A x \in retained' : x = [key |-> x.key, id |-> x.id]
                             /\ x.id \in 1 .. drawn' /\ DrawnKey(x.key)'
    BY <1>3, <1>4, <1>7, <1>8, <2>2, <2>3 DEF RequestInv, RetainedInv
  <2>5. \A x, y \in retained' : x.key = y.key <=> x.id = y.id
    BY <1>9, <2>2, <2>3 DEF RequestInv, RetainedInv
  <2>6. QED
    BY <2>4, <2>5 DEF RetainedInv
<1>11. OpenInv'
  <2>1. PICK new : new = [key |-> key, id |-> id]
    OBVIOUS
  <2>2. new \in retained' /\ new.key = key /\ new.id = id /\ retained \subseteq retained'
    BY <1>2, <2>1
  <2>3. PICK opened : opened = [request |-> request, id |-> id]
    OBVIOUS
  <2>4. opened.request = request /\ opened.id = id
        /\ opened = [request |-> opened.request, id |-> opened.id]
    BY <2>3
  <2>5. open' = {o \in open : ~Supersedes(request, o.request)} \cup {opened}
    BY <1>2, <2>3
  <2>6. \E x \in retained' : KeyFits(x.key, opened.request)' /\ x.id = opened.id
    BY <2>2, <2>4
  <2>7. ASSUME NEW o \in open, ~Supersedes(request, o.request)
        PROVE  /\ o = [request |-> o.request, id |-> o.id]
               /\ \E x \in retained' : KeyFits(x.key, o.request)' /\ x.id = o.id
    <3>1. PICK x \in retained : KeyFits(x.key, o.request) /\ x.id = o.id
      BY DEF RequestInv, OpenInv
    <3>2. KeyFits(x.key, o.request)'
      BY <2>7, <3>1
    <3>3. QED
      BY <2>2, <3>1, <3>2 DEF RequestInv, OpenInv
  <2>8. QED
    BY <2>4, <2>5, <2>6, <2>7 DEF OpenInv
<1>12. SubmissionInv'
  BY <1>2, Tags DEF SubmissionInv, KeyFits, RequestTypes
<1>13. QED
  BY <1>10, <1>11, <1>12 DEF RequestInv

(* How far a submission draws. *)
LEMMA SubmitDraws ==
    ASSUME RequestInv, NEW request, NEW key, NEW keyDrawn \in {0, 1},
           Submits(request, key, keyDrawn)
    PROVE  /\ drawn' \in 0 .. MaxIdentity
           /\ drawn + keyDrawn <= drawn'
           /\ \A k, tag : Tagged(k, tag) => Tagged(k, tag)'
           /\ keyDrawn = 1 \/ (\A x \in retained : x.key # key) =>
                 /\ drawn + 1 <= drawn'
                 /\ \A k, tag : k = <<tag, drawn + 1>> => Tagged(k, tag)'
<1>1. drawn \in Nat
  BY DEF RequestInv, RequestTypes
<1>2. PICK id : id = IdFor(key, drawn + keyDrawn + 1)
  OBVIOUS
<1>3. /\ drawn' = IF id = drawn + keyDrawn + 1 THEN drawn + keyDrawn + 1
                  ELSE drawn + keyDrawn
      /\ drawn' <= MaxIdentity
  BY <1>2 DEF Submits
<1>4. drawn' \in 0 .. MaxIdentity /\ drawn + keyDrawn <= drawn'
  BY <1>1, <1>3, ConclaveAssumption
<1>5. \A n : n \in 1 .. drawn => n \in 1 .. drawn'
  BY <1>1, <1>4
<1>6. (\A x \in retained : x.key # key) => id = drawn + keyDrawn + 1
  BY <1>2, IdForIs DEF RequestInv
<1>7. ASSUME keyDrawn = 1 \/ (\A x \in retained : x.key # key)
      PROVE  drawn + 1 <= drawn' /\ drawn + 1 \in 1 .. drawn'
  BY <1>1, <1>3, <1>4, <1>6, <1>7
<1>8. \A k, tag : Tagged(k, tag) => Tagged(k, tag)'
  BY <1>5 DEF Tagged
<1>9. ASSUME drawn + 1 \in 1 .. drawn', NEW k, NEW tag, k = <<tag, drawn + 1>>
      PROVE  Tagged(k, tag)'
  BY <1>9 DEF Tagged
<1>10. QED
  BY <1>4, <1>7, <1>8, <1>9

(* A key that has not been drawn is retained for nothing. *)
LEMMA NewKey ==
    ASSUME RequestInv, NEW tag \in {"create", "evidence"}
    PROVE  /\ ~Tagged(<<tag, drawn + 1>>, tag)
           /\ \A x \in retained : x.key # <<tag, drawn + 1>>
<1>1. drawn \in Nat
  BY DEF RequestInv, RequestTypes
<1>2. PICK key : key = <<tag, drawn + 1>>
  OBVIOUS
<1>3. key[1] = tag /\ key[2] = drawn + 1
  BY <1>2
<1>4. \A t : Tagged(key, t) => key[2] \in 1 .. drawn
  BY DEF Tagged
<1>5. \A t : ~Tagged(key, t)
  BY <1>1, <1>3, <1>4
<1>6. \A r, v : key # <<"run", r, v>>
  BY <1>3, Tags
<1>7. QED
  BY <1>2, <1>5, <1>6 DEF RequestInv, RetainedInv, DrawnKey

-----------------------------------------------------------------------------
(* startInvestigation *)
LEMMA StartsInv ==
    ASSUME RequestInv, NEW typed \in Proposal \cup {NoChoice}, Starts(typed)
    PROVE  RequestInv'
<1>1. PICK proposal : proposal =
        CASE selected = "legacy" -> LegacyProposal
          [] ~(selected = "legacy") /\ typed # NoChoice -> typed
          [] OTHER -> pendingCreate.request.proposal
  OBVIOUS
<1>2. PICK asked : asked =
        [kind |-> "create", proposal |-> proposal,
         predecessor |-> IF selected = "legacy" THEN "legacy" ELSE NoChoice]
  OBVIOUS
<1>3. PICK kept : kept = Resolved(pendingCreate, asked)
  OBVIOUS
<1>4. /\ selected = "legacy" \/ typed # NoChoice \/ pendingCreate # NoChoice
      /\ pendingCreate' = kept
      /\ Submits(kept.request, kept.key, IF kept = pendingCreate THEN 0 ELSE 1)
      /\ UNCHANGED <<known, pendingEvidence, actual>>
  BY <1>1, <1>2, <1>3, Zenon DEF Starts
<1>5. proposal \in Proposal
  <2>1. LegacyProposal \in Proposal
    BY ConclaveAssumption DEF LegacyProposal
  <2>2. pendingCreate # NoChoice => pendingCreate.request.proposal \in Proposal
    BY DEF RequestInv, RequestTypes, Kept, Keyed, CreateRequest
  <2>3. QED
    BY <1>1, <1>4, <2>1, <2>2
<1>6. asked \in CreateRequest
  BY <1>2, <1>5 DEF CreateRequest
<1>7. CASE pendingCreate # NoChoice /\ pendingCreate.request = asked
  <2>1. kept = pendingCreate
    BY <1>3, <1>7 DEF Resolved
  <2>2. Submits(kept.request, kept.key, 0) /\ UNCHANGED pendingCreate
    BY <1>4, <2>1
  <2>3. /\ drawn' \in 0 .. MaxIdentity
        /\ \A k, tag : Tagged(k, tag) => Tagged(k, tag)'
    BY <2>2, SubmitDraws
  <2>4. RequestTypes'
    BY <1>4, <2>2, <2>3 DEF RequestInv, RequestTypes
  <2>5. KeyFits(kept.key, kept.request)'
    BY <1>6, <1>7, <2>1, <2>2 DEF KeyFits
  <2>6. DrawnKey(kept.key)'
    BY <1>7, <2>1, <2>2, <2>4 DEF RequestTypes, DrawnKey
  <2>7. \A k, q : KeyFits(k, q) => KeyFits(k, q)'
    BY <1>4, <2>2 DEF KeyFits
  <2>8. QED
    BY <2>2, <2>4, <2>5, <2>6, <2>7, SubmitInv
<1>8. CASE ~(pendingCreate # NoChoice /\ pendingCreate.request = asked)
  <2>1. kept = [request |-> asked, key |-> <<"create", drawn + 1>>]
    BY <1>3, <1>6, <1>8, Kinds DEF Resolved
  <2>2. kept.request = asked /\ kept.key = <<"create", drawn + 1>>
    BY <2>1
  <2>3. \A x \in retained : x.key # kept.key
    BY <2>2, NewKey
  <2>4. PICK n \in {0, 1} : n = IF kept = pendingCreate THEN 0 ELSE 1
    OBVIOUS
  <2>5. /\ Submits(asked, kept.key, n)
        /\ drawn' \in 0 .. MaxIdentity /\ drawn + 1 <= drawn'
        /\ \A k, tag : Tagged(k, tag) => Tagged(k, tag)'
        /\ Tagged(kept.key, "create")'
    BY <1>4, <2>2, <2>3, <2>4, SubmitDraws
  <2>6. kept \in Keyed(CreateRequest) /\ kept # NoChoice
    <3>1. drawn + 1 \in Identity
      BY <2>5, ConclaveAssumption DEF Identity, RequestInv, RequestTypes
    <3>2. <<"create", drawn + 1>> \in RetryKey
      BY <3>1 DEF RetryKey
    <3>3. kept \in Keyed(CreateRequest)
      BY <1>6, <2>1, <3>2 DEF Keyed
    <3>4. QED
      BY <3>3, NoChoiceAssumption DEF Keyed, ConclaveRequest
  <2>7. RequestTypes'
    BY <1>4, <2>5, <2>6 DEF RequestInv, RequestTypes, Kept
  <2>8. KeyFits(kept.key, asked)'
    BY <1>4, <1>6, <2>2, <2>6 DEF KeyFits
  <2>9. DrawnKey(kept.key)'
    BY <2>5 DEF DrawnKey
  <2>10. \A k, q : KeyFits(k, q) => Supersedes(asked, q) \/ KeyFits(k, q)'
    BY <1>4, <1>6, <1>8, Kinds DEF KeyFits, Supersedes
  <2>11. QED
    BY <2>3, <2>5, <2>7, <2>8, <2>9, <2>10, SubmitInv
<1>9. QED
  BY <1>7, <1>8

(* retryInvestigation *)
LEMMA RunsInv == RequestInv /\ Runs => RequestInv'
<1> SUFFICES ASSUME RequestInv, Runs PROVE RequestInv'
  OBVIOUS
<1>1. PICK request : request =
        [kind |-> "run", review |-> selected, version |-> known[selected].version]
  OBVIOUS
<1>2. /\ selected \in Review /\ Submits(request, RunKey(selected), 0)
      /\ UNCHANGED <<known, pendingCreate, pendingEvidence, actual>>
  BY <1>1 DEF Runs
<1>3. known[selected].version \in Version
  BY <1>2 DEF RequestInv, RequestTypes, ReviewState
<1>4. request \in RunRequest /\ request.review = selected
      /\ request.version = known[selected].version
  BY <1>1, <1>2, <1>3 DEF RunRequest
<1>5. PICK key : key = RunKey(selected)
  OBVIOUS
<1>6. key = <<"run", selected, known[selected].version>> /\ Submits(request, key, 0)
  BY <1>2, <1>5 DEF RunKey
<1>7. RequestTypes'
  BY <1>2, <1>6, SubmitDraws DEF RequestInv, RequestTypes
<1>8. KeyFits(key, request)' /\ DrawnKey(key)'
  <2>1. key = <<"run", request.review, request.version>>
    BY <1>4, <1>6
  <2>2. QED
    BY <1>2, <1>3, <1>4, <2>1, Kinds DEF KeyFits, DrawnKey
<1>9. \A k, q : KeyFits(k, q) => KeyFits(k, q)'
  BY <1>2 DEF KeyFits
<1>10. QED
  BY <1>6, <1>7, <1>8, <1>9, SubmitInv

(* admitEvidence, of what is kept, *)
LEMMA RetriesInv == RequestInv /\ RetriesEvidence => RequestInv'
<1> SUFFICES ASSUME RequestInv, RetriesEvidence PROVE RequestInv'
  OBVIOUS
<1>1. /\ pendingEvidence # NoChoice
      /\ Submits(pendingEvidence.request, pendingEvidence.key, 0)
      /\ UNCHANGED <<known, pendingCreate, pendingEvidence, actual>>
  BY DEF RetriesEvidence
<1>2. RequestTypes'
  BY <1>1, SubmitDraws DEF RequestInv, RequestTypes
<1>3. pendingEvidence.request \in EvidenceRequest
  BY <1>1 DEF RequestInv, RequestTypes, Kept, Keyed
<1>4. PICK request, key : request = pendingEvidence.request /\ key = pendingEvidence.key
  OBVIOUS
<1>5. KeyFits(key, request)' /\ DrawnKey(key)'
  BY <1>1, <1>2, <1>3, <1>4 DEF KeyFits, DrawnKey, RequestTypes
<1>6. \A k, q : KeyFits(k, q) => KeyFits(k, q)'
  BY <1>1 DEF KeyFits
<1>7. QED
  BY <1>1, <1>2, <1>4, <1>5, <1>6, SubmitInv

(* or of what is typed. *)
LEMMA AdmitsInv ==
    ASSUME RequestInv, NEW typed \in Evidence, AdmitsEvidence(typed)
    PROVE  RequestInv'
<1>1. PICK asked : asked = [kind |-> "evidence", review |-> selected, evidence |-> typed]
  OBVIOUS
<1>2. PICK kept : kept = Resolved(NoChoice, asked)
  OBVIOUS
<1>3. /\ selected \in Review /\ pendingEvidence = NoChoice /\ pendingEvidence' = kept
      /\ Submits(kept.request, kept.key, 1)
      /\ UNCHANGED <<known, pendingCreate, actual>>
  BY <1>1, <1>2, Zenon DEF AdmitsEvidence
<1>4. asked \in EvidenceRequest
  BY <1>1, <1>3 DEF EvidenceRequest
<1>5. kept = [request |-> asked, key |-> <<"evidence", drawn + 1>>]
  BY <1>1, <1>2 DEF Resolved
<1>6. kept.request = asked /\ kept.key = <<"evidence", drawn + 1>>
  BY <1>5
<1>7. /\ drawn' \in 0 .. MaxIdentity /\ drawn + 1 <= drawn'
      /\ \A k, tag : Tagged(k, tag) => Tagged(k, tag)'
      /\ Tagged(kept.key, "evidence")'
  BY <1>3, <1>6, SubmitDraws
<1>8. kept \in Keyed(EvidenceRequest) /\ kept # NoChoice
  <2>1. drawn + 1 \in Identity
    BY <1>7, ConclaveAssumption DEF Identity, RequestInv, RequestTypes
  <2>2. <<"evidence", drawn + 1>> \in RetryKey
    BY <2>1 DEF RetryKey
  <2>3. kept \in Keyed(EvidenceRequest)
    BY <1>4, <1>5, <2>2 DEF Keyed
  <2>4. QED
    BY <2>3, NoChoiceAssumption DEF Keyed, ConclaveRequest
<1>9. RequestTypes'
  BY <1>3, <1>7, <1>8 DEF RequestInv, RequestTypes, Kept
<1>10. KeyFits(kept.key, kept.request)'
  BY <1>3, <1>4, <1>6, <1>8 DEF KeyFits
<1>11. DrawnKey(kept.key)'
  BY <1>7 DEF DrawnKey
<1>12. \A x \in retained : x.key # kept.key
  BY <1>6, NewKey
<1>13. \A k, q : KeyFits(k, q) => KeyFits(k, q)'
  BY <1>3 DEF KeyFits
<1>14. QED
  BY <1>3, <1>9, <1>10, <1>11, <1>12, <1>13, SubmitInv

-----------------------------------------------------------------------------
(* What is kept is given up with the submissions it was for. *)
LEMMA TypedInv == RequestInv /\ EvidenceTyped => RequestInv'
<1> SUFFICES ASSUME RequestInv, EvidenceTyped PROVE RequestInv'
  OBVIOUS
<1>1. /\ pendingEvidence # NoChoice /\ pendingEvidence' = NoChoice
      /\ open' = {o \in open : o.request # pendingEvidence.request}
      /\ UNCHANGED <<known, pendingCreate, retained, drawn, submission, actual>>
  BY DEF EvidenceTyped
<1>2. RequestTypes' /\ RetainedInv'
  BY <1>1 DEF RequestInv, RequestTypes, Kept, Tagged, RetainedInv, DrawnKey
<1>3. OpenInv'
  BY <1>1 DEF RequestInv, OpenInv, KeyFits
<1>4. SubmissionInv'
  BY <1>1, Kinds DEF RequestInv, SubmissionInv, KeyFits, Tagged, RequestTypes
<1>5. QED
  BY <1>2, <1>3, <1>4 DEF RequestInv

(* Once admitted, a request is not kept and its id not retained; no other
   open submission has that key. *)
LEMMA AdmittedInv == RequestInv /\ SubmissionAdmitted => RequestInv'
<1> SUFFICES ASSUME RequestInv, SubmissionAdmitted PROVE RequestInv'
  OBVIOUS
<1>1. PICK request, key : request = submission.request /\ key = submission.key
  OBVIOUS
<1>2. /\ submission # NoChoice /\ submission.at = "sent"
      /\ retained' = retained \ HeldFor(key)
      /\ pendingCreate' = IF request.kind = "create" THEN NoChoice ELSE pendingCreate
      /\ pendingEvidence' = IF request.kind = "evidence" THEN NoChoice ELSE pendingEvidence
      /\ submission' = [submission EXCEPT !.at = "refreshing"]
      /\ open' = {o \in open : o.request # request}
      /\ UNCHANGED <<known, drawn, actual>>
  BY <1>1 DEF SubmissionAdmitted, Busy
<1>3. \/ KeyFits(key, request)
      \/ request \in EvidenceRequest /\ Tagged(key, "evidence") /\ pendingEvidence = NoChoice
  BY <1>1, <1>2 DEF RequestInv, SubmissionInv
<1>4. ASSUME NEW o \in open, NEW x \in retained, o.request # request,
             KeyFits(x.key, o.request)
      PROVE  x.key # key /\ KeyFits(x.key, o.request)'
  <2>1. CASE KeyFits(key, request)
    <3>1. x.key # key
      BY <1>4, <2>1, OneKey DEF RequestInv
    <3>2. KeyFits(x.key, o.request)'
      BY <1>2, <1>4, <2>1, Kinds DEF KeyFits
    <3>3. QED
      BY <3>1, <3>2
  <2>2. CASE request \in EvidenceRequest /\ Tagged(key, "evidence")
             /\ pendingEvidence = NoChoice
    <3>1. key[1] = "evidence" /\ request.kind = "evidence"
      BY <2>2, Tags, Kinds
    <3>2. o.request \notin EvidenceRequest \/ x.key[1] # "evidence"
      BY <1>4, <2>2, Kinds DEF KeyFits
    <3>3. x.key # key
      BY <1>4, <2>2, <3>1, KeyTag, Kinds DEF RequestInv, KeyFits
    <3>4. KeyFits(x.key, o.request)'
      BY <1>2, <1>4, <2>2, <3>1 DEF KeyFits
    <3>5. QED
      BY <3>3, <3>4
  <2>3. QED
    BY <1>3, <2>1, <2>2
<1>5. RequestTypes' /\ RetainedInv'
  BY <1>2 DEF RequestInv, RequestTypes, Kept, Tagged, RetainedInv, DrawnKey, HeldFor
<1>6. OpenInv'
  <2> SUFFICES ASSUME NEW o \in open, o.request # request
               PROVE  /\ o = [request |-> o.request, id |-> o.id]
                      /\ \E x \in retained' : KeyFits(x.key, o.request)' /\ x.id = o.id
    BY <1>2 DEF OpenInv
  <2>1. PICK x \in retained : KeyFits(x.key, o.request) /\ x.id = o.id
    BY DEF RequestInv, OpenInv
  <2>2. x \in retained' /\ KeyFits(x.key, o.request)'
    BY <1>2, <1>4, <2>1 DEF HeldFor
  <2>3. QED
    BY <2>1, <2>2 DEF RequestInv, OpenInv
<1>7. SubmissionInv'
  <2>1. submission = [request |-> request, key |-> key, at |-> submission.at]
    BY <1>1, <1>2 DEF RequestInv, SubmissionInv
  <2>2. submission' = [request |-> request, key |-> key, at |-> "refreshing"]
    BY <1>2, <2>1
  <2>3. QED
    BY <2>2 DEF SubmissionInv
<1>8. QED
  BY <1>5, <1>6, <1>7 DEF RequestInv

(* The steps that leave what is kept, retained and open as it is. *)
LEMMA OtherInv ==
    ASSUME RequestInv, known' \in [Review -> ReviewState], actual' \in [Review -> ReviewState],
           submission' \in {submission, NoChoice},
           UNCHANGED <<pendingCreate, pendingEvidence, retained, drawn, open>>
    PROVE  RequestInv'
<1>1. RequestTypes' /\ RetainedInv'
  BY DEF RequestInv, RequestTypes, Tagged, RetainedInv, DrawnKey
<1>2. OpenInv'
  BY DEF RequestInv, OpenInv, KeyFits
<1>3. SubmissionInv'
  BY DEF RequestInv, SubmissionInv, KeyFits, Tagged
<1>4. QED
  BY <1>1, <1>2, <1>3 DEF RequestInv

LEMMA RequestStep == RequestInv /\ [ConclaveNext]_conclaveVars => RequestInv'
<1> SUFFICES ASSUME RequestInv, [ConclaveNext]_conclaveVars PROVE RequestInv'
  OBVIOUS
<1>1. known \in [Review -> ReviewState] /\ actual \in [Review -> ReviewState]
  BY DEF RequestInv, RequestTypes
<1>2. CASE SubmissionFails
  BY <1>1, <1>2, OtherInv DEF SubmissionFails
<1>3. CASE DirectoryRead
  BY <1>1, <1>3, OtherInv DEF DirectoryRead
<1>4. CASE Refreshes
  BY <1>1, <1>4, OtherInv DEF Refreshes
<1>5. CASE \E r \in Review \cup {"legacy", NoChoice} : Selects(r)
  BY <1>1, <1>5, OtherInv DEF Selects
<1>6. ASSUME NEW r \in Review, ReviewChanges(r) PROVE RequestInv'
  <2>1. PICK completed \in BOOLEAN : actual' = [actual EXCEPT ![r] =
            [version |-> actual[r].version + 1, completed |-> completed]]
    BY <1>6 DEF ReviewChanges
  <2>2. actual[r].version \in 1 .. MaxVersion /\ actual[r].version < MaxVersion
    BY <1>1, <1>6 DEF ReviewChanges, ReviewState, Version
  <2>3. actual[r].version + 1 \in Version
    BY <2>2, ConclaveAssumption DEF Version
  <2>4. actual' \in [Review -> ReviewState]
    BY <1>1, <2>1, <2>3 DEF ReviewState
  <2>5. QED
    BY <1>1, <1>6, <2>4, OtherInv DEF ReviewChanges
<1>7. CASE UNCHANGED conclaveVars
  BY <1>1, <1>7, OtherInv DEF conclaveVars
<1>8. QED
  BY <1>2, <1>3, <1>4, <1>5, <1>6, <1>7, StartsInv, RunsInv, AdmitsInv, TypedInv,
     RetriesInv, AdmittedInv DEF ConclaveNext

-----------------------------------------------------------------------------
(* The strengthened invariant holds in every reachable state. *)
THEOREM RequestInvariance == ConclaveSpec => []RequestInv
  BY RequestInit, RequestStep, PTL DEF ConclaveSpec

(* A request that is sent again goes out under its id, and no id with two
   requests, however many Reviews, versions, retries and edits there are. *)
THEOREM RequestsKeepTheirIds == ConclaveSpec => []OneIdPerRequest
  BY RequestInvariance, InvOneId, PTL

-----------------------------------------------------------------------------
(* The shell.  A step of one workspace is a step of its component or       *)
(* leaves it alone, so what the components promise holds in the shell.     *)
LEMMA AppStep ==
    ASSUME [AppNext]_appVars
    PROVE  /\ [PageStep]_pageVars /\ [Next]_vars /\ [ConclaveNext]_conclaveVars
<1>1. CASE PageNext /\ OfSnapshot
  BY <1>1, PageStepIsNext DEF OfSnapshot, PageStep
<1>2. CASE Next /\ OfSession
  BY <1>2 DEF OfSession, PageStep
<1>3. CASE PanelNext /\ OfPanel
  BY <1>3 DEF OfPanel, pageVars
<1>4. CASE ConclaveNext /\ OfConclave
  BY <1>4 DEF OfConclave, pageVars
<1>5. CASE UNCHANGED appVars
  BY <1>5 DEF appVars, pageVars
<1>6. QED
  BY <1>1, <1>2, <1>3, <1>4, <1>5 DEF AppNext

(* The shell implements the serialized loader and the Conclave workspace.  *)
THEOREM ComponentsHold == AppSpec => Spec /\ ConclaveSpec
<1>1. AppInit => Init /\ ConclaveInit
  BY DEF AppInit, PageInit
<1>2. [AppNext]_appVars => [Next]_vars /\ [ConclaveNext]_conclaveVars
  BY AppStep
<1>3. QED
  BY <1>1, <1>2, PTL DEF AppSpec, Spec, ConclaveSpec

(* The state of the page has its invariant in the shell.                   *)
THEOREM PageInvariance == AppSpec => [](LoaderInv /\ ActiveIsLast /\ PageInv)
<1>1. AppInit => LoaderInv /\ ActiveIsLast /\ PageInv
  BY LoaderInit, PageInitInv DEF AppInit, PageInit
<1>2. LoaderInv /\ ActiveIsLast /\ PageInv /\ [AppNext]_appVars
        => (LoaderInv /\ ActiveIsLast /\ PageInv)'
  <2> SUFFICES ASSUME LoaderInv, ActiveIsLast, PageInv, [AppNext]_appVars
               PROVE  (LoaderInv /\ ActiveIsLast /\ PageInv)'
    OBVIOUS
  <2>1. [PageStep]_pageVars /\ [Next]_vars
    BY AppStep
  <2>2. LoaderInv'
    BY <2>1, LoaderTypes, RunInductive, CallInductive, WaiterInductive DEF LoaderInv
  <2>3. ActiveIsLast'
    BY <2>1, LaunchedGrows DEF LoaderInv
  <2>4. PageInv'
    BY <2>1, PageInductive
  <2>5. QED
    BY <2>2, <2>3, <2>4
<1>3. QED
  BY <1>1, <1>2, PTL DEF AppSpec

(* The routes shown together come from one bootstrap that admitted the     *)
(* registry, whatever the Gateway answers and whichever refresh returns.   *)
THEOREM PageShowsOneBootstrap == AppSpec => []SnapshotIsOneBootstrap
  BY PageInvariance, PageShowsOne, PTL

(* No refresh that returns late puts back what an older run had brought.   *)
THEOREM PageNeverGoesBack == AppSpec => SnapshotNeverGoesBack
<1>1. LoaderInv /\ ActiveIsLast /\ PageInv /\ [AppNext]_appVars =>
        [\A r \in Route : page'.snapshot[r].run >= page.snapshot[r].run]_pageVars
  BY AppStep, PageInductive
<1>2. QED
  BY PageInvariance, <1>1, PTL DEF AppSpec, SnapshotNeverGoesBack
=============================================================================
