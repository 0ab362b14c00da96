---------------------------- MODULE RollbackProofs ----------------------------
(***************************************************************************)
(* Proofs about module Rollback, for any number of callers, targets,       *)
(* retries, calls and StateInfo objects.                                   *)
(***************************************************************************)
EXTENDS Rollback, TLAPS

\* TransitionTo(StateInfo.mu): what one transition does to all the StateInfo
\* objects, whether it was allowed or not.
LEMMA TransitionEffect ==
  ASSUME infos \in [Handles -> StateInfo],
         NEW i \in Handles, NEW new \in State, TransitionTo(i, new)
  PROVE  /\ infos' \in [Handles -> StateInfo]
         /\ \A j \in Handles : j # i => infos'[j] = infos[j]
         /\ \A j \in Handles : infos'[j].attempts >= infos[j].attempts
         /\ CanTransitionTo(i, new) => infos'[i].current = new
         /\ ~ CanTransitionTo(i, new) => infos' = infos
         /\ CanTransitionTo(i, new) /\ new = "triggered"
              => infos'[i].attempts = infos[i].attempts + 1
<1>1. CASE CanTransitionTo(i, new)
  <2> DEFINE moved == Moved(infos[i], new)
  <2>1. infos' = [infos EXCEPT ![i] = moved]
    BY <1>1 DEF TransitionTo
  <2>2. infos[i] \in StateInfo
    OBVIOUS
  <2>3. /\ moved \in StateInfo
        /\ moved.current = new
        /\ moved.attempts >= infos[i].attempts
        /\ new = "triggered" => moved.attempts = infos[i].attempts + 1
    BY <2>2 DEF StateInfo, Moved
  <2>4. \A j \in Handles : infos[j].attempts >= infos[j].attempts
    BY DEF StateInfo
  <2> HIDE DEF moved
  <2>5. QED
    BY <1>1, <2>1, <2>3, <2>4
<1>2. CASE ~ CanTransitionTo(i, new)
  BY <1>2 DEF TransitionTo, StateInfo
<1>3. QED
  BY <1>1, <1>2

\* Every call of TransitionTo in executeRollback names a state of the machine.
LEMMA StateNames ==
  /\ "idle" \in State /\ "triggered" \in State /\ "in_progress" \in State
  /\ "verifying" \in State /\ "completed" \in State /\ "failed" \in State
BY DEF State

-------------------------------------------------------------------------------
(* Type correctness *)

\* The steps that run after executeRollback has admitted the caller.
LEMMA ProceedType ==
  ASSUME TypeOK, NEW p \in Callers, Proceed(p)
  PROVE  TypeOK'
<1> USE RollbackAssumption DEF TypeOK, Goto, Return, LeaveMapAlone, Locations, Outcomes
<1>1. CASE Trigger(p)
  BY <1>1, TransitionEffect, StateNames DEF Trigger
<1>2. CASE AbortAtTrigger(p)
  BY <1>2 DEF AbortAtTrigger
<1>3. CASE Start(p)
  BY <1>3, TransitionEffect, StateNames DEF Start, MoveOn
<1>4. CASE RestoreSucceeds(p)
  BY <1>4, TransitionEffect, StateNames DEF RestoreSucceeds, MoveOn
<1>5. CASE VerifySucceeds(p)
  BY <1>5, TransitionEffect, StateNames DEF VerifySucceeds, MoveOn
<1>6. CASE AttemptFails(p)
  BY <1>6, TransitionEffect, StateNames DEF AttemptFails
<1>7. CASE Retry(p)
  BY <1>7, TransitionEffect, StateNames DEF Retry
<1>8. CASE GiveUp(p)
  BY <1>8 DEF GiveUp, Settle, StateInfo
<1>9. CASE Succeed(p)
  BY <1>9 DEF Succeed, Settle, StateInfo
<1>10. QED
  BY <1>1, <1>2, <1>3, <1>4, <1>5, <1>6, <1>7, <1>8, <1>9 DEF Proceed

\* The lookup at the start of executeRollback.
LEMMA AdmissionType ==
  ASSUME TypeOK, NEW p \in Callers, NEW k \in Keys, NewCall(p), executeRollback(p, k)
  PROVE  TypeOK'
<1> USE RollbackAssumption DEF TypeOK, NewCall, Goto, Return, Locations, Outcomes
<1>1. CASE RefuseBusy(p, k)
  BY <1>1 DEF RefuseBusy
<1>2. CASE Admit(p, k)
  <2>1. /\ Lookup(k) \in Handles
        /\ allocated' \in 0..MaxStates
        /\ Lookup(k) \in 1..allocated'
        /\ allocated <= allocated'
    BY <1>2 DEF Admit, Lookup, Handles
  <2>2. states' \in [Keys -> (1..allocated') \cup {NoState}]
    BY <1>2, <2>1 DEF Admit
  <2>3. infos' \in [Handles -> StateInfo]
    BY <1>2, <2>1 DEF Admit, SetVersionInfo, StateInfo
  <2>4. handle' \in [Callers -> 0..allocated']
    BY <1>2, <2>1 DEF Admit
  <2>5. \A q \in Callers : pc'[q] # "out" => handle'[q] \in Handles
    BY <1>2, <2>1 DEF Admit
  <2>6. QED
    BY <1>2, <2>1, <2>2, <2>3, <2>4, <2>5 DEF Admit
<1>3. QED
  BY <1>1, <1>2 DEF executeRollback

\* Every key the manager computes is one of the map's keys.
LEMMA KeyOfTarget ==
  ASSUME NEW s \in Services, NEW e \in Environments
  PROVE  stateKey(s, e) \in Keys
BY DEF Keys

\* No step leaves the types.
LEMMA TypeStep ==
  ASSUME TypeOK, [Next]_vars
  PROVE  TypeOK'
<1>1. ASSUME NEW p \in Callers, ManualRollback(p) \/ TriggerRollback(p) PROVE TypeOK'
  BY <1>1, AdmissionType, KeyOfTarget DEF ManualRollback, TriggerRollback
<1>2. ASSUME NEW p \in Callers, TriggerDisabled(p) PROVE TypeOK'
  BY <1>2, RollbackAssumption
  DEF TypeOK, TriggerDisabled, NewCall, Return, Goto, Locations, Outcomes
<1>3. ASSUME NEW p \in Callers, Proceed(p) PROVE TypeOK'
  BY <1>3, ProceedType
<1>4. CASE Reset
  BY <1>4, KeyOfTarget DEF TypeOK, Reset
<1>5. CASE UNCHANGED vars
  BY <1>5 DEF TypeOK, vars
<1>6. QED
  BY <1>1, <1>2, <1>3, <1>4, <1>5 DEF Next

\* manager.go and state.go never leave the types of their variables.
THEOREM TypeCorrect == Spec => []TypeOK
<1>1. Init => TypeOK
  BY RollbackAssumption
  DEF Init, TypeOK, NewStateInfo, StateInfo, State, Locations, Outcomes, Handles
<1>2. TypeOK /\ [Next]_vars => TypeOK'
  BY TypeStep
<1>3. QED
  BY <1>1, <1>2, PTL DEF Spec

-------------------------------------------------------------------------------
(* The inductive invariant *)

\* What a driver finds when it comes to move its state: the move is allowed.  The
\* error branches of doRollback's transitions are never taken.
LEMMA DriverMayMove ==
  ASSUME IInv, NEW p \in Callers
  PROVE  /\ pc[p] = "start" => CanTransitionTo(handle[p], "in_progress")
         /\ pc[p] = "restore" => CanTransitionTo(handle[p], "verifying")
         /\ pc[p] = "verify" => CanTransitionTo(handle[p], "completed")
         /\ pc[p] \in {"restore", "verify"} => CanTransitionTo(handle[p], "failed")
BY DEF IInv, DriverMatchesState, Driving, Driven, CanTransitionTo, ValidTransitions

\* A transition that is not made from a busy state cannot disturb a driver, and
\* nobody drives a state that is not busy.
LEMMA FreeStateHasNoDriver ==
  ASSUME IInv, NEW i \in Handles,
         infos[i].current \notin {"triggered", "in_progress", "verifying"}
  PROVE  \A q \in Callers : Driving(q) => handle[q] # i
BY DEF IInv, DriverMatchesState, Driving, Driven

\* The states from which "triggered" and "idle" are allowed are free.
LEMMA OnlyFreeStatesAreClaimed ==
  ASSUME NEW i \in Handles, infos[i].current \in State,
         CanTransitionTo(i, "triggered") \/ CanTransitionTo(i, "idle")
  PROVE  infos[i].current \notin {"triggered", "in_progress", "verifying"}
BY DEF CanTransitionTo, ValidTransitions, State

\* Claiming a state (idle or failed, so nobody drives it) makes the caller its driver.
LEMMA ClaimKeepsIInv ==
  ASSUME IInv, TypeOK', NEW p \in Callers, Trigger(p)
  PROVE  IInv'
<1> DEFINE h == handle[p]
<1>1. /\ TypeOK /\ h \in Handles /\ infos[h] \in StateInfo
      /\ infos[h].current \notin {"triggered", "in_progress", "verifying"}
  BY OnlyFreeStatesAreClaimed DEF Trigger, IInv, TypeOK, StateInfo
<1>2. \A q \in Callers : Driving(q) => handle[q] # h
  BY <1>1, FreeStateHasNoDriver
<1>3. /\ \A j \in Handles : j # h => infos'[j] = infos[j]
      /\ \A j \in Handles : infos'[j].attempts >= infos[j].attempts
      /\ infos'[h].current = "triggered"
      /\ infos'[h].attempts = infos[h].attempts + 1
  BY <1>1, TransitionEffect, StateNames DEF Trigger, TypeOK
<1>4. /\ pc' = [pc EXCEPT ![p] = "start"] /\ pc[p] = "trigger"
      /\ UNCHANGED <<handle, attempt, tries, outcome, reported>>
  BY DEF Trigger, Goto, LeaveMapAlone
<1> HIDE DEF h
<1>5. OneDriverPerState'
  BY <1>2, <1>4 DEF IInv, TypeOK, OneDriverPerState, Driving, h
<1>6. BusyHasDriver'
  BY <1>1, <1>3, <1>4 DEF IInv, TypeOK, BusyHasDriver, Driving, h
<1>7. DriverMatchesState'
  BY <1>1, <1>2, <1>3, <1>4 DEF IInv, TypeOK, DriverMatchesState, Driving, Driven, h
<1>8. TriesMatchAttempt' /\ PendingHasNoOutcome' /\ RetryBudget' /\ ReportedCoversTries'
  BY <1>4 DEF IInv, TypeOK, TriesMatchAttempt, PendingHasNoOutcome, RetryBudget,
              ReportedCoversTries
<1>9. StateCountsTries'
  BY <1>1, <1>3, <1>4 DEF IInv, TypeOK, StateInfo, StateCountsTries, h
<1>10. QED
  BY <1>5, <1>6, <1>7, <1>8, <1>9 DEF IInv

\* A driver moves its state and stays its driver, or leaves it free.
LEMMA DriverStepKeepsIInv ==
  ASSUME IInv, TypeOK', NEW p \in Callers, Driving(p),
         NEW new \in State, NEW location \in Locations,
         CanTransitionTo(handle[p], new), TransitionTo(handle[p], new),
         pc' = [pc EXCEPT ![p] = location],
         \/ /\ location \in {"restore", "verify"}
            /\ new = Driven[location]
         \/ /\ location \in {"completed", "failed"}
            /\ new \in {"completed", "failed"},
         tries' = [tries EXCEPT ![p] = IF pc[p] = "start" THEN @ + 1 ELSE @],
         UNCHANGED <<handle, attempt, outcome, reported>>
  PROVE  IInv'
<1> DEFINE h == handle[p]
<1>1. /\ TypeOK /\ h \in Handles /\ infos[h] \in StateInfo /\ new # "triggered"
      /\ pc[p] # "out" /\ pc[p] # "trigger" /\ location # "out"
      /\ location # "start" /\ location # "trigger"
  BY DEF IInv, TypeOK, Driving, Driven
<1>2. \A q \in Callers : Driving(q) /\ handle[q] = h => q = p
  BY DEF IInv, OneDriverPerState
<1>3. /\ \A j \in Handles : j # h => infos'[j] = infos[j]
      /\ \A j \in Handles : infos'[j].attempts >= infos[j].attempts
      /\ infos'[h].current = new
  BY <1>1, TransitionEffect DEF TypeOK
<1> HIDE DEF h
<1>4. OneDriverPerState'
  BY <1>2 DEF IInv, TypeOK, OneDriverPerState, Driving, h
<1>5. BusyHasDriver'
  <2>1. CASE location \in {"restore", "verify"}
    BY <1>1, <1>3, <2>1 DEF IInv, TypeOK, BusyHasDriver, Driving, h
  <2>2. CASE location \in {"completed", "failed"} /\ new \in {"completed", "failed"}
    BY <1>1, <1>2, <1>3, <2>2 DEF IInv, TypeOK, BusyHasDriver, Driving, h
  <2>3. QED
    BY <2>1, <2>2
<1>6. DriverMatchesState'
  BY <1>1, <1>2, <1>3 DEF IInv, TypeOK, DriverMatchesState, Driving, Driven, h
<1>7. TriesMatchAttempt' /\ PendingHasNoOutcome'
  BY <1>1 DEF IInv, TypeOK, TriesMatchAttempt, PendingHasNoOutcome, Driving
<1>8. RetryBudget'
  BY <1>1, <1>7, RollbackAssumption
  DEF IInv, TypeOK, RetryBudget, TriesMatchAttempt, PendingHasNoOutcome, Driving
<1>9. StateCountsTries' /\ ReportedCoversTries'
  BY <1>1, <1>3
  DEF IInv, TypeOK, StateInfo, StateCountsTries, ReportedCoversTries, PendingHasNoOutcome,
      Driving, h
<1>10. QED
  BY <1>4, <1>5, <1>6, <1>7, <1>8, <1>9 DEF IInv

\* The steps of doRollback, one attempt after it was claimed.
LEMMA AttemptKeepsIInv ==
  ASSUME IInv, TypeOK', NEW p \in Callers,
         Start(p) \/ RestoreSucceeds(p) \/ VerifySucceeds(p) \/ AttemptFails(p)
  PROVE  IInv'
<1> USE StateNames DEF Driving, Driven, Locations, Goto, LeaveMapAlone
<1>1. TypeOK
  BY DEF IInv
<1>2. CASE Start(p)
  <2>1. /\ Driving(p) /\ CanTransitionTo(handle[p], "in_progress")
        /\ TransitionTo(handle[p], "in_progress")
        /\ pc' = [pc EXCEPT ![p] = "restore"]
        /\ tries' = [tries EXCEPT ![p] = IF pc[p] = "start" THEN @ + 1 ELSE @]
        /\ UNCHANGED <<handle, attempt, outcome, reported>>
    BY <1>2, DriverMayMove DEF Start, MoveOn
  <2>2. QED
    BY <2>1, DriverStepKeepsIInv
<1>3. CASE RestoreSucceeds(p)
  <2>1. /\ Driving(p) /\ CanTransitionTo(handle[p], "verifying")
        /\ TransitionTo(handle[p], "verifying")
        /\ pc' = [pc EXCEPT ![p] = "verify"]
        /\ tries' = [tries EXCEPT ![p] = IF pc[p] = "start" THEN @ + 1 ELSE @]
        /\ UNCHANGED <<handle, attempt, outcome, reported>>
    BY <1>1, <1>3, DriverMayMove DEF RestoreSucceeds, MoveOn, TypeOK
  <2>2. QED
    BY <2>1, DriverStepKeepsIInv
<1>4. CASE VerifySucceeds(p)
  <2>1. /\ Driving(p) /\ CanTransitionTo(handle[p], "completed")
        /\ TransitionTo(handle[p], "completed")
        /\ pc' = [pc EXCEPT ![p] = "completed"]
        /\ tries' = [tries EXCEPT ![p] = IF pc[p] = "start" THEN @ + 1 ELSE @]
        /\ UNCHANGED <<handle, attempt, outcome, reported>>
    BY <1>1, <1>4, DriverMayMove DEF VerifySucceeds, MoveOn, TypeOK
  <2>2. QED
    BY <2>1, DriverStepKeepsIInv
<1>5. CASE AttemptFails(p)
  <2>1. /\ Driving(p) /\ CanTransitionTo(handle[p], "failed")
        /\ TransitionTo(handle[p], "failed")
        /\ pc' = [pc EXCEPT ![p] = "failed"]
        /\ tries' = [tries EXCEPT ![p] = IF pc[p] = "start" THEN @ + 1 ELSE @]
        /\ UNCHANGED <<handle, attempt, outcome, reported>>
    BY <1>1, <1>5, DriverMayMove DEF AttemptFails, TypeOK
  <2>2. QED
    BY <2>1, DriverStepKeepsIInv
<1>6. QED
  BY <1>2, <1>3, <1>4, <1>5

\* A retry either frees a failed state for anyone to claim, or finds that a rival
\* has moved it and leaves it alone.
LEMMA RetryKeepsIInv ==
  ASSUME IInv, TypeOK', NEW p \in Callers, Retry(p)
  PROVE  IInv'
<1> DEFINE h == handle[p]
<1>1. /\ TypeOK /\ h \in Handles /\ infos[h].current \in State
      /\ pc[p] = "failed" /\ pc' = [pc EXCEPT ![p] = "trigger"]
      /\ attempt[p] < MaxRetries /\ attempt' = [attempt EXCEPT ![p] = @ + 1]
      /\ UNCHANGED <<handle, tries, outcome, reported>>
  BY DEF Retry, Goto, LeaveMapAlone, IInv, TypeOK, StateInfo
<1>2. /\ \A j \in Handles : j # h => infos'[j] = infos[j]
      /\ \A j \in Handles : infos'[j].attempts >= infos[j].attempts
      /\ \/ infos' = infos
         \/ /\ infos'[h].current = "idle"
            /\ \A q \in Callers : Driving(q) => handle[q] # h
  BY <1>1, TransitionEffect, OnlyFreeStatesAreClaimed, FreeStateHasNoDriver, StateNames
  DEF Retry, TypeOK
<1> HIDE DEF h
<1>3. \A q \in Callers : Driving(q)' <=> Driving(q)
  BY <1>1 DEF TypeOK, Driving
<1>4. OneDriverPerState'
  BY <1>1, <1>3 DEF IInv, OneDriverPerState
<1>5. BusyHasDriver'
  <2>1. ASSUME NEW i \in Handles,
               infos'[i].current \in {"triggered", "in_progress", "verifying"}
        PROVE  infos'[i] = infos[i]
    BY <1>2, <2>1
  <2>2. QED
    BY <1>1, <1>3, <2>1 DEF IInv, BusyHasDriver
<1>6. DriverMatchesState'
  <2>1. ASSUME NEW q \in Callers, Driving(q)
        PROVE  infos'[handle[q]] = infos[handle[q]] /\ pc'[q] = pc[q]
    BY <1>1, <1>2, <2>1 DEF TypeOK, Driving
  <2>2. QED
    BY <1>1, <1>3, <2>1 DEF IInv, DriverMatchesState
<1>7. TriesMatchAttempt' /\ PendingHasNoOutcome' /\ RetryBudget' /\ ReportedCoversTries'
  BY <1>1
  DEF IInv, TypeOK, TriesMatchAttempt, PendingHasNoOutcome, RetryBudget, ReportedCoversTries
<1>8. StateCountsTries'
  BY <1>1, <1>2 DEF IInv, TypeOK, StateInfo, StateCountsTries
<1>9. QED
  BY <1>4, <1>5, <1>6, <1>7, <1>8 DEF IInv

\* The three ways out of an admitted call.
LEMMA ReturnKeepsIInv ==
  ASSUME IInv, TypeOK', NEW p \in Callers,
         AbortAtTrigger(p) \/ GiveUp(p) \/ Succeed(p)
  PROVE  IInv'
<1>1. /\ TypeOK /\ ~ Driving(p) /\ pc[p] # "out" /\ pc' = [pc EXCEPT ![p] = "out"]
      /\ UNCHANGED <<infos, handle, attempt, tries>>
  BY DEF IInv, AbortAtTrigger, GiveUp, Succeed, Settle, Return, Goto, LeaveMapAlone, Driving
<1>2. OneDriverPerState' /\ BusyHasDriver' /\ DriverMatchesState'
  BY <1>1
  DEF IInv, TypeOK, OneDriverPerState, BusyHasDriver, DriverMatchesState, Driving, Driven
<1>3. TriesMatchAttempt' /\ StateCountsTries'
  BY <1>1 DEF IInv, TypeOK, TriesMatchAttempt, StateCountsTries
<1>4. PendingHasNoOutcome'
  BY <1>1
  DEF IInv, TypeOK, PendingHasNoOutcome, AbortAtTrigger, GiveUp, Succeed, Settle, Return
<1>5. RetryBudget'
  BY <1>1, RollbackAssumption
  DEF IInv, TypeOK, RetryBudget, TriesMatchAttempt, PendingHasNoOutcome,
      AbortAtTrigger, GiveUp, Succeed, Settle, Return
<1>6. ReportedCoversTries'
  BY <1>1
  DEF IInv, TypeOK, StateInfo, ReportedCoversTries, StateCountsTries, PendingHasNoOutcome,
      AbortAtTrigger, GiveUp, Succeed, Settle, Return, LeaveMapAlone
<1>7. QED
  BY <1>2, <1>3, <1>4, <1>5, <1>6 DEF IInv

\* Entering executeRollback: refused callers stay out, admitted ones hold a state they
\* do not drive yet.
LEMMA CallKeepsIInv ==
  ASSUME IInv, TypeOK', NEW p \in Callers,
         \/ ManualRollback(p)
         \/ TriggerRollback(p)
         \/ TriggerDisabled(p)
  PROVE  IInv'
<1>1. /\ TypeOK /\ pc[p] = "out"
      /\ attempt' = [attempt EXCEPT ![p] = 0]
      /\ tries' = [tries EXCEPT ![p] = 0]
      /\ reported' = [reported EXCEPT ![p] = 0]
  BY DEF IInv, ManualRollback, TriggerRollback, TriggerDisabled, NewCall
<1>2. /\ \A q \in Callers : q # p => pc'[q] = pc[q] /\ handle'[q] = handle[q]
                                                 /\ outcome'[q] = outcome[q]
      /\ pc'[p] \in {"out", "trigger"}
      /\ pc'[p] = "trigger" => outcome'[p] = "none"
      /\ outcome'[p] \notin {"failed", "rolled_back"}
      /\ \A i \in Handles : /\ infos'[i].current = infos[i].current
                           /\ infos'[i].attempts = infos[i].attempts
  <2>1. ASSUME NEW k \in Keys, executeRollback(p, k)
        PROVE  <1>2!:
    <3>1. CASE RefuseBusy(p, k)
      BY <1>1, <3>1 DEF RefuseBusy, Return, Goto, TypeOK
    <3>2. CASE Admit(p, k)
      BY <1>1, <3>2 DEF Admit, Goto, SetVersionInfo, TypeOK, StateInfo
    <3>3. QED
      BY <2>1, <3>1, <3>2 DEF executeRollback
  <2>2. CASE TriggerDisabled(p)
    BY <1>1, <2>2 DEF TriggerDisabled, Return, Goto, TypeOK
  <2>3. QED
    BY <2>1, <2>2, KeyOfTarget DEF ManualRollback, TriggerRollback
<1>3. /\ \A q \in Callers : pc'[q] \in {"start", "restore", "verify"} <=> Driving(q)
      /\ \A q \in Callers : Driving(q) => handle'[q] = handle[q] /\ pc'[q] = pc[q]
  BY <1>1, <1>2 DEF Driving
<1>4. OneDriverPerState' /\ DriverMatchesState' /\ BusyHasDriver'
  <2>1. OneDriverPerState'
    BY <1>3 DEF IInv, OneDriverPerState, Driving
  <2>2. DriverMatchesState'
    BY <1>1, <1>2, <1>3 DEF IInv, TypeOK, DriverMatchesState, Driving
  <2>3. BusyHasDriver'
    BY <1>2, <1>3 DEF IInv, BusyHasDriver, Driving
  <2>4. QED
    BY <2>1, <2>2, <2>3
<1>5. TriesMatchAttempt' /\ PendingHasNoOutcome' /\ RetryBudget' /\ ReportedCoversTries'
  BY <1>1, <1>2, RollbackAssumption
  DEF IInv, TypeOK, TriesMatchAttempt, PendingHasNoOutcome, RetryBudget, ReportedCoversTries
<1>6. StateCountsTries'
  BY <1>1, <1>2 DEF IInv, TypeOK, StateInfo, StateCountsTries
<1>7. QED
  BY <1>4, <1>5, <1>6 DEF IInv

\* Every step of the manager keeps the invariant.
LEMMA IInvStep ==
  ASSUME IInv, [Next]_vars
  PROVE  IInv'
<1>1. TypeOK'
  BY TypeStep DEF IInv
<1>2. ASSUME NEW p \in Callers,
             ManualRollback(p) \/ TriggerRollback(p) \/ TriggerDisabled(p)
      PROVE  IInv'
  BY <1>1, <1>2, CallKeepsIInv
<1>3. ASSUME NEW p \in Callers, Proceed(p)
      PROVE  IInv'
  BY <1>1, <1>3, ClaimKeepsIInv, AttemptKeepsIInv, RetryKeepsIInv, ReturnKeepsIInv
  DEF Proceed
<1>4. CASE Reset
  BY <1>1, <1>4
  DEF Reset, IInv, OneDriverPerState, BusyHasDriver, DriverMatchesState, Driving,
      TriesMatchAttempt, StateCountsTries, PendingHasNoOutcome, RetryBudget,
      ReportedCoversTries
<1>5. CASE UNCHANGED vars
  BY <1>1, <1>5
  DEF vars, IInv, OneDriverPerState, BusyHasDriver, DriverMatchesState, Driving,
      TriesMatchAttempt, StateCountsTries, PendingHasNoOutcome, RetryBudget,
      ReportedCoversTries
<1>6. QED
  BY <1>2, <1>3, <1>4, <1>5 DEF Next

\* A manager that nobody has called yet satisfies the inductive invariant.
LEMMA IInvInitially == Init => IInv
<1> SUFFICES ASSUME Init PROVE IInv
  OBVIOUS
<1>1. TypeOK
  BY RollbackAssumption
  DEF Init, TypeOK, NewStateInfo, StateInfo, State, Locations, Outcomes, Handles
<1>2. QED
  BY <1>1, RollbackAssumption
  DEF Init, IInv, NewStateInfo, OneDriverPerState, BusyHasDriver, DriverMatchesState,
      Driving, TriesMatchAttempt, StateCountsTries, PendingHasNoOutcome, RetryBudget,
      ReportedCoversTries

\* The inductive invariant holds in every reachable state of the manager.
THEOREM Invariance == Spec => []IInv
  BY IInvInitially, IInvStep, PTL DEF Spec

\* At most one goroutine at a time runs an attempt on a StateInfo.
THEOREM MutualExclusion == Spec => []OneDriverPerState
<1>1. IInv => OneDriverPerState
  BY DEF IInv
<1>2. QED
  BY <1>1, Invariance, PTL

\* No StateInfo is left busy by goroutines that have gone.
THEOREM NoAbandonedState == Spec => []BusyHasDriver
<1>1. IInv => BusyHasDriver
  BY DEF IInv
<1>2. QED
  BY <1>1, Invariance, PTL

\* The state objects are well formed whatever the number of callers and targets.
THEOREM StatesWellFormed == Spec => []WellFormed
<1>1. IInv => WellFormed
  BY DEF IInv, WellFormed
<1>2. QED
  BY <1>1, Invariance, PTL

\* A call runs the restore at most MaxRetries+1 times, and exactly as often when it
\* reports that it failed, however many callers share the StateInfo.
THEOREM Accounting == Spec => []RetryBudget
<1>1. IInv => RetryBudget
  BY DEF IInv
<1>2. QED
  BY <1>1, Invariance, PTL

\* The attempts a call reports are at least those it made: a rival may inflate the
\* number, and never loses an attempt.
THEOREM ReportsCoverTries == Spec => []ReportedCoversTries
<1>1. IInv => ReportedCoversTries
  BY DEF IInv
<1>2. QED
  BY <1>1, Invariance, PTL

\* Both together: no restore is left uncounted, and none is run beyond the budget.
THEOREM TriesAreAccounted == Spec => []TriesAccounted
<1>1. RetryBudget /\ ReportedCoversTries => TriesAccounted
  BY DEF TriesAccounted
<1>2. QED
  BY <1>1, Accounting, ReportsCoverTries, PTL

-------------------------------------------------------------------------------
(* Steps *)

\* A rival's step never moves a state that somebody drives.
LEMMA DriverMoves ==
  ASSUME IInv, [Next]_vars, NEW i \in Handles, NEW p \in Callers,
         Driving(p), handle[p] = i, infos'[i].current # infos[i].current
  PROVE  pc'[p] # pc[p]
<1>1. TypeOK /\ infos[i].current \in {"triggered", "in_progress", "verifying"}
  BY DEF IInv, DriverMatchesState, Driving, Driven
<1>2. ASSUME NEW q \in Callers, Proceed(q)
      PROVE  pc'[p] # pc[p]
  <2>1. pc[q] # "out" /\ pc'[q] # pc[q] /\ handle[q] \in Handles
    BY <1>1, <1>2
    DEF Proceed, Trigger, AbortAtTrigger, Start, RestoreSucceeds, VerifySucceeds, AttemptFails,
        MoveOn, Retry, GiveUp, Succeed, Settle, Return, Goto, TypeOK
  <2>2. CASE q = p
    BY <2>1, <2>2
  <2>3. CASE q # p
    <3>1. PICK new \in State : infos' = infos \/ TransitionTo(handle[q], new)
      BY <1>2, StateNames
      DEF Proceed, Trigger, AbortAtTrigger, Start, RestoreSucceeds, VerifySucceeds, AttemptFails,
          MoveOn, Retry, GiveUp, Succeed, Settle
    <3>2. handle[q] = i
      BY <1>1, <2>1, <3>1, TransitionEffect DEF TypeOK
    <3>3. ~ Driving(q)
      BY <2>3, <3>2 DEF IInv, OneDriverPerState
    <3>4. Trigger(q) \/ Retry(q)
      BY <1>2, <3>3, <1>1
      DEF Proceed, Trigger, AbortAtTrigger, Start, RestoreSucceeds, VerifySucceeds, AttemptFails,
          GiveUp, Succeed, Settle, Driving
    <3>5. infos' = infos
      BY <1>1, <3>2, <3>4, OnlyFreeStatesAreClaimed, TransitionEffect, StateNames
      DEF Trigger, Retry, TypeOK, StateInfo
    <3>6. QED
      BY <3>5
  <2>4. QED
    BY <2>2, <2>3
<1>3. ASSUME NEW q \in Callers, ManualRollback(q) \/ TriggerRollback(q) \/ TriggerDisabled(q)
      PROVE  infos'[i].current = infos[i].current
  <2>1. ASSUME NEW k \in Keys, executeRollback(q, k)
        PROVE  infos'[i].current = infos[i].current
    BY <1>1, <2>1 DEF executeRollback, RefuseBusy, Admit, SetVersionInfo, TypeOK, StateInfo
  <2>2. QED
    BY <1>3, <2>1, KeyOfTarget DEF ManualRollback, TriggerRollback, TriggerDisabled
<1>4. QED
  BY <1>2, <1>3 DEF Next, Reset, vars

\* Only the goroutine that drives a busy state moves it.
THEOREM OnlyDriverMoves == Spec => OnlyDriverMovesState
<1>1. IInv /\ [Next]_vars
        => [ \A i \in Handles, p \in Callers :
               (/\ Driving(p)
                /\ handle[p] = i
                /\ infos'[i].current # infos[i].current) => pc'[p] # pc[p] ]_vars
  BY DriverMoves
<1>2. QED
  BY <1>1, Invariance, PTL DEF Spec, OnlyDriverMovesState

-------------------------------------------------------------------------------
(* The refinement of RollbackSlot *)

\* A step that changes neither who drives what nor the phases is a stuttering step.
LEMMA SlotStutter ==
  ASSUME TypeOK,
         \A q \in Callers :
           /\ Driving(q) <=> pc'[q] \in {"start", "restore", "verify"}
           /\ Driving(q) => handle'[q] = handle[q]
           /\ Phase'[q] = Phase[q]
  PROVE  UNCHANGED Slot!slotVars
<1>1. Inside' = Inside
  BY DEF Inside, Driving
<1>2. Phase' = Phase
  BY DEF Phase
<1>3. QED
  BY <1>1, <1>2 DEF Slot!slotVars

\* What the mapping makes of a step that moves one caller only.
LEMMA SlotMove ==
  ASSUME TypeOK, NEW p \in Callers, handle[p] \in Handles, NEW location \in Locations,
         pc' = [pc EXCEPT ![p] = location], UNCHANGED handle
  PROVE  /\ Phase' = [Phase EXCEPT ![p] = PhaseAt(location)]
         /\ location \in {"start", "restore", "verify"}
              => Inside' = [Inside EXCEPT ![handle[p]] = @ \cup {p}]
         /\ location \notin {"start", "restore", "verify"}
              => Inside' = [Inside EXCEPT ![handle[p]] = @ \ {p}]
<1>1. \A q \in Callers : pc'[q] = IF q = p THEN location ELSE pc[q]
  BY DEF TypeOK
<1>2. Phase' = [Phase EXCEPT ![p] = PhaseAt(location)]
  <2>1. \A q \in Callers : Phase'[q] = IF q = p THEN PhaseAt(location) ELSE Phase[q]
    BY <1>1 DEF Phase, PhaseAt
  <2>2. QED
    BY <2>1 DEF Phase
<1>3. CASE location \in {"start", "restore", "verify"}
  <2>1. ASSUME NEW i \in Handles
        PROVE  Inside'[i] = IF i = handle[p] THEN Inside[i] \cup {p} ELSE Inside[i]
    BY <1>1, <1>3 DEF Inside, Driving
  <2>2. Inside' = [Inside EXCEPT ![handle[p]] = @ \cup {p}]
    BY <2>1 DEF Inside
  <2>3. QED
    BY <1>2, <1>3, <2>2
<1>4. CASE location \notin {"start", "restore", "verify"}
  <2>1. ASSUME NEW i \in Handles
        PROVE  Inside'[i] = IF i = handle[p] THEN Inside[i] \ {p} ELSE Inside[i]
    BY <1>1, <1>4 DEF Inside, Driving
  <2>2. Inside' = [Inside EXCEPT ![handle[p]] = @ \ {p}]
    BY <2>1 DEF Inside
  <2>3. QED
    BY <1>2, <1>4, <2>2
<1>5. QED
  BY <1>3, <1>4

\* The steps of an admitted caller, seen through the mapping.
LEMMA ProceedRefines ==
  ASSUME IInv, NEW p \in Callers, Proceed(p)
  PROVE  [Slot!SlotNext]_(Slot!slotVars)
<1> DEFINE h == handle[p]
<1>1. /\ TypeOK /\ h \in Handles /\ UNCHANGED handle
      /\ Inside \in [Handles -> SUBSET Callers] /\ Inside' \in [Handles -> SUBSET Callers]
      /\ Phase[p] = PhaseAt(pc[p])
  BY DEF IInv, TypeOK, Proceed, Trigger, AbortAtTrigger, Start, RestoreSucceeds, VerifySucceeds,
         AttemptFails, MoveOn, Retry, GiveUp, Succeed, Settle, LeaveMapAlone, Inside, Phase
<1>2. Driving(p) => p \in Inside[h]
  BY <1>1 DEF Inside
<1> HIDE DEF h
<1>3. CASE Trigger(p)
  <2>1. Inside[h] = {}
    BY <1>1, <1>3, OnlyFreeStatesAreClaimed, FreeStateHasNoDriver
    DEF Trigger, Inside, TypeOK, StateInfo, h
  <2>2. pc' = [pc EXCEPT ![p] = "start"] /\ pc[p] = "trigger" /\ "start" \in Locations
    BY <1>3 DEF Trigger, Goto, Locations
  <2>3. Inside' = [Inside EXCEPT ![h] = {p}] /\ Phase' = [Phase EXCEPT ![p] = "working"]
    BY <1>1, <2>1, <2>2, SlotMove DEF h, PhaseAt
  <2>4. Slot!Claim(p, h)
    BY <1>1, <2>1, <2>2, <2>3 DEF Slot!Claim, PhaseAt
  <2>5. QED
    BY <1>1, <2>4 DEF Slot!SlotNext
<1>4. CASE RestoreSucceeds(p)
  <2>1. pc' = [pc EXCEPT ![p] = "verify"] /\ pc[p] = "restore" /\ "verify" \in Locations
    BY <1>4, DriverMayMove DEF RestoreSucceeds, MoveOn, Goto, Locations
  <2>2. /\ Inside' = [Inside EXCEPT ![h] = @ \cup {p}]
        /\ Phase' = [Phase EXCEPT ![p] = "restored"]
    BY <1>1, <2>1, SlotMove DEF h, PhaseAt
  <2>3. Inside' = Inside
    <3>1. p \in Inside[h]
      BY <1>2, <2>1 DEF Driving
    <3>2. Inside[h] \cup {p} = Inside[h]
      BY <3>1
    <3>3. QED
      BY <1>1, <2>2, <3>2
  <2>4. Slot!Restored(p, h)
    BY <1>1, <1>2, <2>1, <2>2, <2>3 DEF Slot!Restored, Driving, PhaseAt
  <2>5. QED
    BY <1>1, <2>4 DEF Slot!SlotNext
<1>5. CASE VerifySucceeds(p)
  <2>1. pc' = [pc EXCEPT ![p] = "completed"] /\ pc[p] = "verify" /\ "completed" \in Locations
    BY <1>5, DriverMayMove DEF VerifySucceeds, MoveOn, Goto, Locations
  <2>2. /\ Inside' = [Inside EXCEPT ![h] = @ \ {p}]
        /\ Phase' = [Phase EXCEPT ![p] = "succeeded"]
    BY <1>1, <2>1, SlotMove DEF h, PhaseAt
  <2>3. Slot!Succeed(p, h)
    BY <1>1, <1>2, <2>1, <2>2 DEF Slot!Succeed, Driving, PhaseAt
  <2>4. QED
    BY <1>1, <2>3 DEF Slot!SlotNext
<1>6. CASE AttemptFails(p)
  <2>1. pc' = [pc EXCEPT ![p] = "failed"] /\ pc[p] \in {"restore", "verify"}
        /\ "failed" \in Locations
    BY <1>6 DEF AttemptFails, Goto, Locations
  <2>2. /\ Inside' = [Inside EXCEPT ![h] = @ \ {p}]
        /\ Phase' = [Phase EXCEPT ![p] = "outside"]
    BY <1>1, <2>1, SlotMove DEF h, PhaseAt
  <2>3. Slot!Fail(p, h)
    BY <1>1, <1>2, <2>1, <2>2 DEF Slot!Fail, Driving, PhaseAt
  <2>4. QED
    BY <1>1, <2>3 DEF Slot!SlotNext
<1>7. CASE Succeed(p)
  <2>1. pc' = [pc EXCEPT ![p] = "out"] /\ pc[p] = "completed" /\ "out" \in Locations
    BY <1>7 DEF Succeed, Settle, Return, Goto, Locations
  <2>2. p \notin Inside[h]
    BY <1>1, <2>1 DEF Inside, Driving
  <2>3. /\ Inside' = [Inside EXCEPT ![h] = @ \ {p}]
        /\ Phase' = [Phase EXCEPT ![p] = "outside"]
    BY <1>1, <2>1, SlotMove DEF h, PhaseAt
  <2>4. Inside' = Inside
    <3>1. Inside[h] \ {p} = Inside[h]
      BY <2>2
    <3>2. QED
      BY <1>1, <2>3, <3>1
  <2>5. Slot!Report(p)
    BY <1>1, <2>1, <2>3, <2>4 DEF Slot!Report, PhaseAt
  <2>6. QED
    BY <2>5 DEF Slot!SlotNext
<1>8. CASE Start(p) \/ AbortAtTrigger(p) \/ Retry(p) \/ GiveUp(p)
  <2>1. \A q \in Callers :
           /\ Driving(q) <=> pc'[q] \in {"start", "restore", "verify"}
           /\ Phase'[q] = Phase[q]
    BY <1>1, <1>8, DriverMayMove
    DEF Start, MoveOn, AbortAtTrigger, Retry, GiveUp, Settle, Return, Goto, TypeOK, Driving, Phase, PhaseAt
  <2>2. QED
    BY <1>1, <2>1, SlotStutter
<1>9. QED
  BY <1>3, <1>4, <1>5, <1>6, <1>7, <1>8 DEF Proceed

\* Entering the manager and Reset change nothing that RollbackSlot sees.
LEMMA CallRefines ==
  ASSUME IInv, NEW p \in Callers, ManualRollback(p) \/ TriggerRollback(p) \/ TriggerDisabled(p)
  PROVE  UNCHANGED Slot!slotVars
<1>1. /\ TypeOK /\ pc[p] = "out" /\ pc'[p] \in {"out", "trigger"}
      /\ \A q \in Callers : q # p => pc'[q] = pc[q] /\ handle'[q] = handle[q]
  BY DEF IInv, TypeOK, ManualRollback, TriggerRollback, TriggerDisabled, NewCall,
         executeRollback, RefuseBusy, Admit, Return, Goto
<1>2. \A q \in Callers :
         /\ Driving(q) <=> pc'[q] \in {"start", "restore", "verify"}
         /\ Driving(q) => handle'[q] = handle[q]
         /\ Phase'[q] = Phase[q]
  BY <1>1 DEF Driving, Phase, PhaseAt
<1>3. QED
  BY <1>1, <1>2, SlotStutter

\* The rollback manager implements RollbackSlot: one caller at a time in a slot, and no
\* success without a restore and a verification in one uninterrupted stay.
THEOREM Refinement == Spec => RefinesSlot
<1>1. Init => Slot!SlotInit
  BY DEF Init, Slot!SlotInit, Inside, Phase, PhaseAt, Driving
<1>2. IInv /\ [Next]_vars => [Slot!SlotNext]_(Slot!slotVars)
  <2> SUFFICES ASSUME IInv, [Next]_vars PROVE [Slot!SlotNext]_(Slot!slotVars)
    OBVIOUS
  <2>1. CASE Reset \/ UNCHANGED vars
    BY <2>1 DEF Reset, vars, Slot!slotVars, Inside, Phase, PhaseAt, Driving
  <2>2. QED
    BY <2>1, ProceedRefines, CallRefines DEF Next
<1>3. QED
  BY <1>1, <1>2, Invariance, PTL DEF Spec, RefinesSlot, Slot!SlotSpec
===============================================================================
