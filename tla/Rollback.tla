------------------------------- MODULE Rollback -------------------------------
(***************************************************************************)
(* internal/rotation/rollback: the manager that restores the previous      *)
(* secret of a service after a failed rotation.  Any number of goroutines  *)
(* call TriggerRollback or ManualRollback; they share the map `states` and  *)
(* the StateInfo objects it points to.                                     *)
(*                                                                         *)
(* A step is what the code does while it holds one mutex: statesMu for the *)
(* lookup at the start of executeRollback and for Reset, StateInfo.mu for  *)
(* TransitionTo.  Between two steps a goroutine holds nothing, so every     *)
(* interleaving of steps is a run of the program.                          *)
(*                                                                         *)
(* Left out: wall-clock fields (StartedAt, CompletedAt, Duration), the      *)
(* Transitions log (the behaviour itself is that log), error texts.        *)
(***************************************************************************)
EXTENDS Naturals, Sequences

CONSTANTS
  Callers,       \* goroutines that call the manager
  Services,      \* service names, each as the sequence of its "/"-separated parts
  Environments,  \* environment names, likewise
  MaxRetries,    \* Config.MaxRetries
  MaxCalls,      \* bound: calls made by one goroutine
  MaxStates,     \* bound: StateInfo objects allocated
  NoState        \* the map has no entry for the key

ASSUME RollbackAssumption ==
  /\ MaxRetries \in Nat
  /\ MaxCalls \in Nat
  /\ MaxStates \in Nat
  /\ NoState \notin Nat

VARIABLES
  automatic,  \* Config.Automatic, fixed when the manager is built
  states,     \* Manager.states: key -> handle of a StateInfo, or NoState
  allocated,  \* how many StateInfo objects exist
  infos,      \* the StateInfo objects, by handle
  pc,         \* where each goroutine stands in executeRollback
  handle,     \* its local variable `state`
  attempt,    \* its local variable `attempt`
  tries,      \* how often its present call has run RestoreFunc
  outcome,    \* how its last call returned
  reported,   \* RollbackResult.Attempts of that call
  notified,   \* notifications its present call has handed to the notifier
  calls       \* calls it has made

vars == <<automatic, states, allocated, infos, pc, handle, attempt, tries,
          outcome, reported, notified, calls>>

-------------------------------------------------------------------------------
(* The state machine of state.go *)

State == {"idle", "triggered", "in_progress", "verifying", "completed", "failed"}

IsTerminal(s) == s \in {"completed", "failed"}

\* Mutant: a busy state may be triggered again.
ValidTransitionsReentrant ==
  [ idle        |-> {"triggered"},
    triggered   |-> {"in_progress", "failed"},
    in_progress |-> {"verifying", "failed"},
    verifying   |-> {"completed", "failed", "triggered"},
    completed   |-> {"idle"},
    failed      |-> {"idle", "triggered"} ]

ValidTransitions ==
  [ idle        |-> {"triggered"},
    triggered   |-> {"in_progress", "failed"},
    in_progress |-> {"verifying", "failed"},
    verifying   |-> {"completed", "failed"},
    completed   |-> {"idle"},
    failed      |-> {"idle", "triggered"} ]

CanTransitionTo(i, new) == new \in ValidTransitions[infos[i].current]

\* Reason, PreviousVersion and FailedVersion are those of one request: `request`
\* is the caller whose request SetVersionInfo stored last.
Nobody == "nobody"
NewStateInfo == [current |-> "idle", attempts |-> 0, request |-> Nobody]

Moved(info, new) ==
  [ current  |-> new,
    attempts |-> IF new = "triggered" THEN info.attempts + 1 ELSE info.attempts,
    request  |-> info.request ]

TransitionTo(i, new) ==
  infos' = IF CanTransitionTo(i, new)
             THEN [infos EXCEPT ![i] = Moved(infos[i], new)]
             ELSE infos

SetVersionInfo(info, p) ==
  [current |-> info.current, attempts |-> info.attempts, request |-> p]

-------------------------------------------------------------------------------
Handles == 1..MaxStates

\* "%s/%s": joining the parts of two names is concatenating their parts.
stateKey(service, environment) == service \o environment

Keys == {stateKey(s, e) : s \in Services, e \in Environments}

Locations == {"out", "trigger", "start", "restore", "verify", "completed", "failed"}

Outcomes == {"none", "disabled", "busy", "aborted", "failed", "rolled_back"}

\* The goroutine is between TransitionTo(Triggered) and the end of doRollback.
Driving(p) == pc[p] \in {"start", "restore", "verify"}

Goto(p, location) == pc' = [pc EXCEPT ![p] = location]

Return(p, result) ==
  /\ Goto(p, "out")
  /\ outcome' = [outcome EXCEPT ![p] = result]

Init ==
  /\ automatic \in BOOLEAN
  /\ states    = [k \in Keys |-> NoState]
  /\ allocated = 0
  /\ infos     = [i \in Handles |-> NewStateInfo]
  /\ pc        = [p \in Callers |-> "out"]
  /\ handle    = [p \in Callers |-> 0]
  /\ attempt   = [p \in Callers |-> 0]
  /\ tries     = [p \in Callers |-> 0]
  /\ outcome   = [p \in Callers |-> "none"]
  /\ reported  = [p \in Callers |-> 0]
  /\ notified  = [p \in Callers |-> 0]
  /\ calls     = [p \in Callers |-> 0]

-------------------------------------------------------------------------------
(* Entry: the lookup under statesMu *)

NewCall(p) ==
  /\ pc[p] = "out"
  /\ calls[p] < MaxCalls
  /\ calls'    = [calls EXCEPT ![p] = @ + 1]
  /\ attempt'  = [attempt EXCEPT ![p] = 0]
  /\ tries'    = [tries EXCEPT ![p] = 0]
  /\ reported' = [reported EXCEPT ![p] = 0]
  /\ notified' = [notified EXCEPT ![p] = 0]
  /\ UNCHANGED automatic

\* The entry of the map for key k, created if there is none.
Lookup(k) == IF states[k] = NoState THEN allocated + 1 ELSE states[k]

InProgress(k) ==
  /\ states[k] # NoState
  /\ infos[states[k]].current # "idle"
  /\ ~ IsTerminal(infos[states[k]].current)

RefuseBusy(p, k) ==
  /\ InProgress(k)
  /\ Return(p, "busy")
  /\ UNCHANGED <<states, allocated, infos, handle>>

\* Mutant: a new request starts from a fresh state, attempt counter included.
AdmitClearingAttempts(p, k) ==
  /\ ~ InProgress(k)
  /\ Lookup(k) \in Handles
  /\ allocated' = IF states[k] = NoState THEN allocated + 1 ELSE allocated
  /\ states' = [states EXCEPT ![k] = Lookup(k)]
  /\ infos' = [infos EXCEPT ![Lookup(k)] = [NewStateInfo EXCEPT !.request = p]]
  /\ handle' = [handle EXCEPT ![p] = Lookup(k)]
  /\ Goto(p, "trigger")
  /\ outcome' = [outcome EXCEPT ![p] = "none"]

Admit(p, k) ==
  /\ ~ InProgress(k)
  /\ Lookup(k) \in Handles
  /\ allocated' = IF states[k] = NoState THEN allocated + 1 ELSE allocated
  /\ states' = [states EXCEPT ![k] = Lookup(k)]
  /\ infos' = [infos EXCEPT ![Lookup(k)] = SetVersionInfo(@, p)]
  /\ handle' = [handle EXCEPT ![p] = Lookup(k)]
  /\ Goto(p, "trigger")
  /\ outcome' = [outcome EXCEPT ![p] = "none"]

executeRollback(p, k) == RefuseBusy(p, k) \/ Admit(p, k)

ManualRollback(p) ==
  /\ NewCall(p)
  /\ \E s \in Services, e \in Environments : executeRollback(p, stateKey(s, e))

TriggerRollback(p) ==
  /\ NewCall(p)
  /\ automatic
  /\ \E s \in Services, e \in Environments : executeRollback(p, stateKey(s, e))

TriggerDisabled(p) ==
  /\ NewCall(p)
  /\ ~ automatic
  /\ Return(p, "disabled")
  /\ UNCHANGED <<states, allocated, infos, handle>>

-------------------------------------------------------------------------------
(* One attempt: each step is one TransitionTo, under StateInfo.mu *)

LeaveMapAlone == UNCHANGED <<automatic, states, allocated, handle, calls>>

\* Mutant: the error of the transition is ignored, as Retry ignores it.
TriggerIgnoringError(p) ==
  /\ pc[p] = "trigger"
  /\ TransitionTo(handle[p], "triggered")
  /\ Goto(p, "start")
  /\ LeaveMapAlone
  /\ UNCHANGED <<attempt, tries, outcome, reported, notified>>

Trigger(p) ==
  /\ pc[p] = "trigger"
  /\ CanTransitionTo(handle[p], "triggered")
  /\ TransitionTo(handle[p], "triggered")
  /\ Goto(p, "start")
  /\ LeaveMapAlone
  /\ UNCHANGED <<attempt, tries, outcome, reported, notified>>

\* Mutant: a caller that lost the race waits for the state to become idle or failed.
AbortOnlyWhileBusy(p) ==
  /\ pc[p] = "trigger"
  /\ infos[handle[p]].current \in {"triggered", "in_progress", "verifying"}
  /\ Return(p, "aborted")
  /\ LeaveMapAlone
  /\ UNCHANGED <<infos, attempt, tries, reported, notified>>

\* Another caller moved the state since this one looked: the call returns the
\* transition error, and no notification is sent.
AbortAtTrigger(p) ==
  /\ pc[p] = "trigger"
  /\ ~ CanTransitionTo(handle[p], "triggered")
  /\ Return(p, "aborted")
  /\ LeaveMapAlone
  /\ UNCHANGED <<infos, attempt, tries, reported, notified>>

\* doRollback moves the state to `new`; if that is not allowed the attempt has failed.
MoveOn(p, new, location) ==
  /\ TransitionTo(handle[p], new)
  /\ Goto(p, IF CanTransitionTo(handle[p], new) THEN location ELSE "failed")
  /\ LeaveMapAlone
  /\ UNCHANGED <<attempt, outcome, reported, notified>>

Start(p) ==
  /\ pc[p] = "start"
  /\ MoveOn(p, "in_progress", "restore")
  /\ tries' = [tries EXCEPT ![p] = IF CanTransitionTo(handle[p], "in_progress")
                                    THEN @ + 1 ELSE @]

\* RestoreFunc returned nil (or is nil).
RestoreSucceeds(p) ==
  /\ pc[p] = "restore"
  /\ MoveOn(p, "verifying", "verify")
  /\ UNCHANGED tries

\* VerifyFunc returned nil (or is nil).
VerifySucceeds(p) ==
  /\ pc[p] = "verify"
  /\ MoveOn(p, "completed", "completed")
  /\ UNCHANGED tries

\* Mutant: a failed verification leaves the state at verifying.
AttemptFailsInPlace(p) ==
  /\ pc[p] \in {"restore", "verify"}
  /\ IF pc[p] = "restore" THEN TransitionTo(handle[p], "failed") ELSE UNCHANGED infos
  /\ Goto(p, "failed")
  /\ LeaveMapAlone
  /\ UNCHANGED <<attempt, tries, outcome, reported, notified>>

\* RestoreFunc or VerifyFunc returned an error, its own or that of the expired or
\* cancelled context.
AttemptFails(p) ==
  /\ pc[p] \in {"restore", "verify"}
  /\ TransitionTo(handle[p], "failed")
  /\ Goto(p, "failed")
  /\ LeaveMapAlone
  /\ UNCHANGED <<attempt, tries, outcome, reported, notified>>

-------------------------------------------------------------------------------
(* After the attempt *)

\* The error of TransitionTo(StateIdle) is ignored.
Retry(p) ==
  /\ pc[p] = "failed"
  /\ attempt[p] < MaxRetries
  /\ TransitionTo(handle[p], "idle")
  /\ attempt' = [attempt EXCEPT ![p] = @ + 1]
  /\ Goto(p, "trigger")
  /\ LeaveMapAlone
  /\ UNCHANGED <<tries, outcome, reported, notified>>

\* The result carries StateInfo.Attempts as it stands now; then one notification.
Settle(p, result) ==
  /\ reported' = [reported EXCEPT ![p] = infos[handle[p]].attempts]
  /\ notified' = [notified EXCEPT ![p] = @ + 1]
  /\ Return(p, result)
  /\ LeaveMapAlone
  /\ UNCHANGED <<infos, attempt, tries>>

GiveUp(p) ==
  /\ pc[p] = "failed"
  /\ ~ (attempt[p] < MaxRetries)
  /\ Settle(p, "failed")

Succeed(p) ==
  /\ pc[p] = "completed"
  /\ Settle(p, "rolled_back")

\* Mutant: Reset wipes the StateInfo instead of dropping the map's entry.
ResetInPlace ==
  /\ \E s \in Services, e \in Environments :
       LET k == stateKey(s, e) IN
       /\ states[k] # NoState
       /\ infos' = [infos EXCEPT ![states[k]] = NewStateInfo]
  /\ UNCHANGED <<automatic, states, allocated, pc, handle, attempt, tries,
                 outcome, reported, notified, calls>>

\* Reset drops the map's entry; a goroutine that holds the StateInfo keeps it.
Reset ==
  /\ \E s \in Services, e \in Environments :
       LET k == stateKey(s, e) IN
       /\ states[k] # NoState
       /\ states' = [states EXCEPT ![k] = NoState]
  /\ UNCHANGED <<automatic, allocated, infos, pc, handle, attempt, tries,
                 outcome, reported, notified, calls>>

-------------------------------------------------------------------------------
\* What a goroutine does once executeRollback has admitted it.
Proceed(p) ==
  \/ Trigger(p) \/ AbortAtTrigger(p)
  \/ Start(p) \/ RestoreSucceeds(p) \/ VerifySucceeds(p) \/ AttemptFails(p)
  \/ Retry(p) \/ GiveUp(p) \/ Succeed(p)

Next ==
  \/ Reset
  \/ \E p \in Callers :
       ManualRollback(p) \/ TriggerRollback(p) \/ TriggerDisabled(p) \/ Proceed(p)

Spec == Init /\ [][Next]_vars

\* The Go scheduler runs every goroutine, and RestoreFunc and VerifyFunc get a
\* context with Config.Timeout, so each of them returns.  Nobody has to call.
FairSpec == Spec /\ \A p \in Callers : WF_vars(Proceed(p))

-------------------------------------------------------------------------------
(* Properties *)

StateInfo == [current : State, attempts : Nat, request : Callers \cup {Nobody}]

\* Types of all the variables (state.go's StateInfo, manager.go's Manager and the
\* locals of executeRollback).
TypeOK ==
  /\ automatic \in BOOLEAN
  /\ allocated \in 0..MaxStates
  /\ states \in [Keys -> (1..allocated) \cup {NoState}]
  /\ infos \in [Handles -> StateInfo]
  /\ pc \in [Callers -> Locations]
  /\ handle \in [Callers -> 0..allocated]
  /\ \A p \in Callers : pc[p] # "out" => handle[p] \in Handles
  /\ attempt \in [Callers -> 0..MaxRetries]
  /\ tries \in [Callers -> Nat]
  /\ outcome \in [Callers -> Outcomes]
  /\ reported \in [Callers -> Nat]
  /\ notified \in [Callers -> Nat]
  /\ calls \in [Callers -> 0..MaxCalls]

\* Two callers never run an attempt on the same StateInfo at once, although the
\* check for a running rollback and the transition to triggered are separate steps.
OneDriverPerState ==
  \A p, q \in Callers :
    Driving(p) /\ Driving(q) /\ handle[p] = handle[q] => p = q

\* A state that makes the manager answer "already in progress" always has a
\* goroutine working on it: no interleaving of failures, retries and resets leaves
\* a service locked by nobody.
BusyHasDriver ==
  \A i \in Handles :
    infos[i].current \in {"triggered", "in_progress", "verifying"} =>
      \E p \in Callers : Driving(p) /\ handle[p] = i

\* The types, and no state left locked (manager.go:131-214).
WellFormed == TypeOK /\ BusyHasDriver

\* A call that gives up has run the restore exactly MaxRetries+1 times, and no call
\* ever runs it more often, however rivals disturb its retries.
RetryBudget ==
  \A p \in Callers :
    /\ tries[p] <= MaxRetries + 1
    /\ outcome[p] = "failed" => tries[p] = MaxRetries + 1

\* The attempt count a call reports covers its own attempts: rivals sharing the
\* StateInfo may inflate the number, never lose an attempt.
ReportedCoversTries ==
  \A p \in Callers :
    outcome[p] \in {"failed", "rolled_back"} => reported[p] >= tries[p]

\* What is counted of the restores, by the loop and by the state it shares, is what was
\* run (manager.go:131-186).
TriesAccounted == RetryBudget /\ ReportedCoversTries

-------------------------------------------------------------------------------
(* The inductive invariant behind the state properties: the local position  *)
(* of a driver and the shared state always agree, and the local counters     *)
(* agree with the shared one.                                                *)

Driven == [start |-> "triggered", restore |-> "in_progress", verify |-> "verifying"]

DriverMatchesState ==
  \A p \in Callers : Driving(p) => infos[handle[p]].current = Driven[pc[p]]

TriesMatchAttempt ==
  \A p \in Callers :
    /\ pc[p] \in {"trigger", "start"} => tries[p] = attempt[p]
    /\ pc[p] \in {"restore", "verify", "completed", "failed"} => tries[p] = attempt[p] + 1

StateCountsTries ==
  \A p \in Callers :
    /\ pc[p] = "start" => infos[handle[p]].attempts >= tries[p] + 1
    /\ pc[p] # "out" => infos[handle[p]].attempts >= tries[p]

PendingHasNoOutcome == \A p \in Callers : pc[p] # "out" => outcome[p] = "none"

IInv ==
  /\ TypeOK
  /\ OneDriverPerState
  /\ BusyHasDriver
  /\ DriverMatchesState
  /\ TriesMatchAttempt
  /\ StateCountsTries
  /\ PendingHasNoOutcome
  /\ RetryBudget
  /\ ReportedCoversTries

-------------------------------------------------------------------------------
\* While a state is busy, only the caller that drives it moves it.
OnlyDriverMovesState ==
  [][ \A i \in Handles, p \in Callers :
        (/\ Driving(p)
         /\ handle[p] = i
         /\ infos'[i].current # infos[i].current) => pc'[p] # pc[p] ]_vars

\* Every call returns, whatever its rivals do.
CallsReturn == \A p \in Callers : (pc[p] # "out") ~> (pc[p] = "out")

\* The refinement mapping: a StateInfo is a slot, its drivers are inside.
Inside == [i \in Handles |-> {p \in Callers : Driving(p) /\ handle[p] = i}]

PhaseAt(location) ==
  CASE location \in {"start", "restore"} -> "working"
    [] location = "verify"               -> "restored"
    [] location = "completed"            -> "succeeded"
    [] OTHER                             -> "outside"

Phase == [p \in Callers |-> PhaseAt(pc[p])]

Slot == INSTANCE RollbackSlot
          WITH Slots <- Handles, inside <- Inside, phase <- Phase

\* The manager keeps the promise of RollbackSlot.
RefinesSlot == Slot!SlotSpec
===============================================================================
