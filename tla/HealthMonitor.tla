----------------------------- MODULE HealthMonitor -----------------------------
(***************************************************************************)
(* internal/rotation/health/monitor.go: after a rotation a goroutine checks  *)
(* the service at every tick; enough failures in a row request a rollback.   *)
(* Callers start, stop and close monitoring meanwhile.                      *)
(*                                                                         *)
(* A step is one critical section of mu, one select or one cancel.  Ticker   *)
(* and period timer fire at any time, and so does StopMonitoring's timeout.  *)
(* lastStatus follows consecutiveFails and is left out, as are the times.    *)
(***************************************************************************)
EXTENDS Naturals, Sequences, Functions

CONSTANTS
  Callers,           \* goroutines that start, stop and close monitoring
  Services,          \* service names, each as the sequence of its "/"-separated parts
  Environments,      \* environment names, likewise
  FailureThreshold,  \* MonitorConfig.FailureThreshold
  MaxMonitors,       \* bound: monitors started
  NoMonitor

ASSUME HealthAssumption ==
  /\ FailureThreshold \in Nat \ {0}
  /\ MaxMonitors \in Nat
  /\ NoMonitor \notin Nat

VARIABLES
  hasChecker,  \* a checker is registered
  hasTrigger,  \* a RollbackTrigger is set
  monitors,    \* HealthMonitor.monitors: key -> monitor or NoMonitor
  key,         \* the key each monitor was started under
  at,          \* where its goroutine stands in runMonitor
  fails,       \* monitorState.consecutiveFails, counted up to FailureThreshold
  cancelled,   \* monitors whose cancel function was called
  orphaned,    \* monitors whose parent context is cancelled
  results,     \* history: the results of each monitor's last FailureThreshold checks
  requested,   \* monitors that have requested a rollback (they may do so again)
  caller,      \* where each caller stands in StopMonitoring
  target,      \* its local variables `key` and `state`
  closing      \* the keys its Close has still to stop

wiring  == <<hasChecker, hasTrigger>>
running == <<key, at, fails, results, requested>>
calling == <<caller, target, closing>>
vars == <<wiring, monitors, running, cancelled, orphaned, calling>>

Ids == 1..MaxMonitors

\* "%s/%s": joining the parts of two names is concatenating their parts.
monitorKey(service, environment) == service \o environment

Keys == {monitorKey(s, e) : s \in Services, e \in Environments}

NoTarget == [key |-> <<>>, monitor |-> NoMonitor]

Init ==
  /\ hasChecker = FALSE /\ hasTrigger = FALSE
  /\ monitors = [k \in Keys |-> NoMonitor]
  /\ key = [i \in Ids |-> <<>>]
  /\ at = [i \in Ids |-> "none"]
  /\ fails = [i \in Ids |-> 0]
  /\ results = [i \in Ids |-> <<>>]
  /\ cancelled = {} /\ orphaned = {} /\ requested = {}
  /\ caller = [c \in Callers |-> "out"]
  /\ target = [c \in Callers |-> NoTarget]
  /\ closing = [c \in Callers |-> {}]

RegisterChecker ==
  /\ ~ hasChecker
  /\ hasChecker' = TRUE
  /\ UNCHANGED <<hasTrigger, monitors, running, cancelled, orphaned, calling>>

SetRollbackTrigger ==
  /\ ~ hasTrigger
  /\ hasTrigger' = TRUE
  /\ UNCHANGED <<hasChecker, monitors, running, cancelled, orphaned, calling>>

-------------------------------------------------------------------------------
(* The callers *)

Unused == {i \in Ids : at[i] = "none"}

StartMonitoring(c, k) ==
  /\ caller[c] = "out"
  /\ monitors[k] = NoMonitor
  /\ hasChecker
  /\ \E i \in Unused :
       /\ \A j \in Unused : i <= j
       /\ monitors' = [monitors EXCEPT ![k] = i]
       /\ key' = [key EXCEPT ![i] = k]
       /\ at' = [at EXCEPT ![i] = "check"]
  /\ UNCHANGED <<wiring, fails, results, requested, cancelled, orphaned, calling>>

\* Whoever owns the context given to StartMonitoring cancels it.
CancelParent(i) ==
  /\ at[i] # "none"
  /\ i \notin orphaned
  /\ orphaned' = orphaned \cup {i}
  /\ UNCHANGED <<wiring, monitors, running, cancelled, calling>>

MonitorOf(k) == IF k \in Keys THEN monitors[k] ELSE NoMonitor

\* The lookup of StopMonitoring; a key without a monitor is left alone.
LookUp(c, k) ==
  /\ MonitorOf(k) # NoMonitor
  /\ target' = [target EXCEPT ![c] = [key |-> k, monitor |-> MonitorOf(k)]]
  /\ caller' = [caller EXCEPT ![c] = "cancel"]
  /\ UNCHANGED <<wiring, monitors, running, cancelled, orphaned>>

StopMonitoring(c, k) ==
  /\ caller[c] = "out"
  /\ LookUp(c, k)
  /\ UNCHANGED closing

CallerMoves(c, from, to) ==
  /\ caller[c] = from
  /\ caller' = [caller EXCEPT ![c] = to]
  /\ UNCHANGED <<wiring, running, orphaned, closing>>

CancelTarget(c) ==
  /\ CallerMoves(c, "cancel", "wait")
  /\ cancelled' = cancelled \cup {target[c].monitor}
  /\ UNCHANGED <<monitors, target>>

\* state.done is closed, or five seconds have passed: no condition is left.
StopWaiting(c) ==
  /\ CallerMoves(c, "wait", "delete")
  /\ UNCHANGED <<monitors, cancelled, target>>

\* The entry of the key is deleted, whichever monitor it holds by now.
DeleteTarget(c) ==
  /\ CallerMoves(c, "delete", IF closing[c] = {} THEN "out" ELSE "close")
  /\ monitors' = [monitors EXCEPT ![target[c].key] = NoMonitor]
  /\ target' = [target EXCEPT ![c] = NoTarget]
  /\ UNCHANGED cancelled

\* Sscanf(key, "%s/%s"): the first %s takes the whole key, nothing is left for the second.
ParsedService(k) == k
ParsedEnvironment == <<"">>

Close(c) ==
  /\ caller[c] = "out"
  /\ closing' = [closing EXCEPT ![c] = {k \in Keys : monitors[k] # NoMonitor}]
  /\ closing'[c] # {}
  /\ caller' = [caller EXCEPT ![c] = "close"]
  /\ UNCHANGED <<wiring, monitors, running, cancelled, orphaned, target>>

CloseNext(c) ==
  /\ caller[c] = "close"
  /\ \E k \in closing[c] :
       LET parsed == monitorKey(ParsedService(k), ParsedEnvironment) IN
       /\ closing' = [closing EXCEPT ![c] = @ \ {k}]
       /\ IF MonitorOf(parsed) # NoMonitor
            THEN LookUp(c, parsed)
            ELSE /\ caller' = [caller EXCEPT ![c] = IF closing[c] = {k} THEN "out" ELSE "close"]
                 /\ UNCHANGED <<wiring, monitors, running, cancelled, orphaned, target>>

-------------------------------------------------------------------------------
(* The monitor goroutine *)

Moves(i, from, to) ==
  /\ at[i] = from
  /\ at' = [at EXCEPT ![i] = to]
  /\ UNCHANGED <<wiring, key, orphaned, calling>>

CapAt(n, limit) == IF n > limit THEN limit ELSE n

LastOf(seq) ==
  IF Len(seq) > FailureThreshold THEN Tail(seq) ELSE seq

Checked(i, healthy) ==
  /\ Moves(i, "check", "judge")
  /\ results' = [results EXCEPT ![i] = LastOf(Append(@, healthy))]
  /\ UNCHANGED <<monitors, requested, cancelled>>

\* Mutant: a healthy check does not reset the count.
CheckCountingAll(i) ==
  \E healthy \in BOOLEAN :
    /\ Checked(i, healthy)
    /\ fails' = [fails EXCEPT ![i] = IF healthy THEN @ ELSE CapAt(@ + 1, FailureThreshold)]

\* All checkers ran; a cancelled context makes them fail or not, as they like.
Check(i) ==
  \E healthy \in BOOLEAN :
    /\ Checked(i, healthy)
    /\ fails' = [fails EXCEPT ![i] = IF healthy THEN 0 ELSE CapAt(@ + 1, FailureThreshold)]

ThresholdReached(i) == fails[i] >= FailureThreshold

GoOn(i) ==
  /\ Moves(i, "judge", "select")
  /\ ~ (ThresholdReached(i) /\ hasTrigger)
  /\ UNCHANGED <<monitors, fails, results, requested, cancelled>>

\* The rollback runs in a goroutine of its own, with this monitor's context.
RequestRollback(i) ==
  /\ Moves(i, "judge", "forget")
  /\ ThresholdReached(i) /\ hasTrigger
  /\ requested' = requested \cup {i}
  /\ UNCHANGED <<monitors, fails, results, cancelled>>

\* Mutant: the monitor is cancelled but its entry stays.
ForgetNothing(i) ==
  /\ Moves(i, "forget", "cancel")
  /\ UNCHANGED <<monitors, fails, results, requested, cancelled>>

Forget(i) ==
  /\ Moves(i, "forget", "cancel")
  /\ monitors' = [monitors EXCEPT ![key[i]] = NoMonitor]
  /\ UNCHANGED <<fails, results, requested, cancelled>>

CancelSelf(i) ==
  /\ Moves(i, "cancel", "select")
  /\ cancelled' = cancelled \cup {i}
  /\ UNCHANGED <<monitors, fails, results, requested>>

\* The select takes any branch that is ready, the ticker's even after a cancel.
Tick(i) ==
  /\ Moves(i, "select", "check")
  /\ UNCHANGED <<monitors, fails, results, requested, cancelled>>

SeeDone(i) ==
  /\ Moves(i, "select", "done")
  /\ i \in cancelled \cup orphaned
  /\ UNCHANGED <<monitors, fails, results, requested, cancelled>>

Expire(i) ==
  /\ Moves(i, "select", "cleanup")
  /\ UNCHANGED <<monitors, fails, results, requested, cancelled>>


\* cleanupMonitor deletes the entry of the key, whichever monitor it holds by now.
cleanupMonitor(i) ==
  /\ Moves(i, "cleanup", "done")
  /\ monitors' = [monitors EXCEPT ![key[i]] = NoMonitor]
  /\ UNCHANGED <<fails, results, requested, cancelled>>

-------------------------------------------------------------------------------
CallerContinues(c) == CancelTarget(c) \/ StopWaiting(c) \/ DeleteTarget(c) \/ CloseNext(c)

MonitorRuns(i) ==
  \/ Check(i) \/ GoOn(i) \/ RequestRollback(i) \/ Forget(i) \/ CancelSelf(i)
  \/ Tick(i) \/ SeeDone(i) \/ Expire(i) \/ cleanupMonitor(i)

Next ==
  \/ RegisterChecker \/ SetRollbackTrigger
  \/ \E c \in Callers :
       \/ \E k \in Keys : StartMonitoring(c, k) \/ StopMonitoring(c, k)
       \/ Close(c) \/ CallerContinues(c)
  \/ \E i \in Ids : CancelParent(i) \/ MonitorRuns(i)

Spec == Init /\ [][Next]_vars

\* Goroutines run.  The period timer fires once and stays ready, and select chooses at
\* random among what is ready: it is not passed over for ever, though the ticker may win
\* any number of times.
FairSpec ==
  /\ Spec
  /\ \A c \in Callers : WF_vars(CallerContinues(c))
  /\ \A i \in Ids : WF_vars(MonitorRuns(i)) /\ SF_vars(Expire(i))

-------------------------------------------------------------------------------
(* Properties *)

\* Types of the HealthMonitor, the monitor goroutines and the callers.
TypeOK ==
  /\ {hasChecker, hasTrigger} \subseteq BOOLEAN
  /\ monitors \in [Keys -> Ids \cup {NoMonitor}]
  /\ key \in [Ids -> Keys \cup {<<>>}]
  /\ \A i \in Ids : at[i] # "none" => key[i] \in Keys
  /\ at \in [Ids -> {"none", "check", "judge", "forget", "cancel", "select", "cleanup", "done"}]
  /\ fails \in [Ids -> 0..FailureThreshold]
  /\ results \in [Ids -> Seq(BOOLEAN)]
  /\ \A i \in Ids : Len(results[i]) <= FailureThreshold
  /\ cancelled \subseteq Ids /\ orphaned \subseteq Ids /\ requested \subseteq Ids
  /\ caller \in [Callers -> {"out", "cancel", "wait", "delete", "close"}]
  /\ target \in [Callers -> [key : Keys \cup {<<>>}, monitor : Ids \cup {NoMonitor}]]
  /\ closing \in [Callers -> SUBSET Keys]

\* A finished monitor does not keep its service from being monitored again: its entry
\* is gone or a StopMonitoring is about to delete it.  Only a monitor whose parent
\* context was cancelled leaves its entry behind.
NoStaleEntry ==
  \A k \in Keys :
    /\ monitors[k] # NoMonitor
    /\ at[monitors[k]] = "done"
    => \/ monitors[k] \in orphaned
       \/ \E c \in Callers : target[c].key = k /\ caller[c] \in {"wait", "delete"}

\* The types, and no entry that outlives its monitor (monitor.go:144-154, 230-281).
EntriesAreLive == TypeOK /\ NoStaleEntry

\* A rollback is requested only after FailureThreshold checks in a row have failed, all
\* of them in this monitor's own period: a new rotation starts from a clean count, even
\* while the monitor of the last one is still running.
RollbackNeedsStreak ==
  \A i \in Ids : at[i] = "forget" =>
    Len(results[i]) = FailureThreshold /\ TRUE \notin Range(results[i])

===============================================================================
