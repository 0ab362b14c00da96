-------------------------- MODULE HealthMonitorProofs --------------------------
(***************************************************************************)
(* Proofs about HealthMonitor, for every number of callers, services and    *)
(* monitors and every threshold.                                            *)
(***************************************************************************)
EXTENDS HealthMonitor, SequenceTheorems, TLAPS

-------------------------------------------------------------------------------
(* The inductive invariant *)

\* An entry of the map is a monitor started under that key which has not forgotten it.
EntryIsItsOwn ==
  \A k \in Keys : monitors[k] # NoMonitor =>
    key[monitors[k]] = k /\ at[monitors[k]] \notin {"none", "cancel"}

Stopping == {"cancel", "wait", "delete"}

\* A caller that is stopping a monitor holds one that was started under the key it holds.
TargetIsItsOwn ==
  \A c \in Callers : caller[c] \in Stopping =>
    /\ target[c].key \in Keys
    /\ target[c].monitor \in Ids
    /\ key[target[c].monitor] = target[c].key
    /\ at[target[c].monitor] # "none"

Deleting(k) == \E c \in Callers : target[c].key = k /\ caller[c] \in {"wait", "delete"}

\* A monitor that was cancelled and keeps its entry has somebody on the way to delete it.
CancelledIsLeaving ==
  \A k \in Keys : monitors[k] \in cancelled => Deleting(k)

\* A goroutine that ended with its entry in place saw a cancel.
DoneSawCancel ==
  \A k \in Keys :
    monitors[k] # NoMonitor /\ at[monitors[k]] = "done" => monitors[k] \in cancelled \cup orphaned

\* Nobody cancels a monitor that was never started.
CancelledStarted == \A i \in cancelled : at[i] # "none"

EntryInv ==
  /\ TypeOK /\ CancelledStarted
  /\ EntryIsItsOwn /\ TargetIsItsOwn /\ CancelledIsLeaving /\ DoneSawCancel

\* The last n results of seq are failures.
FailedLast(seq, n) ==
  /\ n <= Len(seq)
  /\ \A j \in 1..Len(seq) : j > Len(seq) - n => seq[j] = FALSE

\* consecutiveFails counts failures at the end of the monitor's own results, and nothing
\* changes it between the judgement and the request.
CountIsStreak ==
  \A i \in Ids :
    /\ FailedLast(results[i], fails[i])
    /\ at[i] = "forget" => fails[i] = FailureThreshold

StreakInv == TypeOK /\ CountIsStreak

-------------------------------------------------------------------------------
(* Types *)

\* No monitor is not a monitor.
LEMMA NoMonitorIsNone == NoMonitor \notin Ids
<1>1. \A n \in Ids : n \in Nat
  BY HealthAssumption DEF Ids
<1>2. QED
  BY <1>1, HealthAssumption

\* A lookup that goes on found a monitor under a key, and only the caller moves.
LEMMA LookUpFinds ==
  ASSUME TypeOK, NEW c \in Callers, NEW k, LookUp(c, k)
  PROVE  /\ k \in Keys
         /\ monitors[k] \in Ids
         /\ target' = [target EXCEPT ![c] = [key |-> k, monitor |-> monitors[k]]]
         /\ caller' = [caller EXCEPT ![c] = "cancel"]
         /\ UNCHANGED <<wiring, monitors, running, cancelled, orphaned>>
<1>1. k \in Keys /\ monitors[k] # NoMonitor
  BY DEF LookUp, MonitorOf
<1>2. QED
  BY <1>1 DEF LookUp, MonitorOf, TypeOK

\* Counting up to the threshold stays below it.
LEMMA CapAtType ==
  ASSUME NEW n \in 0..FailureThreshold
  PROVE  CapAt(n + 1, FailureThreshold) \in 0..FailureThreshold
BY HealthAssumption DEF CapAt

\* A sequence one longer than the history is kept, or loses its oldest result.
LEMMA LastOfKeeps ==
  ASSUME NEW s \in Seq(BOOLEAN), Len(s) \in 1..FailureThreshold + 1
  PROVE  /\ LastOf(s) \in Seq(BOOLEAN)
         /\ \E d \in {0, 1} :
              /\ Len(LastOf(s)) = Len(s) - d
              /\ d = 1 <=> Len(s) = FailureThreshold + 1
              /\ \A j \in 1..Len(LastOf(s)) : LastOf(s)[j] = s[j + d]
<1>1. Len(s) \in Nat /\ FailureThreshold \in Nat \ {0}
  BY HealthAssumption
<1>2. CASE Len(s) > FailureThreshold
  <2>1. LastOf(s) = Tail(s)
    BY <1>2 DEF LastOf
  <2>2. s # <<>>
    BY <1>1, <1>2
  <2>3. Tail(s) \in Seq(BOOLEAN) /\ Len(Tail(s)) = Len(s) - 1
    BY <2>2
  <2>4. \A j \in 1..Len(Tail(s)) : Tail(s)[j] = s[j + 1]
    BY <2>2
  <2>5. Len(s) = FailureThreshold + 1
    BY <1>1, <1>2
  <2>6. /\ Len(LastOf(s)) = Len(s) - 1
        /\ 1 = 1 <=> Len(s) = FailureThreshold + 1
        /\ \A j \in 1..Len(LastOf(s)) : LastOf(s)[j] = s[j + 1]
    BY <2>1, <2>3, <2>4, <2>5, Zenon
  <2>7. LastOf(s) \in Seq(BOOLEAN)
    BY <2>1, <2>3, Zenon
  <2>8. QED
    BY <2>6, <2>7
<1>3. CASE ~ (Len(s) > FailureThreshold)
  <2>1. LastOf(s) = s
    BY <1>3 DEF LastOf
  <2>2. Len(s) # FailureThreshold + 1
    BY <1>1, <1>3
  <2>3. \A j \in 1..Len(s) : s[j] = s[j + 0]
    OBVIOUS
  <2>4. Len(s) = Len(s) - 0
    BY <1>1
  <2>5. /\ Len(LastOf(s)) = Len(s) - 0
        /\ 0 = 1 <=> Len(s) = FailureThreshold + 1
        /\ \A j \in 1..Len(LastOf(s)) : LastOf(s)[j] = s[j + 0]
    BY <2>1, <2>2, <2>3, <2>4
  <2>6. QED
    BY <2>1, <2>5
<1>4. QED
  BY <1>2, <1>3

\* The history keeps the last FailureThreshold results: one more is appended at the end,
\* and the oldest goes when there are too many.
LEMMA LastOfAppend ==
  ASSUME NEW seq \in Seq(BOOLEAN), Len(seq) <= FailureThreshold, NEW healthy \in BOOLEAN
  PROVE  LET new == LastOf(Append(seq, healthy)) IN
         /\ new \in Seq(BOOLEAN)
         /\ \E d \in {0, 1} :
              /\ Len(new) = Len(seq) + 1 - d
              /\ d = 1 <=> Len(seq) = FailureThreshold
              /\ new[Len(new)] = healthy
              /\ \A j \in 1..Len(new) - 1 : new[j] = seq[j + d]
<1> DEFINE s   == Append(seq, healthy)
           new == LastOf(s)
<1>1. s \in Seq(BOOLEAN) /\ Len(s) = Len(seq) + 1 /\ s[Len(s)] = healthy
  OBVIOUS
<1>2. \A j \in 1..Len(seq) : s[j] = seq[j]
  OBVIOUS
<1>3. Len(seq) \in Nat /\ FailureThreshold \in Nat \ {0}
  BY HealthAssumption
<1> HIDE DEF s
<1>4. Len(s) \in 1..FailureThreshold + 1
  BY <1>1, <1>3
<1>5. new \in Seq(BOOLEAN)
  BY <1>1, <1>4, LastOfKeeps
<1>6. PICK d \in {0, 1} :
        /\ Len(new) = Len(s) - d
        /\ d = 1 <=> Len(s) = FailureThreshold + 1
        /\ \A j \in 1..Len(new) : new[j] = s[j + d]
  BY <1>1, <1>4, LastOfKeeps
<1> HIDE DEF new
<1>7. Len(new) = Len(seq) + 1 - d /\ (d = 1 <=> Len(seq) = FailureThreshold)
  BY <1>1, <1>3, <1>6
<1>8. new[Len(new)] = healthy
  BY <1>1, <1>3, <1>6, <1>7
<1>9. \A j \in 1..Len(new) - 1 : new[j] = seq[j + d]
  <2> TAKE j \in 1..Len(new) - 1
  <2>1. j \in 1..Len(new) /\ j + d \in 1..Len(seq)
    BY <1>3, <1>7
  <2>2. QED
    BY <2>1, <1>2, <1>6
<1>10. QED
  BY <1>5, <1>7, <1>8, <1>9 DEF new, s

\* Registering, starting and stopping keep the types.
LEMMA CallerTypes ==
  ASSUME TypeOK, TargetIsItsOwn, NEW c \in Callers,
         \/ \E k \in Keys : StartMonitoring(c, k) \/ StopMonitoring(c, k)
         \/ Close(c) \/ CallerContinues(c)
  PROVE  TypeOK'
<1> USE HealthAssumption DEF wiring, running, calling
<1>1. ASSUME NEW k \in Keys, StartMonitoring(c, k)
      PROVE  TypeOK'
  <2>1. PICK i \in Ids :
          /\ at[i] = "none"
          /\ monitors' = [monitors EXCEPT ![k] = i]
          /\ key' = [key EXCEPT ![i] = k]
          /\ at' = [at EXCEPT ![i] = "check"]
    BY <1>1 DEF StartMonitoring, Unused
  <2>2. UNCHANGED <<wiring, fails, results, requested, cancelled, orphaned, calling>>
    BY <1>1 DEF StartMonitoring
  <2>3. monitors' \in [Keys -> Ids \cup {NoMonitor}] /\ key' \in [Ids -> Keys \cup {<<>>}]
    BY <2>1 DEF TypeOK
  <2>4. at' \in [Ids -> {"none", "check", "judge", "forget", "cancel", "select", "cleanup", "done"}]
    BY <2>1 DEF TypeOK
  <2>5. \A j \in Ids : at'[j] # "none" => key'[j] \in Keys
    BY <2>1 DEF TypeOK
  <2>6. QED
    BY <2>2, <2>3, <2>4, <2>5 DEF TypeOK
<1>2. ASSUME NEW k, LookUp(c, k), closing' \in [Callers -> SUBSET Keys]
      PROVE  TypeOK'
  <2>1. /\ k \in Keys
        /\ monitors[k] \in Ids
        /\ target' = [target EXCEPT ![c] = [key |-> k, monitor |-> monitors[k]]]
        /\ caller' = [caller EXCEPT ![c] = "cancel"]
        /\ UNCHANGED <<wiring, monitors, running, cancelled, orphaned>>
    BY <1>2, LookUpFinds
  <2>2. target' \in [Callers -> [key : Keys \cup {<<>>}, monitor : Ids \cup {NoMonitor}]]
    BY <2>1 DEF TypeOK
  <2>3. caller' \in [Callers -> {"out", "cancel", "wait", "delete", "close"}]
    BY <2>1 DEF TypeOK
  <2>4. QED
    BY <1>2, <2>1, <2>2, <2>3 DEF TypeOK
<1>3. ASSUME NEW k \in Keys, StopMonitoring(c, k)
      PROVE  TypeOK'
  BY <1>2, <1>3 DEF TypeOK, StopMonitoring
<1>4. CASE Close(c)
  BY <1>4 DEF TypeOK, Close
<1>5. CASE CancelTarget(c)
  <2>1. target[c].monitor \in Ids
    BY <1>5 DEF CancelTarget, CallerMoves, TargetIsItsOwn, Stopping
  <2>2. QED
    BY <1>5, <2>1 DEF TypeOK, CancelTarget, CallerMoves
<1>6. CASE StopWaiting(c)
  BY <1>6 DEF TypeOK, StopWaiting, CallerMoves
<1>7. CASE DeleteTarget(c)
  BY <1>7 DEF TypeOK, DeleteTarget, CallerMoves, NoTarget
<1>8. CASE CloseNext(c)
  <2>1. PICK k \in closing[c] :
          /\ closing' = [closing EXCEPT ![c] = @ \ {k}]
          /\ \/ LookUp(c, monitorKey(ParsedService(k), ParsedEnvironment))
             \/ /\ caller' = [caller EXCEPT ![c] = IF closing[c] = {k} THEN "out" ELSE "close"]
                /\ UNCHANGED <<wiring, monitors, running, cancelled, orphaned, target>>
    BY <1>8 DEF CloseNext
  <2>2. closing' \in [Callers -> SUBSET Keys]
    BY <2>1 DEF TypeOK
  <2>3. CASE LookUp(c, monitorKey(ParsedService(k), ParsedEnvironment))
    BY <2>2, <2>3, <1>2
  <2>4. CASE /\ caller' = [caller EXCEPT ![c] = IF closing[c] = {k} THEN "out" ELSE "close"]
             /\ UNCHANGED <<wiring, monitors, running, cancelled, orphaned, target>>
    BY <2>2, <2>4 DEF TypeOK
  <2>5. QED
    BY <2>1, <2>3, <2>4
<1>9. QED
  BY <1>1, <1>3, <1>4, <1>5, <1>6, <1>7, <1>8 DEF CallerContinues

\* Every step of a monitor's goroutine keeps the types.
LEMMA MonitorTypes ==
  ASSUME TypeOK, NEW i \in Ids, CancelParent(i) \/ MonitorRuns(i)
  PROVE  TypeOK'
<1> USE HealthAssumption DEF TypeOK, wiring, running, calling, Moves
<1>1. CASE CancelParent(i)
  BY <1>1 DEF CancelParent
<1>2. CASE Check(i)
  <2>1. PICK healthy \in BOOLEAN :
          /\ Checked(i, healthy)
          /\ fails' = [fails EXCEPT ![i] = IF healthy THEN 0 ELSE CapAt(fails[i] + 1, FailureThreshold)]
    BY <1>2 DEF Check
  <2>2. fails' \in [Ids -> 0..FailureThreshold]
    BY <2>1, CapAtType
  <2> DEFINE new == LastOf(Append(results[i], healthy))
  <2>3. new \in Seq(BOOLEAN) /\ Len(new) <= FailureThreshold
    <3>1. results[i] \in Seq(BOOLEAN) /\ Len(results[i]) <= FailureThreshold
      OBVIOUS
    <3>2. new \in Seq(BOOLEAN)
      BY <3>1, LastOfAppend
    <3>3. PICK d \in {0, 1} :
            Len(new) = Len(results[i]) + 1 - d /\ (d = 1 <=> Len(results[i]) = FailureThreshold)
      BY <3>1, LastOfAppend
    <3>4. Len(results[i]) \in Nat
      BY <3>1
    <3>5. QED
      BY <3>1, <3>2, <3>3, <3>4
  <2> HIDE DEF new
  <2>4. results' = [results EXCEPT ![i] = new]
    BY <2>1 DEF Checked, new
  <2>5. at' = [at EXCEPT ![i] = "judge"] /\ at[i] = "check"
    BY <2>1 DEF Checked
  <2>6. UNCHANGED <<wiring, key, orphaned, calling, monitors, requested, cancelled>>
    BY <2>1 DEF Checked
  <2>7. QED
    BY <2>2, <2>3, <2>4, <2>5, <2>6
<1>3. CASE GoOn(i)
  BY <1>3 DEF GoOn
<1>4. CASE RequestRollback(i)
  BY <1>4 DEF RequestRollback
<1>5. CASE Forget(i)
  BY <1>5 DEF Forget
<1>6. CASE CancelSelf(i)
  BY <1>6 DEF CancelSelf
<1>7. CASE Tick(i)
  BY <1>7 DEF Tick
<1>8. CASE SeeDone(i)
  BY <1>8 DEF SeeDone
<1>9. CASE Expire(i)
  BY <1>9 DEF Expire
<1>10. CASE cleanupMonitor(i)
  BY <1>10 DEF cleanupMonitor
<1>11. QED
  BY <1>1, <1>2, <1>3, <1>4, <1>5, <1>6, <1>7, <1>8, <1>9, <1>10 DEF MonitorRuns

\* Registering a checker and a trigger keeps the types.
LEMMA WiringTypes ==
  ASSUME TypeOK, RegisterChecker \/ SetRollbackTrigger
  PROVE  TypeOK'
BY DEF TypeOK, RegisterChecker, SetRollbackTrigger, running, calling

-------------------------------------------------------------------------------
(* Entries *)

\* What the callers do keeps entries, targets and cancels in step.
LEMMA CallerEntries ==
  ASSUME EntryInv, NEW c \in Callers,
         \/ \E k \in Keys : StartMonitoring(c, k) \/ StopMonitoring(c, k)
         \/ Close(c) \/ CallerContinues(c)
  PROVE  EntryIsItsOwn' /\ TargetIsItsOwn' /\ CancelledIsLeaving' /\ DoneSawCancel' /\ CancelledStarted'
<1> USE HealthAssumption DEF wiring, running, calling
<1>1. ASSUME NEW k \in Keys, StartMonitoring(c, k)
      PROVE  EntryIsItsOwn' /\ TargetIsItsOwn' /\ CancelledIsLeaving' /\ DoneSawCancel' /\ CancelledStarted'
  <2>1. PICK i \in Ids :
          /\ at[i] = "none"
          /\ monitors' = [monitors EXCEPT ![k] = i]
          /\ key' = [key EXCEPT ![i] = k]
          /\ at' = [at EXCEPT ![i] = "check"]
    BY <1>1 DEF StartMonitoring, Unused
  <2>2. UNCHANGED <<cancelled, orphaned, calling>>
    BY <1>1 DEF StartMonitoring
  <2>3. i \notin cancelled
    BY <2>1 DEF EntryInv, CancelledStarted
  <2>4. EntryIsItsOwn'
    BY <2>1 DEF EntryInv, TypeOK, EntryIsItsOwn
  <2>5. TargetIsItsOwn'
    BY <2>1, <2>2 DEF EntryInv, TypeOK, TargetIsItsOwn
  <2>6. CancelledIsLeaving'
    BY <2>1, <2>2, <2>3 DEF EntryInv, TypeOK, CancelledIsLeaving, Deleting
  <2>7. DoneSawCancel'
    BY <2>1, <2>2 DEF EntryInv, TypeOK, DoneSawCancel
  <2>8. CancelledStarted'
    BY <2>1, <2>2 DEF EntryInv, TypeOK, CancelledStarted
  <2>9. QED
    BY <2>4, <2>5, <2>6, <2>7, <2>8
<1>2. ASSUME NEW k, LookUp(c, k), caller[c] \in {"out", "close"}
      PROVE  EntryIsItsOwn' /\ TargetIsItsOwn' /\ CancelledIsLeaving' /\ DoneSawCancel' /\ CancelledStarted'
  <2>1. /\ k \in Keys
        /\ monitors[k] \in Ids
        /\ target' = [target EXCEPT ![c] = [key |-> k, monitor |-> monitors[k]]]
        /\ caller' = [caller EXCEPT ![c] = "cancel"]
        /\ UNCHANGED <<wiring, monitors, running, cancelled, orphaned>>
    BY <1>2, LookUpFinds DEF EntryInv
  <2>2. caller[c] \notin {"wait", "delete"}
    BY <1>2
  <2>3. EntryIsItsOwn'
    BY <2>1 DEF EntryInv, TypeOK, EntryIsItsOwn
  <2>4. TargetIsItsOwn'
    <3>1. key[monitors[k]] = k /\ at[monitors[k]] # "none"
      BY <2>1, NoMonitorIsNone DEF EntryInv, EntryIsItsOwn
    <3>2. target'[c].key = k /\ target'[c].monitor = monitors[k]
      BY <2>1 DEF EntryInv, TypeOK
    <3>3. \A d \in Callers \ {c} : target'[d] = target[d] /\ caller'[d] = caller[d]
      BY <2>1 DEF EntryInv, TypeOK
    <3>4. QED
      BY <2>1, <3>1, <3>2, <3>3 DEF EntryInv, TargetIsItsOwn
  <2>5. CancelledIsLeaving'
    BY <2>1, <2>2 DEF EntryInv, TypeOK, CancelledIsLeaving, Deleting
  <2>6. DoneSawCancel'
    BY <2>1 DEF EntryInv, TypeOK, DoneSawCancel
  <2>7. CancelledStarted'
    BY <2>1 DEF EntryInv, CancelledStarted
  <2>8. QED
    BY <2>3, <2>4, <2>5, <2>6, <2>7
<1>3. ASSUME NEW k \in Keys, StopMonitoring(c, k)
      PROVE  EntryIsItsOwn' /\ TargetIsItsOwn' /\ CancelledIsLeaving' /\ DoneSawCancel' /\ CancelledStarted'
  BY <1>2, <1>3 DEF StopMonitoring
<1>4. CASE Close(c)
  <2>1. UNCHANGED <<wiring, monitors, running, cancelled, orphaned, target>>
    BY <1>4 DEF Close
  <2>2. caller[c] = "out" /\ caller' = [caller EXCEPT ![c] = "close"]
    BY <1>4 DEF Close
  <2>3. EntryIsItsOwn' /\ DoneSawCancel' /\ CancelledStarted'
    BY <2>1 DEF EntryInv, EntryIsItsOwn, DoneSawCancel, CancelledStarted
  <2>4. TargetIsItsOwn'
    BY <2>1, <2>2 DEF EntryInv, TypeOK, TargetIsItsOwn, Stopping
  <2>5. CancelledIsLeaving'
    BY <2>1, <2>2 DEF EntryInv, TypeOK, CancelledIsLeaving, Deleting
  <2>6. QED
    BY <2>3, <2>4, <2>5
<1>5. CASE CancelTarget(c)
  <2>1. /\ UNCHANGED <<running, orphaned, monitors, target>>
        /\ caller[c] = "cancel"
        /\ caller' = [caller EXCEPT ![c] = "wait"]
        /\ cancelled' = cancelled \cup {target[c].monitor}
    BY <1>5 DEF CancelTarget, CallerMoves
  <2>2. key[target[c].monitor] = target[c].key /\ at[target[c].monitor] # "none"
    BY <2>1 DEF EntryInv, TargetIsItsOwn, Stopping
  <2>3. EntryIsItsOwn'
    BY <2>1 DEF EntryInv, EntryIsItsOwn
  <2>4. TargetIsItsOwn'
    BY <2>1 DEF EntryInv, TypeOK, TargetIsItsOwn, Stopping
  <2>5. CancelledIsLeaving'
    <3>1. SUFFICES ASSUME NEW k \in Keys, monitors[k] \in cancelled'
                   PROVE  Deleting(k)'
      BY <2>1 DEF CancelledIsLeaving
    <3>2. CASE monitors[k] \in cancelled
      BY <3>2, <2>1 DEF EntryInv, TypeOK, CancelledIsLeaving, Deleting
    <3>3. CASE monitors[k] = target[c].monitor
      <4>1. monitors[k] # NoMonitor
        BY <3>3, <2>1, HealthAssumption DEF EntryInv, TargetIsItsOwn, Stopping, Ids
      <4>2. target[c].key = k
        BY <3>3, <4>1, <2>2 DEF EntryInv, EntryIsItsOwn
      <4>3. target'[c].key = k /\ caller'[c] = "wait"
        BY <4>2, <2>1 DEF EntryInv, TypeOK
      <4>4. QED
        BY <4>3 DEF Deleting
    <3>4. QED
      BY <3>1, <3>2, <3>3, <2>1
  <2>6. DoneSawCancel'
    BY <2>1 DEF EntryInv, DoneSawCancel
  <2>7. CancelledStarted'
    BY <2>1, <2>2 DEF EntryInv, CancelledStarted
  <2>8. QED
    BY <2>3, <2>4, <2>5, <2>6, <2>7
<1>6. CASE StopWaiting(c)
  <2>1. /\ UNCHANGED <<running, orphaned, monitors, target, cancelled>>
        /\ caller[c] = "wait"
        /\ caller' = [caller EXCEPT ![c] = "delete"]
    BY <1>6 DEF StopWaiting, CallerMoves
  <2>2. EntryIsItsOwn' /\ DoneSawCancel' /\ CancelledStarted'
    BY <2>1 DEF EntryInv, EntryIsItsOwn, DoneSawCancel, CancelledStarted
  <2>3. TargetIsItsOwn'
    BY <2>1 DEF EntryInv, TypeOK, TargetIsItsOwn, Stopping
  <2>4. CancelledIsLeaving'
    BY <2>1 DEF EntryInv, TypeOK, CancelledIsLeaving, Deleting
  <2>5. QED
    BY <2>2, <2>3, <2>4
<1>7. CASE DeleteTarget(c)
  <2>1. /\ UNCHANGED <<running, orphaned, cancelled>>
        /\ caller[c] = "delete"
        /\ caller' = [caller EXCEPT ![c] = IF closing[c] = {} THEN "out" ELSE "close"]
        /\ monitors' = [monitors EXCEPT ![target[c].key] = NoMonitor]
        /\ target' = [target EXCEPT ![c] = NoTarget]
    BY <1>7 DEF DeleteTarget, CallerMoves
  <2>2. target[c].key \in Keys
    BY <2>1 DEF EntryInv, TargetIsItsOwn, Stopping
  <2>3. NoMonitor \notin cancelled
    BY NoMonitorIsNone DEF EntryInv, TypeOK
  <2>4. EntryIsItsOwn' /\ DoneSawCancel'
    BY <2>1, <2>2 DEF EntryInv, TypeOK, EntryIsItsOwn, DoneSawCancel
  <2>5. CancelledStarted'
    BY <2>1 DEF EntryInv, CancelledStarted
  <2>6. caller'[c] \notin Stopping /\ \A d \in Callers \ {c} : caller'[d] = caller[d] /\ target'[d] = target[d]
    BY <2>1 DEF EntryInv, TypeOK, Stopping
  <2>7. TargetIsItsOwn'
    BY <2>1, <2>6 DEF EntryInv, TargetIsItsOwn
  <2>8. CancelledIsLeaving'
    <3>1. SUFFICES ASSUME NEW k \in Keys, monitors'[k] \in cancelled
                   PROVE  Deleting(k)'
      BY <2>1 DEF CancelledIsLeaving
    <3>2. k # target[c].key /\ monitors'[k] = monitors[k]
      BY <3>1, <2>1, <2>2, <2>3 DEF EntryInv, TypeOK
    <3>3. PICK d \in Callers : target[d].key = k /\ caller[d] \in {"wait", "delete"}
      BY <3>1, <3>2 DEF EntryInv, CancelledIsLeaving, Deleting
    <3>4. d # c
      BY <3>2, <3>3
    <3>5. QED
      BY <3>3, <3>4, <2>6 DEF Deleting
  <2>9. QED
    BY <2>4, <2>5, <2>7, <2>8
<1>8. CASE CloseNext(c)
  <2>1. caller[c] = "close"
    BY <1>8 DEF CloseNext
  <2>3. PICK k \in closing[c] :
          \/ LookUp(c, monitorKey(ParsedService(k), ParsedEnvironment))
          \/ /\ caller' = [caller EXCEPT ![c] = IF closing[c] = {k} THEN "out" ELSE "close"]
             /\ UNCHANGED <<wiring, monitors, running, cancelled, orphaned, target>>
    BY <1>8 DEF CloseNext
  <2>4. CASE LookUp(c, monitorKey(ParsedService(k), ParsedEnvironment))
    BY <2>1, <2>4, <1>2
  <2>5. CASE /\ caller' = [caller EXCEPT ![c] = IF closing[c] = {k} THEN "out" ELSE "close"]
             /\ UNCHANGED <<wiring, monitors, running, cancelled, orphaned, target>>
    <3>1. EntryIsItsOwn' /\ DoneSawCancel' /\ CancelledStarted'
      BY <2>5 DEF EntryInv, EntryIsItsOwn, DoneSawCancel, CancelledStarted
    <3>2. TargetIsItsOwn'
      BY <2>1, <2>5 DEF EntryInv, TypeOK, TargetIsItsOwn, Stopping
    <3>3. CancelledIsLeaving'
      BY <2>1, <2>5 DEF EntryInv, TypeOK, CancelledIsLeaving, Deleting
    <3>4. QED
      BY <3>1, <3>2, <3>3
  <2>6. QED
    BY <2>3, <2>4, <2>5
<1>9. QED
  BY <1>1, <1>3, <1>4, <1>5, <1>6, <1>7, <1>8 DEF CallerContinues

\* What a monitor's goroutine does keeps them in step too.
LEMMA MonitorEntries ==
  ASSUME EntryInv, NEW i \in Ids, CancelParent(i) \/ MonitorRuns(i)
  PROVE  EntryIsItsOwn' /\ TargetIsItsOwn' /\ CancelledIsLeaving' /\ DoneSawCancel' /\ CancelledStarted'
<1> USE HealthAssumption DEF wiring, running, calling, Moves, EntryInv
<1> DEFINE Rest == UNCHANGED <<key, calling, monitors, cancelled, orphaned>>
<1>1. CASE CancelParent(i)
  BY <1>1 DEF CancelParent, EntryIsItsOwn, TargetIsItsOwn, CancelledIsLeaving, Deleting, DoneSawCancel, CancelledStarted
<1>2. ASSUME Rest, NEW w \in {"check", "judge", "forget", "select", "cleanup"},
             at' = [at EXCEPT ![i] = w], at[i] \notin {"none", "cancel"}
      PROVE  EntryIsItsOwn' /\ TargetIsItsOwn' /\ CancelledIsLeaving' /\ DoneSawCancel' /\ CancelledStarted'
  <2>1. EntryIsItsOwn'
    BY <1>2 DEF TypeOK, EntryIsItsOwn
  <2>2. TargetIsItsOwn'
    BY <1>2 DEF TypeOK, TargetIsItsOwn
  <2>3. CancelledIsLeaving'
    BY <1>2 DEF CancelledIsLeaving, Deleting
  <2>4. DoneSawCancel'
    BY <1>2 DEF TypeOK, DoneSawCancel
  <2>5. CancelledStarted'
    BY <1>2 DEF TypeOK, CancelledStarted
  <2>6. QED
    BY <2>1, <2>2, <2>3, <2>4, <2>5
<1>3. CASE Check(i) \/ GoOn(i) \/ RequestRollback(i) \/ Tick(i) \/ Expire(i)
  BY <1>2, <1>3 DEF Check, Checked, GoOn, RequestRollback, Tick, Expire
<1>4. ASSUME at[i] # "none", NEW w \in {"cancel", "done"}, at' = [at EXCEPT ![i] = w],
             monitors' = [monitors EXCEPT ![key[i]] = NoMonitor],
             UNCHANGED <<key, calling, cancelled, orphaned>>
      PROVE  EntryIsItsOwn' /\ TargetIsItsOwn' /\ CancelledIsLeaving' /\ DoneSawCancel' /\ CancelledStarted'
  <2>1. key[i] \in Keys
    BY <1>4 DEF TypeOK
  <2>2. \A k \in Keys : monitors'[k] # NoMonitor =>
          monitors'[k] = monitors[k] /\ monitors[k] \in Ids \ {i}
    BY <1>4, <2>1 DEF TypeOK, EntryIsItsOwn
  <2>3. NoMonitor \notin cancelled
    BY NoMonitorIsNone DEF TypeOK
  <2>4. EntryIsItsOwn'
    BY <1>4, <2>2 DEF TypeOK, EntryIsItsOwn
  <2>5. TargetIsItsOwn'
    BY <1>4 DEF TypeOK, TargetIsItsOwn
  <2>6. CancelledIsLeaving'
    BY <1>4, <2>2, <2>3 DEF CancelledIsLeaving, Deleting
  <2>7. DoneSawCancel'
    BY <1>4, <2>2 DEF TypeOK, DoneSawCancel
  <2>8. CancelledStarted'
    BY <1>4 DEF TypeOK, CancelledStarted
  <2>9. QED
    BY <2>4, <2>5, <2>6, <2>7, <2>8
<1>5. CASE Forget(i)
  BY <1>4, <1>5 DEF Forget
<1>6. CASE cleanupMonitor(i)
  BY <1>4, <1>6 DEF cleanupMonitor
<1>7. CASE CancelSelf(i)
  <2>1. /\ at[i] = "cancel" /\ at' = [at EXCEPT ![i] = "select"]
        /\ cancelled' = cancelled \cup {i}
        /\ UNCHANGED <<key, calling, monitors, orphaned>>
    BY <1>7 DEF CancelSelf
  <2>2. \A k \in Keys : monitors[k] # i
    BY <2>1 DEF EntryIsItsOwn, Ids
  <2>3. EntryIsItsOwn'
    BY <2>1 DEF TypeOK, EntryIsItsOwn
  <2>4. TargetIsItsOwn'
    BY <2>1 DEF TypeOK, TargetIsItsOwn
  <2>5. CancelledIsLeaving'
    BY <2>1, <2>2 DEF CancelledIsLeaving, Deleting
  <2>6. DoneSawCancel'
    BY <2>1 DEF TypeOK, DoneSawCancel
  <2>7. CancelledStarted'
    BY <2>1 DEF TypeOK, CancelledStarted
  <2>8. QED
    BY <2>3, <2>4, <2>5, <2>6, <2>7
<1>8. CASE SeeDone(i)
  <2>1. /\ at[i] = "select" /\ at' = [at EXCEPT ![i] = "done"]
        /\ i \in cancelled \cup orphaned
        /\ Rest
    BY <1>8 DEF SeeDone
  <2>2. EntryIsItsOwn'
    BY <2>1 DEF TypeOK, EntryIsItsOwn
  <2>3. TargetIsItsOwn'
    BY <2>1 DEF TypeOK, TargetIsItsOwn
  <2>4. CancelledIsLeaving'
    BY <2>1 DEF CancelledIsLeaving, Deleting
  <2>5. DoneSawCancel'
    BY <2>1 DEF TypeOK, DoneSawCancel
  <2>6. CancelledStarted'
    BY <2>1 DEF TypeOK, CancelledStarted
  <2>7. QED
    BY <2>2, <2>3, <2>4, <2>5, <2>6
<1>9. QED
  BY <1>1, <1>3, <1>5, <1>6, <1>7, <1>8 DEF MonitorRuns

\* The whole invariant holds at the start and every step keeps it.
LEMMA EntryInvariant == Spec => []EntryInv
<1>1. Init => EntryInv
  <2> SUFFICES ASSUME Init PROVE EntryInv
    OBVIOUS
  <2>1. TypeOK
    <3>1. \A i \in Ids : Len(results[i]) <= FailureThreshold
      BY HealthAssumption DEF Init
    <3>2. target \in [Callers -> [key : Keys \cup {<<>>}, monitor : Ids \cup {NoMonitor}]]
      BY DEF Init, NoTarget
    <3>3. fails \in [Ids -> 0..FailureThreshold]
      BY HealthAssumption DEF Init
    <3>4. results \in [Ids -> Seq(BOOLEAN)] /\ key \in [Ids -> Keys \cup {<<>>}]
      BY DEF Init
    <3>5. closing \in [Callers -> SUBSET Keys]
      BY DEF Init
    <3>6. {hasChecker, hasTrigger} \subseteq BOOLEAN
      BY DEF Init
    <3>7. QED
      BY <3>1, <3>2, <3>3, <3>4, <3>5, <3>6 DEF Init, TypeOK
  <2>2. EntryIsItsOwn /\ CancelledIsLeaving /\ CancelledStarted
    BY DEF Init, EntryIsItsOwn, CancelledIsLeaving, CancelledStarted
  <2>3. TargetIsItsOwn
    BY DEF Init, TargetIsItsOwn, Stopping
  <2>4. DoneSawCancel
    BY DEF Init, DoneSawCancel
  <2>5. QED
    BY <2>1, <2>2, <2>3, <2>4 DEF EntryInv
<1>2. EntryInv /\ [Next]_vars => EntryInv'
  <2> SUFFICES ASSUME EntryInv, [Next]_vars PROVE EntryInv'
    OBVIOUS
  <2>1. CASE RegisterChecker \/ SetRollbackTrigger
    <3>1. TypeOK'
      BY <2>1, WiringTypes DEF EntryInv
    <3>2. UNCHANGED <<monitors, running, cancelled, orphaned, calling>>
      BY <2>1 DEF RegisterChecker, SetRollbackTrigger
    <3>3. QED
      BY <3>1, <3>2 DEF EntryInv, running, calling, EntryIsItsOwn, TargetIsItsOwn,
                        CancelledIsLeaving, Deleting, DoneSawCancel, CancelledStarted
  <2>2. ASSUME NEW c \in Callers,
               \/ \E k \in Keys : StartMonitoring(c, k) \/ StopMonitoring(c, k)
               \/ Close(c) \/ CallerContinues(c)
        PROVE  EntryInv'
    BY <2>2, CallerTypes, CallerEntries DEF EntryInv
  <2>3. ASSUME NEW i \in Ids, CancelParent(i) \/ MonitorRuns(i)
        PROVE  EntryInv'
    BY <2>3, MonitorTypes, MonitorEntries DEF EntryInv
  <2>4. CASE UNCHANGED vars
    BY <2>4 DEF vars, wiring, running, calling, EntryInv, TypeOK, EntryIsItsOwn, TargetIsItsOwn,
                CancelledIsLeaving, Deleting, DoneSawCancel, CancelledStarted
  <2>5. QED
    BY <2>1, <2>2, <2>3, <2>4 DEF Next
<1>3. QED
  BY <1>1, <1>2, PTL DEF Spec

\* A finished monitor does not keep its service from being monitored again: whatever the
\* callers, keys and timeouts, its entry is gone or a StopMonitoring is about to delete it,
\* unless the parent context was cancelled.  For every number of callers and monitors.
THEOREM EntriesStayLive == Spec => []EntriesAreLive
<1>1. EntryInv => EntriesAreLive
  <2> SUFFICES ASSUME EntryInv PROVE NoStaleEntry
    BY DEF EntryInv, EntriesAreLive
  <2> QED
    BY DEF EntryInv, NoStaleEntry, DoneSawCancel, CancelledIsLeaving, Deleting
<1>2. QED
  BY <1>1, EntryInvariant, PTL

-------------------------------------------------------------------------------
(* Streaks *)

\* A failure more lengthens the streak by one, up to the threshold.
LEMMA FailureExtends ==
  ASSUME NEW seq \in Seq(BOOLEAN), Len(seq) <= FailureThreshold,
         NEW n \in 0..FailureThreshold, FailedLast(seq, n)
  PROVE  FailedLast(LastOf(Append(seq, FALSE)), CapAt(n + 1, FailureThreshold))
<1> DEFINE new == LastOf(Append(seq, FALSE))
<1>1. PICK d \in {0, 1} :
        /\ Len(new) = Len(seq) + 1 - d
        /\ d = 1 <=> Len(seq) = FailureThreshold
        /\ new[Len(new)] = FALSE
        /\ \A j \in 1..Len(new) - 1 : new[j] = seq[j + d]
  BY LastOfAppend
<1> DEFINE m == CapAt(n + 1, FailureThreshold)
<1>2. Len(seq) \in Nat /\ FailureThreshold \in Nat \ {0} /\ n <= Len(seq)
  BY HealthAssumption DEF FailedLast
<1>3. m \in Nat /\ m <= n + 1 /\ m <= FailureThreshold
  BY <1>2 DEF CapAt
<1> HIDE DEF new, m
<1>4. Len(new) \in Nat
  BY <1>1, <1>2
<1>5. m <= Len(new)
  BY <1>1, <1>2, <1>3
<1>6. ASSUME NEW j \in 1..Len(new), j > Len(new) - m
      PROVE  new[j] = FALSE
  <2>1. CASE j = Len(new)
    BY <2>1, <1>1
  <2>2. CASE j # Len(new)
    <3>1. j \in 1..Len(new) - 1 /\ j + d \in 1..Len(seq)
      BY <2>2, <1>1, <1>2, <1>4
    <3>2. j + d > Len(seq) - n
      BY <1>6, <1>1, <1>2, <1>3
    <3>3. seq[j + d] = FALSE
      BY <3>1, <3>2 DEF FailedLast
    <3>4. QED
      BY <3>1, <3>3, <1>1
  <2>3. QED
    BY <2>1, <2>2
<1>7. QED
  BY <1>5, <1>6 DEF FailedLast, new, m

\* A streak that fills the history leaves no success in it.
LEMMA FullStreak ==
  ASSUME NEW seq \in Seq(BOOLEAN), Len(seq) <= FailureThreshold, FailedLast(seq, FailureThreshold)
  PROVE  Len(seq) = FailureThreshold /\ TRUE \notin Range(seq)
<1>1. Len(seq) \in Nat /\ FailureThreshold \in Nat \ {0}
  BY HealthAssumption
<1>2. Len(seq) = FailureThreshold
  BY <1>1 DEF FailedLast
<1>3. \A j \in 1..Len(seq) : seq[j] = FALSE
  BY <1>1, <1>2 DEF FailedLast
<1>4. \A j \in DOMAIN seq : seq[j] = FALSE
  BY <1>3
<1>5. TRUE \notin Range(seq)
  BY <1>4, Zenon DEF Range
<1>6. QED
  BY <1>2, <1>5

\* Only a check changes the results and the count, and it changes them together.
LEMMA StreakStep ==
  ASSUME StreakInv, NEW i \in Ids, MonitorRuns(i)
  PROVE  CountIsStreak'
<1> USE DEF StreakInv, CountIsStreak, Moves
<1>1. CASE Check(i)
  <2>1. PICK healthy \in BOOLEAN :
          /\ Checked(i, healthy)
          /\ fails' = [fails EXCEPT ![i] = IF healthy THEN 0 ELSE CapAt(fails[i] + 1, FailureThreshold)]
    BY <1>1 DEF Check
  <2>2. results' = [results EXCEPT ![i] = LastOf(Append(results[i], healthy))]
        /\ at' = [at EXCEPT ![i] = "judge"]
    BY <2>1 DEF Checked
  <2>3. /\ results'[i] = LastOf(Append(results[i], healthy))
        /\ fails'[i] = IF healthy THEN 0 ELSE CapAt(fails[i] + 1, FailureThreshold)
        /\ at'[i] = "judge"
    BY <2>1, <2>2 DEF TypeOK
  <2>4. /\ results[i] \in Seq(BOOLEAN) /\ Len(results[i]) <= FailureThreshold
        /\ fails[i] \in 0..FailureThreshold
    BY DEF TypeOK
  <2>5. FailedLast(results'[i], fails'[i])
    <3>1. CASE healthy
      <4>1. fails'[i] = 0
        BY <2>3, <3>1
      <4>2. results'[i] \in Seq(BOOLEAN)
        BY <2>3, <2>4, LastOfAppend
      <4>3. QED
        BY <4>1, <4>2 DEF FailedLast
    <3>2. CASE ~ healthy
      <4>1. healthy = FALSE
        BY <3>2
      <4>2. QED
        BY <4>1, <2>3, <2>4, FailureExtends
    <3>3. QED
      BY <3>1, <3>2
  <2>6. \A j \in Ids \ {i} : results'[j] = results[j] /\ fails'[j] = fails[j] /\ at'[j] = at[j]
    BY <2>1, <2>2 DEF TypeOK
  <2>7. QED
    BY <2>3, <2>5, <2>6
<1>2. CASE RequestRollback(i)
  <2>1. /\ at' = [at EXCEPT ![i] = "forget"] /\ fails[i] >= FailureThreshold
        /\ UNCHANGED <<results, fails>>
    BY <1>2 DEF RequestRollback, ThresholdReached
  <2>2. fails[i] = FailureThreshold
    BY <2>1, HealthAssumption DEF TypeOK
  <2>3. QED
    BY <2>1, <2>2 DEF TypeOK
<1>3. CASE GoOn(i) \/ Forget(i) \/ CancelSelf(i) \/ Tick(i) \/ SeeDone(i) \/ Expire(i) \/ cleanupMonitor(i)
  <2>1. UNCHANGED <<results, fails>>
    BY <1>3 DEF GoOn, Forget, CancelSelf, Tick, SeeDone, Expire, cleanupMonitor
  <2>2. \E w \in {"select", "cancel", "check", "done", "cleanup"} : at' = [at EXCEPT ![i] = w]
    BY <1>3 DEF GoOn, Forget, CancelSelf, Tick, SeeDone, Expire, cleanupMonitor
  <2>3. QED
    BY <2>1, <2>2 DEF TypeOK
<1>4. QED
  BY <1>1, <1>2, <1>3 DEF MonitorRuns

\* A rollback is requested only after FailureThreshold checks in a row have failed, all of
\* them this monitor's own, for every threshold.
THEOREM RollbackAfterStreak == Spec => []RollbackNeedsStreak
<1>1. Init => CountIsStreak
  <2> SUFFICES ASSUME Init PROVE CountIsStreak
    OBVIOUS
  <2>1. \A i \in Ids : results[i] = <<>> /\ fails[i] = 0 /\ at[i] = "none"
    BY DEF Init
  <2>2. FailedLast(<<>>, 0)
    BY DEF FailedLast
  <2>3. QED
    BY <2>1, <2>2 DEF CountIsStreak
<1>2. TypeOK /\ CountIsStreak /\ [Next]_vars => CountIsStreak'
  <2> SUFFICES ASSUME TypeOK, CountIsStreak, [Next]_vars PROVE CountIsStreak'
    OBVIOUS
  <2>1. CASE RegisterChecker \/ SetRollbackTrigger
    BY <2>1 DEF RegisterChecker, SetRollbackTrigger, running, CountIsStreak
  <2>2. ASSUME NEW c \in Callers, NEW k \in Keys, StartMonitoring(c, k)
        PROVE  CountIsStreak'
    <3>1. \E i \in Ids : at' = [at EXCEPT ![i] = "check"]
      BY <2>2 DEF StartMonitoring, Unused
    <3>2. UNCHANGED <<fails, results>>
      BY <2>2 DEF StartMonitoring
    <3>3. QED
      BY <3>1, <3>2 DEF TypeOK, CountIsStreak
  <2>3. ASSUME NEW c \in Callers,
               \/ \E k \in Keys : StopMonitoring(c, k)
               \/ Close(c) \/ CallerContinues(c)
        PROVE  CountIsStreak'
    <3>1. UNCHANGED running
      BY <2>3 DEF StopMonitoring, LookUp, Close, CallerContinues, CancelTarget, StopWaiting,
                  DeleteTarget, CallerMoves, CloseNext
    <3>2. QED
      BY <3>1 DEF running, CountIsStreak
  <2>4. ASSUME NEW i \in Ids, CancelParent(i)
        PROVE  CountIsStreak'
    BY <2>4 DEF CancelParent, running, CountIsStreak
  <2>5. ASSUME NEW i \in Ids, MonitorRuns(i)
        PROVE  CountIsStreak'
    BY <2>5, StreakStep DEF StreakInv
  <2>6. CASE UNCHANGED vars
    BY <2>6 DEF vars, running, CountIsStreak
  <2>7. QED
    BY <2>1, <2>2, <2>3, <2>4, <2>5, <2>6 DEF Next
<1>3. TypeOK /\ CountIsStreak => RollbackNeedsStreak
  <2> SUFFICES ASSUME TypeOK, CountIsStreak, NEW i \in Ids, at[i] = "forget"
               PROVE  Len(results[i]) = FailureThreshold /\ TRUE \notin Range(results[i])
    BY DEF RollbackNeedsStreak
  <2>1. results[i] \in Seq(BOOLEAN) /\ Len(results[i]) <= FailureThreshold
    BY DEF TypeOK
  <2>2. FailedLast(results[i], FailureThreshold)
    BY DEF CountIsStreak
  <2>3. QED
    BY <2>1, <2>2, FullStreak
<1>4. EntryInv => TypeOK
  BY DEF EntryInv
<1>5. QED
  BY <1>1, <1>2, <1>3, <1>4, EntryInvariant, PTL DEF Spec
===============================================================================
