------------------------- MODULE RotationEngineProofs -------------------------
(***************************************************************************)
(* Proofs about RotationEngine, for every number of requests, commands,     *)
(* services, batches, deaths and seconds.                                   *)
(***************************************************************************)
EXTENDS RotationEngine, SequenceTheorems, FiniteSetTheorems, TLAPS

-------------------------------------------------------------------------------
(* Types *)

\* The operators on records and sequences return what their names say.
LEMMA ServiceByType ==
  ASSUME CommandType, NEW a \in Actors
  PROVE  /\ ServiceBy(a) \in Services
         /\ a \in Requests => ServiceBy(a) = ServiceOf[a]
         /\ a \in Commands => ServiceBy(a) = subject[a]
BY RotationEngineAssumption DEF ServiceBy, Actors, CommandType

\* StoreRotationResult keeps a sequence of results, at most HistoryLimit of them.
LEMMA NewestType ==
  ASSUME NEW results \in Seq(Outcomes)
  PROVE  Newest(results) \in Seq(Outcomes) /\ Len(Newest(results)) <= HistoryLimit
<1>1. Len(results) \in Nat /\ HistoryLimit \in Nat \ {0}
  BY RotationEngineAssumption
<1>2. CASE Len(results) > HistoryLimit
  <2>1. Newest(results) = SubSeq(results, Len(results) - HistoryLimit + 1, Len(results))
    BY <1>2 DEF Newest
  <2>2. QED
    BY <2>1, <1>1, <1>2
<1>3. CASE ~ (Len(results) > HistoryLimit)
  <2>1. Newest(results) = SubSeq(results, 1, Len(results))
    BY <1>3 DEF Newest
  <2>2. QED
    BY <2>1, <1>1, <1>3
<1>4. QED
  BY <1>2, <1>3

\* The status a rotation is going to save is a status, whatever it read.
LEMMA CountedType ==
  ASSUME NEW existing \in Status \cup {Absent, Torn}, NEW o \in Outcomes
  PROVE  Counted(existing, o) \in Status
BY DEF Counted, Status, NoStatus, Outcomes

\* The status a rollback command is going to save is a status.
LEMMA MarkedType ==
  ASSUME NEW status \in Status
  PROVE  Marked(status) \in Status
BY DEF Marked, Status

-------------------------------------------------------------------------------
(* Type correctness.  Each step is taken part by part of TypeOK. *)

\* A batch begins, ends, or its process dies; time passes.
LEMMA BatchSteps ==
  ASSUME TypeOK, BatchRotate \/ BatchReturns \/ EngineDies \/ Tick
  PROVE  TypeOK'
<1> USE RotationEngineAssumption DEF TypeOK, batching, outcome, inMemory, onDisk, commands, ledger, Seconds, Actors, Recording
<1>1. CASE BatchRotate
  <2>1. EngineType'
    BY <1>1 DEF EngineType, BatchRotate
  <2>2. MemoryType'
    BY <1>1 DEF MemoryType, BatchRotate
  <2>3. FileType'
    BY <1>1 DEF FileType, BatchRotate
  <2>4. CommandType'
    BY <1>1 DEF CommandType, BatchRotate
  <2>5. LedgerType'
    BY <1>1 DEF LedgerType, BatchRotate
  <2>6. QED
    BY <2>1, <2>2, <2>3, <2>4, <2>5 DEF TypeOK
<1>2. CASE BatchReturns
  <2>1. EngineType'
    BY <1>2 DEF EngineType, BatchReturns
  <2>2. MemoryType'
    BY <1>2 DEF MemoryType, BatchReturns
  <2>3. FileType'
    BY <1>2 DEF FileType, BatchReturns
  <2>4. CommandType'
    BY <1>2 DEF CommandType, BatchReturns
  <2>5. LedgerType'
    BY <1>2 DEF LedgerType, BatchReturns
  <2>6. QED
    BY <2>1, <2>2, <2>3, <2>4, <2>5 DEF TypeOK
<1>3. CASE EngineDies
  <2>1. EngineType'
    <3>1. events' \in [Requests -> Seq({"started"} \cup Outcomes)]
      BY <1>3 DEF EngineDies
    <3>2. \A r \in Requests : pc'[r] = "out"
      BY <1>3 DEF EngineDies
    <3>3. pc' \in [Requests -> {"out", "queued", "begin", "strategy", "release", "done"} \cup Recording]
      BY <1>3 DEF EngineDies
    <3>4. result' \in [Requests -> Outcomes \cup {"none"}]
      BY <1>3 DEF EngineDies
    <3>5. running' = FALSE /\ slots' = 0 /\ batches' \in Nat /\ deaths' \in Nat
      BY <1>3 DEF EngineType, EngineDies
    <3>6. clock' \in Seconds /\ mu' \in Requests \cup {Nobody}
      BY <1>3 DEF EngineType, EngineDies
    <3>7. running' \in BOOLEAN
      BY <3>5
    <3>8. slots' \in Int
      BY <3>5
    <3>9. QED
      BY <3>1, <3>2, <3>3, <3>4, <3>5, <3>6, <3>7, <3>8 DEF EngineType
  <2>2. MemoryType'
    BY <1>3 DEF MemoryType, EngineDies
  <2>3. FileType'
    BY <1>3 DEF FileType, EngineDies, Status, NoStatus, Outcomes
  <2>4. CommandType'
    BY <1>3 DEF CommandType, EngineDies
  <2>5. LedgerType'
    BY <1>3 DEF LedgerType, EngineDies
  <2>6. QED
    BY <2>1, <2>2, <2>3, <2>4, <2>5 DEF TypeOK
<1>4. CASE Tick
  <2>1. EngineType'
    BY <1>4 DEF EngineType, Tick
  <2>2. MemoryType'
    BY <1>4 DEF MemoryType, Tick
  <2>3. FileType'
    BY <1>4 DEF FileType, Tick
  <2>4. CommandType'
    BY <1>4 DEF CommandType, Tick
  <2>5. LedgerType'
    BY <1>4 DEF LedgerType, Tick
  <2>6. QED
    BY <2>1, <2>2, <2>3, <2>4, <2>5 DEF TypeOK
<1>5. QED
  BY <1>1, <1>2, <1>3, <1>4

\* What the goroutine of a request does outside the files.
LEMMA RotateSteps ==
  ASSUME TypeOK, NEW r \in Requests,
         \/ Acquire(r) \/ Refuse(r) \/ Begin(r) \/ RotateErrs(r)
         \/ \E o \in Outcomes : StrategyReturns(r, o)
         \/ Conclude(r) \/ Release(r)
  PROVE  TypeOK'
<1> USE RotationEngineAssumption DEF TypeOK, Goes, batching, outcome, inMemory, onDisk, commands, ledger, Seconds, Actors, Recording
<1>1. CASE Acquire(r)
  <2>1. EngineType'
    BY <1>1 DEF EngineType, Acquire
  <2>2. MemoryType'
    BY <1>1 DEF MemoryType, Acquire
  <2>3. FileType'
    BY <1>1 DEF FileType, Acquire
  <2>4. CommandType'
    BY <1>1 DEF CommandType, Acquire
  <2>5. LedgerType'
    BY <1>1 DEF LedgerType, Acquire
  <2>6. QED
    BY <2>1, <2>2, <2>3, <2>4, <2>5 DEF TypeOK
<1>2. CASE Refuse(r)
  <2>1. EngineType'
    BY <1>2 DEF EngineType, Refuse, Outcomes
  <2>2. MemoryType'
    BY <1>2 DEF MemoryType, Refuse
  <2>3. FileType'
    BY <1>2 DEF FileType, Refuse
  <2>4. CommandType'
    BY <1>2 DEF CommandType, Refuse
  <2>5. LedgerType'
    BY <1>2 DEF LedgerType, Refuse
  <2>6. QED
    BY <2>1, <2>2, <2>3, <2>4, <2>5 DEF TypeOK
<1>3. CASE Begin(r)
  <2>1. EngineType'
    BY <1>3 DEF EngineType, Begin
  <2>2. MemoryType'
    BY <1>3 DEF MemoryType, Begin
  <2>3. FileType'
    BY <1>3 DEF FileType, Begin
  <2>4. CommandType'
    BY <1>3 DEF CommandType, Begin
  <2>5. LedgerType'
    BY <1>3 DEF LedgerType, Begin
  <2>6. QED
    BY <2>1, <2>2, <2>3, <2>4, <2>5 DEF TypeOK
<1>4. CASE RotateErrs(r)
  <2>1. EngineType'
    BY <1>4 DEF EngineType, RotateErrs, Outcomes
  <2>2. MemoryType'
    BY <1>4 DEF MemoryType, RotateErrs
  <2>3. FileType'
    BY <1>4 DEF FileType, RotateErrs
  <2>4. CommandType'
    BY <1>4 DEF CommandType, RotateErrs
  <2>5. LedgerType'
    BY <1>4 DEF LedgerType, RotateErrs
  <2>6. QED
    BY <2>1, <2>2, <2>3, <2>4, <2>5 DEF TypeOK
<1>5. ASSUME NEW o \in Outcomes, StrategyReturns(r, o) PROVE TypeOK'
  <2>1. EngineType'
    BY <1>5 DEF EngineType, StrategyReturns
  <2>2. MemoryType'
    BY <1>5, NewestType, AppendProperties DEF MemoryType, StrategyReturns
  <2>3. FileType'
    BY <1>5 DEF FileType, StrategyReturns, EngineType
  <2>4. CommandType'
    BY <1>5 DEF CommandType, StrategyReturns
  <2>5. LedgerType'
    BY <1>5 DEF LedgerType, StrategyReturns
  <2>6. QED
    BY <2>1, <2>2, <2>3, <2>4, <2>5 DEF TypeOK
<1>6. CASE Conclude(r)
  <2>1. EngineType'
    BY <1>6, AppendProperties DEF EngineType, Conclude
  <2>2. MemoryType'
    BY <1>6 DEF MemoryType, Conclude, EngineType
  <2>3. FileType'
    BY <1>6 DEF FileType, Conclude
  <2>4. CommandType'
    BY <1>6 DEF CommandType, Conclude
  <2>5. LedgerType'
    BY <1>6 DEF LedgerType, Conclude
  <2>6. QED
    BY <2>1, <2>2, <2>3, <2>4, <2>5 DEF TypeOK
<1>7. CASE Release(r)
  <2>1. EngineType'
    BY <1>7 DEF EngineType, Release, Leaves
  <2>2. MemoryType'
    BY <1>7 DEF MemoryType, Release, Leaves
  <2>3. FileType'
    BY <1>7 DEF FileType, Release, Leaves, Status, NoStatus, Outcomes
  <2>4. CommandType'
    BY <1>7 DEF CommandType, Release, Leaves
  <2>5. LedgerType'
    BY <1>7 DEF LedgerType, Release, Leaves
  <2>6. QED
    BY <2>1, <2>2, <2>3, <2>4, <2>5 DEF TypeOK
<1>8. QED
  BY <1>1, <1>2, <1>3, <1>4, <1>5, <1>6, <1>7

\* What it does in the files.
LEMMA SaveSteps ==
  ASSUME TypeOK, NEW r \in Requests,
         \/ SaveHistoryOpens(r) \/ SaveHistoryWrites(r) \/ SaveFails(r)
         \/ GetStatus(r) \/ SaveStatusOpens(r) \/ SaveStatusWrites(r)
  PROVE  TypeOK'
<1> USE RotationEngineAssumption DEF TypeOK, Goes, batching, outcome, inMemory, onDisk, commands, ledger, Actors, Recording, Locks, Unlocks
<1>1. CASE SaveHistoryOpens(r)
  <2>1. EngineType'
    BY <1>1 DEF EngineType, SaveHistoryOpens, EmptiesHistory
  <2>2. MemoryType'
    BY <1>1 DEF MemoryType, SaveHistoryOpens, EmptiesHistory
  <2>3. FileType'
    BY <1>1, ServiceByType DEF FileType, SaveHistoryOpens, EmptiesHistory
  <2>4. CommandType'
    BY <1>1 DEF CommandType, SaveHistoryOpens, EmptiesHistory
  <2>5. LedgerType'
    BY <1>1 DEF LedgerType, SaveHistoryOpens, EmptiesHistory
  <2>6. QED
    BY <2>1, <2>2, <2>3, <2>4, <2>5 DEF TypeOK
<1>2. CASE SaveHistoryWrites(r)
  <2>1. EngineType'
    BY <1>2 DEF EngineType, SaveHistoryWrites, WritesHistory
  <2>2. MemoryType'
    BY <1>2 DEF MemoryType, SaveHistoryWrites, WritesHistory
  <2>3. FileType'
    BY <1>2, ServiceByType DEF FileType, SaveHistoryWrites, WritesHistory, Entry, EngineType, Outcomes
  <2>4. CommandType'
    BY <1>2 DEF CommandType, SaveHistoryWrites, WritesHistory
  <2>5. LedgerType'
    BY <1>2, ServiceByType DEF LedgerType, SaveHistoryWrites, WritesHistory
  <2>6. QED
    BY <2>1, <2>2, <2>3, <2>4, <2>5 DEF TypeOK
<1>3. CASE SaveFails(r)
  <2>1. EngineType'
    BY <1>3 DEF EngineType, SaveFails
  <2>2. MemoryType'
    BY <1>3 DEF MemoryType, SaveFails
  <2>3. FileType'
    BY <1>3 DEF FileType, SaveFails
  <2>4. CommandType'
    BY <1>3 DEF CommandType, SaveFails
  <2>5. LedgerType'
    BY <1>3 DEF LedgerType, SaveFails
  <2>6. QED
    BY <2>1, <2>2, <2>3, <2>4, <2>5 DEF TypeOK
<1>4. CASE GetStatus(r)
  <2>1. EngineType'
    BY <1>4 DEF EngineType, GetStatus, Reads
  <2>2. MemoryType'
    BY <1>4 DEF MemoryType, GetStatus, Reads
  <2>3. FileType'
    BY <1>4, CountedType DEF FileType, GetStatus, Reads, EngineType
  <2>4. CommandType'
    BY <1>4 DEF CommandType, GetStatus, Reads
  <2>5. LedgerType'
    BY <1>4 DEF LedgerType, GetStatus, Reads
  <2>6. QED
    BY <2>1, <2>2, <2>3, <2>4, <2>5 DEF TypeOK
<1>5. CASE SaveStatusOpens(r)
  <2>1. EngineType'
    BY <1>5 DEF EngineType, SaveStatusOpens, EmptiesStatus
  <2>2. MemoryType'
    BY <1>5 DEF MemoryType, SaveStatusOpens, EmptiesStatus
  <2>3. FileType'
    BY <1>5, ServiceByType DEF FileType, SaveStatusOpens, EmptiesStatus
  <2>4. CommandType'
    BY <1>5 DEF CommandType, SaveStatusOpens, EmptiesStatus
  <2>5. LedgerType'
    BY <1>5 DEF LedgerType, SaveStatusOpens, EmptiesStatus
  <2>6. QED
    BY <2>1, <2>2, <2>3, <2>4, <2>5 DEF TypeOK
<1>6. CASE SaveStatusWrites(r)
  <2>1. EngineType'
    BY <1>6 DEF EngineType, SaveStatusWrites, WritesStatus
  <2>2. MemoryType'
    BY <1>6 DEF MemoryType, SaveStatusWrites, WritesStatus
  <2>3. FileType'
    BY <1>6, ServiceByType DEF FileType, SaveStatusWrites, WritesStatus
  <2>4. CommandType'
    BY <1>6 DEF CommandType, SaveStatusWrites, WritesStatus
  <2>5. LedgerType'
    BY <1>6, ServiceByType DEF EngineType, LedgerType, SaveStatusWrites, WritesStatus, Drafting
  <2>6. QED
    BY <2>1, <2>2, <2>3, <2>4, <2>5 DEF TypeOK
<1>7. QED
  BY <1>1, <1>2, <1>3, <1>4, <1>5, <1>6

\* What a rollback command does.
LEMMA CommandStepsType ==
  ASSUME TypeOK, NEW c \in Commands, CommandSteps(c)
  PROVE  TypeOK'
<1> USE RotationEngineAssumption DEF TypeOK, Proceeds, batching, outcome, inMemory, onDisk, commands, ledger, Actors, Recording
<1>1. ASSUME NEW s \in Services, ReadService(c, s) PROVE TypeOK'
  <2>1. EngineType'
    BY <1>1 DEF EngineType, ReadService
  <2>2. MemoryType'
    BY <1>1 DEF MemoryType, ReadService
  <2>3. FileType'
    BY <1>1 DEF FileType, ReadService
  <2>4. CommandType'
    BY <1>1 DEF CommandType, ReadService
  <2>5. LedgerType'
    BY <1>1 DEF LedgerType, ReadService
  <2>6. QED
    BY <2>1, <2>2, <2>3, <2>4, <2>5 DEF TypeOK
<1>2. CASE ChooseTarget(c)
  <2>1. EngineType'
    BY <1>2 DEF EngineType, ChooseTarget
  <2>2. MemoryType'
    BY <1>2 DEF MemoryType, ChooseTarget
  <2>3. FileType'
    BY <1>2 DEF FileType, ChooseTarget
  <2>4. CommandType'
    BY <1>2 DEF CommandType, ChooseTarget, Readable, FileType
  <2>5. LedgerType'
    BY <1>2 DEF LedgerType, ChooseTarget
  <2>6. QED
    BY <2>1, <2>2, <2>3, <2>4, <2>5 DEF TypeOK
<1>3. CASE Abandon(c)
  <2>1. EngineType'
    BY <1>3 DEF EngineType, Abandon
  <2>2. MemoryType'
    BY <1>3 DEF MemoryType, Abandon
  <2>3. FileType'
    BY <1>3 DEF FileType, Abandon
  <2>4. CommandType'
    BY <1>3 DEF CommandType, Abandon
  <2>5. LedgerType'
    BY <1>3 DEF LedgerType, Abandon
  <2>6. QED
    BY <2>1, <2>2, <2>3, <2>4, <2>5 DEF TypeOK
<1>4. CASE RolledBack(c)
  <2>1. EngineType'
    BY <1>4 DEF EngineType, RolledBack
  <2>2. MemoryType'
    BY <1>4 DEF MemoryType, RolledBack
  <2>3. FileType'
    BY <1>4 DEF FileType, RolledBack, EngineType
  <2>4. CommandType'
    BY <1>4 DEF CommandType, RolledBack
  <2>5. LedgerType'
    BY <1>4 DEF LedgerType, RolledBack
  <2>6. QED
    BY <2>1, <2>2, <2>3, <2>4, <2>5 DEF TypeOK
<1>5. CASE CommandSavesHistory(c)
  <2>1. EngineType'
    BY <1>5 DEF EngineType, CommandSavesHistory, EmptiesHistory, WritesHistory
  <2>2. MemoryType'
    BY <1>5 DEF MemoryType, CommandSavesHistory, EmptiesHistory, WritesHistory
  <2>3. FileType'
    <3> DEFINE entry == [action |-> "rollback", status |-> "success",
                         versioned |-> target[c].versioned \/ (target[c] = Given /\ draft[c].current)]
    <3>2. entry \in Entry
      BY DEF Entry
    <3>3. /\ statusFile' = statusFile /\ stamp' = stamp /\ draft' = draft
          /\ \/ historyFile' = [historyFile EXCEPT ![subject[c]][stamp[c]] = Torn]
             \/ historyFile' = [historyFile EXCEPT ![subject[c]][stamp[c]] = entry]
      BY <1>5, ServiceByType DEF CommandSavesHistory, EmptiesHistory, WritesHistory
    <3> HIDE DEF entry
    <3>4. historyFile' \in [Services -> [Seconds -> Entry \cup {Absent, Torn}]]
      <4>1. subject[c] \in Services /\ stamp[c] \in Seconds
        BY DEF FileType, CommandType
      <4>2. historyFile \in [Services -> [Seconds -> Entry \cup {Absent, Torn}]]
        BY DEF FileType
      <4>3. ASSUME NEW content \in Entry \cup {Absent, Torn},
                   historyFile' = [historyFile EXCEPT ![subject[c]][stamp[c]] = content]
            PROVE  historyFile' \in [Services -> [Seconds -> Entry \cup {Absent, Torn}]]
        BY <4>1, <4>2, <4>3
      <4>4. QED
        BY <3>2, <3>3, <4>3
    <3>5. QED
      BY <3>3, <3>4 DEF FileType
  <2>4. CommandType'
    BY <1>5 DEF CommandType, CommandSavesHistory, EmptiesHistory, WritesHistory
  <2>5. LedgerType'
    BY <1>5, ServiceByType DEF LedgerType, CommandSavesHistory, EmptiesHistory, WritesHistory
  <2>6. QED
    BY <2>1, <2>2, <2>3, <2>4, <2>5 DEF TypeOK
<1>6. CASE CommandOpensStatus(c)
  <2>1. EngineType'
    BY <1>6 DEF EngineType, CommandOpensStatus, EmptiesStatus
  <2>2. MemoryType'
    BY <1>6 DEF MemoryType, CommandOpensStatus, EmptiesStatus
  <2>3. FileType'
    BY <1>6, ServiceByType, MarkedType DEF FileType, CommandOpensStatus, EmptiesStatus
  <2>4. CommandType'
    BY <1>6 DEF CommandType, CommandOpensStatus, EmptiesStatus
  <2>5. LedgerType'
    BY <1>6 DEF LedgerType, CommandOpensStatus, EmptiesStatus
  <2>6. QED
    BY <2>1, <2>2, <2>3, <2>4, <2>5 DEF TypeOK
<1>7. CASE CommandWritesStatus(c)
  <2>1. EngineType'
    BY <1>7 DEF EngineType, CommandWritesStatus, WritesStatus
  <2>2. MemoryType'
    BY <1>7 DEF MemoryType, CommandWritesStatus, WritesStatus
  <2>3. FileType'
    BY <1>7, ServiceByType DEF FileType, CommandWritesStatus, WritesStatus
  <2>4. CommandType'
    BY <1>7 DEF CommandType, CommandWritesStatus, WritesStatus
  <2>5. LedgerType'
    BY <1>7, ServiceByType DEF LedgerType, CommandWritesStatus, WritesStatus, Drafting
  <2>6. QED
    BY <2>1, <2>2, <2>3, <2>4, <2>5 DEF TypeOK
<1>8. CASE CommandSaveFails(c)
  <2>1. EngineType'
    BY <1>8 DEF EngineType, CommandSaveFails
  <2>2. MemoryType'
    BY <1>8 DEF MemoryType, CommandSaveFails
  <2>3. FileType'
    BY <1>8 DEF FileType, CommandSaveFails
  <2>4. CommandType'
    BY <1>8 DEF CommandType, CommandSaveFails
  <2>5. LedgerType'
    BY <1>8 DEF LedgerType, CommandSaveFails, CommandType
  <2>6. QED
    BY <2>1, <2>2, <2>3, <2>4, <2>5 DEF TypeOK
<1>9. CASE CommandDies(c)
  <2>1. EngineType'
    BY <1>9 DEF EngineType, CommandDies
  <2>2. MemoryType'
    BY <1>9 DEF MemoryType, CommandDies
  <2>3. FileType'
    BY <1>9 DEF FileType, CommandDies
  <2>4. CommandType'
    BY <1>9 DEF CommandType, CommandDies
  <2>5. LedgerType'
    BY <1>9 DEF LedgerType, CommandDies, CommandType
  <2>6. QED
    BY <2>1, <2>2, <2>3, <2>4, <2>5 DEF TypeOK
<1>10. QED
  BY <1>1, <1>2, <1>3, <1>4, <1>5, <1>6, <1>7, <1>8, <1>9 DEF CommandSteps

\* Every step of the engine, the commands and the clock keeps the types.
LEMMA TypeStep ==
  ASSUME TypeOK, [Next]_vars
  PROVE  TypeOK'
<1>1. CASE UNCHANGED vars
  BY <1>1 DEF TypeOK, EngineType, MemoryType, FileType, CommandType, LedgerType, vars, batching,
              outcome, inMemory, onDisk, commands, ledger
<1>2. CASE BatchRotate \/ BatchReturns \/ EngineDies \/ Tick
  BY <1>2, BatchSteps
<1>3. ASSUME NEW r \in Requests, RequestSteps(r) PROVE TypeOK'
  BY <1>3, RotateSteps, SaveSteps DEF RequestSteps
<1>4. ASSUME NEW c \in Commands, CommandSteps(c) PROVE TypeOK'
  BY <1>4, CommandStepsType
<1>5. QED
  BY <1>1, <1>2, <1>3, <1>4 DEF Next

\* An engine without a batch, and files nobody has written, have their types.
LEMMA TypeInit ==
  ASSUME Init
  PROVE  TypeOK
<1> USE RotationEngineAssumption DEF Init, Seconds, Actors
<1>1. EngineType
  <2>1. events \in [Requests -> Seq({"started"} \cup Outcomes)]
    OBVIOUS
  <2>2. pc \in [Requests -> {"out", "queued", "begin", "strategy", "release", "done"} \cup Recording]
    OBVIOUS
  <2>3. \A r \in Requests : pc[r] \notin Recording
    BY DEF Recording
  <2>4. clock \in Seconds
    OBVIOUS
  <2>5. running = FALSE /\ slots = 0 /\ batches = 0 /\ deaths = 0
    OBVIOUS
  <2>6. mu \in Requests \cup {Nobody} /\ result \in [Requests -> Outcomes \cup {"none"}]
    OBVIOUS
  <2>7. running \in BOOLEAN
    BY <2>5
  <2>8. slots \in Int /\ batches \in Nat /\ deaths \in Nat
    BY <2>5
  <2>9. QED
    BY <2>1, <2>2, <2>3, <2>4, <2>6, <2>7, <2>8 DEF EngineType
<1>2. MemoryType
  BY DEF MemoryType
<1>3. FileType
  BY DEF FileType, Status, NoStatus, Outcomes
<1>4. CommandType
  BY DEF CommandType
<1>5. LedgerType
  BY DEF LedgerType, NoTally
<1>6. QED
  BY <1>1, <1>2, <1>3, <1>4, <1>5 DEF TypeOK

\* Every reachable state has its types, and memory never keeps more than HistoryLimit results.
THEOREM TypeCorrect == Spec => []TypeOK
BY TypeInit, TypeStep, PTL DEF Spec

-------------------------------------------------------------------------------
(* The lock of FileStorage *)

\* Between two batches no goroutine is left.
Idle == running \/ \A r \in Requests : pc[r] = "out"

\* No step lets a second goroutine between the open and the write of a file.
LEMMA WriterStep ==
  ASSUME EngineType, Idle, OneWriter, [Next]_vars
  PROVE  Idle' /\ OneWriter'
<1> USE RotationEngineAssumption DEF Idle, OneWriter, EngineType, batching
<1>1. CASE UNCHANGED vars
  BY <1>1 DEF vars
<1>2. CASE BatchRotate
  BY <1>2 DEF BatchRotate
<1>3. CASE BatchReturns
  BY <1>3 DEF BatchReturns
<1>4. CASE EngineDies
  BY <1>4 DEF EngineDies
<1>5. CASE Tick
  BY <1>5 DEF Tick
<1>6. ASSUME NEW r \in Requests, RequestSteps(r) PROVE Idle' /\ OneWriter'
  <2> USE DEF Goes, Locks, Unlocks
  <2>1. CASE Acquire(r) \/ Refuse(r) \/ Begin(r) \/ RotateErrs(r)
    BY <2>1 DEF Acquire, Refuse, Begin, RotateErrs
  <2>2. ASSUME NEW o \in Outcomes, StrategyReturns(r, o) PROVE Idle' /\ OneWriter'
    BY <2>2 DEF StrategyReturns
  <2>3. CASE Conclude(r) \/ Release(r)
    BY <2>3 DEF Conclude, Release
  <2>4. CASE SaveHistoryOpens(r) \/ SaveStatusOpens(r)
    BY <2>4 DEF SaveHistoryOpens, SaveStatusOpens
  <2>5. CASE SaveHistoryWrites(r) \/ SaveStatusWrites(r)
    BY <2>5 DEF SaveHistoryWrites, SaveStatusWrites
  <2>6. CASE SaveFails(r)
    BY <2>6 DEF SaveFails
  <2>7. CASE GetStatus(r)
    BY <2>7 DEF GetStatus, Reads
  <2>8. QED
    BY <1>6, <2>1, <2>2, <2>3, <2>4, <2>5, <2>6, <2>7 DEF RequestSteps
<1>7. ASSUME NEW c \in Commands, CommandSteps(c) PROVE Idle' /\ OneWriter'
  BY <1>7 DEF CommandSteps, ReadService, ChooseTarget, Abandon, RolledBack, CommandSavesHistory,
              CommandOpensStatus, CommandWritesStatus, CommandSaveFails, CommandDies, Proceeds
<1>8. QED
  BY <1>1, <1>2, <1>3, <1>4, <1>5, <1>6, <1>7 DEF Next

\* At the start nobody writes.
LEMMA WriterInit == ASSUME Init PROVE Idle /\ OneWriter
BY RotationEngineAssumption DEF Init, Idle, OneWriter

\* The goroutines of a batch never interleave their writes: whoever is between the open that
\* empties a file and its write holds the lock, and nobody else does.
THEOREM WritesExclude == Spec => []OneWriter
<1>1. TypeOK => EngineType
  BY DEF TypeOK
<1>2. TypeOK /\ Idle /\ OneWriter /\ [Next]_vars => Idle' /\ OneWriter'
  BY <1>1, WriterStep
<1>3. Init => Idle /\ OneWriter
  BY WriterInit
<1>4. QED
  BY <1>2, <1>3, TypeCorrect, PTL DEF Spec

\* The types and the lock together.
THEOREM AlwaysWellFormed == Spec => []WellFormed
<1>1. TypeOK /\ OneWriter => WellFormed
  BY DEF WellFormed
<1>2. QED
  BY <1>1, TypeCorrect, WritesExclude, PTL

-------------------------------------------------------------------------------
(* The semaphore of BatchRotate *)

\* The requests whose goroutine holds a token.
Holders == {r \in Requests : pc[r] \notin {"out", "queued", "done"}}

\* A step that moves a goroutine over Acquire or Release moves a token, and no other does.
LEMMA SemaphoreStep ==
  ASSUME EngineType, SemaphoreHolds, [Next]_vars
  PROVE  SemaphoreHolds'
<1> USE RotationEngineAssumption
<1>1. IsFiniteSet(Holders)
  BY FS_Subset DEF Holders
<1>2. slots = Cardinality(Holders) /\ slots \in 0..Concurrency
  BY DEF SemaphoreHolds, Holders
<1>3. SUFFICES slots' = Cardinality(Holders') /\ slots' \in 0..Concurrency
  BY DEF SemaphoreHolds, Holders
<1>4. ASSUME slots' = slots, Holders' = Holders
      PROVE  slots' = Cardinality(Holders') /\ slots' \in 0..Concurrency
  BY <1>2, <1>4
<1>5. ASSUME slots' = 0, Holders' = {}
      PROVE  slots' = Cardinality(Holders') /\ slots' \in 0..Concurrency
  BY <1>5, FS_EmptySet
<1>6. CASE UNCHANGED vars
  BY <1>4, <1>6 DEF vars, batching, Holders
<1>7. CASE BatchRotate
  <2>1. slots' = 0 /\ Holders' = {}
    BY <1>7 DEF BatchRotate, Holders
  <2>2. QED
    BY <1>5, <2>1
<1>8. CASE EngineDies
  <2>1. slots' = 0 /\ Holders' = {}
    BY <1>8 DEF EngineDies, Holders
  <2>2. QED
    BY <1>5, <2>1
<1>9. CASE BatchReturns
  <2>1. slots' = slots /\ Holders' = Holders
    BY <1>9 DEF BatchReturns, Holders
  <2>2. QED
    BY <1>4, <2>1
<1>10. CASE Tick
  <2>1. slots' = slots /\ Holders' = Holders
    BY <1>10 DEF Tick, Holders, batching
  <2>2. QED
    BY <1>4, <2>1
<1>11. ASSUME NEW r \in Requests, RequestSteps(r)
       PROVE  slots' = Cardinality(Holders') /\ slots' \in 0..Concurrency
  <2> USE DEF Goes, EngineType
  <2>1. CASE Acquire(r)
    <3>1. Holders' = Holders \cup {r} /\ r \notin Holders /\ slots' = slots + 1 /\ slots < Concurrency
      BY <2>1 DEF Acquire, Holders
    <3>2. Cardinality(Holders') = Cardinality(Holders) + 1
      BY <1>1, <3>1, FS_AddElement
    <3>3. QED
      BY <1>2, <3>1, <3>2
  <2>2. CASE Release(r)
    <3>1. Holders' = Holders \ {r} /\ r \in Holders /\ slots' = slots - 1
      BY <2>2 DEF Release, Holders
    <3>2. Cardinality(Holders') = Cardinality(Holders) - 1 /\ Cardinality(Holders') \in Nat
      BY <1>1, <3>1, FS_RemoveElement, FS_CardinalityType
    <3>3. QED
      BY <1>2, <3>1, <3>2
  <2>3. CASE Refuse(r) \/ Begin(r) \/ RotateErrs(r)
    <3>1. slots' = slots /\ Holders' = Holders
      BY <2>3 DEF Refuse, Begin, RotateErrs, Holders
    <3>2. QED
      BY <1>4, <3>1
  <2>4. ASSUME NEW o \in Outcomes, StrategyReturns(r, o)
        PROVE  slots' = Cardinality(Holders') /\ slots' \in 0..Concurrency
    <3>1. slots' = slots /\ Holders' = Holders
      BY <2>4 DEF StrategyReturns, Holders
    <3>2. QED
      BY <1>4, <3>1
  <2>5. CASE \/ SaveHistoryOpens(r) \/ SaveHistoryWrites(r) \/ SaveFails(r) \/ GetStatus(r)
             \/ SaveStatusOpens(r) \/ SaveStatusWrites(r) \/ Conclude(r)
    <3>1. slots' = slots /\ Holders' = Holders
      BY <2>5 DEF SaveHistoryOpens, SaveHistoryWrites, SaveFails, GetStatus, Reads, SaveStatusOpens,
                  SaveStatusWrites, Conclude, Holders
    <3>2. QED
      BY <1>4, <3>1
  <2>6. QED
    BY <1>11, <2>1, <2>2, <2>3, <2>4, <2>5 DEF RequestSteps
<1>12. ASSUME NEW c \in Commands, CommandSteps(c)
       PROVE  slots' = Cardinality(Holders') /\ slots' \in 0..Concurrency
  <2>1. slots' = slots /\ Holders' = Holders
    BY <1>12 DEF CommandSteps, ReadService, ChooseTarget, Abandon, RolledBack, CommandSavesHistory,
                 CommandOpensStatus, CommandWritesStatus, CommandSaveFails, CommandDies, Proceeds,
                 batching, Holders
  <2>2. QED
    BY <1>4, <2>1
<1>13. QED
  BY <1>6, <1>7, <1>8, <1>9, <1>10, <1>11, <1>12 DEF Next

\* At the start no token is out.
LEMMA SemaphoreInit == ASSUME Init PROVE SemaphoreHolds
<1>1. {r \in Requests : pc[r] \notin {"out", "queued", "done"}} = {}
  BY DEF Init
<1>2. slots = 0
  BY DEF Init
<1>3. QED
  BY <1>1, <1>2, FS_EmptySet, RotationEngineAssumption DEF SemaphoreHolds

\* For any number of requests and any capacity: at most Concurrency rotations at a time, and no
\* token is kept by a goroutine that has left.
THEOREM SemaphoreCorrect == Spec => []SemaphoreHolds
<1>1. TypeOK /\ SemaphoreHolds /\ [Next]_vars => SemaphoreHolds'
  BY SemaphoreStep DEF TypeOK
<1>2. QED
  BY <1>1, SemaphoreInit, TypeCorrect, PTL DEF Spec

-------------------------------------------------------------------------------
(* The counts of the status files *)

\* What a request or a command does between its read of the status and its write.
RequestDrafts == {r \in Requests : pc[r] \in {"status", "statusTorn"}}
CommandDrafts == {c \in Commands : command[c] \in {"plan", "execute", "history", "historyTorn",
                                                   "status", "statusTorn"}}

\* One more rotation with outcome o.
Plus(tally, o) == [tally EXCEPT ![o] = @ + 1]

\* A draft is within what was performed when it was read, and one's own rotation on top.
DraftsAreBounded ==
  /\ \A r \in RequestDrafts : Within(draft[r], Plus(performed[ServiceOf[r]], result[r]))
  /\ \A c \in CommandDrafts : Within(draft[c], performed[subject[c]])

\* A draft that is not stale is exact, unless the file it was read from was not.
DraftsAreExact ==
  /\ \A r \in RequestDrafts :
       r \in stale \/ ServiceOf[r] \in lost \/ Exactly(draft[r], Plus(performed[ServiceOf[r]], result[r]))
  /\ \A c \in CommandDrafts :
       c \in stale \/ subject[c] \in lost \/ Exactly(draft[c], performed[subject[c]])

CountsInv == CountsAreBounded /\ DraftsAreBounded /\ ExactUnlessLost /\ DraftsAreExact

Tallies == [Outcomes -> Nat]

\* One more rotation is one more of its outcome.
LEMMA PlusType ==
  ASSUME NEW tally \in Tallies, NEW o \in Outcomes
  PROVE  /\ Plus(tally, o) \in Tallies
         /\ \A p \in Outcomes : Plus(tally, o)[p] = tally[p] + (IF p = o THEN 1 ELSE 0)
         /\ Total(Plus(tally, o)) = Total(tally) + 1
BY DEF Plus, Tallies, Total, Outcomes

\* A tally with one more rotation is no smaller.
LEMMA PlusAbove ==
  ASSUME NEW tally \in Tallies, NEW o \in Outcomes
  PROVE  \A p \in Outcomes : tally[p] \in Nat /\ tally[p] <= Plus(tally, o)[p]
<1>1. \A p \in Outcomes : tally[p] \in Nat
  BY DEF Tallies
<1>2. QED
  BY <1>1, PlusType

\* Adding a rotation keeps the order of two tallies.
LEMMA PlusGrows ==
  ASSUME NEW tally \in Tallies, NEW more \in Tallies, NEW o \in Outcomes,
         \A p \in Outcomes : tally[p] <= more[p]
  PROVE  /\ Plus(tally, o) \in Tallies /\ Plus(more, o) \in Tallies
         /\ \A p \in Outcomes : Plus(tally, o)[p] <= Plus(more, o)[p]
<1>1. \A p \in Outcomes : tally[p] \in Nat /\ more[p] \in Nat
  BY DEF Tallies
<1>2. /\ \A p \in Outcomes : Plus(tally, o)[p] = tally[p] + (IF p = o THEN 1 ELSE 0)
      /\ \A p \in Outcomes : Plus(more, o)[p] = more[p] + (IF p = o THEN 1 ELSE 0)
  BY PlusType
<1>3. QED
  BY <1>1, <1>2, PlusType

\* What is within a tally is within a larger one.
LEMMA WithinGrows ==
  ASSUME NEW status \in Status, NEW tally \in Tallies, NEW more \in Tallies,
         \A o \in Outcomes : tally[o] <= more[o], Within(status, tally)
  PROVE  Within(status, more)
<1>1. /\ tally["pending"] \in Nat /\ tally["completed"] \in Nat /\ tally["failed"] \in Nat
      /\ more["pending"] \in Nat /\ more["completed"] \in Nat /\ more["failed"] \in Nat
      /\ tally["pending"] <= more["pending"] /\ tally["completed"] <= more["completed"]
      /\ tally["failed"] <= more["failed"]
  BY DEF Tallies, Outcomes
<1>2. status.count \in Nat /\ status.success \in Nat /\ status.failure \in Nat
  BY DEF Status
<1>3. QED
  BY <1>1, <1>2 DEF Within, Total

\* The total of a tally is a number, and so are its parts.
LEMMA TotalType ==
  ASSUME NEW tally \in Tallies
  PROVE  /\ Total(tally) \in Nat
         /\ tally["pending"] \in Nat /\ tally["completed"] \in Nat /\ tally["failed"] \in Nat
BY DEF Tallies, Outcomes, Total

\* What a rotation adds to the status it read stays within what was performed and itself.
LEMMA CountedWithin ==
  ASSUME NEW existing \in Status \cup {Absent, Torn}, NEW tally \in Tallies, NEW o \in Outcomes,
         existing \in {Absent, Torn} \/ Within(existing, tally)
  PROVE  Within(Counted(existing, o), Plus(tally, o))
<1> DEFINE base == IF existing \in {Absent, Torn} THEN NoStatus ELSE existing
<1>1. base \in Status /\ Within(base, tally)
  BY TotalType DEF NoStatus, Status, Within, Outcomes
<1>2. /\ Counted(existing, o).count = base.count + 1
      /\ Counted(existing, o).success = base.success + (IF o = "completed" THEN 1 ELSE 0)
      /\ Counted(existing, o).failure = base.failure + (IF o = "failed" THEN 1 ELSE 0)
  BY DEF Counted
<1>3. /\ Total(Plus(tally, o)) = Total(tally) + 1
      /\ Plus(tally, o)["completed"] = tally["completed"] + (IF o = "completed" THEN 1 ELSE 0)
      /\ Plus(tally, o)["failed"] = tally["failed"] + (IF o = "failed" THEN 1 ELSE 0)
  BY PlusType DEF Outcomes
<1>4. base.count \in Nat /\ base.success \in Nat /\ base.failure \in Nat
  BY <1>1 DEF Status
<1> HIDE DEF base
<1>5. QED
  BY <1>1, <1>2, <1>3, <1>4, TotalType DEF Within

\* From an exact status it makes an exact one.
LEMMA CountedExactly ==
  ASSUME NEW existing \in Status \cup {Absent, Torn}, NEW tally \in Tallies, NEW o \in Outcomes,
         \/ existing = Absent /\ tally = NoTally
         \/ existing \notin {Absent, Torn} /\ Exactly(existing, tally)
  PROVE  Exactly(Counted(existing, o), Plus(tally, o))
<1> DEFINE base == IF existing \in {Absent, Torn} THEN NoStatus ELSE existing
<1>1. Exactly(base, tally)
  BY DEF NoStatus, Exactly, NoTally, Total, Outcomes
<1>2. /\ Counted(existing, o).count = base.count + 1
      /\ Counted(existing, o).success = base.success + (IF o = "completed" THEN 1 ELSE 0)
      /\ Counted(existing, o).failure = base.failure + (IF o = "failed" THEN 1 ELSE 0)
  BY DEF Counted
<1>3. /\ Total(Plus(tally, o)) = Total(tally) + 1
      /\ Plus(tally, o)["completed"] = tally["completed"] + (IF o = "completed" THEN 1 ELSE 0)
      /\ Plus(tally, o)["failed"] = tally["failed"] + (IF o = "failed" THEN 1 ELSE 0)
  BY PlusType DEF Outcomes
<1> HIDE DEF base
<1>4. QED
  BY <1>1, <1>2, <1>3 DEF Exactly

\* A rollback command marks the status it read and leaves its counts alone.
LEMMA MarkedCounts ==
  ASSUME NEW status, NEW tally
  PROVE  /\ Within(status, tally) => Within(Marked(status), tally)
         /\ Exactly(status, tally) => Exactly(Marked(status), tally)
BY DEF Marked, Within, Exactly

\* A step that performs nothing and starts no draft: the file stays or is torn, drafts stay or end.
Quiet ==
  /\ performed' = performed /\ lost' = lost
  /\ \A s \in Services : statusFile'[s] \in {statusFile[s], Torn}
  /\ \A r \in Requests :
       pc'[r] \in {"status", "statusTorn"} =>
         /\ pc[r] \in {"status", "statusTorn"}
         /\ draft'[r] = draft[r] /\ result'[r] = result[r] /\ (r \in stale => r \in stale')
  /\ \A c \in Commands :
       command'[c] \in {"plan", "execute", "history", "historyTorn", "status", "statusTorn"} =>
         /\ command[c] \in {"plan", "execute", "history", "historyTorn", "status", "statusTorn"}
         /\ draft'[c] = draft[c] /\ subject'[c] = subject[c] /\ (c \in stale => c \in stale')

\* A quiet step keeps the invariant about counts.
LEMMA QuietKeeps ==
  ASSUME CountsInv, Quiet
  PROVE  CountsInv'
<1>1. CountsAreBounded'
  BY DEF CountsInv, CountsAreBounded, Quiet
<1>2. DraftsAreBounded'
  BY DEF CountsInv, DraftsAreBounded, RequestDrafts, CommandDrafts, Quiet
<1>3. ExactUnlessLost'
  BY DEF CountsInv, ExactUnlessLost, Quiet
<1>4. DraftsAreExact'
  BY DEF CountsInv, DraftsAreExact, RequestDrafts, CommandDrafts, Quiet
<1>5. QED
  BY <1>1, <1>2, <1>3, <1>4 DEF CountsInv

\* Every step but a read of the status and a write of it is quiet.
LEMMA QuietSteps ==
  ASSUME TypeOK,
         \/ BatchRotate \/ BatchReturns \/ EngineDies \/ Tick \/ UNCHANGED vars
         \/ \E r \in Requests :
              \/ Acquire(r) \/ Refuse(r) \/ Begin(r) \/ RotateErrs(r)
              \/ \E o \in Outcomes : StrategyReturns(r, o)
              \/ SaveHistoryOpens(r) \/ SaveHistoryWrites(r) \/ SaveFails(r)
              \/ SaveStatusOpens(r) \/ Conclude(r) \/ Release(r)
         \/ \E c \in Commands :
              \/ ChooseTarget(c) \/ Abandon(c) \/ RolledBack(c) \/ CommandSavesHistory(c)
              \/ CommandSaveFails(c) \/ CommandDies(c)
  PROVE  Quiet
<1> USE RotationEngineAssumption DEF TypeOK, EngineType, CommandType, FileType, Actors, batching, outcome,
                                    inMemory, onDisk, commands, ledger, Quiet
<1>1. CASE BatchRotate
  BY <1>1 DEF BatchRotate
<1>2. CASE BatchReturns
  BY <1>2 DEF BatchReturns
<1>3. CASE EngineDies
  BY <1>3 DEF EngineDies
<1>4. CASE Tick
  BY <1>4 DEF Tick
<1>5. CASE UNCHANGED vars
  BY <1>5 DEF vars
<1>6. ASSUME NEW r \in Requests, Acquire(r) \/ Refuse(r) \/ Begin(r) \/ RotateErrs(r) PROVE Quiet
  BY <1>6 DEF Acquire, Refuse, Begin, RotateErrs, Goes
<1>7. ASSUME NEW r \in Requests, NEW o \in Outcomes, StrategyReturns(r, o) PROVE Quiet
  BY <1>7 DEF StrategyReturns, Goes
<1>8. ASSUME NEW r \in Requests, SaveHistoryOpens(r) \/ SaveHistoryWrites(r) PROVE Quiet
  BY <1>8 DEF SaveHistoryOpens, SaveHistoryWrites, Goes, EmptiesHistory, WritesHistory
<1>9. ASSUME NEW r \in Requests, SaveFails(r) PROVE Quiet
  BY <1>9 DEF SaveFails, Goes
<1>10. ASSUME NEW r \in Requests, SaveStatusOpens(r) PROVE Quiet
  BY <1>10 DEF SaveStatusOpens, Goes, EmptiesStatus
<1>11. ASSUME NEW r \in Requests, Conclude(r) \/ Release(r) PROVE Quiet
  BY <1>11 DEF Conclude, Release, Leaves, Goes
<1>12. ASSUME NEW c \in Commands, ChooseTarget(c) \/ Abandon(c) \/ RolledBack(c) PROVE Quiet
  BY <1>12 DEF ChooseTarget, Abandon, RolledBack, Proceeds
<1>13. ASSUME NEW c \in Commands, CommandSavesHistory(c) PROVE Quiet
  BY <1>13 DEF CommandSavesHistory, EmptiesHistory, WritesHistory, Proceeds
<1>14. ASSUME NEW c \in Commands, CommandSaveFails(c) PROVE Quiet
  BY <1>14 DEF CommandSaveFails, Proceeds
<1>15. ASSUME NEW c \in Commands, CommandDies(c) PROVE Quiet
  BY <1>15 DEF CommandDies
<1>16. QED
  BY <1>1, <1>2, <1>3, <1>4, <1>5, <1>6, <1>7, <1>8, <1>9, <1>10, <1>11, <1>12, <1>13, <1>14, <1>15

\* A request reads the status: its draft counts its own rotation on top of the file.
LEMMA GetStatusKeepsCounts ==
  ASSUME TypeOK, CountsInv, NEW r \in Requests, GetStatus(r)
  PROVE  CountsInv'
<1> USE RotationEngineAssumption DEF GetStatus, Reads, Goes, onDisk, commands, outcome
<1>1. /\ statusFile' = statusFile /\ performed' = performed /\ lost' = lost
      /\ command' = command /\ subject' = subject /\ result' = result
  OBVIOUS
<1>2. /\ r \in RequestDrafts' /\ RequestDrafts' \subseteq RequestDrafts \cup {r}
      /\ CommandDrafts' = CommandDrafts
  BY DEF RequestDrafts, CommandDrafts, TypeOK, EngineType
<1>3. /\ draft'[r] = Counted(statusFile[ServiceOf[r]], result[r])
      /\ \A a \in Actors \ {r} : draft'[a] = draft[a] /\ (a \in stale => a \in stale')
      /\ statusFile[ServiceOf[r]] = Torn => r \in stale'
  BY DEF TypeOK, FileType, Actors
<1>4. /\ statusFile[ServiceOf[r]] \in Status \cup {Absent, Torn} /\ ServiceOf[r] \in Services
      /\ performed[ServiceOf[r]] \in Tallies /\ result[r] \in Outcomes
  BY DEF TypeOK, EngineType, FileType, LedgerType, Tallies, Recording
<1> HIDE DEF GetStatus, Reads, Goes, onDisk, commands, outcome
<1>5. CountsAreBounded' /\ ExactUnlessLost'
  BY <1>1 DEF CountsInv, CountsAreBounded, ExactUnlessLost
<1>6. DraftsAreBounded'
  <2>1. Within(draft'[r], Plus(performed[ServiceOf[r]], result[r]))
    BY <1>3, <1>4, CountedWithin DEF CountsInv, CountsAreBounded
  <2>2. ASSUME NEW q \in RequestDrafts' PROVE Within(draft'[q], Plus(performed'[ServiceOf[q]], result'[q]))
    BY <2>1, <2>2, <1>1, <1>2, <1>3 DEF CountsInv, DraftsAreBounded, RequestDrafts, Actors
  <2>3. ASSUME NEW c \in CommandDrafts' PROVE Within(draft'[c], performed'[subject'[c]])
    BY <2>3, <1>1, <1>2, <1>3 DEF CountsInv, DraftsAreBounded, CommandDrafts, Actors
  <2>4. QED
    BY <2>2, <2>3 DEF DraftsAreBounded
<1>7. DraftsAreExact'
  <2>1. r \in stale' \/ ServiceOf[r] \in lost \/ Exactly(draft'[r], Plus(performed[ServiceOf[r]], result[r]))
    <3>1. SUFFICES ASSUME statusFile[ServiceOf[r]] # Torn, ServiceOf[r] \notin lost
                   PROVE  Exactly(draft'[r], Plus(performed[ServiceOf[r]], result[r]))
      BY <1>3
    <3>2. QED
      BY <1>3, <1>4, <3>1, CountedExactly DEF CountsInv, ExactUnlessLost
  <2>2. ASSUME NEW q \in RequestDrafts'
        PROVE  \/ q \in stale' \/ ServiceOf[q] \in lost'
               \/ Exactly(draft'[q], Plus(performed'[ServiceOf[q]], result'[q]))
    BY <2>1, <2>2, <1>1, <1>2, <1>3 DEF CountsInv, DraftsAreExact, RequestDrafts, Actors
  <2>3. ASSUME NEW c \in CommandDrafts'
        PROVE  c \in stale' \/ subject'[c] \in lost' \/ Exactly(draft'[c], performed'[subject'[c]])
    BY <2>3, <1>1, <1>2, <1>3 DEF CountsInv, DraftsAreExact, CommandDrafts, Actors
  <2>4. QED
    BY <2>2, <2>3 DEF DraftsAreExact
<1>8. QED
  BY <1>5, <1>6, <1>7 DEF CountsInv

\* A rollback command reads the status.
LEMMA ReadServiceKeepsCounts ==
  ASSUME TypeOK, CountsInv, NEW c \in Commands, NEW s \in Services, ReadService(c, s)
  PROVE  CountsInv'
<1> USE RotationEngineAssumption DEF ReadService, Proceeds, onDisk, outcome
<1>1. /\ statusFile' = statusFile /\ performed' = performed /\ lost' = lost
      /\ pc' = pc /\ result' = result
  OBVIOUS
<1>2. /\ CommandDrafts' \subseteq CommandDrafts \cup {c} /\ RequestDrafts' = RequestDrafts
  BY DEF RequestDrafts, CommandDrafts, TypeOK, CommandType
<1>3. /\ draft'[c] = statusFile[s] /\ subject'[c] = s /\ statusFile[s] \notin {Absent, Torn}
      /\ \A d \in Commands \ {c} : subject'[d] = subject[d]
      /\ \A a \in Actors \ {c} : draft'[a] = draft[a] /\ (a \in stale => a \in stale')
  BY DEF TypeOK, FileType, CommandType, Actors
<1> HIDE DEF ReadService, Proceeds, onDisk, outcome
<1>4. CountsAreBounded' /\ ExactUnlessLost'
  BY <1>1 DEF CountsInv, CountsAreBounded, ExactUnlessLost
<1>5. DraftsAreBounded'
  <2>1. ASSUME NEW r \in RequestDrafts' PROVE Within(draft'[r], Plus(performed'[ServiceOf[r]], result'[r]))
    BY <2>1, <1>1, <1>2, <1>3 DEF CountsInv, DraftsAreBounded, RequestDrafts, Actors
  <2>2. ASSUME NEW d \in CommandDrafts' PROVE Within(draft'[d], performed'[subject'[d]])
    <3>1. CASE d = c
      BY <3>1, <1>1, <1>3 DEF CountsInv, CountsAreBounded
    <3>2. CASE d # c
      BY <3>2, <1>1, <1>2, <1>3 DEF CountsInv, DraftsAreBounded, CommandDrafts, Actors
    <3>3. QED
      BY <3>1, <3>2
  <2>3. QED
    BY <2>1, <2>2 DEF DraftsAreBounded
<1>6. DraftsAreExact'
  <2>1. ASSUME NEW r \in RequestDrafts'
        PROVE  \/ r \in stale' \/ ServiceOf[r] \in lost'
               \/ Exactly(draft'[r], Plus(performed'[ServiceOf[r]], result'[r]))
    BY <2>1, <1>1, <1>2, <1>3 DEF CountsInv, DraftsAreExact, RequestDrafts, Actors
  <2>2. ASSUME NEW d \in CommandDrafts'
        PROVE  d \in stale' \/ subject'[d] \in lost' \/ Exactly(draft'[d], performed'[subject'[d]])
    <3>1. CASE d = c
      BY <3>1, <1>1, <1>3 DEF CountsInv, ExactUnlessLost
    <3>2. CASE d # c
      BY <3>2, <1>1, <1>2, <1>3 DEF CountsInv, DraftsAreExact, CommandDrafts, Actors
    <3>3. QED
      BY <3>1, <3>2
  <2>3. QED
    BY <2>1, <2>2 DEF DraftsAreExact
<1>7. QED
  BY <1>4, <1>5, <1>6 DEF CountsInv

\* It marks its draft as rolled back, and empties the file.
LEMMA MarkKeepsCounts ==
  ASSUME TypeOK, CountsInv, NEW c \in Commands, CommandOpensStatus(c)
  PROVE  CountsInv'
<1> USE RotationEngineAssumption DEF CommandOpensStatus, EmptiesStatus, Proceeds, ledger, outcome
<1>1. /\ performed' = performed /\ lost' = lost /\ stale' = stale
      /\ pc' = pc /\ result' = result /\ subject' = subject
      /\ \A s \in Services : statusFile'[s] \in {statusFile[s], Torn}
  BY DEF TypeOK, FileType
<1>2. CommandDrafts' = CommandDrafts /\ RequestDrafts' = RequestDrafts /\ c \in CommandDrafts
  BY DEF RequestDrafts, CommandDrafts, TypeOK, CommandType
<1>3. /\ draft'[c] = Marked(draft[c])
      /\ \A a \in Actors \ {c} : draft'[a] = draft[a]
  BY DEF TypeOK, FileType, Actors
<1> HIDE DEF CommandOpensStatus, EmptiesStatus, Proceeds, ledger, outcome
<1>4. CountsAreBounded' /\ ExactUnlessLost'
  BY <1>1 DEF CountsInv, CountsAreBounded, ExactUnlessLost
<1>5. DraftsAreBounded'
  BY <1>1, <1>2, <1>3, MarkedCounts DEF CountsInv, DraftsAreBounded, RequestDrafts, CommandDrafts, Actors
<1>6. DraftsAreExact'
  BY <1>1, <1>2, <1>3, MarkedCounts DEF CountsInv, DraftsAreExact, RequestDrafts, CommandDrafts, Actors
<1>7. QED
  BY <1>4, <1>5, <1>6 DEF CountsInv

\* It writes its draft: what was performed is unchanged, the others' drafts become stale.
LEMMA CommandWriteKeepsCounts ==
  ASSUME TypeOK, CountsInv, NEW c \in Commands, CommandWritesStatus(c)
  PROVE  CountsInv'
<1> USE RotationEngineAssumption DEF CommandWritesStatus, WritesStatus, Proceeds, outcome
<1>1. /\ performed' = performed /\ pc' = pc /\ result' = result /\ subject' = subject /\ draft' = draft
      /\ lost \subseteq lost' /\ ServiceBy(c) = subject[c] /\ subject[c] \in Services
  BY ServiceByType DEF TypeOK, Actors
<1>2. /\ c \in CommandDrafts /\ CommandDrafts' = CommandDrafts \ {c} /\ RequestDrafts' = RequestDrafts
  BY DEF RequestDrafts, CommandDrafts, TypeOK, CommandType
<1>3. /\ statusFile'[subject[c]] = draft[c]
      /\ \A s \in Services \ {subject[c]} : statusFile'[s] = statusFile[s]
      /\ draft[c] \in Status
  BY <1>1 DEF TypeOK, FileType, Actors
<1>4. /\ \A a \in Actors \ {c} : a \in stale => a \in stale'
      /\ c \in stale => subject[c] \in lost'
  BY <1>1
<1> HIDE DEF CommandWritesStatus, WritesStatus, Proceeds, outcome
<1>5. CountsAreBounded'
  BY <1>1, <1>2, <1>3 DEF CountsInv, CountsAreBounded, DraftsAreBounded
<1>6. ExactUnlessLost'
  <2>1. draft[c] \notin {Absent, Torn}
    BY <1>3, FileAssumption
  <2>2. QED
    BY <1>1, <1>2, <1>3, <1>4, <2>1 DEF CountsInv, ExactUnlessLost, DraftsAreExact
<1>7. DraftsAreBounded'
  BY <1>1, <1>2 DEF CountsInv, DraftsAreBounded
<1>8. DraftsAreExact'
  BY <1>1, <1>2, <1>4 DEF CountsInv, DraftsAreExact, RequestDrafts, CommandDrafts, Actors
<1>9. QED
  BY <1>5, <1>6, <1>7, <1>8 DEF CountsInv

\* A request writes its draft: its rotation is performed, the others' drafts become stale.
LEMMA RequestWriteKeepsCounts ==
  ASSUME TypeOK, CountsInv, NEW r \in Requests, SaveStatusWrites(r)
  PROVE  CountsInv'
<1> USE RotationEngineAssumption DEF SaveStatusWrites, WritesStatus, Goes, outcome, commands
<1> DEFINE s == ServiceOf[r]
<1>1. /\ result' = result /\ command' = command /\ subject' = subject /\ draft' = draft
      /\ lost \subseteq lost' /\ ServiceBy(r) = s /\ s \in Services /\ result[r] \in Outcomes
  BY ServiceByType DEF TypeOK, EngineType, Actors, Recording
<1>2. /\ r \in RequestDrafts /\ RequestDrafts' = RequestDrafts \ {r} /\ CommandDrafts' = CommandDrafts
  BY DEF RequestDrafts, CommandDrafts, TypeOK, EngineType
<1>3. /\ statusFile'[s] = draft[r]
      /\ \A t \in Services \ {s} : statusFile'[t] = statusFile[t] /\ performed'[t] = performed[t]
      /\ draft[r] \in Status
  BY <1>1 DEF TypeOK, FileType, LedgerType, Actors
<1>4. /\ performed'[s] = Plus(performed[s], result[r])
      /\ performed[s] \in Tallies /\ performed'[s] \in Tallies
  BY <1>1 DEF TypeOK, LedgerType, Plus, Tallies
<1>5. /\ \A a \in Actors \ {r} : a \in stale => a \in stale'
      /\ \A q \in RequestDrafts' : ServiceOf[q] = s => q \in stale'
      /\ \A c \in CommandDrafts' : subject[c] = s => c \in stale'
      /\ r \in stale => s \in lost'
  BY <1>1, <1>2 DEF Drafting, RequestDrafts, CommandDrafts
<1> HIDE DEF s, SaveStatusWrites, WritesStatus, Goes, outcome, commands
<1>6. \A o \in Outcomes : performed[s][o] \in Nat /\ performed[s][o] <= performed'[s][o]
  BY <1>1, <1>4, PlusAbove
<1>7. CountsAreBounded'
  BY <1>1, <1>2, <1>3, <1>4 DEF CountsInv, CountsAreBounded, DraftsAreBounded, s
<1>8. ExactUnlessLost'
  <2>1. draft[r] \notin {Absent, Torn}
    BY <1>3, FileAssumption
  <2>2. QED
    BY <1>1, <1>2, <1>3, <1>4, <1>5, <2>1 DEF CountsInv, ExactUnlessLost, DraftsAreExact, s
<1>9. DraftsAreBounded'
  <2>1. ASSUME NEW q \in RequestDrafts' PROVE Within(draft'[q], Plus(performed'[ServiceOf[q]], result'[q]))
    <3>1. q \in Requests /\ q \in RequestDrafts /\ result[q] \in Outcomes /\ draft[q] \in Status
      BY <2>1, <1>2 DEF RequestDrafts, TypeOK, EngineType, FileType, Recording, Actors
    <3>2. Within(draft[q], Plus(performed[ServiceOf[q]], result[q]))
      BY <3>1 DEF CountsInv, DraftsAreBounded
    <3>3. CASE ServiceOf[q] = s
      <4>1. /\ Plus(performed[s], result[q]) \in Tallies /\ Plus(performed'[s], result[q]) \in Tallies
            /\ \A o \in Outcomes : Plus(performed[s], result[q])[o] <= Plus(performed'[s], result[q])[o]
        BY <1>4, <1>6, <3>1, PlusGrows
      <4>2. Within(draft[q], Plus(performed'[s], result[q]))
        BY <3>1, <3>2, <3>3, <4>1, WithinGrows
      <4>3. QED
        BY <1>1, <3>3, <4>2
    <3>4. CASE ServiceOf[q] # s
      BY <1>1, <1>3, <3>1, <3>2, <3>4
    <3>5. QED
      BY <3>3, <3>4
  <2>2. ASSUME NEW c \in CommandDrafts' PROVE Within(draft'[c], performed'[subject'[c]])
    <3>1. c \in Commands /\ c \in CommandDrafts /\ draft[c] \in Status /\ subject[c] \in Services
      BY <2>2, <1>2 DEF CommandDrafts, TypeOK, FileType, CommandType, Actors
    <3>2. Within(draft[c], performed[subject[c]])
      BY <3>1 DEF CountsInv, DraftsAreBounded
    <3>3. CASE subject[c] = s
      BY <1>1, <1>4, <1>6, <3>1, <3>2, <3>3, WithinGrows
    <3>4. CASE subject[c] # s
      BY <1>1, <1>3, <3>1, <3>2, <3>4
    <3>5. QED
      BY <3>3, <3>4
  <2>3. QED
    BY <2>1, <2>2 DEF DraftsAreBounded
<1>10. DraftsAreExact'
  <2>1. ASSUME NEW q \in RequestDrafts'
        PROVE  \/ q \in stale' \/ ServiceOf[q] \in lost'
               \/ Exactly(draft'[q], Plus(performed'[ServiceOf[q]], result'[q]))
    BY <2>1, <1>1, <1>2, <1>3, <1>5 DEF CountsInv, DraftsAreExact, RequestDrafts, Actors
  <2>2. ASSUME NEW c \in CommandDrafts'
        PROVE  c \in stale' \/ subject'[c] \in lost' \/ Exactly(draft'[c], performed'[subject'[c]])
    BY <2>2, <1>1, <1>2, <1>3, <1>5 DEF CountsInv, DraftsAreExact, CommandDrafts, Actors, TypeOK, CommandType
  <2>3. QED
    BY <2>1, <2>2 DEF DraftsAreExact
<1>11. QED
  BY <1>7, <1>8, <1>9, <1>10 DEF CountsInv

\* Every step keeps the invariant about counts: most are quiet, the others have a lemma each.
LEMMA CountsStep ==
  ASSUME TypeOK, CountsInv, [Next]_vars
  PROVE  CountsInv'
<1>1. CASE UNCHANGED vars \/ BatchRotate \/ BatchReturns \/ EngineDies \/ Tick
  BY <1>1, QuietSteps, QuietKeeps
<1>2. ASSUME NEW r \in Requests, RequestSteps(r) PROVE CountsInv'
  <2>1. CASE GetStatus(r)
    BY <2>1, GetStatusKeepsCounts
  <2>2. CASE SaveStatusWrites(r)
    BY <2>2, RequestWriteKeepsCounts
  <2>3. CASE ~ (GetStatus(r) \/ SaveStatusWrites(r))
    BY <1>2, <2>3, QuietSteps, QuietKeeps DEF RequestSteps
  <2>4. QED
    BY <2>1, <2>2, <2>3
<1>3. ASSUME NEW c \in Commands, CommandSteps(c) PROVE CountsInv'
  <2>1. ASSUME NEW s \in Services, ReadService(c, s) PROVE CountsInv'
    BY <2>1, ReadServiceKeepsCounts
  <2>2. CASE CommandOpensStatus(c)
    BY <2>2, MarkKeepsCounts
  <2>3. CASE CommandWritesStatus(c)
    BY <2>3, CommandWriteKeepsCounts
  <2>4. CASE \/ ChooseTarget(c) \/ Abandon(c) \/ RolledBack(c) \/ CommandSavesHistory(c)
             \/ CommandSaveFails(c) \/ CommandDies(c)
    BY <2>4, QuietSteps, QuietKeeps
  <2>5. QED
    BY <1>3, <2>1, <2>2, <2>3, <2>4 DEF CommandSteps
<1>4. QED
  BY <1>1, <1>2, <1>3 DEF Next

\* Without files and without drafts nothing is claimed.
LEMMA CountsInit == ASSUME Init PROVE CountsInv
BY DEF Init, CountsInv, CountsAreBounded, DraftsAreBounded, ExactUnlessLost, DraftsAreExact,
       RequestDrafts, CommandDrafts

\* No interleaving leaves the invariant about counts.
LEMMA CountsInvariant == Spec => []CountsInv
BY CountsInit, CountsStep, TypeCorrect, PTL DEF Spec

\* No interleaving, death or rollback makes a status claim more rotations, successes or failures
\* than were recorded.
THEOREM CountsBounded == Spec => []CountsAreBounded
<1>1. CountsInv => CountsAreBounded
  BY DEF CountsInv
<1>2. QED
  BY <1>1, CountsInvariant, PTL

\* The counts of a service are exact until somebody writes a status from a stale or torn read.
THEOREM CountsExact == Spec => []ExactUnlessLost
<1>1. CountsInv => ExactUnlessLost
  BY DEF CountsInv
<1>2. QED
  BY <1>1, CountsInvariant, PTL

\* Both at once: the counts are what happened, less what was lost.
THEOREM CountsTrue == Spec => []CountsAreTrue
<1>1. CountsInv => CountsAreTrue
  BY DEF CountsInv, CountsAreTrue
<1>2. QED
  BY <1>1, CountsInvariant, PTL

-------------------------------------------------------------------------------
(* Who tears a status file *)

\* A torn status file is being written, or a death or a full disk is on record for it.
TornAccounted ==
  \A s \in Services : statusFile[s] = Torn =>
    \/ s \in tears
    \/ \E r \in Requests : ServiceOf[r] = s /\ pc[r] = "statusTorn"
    \/ \E c \in Commands : subject[c] = s /\ command[c] = "statusTorn"

\* A step that tears a status file is still writing it, and one that stops writing leaves the file
\* whole or a tear on record.
Covered ==
  /\ tears \subseteq tears'
  /\ \A s \in Services :
       statusFile'[s] = Torn =>
         \/ statusFile[s] = Torn
         \/ \E r \in Requests : ServiceOf[r] = s /\ pc'[r] = "statusTorn"
         \/ \E c \in Commands : subject'[c] = s /\ command'[c] = "statusTorn"
  /\ \A r \in Requests :
       pc[r] = "statusTorn" => \/ pc'[r] = "statusTorn"
                               \/ ServiceOf[r] \in tears'
                               \/ statusFile'[ServiceOf[r]] # Torn
  /\ \A c \in Commands :
       command[c] = "statusTorn" => \/ command'[c] = "statusTorn" /\ subject'[c] = subject[c]
                                    \/ subject[c] \in tears'
                                    \/ statusFile'[subject[c]] # Torn

\* A step that covers what it tears keeps every torn file accounted for.
LEMMA CoveredKeeps ==
  ASSUME TornAccounted, Covered
  PROVE  TornAccounted'
BY DEF TornAccounted, Covered

\* Every step covers what it tears: a writer is about to fill it, or it goes on record.
LEMMA CoveredSteps ==
  ASSUME TypeOK, Idle, [Next]_vars
  PROVE  Covered
<1> USE RotationEngineAssumption, FileAssumption
    DEF TypeOK, EngineType, FileType, CommandType, LedgerType, Actors, batching, outcome, inMemory,
        onDisk, commands, ledger, Covered
<1>1. CASE UNCHANGED vars
  BY <1>1 DEF vars
<1>2. CASE BatchRotate
  BY <1>2 DEF BatchRotate, Idle
<1>3. CASE BatchReturns
  BY <1>3 DEF BatchReturns
<1>4. CASE EngineDies
  BY <1>4 DEF EngineDies
<1>5. CASE Tick
  BY <1>5 DEF Tick
<1>6. ASSUME NEW r \in Requests, RequestSteps(r) PROVE Covered
  <2> USE DEF Goes
  <2>1. CASE Acquire(r) \/ Refuse(r) \/ Begin(r) \/ RotateErrs(r) \/ Conclude(r) \/ Release(r)
    BY <2>1 DEF Acquire, Refuse, Begin, RotateErrs, Conclude, Release, Leaves
  <2>2. ASSUME NEW o \in Outcomes, StrategyReturns(r, o) PROVE Covered
    BY <2>2 DEF StrategyReturns
  <2>3. CASE SaveHistoryOpens(r) \/ SaveHistoryWrites(r)
    BY <2>3 DEF SaveHistoryOpens, SaveHistoryWrites, EmptiesHistory, WritesHistory
  <2>4. CASE SaveFails(r)
    BY <2>4 DEF SaveFails
  <2>5. CASE GetStatus(r)
    BY <2>5 DEF GetStatus, Reads
  <2>6. CASE SaveStatusOpens(r)
    BY <2>6, ServiceByType DEF SaveStatusOpens, EmptiesStatus
  <2>7. CASE SaveStatusWrites(r)
    <3>1. /\ statusFile' = [statusFile EXCEPT ![ServiceOf[r]] = draft[r]]
          /\ draft[r] # Torn /\ ServiceOf[r] \in Services
          /\ pc' = [pc EXCEPT ![r] = "update"]
          /\ tears' = tears /\ command' = command /\ subject' = subject
      BY <2>7, ServiceByType DEF SaveStatusWrites, WritesStatus
    <3>2. QED
      BY <3>1
  <2>8. QED
    BY <1>6, <2>1, <2>2, <2>3, <2>4, <2>5, <2>6, <2>7 DEF RequestSteps
<1>7. ASSUME NEW c \in Commands, CommandSteps(c) PROVE Covered
  <2> USE DEF Proceeds
  <2>1. ASSUME NEW s \in Services, ReadService(c, s) PROVE Covered
    BY <2>1 DEF ReadService
  <2>2. CASE ChooseTarget(c) \/ Abandon(c) \/ RolledBack(c)
    BY <2>2 DEF ChooseTarget, Abandon, RolledBack
  <2>3. CASE CommandSavesHistory(c)
    BY <2>3 DEF CommandSavesHistory, EmptiesHistory, WritesHistory
  <2>4. CASE CommandOpensStatus(c)
    BY <2>4, ServiceByType DEF CommandOpensStatus, EmptiesStatus
  <2>5. CASE CommandWritesStatus(c)
    <3>1. /\ statusFile' = [statusFile EXCEPT ![subject[c]] = draft[c]]
          /\ draft[c] # Torn /\ subject[c] \in Services
          /\ command' = [command EXCEPT ![c] = "done"]
          /\ tears' = tears /\ pc' = pc /\ subject' = subject
      BY <2>5, ServiceByType DEF CommandWritesStatus, WritesStatus
    <3>2. QED
      BY <3>1
  <2>6. CASE CommandSaveFails(c)
    BY <2>6 DEF CommandSaveFails
  <2>7. CASE CommandDies(c)
    BY <2>7 DEF CommandDies
  <2>8. QED
    BY <1>7, <2>1, <2>2, <2>3, <2>4, <2>5, <2>6, <2>7 DEF CommandSteps
<1>8. QED
  BY <1>1, <1>2, <1>3, <1>4, <1>5, <1>6, <1>7 DEF Next

\* At the start no file is torn.
LEMMA TornInit == ASSUME Init PROVE TornAccounted
BY FileAssumption DEF Init, TornAccounted

\* What a request finds torn when it reads: nobody of its own batch is writing, for it reads under
\* the lock.
LEMMA ReadsAfterTear ==
  ASSUME TypeOK, OneWriter, TornAccounted, [Next]_vars,
         NEW r \in Requests, pc[r] = "read", pc'[r] = "status", statusFile[ServiceOf[r]] = Torn
  PROVE  \/ ServiceOf[r] \in tears
         \/ \E c \in Commands : subject[c] = ServiceOf[r] /\ command[c] = "statusTorn"
<1> USE RotationEngineAssumption DEF TypeOK, EngineType
<1>1. mu = Nobody
  <2>1. GetStatus(r)
    <3>1. ~ UNCHANGED vars
      BY DEF vars
    <3>2. ~ (BatchRotate \/ BatchReturns \/ EngineDies \/ Tick)
      BY DEF BatchRotate, BatchReturns, EngineDies, Tick
    <3>3. ASSUME NEW c \in Commands, CommandSteps(c) PROVE FALSE
      BY <3>3 DEF CommandSteps, ReadService, ChooseTarget, Abandon, RolledBack, CommandSavesHistory,
                  CommandOpensStatus, CommandWritesStatus, CommandSaveFails, CommandDies, Proceeds
    <3>4. ASSUME NEW q \in Requests, RequestSteps(q) PROVE q = r /\ GetStatus(q)
      BY <3>4 DEF RequestSteps, Acquire, Refuse, Begin, RotateErrs, StrategyReturns, SaveHistoryOpens,
                  SaveHistoryWrites, SaveFails, GetStatus, Reads, SaveStatusOpens, SaveStatusWrites,
                  Conclude, Release, Goes
    <3>5. QED
      BY <3>1, <3>2, <3>3, <3>4 DEF Next
  <2>2. QED
    BY <2>1 DEF GetStatus
<1>2. \A q \in Requests : pc[q] # "statusTorn"
  BY <1>1 DEF OneWriter
<1>3. QED
  BY <1>2 DEF TornAccounted

\* Whatever the number of goroutines, only a death, a full disk, or a rollback command that writes
\* at that moment makes the engine start the counts of a service again.
THEOREM RestartsAfterTear == Spec => RestartsOnlyAfterTear
<1>1. TypeOK => EngineType
  BY DEF TypeOK
<1>2. TypeOK /\ Idle /\ OneWriter /\ [Next]_vars => Idle' /\ OneWriter'
  BY <1>1, WriterStep
<1>3. TypeOK /\ Idle /\ TornAccounted /\ [Next]_vars => TornAccounted'
  BY CoveredSteps, CoveredKeeps
<1>4. TypeOK /\ OneWriter /\ TornAccounted /\ [Next]_vars
      => [\A r \in Requests :
            pc[r] = "read" /\ pc'[r] = "status" /\ statusFile[ServiceOf[r]] = Torn
            => \/ ServiceOf[r] \in tears
               \/ \E c \in Commands : subject[c] = ServiceOf[r] /\ command[c] = "statusTorn"]_vars
  BY ReadsAfterTear
<1>5. QED
  BY <1>2, <1>3, <1>4, TornInit, WriterInit, TypeCorrect, PTL DEF Spec, RestartsOnlyAfterTear

===============================================================================
