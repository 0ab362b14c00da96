----------------------------- MODULE RotationEngine -----------------------------
(***************************************************************************)
(* pkg/rotation/engine.go with the two storages it writes: the results kept *)
(* in memory (pkg/rotation/storage.go) and the status and history files of  *)
(* internal/rotation/storage/file_storage.go; and the rollback command of   *)
(* cmd/dsops/commands/rotation_rollback.go, another process on the same     *)
(* files.                                                                   *)
(*                                                                         *)
(* The engine runs one batch at a time, a goroutine per request.  A step is *)
(* one critical section, one read of a file, or one half of os.WriteFile:   *)
(* the open that empties the file, then the write.  FileStorage.mu excludes *)
(* the goroutines of the engine from one another; the command has a mutex   *)
(* of its own, which excludes nobody.                                       *)
(*                                                                         *)
(* A version is abstracted to whether it is known.  `saved`, `performed`,   *)
(* `stale`, `lost` and `tears` are history for the properties.              *)
(***************************************************************************)
EXTENDS Integers, Sequences, FiniteSets

CONSTANTS
  Requests,      \* the requests of a batch
  Commands,      \* rollback commands, each a process
  Secrets, Services,
  SecretOf,      \* SecretOf[r]: the secret request r rotates
  ServiceOf,     \* ServiceOf[r]: its type, under which the files are kept
  Versioned,     \* the requests whose strategy tells the old and the new version on success
  Concurrency,   \* capacity of BatchRotate's semaphore
  HistoryLimit,  \* results kept in memory per secret
  MaxBatches,    \* bound: batches
  MaxDeaths,     \* bound: processes that die
  MaxSecond,     \* bound: seconds that pass
  Absent, Torn,  \* a file that is not there, a file emptied and not written
  Nobody         \* FileStorage.mu is free

ASSUME RotationEngineAssumption ==
  /\ IsFiniteSet(Requests) /\ Services # {}
  /\ SecretOf \in [Requests -> Secrets]
  /\ ServiceOf \in [Requests -> Services]
  /\ Versioned \subseteq Requests
  /\ Concurrency \in Nat \ {0}
  /\ HistoryLimit \in Nat \ {0}
  /\ MaxBatches \in Nat /\ MaxDeaths \in Nat /\ MaxSecond \in Nat
  /\ Requests \cap Commands = {}
  /\ Nobody \notin Requests \cup Commands

\* pending: the strategy says neither completed nor failed.
Outcomes == {"pending", "completed", "failed"}

\* storage.RotationStatus; current: Metadata has current_version.
Status == [count : Nat, success : Nat, failure : Nat, last : Outcomes \cup {"rolled_back"},
           current : BOOLEAN]

\* storage.HistoryEntry; versioned: OldVersion is not empty.
Entry == [action : {"rotate", "rollback"}, status : Outcomes \cup {"success"}, versioned : BOOLEAN]

\* The target of a rollback command whose user gave --version.
Given == [action |-> "none", status |-> "none", versioned |-> FALSE]

ASSUME FileAssumption == Absent # Torn /\ {Absent, Torn} \cap (Status \cup Entry) = {}

VARIABLES
  running,     \* a BatchRotate is under way
  pc,          \* where each request's goroutine stands
  slots,       \* tokens in the semaphore
  result,      \* the result of each request
  events,      \* the notifications each request's Rotate sent
  memory,      \* MemoryRotationStorage.history
  memStatus,   \* MemoryRotationStorage.status
  mu,          \* who holds the engine's FileStorage.mu for writing
  statusFile,  \* the status file of each service
  historyFile, \* historyFile[s][t]: the history file of service s named by second t
  clock,       \* the second it is
  stamp,       \* the second of the history entry being saved
  draft,       \* the status being saved
  command,     \* where each rollback command stands
  subject,     \* its service
  target,      \* the history entry whose old version it restores, or Given
  batches, deaths,
  saved,       \* history: entries written to the history of each service
  performed,   \* history: rotations whose status file was written, per service and outcome
  stale,       \* history: those whose status draft is older than the file
  lost,        \* history: services whose status was written from a stale or torn read
  tears        \* history: services whose status file was left torn by a death or a full disk

inMemory == <<memory, memStatus>>
onDisk   == <<statusFile, historyFile>>
batching == <<running, slots, batches>>
outcome  == <<result, events>>
ledger   == <<saved, performed, stale, lost, tears>>
commands == <<command, subject, target>>
vars == <<batching, pc, outcome, inMemory, mu, onDisk, clock, stamp, draft, commands, deaths, ledger>>

Seconds == 0..MaxSecond
Actors  == Requests \cup Commands

NoStatus == [count |-> 0, success |-> 0, failure |-> 0, last |-> "pending", current |-> FALSE]
NoTally  == [o \in Outcomes |-> 0]

Total(tally) == tally["pending"] + tally["completed"] + tally["failed"]

ServiceBy(a) == IF a \in Requests THEN ServiceOf[a] ELSE subject[a]

Init ==
  /\ running = FALSE /\ slots = 0 /\ batches = 0 /\ deaths = 0 /\ clock = 0
  /\ pc = [r \in Requests |-> "out"] /\ mu = Nobody
  /\ result = [r \in Requests |-> "none"]
  /\ events = [r \in Requests |-> <<>>]
  /\ memory = [k \in Secrets |-> <<>>] /\ memStatus = [k \in Secrets |-> "none"]
  /\ statusFile = [s \in Services |-> Absent]
  /\ historyFile = [s \in Services |-> [t \in Seconds |-> Absent]]
  /\ stamp = [a \in Actors |-> 0] /\ draft = [a \in Actors |-> NoStatus]
  /\ command = [c \in Commands |-> "out"] /\ subject = [c \in Commands |-> CHOOSE s \in Services : TRUE]
  /\ target = [c \in Commands |-> Given]
  /\ saved = [s \in Services |-> 0] /\ performed = [s \in Services |-> NoTally]
  /\ stale = {} /\ lost = {} /\ tears = {}

-------------------------------------------------------------------------------
(* BatchRotate: a goroutine per request, each waits for a token, rotates,    *)
(* stores its result and gives the token back, whatever happened.            *)

BatchRotate ==
  /\ ~ running /\ batches < MaxBatches
  /\ running' = TRUE /\ batches' = batches + 1 /\ slots' = 0
  /\ pc' = [r \in Requests |-> "queued"]
  /\ result' = [r \in Requests |-> "none"] /\ events' = [r \in Requests |-> <<>>]
  /\ UNCHANGED <<inMemory, mu, onDisk, clock, stamp, draft, commands, deaths, ledger>>

Goes(r, from, to) ==
  /\ pc[r] = from
  /\ pc' = [pc EXCEPT ![r] = to]
  /\ UNCHANGED <<running, batches, clock, commands, deaths>>

Acquire(r) ==
  /\ Goes(r, "queued", "begin")
  /\ slots < Concurrency
  /\ slots' = slots + 1
  /\ UNCHANGED <<outcome, inMemory, mu, onDisk, stamp, draft, ledger>>

\* Its locals end with Rotate; the result stays in BatchRotate's slice.
Leaves(r) ==
  /\ stamp' = [stamp EXCEPT ![r] = 0]
  /\ draft' = [draft EXCEPT ![r] = NoStatus]
  /\ stale' = stale \ {r}

\* Mutant: the token is given back only after a rotation that did not fail.
ReleaseOnSuccess(r) ==
  /\ Goes(r, "release", "done")
  /\ slots' = IF result[r] = "failed" THEN slots ELSE slots - 1
  /\ Leaves(r)
  /\ UNCHANGED <<result, events, inMemory, mu, onDisk, saved, performed, lost, tears>>

Release(r) ==
  /\ Goes(r, "release", "done")
  /\ slots' = slots - 1
  /\ Leaves(r)
  /\ UNCHANGED <<result, events, inMemory, mu, onDisk, saved, performed, lost, tears>>

BatchReturns ==
  /\ running /\ \A r \in Requests : pc[r] = "done"
  /\ running' = FALSE
  /\ pc' = [r \in Requests |-> "out"]
  /\ UNCHANGED <<slots, batches, outcome, inMemory, mu, onDisk, clock, stamp, draft, commands,
                 deaths, ledger>>

-------------------------------------------------------------------------------
(* Rotate, up to the result of the strategy.                                 *)

\* The strategy is not registered, or does not support the secret: nothing was announced yet.
Refuse(r) ==
  /\ Goes(r, "begin", "release")
  /\ result' = [result EXCEPT ![r] = "failed"]
  /\ UNCHANGED <<slots, events, inMemory, mu, onDisk, stamp, draft, ledger>>

Begin(r) ==
  /\ Goes(r, "begin", "strategy")
  /\ events' = [events EXCEPT ![r] = <<"started">>]
  /\ UNCHANGED <<slots, result, inMemory, mu, onDisk, stamp, draft, ledger>>

\* The new value is invalid, or the strategy returns an error: Rotate returns at once.
RotateErrs(r) ==
  /\ Goes(r, "strategy", "release")
  /\ result' = [result EXCEPT ![r] = "failed"]
  /\ UNCHANGED <<slots, events, inMemory, mu, onDisk, stamp, draft, ledger>>

\* The newest HistoryLimit results.
Newest(results) ==
  SubSeq(results, IF Len(results) > HistoryLimit THEN Len(results) - HistoryLimit + 1 ELSE 1, Len(results))

\* The strategy returns a result, which is kept in memory; the history entry gets its timestamp.
StrategyReturns(r, o) ==
  /\ Goes(r, "strategy", "history")
  /\ result' = [result EXCEPT ![r] = o]
  /\ memory' = [memory EXCEPT ![SecretOf[r]] = Newest(Append(memory[SecretOf[r]], o))]
  /\ stamp' = [stamp EXCEPT ![r] = clock]
  /\ UNCHANGED <<slots, events, memStatus, mu, onDisk, draft, ledger>>

-------------------------------------------------------------------------------
(* FileStorage.  SaveHistory and SaveStatus hold mu from the open that       *)
(* empties the file to the end of the write.                                 *)

\* Mutant: the open does not wait for the lock.
LocksAnyway(r) == mu' = r

Locks(r)   == mu = Nobody /\ mu' = r
Unlocks(r) == mu = r /\ mu' = Nobody

EmptiesHistory(a) ==
  /\ historyFile' = [historyFile EXCEPT ![ServiceBy(a)][stamp[a]] = Torn]
  /\ UNCHANGED <<statusFile, ledger>>

WritesHistory(a, entry) ==
  /\ historyFile' = [historyFile EXCEPT ![ServiceBy(a)][stamp[a]] = entry]
  /\ saved' = [saved EXCEPT ![ServiceBy(a)] = @ + 1]
  /\ UNCHANGED <<statusFile, performed, stale, lost, tears>>

EmptiesStatus(a) ==
  /\ statusFile' = [statusFile EXCEPT ![ServiceBy(a)] = Torn]
  /\ UNCHANGED <<historyFile, ledger>>

\* Those of service s, but for a, that have read the status and not yet written it.
Drafting(s, a) ==
  {r \in Requests : r # a /\ ServiceOf[r] = s /\ pc[r] \in {"status", "statusTorn"}}
  \cup {c \in Commands : /\ c # a /\ subject[c] = s
                         /\ command[c] \in {"plan", "execute", "history", "historyTorn",
                                            "status", "statusTorn"}}

\* Whoever has read the status before this write has a stale draft after it.
WritesStatus(a) ==
  /\ statusFile' = [statusFile EXCEPT ![ServiceBy(a)] = draft[a]]
  /\ stale' = (stale \ {a}) \cup Drafting(ServiceBy(a), a)
  /\ lost' = IF a \in stale THEN lost \cup {ServiceBy(a)} ELSE lost
  /\ UNCHANGED <<historyFile, saved, tears>>

SaveHistoryOpens(r) ==
  /\ Goes(r, "history", "historyTorn")
  /\ Locks(r)
  /\ EmptiesHistory(r)
  /\ UNCHANGED <<slots, outcome, inMemory, stamp, draft>>

SaveHistoryWrites(r) ==
  /\ Goes(r, "historyTorn", "read")
  /\ Unlocks(r)
  /\ WritesHistory(r, [action |-> "rotate", status |-> result[r],
                       versioned |-> result[r] = "completed" /\ r \in Versioned])
  /\ UNCHANGED <<slots, outcome, inMemory, stamp, draft>>

\* Neither a history nor a status that cannot be saved stops the rotation: no file was opened, or
\* the disk was full and the file is left torn.
SaveFails(r) ==
  /\ \/ /\ Goes(r, "history", "read") \/ Goes(r, "status", "update")
        /\ mu = Nobody /\ mu' = Nobody
        /\ tears' = tears
     \/ /\ Goes(r, "historyTorn", "read")
        /\ Unlocks(r)
        /\ tears' = tears
     \/ /\ Goes(r, "statusTorn", "update")
        /\ Unlocks(r)
        /\ tears' = tears \cup {ServiceOf[r]}
  /\ UNCHANGED <<slots, outcome, inMemory, onDisk, stamp, draft, saved, performed, stale, lost>>

\* Mutant: a rotation that changed nothing counts as a failure too.
CountedPending(existing, o) ==
  LET base == IF existing \in {Absent, Torn} THEN NoStatus ELSE existing
  IN  [count   |-> base.count + 1,
       success |-> base.success + (IF o = "completed" THEN 1 ELSE 0),
       failure |-> base.failure + (IF o # "completed" THEN 1 ELSE 0),
       last    |-> o,
       current |-> FALSE]

\* The status to save: the existing counts and this rotation's; on any error, the first rotation.
Counted(existing, o) ==
  LET base == IF existing \in {Absent, Torn} THEN NoStatus ELSE existing
  IN  [count   |-> base.count + 1,
       success |-> base.success + (IF o = "completed" THEN 1 ELSE 0),
       failure |-> base.failure + (IF o = "failed" THEN 1 ELSE 0),
       last    |-> o,
       current |-> FALSE]

\* GetStatus.  A file torn when it is read gives a stale draft.
Reads(r) ==
  /\ Goes(r, "read", "status")
  /\ draft' = [draft EXCEPT ![r] = Counted(statusFile[ServiceOf[r]], result[r])]
  /\ stale' = IF statusFile[ServiceOf[r]] = Torn THEN stale \cup {r} ELSE stale \ {r}
  /\ UNCHANGED <<slots, outcome, inMemory, mu, onDisk, stamp, saved, performed, lost, tears>>

\* Mutant: GetStatus takes no lock.
GetStatusUnlocked(r) == Reads(r)

GetStatus(r) == mu = Nobody /\ Reads(r)

SaveStatusOpens(r) ==
  /\ Goes(r, "status", "statusTorn")
  /\ Locks(r)
  /\ EmptiesStatus(r)
  /\ UNCHANGED <<slots, outcome, inMemory, stamp, draft>>

SaveStatusWrites(r) ==
  /\ Goes(r, "statusTorn", "update")
  /\ Unlocks(r)
  /\ WritesStatus(r)
  /\ performed' = [performed EXCEPT ![ServiceOf[r]][result[r]] = @ + 1]
  /\ UNCHANGED <<slots, outcome, inMemory, stamp, draft>>

\* UpdateRotationStatus in memory, then the notification: none for a result that is pending.
Conclude(r) ==
  /\ Goes(r, "update", "release")
  /\ memStatus' = [memStatus EXCEPT ![SecretOf[r]] = result[r]]
  /\ events' = IF result[r] = "pending" THEN events
               ELSE [events EXCEPT ![r] = Append(events[r], result[r])]
  /\ UNCHANGED <<slots, result, memory, mu, onDisk, stamp, draft, ledger>>

-------------------------------------------------------------------------------
(* executeRollback: it reads the status, then the history, asks the user,    *)
(* rolls back, and writes both.                                              *)

Proceeds(c, from, to) ==
  /\ command[c] = from
  /\ command' = [command EXCEPT ![c] = to]
  /\ UNCHANGED <<batching, pc, outcome, inMemory, mu, clock, deaths>>

ReadService(c, s) ==
  /\ Proceeds(c, "out", "plan")
  /\ statusFile[s] \notin {Absent, Torn}
  /\ subject' = [subject EXCEPT ![c] = s]
  /\ draft' = [draft EXCEPT ![c] = statusFile[s]]
  /\ stale' = stale \ {c}
  /\ UNCHANGED <<onDisk, stamp, target, saved, performed, lost, tears>>

\* GetHistory skips what it cannot parse; the newest file has the greatest name.
Readable(s) == {t \in Seconds : historyFile[s][t] \notin {Absent, Torn}}

\* The newest entry with an old version, whatever it is the entry of; or the version the user gave.
ChooseTarget(c) ==
  LET s == subject[c]
      versions == {t \in Readable(s) : historyFile[s][t].versioned}
  IN  /\ Proceeds(c, "plan", "execute")
      /\ Readable(s) # {}
      /\ \/ target' = [target EXCEPT ![c] = Given]
         \/ \E t \in versions : /\ \A u \in versions : u <= t
                                /\ target' = [target EXCEPT ![c] = historyFile[s][t]]
      /\ UNCHANGED <<onDisk, stamp, draft, subject, ledger>>

\* A history or a status the command cannot save is a warning.
CommandSaveFails(c) ==
  /\ \/ Proceeds(c, "history", "status") /\ tears' = tears
     \/ Proceeds(c, "historyTorn", "status") /\ tears' = tears
     \/ Proceeds(c, "status", "done") /\ tears' = tears
     \/ Proceeds(c, "statusTorn", "done") /\ tears' = tears \cup {subject[c]}
  /\ UNCHANGED <<onDisk, stamp, draft, subject, target, saved, performed, stale, lost>>

\* No history, no version, a dry run, the user's no, or a rollback that failed.
Abandon(c) ==
  /\ \/ Proceeds(c, "out", "done")
     \/ Proceeds(c, "plan", "done")
     \/ Proceeds(c, "execute", "done")
  /\ UNCHANGED <<onDisk, stamp, draft, subject, target, ledger>>

RolledBack(c) ==
  /\ Proceeds(c, "execute", "history")
  /\ stamp' = [stamp EXCEPT ![c] = clock]
  /\ UNCHANGED <<onDisk, draft, subject, target, ledger>>

\* FailedVersion is the entry's new version, or with --version the status's current version.
CommandSavesHistory(c) ==
  /\ \/ Proceeds(c, "history", "historyTorn") /\ EmptiesHistory(c)
     \/ /\ Proceeds(c, "historyTorn", "status")
        /\ WritesHistory(c, [action |-> "rollback", status |-> "success",
                             versioned |-> target[c].versioned \/ (target[c] = Given /\ draft[c].current)])
  /\ UNCHANGED <<stamp, draft, subject, target>>

Marked(status) ==
  [count |-> status.count, success |-> status.success, failure |-> status.failure,
   last |-> "rolled_back", current |-> TRUE]

\* The status as it was read, with the marks of a rollback.
CommandOpensStatus(c) ==
  /\ Proceeds(c, "status", "statusTorn")
  /\ draft' = [draft EXCEPT ![c] = Marked(draft[c])]
  /\ EmptiesStatus(c)
  /\ UNCHANGED <<stamp, subject, target>>

CommandWritesStatus(c) ==
  /\ Proceeds(c, "statusTorn", "done")
  /\ WritesStatus(c)
  /\ UNCHANGED <<stamp, draft, subject, target, performed>>

-------------------------------------------------------------------------------
(* Processes die, and time passes.                                           *)

EngineDies ==
  /\ running /\ deaths < MaxDeaths
  /\ deaths' = deaths + 1
  /\ running' = FALSE /\ slots' = 0 /\ mu' = Nobody
  /\ pc' = [r \in Requests |-> "out"]
  /\ result' = [r \in Requests |-> "none"] /\ events' = [r \in Requests |-> <<>>]
  /\ stamp' = [a \in Actors |-> IF a \in Requests THEN 0 ELSE stamp[a]]
  /\ draft' = [a \in Actors |-> IF a \in Requests THEN NoStatus ELSE draft[a]]
  /\ memory' = [k \in Secrets |-> <<>>] /\ memStatus' = [k \in Secrets |-> "none"]
  /\ stale' = stale \ Requests
  /\ tears' = tears \cup {ServiceOf[r] : r \in {q \in Requests : pc[q] = "statusTorn"}}
  /\ UNCHANGED <<batches, onDisk, clock, commands, saved, performed, lost>>

CommandDies(c) ==
  /\ deaths < MaxDeaths
  /\ command[c] \in {"history", "historyTorn", "status", "statusTorn"}
  /\ deaths' = deaths + 1
  /\ command' = [command EXCEPT ![c] = "done"]
  /\ stale' = stale \ {c}
  /\ tears' = IF command[c] = "statusTorn" THEN tears \cup {subject[c]} ELSE tears
  /\ UNCHANGED <<batching, pc, outcome, inMemory, mu, onDisk, clock, stamp, draft, subject, target,
                 saved, performed, lost>>

Tick ==
  /\ clock < MaxSecond
  /\ clock' = clock + 1
  /\ UNCHANGED <<batching, pc, outcome, inMemory, mu, onDisk, stamp, draft, commands, deaths, ledger>>

RequestSteps(r) ==
  \/ Acquire(r) \/ Refuse(r) \/ Begin(r) \/ RotateErrs(r)
  \/ \E o \in Outcomes : StrategyReturns(r, o)
  \/ SaveHistoryOpens(r) \/ SaveHistoryWrites(r) \/ SaveFails(r)
  \/ GetStatus(r) \/ SaveStatusOpens(r) \/ SaveStatusWrites(r)
  \/ Conclude(r) \/ Release(r)

CommandSteps(c) ==
  \/ \E s \in Services : ReadService(c, s)
  \/ ChooseTarget(c) \/ Abandon(c) \/ RolledBack(c)
  \/ CommandSavesHistory(c) \/ CommandOpensStatus(c) \/ CommandWritesStatus(c)
  \/ CommandSaveFails(c) \/ CommandDies(c)

Next ==
  \/ BatchRotate \/ BatchReturns \/ EngineDies \/ Tick
  \/ \E r \in Requests : RequestSteps(r)
  \/ \E c \in Commands : CommandSteps(c)

Spec == Init /\ [][Next]_vars

-------------------------------------------------------------------------------
(* Properties *)

\* Where a request stands once its strategy has returned a result.
Recording == {"history", "historyTorn", "read", "status", "statusTorn", "update"}

EngineType ==
  /\ running \in BOOLEAN /\ slots \in Int /\ batches \in Nat /\ deaths \in Nat
  /\ clock \in Seconds /\ mu \in Requests \cup {Nobody}
  /\ pc \in [Requests -> {"out", "queued", "begin", "strategy", "release", "done"} \cup Recording]
  /\ result \in [Requests -> Outcomes \cup {"none"}]
  /\ \A r \in Requests : pc[r] \in Recording => result[r] \in Outcomes
  /\ events \in [Requests -> Seq({"started"} \cup Outcomes)]

MemoryType ==
  /\ memory \in [Secrets -> Seq(Outcomes)] /\ \A k \in Secrets : Len(memory[k]) <= HistoryLimit
  /\ memStatus \in [Secrets -> Outcomes \cup {"none"}]

FileType ==
  /\ statusFile \in [Services -> Status \cup {Absent, Torn}]
  /\ historyFile \in [Services -> [Seconds -> Entry \cup {Absent, Torn}]]
  /\ stamp \in [Actors -> Seconds] /\ draft \in [Actors -> Status]

CommandType ==
  /\ command \in [Commands -> {"out", "plan", "execute", "history", "historyTorn", "status",
                               "statusTorn", "done"}]
  /\ subject \in [Commands -> Services] /\ target \in [Commands -> Entry \cup {Given}]

LedgerType ==
  /\ saved \in [Services -> Nat] /\ performed \in [Services -> [Outcomes -> Nat]]
  /\ stale \subseteq Actors /\ lost \subseteq Services /\ tears \subseteq Services

\* Every variable has its type; memory keeps at most HistoryLimit results of a secret.
TypeOK == EngineType /\ MemoryType /\ FileType /\ CommandType /\ LedgerType

\* No more than Concurrency rotations of a batch run at a time, and every token taken belongs to
\* one that does: no path out of Rotate keeps its token (engine.go:540-548).  Whether a strategy ever
\* comes to an end is its own affair: the engine sets no limit.
SemaphoreHolds ==
  /\ slots = Cardinality({r \in Requests : pc[r] \notin {"out", "queued", "done"}})
  /\ slots \in 0..Concurrency

\* One request at most is between the emptying of a file and its writing, and it holds the lock:
\* the goroutines of a batch never interleave their writes (file_storage.go:50, 97).
OneWriter == \A r \in Requests : mu = r <=> pc[r] \in {"historyTorn", "statusTorn"}

\* The types, and the lock that keeps the writers apart (file_storage.go:50, 97).
WellFormed == TypeOK /\ OneWriter

Within(status, tally) ==
  /\ status.success + status.failure <= status.count
  /\ status.count <= Total(tally)
  /\ status.success <= tally["completed"]
  /\ status.failure <= tally["failed"]

\* A status never claims more than happened: whatever the interleaving, the lost updates, the
\* torn files and the rollbacks that write back what they read, the counts of a file are no
\* larger than the rotations recorded, and successes and failures are within the count.
CountsAreBounded ==
  \A s \in Services : statusFile[s] \in {Absent, Torn} \/ Within(statusFile[s], performed[s])

Exactly(status, tally) ==
  /\ status.count = Total(tally)
  /\ status.success = tally["completed"]
  /\ status.failure = tally["failed"]

\* The counts of a service are exact as long as nobody wrote a status from a read that another
\* write, or a torn file, had made stale: the only ways to lose a count (engine.go:456-487).
ExactUnlessLost ==
  \A s \in Services \ lost :
    \/ statusFile[s] = Torn
    \/ statusFile[s] = Absent /\ performed[s] = NoTally
    \/ statusFile[s] \notin {Absent, Torn} /\ Exactly(statusFile[s], performed[s])

\* The counts of a service are never too large, and too small only where an update was lost
\* (engine.go:440-487).
CountsAreTrue == CountsAreBounded /\ ExactUnlessLost

\* The engine reads a torn status, and starts the counts of its service again from one, only when
\* a death or a full disk left it torn, or a rollback command is writing it at that moment: the
\* goroutines of its own batch never show it a file half written (engine.go:456, 469).
RestartsOnlyAfterTear ==
  [][\A r \in Requests :
       pc[r] = "read" /\ pc'[r] = "status" /\ statusFile[ServiceOf[r]] = Torn
       => \/ ServiceOf[r] \in tears
          \/ \E c \in Commands : subject[c] = ServiceOf[r] /\ command[c] = "statusTorn"]_vars

\* The version restored is the one before a successful rotation ("Find the last successful
\* rotation's previous version", rotation_rollback.go:139).
TargetWasSuccess ==
  \A c \in Commands :
    target[c] # Given => target[c].action = "rotate" /\ target[c].status = "completed"
===============================================================================
