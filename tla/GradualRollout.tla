----------------------------- MODULE GradualRollout -----------------------------
(***************************************************************************)
(* internal/rotation/gradual: an instance list is discovered, a strategy     *)
(* (canary, percentage or group) plans the waves of a rollout, and the plan  *)
(* is executed wave by wave under a context that may be cancelled at any     *)
(* moment.                                                                 *)
(*                                                                         *)
(* Planning is modelled one iteration of the code's loop at a time; a wave   *)
(* is the set of the positions its instances have in the discovered list.    *)
(* A name (of a service or an instance) is the sequence of its parts between *)
(* dashes.  rotateWave and verifyCrossService are placeholders in the code:  *)
(* they do nothing and cannot fail, so waiting and health monitoring fail    *)
(* through the context alone.                                              *)
(***************************************************************************)
EXTENDS Naturals, Sequences, FiniteSets

CONSTANTS
  Setups,    \* the rollouts asked for: discovery configuration, strategy and its settings
  NoName     \* the empty instance ID

\* A list and the waves that are asked for are sequences, a percentage is a share, and a
\* group has finitely many services and dependencies.
ASSUME SetupsAssumption ==
  \A s \in Setups :
    /\ s.strategy \in {"canary", "percentage", "group"}
    /\ s.discovery \in {"explicit", "endpoint", "kubernetes", "cloud"}
    /\ Len(s.cfg.instances) \in Nat /\ DOMAIN s.cfg.instances = 1 .. Len(s.cfg.instances)
    /\ s.waves \in Seq([percentage : Nat, health : BOOLEAN, wait : BOOLEAN])
    /\ IsFiniteSet(s.services) /\ IsFiniteSet(DOMAIN s.deps)
    /\ \A d \in DOMAIN s.deps : IsFiniteSet(s.deps[d])

VARIABLES
  setup,      \* the rollout asked for
  validated,  \* what the discovery provider's Validate answered
  instances,  \* the instances discovered
  canary,     \* position of the canary (0: the strategy has none)
  waves,      \* the plan
  taken,      \* rotatedCount: instances of the pool already in a wave
  level,      \* where the loop is in the body, the percentages or the sorted services
  inDegree,   \* group: dependencies not yet ordered, of the services still to order
  sorted,     \* group: the services ordered so far, a set per wave
  cancelled,  \* ctx is cancelled
  at,         \* the wave Execute is at
  rotated,    \* history: positions handed to rotateWave
  late,       \* history: waves rotated after the cancellation
  rollback,   \* a rollback was requested
  pc

planning  == <<waves, taken, level, inDegree, sorted>>
discovery == <<validated, instances, canary>>
execution == <<at, rotated, late, rollback>>
vars == <<setup, discovery, planning, cancelled, execution, pc>>

Planned == {"start", "rotate", "monitor", "verify", "wait", "completed", "stopped"}

Init ==
  /\ setup \in Setups
  /\ validated = "unasked" /\ instances = <<>> /\ canary = 0
  /\ waves = <<>> /\ taken = 0 /\ level = 1
  /\ inDegree = <<>> /\ sorted = <<>>
  /\ cancelled = FALSE /\ at = 1 /\ rotated = {} /\ late = 0 /\ rollback = "none"
  /\ pc = "validate"

-------------------------------------------------------------------------------
(* Discovery.                                                               *)

TypeIs(cfg, kind) == cfg.type \in {kind, ""}

ExplicitValidate(cfg) ==
  /\ TypeIs(cfg, "explicit")
  /\ cfg.instances # <<>>
  /\ \A i \in DOMAIN cfg.instances : cfg.instances[i].id # NoName
  /\ \A i, j \in DOMAIN cfg.instances :
       cfg.instances[i].id = cfg.instances[j].id => i = j

\* The flag Canary of an instance's configuration is not carried over; its labels are.
ExplicitDiscover(cfg) ==
  IF \E i \in DOMAIN cfg.instances : cfg.instances[i].id = NoName
  THEN <<>>
  ELSE [i \in DOMAIN cfg.instances |->
          [id |-> cfg.instances[i].id, label |-> cfg.instances[i].label]]

\* The first four bytes of the URL are sliced before its length is known.
EndpointValidate(cfg) ==
  CASE ~ TypeIs(cfg, "endpoint") \/ cfg.endpoint = "" -> "refused"
    [] cfg.endpoint = "shorter than four bytes"       -> "panic"
    [] cfg.endpoint = "http..."                       -> "accepted"
    [] OTHER                                          -> "refused"

\* The answer is a status that is not 200, a body that does not parse, or a body to read.
EndpointDiscover(cfg) == cfg.endpoint # "" /\ cfg.answers

SelectorsComplete(cfg) ==
  /\ cfg.selectors # {}
  /\ \A s \in cfg.selectors : s.key # "" /\ s.value # ""

KubernetesValidate(cfg) == TypeIs(cfg, "kubernetes") /\ SelectorsComplete(cfg)

CloudValidate(cfg) ==
  /\ TypeIs(cfg, "cloud")
  /\ cfg.cloud \in {"aws", "gcp", "azure"}
  /\ SelectorsComplete(cfg)
  /\ cfg.cloud \in {"aws", "azure"} => cfg.region # ""

\* Placeholders: every path returns an error.
KubernetesDiscover(cfg) == <<>>
CloudDiscover(cfg) == <<>>

Verdict(accepted) == IF accepted THEN "accepted" ELSE "refused"

Validate ==
  /\ pc = "validate"
  /\ validated' = CASE setup.discovery = "explicit"   -> Verdict(ExplicitValidate(setup.cfg))
                    [] setup.discovery = "endpoint"   -> EndpointValidate(setup.cfg)
                    [] setup.discovery = "kubernetes" -> Verdict(KubernetesValidate(setup.cfg))
                    [] setup.discovery = "cloud"      -> Verdict(CloudValidate(setup.cfg))
  /\ pc' = IF validated' = "panic" THEN "stopped" ELSE "discover"
  /\ UNCHANGED <<setup, instances, canary, planning, cancelled, execution>>

\* Nothing requires that the configuration was validated, or found valid.
Discover ==
  /\ pc = "discover"
  /\ instances' = CASE setup.discovery = "explicit"   -> ExplicitDiscover(setup.cfg)
                    [] setup.discovery = "endpoint"   -> <<>>
                    [] setup.discovery = "kubernetes" -> KubernetesDiscover(setup.cfg)
                    [] setup.discovery = "cloud"      -> CloudDiscover(setup.cfg)
  /\ pc' = IF setup.discovery = "endpoint" /\ EndpointDiscover(setup.cfg) THEN "read" ELSE "plan"
  /\ UNCHANGED <<setup, validated, canary, planning, cancelled, execution>>

\* One instance of the body, left out if it has no ID.
ReadInstance ==
  /\ pc = "read" /\ level <= Len(setup.cfg.instances)
  /\ LET inst == setup.cfg.instances[level]
     IN  instances' = IF inst.id = NoName THEN instances
                      ELSE Append(instances, [id |-> inst.id, label |-> inst.label])
  /\ level' = level + 1
  /\ UNCHANGED <<setup, validated, canary, waves, taken, inDegree, sorted, cancelled, execution, pc>>

ReadAll ==
  /\ pc = "read" /\ level > Len(setup.cfg.instances)
  /\ level' = 1 /\ pc' = "plan"
  /\ UNCHANGED <<setup, discovery, waves, taken, inDegree, sorted, cancelled, execution>>

-------------------------------------------------------------------------------
(* Planning the waves of the canary and percentage strategies.              *)

\* The wave holds these positions, is monitored, and is followed by a wait.
Wave(positions, health, wait) == [insts |-> positions, health |-> health, wait |-> wait]

PoolSize == IF canary = 0 THEN Len(instances) ELSE Len(instances) - 1

\* The k-th instance that is not the canary.
InPool(k) == IF canary = 0 \/ k < canary THEN k ELSE k + 1

NextOf(count) == {InPool(k) : k \in (taken + 1) .. (taken + count)}

\* At least one instance, even where the percentage rounds down to none.
Target(percentage) ==
  LET exact == (PoolSize * percentage) \div 100 IN IF exact = 0 THEN 1 ELSE exact

Smaller(m, n) == IF m < n THEN m ELSE n

\* Each canary wave takes its percentage of the pool.
CanaryCount(percentage) == Smaller(Target(percentage), PoolSize - taken)

\* Each percentage wave tops up what the earlier waves took; nothing to add skips it.
PercentageCount(percentage) ==
  LET goal == Smaller(Target(percentage), PoolSize)
  IN  IF goal > taken THEN goal - taken ELSE 0

defaultCanaryWaves ==
  [i \in 1..3 |-> [percentage |-> <<10, 50, 100>>[i], health |-> TRUE, wait |-> FALSE]]

defaultPercentageWaves ==
  [i \in 1..4 |-> [percentage |-> <<5, 25, 50, 100>>[i], health |-> TRUE, wait |-> i < 4]]

Levels ==
  CASE setup.strategy = "canary" -> defaultCanaryWaves
    [] setup.strategy = "percentage" /\ setup.waves = <<>> -> defaultPercentageWaves
    [] OTHER -> setup.waves

Labelled == {i \in DOMAIN instances : instances[i].label}

findCanaryInstance ==
  IF Labelled = {} THEN 1 ELSE CHOOSE i \in Labelled : \A j \in Labelled : i <= j

PlanRefused ==
  /\ pc = "plan"
  /\ \/ instances = <<>>
     \/ setup.strategy = "group" /\ setup.services = {}
  /\ pc' = "stopped"
  /\ UNCHANGED <<setup, discovery, planning, cancelled, execution>>

PlanCanary ==
  /\ pc = "plan" /\ setup.strategy = "canary" /\ instances # <<>>
  /\ canary' = findCanaryInstance
  /\ waves' = << Wave({canary'}, TRUE, FALSE) >>
  /\ pc' = IF Len(instances) = 1 THEN "start" ELSE "fill"
  /\ UNCHANGED <<setup, validated, instances, taken, level, inDegree, sorted,
                 cancelled, execution>>

PlanPercentage ==
  /\ pc = "plan" /\ setup.strategy = "percentage" /\ instances # <<>>
  /\ pc' = "fill"
  /\ UNCHANGED <<setup, discovery, planning, cancelled, execution>>

\* Mutant: the canary strategy reads its percentages as cumulative ones.
FillNoTopUp(count, l) ==
  /\ waves' = Append(waves, Wave(NextOf(count), l.health, l.wait))
  /\ taken' = count

\* One iteration of the loop over the configured percentages.
Fill(count, l) ==
  /\ waves' = IF count = 0 THEN waves
              ELSE Append(waves, Wave(NextOf(count), l.health, l.wait))
  /\ taken' = taken + count

FillLevel ==
  /\ pc = "fill" /\ taken < PoolSize /\ level <= Len(Levels)
  /\ LET l == Levels[level]
     IN  \/ setup.strategy = "canary"     /\ Fill(CanaryCount(l.percentage), l)
         \/ setup.strategy = "percentage" /\ Fill(PercentageCount(l.percentage), l)
  /\ level' = level + 1
  /\ UNCHANGED <<setup, discovery, inDegree, sorted, cancelled, execution, pc>>

\* The loop is over: a last wave takes what is left, if anything is.
FillRest ==
  /\ pc = "fill"
  /\ taken = PoolSize \/ level > Len(Levels)
  /\ Fill(PoolSize - taken, [health |-> TRUE, wait |-> FALSE])
  /\ pc' = "start"
  /\ UNCHANGED <<setup, discovery, level, inDegree, sorted, cancelled, execution>>

-------------------------------------------------------------------------------
(* Planning the waves of the group strategy: Kahn's algorithm over the       *)
(* configured dependencies, which may name services that are not listed.     *)

Dependencies(s) == IF s \in DOMAIN setup.deps THEN setup.deps[s] ELSE {}

SortStart ==
  /\ pc = "plan" /\ setup.strategy = "group"
  /\ instances # <<>> /\ setup.services # {}
  /\ inDegree' = [s \in setup.services \cup DOMAIN setup.deps |-> Cardinality(Dependencies(s))]
  /\ pc' = "sort"
  /\ UNCHANGED <<setup, discovery, waves, taken, level, sorted, cancelled, execution>>

Ready == {s \in DOMAIN inDegree : inDegree[s] = 0}

\* Mutant: the degrees are lowered while the level is collected, so that a service can
\* join the level of those it depends on.
SortWaveInPlace ==
  /\ pc = "sort" /\ Ready # {}
  /\ LET joined == Ready \cup {s \in DOMAIN inDegree :
                                inDegree[s] = Cardinality(Dependencies(s) \cap Ready)}
     IN  /\ sorted' = Append(sorted, joined)
         /\ inDegree' = [s \in DOMAIN inDegree \ joined |->
                           inDegree[s] - Cardinality(Dependencies(s) \cap joined)]
  /\ UNCHANGED <<setup, discovery, waves, taken, level, cancelled, execution, pc>>

SortWave ==
  /\ pc = "sort" /\ Ready # {}
  /\ sorted' = Append(sorted, Ready)
  /\ inDegree' = [s \in DOMAIN inDegree \ Ready |->
                    inDegree[s] - Cardinality(Dependencies(s) \cap Ready)]
  /\ UNCHANGED <<setup, discovery, waves, taken, level, cancelled, execution, pc>>

SortedServices == UNION {sorted[i] : i \in DOMAIN sorted}

\* extractServiceName: what precedes the last dash, the whole name without one.
ServiceOf(id) == IF Len(id) = 1 THEN id ELSE SubSeq(id, 1, Len(id) - 1)

InstancesOf(services) == {i \in DOMAIN instances : ServiceOf(instances[i].id) \in services}

\* Services are counted, not compared: an unlisted service that got ordered makes up
\* for a listed one that did not.
SortEnd ==
  /\ pc = "sort" /\ Ready = {}
  /\ pc' = IF Cardinality(SortedServices) = Cardinality(setup.services) THEN "group" ELSE "stopped"
  /\ UNCHANGED <<setup, discovery, planning, cancelled, execution>>

\* The instances of the services of one level are a wave, unless there are none.
GroupWave ==
  /\ pc = "group" /\ level <= Len(sorted)
  /\ waves' = IF InstancesOf(sorted[level]) = {} THEN waves
              ELSE Append(waves, Wave(InstancesOf(sorted[level]), TRUE, TRUE))
  /\ level' = level + 1
  /\ UNCHANGED <<setup, discovery, taken, inDegree, sorted, cancelled, execution, pc>>

GroupPlanned ==
  /\ pc = "group" /\ level > Len(sorted)
  /\ pc' = "start"
  /\ UNCHANGED <<setup, discovery, planning, cancelled, execution>>

-------------------------------------------------------------------------------
(* Execute.                                                                 *)

Stays == UNCHANGED <<setup, discovery, planning, cancelled>>

\* The caller cancels the context.
Cancel ==
  /\ ~ cancelled
  /\ pc \in Planned \ {"completed", "stopped"}
  /\ cancelled' = TRUE
  /\ UNCHANGED <<setup, discovery, planning, execution, pc>>

ExecuteStart ==
  /\ pc = "start"
  /\ pc' = IF \/ cancelled
              \/ waves = <<>>
              \/ setup.strategy = "canary" /\ Cardinality(waves[1].insts) # 1
           THEN "stopped" ELSE "rotate"
  /\ UNCHANGED execution /\ Stays

RotateWave ==
  /\ pc = "rotate"
  /\ rotated' = rotated \cup waves[at].insts
  /\ late' = IF cancelled THEN late + 1 ELSE late
  /\ pc' = "monitor"
  /\ UNCHANGED <<at, rollback>> /\ Stays

\* Mutant: the context is not asked after the monitoring period.
HealthyUnasked(w) == TRUE

\* monitorHealth returns at the end of the monitoring period, or of the context; the
\* context is asked which it was.
Healthy(w) == setup.monitored /\ w.health => ~ cancelled

MonitorPassed ==
  /\ pc = "monitor" /\ Healthy(waves[at])
  /\ pc' = IF setup.strategy = "group" THEN "verify" ELSE "wait"
  /\ UNCHANGED execution /\ Stays

\* Only the canary's own wave asks for a rollback; TriggerRollback gets the same ctx.
CanaryMonitorFailed ==
  /\ pc = "monitor" /\ setup.strategy = "canary" /\ ~ Healthy(waves[at])
  /\ rollback' = IF at = 1 /\ setup.rollback THEN "requested" ELSE rollback
  /\ pc' = "stopped"
  /\ UNCHANGED <<at, rotated, late>> /\ Stays

PercentageMonitorFailed ==
  /\ pc = "monitor" /\ setup.strategy = "percentage" /\ ~ Healthy(waves[at])
  /\ pc' = "stopped"
  /\ UNCHANGED execution /\ Stays

\* rollbackGroup refuses without a rollback manager, and is a placeholder with one.
GroupMonitorFailed ==
  /\ pc = "monitor" /\ setup.strategy = "group" /\ ~ Healthy(waves[at])
  /\ rollback' = IF setup.policy = "rollback_all" /\ setup.rollback THEN "requested" ELSE rollback
  /\ pc' = "stopped"
  /\ UNCHANGED <<at, rotated, late>> /\ Stays

GroupVerify ==
  /\ pc = "verify"
  /\ pc' = "wait"
  /\ UNCHANGED execution /\ Stays

NextWave ==
  /\ IF at = Len(waves) THEN pc' = "completed" /\ UNCHANGED at
     ELSE pc' = "rotate" /\ at' = at + 1
  /\ UNCHANGED <<rotated, late, rollback>> /\ Stays

Waits == waves[at].wait /\ at < Len(waves)

\* The select takes the timer, ready or not yet cancelled; both may be ready.
WaitOver  == pc = "wait" /\ NextWave

WaitCancelled ==
  /\ pc = "wait" /\ Waits /\ cancelled
  /\ pc' = "stopped"
  /\ UNCHANGED execution /\ Stays

Terminated ==
  /\ pc \in {"completed", "stopped"}
  /\ UNCHANGED vars

Next ==
  \/ Validate \/ Discover \/ ReadInstance \/ ReadAll
  \/ PlanRefused \/ PlanCanary \/ PlanPercentage \/ FillLevel \/ FillRest
  \/ SortStart \/ SortWave \/ SortEnd \/ GroupWave \/ GroupPlanned
  \/ Cancel \/ ExecuteStart \/ RotateWave
  \/ MonitorPassed \/ CanaryMonitorFailed \/ PercentageMonitorFailed \/ GroupMonitorFailed
  \/ GroupVerify \/ WaitOver \/ WaitCancelled
  \/ Terminated

Spec == Init /\ [][Next]_vars

-------------------------------------------------------------------------------
(* Properties.                                                              *)

HasPlan == pc \in {"start", "rotate", "monitor", "verify", "wait", "completed"}

InWaves == UNION {waves[i].insts : i \in DOMAIN waves}

Services == setup.services \cup DOMAIN setup.deps
Waves == [insts : SUBSET (DOMAIN instances), health : BOOLEAN, wait : BOOLEAN]

TypeOK ==
  /\ validated \in {"unasked", "accepted", "refused", "panic"}
  /\ Len(instances) \in Nat /\ DOMAIN instances = 1 .. Len(instances)
  /\ canary \in 0 .. Len(instances)
  /\ waves \in Seq(Waves)
  /\ taken \in 0 .. PoolSize
  /\ level \in Nat \ {0} /\ at \in Nat \ {0} /\ late \in Nat
  /\ sorted \in Seq(SUBSET Services)
  /\ inDegree \in [Services \ SortedServices -> Nat] \/ inDegree = <<>>
  /\ cancelled \in BOOLEAN
  /\ rotated \subseteq DOMAIN instances
  /\ rollback \in {"none", "requested"}
  /\ pc \in Planned \cup {"validate", "discover", "read", "plan", "fill", "sort", "group"}

\* The waves built so far are not empty, have no instance in common, and are exactly
\* the canary and the first `taken` instances of the pool.
WavesSoFar ==
  setup.strategy # "group" =>
    /\ \A i \in DOMAIN waves : waves[i].insts # {}
    /\ \A i, j \in DOMAIN waves : i # j => waves[i].insts \cap waves[j].insts = {}
    /\ InWaves = {InPool(k) : k \in 1 .. taken} \cup (IF canary = 0 THEN {} ELSE {canary})

\* However the percentages round, a canary or percentage plan rotates every discovered
\* instance in exactly one wave (canary.go:214-279, percentage.go:221-288).
PlanIsPartition ==
  HasPlan /\ setup.strategy # "group" =>
    /\ InWaves = DOMAIN instances
    /\ \A i \in DOMAIN waves : waves[i].insts # {}
    /\ \A i, j \in DOMAIN waves : i # j => waves[i].insts \cap waves[j].insts = {}

\* No instance is rotated before the instances of every service its own service depends
\* on, in one wave or over several, cancellations included (group.go:232-288).
DependenciesFirst ==
  setup.strategy = "group" =>
    \A p \in rotated : \A d \in Dependencies(ServiceOf(instances[p].id)) :
      InstancesOf({d}) \subseteq rotated

\* A group whose dependencies name listed services alone is planned whole or refused:
\* what the counting at the end of topologicalSort (group.go:282-285) is there for.
GroupIsWhole ==
  /\ setup.strategy = "group" /\ HasPlan
  /\ \A s \in DOMAIN setup.deps : s \in setup.services /\ setup.deps[s] \subseteq setup.services
  => InWaves = InstancesOf(setup.services)

\* The types, and plans of every strategy that leave nothing out (group.go:146-213 too).
PlanIsSound == TypeOK /\ WavesSoFar /\ PlanIsPartition /\ GroupIsWhole

\* Where every wave is monitored, a cancelled rollout rotates at most the wave it had
\* already decided on (monitorHealth asks the context, canary.go:290-316).
CancelStopsRollout ==
  setup.monitored /\ (\A i \in DOMAIN waves : waves[i].health) => late <= 1

\* What is executed comes in the order of the dependencies, and ends with the context.
ExecutionIsSound == DependenciesFirst /\ CancelStopsRollout

-------------------------------------------------------------------------------
(* The rollout as StagedRollout sees it.                                    *)

Phase ==
  IF pc \in {"start", "rotate", "monitor", "verify", "wait"} THEN "rolling"
  ELSE IF pc \in {"completed", "stopped"} THEN pc ELSE "planning"

\* The instances of the waves, once the plan is made; one that is given up has no wave.
InPlan == IF pc \in Planned THEN InWaves ELSE {}

\* The others wait for the canary, and in a group for all instances of the services that
\* one's own service depends on.
AwaitedBy(i) ==
  CASE setup.strategy = "canary"     -> {canary} \ {i}
    [] setup.strategy = "group"      -> InstancesOf(Dependencies(ServiceOf(instances[i].id)))
    [] setup.strategy = "percentage" -> {}

Awaits == [i \in InPlan |-> AwaitedBy(i)]

Staged == INSTANCE StagedRollout
            WITH Positions <- Nat, phase <- Phase, fleet <- InPlan,
                 awaits <- Awaits, done <- rotated

\* A rollout of any strategy rotates each instance once, after the canary and in a later
\* wave than everything its service depends on, and completes with the whole plan rotated:
\* what the doc comments of canary.go:20-21 and group.go:13-14, and Execute, promise.
RefinesRollout == Staged!RolloutSpec
===============================================================================
