----------------------------- MODULE RotationProofs -----------------------------
(***************************************************************************)
(* Proofs about how a secret is rotated, RotationStrategies, for every set    *)
(* of requests, every interval, window and overlap, and any number of calls; *)
(* and about how a rotation is rolled out, GradualRollout, for any set of     *)
(* rollouts asked for.                                                       *)
(***************************************************************************)
EXTENDS RotationStrategies, GradualRollout, FiniteSetTheorems, SequenceTheorems, WellFoundedInduction, TLAPS

-------------------------------------------------------------------------------
(***************************************************************************)
(* RotationStrategies: no step takes away what is in use.                    *)
(***************************************************************************)

\* The credential a two-secret rotation created is accepted, and is not in use before its
\* promotion, for which it passed a verification.
SecondaryStands ==
  /\ stage \in {"verify", "cleanUp", "promote"} => ref \in keys /\ ref # primary
  /\ stage = "promote" => ref \in verified

\* A rotation gets past the dry run only if it is none, and to the rotator's own Rotate
\* only if the rotator cannot handle two secrets.
OnItsWay ==
  /\ stage = "rotate" => ~ TwoSecretCapable
  /\ stage \in {"rotate", "create", "verify", "cleanUp", "promote"}
       => ~ (call.dryRun /\ call.wrapper # "none")

\* Once its window is open an overlap rotation needs no other look at the clock.
WindowOpen ==
  stage \in {"dryRun", "rotate"} /\ call.wrapper = "overlap" /\ ~ call.force /\ known # 0
    => now >= NextRotation(known)

StrategyInv == StrategyTypeOK /\ SecondaryStands /\ OnItsWay /\ WindowOpen

-------------------------------------------------------------------------------
\* The caller asks, verifies and rolls back.
LEMMA CallerSteps ==
  ASSUME StrategyInv, NEW c \in Requests,
         Ask(c) \/ Verify(c) \/ \E old \in 1 .. made : Rollback(c, old)
  PROVE  StrategyInv'
<1> USE DEF StrategyInv, service
<1>1. CASE Ask(c)
  <2>1. /\ UNCHANGED <<keys, primary, made, last, verified, now>>
        /\ ref' = 0 /\ known' = 0 /\ status' = "none" /\ stage' \in {"status", "dryRun"}
    BY <1>1 DEF Ask
  <2>2. StrategyTypeOK'
    BY <2>1 DEF StrategyTypeOK
  <2>3. QED
    BY <2>1, <2>2 DEF SecondaryStands, OnItsWay, WindowOpen
<1>2. CASE Verify(c)
  <2>1. /\ UNCHANGED <<keys, primary, made, last, now, ref, known, stage>> /\ stage = "idle"
        /\ status' \in {"verified", "failed"}
        /\ verified' = verified \/ verified' = verified \cup {primary}
    BY <1>2 DEF Verify
  <2>2. StrategyTypeOK'
    BY <2>1 DEF StrategyTypeOK
  <2>3. QED
    BY <2>1, <2>2 DEF SecondaryStands, OnItsWay, WindowOpen
<1>3. ASSUME NEW old \in 1 .. made, Rollback(c, old)
      PROVE  StrategyInv'
  <2>1. /\ UNCHANGED <<made, last, now, ref, known, stage>> /\ stage = "idle"
        /\ status' \in {"completed", "failed"}
        /\ \/ UNCHANGED <<keys, primary, verified>>
           \/ primary' = old /\ old \in keys /\ keys' = keys /\ verified' = verified \cup {old}
           \/ primary' = old /\ keys' = (keys \ {primary}) \cup {old} /\ verified' = verified
    BY <1>3 DEF Rollback
  <2>2. StrategyTypeOK'
    BY <2>1 DEF StrategyTypeOK
  <2>3. QED
    BY <2>1, <2>2 DEF SecondaryStands, OnItsWay, WindowOpen
<1>4. QED
  BY <1>1, <1>2, <1>3

\* The status checks and the dry run change nothing of the service.
LEMMA StatusSteps ==
  ASSUME StrategyInv, TwoSecretStatus \/ OverlapStatus \/ DryRun
  PROVE  StrategyInv'
<1> USE DEF StrategyInv, service, Return, Goto
<1>0. /\ UNCHANGED <<keys, primary, made, last, verified, now, ref, call>>
      /\ last \in Nat /\ now \in Nat
  BY DEF TwoSecretStatus, OverlapStatus, DryRun, StrategyTypeOK
<1>1. ASSUME NEW reported, reported \in Reports
      PROVE  reported \in 0 .. last
  BY <1>0, <1>1 DEF Reports, ScriptReports, WebhookReports
<1>2. CASE TwoSecretStatus
  <2>1. PICK reported \in Reports :
          /\ known' = reported /\ call.wrapper = "two-secret"
          /\ stage' \in {"idle", "dryRun"} /\ status' \in {status, "failed", "panic", "pending"}
    BY <1>2 DEF TwoSecretStatus
  <2>2. StrategyTypeOK'
    BY <1>0, <1>1, <2>1 DEF StrategyTypeOK
  <2>3. QED
    BY <1>0, <2>1, <2>2 DEF SecondaryStands, OnItsWay, WindowOpen
<1>3. CASE OverlapStatus
  <2>1. PICK reported \in Reports :
          /\ known' = reported
          /\ \/ stage' = "idle" /\ status' = "pending"
             \/ /\ stage' = "dryRun" /\ status' = status
                /\ call.force \/ reported = 0 \/ now >= NextRotation(reported)
    BY <1>3 DEF OverlapStatus
  <2>2. StrategyTypeOK'
    BY <1>0, <1>1, <2>1 DEF StrategyTypeOK
  <2>3. WindowOpen'
    BY <1>0, <2>1 DEF WindowOpen, NextRotation
  <2>4. QED
    BY <1>0, <2>1, <2>2, <2>3 DEF SecondaryStands, OnItsWay
<1>4. CASE DryRun
  <2>1. /\ known' = known /\ stage = "dryRun"
        /\ \/ stage' = "idle" /\ status' = "pending"
           \/ /\ ~ (call.dryRun /\ call.wrapper # "none") /\ status' = status
              /\ stage' = IF TwoSecretCapable THEN "create" ELSE "rotate"
    BY <1>4 DEF DryRun
  <2>2. StrategyTypeOK'
    BY <1>0, <2>1 DEF StrategyTypeOK
  <2>3. WindowOpen'
    BY <1>0, <2>1 DEF WindowOpen, NextRotation
  <2>4. QED
    BY <1>0, <2>1, <2>2, <2>3 DEF SecondaryStands, OnItsWay, TwoSecretCapable
<1>5. QED
  BY <1>2, <1>3, <1>4

\* A rotator of its own replaces the credential in use, or leaves everything as it is.
LEMMA RotatorSteps ==
  ASSUME StrategyInv, RandomRotate \/ ScriptRotate \/ WebhookRotate \/ DirectRotate
  PROVE  /\ stage = "rotate" /\ call' = call /\ stage' = "idle"
         /\ UNCHANGED service \/ (~ call.dryRun /\ Replace)
         /\ StrategyInv'
<1> USE DEF StrategyInv, service, Return
<1>1. /\ stage = "rotate" /\ UNCHANGED <<verified, now, ref, known, call>>
      /\ stage' = "idle" /\ status' \in {"pending", "completed", "failed"}
      /\ UNCHANGED service \/ (~ call.dryRun /\ Replace)
  BY DEF RandomRotate, ScriptRotate, WebhookRotate, DirectRotate, executeScript, callWebhook, Outside
<1>2. StrategyTypeOK'
  <2>1. CASE UNCHANGED service
    BY <1>1, <2>1 DEF StrategyTypeOK
  <2>2. CASE Replace
    BY <1>1, <2>2 DEF StrategyTypeOK, Replace
  <2>3. QED
    BY <1>1, <2>1, <2>2
<1>3. QED
  BY <1>1, <1>2 DEF SecondaryStands, OnItsWay, WindowOpen

\* A rotation with two secrets.
LEMMA TwoSecretSteps ==
  ASSUME StrategyInv, CreateSecondary \/ VerifySecondary \/ CleanUp \/ PromoteSecondary
  PROVE  StrategyInv'
<1> USE DEF StrategyInv, service, Return, Goto
<1>1. CASE CreateSecondary
  <2>1. /\ stage = "create" /\ UNCHANGED <<primary, last, verified, now, known, call>>
        /\ status' \in {status, "failed", "panic"}
        /\ \/ UNCHANGED <<keys, made, ref>> /\ stage' = "idle"
           \/ made' = made + 1 /\ keys' = keys \cup {made + 1} /\ ref' = ref /\ stage' = "idle"
           \/ /\ made' = made + 1 /\ keys' = keys \cup {made + 1} /\ ref' = made + 1
              /\ stage' \in {"idle", "verify"}
    BY <1>1 DEF CreateSecondary
  <2>2. StrategyTypeOK'
    <3>1. CASE UNCHANGED <<keys, made, ref>>
      BY <2>1, <3>1 DEF StrategyTypeOK
    <3>2. CASE made' = made + 1 /\ keys' = keys \cup {made + 1} /\ ref' \in {ref, made + 1}
      <4>1. made \in Nat /\ made + 1 \in 1 .. made' /\ 1 .. made \subseteq 1 .. made'
            /\ 0 .. made \subseteq 0 .. made' /\ made + 1 \in 0 .. made'
        BY <3>2 DEF StrategyTypeOK
      <4>2. keys' \subseteq 1 .. made' /\ primary' \in keys' /\ verified' \subseteq 1 .. made' /\ ref' \in 0 .. made'
        BY <2>1, <3>2, <4>1 DEF StrategyTypeOK
      <4>3. stage' \in {"idle", "verify"}
        BY <2>1
      <4>4. QED
        BY <2>1, <3>2, <4>2, <4>3 DEF StrategyTypeOK
    <3>3. QED
      BY <2>1, <3>1, <3>2
  <2>3. made + 1 # primary
    BY DEF StrategyTypeOK
  <2>4. QED
    BY <2>1, <2>2, <2>3 DEF SecondaryStands, OnItsWay, WindowOpen
<1>2. CASE VerifySecondary
  <2>1. /\ stage = "verify" /\ UNCHANGED <<keys, primary, made, last, now, ref, known, call, status>>
        /\ \/ stage' = "promote" /\ verified' = verified \cup {ref}
           \/ stage' = "cleanUp" /\ verified' = verified
    BY <1>2 DEF VerifySecondary
  <2>2. ref \in 1 .. made
    BY <2>1 DEF StrategyTypeOK, SecondaryStands
  <2>3. StrategyTypeOK'
    BY <2>1, <2>2 DEF StrategyTypeOK
  <2>4. QED
    BY <2>1, <2>3 DEF SecondaryStands, OnItsWay, WindowOpen
<1>3. CASE CleanUp
  <2>1. /\ stage = "cleanUp" /\ UNCHANGED <<primary, made, last, verified, now, ref, known, call>>
        /\ keys' = keys \/ keys' = keys \ {ref}
        /\ stage' = "idle" /\ status' = "failed"
    BY <1>3 DEF CleanUp
  <2>2. StrategyTypeOK'
    BY <2>1 DEF StrategyTypeOK, SecondaryStands
  <2>3. QED
    BY <2>1, <2>2 DEF SecondaryStands, OnItsWay, WindowOpen
<1>4. CASE PromoteSecondary
  <2>1. /\ stage = "promote" /\ UNCHANGED <<keys, made, verified, now, ref, known, call>>
        /\ UNCHANGED <<primary, last>> \/ (primary' = ref /\ last' = now)
        /\ stage' = "idle" /\ status' \in {"completed", "failed"}
    BY <1>4 DEF PromoteSecondary
  <2>2. StrategyTypeOK'
    BY <2>1 DEF StrategyTypeOK, SecondaryStands
  <2>3. QED
    BY <2>1, <2>2 DEF SecondaryStands, OnItsWay, WindowOpen
<1>5. QED
  BY <1>1, <1>2, <1>3, <1>4

\* What holds whatever fails, panics or dies.
LEMMA StrategyInvariant == StrategySpec => []StrategyInv
<1>1. StrategyInit => StrategyInv
  BY DEF StrategyInit, StrategyInv, StrategyTypeOK, SecondaryStands, OnItsWay, WindowOpen
<1>2. StrategyInv /\ [StrategyNext]_strategyVars => StrategyInv'
  <2> SUFFICES ASSUME StrategyInv, [StrategyNext]_strategyVars PROVE StrategyInv'
    OBVIOUS
  <2> USE DEF StrategyInv, service
  <2>1. CASE Die
    BY <2>1 DEF Die, StrategyTypeOK, SecondaryStands, OnItsWay, WindowOpen
  <2>2. CASE Tick
    <3>1. now' = now + 1 /\ UNCHANGED <<keys, primary, made, last, verified, call, ref, known, status, stage>>
      BY <2>2 DEF Tick
    <3>2. StrategyTypeOK'
      BY <3>1 DEF StrategyTypeOK
    <3>3. known \in Nat /\ now \in Nat /\ NextRotation(known) \in Int
      BY StrategiesAssumption DEF StrategyTypeOK, NextRotation
    <3>4. WindowOpen'
      BY <3>1, <3>3 DEF WindowOpen, NextRotation
    <3>5. QED
      BY <3>1, <3>2, <3>4 DEF SecondaryStands, OnItsWay, TwoSecretCapable
  <2>3. CASE UNCHANGED strategyVars
    BY <2>3 DEF strategyVars, StrategyTypeOK, SecondaryStands, OnItsWay, TwoSecretCapable, WindowOpen, NextRotation
  <2>4. QED
    BY <2>1, <2>2, <2>3, CallerSteps, StatusSteps, RotatorSteps, TwoSecretSteps DEF StrategyNext
<1>3. QED
  BY <1>1, <1>2, PTL DEF StrategySpec

\* The types hold, and the strategy chosen for a provider is one it can carry out, but for
\* the emergency strategy of a provider that cannot revoke.
THEOREM StrategiesWellFormed == StrategySpec => []WellFormed
<1>1. SelectionIsFeasible
  BY DEF SelectionIsFeasible, SelectStrategy, Feasible
<1>2. StrategyInv => WellFormed
  BY <1>1 DEF StrategyInv, WellFormed
<1>3. QED
  BY <1>1, <1>2, StrategyInvariant, PTL

\* With two secrets a credential becomes primary only once it passed a verification, however
\* the rotations and rollbacks before it ended: for every sequence of requests.
THEOREM OnlyVerifiedIsPromoted == StrategySpec => PromotesVerified
<1>1. StrategyInv /\ [StrategyNext]_strategyVars
        => [call'.wrapper = "two-secret" /\ call'.base = "two" /\ primary' # primary
              => primary' \in verified']_strategyVars
  <2> SUFFICES ASSUME StrategyInv, StrategyNext, call'.wrapper = "two-secret", call'.base = "two", primary' # primary
               PROVE  primary' \in verified'
    OBVIOUS
  <2> USE DEF service
  <2>1. CASE PromoteSecondary
    BY <2>1 DEF PromoteSecondary, StrategyInv, SecondaryStands
  <2>2. ASSUME NEW c \in Requests, NEW old \in 1 .. made, Rollback(c, old)
        PROVE  primary' \in verified'
    BY <2>2 DEF Rollback
  <2>3. CASE RandomRotate \/ ScriptRotate \/ WebhookRotate \/ DirectRotate
    BY <2>3, RotatorSteps DEF StrategyInv, OnItsWay, TwoSecretCapable
  <2>4. QED
    BY <2>1, <2>2, <2>3
       DEF StrategyNext, Ask, Verify, TwoSecretStatus, OverlapStatus, DryRun, CreateSecondary, VerifySecondary,
           CleanUp, Die, Tick
<1>2. QED
  BY <1>1, StrategyInvariant, PTL DEF StrategySpec, PromotesVerified

\* A rotation with two secrets never withdraws the credential in use, its clean-up nothing
\* but its own secondary, and a dry run of a strategy changes nothing of the service.
THEOREM StrategiesDoNoHarm == StrategySpec => DoesNoHarm
<1>1. StrategyInv /\ [StrategyNext]_strategyVars
        => [(stage \in {"create", "verify", "cleanUp", "promote"}) =>
              primary \in keys' /\ (keys \ keys') \subseteq {ref}]_strategyVars
  <2> SUFFICES ASSUME StrategyInv, StrategyNext, stage \in {"create", "verify", "cleanUp", "promote"}
               PROVE  primary \in keys' /\ (keys \ keys') \subseteq {ref}
    OBVIOUS
  <2> USE DEF service
  <2>1. CASE UNCHANGED keys
    BY <2>1 DEF StrategyInv, StrategyTypeOK
  <2>2. CASE CreateSecondary
    BY <2>2 DEF CreateSecondary, StrategyInv, StrategyTypeOK
  <2>3. CASE CleanUp
    BY <2>3 DEF CleanUp, StrategyInv, StrategyTypeOK, SecondaryStands
  <2>4. QED
    BY <2>1, <2>2, <2>3, RotatorSteps
       DEF StrategyNext, Ask, Verify, Rollback, TwoSecretStatus, OverlapStatus, DryRun, VerifySecondary,
           PromoteSecondary, Die, Tick
<1>2. StrategyInv /\ [StrategyNext]_strategyVars
        => [stage # "idle" /\ call.dryRun /\ call.wrapper # "none" => UNCHANGED service]_strategyVars
  <2> SUFFICES ASSUME StrategyInv, StrategyNext, stage # "idle", call.dryRun, call.wrapper # "none"
               PROVE  UNCHANGED service
    OBVIOUS
  <2>1. stage \in {"status", "dryRun"}
    BY DEF StrategyInv, StrategyTypeOK, OnItsWay
  <2>2. QED
    BY <2>1, RotatorSteps
       DEF StrategyNext, Ask, Verify, Rollback, TwoSecretStatus, OverlapStatus, DryRun, CreateSecondary,
           VerifySecondary, CleanUp, PromoteSecondary, Die, Tick
<1>3. QED
  BY <1>1, <1>2, StrategyInvariant, PTL DEF StrategySpec, DoesNoHarm, KeepsCredentialInUse, DryRunIsHarmless

\* An overlap rotation nobody forced comes a whole window after the one before it, wherever
\* the service can tell when that was: for every validity and overlap.
THEOREM OverlapWaits == StrategySpec => OverlapNotTooEarly
<1>1. StrategyInv /\ [StrategyNext]_strategyVars
        => [call.wrapper = "overlap" /\ ~ call.force /\ known # 0 /\ stage = "rotate" /\ last' # last
              => now - known >= Validity - 2 * Overlap]_strategyVars
  <2> SUFFICES ASSUME StrategyInv, call.wrapper = "overlap", ~ call.force, known # 0, stage = "rotate"
               PROVE  now - known >= Validity - 2 * Overlap
    OBVIOUS
  <2>1. now >= known + (Validity - 2 * Overlap)
    BY DEF StrategyInv, WindowOpen, NextRotation
  <2>2. now \in Int /\ known \in Int /\ Validity \in Int /\ Overlap \in Int
    BY StrategiesAssumption DEF StrategyInv, StrategyTypeOK
  <2>3. QED
    BY <2>1, <2>2
<1>2. QED
  BY <1>1, StrategyInvariant, PTL DEF StrategySpec, OverlapNotTooEarly

-------------------------------------------------------------------------------
(***************************************************************************)
(* GradualRollout: plans leave nothing out and nothing twice, instances wait *)
(* for those they depend on, and a cancelled rollout stops.                  *)
(* depend on, and a cancelled rollout stops.                                 *)
(*                                                                         *)
(* The inductive invariant says what each loop has done so far: the waves of *)
(* a canary or percentage plan hold the first instances of the pool          *)
(* (WavesSoFar); the degrees of topologicalSort count the dependencies that  *)
(* are not ordered yet (SortSoFar), so that those of a level are in earlier  *)
(* levels (LevelsInOrder), and then in earlier waves (WavesInOrder); and     *)
(* execution has rotated a prefix of the waves (RotatedSoFar).               *)
(***************************************************************************)

SetupGiven == setup \in Setups

\* What has not happened yet at the time a loop runs.
PhasesInTurn ==
  /\ pc \in {"validate", "discover", "read", "plan"} =>
       waves = <<>> /\ taken = 0 /\ canary = 0 /\ sorted = <<>>
  /\ pc \in {"validate", "discover", "plan", "sort"} => level = 1
  /\ pc = "sort" => waves = <<>>
  /\ pc \in {"validate", "discover", "read", "plan", "fill", "sort", "group"} =>
       rotated = {} /\ at = 1 /\ late = 0
  /\ pc = "start" => rotated = {} /\ at = 1
  /\ pc = "fill" => setup.strategy # "group"
  /\ pc \in {"sort", "group"} => setup.strategy = "group"
  /\ HasPlan /\ setup.strategy # "group" => taken = PoolSize

\* The degree of a service counts its dependencies that are not ordered yet, and what is
\* ordered is counted against what is listed.
SortSoFar ==
  /\ pc = "sort" =>
       /\ DOMAIN inDegree = Services \ SortedServices
       /\ \A s \in DOMAIN inDegree :
            inDegree[s] = Cardinality(Dependencies(s) \ SortedServices)
  /\ (pc = "group" \/ HasPlan) /\ setup.strategy = "group" =>
       Cardinality(SortedServices) = Cardinality(setup.services)

\* What a service depends on is in an earlier level.
LevelsInOrder ==
  \A i \in DOMAIN sorted : \A s \in sorted[i] : \A d \in Dependencies(s) :
    \E j \in 1 .. i - 1 : d \in sorted[j]

\* The services of the first n levels, and the instances of the first n waves.
UpTo(n) == UNION {sorted[j] : j \in 1 .. n}
Through(n) == UNION {waves[k].insts : k \in 1 .. n}

\* The waves of a group hold the instances of the levels gone through.
LevelsSoFar ==
  /\ pc = "group" => level - 1 <= Len(sorted) /\ InWaves = InstancesOf(UpTo(level - 1))
  /\ HasPlan /\ setup.strategy = "group" => InWaves = InstancesOf(SortedServices)

\* What an instance of a group depends on is in an earlier wave.
WavesInOrder ==
  setup.strategy = "group" =>
    \A k \in DOMAIN waves : \A p \in waves[k].insts :
      \A d \in Dependencies(ServiceOf(instances[p].id)) : InstancesOf({d}) \subseteq Through(k - 1)

\* What is rotated is a prefix of the plan, up to the wave Execute is at.
RotatedSoFar ==
  /\ \E n \in 0 .. Len(waves) : rotated = Through(n)
  /\ pc \in {"rotate", "monitor", "verify", "wait", "completed"} => at \in DOMAIN waves
  /\ pc = "rotate" => rotated = Through(at - 1)
  /\ pc \in {"monitor", "verify", "wait", "completed"} => rotated = Through(at)

\* A wave rotated after the cancellation is the last one.
LateIsLast ==
  setup.monitored /\ (\A i \in DOMAIN waves : waves[i].health) =>
    late = 0 \/ (late = 1 /\ cancelled /\ pc \in {"monitor", "stopped"})

RolloutInv ==
  /\ SetupGiven /\ TypeOK /\ PhasesInTurn /\ WavesSoFar
  /\ SortSoFar /\ LevelsInOrder /\ LevelsSoFar /\ WavesInOrder
  /\ RotatedSoFar /\ LateIsLast

-------------------------------------------------------------------------------
(* Facts about the operators.                                               *)

\* PoolSize and InPool (canary.go:81-90) number the instances that are not the canary,
\* each once.
LEMMA PoolNumbered ==
  ASSUME TypeOK
  PROVE  /\ PoolSize \in Nat
         /\ \A k \in 1 .. PoolSize : InPool(k) \in DOMAIN instances /\ InPool(k) # canary
         /\ \A k, l \in 1 .. PoolSize : InPool(k) = InPool(l) => k = l
         /\ DOMAIN instances = {InPool(k) : k \in 1 .. PoolSize}
                               \cup (IF canary = 0 THEN {} ELSE {canary})
<1>1. /\ Len(instances) \in Nat /\ DOMAIN instances = 1 .. Len(instances)
      /\ canary \in 0 .. Len(instances)
  BY DEF TypeOK
<1>2. PoolSize \in Nat
  BY <1>1 DEF PoolSize
<1>3. \A k \in 1 .. PoolSize : InPool(k) \in DOMAIN instances /\ InPool(k) # canary
  BY <1>1 DEF PoolSize, InPool
<1>4. \A k, l \in 1 .. PoolSize : InPool(k) = InPool(l) => k = l
  BY <1>1 DEF PoolSize, InPool
<1>5. ASSUME NEW i \in DOMAIN instances, i # canary
      PROVE  \E k \in 1 .. PoolSize : InPool(k) = i
  <2>1. CASE canary = 0 \/ i < canary
    BY <2>1, <1>1, <1>5 DEF PoolSize, InPool
  <2>2. CASE canary # 0 /\ i > canary
    <3>1. i - 1 \in 1 .. PoolSize /\ InPool(i - 1) = i
      BY <2>2, <1>1 DEF PoolSize, InPool
    <3> QED  BY <3>1
  <2> QED  BY <2>1, <2>2, <1>1, <1>5
<1> QED  BY <1>1, <1>2, <1>3, <1>4, <1>5

\* A set of positions that is not empty has a first one: findCanaryInstance
\* (canary.go:204-211) finds the first that is labelled.
LEMMA FirstExists ==
  ASSUME NEW S, S \subseteq Nat, S # {}
  PROVE  \E i \in S : \A j \in S : i <= j
<1>1. PICK i \in S : \A j \in S : ~ (<<j, i>> \in OpToRel(<, Nat))
  BY NatLessThanWellFounded, WFMin, Zenon
<1>2. \A j \in S : j \in Nat /\ i \in Nat /\ ~ (j < i)
  BY <1>1 DEF OpToRel
<1> QED  BY <1>2

\* The canary is one of the instances.
LEMMA CanaryIsListed ==
  ASSUME Len(instances) \in Nat, DOMAIN instances = 1 .. Len(instances), instances # <<>>
  PROVE  findCanaryInstance \in 1 .. Len(instances)
<1>1. CASE Labelled = {}
  <2>1. Len(instances) # 0
    OBVIOUS
  <2> QED  BY <1>1, <2>1 DEF findCanaryInstance
<1>2. CASE Labelled # {}
  <2>1. Labelled \subseteq 1 .. Len(instances) /\ Labelled \subseteq Nat
    BY DEF Labelled
  <2>2. \E i \in Labelled : \A j \in Labelled : i <= j
    BY <1>2, <2>1, FirstExists
  <2> QED  BY <1>2, <2>1, <2>2 DEF findCanaryInstance
<1> QED  BY <1>1, <1>2

-------------------------------------------------------------------------------
(* The initial state, and discovery.                                        *)

\* The initial states satisfy the invariant.
LEMMA InitRollout == Init => RolloutInv
<1> SUFFICES ASSUME Init PROVE RolloutInv
  OBVIOUS
<1>1. /\ setup \in Setups /\ instances = <<>> /\ canary = 0 /\ waves = <<>> /\ taken = 0
      /\ level = 1 /\ inDegree = <<>> /\ sorted = <<>> /\ at = 1 /\ rotated = {} /\ late = 0
      /\ validated = "unasked" /\ cancelled = FALSE /\ rollback = "none" /\ pc = "validate"
  BY DEF Init
<1>2. TypeOK
  <2>1. Len(instances) = 0 /\ DOMAIN instances = 1 .. 0 /\ PoolSize = 0
    BY <1>1 DEF PoolSize
  <2>2. waves \in Seq(Waves) /\ sorted \in Seq(SUBSET Services)
    BY <1>1
  <2>3. /\ canary \in 0 .. Len(instances) /\ taken \in 0 .. PoolSize
        /\ level \in Nat \ {0} /\ at \in Nat \ {0} /\ late \in Nat
    BY <1>1, <2>1
  <2>4. /\ validated \in {"unasked", "accepted", "refused", "panic"}
        /\ rollback \in {"none", "requested"}
        /\ pc \in Planned \cup {"validate", "discover", "read", "plan", "fill", "sort", "group"}
    BY <1>1
  <2>5. inDegree = <<>> /\ cancelled \in BOOLEAN /\ rotated \subseteq DOMAIN instances
    BY <1>1
  <2> QED  BY <2>1, <2>2, <2>3, <2>4, <2>5 DEF TypeOK
<1>3. PhasesInTurn /\ SortSoFar /\ LevelsInOrder /\ LevelsSoFar /\ WavesInOrder /\ LateIsLast
  BY <1>1 DEF PhasesInTurn, SortSoFar, LevelsInOrder, LevelsSoFar, WavesInOrder, LateIsLast, HasPlan
<1>4. WavesSoFar
  BY <1>1 DEF WavesSoFar, InWaves
<1>5. RotatedSoFar
  <2>1. rotated = Through(0) /\ 0 \in 0 .. Len(waves)
    BY <1>1 DEF Through
  <2> QED  BY <1>1, <2>1 DEF RotatedSoFar
<1> QED  BY <1>1, <1>2, <1>3, <1>4, <1>5 DEF RolloutInv, SetupGiven

Early == {"validate", "discover", "read", "plan"}

\* Before there is a plan only the instances found change.
LEMMA DiscoveryKeeps ==
  ASSUME RolloutInv, pc \in Early, pc' \in Early \cup {"stopped"},
         UNCHANGED <<setup, canary, waves, taken, inDegree, sorted, cancelled, execution>>,
         validated' \in {"unasked", "accepted", "refused", "panic"},
         Len(instances)' \in Nat, (DOMAIN instances)' = 1 .. Len(instances)',
         level' \in Nat \ {0}, pc' \in Early \ {"read"} => level' = 1
  PROVE  RolloutInv'
<1>1. /\ waves = <<>> /\ taken = 0 /\ canary = 0 /\ sorted = <<>>
      /\ rotated = {} /\ at = 1 /\ late = 0
  BY DEF RolloutInv, PhasesInTurn, Early
<1>2. /\ waves' = <<>> /\ taken' = 0 /\ canary' = 0 /\ sorted' = <<>>
      /\ rotated' = {} /\ at' = 1 /\ late' = 0 /\ setup' = setup
      /\ inDegree' = inDegree /\ cancelled' = cancelled /\ rollback' = rollback
  BY <1>1 DEF execution
<1>3. TypeOK'
  <2>1. /\ inDegree \in [Services \ SortedServices -> Nat] \/ inDegree = <<>>
        /\ cancelled \in BOOLEAN /\ rollback \in {"none", "requested"}
    BY DEF RolloutInv, TypeOK
  <2>2. inDegree' \in [Services' \ SortedServices' -> Nat] \/ inDegree' = <<>>
    BY <1>1, <1>2, <2>1 DEF Services, SortedServices
  <2>3. 0 \in 0 .. PoolSize'
    BY <1>2 DEF PoolSize
  <2> QED  BY <1>2, <2>1, <2>2, <2>3 DEF TypeOK, Early, Planned
<1>4. PhasesInTurn'
  BY <1>2 DEF PhasesInTurn, HasPlan, Early
<1>8. SortSoFar' /\ LevelsInOrder' /\ LevelsSoFar'
  <2>1. pc' # "sort" /\ pc' # "group" /\ ~ HasPlan'
    BY DEF HasPlan, Early
  <2>2. SortSoFar'
    BY <2>1 DEF SortSoFar
  <2>3. LevelsInOrder'
    BY <1>2 DEF LevelsInOrder
  <2>4. LevelsSoFar'
    BY <2>1 DEF LevelsSoFar
  <2> QED  BY <2>2, <2>3, <2>4
<1>9. WavesInOrder' /\ LateIsLast'
  BY <1>2 DEF WavesInOrder, LateIsLast
<1>5. WavesSoFar'
  BY <1>2 DEF WavesSoFar, InWaves
<1>6. RotatedSoFar'
  <2>1. rotated' = Through(0)' /\ 0 \in 0 .. Len(waves)'
    BY <1>2 DEF Through
  <2> QED  BY <1>2, <2>1 DEF RotatedSoFar, Early
<1>7. SetupGiven'
  BY <1>2 DEF RolloutInv, SetupGiven
<1> QED  BY <1>3, <1>4, <1>5, <1>6, <1>7, <1>8, <1>9 DEF RolloutInv

\* The answers of the discovery providers' Validate.
LEMMA VerdictKnown ==
  ASSUME NEW cfg
  PROVE  EndpointValidate(cfg) \in {"accepted", "refused", "panic"}
BY Zenon DEF EndpointValidate

\* The lists of the providers that do not fail are as long as their configuration's.
LEMMA ExplicitIsAList ==
  ASSUME NEW cfg, Len(cfg.instances) \in Nat, DOMAIN cfg.instances = 1 .. Len(cfg.instances)
  PROVE  \E n \in Nat : DOMAIN ExplicitDiscover(cfg) = 1 .. n /\ Len(ExplicitDiscover(cfg)) = n
<1>1. CASE \E i \in DOMAIN cfg.instances : cfg.instances[i].id = NoName
  BY <1>1 DEF ExplicitDiscover
<1>2. CASE ~ \E i \in DOMAIN cfg.instances : cfg.instances[i].id = NoName
  BY <1>2 DEF ExplicitDiscover
<1> QED  BY <1>1, <1>2

\* Validate, Discover and the loop over the answer of an endpoint keep the invariant, and
\* so does a plan that is refused.
LEMMA DiscoverySteps ==
  ASSUME RolloutInv, Validate \/ Discover \/ ReadInstance \/ ReadAll \/ PlanRefused
  PROVE  RolloutInv'
<1>1. /\ setup.discovery \in {"explicit", "endpoint", "kubernetes", "cloud"}
      /\ Len(setup.cfg.instances) \in Nat
      /\ DOMAIN setup.cfg.instances = 1 .. Len(setup.cfg.instances)
  BY SetupsAssumption DEF RolloutInv, SetupGiven
<1>2. /\ Len(instances) \in Nat /\ DOMAIN instances = 1 .. Len(instances) /\ level \in Nat \ {0}
      /\ validated \in {"unasked", "accepted", "refused", "panic"}
  BY DEF RolloutInv, TypeOK
<1>3. pc \in {"validate", "discover", "plan"} => level = 1
  BY DEF RolloutInv, PhasesInTurn
<1>4. CASE Validate
  <2>1. pc = "validate" /\ (pc' = "stopped" \/ pc' = "discover")
    BY <1>4, Zenon DEF Validate
  <2>2. UNCHANGED <<setup, instances, canary, planning, cancelled, execution>>
    BY <1>4 DEF Validate
  <2>3. validated' = CASE setup.discovery = "explicit"   -> Verdict(ExplicitValidate(setup.cfg))
                       [] setup.discovery = "endpoint"   -> EndpointValidate(setup.cfg)
                       [] setup.discovery = "kubernetes" -> Verdict(KubernetesValidate(setup.cfg))
                       [] setup.discovery = "cloud"      -> Verdict(CloudValidate(setup.cfg))
    BY <1>4 DEF Validate
  <2>4. validated' \in {"accepted", "refused", "panic"}
    BY <2>3, <1>1, VerdictKnown DEF Verdict
  <2> QED  BY <2>1, <2>2, <2>4, <1>2, <1>3, DiscoveryKeeps DEF planning, Early
<1>5. CASE Discover
  <2>1. /\ pc = "discover" /\ pc' \in {"read", "plan"}
        /\ UNCHANGED <<setup, validated, canary, planning, cancelled, execution>>
    BY <1>5 DEF Discover
  <2>2. \E n \in Nat : (DOMAIN instances)' = 1 .. n /\ Len(instances)' = n
    BY <1>5, <1>1, ExplicitIsAList DEF Discover, KubernetesDiscover, CloudDiscover
  <2> QED  BY <2>1, <2>2, <1>2, <1>3, DiscoveryKeeps DEF planning, Early
<1>6. CASE ReadInstance
  <2>1. /\ pc = "read" /\ pc' = "read" /\ level' = level + 1
        /\ UNCHANGED <<setup, validated, canary, waves, taken, inDegree, sorted, cancelled, execution>>
    BY <1>6 DEF ReadInstance
  <2>2. \E inst : instances' = instances \/ instances' = Append(instances, inst)
    BY <1>6 DEF ReadInstance
  <2>3. Len(instances)' \in Nat /\ (DOMAIN instances)' = 1 .. Len(instances)'
    BY <2>2, <1>2
  <2> QED  BY <2>1, <2>3, <1>2, DiscoveryKeeps DEF Early
<1>7. CASE ReadAll
  BY <1>7, <1>2, DiscoveryKeeps DEF ReadAll, discovery, Early
<1>8. CASE PlanRefused
  BY <1>8, <1>2, <1>3, DiscoveryKeeps DEF PlanRefused, discovery, planning, Early
<1> QED  BY <1>4, <1>5, <1>6, <1>7, <1>8

-------------------------------------------------------------------------------
(* Planning the waves of the canary and percentage strategies.              *)

\* What is left to show of a planning step of these strategies are the waves themselves.
LEMMA PlanningKeeps ==
  ASSUME RolloutInv, setup.strategy # "group", pc \in {"plan", "fill"}, pc' \in {"fill", "start"},
         UNCHANGED <<setup, validated, instances, inDegree, sorted, cancelled, execution>>,
         canary' \in 0 .. Len(instances), waves' \in Seq(Waves), taken' \in 0 .. PoolSize',
         level' \in Nat \ {0}, pc' = "start" => taken' = PoolSize', WavesSoFar'
  PROVE  RolloutInv'
<1>1. /\ setup' = setup /\ validated' = validated /\ instances' = instances
      /\ inDegree' = inDegree /\ sorted' = sorted /\ cancelled' = cancelled
      /\ at' = at /\ rotated' = rotated /\ late' = late /\ rollback' = rollback
  BY DEF execution
<1>2. rotated = {} /\ at = 1 /\ late = 0
  BY DEF RolloutInv, PhasesInTurn
<1>3. TypeOK'
  <2>1. /\ Len(instances) \in Nat /\ DOMAIN instances = 1 .. Len(instances)
        /\ validated \in {"unasked", "accepted", "refused", "panic"}
        /\ inDegree \in [Services \ SortedServices -> Nat] \/ inDegree = <<>>
        /\ cancelled \in BOOLEAN /\ rollback \in {"none", "requested"}
        /\ sorted \in Seq(SUBSET Services)
    BY DEF RolloutInv, TypeOK
  <2>2. Services' = Services /\ SortedServices' = SortedServices /\ Waves' = Waves
    BY <1>1 DEF Services, SortedServices, Waves
  <2>3. pc' \in Planned \cup {"validate", "discover", "read", "plan", "fill", "sort", "group"}
    BY DEF Planned
  <2> QED  BY <1>1, <1>2, <2>1, <2>2, <2>3 DEF TypeOK
<1>4. PhasesInTurn'
  BY <1>1, <1>2 DEF PhasesInTurn, HasPlan
<1>5. SortSoFar' /\ LevelsSoFar' /\ WavesInOrder'
  BY <1>1 DEF SortSoFar, LevelsSoFar, WavesInOrder
<1>6. LevelsInOrder'
  BY <1>1 DEF RolloutInv, LevelsInOrder, Dependencies
<1>7. RotatedSoFar'
  <2>1. rotated' = Through(0)' /\ 0 \in 0 .. Len(waves)'
    BY <1>1, <1>2 DEF Through
  <2> QED  BY <2>1 DEF RotatedSoFar
<1>8. LateIsLast' /\ SetupGiven'
  BY <1>1, <1>2 DEF LateIsLast, RolloutInv, SetupGiven
<1> QED  BY <1>3, <1>4, <1>5, <1>6, <1>7, <1>8 DEF RolloutInv

\* One more wave, of the next `count` instances of the pool, keeps WavesSoFar.
LEMMA WaveAdded ==
  ASSUME RolloutInv, setup.strategy # "group", NEW count \in 0 .. PoolSize - taken, NEW l,
         l.health \in BOOLEAN, l.wait \in BOOLEAN, Fill(count, l),
         UNCHANGED <<setup, instances, canary>>
  PROVE  /\ WavesSoFar' /\ waves' \in Seq(Waves)
         /\ taken' \in 0 .. PoolSize' /\ taken' = taken + count
<1>1. /\ TypeOK /\ PoolSize \in Nat /\ taken \in 0 .. PoolSize /\ waves \in Seq(Waves)
  BY PoolNumbered DEF RolloutInv, TypeOK
<1>2. PoolSize' = PoolSize /\ taken' = taken + count /\ taken' \in 0 .. PoolSize
  BY <1>1 DEF Fill, PoolSize
<1>3. /\ \A i \in DOMAIN waves : waves[i].insts # {}
      /\ \A i, j \in DOMAIN waves : i # j => waves[i].insts \cap waves[j].insts = {}
      /\ InWaves = {InPool(k) : k \in 1 .. taken} \cup (IF canary = 0 THEN {} ELSE {canary})
  BY DEF RolloutInv, WavesSoFar
<1>4. \A k : InPool(k)' = InPool(k)
  BY DEF InPool
<1>5. /\ NextOf(count) \subseteq DOMAIN instances /\ NextOf(count) \cap InWaves = {}
      /\ count # 0 => NextOf(count) # {}
      /\ {InPool(k) : k \in 1 .. taken + count} = {InPool(k) : k \in 1 .. taken} \cup NextOf(count)
  <2>1. \A k \in taken + 1 .. taken + count : k \in 1 .. PoolSize /\ k \notin 1 .. taken
    BY <1>1
  <2>2. \A k \in 1 .. taken : k \in 1 .. PoolSize
    BY <1>1
  <2>3. \A k \in 1 .. PoolSize : InPool(k) \in DOMAIN instances /\ InPool(k) # canary
    BY <1>1, PoolNumbered
  <2>4. \A k, m \in 1 .. PoolSize : InPool(k) = InPool(m) => k = m
    BY <1>1, PoolNumbered
  <2>5. count # 0 => taken + 1 \in taken + 1 .. taken + count
    BY <1>1
  <2>6. (1 .. taken + count) = (1 .. taken) \cup (taken + 1 .. taken + count)
    BY <1>1
  <2> QED  BY <1>3, <2>1, <2>2, <2>3, <2>4, <2>5, <2>6 DEF NextOf
<1>6. CASE count = 0
  <2>1. waves' = waves /\ taken' = taken
    BY <1>6, <1>1 DEF Fill
  <2>2. InWaves' = InWaves
    BY <2>1 DEF InWaves
  <2> QED  BY <1>1, <1>2, <1>3, <1>4, <2>1, <2>2 DEF WavesSoFar
<1>7. CASE count # 0
  <2> DEFINE w == Wave(NextOf(count), l.health, l.wait)
  <2>1. waves' = Append(waves, w) /\ w.insts = NextOf(count) /\ w \in Waves
    BY <1>7, <1>5 DEF Fill, Wave, Waves
  <2> HIDE DEF w
  <2>2. /\ waves' \in Seq(Waves) /\ DOMAIN waves' = DOMAIN waves \cup {Len(waves) + 1}
        /\ Len(waves) + 1 \notin DOMAIN waves
        /\ \A i \in DOMAIN waves : waves'[i] = waves[i]
        /\ waves'[Len(waves) + 1] = w
    BY <1>1, <2>1
  <2>3. InWaves' = InWaves \cup NextOf(count)
    BY <2>1, <2>2 DEF InWaves
  <2>4. \A i \in DOMAIN waves : waves[i].insts \subseteq InWaves
    BY DEF InWaves
  <2>5. /\ \A i \in DOMAIN waves' : waves'[i].insts # {}
        /\ \A i, j \in DOMAIN waves' : i # j => waves'[i].insts \cap waves'[j].insts = {}
    BY <1>3, <1>5, <1>7, <2>1, <2>2, <2>4
  <2>6. InWaves' = {InPool(k)' : k \in 1 .. taken'} \cup (IF canary' = 0 THEN {} ELSE {canary'})
    BY <1>2, <1>3, <1>4, <1>5, <2>3
  <2> QED  BY <1>2, <2>2, <2>5, <2>6 DEF WavesSoFar
<1> QED  BY <1>6, <1>7

\* However a percentage rounds, a wave takes no more than is left of the pool.
LEMMA CountsFit ==
  ASSUME PoolSize \in Nat, taken \in 0 .. PoolSize, NEW percentage \in Nat
  PROVE  /\ CanaryCount(percentage) \in 0 .. PoolSize - taken
         /\ PercentageCount(percentage) \in 0 .. PoolSize - taken
<1>1. PoolSize * percentage \in Nat
  OBVIOUS
<1>2. Target(percentage) \in Nat
  BY <1>1 DEF Target
<1> QED  BY <1>2 DEF CanaryCount, PercentageCount, Smaller

Shape == [percentage : Nat, health : BOOLEAN, wait : BOOLEAN]

\* The percentages the loops go through are shares, the defaults included.
LEMMA LevelsTyped ==
  ASSUME setup \in Setups
  PROVE  Levels \in Seq(Shape)
<1>1. setup.waves \in Seq(Shape)
  BY SetupsAssumption DEF Shape
<1>2. \A i \in 1 .. 3 : << 10, 50, 100 >>[i] \in Nat
  OBVIOUS
<1>3. \A i \in 1 .. 4 : << 5, 25, 50, 100 >>[i] \in Nat
  OBVIOUS
<1>4. defaultCanaryWaves \in [1 .. 3 -> Shape]
  BY <1>2 DEF defaultCanaryWaves, Shape
<1>5. defaultPercentageWaves \in [1 .. 4 -> Shape]
  BY <1>3 DEF defaultPercentageWaves, Shape
<1>6. defaultCanaryWaves \in Seq(Shape) /\ defaultPercentageWaves \in Seq(Shape)
  <2>1. \A n \in Nat : [1 .. n -> Shape] \subseteq Seq(Shape)
    BY SeqDef
  <2> QED  BY <1>4, <1>5, <2>1
<1>7. Levels \in {defaultCanaryWaves, defaultPercentageWaves, setup.waves}
  BY DEF Levels
<1> QED  BY <1>1, <1>6, <1>7

\* The planning loops of the canary and the percentage strategy keep the invariant.
LEMMA PlanningSteps ==
  ASSUME RolloutInv, PlanCanary \/ PlanPercentage \/ FillLevel \/ FillRest
  PROVE  RolloutInv'
<1>1. /\ TypeOK /\ PoolSize \in Nat /\ taken \in 0 .. PoolSize /\ waves \in Seq(Waves)
      /\ Len(instances) \in Nat /\ DOMAIN instances = 1 .. Len(instances)
      /\ canary \in 0 .. Len(instances) /\ level \in Nat \ {0} /\ setup \in Setups
  BY PoolNumbered DEF RolloutInv, TypeOK, SetupGiven
<1>2. pc = "fill" => setup.strategy # "group"
  BY DEF RolloutInv, PhasesInTurn
<1>3. pc = "plan" => waves = <<>> /\ taken = 0 /\ canary = 0
  BY DEF RolloutInv, PhasesInTurn
<1>4. CASE PlanCanary
  <2>1. /\ pc = "plan" /\ setup.strategy = "canary" /\ instances # <<>>
        /\ canary' = findCanaryInstance /\ waves' = << Wave({canary'}, TRUE, FALSE) >>
        /\ pc' = (IF Len(instances) = 1 THEN "start" ELSE "fill")
        /\ UNCHANGED <<setup, validated, instances, taken, level, inDegree, sorted, cancelled, execution>>
        /\ instances' = instances
    BY <1>4 DEF PlanCanary
  <2>2. canary' \in 1 .. Len(instances)
    BY <2>1, <1>1, CanaryIsListed
  <2>3. PoolSize' = Len(instances) - 1
    <3>1. canary' # 0 /\ Len(instances)' = Len(instances)
      BY <2>1, <2>2, <1>1
    <3> QED  BY <3>1 DEF PoolSize
  <2>4. taken' = 0 /\ taken' \in 0 .. PoolSize' /\ (pc' = "start" => taken' = PoolSize')
    BY <2>1, <2>2, <2>3, <1>1, <1>3
  <2>5. PICK c, w : c = canary' /\ w = Wave({c}, TRUE, FALSE)
    OBVIOUS
  <2>9. w.insts = {c} /\ w \in Waves /\ waves' = <<w>>
    <3>1. {c} \in SUBSET (DOMAIN instances)
      BY <2>2, <2>5, <1>1
    <3>2. w \in Waves /\ w.insts = {c}
      BY <2>5, <3>1 DEF Wave, Waves
    <3> QED  BY <2>1, <2>5, <3>2
  <2>6. waves' \in Seq(Waves) /\ DOMAIN waves' = {1} /\ waves'[1] = w
    BY <2>9
  <2>7. InWaves' = {canary'}
    BY <2>5, <2>6, <2>9 DEF InWaves
  <2>8. WavesSoFar'
    <3>1. {InPool(k)' : k \in 1 .. taken'} = {}
      BY <2>4
    <3>2. /\ \A i \in DOMAIN waves' : waves'[i].insts # {}
          /\ \A i, j \in DOMAIN waves' : i # j => waves'[i].insts \cap waves'[j].insts = {}
      BY <2>6, <2>9
    <3>3. InWaves' = {InPool(k)' : k \in 1 .. taken'} \cup (IF canary' = 0 THEN {} ELSE {canary'})
      BY <3>1, <2>2, <2>7
    <3> QED  BY <3>2, <3>3 DEF WavesSoFar
  <2> QED  BY <2>1, <2>2, <2>4, <2>6, <2>8, <1>1, PlanningKeeps
<1>5. CASE PlanPercentage
  <2>1. /\ pc = "plan" /\ setup.strategy = "percentage" /\ pc' = "fill"
        /\ UNCHANGED <<setup, discovery, planning, cancelled, execution>>
    BY <1>5 DEF PlanPercentage
  <2>2. /\ setup' = setup /\ instances' = instances /\ canary' = canary /\ waves' = waves
        /\ taken' = taken /\ validated' = validated /\ level' = level
    BY <2>1 DEF discovery, planning
  <2>3. PoolSize' = PoolSize
    BY <2>2 DEF PoolSize
  <2>4. WavesSoFar'
    <3>1. \A k : InPool(k)' = InPool(k)
      BY <2>2 DEF InPool
    <3>2. InWaves' = InWaves
      BY <2>2 DEF InWaves
    <3> QED  BY <2>2, <3>1, <3>2 DEF RolloutInv, WavesSoFar
  <2> QED  BY <2>1, <2>2, <2>3, <2>4, <1>1, PlanningKeeps DEF planning
<1>6. CASE FillLevel
  <2>1. /\ pc = "fill" /\ pc' = "fill" /\ level <= Len(Levels) /\ level' = level + 1
        /\ setup' = setup /\ instances' = instances /\ canary' = canary /\ validated' = validated
        /\ inDegree' = inDegree /\ sorted' = sorted /\ cancelled' = cancelled
        /\ UNCHANGED execution
    BY <1>6 DEF FillLevel, discovery
  <2> DEFINE l == Levels[level]
  <2>2. l.percentage \in Nat /\ l.health \in BOOLEAN /\ l.wait \in BOOLEAN
    <3>1. Levels \in Seq(Shape) /\ level \in 1 .. Len(Levels)
      BY <1>1, <2>1, LevelsTyped
    <3>2. l \in Shape
      BY <3>1
    <3> HIDE DEF l
    <3> QED  BY <3>2 DEF Shape
  <2>3. \E count \in {CanaryCount(l.percentage), PercentageCount(l.percentage)} : Fill(count, l)
    BY <1>6 DEF FillLevel
  <2> HIDE DEF l
  <2>4. PICK count \in 0 .. PoolSize - taken : Fill(count, l)
    BY <2>2, <2>3, <1>1, CountsFit
  <2>5. /\ WavesSoFar' /\ waves' \in Seq(Waves) /\ taken' \in 0 .. PoolSize'
    BY <2>1, <2>2, <2>4, <1>2, WaveAdded
  <2> QED  BY <2>1, <2>5, <1>1, <1>2, PlanningKeeps
<1>7. CASE FillRest
  <2>1. /\ pc = "fill" /\ pc' = "start" /\ level' = level
        /\ setup' = setup /\ instances' = instances /\ canary' = canary /\ validated' = validated
        /\ inDegree' = inDegree /\ sorted' = sorted /\ cancelled' = cancelled
        /\ UNCHANGED execution
    BY <1>7 DEF FillRest, discovery
  <2>2. PoolSize - taken \in 0 .. PoolSize - taken
    BY <1>1
  <2>5. PICK l : /\ l.health \in BOOLEAN /\ l.wait \in BOOLEAN
                 /\ Fill(PoolSize - taken, l)
    BY <1>7 DEF FillRest
  <2>3. /\ WavesSoFar' /\ waves' \in Seq(Waves) /\ taken' \in 0 .. PoolSize'
        /\ taken' = taken + (PoolSize - taken)
    BY <2>1, <2>2, <2>5, <1>2, WaveAdded
  <2>4. PoolSize' = PoolSize /\ taken' = PoolSize'
    BY <2>1, <2>3, <1>1 DEF PoolSize
  <2> QED  BY <2>1, <2>3, <2>4, <1>1, <1>2, PlanningKeeps
<1> QED  BY <1>4, <1>5, <1>6, <1>7

-------------------------------------------------------------------------------
(* Planning the waves of the group strategy.                                *)

\* What is left to show of a step of the group's planning are its levels and waves.
LEMMA GroupKeeps ==
  ASSUME RolloutInv, setup.strategy = "group", pc \in {"plan", "sort", "group"},
         pc' \in {"sort", "group", "start", "stopped"},
         UNCHANGED <<setup, discovery, taken, cancelled, execution>>,
         waves' \in Seq(Waves), sorted' \in Seq(SUBSET Services), level' \in Nat \ {0},
         inDegree' \in [Services \ SortedServices' -> Nat] \/ inDegree' = <<>>,
         pc' = "sort" => waves' = <<>> /\ level' = 1,
         SortSoFar', LevelsInOrder', LevelsSoFar', WavesInOrder'
  PROVE  RolloutInv'
<1>1. /\ setup' = setup /\ validated' = validated /\ instances' = instances /\ canary' = canary
      /\ taken' = taken /\ cancelled' = cancelled
      /\ at' = at /\ rotated' = rotated /\ late' = late /\ rollback' = rollback
  BY DEF execution, discovery
<1>2. rotated = {} /\ at = 1 /\ late = 0
  BY DEF RolloutInv, PhasesInTurn
<1>3. TypeOK'
  <2>1. /\ Len(instances) \in Nat /\ DOMAIN instances = 1 .. Len(instances)
        /\ validated \in {"unasked", "accepted", "refused", "panic"}
        /\ cancelled \in BOOLEAN /\ rollback \in {"none", "requested"}
        /\ canary \in 0 .. Len(instances) /\ taken \in 0 .. PoolSize
    BY DEF RolloutInv, TypeOK
  <2>2. Services' = Services /\ Waves' = Waves /\ PoolSize' = PoolSize
    BY <1>1 DEF Services, Waves, PoolSize
  <2>3. pc' \in Planned \cup {"validate", "discover", "read", "plan", "fill", "sort", "group"}
    BY DEF Planned
  <2> QED  BY <1>1, <1>2, <2>1, <2>2, <2>3 DEF TypeOK
<1>4. PhasesInTurn'
  BY <1>1, <1>2 DEF PhasesInTurn, HasPlan
<1>5. WavesSoFar' /\ LateIsLast' /\ SetupGiven'
  BY <1>1, <1>2 DEF WavesSoFar, LateIsLast, RolloutInv, SetupGiven
<1>6. RotatedSoFar'
  <2>1. rotated' = Through(0)' /\ 0 \in 0 .. Len(waves)'
    BY <1>1, <1>2 DEF Through
  <2> QED  BY <2>1 DEF RotatedSoFar
<1> QED  BY <1>3, <1>4, <1>5, <1>6 DEF RolloutInv

\* A group and its dependencies are finite.
LEMMA GroupFinite ==
  ASSUME setup \in Setups
  PROVE  /\ IsFiniteSet(Services) /\ IsFiniteSet(setup.services)
         /\ \A s : IsFiniteSet(Dependencies(s))
<1>1. /\ IsFiniteSet(setup.services) /\ IsFiniteSet(DOMAIN setup.deps)
      /\ \A d \in DOMAIN setup.deps : IsFiniteSet(setup.deps[d])
  BY SetupsAssumption
<1>2. IsFiniteSet(Services)
  BY <1>1, FS_Union DEF Services
<1>3. \A s : IsFiniteSet(Dependencies(s))
  BY <1>1, FS_EmptySet DEF Dependencies
<1> QED  BY <1>1, <1>2, <1>3

\* The degrees at the start: nothing is ordered yet (group.go:232-252).
LEMMA SortStartKeeps ==
  ASSUME RolloutInv, SortStart
  PROVE  RolloutInv'
<1>1. /\ pc = "plan" /\ setup.strategy = "group" /\ pc' = "sort"
      /\ inDegree' = [s \in Services |-> Cardinality(Dependencies(s))]
      /\ setup' = setup /\ instances' = instances /\ waves' = waves /\ level' = level /\ sorted' = sorted
      /\ UNCHANGED <<setup, discovery, taken, cancelled, execution>>
  BY DEF SortStart, Services, discovery
<1>2. waves = <<>> /\ sorted = <<>> /\ level = 1 /\ setup \in Setups
  BY <1>1 DEF RolloutInv, PhasesInTurn, SetupGiven
<1>3. SortedServices' = {} /\ Services' = Services
  BY <1>1, <1>2 DEF SortedServices, Services
<1>4. inDegree' \in [Services -> Nat]
  BY <1>1, <1>2, GroupFinite, FS_CardinalityType
<1>5. SortSoFar'
  <2>1. \A s : Dependencies(s)' = Dependencies(s)
    BY <1>1 DEF Dependencies
  <2>2. \A s \in Services : inDegree'[s] = Cardinality(Dependencies(s)' \ {})
    <3>1. \A s : Dependencies(s)' \ {} = Dependencies(s)
      BY <2>1
    <3> QED  BY <1>1, <3>1
  <2> QED  BY <1>1, <1>3, <2>2 DEF SortSoFar, HasPlan
<1>6. LevelsInOrder' /\ LevelsSoFar' /\ WavesInOrder'
  BY <1>1, <1>2 DEF LevelsInOrder, LevelsSoFar, WavesInOrder, HasPlan
<1>7. waves' \in Seq(Waves) /\ sorted' \in Seq(SUBSET Services)
  BY <1>1, <1>2
<1> QED  BY <1>1, <1>2, <1>3, <1>4, <1>5, <1>6, <1>7, GroupKeeps

\* The degrees after one level more: the level is taken from the dependencies of the
\* others (group.go:254-280), and what it depends on is in the levels before.
LEMMA SortWaveKeeps ==
  ASSUME RolloutInv, SortWave
  PROVE  RolloutInv'
<1>1. /\ pc = "sort" /\ pc' = "sort" /\ sorted' = Append(sorted, Ready)
      /\ inDegree' = [s \in DOMAIN inDegree \ Ready |->
                        inDegree[s] - Cardinality(Dependencies(s) \cap Ready)]
      /\ setup' = setup /\ instances' = instances /\ waves' = waves /\ level' = level
      /\ UNCHANGED <<setup, discovery, taken, cancelled, execution>>
  BY DEF SortWave, discovery
<1>2. /\ waves = <<>> /\ level = 1 /\ setup.strategy = "group" /\ setup \in Setups
      /\ sorted \in Seq(SUBSET Services)
  BY <1>1 DEF RolloutInv, PhasesInTurn, SetupGiven, TypeOK
<1>3. /\ DOMAIN inDegree = Services \ SortedServices
      /\ \A s \in DOMAIN inDegree : inDegree[s] = Cardinality(Dependencies(s) \ SortedServices)
  BY <1>1 DEF RolloutInv, SortSoFar
<1>4. PICK ready : ready = Ready
  OBVIOUS
<1>5. ready \subseteq Services /\ ready \cap SortedServices = {} /\ ready \subseteq DOMAIN inDegree
  BY <1>3, <1>4 DEF Ready
<1>6. \A s : IsFiniteSet(Dependencies(s))
  BY <1>2, GroupFinite
<1>7. /\ DOMAIN sorted' = 1 .. Len(sorted) + 1 /\ sorted'[Len(sorted) + 1] = ready
      /\ \A i \in 1 .. Len(sorted) : sorted'[i] = sorted[i]
      /\ DOMAIN sorted = 1 .. Len(sorted) /\ Len(sorted) \in Nat
      /\ sorted' \in Seq(SUBSET Services)
  BY <1>1, <1>2, <1>4, <1>5
<1>8. SortedServices' = SortedServices \cup ready
  BY <1>7 DEF SortedServices
<1>9. ASSUME NEW s \in DOMAIN inDegree
      PROVE  /\ Cardinality(Dependencies(s) \ SortedServices) - Cardinality(Dependencies(s) \cap ready)
                  = Cardinality(Dependencies(s) \ (SortedServices \cup ready))
             /\ Cardinality(Dependencies(s) \ (SortedServices \cup ready)) \in Nat
  <2>1. PICK D : D = Dependencies(s) \ SortedServices
    OBVIOUS
  <2>2. IsFiniteSet(D) /\ IsFiniteSet(D \cap ready) /\ IsFiniteSet(D \ ready)
    BY <2>1, <1>6, FS_Subset
  <2>3. D \cap ready = Dependencies(s) \cap ready
        /\ D \ ready = Dependencies(s) \ (SortedServices \cup ready)
    BY <2>1, <1>5
  <2>4. Cardinality(D \ ready) = Cardinality(D) - Cardinality(D \cap ready)
    BY <2>2, FS_Difference
  <2>5. Cardinality(D \ ready) \in Nat
    BY <2>2, FS_CardinalityType
  <2> QED  BY <2>1, <2>3, <2>4, <2>5
<1>10. /\ inDegree' \in [Services \ SortedServices' -> Nat]
       /\ \A s \in DOMAIN inDegree' : inDegree'[s] = Cardinality(Dependencies(s) \ SortedServices')
  <2>1. \A s \in DOMAIN inDegree :
          inDegree[s] - Cardinality(Dependencies(s) \cap ready)
            = Cardinality(Dependencies(s) \ (SortedServices \cup ready))
    BY <1>3, <1>9
  <2>2. inDegree' = [s \in DOMAIN inDegree \ ready |->
                       Cardinality(Dependencies(s) \ (SortedServices \cup ready))]
    BY <1>1, <1>4, <2>1
  <2>3. DOMAIN inDegree \ ready = Services \ SortedServices'
    BY <1>3, <1>8
  <2> QED  BY <2>2, <2>3, <1>8, <1>9
<1>11. \A s : Dependencies(s)' = Dependencies(s)
  BY <1>1 DEF Dependencies
<1>12. SortSoFar'
  <2>1. Services' = Services
    BY <1>1 DEF Services
  <2> QED  BY <2>1, <1>1, <1>10, <1>11 DEF SortSoFar, HasPlan
<1>13. LevelsInOrder'
  <2>1. ASSUME NEW i \in 1 .. Len(sorted) + 1, NEW s \in sorted'[i], NEW d \in Dependencies(s)
        PROVE  \E j \in 1 .. i - 1 : d \in sorted'[j]
    <3>1. CASE i <= Len(sorted)
      <4>1. i \in DOMAIN sorted /\ s \in sorted[i]
        BY <3>1, <1>7
      <4>2. PICK j \in 1 .. i - 1 : d \in sorted[j]
        BY <4>1 DEF RolloutInv, LevelsInOrder
      <4> QED  BY <4>2, <3>1, <1>7
    <3>2. CASE i = Len(sorted) + 1
      <4>1. s \in ready /\ s \in DOMAIN inDegree /\ inDegree[s] = 0
        BY <3>2, <1>4, <1>7 DEF Ready
      <4>2. Dependencies(s) \ SortedServices = {}
        <5>1. IsFiniteSet(Dependencies(s) \ SortedServices)
          BY <1>6, FS_Subset
        <5> QED  BY <5>1, <4>1, <1>3, FS_EmptySet
      <4>3. PICK j \in DOMAIN sorted : d \in sorted[j]
        BY <4>2 DEF SortedServices
      <4> QED  BY <4>3, <3>2, <1>7
    <3> QED  BY <3>1, <3>2, <1>7
  <2> QED  BY <2>1, <1>7, <1>11 DEF LevelsInOrder
<1>14. LevelsSoFar' /\ WavesInOrder'
  BY <1>1, <1>2 DEF LevelsSoFar, WavesInOrder, HasPlan
<1>15. waves' \in Seq(Waves)
  BY <1>1, <1>2
<1> QED  BY <1>1, <1>2, <1>7, <1>10, <1>12, <1>13, <1>14, <1>15, GroupKeeps

\* The end of the sort counts what is ordered (group.go:282-288).
LEMMA SortEndKeeps ==
  ASSUME RolloutInv, SortEnd
  PROVE  RolloutInv'
<1>1. /\ pc = "sort" /\ setup' = setup /\ waves' = waves /\ level' = level /\ sorted' = sorted
      /\ inDegree' = inDegree
      /\ pc' \in {"group", "stopped"}
      /\ pc' = "group" => Cardinality(SortedServices) = Cardinality(setup.services)
      /\ UNCHANGED <<setup, discovery, taken, cancelled, execution>>
  BY DEF SortEnd, planning
<1>2. /\ waves = <<>> /\ level = 1 /\ setup.strategy = "group"
      /\ sorted \in Seq(SUBSET Services)
      /\ inDegree \in [Services \ SortedServices -> Nat] \/ inDegree = <<>>
  BY <1>1 DEF RolloutInv, PhasesInTurn, SortSoFar, TypeOK
<1>3. SortedServices' = SortedServices
  BY <1>1 DEF SortedServices
<1>4. SortSoFar'
  BY <1>1, <1>3 DEF SortSoFar, HasPlan
<1>5. LevelsInOrder'
  BY <1>1 DEF RolloutInv, LevelsInOrder, Dependencies
<1>6. LevelsSoFar'
  <2>1. level' - 1 = 0 /\ Len(sorted)' \in Nat /\ InWaves' = {}
    BY <1>1, <1>2 DEF InWaves
  <2>2. UpTo(level - 1)' = {}
    BY <2>1 DEF UpTo
  <2>3. InstancesOf(UpTo(level - 1))' = {}
    BY <2>2 DEF InstancesOf
  <2> QED  BY <2>1, <2>3, <1>1 DEF LevelsSoFar, HasPlan
<1>7. WavesInOrder'
  BY <1>1, <1>2 DEF WavesInOrder
<1>8. waves' \in Seq(Waves) /\ sorted' \in Seq(SUBSET Services)
  BY <1>1, <1>2
<1> QED  BY <1>1, <1>2, <1>3, <1>4, <1>5, <1>6, <1>7, <1>8, GroupKeeps

\* The wave of one level: what its services depend on is in an earlier level, whose
\* instances are in the waves before (group.go:117-133).
LEMMA GroupWaveKeeps ==
  ASSUME RolloutInv, GroupWave
  PROVE  RolloutInv'
<1>1. /\ pc = "group" /\ pc' = "group" /\ level <= Len(sorted) /\ level' = level + 1
      /\ waves' = (IF InstancesOf(sorted[level]) = {} THEN waves
                   ELSE Append(waves, Wave(InstancesOf(sorted[level]), TRUE, TRUE)))
      /\ setup' = setup /\ instances' = instances /\ sorted' = sorted /\ inDegree' = inDegree
      /\ UNCHANGED <<setup, discovery, taken, cancelled, execution>>
  BY DEF GroupWave, discovery
<1>2. /\ setup.strategy = "group" /\ level \in Nat \ {0}
      /\ sorted \in Seq(SUBSET Services) /\ waves \in Seq(Waves)
      /\ inDegree \in [Services \ SortedServices -> Nat] \/ inDegree = <<>>
      /\ InWaves = InstancesOf(UpTo(level - 1))
  BY <1>1 DEF RolloutInv, PhasesInTurn, TypeOK, LevelsSoFar
<1>3. level \in DOMAIN sorted /\ level \in 1 .. Len(sorted)
  BY <1>1, <1>2
<1>4. PICK new : new = InstancesOf(sorted[level])
  OBVIOUS
<1>5. /\ SortedServices' = SortedServices /\ \A s : Dependencies(s)' = Dependencies(s)
      /\ \A s : InstancesOf(s)' = InstancesOf(s)
  BY <1>1 DEF SortedServices, Dependencies, InstancesOf
<1>6. SortSoFar' /\ LevelsInOrder'
  <2>1. SortSoFar'
    BY <1>1, <1>5 DEF RolloutInv, SortSoFar, HasPlan
  <2>2. LevelsInOrder'
    BY <1>1, <1>5 DEF RolloutInv, LevelsInOrder
  <2> QED  BY <2>1, <2>2
<1>7. InWaves \cup new = InstancesOf(UpTo(level))
  <2>1. UpTo(level) = UpTo(level - 1) \cup sorted[level]
    <3>1. (1 .. level) = (1 .. level - 1) \cup {level}
      BY <1>2
    <3> QED  BY <3>1 DEF UpTo
  <2> QED  BY <2>1, <1>2, <1>4 DEF InstancesOf
<1>8. ASSUME NEW p \in new, NEW d \in Dependencies(ServiceOf(instances[p].id))
      PROVE  InstancesOf({d}) \subseteq InWaves
  <2>1. ServiceOf(instances[p].id) \in sorted[level]
    BY <1>4, <1>8 DEF InstancesOf
  <2>2. PICK j \in 1 .. level - 1 : d \in sorted[j]
    BY <2>1, <1>3, <1>8 DEF RolloutInv, LevelsInOrder
  <2>3. d \in UpTo(level - 1)
    BY <2>2 DEF UpTo
  <2> QED  BY <2>3, <1>2 DEF InstancesOf
<1>9. /\ waves' \in Seq(Waves) /\ InWaves' = InWaves \cup new /\ WavesInOrder'
  <2>1. CASE new = {}
    <3>1. waves' = waves
      BY <2>1, <1>1, <1>4
    <3>2. \A n : Through(n)' = Through(n)
      BY <3>1 DEF Through
    <3>3. InWaves' = InWaves
      BY <3>1 DEF InWaves
    <3>4. WavesInOrder'
      BY <3>1, <3>2, <1>1, <1>5 DEF RolloutInv, WavesInOrder
    <3> QED  BY <3>1, <3>3, <3>4, <2>1, <1>2
  <2>2. CASE new # {}
    <3>1. PICK w : w = Wave(new, TRUE, TRUE)
      OBVIOUS
    <3>2. waves' = Append(waves, w) /\ w.insts = new /\ w \in Waves
      <4>1. new \subseteq DOMAIN instances
        BY <1>4 DEF InstancesOf
      <4> QED  BY <4>1, <3>1, <2>2, <1>1, <1>4 DEF Wave, Waves
    <3>3. /\ waves' \in Seq(Waves) /\ DOMAIN waves' = 1 .. Len(waves) + 1
          /\ DOMAIN waves = 1 .. Len(waves) /\ Len(waves) \in Nat
          /\ \A k \in 1 .. Len(waves) : waves'[k] = waves[k]
          /\ waves'[Len(waves) + 1] = w
      BY <3>2, <1>2
    <3>4. InWaves' = InWaves \cup new
      BY <3>2, <3>3 DEF InWaves
    <3>5. ASSUME NEW n \in 0 .. Len(waves)
          PROVE  Through(n)' = Through(n)
      BY <3>3 DEF Through
    <3>6. Through(Len(waves)) = InWaves
      BY <3>3 DEF Through, InWaves
    <3>7. ASSUME NEW k \in 1 .. Len(waves) + 1, NEW p \in waves'[k].insts,
                 NEW d \in Dependencies(ServiceOf(instances[p].id))
          PROVE  InstancesOf({d}) \subseteq Through(k - 1)'
      <4>1. k - 1 \in 0 .. Len(waves) /\ Through(k - 1)' = Through(k - 1)
        BY <3>3, <3>5
      <4>2. CASE k <= Len(waves)
        <5>1. k \in DOMAIN waves /\ p \in waves[k].insts
          BY <4>2, <3>3, <3>7
        <5>2. WavesInOrder
          BY DEF RolloutInv
        <5>3. InstancesOf({d}) \subseteq Through(k - 1)
          BY <5>1, <5>2, <3>7, <1>2 DEF WavesInOrder
        <5> QED  BY <5>3, <4>1
      <4>3. CASE k = Len(waves) + 1
        <5>1. p \in new /\ k - 1 = Len(waves)
          BY <4>3, <3>2, <3>3, <3>7
        <5> QED  BY <5>1, <4>1, <3>6, <3>7, <1>8
      <4>4. k <= Len(waves) \/ k = Len(waves) + 1
        BY <3>3
      <4> QED  BY <4>2, <4>3, <4>4
    <3>8. WavesInOrder'
      BY <3>3, <3>7, <1>1, <1>5 DEF WavesInOrder
    <3> QED  BY <3>3, <3>4, <3>8
  <2> QED  BY <2>1, <2>2
<1>10. LevelsSoFar'
  <2>1. level' - 1 = level
    BY <1>1, <1>2
  <2>2. UpTo(level - 1)' = UpTo(level)
    BY <2>1, <1>1 DEF UpTo
  <2>3. InstancesOf(UpTo(level - 1))' = InstancesOf(UpTo(level))
    BY <2>2, <1>1 DEF InstancesOf
  <2> QED  BY <2>1, <2>3, <1>1, <1>7, <1>9 DEF LevelsSoFar, HasPlan
<1>11. level' \in Nat \ {0} /\ pc' # "sort" /\ pc' \in {"sort", "group", "start", "stopped"}
  BY <1>1, <1>2
<1>12. /\ sorted' \in Seq(SUBSET Services)
       /\ inDegree' \in [Services \ SortedServices' -> Nat] \/ inDegree' = <<>>
  BY <1>1, <1>2, <1>5
<1> QED  BY <1>1, <1>2, <1>6, <1>9, <1>10, <1>11, <1>12, GroupKeeps

\* The plan of a group holds the instances of all the services ordered.
LEMMA GroupPlannedKeeps ==
  ASSUME RolloutInv, GroupPlanned
  PROVE  RolloutInv'
<1>1. /\ pc = "group" /\ pc' = "start" /\ level > Len(sorted)
      /\ setup' = setup /\ instances' = instances /\ sorted' = sorted /\ inDegree' = inDegree
      /\ waves' = waves /\ level' = level
      /\ UNCHANGED <<setup, discovery, taken, cancelled, execution>>
  BY DEF GroupPlanned, discovery, planning
<1>2. /\ setup.strategy = "group" /\ level \in Nat \ {0}
      /\ sorted \in Seq(SUBSET Services) /\ waves \in Seq(Waves)
      /\ inDegree \in [Services \ SortedServices -> Nat] \/ inDegree = <<>>
      /\ InWaves = InstancesOf(UpTo(level - 1)) /\ level - 1 <= Len(sorted)
  BY <1>1 DEF RolloutInv, PhasesInTurn, TypeOK, LevelsSoFar
<1>3. UpTo(level - 1) = SortedServices
  <2>1. (1 .. level - 1) = DOMAIN sorted
    BY <1>1, <1>2
  <2> QED  BY <2>1 DEF UpTo, SortedServices
<1>4. /\ SortedServices' = SortedServices /\ InWaves' = InWaves
      /\ \A s : Dependencies(s)' = Dependencies(s)
      /\ \A s : InstancesOf(s)' = InstancesOf(s) /\ \A n : Through(n)' = Through(n)
  BY <1>1 DEF SortedServices, InWaves, Dependencies, InstancesOf, Through
<1>5. SortSoFar' /\ LevelsInOrder' /\ WavesInOrder'
  <2>1. SortSoFar'
    BY <1>1, <1>4 DEF RolloutInv, SortSoFar
  <2>2. LevelsInOrder'
    BY <1>1, <1>4 DEF RolloutInv, LevelsInOrder
  <2>3. WavesInOrder'
    BY <1>1, <1>4 DEF RolloutInv, WavesInOrder
  <2> QED  BY <2>1, <2>2, <2>3
<1>6. LevelsSoFar'
  BY <1>1, <1>2, <1>3, <1>4 DEF LevelsSoFar
<1> QED  BY <1>1, <1>2, <1>4, <1>5, <1>6, GroupKeeps

-------------------------------------------------------------------------------
(* Execution.                                                               *)

\* What is left to show of a step of Execute is how far it is.
LEMMA ExecutionKeeps ==
  ASSUME RolloutInv, UNCHANGED <<setup, discovery, planning>>,
         pc \in Planned, pc' \in Planned, HasPlan' => HasPlan, pc' # "start" \/ pc = "start",
         cancelled' \in BOOLEAN, at' \in Nat \ {0}, late' \in Nat,
         rollback' \in {"none", "requested"}, rotated' \subseteq DOMAIN instances,
         pc' = "start" => rotated' = {} /\ at' = 1,
         RotatedSoFar', LateIsLast'
  PROVE  RolloutInv'
<1>1. /\ setup' = setup /\ validated' = validated /\ instances' = instances /\ canary' = canary
      /\ waves' = waves /\ taken' = taken /\ level' = level /\ inDegree' = inDegree
      /\ sorted' = sorted
  BY DEF discovery, planning
<1>2. /\ Services' = Services /\ Waves' = Waves /\ PoolSize' = PoolSize /\ InWaves' = InWaves
      /\ SortedServices' = SortedServices
      /\ \A s : Dependencies(s)' = Dependencies(s)
      /\ \A s : InstancesOf(s)' = InstancesOf(s)
      /\ \A n : Through(n)' = Through(n) /\ InPool(n)' = InPool(n)
  BY <1>1 DEF Services, Waves, PoolSize, InWaves, SortedServices, Dependencies, InstancesOf,
              Through, InPool
<1>3. TypeOK'
  <2>1. /\ Len(instances) \in Nat /\ DOMAIN instances = 1 .. Len(instances)
        /\ validated \in {"unasked", "accepted", "refused", "panic"}
        /\ canary \in 0 .. Len(instances) /\ taken \in 0 .. PoolSize /\ level \in Nat \ {0}
        /\ waves \in Seq(Waves) /\ sorted \in Seq(SUBSET Services)
        /\ inDegree \in [Services \ SortedServices -> Nat] \/ inDegree = <<>>
    BY DEF RolloutInv, TypeOK
  <2> QED  BY <1>1, <1>2, <2>1 DEF TypeOK
<1>4. PhasesInTurn'
  <2>1. HasPlan /\ setup.strategy # "group" => taken = PoolSize
    BY DEF RolloutInv, PhasesInTurn
  <2> QED  BY <1>1, <1>2, <2>1 DEF PhasesInTurn, Planned
<1>5. WavesSoFar'
  BY <1>1, <1>2 DEF RolloutInv, WavesSoFar
<1>6. SortSoFar' /\ LevelsSoFar'
  <2>1. pc' # "sort" /\ pc' # "group"
    BY DEF Planned
  <2>2. SortSoFar'
    BY <1>1, <1>2, <2>1 DEF RolloutInv, SortSoFar
  <2>3. LevelsSoFar'
    BY <1>1, <1>2, <2>1 DEF RolloutInv, LevelsSoFar
  <2> QED  BY <2>2, <2>3
<1>7. LevelsInOrder' /\ WavesInOrder' /\ SetupGiven'
  <2>1. LevelsInOrder'
    BY <1>1, <1>2 DEF RolloutInv, LevelsInOrder
  <2>2. WavesInOrder'
    BY <1>1, <1>2 DEF RolloutInv, WavesInOrder
  <2> QED  BY <1>1, <2>1, <2>2 DEF RolloutInv, SetupGiven
<1> QED  BY <1>3, <1>4, <1>5, <1>6, <1>7 DEF RolloutInv

\* One more wave is rotated: Through grows by it.
LEMMA ThroughNext ==
  ASSUME NEW n \in Nat
  PROVE  Through(n + 1) = Through(n) \cup waves[n + 1].insts
<1>1. (1 .. n + 1) = (1 .. n) \cup {n + 1}
  OBVIOUS
<1> QED  BY <1>1 DEF Through

\* Every step of Execute, and a cancellation at any moment, keeps the invariant.
LEMMA ExecutionSteps ==
  ASSUME RolloutInv,
         \/ Cancel \/ ExecuteStart \/ RotateWave \/ MonitorPassed
         \/ CanaryMonitorFailed \/ PercentageMonitorFailed \/ GroupMonitorFailed
         \/ GroupVerify \/ WaitOver \/ WaitCancelled
  PROVE  RolloutInv'
<1>1. /\ at \in Nat \ {0} /\ late \in Nat /\ rollback \in {"none", "requested"}
      /\ rotated \subseteq DOMAIN instances /\ cancelled \in BOOLEAN
      /\ waves \in Seq(Waves)
  BY DEF RolloutInv, TypeOK
<1>2. pc = "start" => rotated = {} /\ at = 1
  BY DEF RolloutInv, PhasesInTurn
<1>3. RotatedSoFar /\ LateIsLast
  BY DEF RolloutInv
<1>4. DOMAIN waves = 1 .. Len(waves) /\ Len(waves) \in Nat
  BY <1>1
<1> DEFINE Monitored == setup.monitored /\ \A i \in DOMAIN waves : waves[i].health
<1>5. Monitored => late = 0 \/ (late = 1 /\ cancelled /\ pc \in {"monitor", "stopped"})
  BY <1>3 DEF LateIsLast
\* The plan does not change, so that what is rotated is measured by the same waves.
<1>6. ASSUME waves' = waves, setup' = setup
      PROVE  (\A n : Through(n)' = Through(n)) /\ (Monitored' <=> Monitored)
  BY <1>6 DEF Through
<1>7. CASE Cancel
  <2>1. /\ pc' = pc /\ pc \in Planned /\ cancelled' /\ cancelled' \in BOOLEAN
        /\ at' = at /\ rotated' = rotated /\ late' = late /\ rollback' = rollback
        /\ waves' = waves /\ setup' = setup
        /\ UNCHANGED <<setup, discovery, planning>>
    BY <1>7 DEF Cancel, execution, planning
  <2>2. RotatedSoFar'
    BY <2>1, <1>3, <1>6 DEF RotatedSoFar
  <2>3. LateIsLast'
    BY <2>1, <1>3 DEF LateIsLast
  <2> QED  BY <2>1, <2>2, <2>3, <1>1, <1>2, ExecutionKeeps DEF HasPlan
<1>8. CASE ExecuteStart
  <2>1. /\ pc = "start" /\ pc' \in {"stopped", "rotate"} /\ cancelled' = cancelled
        /\ pc' = "rotate" => waves # <<>>
        /\ at' = at /\ rotated' = rotated /\ late' = late /\ rollback' = rollback
        /\ waves' = waves /\ setup' = setup
        /\ UNCHANGED <<setup, discovery, planning>>
    BY <1>8 DEF ExecuteStart, Stays, execution, planning
  <2>2. RotatedSoFar'
    <3>1. rotated' = Through(0)' /\ 0 \in 0 .. Len(waves)'
      BY <2>1, <1>2, <1>4 DEF Through
    <3>2. pc' = "rotate" => at' \in DOMAIN waves' /\ at' - 1 = 0
      BY <2>1, <1>1, <1>2
    <3> QED  BY <2>1, <3>1, <3>2 DEF RotatedSoFar
  <2>3. LateIsLast'
    BY <2>1, <1>3 DEF LateIsLast
  <2> QED  BY <2>1, <2>2, <2>3, <1>1, <1>2, ExecutionKeeps DEF HasPlan, Planned
<1>9. CASE RotateWave
  <2>1. /\ pc = "rotate" /\ pc' = "monitor" /\ cancelled' = cancelled
        /\ rotated' = rotated \cup waves[at].insts
        /\ late' = (IF cancelled THEN late + 1 ELSE late)
        /\ at' = at /\ rollback' = rollback /\ waves' = waves /\ setup' = setup
        /\ UNCHANGED <<setup, discovery, planning>>
    BY <1>9 DEF RotateWave, Stays, planning
  <2>2. at \in 1 .. Len(waves) /\ rotated = Through(at - 1)
    BY <2>1, <1>3, <1>4 DEF RotatedSoFar
  <2>3. rotated' = Through(at)
    <3>1. at - 1 \in Nat /\ (at - 1) + 1 = at
      BY <2>2
    <3> QED  BY <2>1, <2>2, <3>1, ThroughNext
  <2>4. waves[at] \in Waves /\ waves[at].insts \subseteq DOMAIN instances
    <3>1. waves[at] \in Waves
      BY <2>2, <1>1
    <3> QED  BY <3>1 DEF Waves
  <2>5. RotatedSoFar'
    <3>1. rotated' = Through(at)' /\ at' \in DOMAIN waves' /\ at \in 0 .. Len(waves)'
      BY <2>1, <2>2, <2>3, <1>4, <1>6
    <3> QED  BY <2>1, <3>1 DEF RotatedSoFar
  <2>6. LateIsLast'
    BY <2>1, <1>1, <1>5 DEF LateIsLast
  <2>7. late' \in Nat /\ rotated' \subseteq DOMAIN instances
    BY <2>1, <2>4, <1>1
  <2> QED  BY <2>1, <2>5, <2>6, <2>7, <1>1, ExecutionKeeps DEF HasPlan, Planned
<1>10. CASE MonitorPassed
  <2>1. /\ pc = "monitor" /\ pc' \in {"verify", "wait"} /\ cancelled' = cancelled
        /\ at' = at /\ rotated' = rotated /\ late' = late /\ rollback' = rollback
        /\ waves' = waves /\ setup' = setup
        /\ setup.monitored /\ waves[at].health => ~ cancelled
        /\ UNCHANGED <<setup, discovery, planning>>
    BY <1>10 DEF MonitorPassed, Healthy, Stays, execution, planning
  <2>2. at \in DOMAIN waves
    BY <2>1, <1>3 DEF RotatedSoFar
  <2>3. RotatedSoFar'
    BY <2>1, <1>3, <1>6 DEF RotatedSoFar
  <2>4. LateIsLast'
    BY <2>1, <2>2, <1>5 DEF LateIsLast
  <2> QED  BY <2>1, <2>3, <2>4, <1>1, ExecutionKeeps DEF HasPlan, Planned
<1>11. CASE CanaryMonitorFailed \/ PercentageMonitorFailed \/ GroupMonitorFailed \/ WaitCancelled
  <2>1. /\ pc \in {"monitor", "wait"} /\ pc' = "stopped" /\ cancelled' = cancelled
        /\ at' = at /\ rotated' = rotated /\ late' = late /\ rollback' \in {rollback, "requested"}
        /\ waves' = waves /\ setup' = setup
        /\ UNCHANGED <<setup, discovery, planning>>
    BY <1>11 DEF CanaryMonitorFailed, PercentageMonitorFailed, GroupMonitorFailed, WaitCancelled,
                 Stays, execution, planning
  <2>2. RotatedSoFar'
    BY <2>1, <1>3, <1>6 DEF RotatedSoFar
  <2>3. LateIsLast'
    BY <2>1, <1>3 DEF LateIsLast
  <2> QED  BY <2>1, <2>2, <2>3, <1>1, ExecutionKeeps DEF HasPlan, Planned
<1>12. CASE GroupVerify
  <2>1. /\ pc = "verify" /\ pc' = "wait" /\ cancelled' = cancelled
        /\ at' = at /\ rotated' = rotated /\ late' = late /\ rollback' = rollback
        /\ waves' = waves /\ setup' = setup
        /\ UNCHANGED <<setup, discovery, planning>>
    BY <1>12 DEF GroupVerify, Stays, execution, planning
  <2>2. RotatedSoFar'
    BY <2>1, <1>3, <1>6 DEF RotatedSoFar
  <2>3. LateIsLast'
    BY <2>1, <1>5 DEF LateIsLast
  <2> QED  BY <2>1, <2>2, <2>3, <1>1, ExecutionKeeps DEF HasPlan, Planned
<1>13. CASE WaitOver
  <2>1. /\ pc = "wait" /\ cancelled' = cancelled
        /\ rotated' = rotated /\ late' = late /\ rollback' = rollback
        /\ waves' = waves /\ setup' = setup
        /\ \/ pc' = "completed" /\ at' = at
           \/ pc' = "rotate" /\ at # Len(waves) /\ at' = at + 1
        /\ UNCHANGED <<setup, discovery, planning>>
    BY <1>13 DEF WaitOver, NextWave, Stays, planning
  <2>2. at \in 1 .. Len(waves) /\ rotated = Through(at)
    BY <2>1, <1>3, <1>4 DEF RotatedSoFar
  <2>3. RotatedSoFar'
    <3>1. CASE pc' = "completed"
      BY <2>1, <3>1, <1>3, <1>6 DEF RotatedSoFar
    <3>2. CASE pc' = "rotate"
      <4>1. at' \in DOMAIN waves' /\ at' - 1 = at /\ at \in 0 .. Len(waves)
        <5>1. at' = at + 1 /\ at # Len(waves) /\ waves' = waves
          BY <2>1, <3>2
        <5>2. PICK m, n : m = at /\ n = Len(waves)
          OBVIOUS
        <5>3. m \in 1 .. n /\ n \in Nat /\ m # n
          BY <5>1, <5>2, <2>2, <1>4
        <5>4. m + 1 \in 1 .. n /\ m \in 0 .. n /\ (m + 1) - 1 = m
          BY <5>3
        <5> QED  BY <5>1, <5>2, <5>4, <1>4
      <4>2. Through(at - 1)' = Through(at)
        <5>1. Through(at - 1)' = UNION {waves[k].insts : k \in 1 .. at' - 1}
          BY <2>1 DEF Through
        <5> QED  BY <4>1, <5>1 DEF Through
      <4>3. \E n \in 0 .. Len(waves)' : rotated' = Through(n)'
        <5>1. PICK n : n = at
          OBVIOUS
        <5>2. rotated' = Through(n)' /\ n \in 0 .. Len(waves)'
          BY <2>1, <2>2, <4>1, <5>1, <1>6
        <5> QED  BY <5>2
      <4> QED  BY <2>1, <2>2, <3>2, <4>1, <4>2, <4>3 DEF RotatedSoFar
    <3> QED  BY <2>1, <3>1, <3>2
  <2>4. LateIsLast'
    BY <2>1, <1>5 DEF LateIsLast
  <2>5. at' \in Nat \ {0}
    BY <2>1, <1>1
  <2> QED  BY <2>1, <2>3, <2>4, <2>5, <1>1, ExecutionKeeps DEF HasPlan, Planned
<1> QED  BY <1>7, <1>8, <1>9, <1>10, <1>11, <1>12, <1>13

-------------------------------------------------------------------------------
(* The theorems.                                                            *)

\* A step that changes nothing keeps the invariant.
LEMMA StutterKeeps ==
  ASSUME RolloutInv, UNCHANGED vars
  PROVE  RolloutInv'
<1>1. /\ setup' = setup /\ validated' = validated /\ instances' = instances /\ canary' = canary
      /\ waves' = waves /\ taken' = taken /\ level' = level /\ inDegree' = inDegree
      /\ sorted' = sorted /\ cancelled' = cancelled /\ at' = at /\ rotated' = rotated
      /\ late' = late /\ rollback' = rollback /\ pc' = pc
  BY DEF vars, discovery, planning, execution
<1>2. /\ Services' = Services /\ Waves' = Waves /\ PoolSize' = PoolSize /\ InWaves' = InWaves
      /\ SortedServices' = SortedServices /\ HasPlan' = HasPlan
      /\ \A s : Dependencies(s)' = Dependencies(s)
      /\ \A s : InstancesOf(s)' = InstancesOf(s)
      /\ \A n : Through(n)' = Through(n) /\ UpTo(n)' = UpTo(n) /\ InPool(n)' = InPool(n)
  BY <1>1 DEF Services, Waves, PoolSize, InWaves, SortedServices, HasPlan, Dependencies,
              InstancesOf, Through, UpTo, InPool
<1>3. SetupGiven' /\ TypeOK'
  BY <1>1, <1>2 DEF RolloutInv, SetupGiven, TypeOK
<1>4. PhasesInTurn' /\ WavesSoFar'
  BY <1>1, <1>2 DEF RolloutInv, PhasesInTurn, WavesSoFar
<1>5. SortSoFar' /\ LevelsInOrder'
  BY <1>1, <1>2 DEF RolloutInv, SortSoFar, LevelsInOrder
<1>6. LevelsSoFar'
  <2>1. InstancesOf(UpTo(level - 1))' = InstancesOf(UpTo(level - 1))
    BY <1>1 DEF InstancesOf, UpTo
  <2> QED  BY <1>1, <1>2, <2>1 DEF RolloutInv, LevelsSoFar
<1>7. WavesInOrder'
  BY <1>1, <1>2 DEF RolloutInv, WavesInOrder
<1>8. RotatedSoFar' /\ LateIsLast'
  <2>1. Through(at)' = Through(at) /\ Through(at - 1)' = Through(at - 1)
    BY <1>1 DEF Through
  <2> QED  BY <1>1, <1>2, <2>1 DEF RolloutInv, RotatedSoFar, LateIsLast
<1> QED  BY <1>3, <1>4, <1>5, <1>6, <1>7, <1>8 DEF RolloutInv

\* Every reachable state satisfies the invariant.
LEMMA RolloutInvariant == Spec => []RolloutInv
<1>1. Init => RolloutInv
  BY InitRollout
<1>2. RolloutInv /\ [Next]_vars => RolloutInv'
  <2> SUFFICES ASSUME RolloutInv, [Next]_vars PROVE RolloutInv'
    OBVIOUS
  <2>1. ASSUME UNCHANGED vars PROVE RolloutInv'
    BY <2>1, StutterKeeps
  <2>2. CASE Validate \/ Discover \/ ReadInstance \/ ReadAll \/ PlanRefused
    BY <2>2, DiscoverySteps
  <2>3. CASE PlanCanary \/ PlanPercentage \/ FillLevel \/ FillRest
    BY <2>3, PlanningSteps
  <2>4. CASE SortStart \/ SortWave \/ SortEnd \/ GroupWave \/ GroupPlanned
    BY <2>4, SortStartKeeps, SortWaveKeeps, SortEndKeeps, GroupWaveKeeps, GroupPlannedKeeps
  <2>5. CASE \/ Cancel \/ ExecuteStart \/ RotateWave \/ MonitorPassed
             \/ CanaryMonitorFailed \/ PercentageMonitorFailed \/ GroupMonitorFailed
             \/ GroupVerify \/ WaitOver \/ WaitCancelled
    BY <2>5, ExecutionSteps
  <2>6. CASE Terminated
    BY <2>6, <2>1 DEF Terminated
  <2> QED  BY <2>1, <2>2, <2>3, <2>4, <2>5, <2>6 DEF Next
<1> QED  BY <1>1, <1>2, PTL DEF Spec

\* A plan that is made leaves nothing out and takes nothing twice, however the percentages
\* round and whatever the dependencies are (canary.go:214-279, percentage.go:221-288,
\* group.go:99-136).
THEOREM PlansAreSound == Spec => []PlanIsSound
<1>1. RolloutInv => PlanIsSound
  <2> SUFFICES ASSUME RolloutInv PROVE PlanIsSound
    OBVIOUS
  <2>1. TypeOK /\ WavesSoFar
    BY DEF RolloutInv
  <2>2. PlanIsPartition
    <3> SUFFICES ASSUME HasPlan, setup.strategy # "group" PROVE InWaves = DOMAIN instances
      BY <2>1 DEF PlanIsPartition, WavesSoFar
    <3>1. taken = PoolSize
      BY DEF RolloutInv, PhasesInTurn
    <3> QED  BY <2>1, <3>1, PoolNumbered DEF WavesSoFar
  <2>3. GroupIsWhole
    <3> SUFFICES ASSUME setup.strategy = "group", HasPlan,
                        \A s \in DOMAIN setup.deps :
                          s \in setup.services /\ setup.deps[s] \subseteq setup.services
                 PROVE  InWaves = InstancesOf(setup.services)
      BY DEF GroupIsWhole
    <3>1. /\ InWaves = InstancesOf(SortedServices)
          /\ Cardinality(SortedServices) = Cardinality(setup.services)
      BY DEF RolloutInv, LevelsSoFar, SortSoFar
    <3>2. SortedServices \subseteq setup.services
      <4>1. Services = setup.services
        BY DEF Services
      <4>2. \A i \in DOMAIN sorted : sorted[i] \subseteq Services
        BY <2>1 DEF TypeOK
      <4> QED  BY <4>1, <4>2 DEF SortedServices
    <3>3. IsFiniteSet(setup.services)
      BY GroupFinite DEF RolloutInv, SetupGiven
    <3>4. SortedServices = setup.services
      BY <3>1, <3>2, <3>3, FS_Subset
    <3> QED  BY <3>1, <3>4
  <2> QED  BY <2>1, <2>2, <2>3 DEF PlanIsSound
<1> QED  BY <1>1, RolloutInvariant, PTL

\* An instance of a group is rotated after the instances of what its service depends on,
\* for any dependencies, circular or unlisted ones included (group.go:232-288).
THEOREM DependenciesComeFirst == Spec => []DependenciesFirst
<1>1. RolloutInv => DependenciesFirst
  <2> SUFFICES ASSUME RolloutInv, setup.strategy = "group", NEW p \in rotated,
                      NEW d \in Dependencies(ServiceOf(instances[p].id))
               PROVE  InstancesOf({d}) \subseteq rotated
    BY DEF DependenciesFirst
  <2>1. PICK n \in 0 .. Len(waves) : rotated = Through(n)
    BY DEF RolloutInv, RotatedSoFar
  <2>2. PICK k \in 1 .. n : p \in waves[k].insts
    BY <2>1 DEF Through
  <2>3. DOMAIN waves = 1 .. Len(waves) /\ Len(waves) \in Nat
    BY DEF RolloutInv, TypeOK
  <2>4. k \in DOMAIN waves /\ (1 .. k - 1) \subseteq (1 .. n)
    BY <2>2, <2>3
  <2>5. InstancesOf({d}) \subseteq Through(k - 1)
    BY <2>2, <2>4 DEF RolloutInv, WavesInOrder
  <2>6. Through(k - 1) \subseteq Through(n)
    BY <2>4 DEF Through
  <2> QED  BY <2>1, <2>5, <2>6
<1> QED  BY <1>1, RolloutInvariant, PTL

\* Where every wave is monitored, at most the wave that was decided on is rotated after
\* the cancellation (canary.go:290-316).
THEOREM CancellationStops == Spec => []CancelStopsRollout
<1>1. RolloutInv => CancelStopsRollout
  BY DEF RolloutInv, LateIsLast, CancelStopsRollout
<1> QED  BY <1>1, RolloutInvariant, PTL

\* Both together: what is executed comes in the order of the dependencies, and ends with the
\* context.
THEOREM ExecutionsAreSound == Spec => []ExecutionIsSound
<1>1. DependenciesFirst /\ CancelStopsRollout => ExecutionIsSound
  BY DEF ExecutionIsSound
<1> QED  BY <1>1, DependenciesComeFirst, CancellationStops, PTL

-------------------------------------------------------------------------------
(***************************************************************************)
(* A rollout implements StagedRollout.  RolloutInv tells what is in earlier   *)
(* waves; that an instance is in one wave only is said of canary and         *)
(* percentage plans by WavesSoFar, and has to be said of a group, where it   *)
(* follows from its levels.                                                *)
(***************************************************************************)

\* The canary has the first wave to itself.
CanaryLeads ==
  setup.strategy = "canary" =>
    /\ pc = "fill" => waves # <<>>
    /\ waves # <<>> => waves[1].insts = {canary}

\* A service is in one level, and an instance of a group in one wave.
LevelsApart == \A i, j \in DOMAIN sorted : i # j => sorted[i] \cap sorted[j] = {}

GroupApart ==
  setup.strategy = "group" =>
    \A i, j \in DOMAIN waves : i # j => waves[i].insts \cap waves[j].insts = {}

ApartInv == CanaryLeads /\ LevelsApart /\ GroupApart

\* A step that makes no level and no wave keeps them apart.
LEMMA ApartKept ==
  ASSUME ApartInv, UNCHANGED <<setup, canary, waves, sorted>>,
         pc' = "fill" => pc = "fill" \/ setup.strategy # "canary"
  PROVE  ApartInv'
BY DEF ApartInv, CanaryLeads, LevelsApart, GroupApart

\* One more wave of a canary or percentage plan comes behind the canary's own.
LEMMA ApartFilled ==
  ASSUME RolloutInv, ApartInv, FillLevel \/ FillRest
  PROVE  ApartInv'
<1>1. /\ pc = "fill" /\ setup' = setup /\ canary' = canary /\ sorted' = sorted
      /\ waves \in Seq(Waves) /\ setup.strategy # "group"
  BY DEF FillLevel, FillRest, discovery, RolloutInv, TypeOK, PhasesInTurn
<1>2. \E w : waves' = waves \/ waves' = Append(waves, w)
  BY DEF FillLevel, FillRest, Fill
<1>3. PICK w : waves' = waves \/ waves' = Append(waves, w)
  BY <1>2
<1>4. waves # <<>> => waves' # <<>> /\ waves'[1] = waves[1]
  BY <1>1, <1>3
<1>5. CanaryLeads'
  BY <1>1, <1>4 DEF ApartInv, CanaryLeads
<1> QED  BY <1>1, <1>5 DEF ApartInv, LevelsApart, GroupApart

\* A level takes services that are in none.
LEMMA ApartSorted ==
  ASSUME RolloutInv, ApartInv, SortWave
  PROVE  ApartInv'
<1>1. /\ pc = "sort" /\ pc' = "sort" /\ sorted' = Append(sorted, Ready)
      /\ setup' = setup /\ canary' = canary /\ waves' = waves
      /\ sorted \in Seq(SUBSET Services) /\ DOMAIN inDegree = Services \ SortedServices
  BY DEF SortWave, discovery, RolloutInv, TypeOK, SortSoFar
<1>2. PICK ready : ready = Ready
  OBVIOUS
<1>3. ready \cap SortedServices = {}
  BY <1>1, <1>2 DEF Ready
<1>4. /\ DOMAIN sorted' = 1 .. Len(sorted) + 1 /\ sorted'[Len(sorted) + 1] = ready
      /\ DOMAIN sorted = 1 .. Len(sorted) /\ Len(sorted) \in Nat
      /\ \A i \in 1 .. Len(sorted) : sorted'[i] = sorted[i]
  BY <1>1, <1>2
<1>5. \A i \in 1 .. Len(sorted) : sorted[i] \cap ready = {}
  BY <1>3, <1>4 DEF SortedServices
<1>6. LevelsApart'
  <2>1. \A i, j \in 1 .. Len(sorted) : i # j => sorted[i] \cap sorted[j] = {}
    BY <1>4 DEF ApartInv, LevelsApart
  <2> SUFFICES ASSUME NEW i \in 1 .. Len(sorted) + 1, NEW j \in 1 .. Len(sorted) + 1, i # j
               PROVE  sorted'[i] \cap sorted'[j] = {}
    BY <1>4 DEF LevelsApart
  <2>2. CASE i = Len(sorted) + 1
    <3>1. j \in 1 .. Len(sorted)
      BY <2>2, <1>4
    <3> QED  BY <3>1, <2>2, <1>4, <1>5
  <2>3. CASE j = Len(sorted) + 1
    <3>1. i \in 1 .. Len(sorted)
      BY <2>3, <1>4
    <3> QED  BY <3>1, <2>3, <1>4, <1>5
  <2>4. CASE i # Len(sorted) + 1 /\ j # Len(sorted) + 1
    <3>1. i \in 1 .. Len(sorted) /\ j \in 1 .. Len(sorted)
      BY <2>4, <1>4
    <3> QED  BY <3>1, <2>1, <1>4
  <2> QED  BY <2>2, <2>3, <2>4
<1> QED  BY <1>1, <1>6 DEF ApartInv, CanaryLeads, GroupApart

\* The wave of a level takes instances whose services are in no level before.
LEMMA ApartGrouped ==
  ASSUME RolloutInv, ApartInv, GroupWave
  PROVE  ApartInv'
<1>1. /\ pc = "group" /\ pc' = "group" /\ level <= Len(sorted)
      /\ waves' = (IF InstancesOf(sorted[level]) = {} THEN waves
                   ELSE Append(waves, Wave(InstancesOf(sorted[level]), TRUE, TRUE)))
      /\ setup' = setup /\ canary' = canary /\ sorted' = sorted
  BY DEF GroupWave, discovery
<1>2. /\ setup.strategy = "group" /\ level \in Nat \ {0}
      /\ sorted \in Seq(SUBSET Services) /\ waves \in Seq(Waves)
      /\ InWaves = InstancesOf(UpTo(level - 1))
  BY <1>1 DEF RolloutInv, PhasesInTurn, TypeOK, LevelsSoFar
<1>3. PICK new : new = InstancesOf(sorted[level])
  OBVIOUS
<1>4. sorted[level] \cap UpTo(level - 1) = {}
  <2>1. \A j \in 1 .. level - 1 : j \in DOMAIN sorted /\ level \in DOMAIN sorted /\ j # level
    BY <1>1, <1>2
  <2>2. \A j \in 1 .. level - 1 : sorted[level] \cap sorted[j] = {}
    BY <2>1 DEF ApartInv, LevelsApart
  <2> QED  BY <2>2 DEF UpTo
<1>5. new \cap InWaves = {}
  BY <1>2, <1>3, <1>4 DEF InstancesOf
<1>6. \A i \in DOMAIN waves : waves[i].insts \cap new = {}
  BY <1>5 DEF InWaves
<1>7. \A i, j \in DOMAIN waves : i # j => waves[i].insts \cap waves[j].insts = {}
  BY <1>2 DEF ApartInv, GroupApart
<1>8. GroupApart'
  <2>1. CASE new = {}
    BY <2>1, <1>1, <1>3, <1>7 DEF GroupApart
  <2>2. CASE new # {}
    <3>1. PICK w : w = Wave(new, TRUE, TRUE)
      OBVIOUS
    <3>2. waves' = Append(waves, w) /\ w.insts = new
      BY <3>1, <2>2, <1>1, <1>3 DEF Wave
    <3>3. /\ DOMAIN waves' = DOMAIN waves \cup {Len(waves) + 1}
          /\ \A k \in DOMAIN waves : waves'[k] = waves[k]
          /\ waves'[Len(waves) + 1] = w
      BY <3>2, <1>2
    <3>4. \A i, j \in DOMAIN waves' : i # j => waves'[i].insts \cap waves'[j].insts = {}
      BY <3>2, <3>3, <1>6, <1>7
    <3> QED  BY <3>4 DEF GroupApart
  <2> QED  BY <2>1, <2>2
<1> QED  BY <1>1, <1>2, <1>8 DEF ApartInv, CanaryLeads, LevelsApart

\* In every reachable state the levels and the waves are apart.
LEMMA ApartInvariant == Spec => []ApartInv
<1>1. Init => ApartInv
  <2> SUFFICES ASSUME Init PROVE ApartInv
    OBVIOUS
  <2>1. waves = <<>> /\ sorted = <<>> /\ pc = "validate"
    BY DEF Init
  <2> QED  BY <2>1 DEF ApartInv, CanaryLeads, LevelsApart, GroupApart
<1>2. RolloutInv /\ ApartInv /\ [Next]_vars => ApartInv'
  <2> SUFFICES ASSUME RolloutInv, ApartInv, [Next]_vars PROVE ApartInv'
    OBVIOUS
  <2>1. ASSUME UNCHANGED vars PROVE ApartInv'
    <3>1. UNCHANGED <<setup, canary, waves, sorted>> /\ pc' = pc
      BY <2>1 DEF vars, discovery, planning
    <3> QED  BY <3>1, ApartKept
  <2>2. CASE \/ Validate \/ Discover \/ ReadInstance \/ ReadAll \/ PlanRefused \/ PlanPercentage
             \/ SortStart \/ SortEnd \/ GroupPlanned
    <3>1. /\ UNCHANGED <<setup, canary, waves, sorted>>
          /\ pc' = "fill" => setup.strategy = "percentage" \/ pc = "fill"
      BY <2>2 DEF Validate, Discover, ReadInstance, ReadAll, PlanRefused, PlanPercentage,
                  SortStart, SortEnd, GroupPlanned, discovery, planning
    <3> QED  BY <3>1, ApartKept
  <2>3. CASE PlanCanary
    <3>1. PICK w : waves' = <<w>> /\ w.insts = {canary'} /\ setup' = setup /\ sorted' = sorted
                   /\ setup.strategy = "canary"
      BY <2>3 DEF PlanCanary, Wave
    <3>2. waves' # <<>> /\ waves'[1] = w
      BY <3>1
    <3> QED  BY <3>1, <3>2 DEF ApartInv, CanaryLeads, LevelsApart, GroupApart
  <2>4. CASE FillLevel \/ FillRest
    BY <2>4, ApartFilled
  <2>5. CASE SortWave \/ GroupWave
    BY <2>5, ApartSorted, ApartGrouped
  <2>6. CASE \/ Cancel \/ ExecuteStart \/ RotateWave \/ MonitorPassed
             \/ CanaryMonitorFailed \/ PercentageMonitorFailed \/ GroupMonitorFailed
             \/ GroupVerify \/ WaitOver \/ WaitCancelled
    <3>1. UNCHANGED <<setup, canary, waves, sorted>> /\ (pc' = "fill" => pc = "fill")
      BY <2>6 DEF Cancel, ExecuteStart, RotateWave, MonitorPassed, CanaryMonitorFailed,
                  PercentageMonitorFailed, GroupMonitorFailed, GroupVerify, WaitOver, NextWave,
                  WaitCancelled, Stays, discovery, planning
    <3> QED  BY <3>1, ApartKept
  <2>7. CASE Terminated
    BY <2>7, <2>1 DEF Terminated
  <2> QED  BY <2>1, <2>2, <2>3, <2>4, <2>5, <2>6, <2>7 DEF Next
<1> QED  BY <1>1, <1>2, RolloutInvariant, PTL DEF Spec

\* Whoever is in a wave, what it waits for is in earlier waves, and so in the plan.
LEMMA AwaitedEarlier ==
  ASSUME RolloutInv, ApartInv
  PROVE  /\ \A k \in DOMAIN waves : \A i \in waves[k].insts : AwaitedBy(i) \subseteq Through(k - 1)
         /\ \A k \in DOMAIN waves : Through(k - 1) \subseteq InWaves
<1>1. DOMAIN waves = 1 .. Len(waves) /\ Len(waves) \in Nat
  BY DEF RolloutInv, TypeOK
<1>2. setup.strategy \in {"canary", "percentage", "group"}
  BY SetupsAssumption DEF RolloutInv, SetupGiven
<1>3. ASSUME NEW k \in DOMAIN waves
      PROVE  Through(k - 1) \subseteq InWaves
  BY <1>1 DEF Through, InWaves
<1>4. ASSUME NEW k \in DOMAIN waves, NEW i \in waves[k].insts
      PROVE  AwaitedBy(i) \subseteq Through(k - 1)
  <2>1. CASE setup.strategy = "canary"
    <3>1. waves[1].insts = {canary}
      BY <2>1, <1>1, <1>4 DEF ApartInv, CanaryLeads
    <3>2. CASE k = 1
      BY <2>1, <3>1, <3>2, <1>4 DEF AwaitedBy
    <3>3. CASE k # 1
      <4>1. 1 \in 1 .. k - 1
        BY <3>3, <1>1, <1>4
      <4> QED  BY <2>1, <3>1, <4>1 DEF AwaitedBy, Through
    <3> QED  BY <3>2, <3>3
  <2>2. CASE setup.strategy = "group"
    <3>1. \A d \in Dependencies(ServiceOf(instances[i].id)) : InstancesOf({d}) \subseteq Through(k - 1)
      BY <2>2, <1>4 DEF RolloutInv, WavesInOrder
    <3> QED  BY <2>2, <3>1 DEF AwaitedBy, InstancesOf
  <2>3. CASE setup.strategy = "percentage"
    BY <2>3 DEF AwaitedBy
  <2> QED  BY <1>2, <2>1, <2>2, <2>3
<1> QED  BY <1>3, <1>4

\* What is planned: positions of the list, and none that waits for one that is not planned.
PlanClosed == InWaves \subseteq Nat /\ \A i \in InWaves : AwaitedBy(i) \subseteq InWaves

LEMMA PlanIsClosed == RolloutInv /\ ApartInv => PlanClosed
<1> SUFFICES ASSUME RolloutInv, ApartInv PROVE PlanClosed
  OBVIOUS
<1>1. ASSUME NEW k \in DOMAIN waves
      PROVE  waves[k].insts \subseteq Nat
  <2>1. waves[k] \in Waves /\ DOMAIN instances = 1 .. Len(instances)
    BY <1>1 DEF RolloutInv, TypeOK
  <2> QED  BY <2>1 DEF Waves
<1>2. ASSUME NEW i \in InWaves
      PROVE  AwaitedBy(i) \subseteq InWaves
  <2>1. PICK k \in DOMAIN waves : i \in waves[k].insts
    BY <1>2 DEF InWaves
  <2>2. AwaitedBy(i) \subseteq Through(k - 1) /\ Through(k - 1) \subseteq InWaves
    BY <2>1, AwaitedEarlier
  <2> QED  BY <2>2
<1>3. InWaves \subseteq Nat
  BY <1>1 DEF InWaves
<1> QED  BY <1>2, <1>3 DEF PlanClosed

\* The instances of one wave are in no other, whatever the strategy.
LEMMA WavesApart ==
  ASSUME RolloutInv, ApartInv
  PROVE  \A i, j \in DOMAIN waves : i # j => waves[i].insts \cap waves[j].insts = {}
BY DEF RolloutInv, WavesSoFar, ApartInv, GroupApart

InPlanning == {"validate", "discover", "read", "plan", "fill", "sort", "group"}
InRollout  == {"start", "rotate", "monitor", "verify", "wait"}

\* Before the plan is made nothing is settled.
LEMMA PlanningIsUnseen ==
  ASSUME pc \in InPlanning, pc' \in InPlanning, UNCHANGED rotated
  PROVE  UNCHANGED <<Phase, InPlan, Awaits, rotated>>
<1>1. Phase = "planning" /\ InPlan = {} /\ Phase' = "planning" /\ InPlan' = {}
  BY DEF InPlanning, Phase, InPlan, Planned
<1>2. Awaits = <<>> /\ Awaits' = <<>>
  BY <1>1 DEF Awaits
<1> QED  BY <1>1, <1>2

\* A rollout given up while it is planned has no wave, and stops.
LEMMA PlanningStops ==
  ASSUME pc \in InPlanning, pc' = "stopped", waves' = <<>>, UNCHANGED rotated
  PROVE  Staged!Stop
<1>1. Phase = "planning" /\ InPlan = {} /\ Phase' = "stopped" /\ InPlan' = InWaves'
  BY DEF InPlanning, Phase, InPlan, Planned
<1>2. InWaves' = {}
  BY DEF InWaves
<1>3. Awaits = <<>> /\ Awaits' = <<>>
  BY <1>1, <1>2 DEF Awaits
<1> QED  BY <1>1, <1>2, <1>3 DEF Staged!Stop

\* The plan is made: the fleet and what each instance waits for are settled.
LEMMA PlanningSettles ==
  ASSUME pc \in InPlanning, pc' = "start", UNCHANGED rotated, RolloutInv', ApartInv'
  PROVE  Staged!Settle
<1>1. Phase = "planning" /\ Phase' = "rolling" /\ InPlan' = InWaves'
  BY DEF InPlanning, Phase, InPlan, Planned
<1>2. PlanClosed'
  BY PlanIsClosed, PTL
<1>3. InWaves' \subseteq Nat /\ \A i \in InWaves' : AwaitedBy(i)' \subseteq InWaves'
  BY <1>2 DEF PlanClosed
<1>4. Awaits' = [i \in InWaves' |-> AwaitedBy(i)']
  BY <1>1 DEF Awaits
<1>5. Awaits' \in [InPlan' -> SUBSET InPlan']
  BY <1>1, <1>3, <1>4
<1> QED  BY <1>1, <1>3, <1>5 DEF Staged!Settle

\* Execute leaves the fleet, and what its instances wait for, as they were settled.
LEMMA PlanStays ==
  ASSUME pc \in Planned, pc' \in Planned, UNCHANGED <<setup, discovery, planning>>
  PROVE  InPlan = InWaves /\ InPlan' = InPlan /\ Awaits' = Awaits
<1>1. setup' = setup /\ instances' = instances /\ canary' = canary /\ waves' = waves
  BY DEF discovery, planning
<1>2. InWaves' = InWaves
  BY <1>1 DEF InWaves
<1>3. InPlan = InWaves /\ InPlan' = InPlan
  BY <1>2 DEF InPlan
<1>4. \A i : AwaitedBy(i)' = AwaitedBy(i)
  <2>1. \A s : Dependencies(s)' = Dependencies(s)
    BY <1>1 DEF Dependencies
  <2>2. \A s : InstancesOf(s)' = InstancesOf(s)
    BY <1>1 DEF InstancesOf
  <2> QED  BY <1>1, <2>1, <2>2 DEF AwaitedBy
<1> QED  BY <1>3, <1>4 DEF Awaits

\* A wave is a step of the rollout: its instances are in no wave before, and what they
\* wait for is.
LEMMA WaveAdvances ==
  ASSUME RolloutInv, ApartInv, RotateWave
  PROVE  Staged!Advance
<1>1. /\ pc = "rotate" /\ pc' = "monitor" /\ rotated' = rotated \cup waves[at].insts
      /\ UNCHANGED <<setup, discovery, planning>>
  BY DEF RotateWave, Stays
<1>2. InPlan = InWaves /\ InPlan' = InPlan /\ Awaits' = Awaits
  BY <1>1, PlanStays DEF Planned
<1>3. Phase = "rolling" /\ Phase' = "rolling"
  BY <1>1 DEF Phase
<1>4. /\ at \in DOMAIN waves /\ rotated = Through(at - 1)
      /\ DOMAIN waves = 1 .. Len(waves) /\ Len(waves) \in Nat
  BY <1>1 DEF RolloutInv, RotatedSoFar, TypeOK
<1>5. PICK step : step = waves[at].insts
  OBVIOUS
<1>6. step \subseteq InWaves
  BY <1>4, <1>5 DEF InWaves
<1>7. step \cap rotated = {}
  <2>1. \A k \in 1 .. at - 1 : k \in DOMAIN waves /\ k # at
    BY <1>4
  <2>2. \A k \in 1 .. at - 1 : waves[k].insts \cap step = {}
    BY <2>1, <1>4, <1>5, WavesApart
  <2> QED  BY <2>2, <1>4 DEF Through
<1>8. \A i \in step : Awaits[i] \subseteq rotated
  <2>1. \A i \in step : Awaits[i] = AwaitedBy(i)
    BY <1>2, <1>6 DEF Awaits
  <2>2. \A i \in step : AwaitedBy(i) \subseteq Through(at - 1)
    BY <1>4, <1>5, AwaitedEarlier
  <2> QED  BY <2>1, <2>2, <1>4
<1>9. step \in SUBSET (InPlan \ rotated) /\ rotated' = rotated \cup step
  BY <1>1, <1>2, <1>5, <1>6, <1>7
<1> QED  BY <1>2, <1>3, <1>8, <1>9 DEF Staged!Advance

\* Behind the last wave the whole plan is rotated.
LEMMA WaitIsOver ==
  ASSUME RolloutInv, ApartInv, WaitOver
  PROVE  Staged!Complete \/ UNCHANGED <<Phase, InPlan, Awaits, rotated>>
<1>1. /\ pc = "wait" /\ rotated' = rotated /\ UNCHANGED <<setup, discovery, planning>>
      /\ (pc' = "completed" /\ at = Len(waves)) \/ pc' = "rotate"
  BY DEF WaitOver, NextWave, Stays
<1>2. InPlan = InWaves /\ InPlan' = InPlan /\ Awaits' = Awaits
  BY <1>1, PlanStays DEF Planned
<1>3. CASE pc' = "rotate"
  BY <1>1, <1>2, <1>3 DEF Phase
<1>4. CASE pc' = "completed" /\ at = Len(waves)
  <2>1. rotated = Through(at) /\ DOMAIN waves = 1 .. Len(waves)
    BY <1>1 DEF RolloutInv, RotatedSoFar, TypeOK
  <2>2. rotated = InWaves
    BY <2>1, <1>4 DEF Through, InWaves
  <2>3. Phase = "rolling" /\ Phase' = "completed"
    BY <1>1, <1>4 DEF Phase
  <2> QED  BY <2>2, <2>3, <1>1, <1>2 DEF Staged!Complete
<1> QED  BY <1>1, <1>3, <1>4

\* A step of the planning is unseen, or settles the rollout, or stops it.
LEMMA PlanningIsStaged ==
  ASSUME RolloutInv, RolloutInv', ApartInv',
         \/ Validate \/ Discover \/ ReadInstance \/ ReadAll
         \/ PlanRefused \/ PlanCanary \/ PlanPercentage \/ FillLevel \/ FillRest
         \/ SortStart \/ SortWave \/ SortEnd \/ GroupWave \/ GroupPlanned
  PROVE  Staged!Settle \/ Staged!Stop \/ UNCHANGED <<Phase, InPlan, Awaits, rotated>>
<1>1. pc \in InPlanning /\ rotated' = rotated
  BY DEF Validate, Discover, ReadInstance, ReadAll, PlanRefused, PlanCanary, PlanPercentage,
         FillLevel, FillRest, SortStart, SortWave, SortEnd, GroupWave, GroupPlanned,
         execution, InPlanning
<1>2. \/ pc' \in InPlanning \/ pc' = "start"
      \/ pc' = "stopped" /\ waves' = <<>>
  <2>1. pc \in {"validate", "plan", "sort"} => waves = <<>>
    BY DEF RolloutInv, PhasesInTurn
  <2>2. CASE Validate \/ Discover \/ ReadInstance \/ ReadAll \/ PlanRefused \/ SortEnd
    BY <2>1, <2>2 DEF Validate, Discover, ReadInstance, ReadAll, PlanRefused, SortEnd,
                      planning, InPlanning
  <2>3. CASE PlanCanary \/ PlanPercentage \/ FillLevel \/ FillRest
    BY <2>3 DEF PlanCanary, PlanPercentage, FillLevel, FillRest, InPlanning
  <2>4. CASE SortStart \/ SortWave \/ GroupWave \/ GroupPlanned
    BY <2>4 DEF SortStart, SortWave, GroupWave, GroupPlanned, InPlanning
  <2> QED  BY <2>2, <2>3, <2>4
<1> QED  BY <1>1, <1>2, PlanningIsUnseen, PlanningSettles, PlanningStops

\* A step of Execute is a step of the rollout, or ends it, or is unseen.
LEMMA ExecutionIsStaged ==
  ASSUME RolloutInv, ApartInv,
         \/ Cancel \/ ExecuteStart \/ RotateWave \/ MonitorPassed
         \/ CanaryMonitorFailed \/ PercentageMonitorFailed \/ GroupMonitorFailed
         \/ GroupVerify \/ WaitOver \/ WaitCancelled
  PROVE  \/ Staged!Advance \/ Staged!Complete \/ Staged!Stop
         \/ UNCHANGED <<Phase, InPlan, Awaits, rotated>>
<1>1. CASE RotateWave
  BY <1>1, WaveAdvances
<1>2. CASE WaitOver
  BY <1>2, WaitIsOver
<1>3. CASE \/ Cancel \/ ExecuteStart \/ MonitorPassed
           \/ CanaryMonitorFailed \/ PercentageMonitorFailed \/ GroupMonitorFailed
           \/ GroupVerify \/ WaitCancelled
  <2>1. /\ pc \in InRollout /\ rotated' = rotated /\ UNCHANGED <<setup, discovery, planning>>
        /\ pc' \in InRollout \/ pc' = "stopped"
    BY <1>3 DEF Cancel, ExecuteStart, MonitorPassed, CanaryMonitorFailed, PercentageMonitorFailed,
                GroupMonitorFailed, GroupVerify, WaitCancelled, Stays, execution, InRollout, Planned
  <2>2. InPlan' = InPlan /\ Awaits' = Awaits
    BY <2>1, PlanStays DEF Planned, InRollout
  <2>3. CASE pc' \in InRollout
    BY <2>1, <2>2, <2>3 DEF Phase, InRollout
  <2>4. CASE pc' = "stopped"
    <3>1. Phase = "rolling" /\ Phase' = "stopped"
      BY <2>1, <2>4 DEF Phase, InRollout
    <3> QED  BY <3>1, <2>1, <2>2 DEF Staged!Stop
  <2> QED  BY <2>1, <2>3, <2>4
<1> QED  BY <1>1, <1>2, <1>3

\* A rollout of any strategy, over any instances, percentages and dependencies, and however it
\* is cancelled, is a rollout of StagedRollout: each instance is rotated once at most, after
\* the canary, and in a later wave than all it depends on (canary.go:118-201,
\* percentage.go:153-218, group.go:140-229).
THEOREM RolloutRefinement == Spec => RefinesRollout
<1>1. Init => Staged!RolloutInit
  <2> SUFFICES ASSUME Init PROVE Staged!RolloutInit
    OBVIOUS
  <2>1. pc = "validate" /\ rotated = {}
    BY DEF Init
  <2>2. Phase = "planning" /\ InPlan = {}
    BY <2>1 DEF Phase, InPlan, Planned
  <2>3. Awaits = <<>>
    BY <2>2 DEF Awaits
  <2> QED  BY <2>1, <2>2, <2>3 DEF Staged!RolloutInit
<1>2. RolloutInv /\ RolloutInv' /\ ApartInv /\ ApartInv' /\ [Next]_vars
        => [Staged!RolloutNext]_(Staged!rolloutVars)
  <2> SUFFICES ASSUME RolloutInv, RolloutInv', ApartInv, ApartInv', [Next]_vars
               PROVE  Staged!RolloutNext \/ UNCHANGED <<Phase, InPlan, Awaits, rotated>>
    BY DEF Staged!rolloutVars
  <2>1. CASE \/ Validate \/ Discover \/ ReadInstance \/ ReadAll
             \/ PlanRefused \/ PlanCanary \/ PlanPercentage \/ FillLevel \/ FillRest
             \/ SortStart \/ SortWave \/ SortEnd \/ GroupWave \/ GroupPlanned
    BY <2>1, PlanningIsStaged DEF Staged!RolloutNext
  <2>2. CASE \/ Cancel \/ ExecuteStart \/ RotateWave \/ MonitorPassed
             \/ CanaryMonitorFailed \/ PercentageMonitorFailed \/ GroupMonitorFailed
             \/ GroupVerify \/ WaitOver \/ WaitCancelled
    BY <2>2, ExecutionIsStaged DEF Staged!RolloutNext
  <2>3. CASE Terminated \/ UNCHANGED vars
    <3>1. /\ setup' = setup /\ instances' = instances /\ canary' = canary /\ waves' = waves
          /\ rotated' = rotated /\ pc' = pc
      BY <2>3 DEF Terminated, vars, discovery, planning, execution
    <3>2. InPlan' = InPlan /\ Phase' = Phase
      BY <3>1 DEF InPlan, InWaves, Phase
    <3>3. \A i : AwaitedBy(i)' = AwaitedBy(i)
      BY <3>1 DEF AwaitedBy, InstancesOf, Dependencies
    <3> QED  BY <3>1, <3>2, <3>3 DEF Awaits
  <2> QED  BY <2>1, <2>2, <2>3 DEF Next
<1> QED  BY <1>1, <1>2, RolloutInvariant, ApartInvariant, PTL
         DEF Spec, RefinesRollout, Staged!RolloutSpec
===============================================================================
