-------------------------------- MODULE CommandsProofs --------------------------------
(***************************************************************************)
(* Proofs about Resolver and Commands, for every set of invocations, every   *)
(* environment, configuration and policy, and any number of goroutines with  *)
(* their providers at once.                                                  *)
(***************************************************************************)
EXTENDS Commands, FiniteSetTheorems, TLAPS

(***************************************************************************)
(* The inductive invariant.                                                  *)
(***************************************************************************)
Before == {"load", "register", "plan", "doctor", "rotate", "enforce", "spawn"}
After == {"exec", "render", "child"}

\* Nothing is asked, recorded or sent before the goroutines are spawned; nothing is started
\* or written before they are all done, and nothing deleted that was not written.
NothingYet ==
  /\ pc \in Before =>
       /\ asked = {} /\ errorChan = <<>>
       /\ \A v \in DOMAIN call.env : worker[v] = "none" /\ result[v] = NoResult
  /\ pc \in Before \cup {"wait", "exec", "render"} => childEnv = NoEnv /\ file = "absent"
  /\ timer = "armed" => file # "absent"

\* The goroutines are those of the variables wanted, and they run while the command waits.
WantedOnly ==
  \A v \in DOMAIN call.env :
    /\ worker[v] # "none" => v \in Wanted
    /\ worker[v] \in {"waiting", "asking", "resolved", "recorded"} => pc = "wait"
    /\ v \in Wanted /\ pc \in {"wait"} \cup After => worker[v] # "none"

\* Every command that resolves has its providers registered, and all but "get" have the
\* policies enforced.
Consulted ==
  /\ pc \in {"enforce", "spawn", "wait"} \cup After => registered = Registered(call.cfg)
  /\ pc = "enforce" => call.command \in {"exec", "render"}
  /\ pc \in {"spawn", "wait"} => call.command = "get" \/ (call.command \in {"exec", "render"} /\ enforcePolicies)
  /\ pc = "render" => call.command = "render" /\ enforcePolicies
  /\ pc \in {"exec", "child"} => call.command = "exec" /\ enforcePolicies

\* What a resolution can make of a variable: an error of the configuration exactly where the
\* plan says so, and a value that is transformed exactly where a transform is asked for.
Judged(v, given) ==
  /\ given.status \in {"ok", "config", "provider", "timeout", "transform"}
  /\ Planned(v) = "config" <=> given.status = "config"
  /\ given.status = "ok" => (given.value.transformed <=> Var(v).transform # <<>>)

\* A result is the answer its goroutine was given, once it is recorded.
ResultsAreAnswers ==
  \A v \in DOMAIN call.env :
    /\ worker[v] = "asking" => ~IsLocal(v)
    /\ worker[v] \in {"resolved", "recorded", "done"} => Judged(v, answer[v])
    /\ worker[v] \in {"none", "waiting", "asking", "resolved"} => result[v] = NoResult
    /\ worker[v] \in {"recorded", "done"} => result[v] = answer[v]

\* The errors on the channel are those of the required variables that failed, once each, and
\* their number is theirs.
Sent == {v \in DOMAIN call.env : worker[v] = "done" /\ Fatal(v)}

ErrorsCounted ==
  /\ Cardinality(Holding) <= MaxConcurrent
  /\ Len(errorChan) = Cardinality(Sent)
  /\ ToSet(errorChan) = Sent
  /\ IsInjective(errorChan)

\* The commands that start a child or write a file have a value of every variable.
AllResolved ==
  /\ pc \in After => \A v \in DOMAIN call.env : worker[v] = "done" /\ result[v].status = "ok"
  /\ pc = "exec" => buffers = [v \in Wanted |-> "sealed"]

\* AllOrNothing, of the optional variables too.
EveryOrNothing ==
  /\ (childEnv # NoEnv \/ file # "absent") =>
       /\ enforcePolicies
       /\ \A v \in DOMAIN call.env : result[v].status = "ok" /\
            (result[v].value.transformed <=> Var(v).transform # <<>>)
  /\ childEnv # NoEnv =>
       /\ DOMAIN childEnv = call.os \cup DOMAIN call.env
       /\ \A v \in DOMAIN call.env : childEnv[v] # result[v].value => call.allowOverride
       /\ \A v \in DOMAIN buffers : buffers[v] = "destroyed"

CommandInv ==
  /\ TypeOK
  /\ NothingYet
  /\ WantedOnly
  /\ Consulted
  /\ ResultsAreAnswers
  /\ ErrorsCounted
  /\ AllResolved
  /\ ForbiddenOnlyUnchecked
  /\ EveryOrNothing

-------------------------------------------------------------------------------
(***************************************************************************)
(* What a step does not touch.                                               *)
(***************************************************************************)
\* What depends on the invocation alone stays.
LEMMA SameCall ==
  ASSUME call' = call
  PROVE  /\ Wanted' = Wanted /\ enforcePolicies' = enforcePolicies /\ HasPolicies' = HasPolicies
         /\ \A v : Var(v)' = Var(v)
  BY DEF Wanted, enforcePolicies, HasPolicies, PolicyAllows, Var

\* What depends on the providers registered too.
LEMMA SameProviders ==
  ASSUME call' = call, registered' = registered
  PROVE  \A v : Planned(v)' = Planned(v) /\ IsLocal(v)' = IsLocal(v)
  BY DEF Planned, IsLocal, Var

\* The verdict on an answer is the same when the invocation and its providers are.
LEMMA SameVerdict ==
  ASSUME call' = call, registered' = registered, NEW v, NEW given, Judged(v, given)
  PROVE  Judged(v, given)'
  BY SameCall, SameProviders DEF Judged

\* A command that asks nobody adds nothing to what was asked.
LEMMA AskedFrame ==
  ASSUME ForbiddenOnlyUnchecked, call' = call, asked' = asked
  PROVE  ForbiddenOnlyUnchecked'
  BY SameCall DEF ForbiddenOnlyUnchecked

\* The counts are about the goroutines, their answers and the channel.
LEMMA CountsFrame ==
  ASSUME ErrorsCounted, call' = call, worker' = worker, answer' = answer, errorChan' = errorChan
  PROVE  ErrorsCounted'
<1>1. Holding' = Holding
  BY DEF Holding
<1>2. Sent' = Sent
  BY SameCall DEF Sent, Fatal
<1>3. QED
  BY <1>1, <1>2 DEF ErrorsCounted

\* So are the results, and before the goroutines there is nothing to judge.
LEMMA ResultsFrame ==
  ASSUME NothingYet, ResultsAreAnswers, call' = call, worker' = worker, answer' = answer, result' = result,
         registered' = registered \/ pc \in Before
  PROVE  ResultsAreAnswers'
<1>1. CASE registered' = registered
  BY <1>1, SameProviders, SameVerdict DEF ResultsAreAnswers
<1>2. CASE pc \in Before
  BY <1>2 DEF NothingYet, ResultsAreAnswers
<1>3. QED
  BY <1>1, <1>2

\* What was started or written stands while its results and buffers do.
LEMMA OutputFrame ==
  ASSUME EveryOrNothing, call' = call, result' = result, childEnv' = childEnv, buffers' = buffers, file' = file
  PROVE  EveryOrNothing'
  BY SameCall DEF EveryOrNothing

-------------------------------------------------------------------------------
(***************************************************************************)
(* What becomes of one variable.                                             *)
(***************************************************************************)
\* A value that is there is transformed as the variable asks.
LEMMA FinishedIsJudged ==
  ASSUME NEW v, NEW origin, NEW shape, Planned(v) = "ok"
  PROVE  Judged(v, Finished(v, origin, shape))
<1>1. CASE Var(v).transform = <<>>
  <2>1. Finished(v, origin, shape).status = "ok" /\ Finished(v, origin, shape).value.transformed = FALSE
    BY <1>1 DEF Finished
  <2>2. QED
    BY <1>1, <2>1 DEF Judged
<1>2. CASE Var(v).transform # <<>>
  <2>1. \/ Finished(v, origin, shape).status = "ok" /\ Finished(v, origin, shape).value.transformed = TRUE
        \/ Finished(v, origin, shape).status = "transform"
    BY <1>2 DEF Finished, Failed
  <2>2. QED
    BY <1>2, <2>1 DEF Judged
<1>3. QED
  BY <1>1, <1>2

\* A variable that is answered without a provider: a literal, or an error of the
\* configuration, as the plan says.
LEMMA LocalIsJudged ==
  ASSUME NEW v, IsLocal(v)
  PROVE  Judged(v, LocalAnswer(v))
<1>1. CASE Var(v).literal # <<>>
  BY <1>1, FinishedIsJudged DEF LocalAnswer, Planned
<1>2. CASE Var(v).literal = <<>>
  <2>1. Planned(v) = "config"
    BY <1>2 DEF IsLocal, Planned
  <2>2. LocalAnswer(v).status = "config"
    BY <1>2 DEF LocalAnswer, Failed
  <2>3. QED
    BY <2>1, <2>2 DEF Judged
<1>3. QED
  BY <1>1, <1>2

\* A variable that is asked for at a provider: the plan found nothing wrong with it.
LEMMA GivenIsJudged ==
  ASSUME NEW v, ~IsLocal(v)
  PROVE  /\ Planned(v) = "ok"
         /\ Judged(v, Failed("provider")) /\ Judged(v, Failed("timeout"))
         /\ \A origin, shape : Judged(v, Finished(v, origin, shape))
<1>1. Planned(v) = "ok"
  BY DEF IsLocal, Planned
<1>2. QED
  BY <1>1, FinishedIsJudged DEF Judged, Failed

\* A provider registered under a name is one the configuration knows by it.
LEMMA RegisteredIsKnown ==
  ASSUME NEW cfg, NEW name \in DOMAIN Registered(cfg)
  PROVE  name \in Known(cfg)
  BY DEF Registered, Creatable, Known

-------------------------------------------------------------------------------
(***************************************************************************)
(* The goroutines.                                                           *)
(***************************************************************************)
\* The variables are finitely many, and so are the goroutines.
LEMMA FiniteEnvironment ==
  ASSUME call \in Calls
  PROVE  /\ IsFiniteSet(DOMAIN call.env) /\ IsFiniteSet(Wanted)
         /\ call.command \in {"plan", "doctor", "get", "exec", "render", "rotate"}
         /\ Wanted \subseteq DOMAIN call.env /\ (call.command # "get" => Wanted = DOMAIN call.env)
<1>1. /\ IsFiniteSet(DOMAIN call.env)
      /\ call.command \in {"plan", "doctor", "get", "exec", "render", "rotate"}
  BY ResolverAssumption
<1>2. Wanted \subseteq DOMAIN call.env /\ (call.command # "get" => Wanted = DOMAIN call.env)
  BY DEF Wanted
<1>3. QED
  BY <1>1, <1>2, FS_Subset

\* Whatever a goroutine does, its command waits, with nothing started and nothing written.
LEMMA WorkerFrame ==
  ASSUME CommandInv, NEW v \in DOMAIN call.env,
         worker[v] \in {"waiting", "asking", "resolved", "recorded"},
         NEW to \in {"asking", "resolved", "recorded", "done"},
         worker' = [worker EXCEPT ![v] = to],
         call' = call, pc' = pc, registered' = registered, UNCHANGED commands
  PROVE  /\ v \in Wanted /\ pc = "wait"
         /\ worker' \in [DOMAIN call.env -> {"none", "waiting", "asking", "resolved", "recorded", "done"}]
         /\ worker'[v] = to /\ \A w \in DOMAIN call.env \ {v} : worker'[w] = worker[w]
         /\ NothingYet' /\ WantedOnly' /\ Consulted' /\ AllResolved' /\ EveryOrNothing'
<1> USE DEF CommandInv
<1>1. v \in Wanted /\ pc = "wait" /\ pc' = "wait"
  BY DEF WantedOnly
<1>2. /\ worker' \in [DOMAIN call.env -> {"none", "waiting", "asking", "resolved", "recorded", "done"}]
      /\ worker'[v] = to /\ \A w \in DOMAIN call.env \ {v} : worker'[w] = worker[w]
  BY DEF TypeOK
<1>3. childEnv' = NoEnv /\ file' = "absent"
  BY <1>1 DEF NothingYet, commands
<1>4. NothingYet'
  BY <1>1, <1>3 DEF NothingYet, Before, commands
<1>5. WantedOnly'
  BY <1>1, <1>2, SameCall DEF WantedOnly
<1>6. Consulted'
  BY <1>1, SameCall DEF Consulted, After
<1>7. AllResolved'
  BY <1>1 DEF AllResolved, After
<1>8. EveryOrNothing'
  BY <1>3 DEF EveryOrNothing
<1>9. QED
  BY <1>1, <1>2, <1>4, <1>5, <1>6, <1>7, <1>8

\* The results and the answers of the other variables are judged as before.
LEMMA OtherResults ==
  ASSUME ResultsAreAnswers, call' = call, registered' = registered, NEW v \in DOMAIN call.env,
         \A w \in DOMAIN call.env \ {v} :
           worker'[w] = worker[w] /\ answer'[w] = answer[w] /\ result'[w] = result[w],
         worker'[v] = "asking" => ~IsLocal(v),
         worker'[v] \in {"resolved", "recorded", "done"} => Judged(v, answer'[v]),
         worker'[v] \in {"none", "waiting", "asking", "resolved"} => result'[v] = NoResult,
         worker'[v] \in {"recorded", "done"} => result'[v] = answer'[v]
  PROVE  ResultsAreAnswers'
<1>1. ASSUME NEW w \in DOMAIN call.env
      PROVE  /\ worker'[w] = "asking" => ~IsLocal(w)
             /\ worker'[w] \in {"resolved", "recorded", "done"} => Judged(w, answer'[w])
             /\ worker'[w] \in {"none", "waiting", "asking", "resolved"} => result'[w] = NoResult
             /\ worker'[w] \in {"recorded", "done"} => result'[w] = answer'[w]
  BY <1>1 DEF ResultsAreAnswers
<1>2. \A w, given : Judged(w, given) => (Judged(w, given))'
  BY SameCall, SameProviders DEF Judged
<1>3. \A w : IsLocal(w)' = IsLocal(w)
  BY SameProviders
<1>4. ASSUME NEW w \in DOMAIN call.env, worker'[w] \in {"resolved", "recorded", "done"}
      PROVE  Judged(w, answer[w])'
  <2>1. Judged(w, answer'[w])
    BY <1>1, <1>4
  <2>2. PICK given : given = answer'[w]
    OBVIOUS
  <2>3. (Judged(w, given))'
    BY <1>2, <2>1, <2>2
  <2>4. QED
    BY <2>2, <2>3 DEF Judged
<1>5. QED
  BY <1>1, <1>3, <1>4 DEF ResultsAreAnswers, NoResult

\* A goroutine that gets through the semaphore is one more with its provider, and no more
\* than there is room for.
LEMMA Entering ==
  ASSUME CommandInv, NEW v \in DOMAIN call.env, worker[v] = "waiting",
         Cardinality(Holding) < MaxConcurrent,
         NEW to \in {"asking", "resolved"}, worker' = [worker EXCEPT ![v] = to],
         call' = call, errorChan' = errorChan,
         \A w \in DOMAIN call.env \ {v} : answer'[w] = answer[w]
  PROVE  ErrorsCounted'
<1> USE DEF CommandInv
<1>1. DOMAIN worker = DOMAIN call.env /\ worker'[v] = to /\ \A w \in DOMAIN call.env \ {v} : worker'[w] = worker[w]
  BY DEF TypeOK
<1>2. DOMAIN worker' = DOMAIN call.env
  BY <1>1
<1>3. v \notin Holding /\ Holding' = Holding \cup {v}
  BY <1>1, <1>2 DEF Holding
<1>4. IsFiniteSet(Holding)
  BY <1>1, FiniteEnvironment, FS_Subset DEF Holding, TypeOK
<1>5. Cardinality(Holding') = Cardinality(Holding) + 1 /\ Cardinality(Holding) \in Nat
  BY <1>3, <1>4, FS_AddElement, FS_CardinalityType
<1>6. Cardinality(Holding)' <= MaxConcurrent
  BY <1>5, ResolverAssumption
<1>7. Sent' = Sent
  BY <1>1, <1>2, SameCall DEF Sent, Fatal
<1>8. QED
  BY <1>6, <1>7 DEF ErrorsCounted

\* A goroutine that is with its provider and stays changes no count.
LEMMA Staying ==
  ASSUME CommandInv, NEW v \in DOMAIN call.env, worker[v] \in {"asking", "resolved"},
         NEW to \in {"resolved", "recorded"}, worker' = [worker EXCEPT ![v] = to],
         call' = call, errorChan' = errorChan,
         \A w \in DOMAIN call.env \ {v} : answer'[w] = answer[w]
  PROVE  ErrorsCounted'
<1> USE DEF CommandInv
<1>1. /\ DOMAIN worker = DOMAIN call.env /\ worker'[v] = to /\ \A w \in DOMAIN call.env \ {v} : worker'[w] = worker[w]
      /\ DOMAIN worker' = DOMAIN call.env
  BY DEF TypeOK
<1>2. Holding' = Holding
  BY <1>1 DEF Holding
<1>3. Sent' = Sent
  BY <1>1, SameCall DEF Sent, Fatal
<1>4. QED
  BY <1>2, <1>3 DEF ErrorsCounted

\* A goroutine with nothing to ask for has its answer at once.
LEMMA AnswerLocallyStep ==
  ASSUME CommandInv, NEW v \in DOMAIN call.env, AnswerLocally(v), UNCHANGED commands
  PROVE  CommandInv'
<1> USE DEF CommandInv
<1>1. /\ worker[v] = "waiting" /\ Cardinality(Holding) < MaxConcurrent /\ IsLocal(v)
      /\ worker' = [worker EXCEPT ![v] = "resolved"]
      /\ answer' = [answer EXCEPT ![v] = LocalAnswer(v)]
      /\ call' = call /\ pc' = pc /\ registered' = registered /\ result' = result
      /\ errorChan' = errorChan /\ asked' = asked
  BY DEF AnswerLocally
<1>2. /\ worker' \in [DOMAIN call.env -> {"none", "waiting", "asking", "resolved", "recorded", "done"}]
      /\ worker'[v] = "resolved" /\ \A w \in DOMAIN call.env \ {v} : worker'[w] = worker[w]
      /\ NothingYet' /\ WantedOnly' /\ Consulted' /\ AllResolved' /\ EveryOrNothing'
  BY <1>1, WorkerFrame
<1>3. /\ DOMAIN answer' = DOMAIN call.env /\ answer'[v] = LocalAnswer(v)
      /\ \A w \in DOMAIN call.env \ {v} : answer'[w] = answer[w]
  BY <1>1 DEF TypeOK
<1>4. Judged(v, LocalAnswer(v)) /\ Judged(v, answer'[v])
  BY <1>1, <1>3, LocalIsJudged
<1>5. ResultsAreAnswers'
  <2>1. result'[v] = NoResult
    BY <1>1 DEF ResultsAreAnswers
  <2>2. QED
    BY <1>1, <1>2, <1>3, <1>4, <2>1, OtherResults
<1>6. ErrorsCounted'
  BY <1>1, <1>3, Entering
<1>7. TypeOK'
  BY <1>1, <1>2, <1>3, <1>4 DEF TypeOK, Judged, commands
<1>8. ForbiddenOnlyUnchecked'
  BY <1>1, AskedFrame
<1>9. QED
  BY <1>2, <1>5, <1>6, <1>7, <1>8

\* A provider that is asked is one the policies were consulted about, or one of those the
\* property excepts.
LEMMA AskStep ==
  ASSUME CommandInv, NEW v \in DOMAIN call.env, Ask(v), UNCHANGED commands
  PROVE  CommandInv'
<1> USE DEF CommandInv
<1> DEFINE named == GetEffectiveProvider(Var(v).from)
<1>1. /\ worker[v] = "waiting" /\ Cardinality(Holding) < MaxConcurrent /\ ~IsLocal(v)
      /\ worker' = [worker EXCEPT ![v] = "asking"]
      /\ call' = call /\ pc' = pc /\ registered' = registered /\ answer' = answer /\ result' = result
      /\ errorChan' = errorChan
  BY DEF Ask
<1>2. /\ worker' \in [DOMAIN call.env -> {"none", "waiting", "asking", "resolved", "recorded", "done"}]
      /\ worker'[v] = "asking" /\ \A w \in DOMAIN call.env \ {v} : worker'[w] = worker[w]
      /\ NothingYet' /\ WantedOnly' /\ Consulted' /\ AllResolved' /\ EveryOrNothing'
      /\ pc = "wait" /\ v \in Wanted
  BY <1>1, WorkerFrame
<1>3. ResultsAreAnswers'
  <2>1. result'[v] = NoResult
    BY <1>1 DEF ResultsAreAnswers
  <2>2. QED
    BY <1>1, <1>2, <2>1, OtherResults
<1>4. ErrorsCounted'
  BY <1>1, Entering
<1>5. TypeOK'
  BY <1>1, <1>2 DEF TypeOK, commands
<1>6. PICK new : asked' = asked \cup {new} /\ new.var = v /\ new.type = registered[named].type
  <2>1. \E new : asked' = asked \cup {new} /\ new = [var |-> v, type |-> registered[named].type,
           ref |-> Delivered(registered[named], ResolverReference(named, Var(v).from))]
    BY DEF Ask
  <2>2. QED
    BY <2>1
<1>7. \/ ~HasPolicies
      \/ /\ ValidateProviderType(call.policy, new.type)
         /\ ValidateEnvironmentProvider(call.policy, call.envName, new.type)
      \/ call.command = "get"
      \/ ~IsLegacyFormat(Var(v).from)
      \/ GetProvider(call.cfg, Var(v).from.provider) # new.type
  <2>1. SUFFICES ASSUME HasPolicies, call.command # "get", IsLegacyFormat(Var(v).from),
                        GetProvider(call.cfg, Var(v).from.provider) = new.type
                 PROVE  /\ ValidateProviderType(call.policy, new.type)
                        /\ ValidateEnvironmentProvider(call.policy, call.envName, new.type)
    OBVIOUS
  <2>2. enforcePolicies /\ registered = Registered(call.cfg)
    BY <1>2, <2>1 DEF Consulted
  <2>3. named = Var(v).from.provider
    BY <2>1 DEF GetEffectiveProvider
  <2>4. Var(v).from # NoReference /\ named \in DOMAIN Registered(call.cfg)
    BY <1>1, <2>2 DEF IsLocal
  <2>5. Var(v).from.provider \in Known(call.cfg)
    BY <2>3, <2>4, RegisteredIsKnown
  <2>6. PolicyAllows(v)
    BY <2>1, <2>2 DEF enforcePolicies
  <2>7. QED
    BY <2>1, <2>4, <2>5, <2>6 DEF PolicyAllows
<1>8. ForbiddenOnlyUnchecked'
  BY <1>1, <1>6, <1>7, SameCall DEF ForbiddenOnlyUnchecked
<1>9. QED
  BY <1>2, <1>3, <1>4, <1>5, <1>8

\* A provider's answer, or its silence, is never an error of the configuration.
LEMMA AnswerStep ==
  ASSUME CommandInv, NEW v \in DOMAIN call.env, Answer(v), UNCHANGED commands
  PROVE  CommandInv'
<1> USE DEF CommandInv
<1>1. /\ worker[v] = "asking"
      /\ worker' = [worker EXCEPT ![v] = "resolved"]
      /\ call' = call /\ pc' = pc /\ registered' = registered /\ result' = result
      /\ errorChan' = errorChan /\ asked' = asked
  BY DEF Answer
<1>2. /\ worker' \in [DOMAIN call.env -> {"none", "waiting", "asking", "resolved", "recorded", "done"}]
      /\ worker'[v] = "resolved" /\ \A w \in DOMAIN call.env \ {v} : worker'[w] = worker[w]
      /\ NothingYet' /\ WantedOnly' /\ Consulted' /\ AllResolved' /\ EveryOrNothing'
  BY <1>1, WorkerFrame
<1>3. PICK given : /\ answer' = [answer EXCEPT ![v] = given]
                   /\ \/ given \in {Failed("provider"), Failed("timeout")}
                      \/ \E origin, shape : given = Finished(v, origin, shape)
  BY DEF Answer
<1>4. Judged(v, given)
  <2>1. ~IsLocal(v)
    BY <1>1 DEF ResultsAreAnswers
  <2>2. QED
    BY <1>3, <2>1, GivenIsJudged
<1>5. /\ DOMAIN answer' = DOMAIN call.env /\ answer'[v] = given
      /\ \A w \in DOMAIN call.env \ {v} : answer'[w] = answer[w]
  BY <1>3 DEF TypeOK
<1>6. ResultsAreAnswers'
  <2>1. result'[v] = NoResult
    BY <1>1 DEF ResultsAreAnswers
  <2>2. Judged(v, answer'[v])
    BY <1>4, <1>5
  <2>3. QED
    BY <1>1, <1>2, <1>5, <2>1, <2>2, OtherResults
<1>7. ErrorsCounted'
  BY <1>1, <1>5, Staying
<1>8. TypeOK'
  BY <1>1, <1>2, <1>4, <1>5 DEF TypeOK, Judged, commands
<1>9. ForbiddenOnlyUnchecked'
  BY <1>1, AskedFrame
<1>10. QED
  BY <1>2, <1>6, <1>7, <1>8, <1>9

\* A goroutine records the answer it was given.
LEMMA RecordStep ==
  ASSUME CommandInv, NEW v \in DOMAIN call.env, Record(v), UNCHANGED commands
  PROVE  CommandInv'
<1> USE DEF CommandInv
<1>1. /\ worker[v] = "resolved"
      /\ worker' = [worker EXCEPT ![v] = "recorded"] /\ result' = [result EXCEPT ![v] = answer[v]]
      /\ call' = call /\ pc' = pc /\ registered' = registered /\ answer' = answer
      /\ errorChan' = errorChan /\ asked' = asked
  BY DEF Record
<1>2. /\ worker' \in [DOMAIN call.env -> {"none", "waiting", "asking", "resolved", "recorded", "done"}]
      /\ worker'[v] = "recorded" /\ \A w \in DOMAIN call.env \ {v} : worker'[w] = worker[w]
      /\ NothingYet' /\ WantedOnly' /\ Consulted' /\ AllResolved' /\ EveryOrNothing'
  BY <1>1, WorkerFrame
<1>3. /\ DOMAIN result' = DOMAIN call.env /\ result'[v] = answer[v]
      /\ \A w \in DOMAIN call.env \ {v} : result'[w] = result[w]
  BY <1>1 DEF TypeOK
<1>4. ResultsAreAnswers'
  <2>1. Judged(v, answer'[v])
    BY <1>1 DEF ResultsAreAnswers
  <2>2. QED
    BY <1>1, <1>2, <1>3, <2>1, OtherResults
<1>5. ErrorsCounted'
  BY <1>1, Staying
<1>6. TypeOK'
  BY <1>1, <1>2, <1>3 DEF TypeOK, commands
<1>7. ForbiddenOnlyUnchecked'
  BY <1>1, AskedFrame
<1>8. QED
  BY <1>2, <1>4, <1>5, <1>6, <1>7

\* Those that sent an error are variables wanted other than the one that is about to.
LEMMA RoomForOneMore ==
  ASSUME CommandInv, NEW v \in DOMAIN call.env, worker[v] = "recorded"
  PROVE  /\ v \notin Sent /\ IsFiniteSet(Sent) /\ Cardinality(Sent) \in Nat
         /\ Len(errorChan) < Cardinality(Wanted)
<1> USE DEF CommandInv
<1>1. v \in Wanted /\ Sent \subseteq Wanted \ {v}
  BY DEF WantedOnly, Sent
<1>2. IsFiniteSet(Wanted)
  BY FiniteEnvironment DEF TypeOK
<1>3. /\ IsFiniteSet(Wanted \ {v}) /\ Cardinality(Wanted \ {v}) = Cardinality(Wanted) - 1
      /\ Cardinality(Wanted) \in Nat
  BY <1>1, <1>2, FS_RemoveElement, FS_CardinalityType
<1>4. IsFiniteSet(Sent) /\ Cardinality(Sent) <= Cardinality(Wanted \ {v}) /\ Cardinality(Sent) \in Nat
  BY <1>1, <1>3, FS_Subset, FS_CardinalityType
<1>5. QED
  BY <1>1, <1>3, <1>4 DEF ErrorsCounted

\* One more error on the channel is one more element of what is on it.
LEMMA OneMoreError ==
  ASSUME NEW S, NEW chan \in Seq(S), NEW v \in S, v \notin ToSet(chan), IsInjective(chan)
  PROVE  /\ Append(chan, v) \in Seq(S) /\ Len(Append(chan, v)) = Len(chan) + 1
         /\ ToSet(Append(chan, v)) = ToSet(chan) \cup {v}
         /\ IsInjective(Append(chan, v))
<1>1. /\ Append(chan, v) \in Seq(S) /\ Len(Append(chan, v)) = Len(chan) + 1
      /\ DOMAIN chan = 1 .. Len(chan) /\ DOMAIN Append(chan, v) = 1 .. Len(chan) + 1
      /\ Append(chan, v)[Len(chan) + 1] = v /\ Len(chan) \in Nat
      /\ \A i \in 1 .. Len(chan) : Append(chan, v)[i] = chan[i]
  OBVIOUS
<1>2. ToSet(Append(chan, v)) = ToSet(chan) \cup {v}
  BY <1>1 DEF ToSet
<1>3. \A i \in 1 .. Len(chan) : chan[i] # v
  BY <1>1 DEF ToSet
<1>4. IsInjective(Append(chan, v))
  BY <1>1, <1>3 DEF IsInjective
<1>5. QED
  BY <1>1, <1>2, <1>4

\* A goroutine leaves: the error of a required variable is on the channel, and there is room
\* with a provider again.
LEMMA LeaveStep ==
  ASSUME CommandInv, NEW v \in DOMAIN call.env, Leave(v), UNCHANGED commands
  PROVE  CommandInv'
<1> USE DEF CommandInv
<1>1. /\ worker[v] = "recorded" /\ worker' = [worker EXCEPT ![v] = "done"]
      /\ IF Fatal(v) THEN errorChan' = Append(errorChan, v) ELSE errorChan' = errorChan
      /\ call' = call /\ pc' = pc /\ registered' = registered /\ answer' = answer /\ result' = result
      /\ asked' = asked
  BY DEF Leave
<1>2. /\ worker' \in [DOMAIN call.env -> {"none", "waiting", "asking", "resolved", "recorded", "done"}]
      /\ worker'[v] = "done" /\ \A w \in DOMAIN call.env \ {v} : worker'[w] = worker[w]
      /\ NothingYet' /\ WantedOnly' /\ Consulted' /\ AllResolved' /\ EveryOrNothing'
  BY <1>1, WorkerFrame
<1>3. ResultsAreAnswers'
  <2>1. Judged(v, answer'[v]) /\ result'[v] = answer'[v]
    BY <1>1 DEF ResultsAreAnswers
  <2>2. QED
    BY <1>1, <1>2, <2>1, OtherResults
<1>4. DOMAIN worker = DOMAIN call.env /\ DOMAIN worker' = DOMAIN call.env
  BY <1>2 DEF TypeOK
<1>5. Cardinality(Holding)' <= MaxConcurrent
  <2>1. Holding' \subseteq Holding
    BY <1>1, <1>2, <1>4 DEF Holding
  <2>2. IsFiniteSet(Holding)
    BY <1>4, FiniteEnvironment, FS_Subset DEF Holding, TypeOK
  <2>3. Cardinality(Holding') <= Cardinality(Holding) /\ Cardinality(Holding) \in Nat /\ Cardinality(Holding') \in Nat
    BY <2>1, <2>2, FS_Subset, FS_CardinalityType
  <2>4. QED
    BY <2>3, ResolverAssumption DEF ErrorsCounted
<1>6. \A w : Fatal(w)' = Fatal(w)
  BY <1>1, SameCall DEF Fatal
<1>7. Sent' = IF Fatal(v) THEN Sent \cup {v} ELSE Sent
  BY <1>1, <1>2, <1>6 DEF Sent
<1>8. v \notin Sent /\ IsFiniteSet(Sent) /\ Cardinality(Sent) \in Nat
  BY <1>1, RoomForOneMore
<1>9. /\ errorChan' \in Seq(DOMAIN call.env) /\ Len(errorChan') = Cardinality(Sent')
      /\ ToSet(errorChan') = Sent' /\ IsInjective(errorChan')
  <2>1. CASE Fatal(v)
    <3>1. Cardinality(Sent \cup {v}) = Cardinality(Sent) + 1
      BY <1>8, FS_AddElement
    <3>2. errorChan \in Seq(DOMAIN call.env) /\ v \notin ToSet(errorChan) /\ IsInjective(errorChan)
      BY <1>8 DEF ErrorsCounted, TypeOK
    <3>3. /\ errorChan' \in Seq(DOMAIN call.env) /\ Len(errorChan') = Len(errorChan) + 1
          /\ ToSet(errorChan') = ToSet(errorChan) \cup {v} /\ IsInjective(errorChan')
      <4>1. errorChan' = Append(errorChan, v)
        BY <1>1, <2>1
      <4>2. /\ Append(errorChan, v) \in Seq(DOMAIN call.env)
            /\ Len(Append(errorChan, v)) = Len(errorChan) + 1
            /\ ToSet(Append(errorChan, v)) = ToSet(errorChan) \cup {v} /\ IsInjective(Append(errorChan, v))
        BY <3>2, OneMoreError
      <4>3. QED
        BY <4>1, <4>2
    <3>4. QED
      BY <1>7, <2>1, <3>1, <3>3 DEF ErrorsCounted
  <2>2. CASE ~Fatal(v)
    BY <1>1, <1>7, <2>2 DEF ErrorsCounted, TypeOK
  <2>3. QED
    BY <2>1, <2>2
<1>10. ErrorsCounted'
  BY <1>5, <1>9 DEF ErrorsCounted
<1>11. TypeOK'
  BY <1>1, <1>2, <1>9 DEF TypeOK, commands
<1>12. ForbiddenOnlyUnchecked'
  BY <1>1, AskedFrame
<1>13. QED
  BY <1>2, <1>3, <1>10, <1>11, <1>12

\* The goroutines are started: one for each variable wanted, none of them with its provider.
LEMMA SpawnStep ==
  ASSUME CommandInv, Spawn, UNCHANGED commands
  PROVE  CommandInv'
<1> USE DEF CommandInv
<1>1. /\ pc = "spawn" /\ pc' = "wait"
      /\ worker' = [v \in DOMAIN worker |-> IF v \in Wanted THEN "waiting" ELSE "none"]
      /\ call' = call /\ registered' = registered /\ answer' = answer /\ result' = result
      /\ errorChan' = errorChan /\ asked' = asked
  BY DEF Spawn
<1>2. /\ asked = {} /\ errorChan = <<>>
      /\ \A v \in DOMAIN call.env : worker[v] = "none" /\ result[v] = NoResult
      /\ childEnv' = NoEnv /\ file' = "absent" /\ timer' = timer
  BY <1>1 DEF NothingYet, Before, commands
<1>3. worker' = [v \in DOMAIN call.env |-> IF v \in Wanted THEN "waiting" ELSE "none"]
  BY <1>1 DEF TypeOK
<1>4. TypeOK'
  BY <1>1, <1>3 DEF TypeOK, commands
<1>5. NothingYet'
  BY <1>1, <1>2 DEF NothingYet, Before
<1>6. WantedOnly'
  BY <1>1, <1>3, SameCall DEF WantedOnly, After
<1>7. Consulted'
  BY <1>1, SameCall DEF Consulted, After
<1>8. ResultsAreAnswers'
  BY <1>1, <1>2, <1>3 DEF ResultsAreAnswers, NoResult
<1>9. ErrorsCounted'
  <2>1. Holding' = {} /\ Sent' = {} /\ Sent = {}
    BY <1>1, <1>2, <1>3 DEF Holding, Sent
  <2>2. Cardinality({}) = 0
    BY FS_EmptySet
  <2>3. Cardinality(Holding)' <= MaxConcurrent
    BY <2>1, <2>2, ResolverAssumption
  <2>4. QED
    BY <1>1, <2>1, <2>3 DEF ErrorsCounted
<1>10. AllResolved'
  BY <1>1 DEF AllResolved, After
<1>11. ForbiddenOnlyUnchecked'
  BY <1>1, AskedFrame
<1>12. EveryOrNothing'
  BY <1>2 DEF EveryOrNothing
<1>13. QED
  BY <1>4, <1>5, <1>6, <1>7, <1>8, <1>9, <1>10, <1>11, <1>12

-------------------------------------------------------------------------------
(***************************************************************************)
(* The commands.                                                             *)
(***************************************************************************)
\* A command that leaves the goroutines alone leaves what is said of them.
LEMMA CommandFrame ==
  ASSUME CommandInv, registered' = registered \/ pc \in Before,
         call' = call, worker' = worker, answer' = answer, result' = result, errorChan' = errorChan, asked' = asked
  PROVE  ResultsAreAnswers' /\ ErrorsCounted' /\ ForbiddenOnlyUnchecked'
  BY ResultsFrame, CountsFrame, AskedFrame DEF CommandInv

\* Before the goroutines are spawned a command decides, registers and reports.
LEMMA EarlyStep ==
  ASSUME CommandInv, pc \in Before, pc' \in Before \cup {"return"},
         call' = call, worker' = worker, answer' = answer, result' = result, errorChan' = errorChan, asked' = asked,
         buffers' = buffers, childEnv' = childEnv, file' = file, timer' = timer,
         outcome' \in {"none", "ok", "config", "policy", "provider", "unresolved", "failed"},
         Consulted'
  PROVE  CommandInv'
<1> USE DEF CommandInv
<1>1. ResultsAreAnswers' /\ ErrorsCounted' /\ ForbiddenOnlyUnchecked'
  BY CommandFrame
<1>2. EveryOrNothing'
  BY OutputFrame
<1>3. NothingYet'
  BY DEF NothingYet, Before
<1>4. \A v \in DOMAIN call.env : worker[v] = "none"
  BY DEF NothingYet
<1>5. WantedOnly'
  BY <1>4 DEF WantedOnly, Before, After
<1>6. AllResolved'
  BY DEF AllResolved, Before, After
<1>7. TypeOK'
  BY DEF TypeOK, Before
<1>8. QED
  BY <1>1, <1>2, <1>3, <1>5, <1>6, <1>7

\* What a command does before it asks its providers: they are registered, and the policies
\* enforced, before any variable is resolved.
LEMMA EarlySteps ==
  ASSUME CommandInv,
         \/ Load \/ registerProviders \/ Plan \/ Doctor \/ createSecretsProviderInstances
         \/ Rotate \/ displayEngineRotationResults \/ Enforce
  PROVE  CommandInv'
<1> USE DEF CommandInv
<1>1. CASE Load
  <2>1. pc = "load" /\ pc' \in {"register", "return"}
    BY <1>1 DEF Load, End
  <2>2. outcome' \in {"none", "ok", "config", "policy", "provider", "unresolved", "failed"}
    BY <1>1 DEF Load, End, Refused, TypeOK
  <2>3. QED
    BY <1>1, <2>1, <2>2, EarlyStep DEF Load, Before, After, Consulted
<1>2. CASE registerProviders
  <2>1. pc = "register" /\ call.command # "rotate" /\ call' = call
    BY <1>2 DEF registerProviders
  <2>2. call.command \in {"plan", "doctor", "get", "exec", "render"}
    BY <2>1, FiniteEnvironment DEF TypeOK
  <2>3. \/ pc' = "return"
        \/ pc' \in {"plan", "doctor"}
        \/ pc' = "spawn" /\ call.command = "get" /\ registered' = Registered(call.cfg)
        \/ pc' = "enforce" /\ call.command \in {"exec", "render"} /\ registered' = Registered(call.cfg)
    BY <1>2, <2>2 DEF registerProviders, End
  <2>4. Consulted'
    BY <2>1, <2>3 DEF Consulted, After
  <2>5. outcome' \in {"none", "ok", "config", "policy", "provider", "unresolved", "failed"}
    BY <1>2 DEF registerProviders, End, TypeOK
  <2>6. QED
    BY <1>2, <2>1, <2>3, <2>4, <2>5, EarlyStep DEF registerProviders, Before
<1>3. CASE Plan
  <2>1. pc = "plan" /\ pc' = "return" /\ outcome' \in {"config", "ok"}
    BY <1>3 DEF Plan, End
  <2>2. Consulted'
    BY <2>1 DEF Consulted, After
  <2>3. QED
    BY <1>3, <2>1, <2>2, EarlyStep DEF Plan, Before
<1>4. CASE Doctor
  <2>1. pc = "doctor" /\ pc' = "return" /\ outcome' \in {"config", "ok", "provider"}
    BY <1>4 DEF Doctor, End
  <2>2. Consulted'
    BY <2>1 DEF Consulted, After
  <2>3. QED
    BY <1>4, <2>1, <2>2, EarlyStep DEF Doctor, Before
<1>5. CASE createSecretsProviderInstances
  <2>1. pc = "register" /\ pc' \in {"rotate", "return"}
    BY <1>5 DEF createSecretsProviderInstances, End
  <2>2. Consulted'
    BY <2>1 DEF Consulted, After
  <2>3. outcome' \in {"none", "ok", "config", "policy", "provider", "unresolved", "failed"}
    BY <1>5 DEF createSecretsProviderInstances, End, TypeOK
  <2>4. QED
    BY <1>5, <2>1, <2>2, <2>3, EarlyStep DEF createSecretsProviderInstances, Before
<1>6. CASE Rotate
  <2>1. pc = "rotate" /\ pc' = pc /\ outcome' = outcome
    BY <1>6 DEF Rotate
  <2>2. Consulted'
    BY <2>1 DEF Consulted, After
  <2>3. outcome' \in {"none", "ok", "config", "policy", "provider", "unresolved", "failed"}
    BY <2>1 DEF TypeOK
  <2>4. QED
    BY <1>6, <2>1, <2>2, <2>3, EarlyStep DEF Rotate, Before
<1>7. CASE displayEngineRotationResults
  <2>1. pc = "rotate" /\ pc' = "return" /\ outcome' \in {"failed", "ok"}
    BY <1>7 DEF displayEngineRotationResults, End
  <2>2. Consulted'
    BY <2>1 DEF Consulted, After
  <2>3. QED
    BY <1>7, <2>1, <2>2, EarlyStep DEF displayEngineRotationResults, Before
<1>8. CASE Enforce
  <2>1. /\ pc = "enforce" /\ call' = call /\ registered' = registered
        /\ pc' = "return" \/ (pc' = "spawn" /\ enforcePolicies)
    BY <1>8 DEF Enforce, End
  <2>2. Consulted'
    BY <2>1, SameCall DEF Consulted, After
  <2>3. outcome' \in {"none", "ok", "config", "policy", "provider", "unresolved", "failed"}
    BY <1>8 DEF Enforce, End, TypeOK
  <2>4. QED
    BY <1>8, <2>1, <2>2, <2>3, EarlyStep DEF Enforce, Before
<1>9. QED
  BY <1>1, <1>2, <1>3, <1>4, <1>5, <1>6, <1>7, <1>8

\* A command goes on only if every variable has a value.
LEMMA CollectStep ==
  ASSUME CommandInv, Collect
  PROVE  CommandInv'
<1> USE DEF CommandInv
<1>1. /\ pc = "wait" /\ \A v \in Wanted : worker[v] = "done"
      /\ call' = call /\ worker' = worker /\ answer' = answer /\ result' = result /\ registered' = registered
      /\ errorChan' = errorChan /\ asked' = asked /\ childEnv' = childEnv /\ file' = file /\ timer' = timer
  BY DEF Collect, AllDone
<1>2. \/ pc' = "return" /\ outcome' \in {"unresolved", "ok"} /\ buffers' = buffers
      \/ Unresolved = {} /\ call.command = "render" /\ pc' = "render" /\ UNCHANGED <<buffers, outcome>>
      \/ /\ Unresolved = {} /\ call.command \notin {"get", "render"}
         /\ buffers' = [v \in Wanted |-> "sealed"] /\ pc' = "exec" /\ outcome' = outcome
  BY DEF Collect, End
<1>3. childEnv' = NoEnv /\ file' = "absent"
  BY <1>1 DEF NothingYet
<1>4. ResultsAreAnswers' /\ ErrorsCounted' /\ ForbiddenOnlyUnchecked'
  BY <1>1, CommandFrame
<1>5. TypeOK'
  BY <1>1, <1>2 DEF TypeOK
<1>6. NothingYet'
  BY <1>1, <1>2, <1>3 DEF NothingYet, Before
<1>7. WantedOnly'
  <2>1. \A v \in DOMAIN call.env : worker[v] \in {"none", "done"}
    BY <1>1 DEF WantedOnly, TypeOK
  <2>2. QED
    BY <1>1, <1>2, <2>1, SameCall DEF WantedOnly
<1>8. Consulted'
  BY <1>1, <1>2, SameCall DEF Consulted, After
<1>9. AllResolved'
  <2>1. CASE pc' = "return"
    BY <2>1 DEF AllResolved, After
  <2>2. CASE pc' # "return"
    <3>1. call.command # "get" /\ Unresolved = {}
      BY <1>2, <2>2
    <3>2. Wanted = DOMAIN call.env
      BY <3>1, FiniteEnvironment DEF TypeOK
    <3>3. \A v \in DOMAIN call.env : worker[v] = "done" /\ result[v].status = "ok"
      BY <1>1, <3>1, <3>2 DEF Unresolved
    <3>4. QED
      BY <1>1, <1>2, <2>2, <3>3, SameCall DEF AllResolved
  <2>3. QED
    BY <2>1, <2>2
<1>10. EveryOrNothing'
  BY <1>3 DEF EveryOrNothing
<1>11. QED
  BY <1>4, <1>5, <1>6, <1>7, <1>8, <1>9, <1>10

\* The variables are resolved and transformed once the goroutines have them all.
LEMMA ResolvedAndTransformed ==
  ASSUME CommandInv, pc \in After
  PROVE  /\ enforcePolicies /\ Wanted = DOMAIN call.env
         /\ \A v \in DOMAIN call.env :
              /\ result[v].status = "ok"
              /\ result[v].value.transformed <=> Var(v).transform # <<>>
<1> USE DEF CommandInv
<1>1. enforcePolicies /\ call.command # "get"
  BY DEF Consulted, After
<1>2. Wanted = DOMAIN call.env
  BY <1>1, FiniteEnvironment DEF TypeOK
<1>3. \A v \in DOMAIN call.env : /\ result[v].status = "ok" /\ result[v] = answer[v]
                                 /\ Judged(v, answer[v])
  BY DEF AllResolved, ResultsAreAnswers
<1>4. QED
  BY <1>1, <1>2, <1>3 DEF Judged

\* The child is started with the values resolved, and with no buffer left to open.
LEMMA ExecStep ==
  ASSUME CommandInv, Exec
  PROVE  CommandInv'
<1> USE DEF CommandInv
<1>1. /\ pc = "exec"
      /\ call' = call /\ worker' = worker /\ answer' = answer /\ result' = result /\ registered' = registered
      /\ errorChan' = errorChan /\ asked' = asked /\ file' = file /\ timer' = timer
  BY DEF Exec
<1>2. \/ pc' = "return" /\ outcome' = "config" /\ childEnv' = childEnv /\ buffers' = buffers
      \/ /\ pc' = "child" /\ outcome' = outcome /\ childEnv' = buildSecureEnvironment
         /\ buffers' = [v \in Wanted |-> "destroyed"]
  BY DEF Exec, End
<1>3. childEnv = NoEnv /\ file = "absent"
  BY <1>1 DEF NothingYet
<1>4. ResultsAreAnswers' /\ ErrorsCounted' /\ ForbiddenOnlyUnchecked'
  BY <1>1, CommandFrame
<1>5. TypeOK'
  BY <1>1, <1>2 DEF TypeOK
<1>6. NothingYet'
  BY <1>1, <1>2 DEF NothingYet, Before
<1>7. WantedOnly'
  BY <1>1, <1>2, SameCall DEF WantedOnly, After
<1>8. Consulted'
  BY <1>1, <1>2, SameCall DEF Consulted, After
<1>9. AllResolved'
  BY <1>1, <1>2, SameCall DEF AllResolved, After
<1>10. EveryOrNothing'
  <2>1. CASE childEnv' = childEnv
    BY <1>1, <1>3, <2>1 DEF EveryOrNothing
  <2>2. CASE childEnv' # childEnv
    <3>1. /\ enforcePolicies /\ Wanted = DOMAIN call.env
          /\ \A v \in DOMAIN call.env :
               /\ result[v].status = "ok"
               /\ result[v].value.transformed <=> Var(v).transform # <<>>
      BY <1>1, ResolvedAndTransformed DEF After
    <3>2. childEnv' = buildSecureEnvironment /\ buffers' = [v \in Wanted |-> "destroyed"]
      BY <1>2, <2>2
    <3>3. DOMAIN childEnv' = call.os \cup DOMAIN call.env
      BY <3>1, <3>2 DEF buildSecureEnvironment
    <3>4. \A v \in DOMAIN call.env : childEnv'[v] # result[v].value => call.allowOverride
      BY <3>1, <3>2 DEF buildSecureEnvironment
    <3>5. \A v \in DOMAIN buffers' : buffers'[v] = "destroyed"
      BY <3>2
    <3>6. QED
      BY <1>1, <3>1, <3>3, <3>4, <3>5, SameCall DEF EveryOrNothing
  <2>3. QED
    BY <2>1, <2>2
<1>11. QED
  BY <1>4, <1>5, <1>6, <1>7, <1>8, <1>9, <1>10

\* The file is written with every variable in it.
LEMMA RenderStep ==
  ASSUME CommandInv, Render
  PROVE  CommandInv'
<1> USE DEF CommandInv
<1>1. /\ pc = "render" /\ pc' = "return" /\ outcome' \in {"ok", "failed"}
      /\ call' = call /\ worker' = worker /\ answer' = answer /\ result' = result /\ registered' = registered
      /\ errorChan' = errorChan /\ asked' = asked /\ buffers' = buffers /\ childEnv' = childEnv
      /\ \/ file' = "written" /\ timer' \in {"armed", "none"}
         \/ file' = file /\ timer' = timer
  BY DEF Render, End
<1>2. childEnv' = NoEnv
  BY <1>1 DEF NothingYet
<1>3. ResultsAreAnswers' /\ ErrorsCounted' /\ ForbiddenOnlyUnchecked'
  BY <1>1, CommandFrame
<1>4. TypeOK'
  BY <1>1 DEF TypeOK
<1>5. NothingYet'
  BY <1>1 DEF NothingYet, Before
<1>6. WantedOnly'
  BY <1>1, SameCall DEF WantedOnly, After
<1>7. Consulted' /\ AllResolved'
  BY <1>1 DEF Consulted, AllResolved, After
<1>8. EveryOrNothing'
  <2>1. /\ enforcePolicies
        /\ \A v \in DOMAIN call.env :
             /\ result[v].status = "ok"
             /\ result[v].value.transformed <=> Var(v).transform # <<>>
    BY <1>1, ResolvedAndTransformed DEF After
  <2>2. QED
    BY <1>1, <1>2, <2>1, SameCall DEF EveryOrNothing
<1>9. QED
  BY <1>3, <1>4, <1>5, <1>6, <1>7, <1>8

\* The child ends, the command returns and the process exits.
LEMMA LateSteps ==
  ASSUME CommandInv, ChildEnds \/ ChildKilled \/ Exit
  PROVE  CommandInv'
<1> USE DEF CommandInv
<1>1. /\ pc \in {"child", "return"} /\ pc' \in {"return", "exited"}
      /\ call' = call /\ worker' = worker /\ answer' = answer /\ result' = result /\ registered' = registered
      /\ errorChan' = errorChan /\ asked' = asked /\ buffers' = buffers /\ childEnv' = childEnv
      /\ file' = file /\ timer' = timer
  BY DEF ChildEnds, ChildKilled, Exit, End, commands
<1>2. outcome' \in {"none", "ok", "config", "policy", "provider", "unresolved", "failed"}
  BY DEF ChildEnds, ChildKilled, Exit, End, commands, TypeOK
<1>3. ResultsAreAnswers' /\ ErrorsCounted' /\ ForbiddenOnlyUnchecked'
  BY <1>1, CommandFrame
<1>4. TypeOK'
  BY <1>1, <1>2 DEF TypeOK
<1>5. NothingYet'
  BY <1>1 DEF NothingYet, Before
<1>6. WantedOnly'
  BY <1>1, SameCall DEF WantedOnly, After
<1>7. Consulted' /\ AllResolved'
  BY <1>1 DEF Consulted, AllResolved, After
<1>8. EveryOrNothing'
  BY <1>1, OutputFrame
<1>9. QED
  BY <1>3, <1>4, <1>5, <1>6, <1>7, <1>8

\* The goroutine that was left behind deletes what was written, or does not.
LEMMA DeleteStep ==
  ASSUME CommandInv, scheduleDelete
  PROVE  CommandInv'
<1> USE DEF CommandInv
<1>1. /\ timer = "armed" /\ timer' = "fired" /\ file' \in {"removed", file} /\ file # "absent"
      /\ pc' = pc /\ outcome' = outcome
      /\ call' = call /\ worker' = worker /\ answer' = answer /\ result' = result /\ registered' = registered
      /\ errorChan' = errorChan /\ asked' = asked /\ buffers' = buffers /\ childEnv' = childEnv
  BY DEF scheduleDelete, NothingYet
<1>2. ResultsAreAnswers' /\ ErrorsCounted' /\ ForbiddenOnlyUnchecked'
  BY <1>1, CommandFrame
<1>3. TypeOK'
  BY <1>1 DEF TypeOK
<1>4. NothingYet'
  BY <1>1 DEF NothingYet
<1>5. WantedOnly' /\ Consulted' /\ AllResolved'
  BY <1>1, SameCall DEF WantedOnly, Consulted, AllResolved
<1>6. EveryOrNothing'
  BY <1>1, SameCall DEF EveryOrNothing
<1>7. QED
  BY <1>2, <1>3, <1>4, <1>5, <1>6

-------------------------------------------------------------------------------
(***************************************************************************)
(* The theorems.                                                             *)
(***************************************************************************)
\* An invocation begins with nothing resolved.
LEMMA CommandInitially == Init => CommandInv
<1>1. SUFFICES ASSUME Init
               PROVE  CommandInv
  OBVIOUS
<1>2. /\ call \in Calls /\ pc = "load"
      /\ registered = << >> /\ asked = {} /\ errorChan = <<>>
      /\ worker = [v \in DOMAIN call.env |-> "none"]
      /\ answer = [v \in DOMAIN call.env |-> NoResult]
      /\ result = [v \in DOMAIN call.env |-> NoResult]
      /\ buffers = [v \in DOMAIN call.env |-> "none"]
      /\ childEnv = NoEnv /\ file = "absent" /\ timer = "none" /\ outcome = "none"
  BY <1>1 DEF Init, ResolverInit
<1>3. TypeOK
  BY <1>2 DEF TypeOK, NoResult
<1>4. NothingYet
  BY <1>2 DEF NothingYet
<1>5. WantedOnly /\ Consulted /\ AllResolved
  BY <1>2 DEF WantedOnly, Consulted, AllResolved, After
<1>6. ResultsAreAnswers
  BY <1>2 DEF ResultsAreAnswers
<1>7. ErrorsCounted
  <2>1. Holding = {} /\ Sent = {} /\ Cardinality({}) = 0
    BY <1>2, FS_EmptySet DEF Holding, Sent
  <2>2. Len(errorChan) = 0 /\ ToSet(errorChan) = {} /\ IsInjective(errorChan)
    BY <1>2 DEF ToSet, IsInjective
  <2>3. QED
    BY <2>1, <2>2, ResolverAssumption DEF ErrorsCounted
<1>8. ForbiddenOnlyUnchecked /\ EveryOrNothing
  BY <1>2 DEF ForbiddenOnlyUnchecked, EveryOrNothing
<1>9. QED
  BY <1>3, <1>4, <1>5, <1>6, <1>7, <1>8 DEF CommandInv

\* A step that changes nothing.
LEMMA StutterStep ==
  ASSUME CommandInv, UNCHANGED vars
  PROVE  CommandInv'
<1> USE DEF CommandInv
<1>1. /\ pc' = pc /\ outcome' = outcome /\ file' = file /\ timer' = timer
      /\ call' = call /\ worker' = worker /\ answer' = answer /\ result' = result /\ registered' = registered
      /\ errorChan' = errorChan /\ asked' = asked /\ buffers' = buffers /\ childEnv' = childEnv
  BY DEF vars, resolver, commands
<1>2. ResultsAreAnswers' /\ ErrorsCounted' /\ ForbiddenOnlyUnchecked'
  BY <1>1, CommandFrame
<1>3. TypeOK' /\ NothingYet'
  BY <1>1 DEF TypeOK, NothingYet
<1>4. WantedOnly' /\ Consulted' /\ AllResolved'
  BY <1>1, SameCall DEF WantedOnly, Consulted, AllResolved
<1>5. EveryOrNothing'
  BY <1>1, OutputFrame
<1>6. QED
  BY <1>2, <1>3, <1>4, <1>5

\* Every step keeps the invariant.
LEMMA CommandStep == CommandInv /\ [Next]_vars => CommandInv'
<1>1. SUFFICES ASSUME CommandInv, [Next]_vars
               PROVE  CommandInv'
  OBVIOUS
<1>2. CASE Command
  BY <1>1, <1>2, EarlySteps, CollectStep, ExecStep, RenderStep, LateSteps DEF Command, Own
<1>3. CASE Resolving
  <2>1. CASE Spawn
    BY <1>1, <1>3, <2>1, SpawnStep DEF Resolving
  <2>2. ASSUME NEW v \in DOMAIN call.env, Worker(v)
        PROVE  CommandInv'
    BY <1>1, <1>3, <2>2, AnswerLocallyStep, AskStep, AnswerStep, RecordStep, LeaveStep DEF Worker, Resolving
  <2>3. QED
    BY <1>3, <2>1, <2>2 DEF Resolving
<1>4. CASE scheduleDelete
  BY <1>1, <1>4, DeleteStep
<1>5. CASE Done \/ UNCHANGED vars
  BY <1>1, <1>5, StutterStep DEF Done
<1>6. QED
  BY <1>1, <1>2, <1>3, <1>4, <1>5 DEF Next

\* The invariant holds of every invocation.
LEMMA CommandInvariance == Spec => []CommandInv
  BY CommandInitially, CommandStep, PTL DEF Spec

\* ResolveVariablesConcurrently: no more goroutines than MaxConcurrent are with their
\* providers, the channel has room for every error, and in the end each variable has one
\* answer and the errors are exactly those of the required variables that failed, however
\* many variables there are.
THEOREM VariablesAreAnswered == Spec => []EveryVariableAnswered
<1>1. ASSUME CommandInv
      PROVE  EveryVariableAnswered
  <2> USE <1>1 DEF CommandInv
  <2>1. Cardinality(Holding) <= MaxConcurrent
    BY DEF ErrorsCounted
  <2>2. ASSUME NEW v \in DOMAIN worker, worker[v] = "recorded"
        PROVE  Len(errorChan) < Cardinality(Wanted)
    <3>1. v \in DOMAIN call.env
      BY <2>2 DEF TypeOK
    <3>2. QED
      BY <2>2, <3>1, RoomForOneMore
  <2>3. ASSUME AllDone
        PROVE  /\ \A v \in Wanted : result[v].status # "none"
               /\ ToSet(errorChan) = {v \in Wanted : result[v].status # "ok" /\ ~Var(v).optional}
               /\ IsInjective(errorChan)
    <3>1. Wanted \subseteq DOMAIN call.env /\ \A v \in Wanted : worker[v] = "done"
      BY <2>3 DEF AllDone, Wanted
    <3>2. \A v \in Wanted : result[v] = answer[v] /\ Judged(v, answer[v])
      BY <3>1 DEF ResultsAreAnswers
    <3>3. \A v \in Wanted : result[v].status # "none"
      BY <3>2 DEF Judged
    <3>4. Sent = {v \in Wanted : result[v].status # "ok" /\ ~Var(v).optional}
      BY <3>1, <3>2 DEF Sent, Fatal, WantedOnly
    <3>5. QED
      BY <3>3, <3>4 DEF ErrorsCounted
  <2>4. QED
    BY <2>1, <2>2, <2>3 DEF EveryVariableAnswered
<1>2. QED
  BY <1>1, CommandInvariance, PTL

\* Plan and the resolution judge a variable alike, whatever the configuration and whatever
\* the providers answer.
THEOREM PlansForetell == Spec => []PlanForetells
<1>1. ASSUME CommandInv
      PROVE  PlanForetells
  <2>1. ASSUME NEW v \in DOMAIN result, result[v].status # "none"
        PROVE  Planned(v) = "config" <=> result[v].status = "config"
    <3>1. v \in DOMAIN call.env /\ worker[v] \in {"recorded", "done"}
      BY <1>1, <2>1 DEF CommandInv, TypeOK, ResultsAreAnswers, NoResult
    <3>2. result[v] = answer[v] /\ Judged(v, answer[v])
      BY <1>1, <3>1 DEF CommandInv, ResultsAreAnswers
    <3>3. QED
      BY <3>2 DEF Judged
  <2>2. QED
    BY <2>1 DEF PlanForetells
<1>2. QED
  BY <1>1, CommandInvariance, PTL

\* A provider of a type the policies forbid is asked only where they are not consulted: by
\* "get", through a store URI, or under the name of a store a legacy provider took over.
THEOREM PoliciesAreConsulted == Spec => []ForbiddenOnlyUnchecked
<1>1. CommandInv => ForbiddenOnlyUnchecked
  BY DEF CommandInv
<1>2. QED
  BY <1>1, CommandInvariance, PTL

\* A child is started and a file is written only with every required variable of the
\* environment, and as the code has it every optional one, resolved and transformed and the
\* policies enforced, whatever fails.
THEOREM CommandsAreAllOrNothing == Spec => []NothingHalfDone
<1>1. EveryOrNothing => AllOrNothing /\ StopsForOptional
  BY DEF EveryOrNothing, AllOrNothing, StopsForOptional
<1>2. CommandInv => NothingHalfDone
  BY <1>1 DEF CommandInv, NothingHalfDone
<1>3. QED
  BY <1>2, CommandInvariance, PTL
===============================================================================
