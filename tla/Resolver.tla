---------------------------------- MODULE Resolver ----------------------------------
(***************************************************************************)
(* The resolution of an environment: the providers are registered, the       *)
(* policies are enforced, and one goroutine per variable fetches and         *)
(* transforms its value, MaxConcurrent at a time, the providers answering in *)
(* any order, with an error, or after their deadline.  The commands that use *)
(* the result are in the module Commands.                                    *)
(***************************************************************************)
EXTENDS Config

CONSTANTS Calls,          \* the invocations of dsops: see CallFields
          MaxConcurrent   \* ten in the code

ASSUME ResolverAssumption ==
  /\ MaxConcurrent \in Nat \ {0}
  /\ \A c \in Calls : /\ IsFiniteSet(DOMAIN c.env)
                     /\ c.command \in {"plan", "doctor", "get", "exec", "render", "rotate"}

VARIABLES call, pc, registered, worker, answer, result, errorChan, asked

resolver == <<call, pc, registered, worker, answer, result, errorChan, asked>>

(***************************************************************************)
(* call: [command, env: a function from names to variables, envName, only:   *)
(* the variable "get" is asked for, cfg, policy, and the options of exec and *)
(* render].                                                                  *)
(* A variable: [literal, from, transform, optional].                         *)
(***************************************************************************)
Wanted == IF call.command = "get" THEN {call.only} \cap DOMAIN call.env ELSE DOMAIN call.env
Var(v) == call.env[v]

HasPolicies == call.policy # NoPolicy

(***************************************************************************)
(* Transforms.  A value is known by its shape: a JSON object, a JSON list,   *)
(* base64, or any other text.  A chain is cut at the commas if it has one,   *)
(* and otherwise at the bars, so that a bar beside a comma stays inside a    *)
(* step, where only "replace" and "join" take it for part of an argument.    *)
(***************************************************************************)
Shapes == {"object", "list", "base64", "text"}

Steps(transform) ==
  LET separator == IF Contains(transform, ",") THEN "," ELSE "|"
      cuts == SetToSortSeq({0, Len(transform) + 1} \cup
                           {i \in 1 .. Len(transform) : transform[i] = separator}, <)
      step(i) == SubSeq(transform, cuts[i] + 1, cuts[i + 1] - 1)
  IN [i \in 1 .. Len(cuts) - 1 |->
        IF Len(step(i)) = 1 \/ (step(i) # <<>> /\ Head(step(i)) \in {"replace", "join"})
        THEN Head(step(i)) ELSE "unknown"]

(* The path is that of a field the object has. *)
extractJSONPath(shape) == IF shape = "object" THEN "text" ELSE "failed"
extractYAMLPath(shape) == IF shape = "object" THEN "text" ELSE "failed"
base64Decode(shape) == IF shape = "base64" THEN "text" ELSE "failed"
joinValues(shape) == "text"

applySingleTransform(shape, step) ==
  CASE shape = "failed" -> "failed"
    [] shape # "failed" /\ step \in {"trim", "multiline_to_single"} -> shape
    [] shape # "failed" /\ step = "json_extract" -> extractJSONPath(shape)
    [] shape # "failed" /\ step = "yaml_extract" -> extractYAMLPath(shape)
    [] shape # "failed" /\ step = "base64_decode" -> base64Decode(shape)
    [] shape # "failed" /\ step = "base64_encode" -> "base64"
    [] shape # "failed" /\ step = "replace" -> "text"
    [] shape # "failed" /\ step = "join" -> joinValues(shape)
    [] OTHER -> "failed"

Transforms == UNION {{c.env[v].transform : v \in DOMAIN c.env} : c \in Calls}

applyTransform ==
  [transform \in Transforms |->
     [shape \in Shapes |-> FoldLeft(applySingleTransform, shape, Steps(transform))]]

(***************************************************************************)
(* What becomes of a variable: [status, value].  A value keeps where it came *)
(* from, its shape, and whether it was transformed.                          *)
(***************************************************************************)
NoResult == [status |-> "none", value |-> NoReference]
Failed(status) == [status |-> status, value |-> NoReference]

Finished(v, origin, shape) ==
  IF Var(v).transform = <<>>
  THEN [status |-> "ok", value |-> [origin |-> origin, shape |-> shape, transformed |-> FALSE]]
  ELSE LET transformed == applyTransform[Var(v).transform][shape]
       IN IF transformed = "failed" THEN Failed("transform")
          ELSE [status |-> "ok",
                value |-> [origin |-> origin, shape |-> transformed, transformed |-> TRUE]]

Literal == <<"literal">>

(* A variable that reaches no provider is answered at once. *)
IsLocal(v) ==
  \/ Var(v).literal # <<>>
  \/ (Var(v).from # NoReference) =>
       \/ IsServiceReference(Var(v).from)
       \/ GetEffectiveProvider(Var(v).from) \notin DOMAIN registered

LocalAnswer(v) ==
  IF Var(v).literal # <<>> THEN Finished(v, Literal, "text") ELSE Failed("config")

(***************************************************************************)
(* Plan: what it says of a variable without asking a provider.               *)
(***************************************************************************)
(* Mutant: the plan does not ask whether the provider is registered. *)
PlannedUnregistered(v) ==
  IF Var(v).literal # <<>> \/ (Var(v).from # NoReference /\ ~IsServiceReference(Var(v).from))
  THEN "ok" ELSE "config"

Planned(v) ==
  IF Var(v).literal # <<>> THEN "ok"
  ELSE IF /\ Var(v).from # NoReference /\ ~IsServiceReference(Var(v).from)
          /\ GetEffectiveProvider(Var(v).from) \in DOMAIN registered
       THEN "ok" ELSE "config"

(***************************************************************************)
(* The policies, as enforced before a resolution: they are asked about the   *)
(* provider a legacy reference names; any other reference names none here.   *)
(***************************************************************************)
(* Mutant: the rules of the environment are forgotten. *)
PolicyAllowsGlobally(v) ==
  (Var(v).from # NoReference /\ Var(v).from.provider \in Known(call.cfg)) =>
    ValidateProviderType(call.policy, GetProvider(call.cfg, Var(v).from.provider))

PolicyAllows(v) ==
  LET named == Var(v).from.provider
  IN (Var(v).from # NoReference /\ named \in Known(call.cfg)) =>
       /\ ValidateProviderType(call.policy, GetProvider(call.cfg, named))
       /\ ValidateEnvironmentProvider(call.policy, call.envName, GetProvider(call.cfg, named))

enforcePolicies ==
  HasPolicies =>
    /\ ValidateEnvironmentSecretCount(call.policy, call.envName, Cardinality(DOMAIN call.env))
    /\ \A v \in DOMAIN call.env : PolicyAllows(v)

(***************************************************************************)
(* The steps.                                                                *)
(***************************************************************************)
ResolverInit ==
  /\ call \in Calls
  /\ registered = << >> /\ asked = {} /\ errorChan = <<>>
  /\ worker = [v \in DOMAIN call.env |-> "none"]
  /\ answer = [v \in DOMAIN call.env |-> NoResult]
  /\ result = [v \in DOMAIN call.env |-> NoResult]

Spawn ==
  /\ pc = "spawn" /\ pc' = "wait"
  /\ worker' = [v \in DOMAIN worker |-> IF v \in Wanted THEN "waiting" ELSE "none"]
  /\ UNCHANGED <<call, registered, answer, result, errorChan, asked>>

Holding == {v \in DOMAIN worker : worker[v] \in {"asking", "resolved", "recorded"}}

(* A goroutine gets through the semaphore and has nothing to ask for, *)
AnswerLocally(v) ==
  /\ worker[v] = "waiting" /\ Cardinality(Holding) < MaxConcurrent /\ IsLocal(v)
  /\ worker' = [worker EXCEPT ![v] = "resolved"]
  /\ answer' = [answer EXCEPT ![v] = LocalAnswer(v)]
  /\ UNCHANGED <<call, pc, registered, result, errorChan, asked>>

(* or it asks the provider registered under the name. *)
Ask(v) ==
  /\ worker[v] = "waiting" /\ Cardinality(Holding) < MaxConcurrent /\ ~IsLocal(v)
  /\ worker' = [worker EXCEPT ![v] = "asking"]
  /\ \E name \in {GetEffectiveProvider(Var(v).from)} :
       asked' = asked \cup {[var |-> v, type |-> registered[name].type,
         ref |-> Delivered(registered[name], ResolverReference(name, Var(v).from))]}
  /\ UNCHANGED <<call, pc, registered, answer, result, errorChan>>

(* The provider answers, or gives up on the deadline of its context. *)
Answer(v) ==
  /\ worker[v] = "asking"
  /\ worker' = [worker EXCEPT ![v] = "resolved"]
  /\ answer' \in {[answer EXCEPT ![v] = given] :
       given \in {Failed("provider"), Failed("timeout")} \cup
             {Finished(v, a.ref.key, shape) : a \in {a \in asked : a.var = v}, shape \in {"object", "text"}}}
  /\ UNCHANGED <<call, pc, registered, result, errorChan, asked>>

Record(v) ==
  /\ worker[v] = "resolved"
  /\ result' = [result EXCEPT ![v] = answer[v]]
  /\ worker' = [worker EXCEPT ![v] = "recorded"]
  /\ UNCHANGED <<call, pc, registered, answer, errorChan, asked>>

(* Mutant: the error of an optional variable is sent too. *)
FatalOptional(v) == answer[v].status # "ok"

Fatal(v) == answer[v].status # "ok" /\ ~Var(v).optional

(* Mutant: the channel has room for one error. *)
LeaveOneError(v) ==
  /\ worker[v] = "recorded"
  /\ IF Fatal(v) THEN Len(errorChan) < 1 /\ errorChan' = Append(errorChan, v)
     ELSE UNCHANGED errorChan
  /\ worker' = [worker EXCEPT ![v] = "done"]
  /\ UNCHANGED <<call, pc, registered, answer, result, asked>>

(* The error of a required variable is sent on the channel, which must have  *)
(* room for it; then the semaphore is released.                              *)
Leave(v) ==
  /\ worker[v] = "recorded"
  /\ IF Fatal(v)
     THEN Len(errorChan) < Cardinality(Wanted) /\ errorChan' = Append(errorChan, v)
     ELSE UNCHANGED errorChan
  /\ worker' = [worker EXCEPT ![v] = "done"]
  /\ UNCHANGED <<call, pc, registered, answer, result, asked>>

Worker(v) == AnswerLocally(v) \/ Ask(v) \/ Answer(v) \/ Record(v) \/ Leave(v)

AllDone == pc = "wait" /\ \A v \in Wanted : worker[v] = "done"

(***************************************************************************)
(* Properties.                                                               *)
(***************************************************************************)

(* Resolver.ResolveVariablesConcurrently: no more than MaxConcurrent         *)
(* goroutines are with their providers at once, an error finds room on the   *)
(* channel, so that no goroutine keeps the wait group waiting, and once all  *)
(* are done every variable has one answer and the errors sent are exactly    *)
(* those of the required variables that failed.                              *)
EveryVariableAnswered ==
  /\ Cardinality(Holding) <= MaxConcurrent
  /\ \A v \in DOMAIN worker : worker[v] = "recorded" /\ Fatal(v) => Len(errorChan) < Cardinality(Wanted)
  /\ AllDone => /\ \A v \in Wanted : result[v].status # "none"
                /\ ToSet(errorChan) = {v \in Wanted : result[v].status # "ok" /\ ~Var(v).optional}
                /\ IsInjective(errorChan)

(* Resolver.Plan and Resolver.ResolveVariablesConcurrently judge a variable  *)
(* alike: what a resolution finds wrong with the configuration of a variable *)
(* is what the plan reports as an error, and nothing else.                   *)
PlanForetells ==
  \A v \in DOMAIN result : result[v].status # "none" =>
    (Planned(v) = "config" <=> result[v].status = "config")

(* Resolver.enforcePolicies: a provider of a type the policies forbid is     *)
(* asked for a secret only where they are not consulted about it: by "get",  *)
(* through a store URI, or under a name a legacy provider took from a store. *)
ForbiddenOnlyUnchecked ==
  \A a \in asked :
    \/ ~HasPolicies
    \/ /\ ValidateProviderType(call.policy, a.type)
       /\ ValidateEnvironmentProvider(call.policy, call.envName, a.type)
    \/ call.command = "get"
    \/ ~IsLegacyFormat(Var(a.var).from)
    \/ GetProvider(call.cfg, Var(a.var).from.provider) # a.type

(* secretstore.ParseSecretRef and SecretRef.String, service.ParseServiceRef  *)
(* and ServiceRef.String: what is parsed, printed and parsed again is the    *)
(* same reference.                                                           *)
ReferencesRoundTrip ==
  \A v \in DOMAIN call.env : Var(v).from # NoReference =>
    LET secret == ParseSecretRef(Var(v).from.store)
        service == ParseServiceRef(Var(v).from.service)
    IN /\ ParseSecretRef(SecretRefString(secret)) = secret
       /\ ParseServiceRef(ServiceRefString(service)) = service
===================================================================================
