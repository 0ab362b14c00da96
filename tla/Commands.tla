---------------------------------- MODULE Commands ----------------------------------
(***************************************************************************)
(* dsops plan, doctor, get, exec, render and secrets rotate: one invocation  *)
(* of the program, from the configuration to the child process, the file,    *)
(* the printed value or the report, up to the exit of the process.           *)
(*                                                                           *)
(* The options in call: os, the names set in the environment dsops runs in;  *)
(* allowOverride; commandExists; timeout, whether exec was given one; output *)
(* and extension, the path of render; format, "" if it is left to the         *)
(* extension; template, "none", "found" or                                    *)
(* "missing"; ttl, whether the file is to be deleted; checksEnv, whether      *)
(* doctor was given an environment; keys, the variables to rotate.           *)
(***************************************************************************)
EXTENDS Resolver

CONSTANTS NoEnv

VARIABLES report,    \* what "plan", "doctor" or "rotate" says of each variable
          buffers,   \* [variable -> "none", "sealed" or "destroyed"]
          childEnv,  \* the environment of the child, NoEnv before it starts
          file,      \* "absent", "written" or "removed"
          timer,     \* the goroutine that deletes the file: "none", "armed", "fired"
          outcome    \* how the command ended

commands == <<report, buffers, childEnv, file, timer, outcome>>
vars == <<resolver, commands>>

Init ==
  /\ ResolverInit
  /\ pc = "load"
  /\ report = << >> /\ buffers = [v \in DOMAIN call.env |-> "none"]
  /\ childEnv = NoEnv /\ file = "absent" /\ timer = "none" /\ outcome = "none"

End(how) == outcome' = how /\ pc' = "return"

(* Load, and what a command checks before it asks for its providers. *)
Refused ==
  CASE ~call.parses -> "config"
    [] call.parses /\ call.command = "render" /\ HasPolicies
       /\ ~ValidateOutputPath(call.policy, call.output) -> "policy"
    [] call.parses /\ call.command = "get" /\ (~call.known \/ Wanted = {}) -> "config"
    [] call.parses /\ call.command = "rotate" /\ ~call.known -> "config"
    [] OTHER -> "none"

Load ==
  /\ pc = "load"
  /\ IF Refused # "none" THEN End(Refused) ELSE pc' = "register" /\ UNCHANGED outcome
  /\ UNCHANGED <<call, registered, worker, answer, result, errorChan, asked,
                 report, buffers, childEnv, file, timer>>

registerProviders ==
  /\ pc = "register" /\ call.command # "rotate"
  /\ IF RegistrationFails(call.cfg)
     THEN End("provider") /\ UNCHANGED registered
     ELSE /\ registered' = Registered(call.cfg)
          /\ pc' = (CASE call.command \in {"plan", "doctor"} -> call.command
                      [] call.command = "get" -> "spawn" [] OTHER -> "enforce")
          /\ UNCHANGED outcome
  /\ UNCHANGED <<call, worker, answer, result, errorChan, asked, report, buffers, childEnv, file, timer>>

Plan ==
  /\ pc = "plan"
  /\ report' = [v \in DOMAIN call.env |-> Planned(v)]
  /\ End(IF ~call.known \/ \E v \in DOMAIN call.env : Planned(v) # "ok" THEN "config" ELSE "ok")
  /\ UNCHANGED <<call, registered, worker, answer, result, errorChan, asked,
                 buffers, childEnv, file, timer>>

(* A provider passes its validation before its deadline, or does not. *)
ValidateProvider == SUBSET DOMAIN registered

checkEnvironment == call.known /\ \A v \in DOMAIN call.env : Planned(v) = "ok"

(* The environment is planned, if one is given; a store or a legacy provider *)
(* that is not registered, or is not valid, is not healthy.                  *)
Doctor ==
  /\ pc = "doctor"
  /\ report' = IF call.checksEnv THEN [v \in DOMAIN call.env |-> Planned(v)] ELSE << >>
  /\ \E valid \in ValidateProvider :
       End(IF call.checksEnv /\ ~checkEnvironment THEN "config"
           ELSE IF DOMAIN call.cfg.stores \cup DOMAIN call.cfg.legacy \subseteq valid
                THEN "ok" ELSE "provider")
  /\ UNCHANGED <<call, registered, worker, answer, result, errorChan, asked,
                 buffers, childEnv, file, timer>>

(* "rotate" makes a provider of every name, the services' included, or fails. *)
createSecretsProviderInstances ==
  /\ pc = "register" /\ call.command = "rotate"
  /\ IF \E name \in Known(call.cfg) :
          name \in call.cfg.broken \/ ListAllProviders(call.cfg)[name] \notin ProviderTypes
     THEN End("provider") /\ UNCHANGED registered
     ELSE /\ registered' = [name \in Known(call.cfg) |->
                             [type |-> ListAllProviders(call.cfg)[name], wrapped |-> FALSE]]
          /\ pc' = "rotate" /\ UNCHANGED outcome
  /\ UNCHANGED <<call, worker, answer, result, errorChan, asked, report, buffers, childEnv, file, timer>>

(* Only a legacy reference names a provider here, and a literal is skipped.  *)
rotateSecretValueWithEngine(key) ==
  IF key \in DOMAIN call.env /\ Var(key).from = NoReference THEN {"skipped"}
  ELSE {"failed"} \cup (IF key \in DOMAIN call.env /\ Var(key).from.provider \in DOMAIN registered
                        THEN {"ok"} ELSE {})

Rotate ==
  /\ pc = "rotate"
  /\ \E key \in call.keys \ DOMAIN report : \E status \in rotateSecretValueWithEngine(key) :
       report' = report @@ (key :> status)
  /\ UNCHANGED <<call, pc, registered, worker, answer, result, errorChan, asked,
                 buffers, childEnv, file, timer, outcome>>

displayEngineRotationResults ==
  /\ pc = "rotate" /\ DOMAIN report = call.keys
  /\ End(IF \E key \in call.keys : report[key] = "failed" THEN "failed" ELSE "ok")
  /\ UNCHANGED <<call, registered, worker, answer, result, errorChan, asked,
                 report, buffers, childEnv, file, timer>>

Enforce ==
  /\ pc = "enforce"
  /\ CASE ~call.known -> End("config")
       [] call.known /\ ~enforcePolicies -> End("policy")
       [] OTHER -> pc' = "spawn" /\ UNCHANGED outcome
  /\ UNCHANGED <<call, registered, worker, answer, result, errorChan, asked,
                 report, buffers, childEnv, file, timer>>

Resolving == (Spawn \/ \E v \in DOMAIN call.env : Worker(v)) /\ UNCHANGED commands

(* Mutant: a value that could not be transformed is passed over. *)
UnresolvedFetched == {v \in Wanted : result[v].status \notin {"ok", "transform"}}

Unresolved == {v \in Wanted : result[v].status # "ok"}

(* The resolver returns an error when one was sent; the commands give up too *)
(* when any variable is without a value, an optional one included.           *)
Collect ==
  /\ AllDone
  /\ IF Unresolved # {} THEN End("unresolved") /\ UNCHANGED buffers
     ELSE CASE call.command = "get" -> End("ok") /\ UNCHANGED buffers
            [] call.command = "render" -> pc' = "render" /\ UNCHANGED <<buffers, outcome>>
            [] OTHER -> /\ buffers' = [v \in Wanted |-> "sealed"]
                        /\ pc' = "exec" /\ UNCHANGED outcome
  /\ UNCHANGED <<call, registered, worker, answer, result, errorChan, asked,
                 report, childEnv, file, timer>>

(* A value of the variable's own, unless the environment's is to win. *)
buildSecureEnvironment ==
  [name \in call.os \cup Wanted |->
     IF name \in Wanted /\ ~(call.allowOverride /\ name \in call.os)
     THEN result[name].value ELSE NoReference]

(* The buffers are opened, read and destroyed before the child starts; a     *)
(* command that is not found is noticed before that.                         *)
Exec ==
  /\ pc = "exec"
  /\ IF call.commandExists
     THEN /\ childEnv' = buildSecureEnvironment
          /\ buffers' = [v \in Wanted |-> "destroyed"]
          /\ pc' = "child" /\ UNCHANGED outcome
     ELSE End("config") /\ UNCHANGED <<childEnv, buffers>>
  /\ UNCHANGED <<call, registered, worker, answer, result, errorChan, asked, report, file, timer>>

(* The child ends with its status, which becomes that of dsops, or could not *)
(* be started. *)
ChildEnds ==
  /\ pc = "child"
  /\ \E how \in {"ok", "failed"} : End(how)
  /\ UNCHANGED <<call, registered, worker, answer, result, errorChan, asked,
                 report, buffers, childEnv, file, timer>>

(* It is killed at the timeout, if there is one: --timeout is 0 by default.  *)
ChildKilled ==
  /\ pc = "child" /\ call.timeout
  /\ End("failed")
  /\ UNCHANGED <<call, registered, worker, answer, result, errorChan, asked,
                 report, buffers, childEnv, file, timer>>

detectFormat(extension) ==
  CASE extension = ".json" -> "json"
    [] extension \in {".yaml", ".yml"} -> "yaml"
    [] extension \in {".tmpl", ".template"} -> "template"
    [] OTHER -> "dotenv"

(* A template is asked for by the format or by its path, and must be there.   *)
Format ==
  CASE call.template # "none" -> "template"
    [] call.template = "none" /\ call.format # "" -> call.format
    [] OTHER -> detectFormat(call.extension)

renderContent ==
  /\ Format \in {"dotenv", "json", "yaml", "template"}
  /\ call.template # "missing"
  /\ call.format = "template" => call.template # "none"

(* The content is made, the file is written, which may fail, and a goroutine *)
(* is left behind to delete it.                                              *)
Render ==
  /\ pc = "render"
  /\ \/ /\ renderContent /\ file' = "written" /\ End("ok")
        /\ timer' = IF call.ttl THEN "armed" ELSE "none"
     \/ End("failed") /\ UNCHANGED <<file, timer>>
  /\ UNCHANGED <<call, registered, worker, answer, result, errorChan, asked,
                 report, buffers, childEnv>>

(* The deletion may fail, and the goroutine ends either way. *)
scheduleDelete ==
  /\ timer = "armed" /\ pc # "exited"
  /\ timer' = "fired" /\ file' \in {"removed", file}
  /\ UNCHANGED <<call, pc, registered, worker, answer, result, errorChan, asked,
                 report, buffers, childEnv, outcome>>

(* The command returns, the process exits, and its goroutines are gone. *)
Exit ==
  /\ pc = "return" /\ pc' = "exited"
  /\ UNCHANGED <<call, registered, worker, answer, result, errorChan, asked, commands>>

Done == pc = "exited" /\ UNCHANGED vars

(* What the program does by itself, and what others do while it waits. *)
Own ==
  \/ Load \/ registerProviders \/ Plan \/ Doctor
  \/ createSecretsProviderInstances \/ displayEngineRotationResults
  \/ Enforce \/ Collect \/ Exec \/ ChildKilled \/ Render \/ Exit

Command == Own \/ Rotate \/ ChildEnds

Next == Command \/ Resolving \/ scheduleDelete \/ Done

(* A keychain is asked without the context, so that no deadline reaches it.  *)
Unlimited(v) == worker[v] = "asking" /\ \E a \in asked : a.var = v /\ a.type = "keychain"

(* A strategy is called without a deadline, and a script may take for ever.  *)
ReachesStrategy(key) == "ok" \in rotateSecretValueWithEngine(key)

(* The program's own steps are taken, and a provider that is given a deadline *)
(* answers or gives up at it.  A child may run, a rotation script work and a  *)
(* keychain wait for its user for ever.  No step can be repeated, so that one *)
(* condition for the goroutines together says as much as one for each.        *)
Fairness ==
  /\ WF_vars(Own)
  /\ WF_vars(Rotate /\ \A key \in DOMAIN report' \ DOMAIN report : ~ReachesStrategy(key))
  /\ WF_vars((Spawn \/ \E v \in DOMAIN call.env : ~Unlimited(v) /\ Worker(v)) /\ UNCHANGED commands)
  /\ WF_vars(scheduleDelete)

Spec == Init /\ [][Next]_vars /\ Fairness

(***************************************************************************)
(* Properties.                                                               *)
(***************************************************************************)

(* The types of the variables. *)
TypeOK ==
  /\ pc \in {"load", "register", "plan", "doctor", "rotate", "enforce", "spawn", "wait", "exec", "child", "render",
             "return", "exited"}
  /\ call \in Calls
  /\ worker \in [DOMAIN call.env -> {"none", "waiting", "asking", "resolved", "recorded", "done"}]
  /\ DOMAIN answer = DOMAIN call.env /\ DOMAIN result = DOMAIN call.env
  /\ \A v \in DOMAIN call.env :
       {answer[v].status, result[v].status} \subseteq
         {"none", "ok", "config", "provider", "timeout", "transform"}
  /\ errorChan \in Seq(DOMAIN call.env)
  /\ \A v \in DOMAIN buffers : buffers[v] \in {"none", "sealed", "destroyed"}
  /\ file \in {"absent", "written", "removed"} /\ timer \in {"none", "armed", "fired"}
  /\ outcome \in {"none", "ok", "config", "policy", "provider", "unresolved", "failed"}

(* exec and render: a child is started or a file is written only with every  *)
(* required variable of the environment resolved and transformed, the         *)
(* policies consulted; the child gets the value resolved for a variable, or   *)
(* the one dsops was started with when that is to win, no buffer being left   *)
(* to open. *)
AllOrNothing ==
  /\ (childEnv # NoEnv \/ file # "absent") =>
       /\ enforcePolicies
       /\ \A v \in DOMAIN call.env :
            /\ result[v].status = "ok" \/ Var(v).optional
            /\ result[v].status = "ok" => (result[v].value.transformed <=> Var(v).transform # <<>>)
  /\ childEnv # NoEnv =>
       /\ \A v \in DOMAIN call.env : result[v].status = "ok" =>
            v \in DOMAIN childEnv /\ (childEnv[v] # result[v].value => call.allowOverride)
       /\ \A v \in DOMAIN buffers : buffers[v] = "destroyed"

(* Where the code departs from its documentation: `optional` is to "allow     *)
(* missing secret" (configuration.md:333), and the resolver goes on without   *)
(* an optional variable, but exec and render then stop for it all the same.   *)
StopsForOptional ==
  childEnv # NoEnv \/ file # "absent" => \A v \in DOMAIN call.env : result[v].status = "ok"

(* The types, nothing half done, and the one place where it is more than was  *)
(* asked for (exec.go:76-98, render.go, resolver.go:190-205).                 *)
NothingHalfDone == TypeOK /\ AllOrNothing /\ StopsForOptional

(* Whatever the providers answer and whatever the configuration, a command   *)
(* ends, unless it waits for what it sets no limit to: a child without a      *)
(* timeout, the strategy of a key, the user of a keychain.  No goroutine of   *)
(* its own keeps the wait group waiting.                                      *)
CommandEnds ==
  <>[] \/ pc = "exited"
       \/ pc = "child" /\ ~call.timeout
       \/ pc = "rotate" /\ \E key \in call.keys \ DOMAIN report : ReachesStrategy(key)
       \/ \E v \in DOMAIN call.env : Unlimited(v)
===================================================================================
