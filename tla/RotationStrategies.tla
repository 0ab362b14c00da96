--------------------------- MODULE RotationStrategies ---------------------------
(***************************************************************************)
(* pkg/rotation: the strategies that wrap a rotator (immediate, overlap,     *)
(* two-secret) and the rotators they wrap (random, script, webhook, and one  *)
(* that implements TwoSecretRotator), acting on the credentials a service    *)
(* holds.  A caller asks for one rotation, verification or rollback after    *)
(* the other; its process may die between two steps of a rotation.           *)
(*                                                                         *)
(* Scripts, webhooks and two-secret rotators are outside dsops: they may     *)
(* fail, their answer may be lost after they acted, and what they answer is  *)
(* taken to be true.  A credential is named by the order of its creation.    *)
(***************************************************************************)
EXTENDS Integers, Sequences, FiniteSets

CONSTANTS
  Requests,         \* the rotations asked for
  NoSchema, NoKind, \* no dsops-data repository; no credential kind found in it
  MinInterval,      \* Constraints.MinRotationInterval
  Validity, Overlap,\* totalValidity and overlapPeriod of the overlap strategy
  MaxCalls,         \* bound: calls of the caller
  MaxTime           \* bound: clock

ASSUME StrategiesAssumption == {MinInterval, Validity, Overlap, MaxCalls, MaxTime} \subseteq Nat

VARIABLES
  keys,       \* credentials the service accepts
  primary,    \* the one it is used with
  made,       \* credentials created so far
  verified,   \* history: credentials that passed a verification
  last,       \* when the service was last rotated (0: it does not know)
  now,
  call,       \* the request being worked on
  ref,        \* the secondary it created (0: none)
  known,      \* history: the time of the last rotation its status check was told (0: none)
  status,     \* the result returned for the last call
  calls,
  stage

service == <<keys, primary, made, last>>
strategyVars == <<service, verified, now, call, ref, known, status, calls, stage>>

StrategyInit ==
  /\ keys = {1} /\ primary = 1 /\ made = 1 /\ last = 0
  /\ verified = {1} /\ now = 1
  /\ call \in Requests /\ ref = 0 /\ known = 0 /\ status = "none" /\ calls = 0
  /\ stage = "idle"

-------------------------------------------------------------------------------
(* What a request's metadata and schema allow.                              *)

\* The kind asked for by name; "default", when no kind has that name, is the first.
getCredentialKind(c) ==
  IF c.schema = NoSchema THEN NoKind
  ELSE LET named == {i \in DOMAIN c.schema : c.schema[i].name = c.kind}
       IN  CASE named # {} -> c.schema[CHOOSE i \in named : \A j \in named : i <= j]
             [] named = {} /\ c.kind = "default" /\ c.schema # <<>> -> c.schema[1]
             [] OTHER -> NoKind

\* Without a schema, or a kind in it, everything is allowed.
Capable(c, capability) ==
  LET kind == getCredentialKind(c) IN kind = NoKind \/ capability \in kind.capabilities

ScriptSupports(c)  == "script_path" \in c.metadata /\ Capable(c, "rotate")
WebhookSupports(c) == {"webhook_url", "endpoint"} \cap c.metadata # {}

BaseSupports(c) ==
  CASE c.base = "script"  -> ScriptSupports(c)
    [] c.base = "webhook" -> WebhookSupports(c)
    [] OTHER              -> TRUE

TwoSecretSupports(c) ==
  BaseSupports(c) /\ c.type \in {"password", "api_key", "oauth", "certificate", "encryption"}

OverlapSupports(c) ==
  /\ BaseSupports(c)
  /\ \/ c.type = "certificate"
     \/ c.type \in {"api_key", "oauth"} /\ "supports_expiration" \in c.metadata

SupportsSecret(c) ==
  CASE c.wrapper = "two-secret" -> TwoSecretSupports(c)
    [] c.wrapper = "overlap"    -> OverlapSupports(c)
    [] OTHER                    -> BaseSupports(c)

-------------------------------------------------------------------------------
(* The caller.                                                              *)

Return(result) == stage' = "idle" /\ status' = result /\ UNCHANGED <<call, calls>>
Goto(step)     == stage' = step /\ UNCHANGED <<call, calls, status>>

\* As in the engine, a strategy is asked to rotate what it supports.
Ask(c) ==
  /\ stage = "idle" /\ calls < MaxCalls
  /\ SupportsSecret(c)
  /\ call' = c /\ calls' = calls + 1 /\ status' = "none"
  /\ ref' = 0 /\ known' = 0
  /\ stage' = IF c.wrapper \in {"two-secret", "overlap"} THEN "status" ELSE "dryRun"
  /\ UNCHANGED <<service, verified, now>>

\* The process is killed: what it knew is lost, what it did to the service is not.
Die ==
  /\ stage # "idle"
  /\ stage' = "idle" /\ status' = "none"
  /\ UNCHANGED <<service, verified, now, call, ref, known, calls>>

Tick ==
  /\ now < MaxTime /\ now' = now + 1
  /\ UNCHANGED <<service, verified, call, ref, known, status, calls, stage>>

-------------------------------------------------------------------------------
(* GetStatus: what time of the last rotation the base rotator reports (0: none).  *)
(* A failing script or webhook is "assumed possible", without a time.            *)

ScriptReports  == IF "script_path" \in call.metadata THEN {0, last} ELSE {0}
WebhookReports == IF "webhook_url" \in call.metadata THEN {0, last} ELSE {0}

Reports ==
  CASE call.base = "script"  -> ScriptReports
    [] call.base = "webhook" -> WebhookReports
    [] call.base = "two"     -> {0, last}
    [] OTHER                 -> {0}

TooRecent(reported) == reported # 0 /\ now - reported < MinInterval

\* The status is checked before a dry run is recognised.  Constraints is a pointer that
\* is not checked: a request without constraints panics once there is a time.
TwoSecretStatus ==
  /\ stage = "status" /\ call.wrapper = "two-secret"
  /\ \E reported \in Reports :
       /\ known' = reported
       /\ \/ /\ call.base = "two"
             /\ Return("failed")                    \* GetStatus returned an error
          \/ /\ ~ call.force /\ reported # 0
             /\ ~ call.constrained
             /\ Return("panic")
          \/ /\ ~ call.force /\ call.constrained /\ TooRecent(reported)
             /\ Return("pending")
          \/ /\ call.force \/ reported = 0 \/ (call.constrained /\ ~ TooRecent(reported))
             /\ Goto("dryRun")
  /\ UNCHANGED <<service, verified, now, ref>>

\* Mutant: the window opens one overlap period too early.
NextRotationEarly(reported) == reported + (Validity - 3 * Overlap)

\* NextRotation, as GetStatus of the overlap strategy computes it.
NextRotation(reported) == reported + (Validity - 2 * Overlap)

\* A status error is ignored: rotation goes on as if there were no window.  A script or
\* webhook may name the next rotation without the last.
OverlapStatus ==
  /\ stage = "status" /\ call.wrapper = "overlap"
  /\ \E reported \in Reports :
       /\ known' = reported
       /\ \/ /\ ~ call.force
             /\ IF reported # 0 THEN now < NextRotation(reported)
                ELSE call.base \in {"script", "webhook"}
             /\ Return("pending")
          \/ /\ call.force \/ reported = 0 \/ now >= NextRotation(reported)
             /\ Goto("dryRun")
  /\ UNCHANGED <<service, verified, now, ref>>

TwoSecretCapable == call.wrapper = "two-secret" /\ call.base = "two"

\* Every wrapper answers a dry run itself; a bare rotator is handed the flag.
DryRun ==
  /\ stage = "dryRun"
  /\ IF call.dryRun /\ call.wrapper # "none"
     THEN Return("pending")
     ELSE Goto(IF TwoSecretCapable THEN "create" ELSE "rotate")
  /\ UNCHANGED <<service, verified, now, ref, known>>

-------------------------------------------------------------------------------
(* The rotators' own Rotate.                                                *)

\* The service takes a new credential in place of its primary.
Replace ==
  /\ made' = made + 1 /\ primary' = made + 1
  /\ keys' = (keys \ {primary}) \cup {made + 1}
  /\ last' = now

\* Nothing outside the process is asked; a dry run ends before the result is made up.
RandomRotate ==
  /\ stage = "rotate" /\ call.base = "random"
  /\ Return(IF call.dryRun THEN "pending" ELSE "completed")
  /\ UNCHANGED <<service, verified, now, ref, known>>

\* Whoever is asked acts or not, and answers or not; in a dry run it does not act, and
\* its success is reported as a completed rotation all the same.
Outside ==
  \/ /\ UNCHANGED service /\ Return("failed")
  \/ /\ ~ call.dryRun /\ Replace /\ Return("failed")      \* the answer was lost
  \/ /\ ~ call.dryRun /\ Replace /\ Return("completed")
  \/ /\ call.dryRun /\ UNCHANGED service /\ Return("completed")

\* The script is not found, ends with an error, prints no JSON, or says it failed.
executeScript == Outside

\* The request fails, is not answered with 2xx and JSON, or the answer says it failed.
callWebhook == Outside

ScriptRotate ==
  /\ stage = "rotate" /\ call.base = "script"
  /\ IF "script_path" \in call.metadata /\ Capable(call, "rotate")
     THEN executeScript
     ELSE Return("failed") /\ UNCHANGED service
  /\ UNCHANGED <<verified, now, ref, known>>

\* The endpoint among the metadata, which SupportsSecret accepts, is not looked at here.
WebhookRotate ==
  /\ stage = "rotate" /\ call.base = "webhook"
  /\ IF "webhook_url" \in call.metadata \/ "endpoint" \in call.config
     THEN callWebhook
     ELSE Return("failed") /\ UNCHANGED service
  /\ UNCHANGED <<verified, now, ref, known>>

DirectRotate ==
  /\ stage = "rotate" /\ call.base = "two"
  /\ Outside
  /\ UNCHANGED <<verified, now, ref, known>>

-------------------------------------------------------------------------------
(* TwoSecretStrategy.Rotate with a rotator that can do it.                  *)

CreateSecondary ==
  /\ stage = "create"
  /\ \/ /\ Return("failed") /\ UNCHANGED <<keys, made, ref>>
     \/ /\ made' = made + 1 /\ keys' = keys \cup {made + 1}
        /\ Return("failed") /\ UNCHANGED ref              \* the answer was lost
     \/ /\ made' = made + 1 /\ ref' = made + 1 /\ keys' = keys \cup {made + 1}
        /\ IF call.constrained THEN Goto("verify")
           ELSE Return("panic")           \* Constraints.RequiredTests of a nil pointer
  /\ UNCHANGED <<primary, last, verified, now, known>>

\* Mutant: the verdict of the verification is not looked at.
VerifyIgnored ==
  /\ stage = "verify"
  /\ \/ Goto("promote") /\ verified' = verified \cup {ref}
     \/ Goto("promote") /\ UNCHANGED verified
  /\ UNCHANGED <<service, now, ref, known>>

VerifySecondary ==
  /\ stage = "verify"
  /\ \/ Goto("promote") /\ verified' = verified \cup {ref}
     \/ Goto("cleanUp") /\ UNCHANGED verified
  /\ UNCHANGED <<service, now, ref, known>>

\* Mutant: the clean-up names the primary, as DeprecatePrimarySecret suggests.
CleanUpPrimary ==
  /\ stage = "cleanUp"
  /\ keys' \in {keys, keys \ {primary}}
  /\ Return("failed")
  /\ UNCHANGED <<primary, made, last, verified, now, ref, known>>

\* Best effort: a failure is logged, and the secondary stays.
CleanUp ==
  /\ stage = "cleanUp"
  /\ keys' \in {keys, keys \ {ref}}
  /\ Return("failed")
  /\ UNCHANGED <<primary, made, last, verified, now, ref, known>>

\* A failed promotion leaves the secondary; a completed one leaves the old primary.
PromoteSecondary ==
  /\ stage = "promote"
  /\ \/ Return("failed") /\ UNCHANGED <<primary, last>>
     \/ primary' = ref /\ last' = now /\ (Return("completed") \/ Return("failed"))
  /\ UNCHANGED <<keys, made, verified, now, ref, known>>

-------------------------------------------------------------------------------
(* Verify and Rollback of a rotation, as its caller asks for them.          *)

\* A random value is always valid; without the verify capability a script is not asked.
VerifySkipped(c) ==
  \/ c.base = "random"
  \/ c.base = "script" /\ "script_path" \in c.metadata /\ ~ Capable(c, "verify")

CanVerify(c) ==
  CASE c.base = "script"  -> "script_path" \in c.metadata
    [] c.base = "webhook" -> "webhook_url" \in c.metadata
    [] OTHER              -> TRUE

Verify(c) ==
  /\ stage = "idle" /\ calls < MaxCalls /\ calls' = calls + 1 /\ call' = c
  /\ \/ VerifySkipped(c) /\ status' = "verified" /\ UNCHANGED verified
     \/ /\ ~ VerifySkipped(c) /\ CanVerify(c)
        /\ verified' = verified \cup {primary} /\ status' = "verified"
     \/ ~ VerifySkipped(c) /\ status' = "failed" /\ UNCHANGED verified
  /\ UNCHANGED <<service, now, ref, known, stage>>

\* A rollback needs the script to be able to revoke, the webhook to have a webhook_url.
CanRollBack(c) ==
  CASE c.base = "script"  -> "script_path" \in c.metadata /\ Capable(c, "revoke")
    [] c.base = "webhook" -> "webhook_url" \in c.metadata
    [] OTHER              -> TRUE

\* Two-secret: the old credential is promoted if it passes a verification first.
Rollback(c, old) ==
  /\ stage = "idle" /\ calls < MaxCalls /\ calls' = calls + 1 /\ call' = c
  /\ \/ c.base # "random" /\ status' = "failed" /\ UNCHANGED <<keys, primary, verified>>
     \/ /\ CanRollBack(c) /\ c.base # "random" /\ primary' = old
        /\ status' \in {"completed", "failed"}            \* failed: the answer was lost
        /\ IF c.wrapper = "two-secret" /\ c.base = "two"
           THEN old \in keys /\ verified' = verified \cup {old} /\ UNCHANGED keys
           ELSE keys' = (keys \ {primary}) \cup {old} /\ UNCHANGED verified
     \/ c.base = "random" /\ status' = "completed" /\ UNCHANGED <<keys, primary, verified>>
  /\ UNCHANGED <<made, last, now, ref, known, stage>>

StrategyNext ==
  \/ \E c \in Requests :
       \/ Ask(c) \/ Verify(c)
       \/ \E old \in 1 .. made : Rollback(c, old)
  \/ TwoSecretStatus \/ OverlapStatus \/ DryRun
  \/ RandomRotate \/ ScriptRotate \/ WebhookRotate \/ DirectRotate
  \/ CreateSecondary \/ VerifySecondary \/ CleanUp \/ PromoteSecondary
  \/ Die \/ Tick

StrategySpec == StrategyInit /\ [][StrategyNext]_strategyVars

-------------------------------------------------------------------------------
(* Choosing a strategy for a provider.                                      *)

CapabilityProfile(keysAllowed, versions, expires, revokes, recommended) ==
  [MaxActiveKeys |-> keysAllowed, versioning |-> versions, expiration |-> expires,
   revocation |-> revokes, recommended |-> recommended]

\* -1 active keys: no limit.
Profiles ==
  [ awsIAM     |-> CapabilityProfile(2,  FALSE, FALSE, TRUE,  <<"two-key", "emergency">>),
    awsSecrets |-> CapabilityProfile(-1, TRUE,  TRUE,  FALSE, <<"versioned", "overlap">>),
    azureSP    |-> CapabilityProfile(-1, FALSE, TRUE,  TRUE,  <<"two-key", "overlap", "emergency">>),
    githubPAT  |-> CapabilityProfile(-1, FALSE, TRUE,  TRUE,  <<"immediate", "overlap", "emergency">>),
    stripe     |-> CapabilityProfile(-1, FALSE, FALSE, TRUE,  <<"two-key", "emergency">>),
    datadog    |-> CapabilityProfile(50, FALSE, FALSE, TRUE,  <<"two-key", "emergency">>),
    okta       |-> CapabilityProfile(-1, FALSE, TRUE,  TRUE,  <<"immediate", "emergency">>) ]

Recommended(strategy, p) == \E i \in DOMAIN p.recommended : p.recommended[i] = strategy

\* Mutant: versions are taken for granted.
SelectVersioned(p, compromised) == IF compromised THEN "emergency" ELSE "versioned"

SelectStrategy(p, compromised) ==
  CASE compromised -> "emergency"
    [] ~ compromised /\ p.MaxActiveKeys >= 2 /\ Recommended("two-key", p) -> "two-key"
    [] OTHER -> IF p.versioning THEN "versioned"
                ELSE IF p.expiration THEN "overlap" ELSE "immediate"

\* The part of ValidateStrategy that is about what the provider can do ...
Feasible(strategy, p) ==
  CASE strategy = "two-key"       -> p.MaxActiveKeys >= 2 \/ p.MaxActiveKeys = -1
    [] strategy = "versioned"     -> p.versioning
    [] strategy = "overlap"       -> p.expiration
    [] strategy = "emergency"     -> p.revocation
    [] strategy = "oauth-refresh" -> FALSE
    [] OTHER                      -> TRUE

\* ... and its verdict, which also refuses whatever is not recommended.
ValidateStrategy(strategy, p) == Feasible(strategy, p) /\ Recommended(strategy, p)

-------------------------------------------------------------------------------
(* Properties.                                                              *)

StrategyTypeOK ==
  /\ made \in Nat /\ now \in Nat
  /\ keys \subseteq 1 .. made /\ primary \in keys /\ verified \subseteq 1 .. made
  /\ last \in 0 .. now /\ ref \in 0 .. made /\ known \in 0 .. last
  /\ status \in {"none", "completed", "failed", "pending", "panic", "verified"}
  /\ stage \in {"idle", "status", "dryRun", "rotate", "create", "verify", "cleanUp", "promote"}

\* However often rotations fail, panic or die half way, the two-secret strategy makes a
\* credential primary only once it passed a verification (two_secret.go:129-190), a
\* rollback included (:222-241).
PromotesVerified ==
  [][call'.wrapper = "two-secret" /\ call'.base = "two" /\ primary' # primary
       => primary' \in verified']_strategyVars

\* While the two-secret strategy works the credential in use is never withdrawn, and the
\* clean-up after a failed verification takes nothing but the secondary of this rotation.
KeepsCredentialInUse ==
  [][(stage \in {"create", "verify", "cleanUp", "promote"}) =>
       primary \in keys' /\ (keys \ keys') \subseteq {ref}]_strategyVars

\* A dry run through a strategy never changes the service, whatever is wrapped.
DryRunIsHarmless ==
  [][stage # "idle" /\ call.dryRun /\ call.wrapper # "none" => UNCHANGED service]_strategyVars

\* What a strategy never does to a service, in the middle of a rotation or in a dry run
\* (two_secret.go:109-205).
DoesNoHarm == KeepsCredentialInUse /\ DryRunIsHarmless

\* Where the service can tell when it was last rotated, two rotations of an overlap
\* strategy that nobody forced are a whole window apart (overlap_strategy.go:84-94, :197-205).
OverlapNotTooEarly ==
  [][call.wrapper = "overlap" /\ ~ call.force /\ known # 0 /\ stage = "rotate" /\ last' # last
       => now - known >= Validity - 2 * Overlap]_strategyVars

\* The strategy chosen is one the provider can carry out, but for the emergency strategy
\* of a provider that cannot revoke.
SelectionIsFeasible ==
  \A compromised \in BOOLEAN :
    LET p == Profiles[call.profile]
    IN  Feasible(SelectStrategy(p, compromised), p) \/ (compromised /\ ~ p.revocation)

\* The types, and a choice of strategy that can be carried out (strategies.go:150-240).
WellFormed == StrategyTypeOK /\ SelectionIsFeasible
===============================================================================
