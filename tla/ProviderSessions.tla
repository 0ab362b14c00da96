------------------------------ MODULE ProviderSessions ------------------------------
(***************************************************************************)
(* One provider and the goroutines that call it at once: the resolver has one *)
(* goroutine per variable, and all the variables of a store share one         *)
(* provider.  What they share is the session the provider holds with its      *)
(* backend: the credentials aws.sts and aws.sso keep without a lock, the      *)
(* token akeyless and infisical keep in a TokenCache, and the token vault     *)
(* keeps under a mutex that it holds while it talks to the server.            *)
(*                                                                           *)
(* The backend is the environment: it accepts or refuses a login, a session   *)
(* of its ends, and its secrets get new versions while they are read.         *)
(*                                                                           *)
(* An instance is [type, method, settings, facts, prefix, default, failures,  *)
(* secrets, ops, refs, file, lasts]: refs the references asked for, [key,      *)
(* version, means], means the [name, version] a reader of the documentation    *)
(* takes the reference for, version 0 the newest; file the time the token of   *)
(* "aws sso login" ends at; lasts how long a fixed token is good for.  The      *)
(* backend ends a session when it likes, and a request may be any time late.   *)
(***************************************************************************)
EXTENDS SecretBackends

CONSTANTS Callers, NoCaller, Instances,
          TTLs,          \* how long the sessions of a login may last
          AkeylessTTL,   \* how long akeyless takes its sessions to last, 25 minutes
          DefaultTTL,    \* and infisical one of which the server does not say, 30 seconds
          FixedTTL,      \* and infisical a token of its settings, 24 hours
          Buffer,        \* what TokenCache.Set takes off, 5 seconds
          MaxTime, MaxLogins, MaxVersions

ASSUME SessionAssumption ==
  /\ NoCaller \notin Callers
  /\ TTLs \subseteq Nat \ {0}
  /\ {AkeylessTTL, DefaultTTL, FixedTTL, Buffer, MaxTime, MaxLogins, MaxVersions} \subseteq Nat
  /\ \A i \in Instances : i.lasts \in Nat

VARIABLES instance, store, now,
          logins,   \* the logins asked for, [issued, until, told, kept]: told is how long the
                    \* client takes the session to last, kept when it last put it in the
                    \* TokenCache; a refused one ends when issued
          cache,    \* what the provider keeps: a login, 0 for none, and when it is stale
          mu,       \* the caller that holds the mutex of vault
          call      \* what each caller is at

vars == <<instance, store, now, logins, cache, mu, call>>

NoReference == [key |-> <<>>, version |-> <<>>, means |-> [name |-> <<>>, version |-> 0]]
Idle == [pc |-> "idle", op |-> "none", ref |-> NoReference,
         via |-> [type |-> "unknown", key |-> <<>>, version |-> <<>>],
         session |-> 0, since |-> 0, oldest |-> 0, answer |-> NoAnswer]

(***************************************************************************)
(* The provider of an instance.                                              *)
(***************************************************************************)
Cached == {"aws.sts", "aws.sso"}
Tokened == {"akeyless", "infisical"}

(* A token that is no login's: it is in the settings.  Akeyless logs in with *)
(* its api_key. *)
Fixed ==
  \/ instance.type = "vault" /\ instance.method = "token"
  \/ instance.type = "infisical" /\ instance.method \in {"service_token", "api_key"}

Created(i) ==
  CASE i.type = "azure.keyvault" -> NewAzureKeyVaultProvider(i.settings)
    [] i.type = "azure.identity" -> NewAzureIdentityProvider(i.settings)
    [] i.type = "gcp.secretmanager" -> NewGCPSecretManagerProvider(i.settings) /\ createGCPSecretManagerClient(i.facts)
    [] i.type = "infisical" -> NewInfisicalProvider(i.settings, i.facts)
    [] i.type = "aws.sts" -> NewAWSSTSProvider(i.settings)
    [] i.type = "aws.sso" -> NewAWSSSOProvider(i.settings, i.facts)
    [] i.type = "doppler" -> NewDopplerProvider(i.settings)
    [] OTHER -> TRUE

Routed(ref) ==
  CASE instance.type = "aws" -> AWSUnifiedRoute(instance.settings, instance.default, ref)
    [] instance.type = "azure" -> AzureUnifiedRoute(instance.settings, instance.default, ref)
    [] instance.type = "gcp" -> GCPUnifiedRoute(instance.settings, instance.default, ref)
    [] OTHER -> [type |-> instance.type, key |-> ref.key, version |-> ref.version]

Resolve(secrets, via) ==
  CASE via.type = "aws.secretsmanager" -> AWSSecretsManagerResolve(secrets, via)
    [] via.type = "aws.ssm" -> AWSSSMResolve(secrets, instance.prefix, via)
    [] via.type = "aws.sts" -> AWSSTSGetCredentialValue(via.key)
    [] via.type = "aws.sso" -> AWSSSOGetCredentialValue(via.key)
    [] via.type = "azure.keyvault" -> AzureKeyVaultResolve(secrets, via)
    [] via.type = "azure.identity" -> AzureIdentityGetTokenValue(instance.default, via.key)
    [] via.type = "gcp.secretmanager" -> GCPSecretManagerResolve(secrets, via)
    [] via.type = "akeyless" -> AkeylessResolve(secrets, via)
    [] via.type = "infisical" -> InfisicalResolve(secrets, via)
    [] via.type = "vault" -> VaultResolve(secrets, via)
    [] via.type = "bitwarden" -> BitwardenResolve(secrets, via)
    [] via.type = "onepassword" -> OnePasswordResolve(secrets, via)
    [] via.type = "doppler" -> DopplerResolve(secrets, via)
    [] via.type = "pass" -> PassResolve(secrets, via)
    [] via.type = "keychain" -> KeychainResolve(secrets, instance.prefix, via)
    [] via.type = "literal" -> LiteralResolve(secrets, via)
    [] via.type = "mock" -> MockResolve(secrets, instance.failures, via)
    [] OTHER -> Failed("error")

Describe(secrets, via) ==
  CASE via.type = "aws.secretsmanager" -> AWSSecretsManagerDescribe(secrets, via)
    [] via.type = "aws.ssm" -> AWSSSMDescribe(secrets, instance.prefix, via)
    [] via.type \in Cached \cup {"azure.identity"} -> Described(TRUE)
    [] via.type = "azure.keyvault" -> AzureKeyVaultDescribe(secrets, via)
    [] via.type = "gcp.secretmanager" -> GCPSecretManagerDescribe(secrets, via)
    [] via.type = "akeyless" -> AkeylessDescribe(secrets, via)
    [] via.type = "infisical" -> InfisicalDescribe(secrets, via)
    [] via.type = "vault" -> VaultDescribe(via)
    [] via.type = "bitwarden" -> BitwardenDescribe(secrets, via)
    [] via.type = "onepassword" -> OnePasswordDescribe(secrets, via)
    [] via.type = "doppler" -> DopplerDescribe(secrets, via)
    [] via.type = "pass" -> PassDescribe(secrets, via)
    [] via.type = "keychain" -> KeychainDescribe(secrets, instance.prefix, via)
    [] via.type = "literal" -> LiteralDescribe(secrets, via)
    [] via.type = "mock" -> MockDescribe(secrets, instance.failures, via)
    [] OTHER -> Described(FALSE)

(* What is not described whether or not it is there. *)
NeverDescribed(via) ==
  \/ via.type = "vault"
  \/ via.type = "aws.ssm" /\ SSMSelector(instance.prefix \o via.key).found
  \/ via.type = "gcp.secretmanager" /\ IsVersionName(GCPSecretManagerParseReference(via.key).name)

(* A provider of a cloud is as good as each of its services; literals and    *)
(* mocks always are. *)
ValidateService(type) ==
  CASE type = "aws.secretsmanager" -> AWSSecretsManagerValidate(instance.facts)
    [] type = "aws.ssm" -> AWSSSMValidate(instance.facts)
    [] type = "aws.sts" -> AWSSTSValidate(instance.facts)
    [] type = "aws.sso" -> IF now <= instance.file THEN "ok" ELSE "error"
    [] type = "azure.keyvault" -> AzureKeyVaultValidate(instance.facts)
    [] type = "azure.identity" -> IF "allowed" \in instance.facts THEN "ok" ELSE "error"
    [] type = "gcp.secretmanager" -> GCPSecretManagerValidate(instance.facts)
    [] type = "bitwarden" -> BitwardenValidate(instance.facts)
    [] type = "onepassword" -> OnePasswordValidate(instance.facts)
    [] type = "doppler" -> DopplerValidate(instance.facts)
    [] type = "pass" -> PassValidate(instance.facts)
    [] type = "keychain" -> KeychainValidate(instance.facts)
    [] OTHER -> "ok"

Services ==
  CASE instance.type = "aws" ->
         {AWSUnifiedRoute(instance.settings, s, NoReference).type : s \in NewAWSUnifiedProvider(instance.settings)}
    [] instance.type = "azure" ->
         {AzureUnifiedRoute(instance.settings, s, NoReference).type : s \in NewAzureUnifiedProvider(instance.settings)}
    [] instance.type = "gcp" ->
         {GCPUnifiedRoute(instance.settings, s, NoReference).type : s \in NewGCPUnifiedProvider(instance.settings)}
    [] OTHER -> {instance.type}

Validate ==
  IF \A type \in Services : ValidateService(type) = "ok"
  THEN [NoAnswer EXCEPT !.status = "ok"]
  ELSE Failed(IF instance.type \in {"aws.secretsmanager", "bitwarden"} THEN ValidateService(instance.type)
              ELSE "error")

Capabilities ==
  CASE instance.type = "aws" -> AWSUnifiedCapabilities
    [] instance.type = "aws.secretsmanager" -> AWSSecretsManagerCapabilities
    [] instance.type = "aws.ssm" -> AWSSSMCapabilities
    [] instance.type = "aws.sts" -> AWSSTSCapabilities
    [] instance.type = "aws.sso" -> AWSSSOCapabilities
    [] instance.type = "azure" -> AzureUnifiedCapabilities
    [] instance.type = "azure.keyvault" -> AzureKeyVaultCapabilities
    [] instance.type = "azure.identity" -> AzureIdentityCapabilities
    [] instance.type = "gcp" -> GCPUnifiedCapabilities
    [] instance.type = "gcp.secretmanager" -> GCPSecretManagerCapabilities
    [] instance.type = "akeyless" -> AkeylessCapabilities
    [] instance.type = "infisical" -> InfisicalCapabilities
    [] instance.type = "vault" -> VaultCapabilities
    [] instance.type = "bitwarden" -> BitwardenCapabilities
    [] instance.type = "onepassword" -> OnePasswordCapabilities
    [] instance.type = "doppler" -> DopplerCapabilities
    [] instance.type = "pass" -> PassCapabilities
    [] instance.type = "keychain" -> KeychainCapabilities
    [] instance.type = "literal" -> LiteralCapabilities
    [] OTHER -> MockCapabilities

Init ==
  /\ instance \in {i \in Instances : Created(i)}
  /\ store = instance.secrets /\ now = 0
  /\ logins = IF Fixed THEN <<[issued |-> 0, until |-> instance.lasts, told |-> FixedTTL, kept |-> 0]>> ELSE <<>>
  /\ cache = [session |-> 0, until |-> 0]
  /\ mu = NoCaller
  /\ call = [c \in Callers |-> Idle]

(***************************************************************************)
(* A call begins.  The references of akeyless and infisical are parsed before *)
(* the login, those of vault after it.                                       *)
(***************************************************************************)
InFlight == {c \in Callers : call[c].pc # "idle"}

Malformed(via) ==
  \/ via.type = "akeyless" /\ ParseAkeylessReference(via.key).path = <<"/">>
  \/ via.type = "infisical" /\ ParseInfisicalReference(via.key).name = <<>>

FirstStep(op, via) ==
  CASE via.type \in Cached /\ op = "resolve" -> "cached"
    [] via.type \in Tokened /\ ~Malformed(via) -> "token"
    [] via.type = "vault" /\ op = "resolve" -> "lock"
    [] via.type = "vault" /\ op = "validate" /\ VaultValidate(NewVaultProvider(instance.settings, instance.facts), instance.method) -> "lock"
    [] OTHER -> "ask"

Begin(c) ==
  /\ call[c].pc = "idle"
  /\ Len(logins) + Cardinality(InFlight) < MaxLogins
  /\ \E op \in instance.ops, ref \in instance.refs :
       LET via == IF op = "validate" THEN [type |-> instance.type, key |-> ref.key, version |-> <<>>]
                  ELSE Routed(ref)
       IN call' = [call EXCEPT ![c] = [Idle EXCEPT !.pc = FirstStep(op, via), !.op = op, !.ref = ref,
                     !.via = via, !.oldest = Latest(store, ref.means.name)]]
  /\ UNCHANGED <<instance, store, now, logins, cache, mu>>

(* The steps at which a request is under way. *)
Waiting == {"credentials", "store", "use"}

To(c, pc, session) ==
  call' = [call EXCEPT ![c].pc = pc, ![c].session = session, ![c].since = IF pc \in Waiting THEN now ELSE 0]
Answer(c, answer) ==
  call' = [call EXCEPT ![c].pc = "answered", ![c].since = 0, ![c].answer = answer]

Return(c) ==
  /\ call[c].pc = "answered"
  /\ call' = [call EXCEPT ![c] = Idle]
  /\ UNCHANGED <<instance, store, now, logins, cache, mu>>

RotationMetadata(via) ==
  CASE via.type = "aws.secretsmanager" -> AWSSecretsManagerRotation(store, via)
    [] via.type = "gcp.secretmanager" -> GCPSecretManagerRotation(store, via)
    [] OTHER -> {}

(* What a caller of an operation gets of a backend that accepts it. *)
Outcome(c) ==
  LET via == call[c].via
      described == Describe(store, via)
  IN CASE call[c].op = "resolve" -> Resolve(store, via)
       [] call[c].op = "validate" -> Validate
       [] call[c].op = "describe" ->
            [NoAnswer EXCEPT !.status = IF described = Described(FALSE) THEN "absent" ELSE described.status]
       [] call[c].op = "inspect" -> Failed(IF RotationMetadata(via) # {} THEN "ok" ELSE "error")
       [] OTHER -> NoAnswer

(* The backends that are asked as they are. *)
Ask(c) ==
  /\ call[c].pc = "ask" /\ call[c].op \in {"resolve", "describe", "validate", "inspect"}
  /\ Answer(c, Outcome(c))
  /\ UNCHANGED <<instance, store, now, logins, cache, mu>>

(* Rotation: a new version, and the end of an old one.  AWS takes a stage    *)
(* off the old version, which is as readable as before. *)
RotatedName(via) == IF via.type = "gcp.secretmanager" THEN GCPRotated(via) ELSE via.key
CanCreate(via) ==
  \/ via.type = "aws.secretsmanager" /\ AWSSecretsManagerCreates(store, via)
  \/ via.type = "gcp.secretmanager" /\ GCPSecretManagerCreates(store, via)

CreateNewVersion(c) ==
  LET via == call[c].via
      name == RotatedName(via)
      version == Latest(store, name) + 1
  IN /\ call[c].pc = "ask" /\ call[c].op = "create"
     /\ version <= MaxVersions  \* else FailAsk
     /\ IF CanCreate(via)
        THEN /\ store' = [store EXCEPT ![name] = Append(@, [@[version - 1] EXCEPT !.enabled = TRUE])]
             /\ Answer(c, [Failed("ok") EXCEPT !.name = name, !.version = version])
        ELSE Answer(c, Failed("error")) /\ UNCHANGED store
     /\ UNCHANGED <<instance, now, logins, cache, mu>>

DeprecateVersion(c) ==
  LET via == call[c].via
      name == RotatedName(via)
      old == Latest(store, name) - 1
  IN /\ call[c].pc = "ask" /\ call[c].op = "deprecate"
     /\ IF via.type = "gcp.secretmanager" /\ GCPSecretManagerDisables(store, via, old)
        THEN store' = [store EXCEPT ![name][old].enabled = FALSE] ELSE UNCHANGED store
     /\ Answer(c, Failed(IF CanCreate(via) /\ old > 0 THEN "ok" ELSE "error"))
     /\ UNCHANGED <<instance, now, logins, cache, mu>>

(* The backend is not heard, or does not do it. *)
FailAsk(c) ==
  /\ call[c].pc \in {"ask", "use"} /\ Answer(c, Failed("error"))
  /\ UNCHANGED <<instance, store, now, logins, cache, mu>>

(***************************************************************************)
(* The login, and where its session is kept.                                 *)
(***************************************************************************)
(* aws.sts and aws.sso: the credentials, and the time they are good until.   *)
CacheHit(c) == call[c].pc = "cached" /\ cache.session # 0 /\ now < cache.until

CheckCache(c) ==
  /\ call[c].pc = "cached"
  /\ To(c, IF CacheHit(c) THEN "pick" ELSE "login", 0)
  /\ UNCHANGED <<instance, store, now, logins, cache, mu>>

(* TokenCache.Get. *)
GetToken(c) ==
  /\ call[c].pc = "token"
  /\ IF cache.session # 0 /\ now <= cache.until THEN To(c, "use", cache.session) ELSE To(c, "login", 0)
  /\ UNCHANGED <<instance, store, now, logins, cache, mu>>

(* The token of "aws sso login" must not have ended: it is never renewed.    *)
getAccessToken(c) == call[c].via.type = "aws.sso" => now < instance.file

LoginKnown(c) ==
  /\ call[c].via.type = "akeyless" => instance.method \in AkeylessLogins
  /\ call[c].via.type = "infisical" => instance.method \in InfisicalLogins

(* How long the client takes a session to last. *)
Told(type, ttl) ==
  CASE type = "akeyless" -> {AkeylessTTL}
    [] type = "infisical" -> {ttl, DefaultTTL}
    [] OTHER -> {ttl}

Issued(type, ttl) ==
  {[issued |-> now, until |-> now + ttl, told |-> told, kept |-> now] : told \in Told(type, ttl)}

Issue(c, pc) ==
  IF Fixed THEN To(c, pc, 1) /\ UNCHANGED logins
  ELSE \E ttl \in TTLs : \E login \in Issued(call[c].via.type, ttl) :
         logins' = Append(logins, login) /\ To(c, pc, Len(logins) + 1)

Login(c) ==
  /\ call[c].pc = "login" /\ getAccessToken(c) /\ LoginKnown(c)
  /\ Issue(c, IF call[c].via.type \in Cached THEN "credentials" ELSE "store")
  /\ UNCHANGED <<instance, store, now, cache, mu>>

Refuse == logins' = Append(logins, [issued |-> now, until |-> now, told |-> 0, kept |-> now])

FailLogin(c) ==
  /\ call[c].pc = "login" /\ Answer(c, Failed("error")) /\ Refuse
  /\ UNCHANGED <<instance, store, now, cache, mu>>

(* Credentials first, their end next: nothing keeps another caller out.      *)
StoreCredentials(c) ==
  /\ call[c].pc = "credentials"
  /\ cache' = [cache EXCEPT !.session = call[c].session]
  /\ To(c, "expiry", call[c].session)
  /\ UNCHANGED <<instance, store, now, logins, mu>>

StoreExpiry(c) ==
  /\ call[c].pc = "expiry"
  /\ cache' = [cache EXCEPT !.until = logins[call[c].session].until]
  /\ To(c, "pick", call[c].session)
  /\ UNCHANGED <<instance, store, now, logins, mu>>

(* The field is taken from what the cache holds by then. *)
Pick(c) ==
  /\ call[c].pc = "pick"
  /\ call' = [call EXCEPT ![c].pc = "answered", ![c].session = cache.session, ![c].since = 0,
                          ![c].answer = IF cache.session = 0 THEN Failed("error") ELSE Outcome(c)]
  /\ UNCHANGED <<instance, store, now, logins, cache, mu>>

(* Mutant: the token is kept for as long as it is good for. *)
KeptWhole(ttl) == ttl

(* TokenCache.Set. *)
Kept(ttl) == IF ttl > Buffer THEN ttl - Buffer ELSE ttl

Set(c) ==
  LET session == call[c].session
  IN /\ call[c].pc = "store"
     /\ cache' = [session |-> session, until |-> now + Kept(logins[session].told)]
     /\ logins' = [logins EXCEPT ![session].kept = now]
     /\ To(c, "use", session)
     /\ UNCHANGED <<instance, store, now, mu>>

(* The request that carries the session; a validation is over by now.        *)
Use(c) ==
  /\ call[c].pc = "use"
  /\ Answer(c, IF call[c].op = "validate" \/ now < logins[call[c].session].until
               THEN Outcome(c) ELSE Failed("refused"))
  /\ UNCHANGED <<instance, store, now, logins, cache, mu>>

(***************************************************************************)
(* Vault: Authenticate holds the mutex from the check of the token it has to *)
(* the new one; Read takes the token as it finds it.                         *)
(***************************************************************************)
Authenticated(c, session) ==
  /\ mu' = NoCaller
  /\ IF call[c].op = "validate" THEN Answer(c, [NoAnswer EXCEPT !.status = "ok"]) ELSE To(c, "read", session)

Authenticate(c) ==
  /\ call[c].pc = "lock" /\ mu = NoCaller
  /\ mu' = c
  /\ To(c, IF cache.session # 0 THEN "validate" ELSE "relogin", 0)
  /\ UNCHANGED <<instance, store, now, logins, cache>>

validateTokenLocked(c) ==
  /\ call[c].pc = "validate" /\ now < logins[cache.session].until
  /\ Authenticated(c, 0)
  /\ UNCHANGED <<instance, store, now, logins, cache>>

(* The server does not know the token any more, or is not heard.             *)
clearToken(c) ==
  /\ call[c].pc = "validate"
  /\ cache' = [cache EXCEPT !.session = 0]
  /\ To(c, "relogin", 0)
  /\ UNCHANGED <<instance, store, now, logins, mu>>

(* The token of the settings, if there is one. *)
HasFixed == Fixed /\ "token" \in NewVaultProvider(instance.settings, instance.facts)

performLoginLocked(c) ==
  /\ call[c].pc = "relogin" /\ instance.method \in DOMAIN VaultLogins
  /\ Fixed => HasFixed
  /\ \E ttl \in TTLs : \E login \in Issued("vault", ttl) :
       LET session == IF Fixed THEN 1 ELSE Len(logins) + 1
       IN /\ cache' = [cache EXCEPT !.session = session]
          /\ logins' = IF Fixed THEN logins ELSE Append(logins, login)
  /\ Authenticated(c, 0)
  /\ UNCHANGED <<instance, store, now>>

FailRelogin(c) ==
  /\ call[c].pc = "relogin" /\ ~HasFixed
  /\ mu' = NoCaller /\ Answer(c, Failed("error")) /\ Refuse
  /\ UNCHANGED <<instance, store, now, cache>>

(* Mutant: the token is read without the lock. *)
ReadUnlocked(c) ==
  /\ call[c].pc = "read"
  /\ IF cache.session = 0 THEN Answer(c, Failed("unauthenticated")) ELSE To(c, "use", cache.session)
  /\ UNCHANGED <<instance, store, now, logins, cache, mu>>
ReadToken(c) ==
  /\ call[c].pc = "read" /\ mu = NoCaller
  /\ IF cache.session = 0 THEN Answer(c, Failed("unauthenticated")) ELSE To(c, "use", cache.session)
  /\ UNCHANGED <<instance, store, now, logins, cache, mu>>

(***************************************************************************)
(* The environment: time, and new versions. *)
(***************************************************************************)
Tick ==
  /\ now < MaxTime
  /\ \E type \in Services : type \in Cached \cup Tokened \cup {"vault"}
  /\ now' = now + 1
  /\ UNCHANGED <<instance, store, logins, cache, mu, call>>

Rewrite ==
  /\ \E name \in DOMAIN store :
       /\ Len(store[name]) < MaxVersions
       /\ store' = [store EXCEPT ![name] = Append(@, [@[Len(@)] EXCEPT !.enabled = TRUE])]
  /\ UNCHANGED <<instance, now, logins, cache, mu, call>>

Step(c) ==
  \/ FailAsk(c) \/ Ask(c) \/ CreateNewVersion(c) \/ DeprecateVersion(c)
  \/ CheckCache(c) \/ GetToken(c) \/ Login(c) \/ FailLogin(c)
  \/ StoreCredentials(c) \/ StoreExpiry(c) \/ Pick(c) \/ Set(c) \/ Use(c)
  \/ Authenticate(c) \/ validateTokenLocked(c) \/ clearToken(c)
  \/ performLoginLocked(c) \/ FailRelogin(c) \/ ReadToken(c) \/ Return(c)

Next == Tick \/ Rewrite \/ \E c \in Callers : Begin(c) \/ Step(c)

Spec == Init /\ [][Next]_vars

(***************************************************************************)
(* Properties.                                                               *)
(***************************************************************************)
Steps == {"idle", "cached", "token", "lock", "login", "ask", "credentials", "expiry", "pick", "store",
          "use", "validate", "relogin", "read", "answered"}

LoginType == [issued : 0 .. MaxTime, until : Nat, told : Nat, kept : 0 .. MaxTime]

(* Every variable has its type; the sessions kept and used are of logins. *)
TypeOK ==
  /\ instance \in Instances /\ now \in 0 .. MaxTime
  /\ DOMAIN store = DOMAIN instance.secrets
  /\ logins \in Seq(LoginType)
  /\ \A i \in DOMAIN logins : logins[i].until >= logins[i].issued
  /\ cache \in [session : 0 .. Len(logins), until : Nat]
  /\ mu \in Callers \cup {NoCaller}
  /\ DOMAIN call = Callers
  /\ \A c \in Callers :
       /\ DOMAIN call[c] = DOMAIN Idle
       /\ call[c].pc \in Steps
       /\ call[c].session \in 0 .. Len(logins) /\ call[c].since \in 0 .. MaxTime

(* A request with the token of a login is refused. *)
Refused(c) ==
  /\ call[c].pc = "use" /\ call'[c].pc = "answered" /\ call'[c].answer.status = "refused"
  /\ call[c].via.type \in Tokened /\ ~Fixed

(* Why a session has ended when the request that carries it arrives: it      *)
(* ended sooner than the client takes it to (akeyless never asks, infisical   *)
(* asks and may not be told), it is so short that nothing is taken off, or     *)
(* the answer of the login and the request are together as late as what is    *)
(* taken off: 5 seconds, where a client waits 30 for either. *)
Explained(c) ==
  LET login == logins[call[c].session]
      late == (login.kept - login.issued) + (now - call[c].since)
  IN login.until < login.issued + login.told \/ login.told <= Buffer \/ late >= Buffer

(* TokenCache.Set promises that a token is renewed before it ends; the cache  *)
(* keeps that promise as far as it knows, and never hands out a stale token.   *)
(* So a request of akeyless or infisical that carries the token of a login is *)
(* refused for one of the three causes above and no other. *)
RefusalsHaveACause == [][\A c \in Callers : Refused(c) => Explained(c)]_vars

(* A call of vault finds no token after it authenticated only where a login  *)
(* failed since: a token that is being checked or replaced is not taken from *)
(* the calls that are about to read with it.  And every way out of           *)
(* Authenticate gives the mutex back: no caller is left waiting for one that *)
(* has gone. *)
ReadIsAuthenticated ==
  \A c \in Callers :
    /\ call[c].pc = "answered" /\ call[c].answer.status = "unauthenticated"
         => \E i \in DOMAIN logins : logins[i].until = logins[i].issued
    /\ (mu = c) <=> call[c].pc \in {"validate", "relogin"}

(* The types, and sessions that are not taken from a call (vault.go, Authenticate). *)
SessionsAreKept == TypeOK /\ ReadIsAuthenticated

Secrets == DOMAIN instance.secrets

(* Where the code does not read a reference as it is documented: infisical    *)
(* looks for a secret in a folder at the root, and the version next to a key  *)
(* is asked for by aws.secretsmanager alone, and by no provider of a whole     *)
(* cloud (provider.go:270 has every provider heed it). *)
InFolder(ref, via) == via.type = "infisical" /\ ParseInfisicalReference(ref.key).path # <<>>
VersionDropped(ref, via) == ref.version # <<>> /\ ~(via.type = "aws.secretsmanager" /\ via.version = ref.version)

(* A value is that of the secret meant, except of the namesake at the root    *)
(* where the secret is in a folder of infisical; of the version meant, where  *)
(* one is named in the key or aws.secretsmanager is asked for it; else of a   *)
(* version that was the newest while the call was under way, though another   *)
(* was asked for.  And a secret is missing only if it was not there when the   *)
(* call began, or is in a folder. *)
AnswersWhatIsMeant ==
  \A c \in Callers :
    LET ref == call[c].ref
        means == ref.means
        via == call[c].via
        answer == call[c].answer
    IN /\ answer.status = "ok" /\ call[c].op \in {"resolve", "create"} /\ Secrets # {}
          => /\ answer.name = IF InFolder(ref, via) THEN <<Last(means.name)>> ELSE means.name
             /\ IF /\ means.version # 0 /\ "versioning" \in Capabilities /\ ~VersionDropped(ref, via)
                   /\ call[c].op = "resolve"
                THEN answer.version = means.version
                ELSE InFolder(ref, via) \/ answer.version \in call[c].oldest .. Latest(store, means.name)
       /\ answer.status \in {"missing", "absent"} /\ via.type # "vault" /\ ~InFolder(ref, via)
          => \/ call[c].oldest = 0 \/ call[c].oldest < means.version
             \/ call[c].op = "describe" /\ NeverDescribed(via)

(* What can be resolved is said to exist, so that a plan that describes the   *)
(* secrets agrees with the run that reads them, but for three: vault says it  *)
(* of none, Parameter Store not of a version, and Secret Manager not of the   *)
(* full name of a version. *)
FoundIsDescribed ==
  \A ref \in instance.refs :
    LET via == Routed(ref)
    IN Resolve(store, via).status = "ok" => (Describe(store, via) = Described(TRUE) <=> ~NeverDescribed(via))
===================================================================================
