--------------------------- MODULE ProviderSessionsProofs ---------------------------
(***************************************************************************)
(* Proofs about ProviderSessions and SecretBackends, for every provider, any *)
(* number of callers, and backends that end a session when they like and     *)
(* answer when they like.                                                    *)
(***************************************************************************)
EXTENDS ProviderSessions, TLAPS

(***************************************************************************)
(* What the backends answer.                                                 *)
(***************************************************************************)
\* What is read of a store is there, or is what the provider says of it when it is not.
LEMMA ReadAnswers ==
  ASSUME NEW secrets, NEW name, NEW version, NEW field, NEW absent \in {"missing", "error"},
         NEW given, given = Read(secrets, name, version, field, absent)
  PROVE  /\ given.status \in {"ok", "error", "missing"}
         /\ DOMAIN given = {"status", "name", "version", "field", "reported"}
         /\ given.status = "ok" => /\ name \in DOMAIN secrets
                                   /\ version \in 1 .. Latest(secrets, name)
                                   /\ secrets[name][version].enabled
<1>1. CASE version \notin 1 .. Latest(secrets, name)
  BY <1>1 DEF Read, Failed
<1>2. CASE version \in 1 .. Latest(secrets, name)
  <2>1. name \in DOMAIN secrets
    BY <1>2 DEF Latest
  <2>2. QED
    BY <1>2, <2>1 DEF Read, Failed
<1>3. QED
  BY <1>1, <1>2

\* The version a provider reports changes nothing else of its answer.
LEMMA ReportingAnswers ==
  ASSUME NEW given, DOMAIN given = {"status", "name", "version", "field", "reported"}, NEW reported
  PROVE  Reporting(given, reported).status = given.status
  BY DEF Reporting

\* What a store has under a name is described as there, whoever describes it.
LEMMA ThereIsDescribed ==
  /\ Described(TRUE).status = "ok" /\ Described(FALSE).status = "ok"
  /\ NotDescribed.status = "error"
  /\ \A b \in BOOLEAN : Described(b).status = "ok" /\ DescribedIf(b).status \in {"ok", "error"}
  /\ DescribedIf(TRUE) = Described(TRUE)
  BY DEF Described, NotDescribed, DescribedIf

\* An answer and a description of one secret: the answer is one of a resolution, and what is
\* resolved is said to exist.
Agree(given, described) ==
  /\ given.status \in {"ok", "error", "missing"}
  /\ described.status \in {"ok", "error"}
  /\ given.status = "ok" => described = Described(TRUE)

\* Where the value is the one read under a name, and the description looks for that name, the
\* two agree; so they do where a reference that is refused is described by nobody.
LEMMA ReadAgrees ==
  ASSUME NEW secrets, NEW name, NEW version, NEW field, NEW absent \in {"missing", "error"}
  PROVE  LET given == Read(secrets, name, version, field, absent)
         IN /\ Agree(given, Described(name \in DOMAIN secrets))
            /\ Agree(given, DescribedIf(name \in DOMAIN secrets))
            /\ \A reported : /\ Agree(Reporting(given, reported), Described(name \in DOMAIN secrets))
                             /\ Agree(Reporting(given, reported), DescribedIf(name \in DOMAIN secrets))
<1>1. PICK given : given = Read(secrets, name, version, field, absent)
  OBVIOUS
<1>2. /\ given.status \in {"ok", "error", "missing"}
      /\ given.status = "ok" => name \in DOMAIN secrets
      /\ \A reported : Reporting(given, reported).status = given.status
  BY <1>1, ReadAnswers, ReportingAnswers
<1>3. PICK there \in BOOLEAN : there = (name \in DOMAIN secrets)
  <2>1. CASE name \in DOMAIN secrets
    <3>1. TRUE = (name \in DOMAIN secrets)
      BY <2>1
    <3>2. QED
      BY <3>1
  <2>2. CASE name \notin DOMAIN secrets
    <3>1. FALSE = (name \in DOMAIN secrets)
      BY <2>2
    <3>2. QED
      BY <3>1
  <2>3. QED
    BY <2>1, <2>2
<1>4. /\ Agree(given, Described(there))
      /\ Agree(given, DescribedIf(there))
      /\ \A reported : /\ Agree(Reporting(given, reported), Described(there))
                       /\ Agree(Reporting(given, reported), DescribedIf(there))
  BY <1>2, <1>3, ThereIsDescribed DEF Agree
<1>5. QED
  BY <1>1, <1>3, <1>4

\* A reference that is refused.
LEMMA RefusedAgrees ==
  /\ Agree(Failed("error"), NotDescribed)
  /\ \A b \in BOOLEAN : Agree(Failed("error"), Described(b))
  BY ThereIsDescribed DEF Agree, Failed

\* The providers that describe a secret by its name.
LEMMA NamedAgree ==
  ASSUME NEW secrets, NEW via, NEW prefix, NEW failures
  PROVE  /\ Agree(AWSSecretsManagerResolve(secrets, via), AWSSecretsManagerDescribe(secrets, via))
         /\ Agree(AkeylessResolve(secrets, via), AkeylessDescribe(secrets, via))
         /\ Agree(BitwardenResolve(secrets, via), BitwardenDescribe(secrets, via))
         /\ Agree(OnePasswordResolve(secrets, via), OnePasswordDescribe(secrets, via))
         /\ Agree(DopplerResolve(secrets, via), DopplerDescribe(secrets, via))
         /\ Agree(PassResolve(secrets, via), PassDescribe(secrets, via))
         /\ Agree(KeychainResolve(secrets, prefix, via), KeychainDescribe(secrets, prefix, via))
         /\ Agree(LiteralResolve(secrets, via), LiteralDescribe(secrets, via))
         /\ Agree(MockResolve(secrets, failures, via), MockDescribe(secrets, failures, via))
<1>1. Agree(AWSSecretsManagerResolve(secrets, via), AWSSecretsManagerDescribe(secrets, via))
  BY ReadAgrees DEF AWSSecretsManagerResolve, AWSSecretsManagerDescribe
<1>4. Agree(AkeylessResolve(secrets, via), AkeylessDescribe(secrets, via))
  BY ReadAgrees, RefusedAgrees DEF AkeylessResolve, AkeylessDescribe, AkeylessGetSecret
<1>5. Agree(BitwardenResolve(secrets, via), BitwardenDescribe(secrets, via))
  BY ReadAgrees DEF BitwardenResolve, BitwardenDescribe
<1>6. Agree(OnePasswordResolve(secrets, via), OnePasswordDescribe(secrets, via))
  BY ReadAgrees DEF OnePasswordResolve, OnePasswordDescribe
<1>7. Agree(DopplerResolve(secrets, via), DopplerDescribe(secrets, via))
  BY ReadAgrees DEF DopplerResolve, DopplerDescribe
<1>8. Agree(PassResolve(secrets, via), PassDescribe(secrets, via))
  BY ReadAgrees DEF PassResolve, PassDescribe
<1>9. Agree(KeychainResolve(secrets, prefix, via), KeychainDescribe(secrets, prefix, via))
  BY ReadAgrees, RefusedAgrees DEF KeychainResolve, KeychainDescribe
<1>10. Agree(LiteralResolve(secrets, via), LiteralDescribe(secrets, via))
  BY ReadAgrees DEF LiteralResolve, LiteralDescribe
<1>11. Agree(MockResolve(secrets, failures, via), MockDescribe(secrets, failures, via))
  BY ReadAgrees, RefusedAgrees DEF MockResolve, MockDescribe
<1>12. QED
  BY <1>1, <1>4, <1>5, <1>6, <1>7, <1>8, <1>9, <1>10, <1>11

\* What is not cut is whole.
LEMMA NoMark ==
  ASSUME NEW text, NEW mark, ~Cut(text, mark).found
  PROVE  Cut(text, mark).head = text
  BY DEF Cut, CutAt, Uncut

\* What is said to exist if it is there is said to exist when it is, and then only.
LEMMA SaidIfThere ==
  ASSUME NEW element, NEW set, NEW found
  PROVE  /\ Described(element \in set).status = "ok"
         /\ Described(element \in set) = Described(TRUE) <=> element \in set
         /\ Described(~found /\ element \in set).status = "ok"
         /\ Described(~found /\ element \in set) = Described(TRUE) <=> ~found /\ element \in set
<1>1. \A b \in BOOLEAN : Described(b).status = "ok" /\ (Described(b) = Described(TRUE) <=> b = TRUE)
  BY DEF Described
<1>2. PICK there \in BOOLEAN : there = (element \in set) /\ (there = TRUE <=> element \in set)
  <2>1. CASE element \in set
    <3>1. TRUE = (element \in set)
      BY <2>1
    <3>2. QED
      BY <2>1, <3>1
  <2>2. CASE element \notin set
    <3>1. FALSE = (element \in set)
      BY <2>2
    <3>2. QED
      BY <2>2, <3>1
  <2>3. QED
    BY <2>1, <2>2
<1>3. PICK listed \in BOOLEAN : listed = (~found /\ element \in set) /\ (listed = TRUE <=> ~found /\ element \in set)
  <2>1. CASE ~found /\ element \in set
    <3>1. TRUE = (~found /\ element \in set)
      BY <2>1
    <3>2. QED
      BY <2>1, <3>1
  <2>2. CASE ~(~found /\ element \in set)
    <3>1. FALSE = (~found /\ element \in set)
      BY <2>2
    <3>2. QED
      BY <2>2, <3>1
  <2>3. QED
    BY <2>1, <2>2
<1>4. /\ Described(element \in set).status = "ok"
      /\ Described(element \in set) = Described(TRUE) <=> element \in set
  BY <1>1, <1>2
<1>5. /\ Described(~found /\ element \in set).status = "ok"
      /\ Described(~found /\ element \in set) = Described(TRUE) <=> ~found /\ element \in set
  BY <1>1, <1>3
<1>6. QED
  BY <1>4, <1>5

\* The services that describe no version: the description of a secret that is resolved says
\* that it exists but for a reference that names the version.
LEMMA VersionsAreNotDescribed ==
  ASSUME NEW secrets, NEW via, NEW prefix
  PROVE  /\ AWSSSMResolve(secrets, prefix, via).status \in {"ok", "error", "missing"}
         /\ AWSSSMDescribe(secrets, prefix, via).status \in {"ok", "error"}
         /\ AWSSSMResolve(secrets, prefix, via).status = "ok"
              => (AWSSSMDescribe(secrets, prefix, via) = Described(TRUE) <=> ~SSMSelector(prefix \o via.key).found)
         /\ GCPSecretManagerResolve(secrets, via).status \in {"ok", "error", "missing"}
         /\ GCPSecretManagerDescribe(secrets, via).status \in {"ok", "error"}
         /\ GCPSecretManagerResolve(secrets, via).status = "ok"
              => (GCPSecretManagerDescribe(secrets, via) = Described(TRUE)
                    <=> ~IsVersionName(GCPSecretManagerParseReference(via.key).name))
<1>1. Described(FALSE) # Described(TRUE) /\ NotDescribed # Described(TRUE)
  BY DEF Described, NotDescribed
<1>2. /\ AWSSSMResolve(secrets, prefix, via).status \in {"ok", "error", "missing"}
      /\ AWSSSMDescribe(secrets, prefix, via).status \in {"ok", "error"}
      /\ AWSSSMResolve(secrets, prefix, via).status = "ok"
           => (AWSSSMDescribe(secrets, prefix, via) = Described(TRUE) <=> ~SSMSelector(prefix \o via.key).found)
  <2>1. PICK asked, version :
             /\ asked = SSMSelector(prefix \o via.key)
             /\ AWSSSMResolve(secrets, prefix, via) = Read(secrets, asked.head, version, <<>>, "error")
             /\ AWSSSMDescribe(secrets, prefix, via) = Described(~asked.found /\ asked.head \in DOMAIN secrets)
    BY DEF AWSSSMResolve, AWSSSMDescribe
  <2>2. /\ AWSSSMResolve(secrets, prefix, via).status \in {"ok", "error", "missing"}
        /\ AWSSSMResolve(secrets, prefix, via).status = "ok" => asked.head \in DOMAIN secrets
    BY <2>1, ReadAnswers
  <2>3. /\ AWSSSMDescribe(secrets, prefix, via).status \in {"ok", "error"}
        /\ AWSSSMDescribe(secrets, prefix, via) = Described(TRUE)
             <=> ~asked.found /\ asked.head \in DOMAIN secrets
    BY <2>1, SaidIfThere
  <2>4. QED
    BY <2>1, <2>2, <2>3
<1>3. /\ GCPSecretManagerResolve(secrets, via).status \in {"ok", "error", "missing"}
      /\ GCPSecretManagerDescribe(secrets, via).status \in {"ok", "error"}
      /\ GCPSecretManagerResolve(secrets, via).status = "ok"
           => (GCPSecretManagerDescribe(secrets, via) = Described(TRUE)
                 <=> ~IsVersionName(GCPSecretManagerParseReference(via.key).name))
  <2>1. PICK key, resource : /\ key = GCPSecretManagerParseReference(via.key)
                             /\ resource = buildResourceName(key.name, key.version)
    OBVIOUS
  <2>2. PICK version, field :
             GCPSecretManagerResolve(secrets, via) = Read(secrets, resource.name, version, field, "error")
    BY <2>1 DEF GCPSecretManagerResolve, AccessSecretVersion
  <2>3. /\ GCPSecretManagerResolve(secrets, via).status \in {"ok", "error", "missing"}
        /\ GCPSecretManagerResolve(secrets, via).status = "ok" => resource.name \in DOMAIN secrets
    BY <2>2, ReadAnswers
  <2>4. CASE IsVersionName(key.name)
    <3>1. GCPSecretManagerDescribe(secrets, via) = NotDescribed
      BY <2>1, <2>4 DEF GCPSecretManagerDescribe
    <3>2. QED
      BY <1>1, <2>1, <2>3, <2>4, <3>1, ThereIsDescribed
  <2>5. CASE ~IsVersionName(key.name)
    <3>1. resource.name = IF IsResourceName(key.name) THEN key.name ELSE InProject(key.name)
      <4>1. CASE IsResourceName(key.name)
        <5>1. resource.name = Cut(key.name, "/versions/").head
          BY <2>1, <4>1 DEF buildResourceName
        <5>2. QED
          BY <2>5, <4>1, <5>1, NoMark DEF IsVersionName
      <4>2. CASE ~IsResourceName(key.name)
        BY <2>1, <4>2 DEF buildResourceName
      <4>3. QED
        BY <4>1, <4>2
    <3>2. GCPSecretManagerDescribe(secrets, via) = Described(resource.name \in DOMAIN secrets)
      BY <2>1, <2>5, <3>1 DEF GCPSecretManagerDescribe
    <3>3. /\ GCPSecretManagerDescribe(secrets, via).status \in {"ok", "error"}
          /\ GCPSecretManagerDescribe(secrets, via) = Described(TRUE) <=> resource.name \in DOMAIN secrets
      BY <3>2, SaidIfThere
    <3>4. QED
      BY <2>1, <2>3, <2>5, <3>3
  <2>6. QED
    BY <2>4, <2>5
<1>4. QED
  BY <1>2, <1>3

\* The providers that read the secret to describe it.
LEMMA ReadToDescribeAgree ==
  ASSUME NEW secrets, NEW via
  PROVE  /\ Agree(AzureKeyVaultResolve(secrets, via), AzureKeyVaultDescribe(secrets, via))
         /\ Agree(InfisicalResolve(secrets, via), InfisicalDescribe(secrets, via))
<1>1. ASSUME NEW name, NEW version, NEW field
      PROVE  Read(secrets, name, version, field, "error").status = "ok"
               => Read(secrets, name, version, <<>>, "missing").status = "ok"
  <2>1. SUFFICES ASSUME Read(secrets, name, version, field, "error").status = "ok"
                 PROVE  Read(secrets, name, version, <<>>, "missing").status = "ok"
    OBVIOUS
  <2>2. version \in 1 .. Latest(secrets, name) /\ secrets[name][version].enabled
    BY <2>1, ReadAnswers
  <2>3. QED
    BY <2>2 DEF Read
<1>2. Agree(AzureKeyVaultResolve(secrets, via), AzureKeyVaultDescribe(secrets, via))
  <2>1. PICK name, version, field :
             /\ AzureKeyVaultResolve(secrets, via) = Read(secrets, name, version, field, "error")
             /\ AzureKeyVaultDescribe(secrets, via) =
                  IF Read(secrets, name, version, <<>>, "missing").status = "error" THEN NotDescribed
                  ELSE Described(Read(secrets, name, version, <<>>, "missing").status = "ok")
    BY DEF AzureKeyVaultResolve, AzureKeyVaultDescribe
  <2>2. Read(secrets, name, version, field, "error").status \in {"ok", "error", "missing"}
    BY ReadAnswers
  <2>3. CASE Read(secrets, name, version, <<>>, "missing").status = "ok"
    BY <2>1, <2>2, <2>3, ThereIsDescribed DEF Agree
  <2>4. CASE Read(secrets, name, version, <<>>, "missing").status # "ok"
    BY <1>1, <2>1, <2>2, <2>4, ThereIsDescribed DEF Agree
  <2>5. QED
    BY <2>3, <2>4
<1>3. Agree(InfisicalResolve(secrets, via), InfisicalDescribe(secrets, via))
  <2>1. PICK parsed, given :
             /\ parsed = ParseInfisicalReference(via.key)
             /\ given = InfisicalGetSecret(secrets, parsed)
    OBVIOUS
  <2>2. /\ given.status \in {"ok", "error", "missing"}
        /\ Reporting(given, given.version).status = given.status
    BY <2>1, ReadAnswers, ReportingAnswers DEF InfisicalGetSecret
  <2>3. /\ InfisicalResolve(secrets, via) =
             IF parsed.name = <<>> THEN Failed("error") ELSE Reporting(given, given.version)
        /\ InfisicalDescribe(secrets, via) =
             IF parsed.name = <<>> \/ given.status = "error" THEN NotDescribed
             ELSE Described(given.status = "ok")
    BY <2>1 DEF InfisicalResolve, InfisicalDescribe
  <2>4. CASE parsed.name = <<>>
    BY <2>3, <2>4, RefusedAgrees
  <2>5. CASE parsed.name # <<>>
    BY <2>2, <2>3, <2>5, ThereIsDescribed DEF Agree
  <2>6. QED
    BY <2>4, <2>5
<1>4. QED
  BY <1>2, <1>3

\* The providers whose description asks nobody: credentials made on request, and vault.
LEMMA OthersAnswer ==
  ASSUME NEW secrets, NEW via, NEW default
  PROVE  /\ AWSSTSGetCredentialValue(via.key).status \in {"ok", "error"}
         /\ AWSSSOGetCredentialValue(via.key).status \in {"ok", "error"}
         /\ AzureIdentityGetTokenValue(default, via.key).status \in {"ok", "error"}
         /\ VaultResolve(secrets, via).status \in {"ok", "error", "missing"}
         /\ VaultDescribe(via).status \in {"ok", "error"} /\ VaultDescribe(via) # Described(TRUE)
<1>1. \A fields, name, key : FieldOf(fields, name, key).status \in {"ok", "error"}
  BY DEF FieldOf, Failed
<1>2. VaultResolve(secrets, via).status \in {"ok", "error", "missing"}
  BY ReadAnswers DEF VaultResolve, Failed
<1>3. VaultDescribe(via).status \in {"ok", "error"} /\ VaultDescribe(via) # Described(TRUE)
  BY DEF VaultDescribe, Described, NotDescribed
<1>4. QED
  BY <1>1, <1>2, <1>3 DEF AWSSTSGetCredentialValue, AWSSSOGetCredentialValue,
                          AzureIdentityGetTokenValue

\* What is resolved is described but by the three that do not, and a resolution and a description
\* answer with statuses of their own, whatever the type of the provider.
LEMMA ResolveAndDescribe ==
  ASSUME NEW secrets, NEW via
  PROVE  /\ Resolve(secrets, via).status \in {"ok", "error", "missing"}
         /\ Describe(secrets, via).status \in {"ok", "error"}
         /\ Resolve(secrets, via).status = "ok"
              => (Describe(secrets, via) = Described(TRUE) <=> ~NeverDescribed(via))
<1>1. CASE via.type \in {"aws.secretsmanager", "aws.ssm", "gcp.secretmanager", "akeyless", "bitwarden", "onepassword",
                         "doppler", "pass", "keychain", "literal", "mock"}
  <2>1. CASE via.type = "aws.secretsmanager"
    <3>1. Agree(AWSSecretsManagerResolve(secrets, via), AWSSecretsManagerDescribe(secrets, via))
      BY NamedAgree
    <3>2. QED
      BY <2>1, <3>1 DEF Agree, Resolve, Describe, NeverDescribed, Cached
  <2>2. CASE via.type = "aws.ssm"
    BY <2>2, VersionsAreNotDescribed DEF Resolve, Describe, NeverDescribed, Cached
  <2>3. CASE via.type = "gcp.secretmanager"
    BY <2>3, VersionsAreNotDescribed DEF Resolve, Describe, NeverDescribed, Cached
  <2>4. CASE via.type = "akeyless"
    <3>1. Agree(AkeylessResolve(secrets, via), AkeylessDescribe(secrets, via))
      BY NamedAgree
    <3>2. QED
      BY <2>4, <3>1 DEF Agree, Resolve, Describe, NeverDescribed, Cached
  <2>5. CASE via.type = "bitwarden"
    <3>1. Agree(BitwardenResolve(secrets, via), BitwardenDescribe(secrets, via))
      BY NamedAgree
    <3>2. QED
      BY <2>5, <3>1 DEF Agree, Resolve, Describe, NeverDescribed, Cached
  <2>6. CASE via.type = "onepassword"
    <3>1. Agree(OnePasswordResolve(secrets, via), OnePasswordDescribe(secrets, via))
      BY NamedAgree
    <3>2. QED
      BY <2>6, <3>1 DEF Agree, Resolve, Describe, NeverDescribed, Cached
  <2>7. CASE via.type = "doppler"
    <3>1. Agree(DopplerResolve(secrets, via), DopplerDescribe(secrets, via))
      BY NamedAgree
    <3>2. QED
      BY <2>7, <3>1 DEF Agree, Resolve, Describe, NeverDescribed, Cached
  <2>8. CASE via.type = "pass"
    <3>1. Agree(PassResolve(secrets, via), PassDescribe(secrets, via))
      BY NamedAgree
    <3>2. QED
      BY <2>8, <3>1 DEF Agree, Resolve, Describe, NeverDescribed, Cached
  <2>9. CASE via.type = "keychain"
    <3>1. Agree(KeychainResolve(secrets, instance.prefix, via), KeychainDescribe(secrets, instance.prefix, via))
      BY NamedAgree
    <3>2. QED
      BY <2>9, <3>1 DEF Agree, Resolve, Describe, NeverDescribed, Cached
  <2>10. CASE via.type = "literal"
    <3>1. Agree(LiteralResolve(secrets, via), LiteralDescribe(secrets, via))
      BY NamedAgree
    <3>2. QED
      BY <2>10, <3>1 DEF Agree, Resolve, Describe, NeverDescribed, Cached
  <2>11. CASE via.type = "mock"
    <3>1. Agree(MockResolve(secrets, instance.failures, via), MockDescribe(secrets, instance.failures, via))
      BY NamedAgree
    <3>2. QED
      BY <2>11, <3>1 DEF Agree, Resolve, Describe, NeverDescribed, Cached
  <2>12. QED
    BY <1>1, <2>1, <2>2, <2>3, <2>4, <2>5, <2>6, <2>7, <2>8, <2>9, <2>10, <2>11
<1>2. CASE via.type \in {"azure.keyvault", "infisical"}
  BY <1>2, ReadToDescribeAgree DEF Agree, Resolve, Describe, NeverDescribed, Cached
<1>3. CASE via.type \in {"aws.sts", "aws.sso", "azure.identity", "vault"}
  BY <1>3, OthersAnswer, ThereIsDescribed DEF Resolve, Describe, NeverDescribed, Cached
<1>4. CASE via.type \notin {"aws.secretsmanager", "aws.ssm", "gcp.secretmanager", "akeyless", "bitwarden", "onepassword",
                           "doppler", "pass", "keychain", "literal", "mock", "azure.keyvault", "infisical",
                           "aws.sts", "aws.sso", "azure.identity", "vault"}
  <2>1. Resolve(secrets, via) = Failed("error")
    BY <1>4 DEF Resolve
  <2>2. Describe(secrets, via) = Described(FALSE)
    BY <1>4 DEF Describe, Cached
  <2>3. Agree(Failed("error"), Described(FALSE))
    BY RefusedAgrees
  <2>4. QED
    BY <1>4, <2>1, <2>2, <2>3 DEF Agree, NeverDescribed
<1>5. QED
  BY <1>1, <1>2, <1>3, <1>4

\* A validation has no other outcome either.
LEMMA ValidateAnswers == Validate.status \in {"ok", "error", "auth"}
<1>1. \A type : ValidateService(type) \in {"ok", "error", "auth"}
  BY DEF ValidateService, AWSSecretsManagerValidate, AWSSSMValidate, AWSSTSValidate,
         AzureKeyVaultValidate, GCPSecretManagerValidate, BitwardenValidate,
         OnePasswordValidate, DopplerValidate, PassValidate, KeychainValidate
<1>2. QED
  BY <1>1 DEF Validate, NoAnswer, Failed

\* Only a session that has ended is refused, and only a read without one unauthenticated.
LEMMA OutcomeIsPlain ==
  ASSUME NEW c
  PROVE  Outcome(c).status \notin {"refused", "unauthenticated"}
<1>1. PICK via : via = call[c].via
  OBVIOUS
<1>2. PICK given, described, validated, op :
         /\ given = Resolve(store, via) /\ described = Describe(store, via)
         /\ validated = Validate /\ op = call[c].op
  OBVIOUS
<1>3. /\ given.status \in {"ok", "error", "missing"} /\ described.status \in {"ok", "error"}
      /\ validated.status \in {"ok", "error", "auth"}
  BY <1>2, ResolveAndDescribe, ValidateAnswers
<1>4. CASE op \in {"resolve", "validate"}
  BY <1>1, <1>2, <1>3, <1>4 DEF Outcome
<1>5. CASE op = "describe"
  BY <1>1, <1>2, <1>3, <1>5 DEF Outcome, NoAnswer, Failed
<1>6. CASE op \notin {"resolve", "validate", "describe"}
  BY <1>1, <1>2, <1>6 DEF Outcome, NoAnswer, Failed
<1>7. QED
  BY <1>4, <1>5, <1>6

\* The kinds of provider: a reference is routed to a token's provider by no other.
LEMMA RoutedKind ==
  ASSUME NEW ref
  PROVE  /\ instance.type \in Tokened => Routed(ref).type = instance.type
         /\ Routed(ref).type \in Tokened => instance.type \in Tokened
<1>1. CASE instance.type = "aws"
  BY <1>1 DEF Routed, Tokened, AWSUnifiedRoute, Handed, NewAWSUnifiedProvider
<1>2. CASE instance.type = "azure"
  BY <1>2 DEF Routed, Tokened, AzureUnifiedRoute, Handed,
              NewAzureUnifiedProvider
<1>3. CASE instance.type = "gcp"
  BY <1>3 DEF Routed, Tokened, GCPUnifiedRoute, Handed, NewGCPUnifiedProvider
<1>4. CASE instance.type \notin {"aws", "azure", "gcp"}
  BY <1>4 DEF Routed
<1>5. QED
  BY <1>1, <1>2, <1>3, <1>4

-------------------------------------------------------------------------------
(***************************************************************************)
(* The inductive invariant of the sessions.                                  *)
(***************************************************************************)
HasToken == instance.type \in Tokened
FailedOnce == \E i \in DOMAIN logins : logins[i].until = logins[i].issued

\* When the cache holds a token for stale, by what the client was told of it.
Stale(login) == login.kept + Kept(login.told)

CacheIsEarly ==
  HasToken /\ ~Fixed /\ cache.session # 0 => cache.until <= Stale(logins[cache.session])

\* The shared state has its types, and a token of the settings is there from the beginning.
Shared ==
  /\ instance \in Instances /\ now \in 0 .. MaxTime
  /\ DOMAIN store = DOMAIN instance.secrets
  /\ logins \in Seq(LoginType)
  /\ \A i \in DOMAIN logins : logins[i].until >= logins[i].issued /\ logins[i].kept <= now
  /\ cache \in [session : 0 .. Len(logins), until : Nat]
  /\ mu \in Callers \cup {NoCaller}
  /\ Fixed => Len(logins) >= 1
  /\ CacheIsEarly

Fields == {"pc", "op", "ref", "via", "session", "since", "oldest", "answer"}

\* What is true of a caller whatever the others do: it has a session where it uses one, it
\* calls a provider of the instance's kind, and the token it carries was not stale by the
\* cache's lights when its request was sent.
Sound(r) ==
  /\ DOMAIN r = Fields
  /\ r.pc \in Steps /\ r.session \in 0 .. Len(logins) /\ r.since \in 0 .. MaxTime
  /\ r.pc \in {"credentials", "expiry", "store", "use"} => r.session # 0
  /\ r.pc # "idle" => (r.via.type \in Tokened <=> HasToken)
  /\ HasToken => r.pc \in {"idle", "token", "login", "ask", "store", "use", "answered"}
  /\ HasToken /\ ~Fixed /\ r.pc = "use" => r.since <= Stale(logins[r.session])
  /\ r.pc = "answered" /\ r.answer.status = "unauthenticated" => FailedOnce

AllSound == DOMAIN call = Callers /\ \A c \in Callers : Sound(call[c])

\* The mutex is held by the caller that checks the token of vault or replaces it; a caller that
\* is about to read has a token to find, unless a login failed or one is being made.
Guarded ==
  \A c \in Callers :
    /\ (mu = c) <=> call[c].pc \in {"validate", "relogin"}
    /\ call[c].pc = "validate" => cache.session # 0
    /\ call[c].pc = "read" => \/ cache.session # 0 \/ FailedOnce
                                 \/ \E d \in Callers : call[d].pc = "relogin"

SessionInv == Shared /\ AllSound /\ Guarded

-------------------------------------------------------------------------------
\* The fields of a call.
LEMMA IdleFields ==
  /\ DOMAIN Idle = Fields /\ Idle.pc = "idle" /\ Idle.session = 0
  /\ Idle.since = 0
  BY DEF Idle, Fields

\* The step of a caller to another point of the program, and to its answer.
LEMMA ToMoves ==
  ASSUME AllSound, NEW c \in Callers, NEW at, NEW session, To(c, at, session)
  PROVE  /\ DOMAIN call' = Callers /\ \A d \in Callers \ {c} : call'[d] = call[d]
         /\ DOMAIN call'[c] = Fields
         /\ call'[c].pc = at /\ call'[c].session = session /\ call'[c].via = call[c].via
         /\ call'[c].since = IF at \in Waiting THEN now ELSE 0
<1>1. DOMAIN call = Callers /\ DOMAIN call[c] = Fields
  BY DEF AllSound, Sound
<1>2. QED
  BY <1>1 DEF To, Fields

LEMMA AnswerMoves ==
  ASSUME AllSound, NEW c \in Callers, NEW given, Answer(c, given)
  PROVE  /\ DOMAIN call' = Callers /\ \A d \in Callers \ {c} : call'[d] = call[d]
         /\ DOMAIN call'[c] = Fields
         /\ call'[c].pc = "answered" /\ call'[c].session = call[c].session
         /\ call'[c].via = call[c].via /\ call'[c].since = 0 /\ call'[c].answer = given
<1>1. DOMAIN call = Callers /\ DOMAIN call[c] = Fields
  BY DEF AllSound, Sound
<1>2. QED
  BY <1>1 DEF Answer, Fields

\* Logins are only added.
Grown ==
  /\ logins' \in Seq(LoginType)
  /\ \A i \in DOMAIN logins' : logins'[i].until >= logins'[i].issued /\ logins'[i].kept <= now
  /\ Len(logins) <= Len(logins')
  /\ \A i \in 1 .. Len(logins) : /\ logins'[i].issued = logins[i].issued /\ logins'[i].until = logins[i].until
                                 /\ logins'[i].told = logins[i].told /\ logins'[i].kept >= logins[i].kept

\* An element of a sequence is of its set.
LEMMA ElementOf ==
  ASSUME NEW S, NEW sequence \in Seq(S), NEW i \in 1 .. Len(sequence)
  PROVE  sequence[i] \in S /\ i \in DOMAIN sequence
  OBVIOUS

\* The times of a login are seconds.
LEMMA LoginFields ==
  ASSUME NEW login \in LoginType
  PROVE  login.issued \in Nat /\ login.until \in Nat /\ login.told \in Nat /\ login.kept \in Nat
<1>1. login.issued \in 0 .. MaxTime /\ login.until \in Nat /\ login.told \in Nat /\ login.kept \in 0 .. MaxTime
  BY DEF LoginType
<1>2. \A n \in 0 .. MaxTime : n \in Nat
  BY SessionAssumption
<1>3. QED
  BY <1>1, <1>2

\* A login has its times.
LEMMA LoginTimes ==
  ASSUME Shared, NEW s \in 1 .. Len(logins)
  PROVE  /\ logins[s] \in LoginType /\ logins[s].issued \in Nat /\ logins[s].until \in Nat
         /\ logins[s].told \in Nat /\ logins[s].kept \in Nat /\ logins[s].kept <= now
         /\ logins[s].until >= logins[s].issued
<1>1. logins \in Seq(LoginType)
  BY DEF Shared
<1>2. logins[s] \in LoginType /\ s \in DOMAIN logins
  BY <1>1, ElementOf
<1>3. logins[s].until >= logins[s].issued /\ logins[s].kept <= now
  BY <1>2 DEF Shared
<1>4. QED
  BY <1>2, <1>3, LoginFields

\* One more login, which lasts as long as it lasts.
LEMMA LoginAdded ==
  ASSUME Shared, NEW login \in LoginType, login.issued = now, login.kept = now, login.until >= now,
         logins' = Append(logins, login)
  PROVE  /\ Grown /\ Len(logins') = Len(logins) + 1 /\ Len(logins) \in Nat
         /\ logins'[Len(logins) + 1] = login
<1>1. logins \in Seq(LoginType) /\ now \in 0 .. MaxTime /\ MaxTime \in Nat
  BY SessionAssumption DEF Shared
<1>2. /\ logins' \in Seq(LoginType) /\ Len(logins') = Len(logins) + 1
      /\ Len(logins) \in Nat
      /\ \A i \in 1 .. Len(logins) : logins'[i] = logins[i]
      /\ logins'[Len(logins) + 1] = login
  BY <1>1
<1>3. \A i \in DOMAIN logins' : logins'[i].until >= logins'[i].issued /\ logins'[i].kept <= now
  <2>1. SUFFICES ASSUME NEW i \in 1 .. Len(logins) + 1
                 PROVE  logins'[i].until >= logins'[i].issued /\ logins'[i].kept <= now
    BY <1>2
  <2>2. CASE i \in 1 .. Len(logins)
    BY <1>2, <2>2 DEF Shared
  <2>3. CASE i = Len(logins) + 1
    BY <1>1, <1>2, <2>3
  <2>4. QED
    BY <1>2, <2>2, <2>3
<1>4. \A i \in 1 .. Len(logins) : logins[i].kept >= logins[i].kept
  <2>1. SUFFICES ASSUME NEW i \in 1 .. Len(logins)
                 PROVE  logins[i].kept >= logins[i].kept
    OBVIOUS
  <2>2. logins[i].kept \in Nat
    BY LoginTimes
  <2>3. \A n \in Nat : n >= n
    OBVIOUS
  <2>4. QED
    BY <2>2, <2>3
<1>5. QED
  BY <1>2, <1>3, <1>4 DEF Grown

\* What TokenCache.Set keeps of a time to live.
LEMMA KeptIs ==
  ASSUME NEW ttl \in Nat
  PROVE  /\ Kept(ttl) \in Nat
         /\ ttl > Buffer => Kept(ttl) = ttl - Buffer
  BY SessionAssumption DEF Kept

\* A login grows staler only as it is kept again.
LEMMA StaleGrows ==
  ASSUME Shared, Grown, NEW s \in 1 .. Len(logins), NEW t \in Nat, t <= Stale(logins[s])
  PROVE  t <= Stale(logins'[s])
<1>1. /\ logins[s].told \in Nat /\ logins[s].kept \in Nat
  BY LoginTimes
<1>2. s \in 1 .. Len(logins') /\ MaxTime \in Nat
  BY SessionAssumption DEF Shared, Grown
<1>3. logins'[s] \in LoginType
  BY <1>2, ElementOf DEF Grown
<1>4. logins'[s].kept \in Nat
  BY <1>3, LoginFields
<1>5. logins'[s].kept >= logins[s].kept /\ logins'[s].told = logins[s].told
  BY DEF Grown
<1>6. Kept(logins[s].told) \in Nat
  BY <1>1, KeptIs
<1>7. QED
  BY <1>1, <1>4, <1>5, <1>6 DEF Stale

\* No login is what there was.
LEMMA LoginsKept ==
  ASSUME Shared, logins' = logins
  PROVE  Grown
<1>1. Len(logins) \in Nat
  BY DEF Shared
<1>2. \A i \in 1 .. Len(logins) : logins[i].kept \in Nat
  BY LoginTimes
<1>3. \A i \in 1 .. Len(logins) : logins[i].kept >= logins[i].kept
  BY <1>2
<1>4. QED
  BY <1>1, <1>3 DEF Shared, Grown

\* What is true of a caller stays true as logins are added.
LEMMA SoundStays ==
  ASSUME Shared, NEW r, Sound(r), Grown, now' = now, instance' = instance
  PROVE  Sound(r)'
<1>1. HasToken' = HasToken /\ Fixed' = Fixed
  BY DEF HasToken, Fixed
<1>2. Len(logins) \in Nat /\ Len(logins') \in Nat /\ DOMAIN logins = 1 .. Len(logins)
      /\ DOMAIN logins' = 1 .. Len(logins')
  BY DEF Shared, Grown
<1>3. FailedOnce => FailedOnce'
  BY <1>2 DEF FailedOnce, Grown
<1>4. r.session \in 0 .. Len(logins') /\ MaxTime \in Nat
  BY <1>2, SessionAssumption DEF Sound, Grown
<1>5. CASE HasToken /\ ~Fixed /\ r.pc = "use"
  <2>1. r.session \in 1 .. Len(logins) /\ r.since \in Nat /\ r.since <= Stale(logins[r.session])
    BY <1>2, <1>4, <1>5 DEF Sound
  <2>2. r.since <= Stale(logins'[r.session])
    BY <2>1, StaleGrows
  <2>3. Stale(logins[r.session])' = Stale(logins'[r.session])
    BY DEF Stale, Kept
  <2>4. QED
    BY <1>1, <1>3, <1>4, <2>2, <2>3 DEF Sound
<1>6. CASE ~(HasToken /\ ~Fixed /\ r.pc = "use")
  BY <1>1, <1>3, <1>4, <1>6 DEF Sound
<1>7. QED
  BY <1>5, <1>6

\* A caller's step: the others stay as they are.
LEMMA CallerMoves ==
  ASSUME SessionInv, NEW c \in Callers, NEW r, r = call'[c], Sound(r)',
         DOMAIN call' = Callers, \A d \in Callers \ {c} : call'[d] = call[d],
         Grown, now' = now, instance' = instance
  PROVE  AllSound'
<1>1. ASSUME NEW d \in Callers
      PROVE  Sound(call[d])'
  <2>1. PICK s : s = call'[d]
    OBVIOUS
  <2>2. Sound(s)'
    <3>1. CASE d = c
      BY <2>1, <3>1
    <3>2. CASE d # c
      <4>1. Sound(s)
        BY <2>1, <3>2 DEF SessionInv, AllSound
      <4>2. QED
        BY <4>1, SoundStays DEF SessionInv
    <3>3. QED
      BY <3>1, <3>2
  <2>3. QED
    BY <2>1, <2>2 DEF Sound
<1>2. QED
  BY <1>1 DEF AllSound

\* A step that is not about the mutex leaves it, and leaves the token to read with.
LEMMA GuardStays ==
  ASSUME SessionInv, NEW c \in Callers, call[c].pc \notin {"validate", "relogin"},
         call'[c].pc \notin {"validate", "relogin", "read"},
         DOMAIN call' = Callers, \A d \in Callers \ {c} : call'[d] = call[d],
         mu' = mu, cache'.session # 0 \/ cache'.session = cache.session, Grown
  PROVE  Guarded'
<1>1. DOMAIN logins = 1 .. Len(logins) /\ DOMAIN logins' = 1 .. Len(logins') /\ Len(logins) \in Nat /\ Len(logins') \in Nat
  BY DEF SessionInv, Shared, Grown
<1>2. FailedOnce => FailedOnce'
  BY <1>1 DEF FailedOnce, Grown
<1>3. ASSUME NEW d \in Callers
      PROVE  /\ (mu' = d) <=> call'[d].pc \in {"validate", "relogin"}
             /\ call'[d].pc = "validate" => cache'.session # 0
             /\ call'[d].pc = "read" => \/ cache'.session # 0 \/ FailedOnce'
                                           \/ \E e \in Callers : call'[e].pc = "relogin"
  <2>1. CASE d = c
    BY <2>1 DEF SessionInv, Guarded
  <2>2. CASE d # c
    <3>1. call'[d] = call[d]
      BY <2>2
    <3>2. \A e \in Callers : call[e].pc = "relogin" => call'[e].pc = "relogin"
      OBVIOUS
    <3>3. QED
      BY <1>2, <3>1, <3>2 DEF SessionInv, Guarded
  <2>3. QED
    BY <2>1, <2>2
<1>4. QED
  BY <1>3 DEF Guarded

-------------------------------------------------------------------------------
(***************************************************************************)
(* The steps of a caller.                                                    *)
(***************************************************************************)
\* A step of one caller that keeps the time and leaves the mutex alone.
LEMMA PlainStep ==
  ASSUME SessionInv, NEW c \in Callers, NEW r, r = call'[c], Sound(r)',
         call[c].pc \notin {"validate", "relogin"}, r.pc \notin {"validate", "relogin", "read"},
         DOMAIN call' = Callers, \A d \in Callers \ {c} : call'[d] = call[d],
         mu' = mu, cache'.session # 0 \/ cache'.session = cache.session,
         Grown, now' = now, instance' = instance, Shared'
  PROVE  SessionInv'
<1>1. AllSound'
  BY CallerMoves
<1>2. Guarded'
  BY GuardStays
<1>3. QED
  BY <1>1, <1>2 DEF SessionInv

\* The shared state of a step that writes none of it but secrets.
LEMMA SharedStays ==
  ASSUME Shared, now' = now, instance' = instance, logins' = logins, cache' = cache, mu' = mu,
         DOMAIN store' = DOMAIN store
  PROVE  Shared' /\ Grown
<1>1. Fixed' = Fixed /\ HasToken' = HasToken
  BY DEF Fixed, HasToken
<1>2. CacheIsEarly'
  BY <1>1 DEF Shared, CacheIsEarly, Stale, Kept
<1>3. QED
  BY <1>1, <1>2, LoginsKept DEF Shared

\* The logins grow, and the cache is left.
LEMMA SharedGrows ==
  ASSUME Shared, Grown, now' = now, instance' = instance, cache' = cache, mu' = mu, store' = store
  PROVE  Shared'
<1>1. Fixed' = Fixed /\ HasToken' = HasToken
  BY DEF Fixed, HasToken
<1>2. Len(logins) \in Nat /\ Len(logins') \in Nat /\ Len(logins) <= Len(logins')
  BY DEF Shared, Grown
<1>3. CacheIsEarly'
  <2>1. SUFFICES ASSUME cache.session # 0, HasToken, ~Fixed
                 PROVE  cache.until <= Stale(logins'[cache.session])
    BY <1>1 DEF CacheIsEarly, Stale, Kept
  <2>2. cache.session \in 1 .. Len(logins) /\ cache.until \in Nat
    BY <1>2, <2>1 DEF Shared
  <2>3. cache.until <= Stale(logins[cache.session])
    BY <2>1 DEF Shared, CacheIsEarly
  <2>4. QED
    BY <2>2, <2>3, StaleGrows
<1>4. QED
  BY <1>1, <1>2, <1>3 DEF Shared, Grown

\* An answer that is none of the two a session can be the reason of.
LEMMA PlainAnswer ==
  ASSUME SessionInv, NEW c \in Callers, NEW given, given.status \notin {"refused", "unauthenticated"},
         Answer(c, given), call[c].pc # "idle"
  PROVE  Sound(call'[c])
<1>1. Sound(call[c]) /\ Shared
  BY DEF SessionInv, AllSound
<1>2. PICK r : r = call'[c]
  OBVIOUS
<1>3. /\ DOMAIN r = Fields /\ r.pc = "answered" /\ r.session = call[c].session
      /\ r.via = call[c].via /\ r.since = 0 /\ r.answer = given
  BY <1>2, AnswerMoves DEF SessionInv
<1>4. 0 \in 0 .. MaxTime
  BY <1>1, SessionAssumption DEF Shared
<1>5. Sound(r)
  BY <1>1, <1>3, <1>4 DEF Sound, Steps, Waiting
<1>6. QED
  BY <1>2, <1>5

\* A caller answers, and the shared state grows at most a login or a version.
LEMMA AnsweredStep ==
  ASSUME SessionInv, NEW c \in Callers, NEW given, given.status \notin {"refused", "unauthenticated"},
         Answer(c, given), call[c].pc \notin {"idle", "validate", "relogin"},
         Grown, Shared', now' = now, instance' = instance, mu' = mu, cache' = cache
  PROVE  SessionInv'
<1>1. PICK r : r = call'[c]
  OBVIOUS
<1>2. Sound(r)
  BY <1>1, PlainAnswer
<1>3. Sound(r)'
  BY <1>2, SoundStays DEF SessionInv
<1>4. /\ DOMAIN call' = Callers /\ \A d \in Callers \ {c} : call'[d] = call[d]
      /\ r.pc = "answered"
  BY <1>1, AnswerMoves DEF SessionInv
<1>5. QED
  BY <1>1, <1>3, <1>4, PlainStep

\* A call begins at the step its provider's kind has, and ends.
LEMMA BeginStep ==
  ASSUME SessionInv, NEW c \in Callers, Begin(c) \/ Return(c)
  PROVE  SessionInv'
<1>1. PICK r : r = call'[c]
  OBVIOUS
<1>2. /\ instance' = instance /\ store' = store /\ now' = now /\ logins' = logins /\ cache' = cache /\ mu' = mu
      /\ call[c].pc \in {"idle", "answered"}
      /\ DOMAIN call = Callers
  BY DEF Begin, Return, SessionInv, AllSound
<1>3. Shared' /\ Grown
  BY <1>2, SharedStays DEF SessionInv
<1>4. 0 \in 0 .. MaxTime /\ 0 \in 0 .. Len(logins)
  <2>1. MaxTime \in Nat /\ Len(logins) \in Nat
    BY SessionAssumption DEF SessionInv, Shared
  <2>2. QED
    BY <2>1
<1>5. CASE Begin(c)
  <2>1. PICK op, ref, via, oldest :
             /\ via = IF op = "validate" THEN [type |-> instance.type, key |-> ref.key, version |-> <<>>]
                      ELSE Routed(ref)
             /\ call' = [call EXCEPT ![c] = [Idle EXCEPT !.pc = FirstStep(op, via), !.op = op,
                              !.ref = ref, !.via = via, !.oldest = oldest]]
    <3>1. PICK op \in instance.ops, ref \in instance.refs :
            LET via == IF op = "validate" THEN [type |-> instance.type, key |-> ref.key, version |-> <<>>]
                       ELSE Routed(ref)
            IN call' = [call EXCEPT ![c] = [Idle EXCEPT !.pc = FirstStep(op, via), !.op = op,
                             !.ref = ref, !.via = via, !.oldest = Latest(store, ref.means.name)]]
      BY <1>5, Zenon DEF Begin
    <3>2. QED
      BY <3>1
  <2>2. /\ DOMAIN call' = Callers /\ \A d \in Callers \ {c} : call'[d] = call[d]
        /\ DOMAIN r = Fields /\ r.pc = FirstStep(op, via) /\ r.via = via /\ r.session = 0 /\ r.since = 0
    BY <1>1, <1>2, <2>1, IdleFields DEF Fields
  <2>3. HasToken => via.type = instance.type
    BY <2>1, RoutedKind DEF HasToken
  <2>4. via.type \in Tokened => HasToken
    BY <2>1, RoutedKind DEF HasToken
  <2>5. FirstStep(op, via) \in {"cached", "token", "lock", "ask"}
    BY DEF FirstStep
  <2>6. HasToken => FirstStep(op, via) \in {"token", "ask"}
    BY <2>3 DEF FirstStep, HasToken, Tokened, Cached
  <2>7. Sound(r)
    BY <1>4, <2>2, <2>3, <2>4, <2>5, <2>6 DEF Sound, Steps, Waiting, HasToken
  <2>8. Sound(r)'
    BY <1>2, <1>3, <2>7, SoundStays DEF SessionInv
  <2>9. QED
    BY <1>1, <1>2, <1>3, <2>2, <2>5, <2>8, PlainStep
<1>6. CASE Return(c)
  <2>1. /\ DOMAIN call' = Callers /\ \A d \in Callers \ {c} : call'[d] = call[d] /\ r = Idle
    BY <1>1, <1>2, <1>6 DEF Return
  <2>2. r.pc = "idle" /\ r = Idle
    BY <1>1, <1>2, <1>6, IdleFields DEF Return
  <2>3. Sound(r)
    BY <1>4, <2>2, IdleFields DEF Sound, Steps, Waiting
  <2>4. Sound(r)'
    BY <1>2, <1>3, <2>3, SoundStays DEF SessionInv
  <2>5. QED
    BY <1>1, <1>2, <1>3, <2>1, <2>2, <2>4, PlainStep
<1>7. QED
  BY <1>5, <1>6

\* The backends that are asked as they are, and the rotation of a secret.
LEMMA AskedSteps ==
  ASSUME SessionInv, NEW c \in Callers,
         \/ FailAsk(c) \/ Ask(c) \/ CreateNewVersion(c) \/ DeprecateVersion(c)
  PROVE  SessionInv'
<1>1. /\ instance' = instance /\ now' = now /\ logins' = logins /\ cache' = cache /\ mu' = mu
      /\ call[c].pc \in {"ask", "use"}
  BY DEF FailAsk, Ask, CreateNewVersion, DeprecateVersion
<1>2. DOMAIN store' = DOMAIN store
  <2>1. \/ store' = store
        \/ \E name, versions : store' = [store EXCEPT ![name] = versions]
        \/ \E name, old : store' = [store EXCEPT ![name][old].enabled = FALSE]
    BY DEF FailAsk, Ask, CreateNewVersion, DeprecateVersion
  <2>2. QED
    BY <2>1
<1>3. Shared' /\ Grown
  BY <1>1, <1>2, SharedStays DEF SessionInv
<1>4. PICK given : Answer(c, given) /\ given.status \notin {"refused", "unauthenticated"}
  <2>1. CASE FailAsk(c)
    BY <2>1 DEF FailAsk, Failed
  <2>2. CASE Ask(c)
    BY <2>2, OutcomeIsPlain DEF Ask
  <2>3. CASE CreateNewVersion(c)
    <3>1. \A name, version : [Failed("ok") EXCEPT !.name = name, !.version = version].status = "ok"
      BY DEF Failed
    <3>2. Failed("error").status = "error"
      BY DEF Failed
    <3>3. \/ \E name, version : Answer(c, [Failed("ok") EXCEPT !.name = name, !.version = version])
          \/ Answer(c, Failed("error"))
      BY <2>3, Zenon DEF CreateNewVersion
    <3>4. QED
      BY <3>1, <3>2, <3>3
  <2>4. CASE DeprecateVersion(c)
    <3>1. \E given : Answer(c, given) /\ given \in {Failed("ok"), Failed("error")}
      BY <2>4 DEF DeprecateVersion
    <3>2. QED
      BY <3>1 DEF Failed
  <2>5. QED
    BY <2>1, <2>2, <2>3, <2>4
<1>5. QED
  BY <1>1, <1>3, <1>4, AnsweredStep

\* A caller looks for the session that is kept: a token is found only while its request has
\* the time to arrive.
LEMMA LookSteps ==
  ASSUME SessionInv, NEW c \in Callers, CheckCache(c) \/ GetToken(c)
  PROVE  SessionInv'
<1>1. PICK r : r = call'[c]
  OBVIOUS
<1>2. /\ instance' = instance /\ store' = store /\ now' = now /\ logins' = logins /\ cache' = cache /\ mu' = mu
      /\ call[c].pc \in {"cached", "token"}
  BY DEF CheckCache, GetToken
<1>3. Shared' /\ Grown
  BY <1>2, SharedStays DEF SessionInv
<1>4. Sound(call[c]) /\ Shared
  BY DEF SessionInv, AllSound
<1>5. /\ now \in Nat /\ now \in 0 .. MaxTime /\ Buffer \in Nat
      /\ cache.session \in 0 .. Len(logins) /\ Len(logins) \in Nat /\ cache.until \in Nat
      /\ 0 \in 0 .. MaxTime /\ 0 \in 0 .. Len(logins)
  BY <1>4, SessionAssumption DEF Shared
<1>6. CASE CheckCache(c)
  <2>1. PICK at \in {"pick", "login"} : To(c, at, 0)
    BY <1>6 DEF CheckCache
  <2>2. /\ DOMAIN call' = Callers /\ \A d \in Callers \ {c} : call'[d] = call[d]
        /\ DOMAIN r = Fields /\ r.pc = at /\ r.session = 0 /\ r.via = call[c].via /\ r.since = 0
    BY <1>1, <2>1, ToMoves DEF SessionInv, Waiting
  <2>3. ~HasToken
    BY <1>4, <1>6 DEF CheckCache, Sound
  <2>4. Sound(r)
    BY <1>2, <1>4, <1>5, <2>1, <2>2, <2>3 DEF Sound, Steps, Waiting
  <2>5. Sound(r)'
    BY <1>2, <1>3, <2>4, SoundStays DEF SessionInv
  <2>6. QED
    BY <1>1, <1>2, <1>3, <2>1, <2>2, <2>5, PlainStep
<1>7. CASE GetToken(c) /\ cache.session # 0 /\ now <= cache.until
  <2>1. To(c, "use", cache.session)
    BY <1>7 DEF GetToken
  <2>2. /\ DOMAIN call' = Callers /\ \A d \in Callers \ {c} : call'[d] = call[d]
        /\ DOMAIN r = Fields /\ r.pc = "use" /\ r.session = cache.session /\ r.via = call[c].via /\ r.since = now
    BY <1>1, <2>1, ToMoves DEF SessionInv, Waiting
  <2>3. HasToken /\ ~Fixed => r.since <= Stale(logins[r.session])
    <3>1. SUFFICES ASSUME HasToken, ~Fixed
                   PROVE  now <= Stale(logins[cache.session])
      BY <2>2
    <3>2. cache.until <= Stale(logins[cache.session]) /\ now <= cache.until
      BY <1>4, <1>7, <3>1 DEF Shared, CacheIsEarly
    <3>3. cache.session \in 1 .. Len(logins)
      BY <1>5, <1>7
    <3>4. logins[cache.session].told \in Nat /\ logins[cache.session].kept \in Nat
      BY <1>4, <3>3, LoginTimes
    <3>5. Stale(logins[cache.session]) \in Nat
      BY <3>4, KeptIs DEF Stale
    <3>6. QED
      BY <1>5, <3>2, <3>5
  <2>4. r.session # 0
    BY <1>7, <2>2
  <2>5. Sound(r)
    BY <1>2, <1>4, <1>5, <1>7, <2>2, <2>3, <2>4 DEF Sound, Steps
  <2>6. Sound(r)'
    BY <1>2, <1>3, <2>5, SoundStays DEF SessionInv
  <2>7. QED
    BY <1>1, <1>2, <1>3, <2>2, <2>6, PlainStep
<1>8. CASE GetToken(c) /\ ~(cache.session # 0 /\ now <= cache.until)
  <2>1. To(c, "login", 0)
    BY <1>8 DEF GetToken
  <2>2. /\ DOMAIN call' = Callers /\ \A d \in Callers \ {c} : call'[d] = call[d]
        /\ DOMAIN r = Fields /\ r.pc = "login" /\ r.session = 0 /\ r.via = call[c].via /\ r.since = 0
    BY <1>1, <2>1, ToMoves DEF SessionInv, Waiting
  <2>3. Sound(r)
    BY <1>2, <1>4, <1>5, <2>2 DEF Sound, Steps, Waiting
  <2>4. Sound(r)'
    BY <1>2, <1>3, <2>3, SoundStays DEF SessionInv
  <2>5. QED
    BY <1>1, <1>2, <1>3, <2>2, <2>4, PlainStep
<1>9. QED
  BY <1>6, <1>7, <1>8

\* A session a backend gives begins now, whatever the client is told of it.
LEMMA IssuedIs ==
  ASSUME Shared, NEW type, NEW ttl \in TTLs, NEW login \in Issued(type, ttl)
  PROVE  login \in LoginType /\ login.issued = now /\ login.kept = now /\ login.until >= now
<1>1. now \in 0 .. MaxTime /\ now \in Nat /\ MaxTime \in Nat /\ ttl \in Nat
      /\ AkeylessTTL \in Nat /\ DefaultTTL \in Nat
  BY SessionAssumption DEF Shared
<1>2. \A told \in Told(type, ttl) : told \in Nat
  BY <1>1 DEF Told
<1>3. PICK told \in Told(type, ttl) : login = [issued |-> now, until |-> now + ttl, told |-> told, kept |-> now]
  BY DEF Issued
<1>4. QED
  BY <1>1, <1>2, <1>3 DEF LoginType

\* A login that is refused ends as it begins.
LEMMA RefusedIs ==
  ASSUME Shared, NEW login, login = [issued |-> now, until |-> now, told |-> 0, kept |-> now]
  PROVE  login \in LoginType /\ login.issued = now /\ login.kept = now /\ login.until = now /\ login.until >= now
<1>1. now \in 0 .. MaxTime /\ now \in Nat
  BY SessionAssumption DEF Shared
<1>2. QED
  BY <1>1 DEF LoginType

\* A login is answered with a session that begins now, or with the token of the settings.
LEMMA LoginStep ==
  ASSUME SessionInv, NEW c \in Callers, Login(c)
  PROVE  SessionInv'
<1>1. PICK r : r = call'[c]
  OBVIOUS
<1>2. PICK at : /\ at = IF call[c].via.type \in Cached THEN "credentials" ELSE "store"
                /\ Issue(c, at)
  BY DEF Login
<1>3. /\ instance' = instance /\ store' = store /\ now' = now /\ cache' = cache /\ mu' = mu
      /\ call[c].pc = "login"
  BY DEF Login
<1>4. Sound(call[c]) /\ Shared
  BY DEF SessionInv, AllSound
<1>5. /\ at \in {"credentials", "store"}
      /\ HasToken => at = "store"
  BY <1>2, <1>3, <1>4 DEF Sound, Cached, Tokened
<1>6. now \in Nat /\ now \in 0 .. MaxTime /\ Len(logins) \in Nat
  BY <1>4, SessionAssumption DEF Shared
<1>7. PICK session : /\ To(c, at, session) /\ session \in 1 .. Len(logins')
                     /\ Grown /\ Len(logins') \in Nat
  <2>1. CASE Fixed
    <3>1. To(c, at, 1) /\ logins' = logins
      BY <1>2, <2>1 DEF Issue
    <3>2. Len(logins) >= 1 /\ Grown
      BY <1>4, <2>1, <3>1, LoginsKept DEF Shared
    <3>3. QED
      BY <1>6, <2>1, <3>1, <3>2
  <2>2. CASE ~Fixed
    <3>1. PICK ttl \in TTLs : \E login \in Issued(call[c].via.type, ttl) :
             logins' = Append(logins, login) /\ To(c, at, Len(logins) + 1)
      BY <1>2, <2>2 DEF Issue
    <3>2. PICK login \in Issued(call[c].via.type, ttl) :
             logins' = Append(logins, login) /\ To(c, at, Len(logins) + 1)
      BY <3>1
    <3>3. login \in LoginType /\ login.issued = now /\ login.kept = now /\ login.until >= now
      BY <1>4, <3>2, IssuedIs
    <3>4. Grown /\ Len(logins') = Len(logins) + 1
      BY <1>4, <3>2, <3>3, LoginAdded
    <3>5. QED
      BY <1>6, <3>2, <3>4
  <2>3. QED
    BY <2>1, <2>2
<1>8. Shared'
  BY <1>3, <1>4, <1>7, SharedGrows
<1>9. /\ DOMAIN call' = Callers /\ \A d \in Callers \ {c} : call'[d] = call[d]
      /\ DOMAIN r = Fields /\ r.pc = at /\ r.session = session /\ r.via = call[c].via /\ r.since = now
  BY <1>1, <1>5, <1>7, ToMoves DEF SessionInv, Waiting
<1>10. HasToken' = HasToken /\ Fixed' = Fixed
  BY <1>3 DEF HasToken, Fixed
<1>11. Sound(r)'
  BY <1>3, <1>4, <1>5, <1>6, <1>7, <1>9, <1>10 DEF Sound, Steps, Waiting
<1>12. QED
  BY <1>1, <1>3, <1>5, <1>7, <1>8, <1>9, <1>11, PlainStep

\* A login is refused.
LEMMA FailLoginStep ==
  ASSUME SessionInv, NEW c \in Callers, FailLogin(c)
  PROVE  SessionInv'
<1>1. /\ instance' = instance /\ store' = store /\ now' = now /\ cache' = cache /\ mu' = mu
      /\ call[c].pc = "login" /\ Answer(c, Failed("error")) /\ Refuse
  BY DEF FailLogin
<1>2. PICK login : /\ login = [issued |-> now, until |-> now, told |-> 0, kept |-> now]
                   /\ logins' = Append(logins, login)
  BY <1>1 DEF Refuse
<1>3. Grown
  BY <1>2, RefusedIs, LoginAdded DEF SessionInv
<1>4. Shared'
  BY <1>1, <1>3, SharedGrows DEF SessionInv
<1>5. Failed("error").status = "error"
  BY DEF Failed
<1>6. QED
  BY <1>1, <1>3, <1>4, <1>5, AnsweredStep

\* The credentials are kept in two writes, and their field is taken of what is there by then.
LEMMA CredentialSteps ==
  ASSUME SessionInv, NEW c \in Callers, StoreCredentials(c) \/ StoreExpiry(c)
  PROVE  SessionInv'
<1>1. PICK r : r = call'[c]
  OBVIOUS
<1>2. /\ instance' = instance /\ store' = store /\ now' = now /\ logins' = logins /\ mu' = mu
      /\ call[c].pc \in {"credentials", "expiry"}
  BY DEF StoreCredentials, StoreExpiry
<1>3. Sound(call[c]) /\ Shared
  BY DEF SessionInv, AllSound
<1>4. ~HasToken /\ call[c].session \in 1 .. Len(logins)
  <2>1. Len(logins) \in Nat
    BY <1>3 DEF Shared
  <2>2. QED
    BY <1>2, <1>3, <2>1 DEF Sound
<1>5. logins[call[c].session].until \in Nat
  BY <1>3, <1>4, LoginTimes
<1>6. cache' \in [session : 0 .. Len(logins), until : Nat] /\ (cache'.session # 0 \/ cache'.session = cache.session)
  <2>1. cache \in [session : 0 .. Len(logins), until : Nat]
    BY <1>3 DEF Shared
  <2>2. \/ cache' = [cache EXCEPT !.session = call[c].session]
        \/ cache' = [cache EXCEPT !.until = logins[call[c].session].until]
    BY DEF StoreCredentials, StoreExpiry
  <2>3. 0 .. Len(logins) # {} /\ call[c].session \in 0 .. Len(logins) /\ call[c].session # 0
    BY <1>3, <1>4 DEF Sound
  <2>4. QED
    BY <1>5, <2>1, <2>2, <2>3
<1>7. ~HasToken' /\ Fixed' = Fixed
  BY <1>2, <1>4 DEF HasToken, Fixed
<1>8. Shared' /\ Grown
  BY <1>2, <1>3, <1>6, <1>7, LoginsKept DEF Shared, CacheIsEarly
<1>9. PICK at \in {"expiry", "pick"} : To(c, at, call[c].session)
  BY DEF StoreCredentials, StoreExpiry
<1>10. /\ DOMAIN call' = Callers /\ \A d \in Callers \ {c} : call'[d] = call[d]
       /\ DOMAIN r = Fields /\ r.pc = at /\ r.session = call[c].session /\ r.via = call[c].via /\ r.since = 0
  BY <1>1, <1>9, ToMoves DEF SessionInv, Waiting
<1>11. 0 \in 0 .. MaxTime
  BY <1>3, SessionAssumption DEF Shared
<1>12. Sound(r)
  BY <1>2, <1>3, <1>4, <1>9, <1>10, <1>11 DEF Sound, Steps, Waiting
<1>13. Sound(r)'
  BY <1>2, <1>3, <1>8, <1>12, SoundStays
<1>14. QED
  BY <1>1, <1>2, <1>6, <1>8, <1>9, <1>10, <1>13, PlainStep

\* The field of the credentials is taken of what is kept by now.
LEMMA PickStep ==
  ASSUME SessionInv, NEW c \in Callers, Pick(c)
  PROVE  SessionInv'
<1>1. PICK r : r = call'[c]
  OBVIOUS
<1>2. /\ instance' = instance /\ store' = store /\ now' = now /\ logins' = logins /\ cache' = cache /\ mu' = mu
      /\ call[c].pc = "pick"
  BY DEF Pick
<1>3. Shared' /\ Grown
  BY <1>2, SharedStays DEF SessionInv
<1>4. Sound(call[c]) /\ Shared /\ DOMAIN call = Callers
  BY DEF SessionInv, AllSound
<1>5. PICK given : /\ given.status \notin {"refused", "unauthenticated"}
                   /\ call' = [call EXCEPT ![c].pc = "answered", ![c].session = cache.session, ![c].since = 0,
                                                 ![c].answer = given]
  <2>1. Failed("error").status = "error" /\ Outcome(c).status \notin {"refused", "unauthenticated"}
    BY OutcomeIsPlain DEF Failed
  <2>2. QED
    BY <2>1 DEF Pick
<1>6. /\ DOMAIN call' = Callers /\ \A d \in Callers \ {c} : call'[d] = call[d]
      /\ DOMAIN r = Fields /\ r.pc = "answered" /\ r.session = cache.session /\ r.via = call[c].via /\ r.since = 0
      /\ r.answer = given
  <2>1. DOMAIN call[c] = Fields
    BY <1>4 DEF Sound
  <2>2. QED
    BY <1>1, <1>4, <1>5, <2>1 DEF Fields
<1>7. 0 \in 0 .. MaxTime /\ cache.session \in 0 .. Len(logins)
  BY <1>4, SessionAssumption DEF Shared
<1>8. Sound(r)
  BY <1>2, <1>4, <1>5, <1>6, <1>7 DEF Sound, Steps, Waiting
<1>9. Sound(r)'
  BY <1>2, <1>3, <1>4, <1>8, SoundStays
<1>10. QED
  BY <1>1, <1>2, <1>3, <1>6, <1>9, PlainStep

\* A session that is put in the cache again goes stale later.
LEMMA KeptAgain ==
  ASSUME Shared, NEW s \in 1 .. Len(logins), logins' = [logins EXCEPT ![s].kept = now]
  PROVE  /\ Grown /\ logins' \in Seq(LoginType) /\ Len(logins') = Len(logins)
         /\ Stale(logins'[s]) = now + Kept(logins[s].told)
<1>1. /\ logins \in Seq(LoginType) /\ now \in 0 .. MaxTime /\ now \in Nat /\ MaxTime \in Nat
      /\ Len(logins) \in Nat /\ DOMAIN logins = 1 .. Len(logins)
  BY SessionAssumption DEF Shared
<1>2. ASSUME NEW i \in 1 .. Len(logins)
      PROVE  /\ logins'[i] \in LoginType
             /\ logins'[i].issued = logins[i].issued /\ logins'[i].until = logins[i].until
             /\ logins'[i].told = logins[i].told /\ logins'[i].kept >= logins[i].kept /\ logins'[i].kept <= now
             /\ logins'[i].until >= logins'[i].issued
             /\ i = s => logins'[i].kept = now
  <2>1. PICK login : login = logins[i] /\ login \in LoginType
    BY <1>2, LoginTimes
  <2>2. login.kept <= now /\ login.until >= login.issued /\ login.kept \in Nat
    BY <1>2, <2>1, LoginTimes
  <2>3. CASE i = s
    <3>1. logins'[i] = [login EXCEPT !.kept = now]
      BY <1>1, <1>2, <2>1, <2>3
    <3>2. PICK new : new = logins'[i]
      OBVIOUS
    <3>3. /\ new \in LoginType /\ new.issued = login.issued /\ new.until = login.until
          /\ new.told = login.told /\ new.kept = now
      BY <1>1, <2>1, <3>1, <3>2 DEF LoginType
    <3>4. QED
      BY <1>1, <2>1, <2>2, <3>2, <3>3
  <2>4. CASE i # s
    <3>1. logins'[i] = login
      BY <1>1, <1>2, <2>1, <2>4
    <3>2. QED
      BY <1>1, <2>1, <2>2, <2>4, <3>1
  <2>5. QED
    BY <2>3, <2>4
<1>3. DOMAIN logins' = 1 .. Len(logins)
  BY <1>1
<1>4. logins' = [i \in 1 .. Len(logins) |-> logins'[i]]
  BY <1>1
<1>5. logins' \in Seq(LoginType) /\ Len(logins') = Len(logins)
  BY <1>1, <1>2, <1>4
<1>6. Grown
  BY <1>1, <1>2, <1>3, <1>5 DEF Grown
<1>7. QED
  BY <1>2, <1>5, <1>6 DEF Stale

\* The token is kept for what the client was told of its time to live, less the seconds taken
\* off, from when the answer of its login was read.
LEMMA SetStep ==
  ASSUME SessionInv, NEW c \in Callers, Set(c)
  PROVE  SessionInv'
<1>1. PICK r, s : r = call'[c] /\ s = call[c].session
  OBVIOUS
<1>2. /\ instance' = instance /\ store' = store /\ now' = now /\ mu' = mu
      /\ call[c].pc = "store"
      /\ cache' = [session |-> s, until |-> now + Kept(logins[s].told)]
      /\ logins' = [logins EXCEPT ![s].kept = now]
      /\ To(c, "use", s)
  BY <1>1 DEF Set
<1>3. Sound(call[c]) /\ Shared
  BY DEF SessionInv, AllSound
<1>4. /\ now \in Nat /\ now \in 0 .. MaxTime /\ MaxTime \in Nat /\ Len(logins) \in Nat
      /\ logins \in Seq(LoginType)
  BY <1>3, SessionAssumption DEF Shared
<1>5. s \in 1 .. Len(logins)
  BY <1>1, <1>2, <1>3, <1>4 DEF Sound
<1>6. PICK login : login = logins[s] /\ login \in LoginType
  BY <1>3, <1>5, LoginTimes
<1>7. login.told \in Nat /\ Kept(login.told) \in Nat
  BY <1>3, <1>5, <1>6, LoginTimes, KeptIs
<1>8. Grown /\ logins' \in Seq(LoginType) /\ Len(logins') = Len(logins)
      /\ Stale(logins'[s]) = now + Kept(login.told)
  BY <1>2, <1>3, <1>4, <1>5, <1>6, KeptAgain
<1>9. HasToken' = HasToken /\ Fixed' = Fixed
  BY <1>2 DEF HasToken, Fixed
<1>10. /\ cache'.session = s /\ cache'.until = now + Kept(login.told) /\ cache'.session # 0
       /\ cache' \in [session : 0 .. Len(logins), until : Nat]
  BY <1>2, <1>4, <1>5, <1>6, <1>7
<1>11. CacheIsEarly'
  <2>1. cache'.until <= Stale(logins'[s])
    BY <1>4, <1>7, <1>8, <1>10
  <2>2. Stale(logins[cache.session])' = Stale(logins'[s])
    BY <1>10 DEF Stale, Kept
  <2>3. QED
    BY <2>1, <2>2 DEF CacheIsEarly
<1>12. Shared'
  BY <1>2, <1>3, <1>8, <1>9, <1>10, <1>11 DEF Shared, Grown
<1>13. /\ DOMAIN call' = Callers /\ \A d \in Callers \ {c} : call'[d] = call[d]
       /\ DOMAIN r = Fields /\ r.pc = "use" /\ r.session = s /\ r.via = call[c].via /\ r.since = now
  BY <1>1, <1>2, ToMoves DEF SessionInv, Waiting
<1>14. Sound(r)'
  <2>1. r.since <= Stale(logins'[s]) /\ Stale(logins'[s]) = Stale(logins[s])'
    <3>1. Stale(logins'[s]) = Stale(logins[s])'
      BY DEF Stale, Kept
    <3>2. QED
      BY <1>4, <1>7, <1>8, <1>13, <3>1
  <2>2. Stale(logins[r.session])' = Stale(logins'[s])
    BY <1>13 DEF Stale, Kept
  <2>3. r.session \in 0 .. Len(logins') /\ r.session # 0
    BY <1>4, <1>5, <1>8, <1>13
  <2>4. HasToken => r.pc \in {"idle", "token", "login", "ask", "store", "use", "answered"}
    BY <1>13
  <2>5. QED
    BY <1>2, <1>3, <1>4, <1>9, <1>13, <2>1, <2>2, <2>3, <2>4 DEF Sound, Steps
<1>15. QED
  BY <1>1, <1>2, <1>8, <1>10, <1>12, <1>13, <1>14, PlainStep

\* The request arrives: it is answered, or refused for a session that has ended.
LEMMA UseStep ==
  ASSUME SessionInv, NEW c \in Callers, Use(c)
  PROVE  SessionInv'
<1>1. PICK r, s : r = call'[c] /\ s = call[c].session
  OBVIOUS
<1>2. /\ instance' = instance /\ store' = store /\ now' = now /\ logins' = logins /\ cache' = cache /\ mu' = mu
      /\ call[c].pc = "use"
  BY DEF Use
<1>3. Shared' /\ Grown
  BY <1>2, SharedStays DEF SessionInv
<1>4. CASE Answer(c, Outcome(c))
  BY <1>2, <1>3, <1>4, OutcomeIsPlain, AnsweredStep
<1>5. CASE Answer(c, Failed("refused")) /\ ~(now < logins[s].until)
  <2>1. Sound(call[c]) /\ Shared
    BY DEF SessionInv, AllSound
  <2>2. /\ DOMAIN call' = Callers /\ \A d \in Callers \ {c} : call'[d] = call[d]
        /\ DOMAIN r = Fields /\ r.pc = "answered" /\ r.session = s /\ r.via = call[c].via /\ r.since = 0
        /\ r.answer = Failed("refused")
    BY <1>1, <1>5, AnswerMoves DEF SessionInv
  <2>3. 0 \in 0 .. MaxTime
    BY <2>1, SessionAssumption DEF Shared
  <2>4. Failed("refused").status = "refused"
    BY DEF Failed
  <2>5. Sound(r)
    BY <1>1, <1>2, <2>1, <2>2, <2>3, <2>4 DEF Sound, Steps
  <2>6. Sound(r)'
    BY <1>2, <1>3, <2>1, <2>5, SoundStays
  <2>7. QED
    BY <1>1, <1>2, <1>3, <2>2, <2>6, PlainStep
<1>6. QED
  BY <1>1, <1>4, <1>5 DEF Use

-------------------------------------------------------------------------------
(***************************************************************************)
(* The steps of vault, under its mutex.                                      *)
(***************************************************************************)
\* While the mutex is free, or a caller has it, no other checks or replaces the token.
LEMMA OthersWait ==
  ASSUME SessionInv, NEW c \in Callers, mu \in {c, NoCaller}
  PROVE  /\ NoCaller \notin Callers
         /\ \A d \in Callers \ {c} : call[d].pc \notin {"validate", "relogin"}
         /\ mu = NoCaller => call[c].pc \notin {"validate", "relogin"}
  BY SessionAssumption DEF SessionInv, Shared, Guarded

\* The caller of vault is sound wherever it goes but to the request.
LEMMA VaultSound ==
  ASSUME SessionInv, NEW c \in Callers, call[c].pc \in {"lock", "validate", "relogin", "read"}, NEW r,
         DOMAIN r = Fields, r.pc \in {"validate", "relogin", "read", "answered"}, r.session \in 0 .. Len(logins),
         r.since = 0, r.via = call[c].via,
         r.pc = "answered" => r.answer.status \in {"ok", "error"} \/ (r.answer.status = "unauthenticated" /\ FailedOnce),
         Grown, now' = now, instance' = instance
  PROVE  Sound(r)' /\ ~HasToken
<1>1. Sound(call[c]) /\ Shared
  BY DEF SessionInv, AllSound
<1>2. 0 \in 0 .. MaxTime
  BY <1>1, SessionAssumption DEF Shared
<1>3. ~HasToken
  BY <1>1 DEF Sound
<1>4. Sound(r)
  BY <1>1, <1>2, <1>3 DEF Sound, Steps, Waiting
<1>5. QED
  BY <1>1, <1>3, <1>4, SoundStays

\* A step of a caller of vault: what is left to show is who has the mutex, and what it guards.
LEMMA VaultStep ==
  ASSUME SessionInv, NEW c \in Callers, NEW r, r = call'[c], Sound(r)', ~HasToken,
         DOMAIN call' = Callers, \A d \in Callers \ {c} : call'[d] = call[d],
         Grown, now' = now, instance' = instance, store' = store, mu' \in Callers \cup {NoCaller},
         cache' \in [session : 0 .. Len(logins'), until : Nat], Guarded'
  PROVE  SessionInv'
<1>1. AllSound'
  BY CallerMoves
<1>2. Fixed' = Fixed /\ HasToken' = HasToken
  BY DEF Fixed, HasToken
<1>3. CacheIsEarly'
  BY <1>2 DEF CacheIsEarly
<1>4. Len(logins) \in Nat /\ Len(logins') \in Nat
  BY DEF SessionInv, Shared, Grown
<1>5. Shared'
  BY <1>2, <1>3, <1>4 DEF SessionInv, Shared, Grown
<1>6. QED
  BY <1>1, <1>5 DEF SessionInv

\* The mutex is taken: the token is checked if there is one, else replaced.
LEMMA AuthenticateStep ==
  ASSUME SessionInv, NEW c \in Callers, Authenticate(c)
  PROVE  SessionInv'
<1>1. PICK r : r = call'[c]
  OBVIOUS
<1>2. /\ instance' = instance /\ store' = store /\ now' = now /\ logins' = logins /\ cache' = cache
      /\ call[c].pc = "lock" /\ mu = NoCaller /\ mu' = c
  BY DEF Authenticate
<1>3. PICK at : at = (IF cache.session # 0 THEN "validate" ELSE "relogin") /\ To(c, at, 0)
  BY DEF Authenticate
<1>4. /\ DOMAIN call' = Callers /\ \A d \in Callers \ {c} : call'[d] = call[d]
      /\ DOMAIN r = Fields /\ r.pc = at /\ r.session = 0 /\ r.via = call[c].via /\ r.since = 0
  BY <1>1, <1>3, ToMoves DEF SessionInv, Waiting
<1>5. Grown /\ Len(logins) \in Nat /\ cache \in [session : 0 .. Len(logins), until : Nat]
  BY <1>2, LoginsKept DEF SessionInv, Shared
<1>6. Sound(r)' /\ ~HasToken
  BY <1>2, <1>3, <1>4, <1>5, VaultSound
<1>7. FailedOnce' = FailedOnce
  BY <1>2 DEF FailedOnce
<1>8. \A d \in Callers \ {c} : call[d].pc \notin {"validate", "relogin"}
  BY <1>2, OthersWait
<1>9. Guarded'
  BY <1>1, <1>2, <1>3, <1>4, <1>7, <1>8 DEF SessionInv, Guarded
<1>10. QED
  BY <1>1, <1>2, <1>4, <1>5, <1>6, <1>9, VaultStep

\* The end of Authenticate: the mutex is given back, and the caller is answered or reads.
LEMMA AuthenticatedMoves ==
  ASSUME SessionInv, NEW c \in Callers, call[c].pc \in {"validate", "relogin"},
         Authenticated(c, 0), Grown, now' = now, instance' = instance
  PROVE  /\ mu' = NoCaller
         /\ DOMAIN call' = Callers /\ \A d \in Callers \ {c} : call'[d] = call[d]
         /\ call'[c].pc \in {"answered", "read"}
         /\ \E r : r = call'[c] /\ Sound(r)'
         /\ ~HasToken
<1>1. PICK r : r = call'[c]
  OBVIOUS
<1>2. Sound(call[c]) /\ 0 \in 0 .. Len(logins)
  <2>1. Len(logins) \in Nat
    BY DEF SessionInv, Shared
  <2>2. QED
    BY <2>1 DEF SessionInv, AllSound
<1>3. CASE call[c].op = "validate"
  <2>1. PICK given : given = [NoAnswer EXCEPT !.status = "ok"] /\ Answer(c, given)
    BY <1>3 DEF Authenticated
  <2>2. given.status = "ok"
    BY <2>1 DEF NoAnswer, Failed
  <2>3. /\ DOMAIN call' = Callers /\ \A d \in Callers \ {c} : call'[d] = call[d]
        /\ DOMAIN r = Fields /\ r.pc = "answered" /\ r.session = call[c].session /\ r.via = call[c].via
        /\ r.since = 0 /\ r.answer = given
    BY <1>1, <2>1, AnswerMoves DEF SessionInv
  <2>4. r.session \in 0 .. Len(logins)
    BY <1>2, <2>3 DEF Sound
  <2>5. Sound(r)' /\ ~HasToken
    BY <2>2, <2>3, <2>4, VaultSound
  <2>6. QED
    BY <1>1, <2>3, <2>5 DEF Authenticated
<1>4. CASE call[c].op # "validate"
  <2>1. To(c, "read", 0)
    BY <1>4 DEF Authenticated
  <2>2. /\ DOMAIN call' = Callers /\ \A d \in Callers \ {c} : call'[d] = call[d]
        /\ DOMAIN r = Fields /\ r.pc = "read" /\ r.session = 0 /\ r.via = call[c].via /\ r.since = 0
    BY <1>1, <2>1, ToMoves DEF SessionInv, Waiting
  <2>3. Sound(r)' /\ ~HasToken
    BY <1>2, <2>2, VaultSound
  <2>4. QED
    BY <1>1, <2>2, <2>3 DEF Authenticated
<1>5. QED
  BY <1>3, <1>4

\* The token of vault is good, or a new one is: those who are about to read find it.
LEMMA TokenSteps ==
  ASSUME SessionInv, NEW c \in Callers, validateTokenLocked(c) \/ performLoginLocked(c)
  PROVE  SessionInv'
<1>1. /\ instance' = instance /\ store' = store /\ now' = now
      /\ call[c].pc \in {"validate", "relogin"} /\ Authenticated(c, 0)
  BY DEF validateTokenLocked, performLoginLocked
<1>2. Shared /\ Len(logins) \in Nat /\ now \in Nat /\ cache \in [session : 0 .. Len(logins), until : Nat]
  BY SessionAssumption DEF SessionInv, Shared
<1>3. /\ Grown /\ Len(logins') \in Nat /\ cache' \in [session : 0 .. Len(logins'), until : Nat]
      /\ cache'.session # 0
  <2>1. CASE validateTokenLocked(c)
    <3>1. logins' = logins /\ cache' = cache /\ call[c].pc = "validate"
      BY <2>1 DEF validateTokenLocked
    <3>2. cache.session # 0
      BY <3>1 DEF SessionInv, Guarded
    <3>3. QED
      BY <1>2, <3>1, <3>2, LoginsKept
  <2>2. CASE performLoginLocked(c)
    <3>1. PICK session : session = IF Fixed THEN 1 ELSE Len(logins) + 1
      OBVIOUS
    <3>2. PICK ttl \in TTLs : \E login \in Issued("vault", ttl) :
               /\ cache' = [cache EXCEPT !.session = session]
               /\ logins' = IF Fixed THEN logins ELSE Append(logins, login)
      BY <2>2, <3>1 DEF performLoginLocked
    <3>3. PICK login \in Issued("vault", ttl) :
               /\ cache' = [cache EXCEPT !.session = session]
               /\ logins' = IF Fixed THEN logins ELSE Append(logins, login)
      BY <3>2
    <3>4. Grown /\ Len(logins') \in Nat /\ session \in 1 .. Len(logins')
      <4>1. CASE Fixed
        <5>1. logins' = logins /\ session = 1 /\ Len(logins) >= 1
          BY <1>2, <3>3, <3>1, <4>1 DEF Shared
        <5>2. QED
          BY <1>2, <5>1, LoginsKept
      <4>2. CASE ~Fixed
        <5>1. logins' = Append(logins, login) /\ session = Len(logins) + 1
          BY <3>3, <3>1, <4>2
        <5>2. Grown /\ Len(logins') = Len(logins) + 1
          BY <1>2, <5>1, IssuedIs, LoginAdded
        <5>3. QED
          BY <1>2, <5>1, <5>2
      <4>3. QED
        BY <4>1, <4>2
    <3>5. cache' = [session |-> session, until |-> cache.until] /\ cache.until \in Nat
      BY <1>2, <3>3
    <3>6. QED
      BY <3>4, <3>5
  <2>3. QED
    BY <2>1, <2>2
<1>4. /\ mu' = NoCaller /\ call'[c].pc \in {"answered", "read"} /\ ~HasToken
      /\ DOMAIN call' = Callers /\ \A d \in Callers \ {c} : call'[d] = call[d]
  BY <1>1, <1>3, AuthenticatedMoves
<1>5. PICK r : r = call'[c] /\ Sound(r)'
  BY <1>1, <1>3, AuthenticatedMoves
<1>6. NoCaller \notin Callers /\ \A d \in Callers \ {c} : call[d].pc \notin {"validate", "relogin"}
  BY <1>1, OthersWait DEF SessionInv, Guarded
<1>7. Guarded'
  BY <1>3, <1>4, <1>6 DEF Guarded
<1>8. mu' \in Callers \cup {NoCaller}
  BY <1>4
<1>9. QED
  BY <1>1, <1>3, <1>4, <1>5, <1>7, <1>8, VaultStep

\* The token of vault is not good: it is taken by the caller that is about to replace it.
LEMMA ClearStep ==
  ASSUME SessionInv, NEW c \in Callers, clearToken(c)
  PROVE  SessionInv'
<1>1. PICK r : r = call'[c]
  OBVIOUS
<1>2. /\ instance' = instance /\ store' = store /\ now' = now /\ logins' = logins /\ mu' = mu
      /\ cache' = [cache EXCEPT !.session = 0]
      /\ call[c].pc = "validate" /\ To(c, "relogin", 0)
  BY DEF clearToken
<1>3. mu = c /\ Shared
  BY <1>2 DEF SessionInv, Guarded
<1>4. Grown /\ Len(logins) \in Nat /\ cache \in [session : 0 .. Len(logins), until : Nat]
  BY <1>2, <1>3, LoginsKept DEF Shared
<1>5. /\ DOMAIN call' = Callers /\ \A d \in Callers \ {c} : call'[d] = call[d]
      /\ DOMAIN r = Fields /\ r.pc = "relogin" /\ r.session = 0 /\ r.via = call[c].via /\ r.since = 0
  BY <1>1, <1>2, ToMoves DEF SessionInv, Waiting
<1>6. Sound(r)' /\ ~HasToken
  BY <1>2, <1>4, <1>5, VaultSound
<1>7. \A d \in Callers \ {c} : call[d].pc \notin {"validate", "relogin"}
  BY <1>3, OthersWait
<1>8. Guarded'
  BY <1>1, <1>2, <1>3, <1>5, <1>7 DEF SessionInv, Guarded
<1>9. cache' \in [session : 0 .. Len(logins'), until : Nat]
  BY <1>2, <1>4
<1>10. QED
  BY <1>1, <1>2, <1>3, <1>4, <1>5, <1>6, <1>8, <1>9, VaultStep

\* The login of vault is refused: the mutex is given back, and the login is known to have failed.
LEMMA FailReloginStep ==
  ASSUME SessionInv, NEW c \in Callers, FailRelogin(c)
  PROVE  SessionInv'
<1>1. PICK r : r = call'[c]
  OBVIOUS
<1>2. /\ instance' = instance /\ store' = store /\ now' = now /\ cache' = cache /\ mu' = NoCaller
      /\ call[c].pc = "relogin" /\ Answer(c, Failed("error")) /\ Refuse
  BY DEF FailRelogin
<1>3. /\ Shared /\ Len(logins) \in Nat /\ now \in Nat /\ cache \in [session : 0 .. Len(logins), until : Nat]
      /\ Sound(call[c])
  BY SessionAssumption DEF SessionInv, AllSound, Shared
<1>4. /\ Grown /\ Len(logins') = Len(logins) + 1 /\ logins'[Len(logins) + 1].issued = now
      /\ logins'[Len(logins) + 1].until = now
  <2>1. PICK login : /\ login = [issued |-> now, until |-> now, told |-> 0, kept |-> now]
                     /\ logins' = Append(logins, login)
    BY <1>2 DEF Refuse
  <2>2. QED
    BY <1>3, <2>1, RefusedIs, LoginAdded
<1>5. FailedOnce'
  <2>1. DOMAIN logins' = 1 .. Len(logins')
    BY <1>4 DEF Grown
  <2>2. Len(logins) + 1 \in DOMAIN logins'
    BY <1>3, <1>4, <2>1
  <2>3. QED
    BY <1>4, <2>2 DEF FailedOnce
<1>6. Failed("error").status = "error"
  BY DEF Failed
<1>7. /\ DOMAIN call' = Callers /\ \A d \in Callers \ {c} : call'[d] = call[d]
      /\ DOMAIN r = Fields /\ r.pc = "answered" /\ r.session = call[c].session /\ r.via = call[c].via
      /\ r.since = 0 /\ r.answer = Failed("error")
  BY <1>1, <1>2, AnswerMoves DEF SessionInv
<1>8. r.session \in 0 .. Len(logins)
  BY <1>3, <1>7 DEF Sound
<1>9. Sound(r)' /\ ~HasToken
  BY <1>2, <1>4, <1>6, <1>7, <1>8, VaultSound
<1>10. NoCaller \notin Callers /\ \A d \in Callers \ {c} : call[d].pc \notin {"validate", "relogin"}
  BY <1>2, OthersWait DEF SessionInv, Guarded
<1>11. Guarded'
  BY <1>1, <1>2, <1>5, <1>7, <1>10 DEF Guarded
<1>12. cache' \in [session : 0 .. Len(logins'), until : Nat]
  <2>1. 0 .. Len(logins) \subseteq 0 .. Len(logins')
    BY <1>3, <1>4
  <2>2. QED
    BY <1>2, <1>3, <2>1
<1>13. mu' \in Callers \cup {NoCaller}
  BY <1>2
<1>14. QED
  BY <1>1, <1>2, <1>4, <1>7, <1>9, <1>11, <1>12, <1>13, VaultStep

\* The token is taken for the read while nobody replaces it: there is none only where a login
\* failed.
LEMMA ReadStep ==
  ASSUME SessionInv, NEW c \in Callers, ReadToken(c)
  PROVE  SessionInv'
<1>1. PICK r : r = call'[c]
  OBVIOUS
<1>2. /\ instance' = instance /\ store' = store /\ now' = now /\ logins' = logins /\ cache' = cache /\ mu' = mu
      /\ mu = NoCaller /\ call[c].pc = "read"
  BY DEF ReadToken
<1>3. /\ Shared /\ Len(logins) \in Nat /\ now \in Nat /\ now \in 0 .. MaxTime
      /\ cache \in [session : 0 .. Len(logins), until : Nat] /\ Sound(call[c])
  BY SessionAssumption DEF SessionInv, AllSound, Shared
<1>4. Shared' /\ Grown
  BY <1>2, <1>3, SharedStays
<1>5. CASE cache.session = 0
  <2>1. \A d \in Callers : call[d].pc # "relogin"
    BY <1>2, OthersWait
  <2>2. FailedOnce
    BY <1>2, <1>5, <2>1 DEF SessionInv, Guarded
  <2>3. PICK given : given = Failed("unauthenticated") /\ Answer(c, given)
    BY <1>5 DEF ReadToken
  <2>4. given.status = "unauthenticated"
    BY <2>3 DEF Failed
  <2>5. /\ DOMAIN call' = Callers /\ \A d \in Callers \ {c} : call'[d] = call[d]
        /\ DOMAIN r = Fields /\ r.pc = "answered" /\ r.session = call[c].session /\ r.via = call[c].via
        /\ r.since = 0 /\ r.answer = given
    BY <1>1, <2>3, AnswerMoves DEF SessionInv
  <2>6. r.session \in 0 .. Len(logins)
    BY <1>3, <2>5 DEF Sound
  <2>7. Sound(r)'
    BY <1>2, <1>4, <2>2, <2>4, <2>5, <2>6, VaultSound
  <2>8. QED
    BY <1>1, <1>2, <1>4, <2>5, <2>7, PlainStep
<1>6. CASE cache.session # 0
  <2>1. To(c, "use", cache.session)
    BY <1>6 DEF ReadToken
  <2>2. /\ DOMAIN call' = Callers /\ \A d \in Callers \ {c} : call'[d] = call[d]
        /\ DOMAIN r = Fields /\ r.pc = "use" /\ r.session = cache.session /\ r.via = call[c].via /\ r.since = now
    BY <1>1, <2>1, ToMoves DEF SessionInv, Waiting
  <2>3. ~HasToken
    BY <1>2, <1>3 DEF Sound
  <2>4. r.session \in 0 .. Len(logins) /\ r.session # 0
    BY <1>3, <1>6, <2>2
  <2>5. Sound(r)
    BY <1>2, <1>3, <2>2, <2>3, <2>4 DEF Sound, Steps
  <2>6. Sound(r)'
    BY <1>2, <1>3, <1>4, <2>5, SoundStays
  <2>7. QED
    BY <1>1, <1>2, <1>4, <2>2, <2>6, PlainStep
<1>7. QED
  BY <1>5, <1>6

-------------------------------------------------------------------------------
(***************************************************************************)
(* Time passes, and the backend writes.                                      *)
(***************************************************************************)
\* What was not stale when it was sent was not, however late it is.
LEMMA TickStep ==
  ASSUME SessionInv, Tick
  PROVE  SessionInv'
<1>1. /\ instance' = instance /\ store' = store /\ logins' = logins /\ cache' = cache /\ mu' = mu /\ call' = call
      /\ now' = now + 1 /\ now < MaxTime
  BY DEF Tick
<1>2. Shared /\ MaxTime \in Nat /\ now \in 0 .. MaxTime
  BY SessionAssumption DEF SessionInv, Shared
<1>3. HasToken' = HasToken /\ Fixed' = Fixed /\ FailedOnce' = FailedOnce
  BY <1>1 DEF HasToken, Fixed, FailedOnce
<1>4. CacheIsEarly'
  BY <1>1, <1>2, <1>3 DEF Shared, CacheIsEarly, Stale, Kept
<1>5. Shared'
  <2>1. now' \in 0 .. MaxTime
    BY <1>1, <1>2
  <2>2. \A i \in DOMAIN logins : logins[i].kept <= now'
    <3>1. SUFFICES ASSUME NEW i \in DOMAIN logins PROVE logins[i].kept <= now'
      OBVIOUS
    <3>2. i \in 1 .. Len(logins)
      BY <1>2, <3>1 DEF Shared
    <3>3. logins[i].kept \in Nat /\ logins[i].kept <= now
      BY <1>2, <3>2, LoginTimes
    <3>4. QED
      BY <1>1, <1>2, <3>3
  <2>3. QED
    BY <1>1, <1>2, <1>3, <1>4, <2>1, <2>2 DEF Shared
<1>6. ASSUME NEW c \in Callers
      PROVE  Sound(call[c])'
  <2>1. PICK r, stale : r = call[c] /\ stale = Stale(logins[r.session])
    OBVIOUS
  <2>2. Sound(r)
    BY <2>1 DEF SessionInv, AllSound
  <2>3. Stale(logins[r.session])' = stale
    BY <1>1, <2>1 DEF Stale, Kept
  <2>4. Sound(r)'
    BY <1>1, <1>3, <2>1, <2>2, <2>3 DEF Sound
  <2>5. QED
    BY <1>1, <2>1, <2>4 DEF Sound
<1>7. AllSound'
  BY <1>1, <1>6 DEF SessionInv, AllSound
<1>8. Guarded'
  BY <1>1, <1>3 DEF SessionInv, Guarded
<1>9. QED
  BY <1>5, <1>7, <1>8 DEF SessionInv

\* A step that leaves the callers where they are, and writes nothing but secrets.
LEMMA StillStep ==
  ASSUME SessionInv, now' = now, instance' = instance, logins' = logins, cache' = cache, mu' = mu, call' = call,
         DOMAIN store' = DOMAIN store
  PROVE  SessionInv'
<1>1. Shared' /\ Grown
  BY SharedStays DEF SessionInv
<1>2. ASSUME NEW c \in Callers
      PROVE  Sound(call[c])'
  <2>1. PICK r : r = call[c]
    OBVIOUS
  <2>2. Sound(r)'
    BY <1>1, <2>1, SoundStays DEF SessionInv, AllSound
  <2>3. QED
    BY <2>1, <2>2 DEF Sound
<1>3. AllSound'
  BY <1>2 DEF SessionInv, AllSound
<1>4. FailedOnce' = FailedOnce
  BY DEF FailedOnce
<1>5. Guarded'
  BY <1>4 DEF SessionInv, Guarded
<1>6. QED
  BY <1>1, <1>3, <1>5 DEF SessionInv

\* A provider has no session but the token of its settings, and nobody has called it.
LEMMA SessionInit ==
  ASSUME Init
  PROVE  SessionInv
<1>1. /\ instance \in Instances /\ store = instance.secrets /\ now = 0 /\ mu = NoCaller
      /\ cache = [session |-> 0, until |-> 0] /\ call = [c \in Callers |-> Idle]
      /\ logins = IF Fixed THEN <<[issued |-> 0, until |-> instance.lasts, told |-> FixedTTL, kept |-> 0]>> ELSE <<>>
  BY DEF Init
<1>2. /\ MaxTime \in Nat /\ instance.lasts \in Nat /\ NoCaller \notin Callers /\ 0 \in 0 .. MaxTime
      /\ FixedTTL \in Nat
  BY <1>1, SessionAssumption
<1>3. /\ logins \in Seq(LoginType)
      /\ \A i \in DOMAIN logins : logins[i].until >= logins[i].issued /\ logins[i].kept <= now
      /\ Fixed => Len(logins) >= 1
      /\ Len(logins) \in Nat
  <2>1. CASE Fixed
    <3>1. PICK login : /\ login = [issued |-> 0, until |-> instance.lasts, told |-> FixedTTL, kept |-> 0]
                       /\ logins = <<login>>
      BY <1>1, <2>1
    <3>2. login \in LoginType
      BY <1>2, <3>1 DEF LoginType
    <3>3. Len(logins) = 1 /\ DOMAIN logins = {1} /\ logins[1] = login
      BY <3>1
    <3>4. QED
      BY <1>1, <1>2, <3>1, <3>2, <3>3
  <2>2. CASE ~Fixed
    <3>1. logins = <<>>
      BY <1>1, <2>2
    <3>2. QED
      BY <2>2, <3>1
  <2>3. QED
    BY <2>1, <2>2
<1>4. Shared
  BY <1>1, <1>2, <1>3 DEF Shared, CacheIsEarly
<1>5. ASSUME NEW c \in Callers
      PROVE  Sound(call[c])
  <2>1. call[c] = Idle
    BY <1>1
  <2>2. 0 \in 0 .. Len(logins)
    BY <1>3
  <2>3. QED
    BY <1>2, <2>1, <2>2, IdleFields DEF Sound, Steps, Waiting
<1>6. Guarded
  BY <1>1, <1>2, IdleFields DEF Guarded
<1>7. QED
  BY <1>1, <1>4, <1>5, <1>6 DEF SessionInv, AllSound

\* Every step of the provider and its callers.
LEMMA SessionStep == SessionInv /\ [Next]_vars => SessionInv'
<1>1. SUFFICES ASSUME SessionInv, [Next]_vars
               PROVE  SessionInv'
  OBVIOUS
<1>2. ASSUME NEW c \in Callers, Begin(c) \/ Return(c)
      PROVE  SessionInv'
  BY <1>1, <1>2, BeginStep
<1>3. ASSUME NEW c \in Callers,
             \/ FailAsk(c) \/ Ask(c) \/ CreateNewVersion(c) \/ DeprecateVersion(c)
      PROVE  SessionInv'
  BY <1>1, <1>3, AskedSteps
<1>4. ASSUME NEW c \in Callers,
             \/ CheckCache(c) \/ GetToken(c) \/ Login(c) \/ FailLogin(c)
             \/ StoreCredentials(c) \/ StoreExpiry(c) \/ Pick(c) \/ Set(c)
             \/ Use(c)
      PROVE  SessionInv'
  BY <1>1, <1>4, LookSteps, LoginStep, FailLoginStep, CredentialSteps, PickStep, SetStep, UseStep
<1>5. ASSUME NEW c \in Callers,
             \/ Authenticate(c) \/ validateTokenLocked(c) \/ clearToken(c)
             \/ performLoginLocked(c) \/ FailRelogin(c) \/ ReadToken(c)
      PROVE  SessionInv'
  BY <1>1, <1>5, AuthenticateStep, TokenSteps, ClearStep, FailReloginStep, ReadStep
<1>6. CASE Tick
  BY <1>1, <1>6, TickStep
<1>7. CASE Rewrite
  <2>1. DOMAIN store' = DOMAIN store
    BY <1>7 DEF Rewrite
  <2>2. QED
    BY <1>1, <1>7, <2>1, StillStep DEF Rewrite
<1>8. CASE UNCHANGED vars
  <2>1. /\ now' = now /\ instance' = instance /\ logins' = logins /\ cache' = cache /\ mu' = mu
        /\ call' = call /\ store' = store
    BY <1>8 DEF vars
  <2>2. QED
    BY <1>1, <2>1, StillStep
<1>9. QED
  BY <1>1, <1>2, <1>3, <1>4, <1>5, <1>6, <1>7, <1>8, Zenon DEF Next, Step

-------------------------------------------------------------------------------
\* The step of a caller moves no other.
LEMMA OthersStay ==
  ASSUME SessionInv, NEW d \in Callers, Begin(d) \/ Step(d)
  PROVE  \A e \in Callers \ {d} : call'[e] = call[e]
<1>1. DOMAIN call = Callers
  BY DEF SessionInv, AllSound
<1>2. ASSUME NEW at, NEW session, To(d, at, session)
      PROVE  \A e \in Callers \ {d} : call'[e] = call[e]
  BY <1>2, ToMoves DEF SessionInv
<1>3. ASSUME NEW given, Answer(d, given)
      PROVE  \A e \in Callers \ {d} : call'[e] = call[e]
  BY <1>3, AnswerMoves DEF SessionInv
<1>4. CASE Begin(d)
  <2>1. \E r : call' = [call EXCEPT ![d] = r]
    BY <1>4, Zenon DEF Begin
  <2>2. QED
    BY <1>1, <2>1
<1>5. CASE Return(d)
  BY <1>1, <1>5 DEF Return
<1>6. CASE Pick(d)
  BY <1>1, <1>6 DEF Pick
<1>7. CASE CheckCache(d) \/ GetToken(d) \/ StoreCredentials(d) \/ StoreExpiry(d) \/ Set(d) \/ Authenticate(d)
           \/ clearToken(d)
  BY <1>2, <1>7, Zenon DEF CheckCache, GetToken, StoreCredentials, StoreExpiry, Set, Authenticate, clearToken
<1>8. CASE FailAsk(d) \/ Ask(d) \/ CreateNewVersion(d) \/ DeprecateVersion(d) \/ FailLogin(d) \/ FailRelogin(d)
           \/ Use(d)
  BY <1>3, <1>8, Zenon DEF FailAsk, Ask, CreateNewVersion, DeprecateVersion, FailLogin, FailRelogin, Use
<1>9. CASE Login(d)
  BY <1>2, <1>9, Zenon DEF Login, Issue
<1>10. CASE ReadToken(d)
  BY <1>2, <1>3, <1>10, Zenon DEF ReadToken
<1>11. CASE validateTokenLocked(d) \/ performLoginLocked(d)
  <2>1. Authenticated(d, 0)
    BY <1>11 DEF validateTokenLocked, performLoginLocked
  <2>2. QED
    BY <1>2, <1>3, <2>1, Zenon DEF Authenticated
<1>12. QED
  BY <1>4, <1>5, <1>6, <1>7, <1>8, <1>9, <1>10, <1>11, Zenon DEF Step

\* A caller is moved by its own steps alone.
LEMMA OnlyItsOwn ==
  ASSUME SessionInv, [Next]_vars, NEW c \in Callers, call[c].pc = "use", call'[c] # call[c]
  PROVE  FailAsk(c) \/ Use(c)
<1>1. ASSUME NEW d \in Callers, Begin(d) \/ Step(d)
      PROVE  d = c
  BY <1>1, OthersStay
<1>2. Begin(c) \/ Step(c)
  BY <1>1, Zenon DEF Next, Tick, Rewrite, vars
<1>3. QED
  BY <1>2 DEF Begin, Step, FailAsk, Ask, CreateNewVersion, DeprecateVersion, CheckCache, GetToken, Login,
              FailLogin, StoreCredentials, StoreExpiry, Pick, Set, Use, Authenticate, validateTokenLocked,
              clearToken, performLoginLocked, FailRelogin, ReadToken, Return

\* A request is refused only for a session that has ended.
LEMMA RefusedIsLate ==
  ASSUME SessionInv, [Next]_vars, NEW c \in Callers,
         call[c].pc = "use", call'[c].pc = "answered", call'[c].answer.status = "refused"
  PROVE  ~(now < logins[call[c].session].until)
<1>1. FailAsk(c) \/ Use(c)
  BY OnlyItsOwn
<1>2. ASSUME NEW given, Answer(c, given)
      PROVE  given.status = "refused"
  BY <1>2, AnswerMoves DEF SessionInv
<1>3. CASE FailAsk(c)
  BY <1>2, <1>3 DEF FailAsk, Failed
<1>4. CASE Use(c)
  BY <1>2, <1>4, OutcomeIsPlain DEF Use
<1>5. QED
  BY <1>1, <1>3, <1>4

\* A token that was not stale when it was sent and has ended when it arrives.
LEMMA LateHasACause ==
  ASSUME SessionInv, NEW c \in Callers, call[c].pc = "use", call[c].via.type \in Tokened, ~Fixed,
         ~(now < logins[call[c].session].until)
  PROVE  Explained(c)
<1>1. Sound(call[c]) /\ Shared
  BY DEF SessionInv, AllSound
<1>2. Len(logins) \in Nat /\ now \in Nat /\ MaxTime \in Nat /\ Buffer \in Nat
  BY <1>1, SessionAssumption DEF Shared
<1>3. PICK s, since, login : s = call[c].session /\ since = call[c].since /\ login = logins[s]
  OBVIOUS
<1>4. s \in 1 .. Len(logins) /\ since \in Nat
  BY <1>1, <1>2, <1>3 DEF Sound
<1>5. /\ login.issued \in Nat /\ login.until \in Nat /\ login.told \in Nat /\ login.kept \in Nat
  BY <1>1, <1>3, <1>4, LoginTimes
<1>6. since <= login.kept + Kept(login.told)
  BY <1>1, <1>3 DEF Sound, Stale
<1>7. SUFFICES ASSUME login.told > Buffer, ~(login.until < login.issued + login.told)
               PROVE  (login.kept - login.issued) + (now - since) >= Buffer
  BY <1>2, <1>3, <1>5 DEF Explained
<1>8. Kept(login.told) = login.told - Buffer
  BY <1>5, <1>7, KeptIs
<1>9. now >= login.until
  BY <1>2, <1>3, <1>5
<1>10. \A issued, until, told, kept, sent, end, less \in Nat :
         end >= until /\ until >= issued + told /\ sent <= kept + (told - less)
           => (kept - issued) + (end - sent) >= less
  OBVIOUS
<1>11. login.until >= login.issued + login.told /\ since <= login.kept + (login.told - Buffer)
  BY <1>5, <1>6, <1>7, <1>8
<1>12. QED
  BY <1>2, <1>4, <1>5, <1>9, <1>10, <1>11

\* A refusal of a token out of the cache of akeyless or infisical, or of their login, has one of
\* three causes: the session ended sooner than the client took it to, it was too short for the
\* buffer of TokenCache.Set, or the answer of the login and the request were together as late as
\* that buffer.  The cache itself hands out nothing stale (token_cache.go).
THEOREM RefusalsAreExplained == Spec => RefusalsHaveACause
<1>1. Init => SessionInv
  BY SessionInit
<1>2. ASSUME SessionInv, [Next]_vars, NEW c \in Callers, Refused(c)
      PROVE  Explained(c)
  <2>1. ~(now < logins[call[c].session].until)
    BY <1>2, RefusedIsLate DEF Refused
  <2>2. QED
    BY <1>2, <2>1, LateHasACause DEF Refused
<1>3. SessionInv /\ [Next]_vars => [\A c \in Callers : Refused(c) => Explained(c)]_vars
  BY <1>2, Zenon
<1>4. QED
  BY <1>1, <1>3, SessionStep, PTL DEF Spec, RefusalsHaveACause

\* A call of vault that authenticated finds a token to read with unless a login failed, and
\* the mutex is held by the caller that checks the token or replaces it and by nobody else:
\* every way out of Authenticate gives it back (vault.go).  With the types of the variables.
THEOREM SessionsStayKept == Spec => []SessionsAreKept
<1>1. Init => SessionInv
  BY SessionInit
<1>2. SessionInv => TypeOK
  BY IdleFields DEF SessionInv, Shared, AllSound, Sound, TypeOK
<1>3. SessionInv => ReadIsAuthenticated
  BY DEF SessionInv, AllSound, Sound, Guarded, FailedOnce, ReadIsAuthenticated
<1>4. SessionInv => SessionsAreKept
  BY <1>2, <1>3 DEF SessionsAreKept
<1>5. QED
  BY <1>1, <1>4, SessionStep, PTL DEF Spec

\* What a provider resolves it says to exist when it is asked to describe it, whatever the
\* store holds by then and however the reference is written, unless it is vault, or the
\* reference names a version of Parameter Store or is the full name of one of Secret Manager:
\* of those it never does.
THEOREM FoundIsWhatIsDescribed == Spec => []FoundIsDescribed
<1>1. FoundIsDescribed
  <2>1. SUFFICES ASSUME NEW ref
                 PROVE  LET via == Routed(ref)
                        IN Resolve(store, via).status = "ok"
                             => (Describe(store, via) = Described(TRUE) <=> ~NeverDescribed(via))
    BY DEF FoundIsDescribed
  <2>2. PICK via : via = Routed(ref)
    OBVIOUS
  <2>3. Resolve(store, via).status = "ok" => (Describe(store, via) = Described(TRUE) <=> ~NeverDescribed(via))
    BY ResolveAndDescribe
  <2>4. QED
    BY <2>2, <2>3
<1>2. QED
  BY <1>1, PTL
===============================================================================
