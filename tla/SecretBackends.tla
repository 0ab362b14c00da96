------------------------------- MODULE SecretBackends -------------------------------
(***************************************************************************)
(* What each provider makes of a reference: how it cuts the key into a name, *)
(* a version and a field, what it asks its backend for, which error it turns *)
(* a missing secret into, and what it says of a secret it only describes.    *)
(* No state of its own: a store is a function from the names of secrets to   *)
(* the sequence of their versions, [fields, enabled] each, newest last.      *)
(*                                                                           *)
(* A key is the sequence of the pieces its parser tells apart: "/", "#", ":", *)
(* "@", "@v", ".", "op://", "arn:aws:", "projects/", "/secrets/" and          *)
(* "/versions/" are pieces of their own.                                     *)
(***************************************************************************)
EXTENDS Naturals, Sequences, FiniteSets, SequencesExt

Places(text, mark) == {i \in DOMAIN text : text[i] = mark}
CutAt(text, at) == [head |-> SubSeq(text, 1, at - 1), tail |-> SubSeq(text, at + 1, Len(text)), found |-> TRUE]
Uncut(text) == [head |-> text, tail |-> <<>>, found |-> FALSE]

(* Before and after the first mark, and before and after the last. *)
Cut(text, mark) ==
  IF Places(text, mark) = {} THEN Uncut(text) ELSE CutAt(text, Min(Places(text, mark)))
CutLast(text, mark) ==
  IF Places(text, mark) = {} THEN Uncut(text) ELSE CutAt(text, Max(Places(text, mark)))

StartsWith(key, service) == Len(key) >= 2 /\ key[1] = service /\ key[2] = ":"
HasAny(key, pieces) == \E piece \in pieces : Contains(key, piece)

VersionNames == <<"1", "2", "3">>
Number(text) ==
  IF Len(text) = 1 /\ Contains(VersionNames, text[1])
  THEN CHOOSE n \in 1 .. Len(VersionNames) : VersionNames[n] = text[1] ELSE 0

(***************************************************************************)
(* Answers.  "missing" is provider.NotFoundError, "auth" provider.AuthError, *)
(* "error" any other error; reported is SecretValue.Version, 0 if empty.     *)
(***************************************************************************)
Failed(status) == [status |-> status, name |-> <<>>, version |-> 0, field |-> <<>>, reported |-> 0]
NoAnswer == Failed("none")

Latest(store, name) == IF name \in DOMAIN store THEN Len(store[name]) ELSE 0

Read(store, name, version, field, absent) ==
  IF version \notin 1 .. Latest(store, name) THEN Failed(absent)
  ELSE IF /\ store[name][version].enabled
          /\ field # <<>> => (Len(field) = 1 /\ field[1] \in store[name][version].fields)
       THEN [status |-> "ok", name |-> name, version |-> version, field |-> field, reported |-> 0]
       ELSE Failed("error")

Reporting(answer, reported) ==
  IF answer.status = "ok" THEN [answer EXCEPT !.reported = reported] ELSE answer

(* Described: [status, exists]. *)
Described(exists) == [status |-> "ok", exists |-> exists]
NotDescribed == [status |-> "error", exists |-> FALSE]
DescribedIf(exists) == IF exists THEN Described(TRUE) ELSE NotDescribed

(***************************************************************************)
(* AWS Secrets Manager: the version of the reference is an id or a stage.    *)
(***************************************************************************)
AWSSecretsManagerCapabilities == {"versioning", "metadata", "binary", "auth"}
AWSSecretsManagerValidate(facts) == IF {"reachable", "allowed"} \subseteq facts THEN "ok" ELSE "auth"

AWSSecretsManagerParseKey(key) == Cut(key, "#")

isVersionId(version) == Number(version) # 0

(* The path must begin with a dot. *)
AWSSecretsManagerJSONPath(path) ==
  IF path = <<>> THEN <<>> ELSE IF Head(path) = "." THEN Tail(path) ELSE <<"malformed">>

(* The service: which version a stage is on. *)
AWSStage(store, name, stage) ==
  CASE stage = <<"AWSCURRENT">> -> Latest(store, name)
    [] stage = <<"AWSPREVIOUS">> /\ Latest(store, name) > 0 -> Latest(store, name) - 1
    [] OTHER -> 0

AWSSecretsManagerResolve(store, ref) ==
  LET key == AWSSecretsManagerParseKey(ref.key)
      version == IF isVersionId(ref.version) THEN Number(ref.version)
                 ELSE IF ref.version \in {<<>>, <<"latest">>} THEN Latest(store, key.head)
                 ELSE AWSStage(store, key.head, ref.version)
  IN Reporting(Read(store, key.head, version, AWSSecretsManagerJSONPath(key.tail), "missing"), version)

(* Mutant: the description asks for the whole key, the path included. *)
AWSSecretsManagerDescribeWhole(store, ref) == Described(ref.key \in DOMAIN store)
AWSSecretsManagerDescribe(store, ref) ==
  Described(AWSSecretsManagerParseKey(ref.key).head \in DOMAIN store)

(* Rotation asks for the whole key, the path included. *)
AWSSecretsManagerCreates(store, ref) == ref.key \in DOMAIN store
AWSSecretsManagerRotation(store, ref) ==
  IF ref.key \in DOMAIN store THEN {"rotation", "versioning"} ELSE {}

(***************************************************************************)
(* AWS Parameter Store: the version of the reference is not asked for.  One  *)
(* behind a colon is part of the name: the service reads that version, and   *)
(* lists no parameter of that name.                                          *)
(***************************************************************************)
AWSSSMCapabilities == {"versioning", "metadata", "auth"}
AWSSSMValidate(facts) == IF {"reachable", "allowed"} \subseteq facts THEN "ok" ELSE "error"

(* The service: the version a name is asked for with. *)
SSMSelector(name) == CutLast(name, ":")

AWSSSMResolve(store, prefix, ref) ==
  LET asked == SSMSelector(prefix \o ref.key)
      version == IF asked.found THEN Number(asked.tail) ELSE Latest(store, asked.head)
  IN Read(store, asked.head, version, <<>>, "error")

AWSSSMDescribe(store, prefix, ref) ==
  LET asked == SSMSelector(prefix \o ref.key)
  IN Described(~asked.found /\ asked.head \in DOMAIN store)

(***************************************************************************)
(* Azure Key Vault: name/version#path.                                       *)
(***************************************************************************)
AzureKeyVaultCapabilities == {"versioning", "metadata", "binary", "auth"}
AzureKeyVaultValidate(facts) == IF {"reachable", "allowed"} \subseteq facts THEN "ok" ELSE "error"

(* The credential of either Azure provider.  A managed identity is taken     *)
(* unless the settings decline it, a secret in them notwithstanding; a       *)
(* certificate is refused.                                                   *)
createAzureCredential(settings) ==
  CASE "no_managed_identity" \notin settings -> "managed"
    [] {"no_managed_identity", "client_secret", "tenant_id", "client_id"} \subseteq settings -> "principal"
    [] "no_managed_identity" \in settings /\ {"client_secret", "certificate_path"} \cap settings = {} -> "default"
    [] OTHER -> "refused"
createAzureKeyVaultClient(settings) == createAzureCredential(settings)
NewAzureKeyVaultProvider(settings) ==
  "vault_url" \in settings /\ createAzureKeyVaultClient(settings) # "refused"

extractJSONPathAzure(path) == IF path # <<>> /\ Head(path) = "." THEN Tail(path) ELSE path

AzureKeyVaultParseReference(key) ==
  LET path == Cut(key, "#")
      name == Cut(path.head, "/")
  IN [name |-> name.head, version |-> name.tail, path |-> path.tail]

AzureKeyVaultResolve(store, ref) ==
  LET key == AzureKeyVaultParseReference(ref.key)
      version == IF key.version = <<>> THEN Latest(store, key.name) ELSE Number(key.version)
  IN Read(store, key.name, version, extractJSONPathAzure(key.path), "error")

AzureKeyVaultDescribe(store, ref) ==
  LET key == AzureKeyVaultParseReference(ref.key)
      version == IF key.version = <<>> THEN Latest(store, key.name) ELSE Number(key.version)
      answer == Read(store, key.name, version, <<>>, "missing")
  IN IF answer.status = "error" THEN NotDescribed ELSE Described(answer.status = "ok")

(***************************************************************************)
(* Google Secret Manager: name:version#path, name@version#path, or the full    *)
(* name of a resource, projects/.../secrets/name or that and /versions/N,     *)
(* under which the service keeps the secret.                                 *)
(***************************************************************************)
NewGCPSecretManagerProvider(settings) == {"project_id", "GOOGLE_CLOUD_PROJECT"} \cap settings # {}
GCPSecretManagerCapabilities == {"versioning", "metadata", "binary", "auth"}
GCPSecretManagerValidate(facts) == IF {"reachable", "allowed"} \subseteq facts THEN "ok" ELSE "error"

(* The home directory of a "~/" key path, and a token source to impersonate. *)
createGCPSecretManagerClient(facts) == {"home", "impersonation"} \subseteq facts

IsResourceName(name) == name # <<>> /\ Head(name) = "projects/"
InProject(name) == <<"projects/", "/secrets/">> \o name

(* A colon is no mark of a version in a full name. *)
GCPSecretManagerParseReference(key) ==
  LET path == Cut(key, "#")
      mark == IF Contains(path.head, ":") /\ ~IsResourceName(path.head) THEN ":" ELSE "@"
      name == Cut(path.head, mark)
  IN [name |-> name.head, version |-> IF name.found THEN name.tail ELSE <<"latest">>,
      path |-> path.tail]

IsVersionName(name) == IsResourceName(name) /\ Cut(name, "/versions/").found

(* A version in a full name comes before the version of the reference. *)
buildResourceName(name, version) ==
  LET written == Cut(name, "/versions/")
  IN IF ~IsResourceName(name) THEN [name |-> InProject(name), version |-> version]
     ELSE [name |-> written.head, version |-> IF written.found THEN written.tail ELSE version]

extractJSONPath(path) == IF path # <<>> /\ Head(path) = "." THEN Tail(path) ELSE path

(* The service: "latest" is the newest version, disabled or not. *)
AccessSecretVersion(store, resource, path) ==
  Read(store, resource.name, IF resource.version = <<"latest">> THEN Latest(store, resource.name)
                             ELSE Number(resource.version), path, "error")

GCPSecretManagerResolve(store, ref) ==
  LET key == GCPSecretManagerParseReference(ref.key)
  IN AccessSecretVersion(store, buildResourceName(key.name, key.version), extractJSONPath(key.path))

(* The service is asked for the secret by the name in the reference: that of *)
(* a version is none of a secret, and is refused. *)
GCPSecretManagerDescribe(store, ref) ==
  LET name == GCPSecretManagerParseReference(ref.key).name
  IN IF IsVersionName(name) THEN NotDescribed
     ELSE Described((IF IsResourceName(name) THEN name ELSE InProject(name)) \in DOMAIN store)

(* Rotation takes no full names. *)
GCPRotated(ref) == InProject(GCPSecretManagerParseReference(ref.key).name)
GCPSecretManagerCreates(store, ref) == GCPRotated(ref) \in DOMAIN store
GCPSecretManagerDisables(store, ref, version) == version \in 1 .. Latest(store, GCPRotated(ref))
GCPSecretManagerRotation(store, ref) ==
  IF GCPSecretManagerCreates(store, ref) THEN {"rotation", "versioning"} ELSE {}

(***************************************************************************)
(* Akeyless and Infisical: path@vN.                                          *)
(***************************************************************************)
AkeylessCapabilities == {"versioning", "metadata", "binary", "auth"}
InfisicalCapabilities == {"versioning", "metadata", "binary", "auth"}

(* A method this client does not know is refused at the first login. *)
AkeylessLogins == {"api_key", "aws_iam", "azure_ad", "gcp"}
InfisicalLogins == {"machine_identity", "service_token", "api_key"}

(* A certificate that cannot be read or parsed stops the Infisical client. *)
NewInfisicalProvider(settings, facts) == "ca_cert" \in settings => "ca_cert" \in facts

ParseAkeylessReference(key) ==
  LET version == CutLast(key, "@v")
      pinned == version.found /\ Number(version.tail) # 0
      path == IF pinned THEN version.head ELSE key
  IN [path |-> IF path # <<>> /\ Head(path) = "/" THEN path ELSE <<"/">> \o path,
      version |-> IF pinned THEN Number(version.tail) ELSE 0]

(* Mutant: the version is not asked for. *)
AkeylessGetLatest(store, ref) == Read(store, ref.path, Latest(store, ref.path), <<>>, "missing")
AkeylessGetSecret(store, ref) ==
  Read(store, ref.path, IF ref.version = 0 THEN Latest(store, ref.path) ELSE ref.version, <<>>, "missing")

(* The version reported is 1, whichever was read. *)
AkeylessResolve(store, ref) ==
  LET parsed == ParseAkeylessReference(ref.key)
  IN IF parsed.path = <<"/">> THEN Failed("error") ELSE Reporting(AkeylessGetSecret(store, parsed), 1)

AkeylessDescribe(store, ref) ==
  LET parsed == ParseAkeylessReference(ref.key)
  IN IF parsed.path = <<"/">> THEN NotDescribed ELSE Described(parsed.path \in DOMAIN store)

ParseInfisicalReference(key) ==
  LET version == CutLast(key, "@v")
      pinned == version.found /\ Number(version.tail) # 0
      name == CutLast(IF pinned THEN version.head ELSE key, "/")
  IN [path |-> IF name.found THEN name.head ELSE <<>>,
      name |-> IF name.found THEN name.tail ELSE name.head,
      version |-> IF pinned THEN Number(version.tail) ELSE 0]

(* The request names the secret and not its folder: the server looks for it *)
(* at the root. *)
InfisicalGetSecret(store, ref) ==
  Read(store, ref.name, IF ref.version = 0 THEN Latest(store, ref.name) ELSE ref.version, <<>>, "missing")

InfisicalResolve(store, ref) ==
  LET parsed == ParseInfisicalReference(ref.key)
      answer == InfisicalGetSecret(store, parsed)
  IN IF parsed.name = <<>> THEN Failed("error") ELSE Reporting(answer, answer.version)

InfisicalDescribe(store, ref) ==
  LET parsed == ParseInfisicalReference(ref.key)
      answer == InfisicalGetSecret(store, parsed)
  IN IF parsed.name = <<>> \/ answer.status = "error" THEN NotDescribed
     ELSE Described(answer.status = "ok")

(***************************************************************************)
(* HashiCorp Vault: path#field.  The description asks nobody, and leaves     *)
(* Exists false.                                                             *)
(***************************************************************************)
VaultCapabilities == {"versioning", "metadata", "binary", "auth"}

(* The settings an authentication method cannot do without. *)
VaultLogins ==
  [token |-> {"token"}, userpass |-> {"userpass_username"}, ldap |-> {"ldap_username"},
   aws |-> {"aws_role"}, k8s |-> {"k8s_role"}, kubernetes |-> {"k8s_role"}]
VaultValidate(settings, method) ==
  "address" \in settings /\ method \in DOMAIN VaultLogins /\ VaultLogins[method] \subseteq settings

(* The environment overrides the configuration. *)
NewVaultProvider(settings, facts) == settings \cup {"address"} \cup (facts \cap {"token"})

VaultParseReference(key) ==
  LET field == Cut(key, "#")
  IN [path |-> field.head, field |-> field.tail,
      valid |-> field.head # <<>> /\ ~Contains(field.tail, "#")]

VaultResolve(store, ref) ==
  LET key == VaultParseReference(ref.key)
  IN IF ~key.valid THEN Failed("error")
     ELSE Read(store, key.path, Latest(store, key.path), key.field, "error")

VaultDescribe(ref) ==
  IF VaultParseReference(ref.key).valid THEN Described(FALSE) ELSE NotDescribed

(***************************************************************************)
(* The command line tools: Bitwarden, 1Password, Doppler and pass.           *)
(***************************************************************************)
BitwardenCapabilities == {"metadata", "auth"}
OnePasswordCapabilities == {"metadata", "auth"}
DopplerCapabilities == {"metadata", "auth"}
PassCapabilities == {"metadata", "auth"}

BitwardenValidate(facts) ==
  CASE {"installed", "allowed", "reachable"} \subseteq facts -> "ok"
    [] {"installed", "reachable"} \subseteq facts /\ "allowed" \notin facts -> "auth"
    [] OTHER -> "error"
OnePasswordValidate(facts) == IF {"installed", "allowed"} \subseteq facts THEN "ok" ELSE "error"
DopplerValidate(facts) == IF {"installed", "reachable", "allowed"} \subseteq facts THEN "ok" ELSE "error"
PassValidate(facts) == IF {"installed", "allowed"} \subseteq facts THEN "ok" ELSE "error"

NewDopplerProvider(settings) == {"token", "project", "config"} \subseteq settings

(* The second of the parts between the dots; what follows it is dropped. *)
BitwardenParseKey(key) ==
  LET field == Cut(key, ".")
  IN [name |-> field.head, field |-> IF field.found THEN Cut(field.tail, ".").head ELSE <<"password">>]

(* "uri" and a number that is not one both mean the first address. *)
extractUriField(field) == IF field \in {"uri", "uri0", "uris"} THEN "uri" ELSE field
BitwardenExtractField(field) ==
  IF field = <<"name">> THEN <<>> ELSE [i \in DOMAIN field |-> extractUriField(field[i])]

BitwardenResolve(store, ref) ==
  LET key == BitwardenParseKey(ref.key)
      answer == Read(store, key.name, Latest(store, key.name), BitwardenExtractField(key.field), "missing")
  IN Reporting(answer, answer.version)
BitwardenDescribe(store, ref) == Described(BitwardenParseKey(ref.key).name \in DOMAIN store)

(* op://vault/item/field or item.field. *)
OnePasswordParseKey(key) ==
  LET vault == Cut(Tail(key), "/")
      item == Cut(vault.tail, "/")
      dotted == Cut(key, ".")
  IN IF key # <<>> /\ Head(key) = "op://" /\ vault.found
     THEN [name |-> vault.head \o <<"/">> \o item.head,
           field |-> IF item.found THEN Cut(item.tail, "/").head ELSE <<"password">>]
     ELSE [name |-> dotted.head, field |-> IF dotted.found THEN dotted.tail ELSE <<"password">>]

(* A label, or what stands for it; notes and title are never missing. *)
OnePasswordExtractField(fields, field) ==
  LET stands == [password |-> "concealed", username |-> "email", website |-> "url"]
  IN CASE Len(field) = 1 /\ field[1] \in fields -> field
       [] Len(field) = 1 /\ field[1] \in DOMAIN stands \ fields -> <<stands[field[1]]>>
       [] field \in {<<"notes">>, <<"title">>, <<"name">>} /\ field[1] \notin fields -> <<>>
       [] OTHER -> field

OnePasswordResolve(store, ref) ==
  LET key == OnePasswordParseKey(ref.key)
      latest == Latest(store, key.name)
      field == IF latest = 0 THEN <<>>
               ELSE OnePasswordExtractField(store[key.name][latest].fields, key.field)
  IN Read(store, key.name, latest, field, "error")
OnePasswordDescribe(store, ref) == DescribedIf(OnePasswordParseKey(ref.key).name \in DOMAIN store)

(* The key is the name; pass keeps the first line and Doppler the value. *)
DopplerResolve(store, ref) == Read(store, ref.key, Latest(store, ref.key), <<>>, "error")
DopplerDescribe(store, ref) == DescribedIf(ref.key \in DOMAIN store)
PassResolve(store, ref) == Read(store, ref.key, Latest(store, ref.key), <<>>, "error")
PassDescribe(store, ref) == DescribedIf(ref.key \in DOMAIN store)

(***************************************************************************)
(* The keychain of the system, literals and mocks.                           *)
(***************************************************************************)
KeychainCapabilities == {"metadata", "binary"}
IsAvailable(facts) == "display" \in facts
IsHeadless(facts) == "display" \notin facts \/ {"ssh", "ci"} \cap facts # {}
KeychainValidate(facts) == IF IsAvailable(facts) /\ ~IsHeadless(facts) THEN "ok" ELSE "error"

ParseKeychainReference(key) ==
  LET account == Cut(key, "/")
  IN [service |-> account.head, account |-> account.tail,
      valid |-> account.head # <<>> /\ account.tail # <<>>]

applyServicePrefix(prefix, service) ==
  IF prefix = <<>> \/ IsPrefix(prefix, service) THEN service ELSE prefix \o <<".">> \o service

KeychainResolve(store, prefix, ref) ==
  LET key == ParseKeychainReference(ref.key)
      name == applyServicePrefix(prefix, key.service) \o <<"/">> \o key.account
  IN IF ~key.valid THEN Failed("error") ELSE Read(store, name, Latest(store, name), <<>>, "missing")

KeychainDescribe(store, prefix, ref) ==
  LET key == ParseKeychainReference(ref.key)
  IN IF ~key.valid THEN NotDescribed
     ELSE Described(applyServicePrefix(prefix, key.service) \o <<"/">> \o key.account \in DOMAIN store)

LiteralCapabilities == {"metadata"}
LiteralResolve(store, ref) == Reporting(Read(store, ref.key, Latest(store, ref.key), <<>>, "missing"), 1)
LiteralDescribe(store, ref) == Described(ref.key \in DOMAIN store)

MockCapabilities == {"versioning", "metadata"}
MockResolve(store, failures, ref) ==
  IF ref.key \in failures THEN Failed("error")
  ELSE Reporting(Read(store, ref.key, Latest(store, ref.key), <<>>, "missing"), 1)
MockDescribe(store, failures, ref) ==
  IF ref.key \in failures THEN NotDescribed ELSE Described(ref.key \in DOMAIN store)

(***************************************************************************)
(* Credentials made on request: AWS STS, AWS SSO and Azure identity.  What   *)
(* they tell apart in a key is the field; their descriptions ask nobody.     *)
(***************************************************************************)
AWSSTSCapabilities == {"metadata", "auth"}
AWSSSOCapabilities == {"metadata", "auth"}
AzureIdentityCapabilities == {"metadata", "auth"}

NewAWSSTSProvider(settings) == "assume_role" \in settings
AWSSTSValidate(facts) == IF {"reachable", "allowed"} \subseteq facts THEN "ok" ELSE "error"
NewAWSSSOProvider(settings, facts) ==
  {"start_url", "account_id", "role_name"} \subseteq settings /\ ("cache_path" \in settings \/ "home" \in facts)
NewAzureIdentityProvider(settings) == createAzureCredential(settings) # "refused"

AWSSTSFields ==
  {"access_key_id", "secret_access_key", "session_token", "expiration", "assumed_role_arn", "credentials"}
AWSSSOFields == AWSSTSFields \ {"assumed_role_arn"}

AzureIdentityParseReference(key) ==
  LET field == Cut(key, ":")
  IN [scope |-> field.head, field |-> IF field.found THEN field.tail ELSE <<"access_token">>]
AzureIdentityFields == {"access_token", "expires_at", "expires_in", "token_info"}

(* A field of the session in hand. *)
FieldOf(fields, name, key) ==
  IF Len(key) = 1 /\ key[1] \in fields
  THEN [status |-> "ok", name |-> name, version |-> 0, field |-> key, reported |-> 0]
  ELSE Failed("error")

AWSSTSGetCredentialValue(key) == FieldOf(AWSSTSFields, <<>>, key)
AWSSSOGetCredentialValue(key) == FieldOf(AWSSSOFields, <<>>, key)
AzureIdentityGetTokenValue(default, key) ==
  LET parsed == AzureIdentityParseReference(key)
  IN FieldOf(AzureIdentityFields, IF parsed.scope = <<>> THEN <<default>> ELSE parsed.scope, parsed.field)

(***************************************************************************)
(* The providers that hand a key to a provider of a service of one cloud.    *)
(***************************************************************************)
CredentialKeys == {"access_key_id", "secret_access_key", "session_token", "credentials"}

(* The services an instance has; an unset service is a reference to none. *)
NewAWSUnifiedProvider(settings) ==
  {"secretsmanager", "ssm"} \cup (IF {"sts", "assume_role"} \cap settings # {} THEN {"sts"} ELSE {})
                           \cup (IF "sso" \in settings THEN {"sso"} ELSE {})
NewAzureUnifiedProvider(settings) ==
  {"identity"} \cup (IF "vault_url" \in settings THEN {"keyvault"} ELSE {})
NewGCPUnifiedProvider(settings) == {"secretmanager"}

AWSUnifiedCapabilities == {"versioning", "metadata", "binary", "auth"}
AzureUnifiedCapabilities == {"versioning", "metadata", "binary", "auth"}
GCPUnifiedCapabilities == {"versioning", "metadata", "binary", "auth"}

Behind(key) == SubSeq(key, 3, Len(key))

AWSParseReference(services, default, key) ==
  LET named == [secretsmanager |-> {"sm", "secretsmanager"}, ssm |-> {"ssm", "parameter"},
                sts |-> {"sts", "credentials"}, sso |-> {"sso"}]
      prefixes == {s \in DOMAIN named : \E prefix \in named[s] : StartsWith(key, prefix)}
      marks == [secretsmanager |-> {"secretsmanager"}, ssm |-> {"ssm"}, sts |-> {"iam", "role/"}]
      inARN == SelectSeq(<<"secretsmanager", "ssm", "sts">>,
                         LAMBDA s : \A mark \in marks[s] \cup {"arn:aws:"} : Contains(key, mark))
      whole == [service |-> default, key |-> key]
  IN CASE prefixes # {} -> [service |-> CHOOSE s \in prefixes : TRUE, key |-> Behind(key)]
       [] prefixes = {} /\ key # <<>> /\ Head(key) = "/" -> [whole EXCEPT !.service = "ssm"]
       [] prefixes = {} /\ inARN # <<>> -> [whole EXCEPT !.service = Head(inARN)]
       [] Len(key) = 1 /\ key[1] \in CredentialKeys /\ {"sts", "sso"} \cap services # {} ->
            [whole EXCEPT !.service = IF "sts" \in services THEN "sts" ELSE "sso"]
       [] OTHER -> whole

parseAzureReference(default, key) ==
  LET named == [keyvault |-> {"kv", "keyvault", "vault", "secrets"},
                identity |-> {"identity", "auth", "token", "managed"}]
      prefixes == {s \in DOMAIN named : \E prefix \in named[s] : StartsWith(key, prefix)}
      token == HasAny(key, {"scope", ".default"}) \/ key \in {<<"access_token">>, <<"token">>, <<"expires_at">>}
  IN CASE prefixes # {} -> [service |-> CHOOSE s \in prefixes : TRUE, key |-> Behind(key)]
       [] prefixes = {} /\ token -> [service |-> "identity", key |-> key]
       [] prefixes = {} /\ ~token /\ HasAny(key, {"/", "#"}) -> [service |-> "keyvault", key |-> key]
       [] OTHER -> [service |-> default, key |-> key]

parseGCPReference(default, key) ==
  IF \E prefix \in {"sm", "secretmanager", "secrets"} : StartsWith(key, prefix)
  THEN [service |-> "secretmanager", key |-> Behind(key)]
  ELSE LET marks == {"@", "#", IF IsResourceName(key) THEN "/secrets/" ELSE ":"}
       IN [service |-> IF HasAny(key, marks) THEN "secretmanager" ELSE default, key |-> key]

(* The reference made anew for the provider of the service: its version      *)
(* stays behind.  A service the instance has not is "unknown".               *)
Handed(types, services, routed) ==
  [type |-> IF routed.service \in services THEN types[routed.service] ELSE "unknown",
   key |-> routed.key, version |-> <<>>]

AWSUnifiedRoute(settings, default, ref) ==
  LET services == NewAWSUnifiedProvider(settings)
  IN Handed([secretsmanager |-> "aws.secretsmanager", ssm |-> "aws.ssm", sts |-> "aws.sts", sso |-> "aws.sso"],
            services, AWSParseReference(services, default, ref.key))

AzureUnifiedRoute(settings, default, ref) ==
  Handed([keyvault |-> "azure.keyvault", identity |-> "azure.identity"],
         NewAzureUnifiedProvider(settings), parseAzureReference(default, ref.key))

GCPUnifiedRoute(settings, default, ref) ==
  Handed([secretmanager |-> "gcp.secretmanager"],
         NewGCPUnifiedProvider(settings), parseGCPReference(default, ref.key))
====================================================================================
