---------------------------------- MODULE Config ----------------------------------
(***************************************************************************)
(* What the configuration means: the references of a variable, the stores,   *)
(* services and legacy providers a name can stand for, the policies, and the *)
(* adapters through which a store is asked.  No state of its own.            *)
(*                                                                           *)
(* A text is the sequence of the pieces the parsers tell apart: <<>> is the  *)
(* empty string, "/", "#" and "?" are pieces of their own, and a query is a  *)
(* sequence of keys, each followed by its value.                             *)
(***************************************************************************)
EXTENDS Naturals, Sequences, FiniteSets, SequencesExt

CONSTANTS NoPolicy, NoReference

(***************************************************************************)
(* References.                                                               *)
(***************************************************************************)
(* Where the mark is first found before the limit, or the limit. *)
Index(text, mark, limit) == Min({limit} \cup {i \in 1 .. limit - 1 : text[i] = mark})

Parameter(query, key) ==
  LET at == {i \in 1 .. Len(query) : i % 2 = 1 /\ query[i] = key}
  IN IF at = {} THEN <<>> ELSE <<query[1 + CHOOSE i \in at : \A j \in at : i <= j]>>
Options(query, named) ==
  {<<query[i], query[i + 1]>> : i \in {i \in 1 .. Len(query) : i % 2 = 1 /\ query[i] \notin named}}
Encode(pairs) == FoldSet(LAMBDA pair, query : pair \o query, <<>>, pairs)

NoSecretRef == [store |-> <<>>, path |-> <<>>, field |-> <<>>, version |-> <<>>, options |-> {}]

SecretRefIsValid(ref) == ref.store # <<>> /\ ref.path # <<>>

ParseSecretRef(uri) ==
  LET query == Index(uri, "?", Len(uri) + 1)
      field == Index(uri, "#", query)
      path == Index(uri, "/", field)
      parameters == SubSeq(uri, query + 1, Len(uri))
      ref == [store |-> SubSeq(uri, 2, path - 1), path |-> SubSeq(uri, path + 1, field - 1),
              field |-> SubSeq(uri, field + 1, query - 1),
              version |-> Parameter(parameters, "version"),
              options |-> Options(parameters, {"version"})]
  IN IF uri = <<>> \/ Head(uri) # "store://" \/ path = 2 \/ field <= path + 1
     THEN NoSecretRef ELSE ref

(* Mutant: the field is printed after the query. *)
SecretRefStringFieldLast(ref) ==
  <<"store://">> \o ref.store \o <<"/">> \o ref.path
  \o (IF ref.version = <<>> THEN <<>> ELSE <<"?", "version">> \o ref.version)
  \o (IF ref.field = <<>> THEN <<>> ELSE <<"#">> \o ref.field)

SecretRefString(ref) ==
  LET parameters == (IF ref.version = <<>> THEN {} ELSE {<<"version", ref.version[1]>>}) \cup ref.options
  IN IF ~SecretRefIsValid(ref) THEN <<>>
     ELSE <<"store://">> \o ref.store \o <<"/">> \o ref.path
          \o (IF ref.field = <<>> THEN <<>> ELSE <<"#">> \o ref.field)
          \o (IF parameters = {} THEN <<>> ELSE <<"?">> \o Encode(parameters))

NoServiceRef == [type |-> <<>>, instance |-> <<>>, kind |-> <<>>, principal |-> <<>>, options |-> {}]

ServiceRefIsValid(ref) == ref.type # <<>> /\ ref.instance # <<>> /\ ref.kind # <<>>

ParseServiceRef(uri) ==
  LET query == Index(uri, "?", Len(uri) + 1)
      instance == Index(uri, "/", query)
      parameters == SubSeq(uri, query + 1, Len(uri))
      ref == [type |-> SubSeq(uri, 2, instance - 1),
              instance |-> SubSeq(uri, instance + 1, query - 1),
              kind |-> Parameter(parameters, "kind"),
              principal |-> Parameter(parameters, "principal"),
              options |-> Options(parameters, {"kind", "principal"})]
  IN IF uri # <<>> /\ Head(uri) = "svc://" /\ ServiceRefIsValid(ref) THEN ref ELSE NoServiceRef

ServiceRefString(ref) ==
  LET parameters == {<<"kind", ref.kind[1]>>} \cup ref.options
                    \cup (IF ref.principal = <<>> THEN {} ELSE {<<"principal", ref.principal[1]>>})
  IN IF ~ServiceRefIsValid(ref) THEN <<>>
     ELSE <<"svc://">> \o ref.type \o <<"/">> \o ref.instance \o <<"?">> \o Encode(parameters)

(* A reference: [store, service: a URI, provider, key, version: the legacy form]. *)
IsLegacyFormat(from) == from.provider # <<>> \/ from.key # <<>>
IsStoreReference(from) == from.store # <<>>
IsServiceReference(from) == from.service # <<>>

GetEffectiveProvider(from) ==
  CASE IsLegacyFormat(from) -> from.provider
    [] ~IsLegacyFormat(from) /\ ParseSecretRef(from.store) # NoSecretRef -> ParseSecretRef(from.store).store
    [] OTHER -> ParseServiceRef(from.service).type

(* What the provider is told; the #field of a store URI has no place in it. *)
ToLegacyProviderRef(from) ==
  LET ref == ParseSecretRef(from.store)
  IN IF IsLegacyFormat(from) THEN [key |-> from.key, version |-> from.version]
     ELSE [key |-> ref.path, version |-> ref.version]

(***************************************************************************)
(* Stores, services and legacy providers.  cfg: [stores, services, legacy:   *)
(* functions from names to types, broken: the names whose factory fails].    *)
(***************************************************************************)
StoreTypes ==
  {"literal", "mock", "json", "bitwarden", "onepassword", "vault", "aws.secretsmanager", "aws.ssm",
   "aws.sts", "aws.sso", "aws", "gcp.secretmanager", "gcp", "azure.keyvault", "azure.identity",
   "azure", "doppler", "pass"}
ProviderTypes == StoreTypes \cup {"keychain", "infisical", "akeyless"}

Known(cfg) == DOMAIN cfg.stores \cup DOMAIN cfg.services \cup DOMAIN cfg.legacy

(* The type the configuration gives a name: stores first, legacy providers last. *)
GetProvider(cfg, name) ==
  CASE name \in DOMAIN cfg.stores -> cfg.stores[name]
    [] name \in DOMAIN cfg.services \ DOMAIN cfg.stores -> cfg.services[name]
    [] OTHER -> cfg.legacy[name]

(* The types all names are listed with: here the legacy providers come first. *)
ListAllProviders(cfg) ==
  [name \in Known(cfg) |->
     CASE name \in DOMAIN cfg.legacy -> cfg.legacy[name]
       [] name \in DOMAIN cfg.services \ DOMAIN cfg.legacy -> cfg.services[name]
       [] OTHER -> cfg.stores[name]]

(* The providers the resolver ends up with: a legacy provider is registered  *)
(* after the stores and replaces the store of its name.                      *)
Creatable(registry, types) == {name \in DOMAIN registry : registry[name] \in types}

Registered(cfg) ==
  [name \in Creatable(cfg.stores, StoreTypes) \cup Creatable(cfg.legacy, ProviderTypes) |->
     IF name \in Creatable(cfg.legacy, ProviderTypes)
     THEN [type |-> cfg.legacy[name], wrapped |-> FALSE]
     ELSE [type |-> cfg.stores[name], wrapped |-> TRUE]]

(* Services are created from data and dropped again: they never fail. *)
RegistrationFails(cfg) ==
  cfg.broken \cap (Creatable(cfg.stores, StoreTypes) \cup Creatable(cfg.legacy, ProviderTypes)) # {}

(***************************************************************************)
(* The adapters.  A store is a provider in two wrappers: the outer one makes *)
(* a secret reference of the provider reference and keeps its key as an      *)
(* option, the inner one makes a provider reference of it again.             *)
(***************************************************************************)
ResolverReference(name, from) ==
  [provider |-> name, key |-> ToLegacyProviderRef(from).key, path |-> <<>>, field |-> <<>>,
   version |-> ToLegacyProviderRef(from).version]

SecretStoreToProviderAdapter(ref) ==
  [store |-> ref.provider, path |-> ref.path, field |-> ref.field, version |-> ref.version,
   options |-> {<<"key", ref.key>>}]

ProviderToSecretStoreAdapter(ref) ==
  [provider |-> ref.store, key |-> ref.path, path |-> ref.path, field |-> ref.field,
   version |-> ref.version]

Delivered(entry, ref) ==
  IF entry.wrapped THEN ProviderToSecretStoreAdapter(SecretStoreToProviderAdapter(ref)) ELSE ref

(***************************************************************************)
(* Policies: [blocked, allowed: types, rules: a function from environments   *)
(* to [blocked, allowed, maxSecrets], paths: NoPolicy or [blocked, allowed]]. *)
(* Types are compared without regard to case; here they are folded already.  *)
(***************************************************************************)
Permits(list, item) == item \notin list.blocked /\ (list.allowed = {} \/ item \in list.allowed)

ValidateProviderType(policy, type) == Permits(policy, type)

ValidateEnvironmentProvider(policy, env, type) ==
  env \in DOMAIN policy.rules => Permits(policy.rules[env], type)

ValidateEnvironmentSecretCount(policy, env, count) ==
  env \in DOMAIN policy.rules =>
    (policy.rules[env].maxSecrets = 0 \/ count <= policy.rules[env].maxSecrets)

ValidateOutputPath(policy, out) == policy.paths = NoPolicy \/ Permits(policy.paths, out)
===================================================================================
