----------------------------- MODULE MCProviderSessions -----------------------------
(***************************************************************************)
(* One provider of each type.  Those with a session are called by two        *)
(* goroutines while their sessions end and their logins fail; the others     *)
(* have references of every form their parser tells apart, and of those their *)
(* documentation names and the code reads otherwise, to secrets that get a    *)
(* new version while they are read.                                          *)
(***************************************************************************)
EXTENDS ProviderSessions, TLC

Alike == Permutations(Callers)

NoSecrets == [name \in {} |-> <<>>]
Version(fields) == [fields |-> fields, enabled |-> TRUE]
Secret(name) == [n \in {name} |-> <<Version({"user"})>>]
Rotated(name) == [n \in {name} |-> <<Version({"user"}), Version({"user"})>>]

Ref(key, version, name, number) ==
  [key |-> key, version |-> version, means |-> [name |-> name, version |-> number]]
Field(field) == Ref(<<field>>, <<>>, <<>>, 0)

Provider(type, method, settings, secrets, ops, refs) ==
  [type |-> type, method |-> method, settings |-> settings,
   facts |-> {"reachable", "allowed", "installed", "display", "home", "impersonation", "ca_cert"},
   prefix |-> <<>>, default |-> "none", failures |-> {}, secrets |-> secrets, ops |-> ops, refs |-> refs,
   file |-> 3, lasts |-> 2]

Sessions == {
  Provider("aws.sts", "iam", {"assume_role"}, NoSecrets, {"resolve"}, {Field("access_key_id")}),
  Provider("aws.sso", "sso", {"start_url", "account_id", "role_name"}, NoSecrets,
           {"resolve", "validate"}, {Field("assumed_role_arn")}),
  Provider("akeyless", "api_key", {}, Rotated(<<"/", "db">>), {"resolve"},
           {Ref(<<"db", "@v", "1">>, <<>>, <<"/", "db">>, 1)}),
  Provider("akeyless", "aws_iam", {}, Rotated(<<"/", "db">>), {"describe"},
           {Ref(<<"db">>, <<>>, <<"/", "db">>, 0)}),
  Provider("infisical", "machine_identity", {"ca_cert"}, Rotated(<<"db">>), {"resolve"},
           {Ref(<<"db", "@v", "1">>, <<>>, <<"db">>, 1)}),
  Provider("infisical", "api_key", {}, Secret(<<"db">>), {"describe"},
           {Ref(<<"db">>, <<>>, <<"db">>, 0)}),
  Provider("vault", "userpass", {"userpass_username"}, Rotated(<<"kv", "/", "db">>), {"resolve"},
           {Ref(<<"kv", "/", "db", "#", "user">>, <<>>, <<"kv", "/", "db">>, 0)}),
  Provider("vault", "token", {"token"}, Rotated(<<"kv">>), {"resolve", "validate"},
           {Ref(<<"kv">>, <<"1">>, <<"kv">>, 1)}),
  Provider("vault", "token", {}, Secret(<<"kv">>), {"resolve"}, {Ref(<<"kv">>, <<>>, <<"kv">>, 0)})}

(* A secret in a folder of infisical, and its namesake at the root.          *)
Folder == <<"pay", "/", "db">>
Foldered ==
  {Provider("infisical", "service_token", {}, [n \in names |-> <<Version({"user"})>>], {"resolve"},
            {Ref(Folder, <<>>, Folder, 0)}) : names \in {{Folder}, {Folder, <<"db">>}}}

Named == Secret(<<"db">>)
GCPName == InProject(<<"db">>)
Reading == {"resolve", "describe", "validate"}
Rotating == {"resolve", "describe", "create", "deprecate", "inspect"}

Stores == {
  Provider("aws.secretsmanager", "iam", {}, Named, Rotating,
           {Ref(<<"db">>, <<>>, <<"db">>, 0), Ref(<<"db">>, <<"2">>, <<"db">>, 2),
            Ref(<<"db", "#", ".", "user">>, <<"AWSCURRENT">>, <<"db">>, 0)}),
  Provider("aws.secretsmanager", "iam", {}, Rotated(<<"db">>), Reading,
           {Ref(<<"db">>, <<"AWSPREVIOUS">>, <<"db">>, 1)}),
  [Provider("aws.ssm", "iam", {}, Rotated(<<"/", "db">>), Reading,
            {Ref(<<"db">>, <<>>, <<"/", "db">>, 0), Ref(<<"db", ":", "1">>, <<>>, <<"/", "db">>, 1),
             Ref(<<"db">>, <<"1">>, <<"/", "db">>, 1)}) EXCEPT !.prefix = <<"/">>],
  Provider("azure.keyvault", "cli", {"vault_url"}, Named, Reading,
           {Ref(<<"db">>, <<>>, <<"db">>, 0), Ref(<<"db", "/", "2", "#", ".", "user">>, <<>>, <<"db">>, 2),
            Ref(<<"db">>, <<"1">>, <<"db">>, 1)}),
  Provider("gcp.secretmanager", "adc", {"project_id"}, Secret(GCPName), Rotating,
           {Ref(<<"db", ":", "1">>, <<>>, GCPName, 1), Ref(<<"db", "@", "2", "#", "user">>, <<>>, GCPName, 2),
            Ref(<<"db">>, <<>>, GCPName, 0), Ref(<<"db">>, <<"1">>, GCPName, 1)}),
  Provider("gcp.secretmanager", "adc", {"project_id"}, Secret(GCPName), Reading \cup {"create"},
           {Ref(GCPName, <<>>, GCPName, 0), Ref(GCPName \o <<"/versions/", "1">>, <<>>, GCPName, 1),
            Ref(GCPName \o <<":", "1">>, <<>>, GCPName \o <<":", "1">>, 0), Ref(GCPName \o <<"@", "1">>, <<>>, GCPName, 1)}),
  Provider("akeyless", "saml", {}, Secret(<<"/", "db">>), {"resolve"}, {Ref(<<"db">>, <<>>, <<"/", "db">>, 0)}),
  Provider("bitwarden", "cli", {}, [n \in {<<"db">>} |-> <<Version({"password", "uri"})>>], Reading,
           {Ref(<<"db">>, <<>>, <<"db">>, 0), Ref(<<"db", ".", "uri0">>, <<>>, <<"db">>, 0)}),
  Provider("onepassword", "cli", {}, [n \in {<<"v", "/", "db">>, <<"db">>} |-> <<Version({"password", "email"})>>],
           Reading, {Ref(<<"op://", "v", "/", "db", "/", "username">>, <<>>, <<"v", "/", "db">>, 0),
                     Ref(<<"db", ".", "password">>, <<>>, <<"db">>, 0)}),
  Provider("doppler", "cli", {"token", "project", "config"}, Named, Reading, {Ref(<<"db">>, <<>>, <<"db">>, 0)}),
  Provider("pass", "gpg", {}, Named, Reading, {Ref(<<"db">>, <<>>, <<"db">>, 0)}),
  [Provider("keychain", "os", {}, Secret(<<"app", ".", "db", "/", "me">>), Reading,
            {Ref(<<"db", "/", "me">>, <<>>, <<"app", ".", "db", "/", "me">>, 0)}) EXCEPT !.prefix = <<"app">>],
  Provider("literal", "none", {}, Named, Reading, {Ref(<<"db">>, <<>>, <<"db">>, 0)}),
  [Provider("mock", "none", {}, Named, Reading,
            {Ref(<<"db">>, <<>>, <<"db">>, 0), Ref(<<"bad">>, <<>>, <<"bad">>, 0)}) EXCEPT !.failures = {<<"bad">>}],
  Provider("azure.identity", "managed", {"no_managed_identity"}, NoSecrets, Reading,
           {Field("graph"), Ref(<<"graph", ":", "expires_in">>, <<>>, <<>>, 0)}),
  [Provider("aws", "iam", {}, Secret(<<"/", "db">>), {"resolve", "describe"},
            {Ref(<<"/", "db">>, <<>>, <<"/", "db">>, 0), Ref(<<"sm", ":", "/", "db">>, <<>>, <<"/", "db">>, 0)})
     EXCEPT !.default = "secretsmanager"],
  [Provider("aws", "iam", {}, Rotated(<<"db">>), {"resolve", "describe"},
            {Ref(<<"db">>, <<"AWSPREVIOUS">>, <<"db">>, 1)})
     EXCEPT !.default = "secretsmanager"],
  [Provider("aws", "iam", {"assume_role"}, NoSecrets, {"resolve"},
            {Field("access_key_id"), Ref(<<"arn:aws:", "iam", "role/", "db">>, <<>>, <<>>, 0)})
     EXCEPT !.default = "secretsmanager"],
  [Provider("azure", "cli", {"vault_url"}, Named, Reading,
            {Ref(<<"db">>, <<>>, <<"db">>, 0), Ref(<<"kv", ":", "db", "/", "1">>, <<>>, <<"db">>, 1)})
     EXCEPT !.default = "keyvault"],
  [Provider("gcp", "adc", {}, Secret(GCPName), Reading,
            {Ref(<<"db">>, <<>>, GCPName, 0), Ref(<<"secrets", ":", "db", "@", "1">>, <<>>, GCPName, 1),
             Ref(GCPName \o <<"/versions/", "1">>, <<>>, GCPName, 1)})
     EXCEPT !.default = "secretmanager"]}

MCInstances == Sessions \cup Foldered \cup Stores
====================================================================================
