--------------------------------- MODULE MCCommands ---------------------------------
(***************************************************************************)
(* One invocation for each way through the commands: three variables, two of *)
(* them at a time with their providers.                                      *)
(***************************************************************************)
EXTENDS Commands

Nothing == [store |-> <<>>, service |-> <<>>, provider |-> <<>>, key |-> <<>>, version |-> <<>>]
Legacy(name, key) == [Nothing EXCEPT !.provider = <<name>>, !.key = <<key>>]
Store(uri) == [Nothing EXCEPT !.store = uri]
Service(uri) == [Nothing EXCEPT !.service = uri]

Variable(from, transform, optional) ==
  [literal |-> <<>>, from |-> from, transform |-> transform, optional |-> optional]
Constant(transform) ==
  [literal |-> <<"text">>, from |-> NoReference, transform |-> transform, optional |-> FALSE]

Three(x, y, z) == [v \in {"DB", "KEY", "URL"} |-> CASE v = "DB" -> x [] v = "KEY" -> y [] OTHER -> z]

Vault == <<"store://", "vault", "/", "app", "#", "user", "?", "version", "2", "region", "eu">>

Cfg == [stores |-> (<<"vault">> :> "vault" @@ <<"both">> :> "literal"),
        services |-> (<<"pg">> :> "postgresql"),
        legacy |-> (<<"aws">> :> "aws" @@ <<"ring">> :> "keychain" @@ <<"both">> :> "json"),
        broken |-> {}]

Rules == [blocked |-> {"keychain"}, allowed |-> {}, paths |-> NoPolicy,
          rules |-> ("prod" :> [blocked |-> {"json"}, allowed |-> {}, maxSecrets |-> 3])]

Exec3 == [command |-> "exec", envName |-> "prod", only |-> "DB", cfg |-> Cfg, known |-> TRUE,
          parses |-> TRUE, policy |-> NoPolicy, os |-> {"DB", "HOME"}, allowOverride |-> FALSE,
          commandExists |-> TRUE, timeout |-> FALSE, output |-> "out", extension |-> ".json", format |-> "",
          template |-> "none", ttl |-> FALSE, checksEnv |-> TRUE, keys |-> {"DB", "KEY", "URL", "PORT"},
          env |-> Three(Variable(Legacy("aws", "db"), <<"json_extract">>, FALSE),
                        Variable(Legacy("aws", "key"), <<"trim", "|", "base64_encode">>, TRUE),
                        Constant(<<"trim">>))]

Mixed == Three(Variable(Store(Vault), <<>>, FALSE),
               Variable(Legacy("both", "key"), <<"replace", "|", "trim", ",", "trim">>, FALSE),
               Variable(Legacy("ring", "url"), <<>>, TRUE))

MCCalls ==
  { Exec3,
    [Exec3 EXCEPT !.allowOverride = TRUE, !.timeout = TRUE, !.policy = Rules],
    [Exec3 EXCEPT !.policy = [Rules EXCEPT !.rules["prod"].blocked = {"aws"}]],
    [Exec3 EXCEPT !.env = Mixed],
    [Exec3 EXCEPT !.env = Mixed, !.policy = [Rules EXCEPT !.blocked = {"vault", "aws"}]],
    [Exec3 EXCEPT !.command = "get", !.env = Mixed, !.only = "URL", !.policy = Rules],
    [Exec3 EXCEPT !.command = "get", !.only = "PORT"],
    [Exec3 EXCEPT !.commandExists = FALSE,
       !.policy = [Rules EXCEPT !.blocked = {"literal"}, !.rules = <<>>],
       !.env = Three(Variable(Legacy("gone", "db"), <<>>, FALSE), Constant(<<"trim", "base64_encode">>),
                     Variable(Service(<<"svc://", "pg", "/", "main", "?", "kind", "user">>), <<>>, TRUE))],
    [Exec3 EXCEPT !.commandExists = FALSE, !.env = Three(Constant(<<>>), Constant(<<>>), Constant(<<>>))],
    [Exec3 EXCEPT !.command = "render", !.ttl = TRUE],
    [Exec3 EXCEPT !.command = "render", !.policy = [Rules EXCEPT !.paths = [blocked |-> {"out"}, allowed |-> {}]]],
    [Exec3 EXCEPT !.command = "render", !.parses = FALSE],
    [Exec3 EXCEPT !.command = "render", !.template = "missing", !.env = Three(Constant(<<>>), Constant(<<>>), Constant(<<>>))],
    [Exec3 EXCEPT !.command = "plan", !.cfg.broken = {<<"aws">>}],
    [Exec3 EXCEPT !.command = "plan", !.env = Mixed],
    [Exec3 EXCEPT !.command = "plan"],
    [Exec3 EXCEPT !.command = "doctor", !.cfg.legacy = <<"aws">> :> "aws"],
    [Exec3 EXCEPT !.command = "doctor", !.env = Mixed, !.cfg.stores[<<"vault">>] = "keychain"],
    [Exec3 EXCEPT !.command = "rotate", !.env = Mixed],
    [Exec3 EXCEPT !.command = "rotate", !.known = FALSE],
    [Exec3 EXCEPT !.command = "rotate", !.cfg.services = <<>>],
    [Exec3 EXCEPT !.command = "rotate", !.cfg.services = <<>>, !.env = Mixed, !.keys = {"DB", "KEY"}] }
===================================================================================
