-------------------------- MODULE MCRotationStrategies --------------------------
(***************************************************************************)
(* One request for each path through a strategy and the rotator it wraps.    *)
(***************************************************************************)
EXTENDS RotationStrategies

Request(wrapper, base, type, profile) ==
  [wrapper |-> wrapper, base |-> base, type |-> type, profile |-> profile,
   dryRun |-> FALSE, force |-> FALSE, constrained |-> TRUE,
   metadata |-> {"script_path", "webhook_url"}, config |-> {}, schema |-> NoSchema,
   kind |-> "default"]

Kind(name, capabilities) == [name |-> name, capabilities |-> capabilities]

MCRequests ==
  { Request("two-secret", "two", "password", "stripe"),
    [Request("two-secret", "two", "api_key", "awsIAM") EXCEPT !.constrained = FALSE],
    [Request("two-secret", "two", "oauth", "azureSP") EXCEPT !.dryRun = TRUE, !.force = TRUE],
    Request("overlap", "webhook", "certificate", "awsSecrets"),
    [Request("overlap", "script", "certificate", "githubPAT") EXCEPT
       !.dryRun = TRUE, !.schema = <<Kind("cert", {"rotate"})>>],
    [Request("immediate", "script", "other", "datadog") EXCEPT
       !.schema = <<Kind("other", {}), Kind("key", {"rotate", "revoke"})>>, !.kind = "key"],
    [Request("none", "webhook", "password", "okta") EXCEPT
       !.metadata = {"endpoint"}, !.config = {"endpoint"}, !.dryRun = TRUE],
    Request("immediate", "two", "encryption", "datadog"),
    Request("two-secret", "random", "password", "stripe") }
===============================================================================
