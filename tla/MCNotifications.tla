---------------------------- MODULE MCNotifications ----------------------------
(***************************************************************************)
(* One provider of each kind.  Two of them are registered, in either order;  *)
(* the types they support differ, so that each pair differs in what it gets. *)
(***************************************************************************)
EXTENDS Notifications

MCKind == [p \in Providers |-> p]
MCSupported ==
  [p \in Providers |-> CASE p = "slack" -> {"completed"} [] p = "pagerduty" -> Types
                         [] OTHER -> {"failed"}]

\* Slack answers as PagerDuty does: it is paired with the email provider only.
MCPairs == Len(providers) = 2 /\ "slack" \in Range(providers) => "email" \in Range(providers)
===============================================================================
