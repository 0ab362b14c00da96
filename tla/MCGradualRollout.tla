---------------------------- MODULE MCGradualRollout ----------------------------
(***************************************************************************)
(* Rollouts of up to seven instances.  Group: three listed services and one  *)
(* that is not listed, which the dependencies may name on either side.       *)
(***************************************************************************)
EXTENDS GradualRollout, TLC

NoCfg == [type |-> "", instances |-> <<>>, selectors |-> {}, endpoint |-> "",
          answers |-> FALSE, cloud |-> "", region |-> ""]

Inst(id, label, flag) == [id |-> id, label |-> label, canary |-> flag]

Digit(i) == <<"1", "2", "3", "4", "5", "6", "7">>[i]

\* n instances of one service; at most one has the canary label.
Fleet(n, labelled) == [i \in 1 .. n |-> Inst(<<"web", Digit(i)>>, i = labelled, FALSE)]

Explicit(insts) == [NoCfg EXCEPT !.type = "explicit", !.instances = insts]

Setup(strategy, discovered, cfg) ==
  [strategy |-> strategy, discovery |-> discovered, cfg |-> cfg, waves |-> <<>>,
   services |-> {}, deps |-> <<>>, monitored |-> TRUE, rollback |-> TRUE, policy |-> "stop"]

Canaries ==
  { [Setup("canary", "explicit", Explicit(Fleet(n, labelled)))
       EXCEPT !.monitored = m, !.rollback = r] :
      n \in 1 .. 5, labelled \in 0 .. 3, m \in BOOLEAN, r \in BOOLEAN }

Marked ==
  { Setup("canary", "explicit", Explicit(<<Inst(<<"web", "1">>, FALSE, FALSE),
                                           Inst(<<"web", "2">>, l, TRUE)>>)) : l \in BOOLEAN }

Shares == [percentage : {0, 30, 50, 100, 120}, health : {TRUE}, wait : {TRUE}]

Percentages ==
  { [Setup("percentage", "explicit", Explicit(Fleet(n, 0)))
       EXCEPT !.waves = w, !.monitored = m] :
      n \in {1, 2, 3, 7},
      w \in {<<>>} \cup [1 .. 1 -> Shares] \cup [1 .. 2 -> Shares]
                   \cup {<<[percentage |-> 60, health |-> FALSE, wait |-> FALSE]>>},
      m \in BOOLEAN }

Db == <<"db">>   Api == <<"api">>   Web == <<"web">>   Ext == <<"ext">>

GroupFleet ==
  << Inst(<<"web", "1">>, FALSE, FALSE), Inst(<<"api", "1">>, FALSE, FALSE),
     Inst(<<"db", "1">>, FALSE, FALSE), Inst(<<"db", "2">>, FALSE, FALSE),
     Inst(<<"ext", "1">>, FALSE, FALSE), Inst(<<"web">>, FALSE, FALSE) >>

Graphs == [{Db, Api, Web} -> SUBSET {Db, Api, Ext}]
          \cup {(Api :> {Db}) @@ (Ext :> {Api}) @@ (Web :> {<<"gone">>}), Ext :> {<<"gone">>}}

Groups ==
  { [Setup("group", "explicit", Explicit(GroupFleet))
       EXCEPT !.services = {Db, Api, Web}, !.deps = d, !.policy = p, !.rollback = r] :
      d \in Graphs, p \in {"rollback_all", "stop"}, r \in BOOLEAN }

\* Discovery alone: configurations that are refused, invalid or discover nothing.
Selector(k, v) == [key |-> k, value |-> v]

Discoveries ==
  LET cfgs == { [NoCfg EXCEPT !.endpoint = e, !.answers = a,
                              !.instances = <<Inst(<<"web", "1">>, FALSE, FALSE),
                                              Inst(NoName, FALSE, FALSE),
                                              Inst(<<"web", "1">>, TRUE, FALSE)>>,
                              !.selectors = s, !.cloud = c, !.region = g] :
                  e \in {"", "shorter than four bytes", "ftp...", "http..."}, a \in BOOLEAN,
                  s \in {{}, {Selector("app", "web")}, {Selector("app", "")}},
                  c \in {"", "aws", "gcp"}, g \in {"", "eu"} }
  IN  {Setup("percentage", d, cfg) : d \in {"explicit", "endpoint", "kubernetes", "cloud"}, cfg \in cfgs}
      \cup {Setup("group", "explicit", Explicit(Fleet(1, 0)))}

MCSetups == Canaries \cup Marked \cup Percentages \cup Groups \cup Discoveries
===============================================================================
