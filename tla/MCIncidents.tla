--------------------------------- MODULE MCIncidents ---------------------------------
(***************************************************************************)
(* Three invocations in two seconds: two incidents with one change to one of  *)
(* them, or one with two changes, in every order and interleaving.            *)
(***************************************************************************)
EXTENDS Incidents, TLC

Alike == Permutations(Invocations)
======================================================================================
