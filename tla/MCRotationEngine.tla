--------------------------- MODULE MCRotationEngine ---------------------------
(***************************************************************************)
(* Requests of one secret type, hence of one status file, as the secrets of *)
(* one environment often are.                                               *)
(***************************************************************************)
EXTENDS RotationEngine, TLC

MCSecretOf  == [r \in Requests |-> CHOOSE k \in Secrets : TRUE]
MCServiceOf == [r \in Requests |-> CHOOSE s \in Services : TRUE]

\* The requests differ only by name.
Symmetry == Permutations(Requests)
===============================================================================
