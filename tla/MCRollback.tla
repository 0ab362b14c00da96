------------------------------ MODULE MCRollback ------------------------------
(***************************************************************************)
(* One target, "db/prod": what the callers do to one another they do on    *)
(* one key of the map.                                                     *)
(***************************************************************************)
EXTENDS Rollback

MCServices     == { <<"db">> }
MCEnvironments == { <<"prod">> }
===============================================================================
