---------------------------- MODULE MCHealthMonitor ----------------------------
(***************************************************************************)
(* One service in one environment: monitors of different keys share nothing *)
(* but the lock.                                                            *)
(***************************************************************************)
EXTENDS HealthMonitor

MCServices     == { <<"db">> }
MCEnvironments == { <<"prod">> }
===============================================================================
