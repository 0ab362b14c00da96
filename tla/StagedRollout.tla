------------------------------ MODULE StagedRollout ------------------------------
(***************************************************************************)
(* What a gradual rollout promises, whatever its strategy: once the plan is  *)
(* made the fleet is fixed, and so is what each instance waits for; then the *)
(* fleet is rotated in steps, an instance never twice and never in the same  *)
(* step as one it waits for; and a rollout that completes has rotated the    *)
(* whole fleet.  It may stop at any moment.  How the waves are counted and   *)
(* ordered, and how long they are monitored, is left out.                    *)
(***************************************************************************)
CONSTANT Positions  \* of the instances in the list discovered

VARIABLES phase,    \* of the rollout
          fleet,    \* the instances planned for
          awaits,   \* awaits[i]: the instances rotated before i
          done      \* the instances rotated

rolloutVars == <<phase, fleet, awaits, done>>

RolloutInit ==
  /\ phase = "planning"
  /\ fleet = {} /\ awaits = <<>> /\ done = {}

\* The fleet and what each of its instances waits for are settled.
Settle ==
  /\ phase = "planning" /\ phase' = "rolling"
  /\ fleet' \subseteq Positions
  /\ awaits' \in [fleet' -> SUBSET fleet']
  /\ UNCHANGED done

\* A step of the rollout: instances whose turn it is, none of them rotated before.
Advance ==
  /\ phase = "rolling"
  /\ \E step \in SUBSET (fleet \ done) :
       /\ \A i \in step : awaits[i] \subseteq done
       /\ done' = done \cup step
  /\ UNCHANGED <<phase, fleet, awaits>>

Complete ==
  /\ phase = "rolling" /\ phase' = "completed"
  /\ done = fleet
  /\ UNCHANGED <<fleet, awaits, done>>

Stop ==
  /\ phase \in {"planning", "rolling"} /\ phase' = "stopped"
  /\ UNCHANGED <<fleet, awaits, done>>

RolloutNext == Settle \/ Advance \/ Complete \/ Stop

RolloutSpec == RolloutInit /\ [][RolloutNext]_rolloutVars
===============================================================================
