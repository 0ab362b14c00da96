----------------------------- MODULE RollbackSlot -----------------------------
(***************************************************************************)
(* What the rollback manager promises, without its state machine, its      *)
(* retries or its bookkeeping: a rollback attempt works inside a slot, a   *)
(* slot admits one caller at a time, and a caller leaves with a success    *)
(* only after it restored and then verified the secret inside that slot,   *)
(* in one uninterrupted stay.                                              *)
(***************************************************************************)
EXTENDS FiniteSets

CONSTANTS Callers,   \* the goroutines that ask for rollbacks
          Slots      \* what a rollback occupies while it runs

VARIABLES inside,    \* inside[s]: the callers working in slot s
          phase      \* phase[p]: how far caller p's present attempt has come

slotVars == <<inside, phase>>

Phases == {"outside", "working", "restored", "succeeded"}

SlotInit ==
  /\ inside = [s \in Slots |-> {}]
  /\ phase  = [p \in Callers |-> "outside"]

Claim(p, s) ==
  /\ phase[p] = "outside"
  /\ inside[s] = {}
  /\ inside' = [inside EXCEPT ![s] = {p}]
  /\ phase'  = [phase EXCEPT ![p] = "working"]

Restored(p, s) ==
  /\ phase[p] = "working"
  /\ p \in inside[s]
  /\ phase' = [phase EXCEPT ![p] = "restored"]
  /\ UNCHANGED inside

\* The restored secret passed its verification: the caller leaves the slot.
Succeed(p, s) ==
  /\ phase[p] = "restored"
  /\ p \in inside[s]
  /\ inside' = [inside EXCEPT ![s] = @ \ {p}]
  /\ phase'  = [phase EXCEPT ![p] = "succeeded"]

Fail(p, s) ==
  /\ phase[p] \in {"working", "restored"}
  /\ p \in inside[s]
  /\ inside' = [inside EXCEPT ![s] = @ \ {p}]
  /\ phase'  = [phase EXCEPT ![p] = "outside"]

\* The success is handed to whoever asked for the rollback.
Report(p) ==
  /\ phase[p] = "succeeded"
  /\ phase' = [phase EXCEPT ![p] = "outside"]
  /\ UNCHANGED inside

SlotNext ==
  \E p \in Callers :
    \/ Report(p)
    \/ \E s \in Slots : Claim(p, s) \/ Restored(p, s) \/ Succeed(p, s) \/ Fail(p, s)

SlotSpec == SlotInit /\ [][SlotNext]_slotVars
===============================================================================
