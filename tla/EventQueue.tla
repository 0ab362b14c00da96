------------------------------ MODULE EventQueue ------------------------------
(***************************************************************************)
(* What the notification manager promises about an event, without its       *)
(* goroutines, its locks, its start and stop and its providers: an event is  *)
(* ignored or offered, and one that is offered is queued, taken in its turn,  *)
(* and dispatched.  It never goes back and never turns up twice.  A full     *)
(* queue costs one event; whether that is the one offered or the oldest one  *)
(* queued is left open.  A rotation announces one event after the other.     *)
(***************************************************************************)
EXTENDS Naturals, Sequences

CONSTANTS Senders,    \* the rotations that announce events
          MaxEvents,  \* bound: events of one sender
          Capacity    \* of the queue

VARIABLES stage,      \* stage[i]: what became of the n-th event of s, i being <<s, n>>
          line        \* the events queued, the oldest first

queueVars == <<stage, line>>

Items == Senders \X (1..MaxEvents)

QueueInit ==
  /\ stage = [i \in Items |-> "unsent"]
  /\ line = <<>>

Moves(i, from, to) ==
  /\ stage[i] = from
  /\ stage' = [stage EXCEPT ![i] = to]

\* The sender is done with its earlier events.
ItsTurn(i) ==
  \A j \in Items : j[1] = i[1] /\ j[2] < i[2] => stage[j] \notin {"unsent", "offered"}

Ignore(i) == ItsTurn(i) /\ Moves(i, "unsent", "ignored") /\ UNCHANGED line
Offer(i)  == ItsTurn(i) /\ Moves(i, "unsent", "offered") /\ UNCHANGED line

Queue(i) ==
  /\ Moves(i, "offered", "queued")
  /\ Len(line) < Capacity
  /\ line' = Append(line, i)

DropOffered(i) ==
  /\ Moves(i, "offered", "dropped")
  /\ Len(line) = Capacity
  /\ UNCHANGED line

DropOldest(i) ==
  /\ stage[i] = "offered"
  /\ Len(line) = Capacity
  /\ stage' = [stage EXCEPT ![i] = "queued", ![Head(line)] = "dropped"]
  /\ line' = Append(Tail(line), i)

\* Nothing is lost while there is room, and one event when there is none.
Overflow(i) == DropOffered(i) \/ DropOldest(i)

TakeOldest ==
  /\ line # <<>>
  /\ Moves(Head(line), "queued", "taken")
  /\ line' = Tail(line)

Finish(i) == Moves(i, "taken", "dispatched") /\ UNCHANGED line

QueueNext ==
  \/ TakeOldest
  \/ \E i \in Items : Ignore(i) \/ Offer(i) \/ Queue(i) \/ Overflow(i) \/ Finish(i)

QueueSpec == QueueInit /\ [][QueueNext]_queueVars
===============================================================================
