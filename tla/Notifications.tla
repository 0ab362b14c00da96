----------------------------- MODULE Notifications -----------------------------
(***************************************************************************)
(* internal/rotation/notifications: rotation code hands events to a bounded  *)
(* queue, a worker goroutine takes them out and has every provider that      *)
(* supports the type send each: by mail, or to an endpoint of Slack,         *)
(* PagerDuty or a webhook.                                                   *)
(*                                                                         *)
(* A step is one critical section or one channel operation.  Between the    *)
(* reading of `running` and the use of the queue, and between an unlock and *)
(* the close or the wg.Add after it, a goroutine holds nothing.             *)
(*                                                                         *)
(* An event carries, besides its type, who sent it, as which of its events, *)
(* and the providers registered when Send was called: the last three are    *)
(* history for the properties, the manager does not look at them.           *)
(***************************************************************************)
EXTENDS Naturals, Sequences, FiniteSets, Functions

CONSTANTS
  Senders,       \* goroutines that call Send
  Owners,        \* goroutines that call Start and Stop
  Providers,     \* notification providers
  Kind,          \* Kind[p]: "email", "slack", "pagerduty" or "webhook"
  AutoResolve,   \* PagerDutyConfig.AutoResolve
  MaxAttempts,   \* RetryConfig.MaxAttempts of a webhook
  Types,         \* event types
  Supported,     \* Supported[p]: the types provider p supports
  QueueSize,     \* capacity of the queue
  MaxEvents,     \* bound: events one sender sends
  MaxStarts,     \* bound: workers launched
  MaxProviders,  \* bound: providers registered
  NoEvent        \* a worker holds no event

ASSUME NotificationsAssumption ==
  /\ IsFiniteSet(Senders)
  /\ QueueSize \in Nat \ {0}
  /\ MaxEvents \in Nat
  /\ MaxStarts \in Nat
  /\ MaxProviders \in Nat
  /\ MaxAttempts \in Nat \ {0}
  /\ AutoResolve \in BOOLEAN
  /\ Supported \in [Providers -> SUBSET Types]
  /\ Kind \in [Providers -> {"email", "slack", "pagerduty", "webhook"}]

Events ==
  [from : Senders, seq : 1..MaxEvents, type : Types, audience : SUBSET Providers]

ASSUME NoEventAssumption == NoEvent \notin Events

VARIABLES
  providers,   \* Manager.providers
  queue,       \* Manager.queue
  dropped,     \* Manager.droppedCount
  running,     \* Manager.running
  closed,      \* Manager.done is closed
  wg,          \* the counter of Manager.wg
  panicked,    \* done was closed a second time: the process is gone
  starts,      \* workers launched or about to be
  cancelled,   \* workers whose Start context is cancelled
  owner,       \* where each owner stands in Start or Stop
  pending,     \* history: the events queued when an owner's Stop cleared running
  sender,      \* the event a sender has passed the running check with
  sent,        \* Send calls each sender has begun
  refused,     \* history: events Send ignored, the manager not running
  worker,      \* where each worker goroutine stands
  hand,        \* the event it dispatches
  todo,        \* the providers that have still to send it
  budget,      \* the context of the dispatch: the worker's, or five seconds of its own
  tries,       \* requests made so far by the webhook at the head of todo
  received,    \* history: the events each provider's endpoint got, in order
  missed,      \* history: the events an endpoint did not get, and why
  finished     \* history: events whose dispatch is over

channel   == <<queue, dropped>>
lifecycle == <<running, closed, wg, panicked, starts, owner, pending>>
sending   == <<sender, sent, refused>>
delivery  == <<todo, tries, received, missed>>
working   == <<worker, hand, budget, delivery, finished>>
vars == <<providers, cancelled, channel, lifecycle, sending, working>>

Workers == 1..MaxStarts

Supports(p, event) == event.type \in Supported[p]

Init ==
  /\ providers = <<>> /\ queue = <<>> /\ dropped = 0
  /\ running = FALSE /\ closed = FALSE /\ panicked = FALSE
  /\ wg = 0 /\ starts = 0 /\ cancelled = {}
  /\ owner = [o \in Owners |-> "out"] /\ pending = [o \in Owners |-> {}]
  /\ sender = [s \in Senders |-> NoEvent] /\ sent = [s \in Senders |-> 0]
  /\ worker = [w \in Workers |-> "none"]
  /\ hand = [w \in Workers |-> NoEvent] /\ todo = [w \in Workers |-> <<>>]
  /\ budget = [w \in Workers |-> "worker"] /\ tries = [w \in Workers |-> 0]
  /\ refused = {} /\ finished = {} /\ received = [p \in Providers |-> <<>>] /\ missed = {}

RegisterProvider(p) ==
  /\ p \notin Range(providers) /\ Len(providers) < MaxProviders
  /\ providers' = Append(providers, p)
  /\ UNCHANGED <<cancelled, channel, lifecycle, sending, working>>

-------------------------------------------------------------------------------
(* Start: the claim under mu, then wg.Add and the go statement outside it.   *)
(* Stop: the claim under mu, then the close, then the wait.                  *)

OwnerMoves(o, from, to) ==
  /\ owner[o] = from
  /\ owner' = [owner EXCEPT ![o] = to]
  /\ UNCHANGED <<providers, cancelled, channel, sending>>

Start(o) ==
  /\ OwnerMoves(o, "out", "launching")
  /\ ~ running
  /\ starts < MaxStarts
  /\ running' = TRUE
  /\ starts' = starts + 1
  /\ UNCHANGED <<closed, wg, panicked, pending, working>>

\* Which of the workers not yet launched it is makes no difference.
Launch(o) ==
  /\ OwnerMoves(o, "launching", "out")
  /\ wg' = wg + 1
  /\ \E w \in Workers :
       /\ worker[w] = "none" /\ \A v \in Workers : worker[v] = "none" => w <= v
       /\ worker' = [worker EXCEPT ![w] = "select"]
  /\ UNCHANGED <<running, closed, panicked, starts, pending, hand, budget, delivery, finished>>

Stop(o) ==
  /\ OwnerMoves(o, "out", "closing")
  /\ running
  /\ running' = FALSE
  /\ pending' = [pending EXCEPT ![o] = Range(queue)]
  /\ UNCHANGED <<closed, wg, panicked, starts, working>>

\* Closing a closed channel panics.
CloseDone(o) ==
  /\ OwnerMoves(o, "closing", "waiting")
  /\ closed' = TRUE
  /\ panicked' = closed
  /\ UNCHANGED <<running, wg, starts, pending, working>>

StopReturns(o) ==
  /\ OwnerMoves(o, "waiting", "out")
  /\ wg = 0
  /\ pending' = [pending EXCEPT ![o] = {}]
  /\ UNCHANGED <<running, closed, wg, panicked, starts, working>>

\* The context given to Start is cancelled by whoever owns it.
Cancel(w) ==
  /\ worker[w] # "none"
  /\ w \notin cancelled
  /\ cancelled' = cancelled \cup {w}
  /\ UNCHANGED <<providers, channel, lifecycle, sending, working>>

-------------------------------------------------------------------------------
(* Send: the check of running, then the non-blocking send *)

Event(s, type) ==
  [ from |-> s, seq |-> sent[s] + 1, type |-> type,
    audience |-> {p \in Range(providers) : type \in Supported[p]} ]

Send(s) ==
  /\ sender[s] = NoEvent
  /\ sent[s] < MaxEvents
  /\ sent' = [sent EXCEPT ![s] = @ + 1]
  /\ \E type \in Types :
       IF running
         THEN sender' = [sender EXCEPT ![s] = Event(s, type)] /\ UNCHANGED refused
         ELSE refused' = refused \cup {Event(s, type)} /\ UNCHANGED sender
  /\ UNCHANGED <<providers, cancelled, channel, lifecycle, working>>

SendReturns(s) ==
  /\ sender[s] # NoEvent
  /\ sender' = [sender EXCEPT ![s] = NoEvent]
  /\ UNCHANGED <<providers, cancelled, lifecycle, working, sent, refused>>

\* Mutant: the newest event is served first.
EnqueueInFront(s) ==
  /\ SendReturns(s)
  /\ Len(queue) < QueueSize
  /\ queue' = <<sender[s]>> \o queue
  /\ UNCHANGED dropped

Enqueue(s) ==
  /\ SendReturns(s)
  /\ Len(queue) < QueueSize
  /\ queue' = Append(queue, sender[s])
  /\ UNCHANGED dropped

\* Mutant: the event is lost and not counted.
DropUncounted(s) ==
  /\ SendReturns(s)
  /\ Len(queue) = QueueSize
  /\ UNCHANGED channel

\* Mutant: the last place in the queue is never used.
DropTooEarly(s) ==
  /\ SendReturns(s)
  /\ Len(queue) + 1 >= QueueSize
  /\ dropped' = dropped + 1
  /\ UNCHANGED queue

\* The queue is full: the event in hand is lost.
Drop(s) ==
  /\ SendReturns(s)
  /\ Len(queue) = QueueSize
  /\ dropped' = dropped + 1
  /\ UNCHANGED queue

-------------------------------------------------------------------------------
(* The worker, in its own loop ("select") or in drainQueue's ("drain").  Once done *)
(* or the context is ready, the former may still take events for a while.    *)

WorkerMoves(w, from, to) ==
  /\ worker[w] = from
  /\ worker' = [worker EXCEPT ![w] = to]
  /\ UNCHANGED <<providers, cancelled, dropped, sending, running, closed, panicked, starts,
                 owner, pending>>

Take(w, from, context) ==
  /\ WorkerMoves(w, from, "dispatch")
  /\ queue # <<>>
  /\ queue' = Tail(queue)
  /\ hand' = [hand EXCEPT ![w] = Head(queue)]
  /\ budget' = [budget EXCEPT ![w] = context]
  /\ UNCHANGED <<wg, delivery, finished>>

Receive(w) == Take(w, "select", "worker")
\* Each event drained has five seconds, whatever became of the worker's context.
Drain(w) == Take(w, "drain", "fresh")

FiveSecondsPass(w) ==
  /\ worker[w] = "deliver" /\ budget[w] = "fresh" /\ todo[w] # <<>>
  /\ budget' = [budget EXCEPT ![w] = "spent"]
  /\ UNCHANGED <<providers, cancelled, channel, lifecycle, sending, worker, hand, delivery, finished>>

ContextDone(w) == IF budget[w] = "worker" THEN w \in cancelled ELSE budget[w] = "spent"

\* dispatchEvent reads the providers under mu and goes through them.
ReadProviders(w) ==
  /\ WorkerMoves(w, "dispatch", "deliver")
  /\ todo' = [todo EXCEPT ![w] = providers]
  /\ UNCHANGED <<queue, wg, hand, budget, tries, received, missed, finished>>

\* The provider whose turn it is.
Turn(w) ==
  /\ WorkerMoves(w, "deliver", "deliver")
  /\ todo[w] # <<>>
  /\ UNCHANGED <<queue, wg, hand, budget, finished>>

Returns(w) ==
  /\ todo' = [todo EXCEPT ![w] = Tail(@)]
  /\ tries' = [tries EXCEPT ![w] = 0]

\* It does not support the type.
Skip(w) ==
  /\ Turn(w)
  /\ ~ Supports(Head(todo[w]), hand[w])
  /\ Returns(w)
  /\ UNCHANGED <<received, missed>>

\* A call of its Send, whose error, if any, is ignored.
Sends(w, kind) ==
  /\ Turn(w)
  /\ Supports(Head(todo[w]), hand[w])
  /\ Kind[Head(todo[w])] = kind

Arrives(w) == received' = [received EXCEPT ![Head(todo[w])] = Append(@, hand[w])]

ReturnsNil(w) == Returns(w) /\ UNCHANGED missed

\* The endpoint may have the event all the same, from a request whose answer was lost.
ReturnsError(w) ==
  /\ Returns(w)
  /\ missed' = IF hand[w] \in Range(received'[Head(todo[w])]) THEN missed
               ELSE missed \cup {<<Head(todo[w]), hand[w], IF ContextDone(w) THEN "late" ELSE "refused">>}

\* No good answer: the request did not arrive, or it did and the answer was lost.
NoAnswer(w) == UNCHANGED received \/ (~ ContextDone(w) /\ Arrives(w))

\* net/smtp knows no context.
EmailSend(w) ==
  /\ Sends(w, "email")
  /\ \/ Arrives(w) /\ ReturnsNil(w)
     \/ (UNCHANGED received \/ Arrives(w)) /\ ReturnsError(w)

Post(w) ==
  \/ ~ ContextDone(w) /\ Arrives(w) /\ ReturnsNil(w)
  \/ NoAnswer(w) /\ ReturnsError(w)

SlackSend(w) == Sends(w, "slack") /\ Post(w)

\* determineAction: a completed event carries success; what is not "resolve" is "trigger".
Resolves(event) == event.type = "completed"

PagerDutySend(w) ==
  /\ Sends(w, "pagerduty")
  /\ IF Resolves(hand[w]) /\ ~ AutoResolve
     THEN ReturnsNil(w) /\ UNCHANGED received
     ELSE Post(w)

\* One attempt and, unless it was the last, the wait after it, which the context ends.
WebhookSend(w) ==
  /\ Sends(w, "webhook")
  /\ \/ ~ ContextDone(w) /\ Arrives(w) /\ ReturnsNil(w)
     \/ /\ NoAnswer(w)
        /\ IF ContextDone(w) \/ tries[w] + 1 = MaxAttempts
           THEN ReturnsError(w)
           ELSE tries' = [tries EXCEPT ![w] = @ + 1] /\ UNCHANGED <<todo, missed>>

Deliver(w) == Skip(w) \/ EmailSend(w) \/ SlackSend(w) \/ PagerDutySend(w) \/ WebhookSend(w)

Dispatched(w) ==
  /\ todo[w] = <<>>
  /\ finished' = finished \cup {hand[w]}
  /\ hand' = [hand EXCEPT ![w] = NoEvent]
  /\ UNCHANGED <<queue, wg, budget, delivery>>

\* Mutant: the worker returns after its first event.
EndDispatchAndLeave(w) == WorkerMoves(w, "deliver", "exited") /\ Dispatched(w)

EndDispatch(w) ==
  /\ WorkerMoves(w, "deliver", IF budget[w] = "worker" THEN "select" ELSE "drain")
  /\ Dispatched(w)

BeginDrain(w) ==
  /\ WorkerMoves(w, "select", "drain")
  /\ closed \/ w \in cancelled
  /\ UNCHANGED <<queue, wg, hand, budget, delivery, finished>>

\* Mutant: the worker leaves as soon as it is told to, whatever is queued.
ExitWithoutDraining(w) ==
  /\ WorkerMoves(w, "drain", "exited")
  /\ wg' = wg - 1
  /\ UNCHANGED <<queue, hand, budget, delivery, finished>>

\* Mutant: wg.Done is forgotten.
ExitSilently(w) ==
  /\ WorkerMoves(w, "drain", "exited")
  /\ queue = <<>>
  /\ UNCHANGED <<queue, wg, hand, budget, delivery, finished>>

\* drainQueue finds the queue empty; the deferred wg.Done runs.
Exit(w) ==
  /\ WorkerMoves(w, "drain", "exited")
  /\ queue = <<>>
  /\ wg' = wg - 1
  /\ UNCHANGED <<queue, hand, budget, delivery, finished>>

-------------------------------------------------------------------------------
OwnerContinues(o) == Launch(o) \/ CloseDone(o) \/ StopReturns(o)

SenderContinues(s) == Enqueue(s) \/ Drop(s)

WorkerRuns(w) ==
  \/ Receive(w) \/ ReadProviders(w) \/ Deliver(w) \/ EndDispatch(w)
  \/ BeginDrain(w) \/ Drain(w) \/ Exit(w)

Next ==
  /\ ~ panicked
  /\ \/ \E p \in Providers : RegisterProvider(p)
     \/ \E o \in Owners : Start(o) \/ Stop(o) \/ OwnerContinues(o)
     \/ \E s \in Senders : Send(s) \/ SenderContinues(s)
     \/ \E w \in Workers : Cancel(w) \/ FiveSecondsPass(w) \/ WorkerRuns(w)

Spec == Init /\ [][Next]_vars

\* The worker is in smtp.SendMail, which has no timeout and knows no context.
InMail(w) ==
  /\ worker[w] = "deliver" /\ todo[w] # <<>>
  /\ Supports(Head(todo[w]), hand[w]) /\ Kind[Head(todo[w])] = "email"

\* Goroutines that can run do run; Slack, PagerDuty and the webhooks answer or give up at
\* their HTTP timeout.  An email may take for ever, and nobody has to call Start, Stop or Send.
FairSpec ==
  /\ Spec
  /\ \A o \in Owners  : WF_vars(~ panicked /\ OwnerContinues(o))
  /\ \A s \in Senders : WF_vars(~ panicked /\ SenderContinues(s))
  /\ \A w \in Workers : WF_vars(~ panicked /\ ~ InMail(w) /\ WorkerRuns(w))

-------------------------------------------------------------------------------
(* Properties *)

\* Types of the variables of Manager and of the goroutines that use it.
TypeOK ==
  /\ providers \in Seq(Providers) /\ IsInjective(providers)
  /\ queue \in Seq(Events) /\ Len(queue) <= QueueSize
  /\ {running, closed, panicked} \subseteq BOOLEAN
  /\ wg \in 0..MaxStarts /\ starts \in 0..MaxStarts
  /\ dropped \in Nat
  /\ cancelled \subseteq Workers
  /\ worker \in [Workers -> {"none", "select", "drain", "dispatch", "deliver", "exited"}]
  /\ budget \in [Workers -> {"worker", "fresh", "spent"}]
  /\ tries \in [Workers -> 0 .. MaxAttempts - 1]
  /\ missed \subseteq (Providers \X Events \X {"late", "refused"})
  /\ hand \in [Workers -> Events \cup {NoEvent}]
  /\ todo \in [Workers -> Seq(Providers)]
  /\ owner \in [Owners -> {"out", "launching", "closing", "waiting"}]
  /\ pending \in [Owners -> SUBSET Events]
  /\ sender \in [Senders -> Events \cup {NoEvent}]
  /\ sent \in [Senders -> 0..MaxEvents]
  /\ refused \subseteq Events /\ finished \subseteq Events
  /\ received \in [Providers -> Seq(Events)]

InHand == {hand[w] : w \in Workers} \ {NoEvent}
Checked == {sender[s] : s \in Senders} \ {NoEvent}
Begun == {b \in Senders \X (1..MaxEvents) : b[2] <= sent[b[1]]}

\* No event is lost without trace and none is handled twice: every event handed to
\* Send was ignored because the manager was not running, or is on its way through
\* Send, or counted as dropped, or in the queue, or with one worker, or dispatched.
EveryEventAccounted ==
  Cardinality(Begun) = Cardinality(refused) + Cardinality(Checked) + dropped
                     + Len(queue) + Cardinality(InHand) + Cardinality(finished)

\* An endpoint gets the events of one rotation in the order they were sent ("started"
\* before "completed"), one after the other: with one owner there is never a second
\* worker to overtake.
InOrder ==
  \A p \in Providers : \A i, j \in DOMAIN received[p] :
    i < j /\ received[p][i].from = received[p][j].from
      => received[p][i].seq <= received[p][j].seq

\* Only a webhook's endpoint may get an event again, MaxAttempts times at most.
RepeatedByRetryOnly ==
  \A p \in Providers : \A i \in DOMAIN received[p] :
    Cardinality({j \in DOMAIN received[p] : received[p][j] = received[p][i]})
      <= (IF Kind[p] = "webhook" THEN MaxAttempts ELSE 1)

\* An event that was dispatched was sent by every supporting provider that had been
\* registered before Send, although earlier providers may have failed, or its endpoint
\* refused, or time was up: before Stop and without a cancelled context it never is.
AllProvidersTried ==
  /\ \A e \in finished : \A p \in e.audience :
       \/ e \in Range(received[p]) \/ \E miss \in missed : miss[1] = p /\ miss[2] = e
       \/ Kind[p] = "pagerduty" /\ Resolves(e) /\ ~ AutoResolve
  /\ (\E miss \in missed : miss[3] = "late") => closed \/ cancelled # {}

\* The types, and what is delivered: in order, not too often, and by every provider
\* (manager.go:150-180, webhook.go:165).
DeliveredInOrder == TypeOK /\ InOrder /\ RepeatedByRetryOnly /\ AllProvidersTried

Undispatched == Range(queue) \cup InHand

\* When Stop returns, no event that was queued before it is left behind; only a
\* cancelled context, on which the worker leaves early, can break this.
StopDrains ==
  [][ \A o \in Owners :
        StopReturns(o) /\ cancelled = {} => pending[o] \cap Undispatched = {} ]_vars

\* The manager may only close `done` twice, and so crash its process, when it has
\* been started again after a Stop, however the calls of Start and Stop interleave.
PanicOnlyAfterRestart == panicked => starts >= 2

\* What overlapping calls of Start, Stop and Send may cost: no event, and no panic before
\* a restart (manager.go:60-130).
NothingLost == EveryEventAccounted /\ PanicOnlyAfterRestart

\* What the manager relies on and does not enforce: the mail server answers in the end.
MailReturns == \A w \in Workers : []<> ~ InMail(w)

\* Stop returns, however the worker, other owners and senders interfere, if every call of
\* smtp.SendMail does (manager.go:72-85: the wait has no timeout either).
StopEventuallyReturns ==
  MailReturns =>
    \A o \in Owners :
      owner[o] \in {"closing", "waiting"} ~> (panicked \/ owner[o] = "out")

\* Somebody will take what is queued: a worker that has not left, or one about to be launched.
Served ==
  \/ \E w \in Workers : worker[w] \notin {"none", "exited"}
  \/ \E o \in Owners : owner[o] = "launching"

Is(event, s, n) == event.from = s /\ event.seq = n
Queued(s, n) == \E event \in Range(queue) : Is(event, s, n)

\* An event queued while a worker is there is dispatched to the end, although providers fail,
\* the manager is stopped or the worker's context is cancelled meanwhile: the worker does not
\* leave before the queue is empty.  One queued after it left stays where it is.
QueuedIsDispatched ==
  MailReturns =>
    \A s \in Senders, n \in 1..MaxEvents :
      Queued(s, n) /\ Served ~> (panicked \/ \E event \in finished : Is(event, s, n))

\* The comment on Send (manager.go:88): "If the queue is full, the oldest event is dropped".
\* Then the event given to Send is in the queue when Send returns.
NewestIsQueued ==
  [][ \A s \in Senders :
        sender[s] # NoEvent /\ sender'[s] = NoEvent => sender[s] \in Range(queue') ]_vars

\* The refinement mapping: an event is known by its sender and its number, and what became
\* of it by where it is.  One that has left Send and is nowhere was dropped.
Item(e) == <<e.from, e.seq>>
ItemsOf(events) == {Item(e) : e \in events}

StageOf(i) ==
  CASE i[2] > sent[i[1]]           -> "unsent"
    [] i \in ItemsOf(refused) -> "ignored"
    [] i \in ItemsOf(Checked) -> "offered"
    [] i \in ItemsOf(Range(queue)) -> "queued"
    [] i \in ItemsOf(InHand) -> "taken"
    [] i \in ItemsOf(finished) -> "dispatched"
    [] OTHER                       -> "dropped"

Stage == [i \in Senders \X (1..MaxEvents) |-> StageOf(i)]
Line  == [k \in DOMAIN queue |-> Item(queue[k])]

Mail == INSTANCE EventQueue WITH Capacity <- QueueSize, stage <- Stage, line <- Line

\* Whatever owners, workers and providers do, an event goes through the manager as
\* EventQueue says: once, in its turn, or, if the queue is full, perhaps not at all
\* (manager.go:92-180).
RefinesQueue == Mail!QueueSpec
===============================================================================
