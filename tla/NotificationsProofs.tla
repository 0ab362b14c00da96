-------------------------- MODULE NotificationsProofs --------------------------
(***************************************************************************)
(* Proofs about Notifications, for every number of senders, providers,      *)
(* events and workers and every size of the queue.  Accounting holds for    *)
(* every number of owners; what relies on there being one worker at a time  *)
(* is proved for one owner.                                                 *)
(***************************************************************************)
EXTENDS Notifications, SequenceTheorems, FiniteSetTheorems, TLAPS

Active == {w \in Workers : worker[w] \notin {"none", "exited"}}

-------------------------------------------------------------------------------
(* The invariant behind the accounting *)

\* wg counts the workers that are running.
WgCounts == wg = Cardinality(Active)

\* A worker holds an event exactly while it dispatches.
HandsFull ==
  \A w \in Workers : hand[w] # NoEvent <=> worker[w] \in {"dispatch", "deliver"}

\* A sender has its own last event in hand.
SendersOwn ==
  \A s \in Senders : sender[s] # NoEvent => sender[s].from = s /\ sender[s].seq = sent[s]

\* How many events of a sender have left Send.
Passed(s) == IF sender[s] = NoEvent THEN sent[s] ELSE sent[s] - 1

\* The events that left Send bear a number it has passed.
PassedEvents == refused \cup Range(queue) \cup InHand \cup finished
NumbersPassed == \A e \in PassedEvents : e.seq <= Passed(e.from)

\* An event is in one place only.
OnePlace ==
  /\ IsInjective(queue)
  /\ \A v, w \in Workers : hand[v] = hand[w] /\ hand[v] # NoEvent => v = w
  /\ Range(queue) \cap InHand = {}
  /\ finished \cap Undispatched = {}

FiniteHistory == IsFiniteSet(refused) /\ IsFiniteSet(finished)

\* Until a second Start there is at most one Stop, and it comes after the first.
FirstRound ==
  /\ running => starts # 0
  /\ starts = 0 => ~ closed /\ \A o \in Owners : owner[o] # "closing"
  /\ starts = 1 /\ running => ~ closed /\ \A o \in Owners : owner[o] # "closing"
  /\ starts = 1 /\ closed  => \A o \in Owners : owner[o] # "closing"
  /\ starts = 1 => \A o, p \in Owners : owner[o] = "closing" /\ owner[p] = "closing" => o = p
  /\ PanicOnlyAfterRestart

TypeInv == TypeOK /\ WgCounts /\ HandsFull

AccountInv ==
  /\ TypeInv /\ SendersOwn /\ NumbersPassed /\ OnePlace /\ FiniteHistory
  /\ EveryEventAccounted

-------------------------------------------------------------------------------
(* One owner *)

OneOwner == \A o, p \in Owners : o = p

\* Start finds no worker running and Stop waits for the one there is.
OneWorker ==
  /\ \A v, w \in Active : v = w
  /\ \A o \in Owners :
       /\ owner[o] = "launching" => running /\ Active = {}
       /\ owner[o] = "out" /\ ~ running => Active = {}
       /\ running => owner[o] \in {"out", "launching"}

\* A worker drains, or has a context that ends, only when told to.
DrainIsTold ==
  /\ \A w \in Workers : worker[w] = "drain" \/ budget[w] # "worker" => closed \/ cancelled # {}
  /\ (\E miss \in missed : miss[3] = "late") => closed \/ cancelled # {}

\* Until `done` is closed or a context cancelled the worker stays.
WorkerStays ==
  ~ closed /\ cancelled = {} =>
    \A o \in Owners : (running /\ owner[o] = "out") \/ owner[o] = "closing" => Active # {}

\* What Stop waits for is dispatched once the worker is gone.
PendingDone ==
  \A o \in Owners :
    /\ \A e \in pending[o] : e.seq <= Passed(e.from)
    /\ owner[o] = "waiting" /\ ~ panicked /\ cancelled = {} /\ Active = {}
         => pending[o] \cap Undispatched = {}

LifeInv == AccountInv /\ OneWorker /\ DrainIsTold /\ WorkerStays /\ PendingDone

\* Events of one sender: received, then in hand, then queued, in the order sent.
Behind(e, f) == e.from = f.from => e.seq < f.seq
InLine ==
  /\ \A i, j \in DOMAIN queue : i < j => Behind(queue[i], queue[j])
  /\ \A w \in Workers : hand[w] # NoEvent => \A i \in DOMAIN queue : Behind(hand[w], queue[i])
  /\ \A p \in Providers : \A i \in DOMAIN received[p] :
       /\ received[p][i].seq <= Passed(received[p][i].from)
       /\ \A j \in DOMAIN queue : Behind(received[p][i], queue[j])
       /\ \A w \in Workers : hand[w] # NoEvent /\ received[p][i].from = hand[w].from
            => received[p][i].seq <= hand[w].seq

OrderInv == LifeInv /\ InLine /\ InOrder

At(p, e) == {j \in DOMAIN received[p] : received[p][j] = e}

\* What the endpoints still to be served have of the event in hand: nothing, but for the
\* webhook under way, which has at most what it was sent.
Counted(w) ==
  /\ worker[w] = "dispatch" => \A p \in Providers : At(p, hand[w]) = {}
  /\ worker[w] # "deliver" => tries[w] = 0
  /\ worker[w] = "deliver" =>
       /\ IsInjective(todo[w])
       /\ \A i \in DOMAIN todo[w] : i # 1 => At(todo[w][i], hand[w]) = {}
       /\ todo[w] # <<>> => Cardinality(At(todo[w][1], hand[w])) <= tries[w]
       /\ tries[w] # 0 => todo[w] # <<>> /\ Kind[todo[w][1]] = "webhook"
RetriesCounted == \A w \in Workers : Counted(w)

RetryInv == OrderInv /\ RetriesCounted /\ RepeatedByRetryOnly

\* A provider has sent an event as far as it could.
Tried(p, e) ==
  \/ e \in Range(received[p]) \/ \E miss \in missed : miss[1] = p /\ miss[2] = e
  \/ Kind[p] = "pagerduty" /\ Resolves(e) /\ ~ AutoResolve

\* The audience of an event under way is registered, and the rest of it is in todo.
AudienceServed ==
  /\ \A e \in Checked \cup Undispatched :
       \A p \in e.audience : p \in Range(providers) /\ Supports(p, e)
  /\ \A w \in Workers : worker[w] = "deliver" =>
       \A p \in hand[w].audience : p \in Range(todo[w]) \/ Tried(p, hand[w])
  /\ \A e \in finished : \A p \in e.audience : Tried(p, e)

ServeInv == LifeInv /\ AudienceServed

-------------------------------------------------------------------------------
(* Types *)

\* A sequence without repetitions stays so without its head, and with a new element.
LEMMA InjectiveTail ==
  ASSUME NEW S, NEW seq \in Seq(S), seq # <<>>
  PROVE  /\ Tail(seq) \in Seq(S) /\ Head(seq) \in S /\ Head(seq) = seq[1]
         /\ Len(Tail(seq)) = Len(seq) - 1 /\ Len(seq) \in Nat \ {0}
         /\ \A i \in DOMAIN Tail(seq) : Tail(seq)[i] = seq[i + 1] /\ i + 1 \in DOMAIN seq
         /\ Range(seq) = Range(Tail(seq)) \cup {Head(seq)}
         /\ IsInjective(seq) => IsInjective(Tail(seq)) /\ Head(seq) \notin Range(Tail(seq))
<1>1. /\ Tail(seq) \in Seq(S) /\ Head(seq) \in S /\ Head(seq) = seq[1]
      /\ Len(Tail(seq)) = Len(seq) - 1 /\ Len(seq) \in Nat \ {0}
  OBVIOUS
<1>2. DOMAIN seq = 1..Len(seq) /\ DOMAIN Tail(seq) = 1..Len(seq) - 1
  BY <1>1
<1>3. \A i \in 1..Len(seq) - 1 : Tail(seq)[i] = seq[i + 1] /\ i + 1 \in 1..Len(seq)
  BY <1>1
<1> DEFINE t == Tail(seq)
<1>4. DOMAIN t = 1..Len(seq) - 1 /\ \A i \in 1..Len(seq) - 1 : t[i] = seq[i + 1]
  BY <1>2, <1>3
<1> HIDE DEF t
<1>5. Range(seq) = Range(t) \cup {seq[1]}
  <2>1. \A i \in DOMAIN seq : i = 1 \/ (i - 1 \in DOMAIN t /\ seq[i] = t[i - 1])
    BY <1>1, <1>2, <1>4
  <2>2. \A i \in DOMAIN t : i + 1 \in DOMAIN seq /\ t[i] = seq[i + 1]
    BY <1>1, <1>2, <1>4
  <2>3. 1 \in DOMAIN seq
    BY <1>1, <1>2
  <2>4. QED
    BY <2>1, <2>2, <2>3 DEF Range
<1>6. ASSUME IsInjective(seq)
      PROVE  IsInjective(t) /\ seq[1] \notin Range(t)
  <2>1. \A i, j \in 1..Len(seq) : seq[i] = seq[j] => i = j
    BY <1>6, <1>2 DEF IsInjective
  <2>2. \A i, j \in 1..Len(seq) - 1 : t[i] = t[j] => i = j
    <3> TAKE i, j \in 1..Len(seq) - 1
    <3>1. i + 1 \in 1..Len(seq) /\ j + 1 \in 1..Len(seq)
      BY <1>1
    <3>2. t[i] = t[j] => i + 1 = j + 1
      BY <3>1, <2>1, <1>4
    <3>3. QED
      BY <3>2
  <2>3. \A i \in 1..Len(seq) - 1 : t[i] # seq[1]
    BY <2>1, <1>1, <1>4
  <2>4. QED
    BY <2>2, <2>3, <1>4 DEF IsInjective, Range
<1>7. QED
  BY <1>1, <1>2, <1>3, <1>5, <1>6 DEF t

\* Appending adds one element to the range.
LEMMA InjectiveAppend ==
  ASSUME NEW S, NEW seq \in Seq(S), NEW e \in S
  PROVE  /\ Append(seq, e) \in Seq(S) /\ Len(Append(seq, e)) = Len(seq) + 1
         /\ DOMAIN Append(seq, e) = DOMAIN seq \cup {Len(seq) + 1}
         /\ Append(seq, e)[Len(seq) + 1] = e
         /\ \A i \in DOMAIN seq : Append(seq, e)[i] = seq[i] /\ i < Len(seq) + 1
         /\ Range(Append(seq, e)) = Range(seq) \cup {e}
         /\ IsInjective(seq) /\ e \notin Range(seq) => IsInjective(Append(seq, e))
<1> DEFINE t == Append(seq, e)
<1>1. t \in Seq(S) /\ Len(t) = Len(seq) + 1 /\ t[Len(seq) + 1] = e
  OBVIOUS
<1>2. \A i \in 1..Len(seq) : t[i] = seq[i]
  OBVIOUS
<1>3. Len(seq) \in Nat /\ DOMAIN seq = 1..Len(seq) /\ DOMAIN t = 1..Len(seq) + 1
  BY <1>1
<1> HIDE DEF t
<1>4. DOMAIN t = DOMAIN seq \cup {Len(seq) + 1}
  BY <1>3
<1>5. \A i \in DOMAIN seq : t[i] = seq[i] /\ i < Len(seq) + 1
  BY <1>2, <1>3
<1>6. Range(t) = Range(seq) \cup {e}
  BY <1>1, <1>4, <1>5 DEF Range
<1>7. ASSUME IsInjective(seq), e \notin Range(seq)
      PROVE  IsInjective(t)
  <2>1. \A i \in DOMAIN seq : seq[i] # e
    BY <1>7 DEF Range
  <2>2. QED
    BY <2>1, <1>7, <1>1, <1>4, <1>5 DEF IsInjective
<1>8. QED
  BY <1>1, <1>4, <1>5, <1>6, <1>7 DEF t

\* What a turn of the dispatch loop changes.
DeliverEffect(w) ==
  LET p == Head(todo[w]) IN
  /\ worker[w] = "deliver" /\ todo[w] # <<>>
  /\ UNCHANGED <<providers, cancelled, queue, dropped, lifecycle, sending, worker, hand, budget, finished>>
  /\ received' = received \/ (Supports(p, hand[w]) /\ Arrives(w))
  /\ \/ /\ Kind[p] = "webhook" /\ tries[w] + 1 # MaxAttempts
        /\ tries' = [tries EXCEPT ![w] = @ + 1]
        /\ UNCHANGED <<todo, missed>>
     \/ /\ Returns(w)
        /\ UNCHANGED missed \/ ReturnsError(w)
        /\ Supports(p, hand[w]) =>
             \/ received' # received \/ ReturnsError(w)
             \/ Kind[p] = "pagerduty" /\ Resolves(hand[w]) /\ ~ AutoResolve
        /\ Kind[p] # "webhook" => tries'[w] = 0

\* The five ways a turn may go come down to that.
LEMMA DeliverDoes ==
  ASSUME TypeOK, NEW w \in Workers, Deliver(w)
  PROVE  DeliverEffect(w)
<1> DEFINE p == Head(todo[w])
<1>1. /\ worker[w] = "deliver" /\ todo[w] # <<>>
      /\ UNCHANGED <<providers, cancelled, queue, dropped, lifecycle, sending, hand, budget, finished>>
      /\ worker' = [worker EXCEPT ![w] = "deliver"]
  BY DEF Deliver, Skip, EmailSend, SlackSend, PagerDutySend, WebhookSend, Sends, Turn,
         WorkerMoves, lifecycle, sending
<1>2. worker' = worker
  BY <1>1 DEF TypeOK
<1>3. Returns(w) => tries'[w] = 0
  BY DEF Returns, TypeOK
<1>4. ASSUME Returns(w), received' = received \/ (Supports(p, hand[w]) /\ Arrives(w)),
             UNCHANGED missed \/ ReturnsError(w),
             Supports(p, hand[w]) =>
               \/ received' # received \/ ReturnsError(w)
               \/ Kind[p] = "pagerduty" /\ Resolves(hand[w]) /\ ~ AutoResolve
      PROVE  DeliverEffect(w)
  BY <1>1, <1>2, <1>3, <1>4, Zenon DEF DeliverEffect
<1>5. Arrives(w) /\ Supports(p, hand[w]) => received' # received
  <2> SUFFICES ASSUME Arrives(w), Supports(p, hand[w]), received' = received
               PROVE  FALSE
    OBVIOUS
  <2>1. p \in Providers
    BY <1>1 DEF TypeOK
  <2>2. received[p] \in Seq(Events)
    BY <2>1 DEF TypeOK
  <2>3. received'[p] = Append(received[p], hand[w])
    BY <2>1 DEF Arrives, TypeOK
  <2>4. Len(received'[p]) = Len(received[p]) + 1 /\ Len(received[p]) \in Nat
    BY <2>2, <2>3
  <2>5. QED
    BY <2>4
<1>6. CASE Skip(w)
  BY <1>4, <1>6 DEF Skip
<1>7. ASSUME Supports(p, hand[w]), Post(w)
      PROVE  DeliverEffect(w)
  BY <1>4, <1>5, <1>7 DEF Post, NoAnswer, ReturnsNil, ReturnsError
<1>8. CASE EmailSend(w)
  BY <1>4, <1>5, <1>8 DEF EmailSend, Sends, ReturnsNil, ReturnsError
<1>9. CASE SlackSend(w)
  BY <1>7, <1>9 DEF SlackSend, Sends
<1>10. CASE PagerDutySend(w)
  <2>1. Supports(p, hand[w]) /\ Kind[p] = "pagerduty"
    BY <1>10 DEF PagerDutySend, Sends
  <2>2. CASE Resolves(hand[w]) /\ ~ AutoResolve
    <3>1. ReturnsNil(w) /\ received' = received
      BY <1>10, <2>2 DEF PagerDutySend
    <3>2. QED
      BY <3>1, <2>1, <2>2, <1>4 DEF ReturnsNil
  <2>3. CASE ~ (Resolves(hand[w]) /\ ~ AutoResolve)
    BY <1>7, <1>10, <2>1, <2>3 DEF PagerDutySend
  <2>4. QED
    BY <2>2, <2>3
<1>11. CASE WebhookSend(w)
  <2>1. Supports(p, hand[w]) /\ Kind[p] = "webhook"
    BY <1>11 DEF WebhookSend, Sends
  <2>2. CASE ~ ContextDone(w) /\ Arrives(w) /\ ReturnsNil(w)
    BY <2>1, <2>2, <1>4, <1>5 DEF ReturnsNil
  <2>3. CASE NoAnswer(w) /\ ReturnsError(w)
    BY <2>1, <2>3, <1>4 DEF NoAnswer, ReturnsError
  <2>4. CASE /\ NoAnswer(w) /\ tries[w] + 1 # MaxAttempts
             /\ tries' = [tries EXCEPT ![w] = @ + 1] /\ UNCHANGED <<todo, missed>>
    <3>1. received' = received \/ (Supports(p, hand[w]) /\ Arrives(w))
      BY <2>1, <2>4 DEF NoAnswer
    <3>2. QED
      BY <3>1, <2>1, <2>4, <1>1, <1>2 DEF DeliverEffect
  <2>5. QED
    BY <1>11, <2>2, <2>3, <2>4 DEF WebhookSend
<1>12. QED
  BY <1>6, <1>8, <1>9, <1>10, <1>11 DEF Deliver

\* The invariants are kept by steps that change none of their variables.
LEMMA ActiveFinite ==
  ASSUME TypeOK
  PROVE  /\ IsFiniteSet(Active) /\ Cardinality(Active) \in 0..MaxStarts
         /\ \A w \in Workers : IsFiniteSet(Active \cup {w}) /\ Cardinality(Active \cup {w}) <= MaxStarts
<1>1. IsFiniteSet(Workers) /\ Cardinality(Workers) = MaxStarts
  <2>1. MaxStarts \in Int /\ 1 \in Int /\ MaxStarts >= 0
    BY NotificationsAssumption
  <2>2. IsFiniteSet(1..MaxStarts) /\ Cardinality(1..MaxStarts) = IF 1 > MaxStarts THEN 0 ELSE MaxStarts - 1 + 1
    BY <2>1, FS_Interval
  <2>3. QED
    BY <2>1, <2>2 DEF Workers
<1>2. \A S \in SUBSET Workers : IsFiniteSet(S) /\ Cardinality(S) \in Nat /\ Cardinality(S) <= MaxStarts
  BY <1>1, FS_Subset, FS_CardinalityType
<1>3. Active \in SUBSET Workers /\ \A w \in Workers : Active \cup {w} \in SUBSET Workers
  BY DEF Active
<1>4. QED
  BY <1>2, <1>3, NotificationsAssumption

\* A worker that stays in its loop leaves the number of those running alone, one that is
\* launched raises it by one and one that exits lowers it by one.
LEMMA ActiveMoves ==
  ASSUME TypeOK, NEW w \in Workers, NEW to, worker' = [worker EXCEPT ![w] = to]
  PROVE  /\ w \in Active /\ to \notin {"none", "exited"} => Active' = Active
         /\ w \notin Active /\ to \notin {"none", "exited"} =>
              /\ Active' = Active \cup {w} /\ Cardinality(Active') = Cardinality(Active) + 1
              /\ Cardinality(Active') <= MaxStarts
         /\ w \in Active /\ to = "exited" =>
              /\ Active' = Active \ {w} /\ Cardinality(Active') = Cardinality(Active) - 1
              /\ Cardinality(Active) > 0
<1>1. worker'[w] = to /\ \A v \in Workers \ {w} : worker'[v] = worker[v]
  BY DEF TypeOK
<1>2. ASSUME w \in Active, to \notin {"none", "exited"} PROVE Active' = Active
  BY <1>1, <1>2 DEF Active
<1>3. ASSUME w \notin Active, to \notin {"none", "exited"} PROVE Active' = Active \cup {w}
  BY <1>1, <1>3 DEF Active
<1>4. ASSUME w \in Active, to = "exited" PROVE Active' = Active \ {w}
  BY <1>1, <1>4 DEF Active
<1>5. IsFiniteSet(Active) /\ Cardinality(Active) \in Nat
  BY ActiveFinite
<1>6. w \notin Active => Cardinality(Active \cup {w}) = Cardinality(Active) + 1
  BY <1>5, FS_AddElement
<1>7. w \in Active => Cardinality(Active \ {w}) = Cardinality(Active) - 1 /\ Cardinality(Active) # 0
  BY <1>5, FS_RemoveElement, FS_EmptySet
<1>8. Cardinality(Active \cup {w}) <= MaxStarts
  BY ActiveFinite
<1>9. ASSUME w \notin Active, to \notin {"none", "exited"}
      PROVE  /\ Active' = Active \cup {w} /\ Cardinality(Active') = Cardinality(Active) + 1
             /\ Cardinality(Active') <= MaxStarts
  <2>1. Active' = Active \cup {w}
    BY <1>3, <1>9
  <2>2. QED
    BY <2>1, <1>6, <1>8, <1>9, Zenon
<1>10. ASSUME w \in Active, to = "exited"
       PROVE  /\ Active' = Active \ {w} /\ Cardinality(Active') = Cardinality(Active) - 1
              /\ Cardinality(Active) > 0
  <2>1. Active' = Active \ {w}
    BY <1>4, <1>10
  <2>2. Cardinality(Active') = Cardinality(Active) - 1
    BY <2>1, <1>7, <1>10, Zenon
  <2>3. Cardinality(Active) > 0
    BY <1>5, <1>7, <1>10
  <2>4. QED
    BY <2>1, <2>2, <2>3
<1>11. QED
  BY <1>2, <1>9, <1>10

\* Registering, sending and cancelling keep the types.
LEMMA SenderTypes ==
  ASSUME TypeInv,
         \/ \E p \in Providers : RegisterProvider(p)
         \/ \E s \in Senders : Send(s) \/ SenderContinues(s)
         \/ \E w \in Workers : Cancel(w)
  PROVE  TypeInv'
<1> USE DEF channel, lifecycle, sending, delivery, working
<1> USE DEF TypeInv
<1>1. UNCHANGED <<wg, worker, hand>>
  BY DEF RegisterProvider, Send, SenderContinues, Enqueue, Drop, SendReturns, Cancel
<1>2. WgCounts' /\ HandsFull'
  BY <1>1 DEF WgCounts, Active, HandsFull
<1>3. ASSUME NEW p \in Providers, RegisterProvider(p)
      PROVE  TypeOK'
  <2>1. p \notin Range(providers) /\ providers' = Append(providers, p)
    BY <1>3 DEF RegisterProvider
  <2>2. providers \in Seq(Providers) /\ IsInjective(providers)
    BY DEF TypeOK
  <2>3. providers' \in Seq(Providers) /\ IsInjective(providers')
    BY <2>1, <2>2, InjectiveAppend
  <2>4. UNCHANGED <<cancelled, channel, lifecycle, sending, working>>
    BY <1>3 DEF RegisterProvider
  <2>5. QED
    BY <2>3, <2>4 DEF TypeOK
<1>4. ASSUME NEW s \in Senders, Send(s)
      PROVE  TypeOK'
  <2>1. UNCHANGED <<providers, cancelled, channel, lifecycle, working>>
    BY <1>4 DEF Send
  <2>2. PICK type \in Types :
          \/ sender' = [sender EXCEPT ![s] = Event(s, type)] /\ UNCHANGED refused
          \/ refused' = refused \cup {Event(s, type)} /\ UNCHANGED sender
    BY <1>4 DEF Send
  <2>3. sent[s] + 1 \in 1..MaxEvents /\ sent[s] + 1 \in 0..MaxEvents
    BY <1>4, NotificationsAssumption DEF Send, TypeOK
  <2>4. Event(s, type) \in Events
    <3>1. Range(providers) \subseteq Providers
      BY DEF TypeOK, Range
    <3>2. QED
      BY <2>3, <3>1 DEF Event, Events
  <2>5. sent' \in [Senders -> 0..MaxEvents]
    BY <1>4, <2>3 DEF Send, TypeOK
  <2>6. sender' \in [Senders -> Events \cup {NoEvent}] /\ refused' \subseteq Events
    BY <2>2, <2>4 DEF TypeOK
  <2>7. QED
    BY <2>1, <2>5, <2>6 DEF TypeOK
<1>5. ASSUME NEW s \in Senders, Enqueue(s)
      PROVE  TypeOK'
  <2>1. UNCHANGED <<providers, cancelled, lifecycle, working, sent, refused, dropped>>
    BY <1>5 DEF Enqueue, SendReturns
  <2>2. sender[s] \in Events /\ queue \in Seq(Events) /\ Len(queue) < QueueSize
    BY <1>5 DEF Enqueue, SendReturns, TypeOK
  <2>3. queue' \in Seq(Events) /\ Len(queue') <= QueueSize
    BY <1>5, <2>2, NotificationsAssumption DEF Enqueue
  <2>4. sender' \in [Senders -> Events \cup {NoEvent}]
    BY <1>5 DEF Enqueue, SendReturns, TypeOK
  <2>5. QED
    BY <2>1, <2>3, <2>4 DEF TypeOK
<1>6. ASSUME NEW s \in Senders, Drop(s)
      PROVE  TypeOK'
  <2>1. UNCHANGED <<providers, cancelled, lifecycle, working, sent, refused, queue>>
    BY <1>6 DEF Drop, SendReturns
  <2>2. dropped' \in Nat
    BY <1>6 DEF Drop, TypeOK
  <2>3. sender' \in [Senders -> Events \cup {NoEvent}]
    BY <1>6 DEF Drop, SendReturns, TypeOK
  <2>4. QED
    BY <2>1, <2>2, <2>3 DEF TypeOK
<1>7. ASSUME NEW w \in Workers, Cancel(w)
      PROVE  TypeOK'
  BY <1>7 DEF Cancel, TypeOK
<1>8. QED
  BY <1>2, <1>3, <1>4, <1>5, <1>6, <1>7 DEF SenderContinues

\* Starting and stopping keep the types.
LEMMA OwnerTypes ==
  ASSUME TypeInv, NEW o \in Owners, Start(o) \/ Stop(o) \/ OwnerContinues(o)
  PROVE  TypeInv'
<1> USE DEF channel, lifecycle, sending, delivery, working, OwnerMoves, TypeInv
<1>1. CASE Start(o)
  <2>1. TypeOK'
    BY <1>1, NotificationsAssumption DEF Start, TypeOK
  <2>2. WgCounts' /\ HandsFull'
    BY <1>1 DEF Start, WgCounts, Active, HandsFull
  <2>3. QED
    BY <2>1, <2>2
<1>2. CASE Launch(o)
  <2>1. PICK w \in Workers : worker[w] = "none" /\ worker' = [worker EXCEPT ![w] = "select"]
    BY <1>2 DEF Launch
  <2>2. /\ UNCHANGED <<running, closed, panicked, starts, pending, hand, budget, delivery, finished>>
        /\ UNCHANGED <<providers, cancelled, channel, sending>>
        /\ wg' = wg + 1
        /\ owner' = [owner EXCEPT ![o] = "out"]
    BY <1>2 DEF Launch
  <2>3. w \notin Active
    BY <2>1 DEF Active
  <2>4. Cardinality(Active') = Cardinality(Active) + 1 /\ Cardinality(Active') <= MaxStarts
    <3>1. "select" \notin {"none", "exited"} /\ TypeOK
      OBVIOUS
    <3>2. QED
      BY <2>1, <2>3, <3>1, ActiveMoves, Zenon
  <2>5. WgCounts' /\ wg' \in 0..MaxStarts
    BY <2>2, <2>4, ActiveFinite, NotificationsAssumption DEF WgCounts
  <2>6. HandsFull'
    BY <2>1, <2>2 DEF HandsFull, TypeOK
  <2>7. worker' \in [Workers -> {"none", "select", "drain", "dispatch", "deliver", "exited"}]
    BY <2>1 DEF TypeOK
  <2>8. owner' \in [Owners -> {"out", "launching", "closing", "waiting"}]
    BY <2>2 DEF TypeOK
  <2>9. TypeOK'
    BY <2>2, <2>5, <2>7, <2>8 DEF TypeOK
  <2>10. QED
    BY <2>5, <2>6, <2>9
<1>3. CASE Stop(o)
  <2>1. Range(queue) \subseteq Events
    BY DEF TypeOK, Range
  <2>2. TypeOK'
    BY <1>3, <2>1 DEF Stop, TypeOK
  <2>3. WgCounts' /\ HandsFull'
    BY <1>3 DEF Stop, WgCounts, Active, HandsFull
  <2>4. QED
    BY <2>2, <2>3
<1>4. CASE CloseDone(o)
  <2>1. TypeOK'
    BY <1>4 DEF CloseDone, TypeOK
  <2>2. WgCounts' /\ HandsFull'
    BY <1>4 DEF CloseDone, WgCounts, Active, HandsFull
  <2>3. QED
    BY <2>1, <2>2
<1>5. CASE StopReturns(o)
  <2>1. TypeOK'
    BY <1>5 DEF StopReturns, TypeOK
  <2>2. WgCounts' /\ HandsFull'
    BY <1>5 DEF StopReturns, WgCounts, Active, HandsFull
  <2>3. QED
    BY <2>1, <2>2
<1>6. QED
  BY <1>1, <1>2, <1>3, <1>4, <1>5 DEF OwnerContinues

\* Taking an event out of the queue.
LEMMA TakeTypes ==
  ASSUME TypeInv, NEW w \in Workers, Receive(w) \/ Drain(w)
  PROVE  TypeInv'
<1> USE DEF channel, lifecycle, sending, delivery, working, TypeInv, WorkerMoves
<1>1. PICK from \in {"select", "drain"}, context \in {"worker", "fresh"} : Take(w, from, context)
  BY DEF Receive, Drain
<1>2. queue \in Seq(Events) /\ queue # <<>>
  BY <1>1 DEF Take, TypeOK
<1>3. Tail(queue) \in Seq(Events) /\ Len(Tail(queue)) <= QueueSize /\ Head(queue) \in Events
  <2>1. Len(queue) <= QueueSize
    BY DEF TypeOK
  <2>2. /\ Tail(queue) \in Seq(Events) /\ Head(queue) \in Events
        /\ Len(Tail(queue)) = Len(queue) - 1 /\ Len(queue) \in Nat
    BY <1>2, InjectiveTail
  <2>3. QED
    BY <2>1, <2>2, NotificationsAssumption
<1>4. /\ worker[w] = from /\ worker' = [worker EXCEPT ![w] = "dispatch"]
      /\ queue' = Tail(queue)
      /\ hand' = [hand EXCEPT ![w] = Head(queue)]
      /\ budget' = [budget EXCEPT ![w] = context]
      /\ UNCHANGED <<providers, cancelled, dropped, sending, running, closed, panicked, starts,
                     owner, pending, wg, delivery, finished>>
  BY <1>1 DEF Take
<1>5. w \in Active
  BY <1>4 DEF Active
<1>6. Active' = Active
  BY <1>4, ActiveMoves DEF Active
<1>7. WgCounts'
  BY <1>4, <1>6 DEF WgCounts
<1>8. HandsFull'
  BY <1>3, <1>4, NoEventAssumption DEF HandsFull, TypeOK
<1>9. hand' \in [Workers -> Events \cup {NoEvent}] /\ budget' \in [Workers -> {"worker", "fresh", "spent"}]
  BY <1>3, <1>4 DEF TypeOK
<1>10. worker' \in [Workers -> {"none", "select", "drain", "dispatch", "deliver", "exited"}]
  BY <1>4 DEF TypeOK
<1>11. TypeOK'
  BY <1>3, <1>4, <1>9, <1>10 DEF TypeOK
<1>12. QED
  BY <1>7, <1>8, <1>11

\* A turn of the dispatch loop.
LEMMA DeliverTypes ==
  ASSUME TypeInv, NEW w \in Workers, Deliver(w)
  PROVE  TypeInv'
<1> USE DEF channel, lifecycle, sending, delivery, working, TypeInv
<1> DEFINE p == Head(todo[w])
<1>1. DeliverEffect(w)
  BY DeliverDoes
<1>2. WgCounts' /\ HandsFull'
  BY <1>1 DEF DeliverEffect, WgCounts, Active, HandsFull
<1>3. todo[w] \in Seq(Providers) /\ todo[w] # <<>> /\ hand[w] \in Events
  BY <1>1 DEF DeliverEffect, TypeOK, HandsFull
<1>4. p \in Providers /\ Tail(todo[w]) \in Seq(Providers)
  BY <1>3, InjectiveTail
<1> HIDE DEF p
<1>5. received' \in [Providers -> Seq(Events)]
  <2>1. \A q \in Providers : Append(received[q], hand[w]) \in Seq(Events)
    BY <1>3, InjectiveAppend DEF TypeOK
  <2>2. QED
    BY <1>1, <1>4, <2>1 DEF DeliverEffect, Arrives, TypeOK, p
<1>6. todo' \in [Workers -> Seq(Providers)]
  BY <1>1, <1>4 DEF DeliverEffect, Returns, TypeOK
<1>7. tries' \in [Workers -> 0 .. MaxAttempts - 1]
  <2>1. tries \in [Workers -> 0 .. MaxAttempts - 1] /\ MaxAttempts \in Nat \ {0}
    BY NotificationsAssumption DEF TypeOK
  <2>2. CASE tries[w] + 1 # MaxAttempts /\ tries' = [tries EXCEPT ![w] = @ + 1]
    <3>1. tries[w] + 1 \in 0 .. MaxAttempts - 1
      BY <2>1, <2>2
    <3>2. QED
      BY <2>1, <2>2, <3>1
  <2>3. CASE tries' = [tries EXCEPT ![w] = 0]
    <3>1. 0 \in 0 .. MaxAttempts - 1
      BY <2>1
    <3>2. QED
      BY <2>1, <2>3, <3>1
  <2>4. QED
    BY <1>1, <2>2, <2>3 DEF DeliverEffect, Returns
<1>8. missed' \subseteq (Providers \X Events \X {"late", "refused"})
  <2>1. <<p, hand[w], IF ContextDone(w) THEN "late" ELSE "refused">> \in Providers \X Events \X {"late", "refused"}
    BY <1>3, <1>4
  <2>2. missed' = missed \/ missed' = missed \cup {<<p, hand[w], IF ContextDone(w) THEN "late" ELSE "refused">>}
    BY <1>1 DEF DeliverEffect, ReturnsError, p
  <2>3. QED
    BY <2>1, <2>2 DEF TypeOK
<1>9. TypeOK'
  BY <1>1, <1>5, <1>6, <1>7, <1>8 DEF DeliverEffect, TypeOK
<1>10. QED
  BY <1>2, <1>9

\* The other steps of a worker.
LEMMA WorkerTypes ==
  ASSUME TypeInv, NEW w \in Workers,
         FiveSecondsPass(w) \/ ReadProviders(w) \/ EndDispatch(w) \/ BeginDrain(w) \/ Exit(w)
  PROVE  TypeInv'
<1> USE DEF channel, lifecycle, sending, delivery, working, TypeInv, WorkerMoves
<1>1. CASE FiveSecondsPass(w)
  <2>1. WgCounts' /\ HandsFull'
    BY <1>1 DEF FiveSecondsPass, WgCounts, Active, HandsFull
  <2>2. QED
    BY <1>1, <2>1 DEF FiveSecondsPass, TypeOK
<1>2. CASE ReadProviders(w)
  <2>1. worker[w] = "dispatch" /\ worker' = [worker EXCEPT ![w] = "deliver"] /\ UNCHANGED <<wg, hand>>
    BY <1>2 DEF ReadProviders
  <2>2. Active' = Active
    BY <2>1, ActiveMoves DEF Active
  <2>3. WgCounts' /\ HandsFull'
    BY <2>1, <2>2 DEF WgCounts, HandsFull, TypeOK
  <2>4. TypeOK'
    BY <1>2 DEF ReadProviders, TypeOK
  <2>5. QED
    BY <2>3, <2>4
<1>3. CASE EndDispatch(w)
  <2>1. PICK to \in {"select", "drain"} : worker' = [worker EXCEPT ![w] = to]
    BY <1>3 DEF EndDispatch
  <2>2. /\ worker[w] = "deliver" /\ wg' = wg
        /\ hand' = [hand EXCEPT ![w] = NoEvent]
        /\ finished' = finished \cup {hand[w]}
        /\ UNCHANGED <<providers, cancelled, dropped, sending, running, closed, panicked, starts,
                 owner, pending, queue, budget, delivery>>
    BY <1>3 DEF EndDispatch, Dispatched
  <2>3. Active' = Active
    BY <2>1, <2>2, ActiveMoves DEF Active
  <2>4. WgCounts' /\ HandsFull'
    BY <2>1, <2>2, <2>3 DEF WgCounts, HandsFull, TypeOK
  <2>5. finished' \subseteq Events
    BY <2>2 DEF TypeOK, HandsFull
  <2>6. hand' \in [Workers -> Events \cup {NoEvent}]
    BY <2>2 DEF TypeOK
  <2>7. worker' \in [Workers -> {"none", "select", "drain", "dispatch", "deliver", "exited"}]
    BY <2>1 DEF TypeOK
  <2>8. TypeOK'
    BY <2>2, <2>5, <2>6, <2>7 DEF TypeOK
  <2>9. QED
    BY <2>4, <2>8
<1>4. CASE BeginDrain(w)
  <2>1. worker[w] = "select" /\ worker' = [worker EXCEPT ![w] = "drain"] /\ UNCHANGED <<wg, hand>>
    BY <1>4 DEF BeginDrain
  <2>2. Active' = Active
    BY <2>1, ActiveMoves DEF Active
  <2>3. WgCounts' /\ HandsFull'
    BY <2>1, <2>2 DEF WgCounts, HandsFull, TypeOK
  <2>4. TypeOK'
    BY <1>4 DEF BeginDrain, TypeOK
  <2>5. QED
    BY <2>3, <2>4
<1>5. CASE Exit(w)
  <2>1. /\ worker[w] = "drain" /\ worker' = [worker EXCEPT ![w] = "exited"] /\ wg' = wg - 1
        /\ UNCHANGED <<providers, cancelled, dropped, sending, running, closed, panicked, starts,
                 owner, pending, queue, hand, budget, delivery, finished>>
    BY <1>5 DEF Exit
  <2>2. Cardinality(Active') = Cardinality(Active) - 1 /\ Cardinality(Active) > 0
    BY <2>1, ActiveMoves DEF Active
  <2>3. WgCounts' /\ wg' \in 0..MaxStarts
    BY <2>1, <2>2, ActiveFinite, NotificationsAssumption DEF WgCounts
  <2>4. HandsFull'
    BY <2>1 DEF HandsFull, TypeOK
  <2>5. worker' \in [Workers -> {"none", "select", "drain", "dispatch", "deliver", "exited"}]
    BY <2>1 DEF TypeOK
  <2>6. TypeOK'
    BY <2>1, <2>3, <2>5 DEF TypeOK
  <2>7. QED
    BY <2>3, <2>4, <2>6
<1>6. QED
  BY <1>1, <1>2, <1>3, <1>4, <1>5

\* The types, the counter wg and the hands of the workers.
LEMMA TypeInvariant == Spec => []TypeInv
<1>1. Init => TypeInv
  <2> SUFFICES ASSUME Init PROVE TypeInv
    OBVIOUS
  <2>1. Active = {}
    BY DEF Init, Active
  <2>2. WgCounts
    BY <2>1, FS_EmptySet DEF Init, WgCounts
  <2>3. HandsFull
    BY DEF Init, HandsFull
  <2>4. IsInjective(<<>>)
    BY DEF IsInjective
  <2>5. TypeOK
    <3>1. Len(queue) <= QueueSize
      BY NotificationsAssumption DEF Init
    <3>2. wg \in 0..MaxStarts /\ starts \in 0..MaxStarts /\ dropped \in Nat
      BY NotificationsAssumption DEF Init
    <3>3. tries \in [Workers -> 0 .. MaxAttempts - 1] /\ sent \in [Senders -> 0..MaxEvents]
      BY NotificationsAssumption DEF Init
    <3>4. {running, closed, panicked} \subseteq BOOLEAN
      BY DEF Init
    <3>5. QED
      BY <2>4, <3>1, <3>2, <3>3, <3>4 DEF Init, TypeOK
  <2>6. QED
    BY <2>2, <2>3, <2>5 DEF TypeInv
<1>2. TypeInv /\ [Next]_vars => TypeInv'
  <2> SUFFICES ASSUME TypeInv, [Next]_vars PROVE TypeInv'
    OBVIOUS
  <2>1. CASE UNCHANGED vars
    BY <2>1 DEF vars, channel, lifecycle, sending, delivery, working, TypeInv, TypeOK, WgCounts,
                Active, HandsFull
  <2>2. QED
    BY <2>1, SenderTypes, OwnerTypes, TakeTypes, DeliverTypes, WorkerTypes DEF Next, WorkerRuns
<1>3. QED
  BY <1>1, <1>2, PTL DEF Spec

-------------------------------------------------------------------------------
(* Accounting *)

\* A function on a finite set has finitely many values.
LEMMA FiniteImage ==
  ASSUME NEW S, NEW T, NEW f \in [S -> T], IsFiniteSet(S)
  PROVE  IsFiniteSet({f[x] : x \in S})
<1> DEFINE I == {f[x] : x \in S}
<1>1. f \in Surjection(S, I)
  BY DEF Surjection
<1>2. QED
  BY <1>1, FS_Surjection

\* The sets that are counted are finite.
LEMMA CountedFinite ==
  ASSUME TypeOK
  PROVE  /\ IsFiniteSet(Begun)   /\ Cardinality(Begun) \in Nat
         /\ IsFiniteSet(Checked) /\ Cardinality(Checked) \in Nat
         /\ IsFiniteSet(InHand)  /\ Cardinality(InHand) \in Nat
<1>1. IsFiniteSet(Begun)
  <2>1. 1 \in Int /\ MaxEvents \in Int
    BY NotificationsAssumption
  <2>2. IsFiniteSet(1..MaxEvents)
    BY <2>1, FS_Interval
  <2>3. IsFiniteSet(Senders \X (1..MaxEvents))
    BY <2>2, NotificationsAssumption, FS_Product
  <2>4. Begun \subseteq Senders \X (1..MaxEvents)
    BY DEF Begun
  <2>5. QED
    BY <2>3, <2>4, FS_Subset
<1>2. IsFiniteSet(Checked)
  <2>1. sender \in [Senders -> Events \cup {NoEvent}]
    BY DEF TypeOK
  <2>2. IsFiniteSet({sender[s] : s \in Senders})
    <3>1. IsFiniteSet(Senders)
      BY NotificationsAssumption
    <3>2. QED
      BY <2>1, <3>1, FiniteImage, Zenon
  <2>3. Checked \subseteq {sender[s] : s \in Senders}
    BY DEF Checked
  <2>4. QED
    BY <2>2, <2>3, FS_Subset
<1>3. IsFiniteSet(InHand)
  <2>1. 1 \in Int /\ MaxStarts \in Int
    BY NotificationsAssumption
  <2>2. IsFiniteSet(Workers)
    BY <2>1, FS_Interval DEF Workers
  <2>3. IsFiniteSet({hand[w] : w \in Workers})
    <3>1. hand \in [Workers -> Events \cup {NoEvent}]
      BY DEF TypeOK
    <3>2. QED
      BY <2>2, <3>1, FiniteImage, Zenon
  <2>4. InHand \subseteq {hand[w] : w \in Workers}
    BY DEF InHand
  <2>5. QED
    BY <2>3, <2>4, FS_Subset
<1>4. QED
  BY <1>1, <1>2, <1>3, FS_CardinalityType

\* Send hands out a number no event has borne yet.
LEMMA SendAccounts ==
  ASSUME AccountInv, TypeInv', NEW s \in Senders, Send(s)
  PROVE  AccountInv'
<1> USE DEF channel, lifecycle, sending, delivery, working, AccountInv, TypeInv
<1>1. /\ sender[s] = NoEvent /\ sent[s] < MaxEvents
      /\ sent' = [sent EXCEPT ![s] = sent[s] + 1]
      /\ UNCHANGED <<dropped, queue, hand, finished>>
  BY DEF Send
<1>2. PICK type \in Types :
          \/ sender' = [sender EXCEPT ![s] = Event(s, type)] /\ UNCHANGED refused
          \/ refused' = refused \cup {Event(s, type)} /\ UNCHANGED sender
  BY DEF Send
<1>0. PICK e : e = Event(s, type)
  OBVIOUS
<1>3. e.from = s /\ e.seq = sent[s] + 1
  BY <1>0 DEF Event
<1>4. sent[s] + 1 \in 1..MaxEvents /\ sent[s] \in 0..MaxEvents /\ sent \in [Senders -> 0..MaxEvents]
  BY <1>1, NotificationsAssumption DEF TypeOK
<1>5. e # NoEvent
  <2>1. Range(providers) \subseteq Providers
    BY DEF TypeOK, Range
  <2>2. e \in Events
    BY <1>0, <1>4, <2>1 DEF Event, Events
  <2>3. QED
    BY <2>2, NoEventAssumption
<1>6. Begun' = Begun \cup {<<s, sent[s] + 1>>} /\ <<s, sent[s] + 1>> \notin Begun
  <2>1. <<s, sent[s] + 1>> \notin Begun
    BY <1>4 DEF Begun
  <2>2. ASSUME NEW b \in Senders \X (1..MaxEvents)
        PROVE  b[2] <= sent'[b[1]] <=> (b[2] <= sent[b[1]] \/ b = <<s, sent[s] + 1>>)
    <3>1. b = <<b[1], b[2]>> /\ b[1] \in Senders /\ b[2] \in 1..MaxEvents
      OBVIOUS
    <3>2. CASE b[1] = s
      <4>1. sent'[s] = sent[s] + 1
        BY <1>1, <1>4
      <4>2. b[2] <= sent[s] + 1 <=> (b[2] <= sent[s] \/ b[2] = sent[s] + 1)
        BY <3>1, <1>4
      <4>3. b = <<s, sent[s] + 1>> <=> b[2] = sent[s] + 1
        BY <3>1, <3>2
      <4>4. QED
        BY <3>2, <4>1, <4>2, <4>3
    <3>3. CASE b[1] # s
      BY <3>1, <3>3, <1>1, <1>4
    <3>4. QED
      BY <3>2, <3>3
  <2>3. <<s, sent[s] + 1>> \in Senders \X (1..MaxEvents)
    BY <1>4
  <2>4. QED
    BY <2>1, <2>2, <2>3 DEF Begun
<1>7. Cardinality(Begun') = Cardinality(Begun) + 1
  BY <1>6, CountedFinite, FS_AddElement
<1>8. OnePlace' /\ InHand' = InHand
  BY <1>1 DEF OnePlace, Undispatched, InHand
<1>9. \A x \in PassedEvents : x.from \in Senders /\ x.seq \in Nat /\ x.seq <= Passed(x.from)
  <2>1. PassedEvents \subseteq Events
    BY DEF PassedEvents, TypeOK, Range, InHand
  <2>2. QED
    BY <2>1, NotificationsAssumption DEF Events, NumbersPassed
<1>10. \A t \in Senders \ {s} : sent'[t] = sent[t] /\ sender'[t] = sender[t]
  BY <1>1, <1>2 DEF TypeOK
<1>11. CASE sender' = [sender EXCEPT ![s] = e] /\ UNCHANGED refused
  <2>1. sender'[s] = e /\ sent'[s] = sent[s] + 1
    BY <1>1, <1>4, <1>11 DEF TypeOK
  <2>2. SendersOwn'
    BY <2>1, <1>3, <1>10 DEF SendersOwn
  <2>3. \A t \in Senders : Passed(t)' = Passed(t)
    BY <2>1, <1>1, <1>4, <1>5, <1>10 DEF Passed
  <2>4. PassedEvents' = PassedEvents
    BY <1>1, <1>8, <1>11 DEF PassedEvents
  <2>5. NumbersPassed'
    BY <2>3, <2>4, <1>9 DEF NumbersPassed
  <2>6. FiniteHistory'
    BY <1>1, <1>11 DEF FiniteHistory
  <2>7. Checked' = Checked \cup {e}
    BY <2>1, <1>1, <1>5, <1>10 DEF Checked
  <2>8. e \notin Checked
    BY <1>3, <1>1 DEF Checked, SendersOwn
  <2>9. Cardinality(Checked') = Cardinality(Checked) + 1
    BY <2>7, <2>8, CountedFinite, FS_AddElement
  <2>10. /\ Cardinality(refused') = Cardinality(refused) /\ dropped' = dropped /\ Len(queue') = Len(queue)
         /\ Cardinality(InHand') = Cardinality(InHand) /\ Cardinality(finished') = Cardinality(finished)
    BY <1>1, <1>8, <1>11
  <2>11. EveryEventAccounted'
    <3>1. EveryEventAccounted
      OBVIOUS
    <3>2. Cardinality(refused) \in Nat /\ dropped \in Nat /\ Len(queue) \in Nat /\ Cardinality(finished) \in Nat
      BY FS_CardinalityType DEF FiniteHistory, TypeOK
    <3>3. QED
      BY <3>1, <3>2, <2>9, <2>10, <1>7, CountedFinite DEF EveryEventAccounted
  <2>12. QED
    BY <2>2, <2>5, <2>6, <2>11, <1>8
<1>12. CASE refused' = refused \cup {e} /\ UNCHANGED sender
  <2>1. sender'[s] = NoEvent /\ sent'[s] = sent[s] + 1
    BY <1>1, <1>4, <1>12 DEF TypeOK
  <2>2. SendersOwn'
    BY <2>1, <1>10 DEF SendersOwn
  <2>3. \A t \in Senders \ {s} : Passed(t)' = Passed(t)
    BY <1>10 DEF Passed
  <2>4. Passed(s)' = sent[s] + 1 /\ Passed(s) = sent[s]
    BY <2>1, <1>1 DEF Passed
  <2>5. PassedEvents' = PassedEvents \cup {e}
    BY <1>1, <1>8, <1>12 DEF PassedEvents
  <2>6. NumbersPassed'
    <3>1. \A x \in PassedEvents : x.seq <= Passed(x.from)'
      BY <2>3, <2>4, <1>9, <1>4
    <3>2. e.seq <= Passed(e.from)'
      BY <1>3, <1>4, <2>4
    <3>3. QED
      BY <3>1, <3>2, <2>5 DEF NumbersPassed
  <2>7. e \notin refused
    <3>1. e \notin PassedEvents
      BY <1>3, <1>4, <1>9, <2>4
    <3>2. QED
      BY <3>1 DEF PassedEvents
  <2>8. Cardinality(refused') = Cardinality(refused) + 1 /\ IsFiniteSet(refused')
    BY <2>7, <1>12, FS_AddElement DEF FiniteHistory
  <2>9. FiniteHistory'
    BY <2>8, <1>1 DEF FiniteHistory
  <2>10. Checked' = Checked
    BY <1>12 DEF Checked
  <2>11. /\ Cardinality(Checked') = Cardinality(Checked) /\ dropped' = dropped /\ Len(queue') = Len(queue)
         /\ Cardinality(InHand') = Cardinality(InHand) /\ Cardinality(finished') = Cardinality(finished)
    BY <1>1, <1>8, <2>10
  <2>12. EveryEventAccounted'
    <3>1. EveryEventAccounted
      OBVIOUS
    <3>2. Cardinality(refused) \in Nat /\ dropped \in Nat /\ Len(queue) \in Nat /\ Cardinality(finished) \in Nat
      BY FS_CardinalityType DEF FiniteHistory, TypeOK
    <3>3. QED
      BY <3>1, <3>2, <2>8, <2>11, <1>7, CountedFinite DEF EveryEventAccounted
  <2>13. QED
    BY <2>2, <2>6, <2>9, <2>12, <1>8
<1>13. QED
  BY <1>0, <1>2, <1>11, <1>12

\* An event passes from its sender to the queue, or is dropped and counted.
LEMMA SenderAccounts ==
  ASSUME AccountInv, TypeInv', NEW s \in Senders, SenderContinues(s)
  PROVE  AccountInv'
<1> USE DEF channel, lifecycle, sending, delivery, working, AccountInv, TypeInv
<1>0. PICK e : e = sender[s]
  OBVIOUS
<1>1. /\ e # NoEvent /\ sender' = [sender EXCEPT ![s] = NoEvent]
      /\ UNCHANGED <<sent, refused, hand, finished>>
      /\ \/ queue' = Append(queue, e) /\ dropped' = dropped
         \/ queue' = queue /\ dropped' = dropped + 1
  BY <1>0 DEF SenderContinues, Enqueue, Drop, SendReturns
<1>2. e \in Events /\ e.from = s /\ e.seq = sent[s] /\ sent[s] \in 0..MaxEvents
  BY <1>0, <1>1 DEF SendersOwn, TypeOK
<1>3. sender'[s] = NoEvent /\ \A t \in Senders \ {s} : sender'[t] = sender[t]
  BY <1>1 DEF TypeOK
<1>4. Begun' = Begun /\ InHand' = InHand
  BY <1>1 DEF Begun, InHand
<1>5. Checked' = Checked \ {e} /\ e \in Checked
  <2>1. \A t \in Senders \ {s} : sender[t] # e
    BY <1>1, <1>2 DEF SendersOwn
  <2>2. sender[s] = e
    BY <1>0
  <2>3. QED
    BY <1>1, <1>3, <2>1, <2>2 DEF Checked
<1>6. Cardinality(Checked') = Cardinality(Checked) - 1 /\ Cardinality(Checked) \in Nat
  BY <1>5, CountedFinite, FS_RemoveElement
<1>7. SendersOwn'
  BY <1>1, <1>3 DEF SendersOwn
<1>8. \A x \in PassedEvents : x.from \in Senders /\ x.seq \in Nat /\ x.seq <= Passed(x.from)
  <2>1. PassedEvents \subseteq Events
    BY DEF PassedEvents, TypeOK, Range, InHand
  <2>2. QED
    BY <2>1, NotificationsAssumption DEF Events, NumbersPassed
<1>9. Passed(s) = sent[s] - 1 /\ Passed(s)' = sent[s] /\ \A t \in Senders \ {s} : Passed(t)' = Passed(t)
  BY <1>0, <1>1, <1>3 DEF Passed
<1>10. e \notin PassedEvents
  BY <1>2, <1>8, <1>9
<1>11. PassedEvents' = PassedEvents \/ PassedEvents' = PassedEvents \cup {e}
  <2>1. CASE queue' = queue
    BY <2>1, <1>1, <1>4 DEF PassedEvents
  <2>2. CASE queue' = Append(queue, e)
    <3>1. Range(queue') = Range(queue) \cup {e}
      BY <2>2, <1>2, InjectiveAppend DEF TypeOK
    <3>2. QED
      BY <3>1, <1>1, <1>4 DEF PassedEvents
  <2>3. QED
    BY <2>1, <2>2, <1>1
<1>12. NumbersPassed'
  <2>1. \A x \in PassedEvents : x.seq <= Passed(x.from)'
    BY <1>2, <1>8, <1>9
  <2>2. e.seq <= Passed(e.from)'
    BY <1>2, <1>9
  <2>3. QED
    BY <2>1, <2>2, <1>11 DEF NumbersPassed
<1>13. FiniteHistory'
  BY <1>1 DEF FiniteHistory
<1>14. OnePlace' /\ dropped' + Len(queue') = dropped + Len(queue) + 1
  <2>1. CASE queue' = queue /\ dropped' = dropped + 1
    <3>1. Len(queue) \in Nat /\ dropped \in Nat
      BY DEF TypeOK
    <3>2. OnePlace'
      BY <2>1, <1>1, <1>4 DEF OnePlace, Undispatched
    <3>3. QED
      BY <2>1, <3>1, <3>2
  <2>2. CASE queue' = Append(queue, e) /\ dropped' = dropped
    <3>1. queue \in Seq(Events) /\ dropped \in Nat /\ Len(queue) \in Nat
      BY DEF TypeOK
    <3>2. e \notin Range(queue) /\ e \notin InHand /\ e \notin finished
      BY <1>10 DEF PassedEvents
    <3>3. Range(queue') = Range(queue) \cup {e} /\ Len(queue') = Len(queue) + 1
      BY <2>2, <3>1, <1>2, InjectiveAppend
    <3>4. IsInjective(queue')
      BY <2>2, <3>1, <3>2, <1>2, InjectiveAppend DEF OnePlace
    <3>5. OnePlace'
      BY <3>2, <3>3, <3>4, <1>1, <1>4 DEF OnePlace, Undispatched
    <3>6. QED
      BY <2>2, <3>1, <3>3, <3>5
  <2>3. QED
    BY <2>1, <2>2, <1>1
<1>15. EveryEventAccounted'
  <2>1. EveryEventAccounted
    OBVIOUS
  <2>2. Cardinality(refused) \in Nat /\ dropped \in Nat /\ Len(queue) \in Nat /\ Cardinality(finished) \in Nat
    BY FS_CardinalityType DEF FiniteHistory, TypeOK
  <2>3. dropped' \in Nat /\ Len(queue') \in Nat
    BY DEF TypeOK
  <2>4. /\ Cardinality(Begun') = Cardinality(Begun) /\ Cardinality(refused') = Cardinality(refused)
        /\ Cardinality(InHand') = Cardinality(InHand) /\ Cardinality(finished') = Cardinality(finished)
    BY <1>1, <1>4
  <2>5. Cardinality(Checked') + (dropped' + Len(queue')) = Cardinality(Checked) + (dropped + Len(queue))
    BY <2>2, <2>3, <1>6, <1>14
  <2>6. Cardinality(Checked') \in Nat /\ Cardinality(Begun) \in Nat /\ Cardinality(InHand) \in Nat
    BY <1>6, <1>5, CountedFinite, FS_RemoveElement, FS_CardinalityType
  <2>7. Cardinality(Begun) = Cardinality(refused) + Cardinality(Checked) + dropped
                             + Len(queue) + Cardinality(InHand) + Cardinality(finished)
    BY <2>1 DEF EveryEventAccounted
  <2>8. PICK r, c, d, l, h, f \in Nat :
          /\ r = Cardinality(refused) /\ c = Cardinality(Checked) /\ d = dropped
          /\ l = Len(queue) /\ h = Cardinality(InHand) /\ f = Cardinality(finished)
    BY <2>2, <2>6, <1>6
  <2>9. PICK cc, dd, ll \in Nat : cc = Cardinality(Checked') /\ dd = dropped' /\ ll = Len(queue')
    BY <2>3, <2>6
  <2>10. cc + (dd + ll) = c + (d + l)
    BY <2>5, <2>8, <2>9
  <2>11. Cardinality(Begun) = r + c + d + l + h + f
    BY <2>7, <2>8
  <2>12. Cardinality(Begun) = r + cc + dd + ll + h + f
    BY <2>10, <2>11
  <2>13. QED
    BY <2>4, <2>8, <2>9, <2>12 DEF EveryEventAccounted
<1>16. QED
  BY <1>7, <1>12, <1>13, <1>14, <1>15

\* An event passes from the queue to a worker.
LEMMA TakeAccounts ==
  ASSUME AccountInv, TypeInv', NEW w \in Workers, Receive(w) \/ Drain(w)
  PROVE  AccountInv'
<1> USE DEF channel, lifecycle, sending, delivery, working, AccountInv, TypeInv
<1> DEFINE e == Head(queue)
<1>1. /\ worker[w] \in {"select", "drain"} /\ queue # <<>>
      /\ queue' = Tail(queue) /\ hand' = [hand EXCEPT ![w] = e]
      /\ UNCHANGED <<sender, sent, refused, dropped, finished>>
  BY DEF Receive, Drain, Take, WorkerMoves
<1>2. /\ queue' \in Seq(Events) /\ e \in Events /\ Len(queue') = Len(queue) - 1
      /\ Len(queue) \in Nat /\ Range(queue) = Range(queue') \cup {e}
      /\ IsInjective(queue') /\ e \notin Range(queue')
  BY <1>1, InjectiveTail DEF TypeOK, OnePlace
<1> HIDE DEF e
<1>3. hand[w] = NoEvent /\ e # NoEvent
  BY <1>1, <1>2, NoEventAssumption DEF HandsFull
<1>4. hand'[w] = e /\ \A v \in Workers \ {w} : hand'[v] = hand[v]
  BY <1>1 DEF TypeOK
<1>5. InHand' = InHand \cup {e}
  BY <1>3, <1>4 DEF InHand
<1>6. e \notin InHand
  BY <1>2 DEF OnePlace
<1>7. Cardinality(InHand') = Cardinality(InHand) + 1
  BY <1>5, <1>6, CountedFinite, FS_AddElement
<1>8. OnePlace'
  <2>1. \A v \in Workers : hand[v] # e
    BY <1>3, <1>6 DEF InHand
  <2>2. \A v, x \in Workers : hand'[v] = hand'[x] /\ hand'[v] # NoEvent => v = x
    BY <2>1, <1>4 DEF OnePlace
  <2>3. Range(queue') \cap InHand' = {}
    BY <1>2, <1>5 DEF OnePlace
  <2>4. Undispatched' = Undispatched
    BY <1>2, <1>5 DEF Undispatched
  <2>5. QED
    BY <2>2, <2>3, <2>4, <1>1, <1>2 DEF OnePlace
<1>9. PassedEvents' = PassedEvents
  BY <1>1, <1>2, <1>5 DEF PassedEvents
<1>10. NumbersPassed' /\ SendersOwn' /\ FiniteHistory'
  BY <1>1, <1>9 DEF NumbersPassed, Passed, SendersOwn, FiniteHistory
<1>11. EveryEventAccounted'
  <2>1. EveryEventAccounted
    OBVIOUS
  <2>2. Cardinality(refused) \in Nat /\ dropped \in Nat /\ Cardinality(finished) \in Nat
    BY FS_CardinalityType DEF FiniteHistory, TypeOK
  <2>3. Begun' = Begun /\ Checked' = Checked
    BY <1>1 DEF Begun, Checked
  <2>4. /\ Cardinality(Begun') = Cardinality(Begun) /\ Cardinality(Checked') = Cardinality(Checked)
        /\ Cardinality(refused') = Cardinality(refused) /\ Cardinality(finished') = Cardinality(finished)
        /\ dropped' = dropped
    BY <1>1, <2>3
  <2>5. Len(queue') = Len(queue) - 1 /\ Len(queue) \in Nat
    BY <1>2
  <2>6. Cardinality(Begun) = Cardinality(refused) + Cardinality(Checked) + dropped
                             + Len(queue) + Cardinality(InHand) + Cardinality(finished)
    BY <2>1 DEF EveryEventAccounted
  <2>7. Cardinality(Checked) \in Nat /\ Cardinality(Begun) \in Nat /\ Cardinality(InHand) \in Nat
    BY CountedFinite
  <2>8. PICK a \in Nat : a = Cardinality(refused) + Cardinality(Checked) + dropped
    BY <2>2, <2>7
  <2>9. Cardinality(Begun) = a + Len(queue') + Cardinality(InHand') + Cardinality(finished)
    BY <2>2, <2>5, <2>6, <2>7, <2>8, <1>7
  <2>10. Cardinality(Begun') = Cardinality(refused') + Cardinality(Checked') + dropped'
                              + Len(queue') + Cardinality(InHand') + Cardinality(finished')
    BY <2>4, <2>8, <2>9
  <2>11. QED
    BY <2>10 DEF EveryEventAccounted
<1>12. QED
  BY <1>8, <1>10, <1>11

\* A dispatch is over.
LEMMA EndAccounts ==
  ASSUME AccountInv, TypeInv', NEW w \in Workers, EndDispatch(w)
  PROVE  AccountInv'
<1> USE DEF channel, lifecycle, sending, delivery, working, AccountInv, TypeInv
<1> DEFINE e == hand[w]
<1>1. /\ worker[w] = "deliver" /\ hand' = [hand EXCEPT ![w] = NoEvent]
      /\ finished' = finished \cup {e}
      /\ UNCHANGED <<sender, sent, refused, dropped, queue>>
  BY DEF EndDispatch, Dispatched, WorkerMoves
<1>2. e # NoEvent
  BY <1>1 DEF HandsFull
<1>3. hand'[w] = NoEvent /\ \A v \in Workers \ {w} : hand'[v] = hand[v] /\ hand[v] # e
  BY <1>1, <1>2 DEF TypeOK, OnePlace
<1>4. InHand' = InHand \ {e} /\ e \in InHand
  BY <1>2, <1>3 DEF InHand
<1> HIDE DEF e
<1>5. Cardinality(InHand') = Cardinality(InHand) - 1 /\ Cardinality(InHand) \in Nat
  BY <1>4, CountedFinite, FS_RemoveElement
<1>6. e \notin finished /\ e \notin Range(queue)
  BY <1>4 DEF OnePlace, Undispatched
<1>7. Cardinality(finished') = Cardinality(finished) + 1 /\ IsFiniteSet(finished')
  BY <1>1, <1>6, FS_AddElement DEF FiniteHistory
<1>8. OnePlace'
  <2>1. \A v, x \in Workers : hand'[v] = hand'[x] /\ hand'[v] # NoEvent => v = x
    BY <1>3 DEF OnePlace
  <2>2. QED
    BY <2>1, <1>1, <1>4, <1>6 DEF OnePlace, Undispatched
<1>9. PassedEvents' = PassedEvents
  BY <1>1, <1>4 DEF PassedEvents
<1>10. NumbersPassed' /\ SendersOwn' /\ FiniteHistory'
  BY <1>1, <1>7, <1>9 DEF NumbersPassed, Passed, SendersOwn, FiniteHistory
<1>11. EveryEventAccounted'
  <2>1. EveryEventAccounted
    OBVIOUS
  <2>2. Cardinality(refused) \in Nat /\ dropped \in Nat /\ Len(queue) \in Nat /\ Cardinality(finished) \in Nat
    BY FS_CardinalityType DEF FiniteHistory, TypeOK
  <2>3. Begun' = Begun /\ Checked' = Checked
    BY <1>1 DEF Begun, Checked
  <2>4. /\ Cardinality(Begun') = Cardinality(Begun) /\ Cardinality(Checked') = Cardinality(Checked)
        /\ Cardinality(refused') = Cardinality(refused) /\ Len(queue') = Len(queue)
        /\ dropped' = dropped
    BY <1>1, <2>3
  <2>5. QED
    BY <2>1, <2>2, <2>4, <1>5, <1>7, CountedFinite DEF EveryEventAccounted
<1>12. QED
  BY <1>8, <1>10, <1>11

\* The other steps leave every event where it is.
LEMMA OthersAccount ==
  ASSUME AccountInv, TypeInv',
         UNCHANGED <<sender, sent, refused, dropped, queue, hand, finished>>
  PROVE  AccountInv'
<1>1. Begun' = Begun /\ Checked' = Checked /\ InHand' = InHand
  BY DEF Begun, Checked, InHand
<1>2. SendersOwn' /\ NumbersPassed' /\ OnePlace' /\ FiniteHistory'
  BY <1>1 DEF AccountInv, SendersOwn, NumbersPassed, PassedEvents, Passed, OnePlace, Undispatched,
              FiniteHistory
<1>3. EveryEventAccounted'
  BY <1>1 DEF AccountInv, EveryEventAccounted
<1>4. QED
  BY <1>2, <1>3 DEF AccountInv

\* The steps that leave every event where it is.
LEMMA OtherSteps ==
  ASSUME TypeOK,
         \/ UNCHANGED vars
         \/ \E p \in Providers : RegisterProvider(p)
         \/ \E o \in Owners : Start(o) \/ Stop(o) \/ OwnerContinues(o)
         \/ \E w \in Workers : \/ Cancel(w) \/ FiveSecondsPass(w) \/ ReadProviders(w)
                               \/ Deliver(w) \/ BeginDrain(w) \/ Exit(w)
  PROVE  UNCHANGED <<sender, sent, refused, dropped, queue, hand, finished>>
<1> USE DEF channel, lifecycle, sending, delivery, working
<1>1. CASE UNCHANGED vars
  BY <1>1 DEF vars
<1>2. ASSUME NEW p \in Providers, RegisterProvider(p)
      PROVE  UNCHANGED <<sender, sent, refused, dropped, queue, hand, finished>>
  BY <1>2 DEF RegisterProvider
<1>3. ASSUME NEW o \in Owners, Start(o) \/ Stop(o) \/ OwnerContinues(o)
      PROVE  UNCHANGED <<sender, sent, refused, dropped, queue, hand, finished>>
  BY <1>3 DEF OwnerContinues, OwnerMoves, Start, Stop, Launch, CloseDone, StopReturns
<1>4. ASSUME NEW w \in Workers, Deliver(w)
      PROVE  UNCHANGED <<sender, sent, refused, dropped, queue, hand, finished>>
  BY <1>4, DeliverDoes DEF DeliverEffect
<1>5. ASSUME NEW w \in Workers,
             Cancel(w) \/ FiveSecondsPass(w) \/ ReadProviders(w) \/ BeginDrain(w) \/ Exit(w)
      PROVE  UNCHANGED <<sender, sent, refused, dropped, queue, hand, finished>>
  BY <1>5 DEF Cancel, FiveSecondsPass, WorkerMoves, ReadProviders, BeginDrain, Exit
<1>6. QED
  BY <1>1, <1>2, <1>3, <1>4, <1>5

\* Every event handed to Send is in exactly one place or counted, for every number of
\* senders, owners and workers.
LEMMA AccountInvariant == Spec => []AccountInv
<1>1. Init => SendersOwn /\ NumbersPassed /\ OnePlace /\ FiniteHistory /\ EveryEventAccounted
  <2> SUFFICES ASSUME Init PROVE SendersOwn /\ NumbersPassed /\ OnePlace /\ FiniteHistory /\ EveryEventAccounted
    OBVIOUS
  <2>1. Begun = {} /\ Checked = {} /\ InHand = {} /\ Range(queue) = {}
    BY NotificationsAssumption DEF Init, Begun, Checked, InHand, Range
  <2>2. SendersOwn /\ NumbersPassed
    BY <2>1 DEF Init, SendersOwn, NumbersPassed, PassedEvents
  <2>3. OnePlace
    BY <2>1 DEF Init, OnePlace, Undispatched, IsInjective
  <2>4. IsFiniteSet({}) /\ Cardinality({}) = 0
    BY FS_EmptySet
  <2>5. FiniteHistory
    BY <2>4 DEF Init, FiniteHistory
  <2>6. Len(queue) = 0 /\ dropped = 0 /\ refused = {} /\ finished = {}
    BY DEF Init
  <2>7. EveryEventAccounted
    BY <2>1, <2>4, <2>6 DEF EveryEventAccounted
  <2>8. QED
    BY <2>2, <2>3, <2>5, <2>7
<1>2. TypeInv /\ AccountInv /\ TypeInv' /\ [Next]_vars => AccountInv'
  BY SendAccounts, SenderAccounts, TakeAccounts, EndAccounts, OthersAccount, OtherSteps
     DEF Next, WorkerRuns, TypeInv
<1>3. AccountInv <=> TypeInv /\ SendersOwn /\ NumbersPassed /\ OnePlace /\ FiniteHistory /\ EveryEventAccounted
  BY DEF AccountInv
<1>4. QED
  BY <1>1, <1>2, <1>3, TypeInvariant, PTL DEF Spec

\* Until a second Start there is at most one Stop.
LEMMA FirstRoundInvariant == Spec => []FirstRound
<1>1. Init => FirstRound
  BY DEF Init, FirstRound, PanicOnlyAfterRestart
<1>2. TypeInv /\ FirstRound /\ [Next]_vars => FirstRound'
  <2> SUFFICES ASSUME TypeInv, FirstRound, [Next]_vars PROVE FirstRound'
    OBVIOUS
  <2> USE DEF lifecycle, working
  <2>1. ASSUME UNCHANGED <<running, closed, panicked, starts, owner>>
        PROVE  FirstRound'
    BY <2>1 DEF FirstRound, PanicOnlyAfterRestart
  <2>2. starts \in Nat /\ owner \in [Owners -> {"out", "launching", "closing", "waiting"}]
    BY NotificationsAssumption DEF TypeInv, TypeOK
  <2>3. ASSUME NEW o \in Owners, Start(o)
        PROVE  FirstRound'
    <3>1. /\ owner' = [owner EXCEPT ![o] = "launching"] /\ ~ running
          /\ running' = TRUE /\ starts' = starts + 1 /\ UNCHANGED <<closed, panicked>>
      BY <2>3 DEF Start, OwnerMoves
    <3>2. \A p \in Owners : owner'[p] = "closing" => owner[p] = "closing"
      BY <3>1, <2>2
    <3>3. CASE starts = 0
      BY <3>1, <3>2, <3>3 DEF FirstRound, PanicOnlyAfterRestart
    <3>4. CASE starts # 0
      <4>1. starts' # 0 /\ starts' # 1 /\ starts' >= 2
        BY <2>2, <3>1, <3>4
      <4>2. QED
        BY <4>1 DEF FirstRound, PanicOnlyAfterRestart
    <3>5. QED
      BY <3>3, <3>4
  <2>4. ASSUME NEW o \in Owners, Launch(o) \/ StopReturns(o)
        PROVE  FirstRound'
    <3>1. owner' = [owner EXCEPT ![o] = "out"] /\ UNCHANGED <<running, closed, panicked, starts>>
      BY <2>4 DEF Launch, StopReturns, OwnerMoves
    <3>2. \A p \in Owners : owner'[p] = "closing" => owner[p] = "closing"
      BY <3>1, <2>2
    <3>3. QED
      BY <3>1, <3>2 DEF FirstRound, PanicOnlyAfterRestart
  <2>5. ASSUME NEW o \in Owners, Stop(o)
        PROVE  FirstRound'
    <3>1. /\ owner' = [owner EXCEPT ![o] = "closing"] /\ running /\ running' = FALSE
          /\ UNCHANGED <<closed, panicked, starts>>
      BY <2>5 DEF Stop, OwnerMoves
    <3>2. \A p \in Owners \ {o} : owner'[p] = owner[p]
      BY <3>1, <2>2
    <3>3. QED
      BY <3>1, <3>2 DEF FirstRound, PanicOnlyAfterRestart
  <2>6. ASSUME NEW o \in Owners, CloseDone(o)
        PROVE  FirstRound'
    <3>1. /\ owner[o] = "closing" /\ owner' = [owner EXCEPT ![o] = "waiting"]
          /\ closed' = TRUE /\ panicked' = closed /\ UNCHANGED <<running, starts>>
      BY <2>6 DEF CloseDone, OwnerMoves
    <3>2. owner'[o] # "closing" /\ \A p \in Owners \ {o} : owner'[p] = owner[p]
      BY <3>1, <2>2
    <3>3. starts # 0
      BY <3>1 DEF FirstRound
    <3>4. starts = 1 => ~ running /\ ~ closed /\ \A p \in Owners \ {o} : owner[p] # "closing"
      BY <3>1 DEF FirstRound
    <3>5. panicked' => starts >= 2
      BY <2>2, <3>1, <3>3, <3>4
    <3>6. QED
      BY <3>1, <3>2, <3>3, <3>4, <3>5 DEF FirstRound, PanicOnlyAfterRestart
  <2>7. ASSUME NEW p \in Providers, RegisterProvider(p)
        PROVE  FirstRound'
    BY <2>1, <2>7 DEF RegisterProvider
  <2>8. ASSUME NEW s \in Senders, Send(s) \/ SenderContinues(s)
        PROVE  FirstRound'
    BY <2>1, <2>8 DEF Send, SenderContinues, Enqueue, Drop, SendReturns
  <2>9. ASSUME NEW w \in Workers, Deliver(w)
        PROVE  FirstRound'
    BY <2>1, <2>9, DeliverDoes DEF DeliverEffect, TypeInv
  <2>10. ASSUME NEW w \in Workers, Cancel(w) \/ FiveSecondsPass(w) \/ Receive(w) \/ ReadProviders(w)
                                   \/ EndDispatch(w) \/ BeginDrain(w) \/ Drain(w) \/ Exit(w)
         PROVE  FirstRound'
    BY <2>1, <2>10 DEF Cancel, FiveSecondsPass, Receive, Drain, Take, ReadProviders, EndDispatch,
                       BeginDrain, Exit, WorkerMoves
  <2>11. CASE UNCHANGED vars
    BY <2>1, <2>11 DEF vars
  <2>12. QED
    BY <2>3, <2>4, <2>5, <2>6, <2>7, <2>8, <2>9, <2>10, <2>11 DEF Next, OwnerContinues, WorkerRuns
<1>3. QED
  BY <1>1, <1>2, TypeInvariant, PTL DEF Spec

\* Overlapping calls of Start, Stop and Send lose no event without counting it, handle none
\* twice, and cannot close `done` twice before a second Start: for every number of senders,
\* owners, workers and events, every queue and every set of providers.
THEOREM NothingIsLost == Spec => []NothingLost
<1>1. AccountInv /\ FirstRound => NothingLost
  BY DEF AccountInv, FirstRound, NothingLost
<1>2. QED
  BY <1>1, AccountInvariant, FirstRoundInvariant, PTL

-------------------------------------------------------------------------------
(* One owner: Start and Stop take turns with the worker *)

\* Steps of the worker's own, of senders and of providers: nobody starts, stops or exits.
LEMMA QuietLife ==
  ASSUME LifeInv, AccountInv',
         UNCHANGED <<running, closed, panicked, owner, cancelled, pending>>,
         Active' = Active,
         \A w \in Workers : worker'[w] = "drain" \/ budget'[w] # "worker" => closed \/ cancelled # {},
         (\E miss \in missed' : miss[3] = "late") => closed \/ cancelled # {},
         Active = {} => Undispatched' \subseteq
                          Undispatched \cup {sender[s] : s \in {t \in Senders : sender[t] # NoEvent}},
         \A s \in Senders : Passed(s)' >= Passed(s)
  PROVE  LifeInv'
<1> USE DEF LifeInv
<1>1. OneWorker'
  BY DEF OneWorker
<1>2. DrainIsTold'
  BY DEF DrainIsTold
<1>3. WorkerStays'
  BY DEF WorkerStays
<1>4. \A o \in Owners : \A e \in pending[o] : e \in Events /\ e.from \in Senders /\ e.seq \in Nat
  <2>1. \A o \in Owners : \A e \in pending[o] : e \in Events
    BY DEF AccountInv, TypeInv, TypeOK
  <2>2. \A e \in Events : e.from \in Senders /\ e.seq \in Nat
    BY NotificationsAssumption DEF Events
  <2>3. QED
    BY <2>1, <2>2
<1>5. \A s \in Senders : Passed(s) \in Int /\ Passed(s)' \in Int
  <2>1. \A s \in Senders : sent[s] \in Nat /\ sent'[s] \in Nat
    BY DEF AccountInv, TypeInv, TypeOK
  <2>2. QED
    BY <2>1 DEF Passed
<1>6. ASSUME NEW o \in Owners, NEW e \in pending[o] PROVE e.seq <= Passed(e.from)'
  <2>1. e.seq <= Passed(e.from) /\ Passed(e.from)' >= Passed(e.from)
    BY <1>4 DEF PendingDone
  <2>2. QED
    BY <2>1, <1>4, <1>5
<1>7. ASSUME NEW o \in Owners, owner[o] = "waiting", ~ panicked, cancelled = {}, Active = {}
      PROVE  pending[o] \cap Undispatched' = {}
  <2>1. pending[o] \cap Undispatched = {}
    BY <1>7 DEF PendingDone
  <2>2. ASSUME NEW s \in Senders, sender[s] # NoEvent, sender[s] \in pending[o]
        PROVE  FALSE
    <3>1. sender[s].seq <= Passed(s) /\ sender[s].from = s
      BY <2>2 DEF PendingDone, AccountInv, SendersOwn
    <3>2. sender[s].seq = sent[s] /\ Passed(s) = sent[s] - 1 /\ sent[s] \in Nat
      BY <2>2 DEF Passed, AccountInv, SendersOwn, TypeInv, TypeOK
    <3>3. QED
      BY <3>1, <3>2
  <2>3. QED
    BY <1>7, <2>1, <2>2
<1>8. PendingDone'
  <2>1. \A o \in Owners : \A e \in pending'[o] : e.seq <= Passed(e.from)'
    BY <1>6
  <2>2. \A o \in Owners : owner'[o] = "waiting" /\ ~ panicked' /\ cancelled' = {} /\ Active' = {}
                           => pending'[o] \cap Undispatched' = {}
    BY <1>7
  <2>3. QED
    BY <2>1, <2>2, Zenon DEF PendingDone
<1>9. QED
  BY <1>1, <1>2, <1>3, <1>8

\* No step takes back a number that has been passed.
LEMMA PassedGrows ==
  ASSUME TypeOK, UNCHANGED <<sent, sender>> \/ \E s \in Senders : Send(s) \/ SenderContinues(s)
  PROVE  \A s \in Senders : Passed(s)' >= Passed(s) /\ Passed(s) \in Int /\ Passed(s)' \in Int
<1>1. sent \in [Senders -> Nat] /\ sender \in [Senders -> Events \cup {NoEvent}]
  BY DEF TypeOK
<1>2. \A t \in Senders : sent[t] \in Nat
  BY <1>1
<1>3. CASE UNCHANGED <<sent, sender>>
  <2>1. \A s \in Senders : Passed(s)' = Passed(s) /\ Passed(s) \in Int
    BY <1>2, <1>3 DEF Passed
  <2>2. QED
    BY <2>1
<1>4. ASSUME NEW s \in Senders, Send(s)
      PROVE  \A t \in Senders : Passed(t)' >= Passed(t) /\ Passed(t) \in Int /\ Passed(t)' \in Int
  <2>1. sender[s] = NoEvent /\ sent' = [sent EXCEPT ![s] = sent[s] + 1]
        /\ \A t \in Senders \ {s} : sender'[t] = sender[t]
    BY <1>1, <1>4 DEF Send
  <2>2. sent'[s] = sent[s] + 1 /\ \A t \in Senders \ {s} : sent'[t] = sent[t]
    BY <2>1, <1>1
  <2>3. QED
    BY <2>1, <2>2, <1>2 DEF Passed
<1>5. ASSUME NEW s \in Senders, SenderContinues(s)
      PROVE  \A t \in Senders : Passed(t)' >= Passed(t) /\ Passed(t) \in Int /\ Passed(t)' \in Int
  <2>1. sender' = [sender EXCEPT ![s] = NoEvent] /\ UNCHANGED sent
    BY <1>5 DEF SenderContinues, Enqueue, Drop, SendReturns
  <2>2. QED
    BY <2>1, <1>1, <1>2 DEF Passed
<1>6. QED
  BY <1>3, <1>4, <1>5

\* Registering a provider, and sending.
LEMMA SenderLives ==
  ASSUME LifeInv, AccountInv',
         \/ \E p \in Providers : RegisterProvider(p)
         \/ \E s \in Senders : Send(s) \/ SenderContinues(s)
  PROVE  LifeInv'
<1> USE DEF channel, lifecycle, sending, delivery, working
<1>1. UNCHANGED <<running, closed, panicked, owner, cancelled, pending, worker, budget, missed, hand>>
  BY DEF RegisterProvider, Send, SenderContinues, Enqueue, Drop, SendReturns
<1>2. Active' = Active /\ InHand' = InHand
  BY <1>1 DEF Active, InHand
<1>3. \A w \in Workers : worker'[w] = "drain" \/ budget'[w] # "worker" => closed \/ cancelled # {}
  BY <1>1 DEF LifeInv, DrainIsTold
<1>4. (\E miss \in missed' : miss[3] = "late") => closed \/ cancelled # {}
  BY <1>1 DEF LifeInv, DrainIsTold
<1>5. sent \in [Senders -> Nat] /\ sender \in [Senders -> Events \cup {NoEvent}] /\ queue \in Seq(Events)
  BY DEF LifeInv, AccountInv, TypeInv, TypeOK
<1>6. Undispatched' \subseteq Undispatched \cup {sender[s] : s \in {t \in Senders : sender[t] # NoEvent}}
  <2>1. CASE UNCHANGED queue
    BY <2>1, <1>2 DEF Undispatched
  <2>2. ASSUME NEW s \in Senders, Enqueue(s)
        PROVE  Undispatched' \subseteq Undispatched \cup {sender[t] : t \in {u \in Senders : sender[u] # NoEvent}}
    <3>1. sender[s] # NoEvent /\ queue' = Append(queue, sender[s])
      BY <2>2 DEF Enqueue, SendReturns
    <3>2. sender[s] \in Events
      BY <3>1, <1>5
    <3>3. Range(queue') = Range(queue) \cup {sender[s]}
      BY <3>1, <3>2, <1>5, InjectiveAppend
    <3>4. QED
      BY <3>1, <3>3, <1>2 DEF Undispatched
  <2>3. QED
    BY <2>1, <2>2 DEF RegisterProvider, Send, SenderContinues, Drop
<1>7. \A s \in Senders : Passed(s)' >= Passed(s)
  <2>1. UNCHANGED <<sent, sender>> \/ \E s \in Senders : Send(s) \/ SenderContinues(s)
    BY DEF RegisterProvider
  <2>2. TypeOK
    BY DEF LifeInv, AccountInv, TypeInv
  <2>3. QED
    BY <2>1, <2>2, PassedGrows
<1>8. QED
  BY <1>1, <1>2, <1>3, <1>4, <1>6, <1>7, QuietLife

\* What a worker does before it leaves.
LEMMA WorkerLives ==
  ASSUME LifeInv, AccountInv', NEW w \in Workers,
         \/ FiveSecondsPass(w) \/ Receive(w) \/ ReadProviders(w) \/ Deliver(w) \/ EndDispatch(w)
         \/ BeginDrain(w) \/ Drain(w)
  PROVE  LifeInv'
<1> USE DEF channel, lifecycle, sending, delivery, working, WorkerMoves
<1>0. TypeOK
  BY DEF LifeInv, AccountInv, TypeInv
<1>1. UNCHANGED <<running, closed, panicked, owner, cancelled, pending, sent, sender>>
  <2>1. CASE Deliver(w)
    BY <2>1, <1>0, DeliverDoes DEF DeliverEffect
  <2>2. CASE ~ Deliver(w)
    BY <2>2 DEF FiveSecondsPass, Receive, Drain, Take, ReadProviders, EndDispatch, BeginDrain
  <2>3. QED
    BY <2>1, <2>2
<1>2. worker[w] \in {"select", "dispatch", "deliver", "drain"}
  <2>1. CASE Deliver(w)
    BY <2>1, <1>0, DeliverDoes DEF DeliverEffect
  <2>2. CASE ~ Deliver(w)
    BY <2>2 DEF FiveSecondsPass, Receive, Drain, Take, ReadProviders, EndDispatch, BeginDrain
  <2>3. QED
    BY <2>1, <2>2
<1>3. \E to \in {"select", "dispatch", "deliver", "drain"} : worker' = [worker EXCEPT ![w] = to]
  <2>1. CASE FiveSecondsPass(w) \/ Deliver(w)
    <3>1. worker' = worker
      BY <2>1, <1>0, DeliverDoes DEF DeliverEffect, FiveSecondsPass
    <3>2. worker' = [worker EXCEPT ![w] = worker[w]]
      BY <3>1, <1>0 DEF TypeOK
    <3>3. QED
      BY <3>2, <1>2
  <2>2. CASE ~ (FiveSecondsPass(w) \/ Deliver(w))
    BY <2>2 DEF Receive, Drain, Take, ReadProviders, EndDispatch, BeginDrain
  <2>3. QED
    BY <2>1, <2>2
<1>4. Active' = Active
  BY <1>0, <1>2, <1>3, ActiveMoves DEF Active
<1>5. w \in Active
  BY <1>2 DEF Active
<1>6. \A v \in Workers : worker'[v] = "drain" \/ budget'[v] # "worker" => closed \/ cancelled # {}
  <2>1. \A v \in Workers : worker[v] = "drain" \/ budget[v] # "worker" => closed \/ cancelled # {}
    BY DEF LifeInv, DrainIsTold
  <2>2. \A v \in Workers \ {w} : worker'[v] = worker[v]
    BY <1>0, <1>3 DEF TypeOK
  <2>3. CASE FiveSecondsPass(w)
    <3>1. budget[w] = "fresh" /\ budget' = [budget EXCEPT ![w] = "spent"] /\ worker' = worker
      BY <2>3 DEF FiveSecondsPass
    <3>2. QED
      BY <3>1, <2>1, <1>0 DEF TypeOK
  <2>4. CASE Receive(w)
    <3>1. budget' = [budget EXCEPT ![w] = "worker"] /\ worker' = [worker EXCEPT ![w] = "dispatch"]
      BY <2>4 DEF Receive, Take
    <3>2. QED
      BY <3>1, <2>1, <1>0 DEF TypeOK
  <2>5. CASE Drain(w)
    <3>1. budget' = [budget EXCEPT ![w] = "fresh"] /\ worker[w] = "drain" /\ worker' = [worker EXCEPT ![w] = "dispatch"]
      BY <2>5 DEF Drain, Take
    <3>2. QED
      BY <3>1, <2>1, <1>0 DEF TypeOK
  <2>6. CASE ReadProviders(w)
    <3>1. budget' = budget /\ worker' = [worker EXCEPT ![w] = "deliver"]
      BY <2>6 DEF ReadProviders
    <3>2. QED
      BY <3>1, <2>1, <1>0 DEF TypeOK
  <2>7. CASE EndDispatch(w)
    <3>1. budget' = budget
          /\ worker' = [worker EXCEPT ![w] = IF budget[w] = "worker" THEN "select" ELSE "drain"]
      BY <2>7 DEF EndDispatch, Dispatched
    <3>2. QED
      BY <3>1, <2>1, <1>0 DEF TypeOK
  <2>8. CASE BeginDrain(w)
    <3>1. budget' = budget /\ (closed \/ w \in cancelled) /\ worker' = [worker EXCEPT ![w] = "drain"]
      BY <2>8 DEF BeginDrain
    <3>2. QED
      BY <3>1, <2>1, <1>0 DEF TypeOK
  <2>9. CASE Deliver(w)
    BY <2>1, <2>9, <1>0, DeliverDoes DEF DeliverEffect
  <2>10. QED
    BY <2>3, <2>4, <2>5, <2>6, <2>7, <2>8, <2>9
<1>7. (\E miss \in missed' : miss[3] = "late") => closed \/ cancelled # {}
  <2>1. (\E miss \in missed : miss[3] = "late") => closed \/ cancelled # {}
    BY DEF LifeInv, DrainIsTold
  <2>2. CASE UNCHANGED missed
    BY <2>1, <2>2
  <2>3. CASE Deliver(w)
    <3>1. \/ missed' = missed
          \/ missed' = missed \cup {<<Head(todo[w]), hand[w], IF ContextDone(w) THEN "late" ELSE "refused">>}
      BY <2>3, <1>0, DeliverDoes DEF DeliverEffect, ReturnsError
    <3>2. ContextDone(w) => closed \/ cancelled # {}
      BY DEF ContextDone, LifeInv, DrainIsTold
    <3>3. QED
      BY <2>1, <3>1, <3>2
  <2>4. QED
    BY <2>2, <2>3 DEF FiveSecondsPass, Receive, Drain, Take, ReadProviders, EndDispatch, Dispatched,
                      BeginDrain
<1>8. \A s \in Senders : Passed(s)' >= Passed(s)
  BY <1>0, <1>1, PassedGrows
<1>9. QED
  BY <1>1, <1>4, <1>5, <1>6, <1>7, <1>8, QuietLife

\* A worker leaves: the queue is empty and, the only one, so are its hands.
LEMMA ExitLives ==
  ASSUME LifeInv, AccountInv', NEW w \in Workers, Exit(w)
  PROVE  LifeInv'
<1> USE DEF channel, lifecycle, sending, delivery, working, WorkerMoves, LifeInv
<1>0. TypeOK /\ TypeOK'
  BY DEF AccountInv, TypeInv
<1>1. /\ worker[w] = "drain" /\ worker' = [worker EXCEPT ![w] = "exited"] /\ queue = <<>>
      /\ UNCHANGED <<sent, sender, running, closed, panicked, owner, pending, cancelled, queue,
                     hand, budget, missed>>
  BY DEF Exit
<1>2. w \in Active /\ Active' = Active \ {w}
  BY <1>0, <1>1, ActiveMoves DEF Active
<1>3. Active' = {}
  BY <1>2 DEF OneWorker
<1>4. OneWorker'
  BY <1>1, <1>3 DEF OneWorker
<1>5. closed \/ cancelled # {}
  BY <1>1 DEF DrainIsTold
<1>6. DrainIsTold' /\ WorkerStays'
  BY <1>1, <1>5 DEF DrainIsTold, WorkerStays
<1>7. InHand = {} /\ Range(queue) = {}
  <2>1. \A v \in Workers : v # w => v \notin Active
    BY <1>2 DEF OneWorker
  <2>2. \A v \in Workers : hand[v] = NoEvent
    BY <1>1, <2>1 DEF Active, AccountInv, TypeInv, HandsFull
  <2>3. QED
    BY <2>2, <1>1 DEF InHand, Range
<1>8. Undispatched' = {}
  BY <1>1, <1>7 DEF Undispatched, InHand
<1>9. PendingDone'
  <2>1. \A s : Passed(s)' = Passed(s)
    BY <1>1 DEF Passed
  <2>2. \A o \in Owners : \A e \in pending'[o] : e.seq <= Passed(e.from)'
    BY <1>1, <2>1 DEF PendingDone
  <2>3. \A o \in Owners : pending'[o] \cap Undispatched' = {}
    BY <1>8
  <2>4. QED
    BY <2>2, <2>3, Zenon DEF PendingDone
<1>10. QED
  BY <1>4, <1>6, <1>9

\* The context given to Start is cancelled.
LEMMA CancelLives ==
  ASSUME LifeInv, AccountInv', NEW w \in Workers, Cancel(w)
  PROVE  LifeInv'
<1> USE DEF channel, lifecycle, sending, delivery, working, LifeInv
<1>1. /\ cancelled' # {}
      /\ UNCHANGED <<sent, sender, running, closed, panicked, owner, pending, worker, queue, hand,
                     budget, missed>>
  BY DEF Cancel
<1>2. Active' = Active
  BY <1>1 DEF Active
<1>3. OneWorker' /\ DrainIsTold' /\ WorkerStays'
  BY <1>1, <1>2 DEF OneWorker, DrainIsTold, WorkerStays
<1>4. PendingDone'
  <2>1. \A s : Passed(s)' = Passed(s)
    BY <1>1 DEF Passed
  <2>2. \A o \in Owners : \A e \in pending'[o] : e.seq <= Passed(e.from)'
    BY <1>1, <2>1 DEF PendingDone
  <2>3. QED
    BY <2>2, <1>1, Zenon DEF PendingDone
<1>5. QED
  BY <1>3, <1>4

\* The one owner starts and stops.
LEMMA OwnerLives ==
  ASSUME LifeInv, AccountInv', OneOwner, NEW o \in Owners, Start(o) \/ Stop(o) \/ OwnerContinues(o)
  PROVE  LifeInv'
<1> USE DEF channel, lifecycle, sending, delivery, working, LifeInv, OwnerMoves
<1>0. TypeOK
  BY DEF AccountInv, TypeInv
<1>1. \A p \in Owners : p = o
  BY DEF OneOwner
<1>2. UNCHANGED <<sent, sender, cancelled, queue, hand, budget, missed>>
  BY DEF Start, Stop, OwnerContinues, Launch, CloseDone, StopReturns
<1>3. \A s : Passed(s)' = Passed(s)
  BY <1>2 DEF Passed
<1>4. Undispatched' = Undispatched
  BY <1>2 DEF Undispatched, InHand
<1>5. owner \in [Owners -> {"out", "launching", "closing", "waiting"}] /\ pending \in [Owners -> SUBSET Events]
  BY <1>0 DEF TypeOK
<1>6. \A e \in pending[o] : e.seq <= Passed(e.from)
  BY DEF PendingDone
<1>7. CASE Start(o)
  <2>1. /\ owner[o] = "out" /\ owner'[o] = "launching" /\ ~ running /\ running'
        /\ UNCHANGED <<worker, closed, panicked, pending>>
    BY <1>5, <1>7 DEF Start
  <2>2. Active' = Active /\ Active = {}
    BY <2>1 DEF Active, OneWorker
  <2>3. OneWorker' /\ WorkerStays'
    BY <1>1, <2>1, <2>2 DEF OneWorker, WorkerStays
  <2>4. DrainIsTold'
    BY <1>2, <2>1 DEF DrainIsTold
  <2>5. PendingDone'
    <3>1. \A e \in pending'[o] : e.seq <= Passed(e.from)'
      BY <1>3, <1>6, <2>1
    <3>2. owner'[o] # "waiting"
      BY <2>1
    <3>3. QED
      BY <1>1, <3>1, <3>2, Zenon DEF PendingDone
  <2>6. QED
    BY <2>3, <2>4, <2>5
<1>8. CASE Launch(o)
  <2>1. /\ owner[o] = "launching" /\ owner'[o] = "out"
        /\ UNCHANGED <<running, closed, panicked, pending>>
    BY <1>5, <1>8 DEF Launch
  <2>2. PICK w \in Workers : worker[w] = "none" /\ worker' = [worker EXCEPT ![w] = "select"]
    BY <1>8 DEF Launch
  <2>3. running /\ Active = {}
    BY <2>1 DEF OneWorker
  <2>4. Active' = {w}
    <3>1. w \notin Active /\ "select" \notin {"none", "exited"}
      BY <2>3
    <3>2. Active' = Active \cup {w}
      BY <1>0, <2>2, <3>1, ActiveMoves, Zenon
    <3>3. QED
      BY <2>3, <3>2
  <2>5. OneWorker' /\ WorkerStays'
    BY <1>1, <2>1, <2>3, <2>4 DEF OneWorker, WorkerStays
  <2>6. \A v \in Workers : worker'[v] = "drain" => worker[v] = "drain"
    BY <1>0, <2>2 DEF TypeOK
  <2>7. DrainIsTold'
    BY <1>2, <2>1, <2>6 DEF DrainIsTold
  <2>8. PendingDone'
    <3>1. \A e \in pending'[o] : e.seq <= Passed(e.from)'
      BY <1>3, <1>6, <2>1
    <3>2. owner'[o] # "waiting"
      BY <2>1
    <3>3. QED
      BY <1>1, <3>1, <3>2, Zenon DEF PendingDone
  <2>9. QED
    BY <2>5, <2>7, <2>8
<1>9. CASE Stop(o)
  <2>1. /\ owner[o] = "out" /\ owner'[o] = "closing" /\ running /\ ~ running'
        /\ pending'[o] = Range(queue)
        /\ UNCHANGED <<worker, closed, panicked>>
    BY <1>5, <1>9 DEF Stop
  <2>2. Active' = Active
    BY <2>1 DEF Active
  <2>3. OneWorker' /\ WorkerStays'
    BY <1>1, <1>2, <2>1, <2>2 DEF OneWorker, WorkerStays
  <2>4. DrainIsTold'
    BY <1>2, <2>1 DEF DrainIsTold
  <2>5. PendingDone'
    <3>1. \A e \in pending'[o] : e.seq <= Passed(e.from)
      BY <2>1 DEF AccountInv, NumbersPassed, PassedEvents
    <3>2. \A e \in pending'[o] : e.seq <= Passed(e.from)'
      BY <1>3, <3>1
    <3>3. owner'[o] # "waiting"
      BY <2>1
    <3>4. QED
      BY <1>1, <3>2, <3>3, Zenon DEF PendingDone
  <2>6. QED
    BY <2>3, <2>4, <2>5
<1>10. CASE CloseDone(o)
  <2>1. /\ owner[o] = "closing" /\ owner'[o] = "waiting" /\ closed' /\ panicked' = closed
        /\ UNCHANGED <<worker, running, pending>>
    BY <1>5, <1>10 DEF CloseDone
  <2>2. Active' = Active /\ ~ running
    BY <2>1 DEF Active, OneWorker
  <2>3. OneWorker' /\ WorkerStays'
    BY <1>1, <2>1, <2>2 DEF OneWorker, WorkerStays
  <2>4. DrainIsTold'
    BY <1>2, <2>1 DEF DrainIsTold
  <2>5. PendingDone'
    <3>1. \A e \in pending'[o] : e.seq <= Passed(e.from)'
      BY <1>3, <1>6, <2>1
    <3>2. ~ panicked' /\ cancelled' = {} => Active' # {}
      BY <1>2, <2>1, <2>2 DEF WorkerStays
    <3>3. QED
      BY <1>1, <3>1, <3>2, Zenon DEF PendingDone
  <2>6. QED
    BY <2>3, <2>4, <2>5
<1>11. CASE StopReturns(o)
  <2>1. /\ owner[o] = "waiting" /\ owner'[o] = "out" /\ wg = 0 /\ pending'[o] = {}
        /\ UNCHANGED <<worker, running, closed, panicked>>
    BY <1>5, <1>11 DEF StopReturns
  <2>2. Active = {}
    BY <1>0, <2>1, ActiveFinite, FS_EmptySet DEF AccountInv, TypeInv, WgCounts
  <2>3. Active' = {} /\ ~ running
    BY <2>1, <2>2 DEF Active, OneWorker
  <2>4. OneWorker' /\ WorkerStays'
    BY <1>1, <2>1, <2>3 DEF OneWorker, WorkerStays
  <2>5. DrainIsTold'
    BY <1>2, <2>1 DEF DrainIsTold
  <2>6. PendingDone'
    BY <1>1, <2>1, Zenon DEF PendingDone
  <2>7. QED
    BY <2>4, <2>5, <2>6
<1>12. QED
  BY <1>7, <1>8, <1>9, <1>10, <1>11 DEF OwnerContinues

\* With one owner there is never a second worker, and what a Stop waits for is done when
\* its worker is gone.
LEMMA LifeInvariant == OneOwner => (Spec => []LifeInv)
<1> SUFFICES ASSUME OneOwner PROVE Spec => []LifeInv
  OBVIOUS
<1>1. Init => OneWorker /\ DrainIsTold /\ WorkerStays /\ PendingDone
  <2> SUFFICES ASSUME Init PROVE OneWorker /\ DrainIsTold /\ WorkerStays /\ PendingDone
    OBVIOUS
  <2>1. Active = {}
    BY DEF Init, Active
  <2>2. QED
    BY <2>1 DEF Init, OneWorker, DrainIsTold, WorkerStays, PendingDone
<1>2. LifeInv /\ AccountInv' /\ [Next]_vars => LifeInv'
  <2> SUFFICES ASSUME LifeInv, AccountInv', [Next]_vars PROVE LifeInv'
    OBVIOUS
  <2>1. CASE UNCHANGED vars
    <3>1. UNCHANGED <<sent, sender, running, closed, panicked, owner, pending, cancelled, worker,
                      queue, hand, budget, missed>>
      BY <2>1 DEF vars, channel, lifecycle, sending, delivery, working
    <3>2. Active' = Active /\ Undispatched' = Undispatched
      BY <3>1 DEF Active, Undispatched, InHand
    <3>3. \A s : Passed(s)' = Passed(s)
      BY <3>1 DEF Passed
    <3>4. PendingDone'
      BY <3>1, <3>2, <3>3 DEF LifeInv, PendingDone
    <3>5. QED
      BY <3>1, <3>2, <3>4 DEF LifeInv, OneWorker, DrainIsTold, WorkerStays
  <2>2. CASE Next
    BY <2>2, SenderLives, OwnerLives, WorkerLives, ExitLives, CancelLives DEF Next, WorkerRuns
  <2>3. QED
    BY <2>1, <2>2
<1>3. AccountInv /\ OneWorker /\ DrainIsTold /\ WorkerStays /\ PendingDone => LifeInv
  BY DEF LifeInv
<1>4. QED
  BY <1>1, <1>2, <1>3, AccountInvariant, PTL DEF Spec

\* When Stop of the only owner returns, nothing that was queued before it is left behind,
\* unless the worker's context was cancelled: for every number of senders and events.
THEOREM StopLeavesNothing == OneOwner => (Spec => StopDrains)
<1> SUFFICES ASSUME OneOwner PROVE Spec => StopDrains
  OBVIOUS
<1> DEFINE Left == \A o \in Owners : StopReturns(o) /\ cancelled = {} => pending[o] \cap Undispatched = {}
<1>1. LifeInv /\ [Next]_vars => [Left]_vars
  <2> SUFFICES ASSUME LifeInv, Next, NEW o \in Owners, StopReturns(o), cancelled = {}
               PROVE  pending[o] \cap Undispatched = {}
    OBVIOUS
  <2>1. owner[o] = "waiting" /\ wg = 0 /\ ~ panicked
    BY DEF StopReturns, OwnerMoves, Next
  <2>2. Active = {}
    BY <2>1, ActiveFinite, FS_EmptySet DEF LifeInv, AccountInv, TypeInv, WgCounts
  <2>3. QED
    BY <2>1, <2>2 DEF LifeInv, PendingDone
<1>2. QED
  BY <1>1, LifeInvariant, PTL DEF Spec, StopDrains

-------------------------------------------------------------------------------
(* Order *)

\* What is queued, in hand or received is an event of some sender.
LEMMA EventTypes ==
  ASSUME TypeOK
  PROVE  /\ \A e \in Events : e.from \in Senders /\ e.seq \in Nat /\ e # NoEvent
         /\ \A i \in DOMAIN queue : queue[i] \in Events
         /\ \A p \in Providers : \A i \in DOMAIN received[p] : i \in Nat /\ received[p][i] \in Events
         /\ \A w \in Workers : hand[w] # NoEvent => hand[w] \in Events
<1>1. \A e \in Events : e.from \in Senders /\ e.seq \in Nat
  BY DEF Events
<1>2. \A e \in Events : e # NoEvent
  BY NoEventAssumption
<1>3. queue \in Seq(Events) /\ hand \in [Workers -> Events \cup {NoEvent}]
      /\ received \in [Providers -> Seq(Events)]
  BY DEF TypeOK
<1>4. \A i \in DOMAIN queue : queue[i] \in Events
  BY <1>3
<1>5. \A p \in Providers : received[p] \in Seq(Events)
  BY <1>3
<1>6. \A p \in Providers : \A i \in DOMAIN received[p] : i \in Nat /\ received[p][i] \in Events
  BY <1>5
<1>7. \A w \in Workers : hand[w] # NoEvent => hand[w] \in Events
  BY <1>3
<1>8. QED
  BY <1>1, <1>2, <1>4, <1>6, <1>7

\* Steps that move no event but out of a worker's hands.
LEMMA StillInLine ==
  ASSUME TypeOK, InLine, InOrder, UNCHANGED <<queue, received>>,
         \A w \in Workers : hand'[w] \in {hand[w], NoEvent},
         \A s \in Senders : Passed(s)' >= Passed(s) /\ Passed(s) \in Int /\ Passed(s)' \in Int
  PROVE  InLine' /\ InOrder'
<1>1. InOrder'
  BY DEF InOrder
<1>2. \A i, j \in DOMAIN queue' : i < j => Behind(queue'[i], queue'[j])
  BY DEF InLine
<1>3. \A w \in Workers : hand'[w] # NoEvent => \A i \in DOMAIN queue' : Behind(hand'[w], queue'[i])
  BY DEF InLine
<1>4. ASSUME NEW p \in Providers, NEW i \in DOMAIN received'[p]
      PROVE  /\ received'[p][i].seq <= Passed(received[p][i].from)'
             /\ \A j \in DOMAIN queue' : Behind(received'[p][i], queue'[j])
             /\ \A w \in Workers : hand'[w] # NoEvent /\ received'[p][i].from = hand'[w].from
                  => received'[p][i].seq <= hand'[w].seq
  <2>1. received[p][i].seq \in Nat /\ received[p][i].from \in Senders
    BY EventTypes
  <2>2. received[p][i].seq <= Passed(received[p][i].from)
    BY DEF InLine
  <2>3. received[p][i].seq <= Passed(received[p][i].from)'
    BY <2>1, <2>2
  <2>4. QED
    BY <2>3 DEF InLine
<1>5. QED
  BY <1>1, <1>2, <1>3, <1>4, Zenon DEF InLine

\* An event that enters the queue bears a number its sender has not passed before.
LEMMA EnqueueInLine ==
  ASSUME AccountInv, InLine, InOrder, NEW s \in Senders, Enqueue(s)
  PROVE  InLine' /\ InOrder'
<1>0. TypeOK
  BY DEF AccountInv, TypeInv
<1>1. PICK e : e = sender[s]
  OBVIOUS
<1>2. /\ e # NoEvent /\ queue' = Append(queue, e) /\ sender' = [sender EXCEPT ![s] = NoEvent]
      /\ UNCHANGED <<hand, received, sent>>
  BY <1>1 DEF Enqueue, SendReturns, working, delivery
<1>3. e \in Events /\ e.from = s /\ e.seq = sent[s] /\ e.seq \in Nat /\ s \in Senders
  BY <1>0, <1>1, <1>2, EventTypes DEF TypeOK, AccountInv, SendersOwn
<1>4. Passed(s) = e.seq - 1
  BY <1>1, <1>2, <1>3 DEF Passed
<1>5. \A f \in Events : f.seq <= Passed(f.from) => Behind(f, e)
  <2>1. ASSUME NEW f \in Events, f.seq <= Passed(f.from), f.from = e.from PROVE f.seq < e.seq
    <3>1. f.seq \in Nat
      BY <1>0, EventTypes
    <3>2. f.seq <= e.seq - 1
      BY <2>1, <1>3, <1>4
    <3>3. QED
      BY <3>1, <3>2, <1>3
  <2>2. QED
    BY <2>1 DEF Behind
<1>6. \A i \in DOMAIN queue : queue[i] \in Events /\ Behind(queue[i], e)
  <2>1. \A i \in DOMAIN queue : queue[i] \in PassedEvents
    BY DEF PassedEvents, Range
  <2>2. QED
    BY <2>1, <1>0, <1>5, EventTypes DEF AccountInv, NumbersPassed
<1>7. \A w \in Workers : hand[w] # NoEvent => Behind(hand[w], e)
  <2>1. \A w \in Workers : hand[w] # NoEvent => hand[w] \in PassedEvents
    BY DEF PassedEvents, InHand
  <2>2. QED
    BY <2>1, <1>0, <1>5, EventTypes DEF AccountInv, NumbersPassed
<1>8. \A p \in Providers : \A i \in DOMAIN received[p] : Behind(received[p][i], e)
  BY <1>0, <1>5, EventTypes DEF InLine
<1>9. PICK n : n = Len(queue) + 1
  OBVIOUS
<1>10. /\ DOMAIN queue' = DOMAIN queue \cup {n} /\ queue'[n] = e
       /\ \A i \in DOMAIN queue : queue'[i] = queue[i] /\ i < n
       /\ n \in Nat
  <2>1. queue \in Seq(Events)
    BY <1>0 DEF TypeOK
  <2>2. QED
    BY <2>1, <1>2, <1>3, <1>9, InjectiveAppend
<1>11. \A i, j \in DOMAIN queue' : i < j => Behind(queue'[i], queue'[j])
  <2>1. \A i \in DOMAIN queue : ~ n < i
    <3>1. \A i \in DOMAIN queue : i \in Nat
      BY <1>0 DEF TypeOK
    <3>2. QED
      BY <3>1, <1>10
  <2>2. ~ n < n
    BY <1>10
  <2>3. QED
    BY <2>1, <2>2, <1>6, <1>10 DEF InLine
<1>12. \A w \in Workers : hand'[w] # NoEvent => \A i \in DOMAIN queue' : Behind(hand'[w], queue'[i])
  BY <1>2, <1>7, <1>10 DEF InLine
<1>13. \A p \in Providers : \A i \in DOMAIN received'[p] : \A j \in DOMAIN queue' : Behind(received'[p][i], queue'[j])
  BY <1>2, <1>8, <1>10 DEF InLine
<1>14. \A p \in Providers : \A i \in DOMAIN received'[p] : received'[p][i].seq <= Passed(received[p][i].from)'
  <2>1. \A t \in Senders : Passed(t)' >= Passed(t) /\ Passed(t) \in Int /\ Passed(t)' \in Int
    BY <1>0, PassedGrows DEF SenderContinues
  <2> TAKE p \in Providers
  <2>2. TAKE i \in DOMAIN received'[p]
  <2>3. received[p][i].seq \in Nat /\ received[p][i].from \in Senders
    BY <1>0, <1>2, EventTypes
  <2>4. received[p][i].seq <= Passed(received[p][i].from)
    BY <1>2 DEF InLine
  <2>5. QED
    BY <1>2, <2>1, <2>3, <2>4
<1>15. InOrder'
  BY <1>2 DEF InOrder
<1>16. InLine'
  BY <1>2, <1>11, <1>12, <1>13, <1>14 DEF InLine
<1>17. QED
  BY <1>15, <1>16

\* The head of the queue passes into a worker's hands.
LEMMA TakeInLine ==
  ASSUME TypeInv, InLine, InOrder, NEW w \in Workers, Receive(w) \/ Drain(w)
  PROVE  InLine' /\ InOrder'
<1>0. TypeOK
  BY DEF TypeInv
<1>1. /\ queue # <<>> /\ queue' = Tail(queue) /\ hand' = [hand EXCEPT ![w] = Head(queue)]
      /\ UNCHANGED <<received, sent, sender>>
  BY DEF Receive, Drain, Take, WorkerMoves, sending, delivery
<1>2. queue \in Seq(Events)
  BY <1>0 DEF TypeOK
<1>3. /\ Head(queue) = queue[1] /\ 1 \in DOMAIN queue
      /\ \A i \in DOMAIN queue' : i \in Nat \ {0} /\ queue'[i] = queue[i + 1] /\ i + 1 \in DOMAIN queue
  <2>1. Head(queue) = queue[1] /\ \A i \in DOMAIN Tail(queue) : Tail(queue)[i] = queue[i + 1] /\ i + 1 \in DOMAIN queue
    BY <1>1, <1>2, InjectiveTail
  <2>2. 1 \in DOMAIN queue
    BY <1>1, <1>2
  <2>3. Tail(queue) \in Seq(Events)
    BY <1>1, <1>2, InjectiveTail
  <2>4. \A i \in DOMAIN Tail(queue) : i \in Nat \ {0}
    BY <2>3
  <2>5. QED
    BY <2>1, <2>2, <2>4, <1>1
<1>4. hand'[w] = queue[1] /\ \A v \in Workers \ {w} : hand'[v] = hand[v]
  BY <1>0, <1>1, <1>3 DEF TypeOK
<1>5. \A i, j \in DOMAIN queue' : i < j => Behind(queue'[i], queue'[j])
  <2>1. TAKE i, j \in DOMAIN queue'
  <2>2. HAVE i < j
  <2>3. i + 1 < j + 1 /\ i + 1 \in DOMAIN queue /\ j + 1 \in DOMAIN queue
    BY <2>2, <1>3
  <2>4. QED
    BY <2>3, <1>3 DEF InLine
<1>6. \A i \in DOMAIN queue' : Behind(queue[1], queue'[i])
  <2>1. TAKE i \in DOMAIN queue'
  <2>2. 1 < i + 1 /\ i + 1 \in DOMAIN queue
    BY <1>3
  <2>3. QED
    BY <2>2, <1>3 DEF InLine
<1>7. \A v \in Workers : hand'[v] # NoEvent => \A i \in DOMAIN queue' : Behind(hand'[v], queue'[i])
  BY <1>3, <1>4, <1>6 DEF InLine
<1>2a. PICK r : r = received
  OBVIOUS
<1>8. \A p \in Providers : \A i \in DOMAIN r[p] :
        /\ r[p][i].seq <= Passed(r[p][i].from)'
        /\ \A j \in DOMAIN queue' : Behind(r[p][i], queue'[j])
  <2>1. \A s : Passed(s)' = Passed(s)
    BY <1>1 DEF Passed
  <2>2. QED
    BY <2>1, <1>2a, <1>3 DEF InLine
<1>9. \A p \in Providers : \A i \in DOMAIN received'[p] : \A v \in Workers :
        hand'[v] # NoEvent /\ received'[p][i].from = hand'[v].from => received'[p][i].seq <= hand'[v].seq
  <2> TAKE p \in Providers
  <2> TAKE i \in DOMAIN received'[p]
  <2> TAKE v \in Workers
  <2>2. CASE v # w
    BY <2>2, <1>1, <1>4 DEF InLine
  <2>3. CASE v = w
    <3>1. Behind(received[p][i], queue[1])
      BY <1>1, <1>3 DEF InLine
    <3>2. received[p][i] \in Events /\ queue[1] \in Events /\ received[p][i].seq \in Nat /\ queue[1].seq \in Nat
      BY <1>0, <1>1, <1>3, EventTypes
    <3>3. QED
      BY <2>3, <3>1, <3>2, <1>1, <1>4 DEF Behind
  <2>4. QED
    BY <2>2, <2>3
<1>10. InOrder'
  BY <1>1 DEF InOrder
<1>11. InLine'
  BY <1>2a, <1>1, <1>5, <1>7, <1>8, <1>9 DEF InLine
<1>12. QED
  BY <1>10, <1>11

\* A provider's endpoint gets the event in the worker's hands, the last taken.
LEMMA DeliverInLine ==
  ASSUME LifeInv, InLine, InOrder, NEW w \in Workers, Deliver(w)
  PROVE  InLine' /\ InOrder'
<1>0. TypeOK /\ TypeInv
  BY DEF LifeInv, AccountInv, TypeInv
<1>1. DeliverEffect(w)
  BY <1>0, DeliverDoes
<1>2. UNCHANGED <<queue, hand, sent, sender>>
  BY <1>1 DEF DeliverEffect, sending
<1>3. \A s : Passed(s)' = Passed(s)
  BY <1>2 DEF Passed
<1>4. CASE received' = received
  <2>1. \A s \in Senders : Passed(s)' >= Passed(s) /\ Passed(s) \in Int /\ Passed(s)' \in Int
    BY <1>0, <1>2, PassedGrows
  <2>2. QED
    BY <2>1, <1>0, <1>2, <1>4, StillInLine
<1>5. CASE Arrives(w)
  <2>1. PICK p, e : p = Head(todo[w]) /\ e = hand[w]
    OBVIOUS
  <2>2. p \in Providers /\ e \in Events /\ e # NoEvent
    <3>1. worker[w] = "deliver" /\ todo[w] # <<>> /\ todo[w] \in Seq(Providers)
      BY <1>0, <1>1 DEF DeliverEffect, TypeOK
    <3>2. p \in Providers
      BY <2>1, <3>1, InjectiveTail
    <3>3. QED
      BY <2>1, <3>1, <3>2, <1>0, EventTypes DEF TypeInv, HandsFull
  <2>3. e.from \in Senders /\ e.seq \in Nat
    BY <2>2, <1>0, EventTypes
  <2>4. received[p] \in Seq(Events) /\ received'[p] = Append(received[p], e)
        /\ \A q \in Providers \ {p} : received'[q] = received[q]
    BY <2>1, <2>2, <1>0, <1>5 DEF Arrives, TypeOK
  <2>5. PICK n : n = Len(received[p]) + 1
    OBVIOUS
  <2>6. /\ DOMAIN received'[p] = DOMAIN received[p] \cup {n} /\ received'[p][n] = e
        /\ \A i \in DOMAIN received[p] : received'[p][i] = received[p][i] /\ i < n /\ i \in Nat
        /\ n \in Nat
    <3>1. \A i \in DOMAIN received[p] : i \in Nat
      BY <2>4
    <3>2. QED
      BY <3>1, <2>2, <2>4, <2>5, InjectiveAppend
  <2>7. \A q \in Providers : \A i \in DOMAIN received'[q] :
          (i \in DOMAIN received[q] /\ received'[q][i] = received[q][i]) \/ received'[q][i] = e
    BY <2>4, <2>6
  <2>8. e.seq <= Passed(e.from)
    BY <2>1, <2>2 DEF LifeInv, AccountInv, NumbersPassed, PassedEvents, InHand
  <2>9. \A j \in DOMAIN queue : Behind(e, queue[j])
    BY <2>1, <2>2 DEF InLine
  <2>10. \A v \in Workers : hand[v] # NoEvent => v = w
    BY <2>1, <2>2, <1>0 DEF LifeInv, OneWorker, Active, TypeInv, HandsFull
  <2>11. \A q \in Providers : \A i \in DOMAIN received'[q] :
           /\ received'[q][i].seq <= Passed(received'[q][i].from)
           /\ \A j \in DOMAIN queue : Behind(received'[q][i], queue[j])
           /\ \A v \in Workers : hand[v] # NoEvent /\ received'[q][i].from = hand[v].from
                => received'[q][i].seq <= hand[v].seq
    <3> TAKE q \in Providers
    <3> TAKE i \in DOMAIN received'[q]
    <3>1. CASE i \in DOMAIN received[q] /\ received'[q][i] = received[q][i]
      BY <3>1 DEF InLine
    <3>2. CASE received'[q][i] = e
      BY <3>2, <2>1, <2>3, <2>8, <2>9, <2>10
    <3>3. QED
      BY <3>1, <3>2, <2>7
  <2>12. InLine'
    <3>1. PICK r : r = received'
      OBVIOUS
    <3>2. \A q \in Providers : \A i \in DOMAIN r[q] :
            /\ r[q][i].seq <= Passed(r[q][i].from)'
            /\ \A j \in DOMAIN queue' : Behind(r[q][i], queue'[j])
            /\ \A v \in Workers : hand'[v] # NoEvent /\ r[q][i].from = hand'[v].from
                 => r[q][i].seq <= hand'[v].seq
      BY <3>1, <2>11, <1>2, <1>3
    <3>3. QED
      BY <3>1, <3>2, <1>2 DEF InLine
  <2>13. InOrder'
    <3>1. \A i \in DOMAIN received[p] : received[p][i].from = e.from => received[p][i].seq <= e.seq
      BY <2>1, <2>2 DEF InLine
    <3>2. \A i \in DOMAIN received[p] : ~ n < i
      BY <2>6
    <3>3. ~ n < n
      BY <2>6
    <3>4. \A i, j \in DOMAIN received'[p] : i < j /\ received'[p][i].from = received'[p][j].from
             => received'[p][i].seq <= received'[p][j].seq
      BY <3>1, <3>2, <3>3, <2>6, <2>2 DEF InOrder
    <3>5. QED
      BY <3>4, <2>4 DEF InOrder
  <2>14. QED
    BY <2>12, <2>13
<1>6. QED
  BY <1>1, <1>4, <1>5 DEF DeliverEffect

\* With one owner each endpoint gets a sender's events in the order they were sent.
LEMMA OrderInvariant == OneOwner => (Spec => []OrderInv)
<1> SUFFICES ASSUME OneOwner PROVE Spec => []OrderInv
  OBVIOUS
<1>1. Init => InLine /\ InOrder
  BY DEF Init, InLine, InOrder
<1>2. OrderInv /\ [Next]_vars => InLine' /\ InOrder'
  <2> SUFFICES ASSUME OrderInv, [Next]_vars PROVE InLine' /\ InOrder'
    OBVIOUS
  <2> USE DEF OrderInv
  <2>1. TypeOK /\ TypeInv /\ AccountInv
    BY DEF LifeInv, AccountInv, TypeInv
  <2>2. ASSUME UNCHANGED <<queue, received>>, \A w \in Workers : hand'[w] \in {hand[w], NoEvent},
               UNCHANGED <<sent, sender>> \/ \E s \in Senders : Send(s) \/ SenderContinues(s)
        PROVE  InLine' /\ InOrder'
    BY <2>1, <2>2, PassedGrows, StillInLine
  <2> USE DEF channel, lifecycle, sending, delivery, working, WorkerMoves
  <2>3. ASSUME NEW p \in Providers, RegisterProvider(p)
        PROVE  InLine' /\ InOrder'
    BY <2>2, <2>3 DEF RegisterProvider
  <2>4. ASSUME NEW o \in Owners, Start(o) \/ Stop(o) \/ OwnerContinues(o)
        PROVE  InLine' /\ InOrder'
    BY <2>2, <2>4 DEF OwnerContinues, OwnerMoves, Start, Stop, Launch, CloseDone, StopReturns
  <2>5. ASSUME NEW s \in Senders, Send(s) \/ Drop(s)
        PROVE  InLine' /\ InOrder'
    BY <2>2, <2>5 DEF Send, SenderContinues, Drop, SendReturns
  <2>6. ASSUME NEW w \in Workers, Cancel(w) \/ FiveSecondsPass(w) \/ ReadProviders(w) \/ BeginDrain(w) \/ Exit(w)
        PROVE  InLine' /\ InOrder'
    BY <2>2, <2>6 DEF Cancel, FiveSecondsPass, ReadProviders, BeginDrain, Exit
  <2>7. ASSUME NEW w \in Workers, EndDispatch(w)
        PROVE  InLine' /\ InOrder'
    <3>1. hand' = [hand EXCEPT ![w] = NoEvent] /\ UNCHANGED <<queue, received, sent, sender>>
      BY <2>7 DEF EndDispatch, Dispatched
    <3>2. \A v \in Workers : hand'[v] \in {hand[v], NoEvent}
      BY <2>1, <3>1 DEF TypeOK
    <3>3. QED
      BY <2>2, <3>1, <3>2
  <2>8. CASE UNCHANGED vars
    BY <2>2, <2>8 DEF vars
  <2>9. QED
    BY <2>1, <2>3, <2>4, <2>5, <2>6, <2>7, <2>8, EnqueueInLine, TakeInLine, DeliverInLine
       DEF Next, SenderContinues, WorkerRuns
<1>3. OrderInv <=> LifeInv /\ InLine /\ InOrder
  BY DEF OrderInv
<1>4. QED
  BY <1>1, <1>2, <1>3, LifeInvariant, PTL DEF Spec

-------------------------------------------------------------------------------
(* Repetitions *)

\* A turn of the dispatch loop adds at most one copy of the event in hand, at the
\* endpoint of the provider whose turn it is.
LEMMA AtMoves ==
  ASSUME TypeOK, NEW w \in Workers, NEW p \in Providers, NEW e \in Events,
         p = Head(todo[w]), e = hand[w], received' = received \/ Arrives(w)
  PROVE  /\ \A q \in Providers : \A f : q # p \/ f # e => At(q, f)' = At(q, f)
         /\ Cardinality(At(p, e)) \in Nat /\ Cardinality(At(p, e)') \in Nat
         /\ Cardinality(At(p, e)') <= Cardinality(At(p, e)) + 1
         /\ \A q \in Providers : \A i \in DOMAIN received'[q] :
              \/ i \in DOMAIN received[q] /\ received'[q][i] = received[q][i]
              \/ q = p /\ received'[q][i] = e
<1>1. IsFiniteSet(At(p, e))
  <2>1. received[p] \in Seq(Events)
    BY DEF TypeOK
  <2>2. DOMAIN received[p] = 1..Len(received[p]) /\ Len(received[p]) \in Int /\ 1 \in Int
    BY <2>1
  <2>3. IsFiniteSet(DOMAIN received[p])
    BY <2>2, FS_Interval
  <2>4. QED
    BY <2>3, FS_Subset DEF At
<1>2. Cardinality(At(p, e)) \in Nat
  BY <1>1, FS_CardinalityType
<1>3. CASE received' = received
  <2>1. \A q, f : At(q, f)' = At(q, f)
    BY <1>3 DEF At
  <2>2. QED
    BY <2>1, <1>2, <1>3
<1>4. CASE Arrives(w)
  <2>1. received[p] \in Seq(Events) /\ received'[p] = Append(received[p], e)
        /\ \A q \in Providers \ {p} : received'[q] = received[q]
    BY <1>4 DEF Arrives, TypeOK
  <2>2. PICK n : n = Len(received[p]) + 1
    OBVIOUS
  <2>3. /\ DOMAIN received'[p] = DOMAIN received[p] \cup {n} /\ received'[p][n] = e
        /\ \A i \in DOMAIN received[p] : received'[p][i] = received[p][i]
    BY <2>1, <2>2, InjectiveAppend
  <2>4. \A q \in Providers : \A f : q # p \/ f # e => At(q, f)' = At(q, f)
    <3> TAKE q \in Providers
    <3> TAKE f
    <3>1. CASE q # p
      BY <3>1, <2>1 DEF At
    <3>2. CASE q = p /\ f # e
      BY <3>2, <2>3 DEF At
    <3>3. QED
      BY <3>1, <3>2
  <2>5. At(p, e)' = At(p, e) \cup {n}
    BY <2>3 DEF At
  <2>6. PICK S : S = At(p, e)
    OBVIOUS
  <2>7. IsFiniteSet(S) /\ Cardinality(S) \in Nat
    BY <2>6, <1>1, <1>2
  <2>8. Cardinality(S \cup {n}) = IF n \in S THEN Cardinality(S) ELSE Cardinality(S) + 1
    BY <2>7, FS_AddElement
  <2>9. Cardinality(S \cup {n}) \in Nat /\ Cardinality(S \cup {n}) <= Cardinality(S) + 1
    BY <2>7, <2>8
  <2>10. Cardinality(At(p, e)') = Cardinality(S \cup {n})
    BY <2>5, <2>6
  <2>11. \A q \in Providers : \A i \in DOMAIN received'[q] :
           \/ i \in DOMAIN received[q] /\ received'[q][i] = received[q][i]
           \/ q = p /\ received'[q][i] = e
    BY <2>1, <2>3
  <2>12. QED
    BY <1>2, <2>4, <2>6, <2>9, <2>10, <2>11
<1>5. QED
  BY <1>3, <1>4

\* A worker that stays where it is, while the endpoints get nothing.
LEMMA CountedStays ==
  ASSUME NEW v \in Workers, Counted(v), UNCHANGED received, worker'[v] = worker[v],
         hand'[v] = hand[v], todo'[v] = todo[v], tries'[v] = tries[v]
  PROVE  Counted(v)'
<1>1. PICK s, h, t, n : s = worker[v] /\ h = hand[v] /\ t = todo[v] /\ n = tries[v]
  OBVIOUS
<1>2. s = worker'[v] /\ h = hand'[v] /\ t = todo'[v] /\ n = tries'[v]
  BY <1>1
<1>3. \A q : {j \in DOMAIN received'[q] : received'[q][j] = h} = At(q, h)
  BY DEF At
<1>4. /\ s = "dispatch" => \A p \in Providers : At(p, h) = {}
      /\ s # "deliver" => n = 0
      /\ s = "deliver" =>
           /\ IsInjective(t)
           /\ \A i \in DOMAIN t : i # 1 => At(t[i], h) = {}
           /\ t # <<>> => Cardinality(At(t[1], h)) <= n
           /\ n # 0 => t # <<>> /\ Kind[t[1]] = "webhook"
  BY <1>1, Zenon DEF Counted
<1>5. QED
  BY <1>2, <1>3, <1>4, Zenon DEF Counted, At

\* Steps on which the endpoints get nothing and a worker, if it moves, moves out of the
\* dispatch, no attempt under way.
LEMMA QuietRetries ==
  ASSUME RetriesCounted, RepeatedByRetryOnly, UNCHANGED received,
         \A v \in Workers :
           \/ /\ worker'[v] = worker[v] /\ hand'[v] = hand[v]
              /\ todo'[v] = todo[v] /\ tries'[v] = tries[v]
           \/ worker'[v] \notin {"dispatch", "deliver"} /\ tries'[v] = 0
  PROVE  RetriesCounted' /\ RepeatedByRetryOnly'
<1>1. RepeatedByRetryOnly'
  BY DEF RepeatedByRetryOnly
<1>2. ASSUME NEW v \in Workers
      PROVE  Counted(v)'
  <2>1. CASE worker'[v] \notin {"dispatch", "deliver"} /\ tries'[v] = 0
    BY <2>1 DEF Counted
  <2>2. CASE /\ worker'[v] = worker[v] /\ hand'[v] = hand[v]
             /\ todo'[v] = todo[v] /\ tries'[v] = tries[v]
    BY <2>2, CountedStays DEF RetriesCounted
  <2>3. QED
    BY <2>1, <2>2
<1>3. QED
  BY <1>1, <1>2 DEF RetriesCounted

\* No endpoint has yet what is taken out of the queue.
LEMMA TakeRetries ==
  ASSUME TypeInv, InLine, RetriesCounted, RepeatedByRetryOnly, NEW w \in Workers, Receive(w) \/ Drain(w)
  PROVE  RetriesCounted' /\ RepeatedByRetryOnly'
<1>0. TypeOK
  BY DEF TypeInv
<1>1. /\ worker[w] \in {"select", "drain"} /\ worker' = [worker EXCEPT ![w] = "dispatch"]
      /\ queue # <<>> /\ hand' = [hand EXCEPT ![w] = Head(queue)]
      /\ UNCHANGED <<received, tries, todo>>
  BY DEF Receive, Drain, Take, WorkerMoves, delivery
<1>2. /\ worker'[w] = "dispatch" /\ hand'[w] = Head(queue)
      /\ \A v \in Workers \ {w} : worker'[v] = worker[v] /\ hand'[v] = hand[v]
  BY <1>0, <1>1 DEF TypeOK
<1>3. Head(queue) = queue[1] /\ 1 \in DOMAIN queue /\ queue[1] \in Events /\ queue[1].seq \in Nat
  <2>1. queue \in Seq(Events)
    BY <1>0 DEF TypeOK
  <2>2. Head(queue) = queue[1] /\ 1 \in DOMAIN queue
    BY <2>1, <1>1
  <2>3. QED
    BY <2>2, <1>0, EventTypes
<1>4. \A q, f : At(q, f)' = At(q, f)
  BY <1>1 DEF At
<1>5. \A q \in Providers : At(q, queue[1]) = {}
  <2>1. \A q \in Providers : \A i \in DOMAIN received[q] : Behind(received[q][i], queue[1])
    BY <1>3 DEF InLine
  <2>2. ~ Behind(queue[1], queue[1])
    BY <1>3 DEF Behind
  <2>3. QED
    BY <2>1, <2>2 DEF At
<1>6. Counted(w)'
  <2>1. tries[w] = 0
    BY <1>1 DEF RetriesCounted, Counted
  <2>2. \A q \in Providers : {j \in DOMAIN received'[q] : received'[q][j] = hand'[w]} = {}
    BY <1>1, <1>2, <1>3, <1>5 DEF At
  <2>3. QED
    BY <2>1, <2>2, <1>1, <1>2 DEF Counted, At
<1>7. ASSUME NEW v \in Workers, v # w
      PROVE  Counted(v)'
  <2>1. Counted(v)
    BY DEF RetriesCounted
  <2>2. QED
    BY <2>1, <1>1, <1>2, <1>7 DEF Counted, At
<1>8. RepeatedByRetryOnly'
  BY <1>1 DEF RepeatedByRetryOnly
<1>9. QED
  BY <1>6, <1>7, <1>8 DEF RetriesCounted

\* The providers are read: the turn of each is still to come, once.
LEMMA ReadRetries ==
  ASSUME TypeInv, RetriesCounted, RepeatedByRetryOnly, NEW w \in Workers, ReadProviders(w)
  PROVE  RetriesCounted' /\ RepeatedByRetryOnly'
<1>1. /\ worker[w] = "dispatch" /\ worker' = [worker EXCEPT ![w] = "deliver"]
      /\ todo' = [todo EXCEPT ![w] = providers]
      /\ UNCHANGED <<received, tries, hand>>
  BY DEF ReadProviders, WorkerMoves
<1>2. /\ worker'[w] = "deliver" /\ todo'[w] = providers
      /\ \A v \in Workers \ {w} : worker'[v] = worker[v] /\ todo'[v] = todo[v]
  BY <1>1 DEF TypeInv, TypeOK
<1>3. /\ providers \in Seq(Providers) /\ IsInjective(providers)
      /\ \A i \in DOMAIN providers : providers[i] \in Providers
      /\ providers # <<>> => 1 \in DOMAIN providers
  <2>1. providers \in Seq(Providers) /\ IsInjective(providers)
    BY DEF TypeInv, TypeOK
  <2>2. QED
    BY <2>1
<1>4. tries[w] = 0 /\ \A q \in Providers : At(q, hand[w]) = {}
  BY <1>1 DEF RetriesCounted, Counted
<1>5. Counted(w)'
  <2>1. \A q \in Providers : {j \in DOMAIN received'[q] : received'[q][j] = hand'[w]} = {}
    BY <1>1, <1>4 DEF At
  <2>2. Cardinality({}) = 0
    BY FS_EmptySet
  <2>3. \A i \in DOMAIN providers : {j \in DOMAIN received'[providers[i]] : received'[providers[i]][j] = hand'[w]} = {}
    BY <2>1, <1>3
  <2>4. providers # <<>> => Cardinality({j \in DOMAIN received'[providers[1]] : received'[providers[1]][j] = hand'[w]}) = 0
    BY <2>2, <2>3, <1>3
  <2>5. tries'[w] = 0
    BY <1>1, <1>4
  <2>6. QED
    BY <2>3, <2>4, <2>5, <1>2, <1>3 DEF Counted, At
<1>6. ASSUME NEW v \in Workers, v # w
      PROVE  Counted(v)'
  BY <1>1, <1>2, <1>6, CountedStays DEF RetriesCounted
<1>7. RepeatedByRetryOnly'
  BY <1>1 DEF RepeatedByRetryOnly
<1>8. QED
  BY <1>5, <1>6, <1>7 DEF RetriesCounted

\* How a worker in the dispatch loop is counted after a step.
LEMMA CountedTurn ==
  ASSUME NEW w \in Workers, NEW e, NEW t, NEW n,
         worker'[w] = "deliver" /\ e = hand'[w] /\ t = todo'[w] /\ n = tries'[w] /\ IsInjective(t),
         \A i \in DOMAIN t : i # 1 => At(t[i], e)' = {},
         t # <<>> => Cardinality(At(t[1], e)') <= n,
         n # 0 => t # <<>> /\ Kind[t[1]] = "webhook"
  PROVE  Counted(w)'
BY Zenon DEF Counted, At

\* A turn repeats the event at one endpoint only, and only a webhook's turn comes again.
LEMMA DeliverRetries ==
  ASSUME LifeInv, RetriesCounted, RepeatedByRetryOnly, NEW w \in Workers, Deliver(w)
  PROVE  RetriesCounted' /\ RepeatedByRetryOnly'
<1>0. TypeOK /\ TypeInv /\ TypeOK
  BY DEF LifeInv, AccountInv, TypeInv
<1>1. PICK p, e, t, n : p = Head(todo[w]) /\ e = hand[w] /\ t = todo[w] /\ n = tries[w]
  OBVIOUS
<1>2. DeliverEffect(w)
  BY <1>0, DeliverDoes
<1>3. /\ worker[w] = "deliver" /\ t # <<>> /\ UNCHANGED <<worker, hand>>
      /\ received' = received \/ Arrives(w)
      /\ \/ /\ Kind[p] = "webhook" /\ n + 1 # MaxAttempts
            /\ tries' = [tries EXCEPT ![w] = n + 1] /\ todo' = todo
         \/ tries' = [tries EXCEPT ![w] = 0] /\ todo' = [todo EXCEPT ![w] = Tail(t)]
  BY <1>1, <1>2 DEF DeliverEffect, Returns
<1>4. /\ t \in Seq(Providers) /\ IsInjective(t) /\ p \in Providers /\ p = t[1]
      /\ e \in Events /\ e # NoEvent
      /\ n \in 0 .. MaxAttempts - 1 /\ MaxAttempts \in Nat
      /\ n # 0 => Kind[p] = "webhook"
      /\ Cardinality(At(p, e)) <= n
      /\ \A i \in DOMAIN t : i # 1 => At(t[i], e) = {} /\ t[i] \in Providers /\ t[i] # p
  <2>1. t \in Seq(Providers) /\ n \in 0 .. MaxAttempts - 1 /\ MaxAttempts \in Nat
    BY <1>0, <1>1, NotificationsAssumption DEF TypeOK
  <2>2. p \in Providers /\ p = t[1] /\ 1 \in DOMAIN t /\ \A i \in DOMAIN t : t[i] \in Providers
    <3>1. p \in Providers /\ p = t[1]
      BY <1>1, <1>3, <2>1, InjectiveTail
    <3>2. QED
      BY <1>3, <2>1, <3>1
  <2>3. e \in Events /\ e # NoEvent
    BY <1>0, <1>1, <1>3, EventTypes DEF TypeInv, HandsFull
  <2>4. /\ IsInjective(t) /\ \A i \in DOMAIN t : i # 1 => At(t[i], e) = {}
        /\ Cardinality(At(p, e)) <= n /\ (n # 0 => Kind[p] = "webhook")
    BY <1>1, <1>3, <2>2, Zenon DEF RetriesCounted, Counted
  <2>5. \A i \in DOMAIN t : i # 1 => t[i] # p
    BY <2>2, <2>4 DEF IsInjective
  <2>6. QED
    BY <2>1, <2>2, <2>3, <2>4, <2>5
<1>5. /\ \A q \in Providers : \A f : q # p \/ f # e => At(q, f)' = At(q, f)
      /\ Cardinality(At(p, e)) \in Nat /\ Cardinality(At(p, e)') \in Nat
      /\ Cardinality(At(p, e)') <= Cardinality(At(p, e)) + 1
      /\ \A q \in Providers : \A i \in DOMAIN received'[q] :
           \/ i \in DOMAIN received[q] /\ received'[q][i] = received[q][i]
           \/ q = p /\ received'[q][i] = e
  BY <1>0, <1>1, <1>3, <1>4, AtMoves
<1>6. PICK r : r = received'
  OBVIOUS
<1> DEFINE After(q, f) == {j \in DOMAIN r[q] : r[q][j] = f}
<1>7. \A q, f : After(q, f) = At(q, f)'
  BY <1>6 DEF At
<1>8. /\ \A q \in Providers : \A f : q # p \/ f # e => After(q, f) = At(q, f)
      /\ Cardinality(After(p, e)) \in Nat /\ Cardinality(After(p, e)) <= n + 1
  <2>1. After(p, e) = At(p, e)'
    BY <1>7
  <2>2. Cardinality(After(p, e)) = Cardinality(At(p, e)')
    BY <2>1, Zenon
  <2>3. n \in Nat
    BY <1>4
  <2>4. Cardinality(After(p, e)) \in Nat /\ Cardinality(After(p, e)) <= n + 1
    BY <2>2, <2>3, <1>4, <1>5
  <2>5. \A q \in Providers : \A f : q # p \/ f # e => After(q, f) = At(q, f)
    BY <1>5, <1>7, Zenon
  <2>6. QED
    BY <2>4, <2>5
<1> HIDE DEF After
<1>9. RepeatedByRetryOnly'
  <2>1. ASSUME NEW q \in Providers, NEW i \in DOMAIN r[q]
        PROVE  Cardinality(After(q, r[q][i])) <= (IF Kind[q] = "webhook" THEN MaxAttempts ELSE 1)
    <3>1. CASE q = p /\ r[q][i] = e
      <4>1. Cardinality(After(q, r[q][i])) <= n + 1 /\ Cardinality(After(q, r[q][i])) \in Nat
        BY <3>1, <1>8
      <4>2. n \in Nat /\ n + 1 <= MaxAttempts /\ MaxAttempts \in Nat
        BY <1>4
      <4>3. CASE Kind[q] = "webhook"
        BY <4>1, <4>2, <4>3
      <4>4. CASE Kind[q] # "webhook"
        <5>1. n = 0
          BY <1>4, <3>1, <4>4
        <5>2. QED
          BY <4>1, <4>4, <5>1
      <4>5. QED
        BY <4>3, <4>4
    <3>2. CASE ~ (q = p /\ r[q][i] = e)
      <4>1. i \in DOMAIN received[q] /\ r[q][i] = received[q][i]
        BY <3>2, <1>5, <1>6
      <4>2. After(q, r[q][i]) = At(q, received[q][i])
        BY <3>2, <4>1, <1>8
      <4>3. Cardinality(At(q, received[q][i])) <= (IF Kind[q] = "webhook" THEN MaxAttempts ELSE 1)
        BY <4>1 DEF RepeatedByRetryOnly, At
      <4>4. QED
        BY <4>2, <4>3, Zenon
    <3>3. QED
      BY <3>1, <3>2
  <2>2. QED
    BY <2>1, <1>6 DEF RepeatedByRetryOnly, After
<1>10. /\ worker'[w] = "deliver" /\ hand'[w] = e
       /\ \A v \in Workers \ {w} : tries'[v] = tries[v]
  BY <1>0, <1>1, <1>3 DEF TypeOK
<1>11. \A i \in DOMAIN t : i # 1 => After(t[i], e) = {}
  BY <1>4, <1>8
<1>12. ASSUME Kind[p] = "webhook", tries' = [tries EXCEPT ![w] = n + 1], todo' = todo
       PROVE  Counted(w)'
  <2>1. todo'[w] = t /\ tries'[w] = n + 1
    BY <1>0, <1>1, <1>12 DEF TypeOK
  <2>2. Cardinality(After(t[1], e)) <= n + 1
    BY <1>4, <1>8, Zenon
  <2>3. PICK m : m = n + 1
    OBVIOUS
  <2>4. worker'[w] = "deliver" /\ e = hand'[w] /\ t = todo'[w] /\ m = tries'[w] /\ IsInjective(t)
    BY <2>1, <2>3, <1>4, <1>10, Zenon
  <2>5. \A i \in DOMAIN t : i # 1 => At(t[i], e)' = {}
    BY <1>7, <1>11, Zenon
  <2>6. Cardinality(At(t[1], e)') <= m
    BY <2>2, <2>3, <1>7, Zenon
  <2>7. m # 0 => t # <<>> /\ Kind[t[1]] = "webhook"
    BY <1>3, <1>4, <1>12, Zenon
  <2>8. QED
    BY <2>4, <2>5, <2>6, <2>7, CountedTurn, Zenon
<1>13. ASSUME tries' = [tries EXCEPT ![w] = 0], todo' = [todo EXCEPT ![w] = Tail(t)]
       PROVE  Counted(w)'
  <2>1. PICK u : u = Tail(t)
    OBVIOUS
  <2>2. todo'[w] = u /\ tries'[w] = 0
    BY <2>1, <1>0, <1>1, <1>13 DEF TypeOK
  <2>3. /\ u \in Seq(Providers) /\ IsInjective(u)
        /\ \A i \in DOMAIN u : u[i] = t[i + 1] /\ i + 1 \in DOMAIN t
    BY <2>1, <1>3, <1>4, InjectiveTail
  <2>4. \A i \in DOMAIN u : i + 1 # 1 /\ i \in Nat
    BY <2>3
  <2>5. \A i \in DOMAIN u : After(u[i], e) = {}
    BY <2>3, <2>4, <1>11
  <2>6. u # <<>> => 1 \in DOMAIN u
    BY <2>3
  <2>7. Cardinality({}) = 0
    BY FS_EmptySet
  <2>8. u # <<>> => After(u[1], e) = {}
    BY <2>5, <2>6
  <2>9. 0 <= 0
    OBVIOUS
  <2>10. u # <<>> => Cardinality(At(u[1], e)') <= 0
    BY <2>7, <2>8, <2>9, <1>7, Zenon
  <2>11. \A i \in DOMAIN u : i # 1 => At(u[i], e)' = {}
    BY <2>5, <1>7, Zenon
  <2>12. worker'[w] = "deliver" /\ e = hand'[w] /\ u = todo'[w] /\ 0 = tries'[w] /\ IsInjective(u)
    BY <2>2, <2>3, <1>10
  <2>13. 0 # 0 => u # <<>> /\ Kind[u[1]] = "webhook"
    OBVIOUS
  <2>14. QED
    BY <2>10, <2>11, <2>12, <2>13, CountedTurn, Zenon
<1>14. ASSUME NEW v \in Workers, v # w
       PROVE  Counted(v)'
  <2>1. worker[v] \notin {"dispatch", "deliver"}
    BY <1>3, <1>14 DEF LifeInv, OneWorker, Active
  <2>2. tries[v] = 0
    BY <2>1 DEF RetriesCounted, Counted
  <2>3. worker'[v] = worker[v] /\ tries'[v] = 0
    BY <2>2, <1>3, <1>10, <1>14
  <2>4. QED
    BY <2>1, <2>3 DEF Counted
<1>15. QED
  BY <1>3, <1>9, <1>12, <1>13, <1>14 DEF RetriesCounted

\* With one owner an endpoint gets an event again only as a webhook's retry.
LEMMA RetryInvariant == OneOwner => (Spec => []RetryInv)
<1> SUFFICES ASSUME OneOwner PROVE Spec => []RetryInv
  OBVIOUS
<1>1. Init => RetriesCounted /\ RepeatedByRetryOnly
  BY DEF Init, RetriesCounted, Counted, RepeatedByRetryOnly
<1>2. RetryInv /\ [Next]_vars => RetriesCounted' /\ RepeatedByRetryOnly'
  <2> SUFFICES ASSUME RetryInv, [Next]_vars PROVE RetriesCounted' /\ RepeatedByRetryOnly'
    OBVIOUS
  <2> USE DEF RetryInv
  <2>1. TypeOK /\ TypeInv /\ LifeInv /\ InLine
    BY DEF OrderInv, LifeInv, AccountInv, TypeInv
  <2>2. ASSUME UNCHANGED <<received, worker, hand, todo, tries>>
        PROVE  RetriesCounted' /\ RepeatedByRetryOnly'
    BY <2>2, QuietRetries
  <2>3. ASSUME NEW w \in Workers, NEW to \in {"select", "drain", "exited"},
               worker' = [worker EXCEPT ![w] = to], UNCHANGED <<received, todo, tries>>, tries[w] = 0,
               \A v \in Workers \ {w} : hand'[v] = hand[v]
        PROVE  RetriesCounted' /\ RepeatedByRetryOnly'
    <3>1. worker'[w] = to /\ \A v \in Workers \ {w} : worker'[v] = worker[v]
      BY <2>1, <2>3 DEF TypeOK
    <3>2. QED
      BY <3>1, <2>3, QuietRetries
  <2>4. \A w \in Workers : worker[w] # "deliver" => tries[w] = 0
    BY DEF RetriesCounted, Counted
  <2> USE DEF channel, lifecycle, sending, delivery, working, WorkerMoves
  <2>5. ASSUME NEW p \in Providers, RegisterProvider(p)
        PROVE  RetriesCounted' /\ RepeatedByRetryOnly'
    BY <2>2, <2>5 DEF RegisterProvider
  <2>6. ASSUME NEW o \in Owners, Start(o) \/ Stop(o) \/ CloseDone(o) \/ StopReturns(o)
        PROVE  RetriesCounted' /\ RepeatedByRetryOnly'
    BY <2>2, <2>6 DEF OwnerMoves, Start, Stop, CloseDone, StopReturns
  <2>7. ASSUME NEW o \in Owners, Launch(o)
        PROVE  RetriesCounted' /\ RepeatedByRetryOnly'
    <3>1. PICK w \in Workers : worker[w] = "none" /\ worker' = [worker EXCEPT ![w] = "select"]
      BY <2>7 DEF Launch
    <3>2. QED
      BY <2>3, <2>4, <2>7, <3>1 DEF Launch
  <2>8. ASSUME NEW s \in Senders, Send(s) \/ SenderContinues(s)
        PROVE  RetriesCounted' /\ RepeatedByRetryOnly'
    BY <2>2, <2>8 DEF Send, SenderContinues, Enqueue, Drop, SendReturns
  <2>9. ASSUME NEW w \in Workers, Cancel(w) \/ FiveSecondsPass(w)
        PROVE  RetriesCounted' /\ RepeatedByRetryOnly'
    BY <2>2, <2>9 DEF Cancel, FiveSecondsPass
  <2>10. ASSUME NEW w \in Workers, BeginDrain(w) \/ Exit(w)
         PROVE  RetriesCounted' /\ RepeatedByRetryOnly'
    BY <2>3, <2>4, <2>10 DEF BeginDrain, Exit
  <2>11. ASSUME NEW w \in Workers, EndDispatch(w)
         PROVE  RetriesCounted' /\ RepeatedByRetryOnly'
    <3>1. /\ worker[w] = "deliver" /\ todo[w] = <<>> /\ hand' = [hand EXCEPT ![w] = NoEvent]
          /\ UNCHANGED <<received, todo, tries>>
      BY <2>11 DEF EndDispatch, Dispatched
    <3>2. PICK to \in {"select", "drain"} : worker' = [worker EXCEPT ![w] = to]
      BY <2>11 DEF EndDispatch
    <3>3. tries[w] = 0
      BY <3>1 DEF RetriesCounted, Counted
    <3>4. \A v \in Workers \ {w} : hand'[v] = hand[v]
      BY <2>1, <3>1 DEF TypeOK
    <3>5. QED
      BY <2>3, <3>1, <3>2, <3>3, <3>4
  <2>12. CASE UNCHANGED vars
    BY <2>2, <2>12 DEF vars
  <2>13. QED
    BY <2>1, <2>5, <2>6, <2>7, <2>8, <2>9, <2>10, <2>11, <2>12, TakeRetries, ReadRetries, DeliverRetries
       DEF Next, OwnerContinues, WorkerRuns
<1>3. RetryInv <=> OrderInv /\ RetriesCounted /\ RepeatedByRetryOnly
  BY DEF RetryInv
<1>4. QED
  BY <1>1, <1>2, <1>3, OrderInvariant, PTL DEF Spec

-------------------------------------------------------------------------------
(* Every provider is tried *)

\* Steps that hand a worker nothing new and change nothing about what was tried.
LEMMA QuietServe ==
  ASSUME AudienceServed, UNCHANGED <<received, missed, finished>>,
         Range(providers) \subseteq Range(providers'),
         (Checked \cup Undispatched)' \subseteq Checked \cup Undispatched,
         \A v \in Workers : worker'[v] = "deliver" =>
           worker[v] = "deliver" /\ hand'[v] = hand[v] /\ todo'[v] = todo[v]
  PROVE  AudienceServed'
<1>1. \A p, e : Tried(p, e)' <=> Tried(p, e)
  BY DEF Tried
<1>2. \A e \in (Checked \cup Undispatched)' : \A p \in e.audience : p \in Range(providers') /\ Supports(p, e)
  BY DEF AudienceServed
<1>3. \A v \in Workers : worker'[v] = "deliver" =>
        \A p \in hand'[v].audience : p \in Range(todo'[v]) \/ Tried(p, hand[v])
  BY DEF AudienceServed
<1>4. \A v \in Workers : worker'[v] = "deliver" =>
        \A p \in hand'[v].audience : p \in Range(todo'[v]) \/ Tried(p, hand[v])'
  <2>1. TAKE v \in Workers
  <2>2. HAVE worker'[v] = "deliver"
  <2>3. PICK e : e = hand[v]
    OBVIOUS
  <2>4. hand'[v] = e
    BY <2>2, <2>3
  <2>5. \A p \in e.audience : p \in Range(todo'[v]) \/ Tried(p, e)'
    BY <2>2, <2>3, <2>4, <1>1, <1>3
  <2>6. QED
    BY <2>4, <2>5 DEF Tried
<1>5. \A e \in finished : \A p \in e.audience : Tried(p, e)'
  BY <1>1 DEF AudienceServed
<1>6. QED
  BY <1>2, <1>4, <1>5 DEF AudienceServed, Supports

\* Send asks the providers registered then that support the type.
LEMMA SendServes ==
  ASSUME TypeOK, AudienceServed, NEW s \in Senders, Send(s)
  PROVE  AudienceServed'
<1>1. UNCHANGED <<providers, queue, worker, hand, todo, received, missed, finished>>
  BY DEF Send, channel, working, delivery
<1>2. PICK type \in Types : \/ sender' = [sender EXCEPT ![s] = Event(s, type)]
                            \/ sender' = sender
  BY DEF Send
<1>3. PICK e : e = Event(s, type)
  OBVIOUS
<1>4. \A p \in e.audience : p \in Range(providers) /\ Supports(p, e)
  BY <1>3 DEF Event, Supports
<1>5. Undispatched' = Undispatched
  BY <1>1 DEF Undispatched, InHand
<1>6. Checked' \subseteq Checked \cup {e}
  BY <1>2, <1>3 DEF Checked, TypeOK
<1>7. \A f \in (Checked \cup Undispatched)' : \A p \in f.audience : p \in Range(providers') /\ Supports(p, f)
  BY <1>1, <1>4, <1>5, <1>6 DEF AudienceServed
<1>8. /\ \A w \in Workers : worker'[w] = "deliver" =>
           \A p \in hand'[w].audience : p \in Range(todo'[w]) \/ Tried(p, hand[w])'
      /\ \A f \in finished' : \A p \in f.audience : Tried(p, f)'
  BY <1>1 DEF AudienceServed, Tried
<1>9. QED
  BY <1>7, <1>8 DEF AudienceServed, Supports

\* A turn serves the provider at the head of the list, if it is in the audience.
LEMMA DeliverServes ==
  ASSUME LifeInv, AudienceServed, NEW w \in Workers, Deliver(w)
  PROVE  AudienceServed'
<1>0. TypeOK /\ TypeInv
  BY DEF LifeInv, AccountInv, TypeInv
<1>1. PICK p, e, t : p = Head(todo[w]) /\ e = hand[w] /\ t = todo[w]
  OBVIOUS
<1>2. DeliverEffect(w)
  BY <1>0, DeliverDoes
<1>3. /\ worker[w] = "deliver" /\ t # <<>> /\ UNCHANGED <<providers, queue, sender, worker, hand, finished>>
      /\ received' = received \/ (Supports(p, e) /\ Arrives(w))
  BY <1>1, <1>2 DEF DeliverEffect, sending
<1>4. t \in Seq(Providers) /\ p \in Providers /\ e \in Events
  <2>1. t \in Seq(Providers)
    BY <1>0, <1>1 DEF TypeOK
  <2>2. e \in Events
    BY <1>0, <1>1, <1>3, EventTypes DEF TypeInv, HandsFull
  <2>3. QED
    BY <2>1, <2>2, <1>1, <1>3, InjectiveTail
<1>5. \A q \in Providers : Range(received[q]) \subseteq Range(received'[q])
  <2>1. CASE received' = received
    BY <2>1
  <2>2. CASE Arrives(w)
    <3>1. received[p] \in Seq(Events) /\ received'[p] = Append(received[p], e)
          /\ \A q \in Providers \ {p} : received'[q] = received[q]
      BY <2>2, <1>0, <1>1, <1>4 DEF Arrives, TypeOK
    <3>2. Range(received'[p]) = Range(received[p]) \cup {e}
      BY <3>1, <1>4, InjectiveAppend
    <3>3. QED
      BY <3>1, <3>2
  <2>3. QED
    BY <2>1, <2>2, <1>3
<1>6. missed \subseteq missed'
  BY <1>2 DEF DeliverEffect, ReturnsError
<1>7. \A q \in Providers : \A f : Tried(q, f) => Tried(q, f)'
  BY <1>5, <1>6 DEF Tried
<1>8. ASSUME Returns(w), Supports(p, e)
      PROVE  Tried(p, e)'
  <2>1. CASE received' # received
    <3>1. Arrives(w)
      BY <2>1, <1>3
    <3>2. received[p] \in Seq(Events) /\ received'[p] = Append(received[p], e)
      BY <3>1, <1>0, <1>1, <1>4 DEF Arrives, TypeOK
    <3>3. e \in Range(received'[p])
      BY <3>2, <1>4, InjectiveAppend
    <3>4. QED
      BY <3>3 DEF Tried
  <2>2. CASE ReturnsError(w)
    <3>1. \/ e \in Range(received'[p])
          \/ <<p, e, IF ContextDone(w) THEN "late" ELSE "refused">> \in missed'
      BY <2>2, <1>1 DEF ReturnsError
    <3>2. QED
      BY <3>1 DEF Tried
  <2>3. CASE Kind[p] = "pagerduty" /\ Resolves(e) /\ ~ AutoResolve
    BY <2>3 DEF Tried
  <2>4. tries'[w] = 0
    BY <1>0, <1>8 DEF Returns, TypeOK
  <2>5. \/ received' # received \/ ReturnsError(w)
        \/ Kind[p] = "pagerduty" /\ Resolves(e) /\ ~ AutoResolve
    <3>1. todo'[w] = Tail(t) /\ todo[w] = t
      BY <1>0, <1>1, <1>8 DEF Returns, TypeOK
    <3>2. Len(Tail(t)) # Len(t)
      BY <1>3, <1>4, InjectiveTail
    <3>3. todo' # todo
      BY <3>1, <3>2
    <3>4. QED
      BY <3>3, <1>1, <1>2, <1>8 DEF DeliverEffect
  <2>6. QED
    BY <2>1, <2>2, <2>3, <2>5
<1>9. \A q \in e.audience : q \in Providers /\ Supports(q, e) /\ (q \in Range(t) \/ Tried(q, e))
  <2>1. e \in Checked \cup Undispatched
    BY <1>0, <1>1, <1>3 DEF Undispatched, InHand, TypeInv, HandsFull
  <2>2. \A q \in e.audience : Supports(q, e)
    BY <2>1 DEF AudienceServed
  <2>3. \A q \in e.audience : q \in Range(t) \/ Tried(q, e)
    BY <1>1, <1>3 DEF AudienceServed
  <2>4. e.audience \subseteq Providers
    BY <1>4 DEF Events
  <2>5. QED
    BY <2>2, <2>3, <2>4
<1>10. \A q \in e.audience : q \in Range(todo'[w]) \/ Tried(q, e)'
  <2>1. CASE todo' = todo
    BY <2>1, <1>1, <1>7, <1>9
  <2>2. CASE Returns(w)
    <3>1. todo'[w] = Tail(t)
      BY <2>2, <1>0, <1>1 DEF Returns, TypeOK
    <3>2. Range(t) = Range(todo'[w]) \cup {p}
      BY <3>1, <1>1, <1>3, <1>4, InjectiveTail
    <3>3. Supports(p, e) => Tried(p, e)'
      BY <2>2, <1>8
    <3>4. QED
      BY <3>2, <3>3, <1>7, <1>9
  <2>3. QED
    BY <2>1, <2>2, <1>2 DEF DeliverEffect
<1>11. hand'[w] = e /\ \A v \in Workers \ {w} : worker'[v] # "deliver"
  BY <1>1, <1>3 DEF LifeInv, OneWorker, Active
<1>12. \A v \in Workers : worker'[v] = "deliver" =>
         \A q \in hand'[v].audience : q \in Range(todo'[v]) \/ Tried(q, hand[v])'
  <2>1. \A q \in e.audience : q \in Range(todo'[w]) \/ Tried(q, hand[w])'
    BY <1>10, <1>11 DEF Tried
  <2>2. QED
    BY <2>1, <1>11
<1>13. \A f \in finished : \A q \in f.audience : Tried(q, f)'
  <2>1. \A f \in finished : f.audience \subseteq Providers
    BY <1>0 DEF TypeOK, Events
  <2>2. QED
    BY <2>1, <1>7 DEF AudienceServed
<1>14. (Checked \cup Undispatched)' = Checked \cup Undispatched
  BY <1>3 DEF Checked, Undispatched, InHand
<1>15. \A f \in (Checked \cup Undispatched)' : \A q \in f.audience : q \in Range(providers') /\ Supports(q, f)
  BY <1>3, <1>14 DEF AudienceServed
<1>16. QED
  BY <1>3, <1>12, <1>13, <1>15 DEF AudienceServed, Supports

\* With one owner every provider of an event's audience has its turn.
LEMMA ServeInvariant == OneOwner => (Spec => []ServeInv)
<1> SUFFICES ASSUME OneOwner PROVE Spec => []ServeInv
  OBVIOUS
<1>1. Init => AudienceServed
  <2> SUFFICES ASSUME Init PROVE AudienceServed
    OBVIOUS
  <2>1. Checked = {} /\ Undispatched = {} /\ finished = {} /\ \A w \in Workers : worker[w] # "deliver"
    BY DEF Init, Checked, Undispatched, InHand, Range
  <2>2. QED
    BY <2>1 DEF AudienceServed
<1>2. LifeInv /\ AudienceServed /\ [Next]_vars => AudienceServed'
  <2> SUFFICES ASSUME LifeInv, AudienceServed, [Next]_vars PROVE AudienceServed'
    OBVIOUS
  <2>1. TypeOK /\ TypeInv
    BY DEF LifeInv, AccountInv, TypeInv
  <2>2. ASSUME UNCHANGED <<providers, queue, sender, hand, todo, received, missed, finished>>,
               \A v \in Workers : worker'[v] = "deliver" => worker[v] = "deliver"
        PROVE  AudienceServed'
    <3>1. (Checked \cup Undispatched)' = Checked \cup Undispatched
      BY <2>2 DEF Checked, Undispatched, InHand
    <3>2. QED
      BY <3>1, <2>2, QuietServe
  <2>3. ASSUME NEW w \in Workers, NEW to \in {"select", "drain", "exited"},
               worker' = [worker EXCEPT ![w] = to],
               UNCHANGED <<providers, queue, sender, hand, todo, received, missed, finished>>
        PROVE  AudienceServed'
    <3>1. \A v \in Workers : worker'[v] = "deliver" => worker[v] = "deliver"
      BY <2>1, <2>3 DEF TypeOK
    <3>2. QED
      BY <3>1, <2>2, <2>3
  <2> USE DEF channel, lifecycle, sending, delivery, working, WorkerMoves
  <2>4. ASSUME NEW p \in Providers, RegisterProvider(p)
        PROVE  AudienceServed'
    <3>1. providers' = Append(providers, p) /\ providers \in Seq(Providers)
      BY <2>1, <2>4 DEF RegisterProvider, TypeOK
    <3>2. Range(providers) \subseteq Range(providers')
      BY <3>1, InjectiveAppend
    <3>3. UNCHANGED <<queue, sender, worker, hand, todo, received, missed, finished>>
      BY <2>4 DEF RegisterProvider
    <3>4. (Checked \cup Undispatched)' = Checked \cup Undispatched
      BY <3>3 DEF Checked, Undispatched, InHand
    <3>5. QED
      BY <3>2, <3>3, <3>4, QuietServe
  <2>5. ASSUME NEW o \in Owners, Start(o) \/ Stop(o) \/ CloseDone(o) \/ StopReturns(o)
        PROVE  AudienceServed'
    BY <2>2, <2>5 DEF OwnerMoves, Start, Stop, CloseDone, StopReturns
  <2>6. ASSUME NEW o \in Owners, Launch(o)
        PROVE  AudienceServed'
    <3>1. PICK w \in Workers : worker' = [worker EXCEPT ![w] = "select"]
      BY <2>6 DEF Launch
    <3>2. QED
      BY <2>3, <2>6, <3>1 DEF Launch, OwnerMoves
  <2>7. ASSUME NEW s \in Senders, SenderContinues(s)
        PROVE  AudienceServed'
    <3>1. /\ sender[s] # NoEvent /\ sender' = [sender EXCEPT ![s] = NoEvent]
          /\ UNCHANGED <<providers, worker, hand, todo, received, missed, finished>>
          /\ queue' = queue \/ queue' = Append(queue, sender[s])
      BY <2>7 DEF SenderContinues, Enqueue, Drop, SendReturns
    <3>2. sender[s] \in Checked /\ sender[s] \in Events /\ queue \in Seq(Events)
      BY <2>1, <3>1 DEF Checked, TypeOK
    <3>3. Range(queue') \subseteq Range(queue) \cup {sender[s]}
      <4>1. Range(Append(queue, sender[s])) = Range(queue) \cup {sender[s]}
        BY <3>2, InjectiveAppend
      <4>2. CASE queue' = queue
        BY <4>2
      <4>3. CASE queue' = Append(queue, sender[s])
        BY <4>1, <4>3, Zenon
      <4>4. QED
        BY <3>1, <4>2, <4>3
    <3>4. Checked' \subseteq Checked
      BY <2>1, <3>1 DEF Checked, TypeOK
    <3>5. (Checked \cup Undispatched)' \subseteq Checked \cup Undispatched
      BY <3>1, <3>2, <3>3, <3>4 DEF Undispatched, InHand
    <3>6. QED
      BY <3>1, <3>5, QuietServe
  <2>8. ASSUME NEW w \in Workers, Cancel(w) \/ FiveSecondsPass(w)
        PROVE  AudienceServed'
    BY <2>2, <2>8 DEF Cancel, FiveSecondsPass
  <2>9. ASSUME NEW w \in Workers, BeginDrain(w) \/ Exit(w)
        PROVE  AudienceServed'
    BY <2>3, <2>9 DEF BeginDrain, Exit
  <2>10. ASSUME NEW w \in Workers, Receive(w) \/ Drain(w)
         PROVE  AudienceServed'
    <3>1. /\ worker' = [worker EXCEPT ![w] = "dispatch"] /\ queue # <<>> /\ queue' = Tail(queue)
          /\ hand' = [hand EXCEPT ![w] = Head(queue)]
          /\ UNCHANGED <<providers, sender, todo, received, missed, finished>>
      BY <2>10 DEF Receive, Drain, Take
    <3>2. Range(queue) = Range(queue') \cup {Head(queue)}
      BY <2>1, <3>1, InjectiveTail DEF TypeOK
    <3>3. InHand' \subseteq InHand \cup {Head(queue)}
      BY <2>1, <3>1 DEF InHand, TypeOK
    <3>4. (Checked \cup Undispatched)' \subseteq Checked \cup Undispatched
      BY <3>1, <3>2, <3>3 DEF Checked, Undispatched
    <3>5. \A v \in Workers : worker'[v] = "deliver" => worker[v] = "deliver" /\ hand'[v] = hand[v]
      BY <2>1, <3>1 DEF TypeOK
    <3>6. QED
      BY <3>1, <3>4, <3>5, QuietServe
  <2>11. ASSUME NEW w \in Workers, ReadProviders(w)
         PROVE  AudienceServed'
    <3>1. /\ worker[w] = "dispatch" /\ worker' = [worker EXCEPT ![w] = "deliver"]
          /\ todo' = [todo EXCEPT ![w] = providers]
          /\ UNCHANGED <<providers, queue, sender, hand, received, missed, finished>>
      BY <2>11 DEF ReadProviders
    <3>2. /\ worker'[w] = "deliver" /\ todo'[w] = providers
          /\ \A v \in Workers \ {w} : worker'[v] = worker[v] /\ todo'[v] = todo[v]
      BY <2>1, <3>1 DEF TypeOK
    <3>3. (Checked \cup Undispatched)' = Checked \cup Undispatched
      BY <3>1 DEF Checked, Undispatched, InHand
    <3>4. hand[w] \in Undispatched
      BY <2>1, <3>1 DEF Undispatched, InHand, TypeInv, HandsFull
    <3>5. \A p \in hand[w].audience : p \in Range(todo'[w])
      BY <3>2, <3>4 DEF AudienceServed
    <3>6. \A v \in Workers : worker'[v] = "deliver" =>
            \A p \in hand'[v].audience : p \in Range(todo'[v]) \/ Tried(p, hand[v])'
      BY <3>1, <3>2, <3>5 DEF AudienceServed, Tried
    <3>7. \A e \in finished' : \A p \in e.audience : Tried(p, e)'
      BY <3>1 DEF AudienceServed, Tried
    <3>8. \A e \in (Checked \cup Undispatched)' : \A p \in e.audience : p \in Range(providers') /\ Supports(p, e)
      BY <3>1, <3>3 DEF AudienceServed
    <3>9. QED
      BY <3>6, <3>7, <3>8 DEF AudienceServed, Supports
  <2>12. ASSUME NEW w \in Workers, EndDispatch(w)
         PROVE  AudienceServed'
    <3>1. PICK to \in {"select", "drain"} : worker' = [worker EXCEPT ![w] = to]
      BY <2>12 DEF EndDispatch
    <3>2. /\ worker[w] = "deliver" /\ todo[w] = <<>> /\ hand' = [hand EXCEPT ![w] = NoEvent]
          /\ finished' = finished \cup {hand[w]}
          /\ UNCHANGED <<providers, queue, sender, todo, received, missed>>
      BY <2>12 DEF EndDispatch, Dispatched
    <3>3. /\ worker'[w] # "deliver" /\ hand'[w] = NoEvent
          /\ \A v \in Workers \ {w} : worker'[v] = worker[v] /\ hand'[v] = hand[v]
      BY <2>1, <3>1, <3>2 DEF TypeOK
    <3>4. (Checked \cup Undispatched)' \subseteq Checked \cup Undispatched
      BY <3>2, <3>3 DEF Checked, Undispatched, InHand
    <3>5. Range(todo[w]) = {}
      BY <3>2 DEF Range
    <3>6. \A p \in hand[w].audience : Tried(p, hand[w])
      BY <3>2, <3>5 DEF AudienceServed
    <3>7. \A e \in finished' : \A p \in e.audience : Tried(p, e)
      BY <3>2, <3>6 DEF AudienceServed
    <3>8. \A e \in finished' : \A p \in e.audience : Tried(p, e)'
      BY <3>2, <3>7 DEF Tried
    <3>9. \A v \in Workers : worker'[v] = "deliver" =>
            \A p \in hand'[v].audience : p \in Range(todo'[v]) \/ Tried(p, hand[v])'
      BY <3>2, <3>3 DEF AudienceServed, Tried
    <3>10. \A e \in (Checked \cup Undispatched)' : \A p \in e.audience : p \in Range(providers') /\ Supports(p, e)
      BY <3>2, <3>4 DEF AudienceServed
    <3>11. QED
      BY <3>8, <3>9, <3>10 DEF AudienceServed, Supports
  <2>13. CASE UNCHANGED vars
    BY <2>2, <2>13 DEF vars
  <2>14. QED
    BY <2>1, <2>4, <2>5, <2>6, <2>7, <2>8, <2>9, <2>10, <2>11, <2>12, <2>13, SendServes, DeliverServes
       DEF Next, OwnerContinues, WorkerRuns
<1>3. LifeInv /\ AudienceServed => ServeInv
  BY DEF ServeInv
<1>4. QED
  BY <1>1, <1>2, <1>3, LifeInvariant, PTL DEF Spec

\* With one owner, endpoints get a sender's events in the order they were sent, repeated by
\* a webhook's retries only, and every supporting provider has its turn: for every number of
\* senders and providers, every queue, and every number of attempts.
THEOREM DeliveredAsSent == OneOwner => (Spec => []DeliveredInOrder)
<1> SUFFICES ASSUME OneOwner PROVE Spec => []DeliveredInOrder
  OBVIOUS
<1>1. RetryInv /\ ServeInv => DeliveredInOrder
  <2> SUFFICES ASSUME RetryInv, ServeInv PROVE DeliveredInOrder
    OBVIOUS
  <2>1. TypeOK /\ InOrder /\ RepeatedByRetryOnly
    BY DEF RetryInv, OrderInv, LifeInv, AccountInv, TypeInv
  <2>2. AllProvidersTried
    BY DEF ServeInv, AudienceServed, LifeInv, DrainIsTold, AllProvidersTried, Tried
  <2>3. QED
    BY <2>1, <2>2 DEF DeliveredInOrder
<1>2. QED
  BY <1>1, RetryInvariant, ServeInvariant, PTL

-------------------------------------------------------------------------------
(* The queue: what became of an event is a function of its sender and number *)

\* No two events that left Send bear the same sender and number.
ItemsDiffer == \A e, f \in PassedEvents : Item(e) = Item(f) => e = f

\* An event Send ignored is nowhere else.
RefusedApart == refused \cap (Undispatched \cup finished) = {}

TraceInv == AccountInv /\ ItemsDiffer /\ RefusedApart

\* An item is in one place, and one not yet sent is in none.
LEMMA ItemsApart ==
  ASSUME TraceInv, NEW i \in Senders \X (1..MaxEvents)
  PROVE  /\ i[2] > sent[i[1]] => i \notin ItemsOf(PassedEvents \cup Checked)
         /\ i \in ItemsOf(Checked) => i \notin ItemsOf(PassedEvents)
         /\ i \in ItemsOf(refused) => i \notin ItemsOf(Undispatched \cup finished)
         /\ i \in ItemsOf(Range(queue)) => i \notin ItemsOf(InHand \cup finished)
         /\ i \in ItemsOf(InHand) => i \notin ItemsOf(finished)
<1> USE DEF TraceInv, AccountInv
<1>1. \A x \in PassedEvents : x.from \in Senders /\ x.seq \in Nat /\ x.seq <= Passed(x.from)
  <2>1. PassedEvents \subseteq Events
    BY DEF PassedEvents, TypeInv, TypeOK, Range, InHand
  <2>2. QED
    BY <2>1, NotificationsAssumption DEF Events, NumbersPassed
<1>2. \A x \in Checked : /\ x.from \in Senders /\ x.seq = sent[x.from] /\ sender[x.from] = x /\ x # NoEvent
  BY DEF Checked, SendersOwn
<1>3. sent \in [Senders -> Nat]
  BY NotificationsAssumption DEF TypeInv, TypeOK
<1>4. \A s \in Senders :
        /\ Passed(s) \in Int /\ sent[s] \in Nat /\ Passed(s) <= sent[s]
        /\ sender[s] # NoEvent => Passed(s) = sent[s] - 1
  BY <1>3 DEF Passed
<1>5. i[1] \in Senders /\ i[2] \in Nat /\ sent[i[1]] \in Nat
  BY <1>3, NotificationsAssumption
<1>6. i[2] > sent[i[1]] => i \notin ItemsOf(PassedEvents \cup Checked)
  <2> SUFFICES ASSUME i \in ItemsOf(PassedEvents \cup Checked) PROVE i[2] <= sent[i[1]]
    BY <1>5
  <2>1. PICK x \in PassedEvents \cup Checked : i = <<x.from, x.seq>>
    BY DEF ItemsOf, Item
  <2>2. i[1] = x.from /\ i[2] = x.seq
    BY <2>1
  <2>3. CASE x \in PassedEvents
    <3>1. x.from \in Senders /\ x.seq \in Nat /\ x.seq <= Passed(x.from)
      BY <2>3, <1>1
    <3>2. PICK s \in Senders : s = x.from
      BY <3>1
    <3>3. Passed(s) \in Int /\ sent[s] \in Nat /\ Passed(s) <= sent[s]
      BY <1>4
    <3>4. x.seq \in Nat /\ x.seq <= Passed(s)
      BY <3>1, <3>2
    <3>5. x.seq <= sent[s]
      BY <3>3, <3>4
    <3>6. QED
      BY <2>2, <3>2, <3>5
  <2>4. CASE x \in Checked
    BY <2>2, <2>4, <1>2, <1>5
  <2>5. QED
    BY <2>3, <2>4
<1>7. i \in ItemsOf(Checked) => i \notin ItemsOf(PassedEvents)
  <2> SUFFICES ASSUME NEW x \in Checked, NEW y \in PassedEvents,
                      i = <<x.from, x.seq>>, i = <<y.from, y.seq>>
               PROVE  FALSE
    BY DEF ItemsOf, Item
  <2>1. x.from = y.from /\ x.seq = y.seq
    OBVIOUS
  <2>2. y.from \in Senders /\ y.seq \in Nat /\ y.seq <= Passed(y.from)
    BY <1>1
  <2>3. PICK s \in Senders : s = y.from
    BY <2>2
  <2>4. sender[s] # NoEvent /\ y.seq = sent[s]
    BY <2>1, <2>3, <1>2
  <2>5. Passed(s) = sent[s] - 1 /\ sent[s] \in Nat
    BY <2>4, <1>4
  <2>6. y.seq <= Passed(s)
    BY <2>2, <2>3
  <2>7. QED
    BY <2>4, <2>5, <2>6
<1>8. ASSUME NEW X, NEW Y, X \subseteq PassedEvents, Y \subseteq PassedEvents, X \cap Y = {}, i \in ItemsOf(X)
      PROVE  i \notin ItemsOf(Y)
  BY <1>8 DEF ItemsOf, ItemsDiffer
<1>9. /\ refused \subseteq PassedEvents /\ Range(queue) \subseteq PassedEvents
      /\ InHand \subseteq PassedEvents /\ finished \subseteq PassedEvents
      /\ Undispatched \subseteq PassedEvents
  BY DEF PassedEvents, Undispatched
<1>10. /\ refused \cap (Undispatched \cup finished) = {}
       /\ Range(queue) \cap (InHand \cup finished) = {}
       /\ InHand \cap finished = {}
  BY DEF RefusedApart, OnePlace, Undispatched
<1>11. QED
  BY <1>6, <1>7, <1>8, <1>9, <1>10

\* What the refinement mapping says of an event in each place.
StagedAs(i) ==
  /\ i[2] > sent[i[1]] => Stage[i] = "unsent"
  /\ i \in ItemsOf(refused) => Stage[i] = "ignored"
  /\ i \in ItemsOf(Checked) => Stage[i] = "offered"
  /\ i \in ItemsOf(Range(queue)) => Stage[i] = "queued"
  /\ i \in ItemsOf(InHand) => Stage[i] = "taken"
  /\ i \in ItemsOf(finished) => Stage[i] = "dispatched"
  /\ ~ (i[2] > sent[i[1]]) /\ i \notin ItemsOf(PassedEvents \cup Checked) => Stage[i] = "dropped"

\* The places are apart, so the order of the mapping's cases is of no account.
LEMMA StageIs == TraceInv => \A i \in Senders \X (1..MaxEvents) : StagedAs(i)
<1> SUFFICES ASSUME TraceInv, NEW i \in Senders \X (1..MaxEvents) PROVE StagedAs(i)
  OBVIOUS
<1>1. Stage[i] = StageOf(i)
  BY DEF Stage
<1>2. ItemsOf(Undispatched \cup finished) = ItemsOf(Undispatched) \cup ItemsOf(finished)
      /\ ItemsOf(InHand \cup finished) = ItemsOf(InHand) \cup ItemsOf(finished)
  BY DEF ItemsOf
<1>3. i[2] \in Nat /\ sent[i[1]] \in Nat
  BY NotificationsAssumption DEF TraceInv, AccountInv, TypeInv, TypeOK
<1>4. ItemsOf(PassedEvents \cup Checked) = ItemsOf(refused) \cup ItemsOf(Range(queue)) \cup ItemsOf(InHand) \cup ItemsOf(finished) \cup ItemsOf(Checked)
  BY DEF PassedEvents, ItemsOf
<1>5. ItemsOf(Undispatched) = ItemsOf(Range(queue)) \cup ItemsOf(InHand)
  BY DEF Undispatched, ItemsOf
<1>6. ItemsOf(PassedEvents) = ItemsOf(refused) \cup ItemsOf(Range(queue)) \cup ItemsOf(InHand) \cup ItemsOf(finished)
  BY DEF PassedEvents, ItemsOf
<1>8. ASSUME i[2] > sent[i[1]]
      PROVE  Stage[i] = "unsent" /\ i \notin ItemsOf(PassedEvents \cup Checked)
  <2>1. i \notin ItemsOf(PassedEvents \cup Checked)
    BY <1>8, ItemsApart
  <2>2. StageOf(i) = "unsent"
    BY <1>8, <2>1, <1>4 DEF StageOf
  <2>3. QED
    BY <1>1, <2>1, <2>2
<1>9. ASSUME ~ (i[2] > sent[i[1]])
      PROVE  /\ i \in ItemsOf(refused) => Stage[i] = "ignored"
             /\ i \in ItemsOf(Checked) => Stage[i] = "offered"
             /\ i \in ItemsOf(Range(queue)) => Stage[i] = "queued"
             /\ i \in ItemsOf(InHand) => Stage[i] = "taken"
             /\ i \in ItemsOf(finished) => Stage[i] = "dispatched"
             /\ i \notin ItemsOf(PassedEvents \cup Checked) => Stage[i] = "dropped"
  <2>1. /\ i \in ItemsOf(Checked) => i \notin ItemsOf(refused) /\ i \notin ItemsOf(Range(queue))
                                    /\ i \notin ItemsOf(InHand) /\ i \notin ItemsOf(finished)
        /\ i \in ItemsOf(refused) => i \notin ItemsOf(Range(queue)) /\ i \notin ItemsOf(InHand)
                                    /\ i \notin ItemsOf(finished)
        /\ i \in ItemsOf(Range(queue)) => i \notin ItemsOf(InHand) /\ i \notin ItemsOf(finished)
        /\ i \in ItemsOf(InHand) => i \notin ItemsOf(finished)
    BY ItemsApart, <1>2, <1>5, <1>6, Zenon
  <2>2. CASE i \in ItemsOf(refused)
    <3>1. StageOf(i) = "ignored"
      BY <1>9, <2>1, <2>2 DEF StageOf
    <3>2. QED
      BY <1>1, <1>4, <2>1, <2>2, <3>1
  <2>3. CASE i \in ItemsOf(Checked)
    <3>1. StageOf(i) = "offered"
      BY <1>9, <2>1, <2>3 DEF StageOf
    <3>2. QED
      BY <1>1, <1>4, <2>1, <2>3, <3>1
  <2>4. CASE i \in ItemsOf(Range(queue))
    <3>1. StageOf(i) = "queued"
      BY <1>9, <2>1, <2>4 DEF StageOf
    <3>2. QED
      BY <1>1, <1>4, <2>1, <2>4, <3>1
  <2>5. CASE i \in ItemsOf(InHand)
    <3>1. StageOf(i) = "taken"
      BY <1>9, <2>1, <2>5 DEF StageOf
    <3>2. QED
      BY <1>1, <1>4, <2>1, <2>5, <3>1
  <2>6. CASE i \in ItemsOf(finished)
    <3>1. StageOf(i) = "dispatched"
      BY <1>9, <2>1, <2>6 DEF StageOf
    <3>2. QED
      BY <1>1, <1>4, <2>1, <2>6, <3>1
  <2>7. CASE i \notin ItemsOf(PassedEvents \cup Checked)
    <3>1. StageOf(i) = "dropped"
      BY <1>9, <2>7, <1>4 DEF StageOf
    <3>2. QED
      BY <1>1, <1>4, <2>7, <3>1
  <2>8. QED
    BY <1>4, <2>2, <2>3, <2>4, <2>5, <2>6, <2>7
<1>10. QED
  BY <1>4, <1>8, <1>9 DEF StagedAs

\* What a worker's receive and the end of a dispatch move.
TakeSwaps ==
  LET e == Head(queue) IN
  /\ queue # <<>> /\ queue' = Tail(queue)
  /\ Range(queue) = Range(queue') \cup {e} /\ e \in Range(queue) /\ e \notin Range(queue')
  /\ InHand' = InHand \cup {e} /\ e \notin InHand
  /\ UNCHANGED <<sender, sent, refused, finished>>

EndSwaps(w) ==
  LET e == hand[w] IN
  /\ e \in InHand /\ InHand' = InHand \ {e} /\ finished' = finished \cup {e}
  /\ UNCHANGED <<sender, sent, refused, queue>>

\* A receive, by either loop, takes the oldest event out of the queue.
LEMMA TakeMoves ==
  ASSUME AccountInv, NEW w \in Workers, Receive(w) \/ Drain(w)
  PROVE  TakeSwaps
<1> USE DEF channel, lifecycle, sending, delivery, working, AccountInv, TypeInv
<1>0. PICK e : e = Head(queue)
  OBVIOUS
<1>1. /\ worker[w] \in {"select", "drain"} /\ queue # <<>>
      /\ queue' = Tail(queue) /\ hand' = [hand EXCEPT ![w] = e]
      /\ UNCHANGED <<sender, sent, refused, finished>>
  BY <1>0 DEF Receive, Drain, Take, WorkerMoves
<1>2. /\ e \in Events /\ Range(queue) = Range(queue') \cup {e} /\ e \notin Range(queue')
  BY <1>0, <1>1, InjectiveTail DEF TypeOK, OnePlace
<1>3. hand[w] = NoEvent /\ e # NoEvent
  BY <1>1, <1>2, NoEventAssumption DEF HandsFull
<1>4. hand'[w] = e /\ \A v \in Workers \ {w} : hand'[v] = hand[v]
  BY <1>1 DEF TypeOK
<1>5. InHand' = InHand \cup {e}
  BY <1>3, <1>4 DEF InHand
<1>6. e \notin InHand
  BY <1>2 DEF OnePlace
<1>7. QED
  BY <1>0, <1>1, <1>2, <1>5, <1>6 DEF TakeSwaps

\* The end of a dispatch makes the event in hand a finished one.
LEMMA EndMoves ==
  ASSUME AccountInv, NEW w \in Workers, EndDispatch(w)
  PROVE  EndSwaps(w)
<1> USE DEF channel, lifecycle, sending, delivery, working, AccountInv, TypeInv
<1>0. PICK e : e = hand[w]
  OBVIOUS
<1>1. /\ worker[w] = "deliver" /\ hand' = [hand EXCEPT ![w] = NoEvent]
      /\ finished' = finished \cup {e}
      /\ UNCHANGED <<sender, sent, refused, queue>>
  BY <1>0 DEF EndDispatch, Dispatched, WorkerMoves
<1>2. e # NoEvent
  BY <1>0, <1>1 DEF HandsFull
<1>3. hand'[w] = NoEvent /\ \A v \in Workers \ {w} : hand'[v] = hand[v] /\ hand[v] # e
  BY <1>0, <1>1, <1>2 DEF TypeOK, OnePlace
<1>4. InHand' = InHand \ {e} /\ e \in InHand
  BY <1>0, <1>2, <1>3 DEF InHand
<1>5. QED
  BY <1>0, <1>1, <1>4 DEF EndSwaps

\* An event beyond those its sender has passed is new.
LEMMA NewItem ==
  ASSUME AccountInv, ItemsDiffer, NEW e,
         e.from \in Senders, e.seq \in Nat, e.seq > Passed(e.from),
         PassedEvents' = PassedEvents \/ PassedEvents' = PassedEvents \cup {e}
  PROVE  ItemsDiffer' /\ e \notin PassedEvents
<1>1. \A x \in PassedEvents : x.from \in Senders /\ x.seq \in Nat /\ x.seq <= Passed(x.from)
  <2>1. PassedEvents \subseteq Events
    BY DEF AccountInv, PassedEvents, TypeInv, TypeOK, Range, InHand
  <2>2. QED
    BY <2>1, NotificationsAssumption DEF AccountInv, Events, NumbersPassed
<1>2. Passed(e.from) \in Int
  BY NotificationsAssumption DEF Passed, AccountInv, TypeInv, TypeOK
<1>3. \A x \in PassedEvents : Item(x) # Item(e)
  <2> SUFFICES ASSUME NEW x \in PassedEvents, x.from = e.from, x.seq = e.seq PROVE FALSE
    BY DEF Item
  <2>1. x.seq <= Passed(e.from)
    BY <1>1
  <2>2. QED
    BY <2>1, <1>2
<1>4. QED
  BY <1>3 DEF ItemsDiffer, Item

\* Sender and number identify an event, wherever it is.
LEMMA TraceInvariant == Spec => []TraceInv
<1>1. Init => ItemsDiffer /\ RefusedApart
  BY DEF Init, ItemsDiffer, RefusedApart, PassedEvents, InHand, Range
<1>2. AccountInv /\ ItemsDiffer /\ RefusedApart /\ [Next]_vars => ItemsDiffer' /\ RefusedApart'
  <2> SUFFICES ASSUME AccountInv, ItemsDiffer, RefusedApart, [Next]_vars PROVE ItemsDiffer' /\ RefusedApart'
    OBVIOUS
  <2> USE DEF channel, lifecycle, sending, delivery, working
  <2>0. TypeInv /\ TypeOK /\ sent \in [Senders -> Nat]
    BY NotificationsAssumption DEF AccountInv, TypeInv, TypeOK
  <2>1. ASSUME NEW s \in Senders, Send(s)
        PROVE  ItemsDiffer' /\ RefusedApart'
    <3>1. /\ sender[s] = NoEvent /\ UNCHANGED <<queue, hand, finished>>
      BY <2>1 DEF Send
    <3>2. PICK type \in Types : refused' = refused \/ refused' = refused \cup {Event(s, type)}
      BY <2>1 DEF Send
    <3>3. PICK e : e = Event(s, type)
      OBVIOUS
    <3>4. e.from = s /\ e.seq = sent[s] + 1 /\ Passed(s) = sent[s]
      BY <3>1, <3>3 DEF Event, Passed
    <3>5. PassedEvents' = PassedEvents \/ PassedEvents' = PassedEvents \cup {e}
      BY <3>1, <3>2, <3>3 DEF PassedEvents, InHand
    <3>6. ItemsDiffer' /\ e \notin PassedEvents
      BY <2>0, <3>4, <3>5, NewItem
    <3>7. RefusedApart'
      BY <3>1, <3>2, <3>3, <3>6 DEF RefusedApart, PassedEvents, Undispatched, InHand
    <3>8. QED
      BY <3>6, <3>7
  <2>2. ASSUME NEW s \in Senders, SenderContinues(s)
        PROVE  ItemsDiffer' /\ RefusedApart'
    <3>1. PICK e : e = sender[s]
      OBVIOUS
    <3>2. /\ e # NoEvent /\ UNCHANGED <<refused, hand, finished>>
          /\ queue' = queue \/ queue' = Append(queue, e)
      BY <2>2, <3>1 DEF SenderContinues, Enqueue, Drop, SendReturns
    <3>3. e \in Events /\ e.from = s /\ e.seq = sent[s] /\ Passed(s) = sent[s] - 1
      BY <2>0, <3>1, <3>2 DEF AccountInv, SendersOwn, TypeOK, Passed
    <3>4. Range(queue') = Range(queue) \/ Range(queue') = Range(queue) \cup {e}
      <4>1. Range(Append(queue, e)) = Range(queue) \cup {e}
        BY <2>0, <3>3, InjectiveAppend DEF TypeOK
      <4>2. QED
        BY <4>1, <3>2, Zenon
    <3>5. PassedEvents' = PassedEvents \/ PassedEvents' = PassedEvents \cup {e}
      BY <3>2, <3>4 DEF PassedEvents, InHand
    <3>6. ItemsDiffer' /\ e \notin PassedEvents
      BY <2>0, <3>3, <3>5, NewItem
    <3>7. RefusedApart'
      BY <3>2, <3>4, <3>6 DEF RefusedApart, PassedEvents, Undispatched, InHand
    <3>8. QED
      BY <3>6, <3>7
  <2>3. ASSUME refused' = refused, Undispatched' \cup finished' = Undispatched \cup finished
        PROVE  ItemsDiffer' /\ RefusedApart'
    BY <2>3 DEF ItemsDiffer, RefusedApart, PassedEvents, Undispatched, Item
  <2>4. ASSUME NEW w \in Workers, Receive(w) \/ Drain(w)
        PROVE  ItemsDiffer' /\ RefusedApart'
    <3>1. TakeSwaps
      BY <2>0, <2>4, TakeMoves DEF AccountInv
    <3>2. QED
      BY <3>1, <2>3 DEF TakeSwaps, Undispatched
  <2>5. ASSUME NEW w \in Workers, EndDispatch(w)
        PROVE  ItemsDiffer' /\ RefusedApart'
    <3>1. EndSwaps(w)
      BY <2>0, <2>5, EndMoves DEF AccountInv
    <3>2. QED
      BY <3>1, <2>3 DEF EndSwaps, Undispatched
  <2>6. ASSUME UNCHANGED <<sender, sent, refused, dropped, queue, hand, finished>>
        PROVE  ItemsDiffer' /\ RefusedApart'
    BY <2>3, <2>6 DEF Undispatched, InHand
  <2>7. QED
    BY <2>0, <2>1, <2>2, <2>4, <2>5, <2>6, OtherSteps DEF Next, WorkerRuns
<1>3. TraceInv <=> AccountInv /\ ItemsDiffer /\ RefusedApart
  BY DEF TraceInv
<1>4. QED
  BY <1>1, <1>2, <1>3, AccountInvariant, PTL DEF Spec

\* The queue, as items.
LineOf(q) == [k \in DOMAIN q |-> Item(q[k])]

\* The mapping of a sequence goes element by element.
LEMMA Lines ==
  ASSUME NEW q \in Seq(Events)
  PROVE  /\ LineOf(q) \in Seq(Senders \X (1..MaxEvents)) /\ Len(LineOf(q)) = Len(q)
         /\ \A e \in Events : LineOf(Append(q, e)) = Append(LineOf(q), Item(e))
         /\ q # <<>> => /\ LineOf(q) # <<>> /\ Head(LineOf(q)) = Item(Head(q))
                        /\ LineOf(Tail(q)) = Tail(LineOf(q))
<1> DEFINE Items == Senders \X (1..MaxEvents)
<1>1. \A e \in Events : Item(e) \in Items
  BY DEF Item, Events
<1>2. ASSUME NEW s \in Seq(Events)
      PROVE  /\ LineOf(s) \in Seq(Items) /\ Len(LineOf(s)) = Len(s) /\ Len(s) \in Nat
             /\ \A k \in 1..Len(s) : LineOf(s)[k] = Item(s[k])
  <2>1. Len(s) \in Nat /\ DOMAIN s = 1..Len(s) /\ \A k \in 1..Len(s) : s[k] \in Events
    BY <1>2
  <2>2. LineOf(s) = [k \in 1..Len(s) |-> Item(s[k])]
    BY <2>1 DEF LineOf
  <2>3. \A k \in 1..Len(s) : Item(s[k]) \in Items
    BY <1>1, <2>1
  <2>4. QED
    BY <2>1, <2>2, <2>3
<1> HIDE DEF Items
<1>3. ASSUME NEW e \in Events
      PROVE  LineOf(Append(q, e)) = Append(LineOf(q), Item(e))
  <2>1. /\ Append(q, e) \in Seq(Events) /\ Len(Append(q, e)) = Len(q) + 1
        /\ Append(q, e)[Len(q) + 1] = e /\ \A k \in 1..Len(q) : Append(q, e)[k] = q[k]
    OBVIOUS
  <2>2. /\ LineOf(Append(q, e)) \in Seq(Items) /\ Len(LineOf(Append(q, e))) = Len(q) + 1
        /\ \A k \in 1..Len(q) + 1 : LineOf(Append(q, e))[k] = Item(Append(q, e)[k])
    BY <1>2, <2>1
  <2>3. /\ LineOf(q) \in Seq(Items) /\ Len(LineOf(q)) = Len(q) /\ Len(q) \in Nat
        /\ \A k \in 1..Len(q) : LineOf(q)[k] = Item(q[k])
    BY <1>2
  <2>4. Item(e) \in Items
    BY <1>1
  <2> DEFINE l == LineOf(q)  i == Item(e)  m == LineOf(Append(q, e))
  <2>5. /\ Append(l, i) \in Seq(Items) /\ Len(Append(l, i)) = Len(q) + 1
        /\ Append(l, i)[Len(q) + 1] = i /\ \A k \in 1..Len(q) : Append(l, i)[k] = l[k]
    <3> HIDE DEF l, i
    <3>1. QED
      BY <2>3, <2>4 DEF l, i
  <2>6. \A k \in 1..Len(q) + 1 : m[k] = Append(l, i)[k]
    <3> HIDE DEF l, i, m
    <3> TAKE k \in 1..Len(q) + 1
    <3>1. CASE k \in 1..Len(q)
      BY <3>1, <2>1, <2>2, <2>3, <2>5 DEF l, m
    <3>2. CASE k = Len(q) + 1
      BY <3>2, <2>1, <2>2, <2>5 DEF i, m
    <3>3. k \in 1..Len(q) \/ k = Len(q) + 1
      BY <2>3
    <3>4. QED
      BY <3>1, <3>2, <3>3
  <2> HIDE DEF l, i, m
  <2>7. m \in Seq(Items) /\ Len(m) = Len(q) + 1
    BY <2>2 DEF m
  <2>8. m = Append(l, i)
    BY <2>5, <2>6, <2>7, SeqEqual
  <2>9. QED
    BY <2>8 DEF l, i, m
<1>4. ASSUME q # <<>>
      PROVE  /\ LineOf(q) # <<>> /\ Head(LineOf(q)) = Item(Head(q))
             /\ LineOf(Tail(q)) = Tail(LineOf(q))
  <2>1. /\ Tail(q) \in Seq(Events) /\ Head(q) = q[1] /\ Len(Tail(q)) = Len(q) - 1
        /\ Len(q) \in Nat \ {0} /\ \A k \in 1..Len(q) - 1 : Tail(q)[k] = q[k + 1]
    BY <1>4
  <2>2. /\ LineOf(q) \in Seq(Items) /\ Len(LineOf(q)) = Len(q)
        /\ \A k \in 1..Len(q) : LineOf(q)[k] = Item(q[k])
        /\ LineOf(Tail(q)) \in Seq(Items) /\ Len(LineOf(Tail(q))) = Len(q) - 1
        /\ \A k \in 1..Len(q) - 1 : LineOf(Tail(q))[k] = Item(q[k + 1])
    BY <1>2, <2>1
  <2> DEFINE l == LineOf(q)  m == LineOf(Tail(q))
  <2>3. l # <<>> /\ Head(l) = l[1] /\ Tail(l) \in Seq(Items) /\ Len(Tail(l)) = Len(q) - 1
        /\ \A k \in 1..Len(q) - 1 : Tail(l)[k] = l[k + 1]
    <3> HIDE DEF l
    <3>1. l \in Seq(Items) /\ Len(l) = Len(q)
      BY <2>2 DEF l
    <3>2. QED
      BY <3>1, <2>1
  <2>4. \A k \in 1..Len(q) - 1 : k + 1 \in 1..Len(q)
    BY <2>1
  <2>5. \A k \in 1..Len(q) - 1 : m[k] = Tail(l)[k]
    BY <2>2, <2>3, <2>4
  <2> HIDE DEF l, m
  <2>6. m \in Seq(Items) /\ Len(m) = Len(q) - 1
    BY <2>2 DEF m
  <2>7. m = Tail(l)
    BY <2>3, <2>5, <2>6, SeqEqual
  <2>8. 1 \in 1..Len(q)
    BY <2>1
  <2>9. QED
    BY <2>1, <2>2, <2>3, <2>7, <2>8 DEF l, m
<1>5. QED
  BY <1>2, <1>3, <1>4 DEF Items

\* One item's stage changes, and no other.
Moved(j, to) == Stage' = [Stage EXCEPT ![j] = to]

\* Where an event stands depends on the places it is in, and on no other event.
LEMMA OneMoves ==
  ASSUME \A i \in Senders \X (1..MaxEvents) : StagedAs(i),
         \A i \in Senders \X (1..MaxEvents) : StagedAs(i)',
         NEW j \in Senders \X (1..MaxEvents), NEW to, Stage'[j] = to,
         \A i \in (Senders \X (1..MaxEvents)) \ {j} :
           /\ i[2] > sent'[i[1]] <=> i[2] > sent[i[1]]
           /\ i \in ItemsOf(refused') <=> i \in ItemsOf(refused)
           /\ i \in ItemsOf(Checked') <=> i \in ItemsOf(Checked)
           /\ i \in ItemsOf(Range(queue')) <=> i \in ItemsOf(Range(queue))
           /\ i \in ItemsOf(InHand') <=> i \in ItemsOf(InHand)
           /\ i \in ItemsOf(finished') <=> i \in ItemsOf(finished)
  PROVE  Moved(j, to)
<1>1. ASSUME NEW i \in (Senders \X (1..MaxEvents)) \ {j}
      PROVE  Stage'[i] = Stage[i]
  <2>1. ItemsOf(PassedEvents \cup Checked) = ItemsOf(refused) \cup ItemsOf(Range(queue)) \cup ItemsOf(InHand)
                                             \cup ItemsOf(finished) \cup ItemsOf(Checked)
    BY DEF PassedEvents, ItemsOf
  <2>2. ItemsOf(PassedEvents' \cup Checked') = ItemsOf(refused') \cup ItemsOf(Range(queue')) \cup ItemsOf(InHand')
                                               \cup ItemsOf(finished') \cup ItemsOf(Checked')
    BY DEF PassedEvents, ItemsOf
  <2>3. i \in ItemsOf(PassedEvents' \cup Checked') <=> i \in ItemsOf(PassedEvents \cup Checked)
    BY <1>1, <2>1, <2>2
  <2>4. StagedAs(i) /\ StagedAs(i)'
    BY <1>1
  <2>5. CASE i[2] > sent[i[1]]
    BY <1>1, <2>4, <2>5 DEF StagedAs
  <2>6. CASE i \in ItemsOf(PassedEvents \cup Checked)
    <3>1. \/ i \in ItemsOf(refused) \/ i \in ItemsOf(Range(queue)) \/ i \in ItemsOf(InHand)
          \/ i \in ItemsOf(finished) \/ i \in ItemsOf(Checked)
      BY <2>1, <2>6
    <3>2. QED
      BY <1>1, <2>4, <3>1 DEF StagedAs
  <2>7. CASE ~ (i[2] > sent[i[1]]) /\ i \notin ItemsOf(PassedEvents \cup Checked)
    <3>1. ~ (i[2] > sent'[i[1]]) /\ i \notin ItemsOf(PassedEvents' \cup Checked')
      BY <1>1, <2>3, <2>7
    <3>2. QED
      BY <2>4, <2>7, <3>1 DEF StagedAs
  <2>8. QED
    BY <2>5, <2>6, <2>7
<1>2. Stage' = [i \in Senders \X (1..MaxEvents) |-> Stage'[i]] /\ Stage = [i \in Senders \X (1..MaxEvents) |-> Stage[i]]
  BY DEF Stage
<1>3. QED
  BY <1>1, <1>2 DEF Moved

\* Every item stands as the mapping says.
Staged == \A i \in Senders \X (1..MaxEvents) : StagedAs(i)

\* What one event more or less means for the items.
LEMMA OneItem ==
  ASSUME NEW X, NEW e
  PROVE  /\ e \in X => Item(e) \in ItemsOf(X)
         /\ Item(e) \in ItemsOf(X \cup {e})
         /\ \A i : i # Item(e) => /\ i \in ItemsOf(X \cup {e}) <=> i \in ItemsOf(X)
                                  /\ i \in ItemsOf(X \ {e}) <=> i \in ItemsOf(X)
  BY DEF ItemsOf

\* Send, its check of running, ignores the event or has it offered, after the earlier ones.
LEMMA SendIgnoresOrOffers ==
  ASSUME TraceInv, Staged, Staged', NEW s \in Senders, Send(s)
  PROVE  \E i \in Senders \X (1..MaxEvents) : Mail!Ignore(i) \/ Mail!Offer(i)
<1> USE DEF channel, lifecycle, sending, delivery, working
<1>1. /\ sender[s] = NoEvent /\ sent[s] \in Nat /\ sent[s] + 1 \in 1..MaxEvents
      /\ sent' = [sent EXCEPT ![s] = sent[s] + 1] /\ sent \in [Senders -> Nat]
      /\ UNCHANGED <<queue, hand, finished>>
  BY NotificationsAssumption DEF Send, TraceInv, AccountInv, TypeInv, TypeOK
<1>2. PICK type \in Types : \/ sender' = [sender EXCEPT ![s] = Event(s, type)] /\ UNCHANGED refused
                            \/ refused' = refused \cup {Event(s, type)} /\ UNCHANGED sender
  BY DEF Send
<1>3. PICK e : e = Event(s, type)
  OBVIOUS
<1>4. PICK j : j = Item(e)
  OBVIOUS
<1>5. j = <<s, sent[s] + 1>> /\ j \in Senders \X (1..MaxEvents) /\ j[1] = s /\ j[2] = sent[s] + 1
  BY <1>1, <1>3, <1>4 DEF Item, Event
<1>6. Stage[j] = "unsent"
  BY <1>1, <1>5 DEF Staged, StagedAs
<1>7. Mail!ItsTurn(j)
  <2> SUFFICES ASSUME NEW k \in Senders \X (1..MaxEvents), k[1] = s, k[2] < sent[s] + 1
               PROVE  Stage[k] \notin {"unsent", "offered"}
    BY <1>5 DEF Mail!ItsTurn, Mail!Items
  <2>1. ~ (k[2] > sent[k[1]]) /\ StagedAs(k)
    BY <1>1 DEF Staged
  <2>2. k \notin ItemsOf(Checked)
    <3>1. \A x \in Checked : x.from # s
      BY <1>1 DEF Checked, TraceInv, AccountInv, SendersOwn
    <3>2. QED
      BY <3>1 DEF ItemsOf, Item
  <2>3. \/ k \in ItemsOf(refused) \/ k \in ItemsOf(Range(queue)) \/ k \in ItemsOf(InHand)
        \/ k \in ItemsOf(finished) \/ k \notin ItemsOf(PassedEvents \cup Checked)
    BY <2>2 DEF PassedEvents, ItemsOf
  <2>4. QED
    BY <2>1, <2>3 DEF StagedAs
<1>8. UNCHANGED Line /\ Range(queue') = Range(queue) /\ InHand' = InHand
  BY <1>1 DEF Line, InHand
<1>9. \A i \in (Senders \X (1..MaxEvents)) \ {j} : i[2] > sent'[i[1]] <=> i[2] > sent[i[1]]
  <2> TAKE i \in (Senders \X (1..MaxEvents)) \ {j}
  <2>1. i[1] \in Senders /\ i[2] \in Nat /\ i = <<i[1], i[2]>>
    OBVIOUS
  <2>2. CASE i[1] = s
    <3>1. i[2] # sent[s] + 1
      BY <2>1, <2>2, <1>5
    <3>2. QED
      BY <2>1, <2>2, <3>1, <1>1
  <2>3. CASE i[1] # s
    BY <2>1, <2>3, <1>1
  <2>4. QED
    BY <2>2, <2>3
<1>10. /\ e # NoEvent
       /\ \A i : i # j => i \in ItemsOf(Checked \cup {e}) <=> i \in ItemsOf(Checked)
       /\ \A i : i # j => i \in ItemsOf(refused \cup {e}) <=> i \in ItemsOf(refused)
       /\ j \in ItemsOf(Checked \cup {e}) /\ j \in ItemsOf(refused \cup {e})
  <2>1. e # NoEvent
    <3>1. Range(providers) \subseteq Providers
      BY DEF TraceInv, AccountInv, TypeInv, TypeOK, Range
    <3>2. e \in Events
      BY <1>1, <1>3, <3>1 DEF Event, Events
    <3>3. QED
      BY <3>2, NoEventAssumption
  <2>2. QED
    BY <1>4, <2>1, OneItem
<1>11. CASE sender' = [sender EXCEPT ![s] = Event(s, type)] /\ UNCHANGED refused
  <2>1. sender'[s] = e /\ \A t \in Senders \ {s} : sender'[t] = sender[t]
    BY <1>3, <1>11 DEF TraceInv, AccountInv, TypeInv, TypeOK
  <2>2. Checked' = Checked \cup {e}
    BY <1>1, <1>10, <2>1 DEF Checked
  <2>3. Stage'[j] = "offered"
    BY <1>5, <1>10, <2>2 DEF Staged, StagedAs
  <2>4. Moved(j, "offered")
    BY <1>1, <1>5, <1>8, <1>9, <1>10, <1>11, <2>2, <2>3, OneMoves DEF Staged
  <2>5. Mail!Offer(j)
    BY <1>6, <1>7, <1>8, <2>4 DEF Mail!Offer, Mail!Moves, Moved
  <2>6. QED
    BY <1>5, <2>5
<1>12. CASE refused' = refused \cup {Event(s, type)} /\ UNCHANGED sender
  <2>1. refused' = refused \cup {e} /\ Checked' = Checked
    BY <1>3, <1>12 DEF Checked
  <2>2. Stage'[j] = "ignored"
    BY <1>5, <1>10, <2>1 DEF Staged, StagedAs
  <2>3. Moved(j, "ignored")
    BY <1>1, <1>5, <1>8, <1>9, <1>10, <2>1, <2>2, OneMoves DEF Staged
  <2>4. Mail!Ignore(j)
    BY <1>6, <1>7, <1>8, <2>3 DEF Mail!Ignore, Mail!Moves, Moved
  <2>5. QED
    BY <1>5, <2>4
<1>13. QED
  BY <1>2, <1>11, <1>12

\* The non-blocking send queues the event, or drops it when the queue is full.
LEMMA SenderQueuesOrDrops ==
  ASSUME TraceInv, TraceInv', Staged, Staged', NEW s \in Senders, SenderContinues(s)
  PROVE  \E i \in Senders \X (1..MaxEvents) : Mail!Queue(i) \/ Mail!Overflow(i)
<1> USE DEF channel, lifecycle, sending, delivery, working
<1>1. PICK e : e = sender[s]
  OBVIOUS
<1>2. /\ e # NoEvent /\ sender' = [sender EXCEPT ![s] = NoEvent]
      /\ UNCHANGED <<sent, refused, hand, finished>>
      /\ \/ queue' = Append(queue, e) /\ Len(queue) < QueueSize
         \/ queue' = queue /\ Len(queue) = QueueSize
  BY <1>1 DEF SenderContinues, Enqueue, Drop, SendReturns
<1>3. /\ e \in Events /\ e.from = s /\ e.seq = sent[s] /\ queue \in Seq(Events)
      /\ sender \in [Senders -> Events \cup {NoEvent}]
  BY <1>1, <1>2 DEF TraceInv, AccountInv, SendersOwn, TypeInv, TypeOK
<1>4. PICK j : j = Item(e)
  OBVIOUS
<1>5. j \in Senders \X (1..MaxEvents) /\ j[1] = s /\ j[2] = sent[s] /\ ~ (j[2] > sent[j[1]])
  BY <1>3, <1>4, NotificationsAssumption DEF Item, Events
<1>6. Checked' = Checked \ {e} /\ e \in Checked
  <2>1. \A t \in Senders \ {s} : sender[t] # e
    BY <1>2, <1>3 DEF TraceInv, AccountInv, SendersOwn
  <2>2. sender'[s] = NoEvent /\ \A t \in Senders \ {s} : sender'[t] = sender[t]
    BY <1>2, <1>3
  <2>3. QED
    BY <1>1, <1>2, <2>1, <2>2 DEF Checked
<1>7. Stage[j] = "offered"
  BY <1>4, <1>5, <1>6, OneItem DEF Staged, StagedAs
<1>8. InHand' = InHand
  BY <1>2 DEF InHand
<1>9. /\ \A i : i # j => i \in ItemsOf(Checked') <=> i \in ItemsOf(Checked)
      /\ \A i : i # j => i \in ItemsOf(Range(queue) \cup {e}) <=> i \in ItemsOf(Range(queue))
      /\ j \in ItemsOf(Range(queue) \cup {e}) /\ j \in ItemsOf(Checked)
  BY <1>4, <1>6, OneItem
<1>10. Line = LineOf(queue) /\ Line' = LineOf(queue') /\ Len(Line) = Len(queue)
  BY <1>3, Lines DEF Line, LineOf
<1>11. CASE queue' = Append(queue, e) /\ Len(queue) < QueueSize
  <2>1. Range(queue') = Range(queue) \cup {e}
    BY <1>3, <1>11, InjectiveAppend
  <2>2. Line' = Append(Line, j)
    BY <1>3, <1>4, <1>10, <1>11, Lines
  <2>3. Stage'[j] = "queued"
    BY <1>5, <1>9, <2>1 DEF Staged, StagedAs
  <2>4. Moved(j, "queued")
    BY <1>2, <1>5, <1>8, <1>9, <2>1, <2>3, OneMoves DEF Staged
  <2>5. Mail!Queue(j)
    BY <1>7, <1>10, <1>11, <2>2, <2>4 DEF Mail!Queue, Mail!Moves, Moved
  <2>6. QED
    BY <1>5, <2>5
<1>12. CASE queue' = queue /\ Len(queue) = QueueSize
  <2>1. j \notin ItemsOf(PassedEvents)
    BY <1>5, <1>9, ItemsApart
  <2>2. PassedEvents' = PassedEvents
    BY <1>2, <1>8, <1>12 DEF PassedEvents
  <2>3. j \notin ItemsOf(Checked')
    <3>1. \A x \in Checked' : x.from # s
      BY <1>2, <1>3, <1>6 DEF TraceInv, AccountInv, SendersOwn, Checked
    <3>2. QED
      BY <3>1, <1>5 DEF ItemsOf, Item
  <2>4. j \notin ItemsOf(PassedEvents' \cup Checked') /\ ~ (j[2] > sent'[j[1]])
    BY <1>2, <1>5, <2>1, <2>2, <2>3 DEF ItemsOf
  <2>5. Stage'[j] = "dropped"
    BY <1>5, <2>4 DEF Staged, StagedAs
  <2>6. Moved(j, "dropped")
    BY <1>2, <1>5, <1>8, <1>9, <1>12, <2>5, OneMoves DEF Staged
  <2>7. Mail!Overflow(j)
    BY <1>7, <1>10, <1>12, <2>6 DEF Mail!Overflow, Mail!DropOffered, Mail!Moves, Moved
  <2>8. QED
    BY <1>5, <2>7
<1>13. QED
  BY <1>2, <1>11, <1>12

\* Whichever worker receives gets the oldest event.
LEMMA WorkerTakesOldest ==
  ASSUME TraceInv, Staged, Staged', NEW w \in Workers, Receive(w) \/ Drain(w)
  PROVE  Mail!TakeOldest
<1>1. TakeSwaps
  BY TakeMoves DEF TraceInv
<1>2. PICK e : e = Head(queue)
  OBVIOUS
<1>3. PICK j : j = Item(e)
  OBVIOUS
<1>4. queue \in Seq(Events) /\ e \in Events
  BY <1>1, <1>2, InjectiveTail DEF TraceInv, AccountInv, TypeInv, TypeOK, TakeSwaps
<1>5. j \in Senders \X (1..MaxEvents)
  BY <1>3, <1>4 DEF Item, Events
<1>6. /\ e \in Range(queue) /\ e \notin Range(queue') /\ Range(queue) = Range(queue') \cup {e}
      /\ InHand' = InHand \cup {e}
      /\ UNCHANGED <<sender, sent, refused, finished>>
  BY <1>1, <1>2 DEF TakeSwaps
<1>7. Line # <<>> /\ Head(Line) = j /\ Line' = Tail(Line)
  BY <1>1, <1>2, <1>3, <1>4, Lines DEF Line, LineOf, TakeSwaps
<1>8. /\ \A i : i # j => i \in ItemsOf(InHand') <=> i \in ItemsOf(InHand)
      /\ \A i : i # j => i \in ItemsOf(Range(queue')) <=> i \in ItemsOf(Range(queue))
      /\ j \in ItemsOf(Range(queue)) /\ j \in ItemsOf(InHand')
  <2>1. \A i : i # j => i \in ItemsOf(Range(queue') \cup {e}) <=> i \in ItemsOf(Range(queue'))
    BY <1>3, OneItem
  <2>2. QED
    BY <1>3, <1>6, <2>1, OneItem
<1>9. Stage[j] = "queued" /\ Stage'[j] = "taken"
  BY <1>5, <1>8 DEF Staged, StagedAs
<1>10. Checked' = Checked
  BY <1>6 DEF Checked
<1>11. Moved(j, "taken")
  BY <1>5, <1>6, <1>8, <1>9, <1>10, OneMoves DEF Staged
<1>12. QED
  BY <1>7, <1>9, <1>11 DEF Mail!TakeOldest, Mail!Moves, Moved

\* A dispatch that is over finishes the event the worker had in hand.
LEMMA WorkerFinishes ==
  ASSUME TraceInv, Staged, Staged', NEW w \in Workers, EndDispatch(w)
  PROVE  \E i \in Senders \X (1..MaxEvents) : Mail!Finish(i)
<1>1. EndSwaps(w)
  BY EndMoves DEF TraceInv
<1>2. PICK e : e = hand[w]
  OBVIOUS
<1>3. PICK j : j = Item(e)
  OBVIOUS
<1>4. /\ e \in InHand /\ InHand' = InHand \ {e} /\ finished' = finished \cup {e}
      /\ UNCHANGED <<sender, sent, refused, queue>>
  BY <1>1, <1>2 DEF EndSwaps
<1>5. j \in Senders \X (1..MaxEvents)
  BY <1>3, <1>4 DEF Item, Events, InHand, TraceInv, AccountInv, TypeInv, TypeOK
<1>6. /\ \A i : i # j => i \in ItemsOf(InHand') <=> i \in ItemsOf(InHand)
      /\ \A i : i # j => i \in ItemsOf(finished') <=> i \in ItemsOf(finished)
      /\ j \in ItemsOf(InHand) /\ j \in ItemsOf(finished')
  BY <1>3, <1>4, OneItem
<1>7. Stage[j] = "taken" /\ Stage'[j] = "dispatched"
  BY <1>5, <1>6 DEF Staged, StagedAs
<1>8. Checked' = Checked /\ Range(queue') = Range(queue) /\ UNCHANGED Line
  BY <1>4 DEF Checked, Line
<1>9. Moved(j, "dispatched")
  BY <1>4, <1>5, <1>6, <1>7, <1>8, OneMoves DEF Staged
<1>10. Mail!Finish(j)
  BY <1>7, <1>8, <1>9 DEF Mail!Finish, Mail!Moves, Moved
<1>11. QED
  BY <1>5, <1>10

\* The manager implements EventQueue, for any number of senders, owners, workers and
\* providers, any size of the queue, and across any Start and Stop.
THEOREM QueueRefinement == Spec => RefinesQueue
<1>1. Init => Mail!QueueInit
  <2> SUFFICES ASSUME Init PROVE Mail!QueueInit
    OBVIOUS
  <2>1. Line = <<>>
    BY DEF Init, Line
  <2>2. \A i \in Senders \X (1..MaxEvents) : i[2] > sent[i[1]]
    BY NotificationsAssumption DEF Init
  <2>3. \A i \in Senders \X (1..MaxEvents) :
          /\ i \notin ItemsOf(refused) /\ i \notin ItemsOf(Checked) /\ i \notin ItemsOf(Range(queue))
          /\ i \notin ItemsOf(InHand) /\ i \notin ItemsOf(finished)
    BY DEF Init, ItemsOf, Checked, InHand, Range
  <2>4. \A i \in Senders \X (1..MaxEvents) : StageOf(i) = "unsent"
    BY <2>2, <2>3 DEF StageOf
  <2>5. QED
    BY <2>1, <2>4 DEF Mail!QueueInit, Mail!Items, Stage
<1>2. TraceInv /\ TraceInv' /\ Staged /\ Staged' /\ [Next]_vars => [Mail!QueueNext]_(Mail!queueVars)
  <2> SUFFICES ASSUME TraceInv, TraceInv', Staged, Staged', [Next]_vars
               PROVE  [Mail!QueueNext]_(Mail!queueVars)
    OBVIOUS
  <2>1. TypeOK
    BY DEF TraceInv, AccountInv, TypeInv
  <2>2. ASSUME UNCHANGED <<sender, sent, refused, dropped, queue, hand, finished>>
        PROVE  UNCHANGED Mail!queueVars
    <3>1. Line' = Line /\ Checked' = Checked /\ InHand' = InHand /\ sent' = sent /\ refused' = refused
          /\ queue' = queue /\ finished' = finished
      BY <2>2 DEF Line, Checked, InHand
    <3>2. Stage' = Stage
      BY <3>1 DEF Stage, StageOf
    <3>3. QED
      BY <3>1, <3>2 DEF Mail!queueVars
  <2>3. QED
    BY <2>1, <2>2, OtherSteps, SendIgnoresOrOffers, SenderQueuesOrDrops, WorkerTakesOldest, WorkerFinishes
       DEF Next, WorkerRuns, Mail!QueueNext, Mail!Items
<1>3. TraceInv => Staged
  BY StageIs DEF Staged
<1>4. QED
  BY <1>1, <1>2, <1>3, TraceInvariant, PTL DEF Spec, RefinesQueue, Mail!QueueSpec
===============================================================================
