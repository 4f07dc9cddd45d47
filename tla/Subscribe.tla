------------------------------ MODULE Subscribe ------------------------------
(***************************************************************************)
(* A subscribe() iterator between the dispatcher and an application's loop *)
(* (src/core/consumers.ts, SubscribeConsumer, and the wrapper engine.ts    *)
(* puts around it). The dispatcher calls deliver() for up to Concurrency   *)
(* events at a time and waits for each promise; the loop asks for one      *)
(* event after the other, and asking for the next acknowledges the last.   *)
(* Leaving the loop, an exception in its body, an abort signal and the     *)
(* engine's stop() may all come while events wait.                         *)
(*                                                                         *)
(* A `for await` statement calls the iterator's return() however its body  *)
(* is left, by break or by an exception; throw() is called only by hand.   *)
(***************************************************************************)
EXTENDS Integers, Sequences, FiniteSets

CONSTANTS
  Event,        \* the events of the outbox
  NoEvent,      \* none
  Concurrency,  \* delivery.concurrency
  MaxAttempts   \* bound: deliveries of one event

SubscribeParameters == NoEvent \notin Event

VARIABLES
  puller,       \* a next() is waiting for its answer
  inflight,     \* the event handed out and not settled
  queue,        \* events delivered and not yet handed out
  closed,       \* the iterator is closed
  attached,     \* the engine's consumer of this poller is this one
  leaving,      \* the wrapper's return() or throw() has not detached yet
  loop,         \* the application: new, asking, body, left
  current,      \* the event in the loop's body
  promise,      \* per event: what became of the last deliver()
  attempts,     \* per event: deliveries so far
  running,      \* a drain that uses this consumer is under way
  offered,      \* the events that drain has delivered: one attempt in a drain
  handled,      \* history: events whose body ended without an exception
  thrown        \* history: events whose body threw

iterVars == <<puller, inflight, queue, closed>>
vars == <<iterVars, attached, leaving, loop, current, promise, attempts, running, offered, handled, thrown>>

Queued == {queue[i] : i \in 1..Len(queue)}

Waiting == {e \in Event : promise[e] = "pending"}

-----------------------------------------------------------------------------
(* The iterator's methods, each one uninterrupted *)

(* pump(): the first queued event goes to the waiting next().              *)
Pump(asking, busy, q, answers) ==
  IF asking /\ busy = NoEvent /\ q # << >>
  THEN /\ puller' = FALSE /\ inflight' = Head(q) /\ queue' = Tail(q)
       /\ loop' = "body" /\ current' = Head(q)
       /\ promise' = answers
  ELSE /\ puller' = asking /\ inflight' = busy /\ queue' = q
       /\ loop' = IF asking THEN "asking" ELSE loop
       /\ current' = IF asking THEN NoEvent ELSE current
       /\ promise' = answers

(* settleInflight()                                                        *)
Settle(answers, outcome) ==
  IF inflight = NoEvent THEN answers ELSE [answers EXCEPT ![inflight] = outcome]

(* Mutant: closing forgets the queue.                                      *)
CloseForgetsQueue(answers) ==
  /\ closed' = TRUE /\ puller' = FALSE /\ inflight' = NoEvent /\ queue' = << >>
  /\ promise' = answers

(* Mutant: closing acknowledges the queue.                                 *)
CloseAcknowledgesQueue(answers) ==
  /\ closed' = TRUE /\ puller' = FALSE /\ inflight' = NoEvent /\ queue' = << >>
  /\ promise' = [e \in Event |-> IF e \in Queued THEN "acked" ELSE answers[e]]

(* close(): what waits in the queue is refused.                            *)
Close(answers) ==
  /\ closed' = TRUE /\ puller' = FALSE /\ inflight' = NoEvent /\ queue' = << >>
  /\ promise' = [e \in Event |-> IF e \in Queued THEN "rejected" ELSE answers[e]]

-----------------------------------------------------------------------------
(* The dispatcher *)

(* A run starts with the consumer the engine has at that moment.           *)
DrainStarts ==
  /\ attached /\ ~running
  /\ running' = TRUE /\ offered' = {}
  /\ UNCHANGED <<iterVars, attached, leaving, loop, current, promise, attempts, handled, thrown>>

DrainEnds ==
  /\ running /\ Waiting = {}
  /\ running' = FALSE /\ offered' = {}
  /\ UNCHANGED <<iterVars, attached, leaving, loop, current, promise, attempts, handled, thrown>>

(* Mutant: the event is queued and a waiting next() not answered.          *)
DeliverUnpumped(e) ==
  /\ running /\ e \notin offered /\ Cardinality(Waiting) < Concurrency
  /\ promise[e] # "acked" /\ attempts[e] < MaxAttempts
  /\ offered' = offered \cup {e}
  /\ attempts' = [attempts EXCEPT ![e] = @ + 1]
  /\ promise' = [promise EXCEPT ![e] = IF closed THEN "rejected" ELSE "pending"]
  /\ queue' = IF closed THEN queue ELSE Append(queue, e)
  /\ UNCHANGED <<puller, inflight, loop, current, closed, attached, leaving, running, handled, thrown>>

(* deliver(): refused at once by a closed iterator.                        *)
Deliver(e) ==
  /\ running /\ e \notin offered /\ Cardinality(Waiting) < Concurrency
  /\ promise[e] # "acked" /\ attempts[e] < MaxAttempts
  /\ offered' = offered \cup {e}
  /\ attempts' = [attempts EXCEPT ![e] = @ + 1]
  /\ IF closed
     THEN /\ promise' = [promise EXCEPT ![e] = "rejected"]
          /\ UNCHANGED <<puller, inflight, queue, loop, current>>
     ELSE Pump(puller, inflight, Append(queue, e), [promise EXCEPT ![e] = "pending"])
  /\ UNCHANGED <<closed, attached, leaving, running, handled, thrown>>

-----------------------------------------------------------------------------
(* The application's loop *)

Finish == handled' = handled \cup ({current} \ {NoEvent})

(* The body ended, or the loop begins: next().                             *)
Ask ==
  /\ loop \in {"new", "body"}
  /\ Finish
  /\ IF closed
     THEN /\ loop' = "left" /\ current' = NoEvent
          /\ promise' = Settle(promise, "acked") /\ inflight' = NoEvent
          /\ UNCHANGED <<puller, queue>>
     ELSE Pump(TRUE, NoEvent, queue, Settle(promise, "acked"))
  /\ UNCHANGED <<closed, attached, leaving, attempts, running, offered, thrown>>

(* return(): acknowledges, then closes; the wrapper detaches later.        *)
Return ==
  /\ Close(Settle(promise, "acked"))
  /\ loop' = "left" /\ current' = NoEvent /\ leaving' = TRUE
  /\ UNCHANGED <<attached, attempts, running, offered>>

(* break out of the loop                                                   *)
Break == loop = "body" /\ Return /\ Finish /\ UNCHANGED thrown

(* An exception leaves the body.                                           *)
BodyThrows ==
  /\ loop = "body"
  /\ Return
  /\ thrown' = thrown \cup {current}
  /\ UNCHANGED handled

(* throw(), called by an application that drives the iterator itself.      *)
IteratorThrow ==
  /\ loop = "body"
  /\ Close(Settle(promise, "rejected"))
  /\ loop' = "left" /\ current' = NoEvent /\ leaving' = TRUE
  /\ thrown' = thrown \cup {current}
  /\ UNCHANGED <<attached, attempts, running, offered, handled>>

(* The wrapper's return() or throw() goes on after its await.              *)
Detach ==
  /\ leaving
  /\ leaving' = FALSE /\ attached' = FALSE
  /\ UNCHANGED <<iterVars, loop, current, promise, attempts, running, offered, handled, thrown>>

-----------------------------------------------------------------------------
(* close() from outside: the loop's body goes on with an event that is     *)
(* refused already, a waiting next() is told that there is no more.        *)
CloseFromOutside ==
  /\ ~closed
  /\ Close(Settle(promise, "rejected"))
  /\ loop' = IF loop = "asking" THEN "left" ELSE loop
  /\ UNCHANGED <<leaving, current, attempts, running, offered, handled, thrown>>

(* The signal aborts: both listeners run, close() and detach().            *)
Abort == CloseFromOutside /\ attached' = FALSE

(* engine.stop() closes its consumers.                                     *)
StopEngine == CloseFromOutside /\ attached /\ UNCHANGED attached

-----------------------------------------------------------------------------
Init ==
  /\ puller = FALSE /\ inflight = NoEvent /\ queue = << >> /\ closed = FALSE
  /\ attached = TRUE /\ leaving = FALSE
  /\ loop = "new" /\ current = NoEvent
  /\ promise = [e \in Event |-> "none"]
  /\ attempts = [e \in Event |-> 0]
  /\ running = FALSE /\ offered = {}
  /\ handled = {} /\ thrown = {}

Next ==
  \/ DrainStarts \/ DrainEnds \/ \E e \in Event : Deliver(e)
  \/ Ask \/ Break \/ BodyThrows \/ IteratorThrow \/ Detach
  \/ Abort \/ StopEngine

(* An application that stays in its loop asks again after each event.      *)
Spec == Init /\ [][Next]_vars

FairSpec == Spec /\ WF_vars(Ask)

-----------------------------------------------------------------------------
TypeOK ==
  /\ puller \in BOOLEAN /\ closed \in BOOLEAN /\ attached \in BOOLEAN /\ leaving \in BOOLEAN
  /\ running \in BOOLEAN
  /\ inflight \in Event \cup {NoEvent} /\ current \in Event \cup {NoEvent}
  /\ queue \in Seq(Event)
  /\ loop \in {"new", "asking", "body", "left"}
  /\ promise \in [Event -> {"none", "pending", "acked", "rejected"}]
  /\ attempts \in [Event -> Nat]
  /\ offered \subseteq Event /\ handled \subseteq Event /\ thrown \subseteq Event

(* G10 and no hung drain: every promise the dispatcher waits for is in the *)
(* queue, once, or is the event in the loop's body, and after a close from *)
(* whichever side nobody waits any more, neither dispatcher nor next()     *)
(* (deliver, pump, settleInflight, close).                                 *)
NoneForgotten ==
  /\ Waiting = Queued \cup ({inflight} \ {NoEvent})
  /\ Len(queue) = Cardinality(Queued) /\ inflight \notin Queued
  /\ inflight # NoEvent => loop = "body" /\ current = inflight
  /\ closed => Waiting = {} /\ ~puller /\ loop # "asking"

(* An event is acknowledged only after the loop has had it and is done     *)
(* with it, with or without an exception; what only waited in the queue is *)
(* never acknowledged (next, return, close).                               *)
AckedWasHandled == \A e \in Event : promise[e] = "acked" => e \in handled \cup thrown

(* "If the loop body throws [...] that event is not acked and will be      *)
(* redelivered" (docs/delivery.md).                                        *)
ThrownNotAcked == \A e \in thrown : promise[e] # "acked"

(* While the application stays in its loop, whatever it is sent is settled *)
(* in the end: the dispatcher is never left waiting (deliver). The tries   *)
(* of an event are finitely many, so in the end nothing waits.             *)
EventuallySettled ==
  (\E e \in Event : promise[e] = "pending") ~> (\A e \in Event : promise[e] # "pending")

(* The iterator's bookkeeping: nobody waits for a promise that nobody will *)
(* settle, and nothing is acknowledged that the loop has not had (deliver, *)
(* next, return, close).                                                   *)
IteratorSound == TypeOK /\ NoneForgotten /\ AckedWasHandled

-----------------------------------------------------------------------------
(* Strengthening the proof of IteratorSound needs (DaemonProofs).          *)

(* A next() waits exactly when the loop does, its body has an event, the   *)
(* dispatcher waits only for what its drain has offered, and the queue     *)
(* holds no event twice.                                                   *)
LoopAgrees ==
  /\ puller <=> loop = "asking"
  /\ loop = "body" => current # NoEvent
  /\ Waiting \subseteq offered
  /\ ~running => offered = {}
  /\ \A i, j \in 1..Len(queue) : queue[i] = queue[j] => i = j
=============================================================================
