------------------------------- MODULE Budget -------------------------------
(***************************************************************************)
(* The manager that queues the requests of one process for the tokens of   *)
(* a named budget (src/budget/manager.ts), over the bucket of TokenBucket. *)
(*                                                                         *)
(* JavaScript runs one thing at a time; what interleaves is the answer of  *)
(* the store, which the grant loop awaits, with new requests, aborts,      *)
(* deadlines and wake-ups. Each action is what runs between two awaits.    *)
(***************************************************************************)
EXTENDS TokenBucket, Sequences, SequencesExt

CONSTANTS
  Waiter,      \* calls of acquire()
  NoWaiter,
  Requester,   \* who asks: "poller/partition"
  RequesterOf, \* the requester of a call
  LaneOf,      \* the rank of its lane: 0 is live
  CostOf,      \* the tokens it takes, at least 1
  MaxWaitOf,   \* how long it waits; Never for null
  WeightOf,    \* the weight of a requester
  Fairness,    \* the values policy.fairness may have
  SlowUntil,   \* bound: requests arrive, and timers and answers are late, until then
  MaxErrors    \* bound: errors of the store

ASSUME BudgetAssumption ==
  /\ NoWaiter \notin Waiter
  /\ RequesterOf \in [Waiter -> Requester]
  /\ LaneOf \in [Waiter -> 0..3]
  /\ CostOf \in [Waiter -> 1..MaxCost]
  /\ MaxWaitOf \in [Waiter -> Nat \cup {Never}]
  /\ WeightOf \in [Requester -> Nat \ {0}]
  /\ Fairness \subseteq {"round-robin", "weighted"}
  /\ SlowUntil \in Nat /\ MaxErrors \in Nat

VARIABLES
  fairness, \* policy.fairness; it never changes
  status,   \* of each call: new, queued, granted, aborted, expired, failed
  queue,    \* the calls that wait, in order of arrival
  deadline, \* until when each waits
  armed,    \* the calls whose deadline has a timer
  served,   \* per requester [count, lastSeq]; count is -1 for one never seen
  grantSeq, \* grants so far
  pc,       \* the grant loop: off, sent (awaiting take) or answered
  head,     \* the call it takes tokens for
  sentAt,   \* the time it passed to the store
  answer,   \* what the store answered: [ok, retryIn]
  repump,   \* must the queue be looked at again?
  wake,     \* when the wake-up timer fires; Never without one
  errors,   \* errors so far
  passed    \* history: per call, grants of each other requester in its lane or a lower one,
            \* while it waits, since its own requester's last grant

loopVars == <<pc, head, sentAt, repump, wake, served>>
callVars == <<status, queue, deadline, armed>>
auditVars == <<since, spent>>
vars == <<now, bucket, fairness, callVars, grantSeq, loopVars, answer, errors, auditVars, passed>>

CeilDiv(x, y) == (x + y - 1) \div y

-----------------------------------------------------------------------------
(* Who is next *)

Unseen == [count |-> -1, lastSeq |-> -1]

(* A requester seen for the first time starts at the lowest ratio so far.  *)
FirstCount(s, r) ==
  LET shares == {(s[o].count * WeightOf[r]) \div WeightOf[o]
                   : o \in {q \in Requester : s[q].count # -1}}
  IN IF shares = {} THEN 0 ELSE CHOOSE m \in shares : \A x \in shares : m <= x

Stats(s, r) ==
  IF s[r].count = -1 THEN [s EXCEPT ![r] = [count |-> FirstCount(s, r), lastSeq |-> -1]]
  ELSE s

(* Mutant: turns are forgotten.                                            *)
BetterLane(s, a, b) == LaneOf[a] < LaneOf[b]

(* #compare(a, b) < 0, for an a that arrived after b.                      *)
Better(s, a, b) ==
  LET ra == RequesterOf[a]
      rb == RequesterOf[b]
      shareA == s[ra].count * WeightOf[rb]
      shareB == s[rb].count * WeightOf[ra]
  IN IF LaneOf[a] # LaneOf[b] THEN LaneOf[a] < LaneOf[b]
     ELSE IF fairness = "weighted" /\ shareA # shareB THEN shareA < shareB
     ELSE s[ra].lastSeq < s[rb].lastSeq

(* Comparing two calls of one lane registers both requesters.              *)
Consider(acc, w) ==
  IF acc.best = NoWaiter THEN [acc EXCEPT !.best = w]
  ELSE LET s == IF LaneOf[w] = LaneOf[acc.best]
                THEN Stats(Stats(acc.served, RequesterOf[w]), RequesterOf[acc.best])
                ELSE acc.served
       IN [best |-> IF Better(s, w, acc.best) THEN w ELSE acc.best, served |-> s]

Pick(q, s) == FoldLeft(Consider, [best |-> NoWaiter, served |-> s], q)

-----------------------------------------------------------------------------
(* The grant loop *)

(* The loop goes on: it awaits a take for the next call, or has none left. *)
Continue(q, s) ==
  IF q = <<>>
  THEN pc' = "off" /\ repump' = FALSE /\ served' = s /\ UNCHANGED <<head, sentAt, wake>>
  ELSE /\ pc' = "sent"
       /\ head' = Pick(q, s).best
       /\ served' = Pick(q, s).served
       /\ sentAt' = now
       /\ UNCHANGED <<repump, wake>>

(* The loop (re)starts.                                                    *)
Enter(q) ==
  /\ wake' = Never
  /\ repump' = FALSE
  /\ IF q = <<>> THEN pc' = "off" /\ UNCHANGED <<head, sentAt, served>>
     ELSE /\ pc' = "sent"
          /\ head' = Pick(q, served).best
          /\ served' = Pick(q, served).served
          /\ sentAt' = now

(* #pump: only one loop runs; the others ask it to look again.             *)
Pump(q) ==
  IF pc = "off" THEN Enter(q)
  ELSE repump' = TRUE /\ UNCHANGED <<pc, head, sentAt, wake, served>>

Init ==
  /\ BucketInit
  /\ fairness \in Fairness
  /\ status = [w \in Waiter |-> "new"]
  /\ queue = <<>>
  /\ deadline = [w \in Waiter |-> Never]
  /\ armed = {}
  /\ served = [r \in Requester |-> Unseen]
  /\ grantSeq = 0
  /\ pc = "off"
  /\ head = NoWaiter
  /\ sentAt = 0
  /\ answer = [ok |-> FALSE, retryIn |-> 0]
  /\ repump = FALSE
  /\ wake = Never
  /\ errors = 0
  /\ passed = [w \in Waiter |-> [r \in Requester |-> 0]]

Acquire(w) ==
  /\ status[w] = "new"
  /\ now <= SlowUntil
  /\ status' = [status EXCEPT ![w] = "queued"]
  /\ queue' = Append(queue, w)
  /\ deadline' = [deadline EXCEPT ![w] = IF MaxWaitOf[w] = Never THEN Never
                                         ELSE now + MaxWaitOf[w]]
  /\ Pump(Append(queue, w))
  /\ UNCHANGED <<now, bucket, armed, grantSeq, answer, errors, auditVars, passed>>

(* #settle: the call leaves the queue for good.                            *)
Without(ws) == SelectSeq(queue, LAMBDA w : w \notin ws)

Settle(w, outcome) ==
  /\ status' = [status EXCEPT ![w] = outcome]
  /\ queue' = Without({w})
  /\ armed' = armed \ {w}
  /\ UNCHANGED deadline

Abort(w) ==
  /\ status[w] = "queued"
  /\ now <= SlowUntil
  /\ Settle(w, "aborted")
  /\ Pump(Without({w}))
  /\ UNCHANGED <<now, bucket, grantSeq, answer, errors, auditVars, passed>>

(* The timer of a deadline fires.                                          *)
Expire(w) ==
  /\ w \in armed
  /\ now >= deadline[w]
  /\ Settle(w, "expired")
  /\ Pump(Without({w}))
  /\ UNCHANGED <<now, bucket, grantSeq, answer, errors, auditVars, passed>>

(* How long until enough has accrued, when it has not.                     *)
RetryIn(cost, t) ==
  AtLeast(CeilDiv(cost * PerMs - Refill(t, Capacity(cost)).scaled, Requests), 1)

(* The store runs the take with the time it was sent with.                 *)
Execute ==
  /\ pc = "sent"
  /\ Take(CostOf[head], sentAt)
  /\ answer' = IF Fits(CostOf[head], sentAt) THEN [ok |-> TRUE, retryIn |-> 0]
               ELSE [ok |-> FALSE, retryIn |-> RetryIn(CostOf[head], sentAt)]
  /\ pc' = "answered"
  /\ UNCHANGED <<now, callVars, grantSeq, head, sentAt, repump, wake, served, errors, since,
                 passed>>

(* The store throws, before or after it ran the take.                      *)
StoreFails ==
  /\ pc # "off"
  /\ errors < MaxErrors
  /\ errors' = errors + 1
  /\ IF status[head] = "queued"
     THEN Settle(head, "failed") /\ Continue(Without({head}), served)
     ELSE UNCHANGED callVars /\ Continue(queue, served)
  /\ UNCHANGED <<now, bucket, grantSeq, answer, auditVars, passed>>

(* Mutant: the loop ends when its call was settled meanwhile.              *)
ForfeitStops ==
  /\ pc = "answered"
  /\ status[head] # "queued"
  /\ pc' = "off"
  /\ UNCHANGED <<now, bucket, callVars, grantSeq, head, sentAt, repump, wake, served, answer,
                 errors, auditVars, passed>>

(* Mutant: the tokens of a call settled meanwhile are put back.            *)
ForfeitRefunds ==
  /\ pc = "answered"
  /\ status[head] # "queued"
  /\ bucket' = IF answer.ok THEN [bucket EXCEPT !.scaled = @ + CostOf[head] * PerMs]
               ELSE bucket
  /\ Continue(queue, served)
  /\ UNCHANGED <<now, callVars, grantSeq, answer, errors, auditVars, passed>>

(* The call was aborted or timed out meanwhile: its tokens are forfeited.  *)
Forfeit ==
  /\ pc = "answered"
  /\ status[head] # "queued"
  /\ Continue(queue, served)
  /\ UNCHANGED <<now, bucket, callVars, grantSeq, answer, errors, auditVars, passed>>

Granted(s, r) ==
  [Stats(s, r) EXCEPT ![r] = [count |-> @.count + 1, lastSeq |-> grantSeq + 1]]

Grant ==
  /\ pc = "answered"
  /\ status[head] = "queued"
  /\ answer.ok
  /\ Settle(head, "granted")
  /\ grantSeq' = grantSeq + 1
  /\ Continue(Without({head}), Granted(served, RequesterOf[head]))
  /\ passed' = [w \in Waiter |-> [r \in Requester |->
                  IF RequesterOf[w] = RequesterOf[head] THEN 0
                  ELSE IF /\ r = RequesterOf[head] /\ status[w] = "queued"
                          /\ LaneOf[w] <= LaneOf[head]
                  THEN passed[w][r] + 1 ELSE passed[w][r]]]
  /\ UNCHANGED <<now, bucket, answer, errors, auditVars>>

(* Calls whose deadline has passed before it got a timer.                  *)
Late == {w \in Waiter : /\ status[w] = "queued" /\ w \notin armed
                        /\ deadline[w] # Never /\ deadline[w] <= now}

(* Mutant: only the head of the queue gets a timer.                        *)
ArmHead == {w \in Waiter : w = head /\ deadline[w] # Never} \ Late

(* armDeadlines: the calls that wait get their timers.                     *)
Arm == {w \in Waiter : status[w] = "queued" /\ deadline[w] # Never} \ Late

(* Too few tokens: timers are armed, one wake-up is scheduled.             *)
Exhausted ==
  /\ pc = "answered"
  /\ status[head] = "queued"
  /\ ~answer.ok
  /\ status' = [w \in Waiter |-> IF w \in Late THEN "expired" ELSE status[w]]
  /\ queue' = Without(Late)
  /\ armed' = armed \cup Arm
  /\ IF repump \/ Late # {} THEN Enter(Without(Late))
     ELSE /\ pc' = "off"
          /\ wake' = now + answer.retryIn
          /\ UNCHANGED <<head, sentAt, repump, served>>
  /\ UNCHANGED <<now, bucket, deadline, grantSeq, answer, errors, auditVars, passed>>

WakeUp ==
  /\ wake # Never
  /\ now >= wake
  /\ Pump(queue)
  /\ UNCHANGED <<now, bucket, callVars, grantSeq, answer, errors, auditVars, passed>>

(* Timers and answers that are waited for are prompt after SlowUntil.      *)
Prompt ==
  /\ pc = "off"
  /\ wake # Never => now < wake
  /\ \A w \in armed : now < deadline[w]

Tick ==
  /\ now < SlowUntil \/ Prompt
  /\ ClockStep
  /\ UNCHANGED <<callVars, grantSeq, loopVars, answer, errors, passed>>

BeginAudit ==
  /\ Audit
  /\ UNCHANGED <<callVars, grantSeq, loopVars, answer, errors, passed>>

(* peek(), for metrics: it clamps the bucket to the burst.                 *)
PeekTokens ==
  /\ now <= SlowUntil
  /\ Peek(now)
  /\ UNCHANGED <<now, since, callVars, grantSeq, loopVars, answer, errors, passed>>

Work ==
  /\ Execute \/ Forfeit \/ Grant \/ Exhausted \/ WakeUp \/ \E w \in Waiter : Expire(w)
  /\ UNCHANGED fairness

Time == Tick /\ UNCHANGED fairness

Next ==
  \/ Work
  \/ Time
  \/ /\ StoreFails \/ BeginAudit \/ PeekTokens \/ \E w \in Waiter : Acquire(w) \/ Abort(w)
     /\ UNCHANGED fairness

(* The store answers, timers fire and time goes on.                        *)
Spec ==
  /\ Init /\ [][Next]_vars
  /\ WF_vars(Work) /\ WF_vars(Time)

-----------------------------------------------------------------------------
TypeOK ==
  /\ BucketTypeOK
  /\ fairness \in Fairness
  /\ status \in [Waiter -> {"new", "queued", "granted", "aborted", "expired", "failed"}]
  /\ queue \in Seq(Waiter)
  /\ deadline \in [Waiter -> Nat \cup {Never}]
  /\ armed \subseteq Waiter
  /\ served \in [Requester -> [count : Nat \cup {-1}, lastSeq : Nat \cup {-1}]]
  /\ grantSeq \in Nat
  /\ pc \in {"off", "sent", "answered"}
  /\ head \in Waiter \cup {NoWaiter}
  /\ sentAt \in Nat
  /\ answer \in [ok : BOOLEAN, retryIn : Nat]
  /\ repump \in BOOLEAN
  /\ wake \in Nat \cup {Never}
  /\ errors \in Nat
  /\ passed \in [Waiter -> [Requester -> Nat]]

(* No lost wake-up: while a call waits, either the loop is running or a    *)
(* wake-up is scheduled and the deadline of the call has its timer; the    *)
(* queue holds the calls that wait and no other.                           *)
Attended ==
  \A w \in Waiter :
    /\ status[w] = "queued" <=> \E i \in DOMAIN queue : queue[i] = w
    /\ status[w] = "queued" /\ pc = "off" =>
         wake # Never /\ (deadline[w] # Never => w \in armed)

(* Round-robin: while a call waits, and between two grants of its own      *)
(* requester, no other requester is granted twice in its lane or a lower   *)
(* one.                                                                    *)
PassedOnce ==
  \A w \in Waiter, r \in Requester :
    fairness = "round-robin" /\ status[w] = "queued" => passed[w][r] <= 1

(* Every call that waits is settled: granted, aborted, expired or failed.  *)
(* Calls stop arriving, so this says that in the end none is waiting.      *)
EverySettled == <>[](\A w \in Waiter : status[w] # "queued")

(* The queue of a budget: while a call waits, the grant loop runs or will  *)
(* be woken, and requesters take turns (#pump, #scheduleWake, #compare).   *)
QueueSound == TypeOK /\ Attended /\ PassedOnce
=============================================================================
