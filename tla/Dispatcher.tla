----------------------------- MODULE Dispatcher -----------------------------
(***************************************************************************)
(* drainOutbox (src/core/dispatcher.ts): deliver pending outbox rows to    *)
(* the consumer, grouped by ordering key, `Concurrency` groups at a time   *)
(* and strictly in sequence order inside a group; ack, retry or park each. *)
(*                                                                         *)
(* A drain belongs to a run r, one invocation of runKey. Every await of    *)
(* the code that touches the store or the consumer is a step of its own,   *)
(* so runs, operators and lease changes interleave between loadPending and *)
(* heldKeys, and between a handler's effect and its ack. A worker whose    *)
(* sibling threw goes on after the drain has ended, as the promises that   *)
(* Promise.all abandoned do.                                               *)
(***************************************************************************)
EXTENDS StateStore

CONSTANTS
  Run,               \* invocations of runKey
  OwnerOf,           \* the engine instance of each run
  Concurrency,       \* delivery.concurrency
  DispatchBatchSize, \* dispatchBatchSize
  RetryAttempts,     \* delivery.retry.attempts
  HoldKey,           \* delivery.poison.holdKey
  PoisonAction       \* delivery.poison.action

ASSUME DispatcherAssumption ==
  /\ OwnerOf \in [Run -> Owner]
  /\ Concurrency \in Nat \ {0}
  /\ DispatchBatchSize \in Nat \ {0}
  /\ RetryAttempts \in Nat \ {0}
  /\ HoldKey \in BOOLEAN
  /\ PoisonAction \in {"park", "halt"}

VARIABLES
  pc,        \* where each run is
  epoch,     \* the epoch of the lease each run was given
  rows,      \* rows loaded by the drain and not settled yet
  work,      \* what the worker of each group is doing
  blocked,   \* groups blocked in this drain
  progress,  \* has this round acked or parked anything?
  window,    \* the load window
  stopped,   \* "no", or why workers take no further row
  workers,   \* workers of the round that have not thrown
  invoked,   \* log entries whose handler has been called
  handled    \* log entries whose handler has returned normally

drainVars == <<rows, work, blocked, progress, window, stopped, workers>>
consumerVars == <<invoked, handled>>

(* The largest widening of the load window, as a multiple of the batch.    *)
WindowCap == 16

WorkerState == {"none", "queued", "next", "delivered", "failed"}

Fenced(r) == Fence(OwnerOf[r], epoch[r])

NoWork == [k \in Identity |-> "none"]

Idle(r) == \A k \in Identity : work[r][k] = "none"

(* groupByOrderingKey: the groups of the loaded rows, and which row of a   *)
(* group comes first. Sequence numbers are distinct (SequenceUnique).      *)
Groups(rs) == {row.event.subject : row \in rs}

IsFirst(rs, row) ==
  /\ row \in rs
  /\ \A other \in rs \ {row} :
       other.event.subject = row.event.subject => row.sequence < other.sequence

-----------------------------------------------------------------------------
(* The round: load, filter held and blocked groups, work, repeat. `exit`   *)
(* is where the run continues when the drain returns.                      *)

StartDrain(r) ==
  /\ blocked' = [blocked EXCEPT ![r] = {}]
  /\ window' = [window EXCEPT ![r] = DispatchBatchSize]
  /\ rows' = [rows EXCEPT ![r] = {}]
  /\ progress' = [progress EXCEPT ![r] = FALSE]

LoadRows(r, exit) ==
  /\ pc[r] = "load"
  /\ LET loaded == LoadPending(window[r]) IN
       IF stopped[r] # "no" \/ loaded = {}
       THEN pc' = [pc EXCEPT ![r] = exit] /\ UNCHANGED rows
       ELSE /\ pc' = [pc EXCEPT ![r] = "held"]
            /\ rows' = [rows EXCEPT ![r] = loaded]
  /\ UNCHANGED <<storeVars, consumerVars, epoch, work, blocked, progress, window,
                 stopped, workers>>

(* Mutant: a full window of held rows ends the drain.                      *)
ExitWhenHeld(r, exit) ==
  /\ pc' = [pc EXCEPT ![r] = exit]
  /\ UNCHANGED <<rows, work, progress, window, workers>>

(* Every loaded row is held or blocked: widen the window or give up.       *)
WidenOrExit(r, exit) ==
  /\ IF Cardinality(rows[r]) < window[r] \/ window[r] >= DispatchBatchSize * WindowCap
     THEN pc' = [pc EXCEPT ![r] = exit] /\ UNCHANGED window
     ELSE /\ pc' = [pc EXCEPT ![r] = "load"]
          /\ window' = [window EXCEPT ![r] = 2 * @]
  /\ UNCHANGED <<rows, work, progress, workers>>

(* Mutant: one worker too few.                                             *)
FilterHeldOneShort(r, exit) ==
  /\ pc[r] = "held"
  /\ LET groups == Groups(rows[r]) \ (HeldKeys \cup blocked[r]) IN
       IF groups = {}
       THEN WidenOrExit(r, exit)
       ELSE /\ pc' = [pc EXCEPT ![r] = "work"]
            /\ rows' = [rows EXCEPT ![r] = {row \in @ : row.event.subject \in groups}]
            /\ work' = [work EXCEPT ![r] =
                          [k \in Identity |-> IF k \in groups THEN "queued" ELSE "none"]]
            /\ workers' = [workers EXCEPT ![r] = Cardinality(groups) - 1]
            /\ progress' = [progress EXCEPT ![r] = FALSE]
            /\ UNCHANGED window
  /\ UNCHANGED <<storeVars, consumerVars, epoch, blocked, stopped>>

FilterHeld(r, exit) ==
  /\ pc[r] = "held"
  /\ LET groups == Groups(rows[r]) \ (HeldKeys \cup blocked[r]) IN
       IF groups = {}
       THEN WidenOrExit(r, exit)
       ELSE /\ pc' = [pc EXCEPT ![r] = "work"]
            /\ rows' = [rows EXCEPT ![r] = {row \in @ : row.event.subject \in groups}]
            /\ work' = [work EXCEPT ![r] =
                          [k \in Identity |-> IF k \in groups THEN "queued" ELSE "none"]]
            /\ workers' = [workers EXCEPT ![r] =
                             IF Cardinality(groups) < Concurrency
                             THEN Cardinality(groups) ELSE Concurrency]
            /\ progress' = [progress EXCEPT ![r] = FALSE]
            /\ UNCHANGED window
  /\ UNCHANGED <<storeVars, consumerVars, epoch, blocked, stopped>>

(* All workers returned: go round again after progress, else leave.        *)
EndRound(r, exit) ==
  /\ pc[r] = "work"
  /\ Idle(r)
  /\ pc' = [pc EXCEPT ![r] = IF progress[r] THEN "load" ELSE exit]
  /\ UNCHANGED <<storeVars, consumerVars, drainVars, epoch>>

-----------------------------------------------------------------------------
(* Workers *)

Busy(r) == {k \in Identity : work[r][k] \in {"next", "delivered", "failed"}}

(* What the worker of the row's group is doing, for the first row of it.   *)
At(r, row, step) == IsFirst(rows[r], row) /\ work[r][row.event.subject] = step

(* A worker is about to take the row: it already owns the group, or it is  *)
(* free and the group is first in the queue. shift() and the call of the   *)
(* handler have no await between them.                                     *)
Takes(r, row) ==
  \/ At(r, row, "next")
  \/ /\ At(r, row, "queued")
     /\ Cardinality(Busy(r)) < workers[r]
     /\ \A other \in rows[r] :
          work[r][other.event.subject] = "queued" => row.sequence <= other.sequence

Entry(row) == [event |-> row.event, sequence |-> row.sequence]

(* The worker goes on to `step`.                                           *)
Step(r, row, step) == work' = [work EXCEPT ![r][row.event.subject] = step]

(* Mutant: the worker goes on with the next row of the group.              *)
SkipNotDue(r, row) ==
  /\ Takes(r, row)
  /\ row.attempts > 0
  /\ rows' = [rows EXCEPT ![r] = @ \ {row}]
  /\ Step(r, row, IF row.event.subject \in Groups(rows[r] \ {row}) THEN "next" ELSE "none")
  /\ UNCHANGED <<storeVars, consumerVars, pc, epoch, blocked, progress, window, stopped,
                 workers>>

(* A retried row whose nextAttemptAt is still ahead blocks its group.      *)
NotDueYet(r, row) ==
  /\ Takes(r, row)
  /\ row.attempts > 0
  /\ blocked' = [blocked EXCEPT ![r] = @ \cup {row.event.subject}]
  /\ Step(r, row, "none")
  /\ UNCHANGED <<storeVars, consumerVars, pc, epoch, rows, progress, window, stopped,
                 workers>>

DeliverOk(r, row) ==
  /\ Takes(r, row)
  /\ invoked' = invoked \cup {Entry(row)}
  /\ handled' = handled \cup {Entry(row)}
  /\ Step(r, row, "delivered")
  /\ UNCHANGED <<storeVars, pc, epoch, rows, blocked, progress, window, stopped, workers>>

DeliverThrows(r, row) ==
  /\ Takes(r, row)
  /\ invoked' = invoked \cup {Entry(row)}
  /\ Step(r, row, "failed")
  /\ UNCHANGED <<storeVars, pc, epoch, handled, rows, blocked, progress, window, stopped,
                 workers>>

(* The worker after the row was acked or parked without a hold: the next   *)
(* row of the group, unless there is none or workers stop.                 *)
AfterRow(r, row) ==
  /\ rows' = [rows EXCEPT ![r] = @ \ {row}]
  /\ Step(r, row, IF stopped[r] = "no" /\ row.event.subject \in Groups(rows[r] \ {row})
                  THEN "next" ELSE "none")
  /\ progress' = [progress EXCEPT ![r] = TRUE]

(* The worker leaves the row's group for the rest of this drain.           *)
LeaveGroup(r, row) ==
  /\ blocked' = [blocked EXCEPT ![r] = @ \cup {row.event.subject}]
  /\ Step(r, row, "none")

(* A worker threw: drainOutbox rejects and the run continues at `target`.  *)
(* The other workers are not stopped and share the queue that is left; the *)
(* last one to throw abandons it.                                          *)
WorkerThrows(r, row, target) ==
  /\ workers' = [workers EXCEPT ![r] = @ - 1]
  /\ IF workers[r] = 1 THEN work' = [work EXCEPT ![r] = NoWork] ELSE Step(r, row, "none")
  /\ pc' = [pc EXCEPT ![r] = IF @ = "work" THEN target ELSE @]
  /\ UNCHANGED <<storeVars, consumerVars, epoch, rows, blocked, progress, window, stopped>>

(* A fenced-out worker throws LeaseLostError, whatever it was writing.     *)
LeaseLost(r, row) ==
  /\ At(r, row, "delivered") \/ At(r, row, "failed")
  /\ ~Fenced(r)
  /\ WorkerThrows(r, row, "release")

Ack(r, row) ==
  /\ At(r, row, "delivered")
  /\ Fenced(r)
  /\ AckEvents(row.event)
  /\ AfterRow(r, row)
  /\ UNCHANGED <<lease, epochCounter, state, items, parked, log, consumerVars, pc,
                 epoch, blocked, window, stopped, workers>>

(* The ack failed for another reason than the lease, before or after it    *)
(* took effect: the row counts as a failed attempt although the handler    *)
(* succeeded.                                                              *)
AckErrors(r, row) ==
  /\ At(r, row, "delivered")
  /\ \/ UNCHANGED outbox
     \/ Fenced(r) /\ AckEvents(row.event)
  /\ Step(r, row, "failed")
  /\ UNCHANGED <<lease, epochCounter, state, items, parked, log, consumerVars, pc, epoch,
                 rows, blocked, progress, window, stopped, workers>>

Retry(r, row) ==
  /\ At(r, row, "failed")
  /\ row.attempts + 1 < RetryAttempts
  /\ Fenced(r)
  /\ RecordAttempt(row.event)
  /\ LeaveGroup(r, row)
  /\ UNCHANGED <<lease, epochCounter, state, items, parked, log, consumerVars, pc,
                 epoch, rows, progress, window, stopped, workers>>

(* Taking no further row: queued and owned groups are dropped, a row whose *)
(* handler has been called is still settled.                               *)
StopWorkers(w) ==
  [k \in Identity |-> IF w[k] \in {"queued", "next"} THEN "none" ELSE w[k]]

Park(r, row) ==
  /\ At(r, row, "failed")
  /\ row.attempts + 1 >= RetryAttempts
  /\ Fenced(r)
  /\ ParkEvent(row, HoldKey)
  /\ \/ /\ PoisonAction = "halt"
        /\ stopped' = [stopped EXCEPT ![r] = "halted"]
        /\ work' = [work EXCEPT ![r] =
                      StopWorkers([@ EXCEPT ![row.event.subject] = "none"])]
        /\ progress' = [progress EXCEPT ![r] = TRUE]
        /\ UNCHANGED <<rows, blocked>>
     \/ /\ PoisonAction # "halt" /\ HoldKey
        /\ LeaveGroup(r, row)
        /\ progress' = [progress EXCEPT ![r] = TRUE]
        /\ UNCHANGED <<rows, stopped>>
     \/ /\ PoisonAction # "halt" /\ ~HoldKey
        /\ AfterRow(r, row)
        /\ UNCHANGED <<blocked, stopped>>
  /\ UNCHANGED <<lease, epochCounter, state, items, log, consumerVars, pc, epoch, window,
                 workers>>

(* The abort signal fires: workers stop after the row in hand.             *)
AbortWorkers(r) ==
  /\ stopped' = [stopped EXCEPT ![r] = IF @ = "no" THEN "aborted" ELSE @]
  /\ work' = [work EXCEPT ![r] = StopWorkers(@)]

Worker(r, row) ==
  \/ DeliverOk(r, row) \/ Ack(r, row) \/ Retry(r, row) \/ Park(r, row) \/ LeaseLost(r, row)

-----------------------------------------------------------------------------
DrainInit ==
  /\ rows = [r \in Run |-> {}]
  /\ work = [r \in Run |-> NoWork]
  /\ blocked = [r \in Run |-> {}]
  /\ progress = [r \in Run |-> FALSE]
  /\ window = [r \in Run |-> DispatchBatchSize]
  /\ stopped = [r \in Run |-> "no"]
  /\ workers = [r \in Run |-> 0]
  /\ invoked = {}
  /\ handled = {}

DrainTypeOK ==
  /\ epoch \in [Run -> Nat]
  /\ rows \in [Run -> SUBSET OutboxRow]
  /\ work \in [Run -> [Identity -> WorkerState]]
  /\ blocked \in [Run -> SUBSET Identity]
  /\ progress \in [Run -> BOOLEAN]
  /\ window \in [Run -> Nat]
  /\ stopped \in [Run -> {"no", "aborted", "halted"}]
  /\ workers \in [Run -> Int]
  /\ invoked \subseteq LoggedEvent
  /\ handled \subseteq LoggedEvent
=============================================================================
