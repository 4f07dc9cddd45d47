------------------------------- MODULE Runner -------------------------------
(***************************************************************************)
(* runKey and the live lane of runCycle (src/core/runner.ts) for one       *)
(* (poller, partition) key, run by several engine instances against one    *)
(* store: acquire the fenced lease, drain the outbox, then fetch, diff and *)
(* commit page after page, draining and renewing after each commit, save   *)
(* the state and release. Crashes, lease expiry, aborts, failed fetches    *)
(* and store errors may strike between any two steps.                      *)
(*                                                                         *)
(* The API is a change feed read through a token cursor: the cursor is the *)
(* number of feed entries consumed (src/cursor/token.ts, a cursor with     *)
(* hasMore = false is kept for the next cycle).                            *)
(***************************************************************************)
EXTENDS Dispatcher, Sequences

CONSTANTS
  PageSize,         \* feed entries per page
  MaxPagesPerCycle, \* poller.maxPagesPerCycle
  Reverts,          \* may an item go back to a value it had before?
  MaxFeed,          \* bound: length of the feed
  MaxMishaps        \* bound: crashes, expiries, failures, idle polls, aborts

ASSUME RunnerAssumption ==
  /\ PageSize \in Nat \ {0}
  /\ MaxPagesPerCycle \in Nat \ {0}
  /\ Reverts \in BOOLEAN
  /\ MaxFeed \in Nat
  /\ MaxMishaps \in Nat

VARIABLES
  feed,      \* the API's change feed: a sequence of [subject, version]
  phase,     \* which drain a run is in: before the cycle or after a commit
  mem,       \* the run's in-memory cursor and sequence
  page,      \* the page in hand: [to, more], and pages fetched this cycle
  batch,     \* the rows processPage built for the page
  retried,   \* log entries an operator put back into the outbox
  dropped,   \* log entries an operator discarded
  mishaps    \* mishaps so far

runVars == <<phase, mem, page, batch>>
operatorVars == <<retried, dropped>>
vars == <<storeVars, pc, epoch, drainVars, consumerVars, feed, runVars, operatorVars,
          mishaps>>

FeedEntry == [subject : Identity, version : Version]

PC == {"idle", "acquired", "load", "held", "work", "openCircuit", "fetch", "process",
       "commit", "renew", "save", "fail", "release"}

NoState == [cursor |-> 0, sequence |-> 0]

NoPage == [to |-> 0, more |-> FALSE, count |-> 0]

Init ==
  /\ StoreInit
  /\ DrainInit
  /\ pc = [r \in Run |-> "idle"]
  /\ epoch = [r \in Run |-> 0]
  /\ feed = <<>>
  /\ phase = [r \in Run |-> "pre"]
  /\ mem = [r \in Run |-> NoState]
  /\ page = [r \in Run |-> NoPage]
  /\ batch = [r \in Run |-> {}]
  /\ retried = {}
  /\ dropped = {}
  /\ mishaps = 0

Mishap == mishaps < MaxMishaps /\ mishaps' = mishaps + 1

GoTo(r, target) == pc' = [pc EXCEPT ![r] = target]

-----------------------------------------------------------------------------
(* The API *)

LastVersion(k, n) ==
  LET is == {i \in 1..n : feed[i].subject = k} IN
  IF is = {} THEN Absent
  ELSE feed[CHOOSE i \in is : \A j \in is : j <= i].version

(* An item changes. Its versions are all different unless Reverts.         *)
Change(k, v) ==
  /\ Len(feed) < MaxFeed
  /\ v # LastVersion(k, Len(feed))
  /\ Reverts \/ \A i \in 1..Len(feed) : feed[i] # [subject |-> k, version |-> v]
  /\ feed' = Append(feed, [subject |-> k, version |-> v])
  /\ UNCHANGED <<storeVars, pc, epoch, drainVars, consumerVars, runVars, operatorVars,
                 mishaps>>

-----------------------------------------------------------------------------
(* runKey: lease, re-read, drain, cycle, release *)

(* A poll can achieve something: the feed is ahead of the cursor, or a     *)
(* pending row is not behind a held key.                                   *)
WorkToDo ==
  \/ state.cursor < Len(feed)
  \/ \E row \in outbox : row.event.subject \notin HeldKeys

(* No run that goes on holds the lease.                                    *)
Orphaned == \A r \in Run : ~(pc[r] # "idle" /\ Fenced(r))

(* A run starts on a key that is not paused and takes the lease. Polls     *)
(* that find nothing to do, and overlapping runs of one instance (tick()   *)
(* beside the daemon, replay), which take the lease from each other, are   *)
(* bounded like the other mishaps.                                         *)
Begin(r) ==
  /\ pc[r] = "idle"
  /\ Idle(r)
  /\ ~state.paused
  /\ IF WorkToDo /\ (lease.owner # OwnerOf[r] \/ Orphaned)
     THEN UNCHANGED mishaps ELSE Mishap
  /\ AcquireLease(OwnerOf[r])
  /\ epoch' = [epoch EXCEPT ![r] = epochCounter + 1]
  /\ GoTo(r, "acquired")
  /\ UNCHANGED <<state, items, outbox, parked, log, drainVars, consumerVars, feed,
                 runVars, operatorVars>>

(* The authoritative re-read under the lease.                              *)
ReadState(r) ==
  /\ pc[r] = "acquired"
  /\ mem' = [mem EXCEPT ![r] = [cursor |-> state.cursor, sequence |-> state.sequence]]
  /\ phase' = [phase EXCEPT ![r] = "pre"]
  /\ page' = [page EXCEPT ![r] = NoPage]
  /\ IF state.paused
     THEN GoTo(r, "release") /\ UNCHANGED <<rows, blocked, progress, window>>
     ELSE GoTo(r, "load") /\ StartDrain(r)
  /\ UNCHANGED <<storeVars, consumerVars, epoch, work, stopped, workers, feed, batch,
                 operatorVars, mishaps>>

(* Where a run goes when its drain returns.                                *)
AfterDrain(r) ==
  CASE stopped[r] = "halted" -> "openCircuit"
    [] phase[r] = "pre"      -> "fetch"
    [] OTHER                 -> "renew"

Drain(r) ==
  /\ \/ LoadRows(r, AfterDrain(r))
     \/ FilterHeld(r, AfterDrain(r))
     \/ EndRound(r, AfterDrain(r))
     \/ \E row \in rows[r] : Worker(r, row)
  /\ UNCHANGED <<feed, runVars, operatorVars, mishaps>>

(* What may go wrong while delivering: a handler throws, a retried row is  *)
(* not due yet, the ack or the recording of a failure meets a store error. *)
DeliveryMishap(r) ==
  /\ Mishap
  /\ \E row \in rows[r] :
       \/ DeliverThrows(r, row)
       \/ NotDueYet(r, row)
       \/ AckErrors(r, row)
       \/ /\ At(r, row, "failed")
          /\ WorkerThrows(r, row, IF phase[r] = "pre" THEN "release" ELSE "fail")
  /\ UNCHANGED <<feed, runVars, operatorVars>>

(* openCircuitForHalt: a poison event with action "halt" ends the run. The *)
(* fenced write of the open circuit touches the schedule only.             *)
OpenCircuit(r) ==
  /\ pc[r] = "openCircuit"
  /\ GoTo(r, IF Fenced(r) /\ phase[r] = "cycle" THEN "save" ELSE "release")
  /\ UNCHANGED <<storeVars, consumerVars, epoch, drainVars, feed, runVars, operatorVars,
                 mishaps>>

(* The run's locals go out of scope with it, once no abandoned worker is   *)
(* left that uses them.                                                    *)
Forget(r) ==
  LET Reset(f, v) == [f EXCEPT ![r] = v]
      Keep(f, v) == [f EXCEPT ![r] = IF Idle(r) THEN v ELSE @] IN
  /\ phase' = Reset(phase, "pre")
  /\ mem' = Reset(mem, NoState)
  /\ page' = Reset(page, NoPage)
  /\ batch' = Reset(batch, {})
  /\ blocked' = Reset(blocked, {})
  /\ progress' = Reset(progress, FALSE)
  /\ window' = Reset(window, DispatchBatchSize)
  /\ epoch' = Keep(epoch, 0)
  /\ rows' = Keep(rows, {})
  /\ stopped' = Keep(stopped, "no")
  /\ workers' = Keep(workers, 0)
  /\ UNCHANGED work

ReleaseRun(r) ==
  /\ pc[r] = "release"
  /\ ReleaseLease(OwnerOf[r], epoch[r])
  /\ GoTo(r, "idle")
  /\ Forget(r)
  /\ UNCHANGED <<epochCounter, state, items, outbox, parked, log, consumerVars, feed,
                 operatorVars, mishaps>>

(* The release fails: it is logged, and the lease stays until it expires.  *)
ReleaseFails(r) ==
  /\ pc[r] = "release"
  /\ Mishap
  /\ GoTo(r, "idle")
  /\ Forget(r)
  /\ UNCHANGED <<storeVars, consumerVars, feed, operatorVars>>

-----------------------------------------------------------------------------
(* runCycle, live lane *)

(* The live lane is not due: the run only drained.                         *)
LiveNotDue(r) ==
  /\ pc[r] = "fetch"
  /\ page[r].count = 0
  /\ Mishap
  /\ GoTo(r, "release")
  /\ UNCHANGED <<storeVars, consumerVars, epoch, drainVars, feed, runVars, operatorVars>>

(* Mutant: the abort is noticed and the loop goes on waiting.              *)
AbortIgnored(r) ==
  /\ pc[r] = "fetch"
  /\ stopped[r] # "no"
  /\ UNCHANGED vars

(* The signal is aborted at the top of the page loop. The reason the       *)
(* engine gives is no AbortError, so the cycle counts as failed.           *)
AbortCycle(r) ==
  /\ pc[r] = "fetch"
  /\ stopped[r] # "no"
  /\ GoTo(r, "fail")
  /\ UNCHANGED <<storeVars, consumerVars, epoch, drainVars, feed, runVars, operatorVars,
                 mishaps>>

PageEnd(r) ==
  IF mem[r].cursor + PageSize < Len(feed) THEN mem[r].cursor + PageSize ELSE Len(feed)

Fetch(r) ==
  /\ pc[r] = "fetch"
  /\ stopped[r] = "no"
  /\ page' = [page EXCEPT ![r] = [to |-> PageEnd(r), more |-> PageEnd(r) < Len(feed),
                                  count |-> @.count + 1]]
  /\ GoTo(r, "process")
  /\ UNCHANGED <<storeVars, consumerVars, epoch, drainVars, feed, phase, mem, batch,
                 operatorVars, mishaps>>

(* prepareCandidates and diffCandidates: the last entry of an identity in  *)
(* the page counts, at the place of its first; equal to the snapshot means *)
(* no event.                                                               *)
InPage(r) == (mem[r].cursor + 1)..page[r].to

Changed(r) ==
  {k \in Identity :
     /\ \E i \in InPage(r) : feed[i].subject = k
     /\ LastVersion(k, page[r].to) # items[k]}

FirstIn(r, k) ==
  CHOOSE i \in InPage(r) :
    feed[i].subject = k /\ \A j \in InPage(r) : feed[j].subject = k => i <= j

EventRow(r, k) ==
  [event |-> [subject |-> k, version |-> LastVersion(k, page[r].to),
              type |-> IF items[k] = Absent THEN "created" ELSE "updated"],
   sequence |-> mem[r].sequence + 1
                + Cardinality({j \in Changed(r) : FirstIn(r, j) < FirstIn(r, k)}),
   attempts |-> 0]

(* processPage: loadVersions, diff, and one sequence number per event.     *)
ProcessPage(r) ==
  /\ pc[r] = "process"
  /\ batch' = [batch EXCEPT ![r] = {EventRow(r, k) : k \in Changed(r)}]
  /\ mem' = [mem EXCEPT ![r] =
               [@ EXCEPT !.sequence = mem[r].sequence + Cardinality(Changed(r))]]
  /\ GoTo(r, "commit")
  /\ UNCHANGED <<storeVars, consumerVars, epoch, drainVars, feed, phase, page,
                 operatorVars, mishaps>>

Commit(r) ==
  /\ pc[r] = "commit"
  /\ IF Fenced(r)
     THEN /\ CommitPoll(batch[r], page[r].to, mem[r].sequence)
          /\ mem' = [mem EXCEPT ![r] = [@ EXCEPT !.cursor = page[r].to]]
          /\ phase' = [phase EXCEPT ![r] = "cycle"]
          /\ batch' = [batch EXCEPT ![r] = {}]
          /\ IF batch[r] = {}
             THEN GoTo(r, "renew") /\ UNCHANGED <<rows, blocked, progress, window>>
             ELSE GoTo(r, "load") /\ StartDrain(r)
     ELSE /\ GoTo(r, "release")
          /\ UNCHANGED <<state, items, outbox, log, mem, phase, batch, rows, blocked,
                         progress, window>>
  /\ UNCHANGED <<lease, epochCounter, parked, consumerVars, epoch, work, stopped, workers,
                 feed, page, operatorVars, mishaps>>

(* The commit took effect and its answer was lost.                         *)
CommitAnswerLost(r) ==
  /\ pc[r] = "commit"
  /\ Fenced(r)
  /\ Mishap
  /\ CommitPoll(batch[r], page[r].to, mem[r].sequence)
  /\ GoTo(r, "fail")
  /\ UNCHANGED <<lease, epochCounter, parked, consumerVars, epoch, drainVars, feed,
                 runVars, operatorVars>>

(* renewNow between pages, then the tests at the end of the page loop: the *)
(* next page, the end of the cycle (done, or truncated by the page cap),   *)
(* or an abort.                                                            *)
Renew(r) ==
  /\ pc[r] = "renew"
  /\ RenewLease(OwnerOf[r], epoch[r])
  /\ GoTo(r, IF ~Fenced(r) THEN "release"
             ELSE IF ~page[r].more THEN "save"
             ELSE IF stopped[r] # "no" THEN "fail"
             ELSE IF page[r].count >= MaxPagesPerCycle THEN "save"
             ELSE "fetch")
  /\ UNCHANGED <<epochCounter, state, items, outbox, parked, log, consumerVars, epoch,
                 drainVars, feed, runVars, operatorVars, mishaps>>

(* End-of-cycle bookkeeping: the lane cursor, the schedule, the sequence.  *)
SaveState(r) ==
  /\ pc[r] = "save"
  /\ state' = IF Fenced(r)
              THEN [state EXCEPT !.cursor = mem[r].cursor, !.sequence = mem[r].sequence]
              ELSE state
  /\ GoTo(r, "release")
  /\ UNCHANGED <<lease, epochCounter, items, outbox, parked, log, consumerVars, epoch,
                 drainVars, feed, runVars, operatorVars, mishaps>>

(* A fetch, a validation or a call of the store threw something else than  *)
(* LeaseLostError, nothing being written. Inside the cycle the failure is  *)
(* recorded, a failure to record it is not, and before the cycle runKey    *)
(* rejects.                                                                *)
StepThrows(r) ==
  /\ pc[r] \in {"acquired", "load", "held", "openCircuit", "fetch", "process", "commit",
               "renew", "save", "fail"}
  /\ Mishap
  /\ GoTo(r, IF pc[r] \in {"fetch", "process", "commit"}
                \/ (pc[r] # "fail" /\ phase[r] = "cycle")
             THEN "fail" ELSE "release")
  /\ UNCHANGED <<storeVars, consumerVars, epoch, drainVars, feed, runVars, operatorVars>>

(* Mutant: the failure path saves the cursor of the page that failed.      *)
SaveFailureAdvances(r) ==
  /\ pc[r] = "fail"
  /\ state' = IF Fenced(r) THEN [state EXCEPT !.cursor = page[r].to, !.sequence = mem[r].sequence]
              ELSE state
  /\ GoTo(r, "release")
  /\ UNCHANGED <<lease, epochCounter, items, outbox, parked, log, consumerVars, epoch,
                 drainVars, feed, runVars, operatorVars, mishaps>>

SaveFailure(r) ==
  /\ pc[r] = "fail"
  /\ state' = IF Fenced(r) THEN [state EXCEPT !.sequence = mem[r].sequence] ELSE state
  /\ GoTo(r, "release")
  /\ UNCHANGED <<lease, epochCounter, items, outbox, parked, log, consumerVars, epoch,
                 drainVars, feed, runVars, operatorVars, mishaps>>

-----------------------------------------------------------------------------
(* Time, faults and operators *)

Expire ==
  /\ lease.live
  /\ Mishap
  /\ lease' = [lease EXCEPT !.live = FALSE]
  /\ UNCHANGED <<epochCounter, state, items, outbox, parked, log, pc, epoch, drainVars,
                 consumerVars, feed, runVars, operatorVars>>

(* A crashed holder's lease runs out, without costing another mishap.      *)
ExpireOrphan ==
  /\ lease.live
  /\ Orphaned
  /\ lease' = [lease EXCEPT !.live = FALSE]
  /\ UNCHANGED <<epochCounter, state, items, outbox, parked, log, pc, epoch, drainVars,
                 consumerVars, feed, runVars, operatorVars, mishaps>>

(* LeaseKeeper.beat: renews the lease, even an expired one nobody took, or *)
(* aborts the run when the lease is gone.                                  *)
Beat(r) ==
  /\ pc[r] # "idle"
  /\ IF Fenced(r)
     THEN RenewLease(OwnerOf[r], epoch[r]) /\ UNCHANGED <<stopped, work>>
     ELSE AbortWorkers(r) /\ UNCHANGED lease
  /\ UNCHANGED <<epochCounter, state, items, outbox, parked, log, pc, epoch, rows, blocked,
                 progress, window, workers, consumerVars, feed, runVars, operatorVars,
                 mishaps>>

(* stop({ drain: false }) or the stop timeout.                             *)
StopEngine(r) ==
  /\ pc[r] # "idle"
  /\ Mishap
  /\ AbortWorkers(r)
  /\ UNCHANGED <<storeVars, pc, epoch, rows, blocked, progress, window, workers,
                 consumerVars, feed, runVars, operatorVars>>

(* The process dies with all its runs; the lease stays behind.             *)
Crash(o) ==
  LET Dies(r) == OwnerOf[r] = o
      Lost(f, v) == [r \in Run |-> IF Dies(r) THEN v ELSE f[r]] IN
  /\ \E r \in Run : Dies(r) /\ (pc[r] # "idle" \/ ~Idle(r))
  /\ Mishap
  /\ pc' = Lost(pc, "idle")
  /\ epoch' = Lost(epoch, 0)
  /\ phase' = Lost(phase, "pre")
  /\ mem' = Lost(mem, NoState)
  /\ page' = Lost(page, NoPage)
  /\ batch' = Lost(batch, {})
  /\ rows' = Lost(rows, {})
  /\ work' = Lost(work, NoWork)
  /\ blocked' = Lost(blocked, {})
  /\ progress' = Lost(progress, FALSE)
  /\ window' = Lost(window, DispatchBatchSize)
  /\ stopped' = Lost(stopped, "no")
  /\ workers' = Lost(workers, 0)
  /\ UNCHANGED <<storeVars, consumerVars, feed, operatorVars>>

Pause ==
  /\ ~state.paused
  /\ Mishap
  /\ state' = [state EXCEPT !.paused = TRUE]
  /\ UNCHANGED <<lease, epochCounter, items, outbox, parked, log, pc, epoch, drainVars,
                 consumerVars, feed, runVars, operatorVars>>

Resume ==
  /\ state.paused
  /\ state' = [state EXCEPT !.paused = FALSE]
  /\ UNCHANGED <<lease, epochCounter, items, outbox, parked, log, pc, epoch, drainVars,
                 consumerVars, feed, runVars, operatorVars, mishaps>>

OperatorRetries(row) ==
  /\ RetryParked(row)
  /\ Mishap
  /\ retried' = retried \cup {Entry(row)}
  /\ UNCHANGED <<lease, epochCounter, state, items, log, pc, epoch, drainVars,
                 consumerVars, feed, runVars, dropped>>

OperatorDiscards(row) ==
  /\ DiscardParked(row)
  /\ Mishap
  /\ dropped' = dropped \cup {Entry(row)}
  /\ UNCHANGED <<lease, epochCounter, state, items, outbox, log, pc, epoch, drainVars,
                 consumerVars, feed, runVars, retried>>

-----------------------------------------------------------------------------
RunStep(r) ==
  \/ ReadState(r) \/ Drain(r) \/ OpenCircuit(r) \/ ReleaseRun(r)
  \/ AbortCycle(r) \/ Fetch(r) \/ ProcessPage(r) \/ Commit(r) \/ Renew(r)
  \/ SaveState(r) \/ SaveFailure(r)

RunMishap(r) ==
  \/ LiveNotDue(r) \/ DeliveryMishap(r) \/ StepThrows(r) \/ CommitAnswerLost(r)
  \/ ReleaseFails(r) \/ StopEngine(r)

Next ==
  \/ \E k \in Identity, v \in Version : Change(k, v)
  \/ \E r \in Run : Begin(r) \/ RunStep(r) \/ RunMishap(r) \/ Beat(r)
  \/ Expire \/ ExpireOrphan
  \/ \E o \in Owner : Crash(o)
  \/ Pause \/ Resume
  \/ \E row \in parked : OperatorRetries(row) \/ OperatorDiscards(row)

Spec == Init /\ [][Next]_vars

(* What the engine's scheduling justifies: a due run with work to do is    *)
(* started, a started run goes on, an abandoned lease runs out, a paused   *)
(* key is resumed. Mishaps need not happen, and MaxMishaps bounds them.    *)
Fairness ==
  /\ \A r \in Run : WF_vars(RunStep(r)) /\ WF_vars(Begin(r) /\ WorkToDo)
  /\ WF_vars(ExpireOrphan)
  /\ WF_vars(Resume)

FairSpec == Spec /\ Fairness

TypeOK ==
  /\ StoreTypeOK
  /\ DrainTypeOK
  /\ pc \in [Run -> PC]
  /\ feed \in Seq(FeedEntry)
  /\ phase \in [Run -> {"pre", "cycle"}]
  /\ mem \in [Run -> [cursor : Nat, sequence : Nat]]
  /\ page \in [Run -> [to : Nat, more : BOOLEAN, count : Nat]]
  /\ batch \in [Run -> SUBSET OutboxRow]
  /\ retried \subseteq LoggedEvent
  /\ dropped \subseteq LoggedEvent
  /\ mishaps \in Nat

-----------------------------------------------------------------------------
(* Properties *)

(* G1, at-least-once: an event that was committed has been handled, or is  *)
(* still pending, or is parked, or was discarded by an operator. Crashes,  *)
(* lost leases, failed acks and stale workers never make one disappear.    *)
NoEventLost ==
  \A l \in log :
    \/ \E h \in handled \cup dropped : h.event = l.event
    \/ \E row \in outbox \cup parked : row.event = l.event

(* G4, atomic commit: the snapshot is what the feed says up to the saved   *)
(* cursor, and the last change of every item up to the cursor has its      *)
(* event. The cursor never passes a change that was not recorded.          *)
CursorSound ==
  /\ state.cursor <= Len(feed)
  /\ \A k \in Identity :
       LET v == LastVersion(k, state.cursor) IN
       /\ items[k] = v
       /\ v # Absent => \E l \in log : l.event.subject = k /\ l.event.version = v

(* Sequence numbers are never reused, whichever run commits after whatever *)
(* failure: two different committed events never share one.                *)
SequenceUnique ==
  /\ \A a, b \in log : a.sequence = b.sequence => a = b
  /\ \A a \in log : a.sequence <= state.sequence

(* G5, fencing: only one run at a time passes the fence, and the copy of   *)
(* the state it works from is the stored one. Every fenced write relies on *)
(* it: a stale copy would move the cursor back or reuse sequence numbers.  *)
SingleFreshWriter ==
  \A r \in Run :
    pc[r] # "idle" /\ Fenced(r) =>
      /\ \A other \in Run : pc[other] # "idle" /\ Fenced(other) => other = r
      /\ pc[r] \notin {"acquired", "release"} => mem[r].sequence >= state.sequence
      /\ pc[r] \notin {"acquired", "fail", "release"} => mem[r].cursor = state.cursor

(* G3, order per key: when the handler is called for an event, each event  *)
(* of the same item with a smaller sequence number has been handled, or    *)
(* was given up (discarded, or parked without a hold), or will not come in *)
(* its place any more because its row has been written again: the id was   *)
(* put back by an operator, or the item returned to that value and the     *)
(* commit replaced the row. It holds for stale runs and abandoned workers. *)
Entries(rs) == {Entry(row) : row \in rs}

GivenUp == dropped \cup Entries({p \in parked : ~p.holdKey})

PutBack(l) == \E x \in retried : x.event = l.event

Superseded(l) == \E x \in log : x.event = l.event /\ x.sequence > l.sequence

Past(l) == l \in handled \cup GivenUp \/ PutBack(l) \/ Superseded(l)

DeliveryInOrder ==
  \A e \in invoked, l \in log :
    e.event.subject = l.event.subject /\ l.sequence < e.sequence => Past(l)

(* G1 for repeated changes: an item that returns to an earlier value emits *)
(* the same event id again. The new occurrence is delivered with its own   *)
(* sequence number or a later one, or is on its way with it: acking or     *)
(* replacing a row by id never swallows a later occurrence, provided no    *)
(* operator retried that id.                                               *)
OnItsWay(l) ==
  \/ \E h \in handled \cup dropped : h.event = l.event /\ h.sequence >= l.sequence
  \/ \E row \in outbox \cup parked : row.event = l.event /\ row.sequence >= l.sequence

RepeatsDelivered == \A l \in log : OnItsWay(l) \/ PutBack(l)

(* The rows that neither a held key, nor a failure of their key in this    *)
(* drain, nor an operator who moved an event of the key explains.          *)
Unserved(r) ==
  {row \in outbox :
     row.event.subject \notin HeldKeys \cup blocked[r]
                              \cup {l.event.subject : l \in retried \cup dropped}}

(* The rows of held and failing keys that stand before a row.              *)
Ahead(r, row) ==
  {n \in 1..(row.sequence - 1) :
     \E x \in outbox \cup rows[r] :
       x.sequence = n /\ x.event.subject \in HeldKeys \cup blocked[r]}

(* G7, the widening load window: held keys never keep a drain from the     *)
(* rows behind them, however many rows they fill the window with. A row is *)
(* left behind only when a key failed in this very drain, and rows of held *)
(* and failing keys fill the whole window before it (drainOutbox).         *)
NoKeyStarved ==
  \A r \in Run :
    pc[r] = "renew" /\ Fenced(r) /\ stopped[r] = "no"
    /\ window[r] < DispatchBatchSize * WindowCap =>
      \A row \in Unserved(r) :
        /\ blocked[r] \ HeldKeys # {}
        /\ Cardinality(Ahead(r, row)) >= window[r]

(* Every change the API reports is eventually behind the saved cursor.     *)
EventuallyCommitted ==
  \A n \in 1..MaxFeed : Len(feed) >= n ~> state.cursor >= n

(* Every committed event eventually is handled, parked or discarded, or    *)
(* waits behind a parked event of its key.                                 *)
EventuallySettled ==
  \A k \in Identity, v \in Version :
    (\E l \in log : l.event.subject = k /\ l.event.version = v)
      ~> \/ \E h \in handled \cup dropped : h.event.subject = k /\ h.event.version = v
         \/ \E p \in parked : p.event.subject = k /\ p.event.version = v
         \/ k \in HeldKeys

-----------------------------------------------------------------------------
(* Strengthenings the inductive proofs need (RunnerProofs, DeliveryProofs). *)

(* The page in hand is a part of the feed.                                 *)
PageInFeed == \A r \in Run : page[r].to <= Len(feed)

(* Workers are busy only during a round, or after one of them threw, until *)
(* the last of them ends.                                                  *)
Outlives(r) == Idle(r) \/ pc[r] \in {"work", "fail", "release", "idle"}

WorkersOutlive == \A r \in Run : Outlives(r)

(* A row a worker is about to ack is one whose handler returned normally.  *)
AckedWereHandled(r) ==
  \A row \in rows[r] : At(r, row, "delivered") => Entry(row) \in handled

DeliveredHandled == \A r \in Run : AckedWereHandled(r)

(* Epochs come from a counter and are given to one run each.               *)
EpochsDistinct ==
  /\ lease.epoch <= epochCounter
  /\ \A r \in Run :
       /\ epoch[r] <= epochCounter
       /\ pc[r] # "idle" => epoch[r] # 0
       /\ \A other \in Run : epoch[other] = epoch[r] /\ epoch[r] # 0 => other = r

(* A run that has not read the state has not begun its cycle.              *)
PhaseStarts == \A r \in Run : pc[r] \in {"idle", "acquired"} => phase[r] = "pre"

(* No cursor in memory is ahead of the feed, and a page does not end       *)
(* before it begins.                                                       *)
PageAhead(r) ==
  /\ mem[r].cursor <= Len(feed)
  /\ pc[r] \in {"process", "commit"} => mem[r].cursor <= page[r].to

(* The batch that is about to be committed has a row of its own number for *)
(* each item that changed, numbered after everything committed so far, and *)
(* brings the snapshot to where the page ends.                             *)
BatchReady(r) ==
  pc[r] = "commit" /\ Fenced(r) =>
    /\ \A x \in batch[r] : state.sequence < x.sequence /\ x.sequence <= mem[r].sequence
    /\ \A x, y \in batch[r] : x.sequence = y.sequence => x = y
    /\ \A x, y \in batch[r] : x.event.subject = y.event.subject => x = y
    /\ \A k \in Identity : Upserted(batch[r], k) = LastVersion(k, page[r].to)

PagesSound == \A r \in Run : PageAhead(r) /\ BatchReady(r)

(* What is pending, parked, loaded or was ever delivered has been logged.  *)
AllLogged ==
  /\ Entries(outbox) \cup Entries(parked) \cup invoked \subseteq log
  /\ \A r \in Run : Entries(rows[r]) \subseteq log

(* Every committed occurrence is somewhere, or its row was written again.  *)
Accounted ==
  \A l \in log :
    l \in handled \cup dropped \cup Entries(outbox) \cup Entries(parked)
    \/ PutBack(l) \/ Superseded(l)

(* The drain of r has rows in its hands.                                   *)
Holds(r) == pc[r] = "held" \/ ~Idle(r)

(* A pending row is the latest occurrence of its id, unless an operator    *)
(* put it back, and so is a row in the hands of a run that passes the      *)
(* fence: acking or parking it by its id concerns no other occurrence.     *)
Current(row) == PutBack(row) \/ ~Superseded(row)

RowsCurrent ==
  /\ \A row \in outbox : Current(row)
  /\ \A r \in Run : Holds(r) /\ Fenced(r) => \A row \in rows[r] : Current(row)

(* Whatever precedes a row in the hands of a run is in its hands too, or   *)
(* past, or parked, which the run looks for before it delivers.            *)
Preceded(r) ==
  Holds(r) =>
    \A row \in rows[r], l \in log :
      l.event.subject = row.event.subject /\ l.sequence < row.sequence =>
        \/ l \in Entries(rows[r]) \/ Past(l)
        \/ pc[r] = "held" /\ l \in Entries(parked)

(* Parked rows hold their key or not as the poller is configured.          *)
ParkedAlike == \A p \in parked : p.holdKey = HoldKey
=============================================================================
