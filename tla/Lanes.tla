------------------------------- MODULE Lanes -------------------------------
(***************************************************************************)
(* The lanes of one key: what runKey() of src/core/runner.ts does with the *)
(* live, reconcile and backfill cursors and with the schedule that are     *)
(* stored for the key, while operators call trigger(), backfill() and      *)
(* resetCursor() of src/core/engine.ts. A run works on the copy it read    *)
(* under the lease and stores it whole with every page; an operator reads, *)
(* computes and writes without the lease, possibly from another process.   *)
(*                                                                         *)
(* The source is a list that grows: item p follows item p - 1, a cursor is *)
(* the number of the last item taken (0: none yet) and a page holds one    *)
(* item. Times are abstract: the schedule is due or lies ahead ("later")   *)
(* until Clock. Leases, outbox and delivery are those of Runner; here a    *)
(* drain halts or does not.                                                *)
(***************************************************************************)
EXTENDS Integers

CONSTANTS
  Feed,         \* bound: the items that appear
  MaxPages,     \* maxPagesPerCycle
  Reconciles,   \* whether the poller has a reconcile lane
  MaxOps,       \* bound: operator calls
  MaxMishaps    \* bound: failures, halts, aborts, crashes

LanesParameters ==
  /\ Feed \in Nat /\ MaxPages \in Nat /\ Reconciles \in BOOLEAN
  /\ MaxOps \in Nat /\ MaxMishaps \in Nat

VARIABLES
  head,         \* the items that exist
  stored,       \* the stored state: its lanes and its schedule
  nextDue,      \* the engine's due time of the key
  run,          \* the run under way
  op,           \* the operator call under way
  ops, mishaps, \* calls and mishaps so far
  committed,    \* history: items the live lane committed
  skipTo,       \* history: the furthest cursor an operator set
  seen,         \* history: items the backfill lane committed
  wanted,       \* history: items the last backfill() still owes
  quiet         \* history: a trigger() of a key at rest that is still owed its run

history == <<committed, skipTo, seen, wanted, quiet>>
vars == <<head, stored, nextDue, run, op, ops, mishaps, history>>

Item == 1..Feed
Open == Feed + 1    \* the target of a backfill without one

NoBackfill == [from |-> 0, cursor |-> 0, target |-> Open, status |-> "none"]

Lanes == [live : 0..Feed, reconcile : {"due", "recent"},
          backfill : [from : 0..Feed, cursor : 0..Feed, target : 1..Open,
                      status : {"none", "active", "done", "halted"}]]

State == [lanes : Lanes, schedule : {"due", "later"}]

Idle == [pc |-> "idle"]
NoOp == [kind |-> "none"]

Mishap == mishaps < MaxMishaps /\ mishaps' = mishaps + 1

-----------------------------------------------------------------------------
(* What is due *)

ReconcileDue(s) == Reconciles /\ s.lanes.reconcile = "due"

(* A lane that a halt ended is stored as done.                             *)
BackfillActive(s) == s.lanes.backfill.status = "active"

AnyLaneDue(s) == s.schedule = "due" \/ ReconcileDue(s) \/ BackfillActive(s)

(* nextDueFromState()                                                      *)
NextDueFromState(s) == IF AnyLaneDue(s) THEN "due" ELSE "later"

(* The lane a run turns to after another: live, reconcile, backfill.       *)
LaneAfter(lane, s) ==
  IF lane = "start" /\ s.schedule = "due" THEN "live"
  ELSE IF lane \in {"start", "live"} /\ ReconcileDue(s) THEN "reconcile"
  ELSE IF lane # "backfill" /\ BackfillActive(s) THEN "backfill"
  ELSE "none"

(* The run goes on with the next lane, or is over.                         *)
Turn(lane, s) ==
  IF LaneAfter(lane, s) = "none"
  THEN [pc |-> "leave", out |-> s]
  ELSE [pc |-> "page", lane |-> LaneAfter(lane, s), state |-> s, pages |-> 0, pre |-> run.pre]

-----------------------------------------------------------------------------
(* A run *)

(* The first look, without the lease: nothing due, or the lease next.      *)
Check(pending) ==
  /\ run = Idle /\ nextDue = "due"
  /\ run' = IF AnyLaneDue(stored) \/ pending THEN [pc |-> "acquire", pre |-> stored]
            ELSE [pc |-> "leave", out |-> stored]
  /\ UNCHANGED <<head, stored, nextDue, op, ops, mishaps, history>>

(* The lease is held elsewhere: come back in half its time to live.        *)
Leased ==
  /\ run.pc = "acquire" /\ Mishap
  /\ run' = Idle
  /\ nextDue' = "later"
  /\ quiet' = FALSE
  /\ UNCHANGED <<head, stored, op, ops, committed, skipTo, seen, wanted>>

(* The read under the lease and the drain of what is pending.              *)
Acquire ==
  /\ run.pc = "acquire"
  /\ run' = Turn("start", stored)
  /\ quiet' = FALSE
  /\ UNCHANGED <<head, stored, nextDue, op, ops, mishaps, committed, skipTo, seen, wanted>>

(* The drain halts: openCircuitForHalt(), and no lane runs.                *)
AcquireHalted ==
  /\ run.pc = "acquire" /\ Mishap
  /\ stored' = [stored EXCEPT !.schedule = "later"]
  /\ run' = [pc |-> "leave", out |-> stored']
  /\ quiet' = FALSE
  /\ UNCHANGED <<head, nextDue, op, ops, committed, skipTo, seen, wanted>>

Advance(c) == IF c < head THEN c + 1 ELSE c

(* strategy.reached(): the cursor is at the target of the backfill.        *)
Reached(c, target) == c >= target

(* Mutant: stops one item short of the target.                             *)
DoneOneShort(lane, lanes) ==
  \/ lane = "live" /\ lanes.live = head
  \/ lane = "reconcile"
  \/ lane = "backfill" /\ (lanes.backfill.cursor = head
                            \/ Reached(lanes.backfill.cursor + 1, lanes.backfill.target))

(* The strategy reports the end, or the target of the backfill is reached. *)
Done(lane, lanes) ==
  \/ lane = "live" /\ lanes.live = head
  \/ lane = "reconcile"
  \/ lane = "backfill" /\ (lanes.backfill.cursor = head
                            \/ Reached(lanes.backfill.cursor, lanes.backfill.target))

(* Mutant: the page's lane writes its cursor as that of the live lane.     *)
PersistLaneLive(lane, lanes) ==
  CASE lane = "live" -> [lanes EXCEPT !.live = Advance(@)]
    [] lane = "reconcile" -> lanes
    [] lane = "backfill" -> [lanes EXCEPT !.backfill.cursor = Advance(@),
                                          !.live = Advance(lanes.backfill.cursor)]

(* persistLane(): the lane's new cursor among the lanes the run read.      *)
PersistLane(lane, lanes) ==
  CASE lane = "live" -> [lanes EXCEPT !.live = Advance(@)]
    [] lane = "reconcile" -> lanes
    [] lane = "backfill" -> [lanes EXCEPT !.backfill.cursor = Advance(@)]

(* A page: fetched, and committed together with all the lanes and the      *)
(* schedule the run knows of.                                              *)
Page ==
  /\ run.pc = "page"
  /\ LET lanes == PersistLane(run.lane, run.state.lanes)
     IN /\ stored' = [run.state EXCEPT !.lanes = lanes]
        /\ run' = [run EXCEPT !.pc = "drain", !.state = stored', !.pages = @ + 1]
        /\ committed' = committed \cup IF run.lane = "live" THEN 1..lanes.live \ 1..run.state.lanes.live ELSE {}
        /\ LET got == IF run.lane = "backfill"
                      THEN 1..lanes.backfill.cursor \ 1..run.state.lanes.backfill.cursor ELSE {}
           IN seen' = seen \cup got /\ wanted' = wanted \ got
  /\ UNCHANGED <<head, nextDue, op, ops, mishaps, skipTo, quiet>>

(* After the page: its events are delivered and the lease renewed, then    *)
(* the end of the cycle, the page cap or the next page.                    *)
Drain ==
  /\ run.pc = "drain"
  /\ run' = IF Done(run.lane, run.state.lanes) THEN [run EXCEPT !.pc = "done"]
            ELSE IF run.lane # "reconcile" /\ run.pages >= MaxPages THEN [run EXCEPT !.pc = "truncated"]
            ELSE [run EXCEPT !.pc = "page"]
  /\ UNCHANGED <<head, stored, nextDue, op, ops, mishaps, history>>

(* The tick() deadline or the page cap ends the cycle.                     *)
Deadline ==
  /\ run.pc \in {"page", "drain"} /\ Mishap
  /\ run.pc = "drain" => ~Done(run.lane, run.state.lanes)
  /\ run' = [run EXCEPT !.pc = "truncated"]
  /\ UNCHANGED <<head, stored, nextDue, op, ops, history>>

(* A poison event halts the drain: the schedule is saved, the cycle done.  *)
Halt ==
  /\ run.pc = "drain" /\ Mishap
  /\ stored' = [stored EXCEPT !.schedule = "later"]
  /\ run' = [run EXCEPT !.pc = "halted", !.state.schedule = "later"]
  /\ UNCHANGED <<head, nextDue, op, ops, history>>

(* Mutant: a backfill that ends is not marked as done.                     *)
LaneFinalOpen(lane, lanes, ended) ==
  IF lane = "reconcile" /\ ended # "truncated" THEN [lanes EXCEPT !.reconcile = "recent"]
  ELSE lanes

(* laneFinal: the lane after its cycle.                                    *)
LaneFinal(lane, lanes, ended) ==
  IF ended = "truncated" \/ lane = "live" THEN lanes
  ELSE IF lane = "reconcile" THEN [lanes EXCEPT !.reconcile = "recent"]
  ELSE [lanes EXCEPT !.backfill.status = ended]

(* afterSuccess(), of the live lane only: a truncated cycle is due again.  *)
ScheduleAfter(lane, s, ended) ==
  IF lane # "live" \/ ended = "halted" THEN s.schedule
  ELSE IF ended = "truncated" THEN "due" ELSE "later"

(* The end of a cycle: lanes and schedule are saved, the next lane.        *)
Save ==
  /\ run.pc \in {"done", "truncated", "halted"}
  /\ stored' = [lanes |-> LaneFinal(run.lane, run.state.lanes, run.pc),
                schedule |-> ScheduleAfter(run.lane, run.state, run.pc)]
  /\ run' = Turn(run.lane, stored')
  /\ UNCHANGED <<head, nextDue, op, ops, mishaps, history>>

(* The cycle fails: only the schedule is saved, and it changes for the     *)
(* live lane only. The next lane follows.                                  *)
Fail ==
  /\ run.pc = "page" /\ Mishap
  /\ LET schedule == IF run.lane = "live" THEN "later" ELSE run.state.schedule
     IN /\ stored' = [stored EXCEPT !.schedule = schedule]
        /\ run' = Turn(run.lane, [run.state EXCEPT !.schedule = schedule])
  /\ UNCHANGED <<head, nextDue, op, ops, committed, skipTo, seen, wanted, quiet>>

(* The run is aborted or loses its lease: the result is what it saw first. *)
Abort ==
  /\ run.pc \in {"page", "drain", "done", "truncated", "halted"} /\ Mishap
  /\ run' = [pc |-> "leave", out |-> run.pre]
  /\ UNCHANGED <<head, stored, nextDue, op, ops, history>>

(* The process dies and starts again.                                      *)
Crash ==
  /\ run # Idle /\ Mishap
  /\ run' = Idle
  /\ nextDue' = NextDueFromState(stored)
  /\ quiet' = FALSE
  /\ UNCHANGED <<head, stored, op, ops, committed, skipTo, seen, wanted>>

(* The end of runOne(): the engine's due time.                             *)
Leave ==
  /\ run.pc = "leave"
  /\ run' = Idle
  /\ nextDue' = NextDueFromState(run.out)
  /\ UNCHANGED <<head, stored, op, ops, mishaps, history>>

(* Due times pass.                                                         *)
Clock(due) ==
  /\ run = Idle
  /\ nextDue = "later" \/ stored.schedule = "later"
  /\ nextDue' = "due"
  /\ stored' = [stored EXCEPT !.schedule = "due", !.lanes.reconcile = IF due THEN "due" ELSE @]
  /\ UNCHANGED <<head, run, op, ops, mishaps, committed, skipTo, seen, wanted, quiet>>

Publish ==
  /\ head < Feed
  /\ head' = head + 1
  /\ UNCHANGED <<stored, nextDue, run, op, ops, mishaps, history>>

-----------------------------------------------------------------------------
(* Operators *)

(* The call reads the state. The target of a backfill is given, or open,   *)
(* or by default the live cursor of that moment.                           *)
Load(kind, from, target) ==
  /\ op = NoOp /\ ops < MaxOps
  /\ ops' = ops + 1
  /\ op' = [kind |-> kind, lanes |-> stored.lanes, from |-> from, target |-> target]
  /\ UNCHANGED <<head, stored, nextDue, run, mishaps, history>>

TargetOf(o) ==
  IF o.target # 0 THEN o.target
  ELSE IF o.lanes.live = 0 THEN Open ELSE o.lanes.live

(* Mutant: the engine is not told that the key is due.                     *)
WriteOnly(here) ==
  /\ op # NoOp
  /\ op' = NoOp
  /\ UNCHANGED <<head, nextDue, run, ops, mishaps, committed, seen>>

(* saveStateUnfenced(), and the key is due, if the engine is in this       *)
(* process.                                                                *)
Write(here) ==
  /\ op # NoOp
  /\ op' = NoOp
  /\ nextDue' = IF here THEN "due" ELSE nextDue
  /\ UNCHANGED <<head, run, ops, mishaps, committed, seen>>

Trigger(here) ==
  /\ op.kind = "trigger" /\ Write(here)
  /\ stored' = [stored EXCEPT !.schedule = "due"]
  /\ quiet' = (quiet \/ (here /\ run = Idle))
  /\ UNCHANGED <<skipTo, wanted>>

Backfill(here) ==
  /\ op.kind = "backfill" /\ Write(here)
  /\ stored' = [stored EXCEPT !.lanes =
       [op.lanes EXCEPT !.backfill = [from |-> op.from, cursor |-> op.from,
                                      target |-> TargetOf(op), status |-> "active"]]]
  /\ wanted' = {p \in Item : op.from < p /\ p <= head /\ p <= TargetOf(op)}
  /\ UNCHANGED <<skipTo, quiet>>

ResetCursor(here) ==
  /\ op.kind = "reset" /\ Write(here)
  /\ stored' = [lanes |-> [op.lanes EXCEPT !.live = op.from], schedule |-> "due"]
  /\ skipTo' = IF op.from > skipTo THEN op.from ELSE skipTo
  /\ UNCHANGED <<wanted, quiet>>

-----------------------------------------------------------------------------
Init ==
  /\ head = 0
  /\ stored = [lanes |-> [live |-> 0, reconcile |-> "due", backfill |-> NoBackfill],
               schedule |-> "due"]
  /\ nextDue = "due"
  /\ run = Idle /\ op = NoOp /\ ops = 0 /\ mishaps = 0
  /\ committed = {} /\ skipTo = 0 /\ seen = {} /\ wanted = {} /\ quiet = FALSE

Running ==
  \/ \E pending \in BOOLEAN : Check(pending)
  \/ Acquire \/ Page \/ Drain \/ Save \/ Leave

Ticking == \E due \in BOOLEAN : Clock(due)

Calling ==
  \E here \in BOOLEAN : Trigger(here) \/ Backfill(here) \/ ResetCursor(here)

Next ==
  \/ Running
  \/ Leased \/ AcquireHalted \/ Deadline \/ Halt \/ Abort \/ Crash
  \/ Fail
  \/ Ticking
  \/ Publish
  \/ \E from \in 0..head, target \in 0..head \cup {Open} : Load("backfill", from, target)
  \/ Load("trigger", 0, 0)
  \/ \E to \in 0..head : Load("reset", to, 0)
  \/ Calling

Spec == Init /\ [][Next]_vars

(* A run goes on, a call returns and time passes.                          *)
Fairness ==
  /\ WF_vars(Running)
  /\ WF_vars(Calling)
  /\ WF_vars(Ticking)

FairSpec == Spec /\ Fairness

-----------------------------------------------------------------------------
Cycle == [pc : {"page", "drain", "done", "truncated", "halted"},
          lane : {"live", "reconcile", "backfill"},
          state : State, pages : Nat, pre : State]

TypeOK ==
  /\ head \in 0..Feed
  /\ stored \in State
  /\ nextDue \in {"due", "later"}
  /\ \/ run = Idle
     \/ run \in [pc : {"acquire"}, pre : State]
     \/ run \in [pc : {"leave"}, out : State]
     \/ run \in Cycle
  /\ \/ op = NoOp
     \/ op \in [kind : {"trigger", "backfill", "reset"}, lanes : Lanes, from : 0..Feed, target : 0..Open]
  /\ ops \in 0..MaxOps /\ mishaps \in 0..MaxMishaps
  /\ committed \subseteq Item /\ seen \subseteq Item /\ wanted \subseteq Item
  /\ skipTo \in 0..Feed /\ quiet \in BOOLEAN

(* The live cursor never passes an item the live lane did not commit,      *)
(* unless an operator moved it there: not when a cycle of another lane     *)
(* stores the lanes it read, nor when an operator writes an old copy       *)
(* (persistLane, backfill, resetCursor).                                   *)
LiveCovered == \A p \in 1..stored.lanes.live : p \in committed \/ p <= skipTo

(* A backfill that is marked done without a halt has walked its range, up  *)
(* to its target or, without one, to its cursor, whatever runs, failures   *)
(* and calls of backfill() came between (runCycle).                        *)
BackfillSound ==
  LET b == stored.lanes.backfill
  IN b.status = "done" =>
       \A p \in Item : b.from < p /\ p <= (IF b.target = Open THEN b.cursor ELSE b.target) => p \in seen

(* trigger() of a key at rest is not forgotten before a run took the       *)
(* lease: the stored schedule and the engine's due time stay due (trigger, *)
(* runOne). A trigger() during a run has no such promise: see README.      *)
TriggerPrompt ==
  quiet => stored.schedule = "due" /\ (nextDue = "due" \/ run.pc = "acquire")

(* An active backfill and a due reconcile get their cycles (runKey,        *)
(* nextDueFromState).                                                      *)
LanesServed ==
  /\ BackfillActive(stored) ~> ~BackfillActive(stored)
  /\ ReconcileDue(stored) ~> ~ReconcileDue(stored)

(* "Start a backfill lane from a raw cursor" (docs/api.md): what a call of *)
(* backfill() asked for is walked, unless another call replaces it.        *)
BackfillHonoured == \A p \in Item : p \in wanted ~> p \notin wanted

(* The lanes of a key: the live cursor covers only what was committed, a   *)
(* backfill that is done has walked its range, and a trigger() of a key at *)
(* rest is not forgotten, whoever writes in between (persistLane,          *)
(* backfill, resetCursor, trigger).                                        *)
LanesSound == TypeOK /\ LiveCovered /\ BackfillSound /\ TriggerPrompt

-----------------------------------------------------------------------------
(* Strengthenings the proof of LanesSound needs (DaemonProofs).            *)

(* A backfill that may be marked done.                                     *)
Finished(l) == l.backfill.target = Open \/ l.backfill.cursor >= l.backfill.target

(* A copy of the lanes may be stale, and still claims nothing that was not *)
(* done: its cursors lie behind what exists, and what they have passed was *)
(* committed.                                                              *)
CopySound(l) ==
  /\ \A p \in 1..l.live : p \in committed \/ p <= skipTo
  /\ l.live <= head /\ l.backfill.cursor <= head
  /\ l.backfill.target <= head \/ l.backfill.target = Open
  /\ \A p \in Item : l.backfill.from < p /\ p <= l.backfill.cursor => p \in seen
  /\ l.backfill.status = "done" => Finished(l)

InCycle == run.pc \in {"page", "drain", "done", "truncated", "halted"}

(* Every copy that may be written: the stored one, that of the run and     *)
(* that of the operator's call.                                            *)
CopiesSound ==
  /\ CopySound(stored.lanes)
  /\ InCycle => CopySound(run.state.lanes)
  /\ run.pc = "done" /\ run.lane = "backfill" => Finished(run.state.lanes)
  /\ op # NoOp => /\ CopySound(op.lanes) /\ op.from <= head
                  /\ op.target <= head \/ op.target = Open

(* A trigger() that is owed its run found the key at rest, and no run has  *)
(* passed the first look since.                                            *)
OwedAtRest == quiet => run.pc \in {"idle", "acquire"}
=============================================================================
