---------------------------- MODULE DaemonProofs ----------------------------
(***************************************************************************)
(* Proofs about the parts of MCDaemon, each for every value of its         *)
(* constants, apart from the others: what MCDaemon checks of a part is     *)
(* proved of the part's own specification.                                 *)
(***************************************************************************)
EXTENDS MCDaemon, FiniteSetTheorems, TLAPS

-----------------------------------------------------------------------------
LaneName == {"live", "reconcile", "backfill"}

(* The operator's call, when there is one.                                 *)
OpType == [kind : {"trigger", "backfill", "reset"}, lanes : L!Lanes, from : 0..Feed, target : 0..L!Open]

(* The states of a run.                                                    *)
RunType ==
  \/ run = L!Idle
  \/ run \in [pc : {"acquire"}, pre : L!State]
  \/ run \in [pc : {"leave"}, out : L!State]
  \/ run \in L!Cycle

(* What a run of the key has in hand, by its pc.                         *)
LEMMA RunShape ==
  ASSUME RunType
  PROVE  /\ run = L!Idle <=> run.pc = "idle"
         /\ run.pc = "acquire" => run.pre \in L!State
         /\ run.pc = "leave" => run.out \in L!State
         /\ L!InCycle => run \in L!Cycle
         /\ run.pc \in {"idle", "acquire", "leave", "page", "drain", "done", "truncated", "halted"}
BY DEF RunType, L!Idle, L!Cycle, L!InCycle

(* A run that starts, or has ended a lane, either leaves or begins the   *)
(* cycle of a lane with the state it stored last.                        *)
LEMMA TurnType ==
  ASSUME run.pre \in L!State, NEW lane \in {"start"} \cup LaneName, NEW s \in L!State
  PROVE  LET t == L!Turn(lane, s) IN
         /\ t \in [pc : {"leave"}, out : L!State] \/ t \in L!Cycle
         /\ t.pc \in {"leave", "page"}
         /\ t.pc = "page" => t.state = s
<1>1. L!LaneAfter(lane, s) \in LaneName \cup {"none"}
  BY DEF L!LaneAfter, LaneName
<1> QED
  BY <1>1 DEF L!Turn, L!Cycle, LaneName

(* A cursor moves by one item, inside what exists.                         *)
LEMMA AdvanceType ==
  ASSUME L!LanesParameters, head \in 0..Feed, NEW c \in 0..Feed
  PROVE  /\ L!Advance(c) \in 0..Feed /\ c <= L!Advance(c)
         /\ c <= head => L!Advance(c) <= head
BY DEF L!LanesParameters, L!Advance

(* Storing a page moves the cursor of the cycle's lane and nothing else  *)
(* of the lanes (persist in runner.ts).                                  *)
LEMMA PersistLaneType ==
  ASSUME L!LanesParameters, head \in 0..Feed, NEW lane \in LaneName, NEW l \in L!Lanes
  PROVE  LET n == L!PersistLane(lane, l) IN
         /\ n \in L!Lanes
         /\ n.live = IF lane = "live" THEN L!Advance(l.live) ELSE l.live
         /\ n.backfill.cursor = IF lane = "backfill" THEN L!Advance(l.backfill.cursor)
                                ELSE l.backfill.cursor
         /\ n.backfill.from = l.backfill.from /\ n.backfill.target = l.backfill.target
         /\ n.backfill.status = l.backfill.status
<1> DEFINE n == L!PersistLane(lane, l)
<1>0. /\ l.live \in 0..Feed /\ l.backfill.cursor \in 0..Feed
      /\ l.backfill \in [from : 0..Feed, cursor : 0..Feed, target : 1..L!Open,
                         status : {"none", "active", "done", "halted"}]
  BY DEF L!Lanes
<1>1. L!Advance(l.live) \in 0..Feed /\ L!Advance(l.backfill.cursor) \in 0..Feed
  BY <1>0, AdvanceType
<1>2. CASE lane = "live"
  <2>1. n = [l EXCEPT !.live = L!Advance(l.live)]
    BY <1>2 DEF L!PersistLane
  <2> HIDE DEF n
  <2>2. n \in L!Lanes /\ n.live = L!Advance(l.live) /\ n.backfill = l.backfill
    BY <1>1, <2>1 DEF L!Lanes
  <2> QED
    BY <1>2, <2>2 DEF n
<1>3. CASE lane = "reconcile"
  <2>1. n = l
    BY <1>3 DEF L!PersistLane
  <2> QED
    BY <1>3, <2>1
<1>4. CASE lane = "backfill"
  <2> DEFINE b == [l.backfill EXCEPT !.cursor = L!Advance(l.backfill.cursor)]
  <2>1. n = [l EXCEPT !.backfill = b]
    BY <1>4 DEF L!PersistLane
  <2>2. /\ b \in [from : 0..Feed, cursor : 0..Feed, target : 1..L!Open,
                  status : {"none", "active", "done", "halted"}]
        /\ b.cursor = L!Advance(l.backfill.cursor) /\ b.from = l.backfill.from
        /\ b.target = l.backfill.target /\ b.status = l.backfill.status
    BY <1>0, <1>1
  <2> HIDE DEF b, n
  <2>3. n \in L!Lanes /\ n.live = l.live /\ n.backfill = b
    BY <2>1, <2>2 DEF L!Lanes
  <2> QED
    BY <1>4, <2>2, <2>3 DEF n
<1> QED
  BY <1>2, <1>3, <1>4 DEF LaneName

(* The end of a cycle moves no cursor; it may only set the status of the *)
(* backfill.                                                             *)
LEMMA LaneFinalType ==
  ASSUME NEW lane \in LaneName, NEW l \in L!Lanes, NEW ended \in {"done", "truncated", "halted"}
  PROVE  LET n == L!LaneFinal(lane, l, ended) IN
         /\ n \in L!Lanes
         /\ n.live = l.live
         /\ n.backfill.cursor = l.backfill.cursor
         /\ n.backfill.from = l.backfill.from /\ n.backfill.target = l.backfill.target
         /\ n.backfill.status = l.backfill.status \/ (lane = "backfill" /\ n.backfill.status = ended)
<1> DEFINE n == L!LaneFinal(lane, l, ended)
<1>0. l.backfill \in [from : 0..Feed, cursor : 0..Feed, target : 1..L!Open,
                      status : {"none", "active", "done", "halted"}]
  BY DEF L!Lanes
<1>1. CASE ended = "truncated" \/ lane = "live"
  <2>1. n = l
    BY <1>1 DEF L!LaneFinal
  <2> QED
    BY <2>1
<1>2. CASE ended # "truncated" /\ lane = "reconcile"
  <2>1. n = [l EXCEPT !.reconcile = "recent"]
    BY <1>2 DEF L!LaneFinal
  <2> HIDE DEF n
  <2>2. n \in L!Lanes /\ n.live = l.live /\ n.backfill = l.backfill
    BY <2>1 DEF L!Lanes
  <2> QED
    BY <2>2 DEF n
<1>3. CASE ended # "truncated" /\ lane = "backfill"
  <2> DEFINE b == [l.backfill EXCEPT !.status = ended]
  <2>1. n = [l EXCEPT !.backfill = b]
    BY <1>3 DEF L!LaneFinal
  <2>2. /\ b \in [from : 0..Feed, cursor : 0..Feed, target : 1..L!Open,
                  status : {"none", "active", "done", "halted"}]
        /\ b.cursor = l.backfill.cursor /\ b.from = l.backfill.from
        /\ b.target = l.backfill.target /\ b.status = ended
    BY <1>0, <1>3
  <2> HIDE DEF b, n
  <2>3. n \in L!Lanes /\ n.live = l.live /\ n.backfill = b
    BY <2>1, <2>2 DEF L!Lanes
  <2> QED
    BY <1>3, <2>2, <2>3 DEF n
<1> QED
  BY <1>1, <1>2, <1>3 DEF LaneName

-----------------------------------------------------------------------------
(* What the invariant says, for the proofs below: the types of head,       *)
(* stored, run and op.                                                     *)
LEMMA LaneTypes ==
  ASSUME L!LanesParameters, L!TypeOK
  PROVE  /\ head \in 0..Feed /\ stored \in L!State /\ RunType
         /\ stored.lanes \in L!Lanes /\ stored.schedule \in {"due", "later"}
         /\ op = L!NoOp \/ op \in OpType
         /\ op = L!NoOp <=> op.kind = "none"
         /\ L!Open = Feed + 1 /\ Feed \in Nat
BY DEF L!LanesParameters, L!TypeOK, RunType, OpType, L!State, L!Open, L!NoOp

(* The fields of a run inside a cycle.                                   *)
LEMMA CycleTypes ==
  ASSUME run \in L!Cycle
  PROVE  /\ run.state \in L!State /\ run.state.lanes \in L!Lanes /\ run.pre \in L!State
         /\ run.state.schedule \in {"due", "later"} /\ run.lane \in LaneName /\ run.pages \in Nat
BY DEF L!Cycle, L!State, LaneName

(* The counter of mishaps stays in its bound.                            *)
LEMMA MishapType ==
  ASSUME L!LanesParameters, L!TypeOK, L!Mishap
  PROVE  mishaps' \in 0..MaxMishaps
BY DEF L!LanesParameters, L!TypeOK, L!Mishap

(* The next-state relation without the steps of the run.                   *)
LEMMA RunTypeStep ==
  ASSUME L!LanesParameters, L!TypeOK, L!Next
  PROVE  RunType'
<1> USE LaneTypes, RunShape
<1>1. CASE \E waits \in BOOLEAN : L!Check(waits)
  BY <1>1 DEF L!Check, RunType
<1>2. CASE L!Acquire
  <2>1. run.pre \in L!State /\ run' = L!Turn("start", stored)
    BY <1>2 DEF L!Acquire
  <2> QED
    BY <2>1, TurnType DEF RunType
<1>3. CASE L!Page
  <2> DEFINE n == L!PersistLane(run.lane, run.state.lanes)
             s == [run.state EXCEPT !.lanes = n]
  <2>1. run \in L!Cycle /\ run' = [run EXCEPT !.pc = "drain", !.state = s, !.pages = @ + 1]
    BY <1>3 DEF L!Page, L!InCycle
  <2>2. n \in L!Lanes
    BY <2>1, CycleTypes, PersistLaneType
  <2>3. run.state \in L!State
    BY <2>1, CycleTypes
  <2> HIDE DEF n
  <2>4. s \in L!State
    BY <2>2, <2>3 DEF L!State
  <2> HIDE DEF s
  <2>5. run' \in L!Cycle
    <3> DEFINE pages == run.pages + 1
    <3>1. pages \in Nat
      BY <2>1, CycleTypes
    <3>2. run' = [run EXCEPT !.pc = "drain", !.state = s, !.pages = pages]
      BY <2>1
    <3> HIDE DEF pages
    <3> QED
      BY <2>1, <2>4, <3>1, <3>2 DEF L!Cycle
  <2> QED
    BY <2>5 DEF RunType
<1>4. CASE L!Drain \/ L!Deadline
  <2>1. run \in L!Cycle /\ \E c \in {"done", "truncated", "page"} : run' = [run EXCEPT !.pc = c]
    BY <1>4 DEF L!Drain, L!Deadline, L!InCycle
  <2>2. run' \in L!Cycle
    BY <2>1 DEF L!Cycle
  <2> QED
    BY <2>2 DEF RunType
<1>5. CASE L!Save
  <2> DEFINE n == L!LaneFinal(run.lane, run.state.lanes, run.pc)
  <2>1. run \in L!Cycle /\ run.pc \in {"done", "truncated", "halted"} /\ run' = L!Turn(run.lane, stored')
    BY <1>5 DEF L!Save, L!InCycle
  <2>2. n \in L!Lanes
    BY <2>1, CycleTypes, LaneFinalType
  <2>3. L!ScheduleAfter(run.lane, run.state, run.pc) \in {"due", "later"}
    BY <2>1, CycleTypes DEF L!ScheduleAfter
  <2>4. stored' = [lanes |-> n, schedule |-> L!ScheduleAfter(run.lane, run.state, run.pc)]
    BY <1>5 DEF L!Save
  <2> HIDE DEF n
  <2>5. stored' \in L!State
    BY <2>2, <2>3, <2>4 DEF L!State
  <2> QED
    BY <2>1, <2>5, CycleTypes, TurnType DEF RunType
<1>6. CASE L!Leave \/ L!Leased \/ L!Crash
  BY <1>6 DEF L!Leave, L!Leased, L!Crash, RunType
<1>7. CASE L!AcquireHalted
  <2>1. stored' \in L!State
    BY <1>7 DEF L!AcquireHalted, L!State
  <2> QED
    BY <1>7, <2>1 DEF L!AcquireHalted, RunType
<1>8. CASE L!Halt
  <2>1. run \in L!Cycle /\ run' = [run EXCEPT !.pc = "halted", !.state.schedule = "later"]
    BY <1>8 DEF L!Halt, L!InCycle
  <2>2. [run.state EXCEPT !.schedule = "later"] \in L!State
    BY <2>1, CycleTypes DEF L!State
  <2>3. run' \in L!Cycle
    BY <2>1, <2>2 DEF L!Cycle
  <2> QED
    BY <2>3 DEF RunType
<1>9. CASE L!Abort
  <2>1. run \in L!Cycle /\ run' = [pc |-> "leave", out |-> run.pre]
    BY <1>9 DEF L!Abort, L!InCycle
  <2> QED
    BY <2>1, CycleTypes DEF RunType
<1>10. CASE L!Fail
  <2> DEFINE schedule == IF run.lane = "live" THEN "later" ELSE run.state.schedule
             s == [run.state EXCEPT !.schedule = schedule]
  <2>1. run \in L!Cycle /\ run' = L!Turn(run.lane, s)
    BY <1>10 DEF L!Fail, L!InCycle
  <2>2. s \in L!State
    BY <2>1, CycleTypes DEF L!State
  <2> HIDE DEF s
  <2> QED
    BY <2>1, <2>2, CycleTypes, TurnType DEF RunType
<1>11. CASE L!Ticking \/ L!Publish \/ L!Calling
  BY <1>11 DEF L!Ticking, L!Clock, L!Publish, L!Calling, L!Trigger, L!Backfill, L!ResetCursor,
     L!Write, RunType
<1>12. ASSUME NEW kind, NEW from, NEW target, L!Load(kind, from, target)
       PROVE  RunType'
  BY <1>12 DEF L!Load, RunType
<1> QED
  BY <1>1, <1>2, <1>3, <1>4, <1>5, <1>6, <1>7, <1>8, <1>9, <1>10, <1>11, <1>12 DEF L!Next,
     L!Running

(* What each step makes of the stored lanes: nothing, or it writes one of  *)
(* the copies.                                                             *)
Writes ==
  \/ stored'.lanes = stored.lanes
  \/ L!Page /\ stored'.lanes = L!PersistLane(run.lane, run.state.lanes)
  \/ L!Save /\ stored'.lanes = L!LaneFinal(run.lane, run.state.lanes, run.pc)
  \/ L!Ticking /\ stored'.lanes = [stored.lanes EXCEPT !.reconcile = "due"]
  \/ /\ op.kind = "backfill"
     /\ \E here \in BOOLEAN : L!Backfill(here)
     /\ stored'.lanes = [op.lanes EXCEPT !.backfill = [from |-> op.from, cursor |-> op.from,
                                             target |-> L!TargetOf(op), status |-> "active"]]
  \/ /\ op.kind = "reset"
     /\ \E here \in BOOLEAN : L!ResetCursor(here)
     /\ stored'.lanes = [op.lanes EXCEPT !.live = op.from]

(* Every step writes the stored state in one of the ways of Writes: no   *)
(* other.                                                                *)
LEMMA StoredStep ==
  ASSUME L!LanesParameters, L!TypeOK, L!Next
  PROVE  Writes /\ stored' = [lanes |-> stored'.lanes, schedule |-> stored'.schedule]
         /\ stored'.schedule \in {"due", "later"}
<1> USE LaneTypes, RunShape DEF Writes
<1>0. stored = [lanes |-> stored.lanes, schedule |-> stored.schedule]
  BY DEF L!State
<1>1. CASE L!Page
  <2>1. /\ run \in L!Cycle
        /\ stored' = [run.state EXCEPT !.lanes = L!PersistLane(run.lane, run.state.lanes)]
    BY <1>1 DEF L!Page, L!InCycle
  <2>2. run.state \in L!State
    BY <2>1, CycleTypes
  <2>3. /\ stored'.lanes = L!PersistLane(run.lane, run.state.lanes)
        /\ stored'.schedule = run.state.schedule
        /\ stored' = [lanes |-> stored'.lanes, schedule |-> stored'.schedule]
    BY <2>1, <2>2 DEF L!State
  <2> QED
    BY <1>1, <2>1, <2>3, CycleTypes
<1>2. CASE L!Save
  <2>1. /\ run \in L!Cycle
        /\ stored' = [lanes |-> L!LaneFinal(run.lane, run.state.lanes, run.pc),
                      schedule |-> L!ScheduleAfter(run.lane, run.state, run.pc)]
    BY <1>2 DEF L!Save, L!InCycle
  <2>2. L!ScheduleAfter(run.lane, run.state, run.pc) \in {"due", "later"}
    BY <2>1, CycleTypes DEF L!ScheduleAfter
  <2> QED
    BY <1>2, <2>1, <2>2
<1>3. CASE L!AcquireHalted \/ L!Halt
  <2>1. stored' = [stored EXCEPT !.schedule = "later"]
    BY <1>3 DEF L!AcquireHalted, L!Halt
  <2> QED
    BY <1>0, <2>1
<1>4. CASE L!Fail
  <2>1. run \in L!Cycle /\ \E x \in {"later", run.state.schedule} : stored' = [stored EXCEPT !.schedule = x]
    BY <1>4 DEF L!Fail, L!InCycle
  <2> QED
    BY <1>0, <2>1, CycleTypes
<1>5. CASE L!Ticking
  <2>1. PICK due \in BOOLEAN : L!Clock(due)
    BY <1>5 DEF L!Ticking
  <2>2. stored' = [stored EXCEPT !.schedule = "due",
                      !.lanes.reconcile = IF due THEN "due" ELSE stored.lanes.reconcile]
    BY <2>1 DEF L!Clock
  <2>3. /\ stored'.schedule = "due"
        /\ stored' = [lanes |-> stored'.lanes, schedule |-> stored'.schedule]
        /\ stored'.lanes = [stored.lanes EXCEPT !.reconcile = IF due THEN "due" ELSE stored.lanes.reconcile]
    BY <1>0, <2>2
  <2>4. [stored.lanes EXCEPT !.reconcile = stored.lanes.reconcile] = stored.lanes
    BY DEF L!Lanes
  <2> QED
    BY <1>5, <2>3, <2>4
<1>6. CASE L!Calling
  <2>1. PICK here \in BOOLEAN : L!Trigger(here) \/ L!Backfill(here) \/ L!ResetCursor(here)
    BY <1>6 DEF L!Calling
  <2>2. CASE L!Trigger(here)
    <3>1. stored' = [stored EXCEPT !.schedule = "due"]
      BY <2>2 DEF L!Trigger
    <3> QED
      BY <1>0, <3>1
  <2>3. CASE L!Backfill(here)
    <3> DEFINE n == [op.lanes EXCEPT !.backfill = [from |-> op.from, cursor |-> op.from,
                                             target |-> L!TargetOf(op), status |-> "active"]]
    <3>1. op.kind = "backfill" /\ stored' = [stored EXCEPT !.lanes = n]
      BY <2>3 DEF L!Backfill
    <3>2. stored'.lanes = n
      <4> HIDE DEF n
      <4> QED BY <1>0, <3>1
    <3>3. stored'.schedule = stored.schedule
          /\ stored' = [lanes |-> stored'.lanes, schedule |-> stored'.schedule]
      <4> HIDE DEF n
      <4> QED BY <1>0, <3>1
    <3> QED
      BY <2>3, <3>1, <3>2, <3>3
  <2>4. CASE L!ResetCursor(here)
    <3>1. op.kind = "reset"
          /\ stored' = [lanes |-> [op.lanes EXCEPT !.live = op.from], schedule |-> "due"]
      BY <2>4 DEF L!ResetCursor
    <3> QED
      BY <2>4, <3>1
  <2> QED
    BY <2>1, <2>2, <2>3, <2>4
<1>7. ASSUME UNCHANGED stored
      PROVE  stored'.lanes = stored.lanes /\ stored' = [lanes |-> stored'.lanes, schedule |-> stored'.schedule]
             /\ stored'.schedule \in {"due", "later"}
  BY <1>0, <1>7
<1>8. CASE \/ \E waits \in BOOLEAN : L!Check(waits)
           \/ L!Acquire \/ L!Drain \/ L!Leave \/ L!Leased \/ L!Deadline \/ L!Abort \/ L!Crash \/ L!Publish
  <2>1. UNCHANGED stored
    BY <1>8 DEF L!Check, L!Acquire, L!Drain, L!Leave, L!Leased, L!Deadline, L!Abort, L!Crash,
       L!Publish
  <2> QED
    BY <1>7, <2>1
<1>9. ASSUME NEW kind, NEW from, NEW target, L!Load(kind, from, target)
      PROVE  UNCHANGED stored
  BY <1>9 DEF L!Load
<1> QED
  BY <1>1, <1>2, <1>3, <1>4, <1>5, <1>6, <1>7, <1>8, <1>9 DEF L!Next, L!Running

(* What remains of the types.                                              *)
LEMMA TargetType ==
  ASSUME L!LanesParameters, op \in OpType
  PROVE  L!TargetOf(op) \in 1..L!Open
<1>1. op.target \in 0..L!Open /\ op.lanes.live \in 0..Feed
  BY DEF OpType, L!Lanes
<1>2. L!Open = Feed + 1 /\ Feed \in Nat
  BY DEF L!Open, L!LanesParameters
<1> QED
  BY <1>1, <1>2 DEF L!TargetOf

(* The stored state keeps its type.                                      *)
LEMMA StoredType ==
  ASSUME L!LanesParameters, L!TypeOK, L!Next
  PROVE  stored' \in L!State /\ stored'.lanes \in L!Lanes
<1> USE LaneTypes, RunShape
<1>1. CASE stored'.lanes = stored.lanes
  BY <1>1, StoredStep DEF L!State
<1>2. CASE L!Page /\ stored'.lanes = L!PersistLane(run.lane, run.state.lanes)
  <2>1. run \in L!Cycle
    BY <1>2 DEF L!Page, L!InCycle
  <2>2. stored'.lanes \in L!Lanes
    BY <1>2, <2>1, CycleTypes, PersistLaneType
  <2> QED
    BY <2>2, StoredStep DEF L!State
<1>3. CASE L!Save /\ stored'.lanes = L!LaneFinal(run.lane, run.state.lanes, run.pc)
  <2>1. run \in L!Cycle /\ run.pc \in {"done", "truncated", "halted"}
    BY <1>3 DEF L!Save, L!InCycle
  <2>2. stored'.lanes \in L!Lanes
    BY <1>3, <2>1, CycleTypes, LaneFinalType
  <2> QED
    BY <2>2, StoredStep DEF L!State
<1>4. CASE stored'.lanes = [stored.lanes EXCEPT !.reconcile = "due"]
  <2>1. stored'.lanes \in L!Lanes
    BY <1>4 DEF L!Lanes
  <2> QED
    BY <2>1, StoredStep DEF L!State
<1>5. CASE /\ op.kind = "backfill"
           /\ stored'.lanes = [op.lanes EXCEPT !.backfill = [from |-> op.from, cursor |-> op.from,
                                             target |-> L!TargetOf(op), status |-> "active"]]
  <2>1. op \in OpType
    BY <1>5 DEF L!NoOp
  <2>2. L!TargetOf(op) \in 1..L!Open /\ op.from \in 0..Feed /\ op.lanes \in L!Lanes
    BY <2>1, TargetType DEF OpType
  <2>3. stored'.lanes \in L!Lanes
    BY <1>5, <2>2 DEF L!Lanes
  <2> QED
    BY <2>3, StoredStep DEF L!State
<1>6. CASE op.kind = "reset" /\ stored'.lanes = [op.lanes EXCEPT !.live = op.from]
  <2>1. op \in OpType
    BY <1>6 DEF L!NoOp
  <2>2. op.from \in 0..Feed /\ op.lanes \in L!Lanes
    BY <2>1 DEF OpType
  <2>3. stored'.lanes \in L!Lanes
    BY <1>6, <2>2 DEF L!Lanes
  <2> QED
    BY <2>3, StoredStep DEF L!State
<1> QED
  BY <1>1, <1>2, <1>3, <1>4, <1>5, <1>6, StoredStep DEF Writes

(* Only a publication moves the head.                                      *)
LEMMA HeadStep ==
  ASSUME L!Next
  PROVE  head' = head \/ L!Publish
BY DEF L!Next, L!Running, L!Check, L!Acquire, L!Page, L!Drain, L!Save, L!Leave, L!Leased,
   L!AcquireHalted,
       L!Deadline, L!Halt, L!Abort, L!Crash, L!Fail, L!Ticking, L!Clock, L!Load, L!Calling,
       L!Trigger,
       L!Backfill, L!ResetCursor, L!Write, L!history

(* The variables of Lanes keep their types.                              *)
LEMMA LanesTypeStep ==
  ASSUME L!LanesParameters, L!TypeOK, L!Next
  PROVE  L!TypeOK'
<1> USE LaneTypes, RunShape
<1>1. RunType' /\ stored' \in L!State
  BY RunTypeStep, StoredType
<1>2. head' \in 0..Feed /\ laneDue' \in {"due", "later"}
  <2>1. laneDue' = laneDue \/ laneDue' = "due" \/ laneDue' = "later"
    <3>1. CASE L!Leave \/ L!Crash \/ L!Leased \/ L!Ticking
      BY <3>1 DEF L!Leave, L!Crash, L!Leased, L!Ticking, L!Clock, L!NextDueFromState
    <3>2. CASE L!Calling
      BY <3>2 DEF L!Calling, L!Trigger, L!Backfill, L!ResetCursor, L!Write
    <3>3. CASE ~(L!Leave \/ L!Crash \/ L!Leased \/ L!Ticking) /\ ~L!Calling
      BY <3>3 DEF L!Next, L!Running, L!Check, L!Acquire, L!Page, L!Drain, L!Save, L!AcquireHalted,
                  L!Deadline, L!Halt, L!Abort, L!Fail, L!Publish, L!Load, L!history
    <3> QED
      BY <3>1, <3>2, <3>3
  <2>2. head' = head \/ L!Publish
    BY Zenon, HeadStep
  <2>3. CASE L!Publish
    BY <2>3 DEF L!Publish, L!LanesParameters, L!TypeOK
  <2> QED
    BY <2>1, <2>2, <2>3 DEF L!TypeOK
<1>3. op' = L!NoOp \/ op' \in OpType
  <2>1. ASSUME NEW kind \in {"trigger", "backfill", "reset"}, NEW from \in 0..head,
               NEW target \in 0..head \cup {L!Open}, L!Load(kind, from, target)
        PROVE  op' \in OpType
    <3>1. from \in 0..Feed /\ target \in 0..L!Open
      OBVIOUS
    <3> QED
      BY <2>1, <3>1 DEF L!Load, OpType
  <2>2. CASE L!Calling
    BY <2>2 DEF L!Calling, L!Trigger, L!Backfill, L!ResetCursor, L!Write
  <2>3. CASE L!Running \/ L!Leased \/ L!AcquireHalted \/ L!Deadline \/ L!Halt \/ L!Abort \/ L!Crash \/ L!Fail
             \/ L!Ticking \/ L!Publish
    <3>1. op' = op
      BY <2>3 DEF L!Running, L!Check, L!Acquire, L!Page, L!Drain, L!Save, L!Leave, L!Leased,
         L!AcquireHalted,
                  L!Deadline, L!Halt, L!Abort, L!Crash, L!Fail, L!Ticking, L!Clock, L!Publish
    <3> QED
      BY <3>1
  <2>4. 0 \in 0..head
    OBVIOUS
  <2> QED
    BY <2>1, <2>2, <2>3, <2>4 DEF L!Next
<1>4. ops' \in 0..MaxOps /\ mishaps' \in 0..MaxMishaps
  <2>1. CASE L!Running \/ L!Ticking \/ L!Publish \/ L!Calling
    BY <2>1 DEF L!TypeOK, L!Running, L!Check, L!Acquire, L!Page, L!Drain, L!Save, L!Leave,
       L!Ticking, L!Clock, L!Publish, L!Calling,
                L!Trigger, L!Backfill, L!ResetCursor, L!Write
  <2>2. CASE L!Leased \/ L!AcquireHalted \/ L!Deadline \/ L!Halt \/ L!Abort \/ L!Crash \/ L!Fail
    BY <2>2, MishapType DEF L!TypeOK, L!Leased, L!AcquireHalted, L!Deadline, L!Halt, L!Abort,
       L!Crash, L!Fail
  <2>3. ASSUME NEW kind, NEW from, NEW target, L!Load(kind, from, target)
        PROVE  ops' \in 0..MaxOps /\ mishaps' \in 0..MaxMishaps
    BY <2>3 DEF L!TypeOK, L!Load, L!LanesParameters
  <2> QED
    BY <2>1, <2>2, <2>3 DEF L!Next
<1>5. committed' \subseteq L!Item /\ seen' \subseteq L!Item
  <2>1. CASE L!Page
    <3> DEFINE n == L!PersistLane(run.lane, run.state.lanes)
    <3>1. run \in L!Cycle
      BY <2>1 DEF L!Page, L!InCycle
    <3>2. n \in L!Lanes
      BY <3>1, CycleTypes, PersistLaneType
    <3>3. 1..n.live \subseteq L!Item /\ 1..n.backfill.cursor \subseteq L!Item
      BY <3>2 DEF L!Lanes, L!Item
    <3>4. committed' \subseteq committed \cup 1..n.live /\ seen' \subseteq seen \cup 1..n.backfill.cursor
      BY <2>1 DEF L!Page
    <3> QED
      BY <3>3, <3>4 DEF L!TypeOK
  <2>2. CASE ~L!Page
    <3>1. UNCHANGED <<committed, seen>>
      BY <2>2 DEF L!Next, L!Running, L!Check, L!Acquire, L!Drain, L!Save, L!Leave, L!Leased,
         L!AcquireHalted,
         L!Deadline, L!Halt, L!Abort, L!Crash, L!Fail, L!Ticking, L!Clock, L!Publish, L!Load,
         L!Calling, L!Trigger,
         L!Backfill, L!ResetCursor, L!Write, L!history
    <3> QED
      BY <3>1 DEF L!TypeOK
  <2> QED
    BY <2>1, <2>2
<1>6. wanted' \subseteq L!Item
  <2>1. \/ wanted' \subseteq wanted
        \/ wanted' = {p \in L!Item : op.from < p /\ p <= head /\ p <= L!TargetOf(op)}
    BY DEF L!Next, L!Running, L!Check, L!Acquire, L!Page, L!Drain, L!Save, L!Leave, L!Leased,
       L!AcquireHalted,
         L!Deadline, L!Halt, L!Abort, L!Crash, L!Fail, L!Ticking, L!Clock, L!Publish, L!Load,
         L!Calling, L!Trigger,
         L!Backfill, L!ResetCursor, L!Write, L!history
  <2> QED
    BY <2>1 DEF L!TypeOK
<1>7. skipTo' \in 0..Feed
  <2>1. CASE \E here \in BOOLEAN : L!ResetCursor(here)
    <3>1. op \in OpType /\ skipTo' \in {op.from, skipTo}
      BY <2>1 DEF L!ResetCursor, L!NoOp
    <3> QED
      BY <3>1 DEF L!TypeOK, OpType
  <2>2. CASE ~\E here \in BOOLEAN : L!ResetCursor(here)
    <3>1. skipTo' = skipTo
      BY <2>2 DEF L!Next, L!Running, L!Check, L!Acquire, L!Page, L!Drain, L!Save, L!Leave,
         L!Leased, L!AcquireHalted,
         L!Deadline, L!Halt, L!Abort, L!Crash, L!Fail, L!Ticking, L!Clock, L!Publish, L!Load,
         L!Calling, L!Trigger,
         L!Backfill, L!Write, L!history
    <3> QED
      BY <3>1 DEF L!TypeOK
  <2> QED
    BY <2>1, <2>2
<1>8. quiet' \in BOOLEAN
  <2>1. \/ quiet' = quiet \/ quiet' = FALSE \/ \E b \in BOOLEAN : quiet' = (quiet \/ b)
    BY Zenon DEF L!Next, L!Running, L!Check, L!Acquire, L!Page, L!Drain, L!Save, L!Leave,
       L!Leased, L!AcquireHalted,
         L!Deadline, L!Halt, L!Abort, L!Crash, L!Fail, L!Ticking, L!Clock, L!Publish, L!Load,
         L!Calling, L!Trigger,
         L!Backfill, L!ResetCursor, L!Write, L!history
  <2> QED
    BY <2>1, Zenon DEF L!TypeOK
<1> QED
  BY <1>1, <1>2, <1>3, <1>4, <1>5, <1>6, <1>7, <1>8 DEF L!TypeOK, RunType, OpType

-----------------------------------------------------------------------------
(* What a copy says stays true while it is kept.                           *)
LEMMA CopyKept ==
  ASSUME L!LanesParameters, head \in 0..Feed, head' \in 0..Feed, head <= head',
         committed \subseteq committed', seen \subseteq seen',
         skipTo \in 0..Feed, skipTo' \in 0..Feed, skipTo <= skipTo',
         NEW l \in L!Lanes, L!CopySound(l)
  PROVE  L!CopySound(l)'
<1>1. /\ l.live \in 0..Feed /\ l.backfill.cursor \in 0..Feed /\ l.backfill.target \in 1..L!Open
      /\ L!Open = Feed + 1 /\ Feed \in Nat
  BY DEF L!Lanes, L!Open, L!LanesParameters
<1> QED
  BY <1>1 DEF L!CopySound, L!Finished

(* The histories grow.                                                     *)
LEMMA HistoryGrows ==
  ASSUME L!LanesParameters, L!TypeOK, L!Next
  PROVE  head <= head' /\ committed \subseteq committed' /\ seen \subseteq seen' /\ skipTo <= skipTo'
<1>1. head \in Int /\ skipTo \in Int
  BY DEF L!TypeOK
<1>2. head <= head'
  BY <1>1, HeadStep DEF L!Publish
<1>4. committed \subseteq committed' /\ seen \subseteq seen'
  <2>1. CASE L!Page
    BY <2>1 DEF L!Page
  <2>2. CASE ~L!Page
    <3>1. UNCHANGED <<committed, seen>>
      BY <2>2 DEF L!Next, L!Running, L!Check, L!Acquire, L!Drain, L!Save, L!Leave, L!Leased,
         L!AcquireHalted,
         L!Deadline, L!Halt, L!Abort, L!Crash, L!Fail, L!Ticking, L!Clock, L!Publish, L!Load,
         L!Calling, L!Trigger,
         L!Backfill, L!ResetCursor, L!Write, L!history
    <3> QED
      BY <3>1
  <2> QED
    BY <2>1, <2>2
<1>3. skipTo <= skipTo'
  <2>1. CASE \E here \in BOOLEAN : L!ResetCursor(here)
    <3>1. op \in OpType /\ skipTo' = IF op.from > skipTo THEN op.from ELSE skipTo
      BY <2>1, LaneTypes DEF L!ResetCursor, L!NoOp
    <3>2. op.from \in Int
      BY <3>1 DEF OpType
    <3> QED
      BY <1>1, <3>1, <3>2
  <2>2. CASE ~\E here \in BOOLEAN : L!ResetCursor(here)
    <3>1. skipTo' = skipTo
      BY <2>2 DEF L!Next, L!Running, L!Check, L!Acquire, L!Page, L!Drain, L!Save, L!Leave,
         L!Leased, L!AcquireHalted,
         L!Deadline, L!Halt, L!Abort, L!Crash, L!Fail, L!Ticking, L!Clock, L!Publish, L!Load,
         L!Calling, L!Trigger,
         L!Backfill, L!Write, L!history
    <3> QED
      BY <1>1, <3>1
  <2> QED
    BY <2>1, <2>2
<1> QED
  BY <1>2, <1>3, <1>4
(* A page only claims what it commits: the copy it writes is sound.        *)
LEMMA PageSound ==
  ASSUME L!LanesParameters, L!TypeOK, L!CopiesSound, L!Page, L!TypeOK'
  PROVE  L!CopySound(stored.lanes)'
<1> USE LaneTypes, RunShape
<1> DEFINE l == run.state.lanes
           m == L!PersistLane(run.lane, run.state.lanes)
<1>1. /\ run \in L!Cycle /\ L!InCycle /\ run.pc = "page" /\ run.lane \in LaneName
      /\ l \in L!Lanes /\ run.state \in L!State
      /\ stored' = [run.state EXCEPT !.lanes = m]
      /\ UNCHANGED <<head, skipTo>>
      /\ committed' = committed \cup IF run.lane = "live" THEN 1..m.live \ 1..l.live ELSE {}
      /\ seen' = seen \cup IF run.lane = "backfill"
                           THEN 1..m.backfill.cursor \ 1..l.backfill.cursor ELSE {}
  BY CycleTypes DEF L!Page, L!InCycle
<1>2. L!CopySound(l)
  BY <1>1 DEF L!CopiesSound
<1>3. /\ l.live \in 0..Feed /\ l.backfill.cursor \in 0..Feed /\ l.backfill.from \in 0..Feed
      /\ l.backfill.target \in 1..L!Open /\ L!Open = Feed + 1 /\ Feed \in Nat
      /\ head \in 0..Feed
  BY <1>1 DEF L!Lanes
<1>4. /\ m.live = IF run.lane = "live" THEN L!Advance(l.live) ELSE l.live
      /\ m.backfill.cursor = IF run.lane = "backfill" THEN L!Advance(l.backfill.cursor)
                             ELSE l.backfill.cursor
      /\ m.backfill.from = l.backfill.from /\ m.backfill.target = l.backfill.target
      /\ m.backfill.status = l.backfill.status
  BY <1>1, PersistLaneType
<1>5. stored'.lanes = m
  BY <1>1 DEF L!State
<1>6. /\ m.live \in 0..Feed /\ l.live <= m.live /\ m.live <= head
      /\ m.backfill.cursor \in 0..Feed /\ l.backfill.cursor <= m.backfill.cursor
      /\ m.backfill.cursor <= head
  BY <1>2, <1>3, <1>4, AdvanceType DEF L!CopySound
<1> HIDE DEF l, m
<1>7. \A p \in 1..m.live : p \in committed' \/ p <= skipTo'
  <2>1. CASE run.lane = "live"
    BY <1>1, <1>2, <1>3, <1>6, <2>1 DEF L!CopySound
  <2>2. CASE run.lane # "live"
    BY <1>1, <1>2, <1>3, <1>4, <2>2 DEF L!CopySound
  <2> QED
    BY <2>1, <2>2
<1>8. \A p \in L!Item : m.backfill.from < p /\ p <= m.backfill.cursor => p \in seen'
  <2>1. CASE run.lane = "backfill"
    BY <1>1, <1>2, <1>3, <1>4, <1>6, <2>1 DEF L!CopySound, L!Item
  <2>2. CASE run.lane # "backfill"
    BY <1>1, <1>2, <1>3, <1>4, <2>2 DEF L!CopySound, L!Item
  <2> QED
    BY <2>1, <2>2
<1>9. /\ m.backfill.target <= head \/ m.backfill.target = L!Open
      /\ m.backfill.status = "done" => L!Finished(m)
  BY <1>2, <1>3, <1>4, <1>6 DEF L!CopySound, L!Finished
<1> QED
  BY <1>1, <1>5, <1>6, <1>7, <1>8, <1>9 DEF L!CopySound, L!Finished
(* The end of a cycle marks a backfill as done only when it is.            *)
LEMMA SaveSound ==
  ASSUME L!LanesParameters, L!TypeOK, L!CopiesSound, L!Save, L!TypeOK'
  PROVE  L!CopySound(stored.lanes)'
<1> USE LaneTypes, RunShape
<1> DEFINE l == run.state.lanes
           m == L!LaneFinal(run.lane, run.state.lanes, run.pc)
<1>1. /\ run \in L!Cycle /\ L!InCycle /\ run.pc \in {"done", "truncated", "halted"}
      /\ run.lane \in LaneName /\ l \in L!Lanes
      /\ stored'.lanes = m
      /\ UNCHANGED <<head, skipTo, committed, seen>>
  BY CycleTypes DEF L!Save, L!InCycle, L!history
<1>2. L!CopySound(l) /\ (run.pc = "done" /\ run.lane = "backfill" => L!Finished(l))
  BY <1>1 DEF L!CopiesSound
<1>3. /\ m.live = l.live /\ m.backfill.cursor = l.backfill.cursor
      /\ m.backfill.from = l.backfill.from /\ m.backfill.target = l.backfill.target
      /\ m.backfill.status = l.backfill.status
           \/ (run.lane = "backfill" /\ m.backfill.status = run.pc)
  BY <1>1, LaneFinalType
<1> HIDE DEF l, m
<1> QED
  BY <1>1, <1>2, <1>3 DEF L!CopySound, L!Finished

(* An operator's write of an old copy claims no more than the copy did:    *)
(* the new backfill starts where it is put, and the live cursor is where   *)
(* the operator moved it.                                                  *)
LEMMA CallSound ==
  ASSUME L!LanesParameters, L!TypeOK, L!CopiesSound, L!TypeOK', NEW here \in BOOLEAN,
         L!Backfill(here) \/ L!ResetCursor(here)
  PROVE  L!CopySound(stored.lanes)'
<1> USE LaneTypes
<1> DEFINE l == op.lanes
<1>1. /\ op \in OpType /\ op # L!NoOp
      /\ UNCHANGED <<head, committed, seen>>
  BY DEF L!Backfill, L!ResetCursor, L!Write, L!NoOp
<1>2. /\ L!CopySound(l) /\ op.from <= head
      /\ op.target <= head \/ op.target = L!Open
  BY <1>1 DEF L!CopiesSound
<1>3. /\ l \in L!Lanes /\ op.from \in 0..Feed /\ op.target \in 0..L!Open
      /\ l.live \in 0..Feed /\ skipTo \in 0..Feed
  BY <1>1 DEF OpType, L!Lanes, L!TypeOK
<1>4. CASE L!Backfill(here)
  <2> DEFINE b == [from |-> op.from, cursor |-> op.from, target |-> L!TargetOf(op), status |-> "active"]
  <2>1. stored' = [stored EXCEPT !.lanes = [l EXCEPT !.backfill = b]] /\ skipTo' = skipTo
    BY <1>4 DEF L!Backfill
  <2>2. L!TargetOf(op) <= head \/ L!TargetOf(op) = L!Open
    BY <1>2, <1>3 DEF L!TargetOf, L!CopySound
  <2>3. b.from = op.from /\ b.cursor = op.from /\ b.target = L!TargetOf(op) /\ b.status = "active"
    OBVIOUS
  <2> HIDE DEF b, l
  <2>4. stored'.lanes = [l EXCEPT !.backfill = b]
    BY <2>1 DEF L!State
  <2>5. stored'.lanes.live = l.live /\ stored'.lanes.backfill = b
    BY <1>3, <2>4 DEF L!Lanes
  <2> QED
    BY <1>1, <1>2, <1>3, <2>1, <2>2, <2>3, <2>5 DEF L!CopySound, L!Item
<1>5. CASE L!ResetCursor(here)
  <2>1. /\ stored' = [lanes |-> [l EXCEPT !.live = op.from], schedule |-> "due"]
        /\ skipTo' = IF op.from > skipTo THEN op.from ELSE skipTo
    BY <1>5 DEF L!ResetCursor
  <2> HIDE DEF l
  <2>2. stored'.lanes.live = op.from /\ stored'.lanes.backfill = l.backfill
    BY <1>3, <2>1 DEF L!Lanes
  <2>3. \A p \in 1..op.from : p <= skipTo'
    BY <1>3, <2>1
  <2> QED
    BY <1>1, <1>2, <2>1, <2>2, <2>3 DEF L!CopySound, L!Finished
<1> QED
  BY <1>4, <1>5

(* The stored copy stays sound.                                            *)
LEMMA StoredSound ==
  ASSUME L!LanesParameters, L!TypeOK, L!CopiesSound, L!Next, L!TypeOK'
  PROVE  L!CopySound(stored.lanes)'
<1> USE LaneTypes
<1>0. L!CopySound(stored.lanes) /\ stored.lanes \in L!Lanes
  BY DEF L!CopiesSound
<1>1. /\ head \in 0..Feed /\ head' \in 0..Feed /\ head <= head'
      /\ committed \subseteq committed' /\ seen \subseteq seen'
      /\ skipTo \in 0..Feed /\ skipTo' \in 0..Feed /\ skipTo <= skipTo'
  BY HistoryGrows DEF L!TypeOK
<1>2. PICK l \in L!Lanes : l = stored.lanes
  BY <1>0
<1>3. L!CopySound(l)'
  BY <1>0, <1>1, <1>2, CopyKept
<1>4. CASE stored'.lanes = stored.lanes
  BY <1>2, <1>3, <1>4 DEF L!CopySound, L!Finished
<1>5. CASE stored'.lanes = [stored.lanes EXCEPT !.reconcile = "due"]
  <2>1. stored'.lanes.live = l.live /\ stored'.lanes.backfill = l.backfill
    BY <1>2, <1>5 DEF L!Lanes
  <2> QED
    BY <1>3, <2>1 DEF L!CopySound, L!Finished
<1> QED
  BY <1>4, <1>5, StoredStep, PageSound, SaveSound, CallSound DEF Writes
(* The copy of the run: nothing but the lanes of a cycle under way.        *)
RunSound ==
  /\ L!InCycle => L!CopySound(run.state.lanes)
  /\ run.pc = "done" /\ run.lane = "backfill" => L!Finished(run.state.lanes)

(* The copy of the run stays sound.                                        *)
LEMMA RunCopySound ==
  ASSUME L!LanesParameters, L!TypeOK, L!CopiesSound, L!Next, L!TypeOK'
  PROVE  RunSound'
<1> USE LaneTypes, RunShape
<1>0. /\ head \in 0..Feed /\ head' \in 0..Feed /\ head <= head'
      /\ committed \subseteq committed' /\ seen \subseteq seen'
      /\ skipTo \in 0..Feed /\ skipTo' \in 0..Feed /\ skipTo <= skipTo'
  BY HistoryGrows DEF L!TypeOK
<1>1. ASSUME L!InCycle, run'.state.lanes = run.state.lanes, run'.lane = run.lane,
             run.pc = "done" \/ run'.pc # "done"
      PROVE  RunSound'
  <2>1. run \in L!Cycle /\ L!CopySound(run.state.lanes)
    BY <1>1 DEF L!CopiesSound
  <2>2. PICK l \in L!Lanes : l = run.state.lanes
    BY <2>1, CycleTypes
  <2>3. L!CopySound(l)'
    BY <1>0, <2>1, <2>2, CopyKept
  <2>4. L!CopySound(run.state.lanes)'
    BY <1>1, <2>2, <2>3 DEF L!CopySound, L!Finished
  <2>5. run'.pc = "done" /\ run'.lane = "backfill" => L!Finished(run'.state.lanes)
    BY <1>1 DEF L!CopiesSound, L!Finished
  <2> QED
    BY <2>4, <2>5 DEF RunSound, L!Finished
<1>2. ASSUME run'.pc = "page" \/ run'.pc = "drain", run'.state.lanes = stored'.lanes
      PROVE  RunSound'
  BY <1>2, StoredSound DEF RunSound, L!CopySound, L!Finished
<1>3. ASSUME run'.pc \in {"idle", "acquire", "leave"}
      PROVE  RunSound'
  BY <1>3 DEF RunSound, L!InCycle
<1>4. CASE \/ \E waits \in BOOLEAN : L!Check(waits)
           \/ L!Leave \/ L!Leased \/ L!AcquireHalted \/ L!Crash \/ L!Abort
  BY <1>3, <1>4 DEF L!Check, L!Leave, L!Leased, L!AcquireHalted, L!Crash, L!Abort, L!Idle
<1>5. CASE L!Acquire
  <2>1. run' = L!Turn("start", stored) /\ stored' = stored
    BY <1>5 DEF L!Acquire
  <2>2. run'.pc \in {"leave", "page"} /\ (run'.pc = "page" => run'.state = stored)
    BY <2>1 DEF L!Turn
  <2> QED
    BY <1>2, <1>3, <2>1, <2>2
<1>6. CASE L!Page
  <2>1. run \in L!Cycle /\ run' = [run EXCEPT !.pc = "drain", !.state = stored', !.pages = @ + 1]
    BY <1>6 DEF L!Page, L!InCycle
  <2>2. run'.pc = "drain" /\ run'.state = stored'
    BY <2>1 DEF L!Cycle
  <2> QED
    BY <1>2, <2>2
<1>7. CASE L!Drain \/ L!Deadline
  <2>1. /\ run \in L!Cycle /\ L!InCycle /\ run.pc \in {"page", "drain"}
        /\ \E c \in {"done", "truncated", "page"} :
             /\ run' = [run EXCEPT !.pc = c]
             /\ c = "done" => L!Done(run.lane, run.state.lanes)
        /\ head' = head
    BY <1>7 DEF L!Drain, L!Deadline, L!InCycle
  <2>2. /\ run'.state = run.state /\ run'.lane = run.lane
        /\ run'.pc = "done" => L!Done(run.lane, run.state.lanes)
    BY <2>1 DEF L!Cycle
  <2>3. CASE run'.pc # "done"
    BY <1>1, <2>1, <2>2, <2>3
  <2>4. CASE run'.pc = "done"
    <3>1. L!CopySound(run.state.lanes)
      BY <2>1 DEF L!CopiesSound
    <3>2. PICK l \in L!Lanes : l = run.state.lanes
      BY <2>1, CycleTypes
    <3>3. L!CopySound(l)'
      BY <1>0, <3>1, <3>2, CopyKept
    <3>4. L!CopySound(run.state.lanes)'
      BY <2>2, <3>2, <3>3 DEF L!CopySound, L!Finished
    <3>5. run.lane = "backfill" => L!Finished(l)
      <4>1. /\ l.backfill.cursor \in 0..Feed /\ l.backfill.target \in 1..L!Open /\ L!Open \in Int
        BY <3>2 DEF L!Lanes
      <4>2. run.lane = "backfill" => l.backfill.cursor = head \/ l.backfill.cursor >= l.backfill.target
        BY <2>2, <2>4, <3>2 DEF L!Done, L!Reached
      <4> QED
        BY <3>1, <3>2, <4>1, <4>2 DEF L!CopySound, L!Finished
    <3> QED
      BY <2>2, <3>2, <3>4, <3>5 DEF RunSound, L!Finished
  <2> QED
    BY <2>3, <2>4
<1>8. CASE L!Save
  <2>1. run' = L!Turn(run.lane, stored')
    BY <1>8 DEF L!Save
  <2>2. run'.pc \in {"leave", "page"} /\ (run'.pc = "page" => run'.state = stored')
    BY <2>1 DEF L!Turn
  <2> QED
    BY <1>2, <1>3, <2>2
<1>9. CASE L!Halt
  <2>1. run \in L!Cycle /\ L!InCycle /\ run' = [run EXCEPT !.pc = "halted", !.state.schedule = "later"]
    BY <1>9 DEF L!Halt, L!InCycle
  <2>2. run'.pc = "halted" /\ run'.lane = run.lane /\ run'.state = [run.state EXCEPT !.schedule = "later"]
    BY <2>1 DEF L!Cycle
  <2>3. run'.state.lanes = run.state.lanes
    BY <2>1, <2>2, CycleTypes DEF L!State
  <2> QED
    BY <1>1, <2>1, <2>2, <2>3
<1>10. CASE L!Fail
  <2> DEFINE schedule == IF run.lane = "live" THEN "later" ELSE run.state.schedule
             s == [run.state EXCEPT !.schedule = schedule]
  <2>1. run \in L!Cycle /\ L!InCycle /\ run' = L!Turn(run.lane, s)
    BY <1>10 DEF L!Fail, L!InCycle
  <2>2. run'.pc \in {"leave", "page"} /\ (run'.pc = "page" => run'.state = s)
    <3> HIDE DEF s
    <3> QED BY <2>1 DEF L!Turn
  <2>3. s.lanes = run.state.lanes
    BY <2>1, CycleTypes DEF L!State
  <2>4. CASE run'.pc = "page"
    <3>1. PICK l \in L!Lanes : l = run.state.lanes
      BY <2>1, CycleTypes
    <3>2. L!CopySound(l)
      BY <2>1, <3>1 DEF L!CopiesSound
    <3>3. L!CopySound(l)'
      BY <1>0, <3>2, CopyKept
    <3> QED
      BY <2>2, <2>3, <2>4, <3>1, <3>3 DEF RunSound, L!CopySound, L!Finished
  <2> QED
    BY <1>3, <2>2, <2>4
<1>11. ASSUME run' = run
       PROVE  RunSound'
  <2>1. CASE L!InCycle
    BY <1>1, <1>11, <2>1
  <2>2. CASE ~L!InCycle
    BY <1>3, <1>11, <2>2 DEF L!InCycle
  <2> QED
    BY <2>1, <2>2
<1>12. CASE L!Ticking \/ L!Publish \/ L!Calling
  BY <1>11, <1>12 DEF L!Ticking, L!Clock, L!Publish, L!Calling, L!Trigger, L!Backfill,
     L!ResetCursor, L!Write
<1>13. ASSUME NEW kind, NEW from, NEW target, L!Load(kind, from, target)
       PROVE  RunSound'
  BY <1>11, <1>13 DEF L!Load
<1> QED
  BY <1>4, <1>5, <1>6, <1>7, <1>8, <1>9, <1>10, <1>12, <1>13 DEF L!Next, L!Running

(* The copy of an operator's call.                                         *)
OpSound ==
  op # L!NoOp => /\ L!CopySound(op.lanes) /\ op.from <= head
                 /\ op.target <= head \/ op.target = L!Open

(* The copy of the operator's call stays sound while it is held.           *)
LEMMA OpCopySound ==
  ASSUME L!LanesParameters, L!TypeOK, L!CopiesSound, L!Next, L!TypeOK'
  PROVE  OpSound'
<1> USE LaneTypes
<1>0. /\ head \in 0..Feed /\ head' \in 0..Feed /\ head <= head'
      /\ committed \subseteq committed' /\ seen \subseteq seen'
      /\ skipTo \in 0..Feed /\ skipTo' \in 0..Feed /\ skipTo <= skipTo'
  BY HistoryGrows DEF L!TypeOK
<1>1. CASE op' = op /\ op # L!NoOp
  <2>1. L!CopySound(op.lanes) /\ op.from <= head /\ (op.target <= head \/ op.target = L!Open)
    BY <1>1 DEF L!CopiesSound
  <2>2. op \in OpType /\ op.lanes \in L!Lanes /\ op.from \in 0..Feed /\ op.target \in 0..L!Open
    BY <1>1 DEF OpType
  <2>3. PICK l \in L!Lanes : l = op.lanes
    BY <2>2
  <2>4. L!CopySound(l)'
    BY <1>0, <2>1, <2>3, CopyKept
  <2> QED
    BY <1>0, <1>1, <2>1, <2>2, <2>3, <2>4 DEF OpSound, L!CopySound, L!Finished, L!Open
<1>2. CASE op' = L!NoOp
  BY <1>2 DEF OpSound, L!NoOp
<1>3. ASSUME NEW kind, NEW from \in 0..head, NEW target \in 0..head \cup {L!Open}, L!Load(kind, from, target)
      PROVE  OpSound'
  <2>1. /\ op' = [kind |-> kind, lanes |-> stored.lanes, from |-> from, target |-> target]
        /\ UNCHANGED <<head, stored, committed, skipTo, seen>>
    BY <1>3 DEF L!Load, L!history
  <2>2. op'.lanes = stored'.lanes /\ op'.from = from /\ op'.target = target
    BY <2>1
  <2> QED
    BY <2>1, <2>2, StoredSound DEF OpSound, L!CopySound, L!Finished, L!Open
<1>4. 0 \in 0..head
  BY <1>0
<1>5. CASE L!Calling
  BY <1>2, <1>5 DEF L!Calling, L!Trigger, L!Backfill, L!ResetCursor, L!Write
<1>6. CASE L!Running \/ L!Leased \/ L!AcquireHalted \/ L!Deadline \/ L!Halt \/ L!Abort \/ L!Crash \/ L!Fail
           \/ L!Ticking \/ L!Publish
  <2>1. op' = op
    BY <1>6 DEF L!Running, L!Check, L!Acquire, L!Page, L!Drain, L!Save, L!Leave, L!Leased,
       L!AcquireHalted,
                L!Deadline, L!Halt, L!Abort, L!Crash, L!Fail, L!Ticking, L!Clock, L!Publish
  <2> QED
    BY <1>1, <1>2, <2>1
<1> QED
  BY <1>3, <1>4, <1>5, <1>6 DEF L!Next

(* A trigger() of a key at rest is owed until a run takes the lease.       *)
LEMMA OwedStep ==
  ASSUME L!LanesParameters, L!TypeOK, L!OwedAtRest, L!TriggerPrompt, L!Next, L!TypeOK'
  PROVE  L!OwedAtRest' /\ L!TriggerPrompt'
<1> USE LaneTypes, RunShape
<1>0. stored = [lanes |-> stored.lanes, schedule |-> stored.schedule]
  BY DEF L!State
<1>1. ASSUME quiet' = FALSE
      PROVE  L!OwedAtRest' /\ L!TriggerPrompt'
  BY <1>1 DEF L!OwedAtRest, L!TriggerPrompt
<1>2. ASSUME quiet' = quiet, run.pc \notin {"idle", "acquire"}
      PROVE  L!OwedAtRest' /\ L!TriggerPrompt'
  BY <1>2 DEF L!OwedAtRest, L!TriggerPrompt
<1>3. ASSUME quiet' = quiet, run' = run, laneDue' = laneDue \/ laneDue' = "due",
             stored'.schedule = stored.schedule \/ stored'.schedule = "due"
      PROVE  L!OwedAtRest' /\ L!TriggerPrompt'
  BY <1>3 DEF L!OwedAtRest, L!TriggerPrompt
<1>4. CASE \E waits \in BOOLEAN : L!Check(waits)
  <2>1. PICK waits \in BOOLEAN : L!Check(waits)
    BY <1>4
  <2>2. UNCHANGED <<stored, laneDue, quiet>>
    BY <2>1 DEF L!Check, L!history
  <2>3. stored.schedule = "due" => run'.pc = "acquire"
    BY <2>1 DEF L!Check, L!AnyLaneDue
  <2> QED
    BY <2>2, <2>3 DEF L!OwedAtRest, L!TriggerPrompt
<1>5. CASE L!Acquire \/ L!Leased \/ L!AcquireHalted \/ L!Crash
  BY <1>1, <1>5 DEF L!Acquire, L!Leased, L!AcquireHalted, L!Crash
<1>6. CASE L!Page \/ L!Drain \/ L!Save \/ L!Leave \/ L!Deadline \/ L!Halt \/ L!Fail \/ L!Abort
  BY <1>2, <1>6 DEF L!Page, L!Drain, L!Save, L!Leave, L!Deadline, L!Halt, L!Fail, L!Abort,
     L!history
<1>7. CASE L!Ticking
  <2>1. PICK due \in BOOLEAN : L!Clock(due)
    BY <1>7 DEF L!Ticking
  <2>2. stored'.schedule = "due"
    BY <1>0, <2>1 DEF L!Clock
  <2> QED
    BY <1>3, <2>1, <2>2 DEF L!Clock
<1>8. CASE L!Publish
  BY <1>3, <1>8 DEF L!Publish, L!history
<1>9. CASE L!Calling
  <2>1. PICK here \in BOOLEAN : L!Trigger(here) \/ L!Backfill(here) \/ L!ResetCursor(here)
    BY <1>9 DEF L!Calling
  <2>2. run' = run /\ (laneDue' = laneDue \/ laneDue' = "due") /\ (here => laneDue' = "due")
    BY <2>1 DEF L!Trigger, L!Backfill, L!ResetCursor, L!Write
  <2>3. CASE L!Trigger(here)
    <3>1. stored'.schedule = "due"
      BY <1>0, <2>3 DEF L!Trigger
    <3>2. CASE here /\ run = L!Idle
      BY <2>2, <3>1, <3>2 DEF L!OwedAtRest, L!TriggerPrompt, L!Idle
    <3>3. CASE ~(here /\ run = L!Idle)
      <4>1. quiet' = (quiet \/ FALSE)
        BY <2>3, <3>3, Zenon DEF L!Trigger
      <4>2. quiet \in BOOLEAN
        BY DEF L!TypeOK
      <4>3. quiet' = quiet
        BY <4>1, <4>2, Zenon
      <4> QED
        BY <1>3, <2>2, <3>1, <4>3
    <3> QED
      BY <3>2, <3>3
  <2>4. CASE L!Backfill(here)
    <3> DEFINE m == [op.lanes EXCEPT !.backfill = [from |-> op.from, cursor |-> op.from,
                                                   target |-> L!TargetOf(op),
                                                   status |-> "active"]]
    <3>1. stored' = [stored EXCEPT !.lanes = m] /\ quiet' = quiet
      BY <2>4 DEF L!Backfill
    <3> HIDE DEF m
    <3>2. stored'.schedule = stored.schedule
      BY <1>0, <3>1
    <3> QED
      BY <1>3, <2>2, <3>1, <3>2
  <2>5. CASE L!ResetCursor(here)
    <3>1. stored'.schedule = "due" /\ quiet' = quiet
      BY <2>5 DEF L!ResetCursor
    <3> QED
      BY <1>3, <2>2, <3>1
  <2> QED
    BY <2>1, <2>3, <2>4, <2>5
<1>10. ASSUME NEW kind, NEW from, NEW target, L!Load(kind, from, target)
       PROVE  L!OwedAtRest' /\ L!TriggerPrompt'
  BY <1>3, <1>10 DEF L!Load, L!history
<1> QED
  BY <1>4, <1>5, <1>6, <1>7, <1>8, <1>9, <1>10 DEF L!Next, L!Running

(* The inductive invariant of the lanes.                                   *)
LanesInv == L!TypeOK /\ L!CopiesSound /\ L!OwedAtRest /\ L!TriggerPrompt

(* The invariant of the lanes holds in the first state.                  *)
LEMMA LanesInvInit ==
  ASSUME L!LanesParameters, L!Init
  PROVE  LanesInv
<1>1. L!TypeOK
  <2>1. L!NoBackfill \in [from : 0..Feed, cursor : 0..Feed, target : 1..L!Open,
                        status : {"none", "active", "done", "halted"}]
    BY DEF L!LanesParameters, L!NoBackfill, L!Open
  <2>2. stored \in L!State
    BY <2>1 DEF L!LanesParameters, L!Init, L!State, L!Lanes
  <2>3. head \in 0..Feed /\ ops \in 0..MaxOps /\ mishaps \in 0..MaxMishaps /\ skipTo \in 0..Feed
    BY DEF L!LanesParameters, L!Init
  <2>4. laneDue = "due" /\ run = L!Idle /\ op = L!NoOp /\ quiet = FALSE
        /\ committed = {} /\ seen = {} /\ wanted = {}
    BY DEF L!Init
  <2> QED
    BY <2>2, <2>3, <2>4, Zenon DEF L!TypeOK
<1>2. L!CopiesSound
  <2>1. stored.lanes = [live |-> 0, reconcile |-> "due", backfill |-> L!NoBackfill] /\ head = 0
    BY DEF L!Init
  <2>2. L!CopySound(stored.lanes)
    BY <2>1 DEF L!CopySound, L!NoBackfill, L!Item
  <2> QED
    BY <2>2 DEF L!Init, L!CopiesSound, L!InCycle, L!Idle, L!NoOp
<1> QED
  BY <1>1, <1>2 DEF L!Init, LanesInv, L!OwedAtRest, L!TriggerPrompt

(* Every step keeps the invariant of the lanes.                          *)
LEMMA LanesInvStep ==
  ASSUME L!LanesParameters, LanesInv, [L!Next]_(L!vars)
  PROVE  LanesInv'
<1>1. CASE L!Next
  <2>1. L!TypeOK'
    BY <1>1, LanesTypeStep DEF LanesInv
  <2>2. L!CopiesSound'
    <3>1. L!CopySound(stored.lanes)' /\ RunSound' /\ OpSound'
      BY <1>1, <2>1, StoredSound, RunCopySound, OpCopySound DEF LanesInv
    <3> QED
      BY <3>1 DEF L!CopiesSound, RunSound, OpSound
  <2> QED
    BY <1>1, <2>1, <2>2, OwedStep DEF LanesInv
<1>2. CASE UNCHANGED L!vars
  BY <1>2 DEF L!vars, L!history, LanesInv, L!TypeOK, L!CopiesSound, L!CopySound, L!Finished,
     L!InCycle,
              L!OwedAtRest, L!TriggerPrompt, L!Cycle, L!State, L!Lanes
<1> QED
  BY <1>1, <1>2

(* What the invariant says of the stored lanes.                            *)
LEMMA LanesInvSound ==
  ASSUME L!LanesParameters, LanesInv
  PROVE  L!LanesSound
<1>1. L!TypeOK /\ L!TriggerPrompt /\ L!CopySound(stored.lanes)
  BY DEF LanesInv, L!CopiesSound
<1>2. L!LiveCovered
  BY <1>1 DEF L!LiveCovered, L!CopySound
<1>3. L!BackfillSound
  <2>1. stored.lanes \in L!Lanes /\ Feed \in Nat
    BY <1>1, LaneTypes
  <2>2. stored.lanes.backfill.cursor \in 0..Feed /\ stored.lanes.backfill.target \in 1..L!Open
        /\ L!Open = Feed + 1
    BY <2>1 DEF L!Lanes, L!Open
  <2> QED
    BY <1>1, <2>1, <2>2 DEF L!BackfillSound, L!CopySound, L!Finished, L!Item
<1> QED
  BY <1>1, <1>2, <1>3 DEF L!LanesSound

(* The live cursor covers only what was committed, a backfill marked     *)
(* done has walked its range, and a trigger() of a key at rest leads to  *)
(* a run (persistLane, runCycle, trigger), whatever the pages, the       *)
(* changes, the mishaps and the calls made in between.                   *)
THEOREM LanesKept ==
  ASSUME L!LanesParameters
  PROVE  L!Spec => []LanesSound
<1>1. L!Init => LanesInv
  BY LanesInvInit
<1>2. LanesInv /\ [L!Next]_(L!vars) => LanesInv'
  BY LanesInvStep
<1>3. LanesInv => L!LanesSound
  BY LanesInvSound
<1> QED
  BY <1>1, <1>2, <1>3, PTL DEF L!Spec, LanesSound

-----------------------------------------------------------------------------
Request == [pc : {"idle", "sent", "answered"}, at : Nat, ok : BOOLEAN]

(* One more missed renewal costs one more round.                           *)
LEMMA RoundsType ==
  ASSUME K!KeeperParameters, NEW n \in Nat
  PROVE  /\ K!Rounds(n) \in Nat /\ K!Rounds(n) >= RenewEveryMs + Latency
         /\ K!Rounds(n + 1) = K!Rounds(n) + RenewEveryMs + Latency
         /\ K!Spare(n) <=> K!Rounds(n) + 2 * Latency < TtlMs
         /\ K!Spare(n + 1) => K!Spare(n)
<1> DEFINE D == RenewEveryMs + Latency
           Prod == n * D
<1>1. D \in Nat /\ Latency \in Nat /\ TtlMs \in Nat
  BY DEF K!KeeperParameters
<1>2. Prod \in Nat
  BY <1>1
<1>3. K!Rounds(n) = Prod + D /\ K!Rounds(n + 1) = Prod + D + D
  BY <1>1 DEF K!Rounds
<1>4. K!Spare(n) <=> K!Rounds(n) + 2 * Latency < TtlMs
  BY <1>1 DEF K!Rounds, K!Spare
<1>5. K!Spare(n + 1) <=> K!Rounds(n + 1) + 2 * Latency < TtlMs
  BY <1>1 DEF K!Rounds, K!Spare
<1> HIDE DEF Prod
<1>6. K!Rounds(n + 1) = K!Rounds(n) + RenewEveryMs + Latency
  BY <1>1, <1>2, <1>3 DEF K!KeeperParameters
<1> QED
  BY <1>1, <1>2, <1>3, <1>4, <1>5, <1>6

(* What the steps know of the two requests.                                *)
LEMMA RequestTypes ==
  ASSUME K!TypeOK
  PROVE  /\ DOMAIN request = K!Caller
         /\ \A c \in K!Caller : /\ request[c] \in Request
                                /\ request[c].pc \in {"idle", "sent", "answered"}
                                /\ request[c].at \in Nat /\ request[c].ok \in BOOLEAN
BY DEF K!TypeOK, Request

(* A request is replaced, the other one stays.                             *)
LEMMA Replaced ==
  ASSUME K!TypeOK, NEW c \in K!Caller, NEW r, request' = [request EXCEPT ![c] = r]
  PROVE  request'[c] = r /\ \A d \in K!Caller : d # c => request'[d] = request[d]
BY RequestTypes

(* The variables of the lease keeper keep their types.                   *)
LEMMA KeeperTypeStep ==
  ASSUME K!KeeperParameters, K!TypeOK, K!Next
  PROVE  K!TypeOK'
<1> USE DEF K!KeeperParameters
<1>0. /\ time \in Nat /\ handle \in Nat \cup {K!None} /\ takenAt \in Nat \cup {K!None}
      /\ time + RenewEveryMs \in Nat /\ time + 1 \in Nat /\ time + TtlMs \in Nat
      /\ lease \in [holder : {"me", "other", "nobody"}, expiresAt : Nat]
      /\ request \in [K!Caller -> Request] /\ throws \in [all : Nat, since : Nat]
      /\ stopped \in BOOLEAN /\ lost \in BOOLEAN /\ beatAborted \in BOOLEAN
      /\ beating \in {"running", "ended", "released"}
  BY DEF K!TypeOK, Request
<1>1. ASSUME NEW c \in K!Caller, K!Send(c)
      PROVE  request' \in [K!Caller -> Request]
  <2>1. [pc |-> "sent", at |-> time, ok |-> FALSE] \in Request
    BY <1>0 DEF Request
  <2> QED
    BY <1>0, <1>1, <2>1 DEF K!Send
<1>2. ASSUME NEW c \in K!Caller, request' = [request EXCEPT ![c] = K!NoRequest]
      PROVE  request' \in [K!Caller -> Request]
  <2>1. K!NoRequest \in Request
    BY DEF K!NoRequest, Request
  <2> QED
    BY <1>0, <1>2, <2>1
<1>3. CASE K!Beat
  <2>1. request' \in [K!Caller -> Request]
    BY <1>1, <1>3 DEF K!Beat, K!Caller
  <2> QED
    BY <1>0, <1>3, <2>1 DEF K!Beat, K!TypeOK, Request
<1>4. CASE K!RenewNow
  <2>1. request' \in [K!Caller -> Request]
    BY <1>1, <1>4 DEF K!RenewNow, K!Caller
  <2> QED
    BY <1>0, <1>4, <2>1 DEF K!RenewNow, K!TypeOK, Request
<1>5. CASE K!EndCycle
  BY <1>0, <1>5 DEF K!EndCycle, K!Stop, K!TypeOK, Request
<1>6. CASE K!Release
  BY <1>0, <1>6 DEF K!Release, K!TypeOK, Request
<1>7. CASE K!TakeOver
  BY <1>0, <1>7 DEF K!TakeOver, K!TypeOK, Request
<1>8. CASE K!Tick
  BY <1>0, <1>8 DEF K!Tick, K!TypeOK, Request
<1>9. ASSUME NEW c \in K!Caller, K!Renew(c)
      PROVE  K!TypeOK'
  <2> DEFINE r == [request[c] EXCEPT !.pc = "answered", !.ok = (lease.holder = "me")]
  <2>1. r \in Request
    BY <1>0 DEF Request
  <2>2. request' = [request EXCEPT ![c] = r]
    BY <1>0, <1>9 DEF K!Renew
  <2>3. request' \in [K!Caller -> Request]
    <3> HIDE DEF r
    <3> QED BY <1>0, <2>1, <2>2
  <2>4. request[c].at + TtlMs \in Nat
    BY <1>0 DEF Request
  <2>5. lease' \in [holder : {"me", "other", "nobody"}, expiresAt : Nat]
    BY <1>0, <1>9, <2>4 DEF K!Renew
  <2> QED
    BY <1>0, <1>9, <2>3, <2>5 DEF K!Renew, K!TypeOK, Request
<1>10. ASSUME NEW c \in K!Caller, K!Refused(c)
       PROVE  K!TypeOK'
  <2>1. request' \in [K!Caller -> Request]
    BY <1>2, <1>10 DEF K!Refused
  <2> QED
    BY <1>0, <1>10, <2>1 DEF K!Refused, K!Stop, K!TypeOK, Request
<1>11. ASSUME NEW c \in K!Caller, K!Renewed(c)
       PROVE  K!TypeOK'
  <2>1. request' \in [K!Caller -> Request]
    BY <1>2, <1>11 DEF K!Renewed
  <2>2. handle' \in Nat \cup {K!None}
    BY <1>0, <1>11 DEF K!Renewed, K!Schedule
  <2> QED
    BY <1>0, <1>11, <2>1, <2>2 DEF K!Renewed, K!TypeOK, Request
<1>12. ASSUME NEW c \in K!Caller, K!Threw(c)
       PROVE  K!TypeOK'
  <2>1. request' \in [K!Caller -> Request]
    BY <1>2, <1>12 DEF K!Threw
  <2>2. handle' \in Nat \cup {K!None} /\ stopped' \in BOOLEAN /\ beating' \in {"running", "ended", "released"}
    BY <1>0, <1>12 DEF K!Threw, K!Schedule, K!Stop
  <2>3. throws' \in [all : Nat, since : Nat]
    BY <1>0, <1>12 DEF K!Threw
  <2> QED
    BY <1>0, <1>12, <2>1, <2>2, <2>3 DEF K!Threw, K!TypeOK, Request
<1> QED
  BY <1>3, <1>4, <1>5, <1>6, <1>7, <1>8, <1>9, <1>10, <1>11, <1>12 DEF K!Next

-----------------------------------------------------------------------------
(* A step keeps Beating: a keeper that has not stopped waits for its     *)
(* timer or for the answer to its beat.                                  *)
LEMMA BeatingStep ==
  ASSUME K!KeeperParameters, K!KeeperInv, K!Next, K!TypeOK'
  PROVE  K!Beating'
<1> USE RequestTypes DEF K!KeeperInv
<1>0. /\ time \in Nat /\ handle \in Nat \cup {K!None} /\ K!None = -1
      /\ stopped \in BOOLEAN /\ beatAborted \in BOOLEAN
      /\ RenewEveryMs \in Nat \ {0} /\ Latency \in Nat
      /\ "beat" \in K!Caller /\ "now" \in K!Caller
  BY DEF K!TypeOK, K!KeeperParameters, K!None, K!Caller
<1>1. CASE K!Beat
  <2>1. /\ request'["beat"] = [pc |-> "sent", at |-> time, ok |-> FALSE]
        /\ \A d \in K!Caller : d # "beat" => request'[d] = request[d]
    BY <1>0, <1>1, Replaced DEF K!Beat, K!Send
  <2> QED
    BY <1>0, <1>1, <2>1 DEF K!Beat, K!Beating
<1>2. CASE K!RenewNow
  <2>1. /\ request'["now"] = [pc |-> "sent", at |-> time, ok |-> FALSE]
        /\ \A d \in K!Caller : d # "now" => request'[d] = request[d]
    BY <1>0, <1>2, Replaced DEF K!RenewNow, K!Send
  <2> QED
    BY <1>0, <1>2, <2>1 DEF K!RenewNow, K!Beating
<1>3. CASE K!EndCycle
  BY <1>0, <1>3 DEF K!EndCycle, K!Stop, K!Beating
<1>4. CASE K!Release \/ K!TakeOver
  BY <1>0, <1>4 DEF K!Release, K!TakeOver, K!Beating
<1>5. CASE K!Tick
  BY <1>0, <1>5 DEF K!Tick, K!Beating
<1>6. ASSUME NEW c \in K!Caller, K!Renew(c)
      PROVE  K!Beating'
  <2> DEFINE r == [request[c] EXCEPT !.pc = "answered", !.ok = (lease.holder = "me")]
  <2>1. request' = [request EXCEPT ![c] = r] /\ r.pc = "answered" /\ r.at = request[c].at
        /\ request[c].pc = "sent"
    BY <1>6 DEF K!Renew, Request
  <2> HIDE DEF r
  <2>2. request'[c] = r /\ \A d \in K!Caller : d # c => request'[d] = request[d]
    BY <2>1, Replaced
  <2> QED
    BY <1>0, <1>6, <2>1, <2>2 DEF K!Renew, K!Beating
<1>7. ASSUME NEW c \in K!Caller, K!Refused(c)
      PROVE  K!Beating'
  <2>1. request'[c] = K!NoRequest /\ \A d \in K!Caller : d # c => request'[d] = request[d]
    BY <1>7, Replaced DEF K!Refused
  <2> QED
    BY <1>0, <1>7, <2>1 DEF K!Refused, K!Stop, K!Beating, K!NoRequest
<1>8. ASSUME NEW c \in K!Caller, K!Renewed(c)
      PROVE  K!Beating'
  <2>1. request'[c] = K!NoRequest /\ \A d \in K!Caller : d # c => request'[d] = request[d]
    BY <1>8, Replaced DEF K!Renewed
  <2> QED
    BY <1>0, <1>8, <2>1 DEF K!Renewed, K!Schedule, K!Beating, K!NoRequest
<1>9. ASSUME NEW c \in K!Caller, K!Threw(c)
      PROVE  K!Beating'
  <2>1. request'[c] = K!NoRequest /\ \A d \in K!Caller : d # c => request'[d] = request[d]
    BY <1>9, Replaced DEF K!Threw
  <2> QED
    BY <1>0, <1>9, <2>1 DEF K!Threw, K!Schedule, K!Stop, K!Beating, K!NoRequest
<1> QED
  BY <1>1, <1>2, <1>3, <1>4, <1>5, <1>6, <1>7, <1>8, <1>9 DEF K!Next

(* A step keeps Held: the lease is taken over once, and given up only by *)
(* a cycle that ended.                                                   *)
LEMMA HeldStep ==
  ASSUME K!KeeperParameters, K!KeeperInv, K!Next, K!TypeOK'
  PROVE  K!Held'
<1> USE DEF K!KeeperInv
<1>0. /\ time \in Nat /\ takenAt \in Nat \cup {K!None} /\ K!None = -1
      /\ lease \in [holder : {"me", "other", "nobody"}, expiresAt : Nat]
  BY DEF K!TypeOK, K!None
<1>1. CASE K!Beat \/ K!RenewNow \/ K!Tick
  BY <1>0, <1>1 DEF K!Beat, K!RenewNow, K!Tick, K!Held
<1>2. CASE K!EndCycle \/ K!Release \/ K!TakeOver
  BY <1>0, <1>2 DEF K!EndCycle, K!Release, K!TakeOver, K!Held
<1>3. ASSUME NEW c \in K!Caller, K!Renew(c)
      PROVE  K!Held'
  <2>1. lease'.holder = lease.holder
    BY <1>0, <1>3 DEF K!Renew
  <2> QED
    BY <1>0, <1>3, <2>1 DEF K!Renew, K!Held
<1>4. ASSUME NEW c \in K!Caller, K!Refused(c) \/ K!Renewed(c) \/ K!Threw(c)
      PROVE  K!Held'
  BY <1>0, <1>4 DEF K!Refused, K!Renewed, K!Threw, K!Held
<1> QED
  BY <1>1, <1>2, <1>3, <1>4 DEF K!Next

(* What the proofs about time use: the types, and the bounds of the two    *)
(* parts above.                                                            *)
LEMMA KeeperFacts ==
  ASSUME K!KeeperParameters, K!KeeperInv
  PROVE  /\ time \in Nat /\ handle \in Nat \cup {K!None} /\ takenAt \in Nat \cup {K!None}
         /\ K!None = -1 /\ lease.expiresAt \in Nat
         /\ lease \in [holder : {"me", "other", "nobody"}, expiresAt : Nat]
         /\ stopped \in BOOLEAN /\ beatAborted \in BOOLEAN
         /\ TtlMs \in Nat /\ RenewEveryMs \in Nat /\ Latency \in Nat
         /\ throws.all \in Nat /\ throws.since \in Nat
         /\ throws = [all |-> throws.all, since |-> throws.since]
         /\ "beat" \in K!Caller /\ "now" \in K!Caller /\ K!Caller = {"beat", "now"}
         /\ K!Rounds(throws.all) \in Nat /\ K!Rounds(throws.since) \in Nat
         /\ K!Rounds(throws.all) >= RenewEveryMs + Latency
         /\ K!Rounds(throws.since) >= RenewEveryMs + Latency
<1>1. /\ throws.all \in Nat /\ throws.since \in Nat
      /\ throws = [all |-> throws.all, since |-> throws.since]
      /\ lease.expiresAt \in Nat
  BY DEF K!KeeperInv, K!TypeOK
<1> QED
  BY <1>1, RoundsType DEF K!KeeperInv, K!TypeOK, K!KeeperParameters, K!None, K!Caller

(* The room only shrinks.                                                  *)
LEMMA SpareBefore ==
  ASSUME K!KeeperParameters, K!KeeperInv, K!Next, K!Spare(throws.all)'
  PROVE  K!Spare(throws.all) /\ throws'.all \in Nat
<1> USE KeeperFacts
<1>1. CASE throws'.all = throws.all
  BY <1>1 DEF K!Spare
<1>2. CASE \E c \in K!Caller : K!Threw(c)
  <2>1. throws'.all = throws.all + 1
    BY <1>2 DEF K!Threw
  <2>2. K!Spare(throws.all + 1)
    BY <2>1 DEF K!Spare
  <2> QED
    BY <2>1, <2>2, RoundsType
<1>3. CASE ~\E c \in K!Caller : K!Threw(c)
  <2>1. throws' = throws
    BY <1>3 DEF K!Next, K!Beat, K!RenewNow, K!EndCycle, K!Release, K!TakeOver, K!Tick, K!Renew,
       K!Refused, K!Renewed
  <2> QED
    BY <1>1, <2>1
<1> QED
  BY <1>1, <1>2, <1>3

(* A step keeps Unrefused: no renewal is refused while the lease has     *)
(* room.                                                                 *)
LEMMA UnrefusedStep ==
  ASSUME K!KeeperParameters, K!KeeperInv, K!Next, K!TypeOK'
  PROVE  K!Unrefused'
<1> SUFFICES ASSUME beating' = "running", K!Spare(throws.all)'
             PROVE  ~stopped'
  BY DEF K!Unrefused, K!Spare
<1>1. K!Spare(throws.all)
  BY SpareBefore
<1>2. beating = "running"
  BY DEF K!Next, K!Beat, K!RenewNow, K!EndCycle, K!Release, K!TakeOver, K!Tick, K!Renew,
     K!Refused, K!Renewed, K!Threw
<1>3. ~stopped /\ \A c \in K!Caller : request[c].pc = "answered" => request[c].ok
  BY <1>1, <1>2 DEF K!KeeperInv, K!Unrefused, K!Renewing
<1>4. ASSUME NEW c \in K!Caller, K!Refused(c)
      PROVE  FALSE
  BY <1>3, <1>4 DEF K!Refused
<1> QED
  BY <1>2, <1>3, <1>4 DEF K!Next, K!Beat, K!RenewNow, K!EndCycle, K!Release, K!TakeOver, K!Tick,
     K!Renew, K!Renewed, K!Threw, K!Stop

(* A step keeps Renewing: while the lease has room for what was missed,  *)
(* it expires well after the timer or the beat under way.                *)
LEMMA RenewingStep ==
  ASSUME K!KeeperParameters, K!KeeperInv, K!Next, K!TypeOK'
  PROVE  K!Renewing'
<1> USE RequestTypes, KeeperFacts DEF K!KeeperInv
<1>0. SUFFICES ASSUME (~stopped)', K!Spare(throws.all)'
               PROVE  LET granted == lease.expiresAt' - TtlMs
                          beat == request'["beat"]
                      IN /\ lease'.holder = "me"
                         /\ \A c \in K!Caller : request'[c].pc = "answered" => request'[c].ok
                         /\ handle' # K!None => handle' <= granted + Latency + K!Rounds(throws'.all)
                         /\ beat.pc = "sent" => beat.at <= granted + Latency + K!Rounds(throws'.all)
                         /\ beat.pc = "answered" => beat.at <= granted + Latency
  BY DEF K!Renewing, K!Rounds, K!Spare
<1>1. ~stopped /\ beating = "running"
  <2>1. CASE ~stopped
    BY <2>1 DEF K!Beating
  <2>2. CASE stopped
    BY <1>0, <2>2 DEF K!Next, K!Beat, K!RenewNow, K!EndCycle, K!Release, K!TakeOver, K!Tick,
       K!Renew, K!Refused, K!Renewed,
                      K!Threw, K!Stop
  <2> QED
    BY <2>1, <2>2
<1>2. K!Spare(throws.all) /\ throws'.all \in Nat
  BY <1>0, SpareBefore
<1> DEFINE G == lease.expiresAt - TtlMs
           M == K!Rounds(throws.all)
<1>3. /\ lease.holder = "me" /\ G \in Int /\ M \in Nat
      /\ \A c \in K!Caller : request[c].pc = "answered" => request[c].ok
      /\ handle # K!None => handle <= G + Latency + M
      /\ request["beat"].pc = "sent" => request["beat"].at <= G + Latency + M
      /\ request["beat"].pc = "answered" => request["beat"].at <= G + Latency
  BY <1>1, <1>2 DEF K!Renewing
<1>4. lease.expiresAt = G + TtlMs
  OBVIOUS
<1>5. M + 2 * Latency < TtlMs
  BY <1>2, RoundsType
<1>6. M >= RenewEveryMs + Latency
  OBVIOUS
<1> HIDE DEF G, M
<1>7. CASE K!Beat
  <2>1. /\ request'["beat"] = [pc |-> "sent", at |-> time, ok |-> FALSE]
        /\ \A d \in K!Caller : d # "beat" => request'[d] = request[d]
    BY <1>7, Replaced DEF K!Beat, K!Send
  <2>2. /\ request'["beat"].pc = "sent" /\ request'["beat"].at = time
        /\ time <= G + Latency + M
    BY <1>3, <1>7, <2>1 DEF K!Beat, K!Beating
  <2>3. UNCHANGED <<lease, throws>> /\ handle' = K!None
    BY <1>7 DEF K!Beat
  <2> QED
    BY <1>3, <2>1, <2>2, <2>3 DEF G, M
<1>8. CASE K!RenewNow
  <2>1. /\ request'["now"] = [pc |-> "sent", at |-> time, ok |-> FALSE]
        /\ \A d \in K!Caller : d # "now" => request'[d] = request[d]
    BY <1>8, Replaced DEF K!RenewNow, K!Send
  <2>2. UNCHANGED <<lease, throws, handle>>
    BY <1>8 DEF K!RenewNow
  <2> QED
    BY <1>3, <2>1, <2>2 DEF G, M
<1>9. CASE K!EndCycle \/ K!Release
  BY <1>0, <1>1, <1>9 DEF K!EndCycle, K!Stop, K!Release
<1>10. CASE K!TakeOver
  <2>1. lease.expiresAt <= time
    BY <1>10 DEF K!TakeOver
  <2>2. time <= G + 2 * Latency + M
    BY <1>1, <1>3 DEF K!Beating
  <2> QED
    BY <1>3, <1>4, <1>5, <2>1, <2>2
<1>11. CASE K!Tick
  <2>1. UNCHANGED <<lease, throws, handle, request>>
    BY <1>11 DEF K!Tick
  <2> QED
    BY <1>3, <2>1 DEF G, M
<1>12. ASSUME NEW c \in K!Caller, K!Renew(c)
       PROVE  LET granted == lease.expiresAt' - TtlMs
                  beat == request'["beat"]
              IN /\ lease'.holder = "me"
                 /\ \A d \in K!Caller : request'[d].pc = "answered" => request'[d].ok
                 /\ handle' # K!None => handle' <= granted + Latency + K!Rounds(throws'.all)
                 /\ beat.pc = "sent" => beat.at <= granted + Latency + K!Rounds(throws'.all)
                 /\ beat.pc = "answered" => beat.at <= granted + Latency
  <2> DEFINE r == [request[c] EXCEPT !.pc = "answered", !.ok = (lease.holder = "me")]
  <2>1. /\ request' = [request EXCEPT ![c] = r] /\ r.pc = "answered" /\ r.at = request[c].at
        /\ request[c].pc = "sent" /\ r.ok
    BY <1>3, <1>12 DEF K!Renew, Request
  <2> HIDE DEF r
  <2>2. request'[c] = r /\ \A d \in K!Caller : d # c => request'[d] = request[d]
    BY <2>1, Replaced
  <2>3. /\ lease' = [lease EXCEPT !.expiresAt = request[c].at + TtlMs]
        /\ UNCHANGED <<throws, handle>>
    BY <1>3, <1>12 DEF K!Renew
  <2>4. lease'.holder = "me" /\ lease'.expiresAt = request[c].at + TtlMs
    BY <1>3, <2>3
  <2>5. lease'.expiresAt - TtlMs = request[c].at /\ K!Rounds(throws'.all) = M
    BY <2>3, <2>4 DEF M
  <2>6. request[c].at <= time /\ time <= request[c].at + Latency
    BY <2>1 DEF K!Beating
  <2>7. \A d \in K!Caller : request'[d].pc = "answered" => request'[d].ok
    BY <1>3, <2>1, <2>2
  <2>8. handle' # K!None => handle' <= request[c].at + Latency + M
    BY <1>3, <1>6, <2>3, <2>6 DEF K!Beating
  <2>9. request'["beat"].pc = "sent" => request'["beat"].at <= request[c].at + Latency + M
    BY <1>3, <2>1, <2>2, <2>6 DEF K!Beating
  <2>10. request'["beat"].pc = "answered" => request'["beat"].at <= request[c].at + Latency
    <3>1. CASE c = "beat"
      BY <2>1, <2>2, <3>1
    <3>2. CASE c # "beat"
      <4>1. request'["beat"] = request["beat"]
        BY <2>2, <3>2
      <4> QED
        BY <2>6, <4>1 DEF K!Beating
    <3> QED
      BY <3>1, <3>2
  <2> QED
    BY <2>4, <2>5, <2>7, <2>8, <2>9, <2>10
<1>13. ASSUME NEW c \in K!Caller, K!Refused(c)
       PROVE  FALSE
  BY <1>0, <1>13 DEF K!Refused, K!Stop
<1>14. ASSUME NEW c \in K!Caller, K!Renewed(c)
       PROVE  LET granted == lease.expiresAt' - TtlMs
                  beat == request'["beat"]
              IN /\ lease'.holder = "me"
                 /\ \A d \in K!Caller : request'[d].pc = "answered" => request'[d].ok
                 /\ handle' # K!None => handle' <= granted + Latency + K!Rounds(throws'.all)
                 /\ beat.pc = "sent" => beat.at <= granted + Latency + K!Rounds(throws'.all)
                 /\ beat.pc = "answered" => beat.at <= granted + Latency
  <2>1. request'[c] = K!NoRequest /\ \A d \in K!Caller : d # c => request'[d] = request[d]
    BY <1>14, Replaced DEF K!Renewed
  <2>2. UNCHANGED <<lease, throws>> /\ request[c].pc = "answered"
    BY <1>14 DEF K!Renewed
  <2>3. handle' # K!None => handle' <= G + Latency + M
    <3>1. CASE c = "beat"
      <4>1. handle' = time + RenewEveryMs
        BY <1>1, <1>14, <3>1 DEF K!Renewed, K!Schedule
      <4>2. time <= request["beat"].at + Latency /\ request["beat"].at <= G + Latency
        BY <1>3, <2>2, <3>1 DEF K!Beating
      <4> QED
        BY <1>3, <1>6, <4>1, <4>2
    <3>2. CASE c # "beat"
      BY <1>3, <1>14, <3>2 DEF K!Renewed
    <3> QED
      BY <3>1, <3>2
  <2>4. /\ \A d \in K!Caller : request'[d].pc = "answered" => request'[d].ok
        /\ request'["beat"].pc = "sent" => request'["beat"].at <= G + Latency + M
        /\ request'["beat"].pc = "answered" => request'["beat"].at <= G + Latency
    BY <1>3, <2>1 DEF K!NoRequest
  <2> QED
    BY <1>3, <2>2, <2>3, <2>4 DEF G, M
<1>15. ASSUME NEW c \in K!Caller, K!Threw(c)
       PROVE  LET granted == lease.expiresAt' - TtlMs
                  beat == request'["beat"]
              IN /\ lease'.holder = "me"
                 /\ \A d \in K!Caller : request'[d].pc = "answered" => request'[d].ok
                 /\ handle' # K!None => handle' <= granted + Latency + K!Rounds(throws'.all)
                 /\ beat.pc = "sent" => beat.at <= granted + Latency + K!Rounds(throws'.all)
                 /\ beat.pc = "answered" => beat.at <= granted + Latency
  <2>1. request'[c] = K!NoRequest /\ \A d \in K!Caller : d # c => request'[d] = request[d]
    BY <1>15, Replaced DEF K!Threw
  <2>2. UNCHANGED lease /\ throws'.all = throws.all + 1 /\ request[c].pc \in {"sent", "answered"}
    BY <1>15 DEF K!Threw
  <2>3. c = "beat" /\ handle' = time + RenewEveryMs
    BY <1>0, <1>1, <1>15 DEF K!Threw, K!Stop, K!Schedule
  <2>4. K!Rounds(throws'.all) = M + RenewEveryMs + Latency
    BY <2>2, RoundsType DEF M
  <2>5. time <= request["beat"].at + Latency /\ request["beat"].at <= G + Latency + M
    BY <1>3, <2>2, <2>3 DEF K!Beating
  <2>6. handle' <= G + Latency + K!Rounds(throws'.all)
    BY <1>3, <2>3, <2>4, <2>5
  <2>7. request'["beat"].pc = "idle" /\ \A d \in K!Caller : request'[d].pc = "answered" => request'[d].ok
    BY <1>3, <2>1, <2>3 DEF K!NoRequest
  <2> QED
    BY <1>3, <2>2, <2>6, <2>7 DEF G
<1> QED
  BY <1>7, <1>8, <1>9, <1>10, <1>11, <1>12, <1>13, <1>14, <1>15 DEF K!Next

(* A step keeps Noticing: after a takeover the next beat is soon due.    *)
LEMMA NoticingStep ==
  ASSUME K!KeeperParameters, K!KeeperInv, K!Next, K!TypeOK'
  PROVE  K!Noticing'
<1> USE RequestTypes, KeeperFacts DEF K!KeeperInv
<1>0. SUFFICES ASSUME (~stopped)', takenAt' # K!None
               PROVE  LET beat == request'["beat"]
                          R == K!Rounds(throws'.since)
                      IN /\ handle' # K!None => handle' <= takenAt' + R
                         /\ beat.pc # "idle" => beat.at <= takenAt' + R
                         /\ beat.pc = "answered" /\ beat.ok => beat.at <= takenAt'
  BY DEF K!Noticing, K!Rounds
<1>1. ~stopped /\ beating = "running"
  <2>1. CASE ~stopped
    BY <2>1 DEF K!Beating
  <2>2. CASE stopped
    BY <1>0, <2>2 DEF K!Next, K!Beat, K!RenewNow, K!EndCycle, K!Release, K!TakeOver, K!Tick,
       K!Renew, K!Refused, K!Renewed,
                      K!Threw, K!Stop
  <2> QED
    BY <2>1, <2>2
<1> DEFINE R == K!Rounds(throws.since)
<1>2. R \in Nat /\ R >= RenewEveryMs + Latency
  OBVIOUS
<1> HIDE DEF R
<1>3. CASE K!TakeOver
  <2>1. takenAt' = time /\ UNCHANGED <<handle, request, throws>>
    BY <1>3 DEF K!TakeOver
  <2>2. handle # K!None => handle <= time + R
    BY <1>2 DEF K!Beating
  <2>3. request["beat"].pc # "idle" => request["beat"].at <= time
    BY DEF K!Beating
  <2>4. request["beat"].pc # "idle" => request["beat"].at <= time + R
    BY <1>2, <2>3
  <2> QED
    BY <2>1, <2>2, <2>3, <2>4 DEF R
<1>4. ASSUME ~K!TakeOver
      PROVE  /\ takenAt' = takenAt /\ takenAt \in Nat /\ takenAt <= time /\ lease.holder = "other"
             /\ handle # K!None => handle <= takenAt + R
             /\ request["beat"].pc # "idle" => request["beat"].at <= takenAt + R
             /\ request["beat"].pc = "answered" /\ request["beat"].ok => request["beat"].at <= takenAt
  <2>1. takenAt' = takenAt
    BY <1>4 DEF K!Next, K!Beat, K!RenewNow, K!EndCycle, K!Release, K!Tick, K!Renew, K!Refused,
       K!Renewed, K!Threw
  <2> QED
    BY <1>0, <1>1, <2>1 DEF K!Noticing, K!Held, R
<1>5. CASE ~K!TakeOver /\ K!Beat
  <2>1. /\ request'["beat"] = [pc |-> "sent", at |-> time, ok |-> FALSE]
        /\ handle' = K!None /\ throws' = throws
    BY <1>5, Replaced DEF K!Beat, K!Send
  <2>2. time <= takenAt + R
    BY <1>4, <1>5 DEF K!Beat, K!Beating
  <2> QED
    BY <1>4, <1>5, <2>1, <2>2 DEF R
<1>6. CASE ~K!TakeOver /\ K!RenewNow
  <2>1. request'["beat"] = request["beat"] /\ UNCHANGED <<handle, throws>>
    BY <1>6, Replaced DEF K!RenewNow, K!Send
  <2> QED
    BY <1>4, <1>6, <2>1 DEF R
<1>7. CASE ~K!TakeOver /\ (K!EndCycle \/ K!Release)
  BY <1>0, <1>1, <1>7 DEF K!EndCycle, K!Stop, K!Release
<1>8. CASE ~K!TakeOver /\ K!Tick
  <2>1. UNCHANGED <<throws, handle, request>>
    BY <1>8 DEF K!Tick
  <2> QED
    BY <1>4, <1>8, <2>1 DEF R
<1>9. ASSUME ~K!TakeOver, NEW c \in K!Caller, K!Renew(c)
      PROVE  LET beat == request'["beat"]
             IN /\ handle' # K!None => handle' <= takenAt' + K!Rounds(throws'.since)
                /\ beat.pc # "idle" => beat.at <= takenAt' + K!Rounds(throws'.since)
                /\ beat.pc = "answered" /\ beat.ok => beat.at <= takenAt'
  <2> DEFINE r == [request[c] EXCEPT !.pc = "answered", !.ok = (lease.holder = "me")]
  <2>1. /\ request' = [request EXCEPT ![c] = r] /\ r.pc = "answered" /\ r.at = request[c].at
        /\ request[c].pc = "sent" /\ ~r.ok
    BY <1>4, <1>9 DEF K!Renew, Request
  <2> HIDE DEF r
  <2>2. request'[c] = r /\ \A d \in K!Caller : d # c => request'[d] = request[d]
    BY <2>1, Replaced
  <2>3. UNCHANGED <<throws, handle>>
    BY <1>9 DEF K!Renew
  <2> QED
    BY <1>4, <1>9, <2>1, <2>2, <2>3 DEF R
<1>10. ASSUME NEW c \in K!Caller, K!Refused(c)
       PROVE  FALSE
  BY <1>0, <1>10 DEF K!Refused, K!Stop
<1>11. ASSUME ~K!TakeOver, NEW c \in K!Caller, K!Renewed(c)
       PROVE  LET beat == request'["beat"]
              IN /\ handle' # K!None => handle' <= takenAt' + K!Rounds(throws'.since)
                 /\ beat.pc # "idle" => beat.at <= takenAt' + K!Rounds(throws'.since)
                 /\ beat.pc = "answered" /\ beat.ok => beat.at <= takenAt'
  <2>1. request'[c] = K!NoRequest /\ \A d \in K!Caller : d # c => request'[d] = request[d]
    BY <1>11, Replaced DEF K!Renewed
  <2>2. UNCHANGED throws /\ request[c].pc = "answered" /\ request[c].ok
    BY <1>11 DEF K!Renewed
  <2>3. CASE c = "beat"
    <3>1. handle' = time + RenewEveryMs
      BY <1>1, <1>11, <2>3 DEF K!Renewed, K!Schedule
    <3>2. time <= request["beat"].at + Latency /\ request["beat"].at <= takenAt
      BY <1>4, <1>11, <2>2, <2>3 DEF K!Beating
    <3>3. handle' <= takenAt + R
      BY <1>2, <1>4, <1>11, <3>1, <3>2
    <3> QED
      BY <1>4, <1>11, <2>1, <2>2, <2>3, <3>3 DEF R, K!NoRequest
  <2>4. CASE c # "beat"
    <3>1. handle' = handle /\ request'["beat"] = request["beat"]
      BY <1>11, <2>1, <2>4 DEF K!Renewed
    <3> QED
      BY <1>4, <1>11, <2>2, <3>1 DEF R
  <2> QED
    BY <2>3, <2>4
<1>12. ASSUME ~K!TakeOver, NEW c \in K!Caller, K!Threw(c)
       PROVE  LET beat == request'["beat"]
              IN /\ handle' # K!None => handle' <= takenAt' + K!Rounds(throws'.since)
                 /\ beat.pc # "idle" => beat.at <= takenAt' + K!Rounds(throws'.since)
                 /\ beat.pc = "answered" /\ beat.ok => beat.at <= takenAt'
  <2>1. request'[c] = K!NoRequest /\ \A d \in K!Caller : d # c => request'[d] = request[d]
    BY <1>12, Replaced DEF K!Threw
  <2>2. /\ throws' = [all |-> throws.all + 1,
                      since |-> throws.since + IF takenAt # K!None THEN 1 ELSE 0]
        /\ request[c].pc \in {"sent", "answered"}
    BY <1>12 DEF K!Threw
  <2>3. throws'.since = throws.since + 1
    BY <1>4, <1>12, <2>2
  <2>4. c = "beat" /\ handle' = time + RenewEveryMs
    BY <1>0, <1>1, <1>12 DEF K!Threw, K!Stop, K!Schedule
  <2>5. K!Rounds(throws'.since) = R + RenewEveryMs + Latency
    BY <2>3, RoundsType DEF R
  <2>6. time <= request["beat"].at + Latency /\ request["beat"].at <= takenAt + R
    BY <1>4, <1>12, <2>2, <2>4 DEF K!Beating
  <2>7. handle' <= takenAt + K!Rounds(throws'.since)
    BY <1>2, <1>4, <1>12, <2>4, <2>5, <2>6
  <2> QED
    BY <1>4, <1>12, <2>1, <2>4, <2>7 DEF K!NoRequest
<1> QED
  BY <1>3, <1>5, <1>6, <1>7, <1>8, <1>9, <1>10, <1>11, <1>12 DEF K!Next

(* The invariant of the lease keeper holds in the first state.           *)
LEMMA KeeperInvInit ==
  ASSUME K!KeeperParameters, K!Init
  PROVE  K!KeeperInv
<1>1. K!TypeOK
  <2>1. K!NoRequest \in [pc : {"idle", "sent", "answered"}, at : Nat, ok : BOOLEAN]
    BY DEF K!NoRequest
  <2>2. request \in [K!Caller -> [pc : {"idle", "sent", "answered"}, at : Nat, ok : BOOLEAN]]
    BY <2>1 DEF K!Init
  <2>3. /\ lease \in [holder : {"me", "other", "nobody"}, expiresAt : Nat]
        /\ throws \in [all : Nat, since : Nat] /\ time \in Nat /\ handle \in Nat
    BY DEF K!Init, K!KeeperParameters
  <2>4. takenAt = K!None /\ beating = "running" /\ stopped = FALSE /\ lost = FALSE /\ beatAborted = FALSE
    BY DEF K!Init
  <2> QED
    BY <2>2, <2>3, <2>4, Zenon DEF K!TypeOK
<1>2. \A c \in K!Caller : request[c].pc = "idle"
  BY DEF K!Init, K!NoRequest
<1>3. K!Beating
  BY <1>2 DEF K!Init, K!Beating, K!KeeperParameters, K!None, K!Caller
<1>4. K!Held
  BY DEF K!Init, K!Held, K!None
<1>5. K!Renewing
  <2>1. K!Rounds(0) \in Nat /\ K!Rounds(0) >= RenewEveryMs + Latency
    BY RoundsType
  <2>2. /\ throws.all = 0 /\ lease.expiresAt = TtlMs /\ lease.holder = "me" /\ handle = RenewEveryMs
        /\ TtlMs \in Nat /\ RenewEveryMs \in Nat /\ Latency \in Nat /\ "beat" \in K!Caller
    BY DEF K!Init, K!KeeperParameters, K!Caller
  <2>3. K!Rounds(throws.all) = K!Rounds(0)
    BY <2>2
  <2> QED
    BY <1>2, <2>1, <2>2, <2>3 DEF K!Renewing
<1>6. K!Noticing
  BY DEF K!Init, K!Noticing
<1>7. K!Unrefused
  BY DEF K!Init, K!Unrefused
<1> QED
  BY <1>1, <1>3, <1>4, <1>5, <1>6, <1>7 DEF K!KeeperInv

(* Every step keeps the invariant of the lease keeper.                   *)
LEMMA KeeperInvStep ==
  ASSUME K!KeeperParameters, K!KeeperInv, [K!Next]_(K!vars)
  PROVE  K!KeeperInv'
<1>1. CASE K!Next
  <2>1. K!TypeOK'
    BY <1>1, KeeperTypeStep DEF K!KeeperInv
  <2> QED
    BY <1>1, <2>1, BeatingStep, HeldStep, RenewingStep, UnrefusedStep, NoticingStep
       DEF K!KeeperInv
<1>2. CASE UNCHANGED K!vars
  BY <1>2 DEF K!vars, K!KeeperInv, K!TypeOK, K!Beating, K!Held, K!Renewing, K!Unrefused,
     K!Noticing, K!Rounds, K!Spare
<1> QED
  BY <1>1, <1>2

(* What the invariant says of a running cycle.                             *)
LEMMA KeeperInvSound ==
  ASSUME K!KeeperParameters, K!KeeperInv
  PROVE  K!KeeperSound
<1> USE KeeperFacts, RequestTypes DEF K!KeeperInv
<1>1. K!LeaseKept
  <2> SUFFICES ASSUME beating = "running", K!Spare(throws.all)
               PROVE  lease.holder = "me" /\ lease.expiresAt > time
    BY DEF K!LeaseKept
  <2> DEFINE M == K!Rounds(throws.all)
             G == lease.expiresAt - TtlMs
  <2>1. M + 2 * Latency < TtlMs /\ M \in Nat
    BY RoundsType
  <2>2. CASE ~stopped
    <3>1. /\ lease.holder = "me"
          /\ handle # K!None => handle <= G + Latency + M
          /\ request["beat"].pc = "sent" => request["beat"].at <= G + Latency + M
          /\ request["beat"].pc = "answered" => request["beat"].at <= G + Latency
      BY <2>2 DEF K!Renewing
    <3>2. /\ handle # K!None => time <= handle
          /\ handle = K!None => request["beat"].pc # "idle"
          /\ request["beat"].pc # "idle" => time <= request["beat"].at + Latency
      BY <2>2 DEF K!Beating
    <3>3. lease.expiresAt = G + TtlMs /\ G \in Int
      OBVIOUS
    <3> HIDE DEF M, G
    <3> QED
      BY <2>1, <3>1, <3>2, <3>3
  <2>3. CASE stopped
    BY <2>3 DEF K!Unrefused
  <2> QED
    BY <2>2, <2>3
<1>2. K!LossNoticed
  <2> SUFFICES ASSUME beating = "running", takenAt # K!None, ~beatAborted
               PROVE  ~(time > takenAt + (throws.since + 1) * (RenewEveryMs + Latency) + Latency)
    BY DEF K!LossNoticed
  <2> DEFINE R == K!Rounds(throws.since)
  <2>1. ~stopped
    BY DEF K!Beating
  <2>2. /\ handle # K!None => handle <= takenAt + R
        /\ request["beat"].pc # "idle" => request["beat"].at <= takenAt + R
    BY <2>1 DEF K!Noticing
  <2>3. /\ handle # K!None => time <= handle
        /\ handle = K!None => request["beat"].pc # "idle"
        /\ request["beat"].pc # "idle" => time <= request["beat"].at + Latency
    BY <2>1 DEF K!Beating
  <2>4. R \in Nat /\ R = (throws.since + 1) * (RenewEveryMs + Latency)
    BY DEF K!Rounds
  <2> HIDE DEF R
  <2>5. time <= takenAt + R + Latency
    BY <2>2, <2>3, <2>4
  <2>6. ~(time > takenAt + R + Latency)
    BY <2>4, <2>5
  <2> QED
    BY <2>4, <2>6, Zenon
<1>3. K!NoStrayTimer
  BY DEF K!NoStrayTimer, K!Beating
<1> QED
  BY <1>1, <1>2, <1>3 DEF K!KeeperSound

(* The heartbeat of startLeaseKeeper keeps a lease that has room for the *)
(* renewals that threw, notices within a bounded time that it was taken  *)
(* over, and leaves no timer behind when it stops, for any lease time,   *)
(* interval and latency.                                                 *)
THEOREM LeaseKeeping ==
  ASSUME K!KeeperParameters
  PROVE  K!Spec => []KeeperSound
<1>1. K!Init => K!KeeperInv
  BY KeeperInvInit
<1>2. K!KeeperInv /\ [K!Next]_(K!vars) => K!KeeperInv'
  BY KeeperInvStep
<1>3. K!KeeperInv => K!KeeperSound
  BY KeeperInvSound
<1> QED
  BY <1>1, <1>2, <1>3, PTL DEF K!Spec, KeeperSound

-----------------------------------------------------------------------------
SetOf(q) == {q[i] : i \in 1..Len(q)}
Once(q) == \A i, j \in 1..Len(q) : q[i] = q[j] => i = j

(* What an element added at the end does to the set of a queue.          *)
LEMMA AppendOnce ==
  ASSUME NEW S, NEW q \in Seq(S), NEW e \in S
  PROVE  /\ Append(q, e) \in Seq(S) /\ Append(q, e) # << >>
         /\ SetOf(Append(q, e)) = SetOf(q) \cup {e}
         /\ Once(q) /\ e \notin SetOf(q) => Once(Append(q, e))
<1>1. /\ Append(q, e) \in Seq(S) /\ Len(Append(q, e)) = Len(q) + 1 /\ Len(q) \in Nat
      /\ \A i \in 1..Len(q) : Append(q, e)[i] = q[i]
      /\ Append(q, e)[Len(q) + 1] = e
  OBVIOUS
<1>2. 1..(Len(q) + 1) = 1..Len(q) \cup {Len(q) + 1}
  BY <1>1
<1> DEFINE a == Append(q, e)
<1>3. a # << >>
  BY <1>1
<1> HIDE DEF a
<1>4. SetOf(a) = SetOf(q) \cup {e}
  BY <1>1, <1>2 DEF SetOf, a
<1>5. ASSUME Once(q), e \notin SetOf(q)
      PROVE  Once(a)
  BY <1>1, <1>2, <1>5 DEF Once, SetOf, a
<1> QED
  BY <1>1, <1>3, <1>4, <1>5 DEF a

(* What taking the head does to the set of a queue.                      *)
LEMMA TailOnce ==
  ASSUME NEW S, NEW q \in Seq(S), q # << >>
  PROVE  /\ Head(q) \in S /\ Tail(q) \in Seq(S)
         /\ SetOf(q) = {Head(q)} \cup SetOf(Tail(q))
         /\ Once(q) => Once(Tail(q)) /\ Head(q) \notin SetOf(Tail(q))
<1>1. /\ Head(q) \in S /\ Head(q) = q[1] /\ Tail(q) \in Seq(S)
      /\ Len(q) \in Nat /\ Len(q) >= 1 /\ Len(Tail(q)) = Len(q) - 1
      /\ \A i \in 1..(Len(q) - 1) : Tail(q)[i] = q[i + 1]
  OBVIOUS
<1> DEFINE t == Tail(q)
<1>2. \A i \in 2..Len(q) : i - 1 \in 1..(Len(q) - 1) /\ t[i - 1] = q[i]
  BY <1>1
<1> HIDE DEF t
<1>3. SetOf(q) = {q[1]} \cup SetOf(t)
  <2>1. \A x \in SetOf(t) : x \in SetOf(q)
    BY <1>1 DEF SetOf, t
  <2>2. q[1] \in SetOf(q)
    BY <1>1 DEF SetOf
  <2>3. ASSUME NEW x \in SetOf(q), x # q[1]
        PROVE  x \in SetOf(t)
    <3>1. PICK i \in 1..Len(q) : x = q[i]
      BY DEF SetOf
    <3>2. i \in 2..Len(q)
      BY <1>1, <2>3, <3>1
    <3> QED
      BY <1>1, <1>2, <3>1, <3>2 DEF SetOf, t
  <2> QED
    BY <2>1, <2>2, <2>3
<1>4. ASSUME Once(q)
      PROVE  Once(t) /\ q[1] \notin SetOf(t)
  BY <1>1, <1>4 DEF Once, SetOf, t
<1> QED
  BY <1>1, <1>3, <1>4 DEF t

(* A queue without repeats is as long as its set is large.               *)
LEMMA OnceLen ==
  ASSUME NEW S, NEW q \in Seq(S), Once(q)
  PROVE  Cardinality(SetOf(q)) = Len(q)
<1>1. Len(q) \in Nat
  OBVIOUS
<1>2. IsFiniteSet(1..Len(q)) /\ Cardinality(1..Len(q)) = Len(q)
  BY <1>1, FS_Interval
<1>3. ExistsBijection(1..Len(q), SetOf(q))
  <2> DEFINE f == [i \in 1..Len(q) |-> q[i]]
  <2>1. f \in Bijection(1..Len(q), SetOf(q))
    BY DEF Bijection, Injection, Surjection, SetOf, Once, IsInjective
  <2> QED
    BY <2>1 DEF ExistsBijection
<1> QED
  BY <1>2, <1>3, FS_Bijection

-----------------------------------------------------------------------------
IterInv == U!IteratorSound /\ U!LoopAgrees

(* The invariant, in the form the proofs use.                              *)
LEMMA IterFacts ==
  ASSUME U!SubscribeParameters, IterInv
  PROVE  /\ NoEvent \notin Event /\ queue \in Seq(Event) /\ Once(queue)
         /\ U!Queued = SetOf(queue) /\ SetOf(queue) \subseteq Event
         /\ handedOut \in Event \cup {NoEvent} /\ current \in Event \cup {NoEvent}
         /\ promise \in [Event -> {"none", "pending", "acked", "rejected"}]
         /\ U!Waiting = SetOf(queue) \cup ({handedOut} \ {NoEvent})
         /\ handedOut \notin SetOf(queue)
         /\ puller \in BOOLEAN /\ closed \in BOOLEAN /\ draining \in BOOLEAN
         /\ attached \in BOOLEAN /\ leaving \in BOOLEAN
         /\ offered \subseteq Event /\ handled \subseteq Event /\ thrown \subseteq Event
         /\ attempts \in [Event -> Nat] /\ loop \in {"new", "asking", "body", "left"}
<1>1. U!TypeOK /\ U!NoneForgotten
  BY DEF IterInv, U!IteratorSound
<1>2. SetOf(queue) \subseteq Event
  BY <1>1 DEF U!TypeOK, SetOf
<1>3. U!Queued = SetOf(queue) /\ Once(queue)
  BY DEF U!Queued, SetOf, IterInv, U!LoopAgrees, Once
<1> QED
  BY <1>1, <1>2, <1>3 DEF U!TypeOK, U!NoneForgotten, U!SubscribeParameters

(* The part counts as its surroundings do.                                 *)
LEMMA Counted ==
  ASSUME NEW S
  PROVE  U!Cardinality(S) = Cardinality(S)
BY DEF U!Cardinality, Cardinality

(* The invariant, in parts that a step is easily seen to keep.             *)
IterParts ==
  /\ U!TypeOK /\ U!AckedWasHandled /\ Once(queue)
  /\ U!Waiting = SetOf(queue) \cup ({handedOut} \ {NoEvent}) /\ handedOut \notin SetOf(queue)
  /\ handedOut # NoEvent => loop = "body" /\ current = handedOut
  /\ closed => U!Waiting = {} /\ ~puller
  /\ puller <=> loop = "asking"
  /\ loop = "body" => current # NoEvent
  /\ U!Waiting \subseteq offered
  /\ ~draining => offered = {}

(* The invariant of the iterator follows from its parts.                 *)
LEMMA IterFromParts == IterParts => IterInv
<1> SUFFICES ASSUME IterParts PROVE IterInv
  OBVIOUS
<1>1. U!Queued = SetOf(queue)
  BY DEF U!Queued, SetOf
<1>2. Cardinality(SetOf(queue)) = Len(queue)
  BY OnceLen DEF IterParts, U!TypeOK
<1>3. U!NoneForgotten
  <2>1. U!Waiting = U!Queued \cup ({handedOut} \ {NoEvent}) /\ handedOut \notin U!Queued
    BY <1>1, Zenon DEF IterParts
  <2>2. Len(queue) = U!Cardinality(U!Queued)
    BY <1>1, <1>2, Counted
  <2>3. /\ handedOut # NoEvent => loop = "body" /\ current = handedOut
        /\ closed => U!Waiting = {} /\ ~puller /\ loop # "asking"
    BY Zenon DEF IterParts
  <2> QED
    BY <2>1, <2>2, <2>3, Zenon DEF U!NoneForgotten
<1>4. U!LoopAgrees
  BY DEF IterParts, U!LoopAgrees, Once
<1> QED
  BY <1>3, <1>4 DEF IterParts, IterInv, U!IteratorSound

(* The same in the next state.                                           *)
LEMMA IterFromPartsNext == IterParts' => IterInv'
BY IterFromParts, PTL

(* Settling the event handed out leaves pending exactly the events that  *)
(* are queued.                                                           *)
LEMMA SettleType ==
  ASSUME U!SubscribeParameters, IterInv, NEW res \in {"acked", "rejected"}
  PROVE  LET a == U!Settle(promise, res) IN
         /\ a \in [Event -> {"none", "pending", "acked", "rejected"}]
         /\ \A e \in Event : a[e] = IF e = handedOut THEN res ELSE promise[e]
         /\ {e \in Event : a[e] = "pending"} = SetOf(queue)
<1> USE IterFacts
<1>1. CASE handedOut = NoEvent
  BY <1>1 DEF U!Settle, U!Waiting
<1>2. CASE handedOut # NoEvent
  BY <1>2 DEF U!Settle, U!Waiting
<1> QED
  BY <1>1, <1>2

(* After a close nobody waits.                                             *)
LEMMA CloseType ==
  ASSUME U!SubscribeParameters, IterInv, NEW res \in {"acked", "rejected"},
         U!Close(U!Settle(promise, res))
  PROVE  /\ promise' \in [Event -> {"none", "pending", "acked", "rejected"}]
         /\ U!Waiting' = {} /\ SetOf(queue') = {} /\ Once(queue') /\ queue' \in Seq(Event)
         /\ closed' = TRUE /\ puller' = FALSE /\ handedOut' = NoEvent
         /\ \A e \in Event : promise'[e] = "acked" => promise[e] = "acked" \/ (e = handedOut /\ res = "acked")
<1> DEFINE a == U!Settle(promise, res)
<1>1. /\ a \in [Event -> {"none", "pending", "acked", "rejected"}]
      /\ \A e \in Event : a[e] = IF e = handedOut THEN res ELSE promise[e]
      /\ {e \in Event : a[e] = "pending"} = SetOf(queue)
  BY SettleType
<1> HIDE DEF a
<1>2. promise' = [e \in Event |-> IF e \in SetOf(queue) THEN "rejected" ELSE a[e]]
  BY IterFacts DEF U!Close, a
<1>3. /\ promise' \in [Event -> {"none", "pending", "acked", "rejected"}]
      /\ \A e \in Event : promise'[e] = IF e \in SetOf(queue) THEN "rejected" ELSE a[e]
  BY <1>1, <1>2
<1>4. U!Waiting' = {}
  BY <1>1, <1>3 DEF U!Waiting
<1>5. queue' = << >> /\ closed' = TRUE /\ puller' = FALSE /\ handedOut' = NoEvent
  BY DEF U!Close
<1>6. SetOf(queue') = {} /\ Once(queue') /\ queue' \in Seq(Event)
  BY <1>5 DEF SetOf, Once
<1> QED
  BY <1>1, <1>3, <1>4, <1>5, <1>6

(* pump() hands the first event out, and forgets none.                     *)
LEMMA PumpStep ==
  ASSUME U!SubscribeParameters, IterInv,
         NEW asking \in BOOLEAN, NEW busy \in Event \cup {NoEvent}, NEW q \in Seq(Event),
         NEW answers,
         answers \in [Event -> {"none", "pending", "acked", "rejected"}],
         Once(q), busy \notin SetOf(q),
         {e \in Event : answers[e] = "pending"} = SetOf(q) \cup ({busy} \ {NoEvent}),
         busy # NoEvent => ~asking /\ loop = "body" /\ current = busy,
         ~asking => loop # "asking",
         U!Pump(asking, busy, q, answers)
  PROVE  /\ queue' \in Seq(Event) /\ Once(queue') /\ promise' = answers
         /\ U!Waiting' = SetOf(queue') \cup ({handedOut'} \ {NoEvent}) /\ handedOut' \notin SetOf(queue')
         /\ handedOut' \in Event \cup {NoEvent} /\ current' \in Event \cup {NoEvent}
         /\ loop' \in {"new", "asking", "body", "left"} /\ puller' \in BOOLEAN
         /\ handedOut' # NoEvent => loop' = "body" /\ current' = handedOut'
         /\ puller' <=> loop' = "asking"
         /\ loop' = "body" => current' # NoEvent
         /\ puller' => asking
<1> USE IterFacts
<1>0. promise' = answers /\ U!Waiting' = SetOf(q) \cup ({busy} \ {NoEvent})
  BY DEF U!Pump, U!Waiting
<1>1. CASE asking /\ busy = NoEvent /\ q # << >>
  <2>1. /\ puller' = FALSE /\ handedOut' = Head(q) /\ queue' = Tail(q)
        /\ loop' = "body" /\ current' = Head(q)
    BY <1>1 DEF U!Pump
  <2>2. /\ Head(q) \in Event /\ Tail(q) \in Seq(Event)
        /\ SetOf(q) = {Head(q)} \cup SetOf(Tail(q))
        /\ Once(Tail(q)) /\ Head(q) \notin SetOf(Tail(q))
    BY <1>1, TailOnce
  <2> QED
    BY <1>0, <1>1, <2>1, <2>2
<1>2. CASE ~(asking /\ busy = NoEvent /\ q # << >>)
  <2>1. /\ puller' = asking /\ handedOut' = busy /\ queue' = q
        /\ loop' = IF asking THEN "asking" ELSE loop
        /\ current' = IF asking THEN NoEvent ELSE current
    BY <1>2 DEF U!Pump
  <2>2. loop = "body" => current # NoEvent
    BY DEF IterInv, U!LoopAgrees
  <2> QED
    BY <1>0, <1>2, <2>1, <2>2
<1> QED
  BY <1>1, <1>2

(* Every step keeps the invariant of the iterator.                       *)
LEMMA IterStep ==
  ASSUME U!SubscribeParameters, IterInv, U!Next
  PROVE  IterInv'
<1> USE IterFacts
<1>0. /\ U!AckedWasHandled /\ (closed => U!Waiting = {} /\ ~puller)
      /\ handedOut # NoEvent => loop = "body" /\ current = handedOut
      /\ puller <=> loop = "asking"
      /\ loop = "body" => current # NoEvent
      /\ U!Waiting \subseteq offered /\ (~draining => offered = {})
  BY DEF IterInv, U!IteratorSound, U!NoneForgotten, U!LoopAgrees
<1>1. CASE U!DrainStarts \/ U!DrainEnds \/ U!Detach
  <2>1. /\ UNCHANGED <<U!iterVars, loop, current, promise, attempts, handled, thrown>>
        /\ draining' \in BOOLEAN /\ offered' \subseteq Event
        /\ attached' \in BOOLEAN /\ leaving' \in BOOLEAN
        /\ U!Waiting \subseteq offered' /\ (~draining' => offered' = {})
    BY <1>0, <1>1 DEF U!DrainStarts, U!DrainEnds, U!Detach
  <2>2. U!Waiting' = U!Waiting /\ U!AckedWasHandled'
    BY <1>0, <2>1 DEF U!Waiting, U!AckedWasHandled
  <2>3. U!TypeOK'
    BY <2>1 DEF U!TypeOK, U!iterVars
  <2> QED
    BY <1>0, <2>1, <2>2, <2>3, IterFromPartsNext DEF U!iterVars, SetOf, Once, IterParts
<1>2. ASSUME NEW e \in Event, U!Deliver(e)
      PROVE  IterInv'
  <2>1. /\ draining /\ e \notin offered /\ promise[e] # "acked"
        /\ offered' = offered \cup {e} /\ attempts' = [attempts EXCEPT ![e] = @ + 1]
        /\ UNCHANGED <<closed, attached, leaving, draining, handled, thrown>>
    BY <1>2 DEF U!Deliver
  <2>2. e \notin U!Waiting /\ e \notin SetOf(queue) /\ e # handedOut
    BY <1>0, <2>1
  <2>3. attempts' \in [Event -> Nat]
    BY <2>1
  <2>4. CASE closed
    <3>1. /\ promise' = [promise EXCEPT ![e] = "rejected"]
          /\ UNCHANGED <<puller, handedOut, queue, loop, current>>
      BY <1>2, <2>4 DEF U!Deliver
    <3>2. /\ promise' \in [Event -> {"none", "pending", "acked", "rejected"}]
          /\ U!Waiting' = U!Waiting /\ U!AckedWasHandled'
      BY <1>0, <2>1, <2>2, <3>1 DEF U!Waiting, U!AckedWasHandled
    <3>3. U!TypeOK'
      BY <2>1, <2>3, <3>1, <3>2 DEF U!TypeOK
    <3> QED
      BY <1>0, <2>1, <3>1, <3>2, <3>3, IterFromPartsNext DEF SetOf, Once, IterParts
  <2>5. CASE ~closed
    <3> DEFINE q == Append(queue, e)
               a == [promise EXCEPT ![e] = "pending"]
    <3>1. U!Pump(puller, handedOut, q, a)
      BY <1>2, <2>5 DEF U!Deliver
    <3>2. q \in Seq(Event) /\ SetOf(q) = SetOf(queue) \cup {e} /\ Once(q)
      BY <2>2, AppendOnce
    <3>3. /\ a \in [Event -> {"none", "pending", "acked", "rejected"}]
          /\ {x \in Event : a[x] = "pending"} = U!Waiting \cup {e}
          /\ \A x \in Event : a[x] = "acked" => promise[x] = "acked"
      BY <2>1 DEF U!Waiting
    <3> HIDE DEF q, a
    <3>4. /\ queue' \in Seq(Event) /\ Once(queue') /\ promise' = a
          /\ U!Waiting' = SetOf(queue') \cup ({handedOut'} \ {NoEvent}) /\ handedOut' \notin SetOf(queue')
          /\ handedOut' \in Event \cup {NoEvent} /\ current' \in Event \cup {NoEvent}
          /\ loop' \in {"new", "asking", "body", "left"} /\ puller' \in BOOLEAN
          /\ handedOut' # NoEvent => loop' = "body" /\ current' = handedOut'
          /\ puller' <=> loop' = "asking"
          /\ loop' = "body" => current' # NoEvent
      <4>1. handedOut # NoEvent => ~puller /\ loop = "body" /\ current = handedOut
        BY <1>0
      <4>2. handedOut \notin SetOf(q) /\ (~puller => loop # "asking")
        BY <1>0, <2>2, <3>2
      <4>3. {x \in Event : a[x] = "pending"} = SetOf(q) \cup ({handedOut} \ {NoEvent})
        BY <3>2, <3>3
      <4>4. CASE puller = TRUE
        BY <3>1, <3>2, <3>3, <4>1, <4>2, <4>3, <4>4, PumpStep
      <4>5. CASE puller = FALSE
        BY <3>1, <3>2, <3>3, <4>1, <4>2, <4>3, <4>5, PumpStep
      <4> QED
        BY <4>4, <4>5
    <3>5. U!Waiting' \subseteq offered'
      BY <1>0, <2>1, <3>3, <3>4 DEF U!Waiting
    <3>6. U!AckedWasHandled'
      BY <1>0, <2>1, <3>3, <3>4 DEF U!AckedWasHandled
    <3>7. U!TypeOK'
      BY <2>1, <2>3, <3>3, <3>4 DEF U!TypeOK
    <3> QED
      BY <1>0, <2>1, <2>5, <3>4, <3>5, <3>6, <3>7, IterFromPartsNext DEF IterParts
  <2> QED
    BY <2>4, <2>5
<1>3. CASE U!Ask
  <2> DEFINE a == U!Settle(promise, "acked")
  <2>1. /\ a \in [Event -> {"none", "pending", "acked", "rejected"}]
        /\ \A e \in Event : a[e] = IF e = handedOut THEN "acked" ELSE promise[e]
        /\ {e \in Event : a[e] = "pending"} = SetOf(queue)
    BY SettleType
  <2>2. /\ loop \in {"new", "body"} /\ handled' = handled \cup ({current} \ {NoEvent})
        /\ UNCHANGED <<closed, attached, leaving, attempts, draining, offered, thrown>>
    BY <1>3 DEF U!Ask, U!Finish
  <2>3. handled' \subseteq Event
    BY <2>2
  <2>4. CASE closed
    <3>1. /\ loop' = "left" /\ current' = NoEvent /\ promise' = a /\ handedOut' = NoEvent
          /\ UNCHANGED <<puller, queue>>
      BY <1>3, <2>4 DEF U!Ask
    <3>2. ~puller /\ SetOf(queue) = {}
      BY <1>0, <2>4
    <3> HIDE DEF a
    <3>3. U!Waiting' = {} /\ U!AckedWasHandled'
      BY <1>0, <2>1, <2>2, <3>1, <3>2 DEF U!Waiting, U!AckedWasHandled
    <3>4. U!TypeOK'
      BY <2>1, <2>2, <2>3, <3>1 DEF U!TypeOK
    <3>5. SetOf(queue') = {} /\ Once(queue')
      <4>1. queue' = queue
        BY <3>1
      <4> QED
        BY <3>2, <4>1
    <3> QED
      BY <1>0, <2>2, <3>1, <3>2, <3>3, <3>4, <3>5, IterFromPartsNext DEF IterParts
  <2>5. CASE ~closed
    <3>1. U!Pump(TRUE, NoEvent, queue, a)
      BY <1>3, <2>5 DEF U!Ask
    <3> HIDE DEF a
    <3>2. /\ queue' \in Seq(Event) /\ Once(queue') /\ promise' = a
          /\ U!Waiting' = SetOf(queue') \cup ({handedOut'} \ {NoEvent}) /\ handedOut' \notin SetOf(queue')
          /\ handedOut' \in Event \cup {NoEvent} /\ current' \in Event \cup {NoEvent}
          /\ loop' \in {"new", "asking", "body", "left"} /\ puller' \in BOOLEAN
          /\ handedOut' # NoEvent => loop' = "body" /\ current' = handedOut'
          /\ puller' <=> loop' = "asking"
          /\ loop' = "body" => current' # NoEvent
      <4>1. NoEvent \notin SetOf(queue)
            /\ {e \in Event : a[e] = "pending"} = SetOf(queue) \cup ({NoEvent} \ {NoEvent})
        BY <2>1
      <4> QED
        BY <2>1, <3>1, <4>1, PumpStep
    <3>3. U!Waiting' \subseteq offered'
      BY <1>0, <2>1, <2>2, <3>2 DEF U!Waiting
    <3>4. U!AckedWasHandled'
      BY <1>0, <2>1, <2>2, <3>2 DEF U!AckedWasHandled
    <3>5. U!TypeOK'
      BY <2>1, <2>2, <2>3, <3>2 DEF U!TypeOK
    <3> QED
      BY <1>0, <2>2, <2>5, <3>2, <3>3, <3>4, <3>5, IterFromPartsNext DEF IterParts
  <2> QED
    BY <2>4, <2>5
<1>4. CASE U!Break \/ U!BodyThrows \/ U!IteratorThrow
  <2>1. PICK res \in {"acked", "rejected"} : U!Close(U!Settle(promise, res))
    BY <1>4 DEF U!Break, U!BodyThrows, U!IteratorThrow, U!Return
  <2>2. /\ loop = "body" /\ loop' = "left" /\ current' = NoEvent /\ leaving' = TRUE
        /\ UNCHANGED <<attached, attempts, draining, offered>>
        /\ handled \subseteq handled' /\ thrown \subseteq thrown'
        /\ handled' \cup thrown' = handled \cup thrown \cup {current}
        /\ handled' \subseteq handled \cup {current} /\ thrown' \subseteq thrown \cup {current}
    BY <1>0, <1>4 DEF U!Break, U!BodyThrows, U!IteratorThrow, U!Return, U!Finish
  <2>3. current \in Event
    BY <1>0, <2>2
  <2>4. U!AckedWasHandled'
    BY <1>0, <2>1, <2>2, CloseType DEF U!AckedWasHandled
  <2>5. U!TypeOK'
    BY <2>1, <2>2, <2>3, CloseType DEF U!TypeOK
  <2> QED
    BY <1>0, <2>1, <2>2, <2>4, <2>5, CloseType, IterFromPartsNext DEF IterParts
<1>5. CASE U!Abort \/ U!StopEngine
  <2>1. /\ U!Close(U!Settle(promise, "rejected"))
        /\ loop' = IF loop = "asking" THEN "left" ELSE loop
        /\ UNCHANGED <<leaving, current, attempts, draining, offered, handled, thrown>>
        /\ attached' \in BOOLEAN
    BY <1>5 DEF U!Abort, U!StopEngine, U!CloseFromOutside
  <2>2. U!AckedWasHandled'
    BY <1>0, <2>1, CloseType DEF U!AckedWasHandled
  <2>3. U!TypeOK'
    BY <2>1, CloseType DEF U!TypeOK
  <2> QED
    BY <1>0, <2>1, <2>2, <2>3, CloseType, IterFromPartsNext DEF IterParts
<1> QED
  BY <1>1, <1>2, <1>3, <1>4, <1>5 DEF U!Next

(* The invariant of the iterator holds in the first state.               *)
LEMMA IterInvInit ==
  ASSUME U!SubscribeParameters, U!Init
  PROVE  IterInv
<1>1. U!TypeOK /\ U!AckedWasHandled
  <2>1. /\ promise \in [Event -> {"none", "pending", "acked", "rejected"}]
        /\ attempts \in [Event -> Nat] /\ queue \in Seq(Event)
        /\ \A e \in Event : promise[e] # "acked"
    BY DEF U!Init
  <2>2. /\ puller = FALSE /\ closed = FALSE /\ attached = TRUE /\ leaving = FALSE /\ draining = FALSE
        /\ handedOut = NoEvent /\ current = NoEvent /\ loop = "new"
        /\ offered = {} /\ handled = {} /\ thrown = {}
    BY DEF U!Init
  <2>3. U!TypeOK
    BY <2>1, <2>2, Zenon DEF U!TypeOK
  <2> QED
    BY <2>1, <2>3 DEF U!AckedWasHandled
<1>2. SetOf(queue) = {} /\ Once(queue) /\ U!Waiting = {}
  BY DEF U!Init, SetOf, Once, U!Waiting
<1> QED
  BY <1>1, <1>2, IterFromParts DEF U!Init, IterParts

(* Nobody waits for a promise that nobody will settle, and nothing is    *)
(* acknowledged that the loop has not had (deliver, next, return,        *)
(* close), for any set of events and any number of drains.               *)
THEOREM IteratorKept ==
  ASSUME U!SubscribeParameters
  PROVE  U!Spec => []IteratorSound
<1>1. U!Init => IterInv
  BY IterInvInit
<1>2. IterInv /\ [U!Next]_(U!vars) => IterInv'
  <2>1. ASSUME IterInv, UNCHANGED U!vars
        PROVE  IterInv'
    <3>1. U!TypeOK' /\ U!AckedWasHandled'
      BY <2>1 DEF U!vars, U!iterVars, IterInv, U!IteratorSound, U!TypeOK, U!AckedWasHandled
    <3>2. U!Waiting' = U!Waiting /\ U!Queued' = U!Queued
      BY <2>1 DEF U!vars, U!iterVars, U!Waiting, U!Queued
    <3>3. U!NoneForgotten' /\ U!LoopAgrees'
      BY <2>1, <3>2 DEF U!vars, U!iterVars, IterInv, U!IteratorSound, U!NoneForgotten,
         U!LoopAgrees
    <3> QED
      BY <3>1, <3>3 DEF IterInv, U!IteratorSound
  <2> QED
    BY <2>1, IterStep
<1>3. IterInv => U!IteratorSound
  BY DEF IterInv
<1> QED
  BY <1>1, <1>2, <1>3, PTL DEF U!Spec, IteratorSound

-----------------------------------------------------------------------------
CallType == [pc : {"idle", "sign", "fetch", "body", "returned", "threw"}, timestamp : Nat,
             status : W!Status, acked : BOOLEAN]

(* What a time in whole seconds says of the time in milliseconds.        *)
LEMMA Seconds ==
  ASSUME W!WebhookParameters, NEW c \in Nat
  PROVE  /\ c \div PerSecond \in Nat
         /\ (c \div PerSecond) * PerSecond <= c
         /\ c < (c \div PerSecond) * PerSecond + PerSecond
BY DEF W!WebhookParameters

(* Within the tolerance in time is within the tolerance in whole seconds.  *)
LEMMA YoungVerifies ==
  ASSUME W!WebhookParameters, clock \in Nat, NEW sent \in Nat, sent <= clock,
         clock <= sent + TimeoutTicks, TimeoutTicks <= Tolerance * PerSecond
  PROVE  W!Verifies(sent \div PerSecond)
<1> DEFINE Per == PerSecond
           q == sent \div PerSecond
           r == clock \div PerSecond
           qP == q * Per
           rP == r * Per
           TP == Tolerance * Per
<1>1. /\ Per \in Nat /\ Per > 0 /\ Tolerance \in Nat /\ q \in Nat /\ r \in Nat
      /\ qP \in Nat /\ rP \in Nat /\ TP \in Nat /\ TimeoutTicks \in Nat
      /\ qP <= sent /\ sent < qP + Per /\ rP <= clock /\ clock < rP + Per
  BY Seconds DEF W!WebhookParameters
<1>2. clock <= sent + TP
  BY <1>1
<1>3. rP < qP + TP + Per /\ qP < rP + Per
  <2> HIDE DEF q, r, qP, rP, TP, Per
  <2> QED BY <1>1, <1>2
<1>4. r <= q + Tolerance
  <2> SUFFICES ASSUME r >= q + Tolerance + 1 PROVE FALSE
    BY <1>1
  <2>1. \E d \in Nat : r = q + Tolerance + 1 + d
    <3>1. r - (q + Tolerance + 1) \in Nat
      BY <1>1
    <3>2. r = q + Tolerance + 1 + (r - (q + Tolerance + 1))
      BY <1>1
    <3> QED
      BY <3>1, <3>2
  <2>2. PICK d \in Nat : r = q + Tolerance + 1 + d
    BY <2>1
  <2>3. rP = qP + TP + Per + d * Per /\ d * Per >= 0
    <3> HIDE DEF q, r, Per
    <3> QED BY <1>1, <2>2
  <2> QED
    <3>1. d * Per \in Int
      BY <1>1
    <3> HIDE DEF q, r, qP, rP, TP, Per
    <3> QED BY <1>1, <1>3, <2>3, <3>1
<1>5. q <= r
  <2> SUFFICES ASSUME q >= r + 1 PROVE FALSE
    BY <1>1
  <2>1. \E d \in Nat : q = r + 1 + d
    <3>1. q - (r + 1) \in Nat
      BY <1>1
    <3>2. q = r + 1 + (q - (r + 1))
      BY <1>1
    <3> QED
      BY <3>1, <3>2
  <2>2. PICK d \in Nat : q = r + 1 + d
    BY <2>1
  <2>3. qP = rP + Per + d * Per /\ d * Per >= 0
    <3> HIDE DEF q, r, Per
    <3> QED BY <1>1, <2>2
  <2> QED
    <3>1. d * Per \in Int
      BY <1>1
    <3> HIDE DEF q, r, qP, rP, TP, Per
    <3> QED BY <1>1, <1>3, <2>3, <3>1
<1>6. r - q <= Tolerance /\ -(r - q) <= Tolerance
  <2> HIDE DEF q, r
  <2> QED BY <1>1, <1>4, <1>5
<1> QED
  BY <1>6 DEF W!Verifies

(* The call, field by field.                                               *)
LEMMA SinkTypes ==
  ASSUME W!WebhookParameters, W!TypeOK
  PROVE  /\ clock \in Nat /\ clock <= MaxClock /\ timeout \in Nat \cup {W!Off} /\ W!Off = -1
         /\ tries \in Nat /\ tries <= Tries
         /\ call \in CallType /\ call.pc \in {"idle", "sign", "fetch", "body", "returned", "threw"}
         /\ call.timestamp \in Nat /\ call.status \in W!Status /\ call.acked \in BOOLEAN
         /\ TimeoutTicks \in Nat /\ Tries \in Nat /\ MaxClock \in Nat
         /\ W!Timestamp \in Nat
         /\ \A r \in wire : /\ r \in [try : 1..tries, timestamp : Nat, status : W!Status]
                            /\ r.try \in 1..tries /\ r.timestamp \in Nat /\ r.status \in W!Status
<1>1. clock \in Nat
  BY DEF W!TypeOK, W!WebhookParameters
<1>2. W!Timestamp \in Nat
  BY <1>1, Seconds DEF W!Timestamp
<1>3. \A r \in wire : /\ r \in [try : 1..tries, timestamp : Nat, status : W!Status]
                      /\ r.try \in 1..tries /\ r.timestamp \in Nat /\ r.status \in W!Status
  BY DEF W!TypeOK
<1>4. /\ call \in CallType /\ call.pc \in {"idle", "sign", "fetch", "body", "returned", "threw"}
      /\ call.timestamp \in Nat /\ call.status \in W!Status /\ call.acked \in BOOLEAN
  BY DEF W!TypeOK, CallType
<1> QED
  BY <1>1, <1>2, <1>3, <1>4 DEF W!TypeOK, W!WebhookParameters, W!Off

(* The steps of a call leave the requests alone.                           *)
Quiet == UNCHANGED <<clock, manual, useAny, parent, timeout, listeners, signal, wire, tries, accepted,
                     refused, outcome>>

(* A step of a call that leaves the requests alone keeps the invariant.  *)
LEMMA QuietStep ==
  ASSUME W!WebhookParameters, W!SinkInv, Quiet, call' \in CallType,
         call'.pc \in {"body", "returned", "threw"}, call.pc \in {"fetch", "body"},
         call'.pc = "body" /\ W!IsSuccess(call'.status) => accepted,
         call'.pc = "returned" => accepted
  PROVE  W!SinkInv'
<1> USE SinkTypes DEF W!SinkInv
<1>1. W!TypeOK'
  BY DEF W!TypeOK, Quiet, CallType
<1>2. W!SuccessAccepted'
  BY DEF W!SuccessAccepted, Quiet, W!IsSuccess
<1>3. W!Composed' /\ W!SignedAnew' /\ W!InTime' /\ W!TriesVerify'
  BY DEF W!Composed, W!SignedAnew, W!InTime, W!TriesVerify, Quiet
<1> QED
  BY <1>1, <1>2, <1>3

(* Every step keeps the invariant of the sink.                           *)
LEMMA SinkStep ==
  ASSUME W!WebhookParameters, W!SinkInv, W!Next
  PROVE  W!SinkInv'
<1> USE SinkTypes DEF W!SinkInv
<1>1. CASE W!Deliver
  <2>1. /\ call.pc = "idle" /\ outcome = "pending" /\ tries < Tries
        /\ tries' = tries + 1
        /\ call' = [W!NoCall EXCEPT !.pc = "sign", !.timestamp = W!Timestamp]
        /\ UNCHANGED <<clock, manual, useAny, parent, timeout, listeners, signal, wire, accepted,
                       refused, outcome>>
    BY <1>1 DEF W!Deliver
  <2>2. /\ call'.pc = "sign" /\ call'.timestamp = W!Timestamp /\ call' \in CallType
    <3>1. call' = [pc |-> "sign", timestamp |-> W!Timestamp, status |-> 0, acked |-> FALSE]
      BY <2>1 DEF W!NoCall
    <3> QED
      BY <3>1 DEF CallType, W!Status
  <2>3. wire' \subseteq [try : 1..tries', timestamp : Nat, status : W!Status]
    <3>1. 1..tries \subseteq 1..(tries + 1)
      OBVIOUS
    <3> QED
      BY <2>1, <3>1 DEF W!TypeOK
  <2>4. W!TypeOK'
    BY <2>1, <2>2, <2>3 DEF W!TypeOK, CallType, W!WebhookParameters
  <2>5. W!SuccessAccepted' /\ W!InTime' /\ W!TriesVerify'
    BY <2>1, <2>2 DEF W!SuccessAccepted, W!InTime, W!TriesVerify, W!IsSuccess
  <2>6. W!Composed'
    BY <2>1, <2>2 DEF W!Composed
  <2>7. W!SignedAnew'
    BY <2>1, <2>2 DEF W!SignedAnew, W!Timestamp
  <2> QED
    BY <2>4, <2>5, <2>6, <2>7
<1>2. CASE W!Send
  <2> DEFINE r == [try |-> tries, timestamp |-> call.timestamp, status |-> 0]
  <2>1. /\ call.pc = "sign" /\ timeout' = clock + TimeoutTicks
        /\ listeners' = IF useAny \/ parent THEN 0 ELSE 1
        /\ signal' = parent /\ wire' = IF parent THEN wire ELSE wire \cup {r}
        /\ call' = [call EXCEPT !.pc = IF parent THEN "threw" ELSE "fetch"]
        /\ UNCHANGED <<clock, manual, useAny, parent, tries, accepted, refused, outcome>>
    BY <1>2 DEF W!Send
  <2>2. /\ call' \in CallType /\ call'.pc = (IF parent THEN "threw" ELSE "fetch")
        /\ call'.timestamp = call.timestamp
    BY <2>1 DEF CallType
  <2>3. call.timestamp = W!Timestamp /\ tries > 0 /\ \A x \in wire : x.try < tries
    BY <2>1 DEF W!SignedAnew, W!Composed
  <2>4. r \in [try : 1..tries, timestamp : Nat, status : W!Status] /\ r.try = tries
        /\ r.timestamp = call.timestamp /\ r.status = 0
    BY <2>3 DEF W!Status
  <2> HIDE DEF r
  <2>5. wire' \subseteq [try : 1..tries', timestamp : Nat, status : W!Status]
    BY <2>1, <2>4 DEF W!TypeOK
  <2>6. timeout' \in Nat /\ listeners' \in 0..1
    BY <2>1
  <2>7. W!TypeOK'
    BY <2>1, <2>2, <2>5, <2>6 DEF W!TypeOK, CallType
  <2>8. W!SuccessAccepted'
    BY <2>1, <2>2, <2>4 DEF W!SuccessAccepted, W!IsSuccess
  <2>9. W!Composed' /\ W!TriesVerify'
    BY <2>1, <2>2, <2>3 DEF W!Composed, W!TriesVerify
  <2>10. W!SignedAnew'
    BY <2>1, <2>2, <2>3, <2>4 DEF W!SignedAnew
  <2>11. W!InTime'
    <3>1. clock \in 0..clock /\ clock <= clock + TimeoutTicks /\ timeout' # W!Off
          /\ call'.timestamp = clock \div PerSecond
      BY <2>1, <2>2, <2>3, <2>6 DEF W!Timestamp
    <3> QED
      BY <2>1, <3>1 DEF W!InTime
  <2> QED
    BY <2>7, <2>8, <2>9, <2>10, <2>11
<1>3. CASE W!Respond
  <2>1. PICK r \in wire : r.status # 0 /\ call' = [call EXCEPT !.pc = "body", !.status = r.status]
    BY <1>3 DEF W!Respond
  <2>2. call' \in CallType /\ call'.pc = "body" /\ call'.status = r.status
    BY <2>1 DEF CallType
  <2>3. W!IsSuccess(r.status) => accepted
    BY DEF W!SuccessAccepted
  <2>4. Quiet /\ call.pc = "fetch"
    BY <1>3 DEF W!Respond, Quiet
  <2> QED
    BY <2>2, <2>3, <2>4, QuietStep
<1>4. CASE W!Finish
  <2>1. /\ call.pc = "body" /\ Quiet
        /\ call' = IF W!IsSuccess(call.status) THEN [call EXCEPT !.pc = "returned", !.acked = TRUE]
                   ELSE [call EXCEPT !.pc = "threw"]
    BY <1>4 DEF W!Finish, Quiet
  <2>2. call' \in CallType /\ call'.pc = (IF W!IsSuccess(call.status) THEN "returned" ELSE "threw")
    BY <2>1 DEF CallType
  <2>3. W!IsSuccess(call.status) => accepted
    BY <2>1 DEF W!SuccessAccepted
  <2> QED
    BY <2>1, <2>2, <2>3, QuietStep
<1>5. CASE W!Reject
  <2>1. call.pc = "fetch" /\ Quiet /\ call' = [call EXCEPT !.pc = "threw"]
    BY <1>5 DEF W!Reject, Quiet
  <2>2. call' \in CallType /\ call'.pc = "threw"
    BY <2>1 DEF CallType
  <2> QED
    BY <2>1, <2>2, QuietStep
<1>6. CASE W!Settle
  <2>1. /\ call.pc \in {"returned", "threw"} /\ timeout' = W!Off /\ listeners' = 0
        /\ outcome' \in {"pending", "acked", "parked"} /\ (outcome' = "acked" => call.pc = "returned")
        /\ call' = W!NoCall /\ signal' = FALSE
        /\ UNCHANGED <<clock, manual, useAny, parent, wire, tries, accepted, refused>>
    BY <1>6 DEF W!Settle, W!Dispose, W!Acked
  <2>2. call' \in CallType /\ call'.pc = "idle"
    BY <2>1 DEF W!NoCall, CallType, W!Status
  <2>3. W!TypeOK'
    BY <2>1, <2>2 DEF W!TypeOK, CallType
  <2>4. W!SuccessAccepted'
    BY <2>1, <2>2 DEF W!SuccessAccepted, W!IsSuccess
  <2> QED
    BY <2>1, <2>2, <2>3, <2>4 DEF W!Composed, W!SignedAnew, W!InTime, W!TriesVerify
<1>7. CASE W!Timeout
  <2>1. /\ timeout # W!Off /\ timeout <= clock /\ timeout' = W!Off /\ signal' = TRUE
        /\ UNCHANGED <<clock, manual, useAny, parent, call, listeners, wire, tries, accepted, refused,
                       outcome>>
    BY <1>7 DEF W!Timeout
  <2>2. W!TypeOK' /\ W!SuccessAccepted' /\ W!Composed' /\ W!SignedAnew' /\ W!TriesVerify'
    BY <2>1 DEF W!TypeOK, W!SuccessAccepted, W!IsSuccess, W!Composed, W!SignedAnew, W!Timestamp,
       W!TriesVerify
  <2>3. W!InTime'
    BY <2>1 DEF W!InTime
  <2> QED
    BY <2>2, <2>3
<1>8. CASE W!AbortParent
  <2>1. /\ signal => signal'
        /\ UNCHANGED <<clock, manual, useAny, call, timeout, listeners, wire, tries, accepted, refused,
                       outcome>>
    BY <1>8 DEF W!AbortParent
  <2>2. W!TypeOK' /\ W!SuccessAccepted' /\ W!Composed' /\ W!SignedAnew' /\ W!TriesVerify'
    BY <2>1 DEF W!TypeOK, W!SuccessAccepted, W!IsSuccess, W!Composed, W!SignedAnew, W!Timestamp,
       W!TriesVerify
  <2>3. W!InTime'
    BY <2>1 DEF W!InTime
  <2> QED
    BY <2>2, <2>3
<1>9. CASE W!Tick
  <2>1. /\ clock < MaxClock /\ (timeout # W!Off => clock < timeout) /\ call.pc \in {"idle", "fetch", "body"}
        /\ ~(signal /\ call.pc = "fetch") /\ clock' = clock + 1
        /\ UNCHANGED <<manual, useAny, parent, call, timeout, listeners, signal, wire, tries, accepted,
                       refused, outcome>>
    BY <1>9 DEF W!Tick
  <2>2. W!TypeOK' /\ W!SuccessAccepted' /\ W!Composed' /\ W!TriesVerify'
    BY <2>1 DEF W!TypeOK, W!SuccessAccepted, W!IsSuccess, W!Composed, W!TriesVerify
  <2>3. W!SignedAnew'
    BY <2>1 DEF W!SignedAnew
  <2>4. W!InTime'
    <3> SUFFICES ASSUME call.pc = "fetch"
                 PROVE  \E sent \in 0..clock' :
                          /\ call.timestamp = sent \div PerSecond
                          /\ clock' <= sent + TimeoutTicks
                          /\ IF timeout = W!Off THEN signal ELSE timeout = sent + TimeoutTicks
      BY <2>1 DEF W!InTime
    <3>1. PICK sent \in 0..clock :
            /\ call.timestamp = sent \div PerSecond
            /\ clock <= sent + TimeoutTicks
            /\ IF timeout = W!Off THEN signal ELSE timeout = sent + TimeoutTicks
      BY DEF W!InTime
    <3>2. timeout = sent + TimeoutTicks /\ clock + 1 <= sent + TimeoutTicks /\ sent \in 0..(clock + 1)
          /\ timeout # W!Off
      BY <2>1, <3>1
    <3> QED
      BY <2>1, <3>1, <3>2
  <2> QED
    BY <2>2, <2>3, <2>4
<1>10. ASSUME NEW r \in wire, NEW code \in W!Status \ {0}, W!Receive(r, code)
       PROVE  W!SinkInv'
  <2> DEFINE s == [r EXCEPT !.status = code]
  <2>1. /\ W!Verifies(r.timestamp) \/ code = 401
        /\ accepted' = (accepted \/ (W!Verifies(r.timestamp) /\ code \in 200..299))
        /\ refused' = (refused \/ (~W!Verifies(r.timestamp) /\ r.try = tries /\ call.pc = "fetch"))
        /\ wire' = (wire \ {r}) \cup {s}
        /\ UNCHANGED <<clock, manual, useAny, parent, call, timeout, listeners, signal, tries, outcome>>
    BY <1>10 DEF W!Receive
  <2>2. s \in [try : 1..tries, timestamp : Nat, status : W!Status]
        /\ s.try = r.try /\ s.timestamp = r.timestamp /\ s.status = code
    OBVIOUS
  <2> HIDE DEF s
  <2>3. W!TypeOK'
    BY <2>1, <2>2 DEF W!TypeOK
  <2>4. accepted => accepted'
    BY <2>1
  <2>5. W!IsSuccess(code) => accepted'
    <3> SUFFICES ASSUME W!IsSuccess(code) PROVE accepted'
      OBVIOUS
    <3>1. code \in {204, 302, 401, 503} /\ code >= 200 /\ code < 300
      BY DEF W!IsSuccess, W!Status
    <3>2. code \in 200..299 /\ code # 401
      BY <3>1
    <3> QED
      BY <2>1, <3>2
  <2>6. W!SuccessAccepted'
    BY <2>1, <2>2, <2>4, <2>5 DEF W!SuccessAccepted, W!IsSuccess
  <2>7. W!Composed' /\ W!InTime'
    BY <2>1 DEF W!Composed, W!InTime
  <2>8. W!SignedAnew'
    BY <2>1, <2>2 DEF W!SignedAnew, W!Timestamp
  <2>9. W!TriesVerify'
    <3> SUFFICES ASSUME TimeoutTicks <= Tolerance * PerSecond, r.try = tries, call.pc = "fetch"
                 PROVE  W!Verifies(r.timestamp)
      BY <2>1 DEF W!TriesVerify
    <3>1. r.timestamp = call.timestamp
      BY DEF W!SignedAnew
    <3>2. PICK sent \in 0..clock :
            call.timestamp = sent \div PerSecond /\ clock <= sent + TimeoutTicks
      BY DEF W!InTime
    <3> QED
      BY <3>1, <3>2, YoungVerifies
  <2> QED
    BY <2>3, <2>6, <2>7, <2>8, <2>9
<1> QED
  BY <1>1, <1>2, <1>3, <1>4, <1>5, <1>6, <1>7, <1>8, <1>9, <1>10 DEF W!Next

(* The invariant of the sink holds in the first state.                   *)
LEMMA SinkInvInit ==
  ASSUME W!WebhookParameters, W!Init
  PROVE  W!SinkInv
<1>1. W!TypeOK
  <2>1. W!NoCall \in CallType
    BY DEF W!NoCall, CallType, W!Status
  <2>2. clock \in 0..MaxClock /\ tries \in 0..Tries /\ listeners \in 0..1
    BY DEF W!Init, W!WebhookParameters
  <2> QED
    BY <2>1, <2>2 DEF W!Init, W!TypeOK, CallType
<1> QED
  BY <1>1 DEF W!Init, W!SinkInv, W!SuccessAccepted, W!Composed, W!SignedAnew, W!InTime,
     W!TriesVerify, W!NoCall

(* What the webhook sink acknowledges was accepted by its receiver, a    *)
(* late try still verifies, and no try leaves a timer or a listener      *)
(* behind (webhookSink, composeAbortSignal), for any timeout, tolerance  *)
(* and number of tries.                                                  *)
THEOREM SinkKept ==
  ASSUME W!WebhookParameters
  PROVE  W!Spec => []SinkSound
<1>1. W!Init => W!SinkInv
  BY SinkInvInit
<1>2. W!SinkInv /\ [W!Next]_(W!vars) => W!SinkInv'
  <2>1. ASSUME W!SinkInv, UNCHANGED W!vars
        PROVE  W!SinkInv'
    BY <2>1 DEF W!vars, W!SinkInv, W!TypeOK, W!SuccessAccepted, W!IsSuccess, W!Composed,
       W!SignedAnew, W!Timestamp, W!InTime,
                W!TriesVerify
  <2> QED
    BY <2>1, SinkStep
<1>3. W!SinkInv => W!SinkSound
  BY DEF W!SinkInv, W!SinkSound, W!SuccessAccepted, W!AckedWasAccepted, W!Composed, W!NothingLeft
<1> QED
  BY <1>1, <1>2, <1>3, PTL DEF W!Spec, SinkSound

-----------------------------------------------------------------------------
(* What the hooks keep: one entry per lane, the spans, the gauge.          *)
Known == {"closed", "half-open", "open"}
Gauge == Known \cup {"none"}
Hooks(t) ==
  /\ t \in [polls : [T!PollLane -> Nat], spans : Seq(T!Span), gauge : Gauge]
  /\ t.spans \in Seq(T!Span) /\ t.polls \in [T!PollLane -> 0..Len(t.spans)] /\ t.gauge \in Gauge

(* The spans of the hooks agree with how the cycles ended.                 *)
SpansTold(t, out) ==
  /\ out \in Seq(T!Outcome) /\ Len(out) = Len(t.spans)
  /\ \A i \in 1..Len(t.spans) :
       /\ t.spans[i].ends = IF t.polls[t.spans[i].lane] = i THEN 0 ELSE 1
       /\ t.spans[i].status = "ok" => out[i] = "ok"
       /\ t.spans[i].status = "error" => out[i] \in {"failed", "aborted", "lost"}
  /\ \A lane \in T!PollLane : t.polls[lane] # 0 =>
       t.spans[t.polls[lane]].lane = lane /\ t.spans[t.polls[lane]].status = "open"

(* Updates of records, written out.                                        *)
LEMMA SpanUpdate ==
  ASSUME NEW s \in T!Span, NEW x \in {"open", "ok", "error"}, NEW n \in Nat
  PROVE  [s EXCEPT !.status = x, !.ends = n] =
           [lane |-> s.lane, status |-> x, error |-> s.error, ends |-> n]
<1>1. [s EXCEPT !.status = x] \in T!Span
  BY DEF T!Span
<1>2. PICK r \in T!Span : r = [s EXCEPT !.status = x]
  BY <1>1
<1>3. r.lane = s.lane /\ r.status = x /\ r.error = s.error
  BY <1>2 DEF T!Span
<1>4. [s EXCEPT !.status = x, !.ends = n] = [r EXCEPT !.ends = n]
  BY <1>2
<1>5. [r EXCEPT !.ends = n] = [lane |-> r.lane, status |-> r.status, error |-> r.error, ends |-> n]
  BY DEF T!Span
<1> QED
  BY <1>3, <1>4, <1>5

(* A span marked as failed, field by field.                              *)
LEMMA ErrorUpdate ==
  ASSUME NEW s \in T!Span, NEW e
  PROVE  [s EXCEPT !.error = e] =
           [lane |-> s.lane, status |-> s.status, error |-> e, ends |-> s.ends]
BY DEF T!Span

(* A new poll and its span, field by field.                              *)
LEMMA HooksUpdate ==
  ASSUME NEW t, Hooks(t), NEW p \in [T!PollLane -> Nat], NEW s \in Seq(T!Span)
  PROVE  /\ [t EXCEPT !.polls = p, !.spans = s] = [polls |-> p, spans |-> s, gauge |-> t.gauge]
         /\ [t EXCEPT !.spans = s, !.polls = p] = [polls |-> p, spans |-> s, gauge |-> t.gauge]
<1> DEFINE H == [polls : [T!PollLane -> Nat], spans : Seq(T!Span), gauge : Gauge]
<1>1. t \in H
  BY DEF Hooks
<1>2. [t EXCEPT !.polls = p, !.spans = s] = [polls |-> p, spans |-> s, gauge |-> t.gauge]
  <2>1. PICK r \in H : r = [t EXCEPT !.polls = p]
    BY <1>1
  <2>2. r.polls = p /\ r.gauge = t.gauge
    BY <1>1, <2>1
  <2>3. [t EXCEPT !.polls = p, !.spans = s] = [r EXCEPT !.spans = s]
    BY <2>1
  <2>4. [r EXCEPT !.spans = s] = [polls |-> r.polls, spans |-> s, gauge |-> r.gauge]
    OBVIOUS
  <2> QED
    BY <2>2, <2>3, <2>4
<1>3. [t EXCEPT !.spans = s, !.polls = p] = [polls |-> p, spans |-> s, gauge |-> t.gauge]
  <2>1. PICK r \in H : r = [t EXCEPT !.spans = s]
    BY <1>1
  <2>2. r.spans = s /\ r.gauge = t.gauge
    BY <1>1, <2>1
  <2>3. [t EXCEPT !.spans = s, !.polls = p] = [r EXCEPT !.polls = p]
    BY <2>1
  <2>4. [r EXCEPT !.polls = p] = [polls |-> p, spans |-> r.spans, gauge |-> r.gauge]
    OBVIOUS
  <2> QED
    BY <2>2, <2>3, <2>4
<1> QED
  BY <1>2, <1>3

(* New spans, field by field.                                            *)
LEMMA HooksSpans ==
  ASSUME NEW t, Hooks(t), NEW s
  PROVE  [t EXCEPT !.spans = s] = [polls |-> t.polls, spans |-> s, gauge |-> t.gauge]
<1>1. t \in [polls : [T!PollLane -> Nat], spans : Seq(T!Span), gauge : Gauge]
  BY DEF Hooks
<1> QED
  BY <1>1

(* A new gauge, field by field.                                          *)
LEMMA HooksGauge ==
  ASSUME NEW t, Hooks(t), NEW g
  PROVE  [t EXCEPT !.gauge = g] = [polls |-> t.polls, spans |-> t.spans, gauge |-> g]
<1>1. t \in [polls : [T!PollLane -> Nat], spans : Seq(T!Span), gauge : Gauge]
  BY DEF Hooks
<1> QED
  BY <1>1

(* The fields of the spans the hooks keep.                               *)
LEMMA SpanFields ==
  ASSUME NEW t, Hooks(t)
  PROVE  /\ Len(t.spans) \in Nat /\ DOMAIN t.spans = 1..Len(t.spans)
         /\ \A i \in 1..Len(t.spans) :
              /\ t.spans[i] \in T!Span /\ t.spans[i].lane \in T!PollLane
              /\ t.spans[i].status \in {"open", "ok", "error"} /\ t.spans[i].error \in BOOLEAN
              /\ t.spans[i].ends \in Nat
              /\ t.spans[i] = [lane |-> t.spans[i].lane, status |-> t.spans[i].status,
                               error |-> t.spans[i].error, ends |-> t.spans[i].ends]
         /\ \A lane \in T!PollLane : t.polls[lane] \in 0..Len(t.spans)
<1>1. t.spans \in Seq(T!Span) /\ \A lane \in T!PollLane : t.polls[lane] \in 0..Len(t.spans)
  BY DEF Hooks
<1>2. \A i \in 1..Len(t.spans) : t.spans[i] \in T!Span
  BY <1>1
<1> QED
  BY <1>1, <1>2 DEF T!Span

(* The span of a lane ends, and no other.                                  *)
LEMMA EndPollDoes ==
  ASSUME NEW t, Hooks(t), NEW lane \in T!PollLane, t.polls[lane] # 0, NEW error \in BOOLEAN
  PROVE  LET u == T!EndPoll(t, lane, error)
             i == t.polls[lane]
         IN /\ Hooks(u) /\ u.gauge = t.gauge /\ Len(u.spans) = Len(t.spans)
            /\ u.polls = [t.polls EXCEPT ![lane] = 0]
            /\ i \in 1..Len(t.spans)
            /\ \A j \in 1..Len(t.spans) : j # i => u.spans[j] = t.spans[j]
            /\ u.spans[i] = [lane |-> t.spans[i].lane,
                             status |-> IF error THEN "error" ELSE "ok",
                             error |-> t.spans[i].error, ends |-> t.spans[i].ends + 1]
<1> DEFINE i == t.polls[lane]
           u == T!EndPoll(t, lane, error)
           word == IF error THEN "error" ELSE "ok"
           ended == [lane |-> t.spans[i].lane, status |-> word,
                     error |-> t.spans[i].error, ends |-> t.spans[i].ends + 1]
           spans == [t.spans EXCEPT ![i] = ended]
<1>1. i \in 1..Len(t.spans) /\ t.polls \in [T!PollLane -> 0..Len(t.spans)]
  BY SpanFields DEF Hooks
<1>2. ended \in T!Span
  <2>1. /\ t.spans[i].lane \in T!PollLane /\ t.spans[i].error \in BOOLEAN
        /\ t.spans[i].ends \in Nat
    BY <1>1, SpanFields
  <2>2. word \in {"open", "ok", "error"} /\ t.spans[i].ends + 1 \in Nat
    BY <2>1
  <2> HIDE DEF word, i
  <2> QED
    BY <2>1, <2>2 DEF T!Span
<1>3. [t.spans[i] EXCEPT !.status = word, !.ends = t.spans[i].ends + 1] = ended
  <2>1. t.spans[i] \in T!Span /\ t.spans[i].ends \in Nat
    BY <1>1, SpanFields
  <2>2. word \in {"open", "ok", "error"} /\ t.spans[i].ends + 1 \in Nat
    BY <2>1
  <2> HIDE DEF word, i
  <2> QED
    BY <2>1, <2>2, SpanUpdate
<1>4. [[t.spans EXCEPT ![i].status = word] EXCEPT ![i].ends = t.spans[i].ends + 1] = spans
  <2>1. DOMAIN t.spans = 1..Len(t.spans)
    BY SpanFields
  <2>2. [t.spans EXCEPT ![i].status = word][i].ends = t.spans[i].ends
    BY <1>1, <2>1, SpanFields
  <2> QED
    BY <1>1, <1>3, <2>1, SpanFields
<1>5. u = [polls |-> [t.polls EXCEPT ![lane] = 0], spans |-> spans, gauge |-> t.gauge]
  <2>1. u = [t EXCEPT !.polls[lane] = 0, !.spans[i].status = word,
                      !.spans[i].ends = [t.spans EXCEPT ![i].status = word][i].ends + 1]
    BY DEF T!EndPoll, Hooks
  <2>2. [t.spans EXCEPT ![i].status = word][i].ends = t.spans[i].ends
    BY <1>1, SpanFields
  <2>3. u = [t EXCEPT !.polls = [t.polls EXCEPT ![lane] = 0],
       !.spans = [[t.spans EXCEPT ![i].status = word] EXCEPT ![i].ends = t.spans[i].ends + 1]]
    BY <2>1, <2>2 DEF Hooks
  <2>4. [t.polls EXCEPT ![lane] = 0] \in [T!PollLane -> Nat]
    BY DEF Hooks
  <2>5. spans \in Seq(T!Span)
    <3> HIDE DEF ended, i
    <3> QED
      BY <1>1, <1>2 DEF Hooks
  <2>6. u = [t EXCEPT !.polls = [t.polls EXCEPT ![lane] = 0], !.spans = spans]
    <3> HIDE DEF u, spans, word, i
    <3> QED
      BY <1>4, <2>3
  <2> HIDE DEF u, spans, word, i
  <2> QED
    BY <2>4, <2>5, <2>6, HooksUpdate
<1>6. spans \in Seq(T!Span) /\ Len(spans) = Len(t.spans)
  <2> HIDE DEF ended, i
  <2> QED
    BY <1>1, <1>2 DEF Hooks
<1>7. \A j \in 1..Len(t.spans) : spans[j] = IF j = i THEN ended ELSE t.spans[j]
  BY <1>1, SpanFields
<1>8. [t.polls EXCEPT ![lane] = 0] \in [T!PollLane -> 0..Len(t.spans)]
  BY <1>1, SpanFields
<1> HIDE DEF spans, u, ended
<1>9. Hooks(u) /\ u.gauge = t.gauge /\ u.spans = spans /\ u.polls = [t.polls EXCEPT ![lane] = 0]
  <2>1. [t.polls EXCEPT ![lane] = 0] \in [T!PollLane -> Nat] /\ t.gauge \in Gauge
    BY <1>1, <1>8, SpanFields DEF Hooks
  <2> QED
    BY <1>5, <1>6, <1>8, <2>1 DEF Hooks
<1> QED
  BY <1>1, <1>6, <1>7, <1>9 DEF u, ended

(* The end of a poll closes the span of its lane once, with the outcome  *)
(* of the cycle.                                                         *)
LEMMA EndPollTold ==
  ASSUME NEW t, NEW out, Hooks(t), SpansTold(t, out),
         NEW lane \in T!PollLane, t.polls[lane] # 0, NEW error \in BOOLEAN,
         NEW after \in Seq(T!Outcome), Len(after) = Len(out),
         \A j \in 1..Len(out) : j # t.polls[lane] => after[j] = out[j],
         IF error THEN after[t.polls[lane]] \in {"failed", "aborted", "lost"}
         ELSE after[t.polls[lane]] = "ok"
  PROVE  SpansTold(T!EndPoll(t, lane, error), after)
<1> DEFINE i == t.polls[lane]
<1>1. PICK u : u = T!EndPoll(t, lane, error)
  OBVIOUS
<1>2. /\ Hooks(u) /\ Len(u.spans) = Len(t.spans)
      /\ u.polls = [t.polls EXCEPT ![lane] = 0]
      /\ i \in 1..Len(t.spans)
      /\ \A j \in 1..Len(t.spans) : j # i => u.spans[j] = t.spans[j]
      /\ u.spans[i] = [lane |-> t.spans[i].lane,
                       status |-> IF error THEN "error" ELSE "ok",
                       error |-> t.spans[i].error, ends |-> t.spans[i].ends + 1]
  BY <1>1, EndPollDoes
<1>3. /\ u.polls[lane] = 0 /\ \A l \in T!PollLane : l # lane => u.polls[l] = t.polls[l]
      /\ t.spans[i].lane = lane /\ t.spans[i].ends = 0
  BY <1>2, SpanFields DEF SpansTold, Hooks
<1>4. ASSUME NEW j \in 1..Len(t.spans), j # i
      PROVE  /\ u.spans[j].ends = IF u.polls[u.spans[j].lane] = j THEN 0 ELSE 1
             /\ u.spans[j].status = "ok" => after[j] = "ok"
             /\ u.spans[j].status = "error" => after[j] \in {"failed", "aborted", "lost"}
  <2>1. u.spans[j] = t.spans[j] /\ t.spans[j].lane \in T!PollLane /\ after[j] = out[j]
    BY <1>2, <1>4, SpanFields DEF SpansTold
  <2>2. u.polls[t.spans[j].lane] = j <=> t.polls[t.spans[j].lane] = j
    BY <1>3, <1>4, <2>1
  <2> QED
    BY <2>1, <2>2 DEF SpansTold
<1>5. /\ u.spans[i].ends = IF u.polls[u.spans[i].lane] = i THEN 0 ELSE 1
      /\ u.spans[i].status = "ok" => after[i] = "ok"
      /\ u.spans[i].status = "error" => after[i] \in {"failed", "aborted", "lost"}
  BY <1>2, <1>3
<1>6. ASSUME NEW l \in T!PollLane, u.polls[l] # 0
      PROVE  u.spans[u.polls[l]].lane = l /\ u.spans[u.polls[l]].status = "open"
  <2>1. l # lane /\ u.polls[l] = t.polls[l] /\ t.polls[l] \in 1..Len(t.spans)
    BY <1>3, <1>6, SpanFields
  <2>2. t.spans[t.polls[l]].lane = l /\ t.spans[t.polls[l]].status = "open"
    BY <2>1 DEF SpansTold
  <2> QED
    BY <1>2, <1>3, <2>1, <2>2
<1>7. \A j \in 1..Len(u.spans) :
        /\ u.spans[j].ends = IF u.polls[u.spans[j].lane] = j THEN 0 ELSE 1
        /\ u.spans[j].status = "ok" => after[j] = "ok"
        /\ u.spans[j].status = "error" => after[j] \in {"failed", "aborted", "lost"}
  <2> HIDE DEF i
  <2> QED
    BY <1>2, <1>4, <1>5
<1>8. Len(after) = Len(u.spans)
  BY <1>2 DEF SpansTold
<1>9. SpansTold(u, after)
  BY <1>6, <1>7, <1>8 DEF SpansTold
<1> QED
  BY <1>1, <1>9

(* A new span takes the entry of its lane.                                 *)
LEMMA NewSpanDoes ==
  ASSUME NEW t, Hooks(t), NEW lane \in T!PollLane
  PROVE  LET u == T!NewSpan(t, lane)
             n == Len(t.spans) + 1
         IN /\ Hooks(u) /\ u.gauge = t.gauge /\ Len(u.spans) = n
            /\ u.polls = [t.polls EXCEPT ![lane] = n]
            /\ \A j \in 1..Len(t.spans) : u.spans[j] = t.spans[j]
            /\ u.spans[n] = [lane |-> lane, status |-> "open", error |-> FALSE, ends |-> 0]
<1> DEFINE n == Len(t.spans) + 1
           new == [lane |-> lane, status |-> "open", error |-> FALSE, ends |-> 0]
           u == T!NewSpan(t, lane)
<1>1. u = [t EXCEPT !.spans = Append(t.spans, new), !.polls = [t.polls EXCEPT ![lane] = n]]
  BY DEF T!NewSpan, Hooks
<1>2. u = [polls |-> [t.polls EXCEPT ![lane] = n], spans |-> Append(t.spans, new),
           gauge |-> t.gauge]
  <2>1. new \in T!Span /\ t.spans \in Seq(T!Span) /\ n \in Nat
    BY DEF T!Span, Hooks
  <2>2. [t.polls EXCEPT ![lane] = n] \in [T!PollLane -> Nat]
    BY <2>1 DEF Hooks
  <2> HIDE DEF u, n, new
  <2>3. Append(t.spans, new) \in Seq(T!Span)
    BY <2>1
  <2> QED
    BY <1>1, <2>2, <2>3, HooksUpdate
<1>3. new \in T!Span /\ t.spans \in Seq(T!Span) /\ Len(t.spans) \in Nat
  BY DEF T!Span, Hooks
<1> HIDE DEF u, new
<1>4. /\ Append(t.spans, new) \in Seq(T!Span) /\ Len(Append(t.spans, new)) = n
      /\ \A j \in 1..Len(t.spans) : Append(t.spans, new)[j] = t.spans[j]
      /\ Append(t.spans, new)[n] = new
  BY <1>3
<1>5. /\ [t.polls EXCEPT ![lane] = n] \in [T!PollLane -> 0..n]
      /\ [t.polls EXCEPT ![lane] = n] \in [T!PollLane -> Nat]
  BY <1>3 DEF Hooks
<1>6. /\ u.polls = [t.polls EXCEPT ![lane] = n] /\ u.spans = Append(t.spans, new)
      /\ u.gauge = t.gauge /\ t.gauge \in Gauge
      /\ u \in [polls : [T!PollLane -> Nat], spans : Seq(T!Span), gauge : Gauge]
  BY <1>2, <1>4, <1>5 DEF Hooks
<1> QED
  BY <1>4, <1>5, <1>6 DEF Hooks, u, new

(* A poll that begins opens a span for its lane.                         *)
LEMMA NewSpanTold ==
  ASSUME NEW t, NEW out, Hooks(t), SpansTold(t, out), NEW lane \in T!PollLane, t.polls[lane] = 0
  PROVE  SpansTold(T!NewSpan(t, lane), Append(out, "running"))
<1> DEFINE n == Len(t.spans) + 1
<1>1. PICK u : u = T!NewSpan(t, lane)
  OBVIOUS
<1>2. /\ Hooks(u) /\ Len(u.spans) = n
      /\ u.polls = [t.polls EXCEPT ![lane] = n]
      /\ \A j \in 1..Len(t.spans) : u.spans[j] = t.spans[j]
      /\ u.spans[n] = [lane |-> lane, status |-> "open", error |-> FALSE, ends |-> 0]
  BY <1>1, NewSpanDoes
<1>3. u.polls[lane] = n /\ \A l \in T!PollLane : l # lane => u.polls[l] = t.polls[l]
  BY <1>2 DEF Hooks
<1>4. PICK after : after = Append(out, "running")
  OBVIOUS
<1>5. /\ after \in Seq(T!Outcome) /\ Len(after) = n
      /\ \A j \in 1..Len(t.spans) : after[j] = out[j]
  BY <1>4 DEF SpansTold, T!Outcome
<1>6. Len(t.spans) \in Nat /\ n \notin 1..Len(t.spans) /\ n # 0
  BY SpanFields
<1>7. ASSUME NEW j \in 1..Len(t.spans)
      PROVE  /\ u.spans[j].ends = IF u.polls[u.spans[j].lane] = j THEN 0 ELSE 1
             /\ u.spans[j].status = "ok" => after[j] = "ok"
             /\ u.spans[j].status = "error" => after[j] \in {"failed", "aborted", "lost"}
  <2>1. u.spans[j] = t.spans[j] /\ t.spans[j].lane \in T!PollLane /\ after[j] = out[j] /\ j # 0
    <3>1. t.spans[j].lane \in T!PollLane
      BY SpanFields
    <3>2. j # 0
      BY <1>6
    <3> QED
      BY <1>2, <1>5, <3>1, <3>2
  <2>2. u.polls[t.spans[j].lane] = j <=> t.polls[t.spans[j].lane] = j
    BY <1>3, <1>6, <2>1
  <2> QED
    BY <2>1, <2>2 DEF SpansTold
<1>8. /\ u.spans[n].ends = IF u.polls[u.spans[n].lane] = n THEN 0 ELSE 1
      /\ u.spans[n].status = "open"
  BY <1>2, <1>3
<1>9. ASSUME NEW l \in T!PollLane, u.polls[l] # 0
      PROVE  u.spans[u.polls[l]].lane = l /\ u.spans[u.polls[l]].status = "open"
  <2>1. CASE l = lane
    BY <1>2, <1>3, <2>1
  <2>2. CASE l # lane
    <3>1. u.polls[l] = t.polls[l] /\ t.polls[l] \in 1..Len(t.spans)
      BY <1>3, <1>9, <2>2, SpanFields
    <3>2. t.spans[t.polls[l]].lane = l /\ t.spans[t.polls[l]].status = "open"
      BY <3>1, <1>9 DEF SpansTold
    <3> QED
      BY <1>2, <3>1, <3>2
  <2> QED
    BY <2>1, <2>2
<1>10. \A j \in 1..n : j \in 1..Len(t.spans) \/ j = n
  BY <1>6
<1> HIDE DEF n
<1>11. SpansTold(u, after)
  BY <1>2, <1>5, <1>7, <1>8, <1>9, <1>10 DEF SpansTold
<1> QED
  BY <1>1, <1>4, <1>11

(* Every open span of the key ends in an error.                            *)
LEMMA LeaseLostTold ==
  ASSUME NEW t, NEW out, Hooks(t), SpansTold(t, out),
         NEW after \in Seq(T!Outcome), Len(after) = Len(out),
         \A lane \in T!PollLane : t.polls[lane] # 0 =>
           after[t.polls[lane]] \in {"failed", "aborted", "lost"},
         \A j \in 1..Len(out) :
           (\A lane \in T!PollLane : t.polls[lane] # j) => after[j] = out[j]
  PROVE  LET u == T!OnLeaseLost(t)
         IN /\ Hooks(u) /\ SpansTold(u, after) /\ u.gauge = t.gauge
            /\ \A lane \in T!PollLane : u.polls[lane] = 0
<1> DEFINE n == Len(t.spans)
           Polled == {t.polls[lane] : lane \in T!PollLane}
           none == [lane \in T!PollLane |-> 0]
           ended(i) == [t.spans[i] EXCEPT !.status = "error", !.ends = t.spans[i].ends + 1]
           spans == [i \in DOMAIN t.spans |-> IF i \in Polled THEN ended(i) ELSE t.spans[i]]
<1>1. PICK u : u = T!OnLeaseLost(t)
  OBVIOUS
<1>2. u = [t EXCEPT !.polls = none, !.spans = spans]
  BY <1>1 DEF T!OnLeaseLost
<1>3. n \in Nat /\ DOMAIN t.spans = 1..n /\ \A i \in 1..n : t.spans[i] \in T!Span
  BY SpanFields
<1>4. \A i \in 1..n : /\ ended(i) \in T!Span /\ ended(i).lane = t.spans[i].lane
                      /\ ended(i).status = "error" /\ ended(i).ends = t.spans[i].ends + 1
  <2>1. ASSUME NEW i \in 1..n
        PROVE  ended(i) = [lane |-> t.spans[i].lane, status |-> "error",
                           error |-> t.spans[i].error, ends |-> t.spans[i].ends + 1]
    <3>1. t.spans[i] \in T!Span /\ t.spans[i].ends \in Nat
      BY SpanFields
    <3>2. t.spans[i].ends + 1 \in Nat
      BY <3>1
    <3> QED
      BY <3>1, <3>2, SpanUpdate
  <2>2. \A i \in 1..n : /\ t.spans[i].lane \in T!PollLane /\ t.spans[i].error \in BOOLEAN
                        /\ t.spans[i].ends \in Nat
    BY SpanFields
  <2> HIDE DEF ended
  <2> QED
    BY <2>1, <2>2 DEF T!Span
<1>5. /\ spans \in Seq(T!Span) /\ Len(spans) = n
      /\ \A i \in 1..n : spans[i] = IF i \in Polled THEN ended(i) ELSE t.spans[i]
  <2> HIDE DEF ended, Polled
  <2>1. spans \in [1..n -> T!Span]
    BY <1>3, <1>4
  <2>2. spans \in Seq(T!Span)
    <3> HIDE DEF spans, n
    <3> QED
      BY <1>3, <2>1
  <2> QED
    BY <1>3, <2>1, <2>2
<1>6. none \in [T!PollLane -> Nat] /\ none \in [T!PollLane -> 0..n]
  BY <1>3
<1> HIDE DEF spans, ended, Polled
<1>7. u = [polls |-> none, spans |-> spans, gauge |-> t.gauge]
  BY <1>2, <1>5, <1>6, HooksUpdate
<1>8. /\ Hooks(u) /\ u.gauge = t.gauge /\ u.spans = spans /\ Len(u.spans) = n
      /\ \A lane \in T!PollLane : u.polls[lane] = 0
  BY <1>5, <1>6, <1>7 DEF Hooks
<1>9. ASSUME NEW i \in 1..n
      PROVE  /\ u.spans[i].ends = IF u.polls[u.spans[i].lane] = i THEN 0 ELSE 1
             /\ u.spans[i].status = "ok" => after[i] = "ok"
             /\ u.spans[i].status = "error" => after[i] \in {"failed", "aborted", "lost"}
  <2>1. t.spans[i].lane \in T!PollLane /\ t.spans[i].ends \in Nat /\ i # 0
    <3>1. t.spans[i].lane \in T!PollLane /\ t.spans[i].ends \in Nat
      BY SpanFields
    <3>2. i # 0
      BY <1>3
    <3> QED
      BY <3>1, <3>2
  <2>2. u.spans[i].lane = t.spans[i].lane /\ u.polls[u.spans[i].lane] # i
    BY <1>4, <1>5, <1>8, <2>1
  <2>3. CASE i \in Polled
    <3>1. PICK lane \in T!PollLane : t.polls[lane] = i
      BY <2>3 DEF Polled
    <3>2. t.spans[i].lane = lane /\ t.spans[i].ends = 0
      BY <2>1, <3>1 DEF SpansTold
    <3> QED
      BY <1>4, <1>5, <1>8, <2>1, <2>2, <2>3, <3>1, <3>2
  <2>4. CASE i \notin Polled
    <3>1. \A lane \in T!PollLane : t.polls[lane] # i
      BY <2>4 DEF Polled
    <3>2. after[i] = out[i]
      BY <3>1 DEF SpansTold
    <3> QED
      BY <1>5, <1>8, <2>1, <2>2, <2>4, <3>1, <3>2 DEF SpansTold
  <2> QED
    BY <2>3, <2>4
<1>10. SpansTold(u, after)
  BY <1>8, <1>9 DEF SpansTold
<1> QED
  BY <1>1, <1>8, <1>10

(* An error marks the open span of its lane.                               *)
LEMMA ErrorTold ==
  ASSUME NEW t, NEW out, Hooks(t), SpansTold(t, out), NEW lane \in T!PollLane,
         t.polls[lane] # 0
  PROVE  LET u == T!OnError(t, lane)
         IN /\ Hooks(u) /\ SpansTold(u, out) /\ u.gauge = t.gauge /\ u.polls = t.polls
            /\ Len(u.spans) = Len(t.spans) /\ u.spans[t.polls[lane]].error = TRUE
<1> DEFINE i == t.polls[lane]
           n == Len(t.spans)
           marked == [t.spans[i] EXCEPT !.error = TRUE]
           spans == [t.spans EXCEPT ![i] = marked]
<1>1. PICK u : u = T!OnError(t, lane)
  OBVIOUS
<1>2. i \in 1..n /\ DOMAIN t.spans = 1..n /\ t.spans[i] \in T!Span /\ n \in Nat
  <2>1. i \in 0..n /\ DOMAIN t.spans = 1..n /\ n \in Nat
    BY SpanFields
  <2>2. i \in 1..n
    BY <2>1
  <2> HIDE DEF i
  <2>3. t.spans[i] \in T!Span
    BY <2>2, SpanFields
  <2> QED
    BY <2>1, <2>2, <2>3
<1>3. u = [t EXCEPT !.spans = spans]
  BY <1>1, <1>2 DEF T!OnError, Hooks
<1>4. marked = [lane |-> t.spans[i].lane, status |-> t.spans[i].status, error |-> TRUE,
                ends |-> t.spans[i].ends]
  <2> HIDE DEF i
  <2> QED
    BY <1>2, ErrorUpdate
<1>5. marked \in T!Span
  <2> HIDE DEF i, marked
  <2> QED
    BY <1>2, <1>4 DEF T!Span
<1> HIDE DEF marked, i
<1>6. /\ spans \in Seq(T!Span) /\ Len(spans) = n
      /\ \A j \in 1..n : spans[j] = IF j = i THEN marked ELSE t.spans[j]
  BY <1>2, <1>5 DEF Hooks
<1> HIDE DEF spans
<1>7. u = [polls |-> t.polls, spans |-> spans, gauge |-> t.gauge]
  BY <1>3, HooksSpans
<1>8. /\ u.polls = t.polls /\ u.spans = spans /\ u.gauge = t.gauge
      /\ u \in [polls : [T!PollLane -> Nat], spans : Seq(T!Span), gauge : Gauge]
  BY <1>6, <1>7 DEF Hooks
<1>9. Hooks(u)
  BY <1>6, <1>8 DEF Hooks
<1>10. \A j \in 1..n : /\ u.spans[j].lane = t.spans[j].lane
                       /\ u.spans[j].status = t.spans[j].status
                       /\ u.spans[j].ends = t.spans[j].ends
  BY <1>4, <1>6, <1>8
<1>11. \A l \in T!PollLane : t.polls[l] # 0 => t.polls[l] \in 1..n
  BY SpanFields
<1>12. SpansTold(u, out)
  <2>1. \A j \in 1..n :
          /\ u.spans[j].ends = IF u.polls[u.spans[j].lane] = j THEN 0 ELSE 1
          /\ u.spans[j].status = "ok" => out[j] = "ok"
          /\ u.spans[j].status = "error" => out[j] \in {"failed", "aborted", "lost"}
    BY <1>8, <1>10 DEF SpansTold
  <2>2. \A l \in T!PollLane : u.polls[l] # 0 =>
          u.spans[u.polls[l]].lane = l /\ u.spans[u.polls[l]].status = "open"
    BY <1>8, <1>10, <1>11 DEF SpansTold
  <2>3. Len(u.spans) = n
    BY <1>6, <1>8
  <2> QED
    BY <2>1, <2>2, <2>3 DEF SpansTold
<1>13. u.spans[i].error = TRUE
  BY <1>2, <1>4, <1>6, <1>8
<1> QED
  BY <1>1, <1>6, <1>8, <1>9, <1>12, <1>13 DEF i

(* The gauge alone changes.                                                *)
LEMMA GaugeTold ==
  ASSUME NEW t, NEW out, Hooks(t), SpansTold(t, out), NEW g \in Gauge
  PROVE  LET u == [t EXCEPT !.gauge = g]
         IN Hooks(u) /\ SpansTold(u, out) /\ u.gauge = g /\ u.polls = t.polls /\ u.spans = t.spans
<1>1. PICK u : u = [t EXCEPT !.gauge = g]
  OBVIOUS
<1>2. u = [polls |-> t.polls, spans |-> t.spans, gauge |-> g]
  BY <1>1, HooksGauge
<1>3. /\ u.polls = t.polls /\ u.spans = t.spans /\ u.gauge = g
      /\ u \in [polls : [T!PollLane -> Nat], spans : Seq(T!Span), gauge : Gauge]
  BY <1>2 DEF Hooks
<1>4. Hooks(u) /\ SpansTold(u, out)
  BY <1>3 DEF Hooks, SpansTold
<1> QED
  BY <1>1, <1>3, <1>4

(* The run that the hooks report.                                          *)
RunRecord ==
  [pc : {"idle", "polling", "halted", "saving", "failed"}, lane : T!PollLane, span : Nat,
   circuit : Known]

TelInv ==
  /\ Hooks(tel) /\ SpansTold(tel, ends)
  /\ circuit \in {"closed", "open"} /\ cycle \in RunRecord /\ cycle.span \in 0..Len(tel.spans)
  /\ astray = FALSE /\ unheard \in BOOLEAN
  /\ cycle.pc = "failed" => cycle.circuit # "half-open"
  /\ T!CycleOwn /\ T!GaugeAgrees /\ T!CircuitKnown /\ T!GaugeInCycle

(* The gauge reads closed, or has no value yet.                            *)
Shows(gauge) == gauge \in {"none", "closed"}

(* The invariant says what the run checks.                                 *)
LEMMA TelInvSound ==
  ASSUME TelInv
  PROVE  T!TelemetrySound
<1>1. /\ tel.spans \in Seq(T!Span) /\ DOMAIN tel.spans = 1..Len(tel.spans)
      /\ tel.polls \in [T!PollLane -> 0..Len(tel.spans)] /\ tel.gauge \in Gauge
      /\ tel \in [polls : [T!PollLane -> Nat], spans : Seq(T!Span), gauge : Gauge]
  BY SpanFields DEF TelInv, Hooks
<1>2. tel \in [polls : [T!PollLane -> 0..Len(tel.spans)], spans : Seq(T!Span),
               gauge : {"none", "closed", "half-open", "open"}]
  <2>1. \A p : tel.polls \in p =>
          tel \in [polls : p, spans : Seq(T!Span), gauge : {"none", "closed", "half-open", "open"}]
    BY <1>1 DEF Gauge, Known
  <2> QED
    BY <1>1, <2>1
<1>3. cycle \in [pc : {"idle", "polling", "halted", "saving", "failed"}, lane : T!PollLane,
                 span : 0..Len(tel.spans), circuit : {"closed", "half-open", "open"}]
  <2>1. cycle \in RunRecord /\ cycle.span \in 0..Len(tel.spans)
    BY DEF TelInv
  <2>2. \A S : cycle.span \in S =>
          cycle \in [pc : {"idle", "polling", "halted", "saving", "failed"}, lane : T!PollLane,
                     span : S, circuit : {"closed", "half-open", "open"}]
    BY <2>1 DEF RunRecord, Known
  <2> QED
    BY <2>1, <2>2
<1>4. ends \in Seq(T!Outcome) /\ Len(ends) = Len(tel.spans)
  BY DEF TelInv, SpansTold
<1>5. T!TypeOK
  BY <1>2, <1>3, <1>4, Zenon DEF T!TypeOK, TelInv
<1>6. T!SpansAccounted /\ T!StatusHonest
  BY <1>1 DEF TelInv, SpansTold, T!SpansAccounted, T!StatusHonest
<1> QED
  BY <1>5, <1>6 DEF TelInv, T!TelemetrySound, T!ChildrenAttached

(* The invariant of the hooks holds in the first state.                  *)
LEMMA TelInvInit == T!Init => TelInv
<1> SUFFICES ASSUME T!Init PROVE TelInv
  OBVIOUS
<1>1. /\ tel = [polls |-> [lane \in T!PollLane |-> 0], spans |-> << >>, gauge |-> "none"]
      /\ circuit \in {"closed", "open"} /\ ends = << >> /\ astray = FALSE
      /\ unheard = (circuit = "open")
      /\ cycle = [pc |-> "idle", lane |-> "live", span |-> 0, circuit |-> "closed"]
  BY DEF T!Init, T!Resting
<1>2. /\ tel.polls = [lane \in T!PollLane |-> 0] /\ tel.spans = << >> /\ tel.gauge = "none"
  BY <1>1
<1>3. << >> \in Seq(T!Span) /\ << >> \in Seq(T!Outcome) /\ Len(<< >>) = 0
  OBVIOUS
<1>4. Hooks(tel) /\ SpansTold(tel, ends)
  <2>1. tel \in [polls : [T!PollLane -> Nat], spans : Seq(T!Span), gauge : Gauge]
    BY <1>1, <1>3 DEF Gauge
  <2>2. tel.polls \in [T!PollLane -> 0..Len(tel.spans)]
    BY <1>2, <1>3
  <2>3. \A lane \in T!PollLane : tel.polls[lane] = 0
    BY <1>2
  <2> QED
    BY <1>1, <1>2, <1>3, <2>1, <2>2, <2>3 DEF Hooks, SpansTold, Gauge
<1>5. cycle \in RunRecord /\ cycle.span = 0 /\ cycle.pc = "idle"
  BY <1>1 DEF RunRecord, T!PollLane, Known
<1>6. T!CycleOwn /\ T!GaugeAgrees /\ T!CircuitKnown /\ T!GaugeInCycle
  <2>1. \A lane \in T!PollLane : tel.polls[lane] = 0
    BY <1>2
  <2> QED
    BY <1>1, <1>2, <1>5, <2>1 DEF T!CycleOwn, T!GaugeAgrees, T!CircuitKnown, T!GaugeInCycle,
       T!ShownClosed
<1>7. unheard \in BOOLEAN
  BY <1>1, Zenon
<1>8. cycle.span \in 0..Len(tel.spans)
  BY <1>2, <1>3, <1>5
<1> QED
  BY <1>1, <1>4, <1>5, <1>6, <1>7, <1>8 DEF TelInv

(* The cycle under way has the open span of its lane.                      *)
LEMMA RunningSpan ==
  ASSUME TelInv, cycle.pc # "idle"
  PROVE  /\ cycle.lane \in T!PollLane /\ tel.polls[cycle.lane] = cycle.span
         /\ cycle.span \in 1..Len(tel.spans) /\ cycle.span # 0
         /\ tel.spans[cycle.span].lane = cycle.lane
         /\ tel.spans[cycle.span].status = "open"
         /\ \A l \in T!PollLane : l # cycle.lane => tel.polls[l] # cycle.span
         /\ Len(ends) = Len(tel.spans) /\ ends \in Seq(T!Outcome)
         /\ tel.spans[cycle.span].error <=> cycle.pc = "failed"
         /\ tel.spans[cycle.span].error \in BOOLEAN
<1>1. cycle.lane \in T!PollLane /\ tel.polls[cycle.lane] = cycle.span /\ cycle.span # 0
  BY DEF TelInv, T!CycleOwn, RunRecord
<1>2. cycle.span \in 1..Len(tel.spans)
  BY <1>1 DEF TelInv
<1>3. tel.spans[cycle.span].lane = cycle.lane /\ tel.spans[cycle.span].status = "open"
  BY <1>1 DEF TelInv, SpansTold
<1>4. \A l \in T!PollLane : tel.polls[l] = cycle.span => l = cycle.lane
  BY <1>1, <1>3 DEF TelInv, SpansTold
<1>5. tel.spans[cycle.span].error \in BOOLEAN
  BY <1>2, SpanFields DEF TelInv
<1> QED
  BY <1>1, <1>2, <1>3, <1>4, <1>5 DEF TelInv, SpansTold, T!CycleOwn

(* A history that changes at the cycle's span.                             *)
LEMMA OutcomeAt ==
  ASSUME NEW out \in Seq(T!Outcome), NEW i \in 1..Len(out), NEW x \in T!Outcome
  PROVE  LET after == [out EXCEPT ![i] = x]
         IN /\ after \in Seq(T!Outcome) /\ Len(after) = Len(out) /\ after[i] = x
            /\ \A j \in 1..Len(out) : j # i => after[j] = out[j]
OBVIOUS

(* A hook that leaves the spans alone.                                     *)
LEMMA SpansKept ==
  ASSUME TelInv, UNCHANGED <<ends, astray>>, Hooks(tel'), SpansTold(tel', ends),
         tel'.polls = tel.polls, Len(tel'.spans) = Len(tel.spans),
         circuit' \in {"closed", "open"}, unheard' \in BOOLEAN,
         cycle' \in RunRecord, cycle'.lane = cycle.lane, cycle'.span = cycle.span,
         cycle'.pc = "idle" <=> cycle.pc = "idle",
         cycle'.pc # "idle" => (tel'.spans[cycle.span].error <=> cycle'.pc = "failed"),
         cycle'.pc = "failed" => cycle'.circuit # "half-open",
         T!GaugeAgrees', T!CircuitKnown', T!GaugeInCycle'
  PROVE  TelInv'
<1>1. T!CycleOwn'
  BY DEF TelInv, T!CycleOwn
<1> QED
  BY <1>1 DEF TelInv

(* A cycle that ends: how it does is told of its span, and of no other.    *)
LEMMA CycleEnds ==
  ASSUME TelInv, cycle.pc # "idle", NEW error \in BOOLEAN, NEW x \in T!Outcome,
         IF error THEN x \in {"failed", "aborted", "lost"} ELSE x = "ok",
         tel' = T!EndPoll(tel, cycle.lane, error), ends' = [ends EXCEPT ![cycle.span] = x],
         cycle' = T!Resting, astray' = astray, unheard' \in BOOLEAN,
         circuit' \in {"closed", "open"},
         ~unheard' => (Shows(tel.gauge) <=> circuit' = "closed")
  PROVE  TelInv'
<1>1. Hooks(tel) /\ SpansTold(tel, ends)
  BY DEF TelInv
<1>2. /\ cycle.lane \in T!PollLane /\ tel.polls[cycle.lane] = cycle.span
      /\ cycle.span \in 1..Len(ends) /\ cycle.span # 0 /\ ends \in Seq(T!Outcome)
      /\ Len(ends) = Len(tel.spans)
      /\ \A l \in T!PollLane : l # cycle.lane => tel.polls[l] # cycle.span
  BY RunningSpan
<1>3. /\ ends' \in Seq(T!Outcome) /\ Len(ends') = Len(ends) /\ ends'[cycle.span] = x
      /\ \A j \in 1..Len(ends) : j # cycle.span => ends'[j] = ends[j]
  BY <1>2, OutcomeAt
<1>4. /\ Hooks(tel') /\ tel'.gauge = tel.gauge /\ Len(tel'.spans) = Len(tel.spans)
      /\ tel'.polls = [tel.polls EXCEPT ![cycle.lane] = 0]
  <2>1. PICK lane \in T!PollLane : lane = cycle.lane
    BY <1>2
  <2>2. PICK u : u = T!EndPoll(tel, lane, error)
    OBVIOUS
  <2>3. /\ Hooks(u) /\ u.gauge = tel.gauge /\ Len(u.spans) = Len(tel.spans)
        /\ u.polls = [tel.polls EXCEPT ![lane] = 0]
    <3>1. tel.polls[lane] # 0
      BY <1>2, <2>1
    <3>2. PICK t : t = tel
      OBVIOUS
    <3>3. Hooks(t) /\ t.polls[lane] # 0
      BY <1>1, <3>1, <3>2
    <3>4. PICK v : v = T!EndPoll(t, lane, error)
      OBVIOUS
    <3>5. Hooks(v)
      BY <3>3, <3>4, EndPollDoes
    <3>6. v.gauge = t.gauge
      BY <3>3, <3>4, EndPollDoes
    <3>7. Len(v.spans) = Len(t.spans)
      BY <3>3, <3>4, EndPollDoes
    <3>8. v.polls = [t.polls EXCEPT ![lane] = 0]
      BY <3>3, <3>4, EndPollDoes
    <3> QED
      BY <2>2, <3>2, <3>4, <3>5, <3>6, <3>7, <3>8
  <2> QED
    BY <2>1, <2>2, <2>3
<1>5. SpansTold(tel', ends')
  <2>1. PICK lane \in T!PollLane : lane = cycle.lane
    BY <1>2
  <2>2. PICK after \in Seq(T!Outcome) : after = ends'
    BY <1>3
  <2>3. /\ tel.polls[lane] # 0 /\ Len(after) = Len(ends)
        /\ \A j \in 1..Len(ends) : j # tel.polls[lane] => after[j] = ends[j]
        /\ IF error THEN after[tel.polls[lane]] \in {"failed", "aborted", "lost"}
           ELSE after[tel.polls[lane]] = "ok"
    BY <1>2, <1>3, <2>1, <2>2
  <2>4. SpansTold(T!EndPoll(tel, lane, error), after)
    BY <1>1, <2>3, EndPollTold
  <2> QED
    BY <2>1, <2>2, <2>4
<1>6. cycle' \in RunRecord /\ cycle'.pc = "idle" /\ cycle'.span = 0
  BY DEF T!Resting, RunRecord, T!PollLane, Known
<1>7. ASSUME NEW l \in T!PollLane, tel'.polls[l] # 0
      PROVE  ends'[tel'.polls[l]] = "aborted"
  <2>1. l # cycle.lane /\ tel'.polls[l] = tel.polls[l]
    BY <1>4, <1>7 DEF Hooks
  <2>2. tel.polls[l] \in 1..Len(ends) /\ tel.polls[l] # cycle.span
    <3>1. tel.polls[l] \in 0..Len(tel.spans) /\ Len(tel.spans) \in Nat
      BY <1>1, SpanFields
    <3> QED
      BY <1>2, <1>7, <2>1, <3>1
  <2>3. ends[tel.polls[l]] = "aborted"
    BY <1>7, <2>1 DEF TelInv, T!CycleOwn
  <2> QED
    BY <1>3, <2>1, <2>2, <2>3
<1>8. T!CycleOwn'
  BY <1>6, <1>7 DEF T!CycleOwn
<1>9. T!GaugeAgrees' /\ T!CircuitKnown' /\ T!GaugeInCycle'
  BY <1>4, <1>6 DEF T!GaugeAgrees, T!CircuitKnown, T!GaugeInCycle, T!ShownClosed, Shows
<1>10. cycle'.span \in 0..Len(tel'.spans)
  BY <1>2, <1>4, <1>6
<1> QED
  BY <1>4, <1>5, <1>6, <1>8, <1>9, <1>10 DEF TelInv

(* Facts of the invariant about single fields.                             *)
LEMMA TelTypes ==
  ASSUME TelInv
  PROVE  /\ Hooks(tel) /\ SpansTold(tel, ends) /\ tel.gauge \in Gauge
         /\ circuit \in {"closed", "open"} /\ cycle \in RunRecord
         /\ cycle.pc \in {"idle", "polling", "halted", "saving", "failed"}
         /\ cycle.lane \in T!PollLane /\ cycle.circuit \in Known /\ cycle.span \in Nat
         /\ astray = FALSE /\ unheard \in BOOLEAN
BY DEF TelInv, Hooks, RunRecord

(* The deliveries open the circuit, before a cycle and during one.         *)
LEMMA HaltTold ==
  ASSUME TelInv, T!Halt \/ T!HaltInCycle
  PROVE  TelInv'
<1>1. tel' = [tel EXCEPT !.gauge = "open"] /\ circuit' = "open"
  BY DEF T!Halt, T!HaltInCycle, T!OnCircuitOpen
<1>2. /\ Hooks(tel') /\ SpansTold(tel', ends) /\ tel'.gauge = "open"
      /\ tel'.polls = tel.polls /\ tel'.spans = tel.spans
  BY <1>1, GaugeTold, TelTypes DEF Gauge, Known
<1>3. CASE T!Halt
  <2>1. cycle.pc = "idle" /\ cycle' = cycle /\ UNCHANGED <<ends, astray>> /\ unheard' \in BOOLEAN
    BY <1>3 DEF T!Halt
  <2>2. T!GaugeAgrees' /\ T!CircuitKnown' /\ T!GaugeInCycle'
    BY <1>1, <1>2, <2>1 DEF T!GaugeAgrees, T!CircuitKnown, T!GaugeInCycle, T!ShownClosed
  <2> QED
    BY <1>1, <1>2, <2>1, <2>2, TelTypes, SpansKept
<1>4. CASE T!HaltInCycle
  <2>1. /\ cycle.pc = "polling" /\ UNCHANGED <<ends, astray>> /\ unheard' \in BOOLEAN
        /\ cycle' = [cycle EXCEPT !.pc = "halted", !.circuit = "open"]
    BY <1>4 DEF T!HaltInCycle
  <2>2. /\ cycle' \in RunRecord /\ cycle'.pc = "halted" /\ cycle'.lane = cycle.lane
        /\ cycle'.span = cycle.span /\ cycle'.circuit = "open"
    BY <2>1, TelTypes DEF RunRecord, Known
  <2>3. T!GaugeAgrees' /\ T!CircuitKnown' /\ T!GaugeInCycle'
    BY <1>1, <1>2, <2>2 DEF T!GaugeAgrees, T!CircuitKnown, T!GaugeInCycle, T!ShownClosed
  <2>4. ~tel.spans[cycle.span].error
    BY <2>1, RunningSpan
  <2> QED
    BY <1>1, <1>2, <2>1, <2>2, <2>3, <2>4, TelTypes, SpansKept
<1> QED
  BY <1>3, <1>4

(* A child span is found under the span of its cycle.                      *)
LEMMA ReportTold ==
  ASSUME TelInv, T!Report
  PROVE  TelInv'
<1>1. /\ cycle.pc = "polling" /\ UNCHANGED <<tel, circuit, cycle, ends, unheard>>
      /\ astray' = (astray \/ tel.polls[cycle.lane] # cycle.span)
  BY DEF T!Report, T!ParentOf
<1>2. astray' = FALSE
  BY <1>1, RunningSpan, TelTypes
<1> QED
  BY <1>1, <1>2 DEF TelInv, T!CycleOwn, T!GaugeAgrees, T!CircuitKnown, T!GaugeInCycle, T!ShownClosed

(* The cycle succeeds; a probe closes the circuit.                         *)
LEMMA SucceedTold ==
  ASSUME TelInv, T!Succeed
  PROVE  TelInv'
<1>1. /\ cycle.pc = "polling" /\ UNCHANGED <<circuit, ends, astray, unheard>>
      /\ cycle' = [cycle EXCEPT !.pc = "saving"]
      /\ tel' = IF cycle.lane = "live" /\ cycle.circuit # "closed"
                THEN [tel EXCEPT !.gauge = "closed"] ELSE tel
  BY DEF T!Succeed, T!OnCircuitClose
<1>2. /\ Hooks(tel') /\ SpansTold(tel', ends)
      /\ tel'.gauge = (IF cycle.lane = "live" /\ cycle.circuit # "closed" THEN "closed"
                       ELSE tel.gauge)
      /\ tel'.polls = tel.polls /\ tel'.spans = tel.spans
  <2>1. CASE cycle.lane = "live" /\ cycle.circuit # "closed"
    <3>1. tel' = [tel EXCEPT !.gauge = "closed"]
      BY <1>1, <2>1
    <3>2. "closed" \in Gauge
      BY DEF Gauge, Known
    <3> QED
      BY <2>1, <3>1, <3>2, GaugeTold, TelTypes
  <2>2. CASE ~(cycle.lane = "live" /\ cycle.circuit # "closed")
    BY <1>1, <2>2, TelTypes
  <2> QED
    BY <2>1, <2>2
<1>3. /\ cycle' \in RunRecord /\ cycle'.pc = "saving" /\ cycle'.lane = cycle.lane
      /\ cycle'.span = cycle.span /\ cycle'.circuit = cycle.circuit
  BY <1>1, TelTypes DEF RunRecord
<1>4. /\ ~unheard => (Shows(tel.gauge) <=> circuit = "closed")
      /\ cycle.circuit = "closed" <=> circuit = "closed"
  BY <1>1 DEF TelInv, T!GaugeInCycle, T!CircuitKnown, T!ShownClosed, Shows
<1>5. T!GaugeAgrees' /\ T!CircuitKnown' /\ T!GaugeInCycle'
  BY <1>1, <1>2, <1>3, <1>4, TelTypes
     DEF T!GaugeAgrees, T!CircuitKnown, T!GaugeInCycle, T!ShownClosed, Shows
<1>6. ~tel.spans[cycle.span].error
  BY <1>1, RunningSpan
<1> QED
  BY <1>1, <1>2, <1>3, <1>5, <1>6, TelTypes, SpansKept

(* onPollEnd finds the span of its cycle.                                  *)
LEMMA PollEnds ==
  ASSUME TelInv, cycle.pc # "idle"
  PROVE  \E error \in BOOLEAN :
           /\ error <=> cycle.pc = "failed"
           /\ T!OnPollEnd(tel, cycle.lane) = T!EndPoll(tel, cycle.lane, error)
<1> DEFINE error == tel.spans[cycle.span].error
<1>1. T!OnPollEnd(tel, cycle.lane) = T!EndPoll(tel, cycle.lane, error)
  BY RunningSpan DEF T!OnPollEnd
<1>2. error \in BOOLEAN /\ (error <=> cycle.pc = "failed")
  BY RunningSpan
<1> HIDE DEF error
<1> QED
  BY <1>1, <1>2

(* A success is saved, or a failure.                                       *)
LEMMA SavedTold ==
  ASSUME TelInv, T!Saved \/ \E saved \in BOOLEAN : T!Failed(saved)
  PROVE  TelInv'
<1>1. CASE T!Saved
  <2>1. /\ cycle.pc \in {"saving", "halted"} /\ cycle' = T!Resting
        /\ circuit' = IF cycle.pc = "saving" /\ cycle.lane = "live" THEN "closed" ELSE circuit
        /\ tel' = T!OnPollEnd(tel, cycle.lane) /\ astray' = astray
        /\ unheard' = (unheard /\ circuit' = circuit)
        /\ ends' = [ends EXCEPT ![cycle.span] = "ok"]
    BY <1>1 DEF T!Saved
  <2>2. PICK error \in BOOLEAN : /\ error <=> cycle.pc = "failed"
                                 /\ tel' = T!EndPoll(tel, cycle.lane, error)
    BY <2>1, PollEnds
  <2>3. ~unheard' => (Shows(tel.gauge) <=> circuit' = "closed")
    BY <2>1, TelTypes DEF TelInv, T!GaugeInCycle, T!CircuitKnown, T!ShownClosed, Shows
  <2>4. error = FALSE /\ "ok" \in T!Outcome /\ circuit' \in {"closed", "open"}
    BY <2>1, <2>2, TelTypes DEF T!Outcome
  <2>5. unheard' \in BOOLEAN
    BY <2>1, Zenon
  <2> QED
    BY <2>1, <2>2, <2>3, <2>4, <2>5, TelTypes, CycleEnds
<1>2. ASSUME NEW saved \in BOOLEAN, T!Failed(saved) PROVE TelInv'
  <2>1. /\ cycle.pc = "failed" /\ cycle' = T!Resting
        /\ circuit' = IF saved THEN cycle.circuit ELSE circuit
        /\ unheard' = IF saved THEN unheard /\ circuit' = circuit ELSE TRUE
        /\ tel' = T!OnPollEnd(tel, cycle.lane) /\ astray' = astray
        /\ ends' = [ends EXCEPT ![cycle.span] = "failed"]
    BY <1>2 DEF T!Failed
  <2>2. PICK error \in BOOLEAN : /\ error <=> cycle.pc = "failed"
                                 /\ tel' = T!EndPoll(tel, cycle.lane, error)
    BY <2>1, PollEnds
  <2>3. ~unheard' => (Shows(tel.gauge) <=> circuit' = "closed")
    BY <2>1, TelTypes DEF TelInv, T!GaugeInCycle, T!CircuitKnown, T!ShownClosed, Shows
  <2>4. error = TRUE /\ "failed" \in T!Outcome
    BY <2>1, <2>2, TelTypes DEF T!Outcome
  <2>5. circuit' \in {"closed", "open"}
    BY <2>1, TelTypes DEF TelInv, Known
  <2>6. unheard' \in BOOLEAN
    BY <2>1, TelTypes, Zenon
  <2> QED
    BY <2>1, <2>2, <2>3, <2>4, <2>5, <2>6, TelTypes, CycleEnds
<1> QED
  BY <1>1, <1>2

(* A cycle begins with a span of its own; one still open on its lane was   *)
(* left by an aborted cycle, and ends in an error.                         *)
LEMMA BeginTold ==
  ASSUME TelInv, NEW lane \in T!PollLane, T!Begin(lane)
  PROVE  TelInv'
<1> DEFINE rid == IF tel.polls[lane] # 0 THEN T!EndPoll(tel, lane, TRUE) ELSE tel
           n == Len(tel.spans) + 1
<1>1. /\ cycle.pc = "idle" /\ tel' = T!OnPollStart(tel, lane)
      /\ cycle' = [pc |-> "polling", lane |-> lane, span |-> n,
                   circuit |-> IF lane = "live" /\ circuit = "open" THEN "half-open" ELSE circuit]
      /\ ends' = Append(ends, "running") /\ UNCHANGED <<circuit, astray, unheard>>
  BY DEF T!Begin
<1>2. Hooks(tel) /\ SpansTold(tel, ends) /\ Len(tel.spans) \in Nat
  BY TelTypes, SpanFields
<1>3. \A l \in T!PollLane : tel.polls[l] # 0 => ends[tel.polls[l]] = "aborted"
  BY <1>1 DEF TelInv, T!CycleOwn
<1>4. /\ Hooks(rid) /\ SpansTold(rid, ends) /\ rid.gauge = tel.gauge
      /\ Len(rid.spans) = Len(tel.spans) /\ rid.polls[lane] = 0
      /\ \A l \in T!PollLane : l # lane => rid.polls[l] = tel.polls[l]
  <2>1. CASE tel.polls[lane] = 0
    BY <1>2, <2>1
  <2>2. CASE tel.polls[lane] # 0
    <3>1. PICK t : t = tel
      OBVIOUS
    <3>2. Hooks(t) /\ t.polls[lane] # 0 /\ TRUE \in BOOLEAN
      BY <1>2, <2>2, <3>1
    <3>3. PICK v : v = T!EndPoll(t, lane, TRUE)
      OBVIOUS
    <3>4. Hooks(v)
      BY <3>2, <3>3, EndPollDoes
    <3>5. v.gauge = t.gauge
      BY <3>2, <3>3, EndPollDoes
    <3>6. Len(v.spans) = Len(t.spans)
      BY <3>2, <3>3, EndPollDoes
    <3>7. v.polls = [t.polls EXCEPT ![lane] = 0]
      BY <3>2, <3>3, EndPollDoes
    <3>8. SpansTold(v, ends)
      <4>1. ends \in Seq(T!Outcome) /\ SpansTold(t, ends)
        BY <1>2, <3>1 DEF SpansTold
      <4>2. ends[t.polls[lane]] \in {"failed", "aborted", "lost"}
        BY <1>3, <2>2, <3>1
      <4> QED
        BY <3>2, <3>3, <4>1, <4>2, EndPollTold
    <3>9. v = rid
      BY <2>2, <3>1, <3>3
    <3>10. v.polls[lane] = 0 /\ \A l \in T!PollLane : l # lane => v.polls[l] = t.polls[l]
      BY <3>2, <3>7 DEF Hooks
    <3> QED
      BY <3>1, <3>4, <3>5, <3>6, <3>8, <3>9, <3>10
  <2> QED
    BY <2>1, <2>2
<1>5. PICK t : t = rid
  OBVIOUS
<1>6. PICK u : u = T!NewSpan(t, lane)
  OBVIOUS
<1>7. /\ Hooks(t) /\ SpansTold(t, ends) /\ t.gauge = tel.gauge
      /\ Len(t.spans) = Len(tel.spans) /\ t.polls[lane] = 0
      /\ \A l \in T!PollLane : l # lane => t.polls[l] = tel.polls[l]
  BY <1>4, <1>5
<1>8. tel' = [u EXCEPT !.gauge = IF u.gauge = "open" THEN "half-open" ELSE u.gauge]
  BY <1>1, <1>5, <1>6 DEF T!OnPollStart
<1>9. /\ Hooks(u) /\ u.gauge = t.gauge /\ Len(u.spans) = Len(t.spans) + 1
      /\ u.polls = [t.polls EXCEPT ![lane] = Len(t.spans) + 1]
      /\ u.spans[Len(t.spans) + 1] = [lane |-> lane, status |-> "open", error |-> FALSE, ends |-> 0]
  <2> HIDE DEF rid, n
  <2>1. Hooks(t)
    BY <1>7
  <2> QED
    BY ONLY <1>6, <2>1, lane \in T!PollLane, NewSpanDoes
<1>10. Len(t.spans) + 1 = n
  BY <1>7
<1> HIDE DEF rid, n
<1>11. u.polls = [t.polls EXCEPT ![lane] = n]
  BY <1>9, <1>10
<1>12. Len(u.spans) = n /\ u.spans[n] = [lane |-> lane, status |-> "open", error |-> FALSE, ends |-> 0]
  BY <1>9, <1>10
<1>13. u.gauge = t.gauge
  BY <1>9
<1>14. SpansTold(u, ends')
  <2>1. SpansTold(T!NewSpan(t, lane), Append(ends, "running"))
    BY <1>7, NewSpanTold
  <2> QED
    BY <1>1, <1>6, <2>1
<1>15. /\ Hooks(tel') /\ SpansTold(tel', ends') /\ tel'.polls = u.polls /\ tel'.spans = u.spans
       /\ tel'.gauge = IF tel.gauge = "open" THEN "half-open" ELSE tel.gauge
  <2>1. PICK g : g = IF u.gauge = "open" THEN "half-open" ELSE u.gauge
    OBVIOUS
  <2>2. g \in Gauge
    BY <1>9, <2>1 DEF Hooks, Gauge, Known
  <2>3. PICK after : after = ends'
    OBVIOUS
  <2>4. PICK w : w = [u EXCEPT !.gauge = g]
    OBVIOUS
  <2>5. Hooks(w) /\ SpansTold(w, after) /\ w.gauge = g /\ w.polls = u.polls /\ w.spans = u.spans
    BY <1>9, <1>14, <2>2, <2>3, <2>4, GaugeTold
  <2>6. tel' = w
    BY <1>8, <2>1, <2>4
  <2> QED
    BY <1>7, <1>13, <2>1, <2>3, <2>5, <2>6
<1>16. /\ cycle' \in RunRecord /\ cycle'.pc = "polling" /\ cycle'.lane = lane /\ cycle'.span = n
       /\ cycle'.circuit = "closed" <=> circuit = "closed"
  <2>1. n \in Nat /\ (IF lane = "live" /\ circuit = "open" THEN "half-open" ELSE circuit) \in Known
    BY <1>2, TelTypes DEF n, Known
  <2> QED
    BY <1>1, <2>1 DEF RunRecord
<1>17. n # 0 /\ n \in 0..n
  BY <1>2 DEF n
<1>18. T!CycleOwn'
  <2>1. tel'.polls[lane] = n /\ \A l \in T!PollLane : l # lane => tel'.polls[l] = tel.polls[l]
    BY <1>7, <1>11, <1>15 DEF Hooks
  <2>2. tel'.spans[n].error = FALSE
    BY <1>12, <1>15
  <2>3. ASSUME NEW l \in T!PollLane, l # lane, tel'.polls[l] # 0
        PROVE  ends'[tel'.polls[l]] = "aborted"
    <3>1. tel.polls[l] # 0 /\ ends[tel.polls[l]] = "aborted"
      BY <1>3, <2>1, <2>3
    <3>2. tel.polls[l] \in 0..Len(tel.spans)
      BY <1>2, SpanFields
    <3>3. tel.polls[l] \in 1..Len(ends) /\ ends \in Seq(T!Outcome)
      BY <1>2, <3>1, <3>2 DEF SpansTold
    <3>4. ends'[tel.polls[l]] = ends[tel.polls[l]]
      BY <1>1, <3>3
    <3> QED
      BY <2>1, <2>3, <3>1, <3>4
  <2> QED
    BY <1>16, <1>17, <2>1, <2>2, <2>3 DEF T!CycleOwn
<1>19. T!GaugeAgrees' /\ T!CircuitKnown' /\ T!GaugeInCycle'
  <2>1. ~unheard => (Shows(tel.gauge) <=> circuit = "closed")
    BY <1>1 DEF TelInv, T!GaugeAgrees, T!ShownClosed, Shows
  <2> QED
    BY <1>1, <1>15, <1>16, <2>1
       DEF T!GaugeAgrees, T!CircuitKnown, T!GaugeInCycle, T!ShownClosed, Shows
<1>20. cycle'.span \in 0..Len(tel'.spans)
  BY <1>10, <1>12, <1>15, <1>16, <1>17
<1> QED
  BY <1>1, <1>15, <1>16, <1>18, <1>19, <1>20, TelTypes DEF TelInv

(* An error, of the source or of the save.                                 *)
LEMMA FailingTold ==
  ASSUME TelInv, NEW opens \in BOOLEAN, T!Failing(opens), unheard' \in BOOLEAN,
         cycle.pc \in {"polling", "saving", "halted"}, cycle.pc = "polling" \/ unheard' = TRUE,
         cycle.pc = "polling" => unheard' = unheard
  PROVE  TelInv'
<1> DEFINE t == IF opens THEN [tel EXCEPT !.gauge = "open"] ELSE tel
<1>1. /\ opens => cycle.lane = "live" /\ cycle.circuit = "closed"
      /\ tel' = T!OnError(t, cycle.lane)
      /\ cycle' = [cycle EXCEPT !.pc = "failed",
                     !.circuit = IF cycle.circuit # "closed" \/ opens THEN "open" ELSE "closed"]
      /\ UNCHANGED <<circuit, ends, astray>>
  BY DEF T!Failing, T!OnCircuitOpen
<1>2. /\ Hooks(t) /\ SpansTold(t, ends) /\ t.polls = tel.polls /\ t.spans = tel.spans
      /\ t.gauge = (IF opens THEN "open" ELSE tel.gauge)
  <2>1. CASE opens
    <3>1. "open" \in Gauge
      BY DEF Gauge, Known
    <3> QED
      BY <2>1, <3>1, GaugeTold, TelTypes
  <2>2. CASE ~opens
    BY <2>2, TelTypes
  <2> QED
    BY <2>1, <2>2
<1> HIDE DEF t
<1>3. PICK lane \in T!PollLane : lane = cycle.lane
  BY TelTypes
<1>4. PICK b : b = t
  OBVIOUS
<1>5. /\ Hooks(b) /\ SpansTold(b, ends) /\ b.polls[lane] # 0 /\ b.polls[lane] = cycle.span
      /\ Len(b.spans) = Len(tel.spans)
  BY <1>2, <1>3, <1>4, RunningSpan
<1>6. PICK out : out = ends
  OBVIOUS
<1>7. PICK u : u = T!OnError(b, lane)
  OBVIOUS
<1>8. /\ Hooks(u) /\ SpansTold(u, out) /\ u.gauge = b.gauge /\ u.polls = b.polls
      /\ Len(u.spans) = Len(b.spans) /\ u.spans[b.polls[lane]].error = TRUE
  BY <1>5, <1>6, <1>7, ErrorTold
<1>9. tel' = u
  BY <1>1, <1>3, <1>4, <1>7
<1>10. /\ cycle' \in RunRecord /\ cycle'.pc = "failed" /\ cycle'.lane = cycle.lane
       /\ cycle'.span = cycle.span
       /\ cycle'.circuit = IF cycle.circuit # "closed" \/ opens THEN "open" ELSE "closed"
  BY <1>1, TelTypes DEF RunRecord, Known
<1>11. tel'.gauge = (IF opens THEN "open" ELSE tel.gauge)
  BY <1>2, <1>4, <1>8, <1>9
<1>12. T!GaugeAgrees' /\ T!CircuitKnown' /\ T!GaugeInCycle'
  <2>1. ~unheard' => (Shows(tel.gauge) <=> circuit = "closed")
    BY DEF TelInv, T!GaugeInCycle, T!ShownClosed, Shows
  <2>2. cycle.circuit = "closed" <=> circuit = "closed"
    BY TelTypes DEF TelInv, T!CircuitKnown
  <2> QED
    BY <1>1, <1>10, <1>11, <2>1, <2>2, TelTypes
       DEF T!GaugeAgrees, T!CircuitKnown, T!GaugeInCycle, T!ShownClosed, Shows
<1>13. tel'.polls = tel.polls /\ Len(tel'.spans) = Len(tel.spans) /\ tel'.spans[cycle.span].error
  BY <1>2, <1>4, <1>5, <1>8, <1>9
<1>14. Hooks(tel') /\ SpansTold(tel', ends)
  BY <1>6, <1>8, <1>9
<1> QED
  BY <1>1, <1>10, <1>12, <1>13, <1>14, TelTypes, SpansKept

(* A run that stops leaves its span open, and one that lost its lease ends *)
(* all that are.                                                           *)
LEMMA AbortTold ==
  ASSUME TelInv, T!Abort
  PROVE  TelInv'
<1>1. /\ cycle.pc = "polling" /\ ends' = [ends EXCEPT ![cycle.span] = "aborted"]
      /\ cycle' = T!Resting /\ UNCHANGED <<tel, circuit, astray, unheard>>
  BY DEF T!Abort
<1>2. /\ cycle.lane \in T!PollLane /\ tel.polls[cycle.lane] = cycle.span
      /\ cycle.span \in 1..Len(ends) /\ ends \in Seq(T!Outcome)
      /\ Len(ends) = Len(tel.spans)
      /\ tel.spans[cycle.span].status = "open"
  BY <1>1, RunningSpan
<1>3. /\ ends' \in Seq(T!Outcome) /\ Len(ends') = Len(ends)
      /\ ends'[cycle.span] = "aborted"
      /\ \A j \in 1..Len(ends) : j # cycle.span => ends'[j] = ends[j]
  BY <1>1, <1>2, OutcomeAt DEF T!Outcome
<1>4. SpansTold(tel', ends')
  <2>1. \A i \in 1..Len(tel.spans) :
          /\ tel.spans[i].status = "ok" => ends'[i] = "ok"
          /\ tel.spans[i].status = "error" => ends'[i] \in {"failed", "aborted", "lost"}
    BY <1>2, <1>3, TelTypes DEF SpansTold
  <2> QED
    BY <1>1, <1>2, <1>3, <2>1, TelTypes DEF SpansTold
<1>5. cycle' \in RunRecord /\ cycle'.pc = "idle" /\ cycle'.span = 0
  BY <1>1 DEF T!Resting, RunRecord, T!PollLane, Known
<1>6. T!CycleOwn'
  <2>1. ASSUME NEW l \in T!PollLane, tel.polls[l] # 0
        PROVE  ends'[tel.polls[l]] = "aborted"
    <3>1. tel.polls[l] \in 0..Len(tel.spans) /\ Len(tel.spans) \in Nat
      BY TelTypes, SpanFields
    <3>2. tel.polls[l] \in 1..Len(ends)
      BY <1>2, <2>1, <3>1
    <3>3. l # cycle.lane => ends[tel.polls[l]] = "aborted"
      BY <2>1 DEF TelInv, T!CycleOwn
    <3> QED
      BY <1>2, <1>3, <3>2, <3>3
  <2> QED
    BY <1>1, <1>5, <2>1 DEF T!CycleOwn
<1>7. T!GaugeAgrees' /\ T!CircuitKnown' /\ T!GaugeInCycle'
  BY <1>1, <1>5 DEF TelInv, T!GaugeAgrees, T!CircuitKnown, T!GaugeInCycle, T!ShownClosed
<1>8. cycle'.span \in 0..Len(tel'.spans) /\ Hooks(tel')
  BY <1>1, <1>2, <1>5, TelTypes
<1> QED
  BY <1>1, <1>4, <1>5, <1>6, <1>7, <1>8, TelTypes DEF TelInv

(* A run that loses its lease keeps the invariant: its spans stay open   *)
(* until the next cycle of their lanes.                                  *)
LEMMA LoseLeaseTold ==
  ASSUME TelInv, T!LoseLease
  PROVE  TelInv'
<1>1. /\ cycle.pc # "idle" /\ ends' = [ends EXCEPT ![cycle.span] = "lost"]
      /\ tel' = T!OnLeaseLost(tel) /\ unheard' = TRUE
      /\ cycle' = T!Resting /\ astray' = astray /\ circuit' \in {"closed", "open"}
  BY DEF T!LoseLease
<1>2. /\ cycle.lane \in T!PollLane /\ tel.polls[cycle.lane] = cycle.span
      /\ cycle.span \in 1..Len(ends) /\ ends \in Seq(T!Outcome)
      /\ Len(ends) = Len(tel.spans)
  BY <1>1, RunningSpan
<1>3. /\ ends' \in Seq(T!Outcome) /\ Len(ends') = Len(ends)
      /\ ends'[cycle.span] = "lost"
      /\ \A j \in 1..Len(ends) : j # cycle.span => ends'[j] = ends[j]
  BY <1>1, <1>2, OutcomeAt DEF T!Outcome
<1>4. ASSUME NEW l \in T!PollLane, tel.polls[l] # 0
      PROVE  ends'[tel.polls[l]] \in {"failed", "aborted", "lost"}
  <2>1. tel.polls[l] \in 0..Len(tel.spans) /\ Len(tel.spans) \in Nat
    BY TelTypes, SpanFields
  <2>2. tel.polls[l] \in 1..Len(ends)
    BY <1>2, <1>4, <2>1
  <2>3. l # cycle.lane => ends[tel.polls[l]] = "aborted"
    BY <1>4 DEF TelInv, T!CycleOwn
  <2> QED
    BY <1>2, <1>3, <2>2, <2>3
<1>5. PICK after \in Seq(T!Outcome) : after = ends'
  BY <1>3
<1>6. PICK t : t = tel
  OBVIOUS
<1>7. PICK out : out = ends
  OBVIOUS
<1>8. /\ Hooks(t) /\ SpansTold(t, out) /\ Len(after) = Len(out)
      /\ \A lane \in T!PollLane : t.polls[lane] # 0 =>
           after[t.polls[lane]] \in {"failed", "aborted", "lost"}
      /\ \A j \in 1..Len(out) :
           (\A lane \in T!PollLane : t.polls[lane] # j) => after[j] = out[j]
  BY <1>2, <1>3, <1>4, <1>5, <1>6, <1>7, TelTypes
<1>9. PICK u : u = T!OnLeaseLost(t)
  OBVIOUS
<1>10. Hooks(u) /\ SpansTold(u, after) /\ \A lane \in T!PollLane : u.polls[lane] = 0
  BY <1>8, <1>9, LeaseLostTold
<1>11. /\ Hooks(tel') /\ SpansTold(tel', ends')
       /\ \A lane \in T!PollLane : tel'.polls[lane] = 0
  BY <1>1, <1>5, <1>6, <1>9, <1>10
<1>12. cycle' \in RunRecord /\ cycle'.pc = "idle" /\ cycle'.span = 0
  BY <1>1 DEF T!Resting, RunRecord, T!PollLane, Known
<1>13. T!CycleOwn' /\ T!GaugeAgrees' /\ T!CircuitKnown' /\ T!GaugeInCycle'
  BY <1>1, <1>11, <1>12 DEF T!CycleOwn, T!GaugeAgrees, T!CircuitKnown, T!GaugeInCycle
<1>14. cycle'.span \in 0..Len(tel'.spans)
  <2>1. Len(tel'.spans) = Len(ends)
    BY <1>3, <1>11 DEF SpansTold
  <2> QED
    BY <1>2, <1>12, <2>1
<1> QED
  BY <1>1, <1>11, <1>12, <1>13, <1>14, TelTypes DEF TelInv

(* Another instance changes the stored circuit between two runs.           *)
LEMMA ElsewhereTold ==
  ASSUME TelInv, T!RunElsewhere
  PROVE  TelInv'
<1>1. /\ cycle.pc = "idle" /\ UNCHANGED <<tel, cycle, ends, astray>>
      /\ circuit' \in {"closed", "open"} /\ unheard' = TRUE
  BY DEF T!RunElsewhere
<1> QED
  BY <1>1 DEF TelInv, T!CycleOwn, T!GaugeAgrees, T!CircuitKnown, T!GaugeInCycle

(* On every way out of a cycle the telemetry tells what happened: spans    *)
(* end once, with the status of their cycle, children have their parent,   *)
(* and the gauge follows the circuit once the hooks have told a transition *)
(* that was saved, until a save fails or another instance changes the      *)
(* circuit, which may be open when the process begins (otelHooks).         *)
THEOREM TelemetryKept ==
  T!Spec => []TelemetrySound
<1>1. T!Init => TelInv
  BY TelInvInit
<1>2. TelInv /\ [T!Next]_(T!vars) => TelInv'
  <2>1. ASSUME TelInv, UNCHANGED T!vars PROVE TelInv'
    BY <2>1 DEF T!vars, TelInv, T!CycleOwn, T!GaugeAgrees, T!CircuitKnown, T!GaugeInCycle, T!ShownClosed
  <2>2. ASSUME TelInv, T!Next PROVE TelInv'
    <3>1. ASSUME NEW flag \in BOOLEAN, T!Fail(flag) \/ T!SaveThrows(flag) PROVE TelInv'
      <4>1. /\ T!Failing(flag) /\ cycle.pc \in {"polling", "saving", "halted"}
            /\ unheard' \in BOOLEAN
            /\ cycle.pc = "polling" => unheard' = unheard
            /\ cycle.pc # "polling" => unheard' = TRUE
        BY <2>2, <3>1, TelTypes DEF T!Fail, T!SaveThrows
      <4> QED
        BY <2>2, <4>1, FailingTold
    <3> QED
      BY <2>2, <3>1, HaltTold, ReportTold, SucceedTold, SavedTold, AbortTold, LoseLeaseTold,
         ElsewhereTold, BeginTold DEF T!Next
  <2> QED
    BY <2>1, <2>2
<1>3. TelInv => T!TelemetrySound
  BY TelInvSound
<1> QED
  BY <1>1, <1>2, <1>3, PTL DEF T!Spec, TelemetrySound

-----------------------------------------------------------------------------
(* A pass of tick() is complete or says that it timed out.                 *)

(* The part counts as its surroundings do.                                 *)
LEMMA TickCounts ==
  ASSUME NEW S
  PROVE  P!Cardinality(S) = Cardinality(S) /\ (P!IsFiniteSet(S) <=> IsFiniteSet(S))
BY DEF P!Cardinality, Cardinality, P!IsFiniteSet, IsFiniteSet

(* The keys a pass is asked for, in some order, each once.                 *)
LEMMA ListedOnce ==
  ASSUME P!TickParameters, NEW S \in SUBSET PassKey
  PROVE  /\ P!SetToSeq(S) \in Seq(S) /\ P!IsInjective(P!SetToSeq(S)) /\ P!ToSet(P!SetToSeq(S)) = S
         /\ P!IsFiniteSet(S) /\ P!Cardinality(S) \in Nat
<1> DEFINE n == P!Cardinality(S)
<1>1. P!IsFiniteSet(S)
  BY FS_Subset, TickCounts DEF P!TickParameters
<1>2. n \in Nat /\ ExistsBijection(1..n, S)
  BY <1>1, FS_CardinalityType, TickCounts
<1>3. \E f \in [1..n -> S] : P!IsInjective(f)
  <2>1. PICK f : f \in Bijection(1..n, S)
    BY <1>2 DEF ExistsBijection
  <2>2. f \in [1..n -> S] /\ \A a, b \in 1..n : f[a] = f[b] => a = b
    BY <2>1 DEF Bijection, Injection, P!IsInjective, IsInjective
  <2>3. DOMAIN f = 1..n
    BY <2>2
  <2> QED
    BY <2>2, <2>3 DEF P!IsInjective
<1>4. PICK q : q = P!SetToSeq(S)
  OBVIOUS
<1>5. q \in [1..n -> S] /\ P!IsInjective(q)
  BY <1>3, <1>4 DEF P!SetToSeq
<1>6. DOMAIN q = 1..n /\ \A a, b \in 1..n : q[a] = q[b] => a = b
  BY <1>5 DEF P!IsInjective
<1>7. P!ToSet(q) = S
  <2>1. P!ToSet(q) = {q[i] : i \in 1..n} /\ P!ToSet(q) \subseteq S
    BY <1>5, <1>6 DEF P!ToSet
  <2> HIDE DEF n
  <2>2. q \in Bijection(1..n, P!ToSet(q))
    <3>1. q \in [1..n -> P!ToSet(q)]
      BY <1>5, <2>1
    <3>2. \A t \in P!ToSet(q) : \E s \in 1..n : q[s] = t
      BY <2>1
    <3> QED
      BY <1>6, <3>1, <3>2 DEF Bijection, Injection, Surjection, P!IsInjective, IsInjective
  <2>3. ExistsBijection(1..n, P!ToSet(q))
    BY <2>2 DEF ExistsBijection
  <2>4. P!Cardinality(P!ToSet(q)) = n
    BY <1>2, <2>3, FS_CountingElements, TickCounts
  <2> QED
    BY <1>1, <2>1, <2>4, FS_Subset, TickCounts DEF n
<1>8. q \in Seq(S)
  BY <1>2, <1>5
<1> QED
  BY <1>1, <1>2, <1>4, <1>5, <1>7, <1>8

(* What shift() leaves of a queue that holds each key once.                *)
LEMMA Shifted ==
  ASSUME NEW S, NEW q \in Seq(S), q # <<>>, P!IsInjective(q)
  PROVE  /\ Tail(q) \in Seq(S) /\ P!IsInjective(Tail(q))
         /\ Head(q) \in S /\ Head(q) \in P!ToSet(q)
         /\ P!ToSet(Tail(q)) = P!ToSet(q) \ {Head(q)}
<1>1. PICK t : t = Tail(q)
  OBVIOUS
<1>2. /\ Head(q) \in S /\ Head(q) = q[1] /\ t \in Seq(S) /\ Len(t) = Len(q) - 1 /\ Len(q) \in Nat /\ Len(q) > 0
      /\ \A i \in 1..Len(t) : t[i] = q[i + 1]
  BY <1>1
<1>3. DOMAIN q = 1..Len(q) /\ DOMAIN t = 1..Len(t)
  BY <1>2
<1>4. \A a, b \in 1..Len(q) : q[a] = q[b] => a = b
  BY <1>3 DEF P!IsInjective
<1>5. P!IsInjective(t)
  BY <1>2, <1>3, <1>4 DEF P!IsInjective
<1>6. P!ToSet(q) = {q[i] : i \in 1..Len(q)} /\ P!ToSet(t) = {t[i] : i \in 1..Len(t)}
  BY <1>3 DEF P!ToSet
<1>7. Head(q) \in P!ToSet(q)
  BY <1>2, <1>6
<1>8. ASSUME NEW x \in P!ToSet(t) PROVE x \in P!ToSet(q) /\ x # Head(q)
  <2>1. PICK i \in 1..Len(t) : x = t[i]
    BY <1>6, <1>8
  <2>2. i + 1 \in 1..Len(q) /\ 1 \in 1..Len(q) /\ i + 1 # 1
    BY <1>2, <2>1
  <2>3. x = q[i + 1]
    BY <1>2, <2>1
  <2> QED
    BY <1>2, <1>4, <1>6, <2>2, <2>3
<1>9. ASSUME NEW x \in P!ToSet(q), x # Head(q) PROVE x \in P!ToSet(t)
  <2>1. PICK i \in 1..Len(q) : x = q[i]
    BY <1>6, <1>9
  <2>2. i # 1
    BY <1>2, <1>9, <2>1
  <2>3. i - 1 \in 1..Len(t) /\ (i - 1) + 1 = i
    BY <1>2, <2>1, <2>2
  <2>4. t[i - 1] = q[i]
    BY <1>2, <2>3
  <2> QED
    BY <1>6, <2>1, <2>3, <2>4
<1>10. P!ToSet(t) = P!ToSet(q) \ {Head(q)}
  BY <1>8, <1>9
<1> QED
  BY <1>1, <1>2, <1>5, <1>7, <1>10

(* The pass begins with every key it is asked for in the queue.            *)
LEMMA PassBegins ==
  ASSUME P!TickParameters, P!Init
  PROVE  P!PassInv
<1>1. asked \in SUBSET PassKey /\ unvisited = P!SetToSeq(asked)
  BY DEF P!Init
<1>2. /\ unvisited \in Seq(asked) /\ P!IsInjective(unvisited) /\ P!ToSet(unvisited) = asked
      /\ P!Cardinality(asked) \in Nat
  BY <1>1, ListedOnce
<1>3. \A w \in DOMAIN worker : worker[w].at = "idle"
  BY DEF P!Init
<1>4. P!TypeOK
  BY <1>1, <1>2 DEF P!Init, P!TypeOK, P!TickParameters
<1>5. P!Queued /\ P!Unserved /\ P!Settled
  BY <1>1, <1>2, <1>3 DEF P!Init, P!Queued, P!Unserved, P!Settled
<1>6. P!Busy = {} /\ P!Running = {} /\ P!Visited = {} /\ P!Polled = {}
  BY <1>3 DEF P!Busy, P!Running, P!Visited, P!Polled, P!Init
<1>7. P!Exclusive
  BY <1>6 DEF P!Exclusive, P!Init
<1>8. P!Accounted
  <2>1. P!Cardinality({}) = 0
    BY FS_EmptySet, TickCounts
  <2>2. P!Visited \ P!Running = {}
    BY <1>6
  <2> QED
    BY <1>6, <2>1, <2>2 DEF P!Accounted, P!Init
<1> QED
  BY <1>4, <1>5, <1>7, <1>8 DEF P!PassInv

(* What is counted are numbers: the keys are finitely many.                *)
LEMMA Counting ==
  ASSUME P!TickParameters, P!TypeOK, NEW S \in SUBSET PassKey
  PROVE  /\ P!IsFiniteSet(S) /\ P!Cardinality(S) \in Nat
         /\ result.skippedLeased \in Nat /\ result.skippedNotDue \in Nat
         /\ \A k \in S : P!Cardinality(S \ {k}) = P!Cardinality(S) - 1
         /\ \A Sub \in SUBSET S : P!Cardinality(Sub) \in Nat /\ P!Cardinality(Sub) <= P!Cardinality(S)
<1>1. P!IsFiniteSet(S) /\ P!Cardinality(S) \in Nat
  BY FS_Subset, FS_CardinalityType, TickCounts DEF P!TickParameters
<1>2. \A k \in S : P!Cardinality(S \ {k}) = P!Cardinality(S) - 1
  BY <1>1, FS_RemoveElement, TickCounts
<1>3. \A Sub \in SUBSET S : P!Cardinality(Sub) \in Nat /\ P!Cardinality(Sub) <= P!Cardinality(S)
  BY <1>1, FS_Subset, FS_CardinalityType, TickCounts
<1> QED
  BY <1>1, <1>2, <1>3 DEF P!TypeOK

(* What is counted depends on the workers that run, the visits and the     *)
(* entries.                                                                *)
LEMMA CountsKept ==
  ASSUME P!Exclusive, P!Accounted, UNCHANGED <<visits, polled>>,
         result'.skippedLeased = result.skippedLeased,
         result'.skippedNotDue = result.skippedNotDue,
         P!Busy' = P!Busy, \A v \in P!Busy : worker'[v] = worker[v]
  PROVE  P!Exclusive' /\ P!Accounted'
<1>1. P!Visited' = P!Visited /\ P!Polled' = P!Polled
  BY DEF P!Visited, P!Polled
<1>2. P!Running' = P!Running
  BY DEF P!Running
<1>3. P!Exclusive'
  BY <1>1, <1>2 DEF P!Exclusive
<1> QED
  BY <1>1, <1>2, <1>3 DEF P!Accounted

(* A worker takes the next key, leaves an empty queue, or gives up when    *)
(* the deadline has passed (worker).                                       *)
LEMMA ShiftKeeps ==
  ASSUME P!TickParameters, P!PassInv, NEW w \in DOMAIN worker, P!Shift(w)
  PROVE  P!PassInv'
<1>1. P!TypeOK /\ P!Queued /\ P!Unserved /\ P!Settled /\ P!Exclusive /\ P!Accounted
  BY DEF P!PassInv
<1>2. worker[w].at = "idle" /\ UNCHANGED <<elapsed, deadline, asked, polled, pass>>
  BY DEF P!Shift
<1>3. pass # "returned"
  BY <1>1, <1>2 DEF P!Settled
<1>4. CASE unvisited = <<>> /\ worker' = [worker EXCEPT ![w].at = "done"]
           /\ UNCHANGED <<unvisited, result, visits>>
  <2>1. /\ DOMAIN worker' = DOMAIN worker /\ worker'[w].at = "done"
        /\ \A v \in DOMAIN worker : v # w => worker'[v] = worker[v]
    BY <1>1, <1>4 DEF P!TypeOK
  <2>2. P!TypeOK'
    BY <1>1, <1>2, <1>4 DEF P!TypeOK
  <2>3. P!Queued' /\ P!Unserved' /\ P!Settled'
    BY <1>1, <1>2, <1>3, <1>4, <2>1 DEF P!Queued, P!Unserved, P!Settled
  <2>4. P!Busy' = P!Busy /\ \A v \in P!Busy : worker'[v] = worker[v]
    BY <1>2, <2>1 DEF P!Busy
  <2>5. P!Exclusive' /\ P!Accounted'
    BY <1>1, <1>2, <1>4, <2>4, CountsKept
  <2> QED
    BY <2>2, <2>3, <2>5 DEF P!PassInv
<1>5. CASE unvisited # <<>> /\ unvisited' = Tail(unvisited) /\ worker' = [worker EXCEPT ![w].at = "done"]
           /\ result' = [result EXCEPT !.timedOut = TRUE] /\ UNCHANGED visits
  <2>1. /\ DOMAIN worker' = DOMAIN worker /\ worker'[w].at = "done"
        /\ \A v \in DOMAIN worker : v # w => worker'[v] = worker[v]
    BY <1>1, <1>5 DEF P!TypeOK
  <2>2. /\ unvisited' \in Seq(asked) /\ P!IsInjective(unvisited')
        /\ P!ToSet(unvisited') = P!ToSet(unvisited) \ {Head(unvisited)}
    BY <1>1, <1>5, Shifted DEF P!TypeOK, P!Queued
  <2>3. P!TypeOK'
    BY <1>1, <1>2, <1>5, <2>2 DEF P!TypeOK
  <2>4. /\ result'.timedOut
        /\ result'.skippedLeased = result.skippedLeased
        /\ result'.skippedNotDue = result.skippedNotDue
    BY <1>1, <1>5 DEF P!TypeOK
  <2>5. P!Queued' /\ P!Unserved' /\ P!Settled'
    BY <1>1, <1>2, <1>3, <1>5, <2>1, <2>2, <2>4 DEF P!Queued, P!Unserved, P!Settled
  <2>6. P!Busy' = P!Busy /\ \A v \in P!Busy : worker'[v] = worker[v]
    BY <1>2, <2>1 DEF P!Busy
  <2>7. P!Exclusive' /\ P!Accounted'
    BY <1>1, <1>2, <1>5, <2>4, <2>6, CountsKept
  <2> QED
    BY <2>3, <2>5, <2>7 DEF P!PassInv
<1>6. CASE unvisited # <<>> /\ unvisited' = Tail(unvisited)
           /\ worker' = [worker EXCEPT ![w] = [at |-> "running", key |-> Head(unvisited)]]
           /\ visits' = [visits EXCEPT ![Head(unvisited)] = @ + 1]
           /\ UNCHANGED result
  <2>1. PICK k : k = Head(unvisited)
    OBVIOUS
  <2>2. /\ unvisited' \in Seq(asked) /\ P!IsInjective(unvisited')
        /\ k \in asked /\ k \in P!ToSet(unvisited)
        /\ P!ToSet(unvisited') = P!ToSet(unvisited) \ {k}
    BY <1>1, <1>6, <2>1, Shifted DEF P!TypeOK, P!Queued
  <2>3. k \in PassKey /\ visits[k] = 0
    BY <1>1, <2>2 DEF P!TypeOK, P!Queued
  <2>4. /\ visits'[k] = 1 /\ \A l \in PassKey : l # k => visits'[l] = visits[l]
        /\ visits' \in [PassKey -> 0..1]
    BY <1>1, <1>6, <2>1, <2>3 DEF P!TypeOK
  <2>5. /\ DOMAIN worker' = DOMAIN worker /\ worker'[w].at = "running" /\ worker'[w].key = k
        /\ \A v \in DOMAIN worker : v # w => worker'[v] = worker[v]
    BY <1>1, <1>6, <2>1 DEF P!TypeOK
  <2>6. P!TypeOK'
    BY <1>1, <1>2, <1>6, <2>1, <2>2, <2>3, <2>4 DEF P!TypeOK
  <2>7. P!ToSet(unvisited) \subseteq PassKey
    BY <1>1 DEF P!TypeOK, P!ToSet
  <2>8. P!Queued'
    BY <1>1, <2>2, <2>4, <2>7 DEF P!Queued
  <2>9. P!Unserved'
    <3>1. ~result.timedOut => \A l \in asked : visits'[l] = 1 \/ l \in P!ToSet(unvisited')
      BY <1>1, <2>2, <2>3, <2>4 DEF P!Unserved, P!TypeOK
    <3>2. ~result.timedOut => \A v \in DOMAIN worker' : worker'[v].at # "done"
      BY <1>1, <1>6, <2>5 DEF P!Unserved
    <3> QED
      BY <1>2, <1>6, <3>1, <3>2 DEF P!Unserved
  <2>10. P!Settled'
    BY <1>1, <1>2, <1>3, <2>5 DEF P!Settled
  <2>11. P!Visited' = P!Visited \cup {k} /\ k \notin P!Visited /\ P!Polled' = P!Polled
    BY <1>2, <2>3, <2>4 DEF P!Visited, P!Polled
  <2>12. P!Busy' = P!Busy \cup {w} /\ \A v \in P!Busy : v # w /\ worker'[v] = worker[v]
    BY <1>2, <2>5 DEF P!Busy
  <2>13. P!Running' = P!Running \cup {k}
    BY <2>5, <2>12 DEF P!Running
  <2>14. P!Visited' \ P!Running' = P!Visited \ P!Running
    BY <2>11, <2>13
  <2>15. P!Exclusive'
    <3>1. \A v \in P!Busy : worker[v].key # k
      BY <1>1, <2>11 DEF P!Exclusive, P!Running
    <3>2. \A u, v \in P!Busy' : worker'[u].key = worker'[v].key => u = v
      BY <1>1, <2>5, <2>12, <3>1 DEF P!Exclusive
    <3> QED
      BY <1>1, <1>2, <2>11, <2>13, <2>14, <3>2 DEF P!Exclusive
  <2>16. P!Accounted'
    BY <1>1, <1>6, <2>11, <2>14 DEF P!Accounted
  <2> QED
    BY <2>6, <2>8, <2>9, <2>10, <2>15, <2>16 DEF P!PassInv
<1> QED
  BY <1>4, <1>5, <1>6 DEF P!Shift

(* A worker is through with its key: the key has been visited, has no      *)
(* entry, and nobody else runs it.                                         *)
LEMMA Released ==
  ASSUME P!TypeOK, P!Exclusive, NEW w \in DOMAIN worker, worker[w].at = "running",
         UNCHANGED visits, DOMAIN worker' = DOMAIN worker, worker'[w].at # "running",
         \A v \in DOMAIN worker : v # w => worker'[v] = worker[v],
         NEW k, k = worker[w].key
  PROVE  /\ k \in PassKey /\ k \in P!Visited /\ k \notin P!Polled
         /\ P!Busy' = P!Busy \ {w} /\ P!Running' = P!Running \ {k} /\ P!Visited' = P!Visited
         /\ P!Visited' \ P!Running' = (P!Visited \ P!Running) \cup {k}
         /\ k \notin P!Visited \ P!Running
         /\ \A u, v \in P!Busy' : worker'[u].key = worker'[v].key => u = v
<1>1. w \in P!Busy /\ P!Busy' = P!Busy \ {w} /\ \A v \in P!Busy' : worker'[v] = worker[v]
  BY DEF P!Busy
<1>2. P!Visited' = P!Visited
  BY DEF P!Visited
<1>3. k \in P!Running /\ k \in P!Visited /\ k \notin P!Polled /\ k \in PassKey
  BY <1>1 DEF P!Running, P!Exclusive, P!Visited
<1>4. \A v \in P!Busy : v # w => worker[v].key # k
  BY <1>1 DEF P!Exclusive
<1>5. P!Running' = P!Running \ {k}
  BY <1>1, <1>4 DEF P!Running
<1>6. \A u, v \in P!Busy' : worker'[u].key = worker'[v].key => u = v
  BY <1>1 DEF P!Exclusive
<1> QED
  BY <1>1, <1>2, <1>3, <1>5, <1>6

(* What is written down when runOne returns: an entry per lane that ran,   *)
(* or a skipped key.                                                       *)
LEMMA AccountDoes ==
  ASSUME P!TypeOK, NEW w \in DOMAIN worker, NEW k \in PassKey, k = worker[w].key, P!Account(w)
  PROVE  /\ result' \in [skippedLeased : Nat, skippedNotDue : Nat, timedOut : BOOLEAN]
         /\ ~result'.timedOut => ~result.timedOut
         /\ \/ /\ polled' = polled
               /\ result'.skippedLeased + result'.skippedNotDue =
                    result.skippedLeased + result.skippedNotDue + 1
            \/ /\ result'.skippedLeased = result.skippedLeased
               /\ result'.skippedNotDue = result.skippedNotDue
               /\ \E ran \in SUBSET P!Lane : P!Report(k, ran)
<1>1. PICK r : r = result
  OBVIOUS
<1>2. r \in [skippedLeased : Nat, skippedNotDue : Nat, timedOut : BOOLEAN]
  BY <1>1 DEF P!TypeOK
<1>3. CASE result' = [r EXCEPT !.skippedLeased = @ + 1] /\ polled' = polled
  BY <1>1, <1>2, <1>3
<1>4. CASE result' = [r EXCEPT !.skippedNotDue = @ + 1] /\ polled' = polled
  BY <1>1, <1>2, <1>4
<1>5. CASE result' = r /\ \E ran \in SUBSET P!Lane : P!Report(k, ran)
  BY <1>1, <1>2, <1>5
<1>6. CASE result' = [r EXCEPT !.timedOut = TRUE] /\ \E ran \in SUBSET P!Lane : P!Report(k, ran)
  <2>1. /\ result' \in [skippedLeased : Nat, skippedNotDue : Nat, timedOut : BOOLEAN]
        /\ result'.timedOut /\ result'.skippedLeased = r.skippedLeased
        /\ result'.skippedNotDue = r.skippedNotDue
    BY <1>2, <1>6
  <2> QED
    BY <1>1, <1>6, <2>1
<1>7. \/ result' = [r EXCEPT !.skippedLeased = @ + 1] /\ polled' = polled
      \/ result' = [r EXCEPT !.skippedNotDue = @ + 1] /\ polled' = polled
      \/ result' = r /\ \E ran \in SUBSET P!Lane : P!Report(k, ran)
      \/ result' = [r EXCEPT !.timedOut = TRUE] /\ \E ran \in SUBSET P!Lane : P!Report(k, ran)
  BY <1>1 DEF P!Account
<1> QED
  BY <1>3, <1>4, <1>5, <1>6, <1>7

(* A key that was run is counted as skipped, or has one entry for each of  *)
(* its lanes that ran, or neither.                                         *)
LEMMA AccountKeeps ==
  ASSUME P!TickParameters, P!PassInv, NEW w \in DOMAIN worker, P!Account(w)
  PROVE  P!PassInv'
<1>1. P!TypeOK /\ P!Queued /\ P!Unserved /\ P!Settled /\ P!Exclusive /\ P!Accounted
  BY DEF P!PassInv
<1>2. /\ worker[w].at = "running"
      /\ worker' = [worker EXCEPT ![w] = [at |-> "idle", key |-> NoKey]]
      /\ UNCHANGED <<elapsed, deadline, asked, unvisited, pass, visits>>
  BY DEF P!Account
<1>3. /\ DOMAIN worker' = DOMAIN worker /\ worker'[w].at = "idle"
      /\ \A v \in DOMAIN worker : v # w => worker'[v] = worker[v]
  BY <1>1, <1>2 DEF P!TypeOK
<1>4. PICK k : k = worker[w].key
  OBVIOUS
<1>5. /\ k \in PassKey /\ k \in P!Visited /\ k \notin P!Polled
      /\ P!Busy' = P!Busy \ {w} /\ P!Running' = P!Running \ {k} /\ P!Visited' = P!Visited
      /\ P!Visited' \ P!Running' = (P!Visited \ P!Running) \cup {k}
      /\ k \notin P!Visited \ P!Running
      /\ \A u, v \in P!Busy' : worker'[u].key = worker'[v].key => u = v
  BY <1>1, <1>2, <1>3, <1>4, Released
<1>6. /\ result' \in [skippedLeased : Nat, skippedNotDue : Nat, timedOut : BOOLEAN]
      /\ ~result'.timedOut => ~result.timedOut
      /\ \/ /\ polled' = polled
            /\ result'.skippedLeased + result'.skippedNotDue =
                 result.skippedLeased + result.skippedNotDue + 1
         \/ /\ result'.skippedLeased = result.skippedLeased
            /\ result'.skippedNotDue = result.skippedNotDue
            /\ \E ran \in SUBSET P!Lane : P!Report(k, ran)
  BY <1>1, <1>4, <1>5, AccountDoes
<1>7. pass # "returned"
  BY <1>1, <1>2 DEF P!Settled
<1>8. P!Queued' /\ P!Unserved' /\ P!Settled'
  BY <1>1, <1>2, <1>3, <1>6, <1>7 DEF P!Queued, P!Unserved, P!Settled
<1>9. /\ P!Cardinality(P!Visited' \ P!Running') = P!Cardinality(P!Visited \ P!Running) + 1
      /\ P!Cardinality(P!Visited \ P!Running) \in Nat
  <2>1. P!Visited' \ P!Running' \in SUBSET PassKey /\ P!Visited \ P!Running \in SUBSET PassKey
    BY <1>5 DEF P!Visited
  <2>2. P!Visited \ P!Running = (P!Visited' \ P!Running') \ {k} /\ k \in P!Visited' \ P!Running'
    BY <1>5
  <2>3. /\ P!Cardinality(P!Visited' \ P!Running') \in Nat
        /\ P!Cardinality((P!Visited' \ P!Running') \ {k}) = P!Cardinality(P!Visited' \ P!Running') - 1
    BY <1>1, <2>1, <2>2, Counting
  <2>4. P!Cardinality(P!Visited \ P!Running) \in Nat
    BY <1>1, <2>1, Counting
  <2> QED
    BY <2>2, <2>3, <2>4
<1>10. /\ P!Polled \in SUBSET PassKey /\ P!Cardinality(P!Polled) \in Nat
       /\ result.skippedLeased \in Nat /\ result.skippedNotDue \in Nat
  BY <1>1, Counting DEF P!Polled
<1>11. P!Polled \subseteq P!Visited \ P!Running
  BY <1>1 DEF P!Exclusive
<1>12. CASE /\ polled' = polled
            /\ result'.skippedLeased + result'.skippedNotDue =
                 result.skippedLeased + result.skippedNotDue + 1
  <2>1. P!TypeOK'
    BY <1>1, <1>2, <1>6, <1>12 DEF P!TypeOK
  <2>2. P!Polled' = P!Polled
    BY <1>12 DEF P!Polled
  <2>3. P!Exclusive'
    BY <1>1, <1>5, <1>11, <1>12, <2>2 DEF P!Exclusive
  <2>4. /\ result'.skippedLeased \in Nat /\ result'.skippedNotDue \in Nat
        /\ result.skippedLeased + result.skippedNotDue + P!Cardinality(P!Polled) <=
             P!Cardinality(P!Visited \ P!Running)
    BY <1>1, <1>6 DEF P!Accounted
  <2>5. result'.skippedLeased + result'.skippedNotDue + P!Cardinality(P!Polled') <=
          P!Cardinality(P!Visited' \ P!Running')
    BY <1>9, <1>10, <1>12, <2>2, <2>4
  <2>6. P!Accounted'
    BY <2>5 DEF P!Accounted
  <2> QED
    BY <1>8, <2>1, <2>3, <2>6 DEF P!PassInv
<1>13. CASE /\ result'.skippedLeased = result.skippedLeased
            /\ result'.skippedNotDue = result.skippedNotDue
            /\ \E ran \in SUBSET P!Lane : P!Report(k, ran)
  <2>1. PICK ran \in SUBSET P!Lane : P!Report(k, ran)
    BY <1>13
  <2>2. polled \in [PassKey -> [P!Lane -> Nat]] /\ \A lane \in P!Lane : polled[k][lane] = 0
    <3>1. polled \in [PassKey -> [P!Lane -> Nat]]
      BY <1>1 DEF P!TypeOK
    <3>2. \A lane \in P!Lane : polled[k][lane] \in Nat /\ ~(polled[k][lane] > 0)
      BY <1>5, <3>1 DEF P!Polled
    <3> QED
      BY <3>1, <3>2
  <2>3. PICK entries : entries = [lane \in P!Lane |-> polled[k][lane] + IF lane \in ran THEN 1 ELSE 0]
    OBVIOUS
  <2>4. entries \in [P!Lane -> Nat] /\ \A lane \in P!Lane : entries[lane] <= 1
    BY <2>2, <2>3
  <2>5. polled' = [polled EXCEPT ![k] = entries]
    BY <2>1, <2>3 DEF P!Report
  <2>6. /\ polled' \in [PassKey -> [P!Lane -> Nat]] /\ polled'[k] = entries
        /\ \A l \in PassKey : l # k => polled'[l] = polled[l]
    BY <1>5, <2>2, <2>4, <2>5
  <2>7. P!TypeOK'
    BY <1>1, <1>2, <1>6, <2>6 DEF P!TypeOK
  <2>8. P!Polled' \subseteq P!Polled \cup {k} /\ P!Polled \subseteq P!Polled'
    BY <1>5, <2>6 DEF P!Polled
  <2>9. \A l \in PassKey, lane \in P!Lane : polled'[l][lane] <= 1
    BY <1>1, <2>4, <2>6 DEF P!Exclusive
  <2>10. P!Exclusive'
    BY <1>1, <1>5, <1>11, <2>8, <2>9 DEF P!Exclusive
  <2>11. P!Cardinality(P!Polled') \in Nat /\ P!Cardinality(P!Polled') <= P!Cardinality(P!Polled) + 1
    <3>1. CASE k \in P!Polled'
      <4>1. P!Polled' \ {k} = P!Polled
        BY <1>5, <2>8
      <4>2. P!Polled' \in SUBSET PassKey
        BY DEF P!Polled
      <4> QED
        BY <1>1, <1>10, <3>1, <4>1, <4>2, Counting
    <3>2. CASE k \notin P!Polled'
      <4>1. P!Polled' = P!Polled
        BY <2>8, <3>2
      <4>2. PICK n : n = P!Cardinality(P!Polled)
        OBVIOUS
      <4>3. P!Cardinality(P!Polled') = n
        BY <4>1, <4>2
      <4> QED
        BY <1>10, <4>2, <4>3
    <3> QED
      BY <3>1, <3>2
  <2>12. result.skippedLeased + result.skippedNotDue + P!Cardinality(P!Polled) <=
           P!Cardinality(P!Visited \ P!Running)
    BY <1>1 DEF P!Accounted
  <2>13. result'.skippedLeased + result'.skippedNotDue + P!Cardinality(P!Polled') <=
           P!Cardinality(P!Visited' \ P!Running')
    BY <1>9, <1>10, <1>13, <2>11, <2>12
  <2>14. P!Accounted'
    BY <2>13 DEF P!Accounted
  <2> QED
    BY <1>8, <2>7, <2>10, <2>14 DEF P!PassInv
<1> QED
  BY <1>6, <1>12, <1>13

(* The other steps, and how a run that throws settles the promise.         *)
LEMMA OthersKeep ==
  ASSUME P!TickParameters, P!PassInv,
         \/ P!Return \/ P!Elapse \/ UNCHANGED P!tickVars
         \/ \E w \in DOMAIN worker : P!Throw(w)
  PROVE  P!PassInv'
<1>1. P!TypeOK /\ P!Queued /\ P!Unserved /\ P!Settled /\ P!Exclusive /\ P!Accounted
  BY DEF P!PassInv
<1>2. CASE P!Return
  <2>1. UNCHANGED <<elapsed, deadline, asked, unvisited, worker, polled, result, visits>>
    BY <1>2 DEF P!Return
  <2>2. P!Busy' = P!Busy
    BY <2>1 DEF P!Busy
  <2>3. P!TypeOK' /\ P!Queued' /\ P!Unserved' /\ P!Settled'
    BY <1>1, <1>2, <2>1 DEF P!Return, P!TypeOK, P!Queued, P!Unserved, P!Settled
  <2>4. P!Exclusive' /\ P!Accounted'
    BY <1>1, <2>1, <2>2, CountsKept
  <2> QED
    BY <2>3, <2>4 DEF P!PassInv
<1>3. CASE P!Elapse \/ UNCHANGED P!tickVars
  <2>1. /\ UNCHANGED <<deadline, asked, unvisited, worker, polled, result, pass, visits>>
        /\ elapsed' \in 0..MaxDuration
    BY <1>1, <1>3 DEF P!Elapse, P!tickVars, P!TypeOK, P!TickParameters
  <2>2. P!Busy' = P!Busy
    BY <2>1 DEF P!Busy
  <2>3. P!TypeOK' /\ P!Queued' /\ P!Unserved' /\ P!Settled'
    BY <1>1, <2>1 DEF P!TypeOK, P!Queued, P!Unserved, P!Settled
  <2>4. P!Exclusive' /\ P!Accounted'
    BY <1>1, <2>1, <2>2, CountsKept
  <2> QED
    BY <2>3, <2>4 DEF P!PassInv
<1>4. CASE \E w \in DOMAIN worker : P!Throw(w)
  <2>1. PICK w \in DOMAIN worker : P!Throw(w)
    BY <1>4
  <2>2. /\ worker[w].at = "running"
        /\ worker' = [worker EXCEPT ![w] = [at |-> "failed", key |-> NoKey]]
        /\ pass' = IF pass = "open" THEN "threw" ELSE pass
        /\ UNCHANGED <<elapsed, deadline, asked, unvisited, polled, result, visits>>
    BY <2>1 DEF P!Throw
  <2>3. /\ DOMAIN worker' = DOMAIN worker /\ worker'[w].at = "failed"
        /\ \A v \in DOMAIN worker : v # w => worker'[v] = worker[v]
    BY <1>1, <2>2 DEF P!TypeOK
  <2>4. pass' = "threw"
    BY <1>1, <2>2 DEF P!Settled, P!TypeOK
  <2>5. P!TypeOK'
    BY <1>1, <2>2, <2>4 DEF P!TypeOK
  <2>6. P!Queued' /\ P!Unserved' /\ P!Settled'
    BY <1>1, <2>2, <2>3, <2>4 DEF P!Queued, P!Unserved, P!Settled
  <2>7. PICK k : k = worker[w].key
    OBVIOUS
  <2>8. /\ P!Busy' = P!Busy \ {w} /\ P!Running' = P!Running \ {k} /\ P!Visited' = P!Visited
        /\ \A u, v \in P!Busy' : worker'[u].key = worker'[v].key => u = v
    BY <1>1, <2>2, <2>3, <2>7, Released
  <2>9. P!Polled' = P!Polled
    BY <2>2 DEF P!Polled
  <2>10. P!Exclusive'
    BY <1>1, <2>2, <2>8, <2>9 DEF P!Exclusive
  <2>11. P!Visited \ P!Running \subseteq P!Visited' \ P!Running' /\ P!Visited' \ P!Running' \in SUBSET PassKey
    BY <2>8 DEF P!Visited
  <2>12. /\ P!Cardinality(P!Visited \ P!Running) <= P!Cardinality(P!Visited' \ P!Running')
         /\ P!Cardinality(P!Visited \ P!Running) \in Nat
         /\ P!Cardinality(P!Visited' \ P!Running') \in Nat
         /\ result.skippedLeased \in Nat /\ result.skippedNotDue \in Nat
    BY <1>1, <2>11, Counting
  <2>13. P!Cardinality(P!Polled) \in Nat
    BY <1>1, Counting DEF P!Polled
  <2>14. result.skippedLeased + result.skippedNotDue + P!Cardinality(P!Polled) <=
           P!Cardinality(P!Visited \ P!Running)
    BY <1>1 DEF P!Accounted
  <2>15. result'.skippedLeased + result'.skippedNotDue + P!Cardinality(P!Polled') <=
           P!Cardinality(P!Visited' \ P!Running')
    BY <2>2, <2>9, <2>12, <2>13, <2>14
  <2>16. P!Accounted'
    BY <2>15 DEF P!Accounted
  <2> QED
    BY <2>5, <2>6, <2>10, <2>16 DEF P!PassInv
<1> QED
  BY <1>2, <1>3, <1>4

(* When nobody is left, every key was visited or a worker gave up; no key  *)
(* waits for a worker that was never hired.                                *)
LEMMA PassInvSound ==
  ASSUME P!TickParameters, P!PassInv
  PROVE  P!PassSound
<1>1. P!TypeOK /\ P!Queued /\ P!Unserved /\ P!Settled /\ P!Exclusive /\ P!Accounted
  BY DEF P!PassInv
<1>2. P!QuietAtReturn
  BY <1>1 DEF P!Settled, P!QuietAtReturn, P!Busy
<1>3. ASSUME pass = "returned", ~result.timedOut PROVE asked \subseteq P!Visited
  <2>1. \A w \in DOMAIN worker : worker[w].at = "done"
    BY <1>1, <1>3 DEF P!Settled
  <2>2. CASE asked = {}
    BY <2>2
  <2>3. CASE asked # {}
    <3>1. P!Cardinality(asked) \in Nat /\ P!Cardinality(asked) # 0
      <4>1. asked \in SUBSET PassKey
        BY <1>1 DEF P!TypeOK
      <4>2. P!IsFiniteSet(asked) /\ P!Cardinality(asked) \in Nat
        BY <4>1, ListedOnce
      <4> QED
        BY <2>3, <4>2, FS_EmptySet, TickCounts
    <3>2. 1 \in P!Hired(P!Cardinality(asked))
      BY <3>1 DEF P!Hired, P!TickParameters
    <3>3. 1 \in DOMAIN worker
      BY <1>1, <3>2 DEF P!TypeOK
    <3>4. unvisited = <<>>
      BY <1>1, <1>3, <2>1, <3>3 DEF P!Unserved
    <3>5. P!ToSet(unvisited) = {}
      BY <3>4 DEF P!ToSet
    <3>6. \A k \in asked : k \in PassKey /\ visits[k] = 1
      BY <1>1, <1>3, <3>5 DEF P!Unserved, P!TypeOK
    <3> QED
      BY <3>6 DEF P!Visited
  <2> QED
    BY <2>2, <2>3
<1>4. P!Polled \subseteq P!Visited /\ \A k \in PassKey, lane \in P!Lane : polled[k][lane] <= 1
  BY <1>1 DEF P!Exclusive
<1>5. result.skippedLeased + result.skippedNotDue + P!Cardinality(P!Polled) <= P!Cardinality(P!Visited)
  <2>1. P!Visited \in SUBSET PassKey /\ P!Visited \ P!Running \in SUBSET P!Visited
        /\ P!Polled \in SUBSET PassKey
    BY DEF P!Visited, P!Polled
  <2>2. /\ P!Cardinality(P!Visited \ P!Running) \in Nat
        /\ P!Cardinality(P!Visited \ P!Running) <= P!Cardinality(P!Visited)
        /\ P!Cardinality(P!Visited) \in Nat /\ P!Cardinality(P!Polled) \in Nat
        /\ result.skippedLeased \in Nat /\ result.skippedNotDue \in Nat
    BY <1>1, <2>1, Counting
  <2> QED
    BY <1>1, <2>2 DEF P!Accounted
<1> QED
  BY <1>1, <1>2, <1>3, <1>4, <1>5 DEF P!PassSound, P!PassComplete

(* A pass that returns and does not say that it timed out has visited      *)
(* every key it was asked for; no two workers run one key, no lane has two *)
(* entries, skipped keys have none, and nothing runs any more when the     *)
(* pass returns (tick): for any keys, workers and deadline.                *)
THEOREM PassKept ==
  ASSUME P!TickParameters
  PROVE  P!Spec => []PassSound
<1>1. P!Init => P!PassInv
  BY PassBegins
<1>2. P!PassInv /\ [P!Next]_(P!tickVars) => P!PassInv'
  BY ShiftKeeps, AccountKeeps, OthersKeep DEF P!Next
<1>3. P!PassInv => P!PassSound
  BY PassInvSound
<1> QED
  BY <1>1, <1>2, <1>3, PTL DEF P!Spec, PassSound

-----------------------------------------------------------------------------
(* The daemon (Engine). OneRunPerKey is inductive with the types.          *)
(* StaysAwake needs to know that the timer this.timer refers to is one of  *)
(* those that are armed, or clearing it could take away another one.       *)

(* The handle in this.timer is that of an armed timer (loop, stop).        *)
TimerArmed == timer => armed > 0

AwakeInv == TypeOK /\ TimerArmed /\ StaysAwake

Got == [fresh : BOOLEAN, list : SUBSET Key]

LoopCall == [due : SUBSET Key, got : Got]

-----------------------------------------------------------------------------
(* Removing one call from the list leaves a list of calls.                 *)
LEMMA RemoveCall ==
  ASSUME NEW S, NEW s \in Seq(S), NEW i \in 1..Len(s)
  PROVE  SubSeq(s, 1, i - 1) \o SubSeq(s, i + 1, Len(s)) \in Seq(S)
<1>1. SubSeq(s, 1, i - 1) \in Seq(S)
  OBVIOUS
<1>2. SubSeq(s, i + 1, Len(s)) \in Seq(S)
  OBVIOUS
<1> QED
  BY <1>1, <1>2

(* What a refresh has to go on is a list of keys.                          *)
LEMMA RefreshedType ==
  ASSUME TypeOK
  PROVE  Refreshed \subseteq Got
BY DEF TypeOK, Refreshed, Got

(* The due times after a refresh are due times.                            *)
LEMMA DueAfterType ==
  ASSUME TypeOK, NEW got \in Got
  PROVE  DueAfter(got) \in [Key -> {"none", "later", "due"}]
BY DEF TypeOK, DueAfter, Got

(* A refresh keeps the partitions and the paused keys among the keys.      *)
LEMMA RefreshType ==
  ASSUME TypeOK, NEW got \in Got, Refresh(got)
  PROVE  known' \subseteq Key /\ paused' \subseteq Key
<1>1. CASE got.fresh
  BY <1>1 DEF TypeOK, Refresh, Got
<1>2. CASE ~got.fresh
  BY <1>2 DEF TypeOK, Refresh, Got
<1> QED
  BY <1>1, <1>2

(* A refresh that is rejected does so too, and the due times stay due      *)
(* times.                                                                  *)
LEMMA PartlyType ==
  ASSUME TypeOK, NEW got \in Got, PartlyRefreshed(got)
  PROVE  /\ known' \subseteq Key /\ paused' \subseteq Key
         /\ nextDue' \in [Key -> {"none", "later", "due"}]
<1>1. PICK saved \in SUBSET (known \ got.list) : \E gone \in SUBSET saved :
        /\ paused' = paused \cup saved
        /\ nextDue' = [k \in Key |-> IF k \in gone THEN "none" ELSE nextDue[k]]
  BY DEF PartlyRefreshed
<1>2. known' = known
  BY DEF PartlyRefreshed
<1> QED
  BY <1>1, <1>2 DEF TypeOK

(* The due times start() sets are due times.                               *)
LEMMA DueFromType ==
  ASSUME TypeOK, NEW got \in Got, NEW read, NEW due
  PROVE  DueFrom(got, read, due) \in [Key -> {"none", "later", "due"}]
BY DueAfterType DEF DueFrom

(* A queued wake-up is a Boolean, and so is the history.                   *)
LEMMA WakeType ==
  ASSUME TypeOK, RequestWake
  PROVE  wake' \in BOOLEAN /\ rejected' \in BOOLEAN
BY Zenon DEF TypeOK, RequestWake

(* Clearing this.timer takes one armed timer away at most.                 *)
LEMMA ClearTimerType ==
  ASSUME TypeOK, TimerArmed, ClearTimer
  PROVE  timer' \in BOOLEAN /\ armed' \in 0..MaxTimers /\ TimerArmed'
<1>1. timer' = FALSE
  BY DEF ClearTimer
<1>2. CASE timer
  <2>1. armed > 0 /\ armed' = armed - 1
    BY <1>2, Zenon DEF TimerArmed, ClearTimer
  <2>2. armed' \in 0..MaxTimers
    BY <2>1, EngineAssumption DEF TypeOK
  <2> QED
    BY <1>1, <2>2, Zenon DEF TimerArmed
<1>3. CASE ~timer
  <2>1. armed' = armed
    BY <1>3, Zenon DEF ClearTimer
  <2> QED
    BY <1>1, <2>1, Zenon DEF TimerArmed, TypeOK
<1> QED
  BY <1>2, <1>3

(* Arming one leaves at least one armed.                                   *)
LEMMA ArmTimerType ==
  ASSUME TypeOK, ArmTimer
  PROVE  /\ timer' \in BOOLEAN /\ armed' \in 0..MaxTimers /\ armed' > 0
         /\ rejected' \in BOOLEAN
<1>1. timer' \in BOOLEAN /\ rejected' \in BOOLEAN
  BY Zenon DEF ArmTimer
<1>2. armed' \in 0..MaxTimers /\ armed' > 0
  BY EngineAssumption DEF TypeOK, ArmTimer
<1> QED
  BY <1>1, <1>2

(* A call of loop() joins the list.                                        *)
LEMMA CallLoopType ==
  ASSUME TypeOK, NEW got \in Got, CallLoop(got)
  PROVE  loops' \in Seq(LoopCall) /\ loops' # << >> /\ rejected' \in BOOLEAN
<1>1. loops \in Seq(LoopCall)
  BY DEF TypeOK, LoopCall, Got
<1>2. [due |-> {k \in Key : nextDue[k] # "later"}, got |-> got] \in LoopCall
  BY DEF LoopCall
<1>3. rejected' \in BOOLEAN
  BY Zenon DEF CallLoop
<1> QED
  BY <1>1, <1>2, <1>3 DEF CallLoop

-----------------------------------------------------------------------------
(* The initial state.                                                      *)
LEMMA InitInv ==
  ASSUME Init
  PROVE  AwakeInv /\ OneRunPerKey
<1>1. TypeOK
  <2>1. armed \in 0..MaxTimers /\ changes \in Nat
    BY EngineAssumption DEF Init
  <2>2. wake \in BOOLEAN /\ timer \in BOOLEAN /\ aborted \in BOOLEAN /\ rejected \in BOOLEAN
    BY Zenon DEF Init
  <2>3. loops \in Seq([due : SUBSET Key, got : [fresh : BOOLEAN, list : SUBSET Key]])
    BY DEF Init
  <2>4. /\ nextDue \in [Key -> {"none", "later", "due"}] /\ runs \in [Key -> Nat]
        /\ status \in {"idle", "running", "stopping", "stopped"} /\ starting = {}
        /\ listed \subseteq Key /\ known \subseteq Key /\ paused \subseteq Key
        /\ inflight \subseteq Key /\ pending \subseteq Key /\ hung \subseteq Key
    BY DEF Init
  <2> QED
    BY <2>1, <2>2, <2>3, <2>4, Zenon DEF TypeOK
<1>2. TimerArmed /\ StaysAwake
  BY DEF Init, TimerArmed, StaysAwake, Asleep
<1>3. OneRunPerKey
  BY DEF Init, OneRunPerKey
<1> QED
  BY <1>1, <1>2, <1>3 DEF AwakeInv

(* One step of the daemon keeps the invariant.                             *)
LEMMA NextAwake ==
  ASSUME AwakeInv, Next
  PROVE  AwakeInv'
<1> USE DEF AwakeInv
<1>0. loops \in Seq(LoopCall)
  BY DEF TypeOK, LoopCall, Got
<1>1. ASSUME NEW got \in Refreshed, WakeUp(got)
      PROVE  AwakeInv'
  <2>1. got \in Got
    BY RefreshedType
  <2>2. CASE status = "running"
    <3>1. ClearTimer /\ CallLoop(got)
      BY <1>1, <2>2 DEF WakeUp
    <3>2. loops' \in Seq(LoopCall) /\ loops' # << >> /\ rejected' \in BOOLEAN
      BY <2>1, <3>1, CallLoopType
    <3>3. timer' \in BOOLEAN /\ armed' \in 0..MaxTimers /\ TimerArmed'
      BY <3>1, ClearTimerType
    <3>4. TypeOK'
      BY <1>1, <3>2, <3>3 DEF TypeOK, WakeUp, tenantVars, LoopCall, Got
    <3> QED
      BY <3>2, <3>3, <3>4 DEF StaysAwake, Asleep
  <2>3. CASE status # "running"
    <3>1. TypeOK'
      BY <1>1, <2>3 DEF TypeOK, WakeUp, tenantVars
    <3>2. TimerArmed' /\ StaysAwake'
      BY <1>1, <2>3 DEF TimerArmed, StaysAwake, Asleep, WakeUp
    <3> QED
      BY <3>1, <3>2
  <2> QED
    BY <2>2, <2>3
<1>2. ASSUME NEW got \in Refreshed, TimerFires(got)
      PROVE  AwakeInv'
  <2>1. got \in Got
    BY RefreshedType
  <2>2. armed' \in 0..MaxTimers /\ timer' = FALSE
    BY <1>2, EngineAssumption DEF TypeOK, TimerFires
  <2>3. CASE status = "running"
    <3>1. loops' \in Seq(LoopCall) /\ loops' # << >> /\ rejected' \in BOOLEAN
      BY <1>2, <2>1, <2>3, CallLoopType DEF TimerFires
    <3>2. TypeOK'
      BY <1>2, <2>2, <3>1 DEF TypeOK, TimerFires, tenantVars, LoopCall, Got
    <3> QED
      BY <2>2, <3>1, <3>2 DEF StaysAwake, Asleep, TimerArmed
  <2>4. CASE status # "running"
    <3>1. TypeOK'
      BY <1>2, <2>2, <2>4 DEF TypeOK, TimerFires, tenantVars
    <3> QED
      BY <1>2, <2>2, <2>4, <3>1 DEF TimerArmed, StaysAwake, Asleep, TimerFires
  <2> QED
    BY <2>3, <2>4
<1>3. ASSUME NEW i \in 1..Len(loops), NEW picked \in SUBSET Key, FinishLoop(i, picked)
      PROVE  AwakeInv'
  <2>0. loops[i] \in LoopCall
    BY <1>0
  <2>1. loops[i].got \in Got
    BY <2>0 DEF LoopCall
  <2>2. known' \subseteq Key /\ paused' \subseteq Key
    BY <1>3, <2>1, RefreshType DEF FinishLoop, StartRuns
  <2>3. nextDue' \in [Key -> {"none", "later", "due"}]
    BY <1>3, <2>1, DueAfterType DEF FinishLoop, StartRuns
  <2>4. loops' \in Seq(LoopCall)
    BY <1>0, <1>3, RemoveCall DEF FinishLoop
  <2>5. inflight' \subseteq Key /\ runs' \in [Key -> Nat]
    BY <1>3 DEF TypeOK, FinishLoop, StartRuns
  <2>6. CASE status = "running"
    <3>1. timer' \in BOOLEAN /\ armed' \in 0..MaxTimers /\ armed' > 0 /\ rejected' \in BOOLEAN
      BY <1>3, <2>6, ArmTimerType DEF FinishLoop
    <3>2. TypeOK'
      BY <1>3, <2>2, <2>3, <2>4, <2>5, <3>1 DEF TypeOK, FinishLoop, LoopCall, Got
    <3> QED
      BY <3>1, <3>2 DEF TimerArmed, StaysAwake, Asleep
  <2>7. CASE status # "running"
    <3>1. timer' = timer /\ armed' = armed /\ status' = status /\ rejected' = rejected
      BY <1>3, <2>7 DEF FinishLoop
    <3>2. TypeOK'
      BY <1>3, <2>2, <2>3, <2>4, <2>5, <3>1 DEF TypeOK, FinishLoop, LoopCall, Got
    <3> QED
      BY <2>7, <3>1, <3>2 DEF TimerArmed, StaysAwake, Asleep
  <2> QED
    BY <2>6, <2>7
<1>4. ASSUME NEW got \in starting, NEW due \in SUBSET got.list, Started(got, due)
      PROVE  AwakeInv'
  <2>1. got \in Got
    BY DEF TypeOK, Got
  <2>2. known' \subseteq Key /\ paused' \subseteq Key
    BY <1>4, <2>1, RefreshType DEF Started
  <2>3. nextDue' \in [Key -> {"none", "later", "due"}]
    BY <1>4, <2>1, DueFromType DEF Started
  <2>4. wake' \in BOOLEAN /\ rejected' \in BOOLEAN
    BY <1>4, WakeType DEF Started
  <2>5. TypeOK'
    BY <1>4, <2>2, <2>3, <2>4 DEF TypeOK, Started
  <2>6. TimerArmed'
    BY <1>4 DEF TimerArmed, Started
  <2>7. StaysAwake'
    BY <1>4, Zenon DEF StaysAwake, Asleep, Started, RequestWake
  <2> QED
    BY <2>5, <2>6, <2>7
<1>5. ASSUME NEW k \in Key, NEW next \in {"due", "later"}, RunEnds(k, next)
      PROVE  AwakeInv'
  <2>1. wake' \in BOOLEAN /\ rejected' \in BOOLEAN
    BY <1>5, WakeType DEF RunEnds
  <2>2. runs' \in [Key -> Nat]
    BY <1>5 DEF TypeOK, RunEnds
  <2>3. TypeOK'
    BY <1>5, <2>1, <2>2 DEF TypeOK, RunEnds, tenantVars
  <2>4. TimerArmed'
    BY <1>5 DEF TimerArmed, RunEnds
  <2>5. StaysAwake'
    BY <1>5, Zenon DEF StaysAwake, Asleep, RunEnds, RequestWake
  <2> QED
    BY <2>3, <2>4, <2>5
<1>6. ASSUME NEW k \in Key, DueComes(k)
      PROVE  AwakeInv'
  BY <1>6 DEF TypeOK, TimerArmed, StaysAwake, Asleep, DueComes, timerVars, tenantVars
<1>7. ASSUME NEW k \in Key, Trigger(k)
      PROVE  AwakeInv'
  <2>1. wake' \in BOOLEAN /\ rejected' \in BOOLEAN
    BY <1>7, WakeType DEF Trigger
  <2>2. TypeOK'
    BY <1>7, <2>1 DEF TypeOK, Trigger, Change, tenantVars
  <2>3. TimerArmed'
    BY <1>7 DEF TimerArmed, Trigger
  <2>4. StaysAwake'
    BY <1>7, Zenon DEF StaysAwake, Asleep, Trigger, RequestWake
  <2> QED
    BY <2>2, <2>3, <2>4
<1>8. ASSUME NEW k \in Key, PauseKey(k)
      PROVE  AwakeInv'
  BY <1>8 DEF TypeOK, TimerArmed, StaysAwake, Asleep, PauseKey, Change, timerVars
<1>9. ASSUME NEW k \in Key, ResumeKey(k)
      PROVE  AwakeInv'
  <2>1. wake' \in BOOLEAN /\ rejected' \in BOOLEAN
    BY <1>9, WakeType DEF ResumeKey
  <2>2. TypeOK'
    BY <1>9, <2>1 DEF TypeOK, ResumeKey, Change
  <2>3. TimerArmed'
    BY <1>9 DEF TimerArmed, ResumeKey
  <2>4. StaysAwake'
    BY <1>9, Zenon DEF StaysAwake, Asleep, ResumeKey, RequestWake
  <2> QED
    BY <2>2, <2>3, <2>4
<1>10. ASSUME NEW k \in Key, RemoveKey(k)
       PROVE  AwakeInv'
  BY <1>10 DEF TypeOK, TimerArmed, StaysAwake, Asleep, RemoveKey, Change, timerVars
<1>11. ASSUME NEW got \in Refreshed, Start(got)
       PROVE  AwakeInv'
  <2>1. got \in Got
    BY RefreshedType
  <2>2. starting' \subseteq Got /\ status' = "running" /\ changes' \in Nat
    BY <1>11, <2>1 DEF TypeOK, Start, Change
  <2>3. aborted' = FALSE
    BY <1>11 DEF Start
  <2>4. UNCHANGED <<wake, timer, armed, loops, tenantVars, nextDue, inflight, runs, pending, hung>>
    BY <1>11 DEF Start
  <2>5. aborted' \in BOOLEAN /\ rejected' \in BOOLEAN
    BY <1>11, <2>3, Zenon DEF Start
  <2>6. TypeOK'
    BY <2>2, <2>4, <2>5 DEF TypeOK, tenantVars, Got
  <2>7. TimerArmed' /\ StaysAwake'
    BY <1>11 DEF TimerArmed, StaysAwake, Asleep, Start
  <2> QED
    BY <2>6, <2>7
<1>12. ASSUME NEW drain \in BOOLEAN, Stop(drain)
       PROVE  AwakeInv'
  <2>1. timer' \in BOOLEAN /\ armed' \in 0..MaxTimers /\ TimerArmed'
    BY <1>12, ClearTimerType DEF Stop
  <2>2. aborted' \in BOOLEAN
    BY <1>12, Zenon DEF Stop, TypeOK
  <2>3. TypeOK'
    BY <1>12, <2>1, <2>2 DEF TypeOK, Stop, tenantVars
  <2> QED
    BY <1>12, <2>1, <2>3 DEF StaysAwake, Asleep, Stop
<1>13. CASE StopTimeout
  BY <1>13 DEF TypeOK, TimerArmed, StaysAwake, Asleep, StopTimeout, timerVars, tenantVars
<1>14. CASE Stopped
  BY <1>14 DEF TypeOK, TimerArmed, StaysAwake, Asleep, Stopped, timerVars, tenantVars
<1>15. ASSUME NEW list \in SUBSET Key, TenantsChange(list)
       PROVE  AwakeInv'
  BY <1>15 DEF TypeOK, TimerArmed, StaysAwake, Asleep, TenantsChange, Change, timerVars
<1>16. ASSUME NEW i \in 1..Len(loops), LoopFails(i)
       PROVE  AwakeInv'
  <2>0. loops[i] \in LoopCall
    BY <1>0
  <2>1. loops[i].got \in Got
    BY <2>0 DEF LoopCall
  <2>2. known' \subseteq Key /\ paused' \subseteq Key /\ nextDue' \in [Key -> {"none", "later", "due"}]
    BY <1>16, <2>1, PartlyType DEF LoopFails
  <2>3. loops' \in Seq(LoopCall)
    BY <1>0, <1>16, RemoveCall DEF LoopFails
  <2>4. rejected'
    BY <1>16 DEF LoopFails
  <2>5. TypeOK'
    BY <1>16, <2>2, <2>3 DEF TypeOK, LoopFails, Change, LoopCall, Got
  <2> QED
    BY <1>16, <2>4, <2>5 DEF TimerArmed, StaysAwake, LoopFails
<1>17. ASSUME NEW got \in starting, StartFails(got)
       PROVE  AwakeInv'
  <2>1. got \in Got
    BY DEF TypeOK, Got
  <2>2. known' \subseteq Key /\ paused' \subseteq Key /\ nextDue' \in [Key -> {"none", "later", "due"}]
    <3>1. CASE PartlyRefreshed(got)
      BY <2>1, <3>1, PartlyType
    <3>2. CASE /\ Refresh(got)
               /\ \E read \in SUBSET got.list \ {got.list} : \E due \in SUBSET read :
                    nextDue' = DueFrom(got, read, due)
      BY <2>1, <3>2, RefreshType, DueFromType
    <3> QED
      BY <1>17, <3>1, <3>2 DEF StartFails
  <2>3. rejected'
    BY <1>17 DEF StartFails
  <2>4. TypeOK'
    BY <1>17, <2>2 DEF TypeOK, StartFails, Change
  <2> QED
    BY <1>17, <2>3, <2>4 DEF TimerArmed, StaysAwake, StartFails
<1>18. ASSUME NEW k \in Key, Hang(k)
       PROVE  AwakeInv'
  <2>1. hung' \subseteq Key /\ changes' \in Nat
    BY <1>18 DEF TypeOK, Hang, Change
  <2>2. TypeOK'
    BY <1>18, <2>1 DEF TypeOK, Hang, timerVars, tenantVars
  <2>3. TimerArmed' /\ StaysAwake'
    BY <1>18 DEF TimerArmed, StaysAwake, Asleep, Hang, timerVars
  <2> QED
    BY <2>2, <2>3
<1> QED
  BY <1>1, <1>2, <1>3, <1>4, <1>5, <1>6, <1>7, <1>8, <1>9, <1>10, <1>11, <1>12, <1>13, <1>14,
     <1>15, <1>16, <1>17, <1>18
     DEF Next, Waking, Firing, LoopStep, LoopFailing, Starting, StartFailing, Ending

(* One step of the daemon keeps the runs and the map in step.              *)
LEMMA NextOneRun ==
  ASSUME TypeOK, OneRunPerKey, Next
  PROVE  OneRunPerKey'
<1>1. ASSUME NEW i \in 1..Len(loops), NEW picked \in SUBSET Key, FinishLoop(i, picked)
      PROVE  OneRunPerKey'
  BY <1>1 DEF OneRunPerKey, TypeOK, FinishLoop, StartRuns
<1>2. ASSUME NEW k \in Key, NEW next \in {"due", "later"}, RunEnds(k, next)
      PROVE  OneRunPerKey'
  BY <1>2 DEF OneRunPerKey, TypeOK, RunEnds
<1>3. CASE UNCHANGED <<inflight, runs>>
  BY <1>3 DEF OneRunPerKey
<1>4. \/ LoopStep \/ (\E k \in Key : Ending(k)) \/ UNCHANGED <<inflight, runs>>
  BY DEF Next, Waking, Firing, LoopFailing, LoopFails, Starting, StartFailing, StartFails, WakeUp,
         TimerFires, Started, Hang, DueComes, Trigger, PauseKey, ResumeKey, RemoveKey, Start, Stop,
         StopTimeout, Stopped, TenantsChange
<1> QED
  BY <1>1, <1>2, <1>3, <1>4 DEF LoopStep, Ending

(* A step of the daemon or of the others keeps both invariants.            *)
LEMMA AwakeStep ==
  ASSUME AwakeInv, [Next]_vars
  PROVE  AwakeInv'
<1>1. CASE Next
  BY <1>1, NextAwake
<1>2. CASE UNCHANGED vars
  BY <1>2 DEF AwakeInv, TypeOK, TimerArmed, StaysAwake, Asleep, vars, timerVars, tenantVars
<1> QED
  BY <1>1, <1>2

(* The same of one run at a time.                                          *)
LEMMA OneRunStep ==
  ASSUME TypeOK, OneRunPerKey, [Next]_vars
  PROVE  OneRunPerKey'
<1>1. CASE Next
  BY <1>1, NextOneRun
<1>2. CASE UNCHANGED vars
  BY <1>2 DEF OneRunPerKey, vars
<1> QED
  BY <1>1, <1>2

-----------------------------------------------------------------------------
(* The state of the daemon stays within its types (Engine).                *)
THEOREM EngineTypeCorrect == Spec => []TypeOK
<1>1. Init => AwakeInv
  BY InitInv
<1>2. AwakeInv /\ [Next]_vars => AwakeInv'
  BY AwakeStep
<1>3. AwakeInv => TypeOK
  BY DEF AwakeInv
<1> QED
  BY <1>1, <1>2, <1>3, PTL DEF Spec

(* A running daemon always has something left that calls loop() again,     *)
(* unless a start() or a call of loop() was rejected and nothing has woken *)
(* it since.                                                               *)
THEOREM DaemonStaysAwake == Spec => []StaysAwake
<1>1. Init => AwakeInv
  BY InitInv
<1>2. AwakeInv /\ [Next]_vars => AwakeInv'
  BY AwakeStep
<1>3. AwakeInv => StaysAwake
  BY DEF AwakeInv
<1> QED
  BY <1>1, <1>2, <1>3, PTL DEF Spec

(* However many calls of loop() overlap, a key has one run at a time.      *)
THEOREM DaemonRunsOnce == Spec => []OneRunPerKey
<1>1. Init => OneRunPerKey
  BY InitInv
<1>2. TypeOK /\ OneRunPerKey /\ [Next]_vars => OneRunPerKey'
  BY OneRunStep
<1> QED
  BY <1>1, <1>2, EngineTypeCorrect, PTL DEF Spec

-----------------------------------------------------------------------------
(* A behaviour of MCDaemon is one of each of its parts: they start as by   *)
(* themselves, and a step of the whole is a step of a part or leaves it    *)
(* alone.                                                                  *)
LEMMA DaemonBegins ==
  ASSUME DaemonInit
  PROVE  Init /\ L!Init /\ U!Init /\ K!Init /\ W!Init /\ T!Init /\ P!Init
BY DEF DaemonInit

(* A step of the specification is a step or a stutter of each part.      *)
LEMMA DaemonSteps ==
  ASSUME [DaemonNext]_<<chosen, parts, others>>
  PROVE  /\ [Next]_vars /\ [L!Next]_(L!vars) /\ [U!Next]_(U!vars) /\ [K!Next]_(K!vars)
         /\ [W!Next]_(W!vars) /\ [T!Next]_(T!vars) /\ [P!Next]_(P!tickVars)
BY DEF DaemonNext, parts, others, kit, vars, laneVars, iteratorVars, keeperVars, webhookVars,
       telemetryVars, tickVars, L!vars, L!history, U!vars, U!iterVars, K!vars, W!vars, T!vars, P!tickVars

(* What holds of each part by itself holds of every behaviour of the whole *)
(* (loop, runKey, beat, deliver, webhookSink, otelHooks, tick).            *)
THEOREM DaemonPartsSound ==
  DaemonSpec => []/\ StaysAwake /\ OneRunPerKey
                  /\ LanesSound /\ IteratorSound /\ KeeperSound
                  /\ SinkSound /\ TelemetrySound /\ PassSound
<1>1. DaemonSpec => Init /\ [][Next]_vars /\ L!Spec /\ U!Spec /\ K!Spec /\ W!Spec /\ T!Spec /\ P!Spec
  BY DaemonBegins, DaemonSteps, PTL DEF DaemonSpec, L!Spec, U!Spec, K!Spec, W!Spec, T!Spec, P!Spec
<1>2. Init /\ [][Next]_vars => []AwakeInv /\ []OneRunPerKey
  <2>1. Init => AwakeInv /\ OneRunPerKey
    BY InitInv
  <2>2. AwakeInv /\ OneRunPerKey /\ [Next]_vars => AwakeInv' /\ OneRunPerKey'
    BY AwakeStep, OneRunStep DEF AwakeInv
  <2> QED
    BY <2>1, <2>2, PTL
<1>3. AwakeInv => StaysAwake
  BY DEF AwakeInv
<1> QED
  BY DaemonAssumption, <1>1, <1>2, <1>3, LanesKept, IteratorKept, LeaseKeeping, SinkKept,
     TelemetryKept, PassKept, PTL
=============================================================================
