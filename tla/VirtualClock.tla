---------------------------- MODULE VirtualClock ----------------------------
(***************************************************************************)
(* The clock the tests of this repository run on, src/testing/             *)
(* virtual-clock.ts: timers in a list kept sorted by a binary search, and  *)
(* the calls that move time and fire them. Callbacks, and whatever else    *)
(* runs while a call flushes the microtasks, may set and clear timers      *)
(* between any two steps. The calls are awaited one after another, as the  *)
(* tests do.                                                               *)
(***************************************************************************)
EXTENDS Integers, Sequences, SequencesExt

CONSTANTS
  Delay,      \* the delays and advances in use
  MaxSet,     \* bound: timers set
  MaxFired,   \* maxTimers of runAll()
  MaxMoment   \* bound: where an advance may lead

Never == -1

VARIABLES
  time,      \* #now
  seq,       \* #seq, the last handle given out
  timers,    \* #timers: [id, dueAt]
  call,      \* what is awaited: [kind, target, fired]
  last       \* history: the timer fired last

clockVars == <<time, seq, timers, call, last>>

Waiting == [kind |-> "none", target |-> Never, fired |-> 0]

Init ==
  /\ time = 0
  /\ seq = 0
  /\ timers = <<>>
  /\ call = Waiting
  /\ last = [id |-> 0, dueAt |-> Never]

(* Mutant: a new timer goes before the equal ones.                         *)
InsertBefore(list, timer) ==
  LET search[r \in (0..Len(list)) \X (0..Len(list))] ==
        LET lo == r[1]  hi == r[2]  mid == (lo + hi) \div 2
        IN IF lo >= hi THEN lo
           ELSE IF list[mid + 1].dueAt < timer.dueAt THEN search[<<mid + 1, hi>>]
           ELSE search[<<lo, mid>>]
  IN InsertAt(list, search[<<0, Len(list)>>] + 1, timer)

(* Mutant: a new timer goes to the end.                                    *)
InsertLast(list, timer) == Append(list, timer)

(* #insert: the place after all timers that are due no later.              *)
Insert(list, timer) ==
  LET search[r \in (0..Len(list)) \X (0..Len(list))] ==
        LET lo == r[1]  hi == r[2]  mid == (lo + hi) \div 2
        IN IF lo >= hi THEN lo
           ELSE IF list[mid + 1].dueAt <= timer.dueAt THEN search[<<mid + 1, hi>>]
           ELSE search[<<lo, mid>>]
  IN InsertAt(list, search[<<0, Len(list)>>] + 1, timer)

(* setTimeout; a delay that is no positive number counts as 0.             *)
SetTimeout(ms) ==
  /\ seq < MaxSet
  /\ seq' = seq + 1
  /\ timers' = Insert(timers, [id |-> seq + 1, dueAt |-> time + ms])
  /\ UNCHANGED <<time, call, last>>

(* clearTimeout; a handle that is not in the list is ignored.              *)
ClearTimeout(id) ==
  /\ timers' = SelectSeq(timers, LAMBDA t : t.id # id)
  /\ UNCHANGED <<time, seq, call, last>>

(* advance and advanceTo, which throw for a target in the past.            *)
Advance(ms) ==
  /\ call = Waiting /\ time + ms <= MaxMoment
  /\ call' = [kind |-> "until", target |-> time + ms, fired |-> 0]
  /\ UNCHANGED <<time, seq, timers, last>>

(* #fire: time moves to the timer's, never back.                           *)
Fire(kind) ==
  /\ last' = Head(timers)
  /\ timers' = Tail(timers)
  /\ time' = IF Head(timers).dueAt > time THEN Head(timers).dueAt ELSE time
  /\ call' = [call EXCEPT !.kind = kind, !.fired = @ + 1]
  /\ UNCHANGED seq

(* runNext: the head, however far away; nothing when there is none.        *)
RunNext == call = Waiting /\ timers # <<>> /\ Fire("flush")

(* runAll, which returns at once when there is no timer.                   *)
RunAll ==
  /\ call = Waiting /\ timers # <<>>
  /\ call' = [kind |-> "all", target |-> Never, fired |-> 0]
  /\ UNCHANGED <<time, seq, timers, last>>

(* #runUntil: the next timer within the window, or its end.                *)
StepUntil ==
  /\ call.kind = "until"
  /\ \/ /\ timers # <<>> /\ Head(timers).dueAt <= call.target
        /\ Fire("until")
     \/ /\ timers # <<>> => Head(timers).dueAt > call.target
        /\ time' = call.target
        /\ call' = [call EXCEPT !.kind = "flush"]
        /\ UNCHANGED <<seq, timers, last>>

(* runAll: until no timer is left, or it gives up.                         *)
StepAll ==
  /\ call.kind = "all"
  /\ \/ timers # <<>> /\ call.fired < MaxFired /\ Fire("all")
     \/ /\ timers = <<>> \/ call.fired >= MaxFired
        /\ call' = Waiting
        /\ UNCHANGED <<time, seq, timers, last>>

(* The last flush is over, and the call with it.                           *)
Return ==
  /\ call.kind = "flush"
  /\ call' = Waiting
  /\ UNCHANGED <<time, seq, timers, last>>

Next ==
  \/ \E ms \in Delay : SetTimeout(ms) \/ Advance(ms)
  \/ \E id \in 1..seq : ClearTimeout(id)
  \/ RunNext \/ RunAll \/ StepUntil \/ StepAll \/ Return

Spec == Init /\ [][Next]_clockVars

-----------------------------------------------------------------------------
TypeOK ==
  /\ time \in Nat /\ seq \in 0..MaxSet
  /\ \A i \in DOMAIN timers : timers[i].id \in 1..seq /\ timers[i].dueAt \in Nat
  /\ call.kind \in {"none", "until", "all", "flush"}

(* Time never passes a timer that is still pending, nor the end of the     *)
(* advance under way (#insert, #runUntil).                                 *)
NoneOverdue ==
  /\ \A i \in DOMAIN timers : timers[i].dueAt >= time
  /\ call.kind = "until" => time <= call.target

(* Time moves only forward; timers fire in the order they are due, the one *)
(* set first when several are due together; and an advance ends with no    *)
(* timer in its window, those set by callbacks included (advance, #fire,   *)
(* #insert).                                                               *)
FiresInOrder ==
  [][/\ time' >= time
     /\ last' # last =>
          \/ last'.dueAt > last.dueAt
          \/ last'.dueAt = last.dueAt /\ last'.id > last.id
     /\ call.kind = "until" /\ call'.kind = "flush" =>
          \A i \in DOMAIN timers' : timers'[i].dueAt > time']_clockVars

(* The clock: time passes no pending timer, and timers fire in order,      *)
(* whatever callbacks set and clear meanwhile (advance, #insert, #fire).   *)
ClockSound == [](TypeOK /\ NoneOverdue) /\ FiresInOrder
=============================================================================
