---------------------------- MODULE PagingProofs ----------------------------
(***************************************************************************)
(* Proofs about the parts of MCPaging, each for every value of its         *)
(* constants: the schedule of a key, the timestamp cursor and replay().    *)
(*                                                                         *)
(* The schedule of a key for every interval, jitter, backoff, circuit and  *)
(* quota that definePoller() accepts: its interval stays in its bounds,    *)
(* its circuit agrees with its failures, it honours Retry-After, and no    *)
(* cycle starts that pacing should have kept for the next window.          *)
(*                                                                         *)
(* The first two are inductive with the types. RetryAfterHeeded is about a *)
(* time the schedule must not forget: the invariant Remembered says that   *)
(* as long as it lies ahead, no cycle is under way and throttledUntil is   *)
(* still that time, whatever halts and triggers come in between. QuotaKept *)
(* needs Paced: a cycle that uses the quota of a window up has heard so,   *)
(* and has the next due time after its end.                                *)
(***************************************************************************)
EXTENDS MCPaging, Sequences, FiniteSetTheorems, WellFoundedInduction, TLAPS

(* A Retry-After that lies ahead is remembered, and nothing polls.         *)
Remembered == until > now => schedule.throttledUntil = until /\ ~polling

(* The circuit a cycle found agrees with its own copy: what a cycle that   *)
(* is abandoned may leave.                                                 *)
CircuitFound == polling => (before = "closed" <=> schedule.circuit = "closed")

Schedules ==
  [nextDueAt : Nat, intervalMs : Nat, failures : Nat, circuit : {"closed", "open", "half-open"},
   throttledUntil : Nat \cup {Never}, rateLimit : SUBSET Rate]

-----------------------------------------------------------------------------
(* A clamped interval lies in its bounds.                                  *)
LEMMA ClampBounds ==
  ASSUME SchedulerParameters, NEW v \in Nat
  PROVE  Clamp(v) \in Nat /\ MinMs <= Clamp(v) /\ Clamp(v) <= MaxMs
BY DEF SchedulerParameters, Clamp, Smaller, Larger

(* Halving and growing keep it there, the rounding included.               *)
LEMMA IntervalBounds ==
  ASSUME SchedulerParameters, TypeOK, NEW events \in BOOLEAN, NEW truncated \in BOOLEAN
  PROVE  LET i == NextInterval(schedule, events, truncated)
         IN i \in Nat /\ MinMs <= i /\ i <= MaxMs
<1> DEFINE p == Clamp(schedule.intervalMs)
           i == NextInterval(schedule, events, truncated)
<1>1. p \in Nat /\ MinMs <= p /\ p <= MaxMs
  BY ClampBounds DEF TypeOK
<1>2. MinMs \in Nat /\ MaxMs \in Nat /\ MinMs >= 1 /\ MinMs <= MaxMs
  BY DEF SchedulerParameters
<1>3. \/ i = p \/ i = MinMs
      \/ i = Smaller(MaxMs, (3 * p + 1) \div 2) \/ i = Larger(MinMs, (p + 1) \div 2)
  BY Zenon DEF NextInterval
<1> HIDE DEF p, i
<1>4. (3 * p + 1) \div 2 \in Nat /\ (3 * p + 1) \div 2 >= p
  BY <1>1
<1>5. (p + 1) \div 2 \in Nat /\ (p + 1) \div 2 <= p
  BY <1>1, <1>2
<1>6. i \in Nat /\ MinMs <= i /\ i <= MaxMs
  BY <1>1, <1>2, <1>3, <1>4, <1>5 DEF Smaller, Larger
<1> QED
  BY <1>6 DEF i

(* The jittered interval is not negative.                                  *)
LEMMA JitterType ==
  ASSUME SchedulerParameters, NEW interval \in Nat
  PROVE  Jittered(interval) \subseteq Nat
<1> DEFINE low == (100 - JitterPct) * interval + 50
           high == (100 + JitterPct) * interval + 50
<1>1. JitterPct \in 0..99
  BY DEF SchedulerParameters
<1>2. (100 - JitterPct) \in Nat /\ (100 + JitterPct) \in Nat
  BY <1>1
<1>3. low \in Nat /\ high \in Nat
  BY <1>2
<1> HIDE DEF low, high
<1>4. low \div 100 \in Nat /\ high \div 100 \in Nat
  BY <1>3
<1>5. Jittered(interval) = low \div 100 .. high \div 100
  BY DEF Jittered, low, high
<1> QED
  BY <1>4, <1>5

(* A quotient rounded up is an integer.                                    *)
LEMMA CeilDivType ==
  ASSUME NEW a \in Int, NEW b \in Int, b > 0
  PROVE  CeilDiv(a, b) \in Int
BY DEF CeilDiv

(* Pacing waits at least as long.                                          *)
LEMMA PacingType ==
  ASSUME NEW wait \in Nat, NEW rate \in SUBSET Rate, NEW t \in Nat
  PROVE  ApplyPacing(wait, rate, t) \in Nat
<1> DEFINE r == CHOOSE x \in rate : TRUE
           window == r.resetAt - t
           share == IF r.remaining <= 0 THEN window ELSE CeilDiv(window, r.remaining)
<1>1. CASE rate = {}
  BY <1>1 DEF ApplyPacing
<1>2. CASE rate # {}
  <2>1. r \in Rate
    BY <1>2
  <2>2. r.resetAt \in Nat /\ r.remaining \in Nat
    BY <2>1 DEF Rate
  <2>3. window \in Int
    BY <2>2
  <2>4. share \in Int
    BY <2>2, <2>3, CeilDivType
  <2>5. ApplyPacing(wait, rate, t) = IF window <= 0 THEN wait ELSE Larger(wait, share)
    BY <1>2, Zenon DEF ApplyPacing
  <2> HIDE DEF share, window
  <2> QED
    BY <2>3, <2>4, <2>5 DEF Larger
<1> QED
  BY <1>1, <1>2

(* What an error's response says.                                          *)
LEMMA ErrorRateType ==
  ASSUME TypeOK
  PROVE  \A rate \in ErrorRates : rate \in SUBSET Rate
BY DEF TypeOK, ErrorRates

(* A cycle is over.                                                        *)
LEMMA RestType ==
  ASSUME Rest, SchedulerParameters
  PROVE  /\ polling' = FALSE /\ polling' \in BOOLEAN /\ before' \in {"closed", "open", "half-open"}
         /\ requests' \in 0..CycleRequests /\ heard' \in SUBSET Rate
<1>1. /\ polling' = FALSE /\ before' \in {"closed", "open", "half-open"}
      /\ requests' = 0 /\ heard' \in SUBSET Rate
  BY Zenon DEF Rest
<1>2. 0 \in 0..CycleRequests
  BY DEF SchedulerParameters
<1> QED
  BY <1>1, <1>2, Zenon

-----------------------------------------------------------------------------
(* The initial schedule.                                                   *)
LEMMA InitSchedule ==
  ASSUME SchedulerParameters, Init
  PROVE  ScheduleInv /\ CircuitFound /\ Remembered
<1>1. /\ schedule \in Schedules
      /\ now \in Nat /\ api \in [used : Nat, resetAt : Nat] /\ until \in Nat \cup {Never}
  BY DEF SchedulerParameters, Init, Schedules, Never
<1>2. /\ polling \in BOOLEAN /\ calm \in BOOLEAN /\ before \in {"closed", "open", "half-open"}
      /\ requests \in 0..CycleRequests /\ heard \in SUBSET Rate
  <2>1. /\ polling = FALSE /\ calm = TRUE /\ before = "closed" /\ requests = 0 /\ heard = {}
    BY Zenon DEF Init
  <2>2. 0 \in 0..CycleRequests
    BY DEF SchedulerParameters
  <2> QED
    BY <2>1, <2>2, Zenon
<1>3. TypeOK
  BY <1>1, <1>2, Zenon DEF TypeOK, Schedules
<1>4. IntervalBounded /\ CircuitCounts /\ CircuitFound /\ Remembered
  BY DEF SchedulerParameters, Init, IntervalBounded, CircuitCounts, CircuitFound, Remembered, Never
<1> QED
  BY <1>3, <1>4 DEF ScheduleInv

(* The end of a cycle that succeeds.                                       *)
LEMMA SucceedInv ==
  ASSUME SchedulerParameters, ScheduleInv, NEW events \in BOOLEAN, NEW truncated \in BOOLEAN,
         NEW wait, Succeed(events, truncated, wait)
  PROVE  ScheduleInv'
<1> DEFINE i == NextInterval(schedule, events, truncated)
<1>1. TypeOK
  BY DEF ScheduleInv
<1>2. i \in Nat /\ MinMs <= i /\ i <= MaxMs
  BY <1>1, IntervalBounds
<1>3. heard \in SUBSET Rate
  BY <1>1 DEF TypeOK
<1>4. wait \in Nat
  <2>1. CASE truncated
    BY <2>1 DEF Succeed
  <2>2. CASE ~truncated
    BY <1>2, <2>2, JitterType DEF Succeed
  <2> QED
    BY <2>1, <2>2
<1>5. now \in Nat /\ ApplyPacing(wait, heard, now) \in Nat
  BY <1>1, <1>3, <1>4, PacingType DEF TypeOK
<1>6. schedule' = [nextDueAt |-> now + ApplyPacing(wait, heard, now), intervalMs |-> i,
                   failures |-> 0, circuit |-> "closed", throttledUntil |-> Never,
                   rateLimit |-> heard]
  BY DEF Succeed, AfterSuccess
<1> HIDE DEF i
<1>7. schedule' \in Schedules /\ IntervalBounded'
  BY <1>2, <1>3, <1>5, <1>6 DEF Schedules, IntervalBounded, Never
<1>8. CircuitCounts'
  BY <1>6 DEF SchedulerParameters, CircuitCounts
<1>9. Rest
  BY DEF Succeed
<1>10. UNCHANGED <<now, api, calm, until>>
  BY DEF Succeed
<1>11. TypeOK'
  BY <1>1, <1>7, <1>9, <1>10, RestType, Zenon DEF TypeOK, Schedules
<1> QED
  BY <1>7, <1>8, <1>11 DEF ScheduleInv

(* The end of a cycle the API throttles.                                   *)
LEMMA ThrottledInv ==
  ASSUME SchedulerParameters, ScheduleInv, NEW wait \in Nat, NEW rate, Throttled(wait, rate)
  PROVE  ScheduleInv'
<1>1. TypeOK /\ schedule \in Schedules /\ now \in Nat
  BY DEF ScheduleInv, TypeOK, Schedules
<1>2. rate \in SUBSET Rate
  BY <1>1, ErrorRateType DEF Throttled
<1>3. schedule' = [schedule EXCEPT !.nextDueAt = now + wait, !.throttledUntil = now + wait,
                                   !.rateLimit = rate]
  BY DEF Throttled, AfterThrottle
<1>4. schedule' \in Schedules /\ until' \in Nat
  <2>1. now + wait \in Nat /\ until' = now + wait
    BY <1>1 DEF Throttled
  <2> QED
    BY <1>1, <1>2, <1>3, <2>1 DEF Schedules
<1>5. IntervalBounded' /\ CircuitCounts'
  BY <1>1, <1>3 DEF ScheduleInv, IntervalBounded, CircuitCounts, Schedules
<1>6. Rest /\ calm' \in BOOLEAN /\ UNCHANGED <<now, api>>
  BY Zenon DEF Throttled, Unpaced
<1>7. TypeOK'
  BY <1>1, <1>4, <1>6, RestType, Zenon DEF TypeOK, Schedules
<1> QED
  BY <1>5, <1>7 DEF ScheduleInv

(* The end of a cycle that fails.                                          *)
LEMMA FailInv ==
  ASSUME SchedulerParameters, ScheduleInv, NEW delay, NEW rate, Fail(delay, rate)
  PROVE  ScheduleInv'
<1>1. TypeOK /\ schedule \in Schedules /\ now \in Nat
  BY DEF ScheduleInv, TypeOK, Schedules
<1>2. rate \in SUBSET Rate
  BY <1>1, ErrorRateType DEF Fail
<1>3. delay \in Nat
  BY DEF SchedulerParameters, Fail, BackoffDelay
<1>4. schedule' = AfterError(schedule, delay, rate)
  BY DEF Fail
<1>5. schedule' \in Schedules
  BY <1>1, <1>2, <1>3, <1>4 DEF SchedulerParameters, Schedules, AfterError, Never
<1>6. IntervalBounded' /\ CircuitCounts'
  BY <1>1, <1>4 DEF SchedulerParameters, ScheduleInv, IntervalBounded, CircuitCounts, Schedules,
                    AfterError
<1>7. Rest /\ calm' \in BOOLEAN
  BY Zenon DEF Fail, Unpaced
<1>8. UNCHANGED <<now, api, until>>
  BY DEF Fail
<1>9. TypeOK'
  BY <1>1, <1>5, <1>7, <1>8, RestType, Zenon DEF TypeOK, Schedules
<1> QED
  BY <1>6, <1>9 DEF ScheduleInv

(* A poison event opens the circuit.                                       *)
LEMMA HaltInv ==
  ASSUME SchedulerParameters, ScheduleInv, Halt
  PROVE  ScheduleInv'
<1>1. TypeOK /\ schedule \in Schedules /\ now \in Nat
  BY DEF ScheduleInv, TypeOK, Schedules
<1>2. schedule' \in Schedules /\ IntervalBounded' /\ CircuitCounts'
  <2> DEFINE count == Larger(schedule.failures, Failures)
             due == now + ProbeMs
  <2>1. count \in Nat /\ count >= Failures /\ count > 0
    BY <1>1 DEF SchedulerParameters, Schedules, Larger
  <2>2. due \in Nat
    BY <1>1 DEF SchedulerParameters
  <2>3. schedule' = [schedule EXCEPT !.circuit = "open", !.nextDueAt = due,
                                     !.failures = count]
    BY DEF Halt
  <2> HIDE DEF count, due
  <2>4. schedule' \in Schedules
    BY <1>1, <2>1, <2>2, <2>3 DEF Schedules
  <2>5. IntervalBounded'
    BY <1>1, <2>3 DEF ScheduleInv, IntervalBounded, Schedules
  <2>6. CircuitCounts'
    BY <1>1, <2>1, <2>3 DEF SchedulerParameters, CircuitCounts, Schedules
  <2> QED
    BY <2>4, <2>5, <2>6
<1>3. Rest /\ calm' \in BOOLEAN
  BY Zenon DEF Halt, Unpaced
<1>4. UNCHANGED <<now, api, until>>
  BY DEF Halt
<1>5. TypeOK'
  BY <1>1, <1>2, <1>3, <1>4, RestType, Zenon DEF TypeOK, Schedules
<1> QED
  BY <1>2, <1>5 DEF ScheduleInv

(* A cycle ends without a word, its probe saved or not.                    *)
LEMMA AbandonInv ==
  ASSUME SchedulerParameters, ScheduleInv, CircuitFound, Abandon
  PROVE  ScheduleInv'
<1>1. TypeOK /\ schedule \in Schedules /\ before \in {"closed", "open", "half-open"}
  BY DEF ScheduleInv, TypeOK, Schedules
<1>2. /\ schedule' \in {schedule, [schedule EXCEPT !.circuit = before]}
      /\ before = "closed" <=> schedule.circuit = "closed"
  BY Zenon DEF Abandon, CircuitFound
<1>3. schedule' \in Schedules /\ IntervalBounded' /\ CircuitCounts'
  BY <1>1, <1>2 DEF ScheduleInv, IntervalBounded, CircuitCounts, Schedules
<1>4. Rest /\ calm' \in BOOLEAN /\ UNCHANGED <<now, api, until>>
  BY Zenon DEF Abandon
<1>5. TypeOK'
  BY <1>1, <1>3, <1>4, RestType, Zenon DEF TypeOK, Schedules
<1> QED
  BY <1>3, <1>5 DEF ScheduleInv

(* The start of a cycle.                                                   *)
LEMMA PollInv ==
  ASSUME SchedulerParameters, ScheduleInv, Poll
  PROVE  ScheduleInv'
<1>1. TypeOK /\ schedule \in Schedules
  BY DEF ScheduleInv, TypeOK, Schedules
<1>2. schedule' \in Schedules /\ IntervalBounded' /\ CircuitCounts'
  BY <1>1 DEF ScheduleInv, IntervalBounded, CircuitCounts, Schedules, Poll, BeginProbe
<1>3. polling' \in BOOLEAN /\ UNCHANGED <<now, api, calm, until>>
  BY Zenon DEF Poll
<1>4. /\ before' \in {"closed", "open", "half-open"} /\ heard' \in SUBSET Rate
      /\ requests' \in 0..CycleRequests
  <2>1. before' = schedule.circuit /\ heard' = schedule.rateLimit /\ requests' = 0
    BY DEF Poll
  <2> QED
    BY <1>1, <2>1 DEF Schedules, SchedulerParameters
<1>5. TypeOK'
  BY <1>1, <1>2, <1>3, <1>4, Zenon DEF TypeOK, Schedules
<1> QED
  BY <1>2, <1>5 DEF ScheduleInv

(* A request, of the live cycle or of another lane.                        *)
LEMMA FetchInv ==
  ASSUME SchedulerParameters, ScheduleInv,
         FetchElsewhere \/ \E headers \in BOOLEAN : Fetch(headers)
  PROVE  ScheduleInv'
<1>1. TypeOK
  BY DEF ScheduleInv
<1>2. /\ api' = [api EXCEPT !.used = @ + 1] /\ UNCHANGED <<now, schedule, polling, before, until>>
  BY DEF FetchElsewhere, Fetch, Request, live
<1>3. api' \in [used : Nat, resetAt : Nat]
  BY <1>1, <1>2 DEF TypeOK
<1>4. /\ calm' \in BOOLEAN /\ requests' \in 0..CycleRequests /\ heard' \in SUBSET Rate
  <2>1. CASE FetchElsewhere
    BY <1>1, <2>1, Zenon DEF FetchElsewhere, TypeOK, live
  <2>2. CASE \E headers \in BOOLEAN : Fetch(headers)
    <3>1. PICK headers \in BOOLEAN : Fetch(headers)
      BY <2>2
    <3>2. calm' \in BOOLEAN
      BY <3>1, Zenon DEF Fetch
    <3>3. requests' \in 0..CycleRequests
      BY <1>1, <3>1 DEF Fetch, TypeOK, SchedulerParameters
    <3>4. Header' \in Rate
      BY <1>3 DEF SchedulerParameters, Header, Rate, Larger
    <3>5. heard' = {Header'} \/ heard' = heard
      BY <3>1, Zenon DEF Fetch, Hear
    <3> QED
      BY <1>1, <3>2, <3>3, <3>4, <3>5 DEF TypeOK
  <2> QED
    BY <2>1, <2>2
<1>5. TypeOK'
  BY <1>1, <1>2, <1>3, <1>4, Zenon DEF TypeOK
<1> QED
  BY <1>2, <1>5 DEF ScheduleInv, IntervalBounded, CircuitCounts

(* An operator makes the key due.                                          *)
LEMMA TriggerInv ==
  ASSUME SchedulerParameters, ScheduleInv, Trigger
  PROVE  ScheduleInv'
<1>1. TypeOK /\ schedule \in Schedules /\ now \in Nat
  BY DEF ScheduleInv, TypeOK, Schedules
<1>2. schedule' \in Schedules /\ IntervalBounded' /\ CircuitCounts'
  BY <1>1 DEF ScheduleInv, IntervalBounded, CircuitCounts, Schedules, Trigger, MakeDue
<1>3. calm' \in BOOLEAN
  BY Zenon DEF Trigger
<1>4. UNCHANGED <<now, polling, before, requests, heard, api>> /\ until' = Never
  BY DEF Trigger, live
<1>5. TypeOK'
  BY <1>1, <1>2, <1>3, <1>4, Zenon DEF TypeOK, Schedules
<1> QED
  BY <1>2, <1>5 DEF ScheduleInv

(* Time passes.                                                            *)
LEMMA TickInv ==
  ASSUME SchedulerParameters, ScheduleInv, Tick
  PROVE  ScheduleInv'
<1>1. TypeOK
  BY DEF ScheduleInv
<1>2. now' \in Nat /\ api' \in [used : Nat, resetAt : Nat]
  BY <1>1 DEF SchedulerParameters, TypeOK, Tick
<1>3. calm' \in BOOLEAN
  BY <1>1, Zenon DEF TypeOK, Tick
<1>4. UNCHANGED <<schedule, polling, before, requests, heard, until>>
  BY DEF Tick, live
<1>5. TypeOK'
  BY <1>1, <1>2, <1>3, <1>4, Zenon DEF TypeOK
<1> QED
  BY <1>4, <1>5 DEF ScheduleInv, IntervalBounded, CircuitCounts

(* What an API may ask the engine to wait.                                 *)
LEMMA WaitType ==
  ASSUME SchedulerParameters, TypeOK,
         NEW wait \in RetryAfter \cup {Clamp(schedule.intervalMs)}
  PROVE  wait \in Nat
<1>1. schedule.intervalMs \in Nat
  BY DEF TypeOK
<1>2. Clamp(schedule.intervalMs) \in Nat
  BY <1>1, ClampBounds
<1> QED
  BY <1>2 DEF SchedulerParameters

(* A cycle that has read an open circuit keeps it open.                    *)
LEMMA FoundKept ==
  ASSUME CircuitFound, [Next]_vars
  PROVE  CircuitFound'
<1>1. CASE polling' = FALSE
  BY <1>1, Zenon DEF CircuitFound
<1>2. CASE Poll
  BY <1>2 DEF Poll, BeginProbe, CircuitFound
<1>3. CASE UNCHANGED <<schedule, polling, before>>
  BY <1>3, Zenon DEF CircuitFound
<1>4. Ending \/ Halt \/ Abandon => polling' = FALSE
  BY Zenon DEF Ending, Succeed, Throttled, Fail, Halt, Abandon, Rest
<1>5. Trigger => polling' = FALSE \/ UNCHANGED <<schedule, polling, before>>
  BY DEF Trigger, live, CircuitFound
<1>6. Tick \/ FetchElsewhere \/ (\E headers \in BOOLEAN : Fetch(headers)) \/ UNCHANGED vars
        => UNCHANGED <<schedule, polling, before>>
  BY DEF Tick, FetchElsewhere, Fetch, vars, live
<1> QED
  BY <1>1, <1>2, <1>3, <1>4, <1>5, <1>6 DEF Next

(* One step keeps the invariant.                                           *)
LEMMA NextSchedule ==
  ASSUME SchedulerParameters, ScheduleInv, CircuitFound, [Next]_vars
  PROVE  ScheduleInv' /\ CircuitFound'
<1> SUFFICES ScheduleInv'
  BY FoundKept
<1>1. ASSUME NEW rate, NEW wait \in RetryAfter \cup {Clamp(schedule.intervalMs)},
             Throttled(wait, rate)
      PROVE  ScheduleInv'
  BY <1>1, WaitType, ThrottledInv DEF ScheduleInv
<1>2. CASE Ending
  <2>1. ASSUME NEW events \in BOOLEAN, NEW truncated \in BOOLEAN, NEW wait,
               Succeed(events, truncated, wait)
        PROVE  ScheduleInv'
    BY <2>1, SucceedInv
  <2>2. ASSUME NEW delay, NEW rate, Fail(delay, rate)
        PROVE  ScheduleInv'
    BY <2>2, FailInv
  <2>3. CASE \E events, truncated \in BOOLEAN :
               \E wait \in {0} \cup Jittered(NextInterval(schedule, events, truncated)) :
                 Succeed(events, truncated, wait)
    BY <2>1, <2>3, Zenon
  <2>4. CASE \E rate \in ErrorRates :
               \/ \E wait \in RetryAfter \cup {Clamp(schedule.intervalMs)} : Throttled(wait, rate)
               \/ \E delay \in BackoffDelay(schedule.failures + 1) : Fail(delay, rate)
    BY <1>1, <2>2, <2>4, Zenon
  <2> QED
    BY <1>2, <2>3, <2>4, Zenon DEF Ending
<1>3. CASE UNCHANGED vars
  <2>1. UNCHANGED <<now, schedule, polling, before, requests, heard, api, calm, until>>
    BY <1>3 DEF vars, live
  <2>2. TypeOK'
    BY <2>1, Zenon DEF ScheduleInv, TypeOK
  <2> QED
    BY <2>1, <2>2, Zenon DEF ScheduleInv, IntervalBounded, CircuitCounts
<1> QED
  BY <1>2, <1>3, PollInv, FetchInv, AbandonInv, HaltInv, TriggerInv, TickInv DEF Next

-----------------------------------------------------------------------------
(* One step keeps in mind what a Retry-After asked for.                    *)
LEMMA NextRemembered ==
  ASSUME SchedulerParameters, TypeOK, Remembered, [Next]_vars
  PROVE  Remembered'
<1>0. schedule \in Schedules /\ now \in Nat /\ until \in Int
  BY DEF TypeOK, Schedules, Never
<1>1. CASE Poll
  <2>1. schedule.throttledUntil <= now
    BY <1>1 DEF Poll, IsDue
  <2>2. ~(until > now)
    BY <1>0, <2>1, Z3 DEF Remembered
  <2>3. UNCHANGED <<now, until>>
    BY <1>1 DEF Poll
  <2> QED
    BY <2>2, <2>3, Zenon DEF Remembered
<1>2. ASSUME NEW events, NEW truncated, NEW wait, Succeed(events, truncated, wait)
      PROVE  Remembered'
  <2>1. polling /\ UNCHANGED <<now, until>>
    BY <1>2 DEF Succeed
  <2> QED
    BY <2>1, Zenon DEF Remembered
<1>3. ASSUME NEW rate, NEW wait, Throttled(wait, rate)
      PROVE  Remembered'
  <2>1. schedule'.throttledUntil = now + wait /\ until' = now + wait
    BY <1>0, <1>3 DEF Throttled, AfterThrottle, Schedules
  <2>2. polling' = FALSE
    BY <1>3 DEF Throttled, Rest
  <2> QED
    BY <2>1, <2>2, Zenon DEF Remembered
<1>4. ASSUME NEW rate, NEW delay, Fail(delay, rate)
      PROVE  Remembered'
  <2>1. polling /\ UNCHANGED <<now, until>>
    BY <1>4 DEF Fail
  <2> QED
    BY <2>1, Zenon DEF Remembered
<1>5. CASE Halt
  <2>1. schedule'.throttledUntil = schedule.throttledUntil /\ UNCHANGED <<now, until>>
    BY <1>0, <1>5 DEF Halt, Schedules
  <2>2. polling' = FALSE
    BY <1>5 DEF Halt, Rest
  <2> QED
    BY <2>1, <2>2, Zenon DEF Remembered
<1>6. CASE Trigger
  <2>1. until' = Never /\ now' = now
    BY <1>6 DEF Trigger
  <2>2. ~(until' > now')
    BY <1>0, <2>1 DEF Never
  <2> QED
    BY <2>2, Zenon DEF Remembered
<1>7. CASE Tick
  <2>1. now' = now + 1 /\ UNCHANGED <<schedule, polling, until>>
    BY <1>7 DEF Tick, live
  <2>2. until' > now' => until > now
    BY <1>0, <2>1
  <2> QED
    BY <2>1, <2>2, Zenon DEF Remembered
<1>8. CASE UNCHANGED <<now, schedule, polling, until>>
  BY <1>8, Zenon DEF Remembered
<1>9. CASE Ending
  BY <1>2, <1>3, <1>4, <1>9, Zenon DEF Ending
<1>10. CASE Abandon
  <2>1. polling /\ UNCHANGED <<now, until>>
    BY <1>10 DEF Abandon
  <2> QED
    BY <2>1, Zenon DEF Remembered
<1>11. FetchElsewhere \/ (\E headers \in BOOLEAN : Fetch(headers)) \/ UNCHANGED vars
         => UNCHANGED <<now, schedule, polling, until>>
  BY DEF FetchElsewhere, Fetch, vars, live
<1> QED
  BY <1>1, <1>5, <1>6, <1>7, <1>8, <1>9, <1>10, <1>11 DEF Next

(* A poll that starts finds no Retry-After ahead.                          *)
LEMMA PollHeeds ==
  ASSUME TypeOK, Remembered, Poll
  PROVE  until <= now
<1>1. schedule.throttledUntil <= now
  BY DEF Poll, IsDue
<1>2. now \in Nat /\ until \in Int
  BY DEF TypeOK, Never
<1> QED
  BY <1>1, <1>2, Z3 DEF Remembered

-----------------------------------------------------------------------------
(* The answer to the request that uses the quota up puts the next poll     *)
(* after the window, whatever the interval and its jitter were.            *)
LEMMA PacedAnswer ==
  ASSUME SchedulerParameters, TypeOK, now < api.resetAt, api.used >= Limit, NEW wait \in Nat
  PROVE  now + ApplyPacing(wait, {Header}, now) >= api.resetAt
<1> DEFINE window == Header.resetAt - now
<1>1. api.resetAt \in Nat /\ now \in Nat /\ api.used \in Nat /\ Limit \in Nat
  BY DEF TypeOK, SchedulerParameters
<1>2. (CHOOSE x \in {Header} : TRUE) = Header
  OBVIOUS
<1>3. Header.remaining = 0 /\ Header.resetAt = api.resetAt
  BY <1>1 DEF Header, Larger
<1>4. window = api.resetAt - now /\ window > 0
  BY <1>1, <1>3
<1>5. ApplyPacing(wait, {Header}, now) = Larger(wait, window)
  <2> DEFINE share == IF Header.remaining <= 0 THEN window
                      ELSE CeilDiv(window, Header.remaining)
  <2>1. ApplyPacing(wait, {Header}, now) = IF window <= 0 THEN wait ELSE Larger(wait, share)
    BY <1>2, Zenon DEF ApplyPacing
  <2>2. share = window /\ ~(window <= 0)
    BY <1>1, <1>3, <1>4
  <2> QED
    BY <2>1, <2>2, Zenon
<1> HIDE DEF window
<1> QED
  BY <1>1, <1>4, <1>5 DEF Larger

(* One step keeps the next cycle out of a window without quota.            *)
LEMMA NextPaced ==
  ASSUME SchedulerParameters, TypeOK, Paced, [Next]_vars
  PROVE  Paced'
<1>0. /\ schedule \in Schedules /\ now \in Nat /\ Limit \in Nat /\ Limit >= 1
      /\ api \in [used : Nat, resetAt : Nat] /\ Window \in Nat /\ Window >= 1
      /\ CycleRequests \in Nat /\ CycleRequests >= 1 /\ requests \in 0..CycleRequests
  BY DEF TypeOK, Schedules, SchedulerParameters
<1>1. CASE Poll
  <2>1. /\ schedule.nextDueAt <= now /\ ~polling /\ polling' /\ requests' = 0
        /\ UNCHANGED <<now, api, calm>>
    BY <1>1 DEF Poll, IsDue
  <2>2. schedule.nextDueAt \in Nat
    BY <1>0 DEF Schedules
  <2>3. ASSUME calm
        PROVE  now < api.resetAt /\ api.used < Limit
    BY <1>0, <2>1, <2>2, <2>3 DEF Paced
  <2> QED
    BY <1>0, <2>1, <2>3 DEF Paced
<1>2. ASSUME NEW headers \in BOOLEAN, Fetch(headers)
      PROVE  Paced'
  <2>1. /\ polling /\ polling' /\ requests' = requests + 1 /\ UNCHANGED now
        /\ api' = [api EXCEPT !.used = @ + 1] /\ (calm' => calm /\ headers)
        /\ headers => heard' = {Header'}
    BY <1>2 DEF Fetch, Request, Hear
  <2>2. api'.used = api.used + 1 /\ api'.resetAt = api.resetAt
    BY <1>0, <2>1
  <2>3. calm => now < api.resetAt /\ api.used < Limit + requests
    BY <2>1 DEF Paced
  <2> QED
    BY <1>0, <2>1, <2>2, <2>3 DEF Paced
(* A cycle that is over: its successor is due after a window without quota. *)
<1>3. ASSUME ~polling', UNCHANGED <<now, api>>, calm' => calm,
             calm' /\ api.used >= Limit => schedule'.nextDueAt >= api.resetAt
      PROVE  Paced'
  <2>1. ASSUME calm'
        PROVE  now < api.resetAt /\ api.used < Limit + CycleRequests
    <3>1. calm /\ now < api.resetAt /\ api.used < Limit + IF polling THEN requests ELSE CycleRequests
      BY <1>3, <2>1 DEF Paced
    <3> QED
      BY <1>0, <3>1
  <2> QED
    BY <1>3, <2>1 DEF Paced
<1>4. ASSUME NEW events \in BOOLEAN, NEW truncated \in BOOLEAN, NEW wait,
             Succeed(events, truncated, wait)
      PROVE  Paced'
  <2>1. polling /\ ~polling' /\ UNCHANGED <<now, api, calm>>
    BY <1>4 DEF Succeed, Rest
  <2>2. wait \in Nat
    <3>1. NextInterval(schedule, events, truncated) \in Nat
      BY IntervalBounds
    <3>2. CASE truncated
      BY <1>4, <3>2 DEF Succeed
    <3>3. CASE ~truncated
      BY <1>4, <3>1, <3>3, JitterType DEF Succeed
    <3> QED
      BY <3>2, <3>3
  <2>3. schedule'.nextDueAt = now + ApplyPacing(wait, heard, now)
    BY <1>4 DEF Succeed, AfterSuccess
  <2>4. ASSUME calm, api.used >= Limit
        PROVE  schedule'.nextDueAt >= api.resetAt
    <3>1. now < api.resetAt /\ heard = {Header}
      BY <2>1, <2>4 DEF Paced
    <3> QED
      BY <2>2, <2>3, <2>4, <3>1, PacedAnswer
  <2> QED
    BY <1>3, <2>1, <2>4
<1>5. ASSUME NEW rate, NEW wait, Throttled(wait, rate)
      PROVE  Paced'
  <2>1. schedule'.nextDueAt = now + wait
    BY <1>0, <1>5 DEF Throttled, AfterThrottle, Schedules
  <2>2. ~polling' /\ UNCHANGED <<now, api>> /\ (calm' => calm /\ now + wait >= api.resetAt)
    BY <1>5 DEF Throttled, Rest, Unpaced
  <2> QED
    BY <1>3, <2>1, <2>2
<1>6. ASSUME NEW rate, NEW delay, Fail(delay, rate)
      PROVE  Paced'
  <2>1. ~polling' /\ UNCHANGED <<now, api>> /\ (calm' => calm /\ schedule'.nextDueAt >= api.resetAt)
    BY <1>6 DEF Fail, Rest, Unpaced
  <2> QED
    BY <1>3, <2>1
<1>7. CASE Halt
  <2>1. schedule'.nextDueAt = now + ProbeMs
    BY <1>0, <1>7 DEF Halt, Schedules
  <2>2. ~polling' /\ UNCHANGED <<now, api>> /\ (calm' => calm /\ now + ProbeMs >= api.resetAt)
    BY <1>7 DEF Halt, Rest, Unpaced
  <2> QED
    BY <1>3, <2>1, <2>2
<1>8. CASE Abandon \/ Trigger \/ FetchElsewhere
  BY <1>8, Zenon DEF Abandon, Trigger, FetchElsewhere, Paced
<1>9. CASE Tick
  <2>1. now' = now + 1 /\ UNCHANGED <<schedule, polling, requests, heard>>
    BY <1>9 DEF Tick, live
  <2>2. CASE now' >= api.resetAt
    <3>1. api' = [used |-> 0, resetAt |-> now' + Window]
      BY <1>9, <2>2 DEF Tick
    <3> QED
      BY <1>0, <2>1, <3>1 DEF Paced
  <2>3. CASE ~(now' >= api.resetAt)
    <3>1. UNCHANGED <<api, calm>>
      BY <1>9, <2>3 DEF Tick
    <3>2. now' < api'.resetAt
      BY <1>0, <2>1, <2>3, <3>1
    <3>3. Header' = Header
      BY <3>1 DEF Header
    <3> QED
      BY <2>1, <3>1, <3>2, <3>3, Zenon DEF Paced
  <2> QED
    BY <2>2, <2>3
<1>10. CASE UNCHANGED vars
  <2>1. Header' = Header
    BY <1>10 DEF vars, Header
  <2> QED
    BY <1>10, <2>1, Zenon DEF vars, live, Paced
<1>11. CASE Ending
  BY <1>4, <1>5, <1>6, <1>11, Zenon DEF Ending
<1> QED
  BY <1>1, <1>2, <1>7, <1>8, <1>9, <1>10, <1>11 DEF Next

-----------------------------------------------------------------------------
(* The schedule, for every configuration definePoller() accepts: its types *)
(* (ScheduleState), its interval within schedule.min and schedule.max      *)
(* (afterSuccess), and its circuit in step with its failures               *)
(* (afterFailure, beginProbe, openCircuitForHalt).                         *)
THEOREM ScheduleSound ==
  ASSUME SchedulerParameters
  PROVE  Spec => []ScheduleInv
<1>1. Init => ScheduleInv /\ CircuitFound
  BY InitSchedule
<1>2. ScheduleInv /\ CircuitFound /\ [Next]_vars => (ScheduleInv /\ CircuitFound)'
  BY NextSchedule
<1> QED
  BY <1>1, <1>2, PTL DEF Spec

(* No live cycle starts before the time a Retry-After to one named, unless *)
(* an operator triggers it (isDue, afterFailure, openCircuitForHalt).      *)
THEOREM ThrottleHonoured ==
  ASSUME SchedulerParameters
  PROVE  Spec => RetryAfterHeeded
<1>1. Init => ScheduleInv /\ CircuitFound /\ Remembered
  BY InitSchedule
<1>2. ScheduleInv /\ CircuitFound /\ Remembered /\ [Next]_vars => (ScheduleInv /\ CircuitFound /\ Remembered)'
  BY NextSchedule, NextRemembered DEF ScheduleInv
<1>3. ScheduleInv /\ CircuitFound /\ Remembered /\ [Next]_vars => [Poll => until <= now]_vars
  BY PollHeeds DEF ScheduleInv
<1> QED
  BY <1>1, <1>2, <1>3, PTL DEF Spec, RetryAfterHeeded

(* For every interval, jitter, quota and number of pages, and however      *)
(* cycles and windows fall: in a window of live cycles whose responses all *)
(* have the headers, and which nothing but their pacing makes due, none    *)
(* starts once the quota is used up, so that the requests exceed it by     *)
(* less than one cycle's (applyPacing, afterSuccess, isDue, runCycle).     *)
THEOREM PacingKeepsQuota ==
  ASSUME SchedulerParameters
  PROVE  Spec => []QuotaKept
<1>1. Init => ScheduleInv /\ CircuitFound /\ Paced
  <2>1. Init => Paced
    <3> SUFFICES ASSUME Init
                 PROVE  Paced
      OBVIOUS
    <3>1. 0 < Window /\ 0 < Limit + CycleRequests /\ ~(0 >= Limit)
      BY DEF SchedulerParameters
    <3>2. now = 0 /\ polling = FALSE /\ api = [used |-> 0, resetAt |-> Window]
      BY DEF Init
    <3> QED
      BY <3>1, <3>2 DEF Paced
  <2> QED
    BY <2>1, InitSchedule
<1>2. ScheduleInv /\ CircuitFound /\ Paced /\ [Next]_vars => (ScheduleInv /\ CircuitFound /\ Paced)'
  BY NextSchedule, NextPaced DEF ScheduleInv
<1>3. ScheduleInv /\ CircuitFound /\ Paced => QuotaKept
  <2>1. TypeOK => requests \in 0..CycleRequests /\ api.used \in Nat
    BY DEF TypeOK
  <2> QED
    BY <2>1 DEF ScheduleInv, SchedulerParameters, Paced, QuotaKept
<1> QED
  BY <1>1, <1>2, <1>3, PTL DEF Spec

-----------------------------------------------------------------------------
(* Numbers in order *)

(* The order of the natural numbers as a well-founded relation.            *)
LEMMA WellOrder ==
  ASSUME NEW S, S \subseteq Nat, S # {}
  PROVE  \E Q : /\ \A m, n \in Nat : m < n => <<m, n>> \in Q
               /\ \E n \in S : \A m \in S : ~(<<m, n>> \in Q)
<1>1. \E n \in S : \A m \in S : ~(<<m, n>> \in OpToRel(<, Nat))
  BY WFMin, NatLessThanWellFounded, Zenon
<1>2. \A m, n \in Nat : m < n => <<m, n>> \in OpToRel(<, Nat)
  BY DEF OpToRel
<1> WITNESS OpToRel(<, Nat)
<1> QED
  BY <1>1, <1>2, Zenon

(* A nonempty set of natural numbers has a smallest element.               *)
LEMMA SmallestElement ==
  ASSUME NEW S, S \subseteq Nat, S # {}
  PROVE  \E n \in S : \A m \in S : n <= m
<1>1. PICK Q : /\ \A m, n \in Nat : m < n => <<m, n>> \in Q
               /\ \E n \in S : \A m \in S : ~(<<m, n>> \in Q)
  BY WellOrder
<1>2. PICK n \in S : \A m \in S : ~(<<m, n>> \in Q)
  BY <1>1
<1>3. ASSUME NEW m \in S PROVE ~(m < n)
  <2>1. m < n => <<m, n>> \in Q
    BY <1>1, Zenon
  <2> QED
    BY <1>2, <2>1, Zenon
<1> QED
  BY <1>3

(* An injection from 1..n onto a set of n elements reaches each of them.   *)
LEMMA ReachesAll ==
  ASSUME NEW S, IsFiniteSet(S), NEW n, n = Cardinality(S), NEW q \in [1..n -> S],
         \A i, j \in 1..n : q[i] = q[j] => i = j
  PROVE  {q[i] : i \in 1..n} = S
<1>1. n \in Nat
  BY FS_CardinalityType
<1>2. PICK T : T = {q[i] : i \in 1..n}
  OBVIOUS
<1>3. T \in SUBSET S
  BY <1>2
<1>4. q \in Bijection(1..n, T)
  <2>1. q \in [1..n -> T]
    BY <1>2
  <2>2. \A t \in T : \E s \in 1..n : q[s] = t
    BY <1>2
  <2> QED
    BY <2>1, <2>2 DEF Bijection, Injection, Surjection, IsInjective
<1>5. Cardinality(T) = n
  <2>1. ExistsBijection(1..n, T)
    BY <1>4 DEF ExistsBijection
  <2> QED
    BY <1>1, <2>1, FS_CountingElements
<1> QED
  BY <1>2, <1>3, <1>5, FS_Subset

(* A finite set of numbers can be listed in ascending order: each element  *)
(* has its place after those that are smaller.                             *)
LEMMA Sortable ==
  ASSUME NEW S, S \subseteq Nat, IsFiniteSet(S), NEW n, n = Cardinality(S)
  PROVE  /\ n \in Nat
         /\ \E q \in [1..n -> S] : \A i, j \in 1..n : i < j => q[i] < q[j]
<1>1. n \in Nat
  BY FS_CardinalityType
<1> DEFINE Below(x) == {y \in S : y < x}
           r == [x \in S |-> Cardinality(Below(x)) + 1]
<1>2. ASSUME NEW x \in S
      PROVE  IsFiniteSet(Below(x)) /\ Cardinality(Below(x)) \in Nat /\ Cardinality(Below(x)) < n
  <2>1. Below(x) \in SUBSET S /\ x \notin Below(x)
    OBVIOUS
  <2> HIDE DEF Below
  <2>2. IsFiniteSet(Below(x)) /\ Cardinality(Below(x)) <= n /\ (n = Cardinality(Below(x)) => S = Below(x))
    BY <2>1, FS_Subset
  <2>3. Cardinality(Below(x)) \in Nat
    BY <2>2, FS_CardinalityType
  <2> QED
    BY <1>1, <2>1, <2>2, <2>3
<1>3. ASSUME NEW x \in S, NEW y \in S, x < y
      PROVE  Cardinality(Below(x)) < Cardinality(Below(y))
  <2>1. Below(x) \in SUBSET Below(y) /\ x \in Below(y) /\ x \notin Below(x)
    <3>1. x \in Nat /\ y \in Nat /\ \A z \in S : z \in Nat
      OBVIOUS
    <3>2. \A z \in S : z < x => z < y
      BY <1>3, <3>1
    <3>3. ~(x < x)
      BY <3>1
    <3> QED
      BY <1>3, <3>2, <3>3
  <2> HIDE DEF Below
  <2>2. /\ Cardinality(Below(x)) <= Cardinality(Below(y))
        /\ Cardinality(Below(y)) = Cardinality(Below(x)) => Below(y) = Below(x)
    BY <1>2, <2>1, FS_Subset
  <2> QED
    BY <1>2, <2>1, <2>2
<1>4. r \in [S -> 1..n]
  <2> HIDE DEF Below
  <2> QED
    BY <1>1, <1>2
<1>5. \A x, y \in S : x < y => r[x] < r[y]
  <2> HIDE DEF Below
  <2> QED
    BY <1>2, <1>3
<1> HIDE DEF r, Below
<1>6. \A x, y \in S : r[x] = r[y] => x = y
  <2>1. \A x, y \in S : x = y \/ x < y \/ y < x
    OBVIOUS
  <2>2. \A x \in S : r[x] \in Nat
    BY <1>1, <1>4
  <2> QED
    BY <1>5, <2>1, <2>2
<1>7. \A i \in 1..n : \E x \in S : r[x] = i
  <2>1. PICK T : T = {r[x] : x \in S}
    OBVIOUS
  <2>2. r \in Bijection(S, T)
    <3>1. r \in [S -> T]
      BY <1>4, <2>1
    <3>2. \A t \in T : \E s \in S : r[s] = t
      BY <2>1
    <3> QED
      BY <1>6, <3>1, <3>2 DEF Bijection, Injection, Surjection, IsInjective
  <2>3. Cardinality(T) = n
    <3>1. ExistsBijection(S, T)
      BY <2>2 DEF ExistsBijection
    <3> QED
      BY <3>1, FS_Bijection
  <2>4. T \in SUBSET (1..n)
    BY <1>4, <2>1
  <2>5. IsFiniteSet(1..n) /\ Cardinality(1..n) = n
    BY <1>1, FS_Interval
  <2>6. T = 1..n
    BY <2>3, <2>4, <2>5, FS_Subset
  <2> QED
    BY <2>1, <2>6
<1>8. PICK q : q = [i \in 1..n |-> CHOOSE x \in S : r[x] = i]
  OBVIOUS
<1>9. \A i \in 1..n : q[i] \in S /\ r[q[i]] = i
  BY <1>7, <1>8
<1>10. q \in [1..n -> S]
  BY <1>8, <1>9
<1>11. ASSUME NEW i \in 1..n, NEW j \in 1..n, i < j PROVE q[i] < q[j]
  <2>1. q[i] \in S /\ q[j] \in S /\ r[q[i]] = i /\ r[q[j]] = j
    BY <1>9
  <2>2. q[i] = q[j] \/ q[i] < q[j] \/ q[j] < q[i]
    <3>1. q[i] \in Nat /\ q[j] \in Nat
      BY <2>1
    <3> QED
      BY <3>1
  <2>3. q[i] # q[j]
    BY <1>11, <2>1
  <2>4. ~(q[j] < q[i])
    <3>1. q[j] < q[i] => r[q[j]] < r[q[i]]
      BY <1>5, <2>1
    <3> QED
      BY <1>11, <2>1, <3>1
  <2> QED
    BY <2>2, <2>3, <2>4
<1> QED
  BY <1>1, <1>10, <1>11

(* The first n numbers of q, in ascending order, are those of S.           *)
Lists(q, n, S) ==
  /\ n \in Nat /\ q \in [1..n -> Nat] /\ S = {q[i] : i \in 1..n}
  /\ \A i, j \in 1..n : i < j => q[i] < q[j]

(* The place of an element in an ascending list says how many are smaller. *)
LEMMA PlaceCounts ==
  ASSUME NEW n, NEW q, NEW S, Lists(q, n, S), NEW i \in 1..n
  PROVE  Cardinality({x \in S : x < q[i]}) = i - 1
<1> USE DEF Lists
<1>1. PICK T : T = {x \in S : x < q[i]}
  OBVIOUS
<1>2. PICK m : m = i - 1
  OBVIOUS
<1>3. m \in Nat /\ m < n /\ \A j \in 1..m : j \in 1..n /\ j < i
  BY <1>2
<1>4. \A j \in 1..n : q[j] < q[i] => j \in 1..m
  <2>1. ASSUME NEW j \in 1..n, q[j] < q[i] PROVE j \in 1..m
    <3>1. q[j] \in Nat /\ q[i] \in Nat
      OBVIOUS
    <3>2. j # i /\ ~(i < j)
      BY <2>1, <3>1
    <3> QED
      BY <1>2, <3>2
  <2> QED
    BY <2>1
<1>5. PICK p : p = [j \in 1..m |-> q[j]]
  OBVIOUS
<1>6. p \in [1..m -> T]
  BY <1>1, <1>3, <1>5
<1>7. \A j, k \in 1..m : p[j] = p[k] => j = k
  <2>1. ASSUME NEW j \in 1..m, NEW k \in 1..m, p[j] = p[k] PROVE j = k
    <3>1. j \in 1..n /\ k \in 1..n /\ q[j] = q[k]
      BY <1>3, <1>5, <2>1
    <3>2. q[j] \in Nat /\ q[k] \in Nat /\ (j < k => q[j] < q[k]) /\ (k < j => q[k] < q[j])
      BY <3>1
    <3>3. ~(j < k) /\ ~(k < j)
      BY <3>1, <3>2
    <3> QED
      BY <3>3
  <2> QED
    BY <2>1
<1>8. \A t \in T : \E j \in 1..m : p[j] = t
  BY <1>1, <1>4, <1>5
<1>9. ExistsBijection(1..m, T)
  BY <1>6, <1>7, <1>8 DEF ExistsBijection, Bijection, Injection, Surjection, IsInjective
<1>10. Cardinality(T) = m
  BY <1>3, <1>9, FS_CountingElements
<1> QED
  BY <1>1, <1>2, <1>10

(* Of two ascending lists, the one that has what the other has up to some  *)
(* bound is its beginning.                                                 *)
LEMMA ListsBegin ==
  ASSUME NEW m, NEW s, NEW S, Lists(s, m, S), NEW n, NEW t, NEW T, Lists(t, n, T),
         NEW b \in Nat, S = {x \in T : x <= b}
  PROVE  m <= n /\ \A i \in 1..m : s[i] = t[i]
<1>1. S = {s[i] : i \in 1..m} /\ m \in Nat /\ s \in [1..m -> Nat]
  BY DEF Lists
<1>2. T = {t[i] : i \in 1..n} /\ n \in Nat /\ t \in [1..n -> Nat]
  BY DEF Lists
<1>3. S = {x \in T : x <= b} /\ T \subseteq Nat
  BY <1>2
<1>4. ASSUME NEW i \in 1..m PROVE i \in 1..n /\ s[i] = t[i]
  <2>1. s[i] \in S /\ s[i] \in Nat
    BY <1>1
  <2>2. s[i] \in T /\ s[i] <= b
    BY <1>3, <2>1
  <2>3. PICK j \in 1..n : s[i] = t[j]
    BY <1>2, <2>2
  <2>4. {x \in S : x < s[i]} = {x \in T : x < t[j]}
    <3>1. \A x \in T : x \in Nat
      BY <1>3
    <3>2. \A x \in T : x < s[i] => x <= b
      BY <2>1, <2>2, <3>1
    <3> QED
      BY <1>3, <2>3, <3>2
  <2>5. Cardinality({x \in S : x < s[i]}) = i - 1
    BY PlaceCounts
  <2>6. Cardinality({x \in T : x < t[j]}) = j - 1
    BY PlaceCounts
  <2>7. i = j
    <3>1. i - 1 = j - 1
      BY <2>4, <2>5, <2>6
    <3> QED
      BY <3>1
  <2> QED
    BY <2>3, <2>7
<1>5. m <= n
  <2>1. CASE m = 0
    BY <1>2, <2>1
  <2>2. CASE m # 0
    <3>1. m \in 1..m
      BY <1>1, <2>2
    <3> QED
      BY <1>4, <3>1
  <2> QED
    BY <2>1, <2>2
<1> QED
  BY <1>4, <1>5

(* The parts of a list that goes on.                                       *)
LEMMA Concatenation ==
  ASSUME NEW S, NEW s \in Seq(S), NEW p \in Seq(S), NEW t, t = s \o p,
         NEW m, NEW n, m = Len(s), n = Len(p)
  PROVE  /\ m \in Nat /\ n \in Nat /\ t \in Seq(S) /\ Len(t) = m + n
         /\ \A i \in 1..m : t[i] = s[i] /\ i \in 1..(m + n)
         /\ \A i \in 1..n : t[m + i] = p[i] /\ m + i \in 1..(m + n)
<1>1. m \in Nat /\ n \in Nat /\ t \in Seq(S) /\ Len(t) = m + n
  OBVIOUS
<1>2. \A i \in 1..m : t[i] = s[i] /\ i \in 1..(m + n)
  OBVIOUS
<1>3. ASSUME NEW i \in 1..n PROVE t[m + i] = p[i] /\ m + i \in 1..(m + n)
  <2>1. m + i \in 1..(m + n) /\ ~(m + i <= m) /\ (m + i) - m = i
    BY <1>1
  <2> QED
    BY <1>1, <2>1
<1> QED
  BY <1>1, <1>2, <1>3

-----------------------------------------------------------------------------
(* Keyset *)

(* The part counts as its surroundings do.                                 *)
LEMMA KeysetCounts ==
  ASSUME NEW S
  PROVE  K!Cardinality(S) = Cardinality(S) /\ (K!IsFiniteSet(S) <=> IsFiniteSet(S))
BY DEF K!Cardinality, Cardinality, K!IsFiniteSet, IsFiniteSet

(* Before is a strict total order of the changes.                          *)
LEMMA ChangeOrder ==
  ASSUME K!KeysetParameters
  PROVE  /\ \A x \in K!Change : x.id \in Item /\ x.id \in Nat \ {0} /\ x.ts \in Nat
         /\ \A x \in K!Change : x = [id |-> x.id, ts |-> x.ts]
         /\ \A x \in K!Change : ~K!Before(x, x)
         /\ \A x, y \in K!Change : x = y \/ K!Before(x, y) \/ K!Before(y, x)
         /\ \A x, y, z \in K!Change : K!Before(x, y) /\ K!Before(y, z) => K!Before(x, z)
<1>1. /\ \A x \in K!Change : x.id \in Item /\ x.id \in Nat \ {0} /\ x.ts \in Nat
      /\ \A x \in K!Change : x = [id |-> x.id, ts |-> x.ts]
  <2>1. \A i \in Item : i \in Nat \ {0}
    BY DEF K!KeysetParameters
  <2> QED
    BY <2>1 DEF K!Change
<1>2. \A x, y \in K!Change : x.id = y.id /\ x.ts = y.ts => x = y
  BY <1>1
<1> QED
  BY <1>1, <1>2 DEF K!Before

(* A finite set of changes has a last one.                                 *)
LEMMA LastChange ==
  ASSUME K!KeysetParameters, NEW S \in SUBSET K!Change, K!IsFiniteSet(S), S # {}
  PROVE  \E x \in S : \A y \in S : y = x \/ K!Before(y, x)
<1> DEFINE Later(x) == {y \in S : K!Before(x, y)}
           Counts == {K!Cardinality(Later(x)) : x \in S}
<1>1. \A x \in S : K!IsFiniteSet(Later(x)) /\ K!Cardinality(Later(x)) \in Nat
  BY FS_Subset, KeysetCounts, FS_CardinalityType
<1>2. Counts \subseteq Nat /\ Counts # {}
  BY <1>1
<1>3. PICK n \in Counts : \A m \in Counts : n <= m
  <2> HIDE DEF Counts
  <2> QED
    BY <1>2, SmallestElement
<1>4. PICK x \in S : n = K!Cardinality(Later(x))
  BY <1>3
<1>5. ASSUME NEW y \in S, K!Before(x, y) PROVE FALSE
  <2>1. Later(y) \in SUBSET Later(x) /\ y \in Later(x) /\ y \notin Later(y)
    BY <1>5, ChangeOrder
  <2> HIDE DEF Later
  <2>2. K!Cardinality(Later(y)) <= n /\ K!Cardinality(Later(y)) # n
    BY <2>1, <1>1, <1>4, FS_Subset, KeysetCounts
  <2>3. n <= K!Cardinality(Later(y))
    BY <1>3
  <2> QED
    BY <2>2, <2>3, <1>1, <1>4
<1> QED
  BY <1>5, ChangeOrder

(* What is committed: one change per item.                                 *)
LEMMA CommittedType ==
  ASSUME K!KeysetParameters, K!TypeOK
  PROVE  /\ K!Committed \subseteq K!Change
         /\ \A x \in K!Committed : x.id \in Item /\ x.ts = row[x.id].ts
         /\ \A i \in Item : row[i].ts # K!None => [id |-> i, ts |-> row[i].ts] \in K!Committed
         /\ K!IsFiniteSet(K!Committed) /\ K!Cardinality(K!Committed) <= K!Cardinality(Item)
         /\ K!Cardinality(K!Committed) \in Nat /\ K!Cardinality(Item) \in Nat
<1>1. \A i \in Item : row[i].ts \in Nat \cup {K!None}
  BY DEF K!TypeOK
<1>2. /\ K!Committed \subseteq K!Change
      /\ \A x \in K!Committed : x.id \in Item /\ x.ts = row[x.id].ts
      /\ \A i \in Item : row[i].ts # K!None => [id |-> i, ts |-> row[i].ts] \in K!Committed
  BY <1>1 DEF K!Committed, K!Change
<1> DEFINE Items == {j \in Item : row[j].ts # K!None}
           f == [i \in Items |-> [id |-> i, ts |-> row[i].ts]]
<1>3. K!IsFiniteSet(Item)
  BY KeysetCounts DEF K!KeysetParameters
<1>4. K!IsFiniteSet(Items) /\ K!Cardinality(Items) <= K!Cardinality(Item)
  BY <1>3, FS_Subset, KeysetCounts
<1>5. f \in Surjection(Items, K!Committed)
  BY DEF Surjection, K!Committed
<1> HIDE DEF Items, f
<1>6. K!IsFiniteSet(K!Committed) /\ K!Cardinality(K!Committed) <= K!Cardinality(Items)
  BY <1>4, <1>5, FS_Surjection, KeysetCounts
<1>7. /\ K!Cardinality(K!Committed) \in Nat /\ K!Cardinality(Items) \in Nat
      /\ K!Cardinality(Item) \in Nat
  BY <1>3, <1>4, <1>6, FS_CardinalityType, KeysetCounts
<1> QED
  BY <1>2, <1>4, <1>6, <1>7

(* A page is the first part of what is listed, and what is listed and is   *)
(* not in it comes after all of it, on a further page.                     *)
LEMMA PageFirst ==
  ASSUME K!KeysetParameters, K!TypeOK, NEW from
  PROVE  /\ K!PageOf(from) \subseteq K!Committed /\ K!IsFiniteSet(K!PageOf(from))
         /\ \A x \in K!Committed : K!Asked(x, from) =>
              \/ x \in K!PageOf(from)
              \/ /\ K!Cardinality(K!Listed(from)) > config.size
                 /\ \A y \in K!PageOf(from) : K!Before(y, x)
         /\ K!Cardinality(K!Listed(from)) <= K!Cardinality(Item)
<1> DEFINE L == K!Listed(from)
           Prior(x) == {y \in L : K!Before(y, x)}
<1>1. /\ L \subseteq K!Committed /\ L \in SUBSET K!Committed
      /\ \A x \in K!Committed : K!Asked(x, from) <=> x \in L
  BY DEF K!Listed
<1>2. config.size \in Nat
  BY DEF K!TypeOK, K!KeysetParameters
<1>3. K!PageOf(from) = {x \in L : K!Cardinality(Prior(x)) < config.size}
  BY KeysetCounts DEF K!PageOf
<1> HIDE DEF L
<1>4. K!IsFiniteSet(L) /\ K!Cardinality(L) <= K!Cardinality(K!Committed) /\ K!Cardinality(L) \in Nat
  BY <1>1, CommittedType, FS_Subset, KeysetCounts, FS_CardinalityType
<1>5. \A x \in L : /\ Prior(x) \in SUBSET L /\ K!IsFiniteSet(Prior(x))
                   /\ K!Cardinality(Prior(x)) \in Nat
  BY <1>4, FS_Subset, KeysetCounts, FS_CardinalityType
<1>6. \A x \in L : x \in K!Change
  BY <1>1, CommittedType
<1>7. ASSUME NEW x \in L, x \notin K!PageOf(from)
      PROVE  /\ K!Cardinality(L) > config.size
             /\ \A y \in K!PageOf(from) : K!Before(y, x)
  <2>1. K!Cardinality(Prior(x)) >= config.size
    BY <1>3, <1>5, <1>7, <1>2
  <2>2. Prior(x) \in SUBSET L /\ x \notin Prior(x)
    BY <1>6, ChangeOrder
  <2>3. K!Cardinality(Prior(x)) <= K!Cardinality(L) /\ K!Cardinality(Prior(x)) # K!Cardinality(L)
    <3> HIDE DEF Prior
    <3> QED
      BY <2>2, <1>4, FS_Subset, KeysetCounts
  <2>4. ASSUME NEW y \in K!PageOf(from) PROVE K!Before(y, x)
    <3>1. y \in L /\ K!Cardinality(Prior(y)) < config.size
      BY <1>3
    <3>2. SUFFICES ASSUME K!Before(x, y) PROVE FALSE
      BY <3>1, <1>6, <1>7, ChangeOrder
    <3>3. Prior(x) \in SUBSET Prior(y)
      BY <3>2, <3>1, <1>6, ChangeOrder
    <3>4. K!IsFiniteSet(Prior(y)) /\ K!Cardinality(Prior(y)) \in Nat /\ K!Cardinality(Prior(x)) \in Nat
      BY <1>5, <3>1
    <3> HIDE DEF Prior
    <3>5. K!Cardinality(Prior(x)) <= K!Cardinality(Prior(y))
      BY <3>3, <3>4, FS_Subset, KeysetCounts
    <3> QED
      BY <3>1, <3>4, <3>5, <2>1, <1>2
  <2> QED
    BY <2>1, <2>3, <2>4, <1>2, <1>4, <1>5
<1>8. K!PageOf(from) \in SUBSET L
  BY <1>3
<1>9. K!IsFiniteSet(K!PageOf(from))
  BY <1>8, <1>4, FS_Subset, KeysetCounts
<1>10. K!Cardinality(L) <= K!Cardinality(Item)
  BY <1>4, CommittedType
<1> QED
  BY <1>1, <1>7, <1>8, <1>9, <1>10 DEF L

(* The facts about a poller and its state that the steps use.              *)
LEMMA KeysetTypes ==
  ASSUME K!KeysetParameters, K!TypeOK
  PROVE  /\ moment \in Nat /\ Delay \in Nat /\ Latency \in Nat /\ K!None = -1 /\ K!NoTie = 0
         /\ config.lag \in Nat /\ config.overlap \in Nat /\ config.size \in Nat
         /\ config.iterable \in BOOLEAN /\ config.override \in BOOLEAN
         /\ \A i \in Item : /\ row[i] \in [ts : Nat \cup {K!None}, draft : Nat \cup {K!None}]
                            /\ row[i].ts \in Nat \cup {K!None}
                            /\ row[i].draft \in Nat \cup {K!None}
         /\ cursor.value \in Nat \cup {K!None} /\ cursor.tie \in Item \cup {K!NoTie}
         /\ cursor.tie \in Nat
         /\ cycle.pc \in {"idle", "done", "fetch", "page"}
         /\ cycle.from.value \in Int /\ cycle.from.tie \in Nat
         /\ cycle.from \in [value : Int, tie : Item \cup {K!NoTie}]
         /\ cycle.page \in SUBSET K!Change /\ cycle.more \in BOOLEAN
         /\ cycle.stamp \in Nat \cup {K!None} /\ cycle.left \in 0..Latency
<1>1. \A i \in Item \cup {K!NoTie} : i \in Nat
  BY DEF K!KeysetParameters, K!NoTie
<1>2. config \in [lag : Nat, overlap : Nat, size : Nat \ {0}, iterable : BOOLEAN,
                  override : BOOLEAN]
  BY DEF K!KeysetParameters, K!TypeOK
<1>3. cursor.value \in Nat \cup {K!None} /\ cursor.tie \in Item \cup {K!NoTie}
  BY DEF K!TypeOK, K!Keyset
<1>4. /\ cycle.pc \in {"idle", "done", "fetch", "page"}
      /\ cycle.from \in [value : Int, tie : Item \cup {K!NoTie}]
      /\ cycle.page \in SUBSET K!Change /\ cycle.more \in BOOLEAN
      /\ cycle.stamp \in Nat \cup {K!None} /\ cycle.left \in 0..Latency
  BY DEF K!TypeOK
<1>5. cycle.from.value \in Int /\ cycle.from.tie \in Nat
  BY <1>4, <1>1
<1>6. /\ config.lag \in Nat /\ config.overlap \in Nat /\ config.size \in Nat
      /\ config.iterable \in BOOLEAN /\ config.override \in BOOLEAN
  BY <1>2
<1>7. moment \in Nat /\ \A i \in Item : row[i] \in [ts : Nat \cup {K!None}, draft : Nat \cup {K!None}]
  BY DEF K!TypeOK
<1>8. Delay \in Nat /\ Latency \in Nat /\ K!None = -1 /\ K!NoTie = 0
  BY DEF K!KeysetParameters, K!None, K!NoTie
<1> QED
  BY <1>1, <1>3, <1>4, <1>5, <1>6, <1>7, <1>8

(* advance() moves to the last item it keeps, if that lies ahead.          *)
LEMMA AdvanceMax ==
  ASSUME K!KeysetParameters, K!TypeOK, NEW page \in SUBSET K!Change, K!IsFiniteSet(page)
  PROVE  LET c == K!Advance(cursor, page, K!None) IN
           /\ c \in K!Keyset
           /\ \/ c = cursor
              \/ \E m \in K!Kept(page) :
                   /\ c = [value |-> m.ts, tie |-> m.id]
                   /\ m.ts > cursor.value \/ (m.ts = cursor.value /\ m.id > cursor.tie)
                   /\ \A y \in K!Kept(page) : y = m \/ K!Before(y, m)
<1>1. CASE K!Kept(page) = {}
  BY <1>1 DEF K!Advance, K!TypeOK
<1>2. CASE K!Kept(page) # {}
  <2> DEFINE Top(x) == \A y \in K!Kept(page) : y = x \/ K!Before(y, x)
             m == CHOOSE x \in K!Kept(page) : Top(x)
  <2>1. K!Kept(page) \in SUBSET page /\ K!Kept(page) \in SUBSET K!Change
    BY DEF K!Kept
  <2>2. K!IsFiniteSet(K!Kept(page))
    BY <2>1, FS_Subset, KeysetCounts
  <2>3. \E x \in K!Kept(page) : Top(x)
    BY <2>1, <2>2, <1>2, LastChange
  <2>4. m \in K!Kept(page) /\ Top(m)
    <3> HIDE DEF Top
    <3> QED
      BY <2>3
  <2>5. K!MaxOf(K!Kept(page)) = [value |-> m.ts, tie |-> m.id]
    BY DEF K!MaxOf
  <2> HIDE DEF m
  <2>6. m.ts \in Nat /\ m.id \in Item
    BY <2>4, <2>1, ChangeOrder
  <2>7. K!MaxOf(K!Kept(page)) \in K!Keyset /\ cursor \in K!Keyset
    BY <2>5, <2>6 DEF K!Keyset, K!TypeOK
  <2>8. K!Advance(cursor, page, K!None) =
          IF m.ts > cursor.value THEN K!MaxOf(K!Kept(page))
          ELSE IF m.ts = cursor.value /\ m.id > cursor.tie THEN K!MaxOf(K!Kept(page)) ELSE cursor
    BY <2>5, <1>2 DEF K!Advance
  <2> QED
    BY <2>4, <2>5, <2>7, <2>8
<1> QED
  BY <1>1, <1>2

(* A fetch() that pages by itself goes on behind the last item it had.     *)
LEMMA AfterLast ==
  ASSUME K!KeysetParameters, NEW page \in SUBSET K!Change, K!IsFiniteSet(page),
         NEW from \in [value : Int, tie : Item \cup {K!NoTie}]
  PROVE  /\ K!After(page, from) \in [value : Int, tie : Item \cup {K!NoTie}]
         /\ \A x \in K!Change : K!Asked(x, from) /\ (\A y \in page : K!Before(y, x))
              => K!Asked(x, K!After(page, from))
<1>1. CASE page = {}
  BY <1>1 DEF K!After
<1>2. CASE page # {}
  <2> DEFINE Top(x) == \A y \in page : y = x \/ K!Before(y, x)
             m == CHOOSE x \in page : Top(x)
  <2>1. \E x \in page : Top(x)
    BY <1>2, LastChange
  <2>2. m \in page
    <3> HIDE DEF Top
    <3> QED
      BY <2>1
  <2>3. K!After(page, from) = [value |-> m.ts, tie |-> m.id]
    BY <1>2 DEF K!After
  <2> HIDE DEF m
  <2>4. m.ts \in Nat /\ m.id \in Item
    BY <2>2, ChangeOrder
  <2> QED
    BY <2>2, <2>3, <2>4 DEF K!Asked, K!Before
<1> QED
  BY <1>1, <1>2

(* The range of the next cycle starts at the watermark or before it.       *)
LEMMA ForFetchType ==
  ASSUME K!KeysetParameters, K!TypeOK
  PROVE  /\ K!ForFetch(cursor) \in [value : Int, tie : Item \cup {K!NoTie}]
         /\ \A x \in K!Change : K!Asked(x, cursor) => K!Asked(x, K!ForFetch(cursor))
         /\ config.overlap > 0 => \A x \in K!Change :
              K!Asked(x, K!ForFetch(cursor)) <=>
                cursor.value = K!None \/ x.ts >= cursor.value - config.overlap
<1> USE KeysetTypes, ChangeOrder
<1>1. CASE config.overlap = 0 \/ cursor.value = K!None
  <2>1. K!ForFetch(cursor) = cursor
    BY <1>1 DEF K!ForFetch
  <2>2. cursor \in [value : Int, tie : Item \cup {K!NoTie}]
    BY DEF K!TypeOK, K!Keyset
  <2> QED
    BY <1>1, <2>1, <2>2 DEF K!Asked
<1>2. CASE config.overlap > 0 /\ cursor.value # K!None
  <2>1. K!ForFetch(cursor) = [value |-> cursor.value - config.overlap, tie |-> K!NoTie]
    BY <1>2 DEF K!ForFetch
  <2>2. K!ForFetch(cursor) \in [value : Int, tie : Item \cup {K!NoTie}]
    BY <1>2, <2>1
  <2> QED
    BY <1>2, <2>1, <2>2 DEF K!Asked
<1> QED
  BY <1>1, <1>2

(* What is not taken, and the rest of the state a step may leave alone.    *)
LEMMA PendingType ==
  ASSUME K!KeysetParameters, K!TypeOK
  PROVE  /\ K!Pending \subseteq K!Change /\ K!Pending \subseteq K!Committed
         /\ \A x \in K!Pending : x.id \in Item /\ x.ts = row[x.id].ts /\ x.ts \in Nat
BY CommittedType, ChangeOrder DEF K!Pending

(* A cycle starts from what the cursor asks for.                           *)
LEMMA StartKeeps ==
  ASSUME K!KeysetParameters, K!KeysetInv, K!Start
  PROVE  K!KeysetInv'
<1> USE KeysetTypes, PendingType DEF K!KeysetInv
<1>1. /\ moment' = moment /\ config' = config /\ row' = row /\ cursor' = cursor /\ taken' = taken
      /\ owed' = K!Kept(K!Committed)
      /\ cycle' = [pc |-> "fetch", from |-> K!ForFetch(cursor), page |-> {}, more |-> FALSE,
                   stamp |-> K!None, left |-> Latency]
  BY DEF K!Start, K!Rest
<1>2. /\ K!Committed' = K!Committed /\ K!Pending' = K!Pending /\ K!ForFetch(cursor)' = K!ForFetch(cursor)
      /\ K!Lagged(config)' = K!Lagged(config)
  BY <1>1 DEF K!Committed, K!Pending, K!ForFetch, K!Lagged
<1>3. K!Kept(K!Committed) \subseteq K!Committed /\ \A x \in K!Kept(K!Committed) : x.ts <= moment - config.lag
  BY DEF K!Kept
<1>4. K!TypeOK'
  <2>1. cycle' \in [pc : {"idle", "done", "fetch", "page"},
                    from : [value : Int, tie : Item \cup {K!NoTie}],
                    page : SUBSET K!Change, more : BOOLEAN, stamp : Nat \cup {K!None},
                    left : 0..Latency]
    BY <1>1, ForFetchType
  <2>2. taken' \cup owed' \subseteq K!Change
    BY <1>1, <1>3, CommittedType DEF K!TypeOK
  <2> QED
    BY <1>1, <2>1, <2>2 DEF K!TypeOK
<1>5. cycle'.pc = "fetch" /\ cycle'.from = K!ForFetch(cursor) /\ cycle'.page = {}
      /\ cycle'.more = FALSE /\ cycle'.stamp = K!None
  BY <1>1
<1>6. K!Clocked'
  BY <1>1, <1>2, <1>3, <1>5, FS_EmptySet, KeysetCounts DEF K!Clocked
<1>7. K!Reach'
  BY <1>1, <1>2 DEF K!Reach, K!Asked
<1>8. \A x \in K!Pending : K!Asked(x, K!ForFetch(cursor))
  BY ForFetchType DEF K!Reach
<1>9. K!Walk'
  <2>1. \A x \in K!Pending : K!Ahead(x)'
    BY <1>5, <1>8 DEF K!Ahead, K!Asked
  <2>2. owed' \ taken' \subseteq K!Pending
    BY <1>1, <1>3 DEF K!Pending
  <2> QED
    BY <1>1, <1>2, <1>3, <1>5, <2>1, <2>2 DEF K!Walk
<1> QED
  BY <1>4, <1>6, <1>7, <1>9

(* The API's page: what is asked for is on it, or behind it.               *)
LEMMA AnswerKeeps ==
  ASSUME K!KeysetParameters, K!Covered(config), K!KeysetInv, K!Answer
  PROVE  K!KeysetInv'
<1> USE KeysetTypes, PendingType DEF K!KeysetInv
<1> DEFINE from == cycle.from
           more == K!Cardinality(K!Listed(from)) > config.size
           stamp == IF config.override /\ ~more THEN moment ELSE K!None
<1>1. /\ moment' = moment /\ config' = config /\ row' = row /\ cursor' = cursor /\ taken' = taken
      /\ owed' = owed /\ cycle.pc = "fetch"
      /\ cycle' = [cycle EXCEPT !.pc = "page", !.page = K!PageOf(from), !.more = more,
                                !.stamp = stamp]
  BY KeysetCounts DEF K!Answer
<1>2. /\ K!Committed' = K!Committed /\ K!Pending' = K!Pending /\ K!ForFetch(cursor)' = K!ForFetch(cursor)
      /\ K!Lagged(config)' = K!Lagged(config)
  BY <1>1 DEF K!Committed, K!Pending, K!ForFetch, K!Lagged
<1>3. /\ more \in BOOLEAN /\ stamp \in Nat \cup {K!None}
      /\ stamp # K!None => config.override /\ ~more /\ stamp = moment
      /\ more <=> K!Cardinality(K!Listed(from)) > config.size
  OBVIOUS
<1> HIDE DEF more, stamp
<1>4. /\ K!PageOf(from) \subseteq K!Committed /\ K!IsFiniteSet(K!PageOf(from))
      /\ K!PageOf(from) \subseteq K!Change
  BY PageFirst, CommittedType
<1>5. /\ cycle' = [pc |-> "page", from |-> from, page |-> K!PageOf(from), more |-> more,
                   stamp |-> stamp, left |-> cycle.left]
  BY <1>1 DEF K!TypeOK
<1>6. /\ cycle'.pc = "page" /\ cycle'.from = from /\ cycle'.page = K!PageOf(from)
      /\ cycle'.more = more /\ cycle'.stamp = stamp /\ cycle'.left = cycle.left
  BY <1>5
<1>7. K!TypeOK'
  <2>1. cycle' \in [pc : {"idle", "done", "fetch", "page"},
                    from : [value : Int, tie : Item \cup {K!NoTie}],
                    page : SUBSET K!Change, more : BOOLEAN, stamp : Nat \cup {K!None},
                    left : 0..Latency]
    BY <1>3, <1>4, <1>5
  <2> QED
    BY <1>1, <2>1 DEF K!TypeOK
<1>8. K!Clocked'
  <2>1. \A x \in K!PageOf(from) : x.ts <= moment
    BY <1>4, CommittedType DEF K!Clocked
  <2> QED
    BY <1>1, <1>2, <1>3, <1>4, <1>6, <2>1, KeysetCounts DEF K!Clocked
<1>9. K!Reach'
  BY <1>1, <1>2 DEF K!Reach, K!Asked
<1>10. \A x \in K!Committed : K!Ahead(x) => K!Ahead(x)'
  <2>1. \A x \in K!Committed : K!Ahead(x) => K!Asked(x, from)
    BY <1>1 DEF K!Ahead
  <2>2. \A x \in K!Committed : K!Asked(x, from) =>
          x \in K!PageOf(from) \/ (more /\ \A y \in K!PageOf(from) : K!Before(y, x))
    BY <1>3, PageFirst
  <2> QED
    BY <1>6, <2>1, <2>2 DEF K!Ahead, K!Asked, K!Before
<1>11. more => K!Lagged(config) \/ config.iterable
  <2>1. K!Cardinality(K!Listed(from)) <= K!Cardinality(Item) /\ K!Cardinality(Item) \in Nat
    BY PageFirst, CommittedType
  <2>2. K!Cardinality(K!Listed(from)) \in Nat
    <3>1. K!Listed(from) \in SUBSET K!Committed
      BY DEF K!Listed
    <3> QED
      BY <3>1, CommittedType, FS_Subset, KeysetCounts, FS_CardinalityType
  <2> QED
    BY <1>3, <2>1, <2>2, KeysetCounts DEF K!Covered, K!Overlapped
<1>12. \A x \in K!Committed : K!Late(x) => K!Late(x)'
  BY <1>1, <1>6 DEF K!Late
<1>13. K!Walk'
  BY <1>1, <1>2, <1>6, <1>10, <1>11, <1>12 DEF K!Walk
<1> QED
  BY <1>7, <1>8, <1>9, <1>13

(* A cycle cut short leaves the cursor, and so the range, as it is.        *)
LEMMA CutKeeps ==
  ASSUME K!KeysetParameters, K!KeysetInv, K!Cut
  PROVE  K!KeysetInv'
<1> USE KeysetTypes, PendingType DEF K!KeysetInv
<1>1. /\ moment' = moment /\ config' = config /\ row' = row /\ cursor' = cursor /\ taken' = taken
      /\ owed' = {}
      /\ cycle' = [pc |-> "idle", from |-> cursor, page |-> {}, more |-> FALSE,
                   stamp |-> K!None, left |-> Latency]
  BY DEF K!Cut, K!Rest
<1>2. /\ K!Committed' = K!Committed /\ K!Pending' = K!Pending /\ K!ForFetch(cursor)' = K!ForFetch(cursor)
      /\ K!Lagged(config)' = K!Lagged(config)
  BY <1>1 DEF K!Committed, K!Pending, K!ForFetch, K!Lagged
<1>3. K!TypeOK'
  <2>1. cycle' \in [pc : {"idle", "done", "fetch", "page"},
                    from : [value : Int, tie : Item \cup {K!NoTie}],
                    page : SUBSET K!Change, more : BOOLEAN, stamp : Nat \cup {K!None},
                    left : 0..Latency]
    BY <1>1 DEF K!TypeOK, K!Keyset
  <2> QED
    BY <1>1, <2>1 DEF K!TypeOK
<1>4. cycle'.pc = "idle" /\ cycle'.page = {} /\ cycle'.more = FALSE /\ cycle'.stamp = K!None
  BY <1>1
<1>5. K!Clocked'
  BY <1>1, <1>2, <1>4, FS_EmptySet, KeysetCounts DEF K!Clocked
<1>6. K!Reach'
  BY <1>1, <1>2 DEF K!Reach, K!Asked
<1>7. K!Walk'
  BY <1>1, <1>4 DEF K!Walk, K!Ahead
<1> QED
  BY <1>3, <1>5, <1>6, <1>7

(* Time passes: a late change stays late for the cycle under way.          *)
LEMMA TickKeeps ==
  ASSUME K!KeysetParameters, K!KeysetInv, K!Tick
  PROVE  K!KeysetInv'
<1> USE KeysetTypes, PendingType DEF K!KeysetInv
<1>1. /\ moment' = moment + 1 /\ config' = config /\ row' = row /\ cursor' = cursor
      /\ taken' = taken /\ owed' = owed
      /\ \A i \in Item : row[i].draft = K!None \/ moment < row[i].draft + Delay
      /\ K!Resting \/ cycle.left > 0
      /\ cycle' = IF K!Resting THEN cycle ELSE [cycle EXCEPT !.left = cycle.left - 1]
  BY DEF K!Tick
<1>2. /\ K!Committed' = K!Committed /\ K!Pending' = K!Pending /\ K!ForFetch(cursor)' = K!ForFetch(cursor)
      /\ K!Lagged(config)' = K!Lagged(config)
  BY <1>1 DEF K!Committed, K!Pending, K!ForFetch, K!Lagged
<1>3. /\ cycle'.pc = cycle.pc /\ cycle'.from = cycle.from /\ cycle'.page = cycle.page
      /\ cycle'.more = cycle.more /\ cycle'.stamp = cycle.stamp
      /\ ~K!Resting => cycle'.left = cycle.left - 1
      /\ cycle' \in [pc : {"idle", "done", "fetch", "page"},
                     from : [value : Int, tie : Item \cup {K!NoTie}],
                     page : SUBSET K!Change, more : BOOLEAN, stamp : Nat \cup {K!None},
                     left : 0..Latency]
  BY <1>1 DEF K!TypeOK
<1>4. K!TypeOK'
  BY <1>1, <1>3 DEF K!TypeOK
<1>5. K!Clocked'
  <2>1. \A x \in owed : x.ts \in Nat
    BY ChangeOrder DEF K!TypeOK
  <2>2. \A x \in cycle.page : x.ts \in Nat
    BY ChangeOrder
  <2>3. \A x \in cycle'.page : x.ts <= moment'
    BY <1>1, <1>3, <2>2 DEF K!Clocked
  <2>4. \A x \in owed' : x.ts <= moment' - config'.lag
    BY <1>1, <2>1 DEF K!Clocked
  <2>5. \A i \in Item : /\ row'[i].ts <= moment' /\ row'[i].draft <= moment'
                        /\ row'[i].draft # K!None => moment' <= row'[i].draft + Delay
    BY <1>1 DEF K!Clocked
  <2>6. /\ cursor'.value <= moment'
        /\ K!Lagged(config)' => cursor'.value = K!None \/ cursor'.value <= moment' - config'.lag
        /\ cycle'.stamp # K!None => /\ config'.override /\ cycle'.pc = "page" /\ ~cycle'.more
                                    /\ cursor'.value <= cycle'.stamp /\ cycle'.stamp <= moment'
    BY <1>1, <1>2, <1>3 DEF K!Clocked
  <2>7. K!IsFiniteSet(cycle.page)' <=> K!IsFiniteSet(cycle.page)
    BY <1>3
  <2> QED
    BY <2>3, <2>4, <2>5, <2>6, <2>7, <1>3, KeysetCounts DEF K!Clocked
<1>6. K!Reach'
  BY <1>1, <1>2 DEF K!Reach, K!Asked
<1>7. \A x \in K!Change : K!Ahead(x) => K!Ahead(x)'
  BY <1>3 DEF K!Ahead, K!Asked, K!Before
<1>8. \A x \in K!Change : K!Late(x) => K!Late(x)' \/ K!Resting
  BY <1>1, <1>3, ChangeOrder DEF K!Late
<1>9. \A x \in K!Change : K!Resting => K!Ahead(x)'
  BY <1>3 DEF K!Ahead, K!Resting
<1>10. K!Walk'
  <2>1. owed \subseteq K!Change
    BY DEF K!TypeOK
  <2> QED
    BY <1>1, <1>2, <1>3, <1>7, <1>8, <1>9, <2>1 DEF K!Walk
<1> QED
  BY <1>4, <1>5, <1>6, <1>10

(* A transaction begins; nothing of it is listed.                          *)
LEMMA StampKeeps ==
  ASSUME K!KeysetParameters, K!KeysetInv, NEW i \in Item, K!Stamp(i)
  PROVE  K!KeysetInv'
<1> USE KeysetTypes, PendingType DEF K!KeysetInv
<1>1. /\ moment' = moment /\ config' = config /\ cursor' = cursor /\ cycle' = cycle
      /\ taken' = taken /\ owed' = owed
      /\ row' = [row EXCEPT ![i].draft = moment]
  BY DEF K!Stamp
<1>2. /\ row' \in [Item -> [ts : Nat \cup {K!None}, draft : Nat \cup {K!None}]]
      /\ \A j \in Item : row'[j].ts = row[j].ts
      /\ \A j \in Item : row'[j].draft = row[j].draft \/ row'[j].draft = moment
  BY <1>1 DEF K!TypeOK
<1>3. /\ K!Committed' = K!Committed /\ K!Pending' = K!Pending /\ K!ForFetch(cursor)' = K!ForFetch(cursor)
      /\ K!Lagged(config)' = K!Lagged(config)
  <2>1. K!Committed' = K!Committed
    BY <1>2 DEF K!Committed
  <2> QED
    BY <1>1, <2>1 DEF K!Pending, K!ForFetch, K!Lagged
<1>4. K!TypeOK'
  BY <1>1, <1>2 DEF K!TypeOK
<1>5. K!Clocked'
  BY <1>1, <1>2, <1>3 DEF K!Clocked
<1>6. K!Reach'
  BY <1>1, <1>3 DEF K!Reach, K!Asked
<1>7. K!Walk'
  BY <1>1, <1>3 DEF K!Walk, K!Ahead, K!Late, K!Asked, K!Before
<1> QED
  BY <1>4, <1>5, <1>6, <1>7

(* A change that commits is young: the next cycle asks for it.             *)
LEMMA CommitKeeps ==
  ASSUME K!KeysetParameters, K!Covered(config), K!KeysetInv, NEW i \in Item, K!CommitChange(i)
  PROVE  K!KeysetInv'
<1> USE KeysetTypes, PendingType DEF K!KeysetInv
<1> DEFINE ts == row[i].draft
           new == [id |-> i, ts |-> ts]
<1>1. /\ moment' = moment /\ config' = config /\ cursor' = cursor /\ cycle' = cycle
      /\ taken' = {x \in taken : x.id # i} /\ owed' = {x \in owed : x.id # i}
      /\ row' = [row EXCEPT ![i] = [ts |-> ts, draft |-> K!None]] /\ ts # K!None
  BY DEF K!CommitChange
<1>2. ts \in Nat /\ ts <= moment /\ moment <= ts + Delay
  BY <1>1 DEF K!Clocked
<1>3. /\ row' \in [Item -> [ts : Nat \cup {K!None}, draft : Nat \cup {K!None}]]
      /\ \A j \in Item : j # i => row'[j] = row[j]
      /\ row'[i].ts = ts /\ row'[i].draft = K!None
  BY <1>1, <1>2 DEF K!TypeOK
<1>4. new \in K!Change /\ new.ts = ts /\ new.id = i
  BY <1>2 DEF K!Change
<1> HIDE DEF new, ts
<1>5. K!Committed' = {x \in K!Committed : x.id # i} \cup {new}
  <2>1. ASSUME NEW x \in K!Committed' PROVE x \in {y \in K!Committed : y.id # i} \cup {new}
    BY <1>3, <1>4 DEF K!Committed, new
  <2>2. ASSUME NEW x \in K!Committed, x.id # i PROVE x \in K!Committed'
    BY <1>3, <2>2 DEF K!Committed
  <2>3. new \in K!Committed'
    BY <1>3, <1>2 DEF K!Committed, new
  <2> QED
    BY <2>1, <2>2, <2>3
<1>6. K!Pending' \subseteq K!Pending \cup {new}
  BY <1>1, <1>5 DEF K!Pending
<1>7. K!ForFetch(cursor)' = K!ForFetch(cursor) /\ K!Lagged(config)' = K!Lagged(config)
  BY <1>1 DEF K!ForFetch, K!Lagged
<1>8. K!TypeOK'
  BY <1>1, <1>3 DEF K!TypeOK
<1>9. K!Clocked'
  <2>1. \A j \in Item : /\ row'[j].ts <= moment' /\ row'[j].draft <= moment'
                        /\ row'[j].draft # K!None => moment' <= row'[j].draft + Delay
    BY <1>1, <1>2, <1>3 DEF K!Clocked
  <2> QED
    BY <1>1, <1>7, <2>1 DEF K!Clocked
<1>10. K!Late(new)
  BY <1>2, <1>4 DEF K!Late
<1>11. K!Asked(new, IF K!Lagged(config) THEN cursor ELSE K!ForFetch(cursor))
  <2>1. CASE K!Lagged(config)
    BY <2>1, <1>2, <1>4 DEF K!Lagged, K!Asked, K!Clocked
  <2>2. CASE ~K!Lagged(config)
    <3>1. config.overlap > 0 /\ config.overlap >= Delay + Latency
      BY <2>2 DEF K!Covered, K!Overlapped
    <3>2. cursor.value <= moment
      BY DEF K!Clocked
    <3> QED
      BY <2>2, <3>1, <3>2, <1>2, <1>4, ForFetchType
  <2> QED
    BY <2>1, <2>2
<1>12. K!Reach'
  BY <1>1, <1>6, <1>7, <1>11 DEF K!Reach, K!Asked
<1>13. K!Walk'
  <2>1. \A x : (K!Ahead(x) => K!Ahead(x)') /\ (K!Late(x) => K!Late(x)')
    BY <1>1 DEF K!Ahead, K!Late, K!Asked, K!Before
  <2>2. owed' \subseteq K!Committed'
    BY <1>1, <1>5 DEF K!Walk
  <2>3. owed' \ taken' \subseteq owed \ taken
    BY <1>1
  <2> QED
    BY <1>1, <1>6, <1>7, <1>10, <2>1, <2>2, <2>3 DEF K!Walk
<1> QED
  BY <1>8, <1>9, <1>12, <1>13

(* What reading a page does to the watermark, and what it hands on.        *)
LEMMA ReadAdvances ==
  ASSUME K!KeysetParameters, K!Covered(config), K!KeysetInv, K!Read
  PROVE  /\ cursor' \in K!Keyset /\ cursor'.value <= moment
         /\ K!Lagged(config) => cursor'.value = K!None \/ cursor'.value <= moment - config.lag
         /\ \/ cycle.stamp # K!None /\ ~K!Lagged(config) /\ cursor'.value = cycle.stamp
               /\ cursor.value <= cycle.stamp
            \/ cycle.stamp = K!None /\ cursor' = cursor
            \/ /\ cycle.stamp = K!None
               /\ \E m \in K!Kept(cycle.page) :
                    /\ cursor' = [value |-> m.ts, tie |-> m.id]
                    /\ m.ts > cursor.value \/ (m.ts = cursor.value /\ m.id > cursor.tie)
                    /\ \A y \in K!Kept(cycle.page) : y = m \/ K!Before(y, m)
<1> USE KeysetTypes DEF K!KeysetInv
<1>1. cursor' = K!Advance(cursor, cycle.page, cycle.stamp)
  BY DEF K!Read
<1>2. K!IsFiniteSet(cycle.page)
  BY KeysetCounts DEF K!Clocked
<1>3. CASE cycle.stamp # K!None
  <2>1. cursor' = [value |-> cycle.stamp, tie |-> K!NoTie]
    BY <1>1, <1>3 DEF K!Advance
  <2>2. cursor' \in K!Keyset /\ cursor'.value = cycle.stamp
    BY <2>1, <1>3 DEF K!Keyset
  <2>3. config.override /\ cursor.value <= cycle.stamp /\ cycle.stamp <= moment
    BY <1>3 DEF K!Clocked
  <2> QED
    BY <1>3, <2>2, <2>3 DEF K!Lagged
<1>4. CASE cycle.stamp = K!None
  <2>1. cursor' = K!Advance(cursor, cycle.page, K!None)
    BY <1>1, <1>4
  <2>2. /\ cursor' \in K!Keyset
        /\ \/ cursor' = cursor
           \/ \E m \in K!Kept(cycle.page) :
                /\ cursor' = [value |-> m.ts, tie |-> m.id]
                /\ m.ts > cursor.value \/ (m.ts = cursor.value /\ m.id > cursor.tie)
                /\ \A y \in K!Kept(cycle.page) : y = m \/ K!Before(y, m)
    BY <2>1, <1>2, AdvanceMax
  <2>3. \A m \in K!Kept(cycle.page) : m.ts <= moment /\ m.ts <= moment - config.lag
    BY DEF K!Kept, K!Clocked
  <2> QED
    BY <1>4, <2>2, <2>3 DEF K!Clocked
<1> QED
  BY <1>3, <1>4

(* A page that is read: what it does not hand on is asked for again, and   *)
(* by this cycle too, unless it is late.                                   *)
LEMMA ReadKeeps ==
  ASSUME K!KeysetParameters, K!Covered(config), K!KeysetInv, K!Read
  PROVE  K!KeysetInv'
<1> USE KeysetTypes, PendingType DEF K!KeysetInv
<1> DEFINE page == cycle.page
           from == cycle.from
           handed == IF cycle.stamp # K!None THEN page ELSE K!Kept(page)
<1>1. /\ moment' = moment /\ config' = config /\ row' = row /\ owed' = owed /\ cycle.pc = "page"
      /\ taken' = taken \cup (K!Committed \cap handed)
  BY DEF K!Read
<1>2. K!Committed' = K!Committed /\ K!Lagged(config)' = K!Lagged(config)
  BY <1>1 DEF K!Committed, K!Lagged
<1>3. K!Pending' = K!Pending \ handed
  BY <1>1, <1>2 DEF K!Pending
<1>4. handed \subseteq page /\ K!Kept(page) \subseteq handed /\ K!Kept(page) \subseteq page
  BY DEF K!Kept
<1>5. \A x \in page : x \in K!Change /\ x.ts \in Nat /\ x.ts <= moment
  BY ChangeOrder DEF K!Clocked
<1>6. \A x \in page : x \notin K!Kept(page) => x.ts > moment - config.lag
  BY <1>5 DEF K!Kept
<1>7. ~K!Lagged(config) => /\ config.overlap > 0 /\ config.overlap >= Delay + Latency
                           /\ config.lag = 0 /\ handed = page
  <2>1. ~K!Lagged(config) => /\ config.overlap > 0 /\ config.overlap >= Delay + Latency
                             /\ config.lag = 0
    BY DEF K!Covered, K!Overlapped
  <2>2. config.lag = 0 => \A x \in page : x \in K!Kept(page)
    BY <1>5, <1>6
  <2> HIDE DEF handed
  <2> QED
    BY <2>1, <2>2, <1>4
<1>8. K!Lagged(config) => cycle.stamp = K!None /\ handed = K!Kept(page) /\ ~config.iterable
  BY DEF K!Lagged, K!Clocked
<1> HIDE DEF handed
<1>9. cursor' \in K!Keyset /\ cursor'.value \in Nat \cup {K!None} /\ cursor'.tie \in Nat
  <2>1. cursor' \in K!Keyset
    BY ReadAdvances
  <2>2. cursor'.value \in Nat \cup {K!None} /\ cursor'.tie \in Item \cup {K!NoTie}
    BY <2>1 DEF K!Keyset
  <2>3. \A i \in Item \cup {K!NoTie} : i \in Nat
    BY DEF K!KeysetParameters
  <2> QED
    BY <2>1, <2>2, <2>3
<1>10. /\ cycle.more => cycle' = [cycle EXCEPT !.pc = "fetch", !.page = {},
                          !.from = IF config.iterable THEN K!After(page, from) ELSE cursor']
       /\ ~cycle.more => cycle' = [pc |-> "done", from |-> cursor', page |-> {},
                                   more |-> FALSE, stamp |-> K!None, left |-> Latency]
  BY DEF K!Read, K!Rest
<1>11. K!IsFiniteSet(page)
  BY KeysetCounts DEF K!Clocked
<1>12. /\ K!After(page, from) \in [value : Int, tie : Item \cup {K!NoTie}]
       /\ \A x \in K!Change : K!Asked(x, from) /\ (\A y \in page : K!Before(y, x))
            => K!Asked(x, K!After(page, from))
  BY <1>11, AfterLast
<1>13. /\ cycle' \in [pc : {"idle", "done", "fetch", "page"},
                      from : [value : Int, tie : Item \cup {K!NoTie}],
                      page : SUBSET K!Change, more : BOOLEAN, stamp : Nat \cup {K!None},
                      left : 0..Latency]
       /\ cycle'.page = {} /\ cycle'.pc = (IF cycle.more THEN "fetch" ELSE "done")
       /\ cycle'.more = cycle.more /\ cycle'.stamp = K!None
       /\ cycle.more => cycle'.left = cycle.left
       /\ cycle.more => cycle'.from = IF config.iterable THEN K!After(page, from) ELSE cursor'
  <2>1. cursor' \in [value : Int, tie : Item \cup {K!NoTie}]
    BY <1>9 DEF K!Keyset
  <2>2. cycle.more => cycle.stamp = K!None
    BY DEF K!Clocked
  <2>3. CASE cycle.more
    <3> DEFINE f == IF config.iterable THEN K!After(page, from) ELSE cursor'
    <3>1. f \in [value : Int, tie : Item \cup {K!NoTie}]
      BY <2>1, <1>12
    <3> HIDE DEF f
    <3>2. cycle' = [cycle EXCEPT !.pc = "fetch", !.page = {}, !.from = f]
      BY <2>3, <1>10 DEF f
    <3>3. cycle' = [pc |-> "fetch", from |-> f, page |-> {}, more |-> cycle.more,
                    stamp |-> cycle.stamp, left |-> cycle.left]
      BY <3>2 DEF K!TypeOK
    <3>4. cycle' \in [pc : {"idle", "done", "fetch", "page"},
                      from : [value : Int, tie : Item \cup {K!NoTie}],
                      page : SUBSET K!Change, more : BOOLEAN, stamp : Nat \cup {K!None},
                      left : 0..Latency]
      BY <3>1, <3>3
    <3>5. /\ cycle'.page = {} /\ cycle'.pc = "fetch" /\ cycle'.more = cycle.more
          /\ cycle'.stamp = cycle.stamp /\ cycle'.left = cycle.left /\ cycle'.from = f
      BY <3>3
    <3> QED
      BY <2>2, <2>3, <3>4, <3>5 DEF f
  <2>4. CASE cycle.more = FALSE
    <3>1. cycle' = [pc |-> "done", from |-> cursor', page |-> {}, more |-> FALSE,
                    stamp |-> K!None, left |-> Latency]
      BY <2>4, <1>10
    <3>2. cycle' \in [pc : {"idle", "done", "fetch", "page"},
                      from : [value : Int, tie : Item \cup {K!NoTie}],
                      page : SUBSET K!Change, more : BOOLEAN, stamp : Nat \cup {K!None},
                      left : 0..Latency]
      BY <2>1, <3>1
    <3>3. cycle'.page = {} /\ cycle'.pc = "done" /\ cycle'.more = FALSE /\ cycle'.stamp = K!None
      BY <3>1
    <3> QED
      BY <2>4, <3>2, <3>3
  <2> QED
    BY <2>3, <2>4
<1>14. K!TypeOK'
  <2>1. taken' \cup owed' \subseteq K!Change
    BY <1>1, CommittedType DEF K!TypeOK
  <2> QED
    BY <1>1, <1>9, <1>13, <2>1 DEF K!TypeOK
<1>15. K!Clocked'
  <2>1. /\ cursor'.value <= moment
        /\ K!Lagged(config) => cursor'.value = K!None \/ cursor'.value <= moment - config.lag
    BY ReadAdvances
  <2> QED
    BY <1>1, <1>2, <1>13, <2>1, FS_EmptySet, KeysetCounts DEF K!Clocked
<1>16. ASSUME NEW x \in K!Pending, K!Ahead(x) \/ K!Late(x)
       PROVE  \/ x \in page \/ K!Late(x)
              \/ cycle.more /\ K!Asked(x, from) /\ \A y \in page : K!Before(y, x)
  BY <1>1, <1>16 DEF K!Ahead
<1>17. ASSUME NEW x \in K!Pending \ handed
       PROVE  K!Asked(x, IF K!Lagged(config) THEN cursor' ELSE K!ForFetch(cursor)')
  <2>1. \/ x \in page \/ K!Late(x)
        \/ cycle.more /\ K!Asked(x, from) /\ \A y \in page : K!Before(y, x)
    BY <1>16 DEF K!Walk
  <2>2. K!Asked(x, IF K!Lagged(config) THEN cursor ELSE K!ForFetch(cursor))
    BY DEF K!Reach
  <2>3. x \in K!Change /\ x.ts \in Nat /\ x.id \in Nat
    BY ChangeOrder
  <2>4. K!Late(x) => x.ts >= moment - Latency - Delay
    BY <2>3 DEF K!Late
  <2>5. CASE K!Lagged(config)
    <3>1. \/ cursor' = cursor
          \/ \E m \in K!Kept(page) : cursor' = [value |-> m.ts, tie |-> m.id]
      BY ReadAdvances, <1>8, <2>5
    <3>2. ASSUME NEW m \in K!Kept(page), cursor' = [value |-> m.ts, tie |-> m.id]
          PROVE  K!Asked(x, cursor')
      <4>1. m \in page /\ m.ts <= moment - config.lag /\ m.ts \in Nat /\ m.id \in Nat
        BY <1>4, <1>5, ChangeOrder DEF K!Kept
      <4>2. x \in page => x.ts > moment - config.lag
        BY <1>6, <1>8, <2>5
      <4>3. K!Late(x) => x.ts > moment - config.lag
        BY <2>3, <2>4, <2>5 DEF K!Lagged
      <4> QED
        BY <2>1, <2>3, <3>2, <4>1, <4>2, <4>3 DEF K!Asked, K!Before
    <3> QED
      BY <2>2, <2>5, <3>1, <3>2
  <2>6. CASE ~K!Lagged(config)
    <3>1. config.overlap > 0 /\ config.overlap >= Delay + Latency /\ x \notin page
      BY <1>7, <2>6
    <3>2. K!Asked(x, K!ForFetch(cursor)') <=>
            cursor'.value = K!None \/ x.ts >= cursor'.value - config.overlap
      <4>1. K!ForFetch(cursor)' = IF cursor'.value = K!None THEN cursor'
                                ELSE [value |-> cursor'.value - config.overlap, tie |-> K!NoTie]
        BY <1>1, <3>1 DEF K!ForFetch
      <4>2. x.id \in Nat \ {0}
        BY <2>3, ChangeOrder
      <4> QED
        BY <1>9, <2>3, <3>1, <4>1, <4>2 DEF K!Asked
    <3>3. CASE K!Late(x)
      <4>1. cursor'.value <= moment
        BY ReadAdvances
      <4> QED
        BY <1>9, <2>3, <2>4, <2>6, <3>1, <3>2, <3>3, <4>1
    <3>4. CASE cycle.more /\ \A y \in page : K!Before(y, x)
      <4>1. cycle.stamp = K!None
        BY <3>4 DEF K!Clocked
      <4>2. \/ cursor' = cursor
            \/ \E m \in K!Kept(page) : cursor' = [value |-> m.ts, tie |-> m.id]
        BY <4>1, ReadAdvances
      <4>3. cursor.value = K!None \/ x.ts >= cursor.value - config.overlap
        BY <2>2, <2>3, <2>6, <3>1, ForFetchType
      <4>4. ASSUME NEW m \in K!Kept(page), cursor' = [value |-> m.ts, tie |-> m.id]
            PROVE  x.ts >= cursor'.value
        <5>1. m \in page /\ m.ts \in Nat /\ K!Before(m, x)
          BY <1>4, <1>5, <3>4
        <5> QED
          BY <2>3, <4>4, <5>1 DEF K!Before
      <4> QED
        BY <1>9, <2>3, <2>6, <3>1, <3>2, <4>2, <4>3, <4>4
    <3> QED
      BY <2>1, <3>1, <3>3, <3>4
  <2> QED
    BY <2>5, <2>6
<1>18. K!Reach'
  BY <1>2, <1>3, <1>17 DEF K!Reach, K!Asked
<1>19. ASSUME NEW x \in K!Pending \ handed, cycle.more, K!Asked(x, from),
              \A y \in page : K!Before(y, x)
       PROVE  K!Asked(x, cycle'.from)
  <2>1. CASE K!Lagged(config)
    BY <1>8, <1>13, <1>17, <1>19, <2>1
  <2>2. CASE ~K!Lagged(config)
    <3>1. config.iterable
      BY <1>19, <2>2 DEF K!Walk
    <3> QED
      BY <1>12, <1>13, <1>19, <3>1
  <2> QED
    BY <2>1, <2>2
<1>20. ASSUME NEW x \in K!Pending \ handed
       PROVE  K!Ahead(x)' \/ K!Late(x)'
  <2>1. CASE ~cycle.more
    BY <2>1, <1>13 DEF K!Ahead
  <2>2. CASE cycle.more /\ K!Lagged(config)
    <3>1. K!Asked(x, cycle'.from)
      BY <1>8, <1>13, <1>17, <2>2
    <3> QED
      BY <1>13, <2>2, <3>1 DEF K!Ahead, K!Asked
  <2>3. CASE cycle.more /\ ~K!Lagged(config)
    <3>1. \/ K!Late(x)
          \/ cycle.more /\ K!Asked(x, from) /\ \A y \in page : K!Before(y, x)
      BY <1>7, <1>16, <2>3 DEF K!Walk
    <3>2. K!Late(x) => K!Late(x)'
      BY <1>1, <1>13, <2>3 DEF K!Late
    <3>3. ~K!Late(x) => K!Asked(x, cycle'.from)
      BY <1>19, <3>1
    <3> QED
      BY <1>13, <2>3, <3>2, <3>3 DEF K!Ahead, K!Asked
  <2> QED
    BY <2>1, <2>2, <2>3
<1>21. ASSUME NEW x \in owed \ taken'
       PROVE  K!Ahead(x)' /\ cycle'.pc # "done"
  <2>1. x \in owed \ taken /\ x \in K!Committed /\ x \in K!Pending
    BY <1>1 DEF K!Walk, K!Pending
  <2>2. x \notin handed
    BY <1>1, <2>1
  <2>3. x \notin page
    <3>1. x.ts <= moment - config.lag
      BY <2>1 DEF K!Clocked
    <3> QED
      BY <1>4, <2>2, <3>1 DEF K!Kept
  <2>4. cycle.more /\ K!Asked(x, from) /\ \A y \in page : K!Before(y, x)
    BY <1>1, <2>1, <2>3 DEF K!Walk, K!Ahead
  <2>5. K!Asked(x, cycle'.from)
    BY <1>19, <2>1, <2>2, <2>4
  <2> QED
    BY <1>13, <2>4, <2>5 DEF K!Ahead, K!Asked
<1>22. K!Walk'
  BY <1>1, <1>2, <1>3, <1>13, <1>20, <1>21 DEF K!Walk
<1> QED
  BY <1>14, <1>15, <1>18, <1>22

(* The invariant at the start.                                             *)
LEMMA KeysetInvInit ==
  ASSUME K!KeysetParameters, K!Init
  PROVE  K!KeysetInv
<1>1. /\ moment = 0 /\ config \in Config /\ taken = {} /\ owed = {}
      /\ row = [i \in Item |-> [ts |-> K!None, draft |-> K!None]]
      /\ cursor = [value |-> K!None, tie |-> K!NoTie]
      /\ cycle = [pc |-> "idle", from |-> cursor, page |-> {}, more |-> FALSE,
                  stamp |-> K!None, left |-> Latency]
  BY DEF K!Init, K!Rest
<1>2. K!None = -1 /\ K!NoTie = 0 /\ Latency \in Nat /\ Delay \in Nat
  BY DEF K!None, K!NoTie, K!KeysetParameters
<1>3. K!TypeOK
  <2>1. cursor \in K!Keyset /\ cursor \in [value : Int, tie : Item \cup {K!NoTie}]
    BY <1>1, <1>2 DEF K!Keyset
  <2>2. cycle \in [pc : {"idle", "done", "fetch", "page"},
                   from : [value : Int, tie : Item \cup {K!NoTie}],
                   page : SUBSET K!Change, more : BOOLEAN, stamp : Nat \cup {K!None},
                   left : 0..Latency]
    BY <1>1, <1>2, <2>1
  <2> QED
    BY <1>1, <1>2, <2>1, <2>2 DEF K!TypeOK
<1>4. K!Committed = {}
  BY <1>1 DEF K!Committed
<1>5. /\ cursor.value = K!None /\ cycle.page = {} /\ cycle.stamp = K!None /\ cycle.more = FALSE
      /\ cycle.pc = "idle"
      /\ \A i \in Item : row[i].ts = K!None /\ row[i].draft = K!None
  BY <1>1
<1>6. K!Clocked
  BY <1>1, <1>2, <1>5, FS_EmptySet, KeysetCounts DEF K!Clocked
<1>7. K!Reach /\ K!Walk
  BY <1>1, <1>4, <1>5 DEF K!Reach, K!Walk, K!Pending
<1> QED
  BY <1>3, <1>6, <1>7 DEF K!KeysetInv

(* Every step keeps the invariant.                                         *)
LEMMA KeysetInvStep ==
  ASSUME K!KeysetParameters, \A c \in Config : K!Covered(c), K!KeysetInv, [K!Next]_(K!vars)
  PROVE  K!KeysetInv'
<1>1. K!Covered(config)
  BY DEF K!KeysetInv, K!TypeOK
<1>2. CASE UNCHANGED K!vars
  <2>1. /\ moment' = moment /\ config' = config /\ row' = row /\ cursor' = cursor /\ cycle' = cycle
        /\ taken' = taken /\ owed' = owed
    BY <1>2 DEF K!vars
  <2>2. /\ K!Committed' = K!Committed /\ K!Pending' = K!Pending /\ K!ForFetch(cursor)' = K!ForFetch(cursor)
        /\ K!Lagged(config)' = K!Lagged(config)
    BY <2>1 DEF K!Committed, K!Pending, K!ForFetch, K!Lagged
  <2>3. K!TypeOK' /\ K!Clocked' /\ K!Reach'
    BY <2>1, <2>2 DEF K!KeysetInv, K!TypeOK, K!Clocked, K!Reach, K!Asked
  <2>4. K!Walk'
    BY <2>1, <2>2 DEF K!KeysetInv, K!Walk, K!Ahead, K!Late, K!Asked, K!Before
  <2> QED
    BY <2>3, <2>4 DEF K!KeysetInv
<1>3. CASE K!Next
  BY <1>1, <1>3, StartKeeps, AnswerKeeps, ReadKeeps, CutKeeps, TickKeeps, StampKeeps,
     CommitKeeps DEF K!Next
<1> QED
  BY <1>2, <1>3

(* What the invariant says of a resting poller and of a whole cycle.       *)
LEMMA KeysetInvSound ==
  ASSUME K!KeysetParameters, K!KeysetInv
  PROVE  K!TypeOK /\ K!NoneSkipped /\ K!CaughtUp
<1>1. K!TypeOK
  BY DEF K!KeysetInv
<1>2. K!NoneSkipped
  <2>1. ASSUME NEW x \in K!Committed \ taken PROVE K!Asked(x, K!ForFetch(cursor))
    <3>1. x \in K!Pending /\ x \in K!Change
      BY <1>1, PendingType DEF K!Pending
    <3>2. K!Asked(x, IF K!Lagged(config) THEN cursor ELSE K!ForFetch(cursor))
      BY <3>1 DEF K!KeysetInv, K!Reach
    <3> QED
      BY <1>1, <3>1, <3>2, ForFetchType
  <2> QED
    BY <2>1 DEF K!NoneSkipped
<1>3. K!CaughtUp
  BY DEF K!CaughtUp, K!KeysetInv, K!Walk
<1> QED
  BY <1>1, <1>2, <1>3

(* No step takes the watermark back.                                       *)
LEMMA WatermarkStep ==
  ASSUME K!KeysetParameters, K!Covered(config), K!KeysetInv, K!Next
  PROVE  \/ cursor'.value > cursor.value
         \/ cursor'.value = cursor.value /\ (cursor'.tie >= cursor.tie \/ cycle.stamp # K!None)
<1> USE KeysetTypes DEF K!KeysetInv
<1>1. CASE K!Read
  <2>1. CASE cursor' = cursor
    BY <2>1
  <2>2. CASE cycle.stamp # K!None /\ cursor'.value = cycle.stamp /\ cursor.value <= cycle.stamp
    BY <2>2
  <2>3. CASE \E m \in K!Kept(cycle.page) :
               /\ cursor' = [value |-> m.ts, tie |-> m.id]
               /\ m.ts > cursor.value \/ (m.ts = cursor.value /\ m.id > cursor.tie)
    <3>1. PICK m \in K!Kept(cycle.page) :
               /\ cursor' = [value |-> m.ts, tie |-> m.id]
               /\ m.ts > cursor.value \/ (m.ts = cursor.value /\ m.id > cursor.tie)
      BY <2>3
    <3>2. m \in K!Change /\ m.ts \in Nat /\ m.id \in Nat
      BY ChangeOrder DEF K!Kept
    <3> QED
      BY <3>1, <3>2
  <2> QED
    BY <1>1, <2>1, <2>2, <2>3, ReadAdvances
<1>2. CASE cursor' = cursor
  BY <1>2
<1> QED
  BY <1>1, <1>2 DEF K!Next, K!Start, K!Answer, K!Cut, K!Tick, K!Stamp, K!CommitChange

(* A poller whose lag or overlap covers the longest transaction and the    *)
(* longest cycle skips no change, catches up in a whole cycle, and keeps   *)
(* its watermark from going back (advance, forFetch, runCycle).            *)
THEOREM KeysetKept ==
  ASSUME K!KeysetParameters, \A c \in Config : K!Covered(c)
  PROVE  K!Spec => KeysetSound
<1>1. K!Init => K!KeysetInv
  BY KeysetInvInit
<1>2. K!KeysetInv /\ [K!Next]_(K!vars) => K!KeysetInv'
  BY KeysetInvStep
<1>3. K!KeysetInv => K!TypeOK /\ K!NoneSkipped /\ K!CaughtUp
  BY KeysetInvSound
<1>4. K!KeysetInv /\ [K!Next]_(K!vars) =>
        [\/ cursor'.value > cursor.value
         \/ cursor'.value = cursor.value /\ (cursor'.tie >= cursor.tie \/ cycle.stamp # K!None)]_(K!vars)
  <2>1. K!KeysetInv => K!Covered(config)
    BY DEF K!KeysetInv, K!TypeOK
  <2> QED
    BY <2>1, WatermarkStep
<1> QED
  BY <1>1, <1>2, <1>3, <1>4, PTL DEF K!Spec, KeysetSound, K!KeysetSound, K!WatermarkForward

-----------------------------------------------------------------------------
(* IdentityStream *)

(* The part counts as its surroundings do.                                 *)
LEMMA StreamCounts ==
  ASSUME NEW S
  PROVE  I!Cardinality(S) = Cardinality(S) /\ (I!IsFiniteSet(S) <=> IsFiniteSet(S))
BY DEF I!Cardinality, Cardinality, I!IsFiniteSet, IsFiniteSet

(* A page in order: its identities, none twice, and its last is the        *)
(* largest.                                                                *)
LEMMA PageInOrder ==
  ASSUME I!StreamParameters, NEW S \in SUBSET Ident, NEW q, q = I!InOrder(S)
  PROVE  /\ q \in Seq(Ident) /\ I!IsInjective(q) /\ I!ToSet(q) = S
         /\ S # {} => I!Last(q) \in S /\ \A x \in S : x <= I!Last(q)
<1>1. PICK n : n = I!Cardinality(S)
  OBVIOUS
<1>2. I!IsFiniteSet(S) /\ S \subseteq Nat
  BY FS_Subset, StreamCounts DEF I!StreamParameters
<1>3. n \in Nat /\ \E p \in [1..n -> S] : \A i, j \in 1..n : i < j => p[i] < p[j]
  BY <1>1, <1>2, Sortable, StreamCounts
<1>4. \E p \in [1..n -> S] : \A i, j \in DOMAIN p : i < j => p[i] < p[j]
  BY <1>3
<1>5. q \in [1..n -> S] /\ \A i, j \in DOMAIN q : i < j => q[i] < q[j]
  BY <1>1, <1>4 DEF I!InOrder
<1>6. DOMAIN q = 1..n /\ \A i \in 1..n : q[i] \in S /\ q[i] \in Nat
  BY <1>2, <1>5
<1>7. q \in Seq(Ident) /\ Len(q) = n
  BY <1>3, <1>5
<1>8. ASSUME NEW i \in 1..n, NEW j \in 1..n, q[i] = q[j] PROVE i = j
  <2>1. ~(i < j) /\ ~(j < i)
    BY <1>5, <1>6, <1>8
  <2> QED
    BY <2>1
<1>9. I!IsInjective(q)
  BY <1>6, <1>8 DEF I!IsInjective
<1>10. {q[i] : i \in 1..n} = S
  <2>1. \A i, j \in 1..n : q[i] = q[j] => i = j
    BY <1>8
  <2>2. I!IsFiniteSet(S) /\ n = I!Cardinality(S) /\ q \in [1..n -> S]
    BY <1>1, <1>2, <1>5
  <2>3. n \in Nat
    BY <1>3
  <2> QED
    BY ONLY <2>1, <2>2, <2>3, ReachesAll, StreamCounts
<1>11. I!ToSet(q) = S
  BY <1>6, <1>10 DEF I!ToSet
<1>12. ASSUME S # {} PROVE I!Last(q) \in S /\ \A x \in S : x <= I!Last(q)
  <2>1. n \in 1..n
    <3>1. n # 0
      BY <1>10, <1>12
    <3> QED
      BY <1>3, <3>1
  <2>2. I!Last(q) = q[n]
    BY <1>7 DEF I!Last
  <2>3. ASSUME NEW i \in 1..n PROVE q[i] <= q[n]
    <3>1. i < n \/ i = n
      BY <1>3
    <3>2. q[i] \in Nat /\ q[n] \in Nat
      BY <1>6, <2>1
    <3>3. i < n => q[i] < q[n]
      BY <1>5, <1>6, <2>1
    <3> QED
      BY <3>1, <3>2, <3>3
  <2> QED
    BY <1>6, <1>10, <2>1, <2>2, <2>3
<1> QED
  BY <1>7, <1>9, <1>11, <1>12

(* The first n of a set come before the others, and are all of it when     *)
(* they are fewer than n.                                                  *)
LEMMA FirstOnes ==
  ASSUME I!StreamParameters, NEW S \in SUBSET Ident, NEW n \in Nat \ {0}, NEW F, F = I!First(S, n)
  PROVE  /\ F \subseteq S /\ \A x \in S \ F : \A y \in F : y < x
         /\ I!Cardinality(F) < n => F = S
         /\ ~(I!Cardinality(F) < n) => F # {}
<1>1. I!IsFiniteSet(S) /\ S \subseteq Nat
  BY FS_Subset, StreamCounts DEF I!StreamParameters
<1>2. PICK m : m = I!Cardinality(S)
  OBVIOUS
<1>3. m \in Nat /\ \E p \in [1..m -> S] : \A i, j \in 1..m : i < j => p[i] < p[j]
  BY <1>1, <1>2, Sortable, StreamCounts
<1>4. PICK p \in [1..m -> S] : \A i, j \in 1..m : i < j => p[i] < p[j]
  BY <1>3
<1>5. \A i \in 1..m : p[i] \in S /\ p[i] \in Nat
  BY <1>1, <1>4
<1>6. ASSUME NEW i \in 1..m, NEW j \in 1..m, p[i] = p[j] PROVE i = j
  <2>1. ~(i < j) /\ ~(j < i)
    BY <1>4, <1>5, <1>6
  <2> QED
    BY <2>1
<1>7. S = {p[i] : i \in 1..m}
  <2>1. \A i, j \in 1..m : p[i] = p[j] => i = j
    BY <1>6
  <2>2. I!IsFiniteSet(S) /\ m = I!Cardinality(S) /\ p \in [1..m -> S]
    BY <1>1, <1>2, <1>4
  <2> QED
    BY <1>3, <2>1, <2>2, ReachesAll, StreamCounts
<1>8. Lists(p, m, S)
  <2>1. p \in [1..m -> Nat]
    BY <1>1, <1>4
  <2> QED
    BY <1>3, <1>4, <1>7, <2>1 DEF Lists
<1>9. ASSUME NEW i \in 1..m PROVE I!Cardinality({x \in S : x < p[i]}) = i - 1
  BY <1>3, <1>8, PlaceCounts, StreamCounts
<1>10. F = {x \in S : I!Cardinality({y \in S : y < x}) < n}
  BY DEF I!First
<1>11. \A i \in 1..m : p[i] \in F <=> i <= n
  <2>1. \A i \in 1..m : i - 1 < n <=> i <= n
    OBVIOUS
  <2>2. \A i \in 1..m : p[i] \in F <=> i - 1 < n
    BY <1>5, <1>9, <1>10
  <2> QED
    BY <2>1, <2>2
<1>12. F \subseteq S
  BY <1>10
<1>13. ASSUME NEW x \in S \ F, NEW y \in F PROVE y < x
  <2>1. PICK i \in 1..m : x = p[i]
    BY <1>7
  <2>2. PICK j \in 1..m : y = p[j]
    BY <1>7, <1>12
  <2>3. j <= n /\ ~(i <= n)
    BY <1>11, <2>1, <2>2
  <2>4. j < i
    BY <2>3
  <2> QED
    BY <1>4, <2>1, <2>2, <2>4
<1>14. ASSUME F # S PROVE ~(I!Cardinality(F) < n)
  <2>1. PICK x \in S : x \notin F
    BY <1>12, <1>14
  <2>2. PICK i \in 1..m : x = p[i]
    BY <1>7
  <2>3. ~(i <= n)
    BY <1>11, <2>1, <2>2
  <2>4. n <= m /\ \A j \in 1..n : j \in 1..m
    BY <1>3, <2>3
  <2>5. PICK f : f = [j \in 1..n |-> p[j]]
    OBVIOUS
  <2>6. f \in [1..n -> F]
    BY <1>11, <2>4, <2>5
  <2>7. \A j, k \in 1..n : f[j] = f[k] => j = k
    BY <1>6, <2>4, <2>5
  <2>8. \A y \in F : \E j \in 1..n : f[j] = y
    <3>1. ASSUME NEW y \in F PROVE \E j \in 1..n : f[j] = y
      <4>1. PICK j \in 1..m : y = p[j]
        BY <1>7, <1>12
      <4>2. j <= n
        BY <1>11, <4>1
      <4>3. j \in 1..n
        BY <4>2
      <4> QED
        BY <2>5, <4>1, <4>3
    <3> QED
      BY <3>1
  <2>9. ExistsBijection(1..n, F)
    BY <2>6, <2>7, <2>8 DEF ExistsBijection, Bijection, Injection, Surjection, IsInjective
  <2>10. I!Cardinality(F) = n
    BY <2>9, FS_CountingElements, StreamCounts
  <2> QED
    BY <2>10
<1>15. ASSUME ~(I!Cardinality(F) < n) PROVE F # {}
  <2>1. I!Cardinality({}) = 0
    BY FS_EmptySet, StreamCounts
  <2> QED
    BY <1>15, <2>1
<1> QED
  BY <1>12, <1>13, <1>14, <1>15

(* A batch is added to what has been yielded, and nothing twice when       *)
(* nothing of it has been yielded before.                                  *)
LEMMA Yields ==
  ASSUME NEW s \in Seq(Ident), NEW p \in Seq(Ident), I!IsInjective(s), I!IsInjective(p),
         I!ToSet(s) \cap I!ToSet(p) = {}, NEW t, t = s \o p
  PROVE  t \in Seq(Ident) /\ I!IsInjective(t) /\ I!ToSet(t) = I!ToSet(s) \cup I!ToSet(p)
<1>1. PICK m : m = Len(s)
  OBVIOUS
<1>2. PICK n : n = Len(p)
  OBVIOUS
<1>3. m \in Nat /\ n \in Nat /\ t \in Seq(Ident) /\ Len(t) = m + n
  BY <1>1, <1>2, Concatenation
<1>4. DOMAIN t = 1..(m + n) /\ DOMAIN s = 1..m /\ DOMAIN p = 1..n
  BY <1>1, <1>2, <1>3
<1>5. \A i \in 1..m : t[i] = s[i] /\ i \in 1..(m + n)
  BY <1>1, <1>2, Concatenation
<1>6. \A i \in 1..n : t[m + i] = p[i] /\ m + i \in 1..(m + n)
  BY <1>1, <1>2, Concatenation
<1>7. ASSUME NEW i \in 1..(m + n), ~(i \in 1..m) PROVE \E j \in 1..n : i = m + j
  <2>1. i - m \in 1..n /\ i = m + (i - m)
    BY <1>3, <1>7
  <2> QED
    BY <2>1
<1>8. I!ToSet(s) = {s[i] : i \in 1..m} /\ I!ToSet(p) = {p[i] : i \in 1..n} /\ I!ToSet(t) = {t[i] : i \in 1..(m + n)}
  BY <1>4 DEF I!ToSet
<1>9. I!ToSet(t) = I!ToSet(s) \cup I!ToSet(p)
  <2>1. ASSUME NEW x \in I!ToSet(t) PROVE x \in I!ToSet(s) \cup I!ToSet(p)
    <3>1. PICK i \in 1..(m + n) : x = t[i]
      BY <1>4 DEF I!ToSet
    <3>2. CASE i \in 1..m
      BY <1>4, <1>5, <3>1, <3>2 DEF I!ToSet
    <3>3. ASSUME NEW j \in 1..n, i = m + j PROVE x \in I!ToSet(p)
      BY <1>4, <1>6, <3>1, <3>3 DEF I!ToSet
    <3> QED
      BY <1>7, <3>2, <3>3
  <2>2. ASSUME NEW x \in I!ToSet(s) PROVE x \in I!ToSet(t)
    BY <1>4, <1>5 DEF I!ToSet
  <2>3. ASSUME NEW x \in I!ToSet(p) PROVE x \in I!ToSet(t)
    BY <1>4, <1>6 DEF I!ToSet
  <2> QED
    BY <2>1, <2>2, <2>3
<1>10. ASSUME NEW i \in 1..(m + n), NEW j \in 1..(m + n), t[i] = t[j] PROVE i = j
  <2>1. \A k, l \in 1..m : s[k] = s[l] => k = l
    BY <1>4 DEF I!IsInjective
  <2>2. \A k, l \in 1..n : p[k] = p[l] => k = l
    BY <1>4 DEF I!IsInjective
  <2>3. \A k \in 1..m : \A l \in 1..n : s[k] # p[l]
    BY <1>8
  <2>4. CASE i \in 1..m
    <3>1. CASE j \in 1..m
      BY <1>5, <1>10, <2>1, <2>4, <3>1
    <3>2. ASSUME NEW l \in 1..n, j = m + l PROVE FALSE
      BY <1>5, <1>6, <1>10, <2>3, <2>4, <3>2
    <3> QED
      BY <1>7, <3>1, <3>2
  <2>5. ASSUME NEW k \in 1..n, i = m + k PROVE i = j
    <3>1. CASE j \in 1..m
      BY <1>5, <1>6, <1>10, <2>3, <2>5, <3>1
    <3>2. ASSUME NEW l \in 1..n, j = m + l PROVE k = l
      BY <1>6, <1>10, <2>2, <2>5, <3>2
    <3> QED
      BY <1>7, <2>5, <3>1, <3>2
  <2> QED
    BY <1>7, <2>4, <2>5
<1>11. I!IsInjective(t)
  BY <1>4, <1>10 DEF I!IsInjective
<1> QED
  BY <1>3, <1>9, <1>11

-----------------------------------------------------------------------------
(* What a reading starts with.                                             *)
LEMMA IdleReader ==
  /\ I!Idle \in I!Reader /\ I!Idle.pc = "idle" /\ I!Idle.yielded = << >> /\ I!Idle.missing = {}
  /\ I!Idle.unread = {} /\ I!Idle.rows = {}
  /\ I!ToSet(<< >>) = {} /\ I!IsInjective(<< >>)
<1>1. I!Idle \in I!Reader /\ I!Idle.pc = "idle" /\ I!Idle.yielded = << >> /\ I!Idle.missing = {}
      /\ I!Idle.unread = {} /\ I!Idle.rows = {}
  BY DEF I!Idle, I!Reader
<1>2. I!ToSet(<< >>) = {} /\ I!IsInjective(<< >>)
  BY DEF I!ToSet, I!IsInjective
<1> QED
  BY <1>1, <1>2

(* A batch that is yielded and compared with the listing.                  *)
LEMMA BatchYields ==
  ASSUME I!StreamParameters, I!StreamInv, reader.pc = "stream", NEW S \in SUBSET ever,
         S \cap I!Yielded = {}, NEW b, b = I!Batch(I!InOrder(S))
  PROVE  /\ b \in I!Reader /\ b.pc = "stream" /\ b.after = reader.after /\ b.todo = reader.todo
         /\ b.scanned = reader.scanned /\ b.unread = reader.unread /\ b.rows = {}
         /\ I!IsInjective(b.yielded) /\ I!ToSet(b.yielded) = I!Yielded \cup S
         /\ b.missing = (I!Yielded \cup S) \ listing
<1>1. I!TypeOK /\ I!StreamExact /\ I!Compared
  BY DEF I!StreamInv
<1>2. PICK c \in I!Reader : c = reader
  BY <1>1 DEF I!TypeOK
<1>3. S \in SUBSET Ident
  BY <1>1 DEF I!TypeOK
<1>4. PICK q : q = I!InOrder(S)
  OBVIOUS
<1>5. q \in Seq(Ident) /\ I!IsInjective(q) /\ I!ToSet(q) = S
  BY <1>3, <1>4, PageInOrder
<1>6. c.yielded \in Seq(Ident) /\ I!IsInjective(c.yielded) /\ I!ToSet(c.yielded) = I!Yielded
  BY <1>1, <1>2 DEF I!Reader, I!StreamExact, I!Yielded
<1>7. PICK t : t = c.yielded \o q
  OBVIOUS
<1>8. t \in Seq(Ident) /\ I!IsInjective(t) /\ I!ToSet(t) = I!Yielded \cup S
  BY <1>5, <1>6, <1>7, Yields
<1>9. PICK m : m = c.missing \cup (S \ listing)
  OBVIOUS
<1>10. m \in SUBSET Ident /\ m = (I!Yielded \cup S) \ listing /\ c.rows = {}
  BY <1>1, <1>2, <1>3, <1>9 DEF I!Reader, I!Compared
<1>11. b = [c EXCEPT !.yielded = t, !.missing = m]
  BY <1>2, <1>4, <1>5, <1>7, <1>9 DEF I!Batch
<1>12. /\ b \in I!Reader /\ b.pc = c.pc /\ b.after = c.after /\ b.todo = c.todo
       /\ b.scanned = c.scanned /\ b.unread = c.unread /\ b.rows = c.rows
       /\ b.yielded = t /\ b.missing = m
  BY <1>2, <1>8, <1>10, <1>11 DEF I!Reader
<1> QED
  BY <1>2, <1>8, <1>10, <1>12

(* The reader that loads the versions next.                                *)
LEMMA StreamedReader ==
  ASSUME NEW r \in I!Reader, NEW s, s = I!Streamed(r)
  PROVE  /\ s \in I!Reader /\ s.pc = "load" /\ s.unread = r.missing /\ s.missing = r.missing
         /\ s.yielded = r.yielded /\ s.rows = r.rows
BY DEF I!Streamed, I!Reader

(* A page, whatever the store: it goes on, or it was the last one.         *)
LEMMA PageKeeps ==
  ASSUME I!StreamParameters, I!StreamInv, reader.pc = "stream",
         UNCHANGED <<store, snapshot, listing, lost, stable, ever, writes>>,
         NEW S \in SUBSET ever, NEW r, r = reader', r \in I!Reader, I!IsInjective(r.yielded),
         I!ToSet(r.yielded) = I!Yielded \cup S, r.missing = (I!Yielded \cup S) \ listing,
         r.rows = {},
         \/ r.pc = "stream" /\ r.unread = reader.unread /\ I!Positioned'
         \/ r.pc = "load" /\ r.unread = r.missing /\ stable \subseteq I!Yielded \cup S
  PROVE  I!StreamInv'
<1>1. I!TypeOK /\ I!StreamExact /\ I!Compared /\ I!Between
  BY DEF I!StreamInv
<1>2. I!Yielded' = I!Yielded \cup S
  BY DEF I!Yielded
<1>3. I!TypeOK'
  BY <1>1 DEF I!TypeOK
<1>4. I!StreamExact'
  <2>1. I!ToSet(reader.yielded) \subseteq ever
    BY <1>1 DEF I!StreamExact
  <2> QED
    BY <2>1 DEF I!StreamExact, I!Yielded
<1>5. I!Positioned'
  BY DEF I!Positioned
<1>6. I!Compared'
  <2>1. reader.unread \subseteq (I!Yielded \cup S) \ listing
    BY <1>1 DEF I!Compared
  <2> QED
    BY <1>2, <2>1 DEF I!Compared
<1>7. I!Between'
  BY <1>1 DEF I!Between, I!Reading
<1> QED
  BY <1>3, <1>4, <1>5, <1>6, <1>7 DEF I!StreamInv

(* A page of SQL starts behind the last one.                               *)
LEMMA SqlPageKeeps ==
  ASSUME I!StreamParameters, I!StreamInv, I!SqlPage
  PROVE  I!StreamInv'
<1>1. I!TypeOK /\ I!Positioned /\ I!Between
  BY DEF I!StreamInv
<1>2. PICK T : T = {i \in snapshot : i > reader.after}
  OBVIOUS
<1>3. PICK S : S = I!First(T, Size)
  OBVIOUS
<1>4. PICK b : b = I!Batch(I!InOrder(S))
  OBVIOUS
<1>5. /\ reader.pc = "stream" /\ store = "sql"
      /\ UNCHANGED <<store, snapshot, listing, lost, stable, ever, writes>>
      /\ reader' = IF I!Cardinality(S) < Size THEN I!Streamed(b)
                   ELSE [b EXCEPT !.after = I!Last(I!InOrder(S))]
  BY <1>2, <1>3, <1>4 DEF I!SqlPage
<1>6. T \in SUBSET Ident /\ Size \in Nat \ {0}
  BY <1>1, <1>2 DEF I!TypeOK, I!StreamParameters
<1>7. /\ S \subseteq T /\ \A x \in T \ S : \A y \in S : y < x
      /\ I!Cardinality(S) < Size => S = T
      /\ ~(I!Cardinality(S) < Size) => S # {}
  BY <1>3, <1>6, FirstOnes
<1>8. /\ \A x \in I!Yielded : x <= reader.after
      /\ \A x \in stable : x <= reader.after => x \in I!Yielded
      /\ stable \subseteq snapshot /\ snapshot \subseteq ever
  BY <1>1, <1>5 DEF I!Positioned, I!Between, I!Reading
<1>9. reader.after \in Int /\ Ident \subseteq Nat /\ snapshot \subseteq Ident /\ stable \subseteq Ident
      /\ I!Yielded \subseteq Ident
  <2>1. I!Yielded \subseteq ever
    BY DEF I!StreamInv, I!StreamExact, I!Yielded
  <2> QED
    BY <1>1, <2>1 DEF I!TypeOK, I!Reader, I!Start, I!StreamParameters
<1>10. S \in SUBSET ever /\ S \in SUBSET Ident
  BY <1>2, <1>7, <1>8, <1>9
<1>11. S \cap I!Yielded = {}
  <2>1. ASSUME NEW x \in S, x \in I!Yielded PROVE FALSE
    <3>1. x > reader.after /\ x <= reader.after /\ x \in Nat
      BY <1>2, <1>7, <1>8, <1>9, <2>1
    <3> QED
      BY <1>9, <3>1
  <2> QED
    BY <2>1
<1>12. /\ b \in I!Reader /\ b.pc = "stream" /\ b.unread = reader.unread /\ b.rows = {}
       /\ I!IsInjective(b.yielded) /\ I!ToSet(b.yielded) = I!Yielded \cup S
       /\ b.missing = (I!Yielded \cup S) \ listing
  BY <1>4, <1>5, <1>10, <1>11, BatchYields
<1>13. CASE I!Cardinality(S) < Size
  <2>1. PICK r : r = reader'
    OBVIOUS
  <2>2. /\ r \in I!Reader /\ r.pc = "load" /\ r.unread = b.missing /\ r.missing = b.missing
        /\ r.yielded = b.yielded /\ r.rows = b.rows
    BY <1>5, <1>12, <1>13, <2>1, StreamedReader
  <2>3. stable \subseteq I!Yielded \cup S
    <3>1. ASSUME NEW x \in stable, x \notin I!Yielded PROVE x \in S
      <4>1. ~(x <= reader.after) /\ x \in Nat
        BY <1>8, <1>9, <3>1
      <4>2. x > reader.after
        BY <1>9, <4>1
      <4> QED
        BY <1>2, <1>7, <1>8, <1>13, <4>2
    <3> QED
      BY <3>1
  <2> QED
    BY <1>5, <1>10, <1>12, <2>1, <2>2, <2>3, PageKeeps
<1>14. CASE ~(I!Cardinality(S) < Size)
  <2>1. PICK w : w = I!Last(I!InOrder(S))
    OBVIOUS
  <2>2. w \in S /\ \A x \in S : x <= w
    BY <1>7, <1>10, <1>14, <2>1, PageInOrder
  <2>3. w \in Nat /\ w > reader.after
    BY <1>2, <1>7, <1>9, <1>10, <2>2
  <2>4. PICK r : r = reader'
    OBVIOUS
  <2>5. r = [b EXCEPT !.after = w]
    BY <1>5, <1>14, <2>1, <2>4
  <2>6. /\ r \in I!Reader /\ r.pc = b.pc /\ r.after = w /\ r.unread = b.unread /\ r.rows = b.rows
        /\ r.yielded = b.yielded /\ r.missing = b.missing
    BY <1>12, <2>3, <2>5 DEF I!Reader
  <2>7. \A x \in I!Yielded \cup S : x <= w
    <3>1. ASSUME NEW x \in I!Yielded PROVE x <= w
      <4>1. x <= reader.after /\ x \in Nat
        BY <1>8, <1>9
      <4> QED
        BY <1>9, <2>3, <4>1
    <3> QED
      BY <2>2, <3>1
  <2>8. ASSUME NEW x \in stable, x <= w PROVE x \in I!Yielded \cup S
    <3>1. x \in Nat /\ x \in snapshot
      BY <1>8, <1>9
    <3>2. CASE x <= reader.after
      BY <1>8, <3>2
    <3>3. CASE ~(x <= reader.after)
      <4>1. x \in T
        BY <1>2, <1>9, <3>1, <3>3
      <4>2. x \notin S => w < x
        BY <1>7, <2>2, <4>1
      <4> QED
        BY <2>3, <2>8, <3>1, <4>2
    <3> QED
      BY <3>2, <3>3
  <2>9. I!Positioned'
    BY <1>5, <1>12, <2>4, <2>6, <2>7, <2>8 DEF I!Positioned, I!Yielded
  <2> QED
    BY <1>5, <1>10, <1>12, <2>4, <2>6, <2>9, PageKeeps
<1> QED
  BY <1>13, <1>14

(* A slice of the copy, which is what was there when the stream began.     *)
LEMMA MemoryPageKeeps ==
  ASSUME I!StreamParameters, I!StreamInv, I!MemoryPage
  PROVE  I!StreamInv'
<1>1. I!TypeOK /\ I!Positioned
  BY DEF I!StreamInv
<1>2. PICK S : S = I!First(reader.todo, Size)
  OBVIOUS
<1>3. PICK b : b = I!Batch(I!InOrder(S))
  OBVIOUS
<1>4. PICK n : n = [b EXCEPT !.todo = @ \ S]
  OBVIOUS
<1>5. /\ reader.pc = "stream" /\ store = "memory"
      /\ UNCHANGED <<store, snapshot, listing, lost, stable, ever, writes>>
      /\ reader' = IF n.todo = {} THEN I!Streamed(n) ELSE n
  BY <1>2, <1>3, <1>4 DEF I!MemoryPage
<1>6. reader.todo \in SUBSET Ident /\ Size \in Nat \ {0}
  BY <1>1 DEF I!TypeOK, I!Reader, I!StreamParameters
<1>7. S \subseteq reader.todo
  BY <1>2, <1>6, FirstOnes
<1>8. reader.todo \subseteq ever \ I!Yielded /\ stable \subseteq I!Yielded \cup reader.todo
  BY <1>1, <1>5 DEF I!Positioned
<1>9. S \in SUBSET ever /\ S \cap I!Yielded = {}
  BY <1>7, <1>8
<1>10. /\ b \in I!Reader /\ b.pc = "stream" /\ b.unread = reader.unread /\ b.rows = {}
       /\ I!IsInjective(b.yielded) /\ I!ToSet(b.yielded) = I!Yielded \cup S /\ b.todo = reader.todo
       /\ b.missing = (I!Yielded \cup S) \ listing
  BY <1>3, <1>5, <1>9, BatchYields
<1>11. /\ n \in I!Reader /\ n.pc = b.pc /\ n.unread = b.unread /\ n.rows = b.rows
       /\ n.yielded = b.yielded /\ n.missing = b.missing /\ n.todo = reader.todo \ S
  BY <1>4, <1>10 DEF I!Reader
<1>12. PICK r : r = reader'
  OBVIOUS
<1>13. CASE n.todo = {}
  <2>1. /\ r \in I!Reader /\ r.pc = "load" /\ r.unread = n.missing /\ r.missing = n.missing
        /\ r.yielded = n.yielded /\ r.rows = n.rows
    BY <1>5, <1>11, <1>12, <1>13, StreamedReader
  <2>2. stable \subseteq I!Yielded \cup S
    BY <1>8, <1>11, <1>13
  <2> QED
    BY <1>5, <1>9, <1>10, <1>11, <1>12, <2>1, <2>2, PageKeeps
<1>14. CASE n.todo # {}
  <2>1. r = n
    BY <1>5, <1>12, <1>14
  <2>2. I!Positioned'
    BY <1>5, <1>8, <1>10, <1>11, <1>12, <2>1 DEF I!Positioned, I!Yielded
  <2> QED
    BY <1>5, <1>9, <1>10, <1>11, <1>12, <2>1, <2>2, PageKeeps
<1> QED
  BY <1>13, <1>14

(* Fields of HSCAN: those seen before are not yielded again.               *)
LEMMA ScanPageKeeps ==
  ASSUME I!StreamParameters, I!StreamInv, NEW fields \in SUBSET ever, NEW last \in BOOLEAN,
         I!ScanPage(fields, last)
  PROVE  I!StreamInv'
<1>1. I!TypeOK /\ I!Positioned
  BY DEF I!StreamInv
<1>2. PICK S : S = fields \ reader.scanned
  OBVIOUS
<1>3. PICK b : b = I!Batch(I!InOrder(S))
  OBVIOUS
<1>4. PICK n : n = [b EXCEPT !.scanned = @ \cup fields]
  OBVIOUS
<1>5. /\ reader.pc = "stream" /\ store = "redis" /\ (last => stable \subseteq n.scanned)
      /\ UNCHANGED <<store, snapshot, listing, lost, stable, ever, writes>>
      /\ reader' = IF last THEN I!Streamed(n) ELSE n
  BY <1>2, <1>3, <1>4 DEF I!ScanPage
<1>6. I!Yielded = reader.scanned /\ fields \subseteq Ident
  BY <1>1, <1>5 DEF I!Positioned, I!TypeOK
<1>7. S \in SUBSET ever /\ S \cap I!Yielded = {}
  BY <1>2, <1>6
<1>8. /\ b \in I!Reader /\ b.pc = "stream" /\ b.unread = reader.unread /\ b.rows = {}
      /\ I!IsInjective(b.yielded) /\ I!ToSet(b.yielded) = I!Yielded \cup S /\ b.scanned = reader.scanned
      /\ b.missing = (I!Yielded \cup S) \ listing
  BY <1>3, <1>5, <1>7, BatchYields
<1>9. /\ n \in I!Reader /\ n.pc = b.pc /\ n.unread = b.unread /\ n.rows = b.rows
      /\ n.yielded = b.yielded /\ n.missing = b.missing /\ n.scanned = reader.scanned \cup fields
  BY <1>4, <1>6, <1>8 DEF I!Reader
<1>10. I!Yielded \cup S = n.scanned
  BY <1>2, <1>6, <1>9
<1>11. PICK r : r = reader'
  OBVIOUS
<1>12. CASE last
  <2>1. /\ r \in I!Reader /\ r.pc = "load" /\ r.unread = n.missing /\ r.missing = n.missing
        /\ r.yielded = n.yielded /\ r.rows = n.rows
    BY <1>5, <1>9, <1>11, <1>12, StreamedReader
  <2> QED
    BY <1>5, <1>7, <1>8, <1>9, <1>10, <1>11, <1>12, <2>1, PageKeeps
<1>13. CASE ~last
  <2>1. r = n
    BY <1>5, <1>11, <1>13
  <2>2. I!Positioned'
    BY <1>5, <1>8, <1>9, <1>10, <1>11, <2>1 DEF I!Positioned, I!Yielded
  <2> QED
    BY <1>5, <1>7, <1>8, <1>9, <1>11, <2>1, <2>2, PageKeeps
<1> QED
  BY <1>12, <1>13

(* A reading begins, or is given up.                                       *)
LEMMA BeginFailKeep ==
  ASSUME I!StreamParameters, I!StreamInv, I!Begin \/ I!Fail
  PROVE  I!StreamInv'
<1>1. I!TypeOK /\ I!StreamExact /\ I!Between
  BY DEF I!StreamInv
<1>2. PICK d : d = I!Idle
  OBVIOUS
<1>3. /\ d \in I!Reader /\ d.pc = "idle" /\ d.yielded = << >> /\ d.missing = {}
      /\ d.unread = {} /\ d.rows = {} /\ I!ToSet(<< >>) = {} /\ I!IsInjective(<< >>)
  BY <1>2, IdleReader
<1>4. PICK r : r = reader'
  OBVIOUS
<1>5. CASE I!Begin
  <2>1. PICK todo : todo = IF store = "memory" THEN snapshot ELSE {}
    OBVIOUS
  <2>2. /\ r = [d EXCEPT !.pc = "stream", !.todo = todo] /\ stable' = snapshot /\ ever' = snapshot
        /\ UNCHANGED <<store, snapshot, listing, lost, writes>>
    BY <1>2, <1>4, <1>5, <2>1 DEF I!Begin
  <2>3. todo \in SUBSET Ident /\ snapshot \subseteq Ident
    BY <1>1, <2>1 DEF I!TypeOK
  <2>4. /\ r \in I!Reader /\ r.pc = "stream" /\ r.todo = todo /\ r.yielded = << >> /\ r.missing = {}
        /\ r.unread = {} /\ r.rows = {} /\ r.after = d.after /\ r.scanned = d.scanned
    BY <1>3, <2>2, <2>3 DEF I!Reader
  <2>5. I!Yielded' = {}
    BY <1>3, <1>4, <2>4 DEF I!Yielded
  <2>6. I!TypeOK'
    BY <1>1, <1>4, <2>2, <2>3, <2>4 DEF I!TypeOK
  <2>7. I!StreamExact'
    BY <1>3, <1>4, <2>4 DEF I!StreamExact
  <2>8. I!Positioned'
    <3>1. d.after = 0 - 1 /\ d.scanned = {}
      BY <1>2 DEF I!Idle, I!Start
    <3>2. ASSUME NEW x \in snapshot PROVE ~(x <= 0 - 1)
      <4>1. x \in Nat
        BY <2>3 DEF I!StreamParameters
      <4> QED
        BY <4>1
    <3> QED
      BY <1>4, <2>1, <2>2, <2>4, <2>5, <3>1, <3>2 DEF I!Positioned
  <2>9. I!Compared'
    BY <1>4, <2>4, <2>5 DEF I!Compared
  <2>10. I!Between'
    BY <1>4, <2>2, <2>4 DEF I!Between
  <2> QED
    BY <2>6, <2>7, <2>8, <2>9, <2>10 DEF I!StreamInv
<1>6. CASE I!Fail
  <2>1. r = d /\ lost' = FALSE /\ UNCHANGED <<store, snapshot, listing, stable, ever, writes>>
    BY <1>2, <1>4, <1>6 DEF I!Fail
  <2>2. I!Yielded' = {}
    BY <1>3, <1>4, <2>1 DEF I!Yielded
  <2>3. I!TypeOK'
    BY <1>1, <1>3, <1>4, <2>1 DEF I!TypeOK
  <2>4. I!StreamExact'
    BY <1>3, <1>4, <2>1 DEF I!StreamExact
  <2>5. I!Positioned' /\ I!Compared'
    BY <1>3, <1>4, <2>1, <2>2 DEF I!Positioned, I!Compared
  <2>6. I!Between'
    BY <1>1, <1>3, <1>4, <2>1 DEF I!Between, I!Reading
  <2> QED
    BY <2>3, <2>4, <2>5, <2>6 DEF I!StreamInv
<1> QED
  BY <1>5, <1>6

(* The versions of a chunk.                                                *)
LEMMA LoadChunkKeeps ==
  ASSUME I!StreamParameters, I!StreamInv, I!LoadChunk
  PROVE  I!StreamInv'
<1>1. I!TypeOK /\ I!StreamExact /\ I!Compared /\ I!Between
  BY DEF I!StreamInv
<1>2. PICK c \in I!Reader : c = reader
  BY <1>1 DEF I!TypeOK
<1>3. PICK ids : ids = IF store = "sql" THEN I!First(c.unread, Chunk) ELSE c.unread
  OBVIOUS
<1>4. PICK r : r = reader'
  OBVIOUS
<1>5. /\ c.pc = "load" /\ UNCHANGED <<store, snapshot, listing, lost, stable, ever, writes>>
      /\ r = [c EXCEPT !.unread = @ \ ids, !.rows = @ \cup (ids \cap snapshot)]
  BY <1>2, <1>3, <1>4 DEF I!LoadChunk
<1>6. c.unread \in SUBSET Ident /\ c.missing \in SUBSET Ident /\ c.rows \in SUBSET Ident
      /\ c.unread \subseteq c.missing /\ c.rows \subseteq c.missing
  BY <1>1, <1>2 DEF I!Reader, I!Compared, I!TypeOK
<1>7. ids \subseteq c.unread
  <2>1. I!First(c.unread, Chunk) \subseteq c.unread
    BY DEF I!First
  <2> QED
    BY <1>3, <2>1
<1>8. ids \in SUBSET Ident
  BY <1>6, <1>7
<1>9. /\ r \in I!Reader /\ r.pc = c.pc /\ r.yielded = c.yielded /\ r.missing = c.missing
      /\ r.unread = c.unread \ ids /\ r.rows = c.rows \cup (ids \cap snapshot)
  BY <1>5, <1>6, <1>8 DEF I!Reader
<1>10. I!Yielded' = I!Yielded
  BY <1>2, <1>4, <1>9 DEF I!Yielded
<1>11. I!TypeOK'
  BY <1>1, <1>4, <1>5, <1>6, <1>7, <1>9 DEF I!TypeOK
<1>12. I!StreamExact' /\ I!Positioned'
  BY <1>1, <1>2, <1>4, <1>5, <1>9 DEF I!StreamExact, I!Positioned
<1>13. I!Compared'
  <2>1. ASSUME writes = 0 PROVE r.rows = r.missing \ r.unread
    <3>1. stable = ever /\ stable \subseteq snapshot /\ c.rows = c.missing \ c.unread
      BY <1>1, <1>2, <1>5, <2>1 DEF I!Between, I!Reading, I!Compared
    <3>2. c.missing \subseteq ever
      BY <1>1, <1>2 DEF I!Compared, I!StreamExact, I!Yielded
    <3>3. ids \subseteq snapshot
      BY <1>6, <1>7, <3>1, <3>2
    <3> QED
      BY <1>6, <1>7, <1>9, <3>1, <3>3
  <2> QED
    BY <1>1, <1>2, <1>4, <1>5, <1>9, <1>10, <2>1 DEF I!Compared
<1>14. I!Between'
  BY <1>1, <1>2, <1>4, <1>5, <1>9 DEF I!Between, I!Reading
<1> QED
  BY <1>11, <1>12, <1>13, <1>14 DEF I!StreamInv

(* The deletions are committed.                                            *)
LEMMA DeletesKeep ==
  ASSUME I!StreamParameters, I!StreamInv, I!Commit
  PROVE  I!StreamInv'
<1>1. I!TypeOK /\ I!StreamExact /\ I!Compared /\ I!Between
  BY DEF I!StreamInv
<1>2. PICK c \in I!Reader : c = reader
  BY <1>1 DEF I!TypeOK
<1>3. PICK r : r = reader'
  OBVIOUS
<1>4. /\ c.pc = "load" /\ c.unread = {} /\ UNCHANGED <<store, listing, lost, stable, ever, writes>>
      /\ r = [c EXCEPT !.pc = "done"] /\ snapshot' = snapshot \ c.missing
  BY <1>2, <1>3 DEF I!Commit
<1>5. /\ r \in I!Reader /\ r.pc = "done" /\ r.yielded = c.yielded /\ r.missing = c.missing
      /\ r.unread = c.unread /\ r.rows = c.rows
  BY <1>4 DEF I!Reader
<1>6. I!Yielded' = I!Yielded
  BY <1>2, <1>3, <1>5 DEF I!Yielded
<1>7. I!TypeOK'
  BY <1>1, <1>2, <1>3, <1>4, <1>5 DEF I!TypeOK
<1>8. I!StreamExact' /\ I!Positioned'
  BY <1>1, <1>2, <1>3, <1>4, <1>5 DEF I!StreamExact, I!Positioned
<1>9. I!Compared'
  BY <1>1, <1>2, <1>3, <1>4, <1>5, <1>6 DEF I!Compared
<1>10. I!Between'
  BY <1>1, <1>2, <1>3, <1>4, <1>5 DEF I!Between, I!Reading
<1> QED
  BY <1>7, <1>8, <1>9, <1>10 DEF I!StreamInv

(* Others write, between two steps of the reading.                         *)
LEMMA WriteKeeps ==
  ASSUME I!StreamParameters, I!StreamInv, NEW new \in SUBSET Ident, I!Write(new),
  lost' \in BOOLEAN
  PROVE  I!StreamInv'
<1>1. I!TypeOK /\ I!StreamExact /\ I!Positioned /\ I!Compared /\ I!Between
  BY DEF I!StreamInv
<1>2. /\ writes < MaxWrites /\ writes' = writes + 1 /\ snapshot' = new
      /\ stable' = stable \cap new /\ ever' = ever \cup new /\ UNCHANGED <<store, listing, reader>>
  BY DEF I!Write
<1>3. writes \in Nat /\ MaxWrites \in Nat /\ writes' # 0 /\ writes' \in 0..MaxWrites
  BY <1>1, <1>2 DEF I!TypeOK, I!StreamParameters
<1>4. I!Yielded' = I!Yielded
  BY <1>2 DEF I!Yielded
<1>5. I!TypeOK'
  BY <1>1, <1>2, <1>3 DEF I!TypeOK
<1>6. I!StreamExact' /\ I!Positioned' /\ I!Compared' /\ I!Between'
  BY <1>1, <1>2, <1>3, <1>4 DEF I!StreamExact, I!Positioned, I!Compared, I!Between, I!Reading
<1> QED
  BY <1>5, <1>6 DEF I!StreamInv

-----------------------------------------------------------------------------
(* Every step keeps the strengthening.                                     *)
LEMMA StreamInvKept ==
  ASSUME I!StreamParameters, I!StreamInv, [I!Next]_(I!vars)
  PROVE  I!StreamInv'
<1>1. CASE I!Begin \/ I!Fail
  BY <1>1, BeginFailKeep
<1>2. CASE I!SqlPage \/ I!MemoryPage
  BY <1>2, SqlPageKeeps, MemoryPageKeeps
<1>3. CASE \E fields \in SUBSET ever, last \in BOOLEAN : I!ScanPage(fields, last)
  BY <1>3, ScanPageKeeps
<1>4. CASE I!LoadChunk \/ I!Commit
  BY <1>4, LoadChunkKeeps, DeletesKeep
<1>5. ASSUME NEW new \in SUBSET Ident, I!TakeOver(new) PROVE I!StreamInv'
  BY <1>5, WriteKeeps DEF I!TakeOver
<1>6. CASE I!Clear
  <2>1. {} \in SUBSET Ident /\ lost' \in BOOLEAN
    BY <1>6 DEF I!Clear, I!StreamInv, I!TypeOK
  <2> QED
    BY <1>6, <2>1, WriteKeeps DEF I!Clear
<1>7. CASE UNCHANGED I!vars
  <2>1. UNCHANGED <<store, snapshot, listing, reader, lost, stable, ever, writes>>
    BY <1>7 DEF I!vars
  <2>2. I!TypeOK' /\ I!StreamExact' /\ I!Yielded' = I!Yielded
    BY <2>1 DEF I!StreamInv, I!TypeOK, I!StreamExact, I!Yielded
  <2>3. I!Positioned' /\ I!Compared' /\ I!Between'
    BY <2>1, <2>2 DEF I!StreamInv, I!Positioned, I!Compared, I!Between, I!Reading
  <2> QED
    BY <2>2, <2>3 DEF I!StreamInv
<1> QED
  BY <1>1, <1>2, <1>3, <1>4, <1>5, <1>6, <1>7 DEF I!Next

(* The end of a scan streams every identity that is there throughout, none *)
(* twice and none that never was, in pages of any size of every store and  *)
(* whatever is written between them; and unless others wrote, the deletion *)
(* leaves what the scan saw (streamIdentities, loadVersions, runCycle).    *)
THEOREM StreamKept ==
  ASSUME I!StreamParameters
  PROVE  I!Spec => []StreamSound
<1>1. I!Init => I!StreamInv
  <2>1. ASSUME I!Init PROVE I!StreamInv
    <3>1. PICK d : d = I!Idle
      OBVIOUS
    <3>2. /\ d \in I!Reader /\ d.pc = "idle" /\ d.yielded = << >> /\ d.missing = {}
          /\ d.unread = {} /\ d.rows = {} /\ I!ToSet(<< >>) = {} /\ I!IsInjective(<< >>)
      BY <3>1, IdleReader
    <3>3. reader = d /\ I!Yielded = {} /\ stable = {} /\ ever = {}
      BY <2>1, <3>1, <3>2 DEF I!Init, I!Yielded
    <3>4. I!TypeOK
      <4>1. reader \in I!Reader /\ reader.rows \subseteq reader.missing
        BY <3>2, <3>3
      <4>2. 0 \in 0..MaxWrites
        BY DEF I!StreamParameters
      <4> QED
        BY <2>1, <3>3, <4>1, <4>2 DEF I!Init, I!TypeOK
    <3>5. I!StreamExact /\ I!Positioned /\ I!Compared /\ I!Between
      BY <3>2, <3>3 DEF I!StreamExact, I!Positioned, I!Compared, I!Between, I!Reading
    <3> QED
      BY <3>4, <3>5 DEF I!StreamInv
  <2> QED
    BY <2>1
<1>2. I!StreamInv /\ [I!Next]_(I!vars) => I!StreamInv'
  BY StreamInvKept
<1>3. I!StreamInv => I!StreamSound
  <2>1. ASSUME I!StreamInv PROVE I!DeletesExact
    BY <2>1 DEF I!StreamInv, I!StreamExact, I!Compared, I!Between, I!DeletesExact, I!Yielded
  <2> QED
    BY <2>1 DEF I!StreamInv, I!StreamSound
<1> QED
  BY <1>1, <1>2, <1>3, PTL DEF I!Spec, StreamSound

-----------------------------------------------------------------------------
(* Replay *)

(* The part counts as its surroundings do.                                 *)
LEMMA ReplayCounts ==
  ASSUME NEW S
  PROVE  R!Cardinality(S) = Cardinality(S) /\ (R!IsFiniteSet(S) <=> IsFiniteSet(S))
BY DEF R!Cardinality, Cardinality, R!IsFiniteSet, IsFiniteSet

(* What the steps of replay() leave of its own variables.                  *)
LEMMA RetryFields ==
  ASSUME NEW r \in R!CallRecord, NEW s, s = [r EXCEPT !.tries = @ + 1]
  PROVE  /\ s \in R!CallRecord /\ s.pc = r.pc
         /\ s.after = r.after /\ s.page = r.page /\ s.threw = r.threw
BY DEF R!CallRecord

(* The fields of a call that throws.                                     *)
LEMMA ThrowFields ==
  ASSUME NEW r \in R!CallRecord, NEW s, s = [r EXCEPT !.pc = "finally", !.threw = TRUE]
  PROVE  /\ s \in R!CallRecord /\ s.pc = "finally" /\ s.epoch = r.epoch /\ s.from = r.from
         /\ s.to = r.to /\ s.after = r.after /\ s.page = r.page /\ s.threw
BY DEF R!CallRecord

(* The state a call begins with, and the one it answers with.              *)
LEMMA FreshCalls ==
  ASSUME R!ReplayParameters
  PROVE  /\ R!NoCall \in R!CallRecord
         /\ \A threw \in BOOLEAN :
              /\ R!Answered(threw) \in R!CallRecord /\ R!Answered(threw).pc = "answered"
              /\ R!Answered(threw).threw = threw /\ R!Answered(threw).page = << >>
         /\ \A from, to \in Time :
              LET s == [R!NoCall EXCEPT !.pc = "acquire", !.from = from, !.to = to]
              IN /\ s \in R!CallRecord /\ s.pc = "acquire" /\ s.after = 0 /\ s.page = << >>
                 /\ ~s.threw
<1>1. R!NoCall \in R!CallRecord /\ R!NoCall.after = 0 /\ R!NoCall.page = << >> /\ R!NoCall.threw = FALSE
  BY DEF R!NoCall, R!CallRecord, R!ReplayParameters
<1>2. PICK r : r = R!NoCall
  OBVIOUS
<1>3. ASSUME NEW threw \in BOOLEAN, NEW s, s = [r EXCEPT !.pc = "answered", !.threw = threw]
      PROVE  s \in R!CallRecord /\ s.pc = "answered" /\ s.threw = threw /\ s.page = r.page
  BY <1>1, <1>2, <1>3 DEF R!CallRecord
<1>4. ASSUME NEW from \in Nat, NEW to \in Nat,
             NEW s, s = [r EXCEPT !.pc = "acquire", !.from = from, !.to = to]
      PROVE  s \in R!CallRecord /\ s.pc = "acquire" /\ s.after = r.after /\ s.page = r.page /\ s.threw = r.threw
  BY <1>1, <1>2, <1>4 DEF R!CallRecord
<1>5. \A threw \in BOOLEAN :
        /\ R!Answered(threw) \in R!CallRecord /\ R!Answered(threw).pc = "answered"
        /\ R!Answered(threw).threw = threw /\ R!Answered(threw).page = << >>
  BY <1>1, <1>2, <1>3 DEF R!Answered
<1>6. ASSUME NEW from \in Time, NEW to \in Time
      PROVE  LET s == [R!NoCall EXCEPT !.pc = "acquire", !.from = from, !.to = to]
             IN /\ s \in R!CallRecord /\ s.pc = "acquire" /\ s.after = 0 /\ s.page = << >>
                /\ ~s.threw
  <2>1. from \in Nat /\ to \in Nat
    BY DEF R!ReplayParameters
  <2>2. PICK s : s = [R!NoCall EXCEPT !.pc = "acquire", !.from = from, !.to = to]
    OBVIOUS
  <2>3. s \in R!CallRecord /\ s.pc = "acquire" /\ s.after = 0 /\ s.page = << >> /\ s.threw = FALSE
    <3>1. s = [r EXCEPT !.pc = "acquire", !.from = from, !.to = to]
      BY <1>2, <2>2
    <3>2. /\ s \in R!CallRecord /\ s.pc = "acquire" /\ s.after = r.after /\ s.page = r.page
          /\ s.threw = r.threw
      BY <1>4, <2>1, <3>1
    <3> QED
      BY <1>1, <1>2, <3>2
  <2> QED
    BY <2>2, <2>3
<1> QED
  BY <1>1, <1>5, <1>6

-----------------------------------------------------------------------------
(* The log *)

(* Entries of the log in the order of their sequences.                     *)
LEMMA Ordered ==
  ASSUME R!TypeOK, R!Numbered, NEW S \in SUBSET log, NEW q, q = R!InOrder(S)
  PROVE  /\ q \in Seq(R!Entry) /\ \A i, j \in 1..Len(q) : i < j => q[i].sequence < q[j].sequence
         /\ {q[i] : i \in 1..Len(q)} = S
<1>1. PICK n : n = R!Cardinality(S)
  OBVIOUS
<1>2. PICK N : N = {e.sequence : e \in S}
  OBVIOUS
<1>3. R!IsFiniteSet(S) /\ n \in Nat
  BY <1>1, FS_Subset, ReplayCounts, FS_CardinalityType DEF R!Numbered
<1>4. S \subseteq R!Entry /\ N \subseteq Nat /\ \A e \in S : e.sequence \in Nat
  BY <1>2 DEF R!TypeOK, R!Entry
<1>5. \A d, e \in S : d.sequence = e.sequence => d = e
  BY DEF R!Numbered
<1>6. R!IsFiniteSet(N) /\ R!Cardinality(N) = n
  <2>1. PICK f : f = [e \in S |-> e.sequence]
    OBVIOUS
  <2>2. f \in [S -> N] /\ \A t \in N : \E e \in S : f[e] = t
    BY <1>2, <2>1
  <2>3. \A d, e \in S : f[d] = f[e] => d = e
    BY <1>5, <2>1
  <2>4. ExistsBijection(S, N)
    BY <2>2, <2>3 DEF ExistsBijection, Bijection, Injection, Surjection, R!IsInjective, IsInjective
  <2> QED
    BY <1>1, <1>3, <2>4, FS_Bijection, ReplayCounts
<1>7. PICK p \in [1..n -> N] : \A i, j \in 1..n : i < j => p[i] < p[j]
  BY <1>4, <1>6, Sortable, ReplayCounts
<1>8. \E c \in [1..n -> S] : \A i, j \in DOMAIN c : i < j => c[i].sequence < c[j].sequence
  <2>1. PICK c : c = [i \in 1..n |-> CHOOSE e \in S : e.sequence = p[i]]
    OBVIOUS
  <2>2. \A i \in 1..n : \E e \in S : e.sequence = p[i]
    BY <1>2, <1>7
  <2>3. \A i \in 1..n : c[i] \in S /\ c[i].sequence = p[i]
    BY <2>1, <2>2
  <2>4. c \in [1..n -> S] /\ DOMAIN c = 1..n
    BY <2>1, <2>3
  <2> QED
    BY <1>7, <2>3, <2>4
<1>9. q \in [1..n -> S] /\ \A i, j \in DOMAIN q : i < j => q[i].sequence < q[j].sequence
  BY <1>1, <1>8 DEF R!InOrder
<1>10. DOMAIN q = 1..n
  BY <1>9
<1>11. q \in Seq(R!Entry) /\ Len(q) = n
  BY <1>3, <1>4, <1>9
<1>12. \A i, j \in 1..n : q[i] = q[j] => i = j
  <2>1. \A i \in 1..n : q[i].sequence \in Nat
    BY <1>4, <1>9
  <2>2. ASSUME NEW i \in 1..n, NEW j \in 1..n, q[i] = q[j] PROVE i = j
    <3>1. ~(i < j) /\ ~(j < i)
      BY <1>9, <1>10, <2>1, <2>2
    <3> QED
      BY <3>1
  <2> QED
    BY <2>2
<1>13. {q[i] : i \in 1..n} = S
  BY <1>1, <1>3, <1>9, <1>12, ReachesAll, ReplayCounts
<1> QED
  BY <1>9, <1>10, <1>11, <1>13

(* Their events are as many, and the same numbers.                         *)
LEMMA EventsOf ==
  ASSUME NEW q \in Seq(R!Entry), \A i \in 1..Len(q) : q[i].event = q[i].sequence,
         NEW p, p = R!Events(q)
  PROVE  /\ p \in Seq(1..MaxSequence) /\ Len(p) = Len(q) /\ DOMAIN p = 1..Len(q)
         /\ \A i \in 1..Len(q) : p[i] = q[i].sequence
         /\ R!ToSet(p) = {q[i].sequence : i \in 1..Len(q)}
<1>1. DOMAIN q = 1..Len(q) /\ Len(q) \in Nat
  OBVIOUS
<1>2. \A i \in 1..Len(q) : q[i] \in R!Entry
  OBVIOUS
<1>3. p = [i \in 1..Len(q) |-> q[i].event]
  BY <1>1 DEF R!Events
<1>4. \A i \in 1..Len(q) : p[i] = q[i].sequence /\ p[i] \in 1..MaxSequence
  BY <1>2, <1>3 DEF R!Entry
<1>5. p \in Seq(1..MaxSequence) /\ Len(p) = Len(q) /\ DOMAIN p = 1..Len(q)
  BY <1>1, <1>3, <1>4
<1>6. R!ToSet(p) = {p[i] : i \in 1..Len(q)}
  BY <1>5 DEF R!ToSet
<1> QED
  BY <1>4, <1>5, <1>6

(* readLog(): the next part of the range, or nothing when nothing is left. *)
LEMMA PageRead ==
  ASSUME R!ReplayParameters, R!TypeOK, R!Numbered,
         NEW page, page = R!ReadLog(replay.from, replay.to, replay.after)
  PROVE  /\ page \in Seq(R!Entry) /\ Len(page) <= PageLimit
         /\ page = << >> => \A x \in R!InHand : x <= replay.after
         /\ page # << >> => R!Matching(page) /\ R!NextPage(R!Events(page))
<1>1. PICK S : S = {e \in R!InRange(replay.from, replay.to) : e.sequence > replay.after}
  OBVIOUS
<1>2. PICK all : all = R!InOrder(S)
  OBVIOUS
<1>3. S \in SUBSET log
  BY <1>1 DEF R!InRange
<1>4. /\ all \in Seq(R!Entry)
      /\ \A i, j \in 1..Len(all) : i < j => all[i].sequence < all[j].sequence
      /\ {all[i] : i \in 1..Len(all)} = S
  BY <1>2, <1>3, Ordered
<1>5. PICK k : k = IF Len(all) < PageLimit THEN Len(all) ELSE PageLimit
  OBVIOUS
<1>6. Len(all) \in Nat /\ PageLimit \in Nat \ {0}
  BY <1>4 DEF R!ReplayParameters
<1>7. k \in Nat /\ k <= Len(all) /\ k <= PageLimit /\ (k < PageLimit => k = Len(all)) /\ (k = 0 => Len(all) = 0)
  BY <1>5, <1>6
<1>8. page = SubSeq(all, 1, k)
  BY <1>1, <1>2, <1>5 DEF R!ReadLog
<1>9. page \in Seq(R!Entry) /\ Len(page) = k /\ \A i \in 1..k : page[i] = all[i]
  BY <1>4, <1>6, <1>7, <1>8
<1>10. \A i \in 1..Len(all) : all[i] \in S /\ all[i].event = all[i].sequence /\ all[i].sequence \in Nat
  BY <1>3, <1>4 DEF R!Numbered, R!TypeOK, R!Entry
<1>11. PICK new : new = {x \in R!InHand : x > replay.after}
  OBVIOUS
<1>12. new = {all[i].sequence : i \in 1..Len(all)}
  <2>1. new = {e.sequence : e \in S}
    BY <1>1, <1>11 DEF R!InHand
  <2> QED
    BY <1>4, <2>1
<1>13. R!InHand \subseteq Nat /\ replay.after \in Nat
  BY DEF R!InHand, R!InRange, R!TypeOK, R!Entry, R!CallRecord
<1>14. CASE page = << >>
  <2>1. k = 0
    BY <1>9, <1>14
  <2>2. new = {}
    BY <1>7, <1>12, <2>1
  <2> QED
    BY <1>7, <1>9, <1>11, <1>13, <1>14, <2>2
<1>15. CASE page # << >>
  <2>1. k \in 1..Len(all)
    BY <1>7, <1>9, <1>15
  <2>2. PICK p : p = R!Events(page)
    OBVIOUS
  <2>3. \A i \in 1..Len(page) : page[i].event = page[i].sequence
    BY <1>7, <1>9, <1>10
  <2>4. /\ p \in Seq(1..MaxSequence) /\ Len(p) = k /\ DOMAIN p = 1..k
        /\ \A i \in 1..k : p[i] = page[i].sequence
        /\ R!ToSet(p) = {page[i].sequence : i \in 1..k}
    BY <1>9, <2>2, <2>3, EventsOf
  <2>5. \A i \in 1..k : p[i] = all[i].sequence /\ i \in 1..Len(all)
    BY <1>7, <1>9, <2>4
  <2>6. R!ToSet(p) = {all[i].sequence : i \in 1..k}
    BY <1>9, <2>4
  <2>7. R!Ascending(p)
    BY <1>4, <2>4, <2>5 DEF R!Ascending
  <2>8. R!ToSet(p) \subseteq new
    BY <1>7, <1>12, <2>6
  <2>9. ASSUME NEW x \in new, x <= R!Last(p) PROVE x \in R!ToSet(p)
    <3>1. R!Last(p) = all[k].sequence
      BY <2>1, <2>4, <2>5 DEF R!Last
    <3>2. PICK j \in 1..Len(all) : x = all[j].sequence
      BY <1>12, <2>9
    <3>3. ~(k < j)
      <4>1. k < j => all[k].sequence < all[j].sequence
        BY <1>4, <2>1, <3>2
      <4>2. all[k].sequence \in Nat /\ all[j].sequence \in Nat
        BY <1>10, <2>1, <3>2
      <4> QED
        BY <2>9, <3>1, <3>2, <4>1, <4>2
    <3>4. j \in 1..k
      BY <1>6, <1>7, <3>2, <3>3
    <3> QED
      BY <2>6, <3>2, <3>4
  <2>10. Len(p) < PageLimit => new \subseteq R!ToSet(p)
    BY <1>7, <1>12, <2>4, <2>6
  <2>11. p # << >>
    BY <2>1, <2>4
  <2>12. R!NextPage(p)
    BY <1>11, <2>7, <2>8, <2>9, <2>10, <2>11 DEF R!NextPage
  <2> QED
    BY <1>7, <1>9, <1>15, <2>2, <2>3, <2>12 DEF R!Matching
<1> QED
  BY <1>14, <1>15

(* What has been queued is the beginning of what is expected, and all of   *)
(* it when nothing expected is missing.                                    *)
LEMMA Beginning ==
  ASSUME NEW s \in Seq(1..MaxSequence), NEW t \in Seq(1..MaxSequence),
         R!Ascending(s), R!Ascending(t), NEW b \in Nat, R!ToSet(s) = {x \in R!ToSet(t) : x <= b}
  PROVE  R!IsPrefix(s, t) /\ (R!ToSet(s) = R!ToSet(t) => s = t)
<1>1. ASSUME NEW q \in Seq(1..MaxSequence), R!Ascending(q) PROVE Lists(q, Len(q), R!ToSet(q))
  <2>1. Len(q) \in Nat /\ DOMAIN q = 1..Len(q) /\ \A i \in 1..Len(q) : q[i] \in 1..MaxSequence
    <3>1. PICK S : S = 1..MaxSequence
      OBVIOUS
    <3>2. q \in Seq(S)
      BY <3>1
    <3>3. \A i \in 1..Len(q) : q[i] \in S
      BY <3>2
    <3> QED
      BY <3>1, <3>2, <3>3
  <2>2. \A i \in 1..Len(q) : q[i] \in Nat
    BY <2>1
  <2>3. q = [i \in 1..Len(q) |-> q[i]]
    OBVIOUS
  <2>4. q \in [1..Len(q) -> Nat]
    BY <2>2, <2>3
  <2> QED
    BY <1>1, <2>1, <2>4 DEF Lists, R!ToSet, R!Ascending
<1>2. Lists(s, Len(s), R!ToSet(s)) /\ Lists(t, Len(t), R!ToSet(t))
  BY <1>1
<1>3. Len(s) <= Len(t) /\ \A i \in 1..Len(s) : s[i] = t[i]
  BY <1>2, ListsBegin
<1>4. R!IsPrefix(s, t)
  BY <1>3 DEF R!IsPrefix
<1>5. ASSUME R!ToSet(s) = R!ToSet(t) PROVE s = t
  <2>1. R!ToSet(t) = {x \in R!ToSet(s) : x <= b}
    BY <1>5
  <2>2. Len(t) <= Len(s)
    BY <1>2, <2>1, ListsBegin
  <2>3. Len(t) = Len(s)
    BY <1>3, <2>2
  <2> QED
    BY <1>3, <2>3
<1> QED
  BY <1>4, <1>5

-----------------------------------------------------------------------------
(* Steps *)

(* The invariant of replay() holds in the first state.                   *)
LEMMA ReplayBegins ==
  ASSUME R!ReplayParameters, R!Init
  PROVE  R!ReplayInv
<1>1. replay = R!NoCall /\ replay \in R!CallRecord /\ replay.pc = "idle" /\ replay.page = << >>
  BY FreshCalls DEF R!Init, R!NoCall
<1>2. runs \in [R!Instance -> [pc : {"idle", "held"}, epoch : Nat, sequence : 0..MaxSequence]]
      /\ \A o \in R!Instance : runs[o].pc = "idle"
  BY DEF R!Init, R!Idle, R!ReplayParameters
<1>3. R!TypeOK
  BY <1>1, <1>2 DEF R!Init, R!TypeOK, R!ReplayParameters
<1>4. R!IsFiniteSet({})
  BY FS_EmptySet, ReplayCounts
<1>5. R!Numbered /\ R!SequencesGrow
  BY <1>4 DEF R!Init, R!Numbered, R!SequencesGrow
<1>6. R!Epochs
  BY <1>1, <1>2 DEF R!Epochs, R!Active
<1>7. R!Read /\ R!Paged /\ R!Through
  BY <1>1 DEF R!Init, R!Read, R!Paged, R!Through, R!Active, R!Ascending
<1>8. R!ReplayExact
  BY <1>1 DEF R!Init, R!ReplayExact, R!IsPrefix
<1> QED
  BY <1>3, <1>5, <1>6, <1>7, <1>8 DEF R!ReplayInv

(* What replay() has read stays true while nothing of it changes: the log  *)
(* grows only when its lease is gone.                                      *)
LEMMA ReadKept ==
  ASSUME R!Read, R!Paged, R!Through, R!ReplayExact, UNCHANGED <<replay, expected, replayed>>,
         log \subseteq log',
         R!Active /\ R!Fenced("own", replay.epoch)' => R!Fenced("own", replay.epoch) /\ log' = log
  PROVE  R!Read' /\ R!Paged' /\ R!Through' /\ R!ReplayExact'
<1>1. R!InHand \subseteq R!InHand' /\ (log' = log => R!InHand' = R!InHand)
  BY DEF R!InHand, R!InRange
<1>2. R!Active' = R!Active
  BY DEF R!Active
<1>3. R!Read'
  BY <1>1, <1>2 DEF R!Read, R!Ascending
<1>4. R!Paged'
  <2>1. ASSUME replay'.pc = "commit", R!Fenced("own", replay.epoch)'
        PROVE  (R!Matching(replay.page) /\ R!NextPage(R!Events(replay.page)))'
    <3>1. R!Fenced("own", replay.epoch) /\ R!InHand' = R!InHand
      BY <1>1, <2>1 DEF R!Active
    <3>2. R!Matching(replay.page) /\ R!NextPage(R!Events(replay.page))
      BY <2>1, <3>1 DEF R!Paged
    <3>3. R!Events(replay.page)' = R!Events(replay.page)
      BY DEF R!Events
    <3> QED
      BY <3>1, <3>2, <3>3 DEF R!NextPage, R!Matching, R!Ascending
  <2> QED
    BY <2>1 DEF R!Paged
<1>5. R!Through' /\ R!ReplayExact'
  BY DEF R!Through, R!ReplayExact
<1> QED
  BY <1>3, <1>4, <1>5

(* Nobody writes.                                                          *)
LEMMA NumberedKept ==
  ASSUME R!Numbered, R!SequencesGrow, UNCHANGED <<sequence, log, queued>>
  PROVE  R!Numbered' /\ R!SequencesGrow'
BY DEF R!Numbered, R!SequencesGrow

(* Leases come and go.                                                     *)
LEMMA LeaseStepKeeps ==
  ASSUME R!ReplayParameters, R!ReplayInv,
         R!Expire \/ UNCHANGED R!vars \/ \E o \in R!Instance : R!Start(o) \/ R!End(o)
  PROVE  R!ReplayInv'
<1>1. R!TypeOK /\ R!Numbered /\ R!SequencesGrow /\ R!Epochs /\ R!Read /\ R!Paged /\ R!Through /\ R!ReplayExact
  BY DEF R!ReplayInv
<1>2. UNCHANGED <<sequence, log, replay, queued, expected, replayed>>
  BY DEF R!Expire, R!vars, R!Start, R!End
<1>3. R!Numbered' /\ R!SequencesGrow'
  BY <1>1, <1>2, NumberedKept
<1>4. PICK l : l = lease
  OBVIOUS
<1>5. l \in [owner : R!Instance \cup {"nobody"}, epoch : Nat, live : BOOLEAN]
  BY <1>1, <1>4 DEF R!TypeOK
<1>6. ASSUME R!Expire \/ UNCHANGED R!vars
      PROVE  /\ lease' \in [owner : R!Instance \cup {"nobody"}, epoch : Nat, live : BOOLEAN]
             /\ lease'.owner = l.owner /\ lease'.epoch = l.epoch /\ UNCHANGED runs
  BY <1>4, <1>5, <1>6 DEF R!Expire, R!vars
<1>7. CASE R!Expire \/ UNCHANGED R!vars
  <2>1. R!TypeOK'
    BY <1>1, <1>2, <1>6, <1>7 DEF R!TypeOK
  <2>2. \A o \in R!Instance, e \in Nat : R!Fenced(o, e)' <=> R!Fenced(o, e)
    BY <1>4, <1>6, <1>7 DEF R!Fenced
  <2>3. R!Epochs'
    BY <1>1, <1>2, <1>4, <1>6, <1>7 DEF R!Epochs, R!Active, R!Fenced
  <2>4. R!Read' /\ R!Paged' /\ R!Through' /\ R!ReplayExact'
    BY <1>1, <1>2, <1>4, <1>6, <1>7, ReadKept DEF R!Fenced
  <2> QED
    BY <1>3, <2>1, <2>3, <2>4 DEF R!ReplayInv
<1>8. ASSUME NEW o \in R!Instance, R!Start(o) PROVE R!ReplayInv'
  <2>1. /\ lease' = [owner |-> o, epoch |-> l.epoch + 1, live |-> TRUE]
        /\ runs' = [runs EXCEPT ![o] = [pc |-> "held", epoch |-> l.epoch + 1, sequence |-> sequence]]
    BY <1>4, <1>8 DEF R!Start, R!Acquire
  <2>2. /\ lease' \in [owner : R!Instance \cup {"nobody"}, epoch : Nat, live : BOOLEAN]
        /\ lease'.owner = o /\ lease'.epoch = l.epoch + 1 /\ l.epoch \in Nat
    BY <1>5, <2>1
  <2>3. /\ runs'[o].pc = "held" /\ runs'[o].epoch = l.epoch + 1 /\ runs'[o].sequence = sequence
        /\ \A v \in R!Instance : v # o => runs'[v] = runs[v]
    BY <1>1, <2>1 DEF R!TypeOK
  <2>4. R!TypeOK'
    BY <1>1, <1>2, <2>1, <2>2 DEF R!TypeOK
  <2>5. \A v \in R!Instance : runs[v].epoch \in Nat /\ (runs[v].pc = "held" => runs[v].epoch <= l.epoch)
    BY <1>1, <1>4 DEF R!TypeOK, R!Epochs
  <2>6. R!Active => replay.epoch \in Nat /\ replay.epoch <= l.epoch
    BY <1>1, <1>4 DEF R!TypeOK, R!Epochs, R!CallRecord
  <2>7. R!Active => replay.epoch # l.epoch + 1 /\ replay.epoch <= l.epoch + 1
    BY <2>2, <2>6
  <2>8. R!Active => ~R!Fenced("own", replay.epoch)'
    BY <1>2, <2>2, <2>7 DEF R!Fenced
  <2>9. R!Epochs'
    <3>1. ASSUME NEW v \in R!Instance, runs'[v].pc = "held"
          PROVE  runs'[v].epoch <= lease'.epoch /\ (R!Fenced(v, runs[v].epoch)' => runs'[v].sequence = sequence')
      <4>1. CASE v = o
        BY <1>2, <2>2, <2>3, <4>1
      <4>2. CASE v # o
        BY <2>2, <2>3, <2>5, <3>1, <4>2 DEF R!Fenced
      <4> QED
        BY <4>1, <4>2
    <3>2. ASSUME R!Active'
          PROVE  /\ replay'.epoch <= lease'.epoch
                 /\ runs'["own"].pc = "held" => runs'["own"].epoch # replay'.epoch
                 /\ ~R!Fenced("own", replay.epoch)'
      <4>1. R!Active
        BY <1>2, <3>2 DEF R!Active
      <4>2. "own" \in R!Instance
        BY DEF R!Instance
      <4>3. CASE o = "own"
        BY <1>2, <2>2, <2>3, <2>7, <2>8, <4>1, <4>3
      <4>4. CASE o # "own"
        <5>1. runs'["own"] = runs["own"]
          BY <2>3, <4>2, <4>4
        <5>2. runs["own"].pc = "held" => runs["own"].epoch # replay.epoch
          BY <1>1, <4>1 DEF R!Epochs
        <5> QED
          BY <1>2, <2>2, <2>7, <2>8, <4>1, <5>1, <5>2
      <4> QED
        BY <4>3, <4>4
    <3> QED
      BY <3>1, <3>2 DEF R!Epochs
  <2>10. R!Read' /\ R!Paged' /\ R!Through' /\ R!ReplayExact'
    BY <1>1, <1>2, <2>8, ReadKept
  <2> QED
    BY <1>3, <2>4, <2>9, <2>10 DEF R!ReplayInv
<1>9. ASSUME NEW o \in R!Instance, R!End(o) PROVE R!ReplayInv'
  <2>1. /\ lease' = IF R!Fenced(o, runs[o].epoch) THEN [l EXCEPT !.owner = "nobody", !.live = FALSE] ELSE l
        /\ runs' = [runs EXCEPT ![o] = R!Idle]
    BY <1>4, <1>9 DEF R!End, R!Release
  <2>2. /\ lease' \in [owner : R!Instance \cup {"nobody"}, epoch : Nat, live : BOOLEAN]
        /\ lease'.owner \in {l.owner, "nobody"} /\ lease'.epoch = l.epoch
    <3>1. ASSUME NEW k, k = [l EXCEPT !.owner = "nobody", !.live = FALSE]
          PROVE  /\ k \in [owner : R!Instance \cup {"nobody"}, epoch : Nat, live : BOOLEAN]
                 /\ k.owner = "nobody" /\ k.epoch = l.epoch
      BY <1>5, <3>1
    <3> QED
      BY <1>5, <2>1, <3>1
  <2>3. runs'[o].pc = "idle" /\ \A v \in R!Instance : v # o => runs'[v] = runs[v]
    BY <1>1, <2>1 DEF R!TypeOK, R!Idle
  <2>4. R!TypeOK'
    <3>1. R!Idle \in [pc : {"idle", "held"}, epoch : Nat, sequence : 0..MaxSequence]
      BY DEF R!Idle, R!ReplayParameters
    <3>2. runs' \in [R!Instance -> [pc : {"idle", "held"}, epoch : Nat, sequence : 0..MaxSequence]]
      BY <1>1, <2>1, <3>1 DEF R!TypeOK
    <3> QED
      BY <1>1, <1>2, <2>2, <3>2 DEF R!TypeOK
  <2>5. ASSUME NEW v \in R!Instance, NEW e, lease'.owner = v, lease'.epoch = e PROVE R!Fenced(v, e)
    <3>1. v # "nobody"
      BY DEF R!Instance
    <3> QED
      BY <1>4, <2>2, <2>5, <3>1 DEF R!Fenced
  <2>6. "own" \in R!Instance
    BY DEF R!Instance
  <2>7. R!Fenced("own", replay.epoch)' => R!Fenced("own", replay.epoch)
    BY <1>2, <2>5, <2>6 DEF R!Fenced
  <2>8. R!Epochs'
    <3>1. ASSUME NEW v \in R!Instance, runs'[v].pc = "held"
          PROVE  runs'[v].epoch <= lease'.epoch /\ (R!Fenced(v, runs[v].epoch)' => runs'[v].sequence = sequence')
      <4>1. v # o /\ runs'[v] = runs[v]
        BY <2>3, <3>1
      <4>2. R!Fenced(v, runs[v].epoch)' => R!Fenced(v, runs[v].epoch)
        BY <2>5, <4>1 DEF R!Fenced
      <4> QED
        BY <1>1, <1>2, <1>4, <2>2, <3>1, <4>1, <4>2 DEF R!Epochs
    <3>2. ASSUME R!Active'
          PROVE  /\ replay'.epoch <= lease'.epoch
                 /\ runs'["own"].pc = "held" => runs'["own"].epoch # replay'.epoch
                 /\ R!Fenced("own", replay.epoch)' /\ replay'.pc \in {"read", "commit"} => replay'.sequence = sequence'
      <4>1. R!Active
        BY <1>2, <3>2 DEF R!Active
      <4>2. runs'["own"].pc = "held" => runs'["own"] = runs["own"]
        BY <2>3, <2>6
      <4> QED
        BY <1>1, <1>2, <1>4, <2>2, <2>7, <4>1, <4>2 DEF R!Epochs
    <3> QED
      BY <3>1, <3>2 DEF R!Epochs
  <2>9. R!Read' /\ R!Paged' /\ R!Through' /\ R!ReplayExact'
    BY <1>1, <1>2, <2>7, ReadKept
  <2> QED
    BY <1>3, <2>4, <2>8, <2>9 DEF R!ReplayInv
<1> QED
  BY <1>7, <1>8, <1>9

(* A call begins, ends, or is given up: nothing it holds is used again.    *)
LEMMA CallEndsKeep ==
  ASSUME R!ReplayParameters, R!ReplayInv, UNCHANGED <<sequence, log, queued>>,
         lease' \in [owner : R!Instance \cup {"nobody"}, epoch : Nat, live : BOOLEAN],
         lease'.owner \in {lease.owner, "nobody"}, lease'.epoch = lease.epoch,
         runs' \in {runs, [runs EXCEPT !["own"] = R!Idle]},
         replay' \in R!CallRecord, replay'.page \in {<< >>, replay.page},
         replay'.pc \in {"acquire", "answered"},
         replay'.pc = "acquire" => replay'.after = 0 /\ replayed' = << >>,
         \/ expected' = << >> /\ replayed' = << >>
         \/ UNCHANGED <<expected, replayed>>,
         replay'.pc = "answered" /\ ~replay'.threw => replayed' = expected'
  PROVE  R!ReplayInv'
<1>1. R!TypeOK /\ R!Numbered /\ R!SequencesGrow /\ R!Epochs /\ R!Read /\ R!ReplayExact
  BY DEF R!ReplayInv
<1>2. R!Numbered' /\ R!SequencesGrow'
  BY <1>1, NumberedKept
<1>3. R!Idle \in [pc : {"idle", "held"}, epoch : Nat, sequence : 0..MaxSequence] /\ R!Idle.pc = "idle"
  BY DEF R!Idle, R!ReplayParameters
<1>4. /\ runs' \in [R!Instance -> [pc : {"idle", "held"}, epoch : Nat, sequence : 0..MaxSequence]]
      /\ \A o \in R!Instance : runs'[o].pc = "held" => runs'[o] = runs[o]
  <2>1. runs \in [R!Instance -> [pc : {"idle", "held"}, epoch : Nat, sequence : 0..MaxSequence]]
    BY <1>1 DEF R!TypeOK
  <2>2. CASE runs' = runs
    BY <2>1, <2>2
  <2>3. CASE runs' = [runs EXCEPT !["own"] = R!Idle]
    BY <1>3, <2>1, <2>3
  <2> QED
    BY <2>2, <2>3
<1>5. R!TypeOK'
  <2>1. expected' \in Seq(1..MaxSequence) /\ replayed' \in Seq(1..MaxSequence)
    <3>1. PICK S : S = 1..MaxSequence
      OBVIOUS
    <3>2. expected \in Seq(S) /\ replayed \in Seq(S) /\ << >> \in Seq(S)
      BY <1>1, <3>1 DEF R!TypeOK
    <3>3. expected' \in Seq(S) /\ replayed' \in Seq(S)
      BY <3>2
    <3> QED
      BY <3>1, <3>3
  <2>2. Len(replay'.page) <= PageLimit
    <3>1. Len(<< >>) = 0 /\ 0 <= PageLimit
      BY DEF R!ReplayParameters
    <3>2. Len(replay.page) <= PageLimit
      BY <1>1 DEF R!TypeOK
    <3> QED
      BY <3>1, <3>2
  <2> QED
    BY <1>1, <1>4, <2>1, <2>2 DEF R!TypeOK
<1>6. ~R!Active'
  BY DEF R!Active
<1>7. R!Epochs'
  <2>1. ASSUME NEW v \in R!Instance, runs'[v].pc = "held"
        PROVE  runs'[v].epoch <= lease'.epoch /\ (R!Fenced(v, runs[v].epoch)' => runs'[v].sequence = sequence')
    <3>1. runs'[v] = runs[v]
      BY <1>4, <2>1
    <3>2. v # "nobody"
      BY DEF R!Instance
    <3>3. R!Fenced(v, runs[v].epoch)' => R!Fenced(v, runs[v].epoch)
      BY <3>1, <3>2 DEF R!Fenced
    <3> QED
      BY <1>1, <2>1, <3>1, <3>3 DEF R!Epochs
  <2> QED
    BY <1>6, <2>1 DEF R!Epochs
<1>8. R!Read'
  BY <1>1, <1>6 DEF R!Read, R!Ascending
<1>9. R!Paged' /\ R!Through'
  BY DEF R!Paged, R!Through
<1>10. R!ReplayExact'
  <2>1. R!IsPrefix(replayed', expected')
    BY <1>1 DEF R!ReplayExact, R!IsPrefix
  <2> QED
    BY <2>1 DEF R!ReplayExact
<1> QED
  BY <1>2, <1>5, <1>7, <1>8, <1>9, <1>10 DEF R!ReplayInv

(* Answer, Crash and Call are of that kind, and so is a try that fails.    *)
LEMMA CallEnds ==
  ASSUME R!ReplayParameters, R!ReplayInv,
         \/ R!Answer \/ R!Crash
         \/ \E from, to \in Time : R!Call(from, to)
         \/ R!Try /\ lease' = lease
  PROVE  R!ReplayInv'
<1>1. R!TypeOK /\ R!Read /\ R!Through /\ R!ReplayExact
  BY DEF R!ReplayInv
<1>2. lease \in [owner : R!Instance \cup {"nobody"}, epoch : Nat, live : BOOLEAN]
  BY <1>1 DEF R!TypeOK
<1>3. CASE R!Answer
  <2>1. /\ replay.pc = "finally" /\ replay' = R!Answered(replay.threw) /\ replay.threw \in BOOLEAN
        /\ UNCHANGED <<sequence, log, runs, queued, expected, replayed>>
    BY <1>1, <1>3 DEF R!Answer, R!TypeOK, R!CallRecord
  <2>2. /\ replay' \in R!CallRecord /\ replay'.pc = "answered" /\ replay'.page = << >>
        /\ replay'.threw = replay.threw
    BY <2>1, FreshCalls
  <2>3. PICK l : l = lease
    OBVIOUS
  <2>4. ASSUME NEW k, k = [l EXCEPT !.owner = "nobody", !.live = FALSE]
        PROVE  /\ k \in [owner : R!Instance \cup {"nobody"}, epoch : Nat, live : BOOLEAN]
               /\ k.owner = "nobody" /\ k.epoch = l.epoch
    BY <1>2, <2>3, <2>4
  <2>5. /\ lease' \in [owner : R!Instance \cup {"nobody"}, epoch : Nat, live : BOOLEAN]
        /\ lease'.owner \in {lease.owner, "nobody"} /\ lease'.epoch = lease.epoch
    <3>1. lease' = IF R!Fenced("own", replay.epoch) THEN [l EXCEPT !.owner = "nobody", !.live = FALSE] ELSE l
      BY <1>3, <2>3 DEF R!Answer, R!Release
    <3> QED
      BY <1>2, <2>3, <2>4, <3>1
  <2>6. ~replay'.threw => replayed' = expected'
    BY <1>1, <2>1, <2>2 DEF R!Through
  <2> QED
    BY <2>1, <2>2, <2>5, <2>6, CallEndsKeep
<1>4. CASE R!Crash
  <2>1. /\ replay' = R!Answered(TRUE) /\ runs' = [runs EXCEPT !["own"] = R!Idle]
        /\ UNCHANGED <<sequence, lease, log, queued, expected, replayed>>
    BY <1>4 DEF R!Crash
  <2>2. replay' \in R!CallRecord /\ replay'.pc = "answered" /\ replay'.page = << >> /\ replay'.threw = TRUE
    BY <2>1, FreshCalls
  <2> QED
    BY <1>2, <2>1, <2>2, CallEndsKeep
<1>5. ASSUME NEW from \in Time, NEW to \in Time, R!Call(from, to) PROVE R!ReplayInv'
  <2>1. /\ replay' = [R!NoCall EXCEPT !.pc = "acquire", !.from = from, !.to = to]
        /\ expected' = << >> /\ replayed' = << >> /\ UNCHANGED <<sequence, lease, log, runs, queued>>
    BY <1>5 DEF R!Call
  <2>2. replay' \in R!CallRecord /\ replay'.pc = "acquire" /\ replay'.page = << >> /\ replay'.after = 0
    BY <2>1, FreshCalls
  <2> QED
    BY <1>2, <2>1, <2>2, CallEndsKeep
<1>6. CASE R!Try /\ lease' = lease
  <2>1. ~R!MayAcquire("own")
    <3>1. lease.epoch # lease.epoch + 1
      BY <1>2
    <3>2. ~R!Acquire("own")
      BY <1>6, <3>1 DEF R!Acquire
    <3> QED
      BY <1>6, <3>2 DEF R!Try
  <2>2. /\ replay.pc = "acquire" /\ UNCHANGED <<sequence, log, runs, queued, expected, replayed>>
        /\ replay' = IF replay.tries + 1 < Tries THEN [replay EXCEPT !.tries = @ + 1] ELSE R!Answered(TRUE)
    BY <1>6, <2>1 DEF R!Try
  <2>3. PICK r \in R!CallRecord : r = replay
    BY <1>1 DEF R!TypeOK
  <2>4. CASE replay' = R!Answered(TRUE)
    <3>1. replay' \in R!CallRecord /\ replay'.pc = "answered" /\ replay'.page = << >> /\ replay'.threw = TRUE
      BY <2>4, FreshCalls
    <3> QED
      BY <1>2, <1>6, <2>2, <3>1, CallEndsKeep
  <2>5. CASE replay' = [r EXCEPT !.tries = @ + 1]
    <3>1. /\ replay' \in R!CallRecord /\ replay'.pc = r.pc
          /\ replay'.after = r.after /\ replay'.page = r.page /\ replay'.threw = r.threw
      BY <2>5, RetryFields
    <3>2. r.after = 0 /\ replayed = << >>
      BY <1>1, <2>2, <2>3 DEF R!Read
    <3> QED
      BY <1>1, <1>2, <1>6, <2>2, <2>3, <3>1, <3>2, CallEndsKeep
  <2> QED
    BY <2>2, <2>3, <2>4, <2>5
<1> QED
  BY <1>3, <1>4, <1>5, <1>6

(* A call goes on, without writing anything.                               *)
LEMMA CallGoesOn ==
  ASSUME R!ReplayParameters, R!ReplayInv, R!Active,
         UNCHANGED <<sequence, lease, log, runs, queued, expected, replayed>>,
         NEW r, r = replay', r \in R!CallRecord, r.pc \in {"read", "commit", "finally"},
         r.epoch = replay.epoch, r.from = replay.from, r.to = replay.to, r.after = replay.after,
         Len(r.page) <= PageLimit,
         r.pc \in {"read", "commit"} /\ R!Fenced("own", replay.epoch) => r.sequence = sequence,
         r.pc = "commit" => R!Matching(r.page) /\ R!NextPage(R!Events(r.page)),
         r.pc = "finally" /\ ~r.threw => replayed = expected
  PROVE  R!ReplayInv'
<1>1. R!TypeOK /\ R!Numbered /\ R!SequencesGrow /\ R!Epochs /\ R!Read /\ R!ReplayExact
  BY DEF R!ReplayInv
<1>2. R!Numbered' /\ R!SequencesGrow'
  BY <1>1, NumberedKept
<1>3. R!TypeOK'
  BY <1>1 DEF R!TypeOK
<1>4. \A e : R!Fenced("own", e)' <=> R!Fenced("own", e)
  BY DEF R!Fenced
<1>5. R!Epochs'
  BY <1>1 DEF R!Epochs, R!Fenced, R!Active
<1>6. R!InHand' = R!InHand
  BY DEF R!InHand, R!InRange
<1>7. R!Read'
  <2>1. R!Active' /\ replay'.epoch = replay.epoch /\ replay'.after = replay.after /\ replay'.pc # "acquire"
    BY DEF R!Active
  <2>2. R!Fenced("own", replay.epoch)' => R!Fenced("own", replay.epoch)
    BY <2>1 DEF R!Fenced
  <2> QED
    BY <1>1, <1>6, <2>1, <2>2 DEF R!Read, R!Ascending
<1>8. R!Paged'
  <2>1. ASSUME r.pc = "commit" PROVE (R!Matching(replay.page) /\ R!NextPage(R!Events(replay.page)))'
    <3>1. R!Matching(r.page) /\ R!NextPage(R!Events(r.page)) /\ replay'.after = replay.after
      BY <2>1
    <3>2. R!Events(replay.page)' = R!Events(r.page)
      BY DEF R!Events
    <3> QED
      BY <1>6, <3>1, <3>2 DEF R!NextPage, R!Matching, R!Ascending
  <2> QED
    BY <2>1 DEF R!Paged
<1>9. R!Through' /\ R!ReplayExact'
  BY <1>1 DEF R!Through, R!ReplayExact
<1> QED
  BY <1>2, <1>3, <1>5, <1>7, <1>8, <1>9 DEF R!ReplayInv

(* It loads the state, and reads pages of the log, or stops for an error.  *)
LEMMA ReadingKeeps ==
  ASSUME R!ReplayParameters, R!ReplayInv, R!LoadState \/ R!ReadPage \/ R!Throw
  PROVE  R!ReplayInv'
<1>1. R!TypeOK /\ R!Numbered /\ R!Epochs /\ R!Read
  BY DEF R!ReplayInv
<1>2. PICK c \in R!CallRecord : c = replay
  BY <1>1 DEF R!TypeOK
<1>3. UNCHANGED <<sequence, lease, log, runs, queued, expected, replayed>> /\ R!Active
  BY DEF R!LoadState, R!ReadPage, R!Throw, R!Active
<1>4. Len(c.page) <= PageLimit /\ sequence \in 0..MaxSequence
  BY <1>1, <1>2 DEF R!TypeOK
<1>5. PICK r : r = replay'
  OBVIOUS
<1>6. CASE R!LoadState
  <2>1. r = [c EXCEPT !.pc = "read", !.sequence = sequence]
    BY <1>2, <1>5, <1>6 DEF R!LoadState
  <2>2. /\ r \in R!CallRecord /\ r.pc = "read" /\ r.epoch = c.epoch /\ r.from = c.from
        /\ r.to = c.to /\ r.after = c.after /\ r.page = c.page /\ r.sequence = sequence
    BY <1>2, <1>4, <2>1 DEF R!CallRecord
  <2> QED
    BY <1>2, <1>3, <1>4, <1>5, <2>2, CallGoesOn
<1>7. CASE R!Throw
  <2>1. r = [c EXCEPT !.pc = "finally", !.threw = TRUE]
    BY <1>2, <1>5, <1>7 DEF R!Throw
  <2>2. /\ r \in R!CallRecord /\ r.pc = "finally" /\ r.epoch = c.epoch /\ r.from = c.from
        /\ r.to = c.to /\ r.after = c.after /\ r.page = c.page /\ r.threw
    BY <2>1, ThrowFields
  <2> QED
    BY <1>2, <1>3, <1>4, <1>5, <2>2, CallGoesOn
<1>8. CASE R!ReadPage
  <2>1. PICK page : page = R!ReadLog(replay.from, replay.to, replay.after)
    OBVIOUS
  <2>2. PICK pc : pc = IF page = << >> THEN "finally" ELSE "commit"
    OBVIOUS
  <2>3. r = [c EXCEPT !.pc = pc, !.page = page]
    BY <1>2, <1>5, <1>8, <2>1, <2>2 DEF R!ReadPage
  <2>4. /\ page \in Seq(R!Entry) /\ Len(page) <= PageLimit
        /\ page = << >> => \A x \in R!InHand : x <= replay.after
        /\ page # << >> => R!Matching(page) /\ R!NextPage(R!Events(page))
    BY <1>1, <2>1, PageRead
  <2>5. pc \in {"finally", "commit"}
    BY <2>2
  <2>6. /\ r \in R!CallRecord /\ r.pc = pc /\ r.epoch = c.epoch /\ r.from = c.from
        /\ r.to = c.to /\ r.after = c.after /\ r.page = page /\ r.sequence = c.sequence
        /\ r.threw = c.threw
    BY <1>2, <2>3, <2>4, <2>5 DEF R!CallRecord
  <2>7. ASSUME pc = "finally" PROVE replayed = expected
    <3>1. \A x \in R!InHand : x <= replay.after
      BY <2>2, <2>4, <2>7
    <3>2. /\ R!ToSet(expected) \subseteq R!InHand /\ R!Ascending(expected) /\ R!Ascending(replayed)
          /\ R!ToSet(replayed) = {x \in R!ToSet(expected) : x <= replay.after}
      BY <1>1, <1>3 DEF R!Read
    <3>3. R!ToSet(replayed) = R!ToSet(expected)
      BY <3>1, <3>2
    <3>4. replay.after \in Nat /\ expected \in Seq(1..MaxSequence) /\ replayed \in Seq(1..MaxSequence)
      BY <1>1 DEF R!TypeOK, R!CallRecord
    <3> QED
      BY <3>2, <3>3, <3>4, Beginning
  <2>8. R!Fenced("own", replay.epoch) => r.sequence = sequence
    BY <1>1, <1>2, <1>3, <1>8, <2>6 DEF R!Epochs, R!ReadPage
  <2> QED
    BY <1>2, <1>3, <1>5, <2>2, <2>4, <2>6, <2>7, <2>8, CallGoesOn
<1> QED
  BY <1>6, <1>7, <1>8

(* The lease is granted: what is in the range now is what it owes.         *)
LEMMA TryKeeps ==
  ASSUME R!ReplayParameters, R!ReplayInv, R!Try
  PROVE  R!ReplayInv'
<1>1. R!TypeOK /\ R!Numbered /\ R!SequencesGrow /\ R!Epochs /\ R!Read /\ R!ReplayExact
  BY DEF R!ReplayInv
<1>2. CASE lease' = lease
  BY <1>2, CallEnds
<1>3. CASE lease' # lease
  <2>1. /\ replay.pc = "acquire" /\ UNCHANGED <<sequence, log, runs, queued, replayed>>
        /\ lease' = [owner |-> "own", epoch |-> lease.epoch + 1, live |-> TRUE]
        /\ replay' = [replay EXCEPT !.pc = "load", !.epoch = lease.epoch + 1]
        /\ expected' = R!Events(R!InOrder(R!InRange(replay.from, replay.to)))
    BY <1>3 DEF R!Try, R!Acquire
  <2>2. lease.epoch \in Nat /\ lease'.epoch = lease.epoch + 1 /\ lease'.owner = "own"
        /\ lease' \in [owner : R!Instance \cup {"nobody"}, epoch : Nat, live : BOOLEAN]
    BY <1>1, <2>1 DEF R!TypeOK, R!Instance
  <2>3. PICK c \in R!CallRecord : c = replay
    BY <1>1 DEF R!TypeOK
  <2>4. PICK r : r = replay'
    OBVIOUS
  <2>5. /\ r \in R!CallRecord /\ r.pc = "load" /\ r.epoch = lease.epoch + 1
        /\ r.from = c.from /\ r.to = c.to /\ r.after = c.after /\ r.page = c.page
    <3>1. PICK v \in Nat : v = lease.epoch + 1
      BY <2>2
    <3>2. r = [c EXCEPT !.pc = "load", !.epoch = v]
      BY <2>1, <2>3, <2>4, <3>1
    <3> QED
      BY <2>3, <3>1, <3>2 DEF R!CallRecord
  <2>6. PICK S : S = R!InRange(replay.from, replay.to)
    OBVIOUS
  <2>7. PICK q : q = R!InOrder(S)
    OBVIOUS
  <2>8. S \in SUBSET log
    BY <2>6 DEF R!InRange
  <2>9. /\ q \in Seq(R!Entry) /\ \A i, j \in 1..Len(q) : i < j => q[i].sequence < q[j].sequence
        /\ {q[i] : i \in 1..Len(q)} = S
    BY <1>1, <2>7, <2>8, Ordered
  <2>10. \A i \in 1..Len(q) : q[i].event = q[i].sequence
    BY <1>1, <2>8, <2>9 DEF R!Numbered
  <2>11. PICK p : p = R!Events(q)
    OBVIOUS
  <2>12. /\ p \in Seq(1..MaxSequence) /\ DOMAIN p = 1..Len(q)
         /\ \A i \in 1..Len(q) : p[i] = q[i].sequence
         /\ R!ToSet(p) = {q[i].sequence : i \in 1..Len(q)}
    BY <2>9, <2>10, <2>11, EventsOf
  <2>13. R!Ascending(p)
    BY <2>9, <2>12 DEF R!Ascending
  <2>14. expected' = p
    BY <2>1, <2>6, <2>7, <2>11
  <2>15. R!InHand' = R!ToSet(p)
    <3>1. R!InHand' = {e.sequence : e \in S}
      BY <2>1, <2>3, <2>4, <2>5, <2>6 DEF R!InHand, R!InRange
    <3> QED
      BY <2>9, <2>12, <3>1
  <2>16. c.after = 0 /\ replayed = << >>
    BY <1>1, <2>1, <2>3 DEF R!Read
  <2>17. R!TypeOK'
    <3>1. Len(r.page) <= PageLimit
      BY <1>1, <2>3, <2>5 DEF R!TypeOK
    <3> QED
      BY <1>1, <2>1, <2>2, <2>4, <2>5, <2>12, <2>14, <3>1 DEF R!TypeOK
  <2>18. R!Numbered' /\ R!SequencesGrow'
    BY <1>1, <2>1, NumberedKept
  <2>19. R!Epochs'
    <3>1. ASSUME NEW v \in R!Instance, runs[v].pc = "held"
          PROVE  runs[v].epoch <= lease.epoch /\ runs[v].epoch \in Nat
      BY <1>1, <3>1 DEF R!Epochs, R!TypeOK
    <3>2. ASSUME NEW v \in R!Instance, runs[v].pc = "held"
          PROVE  runs[v].epoch <= lease'.epoch /\ runs[v].epoch # lease'.epoch
      BY <2>2, <3>1, <3>2
    <3>3. "own" \in R!Instance
      BY DEF R!Instance
    <3> QED
      BY <2>1, <2>2, <2>4, <2>5, <3>2, <3>3 DEF R!Epochs, R!Fenced
  <2>20. R!Read'
    <3>1. R!ToSet(replayed) = {} /\ R!Ascending(replayed)
      BY <2>16 DEF R!ToSet, R!Ascending
    <3>2. {x \in R!ToSet(p) : x <= 0} = {}
      <4>1. R!ToSet(p) \subseteq R!InHand' /\ \A x \in R!InHand' : x \in Nat \ {0}
        <5>1. \A e \in S : e.sequence \in Nat \ {0}
          BY <1>1, <2>8 DEF R!TypeOK, R!Entry
        <5> QED
          BY <2>9, <2>12, <2>15, <5>1
      <4> QED
        BY <4>1
    <3>3. replay'.pc # "acquire" /\ replay'.after = 0
      BY <2>4, <2>5, <2>16
    <3> QED
      BY <2>1, <2>13, <2>14, <2>15, <3>1, <3>2, <3>3 DEF R!Read, R!Ascending
  <2>21. R!Paged' /\ R!Through' /\ R!ReplayExact'
    <3>1. R!IsPrefix(replayed', expected')
      <4>1. replayed' = << >> /\ expected' \in Seq(1..MaxSequence)
        BY <2>1, <2>12, <2>14, <2>16
      <4> QED
        BY <4>1 DEF R!IsPrefix
    <3> QED
      BY <2>4, <2>5, <3>1 DEF R!Paged, R!Through, R!ReplayExact
  <2> QED
    BY <2>17, <2>18, <2>19, <2>20, <2>21 DEF R!ReplayInv
<1> QED
  BY <1>2, <1>3

(* A list that goes on with larger numbers.                                *)
LEMMA GoesOn ==
  ASSUME NEW s \in Seq(1..MaxSequence), NEW p \in Seq(1..MaxSequence), MaxSequence \in Nat,
         R!Ascending(s), R!Ascending(p), \A x \in R!ToSet(s), y \in R!ToSet(p) : x < y,
         NEW t, t = s \o p
  PROVE  t \in Seq(1..MaxSequence) /\ R!Ascending(t) /\ R!ToSet(t) = R!ToSet(s) \cup R!ToSet(p)
<1>1. PICK S : S = 1..MaxSequence
  OBVIOUS
<1>2. PICK m : m = Len(s)
  OBVIOUS
<1>3. PICK n : n = Len(p)
  OBVIOUS
<1>4. s \in Seq(S) /\ p \in Seq(S)
  BY <1>1
<1>5. m \in Nat /\ n \in Nat /\ t \in Seq(S) /\ Len(t) = m + n
  BY <1>2, <1>3, <1>4, Concatenation
<1>6. DOMAIN t = 1..(m + n) /\ DOMAIN s = 1..m /\ DOMAIN p = 1..n
  BY <1>2, <1>3, <1>4, <1>5
<1>7. \A i \in 1..m : t[i] = s[i] /\ i \in 1..(m + n)
  BY <1>2, <1>3, <1>4, Concatenation
<1>8. \A i \in 1..n : t[m + i] = p[i] /\ m + i \in 1..(m + n)
  BY <1>2, <1>3, <1>4, Concatenation
<1>9. ASSUME NEW i \in 1..(m + n), ~(i \in 1..m) PROVE \E j \in 1..n : i = m + j
  <2>1. i - m \in 1..n /\ i = m + (i - m)
    BY <1>5, <1>9
  <2> QED
    BY <2>1
<1>10. R!ToSet(t) = R!ToSet(s) \cup R!ToSet(p)
  <2>1. ASSUME NEW x \in R!ToSet(t) PROVE x \in R!ToSet(s) \cup R!ToSet(p)
    <3>1. PICK i \in 1..(m + n) : x = t[i]
      BY <1>6 DEF R!ToSet
    <3>2. CASE i \in 1..m
      BY <1>6, <1>7, <3>1, <3>2 DEF R!ToSet
    <3>3. ASSUME NEW j \in 1..n, i = m + j PROVE x \in R!ToSet(p)
      BY <1>6, <1>8, <3>1, <3>3 DEF R!ToSet
    <3> QED
      BY <1>9, <3>2, <3>3
  <2>2. ASSUME NEW x \in R!ToSet(s) PROVE x \in R!ToSet(t)
    BY <1>6, <1>7 DEF R!ToSet
  <2>3. ASSUME NEW x \in R!ToSet(p) PROVE x \in R!ToSet(t)
    BY <1>6, <1>8 DEF R!ToSet
  <2> QED
    BY <2>1, <2>2, <2>3
<1>11. R!Ascending(t)
  <2>1. ASSUME NEW i \in 1..(m + n), NEW j \in 1..(m + n), i < j PROVE t[i] < t[j]
    <3>1. CASE j \in 1..m
      <4>1. i \in 1..m
        BY <1>5, <2>1, <3>1
      <4>2. s[i] < s[j]
        BY <1>6, <2>1, <3>1, <4>1 DEF R!Ascending
      <4> QED
        BY <1>7, <3>1, <4>1, <4>2
    <3>2. ASSUME NEW k \in 1..n, j = m + k PROVE t[i] < t[j]
      <4>1. CASE i \in 1..m
        <5>1. s[i] \in R!ToSet(s) /\ p[k] \in R!ToSet(p)
          BY <1>6, <3>2, <4>1 DEF R!ToSet
        <5>2. s[i] < p[k]
          BY <5>1
        <5> QED
          BY <1>7, <1>8, <3>2, <4>1, <5>2
      <4>2. ASSUME NEW h \in 1..n, i = m + h PROVE t[i] < t[j]
        <5>1. h < k
          BY <1>5, <2>1, <3>2, <4>2
        <5>2. p[h] < p[k]
          BY <1>6, <5>1 DEF R!Ascending
        <5> QED
          BY <1>8, <3>2, <4>2, <5>2
      <4> QED
        BY <1>9, <4>1, <4>2
    <3> QED
      BY <1>9, <3>1, <3>2
  <2> QED
    BY <1>6, <2>1 DEF R!Ascending
<1> QED
  BY <1>1, <1>5, <1>10, <1>11

(* Entries queued under the sequences that come next.                      *)
LEMMA QueuedNext ==
  ASSUME R!TypeOK, R!Numbered, R!SequencesGrow, MaxSequence \in Nat, NEW n, n \in Nat,
         sequence + n <= MaxSequence,
         NEW k \in Seq((1..MaxSequence) \X (1..MaxSequence)), Len(k) = n,
         \A i \in 1..n : k[i][2] = sequence + i,
         NEW q, q = queued \o k
  PROVE  /\ q \in Seq((1..MaxSequence) \X (1..MaxSequence))
         /\ \A i \in 1..Len(q) : q[i][2] <= sequence + n
         /\ \A i \in 2..Len(q) : q[i - 1][2] < q[i][2]
<1>1. PICK S : S = (1..MaxSequence) \X (1..MaxSequence)
  OBVIOUS
<1>2. queued \in Seq(S) /\ k \in Seq(S) /\ sequence \in Nat
  BY <1>1 DEF R!TypeOK
<1>3. PICK m : m = Len(queued)
  OBVIOUS
<1>4. m \in Nat /\ n \in Nat /\ q \in Seq(S) /\ Len(q) = m + n
  <2>1. m \in Nat
    BY <1>2, <1>3
  <2>2. q \in Seq(S)
    BY <1>2
  <2>3. Len(q) = Len(queued) + Len(k)
    <3>1. q = queued \o k
      OBVIOUS
    <3> QED
      BY ONLY <1>2, <3>1
  <2> QED
    BY <1>3, <2>1, <2>2, <2>3
<1>5. \A i \in 1..m : q[i] = queued[i]
  BY <1>2, <1>3, Concatenation
<1>6. \A i \in 1..n : q[m + i] = k[i]
  BY <1>2, <1>3, Concatenation
<1>7. ASSUME NEW i \in 1..(m + n), ~(i \in 1..m) PROVE \E j \in 1..n : i = m + j
  <2>1. i - m \in 1..n /\ i = m + (i - m)
    BY <1>4, <1>7
  <2> QED
    BY <2>1
<1>8. \A i \in 1..m : q[i][2] <= sequence /\ q[i][2] \in Nat
  <2>1. \A i \in 1..m : queued[i] \in S
    BY <1>2, <1>3
  <2>2. \A i \in 1..m : queued[i][2] \in Nat
    BY <1>1, <2>1
  <2> QED
    BY <1>3, <1>5, <2>2 DEF R!Numbered
<1>9. \A i \in 1..n : q[m + i][2] = sequence + i
  BY <1>6
<1>10. ASSUME NEW i \in 1..(m + n) PROVE q[i][2] <= sequence + n
  <2>1. CASE i \in 1..m
    BY <1>2, <1>4, <1>8, <2>1
  <2>2. ASSUME NEW j \in 1..n, i = m + j PROVE q[i][2] <= sequence + n
    <3>1. q[i][2] = sequence + j
      BY <1>9, <2>2
    <3>2. sequence + j <= sequence + n
      BY <1>2, <1>4
    <3> QED
      BY <3>1, <3>2
  <2> QED
    BY <1>7, <2>1, <2>2
<1>11. ASSUME NEW i \in 2..(m + n) PROVE q[i - 1][2] < q[i][2]
  <2>1. CASE i \in 1..m
    <3>1. i - 1 \in 1..m /\ i \in 2..m
      BY <1>4, <2>1
    <3>2. queued[i - 1][2] < queued[i][2]
      BY <1>3, <3>1 DEF R!SequencesGrow
    <3> QED
      BY <1>5, <2>1, <3>1, <3>2
  <2>2. ASSUME NEW j \in 1..n, i = m + j PROVE q[i - 1][2] < q[i][2]
    <3>1. q[i][2] = sequence + j
      BY <1>9, <2>2
    <3>2. CASE j = 1
      <4>1. i - 1 = m /\ m \in 1..m
        BY <1>4, <2>2, <3>2
      <4>2. q[i - 1][2] <= sequence /\ q[i - 1][2] \in Nat
        BY <1>8, <4>1
      <4>3. q[i][2] = sequence + 1
        BY <3>1, <3>2
      <4>4. \A x, y, z : z \in Nat /\ x \in Nat /\ x <= z /\ y = z + 1 => x < y
        OBVIOUS
      <4> QED
        BY <1>2, <4>2, <4>3, <4>4, Zenon
    <3>3. CASE j # 1
      <4>1. j - 1 \in 1..n /\ i - 1 = m + (j - 1)
        BY <1>4, <2>2, <3>3
      <4>2. q[i - 1][2] = sequence + (j - 1)
        BY <1>9, <4>1
      <4>3. sequence + (j - 1) < sequence + j
        BY <1>2
      <4> QED
        BY <3>1, <4>2, <4>3
    <3> QED
      BY <3>2, <3>3
  <2>3. i \in 1..(m + n)
    BY <1>4
  <2> QED
    BY <1>7, <2>1, <2>2, <2>3
<1> QED
  BY <1>1, <1>4, <1>10, <1>11

(* A page is queued, under the lease.                                      *)
LEMMA PageCommitted ==
  ASSUME R!ReplayParameters, R!ReplayInv, R!CommitPage, R!Fenced("own", replay.epoch)
  PROVE  R!ReplayInv'
<1>1. R!TypeOK /\ R!Numbered /\ R!SequencesGrow /\ R!Epochs /\ R!Read /\ R!Paged
  BY DEF R!ReplayInv
<1>2. PICK c \in R!CallRecord : c = replay
  BY <1>1 DEF R!TypeOK
<1>3. PICK n : n = Len(c.page)
  OBVIOUS
<1>4. PICK w : w = R!Last(c.page).sequence
  OBVIOUS
<1>5. PICK p : p = R!Events(c.page)
  OBVIOUS
<1>6. PICK k : k = [i \in 1..n |-> <<c.page[i].event, c.sequence + i>>]
  OBVIOUS
<1>7. PICK pc : pc = IF n < PageLimit THEN "finally" ELSE "read"
  OBVIOUS
<1>8. /\ replay.pc = "commit" /\ UNCHANGED <<lease, log, runs, expected>>
      /\ c.sequence + n <= MaxSequence /\ sequence' = c.sequence + n
      /\ queued' = queued \o k /\ replayed' = replayed \o p
      /\ replay' = [c EXCEPT !.sequence = @ + n, !.after = w, !.pc = pc]
  BY <1>2, <1>3, <1>4, <1>5, <1>6, <1>7 DEF R!CommitPage
<1>9. R!Active /\ c.sequence = sequence
  BY <1>1, <1>2, <1>8 DEF R!Active, R!Epochs
<1>10. c.page \in Seq(R!Entry) /\ R!Matching(c.page) /\ R!NextPage(p)
  BY <1>1, <1>2, <1>5, <1>8 DEF R!CallRecord, R!Paged
<1>11. n \in Nat /\ sequence \in Nat /\ MaxSequence \in Nat /\ n <= PageLimit
  BY <1>1, <1>2, <1>3, <1>10 DEF R!TypeOK, R!ReplayParameters
<1>12. /\ p \in Seq(1..MaxSequence) /\ Len(p) = n /\ DOMAIN p = 1..n
       /\ \A i \in 1..n : p[i] = c.page[i].sequence
  BY <1>3, <1>5, <1>10, EventsOf DEF R!Matching
<1>13. n >= 1 /\ n \in 1..n
  <2>1. n # 0
    BY <1>10, <1>12 DEF R!NextPage
  <2> QED
    BY <1>11, <2>1
<1>14. w = R!Last(p) /\ w = p[n] /\ w \in R!ToSet(p)
  <2>1. w = c.page[n].sequence /\ R!Last(p) = p[n]
    BY <1>3, <1>4, <1>12 DEF R!Last
  <2> QED
    BY <1>12, <1>13, <2>1 DEF R!ToSet
<1>15. \A x \in R!ToSet(p) : x \in 1..MaxSequence
  <2>1. PICK S : S = 1..MaxSequence
    OBVIOUS
  <2>2. p \in Seq(S)
    BY <1>12, <2>1
  <2>3. \A i \in 1..n : p[i] \in S
    BY <1>12, <2>2
  <2> QED
    BY <1>12, <2>1, <2>3 DEF R!ToSet
<1>16. \A x \in R!ToSet(p) : x <= w
  <2>1. ASSUME NEW i \in 1..n PROVE p[i] <= p[n]
    <3>1. p[i] \in Nat /\ p[n] \in Nat
      <4>1. p[i] \in R!ToSet(p) /\ p[n] \in R!ToSet(p)
        BY <1>12, <1>13 DEF R!ToSet
      <4> QED
        BY <1>15, <4>1
    <3>2. i < n => p[i] < p[n]
      BY <1>10, <1>12, <1>13 DEF R!NextPage, R!Ascending
    <3>3. i < n \/ i = n
      BY <1>11
    <3> QED
      BY <3>1, <3>2, <3>3
  <2> QED
    BY <1>12, <1>14, <2>1 DEF R!ToSet
<1>17. PICK v : v = c.sequence + n
  OBVIOUS
<1>18. v \in 0..MaxSequence /\ w \in 0..MaxSequence /\ pc \in {"finally", "read"} /\ v = sequence + n
  BY <1>7, <1>8, <1>9, <1>11, <1>14, <1>15, <1>17
<1>19. PICK r : r = replay'
  OBVIOUS
<1>20. /\ r \in R!CallRecord /\ r.pc = pc /\ r.epoch = c.epoch /\ r.from = c.from
       /\ r.to = c.to /\ r.after = w /\ r.page = c.page /\ r.sequence = v /\ r.threw = c.threw
  <2>1. r = [c EXCEPT !.sequence = v, !.after = w, !.pc = pc]
    BY <1>8, <1>17, <1>19
  <2> QED
    BY <1>2, <1>18, <2>1 DEF R!CallRecord
<1>21. /\ queued' \in Seq((1..MaxSequence) \X (1..MaxSequence))
       /\ \A i \in 1..Len(queued)' : queued'[i][2] <= sequence + n
       /\ \A i \in 2..Len(queued)' : queued'[i - 1][2] < queued'[i][2]
  <2>1. ASSUME NEW i \in 1..n PROVE k[i] \in (1..MaxSequence) \X (1..MaxSequence) /\ k[i][2] = sequence + i
    <3>1. c.page[i].event \in 1..MaxSequence
      <4>1. c.page[i] \in R!Entry
        BY <1>3, <1>10
      <4> QED
        BY <4>1 DEF R!Entry
    <3>2. sequence + i \in 1..MaxSequence
      BY <1>8, <1>9, <1>11
    <3> QED
      BY <1>6, <1>9, <3>1, <3>2
  <2>2. PICK S : S = (1..MaxSequence) \X (1..MaxSequence)
    OBVIOUS
  <2>3. k = [i \in 1..n |-> k[i]] /\ \A i \in 1..n : k[i] \in S
    BY <1>6, <2>1, <2>2
  <2>4. k \in Seq(S) /\ Len(k) = n
    BY <1>11, <2>3
  <2>5. sequence + n <= MaxSequence
    BY <1>8, <1>9
  <2> QED
    BY <1>1, <1>8, <1>11, <2>1, <2>2, <2>4, <2>5, QueuedNext
<1>22. PICK E : E = R!ToSet(expected)
  OBVIOUS
<1>23. /\ R!Ascending(expected) /\ R!Ascending(replayed) /\ R!InHand = E
       /\ R!ToSet(replayed) = {x \in E : x <= c.after}
       /\ expected \in Seq(1..MaxSequence) /\ replayed \in Seq(1..MaxSequence) /\ c.after \in Nat
  BY <1>1, <1>2, <1>9, <1>22 DEF R!Read, R!TypeOK, R!CallRecord
<1>24. /\ R!ToSet(p) \subseteq {x \in E : x > c.after} /\ R!Ascending(p)
       /\ \A x \in E : x > c.after /\ x <= w => x \in R!ToSet(p)
       /\ n < PageLimit => {x \in E : x > c.after} \subseteq R!ToSet(p)
  BY <1>2, <1>10, <1>12, <1>14, <1>23 DEF R!NextPage
<1>25. E \subseteq Nat
  BY <1>1, <1>23 DEF R!InHand, R!InRange, R!TypeOK, R!Entry
<1>26. /\ replayed' \in Seq(1..MaxSequence) /\ R!Ascending(replayed')
       /\ R!ToSet(replayed') = R!ToSet(replayed) \cup R!ToSet(p)
  <2>1. ASSUME NEW x \in R!ToSet(replayed), NEW y \in R!ToSet(p) PROVE x < y
    <3>1. x \in Nat /\ y \in Nat /\ x <= c.after /\ y > c.after
      BY <1>23, <1>24, <1>25
    <3> QED
      BY <1>23, <3>1
  <2> QED
    BY <1>8, <1>11, <1>12, <1>23, <1>24, <2>1, GoesOn
<1>27. R!ToSet(replayed') = {x \in E : x <= w}
  <2>1. ASSUME NEW x \in E PROVE x \in R!ToSet(replayed) \cup R!ToSet(p) <=> x <= w
    <3>1. x \in Nat /\ w \in Nat /\ w > c.after
      BY <1>14, <1>15, <1>24, <1>25
    <3>2. x \in R!ToSet(replayed) <=> x <= c.after
      BY <1>23
    <3>3. x \in R!ToSet(p) => x <= w
      BY <1>16
    <3>4. x > c.after /\ x <= w => x \in R!ToSet(p)
      BY <1>24
    <3> QED
      BY <1>23, <3>1, <3>2, <3>3, <3>4
  <2>2. R!ToSet(replayed) \cup R!ToSet(p) \subseteq E
    BY <1>23, <1>24
  <2> QED
    BY <1>26, <2>1, <2>2
<1>28. R!IsPrefix(replayed', expected) /\ (R!ToSet(replayed') = E => replayed' = expected)
  <2>1. w \in Nat
    BY <1>18
  <2> QED
    BY <1>22, <1>23, <1>26, <1>27, <2>1, Beginning
<1>29. R!TypeOK'
  <2>1. sequence' \in 0..MaxSequence
    BY <1>8, <1>17, <1>18
  <2>2. replay' \in R!CallRecord /\ Len(replay'.page) <= PageLimit
    BY <1>3, <1>11, <1>19, <1>20
  <2> QED
    BY <1>1, <1>8, <1>21, <1>26, <2>1, <2>2 DEF R!TypeOK
<1>30. sequence' = sequence + n
  BY <1>8, <1>9
<1>31. R!Numbered' /\ R!SequencesGrow'
  <2>1. ASSUME NEW e \in log PROVE e.sequence <= sequence + n
    <3>1. e.sequence \in Nat /\ e.sequence <= sequence
      BY <1>1 DEF R!Numbered, R!TypeOK, R!Entry
    <3> QED
      BY <1>11, <3>1
  <2>2. R!SequencesGrow'
    BY <1>21 DEF R!SequencesGrow
  <2> QED
    BY <1>1, <1>8, <1>21, <1>30, <2>1, <2>2 DEF R!Numbered
<1>32. lease.owner = "own" /\ lease.epoch = c.epoch
  BY <1>2 DEF R!Fenced
<1>33. R!Epochs'
  <2>1. ASSUME NEW o \in R!Instance, runs[o].pc = "held"
        PROVE  runs[o].epoch <= lease.epoch /\ ~R!Fenced(o, runs[o].epoch)
    <3>1. runs["own"].pc = "held" => runs["own"].epoch # c.epoch
      BY <1>1, <1>2, <1>9 DEF R!Epochs
    <3> QED
      BY <1>1, <1>32, <2>1, <3>1 DEF R!Epochs, R!Fenced
  <2>2. /\ r.epoch <= lease.epoch
        /\ runs["own"].pc = "held" => runs["own"].epoch # r.epoch
        /\ r.sequence = sequence'
    BY <1>1, <1>2, <1>8, <1>9, <1>17, <1>20 DEF R!Epochs
  <2> QED
    BY <1>8, <1>19, <2>1, <2>2 DEF R!Epochs, R!Fenced
<1>34. R!InHand' = R!InHand
  BY <1>2, <1>8, <1>19, <1>20 DEF R!InHand, R!InRange
<1>35. R!Read'
  <2>1. replay'.pc # "acquire" /\ replay'.after = w
    BY <1>18, <1>19, <1>20
  <2> QED
    BY <1>8, <1>22, <1>23, <1>26, <1>27, <1>34, <2>1 DEF R!Read, R!Ascending
<1>36. R!Paged'
  BY <1>18, <1>19, <1>20 DEF R!Paged
<1>37. R!Through'
  <2>1. ASSUME pc = "finally" PROVE replayed' = expected
    <3>1. n < PageLimit
      BY <1>7, <2>1
    <3>2. ASSUME NEW x \in E PROVE x <= w
      <4>1. x \in Nat /\ w \in Nat /\ w > c.after
        BY <1>14, <1>15, <1>24, <1>25
      <4>2. CASE x > c.after
        BY <1>16, <1>24, <3>1, <4>2
      <4>3. CASE ~(x > c.after)
        BY <1>23, <4>1, <4>3
      <4> QED
        BY <4>2, <4>3
    <3>3. R!ToSet(replayed') = E
      BY <1>27, <3>2
    <3> QED
      BY <1>28, <3>3
  <2> QED
    BY <1>8, <1>19, <1>20, <2>1 DEF R!Through
<1>38. R!ReplayExact'
  BY <1>8, <1>18, <1>19, <1>20, <1>28 DEF R!ReplayExact
<1> QED
  BY <1>29, <1>31, <1>33, <1>35, <1>36, <1>37, <1>38 DEF R!ReplayInv

(* Without the lease the call ends.                                        *)
LEMMA CommitPageKeeps ==
  ASSUME R!ReplayParameters, R!ReplayInv, R!CommitPage
  PROVE  R!ReplayInv'
<1>1. CASE R!Fenced("own", replay.epoch)
  BY <1>1, PageCommitted
<1>2. CASE ~R!Fenced("own", replay.epoch)
  <2>1. PICK c \in R!CallRecord : c = replay /\ Len(c.page) <= PageLimit
    BY DEF R!ReplayInv, R!TypeOK
  <2>2. PICK r : r = replay'
    OBVIOUS
  <2>3. /\ r = [c EXCEPT !.pc = "finally", !.threw = TRUE] /\ replay.pc = "commit"
        /\ UNCHANGED <<sequence, lease, log, runs, queued, expected, replayed>>
    BY <1>2, <2>1, <2>2 DEF R!CommitPage
  <2>4. /\ r \in R!CallRecord /\ r.pc = "finally" /\ r.epoch = c.epoch /\ r.from = c.from
        /\ r.to = c.to /\ r.after = c.after /\ r.page = c.page /\ r.threw
    BY <2>3, ThrowFields
  <2>5. R!Active
    BY <2>3 DEF R!Active
  <2> QED
    BY <2>1, <2>2, <2>3, <2>4, <2>5, CallGoesOn
<1> QED
  BY <1>1, <1>2

(* A run queues and logs an event, or ends.                                *)
LEMMA CommitRunKeeps ==
  ASSUME R!ReplayParameters, R!ReplayInv, NEW o \in R!Instance, NEW t \in Time, R!CommitRun(o, t)
  PROVE  R!ReplayInv'
<1>1. R!TypeOK /\ R!Numbered /\ R!SequencesGrow /\ R!Epochs /\ R!Read /\ R!Paged /\ R!Through /\ R!ReplayExact
  BY DEF R!ReplayInv
<1>2. runs \in [R!Instance -> [pc : {"idle", "held"}, epoch : Nat, sequence : 0..MaxSequence]]
      /\ MaxSequence \in Nat /\ sequence \in 0..MaxSequence
  BY <1>1 DEF R!TypeOK, R!ReplayParameters
<1>3. runs[o].pc = "held" /\ UNCHANGED <<lease, replay, expected, replayed>>
  BY DEF R!CommitRun
<1>4. \A v, e : R!Fenced(v, e)' <=> R!Fenced(v, e)
  BY <1>3 DEF R!Fenced
<1>5. CASE ~R!Fenced(o, runs[o].epoch)
  <2>1. runs' = [runs EXCEPT ![o] = R!Idle] /\ UNCHANGED <<sequence, queued, log>>
    BY <1>5 DEF R!CommitRun
  <2>2. R!Idle \in [pc : {"idle", "held"}, epoch : Nat, sequence : 0..MaxSequence] /\ R!Idle.pc = "idle"
    BY DEF R!Idle, R!ReplayParameters
  <2>3. runs' \in [R!Instance -> [pc : {"idle", "held"}, epoch : Nat, sequence : 0..MaxSequence]]
        /\ \A v \in R!Instance : runs'[v].pc = "held" => runs'[v] = runs[v]
    BY <1>2, <2>1, <2>2
  <2>4. R!TypeOK'
    BY <1>1, <1>3, <2>1, <2>3 DEF R!TypeOK
  <2>5. R!Numbered' /\ R!SequencesGrow'
    BY <1>1, <2>1, NumberedKept
  <2>6. "own" \in R!Instance
    BY DEF R!Instance
  <2>7. R!Epochs'
    BY <1>1, <1>3, <2>1, <2>3, <2>6 DEF R!Epochs, R!Fenced, R!Active
  <2>8. R!Fenced("own", replay.epoch)' => R!Fenced("own", replay.epoch)
    BY <1>3 DEF R!Fenced
  <2>9. R!Read' /\ R!Paged' /\ R!Through' /\ R!ReplayExact'
    BY <1>1, <1>3, <2>1, <2>8, ReadKept
  <2> QED
    BY <2>4, <2>5, <2>7, <2>9 DEF R!ReplayInv
<1>6. CASE R!Fenced(o, runs[o].epoch)
  <2>1. PICK n : n = sequence + 1
    OBVIOUS
  <2>2. runs[o].sequence = sequence
    BY <1>1, <1>3, <1>6 DEF R!Epochs
  <2>3. /\ sequence < MaxSequence /\ sequence' = n /\ queued' = Append(queued, <<n, n>>)
        /\ log' = log \cup {[event |-> n, sequence |-> n, time |-> t]}
        /\ runs' = [runs EXCEPT ![o].sequence = n]
    BY <1>6, <2>1, <2>2 DEF R!CommitRun
  <2>4. n \in 1..MaxSequence /\ n \in 0..MaxSequence /\ sequence \in Nat /\ n \in Nat
    BY <1>2, <2>1, <2>3
  <2>5. PICK e : e = [event |-> n, sequence |-> n, time |-> t]
    OBVIOUS
  <2>6. e \in R!Entry /\ e.event = n /\ e.sequence = n /\ log' = log \cup {e}
    BY <2>3, <2>4, <2>5 DEF R!Entry
  <2>7. /\ runs' \in [R!Instance -> [pc : {"idle", "held"}, epoch : Nat, sequence : 0..MaxSequence]]
        /\ runs'[o].pc = "held" /\ runs'[o].epoch = runs[o].epoch /\ runs'[o].sequence = n
        /\ \A v \in R!Instance : v # o => runs'[v] = runs[v]
    <3>1. PICK r : r = runs[o]
      OBVIOUS
    <3>2. r \in [pc : {"idle", "held"}, epoch : Nat, sequence : 0..MaxSequence]
      BY <1>2, <3>1
    <3>3. PICK s : s = [r EXCEPT !.sequence = n]
      OBVIOUS
    <3>4. /\ s \in [pc : {"idle", "held"}, epoch : Nat, sequence : 0..MaxSequence]
          /\ s.pc = r.pc /\ s.epoch = r.epoch /\ s.sequence = n
      BY <2>4, <3>2, <3>3
    <3>5. runs' = [runs EXCEPT ![o] = s]
      BY <2>3, <3>1, <3>3
    <3> QED
      BY <1>2, <1>3, <3>1, <3>4, <3>5
  <2>8. PICK k : k = <<<<n, n>>>>
    OBVIOUS
  <2>9. /\ queued' \in Seq((1..MaxSequence) \X (1..MaxSequence))
        /\ \A i \in 1..Len(queued)' : queued'[i][2] <= sequence + 1
        /\ \A i \in 2..Len(queued)' : queued'[i - 1][2] < queued'[i][2]
    <3>1. PICK S : S = (1..MaxSequence) \X (1..MaxSequence)
      OBVIOUS
    <3>2. <<n, n>> \in S /\ <<n, n>>[2] = n
      BY <2>4, <3>1
    <3>3. queued \in Seq(S)
      BY <1>1, <3>1 DEF R!TypeOK
    <3>4. k \in Seq(S) /\ Len(k) = 1 /\ k[1][2] = sequence + 1
      BY <2>1, <2>8, <3>2
    <3>5. queued' = queued \o k
      <4>1. PICK x : x = <<n, n>>
        OBVIOUS
      <4>2. x \in S /\ k = <<x>> /\ queued' = Append(queued, x)
        BY <2>3, <2>8, <3>2, <4>1
      <4> QED
        BY ONLY <3>3, <4>2
    <3>6. \A i \in 1..1 : k[i][2] = sequence + i
      BY <3>4
    <3>7. sequence + 1 <= MaxSequence
      BY <1>2, <2>3
    <3> QED
      BY <1>1, <1>2, <3>1, <3>4, <3>5, <3>6, <3>7, QueuedNext
  <2>10. R!TypeOK'
    BY <1>1, <1>3, <2>3, <2>4, <2>6, <2>7, <2>9 DEF R!TypeOK
  <2>11. \A d \in log : d.event = d.sequence /\ d.sequence <= sequence /\ d.sequence \in Nat
    BY <1>1 DEF R!Numbered, R!TypeOK, R!Entry
  <2>12. \A d \in log : d.sequence # n /\ d.sequence <= n
    BY <2>1, <2>4, <2>11
  <2>13. R!Numbered'
    <3>1. R!IsFiniteSet(log')
      BY <1>1, <2>6, FS_AddElement, ReplayCounts DEF R!Numbered
    <3>2. \A d \in log' : d.event = d.sequence /\ d.sequence <= n
      BY <2>4, <2>6, <2>11, <2>12
    <3>3. ASSUME NEW d \in log', NEW f \in log', d.sequence = f.sequence PROVE d = f
      BY <1>1, <2>6, <2>12, <3>3 DEF R!Numbered
    <3> QED
      BY <2>1, <2>3, <2>9, <3>1, <3>2, <3>3 DEF R!Numbered
  <2>14. R!SequencesGrow'
    BY <2>9 DEF R!SequencesGrow
  <2>15. R!Active => ~R!Fenced("own", replay.epoch)
    <3>1. o = "own" => (R!Active => runs[o].epoch # replay.epoch)
      BY <1>1, <1>3 DEF R!Epochs
    <3> QED
      BY <1>6, <3>1 DEF R!Fenced
  <2>16. R!Epochs'
    <3>1. ASSUME NEW v \in R!Instance, runs'[v].pc = "held"
          PROVE  runs'[v].epoch <= lease'.epoch /\ (R!Fenced(v, runs'[v].epoch) => runs'[v].sequence = sequence')
      <4>1. CASE v = o
        BY <1>1, <1>3, <2>3, <2>7, <4>1 DEF R!Epochs
      <4>2. CASE v # o
        <5>1. ~R!Fenced(v, runs'[v].epoch)
          BY <1>6, <4>2 DEF R!Fenced
        <5> QED
          BY <1>1, <1>3, <2>7, <3>1, <4>2, <5>1 DEF R!Epochs
      <4> QED
        BY <4>1, <4>2
    <3>2. ASSUME R!Active'
          PROVE  /\ replay'.epoch <= lease'.epoch
                 /\ runs'["own"].pc = "held" => runs'["own"].epoch # replay'.epoch
                 /\ ~R!Fenced("own", replay'.epoch)
      <4>1. R!Active
        BY <1>3, <3>2 DEF R!Active
      <4>2. "own" \in R!Instance /\ runs'["own"].epoch = runs["own"].epoch /\ runs'["own"].pc = runs["own"].pc
        BY <1>3, <2>7 DEF R!Instance
      <4> QED
        BY <1>1, <1>3, <2>15, <4>1, <4>2 DEF R!Epochs
    <3> QED
      BY <1>3, <3>1, <3>2 DEF R!Epochs, R!Fenced
  <2>17. R!Active /\ R!Fenced("own", replay.epoch)' => R!Fenced("own", replay.epoch) /\ log' = log
    BY <1>3, <2>15 DEF R!Fenced
  <2>18. log \subseteq log'
    BY <2>6
  <2>19. R!Read' /\ R!Paged' /\ R!Through' /\ R!ReplayExact'
    BY <1>1, <1>3, <2>17, <2>18, ReadKept
  <2> QED
    BY <2>10, <2>13, <2>14, <2>16, <2>19 DEF R!ReplayInv
<1> QED
  BY <1>5, <1>6

-----------------------------------------------------------------------------
(* A step of replay(), of a run or of the store keeps the strengthening.   *)
LEMMA ReplayInvKept ==
  ASSUME R!ReplayParameters, R!ReplayInv, [R!Next]_(R!vars)
  PROVE  R!ReplayInv'
<1>1. CASE \/ R!Answer \/ R!Crash \/ \E from, to \in Time : R!Call(from, to)
  BY <1>1, CallEnds
<1>2. CASE R!Try
  BY <1>2, TryKeeps
<1>3. CASE R!LoadState \/ R!ReadPage \/ R!Throw
  BY <1>3, ReadingKeeps
<1>4. CASE R!CommitPage
  BY <1>4, CommitPageKeeps
<1>5. CASE R!Expire \/ UNCHANGED R!vars \/ \E o \in R!Instance : R!Start(o) \/ R!End(o)
  BY <1>5, LeaseStepKeeps
<1>6. CASE \E o \in R!Instance : \E t \in Time : R!CommitRun(o, t)
  BY <1>6, CommitRunKeeps
<1> QED
  BY <1>1, <1>2, <1>3, <1>4, <1>5, <1>6 DEF R!Next

(* A replay queues its range once and in order, under sequences that no    *)
(* run has used or will use, whatever crashes, expires or takes the lease  *)
(* between its steps (replay, acquireWithRetry, commitPoll).               *)
THEOREM ReplayKept ==
  ASSUME R!ReplayParameters
  PROVE  R!Spec => []ReplaySound
<1>1. R!Init => R!ReplayInv
  BY ReplayBegins
<1>2. R!ReplayInv /\ [R!Next]_(R!vars) => R!ReplayInv'
  BY ReplayInvKept
<1>3. R!ReplayInv => R!ReplaySound
  BY DEF R!ReplayInv, R!ReplaySound
<1> QED
  BY <1>1, <1>2, <1>3, PTL DEF R!Spec, ReplaySound

-----------------------------------------------------------------------------
(* A behaviour of MCPaging is one of each of its parts.                    *)
LEMMA PagingBegins ==
  ASSUME PagingInit
  PROVE  Init /\ K!Init /\ I!Init /\ R!Init
BY DEF PagingInit

(* A step of the specification is a step or a stutter of each part.      *)
LEMMA PagingSteps ==
  ASSUME [PagingNext]_<<chosen, vars, keysetVars, streamVars, replayVars>>
  PROVE  [Next]_vars /\ [K!Next]_(K!vars) /\ [I!Next]_(I!vars) /\ [R!Next]_(R!vars)
BY DEF PagingNext, vars, keysetVars, streamVars, replayVars, K!vars, I!vars, R!vars

(* What holds of each part by itself holds of every behaviour of the whole *)
(* (advance, streamIdentities, replay, applySchedule).                     *)
THEOREM PagingPartsSound ==
  ASSUME SchedulerParameters, K!KeysetParameters, \A c \in Config : K!Covered(c),
         I!StreamParameters, R!ReplayParameters
  PROVE  PagingSpec => /\ [](ScheduleInv /\ QuotaKept /\ StreamSound /\ ReplaySound)
                       /\ KeysetSound /\ RetryAfterHeeded
<1>1. PagingSpec => Spec /\ K!Spec /\ I!Spec /\ R!Spec
  BY PagingBegins, PagingSteps, PTL DEF PagingSpec, Spec, K!Spec, I!Spec, R!Spec
<1> QED
  BY <1>1, ScheduleSound, ThrottleHonoured, PacingKeepsQuota, KeysetKept, StreamKept, ReplayKept,
     PTL
=============================================================================
