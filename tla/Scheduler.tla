----------------------------- MODULE Scheduler -----------------------------
(***************************************************************************)
(* The schedule of one key: the pure functions of                          *)
(* src/scheduler/scheduler.ts, and the places of src/core/runner.ts and    *)
(* src/core/engine.ts that apply them, driven by an API that limits the    *)
(* rate and says so. A cycle makes a request for each of its pages, one    *)
(* after the other; only the next cycle is paced. Times are whole units of *)
(* a clock that only moves forward; a live cycle starts at any moment at   *)
(* which the key is due.                                                   *)
(***************************************************************************)
EXTENDS Integers

CONSTANTS
  MinMs, MaxMs,        \* schedule.min and schedule.max
  Adaptive,            \* schedule.adaptive
  JitterPct,           \* schedule.jitter, in per cent
  BaseMs, BackoffMs,   \* schedule.backoff: base and max; its factor is 2
  Failures,            \* circuit.failures
  ProbeMs,             \* circuit.probeEvery
  Limit, Window,       \* the API: requests per window, and its length
  CycleRequests,       \* the requests a cycle makes at most: one per page, if fetch() makes one, of
                       \* maxPagesPerCycle pages (of FULL_SCAN_PAGE_CAP in a snapshotDiff poller)
  RetryAfter,          \* the values of Retry-After
  MaxTime,             \* bound: the clock
  MaxRequests,         \* bound: the requests of a window
  MaxFailures          \* bound: failures in a row

(* What definePoller() accepts, and an API that allows some request.       *)
SchedulerParameters ==
  /\ MinMs \in Nat \ {0} /\ MaxMs \in Nat /\ MinMs <= MaxMs
  /\ Adaptive \in BOOLEAN
  /\ JitterPct \in 0..99
  /\ BaseMs \in Nat /\ BackoffMs \in Nat /\ BaseMs <= BackoffMs
  /\ Failures \in Nat \ {0} /\ ProbeMs \in Nat
  /\ Limit \in Nat \ {0} /\ Window \in Nat \ {0}
  /\ CycleRequests \in Nat \ {0} /\ RetryAfter \subseteq Nat
  /\ MaxTime \in Nat /\ MaxRequests \in Nat /\ MaxFailures \in Nat

VARIABLES
  now,
  schedule,     \* the ScheduleState
  polling,      \* a live cycle is under way
  before,       \* the circuit it found in the store
  requests,     \* its requests so far
  heard,        \* lastRateLimit: the stored headers, or the last its responses had
  api,          \* the API: requests of this window, and when it ends
  calm,         \* history: in this window every response of a live cycle had headers,
                \* no other lane sent a request, and nothing but a success's pacing
                \* made a cycle due
  until         \* history: when the last Retry-After ends; a trigger forgets it

live == <<polling, before, requests, heard>>
vars == <<now, schedule, live, api, calm, until>>

Never == -1     \* null

Larger(a, b) == IF a >= b THEN a ELSE b
Smaller(a, b) == IF a <= b THEN a ELSE b
Clamp(v) == Smaller(MaxMs, Larger(MinMs, v))

-----------------------------------------------------------------------------
(* Waits *)

(* jittered(): rounded to the nearest unit.                                *)
Jittered(interval) ==
  ((100 - JitterPct) * interval + 50) \div 100 .. ((100 + JitterPct) * interval + 50) \div 100

(* backoffDelay() with full jitter.                                        *)
BackoffDelay(attempt) == {delay \in 0..BackoffMs : delay <= BaseMs * 2^(attempt - 1)}

CeilDiv(a, b) == (a + b - 1) \div b

(* Mutant: the shorter of the two waits counts.                            *)
ApplyPacingShorter(wait, rate, t) ==
  IF rate = {} THEN wait
  ELSE LET r == CHOOSE x \in rate : TRUE
           window == r.resetAt - t
       IN IF window <= 0 THEN wait
          ELSE Smaller(wait, IF r.remaining <= 0 THEN window ELSE CeilDiv(window, r.remaining))

(* applyPacing(): what is left of the quota lasts until the window ends.   *)
ApplyPacing(wait, rate, t) ==
  IF rate = {} THEN wait
  ELSE LET r == CHOOSE x \in rate : TRUE
           window == r.resetAt - t
       IN IF window <= 0 THEN wait
          ELSE Larger(wait, IF r.remaining <= 0 THEN window ELSE CeilDiv(window, r.remaining))

-----------------------------------------------------------------------------
(* After a cycle *)

(* Mutant: growth without the cap.                                         *)
NextIntervalUncapped(s, events, truncated) ==
  LET previous == Clamp(s.intervalMs)
  IN IF truncated THEN previous
     ELSE IF ~Adaptive THEN MinMs
     ELSE IF ~events THEN (3 * previous + 1) \div 2
     ELSE Larger(MinMs, (previous + 1) \div 2)

(* The interval: halved by events, grown by half when idle, both rounded.  *)
NextInterval(s, events, truncated) ==
  LET previous == Clamp(s.intervalMs)
  IN IF truncated THEN previous
     ELSE IF ~Adaptive THEN MinMs
     ELSE IF ~events THEN Smaller(MaxMs, (3 * previous + 1) \div 2)
     ELSE Larger(MinMs, (previous + 1) \div 2)

(* afterSuccess()                                                          *)
AfterSuccess(s, events, truncated, rate, wait) ==
  [nextDueAt |-> now + ApplyPacing(wait, rate, now),
   intervalMs |-> NextInterval(s, events, truncated),
   failures |-> 0, circuit |-> "closed", throttledUntil |-> Never, rateLimit |-> rate]

(* afterFailure() of a throttle                                            *)
AfterThrottle(s, wait, rate) ==
  [s EXCEPT !.nextDueAt = now + wait, !.throttledUntil = now + wait, !.rateLimit = rate]

(* Mutant: a failed probe closes the circuit.                              *)
AfterErrorCloses(s, delay, rate) ==
  LET n == s.failures + 1
      open == s.circuit = "closed" /\ n >= Failures
  IN [nextDueAt |-> now + IF open \/ s.circuit # "closed" THEN ProbeMs ELSE delay,
      intervalMs |-> s.intervalMs,
      failures |-> n,
      circuit |-> IF open THEN "open" ELSE "closed",
      throttledUntil |-> IF s.throttledUntil > now THEN s.throttledUntil ELSE Never,
      rateLimit |-> rate]

(* afterFailure() of any other error: a failed probe, the failure that     *)
(* opens the circuit, or a backoff.                                        *)
AfterError(s, delay, rate) ==
  LET n == s.failures + 1
      open == s.circuit # "closed" \/ n >= Failures
  IN [nextDueAt |-> now + IF open THEN ProbeMs ELSE delay,
      intervalMs |-> s.intervalMs,
      failures |-> n,
      circuit |-> IF open THEN "open" ELSE "closed",
      throttledUntil |-> IF s.throttledUntil > now THEN s.throttledUntil ELSE Never,
      rateLimit |-> rate]

(* Mutant: looks at the due time only.                                     *)
IsDueUnthrottled(s) == s.nextDueAt <= now

IsDue(s) == s.nextDueAt <= now /\ s.throttledUntil <= now

BeginProbe(s) == IF s.circuit = "open" THEN [s EXCEPT !.circuit = "half-open"] ELSE s

MakeDue(s) == [s EXCEPT !.nextDueAt = now, !.throttledUntil = Never]

-----------------------------------------------------------------------------
(* The API *)

(* What the headers say after the request that is being answered.          *)
Header == [remaining |-> Larger(0, Limit - api.used), resetAt |-> api.resetAt]

(* A request is counted; its response says what is left then.              *)
Request == api.used < MaxRequests /\ api' = [api EXCEPT !.used = @ + 1]

(* A cycle is over.                                                        *)
Rest == polling' = FALSE /\ before' = "closed" /\ requests' = 0 /\ heard' = {}

(* A cycle that was not paced may fall into this window.                   *)
Unpaced(due) == calm' = (calm /\ due >= api.resetAt)

-----------------------------------------------------------------------------
(* Steps *)

(* runKey() turns to the live lane.                                        *)
Poll ==
  /\ ~polling /\ IsDue(schedule)
  /\ polling' = TRUE
  /\ before' = schedule.circuit /\ requests' = 0 /\ heard' = schedule.rateLimit
  /\ schedule' = BeginProbe(schedule)
  /\ UNCHANGED <<now, api, calm, until>>

(* Mutant: only the first page counts.                                     *)
HearFirst(headers) == IF headers /\ requests = 0 THEN {Header'} ELSE heard

(* onRateLimit(): the last response with headers counts.                   *)
Hear(headers) == IF headers THEN {Header'} ELSE heard

(* The next page, at once: nothing paces it.                               *)
Fetch(headers) ==
  /\ polling /\ requests < CycleRequests
  /\ Request
  /\ requests' = requests + 1
  /\ heard' = Hear(headers)
  /\ calm' = (calm /\ headers)
  /\ UNCHANGED <<now, schedule, polling, before, until>>

(* A request of the reconcile or the backfill lane, after the live one or  *)
(* without it; what its headers say is not kept.                           *)
FetchElsewhere ==
  /\ ~polling
  /\ Request
  /\ calm' = FALSE
  /\ UNCHANGED <<now, schedule, live, until>>

Succeed(events, truncated, wait) ==
  /\ polling
  /\ wait \in IF truncated THEN {0} ELSE Jittered(NextInterval(schedule, events, truncated))
  /\ Rest
  /\ schedule' = AfterSuccess(schedule, events, truncated, heard, wait)
  /\ UNCHANGED <<now, api, calm, until>>

(* The headers of an error's response, or the stored ones.                 *)
ErrorRates == {heard, schedule.rateLimit}

(* A 429, or a 503 with Retry-After; without the header, one interval.     *)
Throttled(wait, rate) ==
  /\ polling /\ rate \in ErrorRates
  /\ Rest
  /\ schedule' = AfterThrottle(schedule, wait, rate)
  /\ until' = now + wait
  /\ Unpaced(now + wait)
  /\ UNCHANGED <<now, api>>

Fail(delay, rate) ==
  /\ polling /\ rate \in ErrorRates /\ schedule.failures < MaxFailures
  /\ delay \in BackoffDelay(schedule.failures + 1)
  /\ Rest
  /\ schedule' = AfterError(schedule, delay, rate)
  /\ Unpaced(schedule'.nextDueAt)
  /\ UNCHANGED <<now, api, until>>

(* openCircuitForHalt(): a poison event, in a cycle or in the drain before *)
(* it. The cycle ends without afterSuccess().                              *)
Halt ==
  /\ Rest
  /\ schedule' = [schedule EXCEPT !.circuit = "open", !.nextDueAt = now + ProbeMs,
                                  !.failures = Larger(@, Failures)]
  /\ Unpaced(now + ProbeMs)
  /\ UNCHANGED <<now, api, until>>

(* A cycle that stop(), a lost lease, a crash or a failing store ends      *)
(* leaves the schedule it began with; a commit has saved that a probe was  *)
(* under way, or there was none.                                           *)
Abandon ==
  /\ polling
  /\ Rest
  /\ schedule' \in {schedule, [schedule EXCEPT !.circuit = before]}
  /\ calm' = FALSE
  /\ UNCHANGED <<now, api, until>>

(* trigger() and resetCursor(), between two runs.                          *)
Trigger ==
  /\ ~polling
  /\ schedule' = MakeDue(schedule)
  /\ until' = Never
  /\ calm' = FALSE
  /\ UNCHANGED <<now, live, api>>

Tick ==
  /\ now < MaxTime
  /\ now' = now + 1
  /\ IF now' >= api.resetAt
     THEN api' = [used |-> 0, resetAt |-> now' + Window] /\ calm' = TRUE
     ELSE UNCHANGED <<api, calm>>
  /\ UNCHANGED <<schedule, live, until>>

-----------------------------------------------------------------------------
(* initialScheduleState()                                                  *)
Init ==
  /\ now = 0
  /\ schedule = [nextDueAt |-> now, intervalMs |-> MinMs, failures |-> 0, circuit |-> "closed",
                 throttledUntil |-> Never, rateLimit |-> {}]
  /\ polling = FALSE /\ before = "closed" /\ requests = 0 /\ heard = {}
  /\ api = [used |-> 0, resetAt |-> Window]
  /\ calm = TRUE
  /\ until = Never

Ending ==
  \/ \E events, truncated \in BOOLEAN :
       \E wait \in {0} \cup Jittered(NextInterval(schedule, events, truncated)) :
         Succeed(events, truncated, wait)
  \/ \E rate \in ErrorRates :
       \/ \E wait \in RetryAfter \cup {Clamp(schedule.intervalMs)} : Throttled(wait, rate)
       \/ \E delay \in BackoffDelay(schedule.failures + 1) : Fail(delay, rate)

Next ==
  \/ Poll \/ Ending \/ Halt \/ Abandon \/ Trigger \/ Tick \/ FetchElsewhere
  \/ \E headers \in BOOLEAN : Fetch(headers)

Spec == Init /\ [][Next]_vars

-----------------------------------------------------------------------------
Rate == [remaining : Nat, resetAt : Nat]

TypeOK ==
  /\ now \in Nat
  /\ schedule \in [nextDueAt : Nat, intervalMs : Nat, failures : Nat,
                   circuit : {"closed", "open", "half-open"},
                   throttledUntil : Nat \cup {Never}, rateLimit : SUBSET Rate]
  /\ polling \in BOOLEAN /\ before \in {"closed", "open", "half-open"}
  /\ requests \in 0..CycleRequests /\ heard \in SUBSET Rate
  /\ api \in [used : Nat, resetAt : Nat]
  /\ calm \in BOOLEAN
  /\ until \in Nat \cup {Never}

(* The interval stays within schedule.min and schedule.max, in spite of    *)
(* the rounding, whatever sequence of events, idle cycles, truncations and *)
(* failures changes it (afterSuccess).                                     *)
IntervalBounded == MinMs <= schedule.intervalMs /\ schedule.intervalMs <= MaxMs

(* The circuit is closed exactly while the failures in a row are fewer     *)
(* than circuit.failures: throttles, triggers, halts and probes that fail, *)
(* halt or are throttled keep the two in step (afterSuccess, afterFailure, *)
(* beginProbe, openCircuitForHalt).                                        *)
CircuitCounts == schedule.circuit = "closed" <=> schedule.failures < Failures

(* No live cycle starts before the time a Retry-After to one named,        *)
(* whatever happens in between, unless an operator triggers it (isDue,     *)
(* afterFailure, openCircuitForHalt). One that another lane was given is   *)
(* not kept.                                                               *)
RetryAfterHeeded == [][Poll => until <= now]_vars

(* What pacing achieves: in a window in which only live cycles send        *)
(* requests, every response carries the headers, and no failure, halt,     *)
(* interruption or trigger makes a cycle due within the window, a cycle    *)
(* starts only while there is quota left, so that the requests exceed the  *)
(* limit by what its last cycle sends at most; with one request per cycle  *)
(* they do not exceed it (applyPacing, afterSuccess, isDue, runCycle).     *)
QuotaKept == calm => api.used < Limit + CycleRequests

(* A cycle that has used the quota up has heard so, and the next is due    *)
(* after the window: what makes QuotaKept inductive.                       *)
Paced ==
  calm => /\ now < api.resetAt
          /\ api.used < Limit + IF polling THEN requests ELSE CycleRequests
          /\ api.used >= Limit => IF polling THEN heard = {Header}
                                  ELSE schedule.nextDueAt >= api.resetAt

(* The schedule of a key keeps its types, its interval its bounds, and its *)
(* circuit and failures stay in step (afterSuccess, afterFailure,          *)
(* beginProbe, openCircuitForHalt).                                        *)
ScheduleInv == TypeOK /\ IntervalBounded /\ CircuitCounts
=============================================================================
