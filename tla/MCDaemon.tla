------------------------------ MODULE MCDaemon ------------------------------
(* The daemon, the lanes of a key, its heartbeat, a subscribe() iterator,  *)
(* a webhook, the telemetry, a serverless pass, the tests' clock and the   *)
(* wiring of an application, on small instances: a behaviour takes the     *)
(* steps of one of them, chosen in its first state, and the others stay as *)
(* they begin.                                                             *)
EXTENDS Engine

CONSTANTS
  Feed, MaxPages, Reconciles, MaxOps, MaxMishaps,
  Event, NoEvent, Concurrency, MaxAttempts,
  TtlMs, RenewEveryMs, Latency, MaxThrows, MaxNow,
  PerSecond, Tolerance, TimeoutTicks, Tries, MaxClock,
  MaxSpans,
  PassKey, NoKey, Workers, MaxDuration,
  Delay, MaxSet, MaxFired, MaxMoment,
  Definition, Called, Instance, ClassOf, Decorated, Nobody, Elsewhere, MaxModules, MaxWrappers, p1, p2

VARIABLES
  chosen,
  head, stored, laneDue, run, op, ops, mishaps, committed, skipTo, seen, wanted, quiet,
  puller, handedOut, queue, closed, attached, leaving, loop, current, promise, attempts,
  draining, offered, handled, thrown,
  time, lease, handle, stopped, lost, request, beating, beatAborted, takenAt, throws,
  clock, manual, useAny, parent, call, timeout, listeners, signal, wire, tries, accepted, refused,
  outcome,
  tel, circuit, cycle, ends, astray, unheard,
  elapsed, deadline, asked, unvisited, worker, polled, result, pass, visits,
  moment, seq, timers, awaited, last,
  contributed, wrappers, consumer, before, wired

L == INSTANCE Lanes WITH nextDue <- laneDue

U == INSTANCE Subscribe WITH inflight <- handedOut, running <- draining

K == INSTANCE LeaseKeeper WITH cycle <- beating, aborted <- beatAborted

W == INSTANCE WebhookSink WITH timer <- timeout, attempts <- tries

T == INSTANCE Telemetry WITH outcome <- ends

P == INSTANCE Tick WITH Key <- PassKey, pending <- unvisited

C == INSTANCE VirtualClock WITH time <- moment, call <- awaited

N == INSTANCE Wiring WITH Name <- {p1, p2}

ASSUME DaemonAssumption ==
  /\ L!LanesParameters /\ U!SubscribeParameters /\ K!KeeperParameters
  /\ W!WebhookParameters /\ P!TickParameters

laneVars ==
  <<head, stored, laneDue, run, op, ops, mishaps, committed, skipTo, seen, wanted, quiet>>
iteratorVars ==
  <<puller, handedOut, queue, closed, attached, leaving, loop, current, promise, attempts,
    draining, offered, handled, thrown>>
keeperVars == <<time, lease, handle, stopped, lost, request, beating, beatAborted, takenAt, throws>>
webhookVars ==
  <<clock, manual, useAny, parent, call, timeout, listeners, signal, wire, tries, accepted,
    refused, outcome>>
telemetryVars == <<tel, circuit, cycle, ends, astray, unheard>>
tickVars == <<elapsed, deadline, asked, unvisited, worker, polled, result, pass, visits>>
clockVars == <<moment, seq, timers, awaited, last>>
wiringVars == <<contributed, wrappers, consumer, before, wired>>
kit == <<tickVars, clockVars, wiringVars>>
others == <<keeperVars, webhookVars, telemetryVars, kit>>
parts == <<vars, laneVars, iteratorVars>>

(* Of an alias the explorer looks at nothing else.                         *)
Passed(w) == w.static /\ ~w.factory

DaemonInit ==
  /\ chosen \in {"engine", "lanes", "subscribe", "keeper", "webhook", "telemetry",
                "tick", "clock", "wiring"}
  /\ Init /\ (chosen # "engine" => listed = {})
  /\ L!Init /\ U!Init
  /\ K!Init /\ T!Init /\ (chosen # "telemetry" => circuit = "closed")
  /\ W!Init /\ (chosen # "webhook" => manual /\ useAny)
  /\ P!Init /\ (chosen # "tick" => asked = {} /\ deadline = P!Never)
  /\ C!Init
  /\ N!Init /\ (chosen # "wiring" => contributed = <<>> /\ wrappers = <<>>)
  /\ \A i \in DOMAIN wrappers : wrappers[i].isAlias => Passed(wrappers[i])

DaemonNext ==
  /\ UNCHANGED chosen
  /\ \/ chosen = "engine" /\ Next /\ UNCHANGED <<laneVars, iteratorVars, others>>
     \/ chosen = "lanes" /\ L!Next /\ UNCHANGED <<vars, iteratorVars, others>>
     \/ chosen = "subscribe" /\ U!Next /\ UNCHANGED <<vars, laneVars, others>>
     \/ chosen = "keeper" /\ K!Next /\ UNCHANGED <<parts, webhookVars, telemetryVars, kit>>
     \/ chosen = "webhook" /\ W!Next /\ UNCHANGED <<parts, keeperVars, telemetryVars, kit>>
     \/ chosen = "telemetry" /\ T!Next /\ UNCHANGED <<parts, keeperVars, webhookVars, kit>>
     \/ /\ UNCHANGED <<parts, keeperVars, webhookVars, telemetryVars>>
        /\ \/ chosen = "tick" /\ P!Next /\ UNCHANGED <<clockVars, wiringVars>>
           \/ chosen = "clock" /\ C!Next /\ UNCHANGED <<tickVars, wiringVars>>
           \/ chosen = "wiring" /\ N!Next /\ UNCHANGED <<tickVars, clockVars>>

(* Each one's fairness; that of the engine says nothing before start().    *)
DaemonSpec ==
  /\ DaemonInit /\ [][DaemonNext]_<<chosen, parts, others>>
  /\ Fairness
  /\ WF_laneVars(chosen = "lanes" /\ L!Running)
  /\ WF_laneVars(chosen = "lanes" /\ L!Calling)
  /\ WF_laneVars(chosen = "lanes" /\ L!Ticking)
  /\ WF_iteratorVars(chosen = "subscribe" /\ U!Ask)

(* The live cursor covers only what was committed, a backfill marked done  *)
(* has walked its range, a trigger() leads to a run (persistLane,          *)
(* trigger): see Lanes.                                                    *)
LanesSound == L!LanesSound

(* Backfill and reconcile get their cycles (runKey, see Lanes), and every  *)
(* event sent to a loop that goes on is settled (deliver, see Subscribe).  *)
PartsServed == (chosen = "lanes" => L!LanesServed) /\ U!EventuallySettled

(* Nobody waits in vain, and only what the loop has had is acknowledged    *)
(* (deliver, next, close): see Subscribe.                                  *)
IteratorSound == U!IteratorSound

(* A cycle keeps its lease or learns of its loss (beat, renewNow, stop):   *)
(* see LeaseKeeper.                                                        *)
KeeperSound == K!KeeperSound

(* Acknowledged webhooks were accepted, late tries verify, nothing is left *)
(* behind (webhookSink): see WebhookSink.                                  *)
SinkSound == W!SinkSound

(* Spans and gauge tell what happened (otelHooks): see Telemetry.          *)
TelemetrySound == T!TelemetrySound

(* A pass is complete or timed out, and returns when nothing runs (tick):  *)
(* see Tick.                                                               *)
PassSound == P!PassSound

(* Timers fire in order and in time (advance): see VirtualClock.           *)
ClockSound == C!ClockSound

(* Well-formed applications get their handlers, others none (attach): see  *)
(* Wiring.                                                                 *)
WiredExactly == N!WiredExactly

MCCalled == [d \in Definition |-> IF d = "other" THEN p2 ELSE p1]
MCClassOf == [i \in Instance |-> IF i = "again" THEN "one" ELSE i]
MCDecorated == [both |-> {p1, p2}, one |-> {p1}]
=============================================================================
