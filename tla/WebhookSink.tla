---------------------------- MODULE WebhookSink -----------------------------
(***************************************************************************)
(* One event on its way through webhookSink() (src/sinks/webhook.ts) as    *)
(* the handler of an engine (handlerConsumer, src/core/consumers.ts): the  *)
(* signed request, the signal composed of the engine's and a timeout       *)
(* (composeAbortSignal, src/http/signal.ts), the answer and its body, and  *)
(* the attempts the dispatcher makes. The receiver is external and uses    *)
(* verifyWebhookSignature(), with the sink's secret. A signature is made   *)
(* of id, timestamp and body, so that it is good for its own request only: *)
(* what is left to verify is the timestamp.                                *)
(***************************************************************************)
EXTENDS Integers

CONSTANTS
  PerSecond,    \* clock ticks per second of the timestamp header
  Tolerance,    \* toleranceSec
  TimeoutTicks, \* timeoutMs
  Tries,        \* delivery.retry.attempts
  MaxClock      \* bound: the clock

WebhookParameters ==
  /\ PerSecond \in Nat \ {0} /\ TimeoutTicks \in Nat \ {0} /\ Tries \in Nat \ {0}
  /\ Tolerance \in Nat /\ MaxClock \in Nat

VARIABLES
  clock,
  manual,       \* delivery.ackMode
  useAny,       \* AbortSignal.any is there
  parent,       \* the engine's signal is aborted
  call,         \* the call of the handler: where it is, its request, its ack()
  timer,        \* the timeout: when it is due, or Off
  listeners,    \* listeners attached to the parent signal
  signal,       \* the composed signal is aborted
  wire,         \* the requests of all tries, and the receiver's answers
  attempts,     \* calls so far
  accepted,     \* history: the receiver has accepted the event
  refused,      \* history: it has found a signature bad
  outcome       \* how the dispatcher has settled the event

vars == <<clock, manual, useAny, parent, call, timer, listeners, signal, wire, attempts,
          accepted, refused, outcome>>

Off == -1
Status == {0, 204, 302, 401, 503}   \* 0: no answer yet
NoCall == [pc |-> "idle", timestamp |-> 0, status |-> 0, acked |-> FALSE]

-----------------------------------------------------------------------------
(* Mutant: every try carries the timestamp of the first.                   *)
TimestampOnce == 0

(* Whole seconds.                                                          *)
Timestamp == clock \div PerSecond

(* verifyWebhookSignature: the timestamp lies within the tolerance.        *)
Verifies(timestamp) ==
  LET age == (clock \div PerSecond) - timestamp
  IN age <= Tolerance /\ -age <= Tolerance

(* Mutant: whatever is no error of the client or the server.               *)
IsSuccessLax(status) == status < 400

(* successStatuses *)
IsSuccess(status) == status >= 200 /\ status < 300

-----------------------------------------------------------------------------
(* The handler *)

(* The dispatcher calls deliver().                                         *)
Deliver ==
  /\ call.pc = "idle" /\ outcome = "pending" /\ attempts < Tries /\ ~parent
  /\ attempts' = attempts + 1
  /\ call' = [NoCall EXCEPT !.pc = "sign", !.timestamp = Timestamp]
  /\ UNCHANGED <<clock, manual, useAny, parent, timer, listeners, signal, wire, accepted, refused,
                 outcome>>

(* composeAbortSignal(): a timer, and listeners where AbortSignal.any is   *)
(* missing; a signal that is aborted already aborts the result at once.    *)
(* fetch() then sends the request, or rejects.                             *)
Send ==
  /\ call.pc = "sign"
  /\ timer' = clock + TimeoutTicks
  /\ listeners' = IF useAny \/ parent THEN 0 ELSE 1
  /\ signal' = parent
  /\ wire' = IF parent THEN wire
             ELSE wire \cup {[try |-> attempts, timestamp |-> call.timestamp, status |-> 0]}
  /\ call' = [call EXCEPT !.pc = IF parent THEN "threw" ELSE "fetch"]
  /\ UNCHANGED <<clock, manual, useAny, parent, attempts, accepted, refused, outcome>>

(* The status of the answer; the body is still open.                       *)
Respond ==
  /\ call.pc = "fetch" /\ ~signal
  /\ \E r \in wire :
       /\ r.try = attempts /\ r.status # 0
       /\ call' = [call EXCEPT !.pc = "body", !.status = r.status]
  /\ UNCHANGED <<clock, manual, useAny, parent, timer, listeners, signal, wire, attempts, accepted,
                 refused, outcome>>

(* The body of a success is discarded, then ack(); that of an error is     *)
(* read as far as it comes, and the call throws.                           *)
Finish ==
  /\ call.pc = "body"
  /\ call' = IF IsSuccess(call.status) THEN [call EXCEPT !.pc = "returned", !.acked = TRUE]
             ELSE [call EXCEPT !.pc = "threw"]
  /\ UNCHANGED <<clock, manual, useAny, parent, timer, listeners, signal, wire, attempts, accepted,
                 refused, outcome>>

(* fetch() rejects: the signal, or the network. The request may be under   *)
(* way still.                                                              *)
Reject ==
  /\ call.pc = "fetch"
  /\ call' = [call EXCEPT !.pc = "threw"]
  /\ UNCHANGED <<clock, manual, useAny, parent, timer, listeners, signal, wire, attempts, accepted,
                 refused, outcome>>

(* Mutant: only a call that returns disposes of its signal.                *)
DisposeOnReturn ==
  /\ timer' = IF call.pc = "returned" THEN Off ELSE timer
  /\ listeners' = IF call.pc = "returned" THEN 0 ELSE listeners

(* dispose() *)
Dispose == timer' = Off /\ listeners' = 0

(* handlerConsumer: the call returns, and in manual mode has called ack(). *)
Acked == call.pc = "returned" /\ (manual => call.acked)

(* The finally block, and what the dispatcher makes of it: acknowledged,   *)
(* tried again, or parked after the last try.                              *)
Settle ==
  /\ call.pc \in {"returned", "threw"}
  /\ Dispose
  /\ outcome' = IF Acked THEN "acked" ELSE IF attempts < Tries THEN "pending" ELSE "parked"
  /\ call' = NoCall /\ signal' = FALSE
  /\ UNCHANGED <<clock, manual, useAny, parent, wire, attempts, accepted, refused>>

-----------------------------------------------------------------------------
(* Signals, the receiver and time *)

Timeout ==
  /\ timer # Off /\ timer <= clock
  /\ timer' = Off /\ signal' = TRUE
  /\ UNCHANGED <<clock, manual, useAny, parent, call, listeners, wire, attempts, accepted, refused,
                 outcome>>

(* stop() of the engine.                                                   *)
AbortParent ==
  /\ ~parent
  /\ parent' = TRUE
  /\ signal' = (signal \/ call.pc \in {"fetch", "body"})
  /\ UNCHANGED <<clock, manual, useAny, call, timer, listeners, wire, attempts, accepted, refused,
                 outcome>>

(* A request arrives, now or long after its call was given up; the         *)
(* receiver verifies it, and answers.                                      *)
Receive(r, status) ==
  /\ r.status = 0
  /\ LET good == Verifies(r.timestamp)
     IN /\ good \/ status = 401
        /\ accepted' = (accepted \/ (good /\ status \in 200..299))
        /\ refused' = (refused \/ (~good /\ r.try = attempts /\ call.pc = "fetch"))
  /\ wire' = (wire \ {r}) \cup {[r EXCEPT !.status = status]}
  /\ UNCHANGED <<clock, manual, useAny, parent, call, timer, listeners, signal, attempts, outcome>>

(* The event loop runs a timer and a rejection when they are due.          *)
Tick ==
  /\ clock < MaxClock
  /\ timer # Off => clock < timer
  /\ call.pc \in {"idle", "fetch", "body"} /\ ~(signal /\ call.pc = "fetch")
  /\ clock' = clock + 1
  /\ UNCHANGED <<manual, useAny, parent, call, timer, listeners, signal, wire, attempts, accepted,
                 refused, outcome>>

-----------------------------------------------------------------------------
Init ==
  /\ clock = 0 /\ manual \in BOOLEAN /\ useAny \in BOOLEAN /\ parent = FALSE
  /\ call = NoCall /\ timer = Off /\ listeners = 0 /\ signal = FALSE /\ wire = {}
  /\ attempts = 0 /\ accepted = FALSE /\ refused = FALSE /\ outcome = "pending"

Next ==
  \/ Deliver \/ Send \/ Respond \/ Finish \/ Reject \/ Settle \/ Timeout \/ AbortParent \/ Tick
  \/ \E r \in wire, status \in Status \ {0} : Receive(r, status)

Spec == Init /\ [][Next]_vars

-----------------------------------------------------------------------------
TypeOK ==
  /\ clock \in 0..MaxClock /\ timer \in Nat \cup {Off} /\ listeners \in 0..1
  /\ call \in [pc : {"idle", "sign", "fetch", "body", "returned", "threw"}, timestamp : Nat,
               status : Status, acked : BOOLEAN]
  /\ wire \subseteq [try : 1..attempts, timestamp : Nat, status : Status]
  /\ attempts \in 0..Tries
  /\ outcome \in {"pending", "acked", "parked"}

(* An event that is acknowledged has been accepted by the receiver, in     *)
(* spite of late answers to tries that were given up (webhookSink).        *)
AckedWasAccepted == outcome = "acked" => accepted

(* A call that is over leaves no timer and no listener on the engine's     *)
(* signal, which lives as long as the engine (composeAbortSignal).         *)
NothingLeft == call.pc = "idle" => timer = Off /\ listeners = 0

(* A try whose answer is awaited verifies, however late it is made: the    *)
(* request is signed anew for it and arrives within the timeout            *)
(* (webhookSink, verifyWebhookSignature).                                  *)
TriesVerify == TimeoutTicks <= Tolerance * PerSecond => ~refused

(* A webhook's tries: what is acknowledged was accepted, a late try still  *)
(* verifies, and no try leaves a timer or a listener behind (webhookSink,  *)
(* composeAbortSignal).                                                    *)
SinkSound == TypeOK /\ AckedWasAccepted /\ NothingLeft /\ TriesVerify

-----------------------------------------------------------------------------
(* Strengthenings the proof of SinkSound needs (DaemonProofs).             *)

(* Success was seen by the receiver before anyone here hears of it.        *)
SuccessAccepted ==
  /\ \A r \in wire : IsSuccess(r.status) => accepted
  /\ call.pc = "body" /\ IsSuccess(call.status) => accepted
  /\ call.pc = "returned" \/ outcome = "acked" => accepted

(* A try has a timer and a listener from when it is sent until it is       *)
(* settled.                                                                *)
Composed ==
  /\ call.pc # "idle" => attempts > 0
  /\ call.pc \in {"idle", "sign"} => timer = Off /\ listeners = 0

(* No request of this try exists before it is sent, and then it carries    *)
(* the timestamp of the call.                                              *)
SignedAnew ==
  /\ call.pc = "sign" => call.timestamp = Timestamp /\ \A r \in wire : r.try < attempts
  /\ call.pc = "fetch" => \A r \in wire : r.try = attempts => r.timestamp = call.timestamp

(* A try that awaits its answer was sent no longer ago than the timeout.   *)
InTime ==
  call.pc = "fetch" =>
    \E sent \in 0..clock :
      /\ call.timestamp = sent \div PerSecond
      /\ clock <= sent + TimeoutTicks
      /\ IF timer = Off THEN signal ELSE timer = sent + TimeoutTicks

SinkInv == TypeOK /\ SuccessAccepted /\ Composed /\ SignedAnew /\ InTime /\ TriesVerify
=============================================================================
