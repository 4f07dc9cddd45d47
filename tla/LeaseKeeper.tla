---------------------------- MODULE LeaseKeeper -----------------------------
(***************************************************************************)
(* The heartbeat of a cycle (src/core/lease-keeper.ts) in time: a timer    *)
(* that renews the lease, the renewal between two pages, both of them      *)
(* requests that take up to Latency, whose answer may get lost, and an end *)
(* of the cycle at any moment. The event loop runs a timer when it is due; *)
(* Runner has the lease of a process that stalls.                          *)
(***************************************************************************)
EXTENDS Integers

CONSTANTS
  TtlMs, RenewEveryMs,
  Latency,      \* the longest request
  MaxThrows,    \* bound: requests without an answer
  MaxNow        \* bound: the clock

KeeperParameters ==
  /\ TtlMs \in Nat \ {0} /\ RenewEveryMs \in Nat \ {0}
  /\ Latency \in Nat /\ MaxThrows \in Nat /\ MaxNow \in Nat

VARIABLES
  time,
  lease,        \* in the store: the holder and the expiry
  handle,       \* the timer: when it is due, or None
  stopped, lost,
  request,      \* the renewal of beat(), and that of renewNow()
  cycle,        \* running, ended (stop() was called), released
  aborted,      \* the cycle's signal
  takenAt,      \* history: when another instance took the lease
  throws        \* history: requests without an answer, all and since then

vars == <<time, lease, handle, stopped, lost, request, cycle, aborted, takenAt, throws>>

None == -1
Caller == {"beat", "now"}
NoRequest == [pc |-> "idle", at |-> 0, ok |-> FALSE]

-----------------------------------------------------------------------------
(* Mutant: the next beat is scheduled, stopped or not.                     *)
ScheduleBlindly == handle' = time + RenewEveryMs

(* schedule() *)
Schedule == handle' = IF stopped THEN handle ELSE time + RenewEveryMs

(* stop() *)
Stop == stopped' = TRUE /\ handle' = None

Send(c) == request' = [request EXCEPT ![c] = [pc |-> "sent", at |-> time, ok |-> FALSE]]

(* The timer runs beat(); stop() has cleared it if it was called.          *)
Beat ==
  /\ handle # None /\ handle <= time
  /\ handle' = None
  /\ Send("beat")
  /\ UNCHANGED <<time, lease, stopped, lost, cycle, aborted, takenAt, throws>>

(* renewNow() after a page; a keeper that has stopped sends nothing.       *)
RenewNow ==
  /\ cycle = "running" /\ ~stopped /\ request["now"].pc = "idle"
  /\ Send("now")
  /\ UNCHANGED <<time, lease, handle, stopped, lost, cycle, aborted, takenAt, throws>>

(* renewLease() in the store: the lease counts from when it was asked for. *)
Renew(c) ==
  /\ request[c].pc = "sent"
  /\ request' = [request EXCEPT ![c].pc = "answered", ![c].ok = lease.holder = "me"]
  /\ lease' = IF lease.holder = "me" THEN [lease EXCEPT !.expiresAt = request[c].at + TtlMs]
              ELSE lease
  /\ UNCHANGED <<time, handle, stopped, lost, cycle, aborted, takenAt, throws>>

(* Mutant: a refused beat is logged, and the keeper goes on.               *)
RefusedGoesOn(c) ==
  /\ request[c].pc = "answered" /\ ~request[c].ok
  /\ request' = [request EXCEPT ![c] = NoRequest]
  /\ IF c = "beat" THEN Schedule ELSE UNCHANGED handle
  /\ UNCHANGED <<time, lease, stopped, lost, cycle, aborted, takenAt, throws>>

(* The store says no: the lease is lost, the cycle is aborted.             *)
Refused(c) ==
  /\ request[c].pc = "answered" /\ ~request[c].ok
  /\ request' = [request EXCEPT ![c] = NoRequest]
  /\ lost' = TRUE /\ aborted' = TRUE /\ Stop
  /\ UNCHANGED <<time, lease, cycle, takenAt, throws>>

(* The store says yes; a beat schedules the next one.                      *)
Renewed(c) ==
  /\ request[c].pc = "answered" /\ request[c].ok
  /\ request' = [request EXCEPT ![c] = NoRequest]
  /\ IF c = "beat" THEN Schedule ELSE UNCHANGED handle
  /\ UNCHANGED <<time, lease, stopped, lost, cycle, aborted, takenAt, throws>>

(* Mutant: a beat that throws is the last.                                 *)
ThrewStops(c) ==
  /\ request[c].pc \in {"sent", "answered"} /\ throws.all < MaxThrows
  /\ request' = [request EXCEPT ![c] = NoRequest]
  /\ throws' = [all |-> throws.all + 1, since |-> throws.since + IF takenAt # None THEN 1 ELSE 0]
  /\ IF c = "beat" THEN UNCHANGED <<stopped, handle, cycle>> ELSE Stop /\ cycle' = "ended"
  /\ UNCHANGED <<time, lease, lost, aborted, takenAt>>

(* The request throws, done or not: beat() tries again later, renewNow()   *)
(* fails the cycle.                                                        *)
Threw(c) ==
  /\ request[c].pc \in {"sent", "answered"} /\ throws.all < MaxThrows
  /\ request' = [request EXCEPT ![c] = NoRequest]
  /\ throws' = [all |-> throws.all + 1, since |-> throws.since + IF takenAt # None THEN 1 ELSE 0]
  /\ IF c = "beat" THEN Schedule /\ UNCHANGED <<stopped, cycle>> ELSE Stop /\ cycle' = "ended"
  /\ UNCHANGED <<time, lease, lost, aborted, takenAt>>

(* The cycle ends: stop(), and then releaseLease().                        *)
EndCycle ==
  /\ cycle = "running"
  /\ cycle' = "ended" /\ Stop
  /\ UNCHANGED <<time, lease, lost, request, aborted, takenAt, throws>>

Release ==
  /\ cycle = "ended"
  /\ cycle' = "released"
  /\ lease' = IF lease.holder = "me" THEN [holder |-> "nobody", expiresAt |-> time] ELSE lease
  /\ UNCHANGED <<time, handle, stopped, lost, request, aborted, takenAt, throws>>

(* Another instance acquires the lease.                                    *)
TakeOver ==
  /\ lease.holder # "other" /\ lease.expiresAt <= time
  /\ lease' = [holder |-> "other", expiresAt |-> time + TtlMs]
  /\ takenAt' = time
  /\ UNCHANGED <<time, handle, stopped, lost, request, cycle, aborted, throws>>

(* Time passes, unless a timer or an answer is due.                        *)
Tick ==
  /\ time < MaxNow
  /\ handle # None => time < handle
  /\ \A c \in Caller : request[c].pc = "idle" \/ time < request[c].at + Latency
  /\ time' = time + 1
  /\ UNCHANGED <<lease, handle, stopped, lost, request, cycle, aborted, takenAt, throws>>

-----------------------------------------------------------------------------
(* acquireLease() has granted the lease, and start() has been called.      *)
Init ==
  /\ time = 0
  /\ lease = [holder |-> "me", expiresAt |-> TtlMs]
  /\ handle = RenewEveryMs /\ stopped = FALSE /\ lost = FALSE
  /\ request = [c \in Caller |-> NoRequest]
  /\ cycle = "running" /\ aborted = FALSE
  /\ takenAt = None /\ throws = [all |-> 0, since |-> 0]

Next ==
  \/ Beat \/ RenewNow \/ EndCycle \/ Release \/ TakeOver \/ Tick
  \/ \E c \in Caller : Renew(c) \/ Refused(c) \/ Renewed(c) \/ Threw(c)

Spec == Init /\ [][Next]_vars

-----------------------------------------------------------------------------
TypeOK ==
  /\ time \in Nat /\ handle \in Nat \cup {None}
  /\ lease \in [holder : {"me", "other", "nobody"}, expiresAt : Nat]
  /\ stopped \in BOOLEAN /\ lost \in BOOLEAN /\ aborted \in BOOLEAN
  /\ request \in [Caller -> [pc : {"idle", "sent", "answered"}, at : Nat, ok : BOOLEAN]]
  /\ cycle \in {"running", "ended", "released"}
  /\ takenAt \in Nat \cup {None} /\ throws \in [all : Nat, since : Nat]

(* Renewals a cycle can miss in a row without losing its lease. A renewal  *)
(* that is overtaken by a later one sets the expiry back, by a Latency.    *)
Spare(n) == (n + 1) * (RenewEveryMs + Latency) + 2 * Latency < TtlMs

(* While a cycle runs its lease does not run out, as long as no more       *)
(* renewals go unanswered than the time to live has room for (beat).       *)
LeaseKept == cycle = "running" /\ Spare(throws.all) => lease.holder = "me" /\ lease.expiresAt > time

(* A cycle whose lease was taken over is aborted within a heartbeat, plus  *)
(* one for each renewal that goes unanswered (beat, renewNow).             *)
LossNoticed ==
  /\ cycle = "running" /\ takenAt # None
  /\ time > takenAt + (throws.since + 1) * (RenewEveryMs + Latency) + Latency
  => aborted

(* A keeper that has stopped leaves no timer behind, whatever was under    *)
(* way when it stopped (stop, schedule).                                   *)
NoStrayTimer == cycle # "running" \/ aborted => handle = None

(* The heartbeat: a running cycle keeps its lease or learns of its loss in *)
(* time, and a stopped keeper leaves no timer (beat, renewNow, stop).      *)
KeeperSound == TypeOK /\ LeaseKept /\ LossNoticed /\ NoStrayTimer

-----------------------------------------------------------------------------
(* Strengthenings the proof of KeeperSound needs (DaemonProofs).           *)

(* The longest n + 1 rounds of the heartbeat: a wait and a request each.   *)
Rounds(n) == (n + 1) * (RenewEveryMs + Latency)

(* A keeper that has not stopped waits for its timer or for the answer to  *)
(* its beat, neither of them overdue.                                      *)
Beating ==
  /\ stopped <=> cycle # "running" \/ aborted
  /\ stopped => handle = None
  /\ ~stopped => (handle = None <=> request["beat"].pc # "idle")
  /\ handle # None => time <= handle /\ handle <= time + RenewEveryMs
  /\ \A c \in Caller : request[c].pc # "idle" =>
       request[c].at <= time /\ time <= request[c].at + Latency

(* The lease is taken over once, and given up only by a cycle that ended.  *)
Held ==
  /\ takenAt # None <=> lease.holder = "other"
  /\ takenAt <= time
  /\ lease.holder = "nobody" => cycle # "running"

(* While the lease has room for what was missed, the expiry lies far       *)
(* enough behind the timer or the beat under way.                          *)
Renewing ==
  ~stopped /\ Spare(throws.all) =>
    LET granted == lease.expiresAt - TtlMs
        beat == request["beat"]
    IN /\ lease.holder = "me"
       /\ \A c \in Caller : request[c].pc = "answered" => request[c].ok
       /\ handle # None => handle <= granted + Latency + Rounds(throws.all)
       /\ beat.pc = "sent" => beat.at <= granted + Latency + Rounds(throws.all)
       /\ beat.pc = "answered" => beat.at <= granted + Latency

(* After a takeover the timer or the beat under way is soon due; an answer *)
(* that still says yes is older than the takeover.                         *)
Noticing ==
  ~stopped /\ takenAt # None =>
    LET beat == request["beat"]
    IN /\ handle # None => handle <= takenAt + Rounds(throws.since)
       /\ beat.pc # "idle" => beat.at <= takenAt + Rounds(throws.since)
       /\ beat.pc = "answered" /\ beat.ok => beat.at <= takenAt

(* No renewal is refused as long as the lease has that room.               *)
Unrefused == cycle = "running" /\ Spare(throws.all) => ~stopped

KeeperInv == TypeOK /\ Beating /\ Held /\ Renewing /\ Unrefused /\ Noticing
=============================================================================
