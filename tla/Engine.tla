------------------------------- MODULE Engine -------------------------------
(***************************************************************************)
(* The daemon of src/core/engine.ts: start(), the loop that starts a run   *)
(* for every key that is due, its wake-ups and its timer, the refresh of   *)
(* the partitions, stop(), and the operations that make a key due or skip  *)
(* it. JavaScript runs one callback at a time; what interleaves is what    *)
(* stands between two awaits. loop() awaits the partitions before it looks *)
(* at its keys, so several of its calls can be under way at once.          *)
(*                                                                         *)
(* Time is abstract: a due time lies ahead ("later") until DueComes, and   *)
(* an armed timer may fire at any moment. A call of loop() compares the    *)
(* due times with the moment it started: it starts the keys that were due  *)
(* then, and may or may not start one that came due while it waited.       *)
(*                                                                         *)
(* What loop() and start() await may be rejected, and nothing in them      *)
(* catches that. loop() is called with `void`: its rejection is unhandled, *)
(* and the process goes on only where the host says so. The steps after    *)
(* LoopFails are those of such a host.                                     *)
(***************************************************************************)
EXTENDS Integers, Sequences, FiniteSets

CONSTANTS
  Key,          \* the partitions of a poller
  Pauses,       \* whether operators pause keys
  MaxLoops,     \* bound: calls of loop() under way
  MaxTimers,    \* bound: armed timers that are counted
  MaxChanges    \* bound: changes of the tenant list, starts, pauses, removals, failures

ASSUME EngineAssumption ==
  /\ Pauses \in BOOLEAN
  /\ MaxLoops \in Nat \ {0} /\ MaxTimers \in Nat \ {0} /\ MaxChanges \in Nat

VARIABLES
  status,       \* idle, running, stopping, stopped
  starting,     \* the start() under way, if any: what its refresh will get
  wake,         \* wakeRequested: a microtask that calls loop() is queued
  timer,        \* this.timer is set
  armed,        \* timers armed, the one of this.timer included
  loops,        \* calls of loop() that await the partitions
  listed,       \* what partitions() returns at present
  known,        \* rt.partitions
  paused,       \* the keys whose stored state is paused
  nextDue,      \* the due times: none, later, due
  inflight,     \* the map of runs in flight
  runs,         \* runs under way, per key
  pending,      \* the runs stop() waits for
  aborted,      \* the abort signal of the runs
  hung,         \* the keys whose run may take for ever
  rejected,     \* history: start() or loop() was rejected, and nothing woke the daemon since
  changes       \* changes so far

timerVars == <<wake, timer, armed, rejected>>
tenantVars == <<listed, known, paused>>
vars == <<status, starting, timerVars, loops, tenantVars, nextDue, inflight, runs, pending,
          aborted, hung, changes>>

Change == changes < MaxChanges /\ changes' = changes + 1

-----------------------------------------------------------------------------
(* Wake-ups and the timer *)

(* requestWake()                                                           *)
RequestWake ==
  /\ wake' = (wake \/ status = "running")
  /\ rejected' = (rejected /\ status # "running")

ClearTimer ==
  /\ timer' = FALSE
  /\ armed' = IF timer THEN armed - 1 ELSE armed

(* setTimeout: the handle in this.timer, if any, is overwritten.           *)
ArmTimer ==
  /\ timer' = TRUE
  /\ armed' = IF armed < MaxTimers THEN armed + 1 ELSE armed
  /\ rejected' = FALSE

(* What refreshPartitions() has to go on: the list it asks partitions()    *)
(* for, or the one at hand (it is young enough, or the call failed).       *)
Refreshed == {[fresh |-> TRUE, list |-> listed], [fresh |-> FALSE, list |-> known]}

(* loop() until its await: the keys due by now, and the list it will get.  *)
CallLoop(got) ==
  /\ Len(loops) < MaxLoops
  /\ loops' = Append(loops, [due |-> {k \in Key : nextDue[k] # "later"}, got |-> got])
  /\ rejected' = FALSE

(* The microtask of requestWake().                                         *)
WakeUp(got) ==
  /\ wake
  /\ wake' = FALSE
  /\ IF status = "running" THEN ClearTimer /\ CallLoop(got)
     ELSE UNCHANGED <<timer, armed, rejected, loops>>
  /\ UNCHANGED <<status, starting, tenantVars, nextDue, inflight, runs, pending, aborted, hung,
                 changes>>

(* A timer fires, be it the one of this.timer or one whose handle was      *)
(* overwritten: the callback clears this.timer in both cases.              *)
TimerFires(got) ==
  /\ armed > 0
  /\ armed' = armed - 1
  /\ timer' = FALSE
  /\ IF status = "running" THEN CallLoop(got) ELSE UNCHANGED <<rejected, loops>>
  /\ UNCHANGED <<wake, status, starting, tenantVars, nextDue, inflight, runs, pending, aborted,
                 hung, changes>>

-----------------------------------------------------------------------------
(* Partitions *)

(* The end of refreshPartitions(): partitions that are gone are paused in  *)
(* the store and forgotten, new ones are due.                              *)
DueAfter(got) ==
  [k \in Key |->
     IF ~got.fresh THEN nextDue[k]
     ELSE IF k \in known \ got.list THEN "none"
     ELSE IF k \in got.list /\ nextDue[k] = "none" THEN "due"
     ELSE nextDue[k]]

Refresh(got) ==
  IF got.fresh THEN /\ known' = got.list
                    /\ paused' = paused \cup (known \ got.list)
  ELSE UNCHANGED <<known, paused>>

(* refreshPartitions() is rejected: the list is refused before anything is *)
(* done, or the pausing of a partition fails, which may or may not have    *)
(* taken effect. The partitions known stay, those paused so far included.  *)
PartlyRefreshed(got) ==
  /\ got.fresh
  /\ \E saved \in SUBSET (known \ got.list) : \E gone \in SUBSET saved :
       /\ Cardinality(saved \ gone) <= 1
       /\ gone = {} \/ gone # known \ got.list
       /\ paused' = paused \cup saved
       /\ nextDue' = [k \in Key |-> IF k \in gone THEN "none" ELSE nextDue[k]]
  /\ UNCHANGED known

-----------------------------------------------------------------------------
(* Runs *)

(* Mutant: the runs in flight are looked at before the await.              *)
StartRunsUnchecked(i, chosen) ==
  LET got == loops[i].got
      startable == {k \in got.list : DueAfter(got)[k] # "later"}
  IN /\ chosen \subseteq startable
     /\ loops[i].due \cap startable \subseteq chosen
     /\ Refresh(got)
     /\ nextDue' = DueAfter(got)
     /\ inflight' = inflight \cup chosen
     /\ runs' = [k \in Key |-> IF k \in chosen THEN runs[k] + 1 ELSE runs[k]]

(* Mutant: a key that is due may be passed over.                           *)
StartRunsLazily(i, chosen) ==
  LET got == loops[i].got
      startable == {k \in got.list : DueAfter(got)[k] # "later"} \ inflight
  IN /\ chosen \subseteq startable
     /\ Refresh(got)
     /\ nextDue' = DueAfter(got)
     /\ inflight' = inflight \cup chosen
     /\ runs' = [k \in Key |-> IF k \in chosen THEN runs[k] + 1 ELSE runs[k]]

(* The for loop of loop(), after the await: no await in it, and no look at *)
(* the status.                                                             *)
StartRuns(i, chosen) ==
  LET got == loops[i].got
      startable == {k \in got.list : DueAfter(got)[k] # "later"} \ inflight
  IN /\ chosen \subseteq startable
     /\ loops[i].due \cap startable \subseteq chosen
     /\ Refresh(got)
     /\ nextDue' = DueAfter(got)
     /\ inflight' = inflight \cup chosen
     /\ runs' = [k \in Key |-> IF k \in chosen THEN runs[k] + 1 ELSE runs[k]]

(* Mutant: no timer is armed when a run was started.                       *)
FinishLoopUntimed(i, chosen) ==
  /\ StartRuns(i, chosen)
  /\ loops' = SubSeq(loops, 1, i - 1) \o SubSeq(loops, i + 1, Len(loops))
  /\ IF status = "running" /\ chosen = {} THEN ArmTimer ELSE UNCHANGED <<timer, armed, rejected>>
  /\ UNCHANGED <<wake, status, starting, listed, pending, aborted, hung, changes>>

(* The rest of loop(): runs, then the timer unless the engine is stopping. *)
FinishLoop(i, chosen) ==
  /\ StartRuns(i, chosen)
  /\ loops' = SubSeq(loops, 1, i - 1) \o SubSeq(loops, i + 1, Len(loops))
  /\ IF status = "running" THEN ArmTimer ELSE UNCHANGED <<timer, armed, rejected>>
  /\ UNCHANGED <<wake, status, starting, listed, pending, aborted, hung, changes>>

(* loop() is rejected: no run is started and no timer is armed.            *)
LoopFails(i) ==
  /\ Change
  /\ PartlyRefreshed(loops[i].got)
  /\ loops' = SubSeq(loops, 1, i - 1) \o SubSeq(loops, i + 1, Len(loops))
  /\ rejected' = TRUE
  /\ UNCHANGED <<wake, timer, armed, status, starting, listed, inflight, runs, pending, aborted, hung>>

(* Mutant: the end of a run is not reported to stop().                     *)
RunEndsUnreported(k, next) ==
  /\ runs[k] > 0
  /\ k \in paused => next = "later"
  /\ runs' = [runs EXCEPT ![k] = @ - 1]
  /\ inflight' = inflight \ {k}
  /\ nextDue' = [nextDue EXCEPT ![k] = next]
  /\ hung' = hung \ {k}
  /\ RequestWake
  /\ UNCHANGED <<status, starting, timer, armed, loops, tenantVars, pending, aborted, changes>>

(* runOne() resolves or rejects: the next due time is the one of the       *)
(* schedule, of a retry, of a lease held elsewhere, or of a paused key.    *)
RunEnds(k, next) ==
  /\ runs[k] > 0
  /\ k \in paused => next = "later"
  /\ runs' = [runs EXCEPT ![k] = @ - 1]
  /\ inflight' = inflight \ {k}
  /\ pending' = pending \ {k}
  /\ nextDue' = [nextDue EXCEPT ![k] = next]
  /\ hung' = hung \ {k}
  /\ RequestWake
  /\ UNCHANGED <<status, starting, timer, armed, loops, tenantVars, aborted, changes>>

(* A run may take for ever, whatever its signal says: its handler ignores  *)
(* the signal, or the body of a for await loop awaits stop() itself.       *)
Hang(k) ==
  /\ runs[k] > 0 /\ k \notin hung /\ Change
  /\ hung' = hung \cup {k}
  /\ UNCHANGED <<status, starting, timerVars, loops, tenantVars, nextDue, inflight, runs, pending,
                 aborted>>

(* The clock passes a due time.                                            *)
DueComes(k) ==
  /\ nextDue[k] = "later"
  /\ nextDue' = [nextDue EXCEPT ![k] = "due"]
  /\ UNCHANGED <<status, starting, timerVars, loops, tenantVars, inflight, runs, pending, aborted,
                 hung, changes>>

-----------------------------------------------------------------------------
(* start() and stop() *)

Start(got) ==
  /\ status \in {"idle", "stopped"} /\ starting = {} /\ Change
  /\ status' = "running"
  /\ aborted' = FALSE
  /\ starting' = {got}
  /\ rejected' = FALSE
  /\ UNCHANGED <<wake, timer, armed, loops, tenantVars, nextDue, inflight, runs, pending, hung>>

(* The due times once start() has read the stored schedules of some keys.  *)
DueFrom(got, read, due) ==
  [k \in Key |-> IF k \in due THEN "due" ELSE IF k \in read THEN "later" ELSE DueAfter(got)[k]]

(* The rest of start().                                                    *)
Started(got, due) ==
  /\ got \in starting
  /\ starting' = {}
  /\ Refresh(got)
  /\ nextDue' = DueFrom(got, got.list, due)
  /\ RequestWake
  /\ UNCHANGED <<status, timer, armed, loops, listed, inflight, runs, pending, aborted, hung, changes>>

(* start() is rejected by the refresh, or by the loading of a state: the   *)
(* status stays, so a second start() does nothing, and nobody wakes up.    *)
StartFails(got) ==
  /\ got \in starting /\ Change
  /\ starting' = {}
  /\ \/ PartlyRefreshed(got)
     \/ /\ Refresh(got)
        /\ \E read \in SUBSET got.list \ {got.list} : \E due \in SUBSET read :
             nextDue' = DueFrom(got, read, due)
  /\ rejected' = TRUE
  /\ UNCHANGED <<wake, timer, armed, status, loops, listed, inflight, runs, pending, aborted, hung>>

Stop(drain) ==
  /\ status = "running"
  /\ status' = "stopping"
  /\ ClearTimer
  /\ pending' = inflight
  /\ aborted' = (aborted \/ ~drain)
  /\ UNCHANGED <<wake, rejected, starting, loops, tenantVars, nextDue, inflight, runs, hung, changes>>

(* The timeout of stop(): the runs are aborted, and still waited for.      *)
StopTimeout ==
  /\ status = "stopping" /\ pending # {} /\ ~aborted
  /\ aborted' = TRUE
  /\ UNCHANGED <<status, starting, timerVars, loops, tenantVars, nextDue, inflight, runs, pending,
                 hung, changes>>

Stopped ==
  /\ status = "stopping" /\ pending = {}
  /\ status' = "stopped"
  /\ UNCHANGED <<starting, timerVars, loops, tenantVars, nextDue, inflight, runs, pending, aborted,
                 hung, changes>>

-----------------------------------------------------------------------------
(* Operations *)

(* trigger(), backfill(), resetCursor(), replay() and parked.retry() end   *)
(* in the same way: due now, and wake up.                                  *)
Trigger(k) ==
  /\ Change
  /\ nextDue' = [nextDue EXCEPT ![k] = "due"]
  /\ RequestWake
  /\ UNCHANGED <<status, starting, timer, armed, loops, tenantVars, inflight, runs, pending, aborted,
                 hung>>

PauseKey(k) ==
  /\ Pauses /\ Change
  /\ paused' = paused \cup {k}
  /\ UNCHANGED <<status, starting, timerVars, loops, listed, known, nextDue, inflight, runs, pending,
                 aborted, hung>>

ResumeKey(k) ==
  /\ k \in paused /\ Change
  /\ paused' = paused \ {k}
  /\ nextDue' = [nextDue EXCEPT ![k] = "due"]
  /\ RequestWake
  /\ UNCHANGED <<status, starting, timer, armed, loops, listed, known, inflight, runs, pending,
                 aborted, hung>>

(* partitions.remove()                                                     *)
RemoveKey(k) ==
  /\ Change
  /\ paused' = paused \ {k}
  /\ nextDue' = [nextDue EXCEPT ![k] = "none"]
  /\ UNCHANGED <<status, starting, timerVars, loops, listed, known, inflight, runs, pending, aborted,
                 hung>>

(* Tenants come and go.                                                    *)
TenantsChange(list) ==
  /\ list # listed /\ Change
  /\ listed' = list
  /\ UNCHANGED <<status, starting, timerVars, loops, known, paused, nextDue, inflight, runs, pending,
                 aborted, hung>>

-----------------------------------------------------------------------------
Init ==
  /\ status = "idle" /\ starting = {}
  /\ wake = FALSE /\ timer = FALSE /\ armed = 0
  /\ loops = << >>
  /\ listed \in SUBSET Key
  /\ known = {} /\ paused = {}
  /\ nextDue = [k \in Key |-> "none"]
  /\ inflight = {} /\ runs = [k \in Key |-> 0]
  /\ pending = {} /\ aborted = FALSE
  /\ hung = {} /\ rejected = FALSE
  /\ changes = 0

LoopStep == \E i \in 1..Len(loops), chosen \in SUBSET Key : FinishLoop(i, chosen)

Waking == \E got \in Refreshed : WakeUp(got)

Firing == \E got \in Refreshed : TimerFires(got)

Starting == \E got \in starting : \E due \in SUBSET got.list : Started(got, due)

LoopFailing == \E i \in 1..Len(loops) : LoopFails(i)

StartFailing == \E got \in starting : StartFails(got)

Ending(k) == \E next \in {"due", "later"} : RunEnds(k, next)

Next ==
  \/ Waking \/ Firing \/ LoopStep \/ LoopFailing \/ Starting \/ StartFailing
  \/ \E k \in Key : \/ Ending(k) \/ Hang(k) \/ DueComes(k)
                    \/ Trigger(k) \/ PauseKey(k) \/ ResumeKey(k) \/ RemoveKey(k)
  \/ \E got \in Refreshed : Start(got)
  \/ \E drain \in BOOLEAN : Stop(drain)
  \/ StopTimeout \/ Stopped
  \/ \E list \in SUBSET Key : TenantsChange(list)

Spec == Init /\ [][Next]_vars

(* Microtasks run, awaited promises settle, timers fire and due times      *)
(* come. A run ends unless it hangs: an abort is heeded by every wait of   *)
(* the engine's own, but not by every handler.                             *)
Fairness ==
  /\ WF_vars(Waking) /\ WF_vars(Firing)
  /\ WF_vars(LoopStep \/ LoopFailing) /\ WF_vars(Starting \/ StartFailing)
  /\ WF_vars(Stopped)
  /\ \A k \in Key : WF_vars(k \notin hung /\ Ending(k)) /\ WF_vars(DueComes(k))

FairSpec == Spec /\ Fairness

-----------------------------------------------------------------------------
TypeOK ==
  /\ status \in {"idle", "running", "stopping", "stopped"}
  /\ starting \subseteq [fresh : BOOLEAN, list : SUBSET Key]
  /\ wake \in BOOLEAN /\ timer \in BOOLEAN /\ armed \in 0..MaxTimers
  /\ loops \in Seq([due : SUBSET Key, got : [fresh : BOOLEAN, list : SUBSET Key]])
  /\ listed \subseteq Key /\ known \subseteq Key /\ paused \subseteq Key
  /\ nextDue \in [Key -> {"none", "later", "due"}]
  /\ inflight \subseteq Key /\ runs \in [Key -> Nat] /\ pending \subseteq Key
  /\ aborted \in BOOLEAN /\ rejected \in BOOLEAN /\ hung \subseteq Key
  /\ changes \in Nat

(* The daemon never has two runs of one key: each run under way is in the  *)
(* map of runs in flight until it ends, however many calls of loop()       *)
(* overlap (loop, runOne).                                                 *)
OneRunPerKey == \A k \in Key : runs[k] = IF k \in inflight THEN 1 ELSE 0

(* No microtask, no call of loop() and no timer is left to call loop().    *)
Asleep ==
  status = "running" /\ starting = {} /\ ~wake /\ loops = << >> /\ armed = 0

(* A running daemon falls asleep for good only by a start() or a call of   *)
(* loop() that was rejected: a later wake-up, by the end of a run or an    *)
(* operation, sets it going again (requestWake, loop, start, stop).        *)
StaysAwake == Asleep => rejected

(* A key that is due gets its run, whatever overlaps and whatever was      *)
(* rejected, as long as the daemon runs, is not left asleep and the        *)
(* partition exists (loop, requestWake, the timer).                        *)
DueKeyRuns ==
  \A k \in Key :
    status = "running" /\ k \in known /\ nextDue[k] = "due"
      ~> status # "running" \/ k \notin known \/ k \in inflight \/ Asleep

(* stop() returns, unless one of the runs it waits for hangs: its timeout  *)
(* aborts the runs, and does not stop waiting for them (stop).             *)
StopReturns ==
  status = "stopping" ~> status = "stopped" \/ pending \cap hung # {}

(* The daemon serves every key that is due, and stop() returns (loop,      *)
(* requestWake, stop).                                                     *)
DaemonServes == DueKeyRuns /\ StopReturns
=============================================================================
