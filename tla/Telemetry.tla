----------------------------- MODULE Telemetry ------------------------------
(***************************************************************************)
(* The OpenTelemetry hooks (src/otel/hooks.ts) and the runner's calls of   *)
(* them, in its order and on all its ways out of a cycle: one span per     *)
(* cycle, child spans of what it fetches and commits, and the gauge of the *)
(* circuit. The hooks keep the open spans of a key by lane. A key has one  *)
(* run at a time (Engine), but the stored circuit outlives the process and *)
(* is shared with other instances, of whose cycles the hooks hear nothing. *)
(* The tracer is external and does not throw; counters, histograms and     *)
(* attributes are left out.                                                *)
(***************************************************************************)
EXTENDS Integers, Sequences

CONSTANT MaxSpans     \* bound: cycles

VARIABLES
  tel,          \* the hooks: polls (the open span of each lane, 0 for none),
                \* the spans ever started, and the circuit gauge ("none": no value)
  circuit,      \* the stored circuit
  cycle,        \* the run: where it is, its lane, its span, the circuit it knows
  outcome,      \* history: how the cycle of each span ended
  astray,       \* history: a child span got another parent than its cycle's span
  unheard       \* history: since the hooks last told a transition that was saved, a
                \* save failed or the circuit changed behind this process's back

vars == <<tel, circuit, cycle, outcome, astray, unheard>>

PollLane == {"live", "reconcile", "backfill"}
Resting == [pc |-> "idle", lane |-> "live", span |-> 0, circuit |-> "closed"]

-----------------------------------------------------------------------------
(* The hooks *)

EndPoll(t, lane, error) ==
  LET i == t.polls[lane]
  IN [t EXCEPT !.polls[lane] = 0, !.spans[i].status = IF error THEN "error" ELSE "ok",
               !.spans[i].ends = @ + 1]

NewSpan(t, lane) ==
  [t EXCEPT !.spans = Append(@, [lane |-> lane, status |-> "open", error |-> FALSE, ends |-> 0]),
            !.polls[lane] = Len(t.spans) + 1]

(* Mutant: the map entry of an open span is overwritten.                   *)
OnPollStartOverwriting(t, lane) ==
  [NewSpan(t, lane) EXCEPT !.gauge = IF @ = "open" THEN "half-open" ELSE @]

(* A span still open is superseded; a cycle of an open circuit counts as a *)
(* probe.                                                                  *)
OnPollStart(t, lane) ==
  LET rid == IF t.polls[lane] # 0 THEN EndPoll(t, lane, TRUE) ELSE t
  IN [NewSpan(rid, lane) EXCEPT !.gauge = IF @ = "open" THEN "half-open" ELSE @]

OnPollEnd(t, lane) ==
  IF t.polls[lane] = 0 THEN t ELSE EndPoll(t, lane, t.spans[t.polls[lane]].error)

(* Mutant: the error is counted, and the span does not know of it.         *)
OnErrorCounted(t, lane) == t

OnError(t, lane) ==
  IF t.polls[lane] = 0 THEN t ELSE [t EXCEPT !.spans[t.polls[lane]].error = TRUE]

(* Every open span of the key ends.                                        *)
OnLeaseLost(t) ==
  [t EXCEPT !.polls = [lane \in PollLane |-> 0],
            !.spans = [i \in DOMAIN t.spans |->
              IF i \in {t.polls[lane] : lane \in PollLane}
              THEN [t.spans[i] EXCEPT !.status = "error", !.ends = @ + 1]
              ELSE t.spans[i]]]

OnCircuitOpen(t) == [t EXCEPT !.gauge = "open"]

(* Mutant: a probe that succeeds leaves the gauge alone.                   *)
OnCircuitCloseUnset(t) == t

OnCircuitClose(t) == [t EXCEPT !.gauge = "closed"]

(* Mutant: any open span of the key will do.                               *)
ParentOfKey(t, lane) ==
  IF t.polls["live"] # 0 THEN t.polls["live"] ELSE t.polls[lane]

ParentOf(t, lane) == t.polls[lane]

-----------------------------------------------------------------------------
(* The runner *)

(* A run begins by delivering what is left, and may end there: a poison    *)
(* event opens the circuit.                                                *)
Halt ==
  /\ cycle.pc = "idle"
  /\ circuit' = "open" /\ tel' = OnCircuitOpen(tel)
  /\ unheard' = FALSE
  /\ UNCHANGED <<cycle, outcome, astray>>

(* Or the deliveries of a cycle do; its success leaves the circuit open.   *)
HaltInCycle ==
  /\ cycle.pc = "polling"
  /\ circuit' = "open" /\ tel' = OnCircuitOpen(tel)
  /\ cycle' = [cycle EXCEPT !.pc = "halted", !.circuit = "open"]
  /\ unheard' = FALSE
  /\ UNCHANGED <<outcome, astray>>

(* A cycle of a lane; the live one of an open circuit is a probe.          *)
Begin(lane) ==
  /\ cycle.pc = "idle" /\ Len(tel.spans) < MaxSpans
  /\ tel' = OnPollStart(tel, lane)
  /\ cycle' = [pc |-> "polling", lane |-> lane, span |-> Len(tel.spans) + 1,
               circuit |-> IF lane = "live" /\ circuit = "open" THEN "half-open" ELSE circuit]
  /\ outcome' = Append(outcome, "running")
  /\ UNCHANGED <<circuit, astray, unheard>>

(* onFetch, onCommit: a span that has ended already, under its parent.     *)
Report ==
  /\ cycle.pc = "polling"
  /\ astray' = (astray \/ ParentOf(tel, cycle.lane) # cycle.span)
  /\ UNCHANGED <<tel, circuit, cycle, outcome, unheard>>

(* The cycle succeeds, and its state is to be saved.                       *)
Succeed ==
  /\ cycle.pc = "polling"
  /\ tel' = IF cycle.lane = "live" /\ cycle.circuit # "closed" THEN OnCircuitClose(tel) ELSE tel
  /\ cycle' = [cycle EXCEPT !.pc = "saving"]
  /\ UNCHANGED <<circuit, outcome, astray, unheard>>

(* A success is saved, and reported last. If the cycle was a probe, its    *)
(* closing of the circuit has been told.                                   *)
Saved ==
  /\ cycle.pc \in {"saving", "halted"}
  /\ circuit' = IF cycle.pc = "saving" /\ cycle.lane = "live" THEN "closed" ELSE circuit
  /\ tel' = OnPollEnd(tel, cycle.lane)
  /\ outcome' = [outcome EXCEPT ![cycle.span] = "ok"]
  /\ unheard' = (unheard /\ circuit' = circuit)
  /\ cycle' = Resting
  /\ UNCHANGED astray

(* An error of the source, or of the save: only the failure that opens a   *)
(* closed circuit is reported as such.                                     *)
Failing(opens) ==
  /\ opens => cycle.lane = "live" /\ cycle.circuit = "closed"
  /\ tel' = OnError(IF opens THEN OnCircuitOpen(tel) ELSE tel, cycle.lane)
  /\ cycle' = [cycle EXCEPT !.pc = "failed",
                            !.circuit = IF @ # "closed" \/ opens THEN "open" ELSE "closed"]
  /\ UNCHANGED <<circuit, outcome, astray>>

Fail(opens) == cycle.pc = "polling" /\ Failing(opens) /\ UNCHANGED unheard

SaveThrows(opens) == cycle.pc \in {"saving", "halted"} /\ Failing(opens) /\ unheard' = TRUE

(* The failure is saved, or its save fails too and is passed over.         *)
Failed(saved) ==
  /\ cycle.pc = "failed"
  /\ circuit' = IF saved THEN cycle.circuit ELSE circuit
  /\ unheard' = IF saved THEN unheard /\ circuit' = circuit ELSE TRUE
  /\ tel' = OnPollEnd(tel, cycle.lane)
  /\ outcome' = [outcome EXCEPT ![cycle.span] = "failed"]
  /\ cycle' = Resting
  /\ UNCHANGED astray

(* stop(): the run returns at once, without onPollEnd.                     *)
Abort ==
  /\ cycle.pc = "polling"
  /\ outcome' = [outcome EXCEPT ![cycle.span] = "aborted"]
  /\ cycle' = Resting
  /\ UNCHANGED <<tel, circuit, astray, unheard>>

(* Another instance has the lease by now, and may have run the key.        *)
LoseLease ==
  /\ cycle.pc # "idle"
  /\ circuit' \in {"closed", "open"}
  /\ tel' = OnLeaseLost(tel)
  /\ outcome' = [outcome EXCEPT ![cycle.span] = "lost"]
  /\ unheard' = TRUE
  /\ cycle' = Resting
  /\ UNCHANGED astray

(* Between two runs of this process another instance's cycle opens or      *)
(* closes the circuit.                                                     *)
RunElsewhere ==
  /\ cycle.pc = "idle"
  /\ circuit' = IF circuit = "closed" THEN "open" ELSE "closed"
  /\ unheard' = TRUE
  /\ UNCHANGED <<tel, cycle, outcome, astray>>

-----------------------------------------------------------------------------
Init ==
  /\ tel = [polls |-> [lane \in PollLane |-> 0], spans |-> << >>, gauge |-> "none"]
  /\ circuit \in {"closed", "open"} /\ cycle = Resting
  /\ outcome = << >> /\ astray = FALSE /\ unheard = (circuit = "open")

Next ==
  \/ Halt \/ HaltInCycle \/ Report \/ Succeed \/ Saved \/ Abort \/ LoseLease \/ RunElsewhere
  \/ \E lane \in PollLane : Begin(lane)
  \/ \E flag \in BOOLEAN : Fail(flag) \/ SaveThrows(flag) \/ Failed(flag)

Spec == Init /\ [][Next]_vars

-----------------------------------------------------------------------------
Span == [lane : PollLane, status : {"open", "ok", "error"}, error : BOOLEAN, ends : Nat]
Outcome == {"running", "ok", "failed", "aborted", "lost"}

TypeOK ==
  /\ tel \in [polls : [PollLane -> 0..Len(tel.spans)], spans : Seq(Span),
              gauge : {"none", "closed", "half-open", "open"}]
  /\ circuit \in {"closed", "open"}
  /\ cycle \in [pc : {"idle", "polling", "halted", "saving", "failed"}, lane : PollLane,
                span : 0..Len(tel.spans), circuit : {"closed", "half-open", "open"}]
  /\ outcome \in Seq(Outcome) /\ Len(outcome) = Len(tel.spans)
  /\ astray \in BOOLEAN /\ unheard \in BOOLEAN

(* Every span a cycle starts is ended once, or is still known to the hooks *)
(* and will be: cycles that were aborted or lost their lease leave none    *)
(* behind (onPollStart, onPollEnd, onLeaseLost).                           *)
SpansAccounted ==
  \A i \in DOMAIN tel.spans :
    tel.spans[i].ends = IF tel.polls[tel.spans[i].lane] = i THEN 0 ELSE 1

(* A span's status is that of its cycle (onError, onPollEnd).              *)
StatusHonest ==
  \A i \in DOMAIN tel.spans :
    /\ tel.spans[i].status = "ok" => outcome[i] = "ok"
    /\ tel.spans[i].status = "error" => outcome[i] \in {"failed", "aborted", "lost"}

(* What a cycle fetches and commits is found under its own span, also when *)
(* an aborted cycle has left its span open (parentOf).                     *)
ChildrenAttached == ~astray

(* Once the hooks have told a transition that was saved, and as long as    *)
(* saves succeed and no other instance changes the circuit, the gauge      *)
(* reads closed, or has no value yet, between cycles exactly when the      *)
(* stored circuit is closed (onCircuitOpen, onCircuitClose). It does not   *)
(* tell open from half-open: a probe that fails leaves it half-open.       *)
ShownClosed == tel.gauge \in {"none", "closed"}

GaugeAgrees ==
  cycle.pc = "idle" /\ ~unheard => (ShownClosed <=> circuit = "closed")

(* The telemetry tells what happened: spans end once, with their cycle's   *)
(* status and its children, and the gauge follows the circuit, on all ways *)
(* out of a cycle (otelHooks).                                             *)
TelemetrySound == TypeOK /\ SpansAccounted /\ StatusHonest /\ ChildrenAttached /\ GaugeAgrees

-----------------------------------------------------------------------------
(* Strengthenings the proof of TelemetrySound needs (DaemonProofs).        *)

(* The cycle's span is that of its lane; the other open ones were left by  *)
(* aborted cycles.                                                         *)
CycleOwn ==
  /\ \A lane \in PollLane :
       tel.polls[lane] # 0 /\ (cycle.pc = "idle" \/ lane # cycle.lane)
         => outcome[tel.polls[lane]] = "aborted"
  /\ cycle.pc # "idle" =>
       /\ cycle.span # 0 /\ tel.polls[cycle.lane] = cycle.span
       /\ tel.spans[cycle.span].error <=> cycle.pc = "failed"

(* What a cycle knows of the circuit, which nobody else changes while it   *)
(* has the lease, and which of its transitions the hooks have told.        *)
CircuitKnown ==
  /\ cycle.pc \in {"polling", "saving"} => (cycle.circuit = "closed" <=> circuit = "closed")
  /\ cycle.pc = "saving" /\ cycle.lane = "live" /\ circuit = "open" => ShownClosed
  /\ cycle.pc = "halted" => circuit = "open" /\ cycle.circuit = "open"
  /\ cycle.pc = "failed" /\ cycle.circuit # circuit =>
       circuit = "closed" /\ cycle.circuit = "open" /\ ~ShownClosed

(* The gauge during a cycle.                                               *)
GaugeInCycle ==
  ~unheard =>
    /\ cycle.pc = "polling" => (ShownClosed <=> circuit = "closed")
    /\ cycle.pc = "halted" => ~ShownClosed
    /\ cycle.pc = "saving" /\ cycle.lane = "live" => ShownClosed
    /\ cycle.pc = "saving" /\ cycle.lane # "live" => (ShownClosed <=> circuit = "closed")
    /\ cycle.pc = "failed" => (ShownClosed <=> cycle.circuit = "closed")
=============================================================================
