-------------------------------- MODULE Tick --------------------------------
(***************************************************************************)
(* One pass of the serverless mode: tick() of src/core/engine.ts. A few    *)
(* workers take keys from one queue until it is empty or the deadline has  *)
(* passed; what running a key does is in Runner, here it takes time and    *)
(* ends with one of runKey's reasons and the lanes that ran, or throws.    *)
(***************************************************************************)
EXTENDS Integers, Sequences, SequencesExt, FiniteSets

CONSTANTS
  Key,          \* what allKeys() lists
  Workers,      \* TICK_CONCURRENCY
  NoKey,
  MaxDuration   \* options.maxDuration

TickParameters ==
  IsFiniteSet(Key) /\ Workers \in Nat \ {0} /\ MaxDuration \in Nat

Never == -1

Lane == {"live", "reconcile", "backfill"}

VARIABLES
  elapsed,      \* time since the pass began
  deadline,     \* or Never
  asked,        \* history: the keys `only` let through
  pending,      \* the queue
  worker,       \* [at, key] of each worker
  polled,       \* how many entries of result.polled are of each key and lane
  result,       \* [skippedLeased, skippedNotDue, timedOut]
  pass,         \* "open", then how the promise of tick() was settled
  visits        \* history: how often each key was run

tickVars == <<elapsed, deadline, asked, pending, worker, polled, result, pass, visits>>

(* As many workers as there are keys for them.                             *)
Hired(n) == 1..(IF n < Workers THEN n ELSE Workers)

Busy == {w \in DOMAIN worker : worker[w].at = "running"}

(* The keys in the order of allKeys(), filtered by options.only.           *)
Init ==
  /\ elapsed = 0
  /\ deadline \in {Never, MaxDuration}
  /\ asked \in SUBSET Key
  /\ pending = SetToSeq(asked)
  /\ worker = [w \in Hired(Cardinality(asked)) |-> [at |-> "idle", key |-> NoKey]]
  /\ polled = [k \in Key |-> [lane \in Lane |-> 0]]
  /\ result = [skippedLeased |-> 0, skippedNotDue |-> 0, timedOut |-> FALSE]
  /\ pass = "open"
  /\ visits = [k \in Key |-> 0]

Past == deadline # Never /\ elapsed >= deadline

(* Mutant: a worker that finds the deadline passed says nothing.           *)
ShiftQuietly(w) ==
  /\ worker[w].at = "idle"
  /\ IF pending = <<>> \/ Past
     THEN worker' = [worker EXCEPT ![w].at = "done"] /\ UNCHANGED <<result, visits>>
     ELSE /\ worker' = [worker EXCEPT ![w] = [at |-> "running", key |-> Head(pending)]]
          /\ visits' = [visits EXCEPT ![Head(pending)] = @ + 1]
          /\ UNCHANGED result
  /\ pending' = IF pending = <<>> THEN pending ELSE Tail(pending)
  /\ UNCHANGED <<elapsed, deadline, asked, polled, pass>>

(* Mutant: two workers may look at the queue before either takes its key.  *)
ShiftLate(w) ==
  /\ worker[w].at = "idle"
  /\ \/ /\ pending = <<>>
        /\ worker' = [worker EXCEPT ![w].at = "done"]
        /\ UNCHANGED <<pending, result, visits>>
     \/ /\ pending # <<>> /\ ~Past
        /\ pending' \in {pending, Tail(pending)}
        /\ worker' = [worker EXCEPT ![w] = [at |-> "running", key |-> Head(pending)]]
        /\ visits' = [visits EXCEPT ![Head(pending)] = 1]
        /\ UNCHANGED result
  /\ UNCHANGED <<elapsed, deadline, asked, polled, pass>>

(* worker(), from one key to the next.                                     *)
Shift(w) ==
  /\ worker[w].at = "idle"
  /\ \/ /\ pending = <<>>
        /\ worker' = [worker EXCEPT ![w].at = "done"]
        /\ UNCHANGED <<pending, result, visits>>
     \/ /\ pending # <<>> /\ Past
        /\ pending' = Tail(pending)
        /\ worker' = [worker EXCEPT ![w].at = "done"]
        /\ result' = [result EXCEPT !.timedOut = TRUE]
        /\ UNCHANGED visits
     \/ /\ pending # <<>> /\ ~Past
        /\ pending' = Tail(pending)
        /\ worker' = [worker EXCEPT ![w] = [at |-> "running", key |-> Head(pending)]]
        /\ visits' = [visits EXCEPT ![Head(pending)] = @ + 1]
        /\ UNCHANGED result
  /\ UNCHANGED <<elapsed, deadline, asked, polled, pass>>

(* One entry for each lane of the key that ran.                            *)
Report(k, ran) ==
  polled' = [polled EXCEPT ![k] = [lane \in Lane |-> @[lane] + IF lane \in ran THEN 1 ELSE 0]]

(* runOne returns. Leased, paused and not due keys ran no lane; nor did a  *)
(* run that only drained, halted in its first drain or lost its lease      *)
(* before a cycle ended. A lane that the deadline stopped has its entry.   *)
Account(w) ==
  /\ worker[w].at = "running"
  /\ worker' = [worker EXCEPT ![w] = [at |-> "idle", key |-> NoKey]]
  /\ \/ result' = [result EXCEPT !.skippedLeased = @ + 1] /\ UNCHANGED polled
     \/ result' = [result EXCEPT !.skippedNotDue = @ + 1] /\ UNCHANGED polled
     \/ \E ran \in SUBSET Lane : Report(worker[w].key, ran) /\ UNCHANGED result
     \/ \E ran \in SUBSET Lane \ {{}} :
          Report(worker[w].key, ran) /\ result' = [result EXCEPT !.timedOut = TRUE]
  /\ UNCHANGED <<elapsed, deadline, asked, pending, pass, visits>>

(* runOne throws: so does tick(), at once, while the others go on.         *)
Throw(w) ==
  /\ worker[w].at = "running"
  /\ worker' = [worker EXCEPT ![w] = [at |-> "failed", key |-> NoKey]]
  /\ pass' = IF pass = "open" THEN "threw" ELSE pass
  /\ UNCHANGED <<elapsed, deadline, asked, pending, polled, result, visits>>

(* Mutant: the first worker to finish ends the pass.                       *)
ReturnFirst ==
  /\ pass = "open"
  /\ worker = <<>> \/ \E w \in DOMAIN worker : worker[w].at = "done"
  /\ pass' = "returned"
  /\ UNCHANGED <<elapsed, deadline, asked, pending, worker, polled, result, visits>>

(* Promise.all: every worker is done.                                      *)
Return ==
  /\ pass = "open"
  /\ \A w \in DOMAIN worker : worker[w].at = "done"
  /\ pass' = "returned"
  /\ UNCHANGED <<elapsed, deadline, asked, pending, worker, polled, result, visits>>

(* Time matters only up to the deadline.                                   *)
Elapse ==
  /\ elapsed < MaxDuration
  /\ elapsed' = elapsed + 1
  /\ UNCHANGED <<deadline, asked, pending, worker, polled, result, pass, visits>>

Next ==
  \/ Return \/ Elapse
  \/ \E w \in DOMAIN worker : Shift(w) \/ Account(w) \/ Throw(w)

Spec == Init /\ [][Next]_tickVars

-----------------------------------------------------------------------------
TypeOK ==
  /\ elapsed \in 0..MaxDuration
  /\ deadline \in {Never, MaxDuration}
  /\ asked \subseteq Key
  /\ pending \in Seq(asked)
  /\ worker \in [Hired(Cardinality(asked)) ->
                  [at : {"idle", "running", "done", "failed"}, key : Key \cup {NoKey}]]
  /\ polled \in [Key -> [Lane -> Nat]]
  /\ result \in [skippedLeased : Nat, skippedNotDue : Nat, timedOut : BOOLEAN]
  /\ pass \in {"open", "returned", "threw"}
  /\ visits \in [Key -> 0..1]

Visited == {k \in Key : visits[k] > 0}

Polled == {k \in Key : \E lane \in Lane : polled[k][lane] > 0}

(* A pass that does not say timedOut has visited every key it was asked    *)
(* for; no lane of a key has two entries, though several workers take keys *)
(* from one queue; and a key counted as skipped has no entry (tick,        *)
(* worker; docs/serverless.md).                                            *)
PassComplete ==
  /\ pass = "returned" /\ ~result.timedOut => asked \subseteq Visited
  /\ \A k \in Key, lane \in Lane : polled[k][lane] <= 1
  /\ Polled \subseteq Visited
  /\ result.skippedLeased + result.skippedNotDue + Cardinality(Polled) <= Cardinality(Visited)

(* A tick that returns leaves nothing running: its leases are released and *)
(* the connections may be closed (docs/serverless.md).                     *)
QuietAtReturn == pass = "returned" => Busy = {}

(* A pass: it is complete or says that it timed out, and when it returns   *)
(* nothing runs any more (tick).                                           *)
PassSound == TypeOK /\ PassComplete /\ QuietAtReturn

-----------------------------------------------------------------------------
(* A strengthening of PassSound that every step keeps: the queue holds     *)
(* each key once, unvisited; until a worker gives up, every key is queued  *)
(* or visited and no worker leaves a queue that is not empty; a worker     *)
(* that failed has settled the promise; no two workers run one key, which  *)
(* has no entry yet; and what is counted are visits that have ended.       *)
Queued ==
  /\ IsInjective(pending)
  /\ \A k \in ToSet(pending) : visits[k] = 0

Unserved ==
  ~result.timedOut =>
    /\ \A k \in asked : visits[k] = 1 \/ k \in ToSet(pending)
    /\ \A w \in DOMAIN worker : worker[w].at = "done" => pending = <<>>

Settled ==
  /\ pass = "returned" => \A w \in DOMAIN worker : worker[w].at = "done"
  /\ \A w \in DOMAIN worker : worker[w].at = "failed" => pass = "threw"

Running == {worker[w].key : w \in Busy}

Exclusive ==
  /\ \A v, w \in Busy : worker[v].key = worker[w].key => v = w
  /\ Running \subseteq Visited
  /\ \A k \in Key, lane \in Lane : polled[k][lane] <= 1
  /\ Polled \subseteq Visited \ Running

Accounted ==
  result.skippedLeased + result.skippedNotDue + Cardinality(Polled) <=
    Cardinality(Visited \ Running)

PassInv == TypeOK /\ Queued /\ Unserved /\ Settled /\ Exclusive /\ Accounted
=============================================================================
