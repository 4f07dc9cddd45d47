---------------------------- MODULE TokenBucket ----------------------------
(***************************************************************************)
(* A token bucket (src/budget/memory-store.ts, and the script BUDGET_TAKE  *)
(* of src/stores/redis/scripts.ts, which mirrors it) and what it promises: *)
(* G6 of docs/guarantees.md. Each take runs at once, with the time its     *)
(* caller stamped it with; the callers may be several processes, so that   *)
(* stamps may arrive late and out of order.                                *)
(*                                                                         *)
(* Amounts are scaled by PerMs as in the code, which keeps them integral;  *)
(* costs and limits are integers here, so the code's EPSILON has nothing   *)
(* to absorb.                                                              *)
(***************************************************************************)
EXTENDS Integers

CONSTANTS
  Requests,    \* policy.requests
  PerMs,       \* policy.perMs
  Burst,       \* policy.burst
  MaxCost,     \* the highest cost of one take
  MaxTime      \* bound: end of time

ASSUME BucketAssumption ==
  /\ Requests \in Nat \ {0}
  /\ PerMs \in Nat \ {0}
  /\ Burst \in Nat \ {0}
  /\ MaxCost \in Nat \ {0}
  /\ MaxTime \in Nat

VARIABLES
  now,      \* the clock that is furthest ahead
  bucket,   \* [scaled, updatedAt]: tokens times PerMs, and as of when
  since,    \* history: when the audit began
  spent     \* history: tokens of the takes stamped since then

bucketVars == <<now, bucket, since, spent>>

(* No bucket yet, no deadline, no timer.                                   *)
Never == -1

AtMost(x, limit) == IF x <= limit THEN x ELSE limit
AtLeast(x, limit) == IF x >= limit THEN x ELSE limit

NoBucket == [scaled |-> 0, updatedAt |-> Never]

(* Mutant: the capacity is not applied to what accrues.                    *)
RefillUnbounded(t, capacity) ==
  IF bucket = NoBucket THEN [scaled |-> Burst * PerMs, updatedAt |-> t]
  ELSE [scaled |-> bucket.scaled + (t - bucket.updatedAt) * Requests, updatedAt |-> t]

(* #refill: a bucket starts full; an older stamp adds nothing.             *)
Refill(t, capacity) ==
  IF bucket = NoBucket THEN [scaled |-> Burst * PerMs, updatedAt |-> t]
  ELSE IF t > bucket.updatedAt
  THEN [scaled |-> AtMost(bucket.scaled + (t - bucket.updatedAt) * Requests,
                          capacity * PerMs),
        updatedAt |-> t]
  ELSE [scaled |-> AtMost(bucket.scaled, capacity * PerMs), updatedAt |-> bucket.updatedAt]

(* A cost above the burst raises the capacity for its own take.            *)
Capacity(cost) == AtLeast(cost, Burst)

Fits(cost, t) == Refill(t, Capacity(cost)).scaled >= cost * PerMs

(* take: refill, then take the whole cost or nothing.                      *)
Take(cost, t) ==
  LET full == Refill(t, Capacity(cost))
  IN IF Fits(cost, t)
     THEN /\ bucket' = [scaled |-> full.scaled - cost * PerMs, updatedAt |-> full.updatedAt]
          /\ spent' = IF t >= since THEN spent + cost ELSE spent
     ELSE bucket' = full /\ UNCHANGED spent

(* peek, and a take that costs nothing: refill, within the burst.          *)
Peek(t) == bucket' = Refill(t, Burst) /\ UNCHANGED spent

BucketInit ==
  /\ now = 0
  /\ bucket = NoBucket
  /\ since = 0
  /\ spent = 0

TakeStep ==
  /\ \E cost \in 1..MaxCost, t \in 0..now : Take(cost, t)
  /\ UNCHANGED <<now, since>>

PeekStep ==
  /\ \E t \in 0..now : Peek(t)
  /\ UNCHANGED <<now, since>>

ClockStep ==
  /\ now < MaxTime
  /\ now' = now + 1
  /\ UNCHANGED <<bucket, since, spent>>

(* History: an audit may begin at any time.                                *)
Audit ==
  /\ since' = now
  /\ spent' = 0
  /\ UNCHANGED <<now, bucket>>

BucketNext == TakeStep \/ PeekStep \/ ClockStep \/ Audit

BucketSpec == BucketInit /\ [][BucketNext]_bucketVars

-----------------------------------------------------------------------------
BucketTypeOK ==
  /\ now \in Nat
  /\ bucket \in [scaled : Nat, updatedAt : Nat \cup {Never}]
  /\ since \in Nat
  /\ spent \in Nat

(* The most the bucket may ever hold.                                      *)
Ceiling == AtLeast(MaxCost, Burst)

(* G6: since any moment, the tokens taken are at most what the bucket can  *)
(* hold and what the rate has added since, whoever takes and peeks, with   *)
(* whatever costs and in whatever order the stamped calls arrive.          *)
RateBounded == spent * PerMs <= Ceiling * PerMs + Requests * (now - since)
=============================================================================
