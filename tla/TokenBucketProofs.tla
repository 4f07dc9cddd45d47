------------------------- MODULE TokenBucketProofs -------------------------
(***************************************************************************)
(* G6 for every rate, period, burst and cost, with takes whose stamps may  *)
(* be late and out of order.                                               *)
(***************************************************************************)
EXTENDS TokenBucket, TLAPS

(* What the bucket holds is at most its ceiling, and no stamp is ahead of  *)
(* the clock.                                                              *)
Holds ==
  /\ bucket.scaled <= Ceiling * PerMs
  /\ bucket.updatedAt <= now
  /\ since <= now

(* Nothing the audit counts was taken before the audit's first stamp; from *)
(* then on what was taken and what is left came out of one full bucket and *)
(* what the rate added up to the bucket's time.                            *)
Books ==
  /\ bucket.updatedAt < since => spent = 0
  /\ bucket.updatedAt >= since =>
       spent * PerMs + bucket.scaled <= Ceiling * PerMs + Requests * (bucket.updatedAt - since)

BucketInv == BucketTypeOK /\ Holds /\ Books

(* Scaling by a natural number keeps the order.                            *)
LEMMA ScaleOrder ==
  ASSUME NEW a \in Int, NEW b \in Int, NEW k \in Nat, a <= b
  PROVE  a * k <= b * k
<1>1. PICK d \in Nat : b = a + d
  <2>1. b - a \in Nat /\ b = a + (b - a)
    OBVIOUS
  <2> QED BY <2>1
<1>2. b * k = a * k + d * k
  BY <1>1
<1>3. d * k \in Nat
  OBVIOUS
<1> QED BY <1>2, <1>3

(* Refilling for a capacity between the burst and the ceiling: the bucket  *)
(* stays within the capacity, its time never goes back, and a bucket that  *)
(* exists gains at most the rate times the time it moved.                  *)
LEMMA RefillBounds ==
  ASSUME BucketTypeOK, NEW t \in Nat, NEW capacity \in Nat, Burst <= capacity
  PROVE  LET full == Refill(t, capacity)
         IN /\ full \in [scaled : Nat, updatedAt : Nat \cup {Never}]
            /\ full.scaled <= capacity * PerMs
            /\ t > bucket.updatedAt => full.updatedAt = t
            /\ t <= bucket.updatedAt => full.updatedAt = bucket.updatedAt
            /\ bucket.updatedAt >= 0 =>
                 full.scaled <= bucket.scaled
                                + Requests * (full.updatedAt - bucket.updatedAt)
<1> DEFINE full == Refill(t, capacity)
           Bounds(f) == /\ f \in [scaled : Nat, updatedAt : Nat \cup {-1}]
                        /\ f.scaled <= capacity * PerMs
                        /\ t > bucket.updatedAt => f.updatedAt = t
                        /\ t <= bucket.updatedAt => f.updatedAt = bucket.updatedAt
                        /\ bucket.updatedAt >= 0 =>
                             f.scaled <= bucket.scaled
                                         + Requests * (f.updatedAt - bucket.updatedAt)
<1> SUFFICES Bounds(full)
  BY DEF Never
<1> USE BucketAssumption
<1>1. bucket.scaled \in Nat /\ bucket.updatedAt \in Nat \cup {-1}
  BY DEF BucketTypeOK, Never
<1>2. capacity * PerMs \in Nat /\ Burst * PerMs \in Nat /\ Burst * PerMs <= capacity * PerMs
  BY ScaleOrder
<1>3. CASE bucket = NoBucket
  <2>1. full = [scaled |-> Burst * PerMs, updatedAt |-> t]
    BY <1>3 DEF Refill
  <2>2. bucket.updatedAt = -1
    BY <1>3 DEF NoBucket, Never
  <2> HIDE DEF full
  <2> QED BY <1>2, <2>1, <2>2
<1>4. CASE bucket # NoBucket /\ t > bucket.updatedAt
  <2> DEFINE gain == (t - bucket.updatedAt) * Requests
  <2>1. gain \in Nat
    BY <1>1, <1>4
  <2>2. full = [scaled |-> AtMost(bucket.scaled + gain, capacity * PerMs), updatedAt |-> t]
    BY <1>4 DEF Refill
  <2>3. gain = Requests * (t - bucket.updatedAt)
    BY <1>1
  <2> HIDE DEF full, gain
  <2> QED BY <1>1, <1>2, <1>4, <2>1, <2>2, <2>3 DEF AtMost
<1>5. CASE bucket # NoBucket /\ ~(t > bucket.updatedAt)
  <2>1. full = [scaled |-> AtMost(bucket.scaled, capacity * PerMs),
                updatedAt |-> bucket.updatedAt]
    BY <1>5 DEF Refill
  <2>2. Requests * (bucket.updatedAt - bucket.updatedAt) = 0
    BY <1>1
  <2> HIDE DEF full
  <2> QED BY <1>1, <1>2, <1>5, <2>1, <2>2 DEF AtMost
<1> QED BY <1>3, <1>4, <1>5

(* The books still balance after a refill, before anything is taken.       *)
LEMMA RefillBooks ==
  ASSUME BucketInv, NEW t \in 0..now, NEW capacity \in Nat, Burst <= capacity,
         capacity <= Ceiling
  PROVE  LET full == Refill(t, capacity)
         IN /\ full \in [scaled : Nat, updatedAt : Nat \cup {Never}]
            /\ full.scaled <= Ceiling * PerMs
            /\ full.updatedAt <= now
            /\ full.updatedAt < since => spent = 0 /\ t < since
            /\ full.updatedAt >= since =>
                 spent * PerMs + full.scaled
                   <= Ceiling * PerMs + Requests * (full.updatedAt - since)
<1> DEFINE full == Refill(t, capacity)
<1> USE BucketAssumption
<1>0. /\ now \in Nat /\ since \in Nat /\ spent \in Nat /\ t \in Nat /\ t <= now
      /\ bucket.scaled \in Nat /\ bucket.updatedAt \in Nat \cup {-1}
      /\ Ceiling \in Nat
  BY DEF BucketInv, BucketTypeOK, Never, Ceiling, AtLeast
<1>1. /\ full \in [scaled : Nat, updatedAt : Nat \cup {-1}]
      /\ full.scaled <= capacity * PerMs
      /\ t > bucket.updatedAt => full.updatedAt = t
      /\ t <= bucket.updatedAt => full.updatedAt = bucket.updatedAt
      /\ bucket.updatedAt >= 0 =>
           full.scaled <= bucket.scaled + Requests * (full.updatedAt - bucket.updatedAt)
  BY <1>0, RefillBounds DEF BucketInv, Never
<1>2. capacity * PerMs <= Ceiling * PerMs /\ capacity * PerMs \in Nat
      /\ Ceiling * PerMs \in Nat
  BY <1>0, ScaleOrder
<1> HIDE DEF full
<1>3. full.updatedAt \in Nat \cup {-1} /\ full.scaled \in Nat
      /\ full.scaled <= Ceiling * PerMs
  BY <1>1, <1>2
<1>4. full.updatedAt <= now
  BY <1>0, <1>1 DEF BucketInv, Holds
<1>5. full.updatedAt < since => spent = 0 /\ t < since
  BY <1>0, <1>1 DEF BucketInv, Books
<1>6. ASSUME full.updatedAt >= since
      PROVE  spent * PerMs + full.scaled
               <= Ceiling * PerMs + Requests * (full.updatedAt - since)
  <2>1. CASE bucket.updatedAt < since
    <3>1. spent * PerMs = 0
      BY <1>0, <2>1 DEF BucketInv, Books
    <3>2. Requests * (full.updatedAt - since) \in Nat
      BY <1>0, <1>3, <1>6
    <3> QED BY <1>2, <1>3, <3>1, <3>2
  <2>2. CASE bucket.updatedAt >= since
    <3>1. spent * PerMs + bucket.scaled
            <= Ceiling * PerMs + Requests * (bucket.updatedAt - since)
      BY <2>2 DEF BucketInv, Books
    <3>2. full.scaled <= bucket.scaled + Requests * (full.updatedAt - bucket.updatedAt)
      BY <1>0, <1>1, <2>2
    <3>3. Requests * (full.updatedAt - since)
            = Requests * (bucket.updatedAt - since)
              + Requests * (full.updatedAt - bucket.updatedAt)
      BY <1>0, <1>3
    <3>4. /\ Requests * (full.updatedAt - since) \in Int
          /\ Requests * (bucket.updatedAt - since) \in Int
          /\ Requests * (full.updatedAt - bucket.updatedAt) \in Int
          /\ spent * PerMs \in Int
      BY <1>0, <1>3
    <3> QED BY <1>0, <1>2, <1>3, <3>1, <3>2, <3>3, <3>4
  <2> QED BY <1>0, <2>1, <2>2
<1> QED BY <1>1, <1>3, <1>4, <1>5, <1>6 DEF full, Never

(* The invariant holds at the start, when there is no bucket yet.          *)
LEMMA BucketInvInit == BucketInit => BucketInv
<1> SUFFICES ASSUME BucketInit PROVE BucketInv
  OBVIOUS
<1> USE BucketAssumption
<1>1. bucket = [scaled |-> 0, updatedAt |-> -1] /\ now = 0 /\ since = 0 /\ spent = 0
  BY DEF BucketInit, NoBucket, Never
<1>2. Ceiling * PerMs \in Nat
  BY DEF Ceiling, AtLeast
<1> QED BY <1>1, <1>2 DEF BucketInv, BucketTypeOK, Holds, Books, Never

(* Every step preserves it.                                                *)
LEMMA BucketInvStep == BucketInv /\ [BucketNext]_bucketVars => BucketInv'
<1> SUFFICES ASSUME BucketInv, [BucketNext]_bucketVars PROVE BucketInv'
  OBVIOUS
<1> USE BucketAssumption
<1>0. /\ now \in Nat /\ since \in Nat /\ spent \in Nat /\ Ceiling \in Nat
      /\ Burst <= Ceiling /\ MaxCost <= Ceiling
      /\ Ceiling * PerMs \in Nat
  BY DEF BucketInv, BucketTypeOK, Ceiling, AtLeast
<1>1. CASE TakeStep
  <2>1. PICK cost \in 1..MaxCost, t \in 0..now : Take(cost, t)
    BY <1>1 DEF TakeStep
  <2>2. now' = now /\ since' = since /\ t \in Nat /\ cost \in Nat
    BY <1>0, <1>1 DEF TakeStep
  <2> DEFINE full == Refill(t, Capacity(cost))
  <2>3. Capacity(cost) \in Nat /\ Burst <= Capacity(cost) /\ Capacity(cost) <= Ceiling
    BY <1>0, <2>2 DEF Capacity, AtLeast
  <2>4. /\ full \in [scaled : Nat, updatedAt : Nat \cup {-1}]
        /\ full.scaled <= Ceiling * PerMs
        /\ full.updatedAt <= now
        /\ full.updatedAt < since => spent = 0 /\ t < since
        /\ full.updatedAt >= since =>
             spent * PerMs + full.scaled
               <= Ceiling * PerMs + Requests * (full.updatedAt - since)
    BY <2>3, RefillBooks DEF Never
  <2>5. CASE Fits(cost, t)
    <3>1. /\ bucket' = [scaled |-> full.scaled - cost * PerMs, updatedAt |-> full.updatedAt]
          /\ spent' = IF t >= since THEN spent + cost ELSE spent
          /\ full.scaled >= cost * PerMs
      BY <2>1, <2>5 DEF Take, Fits
    <3> HIDE DEF full
    <3>2. /\ full.scaled \in Nat /\ full.updatedAt \in Nat \cup {-1} /\ cost * PerMs \in Nat
          /\ spent * PerMs \in Nat
      BY <1>0, <2>2, <2>4
    <3>3. /\ bucket'.scaled = full.scaled - cost * PerMs
          /\ bucket'.updatedAt = full.updatedAt
          /\ bucket'.scaled \in Nat
      BY <3>1, <3>2
    <3>4. BucketTypeOK' /\ Holds'
      BY <1>0, <2>2, <2>4, <3>1, <3>2, <3>3 DEF BucketTypeOK, BucketInv, Holds, Never, Ceiling
    <3>5. spent' * PerMs <= spent * PerMs + cost * PerMs
      <4>1. (spent + cost) * PerMs = spent * PerMs + cost * PerMs
        BY <1>0, <2>2
      <4> QED BY <3>1, <3>2, <4>1
    <3>6. bucket'.updatedAt < since' => spent' = 0
      BY <1>0, <2>2, <2>4, <3>1, <3>3
    <3>7. ASSUME bucket'.updatedAt >= since'
          PROVE  spent' * PerMs + bucket'.scaled
                   <= Ceiling * PerMs + Requests * (bucket'.updatedAt - since')
      <4>1. spent * PerMs + full.scaled
              <= Ceiling * PerMs + Requests * (full.updatedAt - since)
        BY <2>2, <2>4, <3>3, <3>7
      <4>2. spent' * PerMs \in Nat /\ Requests * (full.updatedAt - since) \in Int
        BY <1>0, <2>2, <3>1, <3>2
      <4> QED BY <1>0, <2>2, <3>2, <3>3, <3>5, <4>1, <4>2
    <3> QED BY <3>4, <3>6, <3>7 DEF BucketInv, Books, Ceiling
  <2>6. CASE ~Fits(cost, t)
    <3>1. bucket' = full /\ spent' = spent
      BY <2>1, <2>6 DEF Take
    <3> HIDE DEF full
    <3> QED BY <1>0, <2>2, <2>4, <3>1 DEF BucketInv, BucketTypeOK, Holds, Books, Never, Ceiling
  <2> QED BY <2>5, <2>6
<1>2. CASE PeekStep
  <2>1. PICK t \in 0..now : Peek(t)
    BY <1>2 DEF PeekStep
  <2> DEFINE full == Refill(t, Burst)
  <2>2. now' = now /\ since' = since /\ bucket' = full /\ spent' = spent
    BY <1>2, <2>1 DEF PeekStep, Peek
  <2>3. /\ full \in [scaled : Nat, updatedAt : Nat \cup {-1}]
        /\ full.scaled <= Ceiling * PerMs
        /\ full.updatedAt <= now
        /\ full.updatedAt < since => spent = 0
        /\ full.updatedAt >= since =>
             spent * PerMs + full.scaled
               <= Ceiling * PerMs + Requests * (full.updatedAt - since)
    BY <1>0, RefillBooks DEF Never
  <2> HIDE DEF full
  <2> QED BY <1>0, <2>2, <2>3 DEF BucketInv, BucketTypeOK, Holds, Books, Never, Ceiling
<1>3. CASE ClockStep
  <2>1. now' = now + 1 /\ UNCHANGED <<bucket, since, spent>>
    BY <1>3 DEF ClockStep
  <2>2. BucketTypeOK' /\ Books'
    BY <1>0, <2>1 DEF BucketInv, BucketTypeOK, Books, Ceiling
  <2>3. Holds'
    BY <1>0, <2>1 DEF BucketInv, BucketTypeOK, Holds, Ceiling, Never
  <2> QED BY <2>2, <2>3 DEF BucketInv
<1>4. CASE Audit
  <2>1. since' = now /\ spent' = 0 /\ now' = now /\ bucket' = bucket
    BY <1>4 DEF Audit
  <2>2. bucket.scaled \in Nat /\ bucket.updatedAt \in Nat \cup {-1}
        /\ bucket.updatedAt <= now /\ bucket.scaled <= Ceiling * PerMs
    BY DEF BucketInv, BucketTypeOK, Holds, Never
  <2>3. BucketTypeOK' /\ Holds'
    BY <1>0, <2>1, <2>2 DEF BucketInv, BucketTypeOK, Holds, Ceiling
  <2>4. spent' * PerMs = 0
    BY <2>1
  <2>5. bucket.updatedAt >= now => Requests * (bucket.updatedAt - now) = 0
    <3>1. ASSUME bucket.updatedAt >= now PROVE bucket.updatedAt - now = 0
      BY <1>0, <2>2, <3>1
    <3> QED BY <3>1
  <2>6. Books'
    BY <1>0, <2>1, <2>2, <2>4, <2>5 DEF Books, Ceiling
  <2> QED BY <2>3, <2>6 DEF BucketInv
<1>5. CASE UNCHANGED bucketVars
  BY <1>5 DEF bucketVars, BucketInv, BucketTypeOK, Holds, Books, Ceiling
<1> QED BY <1>1, <1>2, <1>3, <1>4, <1>5 DEF BucketNext

(* The books and the clock give the bound.                                 *)
LEMMA BooksBound == BucketInv => RateBounded
<1> SUFFICES ASSUME BucketInv PROVE RateBounded
  OBVIOUS
<1> USE BucketAssumption
<1>0. /\ now \in Nat /\ since \in Nat /\ spent \in Nat /\ since <= now
      /\ bucket.scaled \in Nat /\ bucket.updatedAt \in Nat \cup {-1}
      /\ bucket.updatedAt <= now
      /\ Ceiling * PerMs \in Nat
  BY DEF BucketInv, BucketTypeOK, Holds, Never, Ceiling, AtLeast
<1>1. CASE bucket.updatedAt < since
  <2>1. spent * PerMs = 0
    BY <1>1 DEF BucketInv, Books
  <2>2. Requests * (now - since) \in Nat
    BY <1>0
  <2> QED BY <1>0, <2>1, <2>2 DEF RateBounded
<1>2. CASE bucket.updatedAt >= since
  <2>1. spent * PerMs + bucket.scaled
          <= Ceiling * PerMs + Requests * (bucket.updatedAt - since)
    BY <1>2 DEF BucketInv, Books
  <2>2. (bucket.updatedAt - since) * Requests <= (now - since) * Requests
    BY <1>0, ScaleOrder
  <2>3. /\ (bucket.updatedAt - since) * Requests = Requests * (bucket.updatedAt - since)
        /\ (now - since) * Requests = Requests * (now - since)
        /\ Requests * (now - since) \in Int
        /\ Requests * (bucket.updatedAt - since) \in Int
        /\ spent * PerMs \in Nat
    BY <1>0
  <2> QED BY <1>0, <2>1, <2>2, <2>3 DEF RateBounded
<1> QED BY <1>0, <1>1, <1>2

(* G6 for the bucket of src/budget/memory-store.ts and its Lua mirror.     *)
THEOREM BudgetKept == BucketSpec => []RateBounded
<1>1. BucketInit => BucketInv
  BY BucketInvInit
<1>2. BucketInv /\ [BucketNext]_bucketVars => BucketInv'
  BY BucketInvStep
<1>3. BucketInv => RateBounded
  BY BooksBound
<1> QED BY <1>1, <1>2, <1>3, PTL DEF BucketSpec
=============================================================================
