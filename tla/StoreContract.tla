--------------------------- MODULE StoreContract ---------------------------
(***************************************************************************)
(* What a state store promises to its callers, as a specification of its   *)
(* own: the record of one (poller, partition) key changes only in whole    *)
(* operations, and a fenced write happens only under the lease that is     *)
(* current at that moment (src/core/store-types.ts; the operations are     *)
(* those of src/stores/memory/memory-store.ts, which runs each of them     *)
(* without interruption). Runner.tla is built on these steps; SqliteStore, *)
(* PostgresStore and RedisStore are shown to implement them.               *)
(***************************************************************************)
EXTENDS StateStore

CONSTANT
  Batch         \* the commitPoll batches the callers may present: each has
                \* outbox rows, identities to delete, a cursor and a sequence

VARIABLES
  validator,    \* the stored HTTP validator of one URL
  writer        \* history: the lease under which the last fenced write was made

contractVars == <<storeVars, validator, writer>>

-----------------------------------------------------------------------------
(* The parts of an operation that all stores share. *)

NoWriter == [owner |-> NoOwner, epoch |-> 0]

(* Events the batches are about, and the state patches callers write.      *)
Event == UNION {{row.event : row \in b.rows} : b \in Batch}

Patch == [paused : BOOLEAN] \cup {[cursor |-> 0]}

(* Top-level replacement of the fields the patch has.                      *)
Patched(s, patch) ==
  [f \in DOMAIN s |-> IF f \in DOMAIN patch THEN patch[f] ELSE s[f]]

(* The snapshot after a batch: upserts first, then deletes.                *)
ItemsAfter(old, b) ==
  [k \in Identity |->
     IF k \in b.deletes THEN Absent
     ELSE IF \E row \in b.rows : row.event.subject = k
          THEN (CHOOSE row \in b.rows : row.event.subject = k).event.version
          ELSE old[k]]

ParkedRowOf(row) == [event |-> row.event, sequence |-> row.sequence, holdKey |-> TRUE]

(* The outbox rows retryParked makes of parked rows.                       *)
FreshRows(rows) ==
  {[event |-> row.event, sequence |-> row.sequence, attempts |-> 0] : row \in rows}

-----------------------------------------------------------------------------
(* The operations. *)

Init == StoreInit /\ validator = Absent /\ writer = NoWriter

Acquire(o) ==
  /\ AcquireLease(o)
  /\ UNCHANGED <<state, items, outbox, parked, log, validator, writer>>

Renew(o, e) ==
  /\ Fence(o, e)
  /\ RenewLease(o, e)
  /\ UNCHANGED <<epochCounter, state, items, outbox, parked, log, validator, writer>>

Release(o, e) ==
  /\ Fence(o, e)
  /\ ReleaseLease(o, e)
  /\ UNCHANGED <<epochCounter, state, items, outbox, parked, log, validator, writer>>

(* Time passes a lease's expiresAt.                                        *)
Expire ==
  /\ lease.live
  /\ lease' = [lease EXCEPT !.live = FALSE]
  /\ UNCHANGED <<epochCounter, state, items, outbox, parked, log, validator, writer>>

(* A write by the holder of a lease.                                       *)
Fenced(o, e) ==
  /\ Fence(o, e)
  /\ writer' = [owner |-> o, epoch |-> e]
  /\ UNCHANGED <<lease, epochCounter>>

SaveState(o, e, patch) ==
  /\ Fenced(o, e)
  /\ state' = Patched(state, patch)
  /\ UNCHANGED <<items, outbox, parked, log, validator>>

Commit(o, e, b) ==
  /\ Fenced(o, e)
  /\ state' = Patched(state, [cursor |-> b.cursor, sequence |-> b.sequence])
  /\ items' = ItemsAfter(items, b)
  /\ outbox' = Put(outbox, b.rows)
  /\ log' = log \cup Logged(b.rows)
  /\ UNCHANGED <<parked, validator>>

Ack(o, e, event) ==
  /\ Fenced(o, e)
  /\ AckEvents(event)
  /\ UNCHANGED <<state, items, parked, log, validator>>

Attempt(o, e, event) ==
  /\ Fenced(o, e)
  /\ RecordAttempt(event)
  /\ UNCHANGED <<state, items, parked, log, validator>>

Park(o, e, row) ==
  /\ Fenced(o, e)
  /\ ParkEvent(row, TRUE)
  /\ UNCHANGED <<state, items, log, validator>>

SetValidator(o, e, tag) ==
  /\ Fenced(o, e)
  /\ validator' = tag
  /\ UNCHANGED <<state, items, outbox, parked, log>>

(* Administrative writes: no lease, from any process.                      *)
Unfenced == UNCHANGED <<lease, epochCounter, writer>>

SaveStateUnfenced(patch) ==
  /\ Unfenced
  /\ state' = Patched(state, patch)
  /\ UNCHANGED <<items, outbox, parked, log, validator>>

Retry(events) ==
  LET moved == {row \in parked : row.event \in events} IN
    /\ Unfenced
    /\ outbox' = Put(outbox, FreshRows(moved))
    /\ parked' = parked \ moved
    /\ UNCHANGED <<state, items, log, validator>>

Discard(events) ==
  /\ Unfenced
  /\ parked' = {row \in parked : row.event \notin events}
  /\ UNCHANGED <<state, items, outbox, log, validator>>

ClearItems ==
  /\ Unfenced
  /\ items' = [k \in Identity |-> Absent]
  /\ UNCHANGED <<state, outbox, parked, log, validator>>

(* Entries older than the given one; their times grow with their sequence. *)
PruneLog(n) ==
  /\ Unfenced
  /\ log' = {l \in log : l.sequence >= n}
  /\ UNCHANGED <<state, items, outbox, parked, validator>>

(* Every row of the key, its epoch counter included.                       *)
DeleteKey ==
  /\ lease' = NoLease /\ epochCounter' = 0
  /\ state' = InitialState
  /\ items' = [k \in Identity |-> Absent]
  /\ outbox' = {} /\ parked' = {} /\ log' = {}
  /\ validator' = Absent
  /\ UNCHANGED writer

Next ==
  \/ \E o \in Owner : Acquire(o)
  \/ Expire
  \/ \E o \in Owner, e \in 1..epochCounter :
       \/ Renew(o, e) \/ Release(o, e)
       \/ \E patch \in Patch : SaveState(o, e, patch)
       \/ \E b \in Batch : Commit(o, e, b)
       \/ \E event \in Event : Ack(o, e, event) \/ Attempt(o, e, event)
       \/ \E row \in UNION {b.rows : b \in Batch} : Park(o, e, row)
       \/ \E tag \in Version : SetValidator(o, e, tag)
  \/ \E patch \in Patch : SaveStateUnfenced(patch)
  \/ \E events \in SUBSET Event : Retry(events) \/ Discard(events)
  \/ ClearItems
  \/ \E n \in 1..state.sequence : PruneLog(n)
  \/ DeleteKey

Spec == Init /\ [][Next]_contractVars
=============================================================================
