----------------------------- MODULE RedisStore -----------------------------
(***************************************************************************)
(* The Redis state store (src/stores/redis/redis-store.ts with the Lua     *)
(* scripts of scripts.ts). One EVAL is atomic; an operation that needs     *)
(* several commands is not, and other clients' commands run in between:    *)
(* loadPending (the index, then rows and counters), retryParked (read the  *)
(* parked rows, then a script that moves them), pruneLog (read, then       *)
(* remove) and deleteKey (the hashes, then the set of keys).               *)
(*                                                                         *)
(* The pending rows of the contract are spread over three structures: the  *)
(* sorted set of pending ids, the immutable row JSON and the attempt       *)
(* counters. (The error hash moves with the counters and is left out.)     *)
(***************************************************************************)
EXTENDS Integers, FiniteSets

CONSTANTS
  Identity, Version, Absent, Owner, NoOwner, Batch,   \* see StoreContract
  Operator,     \* the processes that run administrative commands
  NoHash,       \* a hash that does not exist
  Null,         \* the argument of a call that has none
  Limit,        \* how many rows loadPending asks for
  MaxCalls      \* bound on the number of store calls

VARIABLES
  meta,         \* hash: lease_owner, lease_epoch, live, epoch_counter
  state,        \* hash of state fields, or NoHash
  items,        \* hash: identity -> version
  pendingIds,   \* sorted set: pending event ids with their score
  rows,         \* hash: event id -> row JSON
  attempts,     \* hash: event id -> attempts since the row was written
  parked,       \* hash: event id -> parked row JSON
  hold,         \* hash: the ids whose ordering key is held
  validator, log,
  listed,       \* the key is a member of the set of keys
  conn,         \* per client: the multi-command call under way and what it has read
  held,         \* per engine: the epoch of the lease it last acquired, or 0
  calls,        \* store calls made so far
  writer        \* history: the lease of the last fenced write

dataVars == <<state, items, pendingIds, rows, attempts, parked, hold, validator, log, listed>>
callVars == <<conn, held, calls>>
vars == <<meta, dataVars, callVars, writer>>

(* The hashes, decoded the way the readers decode them.                    *)
DecodedOutbox ==
  {[row EXCEPT !.attempts = @ + attempts[row.event]] :
     row \in {r \in rows : \E p \in pendingIds : p.event = r.event}}

C == INSTANCE StoreContract WITH
  lease <- IF meta.lease_owner = NoOwner
           THEN [owner |-> NoOwner, epoch |-> 0, live |-> FALSE]
           ELSE [owner |-> meta.lease_owner, epoch |-> meta.lease_epoch, live |-> meta.live],
  epochCounter <- meta.epoch_counter,
  state <- IF state = NoHash THEN [cursor |-> 0, sequence |-> 0, paused |-> FALSE] ELSE state,
  outbox <- DecodedOutbox,
  parked <- {[row EXCEPT !.holdKey = row.event \in hold] : row \in parked}

EmptyMeta == [lease_owner |-> NoOwner, lease_epoch |-> 0, live |-> FALSE, epoch_counter |-> 0]

Idle == [op |-> "none", arg |-> Null, ids |-> {}, found |-> {}]

-----------------------------------------------------------------------------
(* Commands *)

(* A client sends its next command when it has the reply to the last.      *)
Call(c) == conn[c].op = "none" /\ calls < MaxCalls /\ calls' = calls + 1

(* FENCE: the test at the head of every fenced script.                     *)
Fenced(c) == meta.lease_owner = c /\ meta.lease_epoch = held[c]

(* ACQUIRE_LEASE. The reply may be lost: then the lease is taken and the   *)
(* engine does not know its epoch.                                         *)
AcquireLease(c) ==
  /\ Call(c)
  /\ meta.lease_owner \in {NoOwner, c} \/ ~meta.live
  /\ LET n == meta.epoch_counter + 1
     IN /\ meta' = [lease_owner |-> c, lease_epoch |-> n, live |-> TRUE, epoch_counter |-> n]
        /\ held' \in {[held EXCEPT ![c] = n], held}
  /\ listed' = TRUE
  /\ UNCHANGED <<state, items, pendingIds, rows, attempts, parked, hold, validator, log, conn, writer>>

(* RENEW_LEASE, from the heartbeat: also while a call is under way.        *)
RenewLease(c) ==
  /\ Fenced(c) /\ ~meta.live
  /\ meta' = [meta EXCEPT !.live = TRUE]
  /\ UNCHANGED <<dataVars, callVars, writer>>

RenewRefused(c) ==
  /\ held[c] > 0 /\ ~Fenced(c) /\ conn[c].op = "none"
  /\ held' = [held EXCEPT ![c] = 0]
  /\ UNCHANGED <<meta, dataVars, conn, calls, writer>>

ReleaseLease(c) ==
  /\ Call(c) /\ held[c] > 0
  /\ meta' = IF Fenced(c) THEN [meta EXCEPT !.lease_owner = NoOwner, !.lease_epoch = 0, !.live = FALSE]
             ELSE meta
  /\ held' = [held EXCEPT ![c] = 0]
  /\ UNCHANGED <<dataVars, conn, writer>>

Expire ==
  /\ meta.live
  /\ meta' = [meta EXCEPT !.live = FALSE]
  /\ UNCHANGED <<dataVars, callVars, writer>>

-----------------------------------------------------------------------------
(* Fenced scripts *)

(* One EVAL under the caller's lease; every one but ACK_EVENTS and         *)
(* RECORD_ATTEMPT re-adds the key to the set of keys.                      *)
Script(c) ==
  /\ Call(c) /\ held[c] > 0 /\ Fenced(c)
  /\ writer' = [owner |-> c, epoch |-> held[c]]
  /\ UNCHANGED <<meta, conn, held>>

(* LEASE_LOST: nothing is written and the run is over.                     *)
LeaseLost(c) ==
  /\ Call(c) /\ held[c] > 0 /\ ~Fenced(c)
  /\ held' = [held EXCEPT ![c] = 0]
  /\ UNCHANGED <<meta, dataVars, conn, writer>>

(* APPLY_STATE: the fields of the patch over the hash, or over the zero    *)
(* state if there is none.                                                 *)
ApplyState(patch) ==
  state' = C!Patched(IF state = NoHash THEN C!InitialState ELSE state, patch)

SaveState(c, patch) ==
  /\ Script(c)
  /\ ApplyState(patch)
  /\ listed' = TRUE
  /\ UNCHANGED <<items, pendingIds, rows, attempts, parked, hold, validator, log>>

(* The rows of a batch start without attempts.                             *)
WriteRows(new) ==
  LET ids == {row.event : row \in new}
  IN /\ rows' = C!Put(rows, new)
     /\ attempts' = [e \in C!Event |-> IF e \in ids THEN 0 ELSE attempts[e]]
     /\ pendingIds' = C!Put(pendingIds, {[event |-> row.event, score |-> row.sequence] : row \in new})

CommitPoll(c, b) ==
  /\ Script(c)
  /\ ApplyState([cursor |-> b.cursor, sequence |-> b.sequence])
  /\ items' = C!ItemsAfter(items, b)
  /\ WriteRows(b.rows)
  /\ log' = log \cup C!Logged(b.rows)
  /\ listed' = TRUE
  /\ UNCHANGED <<parked, hold, validator>>

(* Mutant: the counter of a dropped row stays.                             *)
DropOutboxKeepsAttempts(event) ==
  /\ pendingIds' = C!Without(pendingIds, event)
  /\ rows' = C!Without(rows, event)
  /\ UNCHANGED attempts

(* DROP_OUTBOX: index, row and counter.                                    *)
DropOutbox(event) ==
  /\ pendingIds' = C!Without(pendingIds, event)
  /\ rows' = C!Without(rows, event)
  /\ attempts' = [attempts EXCEPT ![event] = 0]

AckEvents(c, event) ==
  /\ Script(c)
  /\ DropOutbox(event)
  /\ UNCHANGED <<state, items, parked, hold, validator, log, listed>>

(* No-op for an id without a row.                                          *)
RecordAttempt(c, event) ==
  /\ Script(c)
  /\ attempts' = IF \E row \in rows : row.event = event
                 THEN [attempts EXCEPT ![event] = @ + 1] ELSE attempts
  /\ UNCHANGED <<state, items, pendingIds, rows, parked, hold, validator, log, listed>>

ParkEvent(c, row) ==
  /\ Script(c)
  /\ parked' = C!Put(parked, {C!ParkedRowOf(row)})
  /\ hold' = hold \cup {row.event}
  /\ DropOutbox(row.event)
  /\ listed' = TRUE
  /\ UNCHANGED <<state, items, validator, log>>

SetValidator(c, tag) ==
  /\ Script(c)
  /\ validator' = tag
  /\ listed' = TRUE
  /\ UNCHANGED <<state, items, pendingIds, rows, attempts, parked, hold, log>>

-----------------------------------------------------------------------------
(* loadPending: ZRANGEBYSCORE, then HMGET of the rows and of the counters. *)

Reading(c, op, arg, ids, found) ==
  /\ conn' = [conn EXCEPT ![c] = [op |-> op, arg |-> arg, ids |-> ids, found |-> found]]
  /\ UNCHANGED <<meta, dataVars, held, writer>>

LoadIds(c) ==
  /\ Call(c) /\ Fenced(c)
  /\ \E ids \in SUBSET {p.event : p \in pendingIds} :
       /\ ids = {p.event : p \in {q \in pendingIds :
                   Cardinality({r \in pendingIds : r.score < q.score}) < Limit}}
       /\ ids # {}
       /\ Reading(c, "loadRows", Null, ids, {})

LoadRows(c) ==
  /\ conn[c].op = "loadRows"
  /\ Reading(c, "loadAttempts", Null, conn[c].ids, {row \in rows : row.event \in conn[c].ids})
  /\ UNCHANGED calls

(* Mutant: the attempts are those of the row JSON.                         *)
LoadAttemptsOfRow(c) ==
  /\ conn[c].op = "loadAttempts"
  /\ Reading(c, "loaded", Null, {}, conn[c].found)
  /\ UNCHANGED calls

LoadAttempts(c) ==
  /\ conn[c].op = "loadAttempts"
  /\ Reading(c, "loaded", Null, {},
             {[row EXCEPT !.attempts = @ + attempts[row.event]] : row \in conn[c].found})
  /\ UNCHANGED calls

(* The caller has its rows and goes on.                                    *)
Return(c) ==
  /\ conn[c].op = "loaded"
  /\ Reading(c, "none", Null, {}, {})
  /\ UNCHANGED calls

-----------------------------------------------------------------------------
(* Administrative commands *)

SaveStateUnfenced(c, patch) ==
  /\ Call(c)
  /\ ApplyState(patch)
  /\ listed' = TRUE
  /\ UNCHANGED <<meta, items, pendingIds, rows, attempts, parked, hold, validator, log, conn, held, writer>>

(* retryParked reads the rows first ...                                    *)
RetryRead(c, ids) ==
  /\ Call(c)
  /\ LET found == {row \in parked : row.event \in ids}
     IN found # {} /\ Reading(c, "retryParked", Null, {}, C!FreshRows(found))

(* Mutant: the script moves what was read, still parked or not.            *)
RetryMoveUnchecked(c) ==
  /\ conn[c].op = "retryParked"
  /\ LET moved == conn[c].found
         ids == {row.event : row \in moved}
     IN /\ WriteRows(moved)
        /\ parked' = {row \in parked : row.event \notin ids}
        /\ hold' = hold \ ids
  /\ conn' = [conn EXCEPT ![c] = Idle]
  /\ UNCHANGED <<meta, state, items, validator, log, listed, held, calls, writer>>

(* ... RETRY_PARKED then moves those that are still parked.                *)
RetryMove(c) ==
  /\ conn[c].op = "retryParked"
  /\ LET moved == {row \in conn[c].found : \E p \in parked : p.event = row.event}
         ids == {row.event : row \in moved}
     IN /\ WriteRows(moved)
        /\ parked' = {row \in parked : row.event \notin ids}
        /\ hold' = hold \ ids
  /\ conn' = [conn EXCEPT ![c] = Idle]
  /\ UNCHANGED <<meta, state, items, validator, log, listed, held, calls, writer>>

DiscardParked(c, ids) ==
  /\ Call(c)
  /\ parked' = {row \in parked : row.event \notin ids}
  /\ hold' = hold \ ids
  /\ UNCHANGED <<meta, state, items, pendingIds, rows, attempts, validator, log, listed, conn, held, writer>>

ClearItems(c) ==
  /\ Call(c)
  /\ items' = [k \in Identity |-> Absent]
  /\ UNCHANGED <<meta, state, pendingIds, rows, attempts, parked, hold, validator, log, listed, conn, held, writer>>

(* pruneLog reads the log, then removes the entries that were too old.     *)
PruneRead(c, n) ==
  /\ Call(c)
  /\ Reading(c, "pruneLog", Null, {}, {l \in log : l.sequence < n})

PruneRemove(c) ==
  /\ conn[c].op = "pruneLog"
  /\ log' = log \ conn[c].found
  /\ conn' = [conn EXCEPT ![c] = Idle]
  /\ UNCHANGED <<meta, state, items, pendingIds, rows, attempts, parked, hold, validator, listed, held, calls, writer>>

(* deleteKey: DEL of every hash in one command, then SREM. A pruneLog      *)
(* under way has read entries that are gone; later ones carry later times. *)
DeleteHashes(c) ==
  /\ Call(c)
  /\ meta' = EmptyMeta
  /\ state' = NoHash
  /\ items' = [k \in Identity |-> Absent]
  /\ pendingIds' = {} /\ rows' = {} /\ attempts' = [e \in C!Event |-> 0]
  /\ parked' = {} /\ hold' = {}
  /\ validator' = Absent /\ log' = {}
  /\ conn' = [d \in DOMAIN conn |->
                IF d = c THEN [Idle EXCEPT !.op = "deleteKey"]
                ELSE IF conn[d].op = "pruneLog" THEN [conn[d] EXCEPT !.found = {}] ELSE conn[d]]
  /\ UNCHANGED <<listed, held, writer>>

DeleteMember(c) ==
  /\ conn[c].op = "deleteKey"
  /\ listed' = FALSE
  /\ conn' = [conn EXCEPT ![c] = Idle]
  /\ UNCHANGED <<meta, state, items, pendingIds, rows, attempts, parked, hold, validator, log, held, calls, writer>>

(* A client dies, or its connection breaks, between two commands.          *)
Abandon(c) ==
  /\ conn[c].op # "none"
  /\ conn' = [conn EXCEPT ![c] = Idle]
  /\ UNCHANGED <<meta, dataVars, held, calls, writer>>

-----------------------------------------------------------------------------
Init ==
  /\ meta = EmptyMeta
  /\ state = NoHash
  /\ items = [k \in Identity |-> Absent]
  /\ pendingIds = {} /\ rows = {} /\ attempts = [e \in C!Event |-> 0]
  /\ parked = {} /\ hold = {} /\ validator = Absent /\ log = {}
  /\ listed = FALSE
  /\ conn = [c \in Owner \cup Operator |-> Idle]
  /\ held = [o \in Owner |-> 0]
  /\ calls = 0
  /\ writer = C!NoWriter

LastSequence == IF state = NoHash THEN 0 ELSE state.sequence

(* What an engine calls: a method turns its arguments into its script's.   *)
CallSaveState(c) == \E patch \in C!Patch : SaveState(c, patch)

(* The runner numbers its rows above the sequence it has read.             *)
CallCommitPoll(c) ==
  \E b \in Batch :
    /\ b.sequence > LastSequence
    /\ \A row \in b.rows : row.sequence \in LastSequence + 1 .. b.sequence
    /\ CommitPoll(c, b)

(* The ends of a delivery: ackEvents, recordAttempt, parkEvent.            *)
CallDelivered(c) ==
  \E row \in DecodedOutbox :
    AckEvents(c, row.event) \/ RecordAttempt(c, row.event) \/ ParkEvent(c, row)

CallSetValidator(c) == \E tag \in Version : SetValidator(c, tag)

CallSaveStateUnfenced(c) == \E patch \in C!Patch : SaveStateUnfenced(c, patch)

Next ==
  \/ \E c \in Owner :
       \/ AcquireLease(c) \/ RenewLease(c) \/ RenewRefused(c) \/ ReleaseLease(c) \/ LeaseLost(c)
       \/ CallSaveState(c) \/ CallCommitPoll(c) \/ CallDelivered(c) \/ CallSetValidator(c)
       \/ LoadIds(c) \/ LoadRows(c) \/ LoadAttempts(c) \/ Return(c)
  \/ \E c \in Operator :
       \/ CallSaveStateUnfenced(c)
       \/ \E ids \in SUBSET {row.event : row \in parked} : RetryRead(c, ids) \/ DiscardParked(c, ids)
       \/ RetryMove(c)
       \/ ClearItems(c)
       \/ \E n \in 1..LastSequence : PruneRead(c, n)
       \/ PruneRemove(c)
       \/ DeleteHashes(c) \/ DeleteMember(c)
  \/ \E c \in Owner \cup Operator : Abandon(c)
  \/ Expire

Spec == Init /\ [][Next]_vars

(* Decoded, the hashes change only in whole operations of the contract,    *)
(* and a fenced write is made under the current lease (the Lua scripts and *)
(* the multi-command retryParked, pruneLog and deleteKey).                 *)
Contract == C!Spec

(* What loadPending hands to an engine that still has the lease is exactly *)
(* pending: each row with its sequence and its attempts so far, although   *)
(* it was read in three commands (loadPending).                            *)
PendingSound ==
  \A c \in Owner : conn[c].op = "loaded" /\ Fenced(c) => conn[c].found \subseteq DecodedOutbox

(* The structures agree: an id is indexed exactly when it has a row, with  *)
(* the row's sequence as score, and neither a counter nor a hold outlives  *)
(* its row (DROP_OUTBOX, PARK_EVENT, RETRY_PARKED).                        *)
IndexSound ==
  /\ pendingIds = {[event |-> row.event, score |-> row.sequence] : row \in rows}
  /\ \A e \in C!Event : attempts[e] > 0 => \E row \in rows : row.event = e
  /\ \A e \in hold : \E row \in parked : row.event = e

(* A reader that has the lease gets what the contract's state says, and    *)
(* the structures it reads agree (loadPending, DROP_OUTBOX, PARK_EVENT).   *)
ReadsSound == PendingSound /\ IndexSound

-----------------------------------------------------------------------------
(* What the proofs of ReadsSound and Contract assume (StoreProofs).        *)
RedisParameters ==
  /\ NoOwner \notin Owner /\ NoHash \notin C!PollerState
  /\ Batch \subseteq [rows : SUBSET C!OutboxRow, deletes : SUBSET Identity, cursor : Nat,
                       sequence : Nat]

(* No change is observed twice: an event id has one number.                *)
OneNumber ==
  \A b1, b2 \in Batch : \A r1 \in b1.rows, r2 \in b2.rows :
    r1.event = r2.event => r1.sequence = r2.sequence
=============================================================================
