----------------------------- MODULE StateStore -----------------------------
(***************************************************************************)
(* The record a state store keeps for one (poller, partition) key and the  *)
(* operations on it: the lease and its fencing epoch, the persisted poller *)
(* state, the snapshot of items, the outbox of pending events, the parked  *)
(* events and the event log (src/core/store-types.ts, with the semantics   *)
(* of src/stores/memory/memory-store.ts, the reference implementation the  *)
(* store contract suite compares the others with).                         *)
(*                                                                         *)
(* Time is abstracted: a lease is "live" until an expiry step clears the   *)
(* flag (LeaseKeeper.tla keeps the clock and refines this view), and a row *)
(* that has been attempted before may or may not be due again.             *)
(***************************************************************************)
EXTENDS Integers, FiniteSets

CONSTANTS
  Identity,     \* item identities, which are also the default ordering keys
  Version,      \* item versions (or content hashes)
  Absent,       \* "no row for this identity" in the snapshot
  Owner,        \* engine instance ids
  NoOwner       \* the owner of the empty lease

ASSUME StoreAssumption ==
  /\ IsFiniteSet(Identity)
  /\ Absent \notin Version
  /\ NoOwner \notin Owner

VARIABLES
  lease,        \* [owner, epoch, live]; NoLease when released
  epochCounter, \* monotonic source of fencing epochs
  state,        \* PollerState: live-lane cursor, last sequence, paused
  items,        \* snapshot: last recorded version per identity
  outbox,       \* pending rows
  parked,       \* poison rows
  log           \* every event committed with the replay log on

storeVars == <<lease, epochCounter, state, items, outbox, parked, log>>

-----------------------------------------------------------------------------
(* Rows *)

EventType == {"created", "updated", "deleted"}

(* An event id is a hash of identity, version and type: it has no sequence *)
(* number, so the same change observed twice has the same id.              *)
EventId == [subject : Identity, version : Version, type : EventType]

OutboxRow == [event : EventId, sequence : Nat, attempts : Nat]

ParkedRow == [event : EventId, sequence : Nat, holdKey : BOOLEAN]

LoggedEvent == [event : EventId, sequence : Nat]

(* The persisted schedule is left out here: see Scheduler.tla.             *)
PollerState == [cursor : Nat, sequence : Nat, paused : BOOLEAN]

NoLease == [owner |-> NoOwner, epoch |-> 0, live |-> FALSE]

InitialState == [cursor |-> 0, sequence |-> 0, paused |-> FALSE]

(* A map keyed by event id, kept as a set of rows: writing a row replaces  *)
(* the one with the same id.                                               *)
Without(rows, event) == {row \in rows : row.event # event}

(* Mutant: a row with a known id is left as it is.                         *)
PutIfAbsent(rows, new) ==
  rows \cup {n \in new : \A row \in rows : n.event # row.event}

Put(rows, new) ==
  {row \in rows : \A n \in new : n.event # row.event} \cup new

Logged(rows) == {[event |-> row.event, sequence |-> row.sequence] : row \in rows}

StoreInit ==
  /\ lease = NoLease
  /\ epochCounter = 0
  /\ state = InitialState
  /\ items = [k \in Identity |-> Absent]
  /\ outbox = {}
  /\ parked = {}
  /\ log = {}

-----------------------------------------------------------------------------
(* The lease *)

(* Mutant: the owner alone decides.                                        *)
FenceOwner(owner, epoch) == lease.owner = owner

(* The test every fenced write makes before it touches anything. Expiry is *)
(* not part of it: an expired lease nobody took over still writes.         *)
Fence(owner, epoch) == lease.owner = owner /\ lease.epoch = epoch

(* Refused only while another owner's lease is unexpired.                  *)
AcquireLease(owner) ==
  /\ ~(lease.live /\ lease.owner # owner)
  /\ epochCounter' = epochCounter + 1
  /\ lease' = [owner |-> owner, epoch |-> epochCounter + 1, live |-> TRUE]

RenewLease(owner, epoch) ==
  lease' = IF Fence(owner, epoch) THEN [lease EXCEPT !.live = TRUE] ELSE lease

(* Mutant: a released lease is marked by the epoch -1.                     *)
ReleaseLeaseMarked(owner, epoch) ==
  lease' = IF Fence(owner, epoch) THEN [NoLease EXCEPT !.epoch = -1] ELSE lease

ReleaseLease(owner, epoch) ==
  lease' = IF Fence(owner, epoch) THEN NoLease ELSE lease

-----------------------------------------------------------------------------
(* The outbox and the parked rows *)

(* loadPending: the `limit` rows of smallest sequence.                     *)
LoadPending(limit) ==
  {row \in outbox :
     Cardinality({r \in outbox : r.sequence < row.sequence}) < limit}

(* The version the rows of a commit give to an identity.                   *)
Upserted(rows, k) ==
  IF \E row \in rows : row.event.subject = k
  THEN (CHOOSE row \in rows : row.event.subject = k).event.version
  ELSE items[k]

(* Mutant: the sequence number is left out of the transaction.             *)
CommitWithoutSequence(rows, cursor, sequence) ==
  /\ items' = [k \in Identity |-> Upserted(rows, k)]
  /\ outbox' = Put(outbox, rows)
  /\ log' = log \cup Logged(rows)
  /\ state' = [state EXCEPT !.cursor = cursor]

(* One transaction: snapshot rows, pending events, log and state together. *)
CommitPoll(rows, cursor, sequence) ==
  /\ items' = [k \in Identity |-> Upserted(rows, k)]
  /\ outbox' = Put(outbox, rows)
  /\ log' = log \cup Logged(rows)
  /\ state' = [state EXCEPT !.cursor = cursor, !.sequence = sequence]

(* Mutant: an ack removes every row of the item.                           *)
AckSubject(event) == outbox' = {row \in outbox : row.event.subject # event.subject}

AckEvents(event) == outbox' = Without(outbox, event)

RecordAttempt(event) ==
  outbox' = {IF row.event = event THEN [row EXCEPT !.attempts = @ + 1] ELSE row
               : row \in outbox}

ParkEvent(row, hold) ==
  /\ parked' = Put(parked, {[event |-> row.event, sequence |-> row.sequence,
                             holdKey |-> hold]})
  /\ outbox' = Without(outbox, row.event)

(* retryParked is not fenced: an operator's call, from any process. The    *)
(* row goes back with the sequence it was parked with and no attempts, and *)
(* replaces a pending row of the same id.                                  *)
RetryParked(row) ==
  /\ row \in parked
  /\ outbox' = Put(outbox, {[event |-> row.event, sequence |-> row.sequence,
                             attempts |-> 0]})
  /\ parked' = parked \ {row}

DiscardParked(row) ==
  /\ row \in parked
  /\ parked' = parked \ {row}

(* Mutant: no key is ever held.                                            *)
NoKeyHeld == {}

HeldKeys == {row.event.subject : row \in {p \in parked : p.holdKey}}

-----------------------------------------------------------------------------
StoreTypeOK ==
  /\ lease \in [owner : Owner \cup {NoOwner}, epoch : Nat, live : BOOLEAN]
  /\ epochCounter \in Nat
  /\ state \in PollerState
  /\ items \in [Identity -> Version \cup {Absent}]
  /\ outbox \subseteq OutboxRow
  /\ parked \subseteq ParkedRow
  /\ log \subseteq LoggedEvent
=============================================================================
