--------------------------- MODULE PostgresStore ---------------------------
(***************************************************************************)
(* The PostgreSQL state store (src/stores/postgres/postgres-store.ts): the *)
(* tables of one key, and the statements and transactions of its callers,  *)
(* each on a connection of its own. Between two statements of one          *)
(* transaction others run; what orders them is the database's row locks.   *)
(*                                                                         *)
(* READ COMMITTED, as the store uses it: a statement sees what is          *)
(* committed when it runs, waits for the rows another transaction has      *)
(* locked, and locks the rows it writes until COMMIT or ROLLBACK. A SELECT *)
(* ... FOR UPDATE or a DELETE that finds no row locks nothing; an INSERT   *)
(* locks the key it inserts. What a transaction will write is kept with    *)
(* its connection and reaches the tables at COMMIT.                        *)
(*                                                                         *)
(* A DELETE removes the rows that were committed when it began. It waits   *)
(* for those that others have locked and takes them as they are by then;   *)
(* rows inserted since are not among them. That matters to clearItems,     *)
(* whose rows a poll may add to meanwhile. The other statements on several *)
(* rows are whole steps: only the holder of the key's row, or the operator *)
(* himself, can add a row of theirs, and pruneLog leaves the newer alone.  *)
(***************************************************************************)
EXTENDS Integers, FiniteSets

CONSTANTS
  Identity, Version, Absent, Owner, NoOwner, Batch,   \* see StoreContract
  Operator,     \* the process that runs administrative commands, one at a time
  NoRow,        \* the key has no row in the pollers table
  Null,         \* SQL NULL in the state column
  NewKeys,      \* whether administrative writes may find no row of the key
  MaxCalls      \* bound on the number of store calls

VARIABLES
  pollers,      \* the key's row: lease columns, epoch_counter, state
  items, outbox, parked, log, validator,   \* the other tables' committed rows
  conn,         \* per caller: the transaction under way
  held,         \* per engine: the epoch of the lease it last acquired, or 0
  calls,        \* store calls made so far
  writer,       \* history: the lease of the last committed fenced write
  clearing,     \* the items a DELETE of clearItems has still to remove
  late          \* history: the items committed since that DELETE began

clearVars == <<clearing, late>>
vars == <<pollers, items, outbox, parked, log, validator, conn, held, calls, writer, clearVars>>

Caller == Owner \cup {Operator}

C == INSTANCE StoreContract WITH
  lease <- IF pollers = NoRow \/ pollers.lease_owner = NoOwner
           THEN [owner |-> NoOwner, epoch |-> 0, live |-> FALSE]
           ELSE [owner |-> pollers.lease_owner, epoch |-> pollers.lease_epoch,
                 live |-> pollers.live],
  epochCounter <- IF pollers = NoRow THEN 0 ELSE pollers.epoch_counter,
  state <- IF pollers = NoRow \/ pollers.state = Null
           THEN [cursor |-> 0, sequence |-> 0, paused |-> FALSE]
           ELSE pollers.state

-----------------------------------------------------------------------------
(* Connections, locks and transactions *)

NoLocks == [pollers |-> {}, items |-> {}, outbox |-> {}, parked |-> {}]

(* The rows a transaction removes and writes; state is the value of the    *)
(* state column it read, then the one it writes.                           *)
NoChange == [gone |-> {}, put |-> {}, unparked |-> {}, park |-> {}, state |-> Null]

Idle == [op |-> "none", arg |-> Null, pc |-> "idle", locks |-> NoLocks, change |-> NoChange]

(* No other transaction has locked these rows.                             *)
Unlocked(c, table, ids) == \A d \in Caller \ {c} : conn[d].locks[table] \cap ids = {}

Locking(c, table, ids) == [conn[c].locks EXCEPT ![table] = @ \cup ids]

(* The key's row of the pollers table has one name.                        *)
Key == {"key"}

Ready(c) ==
  /\ conn[c].pc = "idle" /\ calls < MaxCalls
  /\ c = Operator => clearing = {}

(* A call that is one transaction: BEGIN, then its statements.             *)
Begin(c, op, arg, first) ==
  /\ Ready(c)
  /\ conn' = [conn EXCEPT ![c] = [Idle EXCEPT !.op = op, !.arg = arg, !.pc = first]]
  /\ calls' = calls + 1
  /\ UNCHANGED <<pollers, items, outbox, parked, log, validator, held, writer, clearVars>>

(* ROLLBACK: a statement fails, the connection breaks, the process dies,   *)
(* or the database picks the transaction as the victim of a deadlock.      *)
Rollback(c) ==
  /\ conn[c].pc # "idle"
  /\ conn' = [conn EXCEPT ![c] = Idle]
  /\ UNCHANGED <<pollers, items, outbox, parked, log, validator, held, calls, writer, clearVars>>

Continue(c, pc, locks, change) ==
  /\ conn' = [conn EXCEPT ![c] = [@ EXCEPT !.pc = pc, !.locks = locks, !.change = change]]
  /\ UNCHANGED <<pollers, items, outbox, parked, log, validator, held, calls, writer, clearVars>>

-----------------------------------------------------------------------------
(* Single statements, committed as they run *)

OneStatement(c) == Ready(c) /\ calls' = calls + 1 /\ UNCHANGED conn

(* INSERT ... ON CONFLICT DO UPDATE ... WHERE ... RETURNING: one statement *)
(* decides and takes the lease.                                            *)
Acquire(c) ==
  /\ OneStatement(c)
  /\ Unlocked(c, "pollers", Key)
  /\ pollers # NoRow =>
       pollers.lease_owner = NoOwner \/ ~pollers.live \/ pollers.lease_owner = c
  /\ LET n == IF pollers = NoRow THEN 1 ELSE pollers.epoch_counter + 1
     IN /\ pollers' = [lease_owner |-> c, lease_epoch |-> n, live |-> TRUE,
                       epoch_counter |-> n,
                       state |-> IF pollers = NoRow THEN Null ELSE pollers.state]
        /\ held' = [held EXCEPT ![c] = n]
  /\ UNCHANGED <<items, outbox, parked, log, validator, writer, clearVars>>

(* The WHERE clause of the lease updates.                                  *)
Mine(c) == pollers # NoRow /\ pollers.lease_owner = c /\ pollers.lease_epoch = held[c]

Renew(c) ==
  /\ OneStatement(c)
  /\ Unlocked(c, "pollers", Key)
  /\ Mine(c)
  /\ pollers' = [pollers EXCEPT !.live = TRUE]
  /\ UNCHANGED <<items, outbox, parked, log, validator, held, writer, clearVars>>

Release(c) ==
  /\ OneStatement(c)
  /\ Unlocked(c, "pollers", Key)
  /\ Mine(c)
  /\ pollers' = [pollers EXCEPT !.lease_owner = NoOwner, !.live = FALSE]
  /\ held' = [held EXCEPT ![c] = 0]
  /\ UNCHANGED <<items, outbox, parked, log, validator, writer, clearVars>>

Expire ==
  /\ pollers # NoRow /\ pollers.live
  /\ pollers' = [pollers EXCEPT !.live = FALSE]
  /\ UNCHANGED <<items, outbox, parked, log, validator, conn, held, calls, writer, clearVars>>

DiscardParked(events) ==
  /\ OneStatement(Operator)
  /\ Unlocked(Operator, "parked", events)
  /\ parked' = {row \in parked : row.event \notin events}
  /\ UNCHANGED <<pollers, items, outbox, log, validator, held, writer, clearVars>>

(* DELETE FROM items, as it begins and as it ends. It locks the rows as it *)
(* comes to them; whoever waits for one of them waits until its end.       *)
ClearItems ==
  /\ OneStatement(Operator)
  /\ clearing' = {k \in Identity : items[k] # Absent}
  /\ late' = {}
  /\ UNCHANGED <<pollers, items, outbox, parked, log, validator, held, writer>>

ClearRows ==
  /\ clearing # {}
  /\ Unlocked(Operator, "items", clearing)
  /\ items' = [k \in Identity |-> IF k \in clearing THEN Absent ELSE items[k]]
  /\ clearing' = {} /\ late' = {}
  /\ UNCHANGED <<pollers, outbox, parked, log, validator, conn, held, calls, writer>>

(* The statement fails, or is the victim of a deadlock.                    *)
ClearFails ==
  /\ clearing # {}
  /\ clearing' = {} /\ late' = {}
  /\ UNCHANGED <<pollers, items, outbox, parked, log, validator, conn, held, calls, writer>>

PruneLog(n) ==
  /\ OneStatement(Operator)
  /\ log' = {l \in log : l.sequence >= n}
  /\ UNCHANGED <<pollers, items, outbox, parked, validator, held, writer, clearVars>>

-----------------------------------------------------------------------------
(* Transactions, statement by statement *)

(* Mutant: the row is read without FOR UPDATE.                             *)
FencedUnlocked(c, next) ==
  /\ conn[c].pc = "lock"
  /\ pollers # NoRow
  /\ Mine(c)
  /\ Continue(c, next, conn[c].locks, [conn[c].change EXCEPT !.state = pollers.state])

(* fenced(): lock the poller row, then compare owner and epoch.            *)
Fenced(c, next) ==
  /\ conn[c].pc = "lock"
  /\ Unlocked(c, "pollers", Key)
  /\ Mine(c)
  /\ Continue(c, next, Locking(c, "pollers", Key), [conn[c].change EXCEPT !.state = pollers.state])

(* LeaseLostError: the transaction rolls back and the run is over.         *)
LeaseLost(c) ==
  /\ conn[c].pc = "lock" /\ c # Operator
  /\ Unlocked(c, "pollers", Key)
  /\ ~Mine(c)
  /\ conn' = [conn EXCEPT ![c] = Idle]
  /\ held' = [held EXCEPT ![c] = 0]
  /\ UNCHANGED <<pollers, items, outbox, parked, log, validator, calls, writer, clearVars>>

(* writeState(): the column becomes what was read overlaid by the patch.   *)
Written(c, patch) ==
  C!Patched(IF conn[c].change.state = Null THEN C!InitialState ELSE conn[c].change.state, patch)

(* INSERT ... ON CONFLICT DO UPDATE SET state = EXCLUDED.state.            *)
WriteState(c, patch) ==
  /\ conn[c].pc = "state"
  /\ Unlocked(c, "pollers", Key)
  /\ Continue(c, "commit", Locking(c, "pollers", Key),
              [conn[c].change EXCEPT !.state = Written(c, patch)])

(* saveStateUnfenced locks the row if there is one.                        *)
LockUnfenced(c) ==
  /\ conn[c].op = "saveStateUnfenced" /\ conn[c].pc = "lock"
  /\ Unlocked(c, "pollers", Key)
  /\ IF pollers = NoRow
     THEN NewKeys /\ Continue(c, "state", conn[c].locks, conn[c].change)
     ELSE Continue(c, "state", Locking(c, "pollers", Key),
                   [conn[c].change EXCEPT !.state = pollers.state])

(* commitPoll: snapshot rows, then outbox rows (and the log), then state.  *)
CommitItems(c) ==
  /\ conn[c].op = "commitPoll" /\ conn[c].pc = "items"
  /\ LET batch == conn[c].arg
         touched == batch.deletes \cup {row.event.subject : row \in batch.rows}
     IN /\ Unlocked(c, "items", touched)
        /\ Continue(c, "outbox", Locking(c, "items", touched), conn[c].change)

CommitOutbox(c) ==
  /\ conn[c].op = "commitPoll" /\ conn[c].pc = "outbox"
  /\ LET rows == conn[c].arg.rows
         ids == {row.event : row \in rows}
     IN /\ Unlocked(c, "outbox", ids)
        /\ Continue(c, "state", Locking(c, "outbox", ids), [conn[c].change EXCEPT !.put = rows])

(* ackEvents: DELETE finds the row or not.                                 *)
AckEvents(c) ==
  /\ conn[c].op = "ackEvents" /\ conn[c].pc = "outbox"
  /\ LET found == {row \in outbox : row.event = conn[c].arg}
     IN /\ Unlocked(c, "outbox", {conn[c].arg})
        /\ Continue(c, "commit", Locking(c, "outbox", {row.event : row \in found}),
                    [conn[c].change EXCEPT !.gone = found])

RecordAttempt(c) ==
  /\ conn[c].op = "recordAttempt" /\ conn[c].pc = "outbox"
  /\ LET found == {row \in outbox : row.event = conn[c].arg}
     IN /\ Unlocked(c, "outbox", {conn[c].arg})
        /\ Continue(c, "commit", Locking(c, "outbox", {row.event : row \in found}),
                    [conn[c].change EXCEPT
                       !.put = {[row EXCEPT !.attempts = @ + 1] : row \in found}])

(* parkEvent: the parked row is written, then the outbox row deleted.      *)
ParkUpsert(c) ==
  /\ conn[c].op = "parkEvent" /\ conn[c].pc = "parked"
  /\ LET row == conn[c].arg
     IN /\ Unlocked(c, "parked", {row.event})
        /\ Continue(c, "outbox", Locking(c, "parked", {row.event}),
                    [conn[c].change EXCEPT !.park = {C!ParkedRowOf(row)}])

ParkDelete(c) ==
  /\ conn[c].op = "parkEvent" /\ conn[c].pc = "outbox"
  /\ LET found == {row \in outbox : row.event = conn[c].arg.event}
     IN /\ Unlocked(c, "outbox", {conn[c].arg.event})
        /\ Continue(c, "commit", Locking(c, "outbox", {row.event : row \in found}),
                    [conn[c].change EXCEPT !.gone = found])

(* retryParked, one id after the other: SELECT ... FOR UPDATE of the       *)
(* parked row, upsert of the outbox row, DELETE of the parked row. arg is  *)
(* the set of ids still to do.                                             *)
RetryLock(c, id) ==
  /\ conn[c].op = "retryParked" /\ conn[c].pc = "parked" /\ id \in conn[c].arg
  /\ Unlocked(c, "parked", {id})
  /\ LET t == conn[c]
         found == {row \in parked : row.event = id}
     IN conn' = [conn EXCEPT ![c] =
                   [op |-> t.op, arg |-> t.arg \ {id},
                    pc |-> IF found = {} THEN "parked" ELSE "outbox",
                    locks |-> Locking(c, "parked", {row.event : row \in found}),
                    change |-> [t.change EXCEPT !.unparked = @ \cup found]]]
  /\ UNCHANGED <<pollers, items, outbox, parked, log, validator, held, calls, writer, clearVars>>

RetryMove(c) ==
  /\ conn[c].op = "retryParked" /\ conn[c].pc = "outbox"
  /\ LET rows == C!FreshRows(conn[c].change.unparked)
         ids == {row.event : row \in rows}
     IN /\ Unlocked(c, "outbox", ids)
        /\ Continue(c, "parked", Locking(c, "outbox", ids), [conn[c].change EXCEPT !.put = rows])

RetryDone(c) ==
  /\ conn[c].op = "retryParked" /\ conn[c].pc = "parked" /\ conn[c].arg = {}
  /\ Continue(c, "commit", conn[c].locks, conn[c].change)

(* deleteKey: the poller row first, which keeps fenced writers out, then   *)
(* the rows of the other tables.                                           *)
DeletePoller(c) ==
  /\ conn[c].op = "deleteKey" /\ conn[c].pc = "lock"
  /\ Unlocked(c, "pollers", Key)
  /\ pollers # NoRow \/ NewKeys
  /\ Continue(c, "rows", IF pollers = NoRow THEN conn[c].locks ELSE Locking(c, "pollers", Key),
              conn[c].change)

DeleteRows(c) ==
  /\ conn[c].op = "deleteKey" /\ conn[c].pc = "rows"
  /\ LET ids(rows) == {row.event : row \in rows}
     IN /\ Unlocked(c, "outbox", ids(outbox)) /\ Unlocked(c, "parked", ids(parked))
        /\ Continue(c, "commit",
             [conn[c].locks EXCEPT !.outbox = ids(outbox), !.parked = ids(parked)],
             [conn[c].change EXCEPT !.gone = outbox, !.unparked = parked])

-----------------------------------------------------------------------------
(* COMMIT: everything the transaction wrote, at once. *)

FencedOps == {"saveState", "commitPoll", "ackEvents", "recordAttempt", "parkEvent", "setValidator"}

StateOps == {"saveState", "saveStateUnfenced", "commitPoll"}

(* A DELETE under way finds the rows it began with that are still there,   *)
(* and not those that are new or have come back.                           *)
Overtake ==
  /\ clearing' = {k \in clearing : items'[k] # Absent}
  /\ late' = IF clearing' = {} THEN {}
             ELSE {k \in Identity : items'[k] # Absent /\ (items[k] = Absent \/ k \in late)}

Commit(c) ==
  LET t == conn[c]
      deletes == t.op = "deleteKey"
  IN
    /\ t.pc = "commit"
    /\ pollers' = CASE deletes -> NoRow
                    [] t.op \in StateOps /\ pollers = NoRow ->
                         [lease_owner |-> NoOwner, lease_epoch |-> 0, live |-> FALSE,
                          epoch_counter |-> 0, state |-> t.change.state]
                    [] t.op \in StateOps /\ pollers # NoRow ->
                         [pollers EXCEPT !.state = t.change.state]
                    [] OTHER -> pollers
    /\ items' = CASE t.op = "commitPoll" -> C!ItemsAfter(items, t.arg)
                  [] deletes -> [k \in Identity |-> Absent]
                  [] OTHER -> items
    /\ outbox' = C!Put(outbox \ t.change.gone, t.change.put)
    /\ parked' = C!Put(parked \ t.change.unparked, t.change.park)
    /\ log' = IF deletes THEN {} ELSE IF t.op = "commitPoll" THEN log \cup C!Logged(t.arg.rows) ELSE log
    /\ validator' = CASE t.op = "setValidator" -> t.arg [] deletes -> Absent [] OTHER -> validator
    /\ writer' = IF t.op \in FencedOps THEN [owner |-> c, epoch |-> held[c]] ELSE writer
    /\ conn' = [conn EXCEPT ![c] = Idle]
    /\ Overtake
    /\ UNCHANGED <<held, calls>>

-----------------------------------------------------------------------------
Init ==
  /\ pollers = IF NewKeys THEN NoRow
               ELSE [lease_owner |-> NoOwner, lease_epoch |-> 0, live |-> FALSE,
                     epoch_counter |-> 0, state |-> Null]
  /\ items = [k \in Identity |-> Absent]
  /\ outbox = {} /\ parked = {} /\ log = {}
  /\ validator = Absent
  /\ conn = [c \in Caller |-> Idle]
  /\ held = [o \in Owner |-> 0]
  /\ calls = 0
  /\ writer = C!NoWriter
  /\ clearing = {} /\ late = {}

CommittedState == IF pollers = NoRow \/ pollers.state = Null THEN C!InitialState ELSE pollers.state

(* What an engine calls under its lease. A batch continues the sequence.   *)
EngineCalls(c) ==
  /\ held[c] > 0
  /\ \/ \E patch \in C!Patch : Begin(c, "saveState", patch, "lock")
     \/ \E b \in Batch : /\ b.sequence > CommittedState.sequence
                         /\ Begin(c, "commitPoll", b, "lock")
     \/ \E row \in outbox : \/ Begin(c, "ackEvents", row.event, "lock")
                            \/ Begin(c, "recordAttempt", row.event, "lock")
                            \/ Begin(c, "parkEvent", row, "lock")
     \/ \E tag \in Version : Begin(c, "setValidator", tag, "lock")

OperatorCalls ==
  \/ \E patch \in C!Patch : Begin(Operator, "saveStateUnfenced", patch, "lock")
  \/ \E ids \in SUBSET {row.event : row \in parked} :
       \/ Begin(Operator, "retryParked", ids, "parked")
       \/ DiscardParked(ids)
  \/ ClearItems
  \/ \E n \in 1..CommittedState.sequence : PruneLog(n)
  \/ Begin(Operator, "deleteKey", Null, "lock")

(* The statement each fenced call runs after the lock.                     *)
AfterLock(op) ==
  CASE op = "saveState" -> "state" [] op = "commitPoll" -> "items"
    [] op = "parkEvent" -> "parked" [] op = "setValidator" -> "commit"
    [] OTHER -> "outbox"

PatchOf(t) ==
  IF t.op = "commitPoll" THEN [cursor |-> t.arg.cursor, sequence |-> t.arg.sequence] ELSE t.arg

Next ==
  \/ \E c \in Owner : Acquire(c) \/ Renew(c) \/ Release(c) \/ EngineCalls(c)
  \/ OperatorCalls
  \/ Expire
  \/ ClearRows \/ ClearFails
  \/ \E c \in Owner : \/ Fenced(c, AfterLock(conn[c].op))
                      \/ LeaseLost(c)
                      \/ CommitItems(c) \/ CommitOutbox(c) \/ AckEvents(c) \/ RecordAttempt(c)
                      \/ ParkUpsert(c) \/ ParkDelete(c)
  \/ \E c \in Caller : WriteState(c, PatchOf(conn[c])) \/ Commit(c) \/ Rollback(c)
  \/ LockUnfenced(Operator)
  \/ \E id \in C!Event : RetryLock(Operator, id)
  \/ RetryMove(Operator) \/ RetryDone(Operator)
  \/ DeletePoller(Operator) \/ DeleteRows(Operator)

Spec == Init /\ [][Next]_vars

(* A clear that a poll has overtaken: what was committed since it began    *)
(* stays, everything older goes. With nothing late it is C!ClearItems.     *)
LateClear ==
  /\ C!Unfenced
  /\ items' = [k \in Identity |-> IF k \in late THEN items[k] ELSE Absent]
  /\ UNCHANGED <<CommittedState, outbox, parked, log, validator>>

(* Every step the database makes visible is one whole operation of the     *)
(* contract, but for a clear's late items, and a fenced one is made under  *)
(* the current lease.                                                      *)
Contract == C!Init /\ [][C!Next \/ LateClear]_(C!contractVars)

-----------------------------------------------------------------------------
(* What the proof of Contract assumes (StoreProofs): a key has its row     *)
(* before an administrative write looks for it.                            *)
PollersRow ==
  [lease_owner : Owner \cup {NoOwner}, lease_epoch : Nat, live : BOOLEAN, epoch_counter : Nat,
   state : C!PollerState \cup {Null}]

PostgresParameters ==
  /\ NewKeys = FALSE
  /\ Operator \notin Owner /\ NoOwner \notin Owner
  /\ Null \notin C!PollerState /\ NoRow \notin PollersRow
  /\ Batch \subseteq [rows : SUBSET C!OutboxRow, deletes : SUBSET Identity, cursor : Nat,
                       sequence : Nat]
=============================================================================
