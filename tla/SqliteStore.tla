---------------------------- MODULE SqliteStore ----------------------------
(***************************************************************************)
(* The SQLite state store (src/stores/sqlite/sqlite-store.ts), shared by   *)
(* several processes through one file. An operation of several statements  *)
(* runs inside BEGIN IMMEDIATE ... COMMIT: it takes the one write lock of  *)
(* the database first, so its fence, its reads and its writes happen with  *)
(* no other writer in between; readers see the last commit (WAL). Leases,  *)
(* clearItems and pruneLog are single statements.                          *)
(*                                                                         *)
(* A key without a row in the pollers table and one whose columns still    *)
(* have their defaults are the same here: every statement treats them so.  *)
(***************************************************************************)
EXTENDS Integers, Sequences, FiniteSets

CONSTANTS
  Identity, Version, Absent, Owner, NoOwner, Batch,   \* see StoreContract
  Operator,     \* the process that runs administrative commands
  Null,         \* SQL NULL, and the argument of a call that has none
  MaxCalls      \* bound on the number of store calls

VARIABLES
  db,           \* the committed rows of the key, one field per column or table
  lock,         \* the process that has the write lock, or NoOwner
  conn,         \* per process: the call under way, its statements still to run
                \* and its uncommitted copy of the rows
  held,         \* per engine: the epoch of the lease it last acquired, or 0
  calls,        \* store calls made so far
  writer        \* history: the lease of the last committed fenced write

vars == <<db, lock, conn, held, calls, writer>>

Process == Owner \cup {Operator}

(* The contract's view of the lease and state columns.                     *)
LeaseRow ==
  IF db.lease_owner = NoOwner THEN [owner |-> NoOwner, epoch |-> 0, live |-> FALSE]
  ELSE [owner |-> db.lease_owner, epoch |-> db.lease_epoch, live |-> db.live]

StateRow ==
  IF db.state = Null THEN [cursor |-> 0, sequence |-> 0, paused |-> FALSE] ELSE db.state

C == INSTANCE StoreContract WITH
  lease <- LeaseRow, epochCounter <- db.epoch_counter, state <- StateRow,
  items <- db.items, outbox <- db.outbox, parked <- db.parked, log <- db.log,
  validator <- db.validator

ASSUME SqliteAssumption ==
  /\ Operator \notin Owner /\ NoOwner \notin Owner \cup {Operator}
  /\ Null \notin C!PollerState
  /\ Batch \subseteq [rows : SUBSET C!OutboxRow, deletes : SUBSET Identity, cursor : Nat,
                       sequence : Nat]
  /\ MaxCalls \in Nat

EmptyRows ==
  [lease_owner |-> NoOwner, lease_epoch |-> 0, live |-> FALSE, epoch_counter |-> 0,
   state |-> Null, items |-> [k \in Identity |-> Absent], outbox |-> {}, parked |-> {},
   log |-> {}, validator |-> Absent]

Idle == [op |-> "none", arg |-> Null, todo |-> << >>, rows |-> EmptyRows]

-----------------------------------------------------------------------------
(* Single statements *)

Ready(c) == conn[c].op = "none" /\ calls < MaxCalls

(* run(): the statement waits for the write lock and commits as it ends.   *)
OneStatement(c) ==
  /\ Ready(c) /\ lock = NoOwner
  /\ calls' = calls + 1
  /\ UNCHANGED <<lock, conn, writer>>

(* INSERT ... ON CONFLICT DO UPDATE ... WHERE ... RETURNING.               *)
AcquireLease(c) ==
  /\ OneStatement(c)
  /\ db.lease_owner = NoOwner \/ ~db.live \/ db.lease_owner = c
  /\ LET n == db.epoch_counter + 1
     IN /\ db' = [db EXCEPT !.lease_owner = c, !.lease_epoch = n, !.live = TRUE,
                            !.epoch_counter = n]
        /\ held' = [held EXCEPT ![c] = n]

Mine(rows, c) == rows.lease_owner = c /\ rows.lease_epoch = held[c]

RenewLease(c) ==
  /\ OneStatement(c) /\ Mine(db, c)
  /\ db' = [db EXCEPT !.live = TRUE]
  /\ UNCHANGED held

ReleaseLease(c) ==
  /\ OneStatement(c) /\ Mine(db, c)
  /\ db' = [db EXCEPT !.lease_owner = NoOwner, !.live = FALSE]
  /\ held' = [held EXCEPT ![c] = 0]

(* The clock passes lease_expires_at.                                      *)
Expire ==
  /\ db.live
  /\ db' = [db EXCEPT !.live = FALSE]
  /\ conn' = [c \in Process |-> [conn[c] EXCEPT !.rows.live = FALSE]]
  /\ UNCHANGED <<lock, held, calls, writer>>

ClearItems ==
  /\ OneStatement(Operator)
  /\ db' = [db EXCEPT !.items = [k \in Identity |-> Absent]]
  /\ UNCHANGED held

PruneLog(n) ==
  /\ OneStatement(Operator)
  /\ db' = [db EXCEPT !.log = {l \in db.log : l.sequence >= n}]
  /\ UNCHANGED held

-----------------------------------------------------------------------------
(* Transactions *)

FencedOps == {"saveState", "commitPoll", "ackEvents", "recordAttempt", "parkEvent", "setValidator"}

(* The statements of each operation, in their order.                       *)
Statements(op) ==
  CASE op = "saveState" -> <<"fence", "writeState">>
    [] op = "saveStateUnfenced" -> <<"writeState">>
    [] op = "commitPoll" -> <<"fence", "items", "outbox", "log", "writeState">>
    [] op = "ackEvents" -> <<"fence", "deleteOutbox">>
    [] op = "recordAttempt" -> <<"fence", "recordAttempt">>
    [] op = "parkEvent" -> <<"fence", "writeParked", "deleteOutbox">>
    [] op = "setValidator" -> <<"fence", "upsertValidator">>
    [] op = "retryParked" -> <<"retry">>
    [] op = "discardParked" -> <<"deleteParked">>
    [] op = "deleteKey" -> <<"deleteAll">>

(* Mutant: a failed statement leaves the lock but not the rows behind it.  *)
RollbackKeepsRows(c) ==
  /\ lock = c
  /\ db' = conn[c].rows
  /\ lock' = NoOwner
  /\ conn' = [conn EXCEPT ![c] = Idle]
  /\ UNCHANGED <<held, calls, writer>>

(* ROLLBACK: a statement or COMMIT fails, or the process dies.             *)
Rollback(c) ==
  /\ lock = c
  /\ lock' = NoOwner
  /\ conn' = [conn EXCEPT ![c] = Idle]
  /\ UNCHANGED <<db, held, calls, writer>>

(* tx(): BEGIN IMMEDIATE gets the write lock, or waits for it.             *)
Begin(c, op, arg) ==
  /\ Ready(c) /\ lock = NoOwner
  /\ lock' = c
  /\ conn' = [conn EXCEPT ![c] = [op |-> op, arg |-> arg, todo |-> Statements(op), rows |-> db]]
  /\ calls' = calls + 1
  /\ UNCHANGED <<db, held, writer>>

(* SQLITE_BUSY: the lock was not free within busyTimeoutMs; the call fails *)
(* and nothing was written.                                                *)
Busy(c) ==
  /\ Ready(c) /\ lock \notin {NoOwner, c}
  /\ calls' = calls + 1
  /\ UNCHANGED <<db, lock, conn, held, writer>>

(* writeState(): what the column holds, overlaid by the patch.             *)
WriteState(rows, patch) ==
  [rows EXCEPT !.state = C!Patched(IF rows.state = Null THEN C!InitialState ELSE rows.state, patch)]

PatchOf(op, arg) ==
  IF op = "commitPoll" THEN [cursor |-> arg.cursor, sequence |-> arg.sequence] ELSE arg

EventOf(op, arg) == IF op = "parkEvent" THEN arg.event ELSE arg

(* UPDATE ... SET attempts = attempts + 1 WHERE event_id = ?, and the rows *)
(* a WHERE event_id IN (...) names.                                        *)
Tried(rows, event) ==
  {IF row.event = event THEN [row EXCEPT !.attempts = @ + 1] ELSE row : row \in rows}

Named(rows, ids) == {row \in rows : row.event \in ids}

(* What each statement makes of the rows the transaction sees.             *)
WriteItems(rows, b) == [rows EXCEPT !.items = C!ItemsAfter(rows.items, b)]

WriteOutbox(rows, b) == [rows EXCEPT !.outbox = C!Put(rows.outbox, b.rows)]

WriteLog(rows, b) == [rows EXCEPT !.log = rows.log \cup C!Logged(b.rows)]

DeleteOutbox(rows, event) == [rows EXCEPT !.outbox = C!Without(rows.outbox, event)]

CountAttempt(rows, event) == [rows EXCEPT !.outbox = Tried(rows.outbox, event)]

WriteParked(rows, row) == [rows EXCEPT !.parked = C!Put(rows.parked, {C!ParkedRowOf(row)})]

UpsertValidator(rows, tag) == [rows EXCEPT !.validator = tag]

MoveParked(rows, ids) ==
  [rows EXCEPT !.outbox = C!Put(rows.outbox, C!FreshRows(Named(rows.parked, ids))),
               !.parked = rows.parked \ Named(rows.parked, ids)]

DeleteParked(rows, ids) == [rows EXCEPT !.parked = rows.parked \ Named(rows.parked, ids)]

Run(statement, op, arg, rows) ==
  CASE statement = "fence" -> rows
    [] statement = "writeState" -> WriteState(rows, PatchOf(op, arg))
    [] statement = "items" -> WriteItems(rows, arg)
    [] statement = "outbox" -> WriteOutbox(rows, arg)
    [] statement = "log" -> WriteLog(rows, arg)
    [] statement = "deleteOutbox" -> DeleteOutbox(rows, EventOf(op, arg))
    [] statement = "recordAttempt" -> CountAttempt(rows, arg)
    [] statement = "writeParked" -> WriteParked(rows, arg)
    [] statement = "upsertValidator" -> UpsertValidator(rows, arg)
    [] statement = "retry" -> MoveParked(rows, arg)
    [] statement = "deleteParked" -> DeleteParked(rows, arg)
    [] statement = "deleteAll" -> EmptyRows

(* fence(): owner and epoch of the row, read inside the transaction.       *)
FenceHolds(c) == Mine(conn[c].rows, c)

Statement(c) ==
  /\ lock = c /\ conn[c].todo # << >>
  /\ Head(conn[c].todo) = "fence" => FenceHolds(c)
  /\ conn' = [conn EXCEPT
                ![c].todo = Tail(conn[c].todo),
                ![c].rows = Run(Head(conn[c].todo), conn[c].op, conn[c].arg, conn[c].rows)]
  /\ UNCHANGED <<db, lock, held, calls, writer>>

(* LeaseLostError out of the fence: ROLLBACK, and the run is over.         *)
LeaseLost(c) ==
  /\ lock = c /\ conn[c].todo # << >>
  /\ Head(conn[c].todo) = "fence" /\ ~FenceHolds(c)
  /\ lock' = NoOwner
  /\ conn' = [conn EXCEPT ![c] = Idle]
  /\ held' = [held EXCEPT ![c] = 0]
  /\ UNCHANGED <<db, calls, writer>>

Commit(c) ==
  /\ lock = c /\ conn[c].todo = << >>
  /\ db' = conn[c].rows
  /\ writer' = IF conn[c].op \in FencedOps THEN [owner |-> c, epoch |-> held[c]] ELSE writer
  /\ lock' = NoOwner
  /\ conn' = [conn EXCEPT ![c] = Idle]
  /\ UNCHANGED <<held, calls>>

-----------------------------------------------------------------------------
Init ==
  /\ db = EmptyRows
  /\ lock = NoOwner
  /\ conn = [c \in Process |-> Idle]
  /\ held = [o \in Owner |-> 0]
  /\ calls = 0
  /\ writer = C!NoWriter

LastSequence == IF db.state = Null THEN 0 ELSE db.state.sequence

(* What an engine calls under its lease. A batch continues the sequence.   *)
EngineCalls(c) ==
  /\ held[c] > 0
  /\ \/ \E patch \in C!Patch : Begin(c, "saveState", patch)
     \/ \E b \in Batch : b.sequence > LastSequence /\ Begin(c, "commitPoll", b)
     \/ \E row \in db.outbox : \/ Begin(c, "ackEvents", row.event)
                               \/ Begin(c, "recordAttempt", row.event)
                               \/ Begin(c, "parkEvent", row)
     \/ \E tag \in Version : Begin(c, "setValidator", tag)

OperatorCalls ==
  \/ \E patch \in C!Patch : Begin(Operator, "saveStateUnfenced", patch)
  \/ \E ids \in SUBSET {row.event : row \in db.parked} :
       \/ Begin(Operator, "retryParked", ids)
       \/ Begin(Operator, "discardParked", ids)
  \/ ClearItems
  \/ \E n \in 1..LastSequence : PruneLog(n)
  \/ Begin(Operator, "deleteKey", Null)

Next ==
  \/ \E c \in Owner : AcquireLease(c) \/ RenewLease(c) \/ ReleaseLease(c) \/ EngineCalls(c)
  \/ OperatorCalls
  \/ Expire
  \/ \E c \in Process : Statement(c) \/ LeaseLost(c) \/ Commit(c) \/ Rollback(c) \/ Busy(c)

Spec == Init /\ [][Next]_vars

(* Every commit is one whole operation of the contract, and a fenced one   *)
(* is made under the lease that is current at that moment: no partial      *)
(* batch, no write by a superseded holder (tx() and fence()).              *)
Contract == C!Spec

-----------------------------------------------------------------------------
(* Strengthenings the proof of Contract needs (SqliteProofs.tla).          *)

Rows ==
  [lease_owner : Owner \cup {NoOwner}, lease_epoch : Nat, live : BOOLEAN, epoch_counter : Nat,
   state : C!PollerState \cup {Null}, items : [Identity -> Version \cup {Absent}],
   outbox : SUBSET C!OutboxRow, parked : SUBSET C!ParkedRow, log : SUBSET C!LoggedEvent,
   validator : Version \cup {Absent}]

(* The row is one of a batch, but for its attempts or its hold.            *)
Known(row) ==
  \E x \in UNION {b.rows : b \in Batch} : x.event = row.event /\ x.sequence = row.sequence

RowsSound(rows) ==
  /\ rows \in Rows
  /\ rows.lease_owner # NoOwner => rows.lease_epoch \in 1..rows.epoch_counter
  /\ \A row \in rows.outbox \cup rows.parked : Known(row)

(* The statements of an operation have these arguments.                    *)
ArgOK(op, arg) ==
  \/ op \in {"saveState", "saveStateUnfenced"} /\ arg \in C!Patch
  \/ op = "commitPoll" /\ arg \in Batch
  \/ op \in {"ackEvents", "recordAttempt"} /\ arg \in C!Event
  \/ op = "parkEvent" /\ arg \in C!OutboxRow /\ Known(arg)
  \/ op = "setValidator" /\ arg \in Version
  \/ op \in {"retryParked", "discardParked"} /\ arg \in SUBSET C!Event
  \/ op = "deleteKey"

(* How far a transaction has come: the statements that are left, and what  *)
(* those before them have made of the committed ones (base).               *)
Stage(base, t) ==
  LET Ran(statement, rows) == Run(statement, t.op, t.arg, rows)
      items == Ran("items", base)
      outbox == Ran("outbox", items)
      logged == Ran("log", outbox)
      At(todo, rows) == t.todo = todo /\ t.rows = rows
      Single(statement) == At(<<statement>>, base) \/ At(<< >>, Ran(statement, base)) IN
  \/ t.op \in {"saveState", "saveStateUnfenced"} /\ Single("writeState")
  \/ /\ t.op = "commitPoll"
     /\ \/ At(<<"items", "outbox", "log", "writeState">>, base)
        \/ At(<<"outbox", "log", "writeState">>, items)
        \/ At(<<"log", "writeState">>, outbox)
        \/ At(<<"writeState">>, logged)
        \/ At(<< >>, Ran("writeState", logged))
  \/ t.op = "ackEvents" /\ Single("deleteOutbox")
  \/ t.op = "recordAttempt" /\ Single("recordAttempt")
  \/ /\ t.op = "parkEvent"
     /\ \/ At(<<"writeParked", "deleteOutbox">>, base)
        \/ At(<<"deleteOutbox">>, Ran("writeParked", base))
        \/ At(<< >>, Ran("deleteOutbox", Ran("writeParked", base)))
  \/ t.op = "setValidator" /\ Single("upsertValidator")
  \/ t.op = "retryParked" /\ Single("retry")
  \/ t.op = "discardParked" /\ Single("deleteParked")
  \/ t.op = "deleteKey" /\ Single("deleteAll")

(* The transaction that has the write lock: the operation of an engine is  *)
(* fenced, and past its fence the lease is its own until it ends.          *)
InTransaction(c) ==
  LET t == conn[c] IN
  /\ ArgOK(t.op, t.arg)
  /\ IF c = Operator
     THEN t.op \notin FencedOps /\ Stage(db, t)
     ELSE /\ t.op \in FencedOps
          /\ \/ t.todo = Statements(t.op) /\ t.rows = db
             \/ Mine(db, c) /\ Stage(db, t)

TransactionsSound ==
  /\ RowsSound(db)
  /\ held \in [Owner -> Nat]
  /\ lock \in Process \cup {NoOwner}
  /\ DOMAIN conn = Process
  /\ \A c \in Process : DOMAIN conn[c] = {"op", "arg", "todo", "rows"}
  /\ lock # NoOwner => InTransaction(lock)
=============================================================================
