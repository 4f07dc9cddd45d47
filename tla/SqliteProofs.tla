---------------------------- MODULE SqliteProofs ----------------------------
(***************************************************************************)
(* SqliteStore implements StoreContract, for any number of processes, any  *)
(* batches and any number of calls: statements, rollbacks and busy waits   *)
(* are invisible, and each COMMIT is one operation of the contract.        *)
(***************************************************************************)
EXTENDS SqliteStore, TLAPS

-----------------------------------------------------------------------------
(* Statements *)

(* A poller state that is patched is a poller state.                       *)
LEMMA PatchedType ==
  ASSUME NEW s \in C!PollerState, NEW patch,
         patch \in C!Patch \cup [cursor : Nat, sequence : Nat]
  PROVE  C!Patched(s, patch) \in C!PollerState
<1>0. s = [cursor |-> s.cursor, sequence |-> s.sequence, paused |-> s.paused]
      /\ s.cursor \in Nat /\ s.sequence \in Nat /\ s.paused \in BOOLEAN
  BY DEF C!PollerState
<1>1. DOMAIN s = {"cursor", "sequence", "paused"}
  BY <1>0
<1>2. /\ "cursor" \in DOMAIN patch => patch["cursor"] \in Nat
      /\ "sequence" \in DOMAIN patch => patch["sequence"] \in Nat
      /\ "paused" \in DOMAIN patch => patch["paused"] \in BOOLEAN
  BY DEF C!Patch
<1> DEFINE p == C!Patched(s, patch)
<1>3. /\ DOMAIN p = {"cursor", "sequence", "paused"}
      /\ p["cursor"] \in Nat /\ p["sequence"] \in Nat /\ p["paused"] \in BOOLEAN
  BY <1>0, <1>1, <1>2 DEF C!Patched
<1>4. p = [f \in {"cursor", "sequence", "paused"} |-> p[f]]
  BY <1>1 DEF C!Patched
<1> QED
  BY <1>3, <1>4 DEF C!PollerState

(* What the operations patch it with.                                      *)
LEMMA PatchOfType ==
  ASSUME NEW op \in {"saveState", "saveStateUnfenced", "commitPoll"}, NEW arg, ArgOK(op, arg)
  PROVE  PatchOf(op, arg) \in C!Patch \cup [cursor : Nat, sequence : Nat]
BY SqliteAssumption DEF PatchOf, ArgOK

(* The statements past the fence that each operation runs.                 *)
Allowed(op, statement) ==
  \/ op \in {"saveState", "saveStateUnfenced"} /\ statement = "writeState"
  \/ op = "commitPoll" /\ statement \in {"items", "outbox", "log", "writeState"}
  \/ op = "ackEvents" /\ statement = "deleteOutbox"
  \/ op = "recordAttempt" /\ statement = "recordAttempt"
  \/ op = "parkEvent" /\ statement \in {"writeParked", "deleteOutbox"}
  \/ op = "setValidator" /\ statement = "upsertValidator"
  \/ op = "retryParked" /\ statement = "retry"
  \/ op = "discardParked" /\ statement = "deleteParked"
  \/ op = "deleteKey" /\ statement = "deleteAll"

(* What each statement writes.                                             *)
LEMMA FenceRuns ==
  ASSUME NEW op, NEW arg, NEW rows
  PROVE  Run("fence", op, arg, rows) = rows
BY DEF Run

(* What each statement writes, one lemma for each.                         *)
LEMMA WriteStateRuns ==
  ASSUME NEW op, NEW arg, NEW rows
  PROVE  Run("writeState", op, arg, rows) = WriteState(rows, PatchOf(op, arg))
BY DEF Run

LEMMA ItemsRuns ==
  ASSUME NEW op, NEW arg, NEW rows
  PROVE  Run("items", op, arg, rows) = [rows EXCEPT !.items = C!ItemsAfter(rows.items, arg)]
<1>1. Run("items", op, arg, rows) = WriteItems(rows, arg)
  BY DEF Run
<1> QED
  BY <1>1, Zenon DEF WriteItems

LEMMA OutboxRuns ==
  ASSUME NEW op, NEW arg, NEW rows
  PROVE  Run("outbox", op, arg, rows) = [rows EXCEPT !.outbox = C!Put(rows.outbox, arg.rows)]
<1>1. Run("outbox", op, arg, rows) = WriteOutbox(rows, arg)
  BY DEF Run
<1> QED
  BY <1>1, Zenon DEF WriteOutbox

LEMMA LogRuns ==
  ASSUME NEW op, NEW arg, NEW rows
  PROVE  Run("log", op, arg, rows) = [rows EXCEPT !.log = rows.log \cup C!Logged(arg.rows)]
<1>1. Run("log", op, arg, rows) = WriteLog(rows, arg)
  BY DEF Run
<1> QED
  BY <1>1, Zenon DEF WriteLog

LEMMA DeleteOutboxRuns ==
  ASSUME NEW op, NEW arg, NEW rows
  PROVE  Run("deleteOutbox", op, arg, rows) =
           [rows EXCEPT !.outbox = C!Without(rows.outbox, EventOf(op, arg))]
<1>1. Run("deleteOutbox", op, arg, rows) = DeleteOutbox(rows, EventOf(op, arg))
  BY DEF Run
<1> QED
  BY <1>1, Zenon DEF DeleteOutbox

LEMMA RecordAttemptRuns ==
  ASSUME NEW op, NEW arg, NEW rows
  PROVE  Run("recordAttempt", op, arg, rows) = [rows EXCEPT !.outbox = Tried(rows.outbox, arg)]
<1>1. Run("recordAttempt", op, arg, rows) = CountAttempt(rows, arg)
  BY DEF Run
<1> QED
  BY <1>1, Zenon DEF CountAttempt

LEMMA WriteParkedRuns ==
  ASSUME NEW op, NEW arg, NEW rows
  PROVE  Run("writeParked", op, arg, rows) =
           [rows EXCEPT !.parked = C!Put(rows.parked, {C!ParkedRowOf(arg)})]
<1>1. Run("writeParked", op, arg, rows) = WriteParked(rows, arg)
  BY DEF Run
<1> QED
  BY <1>1, Zenon DEF WriteParked

LEMMA UpsertValidatorRuns ==
  ASSUME NEW op, NEW arg, NEW rows
  PROVE  Run("upsertValidator", op, arg, rows) = [rows EXCEPT !.validator = arg]
<1>1. Run("upsertValidator", op, arg, rows) = UpsertValidator(rows, arg)
  BY DEF Run
<1> QED
  BY <1>1, Zenon DEF UpsertValidator

LEMMA RetryRuns ==
  ASSUME NEW op, NEW arg, NEW rows
  PROVE  Run("retry", op, arg, rows) =
           [rows EXCEPT !.outbox = C!Put(rows.outbox, C!FreshRows(Named(rows.parked, arg))),
                        !.parked = rows.parked \ Named(rows.parked, arg)]
<1>1. Run("retry", op, arg, rows) = MoveParked(rows, arg)
  BY DEF Run
<1> QED
  BY <1>1, Zenon DEF MoveParked

LEMMA DeleteParkedRuns ==
  ASSUME NEW op, NEW arg, NEW rows
  PROVE  Run("deleteParked", op, arg, rows) =
           [rows EXCEPT !.parked = rows.parked \ Named(rows.parked, arg)]
<1>1. Run("deleteParked", op, arg, rows) = DeleteParked(rows, arg)
  BY DEF Run
<1> QED
  BY <1>1, Zenon DEF DeleteParked

LEMMA DeleteAllRuns ==
  ASSUME NEW op, NEW arg, NEW rows
  PROVE  Run("deleteAll", op, arg, rows) = EmptyRows
BY DEF Run

(* Every statement keeps the rows sound and, but for deleteKey, the lease. *)
SameLease(new, rows) ==
  /\ new.lease_owner = rows.lease_owner /\ new.lease_epoch = rows.lease_epoch
  /\ new.epoch_counter = rows.epoch_counter /\ new.live = rows.live

(* The rows of a batch.                                                    *)
LEMMA BatchRows ==
  ASSUME NEW b \in Batch
  PROVE  /\ b.rows \subseteq C!OutboxRow /\ \A row \in b.rows : Known(row)
         /\ b.cursor \in Nat /\ b.sequence \in Nat /\ b.deletes \subseteq Identity
BY SqliteAssumption DEF Known

(* The snapshot a batch leaves behind.                                     *)
LEMMA ItemsAfterType ==
  ASSUME NEW old \in [Identity -> Version \cup {Absent}], NEW b \in Batch
  PROVE  C!ItemsAfter(old, b) \in [Identity -> Version \cup {Absent}]
<1> SUFFICES ASSUME NEW k \in Identity, \E row \in b.rows : row.event.subject = k
             PROVE  (CHOOSE row \in b.rows : row.event.subject = k).event.version \in Version
  BY DEF C!ItemsAfter
<1>1. (CHOOSE row \in b.rows : row.event.subject = k) \in b.rows
  OBVIOUS
<1> QED
  BY <1>1, BatchRows DEF C!OutboxRow, C!EventId

(* Writing other columns than those of the lease.                          *)
LEMMA Written ==
  ASSUME NEW rows, RowsSound(rows), NEW new \in Rows, SameLease(new, rows),
         \A row \in new.outbox \cup new.parked : Known(row)
  PROVE  RowsSound(new) /\ SameLease(new, rows)
BY DEF RowsSound, SameLease

(* Writing one column keeps the rows sound and the lease as it was.        *)
LEMMA StateWritten ==
  ASSUME NEW rows, RowsSound(rows), NEW x \in C!PollerState
  PROVE  LET new == [rows EXCEPT !.state = x] IN RowsSound(new) /\ SameLease(new, rows)
BY Written DEF RowsSound, Rows, SameLease

LEMMA ItemsWritten ==
  ASSUME NEW rows, RowsSound(rows), NEW x \in [Identity -> Version \cup {Absent}]
  PROVE  LET new == [rows EXCEPT !.items = x] IN RowsSound(new) /\ SameLease(new, rows)
BY Written DEF RowsSound, Rows, SameLease

LEMMA LogWritten ==
  ASSUME NEW rows, RowsSound(rows), NEW x, x \subseteq C!LoggedEvent
  PROVE  LET new == [rows EXCEPT !.log = x] IN RowsSound(new) /\ SameLease(new, rows)
BY Written DEF RowsSound, Rows, SameLease

LEMMA ValidatorWritten ==
  ASSUME NEW rows, RowsSound(rows), NEW x \in Version
  PROVE  LET new == [rows EXCEPT !.validator = x] IN RowsSound(new) /\ SameLease(new, rows)
BY Written DEF RowsSound, Rows, SameLease

LEMMA OutboxWritten ==
  ASSUME NEW rows, RowsSound(rows), NEW x, x \subseteq C!OutboxRow, \A row \in x : Known(row)
  PROVE  LET new == [rows EXCEPT !.outbox = x] IN RowsSound(new) /\ SameLease(new, rows)
BY Written DEF RowsSound, Rows, SameLease

LEMMA ParkedWritten ==
  ASSUME NEW rows, RowsSound(rows), NEW x, x \subseteq C!ParkedRow, \A row \in x : Known(row)
  PROVE  LET new == [rows EXCEPT !.parked = x] IN RowsSound(new) /\ SameLease(new, rows)
BY Written DEF RowsSound, Rows, SameLease

(* A deleted key has sound rows.                                           *)
LEMMA EmptySound == RowsSound(EmptyRows)
BY DEF EmptyRows, RowsSound, Rows

(* Every statement an operation runs keeps the rows sound and, but for     *)
(* deleteKey, the lease.                                                   *)
LEMMA RunSound ==
  ASSUME NEW rows, RowsSound(rows), NEW op, NEW arg, ArgOK(op, arg), NEW statement,
         Allowed(op, statement)
  PROVE  /\ RowsSound(Run(statement, op, arg, rows))
         /\ op # "deleteKey" => SameLease(Run(statement, op, arg, rows), rows)
<1> DEFINE new == Run(statement, op, arg, rows)
<1> SUFFICES RowsSound(new) /\ (op # "deleteKey" => SameLease(new, rows))
  OBVIOUS
<1>0. rows \in Rows
  BY DEF RowsSound
<1>a. /\ rows.outbox \subseteq C!OutboxRow /\ rows.parked \subseteq C!ParkedRow
      /\ \A row \in rows.outbox \cup rows.parked : Known(row)
  BY DEF RowsSound, Rows
<1>1. CASE statement = "writeState"
  <2>1. op \in {"saveState", "saveStateUnfenced", "commitPoll"}
    BY <1>1 DEF Allowed
  <2>2. PatchOf(op, arg) \in C!Patch \cup [cursor : Nat, sequence : Nat]
    BY <2>1, PatchOfType
  <2>3. C!InitialState \in C!PollerState
    BY DEF C!InitialState, C!PollerState
  <2>4. C!Patched(IF rows.state = Null THEN C!InitialState ELSE rows.state, PatchOf(op, arg))
          \in C!PollerState
    BY <1>0, <2>2, <2>3, PatchedType DEF Rows
  <2>5. new = [rows EXCEPT !.state =
                 C!Patched(IF rows.state = Null THEN C!InitialState ELSE rows.state, PatchOf(op, arg))]
    <3>1. new = WriteState(rows, PatchOf(op, arg))
      BY <1>1, WriteStateRuns
    <3> QED
      BY <3>1, Zenon DEF WriteState
  <2> HIDE DEF new
  <2> QED
    BY <2>4, <2>5, StateWritten
<1>2. CASE statement = "items"
  <2>1. C!ItemsAfter(rows.items, arg) \in [Identity -> Version \cup {Absent}]
    BY <1>0, <1>2, ItemsAfterType DEF Allowed, ArgOK, Rows
  <2>2. new = [rows EXCEPT !.items = C!ItemsAfter(rows.items, arg)]
    BY <1>2, ItemsRuns
  <2> HIDE DEF new
  <2> QED
    BY <2>1, <2>2, ItemsWritten
<1>3. CASE statement = "outbox"
  <2>1. arg \in Batch
    BY <1>3 DEF Allowed, ArgOK
  <2>2. /\ C!Put(rows.outbox, arg.rows) \subseteq C!OutboxRow
        /\ \A row \in C!Put(rows.outbox, arg.rows) : Known(row)
    BY <1>0, <2>1, BatchRows DEF C!Put, RowsSound, Rows
  <2>3. new = [rows EXCEPT !.outbox = C!Put(rows.outbox, arg.rows)]
    BY <1>3, OutboxRuns
  <2> HIDE DEF new
  <2> QED
    BY <2>2, <2>3, <1>a, OutboxWritten
<1>4. CASE statement = "log"
  <2>1. arg \in Batch
    BY <1>4 DEF Allowed, ArgOK
  <2>2. C!Logged(arg.rows) \subseteq C!LoggedEvent
    BY <2>1, BatchRows DEF C!Logged, C!LoggedEvent, C!OutboxRow
  <2>3. new = [rows EXCEPT !.log = rows.log \cup C!Logged(arg.rows)]
    BY <1>4, LogRuns
  <2>4. rows.log \cup C!Logged(arg.rows) \in SUBSET C!LoggedEvent
    BY <1>0, <2>2 DEF Rows
  <2> HIDE DEF new
  <2> QED
    BY <2>3, <2>4, LogWritten
<1>5. CASE statement = "deleteOutbox"
  <2>1. C!Without(rows.outbox, EventOf(op, arg)) \subseteq rows.outbox
    BY DEF C!Without
  <2>2. new = [rows EXCEPT !.outbox = C!Without(rows.outbox, EventOf(op, arg))]
    BY <1>5, DeleteOutboxRuns
  <2> HIDE DEF new
  <2> QED
    BY <2>1, <2>2, <1>a, OutboxWritten
<1>6. CASE statement = "recordAttempt"
  <2> DEFINE Touch(row) == IF row.event = arg THEN [row EXCEPT !.attempts = @ + 1] ELSE row
  <2>1. \A row \in rows.outbox : Touch(row) \in C!OutboxRow /\ Touch(row).event = row.event
                                 /\ Touch(row).sequence = row.sequence
    BY <1>0 DEF Rows, C!OutboxRow
  <2>2. \A row \in rows.outbox : Known(Touch(row))
    BY <2>1 DEF Known, RowsSound
  <2>3. /\ Tried(rows.outbox, arg) \subseteq C!OutboxRow
        /\ \A row \in Tried(rows.outbox, arg) : Known(row)
    BY <2>1, <2>2 DEF Tried
  <2>4. new = [rows EXCEPT !.outbox = Tried(rows.outbox, arg)]
    BY <1>6, RecordAttemptRuns
  <2> HIDE DEF new, Touch
  <2> QED
    BY <2>3, <2>4, <1>a, OutboxWritten
<1>7. CASE statement = "writeParked"
  <2>1. arg \in C!OutboxRow /\ Known(arg)
    BY <1>7 DEF Allowed, ArgOK
  <2>2. C!ParkedRowOf(arg) \in C!ParkedRow /\ Known(C!ParkedRowOf(arg))
    BY <2>1 DEF C!ParkedRowOf, C!ParkedRow, C!OutboxRow, Known
  <2>3. /\ C!Put(rows.parked, {C!ParkedRowOf(arg)}) \subseteq C!ParkedRow
        /\ \A row \in C!Put(rows.parked, {C!ParkedRowOf(arg)}) : Known(row)
    BY <1>0, <2>2 DEF C!Put, RowsSound, Rows
  <2>4. new = [rows EXCEPT !.parked = C!Put(rows.parked, {C!ParkedRowOf(arg)})]
    BY <1>7, WriteParkedRuns
  <2> HIDE DEF new
  <2> QED
    BY <2>3, <2>4, <1>a, ParkedWritten
<1>8. CASE statement = "upsertValidator"
  <2>1. new = [rows EXCEPT !.validator = arg]
    BY <1>8, UpsertValidatorRuns
  <2>2. arg \in Version
    BY <1>8 DEF Allowed, ArgOK
  <2> HIDE DEF new
  <2> QED
    BY <2>1, <2>2, ValidatorWritten
<1>9. CASE statement = "retry"
  <2> DEFINE moved == Named(rows.parked, arg)
  <2>1. C!FreshRows(moved) \subseteq C!OutboxRow /\ \A row \in C!FreshRows(moved) : Known(row)
    BY <1>0 DEF Named, C!FreshRows, C!OutboxRow, C!ParkedRow, RowsSound, Rows, Known
  <2>2. /\ C!Put(rows.outbox, C!FreshRows(moved)) \subseteq C!OutboxRow
        /\ \A row \in C!Put(rows.outbox, C!FreshRows(moved)) : Known(row)
        /\ rows.parked \ moved \subseteq rows.parked
    BY <1>0, <2>1 DEF C!Put, RowsSound, Rows
  <2> DEFINE mid == [rows EXCEPT !.outbox = C!Put(rows.outbox, C!FreshRows(moved))]
  <2>3. RowsSound(mid) /\ SameLease(mid, rows)
    BY <2>2, OutboxWritten
  <2>4. /\ mid.parked = rows.parked /\ rows.parked \ moved \subseteq C!ParkedRow
        /\ \A row \in rows.parked \ moved : Known(row)
    BY <1>0, <1>a DEF Rows
  <2>5. new = [mid EXCEPT !.parked = rows.parked \ moved]
    BY <1>0, <1>9, RetryRuns DEF Rows
  <2> HIDE DEF moved, mid, new
  <2>6. RowsSound(new) /\ SameLease(new, mid)
    BY <2>3, <2>4, <2>5, ParkedWritten
  <2> QED
    BY <2>3, <2>6 DEF SameLease
<1>10. CASE statement = "deleteParked"
  <2>1. rows.parked \ Named(rows.parked, arg) \subseteq rows.parked
    OBVIOUS
  <2>2. new = [rows EXCEPT !.parked = rows.parked \ Named(rows.parked, arg)]
    BY <1>10, DeleteParkedRuns
  <2> HIDE DEF new
  <2> QED
    BY <2>1, <2>2, <1>a, ParkedWritten
<1>11. CASE statement = "deleteAll"
  <2>1. new = EmptyRows /\ op = "deleteKey"
    BY <1>11, DeleteAllRuns DEF Allowed
  <2> HIDE DEF new
  <2> QED
    BY <2>1, EmptySound
<1> QED
  BY <1>1, <1>2, <1>3, <1>4, <1>5, <1>6, <1>7, <1>8, <1>9, <1>10, <1>11 DEF Allowed

-----------------------------------------------------------------------------
(* Time passes inside a transaction: its own copy of the rows sees the     *)
(* lease expire too, and its statements do not depend on it.               *)

Dark(rows) == [rows EXCEPT !.live = FALSE]

(* The rows after the lease ran out differ in that only.                   *)
LEMMA DarkRows ==
  ASSUME NEW rows \in Rows
  PROVE  /\ Dark(rows) \in Rows /\ Dark(rows).live = FALSE
         /\ Dark(rows).lease_owner = rows.lease_owner /\ Dark(rows).lease_epoch = rows.lease_epoch
         /\ Dark(rows).epoch_counter = rows.epoch_counter /\ Dark(rows).state = rows.state
         /\ Dark(rows).items = rows.items /\ Dark(rows).outbox = rows.outbox
         /\ Dark(rows).parked = rows.parked /\ Dark(rows).log = rows.log
         /\ Dark(rows).validator = rows.validator
BY DEF Dark, Rows

(* They are as sound as before.                                            *)
LEMMA DarkSound ==
  ASSUME NEW rows, RowsSound(rows)
  PROVE  RowsSound(Dark(rows))
BY DarkRows DEF RowsSound

(* The expiry of the lease and the write of another column commute.        *)
LEMMA DarkSwaps ==
  ASSUME NEW rows \in Rows
  PROVE  /\ \A x : [Dark(rows) EXCEPT !.state = x] = Dark([rows EXCEPT !.state = x])
         /\ \A x : [Dark(rows) EXCEPT !.items = x] = Dark([rows EXCEPT !.items = x])
         /\ \A x : [Dark(rows) EXCEPT !.outbox = x] = Dark([rows EXCEPT !.outbox = x])
         /\ \A x : [Dark(rows) EXCEPT !.parked = x] = Dark([rows EXCEPT !.parked = x])
         /\ \A x : [Dark(rows) EXCEPT !.log = x] = Dark([rows EXCEPT !.log = x])
         /\ \A x : [Dark(rows) EXCEPT !.validator = x] = Dark([rows EXCEPT !.validator = x])
         /\ \A x, y : [Dark(rows) EXCEPT !.outbox = x, !.parked = y] =
                        Dark([rows EXCEPT !.outbox = x, !.parked = y])
<1>0. DOMAIN rows = {"lease_owner", "lease_epoch", "live", "epoch_counter", "state", "items",
                     "outbox", "parked", "log", "validator"}
  BY DEF Rows
<1>1. ASSUME NEW x PROVE [Dark(rows) EXCEPT !.state = x] = Dark([rows EXCEPT !.state = x])
  BY DEF Dark, Rows
<1>2. ASSUME NEW x PROVE [Dark(rows) EXCEPT !.items = x] = Dark([rows EXCEPT !.items = x])
  BY DEF Dark, Rows
<1>3. ASSUME NEW x PROVE [Dark(rows) EXCEPT !.outbox = x] = Dark([rows EXCEPT !.outbox = x])
  BY DEF Dark, Rows
<1>4. ASSUME NEW x PROVE [Dark(rows) EXCEPT !.parked = x] = Dark([rows EXCEPT !.parked = x])
  BY DEF Dark, Rows
<1>5. ASSUME NEW x PROVE [Dark(rows) EXCEPT !.log = x] = Dark([rows EXCEPT !.log = x])
  BY DEF Dark, Rows
<1>6. ASSUME NEW x PROVE [Dark(rows) EXCEPT !.validator = x] = Dark([rows EXCEPT !.validator = x])
  BY DEF Dark, Rows
<1>7. ASSUME NEW x, NEW y
      PROVE  [Dark(rows) EXCEPT !.outbox = x, !.parked = y] =
               Dark([rows EXCEPT !.outbox = x, !.parked = y])
  BY DEF Dark, Rows
<1> QED
  BY <1>1, <1>2, <1>3, <1>4, <1>5, <1>6, <1>7

(* A lease runs out once.                                                  *)
LEMMA DarkAlready ==
  ASSUME NEW rows \in Rows, rows.live = FALSE
  PROVE  Dark(rows) = rows
BY DEF Dark, Rows

(* A statement and the expiry of the lease commute.                        *)
LEMMA RunDark ==
  ASSUME NEW rows \in Rows, NEW op, NEW arg, NEW statement, Allowed(op, statement)
  PROVE  Run(statement, op, arg, Dark(rows)) = Dark(Run(statement, op, arg, rows))
<1> DEFINE dark == Dark(rows)
<1>0. /\ dark.state = rows.state /\ dark.items = rows.items /\ dark.outbox = rows.outbox
      /\ dark.parked = rows.parked /\ dark.log = rows.log
  BY DarkRows
<1>s. /\ \A x : [dark EXCEPT !.state = x] = Dark([rows EXCEPT !.state = x])
      /\ \A x : [dark EXCEPT !.items = x] = Dark([rows EXCEPT !.items = x])
      /\ \A x : [dark EXCEPT !.outbox = x] = Dark([rows EXCEPT !.outbox = x])
      /\ \A x : [dark EXCEPT !.parked = x] = Dark([rows EXCEPT !.parked = x])
      /\ \A x : [dark EXCEPT !.log = x] = Dark([rows EXCEPT !.log = x])
      /\ \A x : [dark EXCEPT !.validator = x] = Dark([rows EXCEPT !.validator = x])
      /\ \A x, y : [dark EXCEPT !.outbox = x, !.parked = y] =
                     Dark([rows EXCEPT !.outbox = x, !.parked = y])
  BY DarkSwaps
<1> SUFFICES Run(statement, op, arg, dark) = Dark(Run(statement, op, arg, rows))
  OBVIOUS
<1> HIDE DEF dark
<1>1. CASE statement = "writeState"
  <2> DEFINE X(r) == C!Patched(IF r.state = Null THEN C!InitialState ELSE r.state,
                               PatchOf(op, arg))
  <2>1. Run(statement, op, arg, rows) = [rows EXCEPT !.state = X(rows)]
    <3>1. Run(statement, op, arg, rows) = WriteState(rows, PatchOf(op, arg))
      BY <1>1, WriteStateRuns
    <3> QED
      BY <3>1, Zenon DEF WriteState
  <2>2. Run(statement, op, arg, dark) = [dark EXCEPT !.state = X(dark)]
    <3>1. Run(statement, op, arg, dark) = WriteState(dark, PatchOf(op, arg))
      BY <1>1, WriteStateRuns
    <3> QED
      BY <3>1, Zenon DEF WriteState
  <2>3. X(dark) = X(rows)
    BY <1>0
  <2> HIDE DEF X
  <2>4. [dark EXCEPT !.state = X(rows)] = Dark([rows EXCEPT !.state = X(rows)])
    BY <1>s
  <2> QED
    BY <2>1, <2>2, <2>3, <2>4
<1>2. CASE statement = "items"
  <2> DEFINE X(r) == C!ItemsAfter(r.items, arg)
  <2>1. Run(statement, op, arg, rows) = [rows EXCEPT !.items = X(rows)]
    BY <1>2, ItemsRuns
  <2>2. Run(statement, op, arg, dark) = [dark EXCEPT !.items = X(dark)]
    BY <1>2, ItemsRuns
  <2>3. X(dark) = X(rows)
    BY <1>0
  <2> HIDE DEF X
  <2>4. [dark EXCEPT !.items = X(rows)] = Dark([rows EXCEPT !.items = X(rows)])
    BY <1>s
  <2> QED
    BY <2>1, <2>2, <2>3, <2>4
<1>3. CASE statement = "outbox"
  <2> DEFINE X(r) == C!Put(r.outbox, arg.rows)
  <2>1. Run(statement, op, arg, rows) = [rows EXCEPT !.outbox = X(rows)]
    BY <1>3, OutboxRuns
  <2>2. Run(statement, op, arg, dark) = [dark EXCEPT !.outbox = X(dark)]
    BY <1>3, OutboxRuns
  <2>3. X(dark) = X(rows)
    BY <1>0
  <2> HIDE DEF X
  <2>4. [dark EXCEPT !.outbox = X(rows)] = Dark([rows EXCEPT !.outbox = X(rows)])
    BY <1>s
  <2> QED
    BY <2>1, <2>2, <2>3, <2>4
<1>4. CASE statement = "log"
  <2> DEFINE X(r) == r.log \cup C!Logged(arg.rows)
  <2>1. Run(statement, op, arg, rows) = [rows EXCEPT !.log = X(rows)]
    BY <1>4, LogRuns
  <2>2. Run(statement, op, arg, dark) = [dark EXCEPT !.log = X(dark)]
    BY <1>4, LogRuns
  <2>3. X(dark) = X(rows)
    BY <1>0
  <2> HIDE DEF X
  <2>4. [dark EXCEPT !.log = X(rows)] = Dark([rows EXCEPT !.log = X(rows)])
    BY <1>s
  <2> QED
    BY <2>1, <2>2, <2>3, <2>4
<1>5. CASE statement = "deleteOutbox"
  <2> DEFINE X(r) == C!Without(r.outbox, EventOf(op, arg))
  <2>1. Run(statement, op, arg, rows) = [rows EXCEPT !.outbox = X(rows)]
    BY <1>5, DeleteOutboxRuns
  <2>2. Run(statement, op, arg, dark) = [dark EXCEPT !.outbox = X(dark)]
    BY <1>5, DeleteOutboxRuns
  <2>3. X(dark) = X(rows)
    BY <1>0
  <2> HIDE DEF X
  <2>4. [dark EXCEPT !.outbox = X(rows)] = Dark([rows EXCEPT !.outbox = X(rows)])
    BY <1>s
  <2> QED
    BY <2>1, <2>2, <2>3, <2>4
<1>6. CASE statement = "recordAttempt"
  <2> DEFINE X(r) == Tried(r.outbox, arg)
  <2>1. Run(statement, op, arg, rows) = [rows EXCEPT !.outbox = X(rows)]
    BY <1>6, RecordAttemptRuns
  <2>2. Run(statement, op, arg, dark) = [dark EXCEPT !.outbox = X(dark)]
    BY <1>6, RecordAttemptRuns
  <2>3. X(dark) = X(rows)
    BY <1>0
  <2> HIDE DEF X
  <2>4. [dark EXCEPT !.outbox = X(rows)] = Dark([rows EXCEPT !.outbox = X(rows)])
    BY <1>s
  <2> QED
    BY <2>1, <2>2, <2>3, <2>4
<1>7. CASE statement = "writeParked"
  <2> DEFINE X(r) == C!Put(r.parked, {C!ParkedRowOf(arg)})
  <2>1. Run(statement, op, arg, rows) = [rows EXCEPT !.parked = X(rows)]
    BY <1>7, WriteParkedRuns
  <2>2. Run(statement, op, arg, dark) = [dark EXCEPT !.parked = X(dark)]
    BY <1>7, WriteParkedRuns
  <2>3. X(dark) = X(rows)
    BY <1>0
  <2> HIDE DEF X
  <2>4. [dark EXCEPT !.parked = X(rows)] = Dark([rows EXCEPT !.parked = X(rows)])
    BY <1>s
  <2> QED
    BY <2>1, <2>2, <2>3, <2>4
<1>8. CASE statement = "upsertValidator"
  <2> DEFINE X(r) == arg
  <2>1. Run(statement, op, arg, rows) = [rows EXCEPT !.validator = X(rows)]
    BY <1>8, UpsertValidatorRuns
  <2>2. Run(statement, op, arg, dark) = [dark EXCEPT !.validator = X(dark)]
    BY <1>8, UpsertValidatorRuns
  <2>3. X(dark) = X(rows)
    BY <1>0
  <2> HIDE DEF X
  <2>4. [dark EXCEPT !.validator = X(rows)] = Dark([rows EXCEPT !.validator = X(rows)])
    BY <1>s
  <2> QED
    BY <2>1, <2>2, <2>3, <2>4
<1>9. CASE statement = "retry"
  <2> DEFINE Moved(r) == Named(r.parked, arg)
             X(r) == C!Put(r.outbox, C!FreshRows(Moved(r)))
             Y(r) == r.parked \ Moved(r)
  <2>1. Run(statement, op, arg, rows) = [rows EXCEPT !.outbox = X(rows), !.parked = Y(rows)]
    BY <1>9, RetryRuns
  <2>2. Run(statement, op, arg, dark) = [dark EXCEPT !.outbox = X(dark), !.parked = Y(dark)]
    BY <1>9, RetryRuns
  <2>3. X(dark) = X(rows) /\ Y(dark) = Y(rows)
    BY <1>0
  <2> HIDE DEF X, Y
  <2>4. [dark EXCEPT !.outbox = X(rows), !.parked = Y(rows)] =
          Dark([rows EXCEPT !.outbox = X(rows), !.parked = Y(rows)])
    <3> DEFINE x == X(rows)
               y == Y(rows)
    <3> SUFFICES [dark EXCEPT !.outbox = x, !.parked = y] =
                   Dark([rows EXCEPT !.outbox = x, !.parked = y])
      OBVIOUS
    <3> HIDE DEF x, y
    <3> QED
      BY DEF dark, Dark, Rows
  <2> QED
    BY <2>1, <2>2, <2>3, <2>4
<1>10. CASE statement = "deleteParked"
  <2> DEFINE X(r) == r.parked \ Named(r.parked, arg)
  <2>1. Run(statement, op, arg, rows) = [rows EXCEPT !.parked = X(rows)]
    BY <1>10, DeleteParkedRuns
  <2>2. Run(statement, op, arg, dark) = [dark EXCEPT !.parked = X(dark)]
    BY <1>10, DeleteParkedRuns
  <2>3. X(dark) = X(rows)
    BY <1>0
  <2> HIDE DEF X
  <2>4. [dark EXCEPT !.parked = X(rows)] = Dark([rows EXCEPT !.parked = X(rows)])
    BY <1>s
  <2> QED
    BY <2>1, <2>2, <2>3, <2>4
<1>11. CASE statement = "deleteAll"
  <2>1. Run(statement, op, arg, rows) = EmptyRows
    BY <1>11, DeleteAllRuns
  <2>2. Run(statement, op, arg, dark) = EmptyRows
    BY <1>11, DeleteAllRuns
  <2>3. Dark(EmptyRows) = EmptyRows
    <3>1. EmptyRows \in Rows
      BY EmptySound DEF RowsSound
    <3>2. EmptyRows.live = FALSE
      BY DEF EmptyRows
    <3> QED
      BY <3>1, <3>2, DarkAlready
  <2> QED
    BY <2>1, <2>2, <2>3
<1> QED
  BY <1>1, <1>2, <1>3, <1>4, <1>5, <1>6, <1>7, <1>8, <1>9, <1>10, <1>11 DEF Allowed

-----------------------------------------------------------------------------
(* The stages of a transaction *)

(* The operations that are one statement past their fence, and which.      *)
Only(op) ==
  CASE op \in {"saveState", "saveStateUnfenced"} -> "writeState"
    [] op = "ackEvents" -> "deleteOutbox"
    [] op = "recordAttempt" -> "recordAttempt"
    [] op = "setValidator" -> "upsertValidator"
    [] op = "retryParked" -> "retry"
    [] op = "discardParked" -> "deleteParked"
    [] op = "deleteKey" -> "deleteAll"

OneStatementOps ==
  {"saveState", "saveStateUnfenced", "ackEvents", "recordAttempt", "setValidator",
   "retryParked", "discardParked", "deleteKey"}

StageOne(base, t) ==
  /\ t.op \in OneStatementOps
  /\ \/ t.todo = <<Only(t.op)>> /\ t.rows = base
     \/ t.todo = << >> /\ t.rows = Run(Only(t.op), t.op, t.arg, base)

StageCommit(base, t) ==
  LET R(statement, rows) == Run(statement, t.op, t.arg, rows) IN
  /\ t.op = "commitPoll"
  /\ \/ t.todo = <<"items", "outbox", "log", "writeState">> /\ t.rows = base
     \/ t.todo = <<"outbox", "log", "writeState">> /\ t.rows = R("items", base)
     \/ t.todo = <<"log", "writeState">> /\ t.rows = R("outbox", R("items", base))
     \/ t.todo = <<"writeState">> /\ t.rows = R("log", R("outbox", R("items", base)))
     \/ /\ t.todo = << >>
        /\ t.rows = R("writeState", R("log", R("outbox", R("items", base))))

StagePark(base, t) ==
  LET R(statement, rows) == Run(statement, t.op, t.arg, rows) IN
  /\ t.op = "parkEvent"
  /\ \/ t.todo = <<"writeParked", "deleteOutbox">> /\ t.rows = base
     \/ t.todo = <<"deleteOutbox">> /\ t.rows = R("writeParked", base)
     \/ t.todo = << >> /\ t.rows = R("deleteOutbox", R("writeParked", base))

(* The statement of an operation that has one.                             *)
LEMMA OnlyIs ==
  ASSUME NEW op \in OneStatementOps
  PROVE  Allowed(op, Only(op)) /\ Only(op) # "fence"
BY DEF OneStatementOps, Only, Allowed

(* The three shapes of a transaction: one statement, a commit of a poll, a *)
(* parking.                                                                *)
LEMMA StageCases ==
  ASSUME NEW base, NEW t
  PROVE  Stage(base, t) <=> StageOne(base, t) \/ StageCommit(base, t) \/ StagePark(base, t)
<1>1. Stage(base, t) => StageOne(base, t) \/ StageCommit(base, t) \/ StagePark(base, t)
  BY DEF Stage, StageOne, StageCommit, StagePark, Only, OneStatementOps
<1>2. StageOne(base, t) => Stage(base, t)
  BY DEF Stage, StageOne, Only, OneStatementOps
<1>3. StageCommit(base, t) => Stage(base, t)
  BY DEF Stage, StageCommit
<1>4. StagePark(base, t) => Stage(base, t)
  BY DEF Stage, StagePark
<1> QED
  BY <1>1, <1>2, <1>3, <1>4

(* The next statement, and those after it.                                 *)
LEMMA HeadTail ==
  /\ \A a : <<a>> # << >> /\ Head(<<a>>) = a /\ Tail(<<a>>) = << >>
  /\ \A a, b : <<a, b>> # << >> /\ Head(<<a, b>>) = a /\ Tail(<<a, b>>) = <<b>>
  /\ \A a, b, c : <<a, b, c>> # << >> /\ Head(<<a, b, c>>) = a /\ Tail(<<a, b, c>>) = <<b, c>>
  /\ \A a, b, c, d : /\ <<a, b, c, d>> # << >> /\ Head(<<a, b, c, d>>) = a
                     /\ Tail(<<a, b, c, d>>) = <<b, c, d>>
  /\ \A a, b, c, d, e : /\ <<a, b, c, d, e>> # << >> /\ Head(<<a, b, c, d, e>>) = a
                        /\ Tail(<<a, b, c, d, e>>) = <<b, c, d, e>>
OBVIOUS

(* What a transaction has made so far is sound, and but for deleteKey it   *)
(* leaves the lease alone.                                                 *)
LEMMA StageSound ==
  ASSUME NEW base, RowsSound(base), NEW t, Stage(base, t), ArgOK(t.op, t.arg)
  PROVE  RowsSound(t.rows) /\ (t.op # "deleteKey" => SameLease(t.rows, base))
<1> DEFINE R(statement, rows) == Run(statement, t.op, t.arg, rows)
<1>0. ASSUME NEW rows, NEW statement, Allowed(t.op, statement), RowsSound(rows),
             SameLease(rows, base)
      PROVE  /\ RowsSound(R(statement, rows))
             /\ t.op # "deleteKey" => SameLease(R(statement, rows), base)
  BY <1>0, RunSound DEF SameLease
<1>a. SameLease(base, base)
  BY DEF SameLease
<1> HIDE DEF R
<1>1. CASE StageOne(base, t)
  BY <1>0, <1>1, <1>a, OnlyIs DEF StageOne, R
<1>2. CASE StageCommit(base, t)
  <2>1. \A s \in {"items", "outbox", "log", "writeState"} : Allowed(t.op, s) /\ t.op # "deleteKey"
    BY <1>2 DEF StageCommit, Allowed
  <2>2. RowsSound(R("items", base)) /\ SameLease(R("items", base), base)
    BY <1>0, <1>a, <2>1
  <2>3. RowsSound(R("outbox", R("items", base))) /\ SameLease(R("outbox", R("items", base)), base)
    BY <1>0, <2>1, <2>2
  <2>4. /\ RowsSound(R("log", R("outbox", R("items", base))))
        /\ SameLease(R("log", R("outbox", R("items", base))), base)
    BY <1>0, <2>1, <2>3
  <2>5. /\ RowsSound(R("writeState", R("log", R("outbox", R("items", base)))))
        /\ SameLease(R("writeState", R("log", R("outbox", R("items", base)))), base)
    BY <1>0, <2>1, <2>4
  <2>6. t.rows \in {base, R("items", base), R("outbox", R("items", base)),
                    R("log", R("outbox", R("items", base))),
                    R("writeState", R("log", R("outbox", R("items", base))))}
    BY <1>2 DEF StageCommit, R
  <2> QED
    BY <1>a, <2>2, <2>3, <2>4, <2>5, <2>6
<1>3. CASE StagePark(base, t)
  <2>1. /\ Allowed(t.op, "writeParked") /\ Allowed(t.op, "deleteOutbox") /\ t.op # "deleteKey"
    BY <1>3 DEF StagePark, Allowed
  <2>2. RowsSound(R("writeParked", base)) /\ SameLease(R("writeParked", base), base)
    BY <1>0, <1>a, <2>1
  <2>3. /\ RowsSound(R("deleteOutbox", R("writeParked", base)))
        /\ SameLease(R("deleteOutbox", R("writeParked", base)), base)
    BY <1>0, <2>1, <2>2
  <2>4. t.rows \in {base, R("writeParked", base), R("deleteOutbox", R("writeParked", base))}
    BY <1>3 DEF StagePark, R
  <2> QED
    BY <1>a, <2>2, <2>3, <2>4
<1> QED
  BY <1>1, <1>2, <1>3, StageCases

(* One more statement reaches the next stage.                              *)
LEMMA StageStep ==
  ASSUME NEW base, NEW t, Stage(base, t), t.todo # << >>, NEW u, u.op = t.op, u.arg = t.arg,
         u.todo = Tail(t.todo), u.rows = Run(Head(t.todo), t.op, t.arg, t.rows)
  PROVE  Stage(base, u) /\ Head(t.todo) # "fence"
<1>1. CASE StageOne(base, t)
  <2>1. t.op \in OneStatementOps /\ t.todo = <<Only(t.op)>> /\ t.rows = base
    BY <1>1 DEF StageOne
  <2>2. Head(t.todo) = Only(t.op) /\ Tail(t.todo) = << >>
    BY <2>1, HeadTail
  <2>3. StageOne(base, u)
    BY <2>1, <2>2 DEF StageOne
  <2> QED
    BY <2>1, <2>2, <2>3, OnlyIs, StageCases
<1>2. CASE StageCommit(base, t)
  <2> DEFINE R(statement, rows) == Run(statement, t.op, t.arg, rows)
  <2>0. t.op = "commitPoll" /\ u.op = "commitPoll"
    BY <1>2 DEF StageCommit
  <2> SUFFICES StageCommit(base, u) /\ Head(t.todo) # "fence"
    BY StageCases
  <2>1. CASE t.todo = <<"items", "outbox", "log", "writeState">> /\ t.rows = base
    <3>1. Head(t.todo) = "items" /\ Tail(t.todo) = <<"outbox", "log", "writeState">>
      BY <2>1, HeadTail
    <3>2. u.todo = <<"outbox", "log", "writeState">> /\ u.rows = R("items", base)
      BY <2>1, <3>1
    <3> QED
      BY <2>0, <3>1, <3>2 DEF StageCommit
  <2>2. CASE t.todo = <<"outbox", "log", "writeState">> /\ t.rows = R("items", base)
    <3>1. Head(t.todo) = "outbox" /\ Tail(t.todo) = <<"log", "writeState">>
      BY <2>2, HeadTail
    <3>2. u.todo = <<"log", "writeState">> /\ u.rows = R("outbox", R("items", base))
      BY <2>2, <3>1
    <3> QED
      BY <2>0, <3>1, <3>2 DEF StageCommit
  <2>3. CASE t.todo = <<"log", "writeState">> /\ t.rows = R("outbox", R("items", base))
    <3>1. Head(t.todo) = "log" /\ Tail(t.todo) = <<"writeState">>
      BY <2>3, HeadTail
    <3>2. u.todo = <<"writeState">> /\ u.rows = R("log", R("outbox", R("items", base)))
      BY <2>3, <3>1
    <3> QED
      BY <2>0, <3>1, <3>2 DEF StageCommit
  <2>4. CASE t.todo = <<"writeState">> /\ t.rows = R("log", R("outbox", R("items", base)))
    <3>1. Head(t.todo) = "writeState" /\ Tail(t.todo) = << >>
      BY <2>4, HeadTail
    <3>2. /\ u.todo = << >>
          /\ u.rows = R("writeState", R("log", R("outbox", R("items", base))))
      BY <2>4, <3>1
    <3> QED
      BY <2>0, <3>1, <3>2 DEF StageCommit
  <2> QED
    BY <1>2, <2>1, <2>2, <2>3, <2>4 DEF StageCommit
<1>3. CASE StagePark(base, t)
  <2> DEFINE R(statement, rows) == Run(statement, t.op, t.arg, rows)
  <2>0. t.op = "parkEvent" /\ u.op = "parkEvent"
    BY <1>3 DEF StagePark
  <2> SUFFICES StagePark(base, u) /\ Head(t.todo) # "fence"
    BY StageCases
  <2>1. CASE t.todo = <<"writeParked", "deleteOutbox">> /\ t.rows = base
    <3>1. Head(t.todo) = "writeParked" /\ Tail(t.todo) = <<"deleteOutbox">>
      BY <2>1, HeadTail
    <3>2. u.todo = <<"deleteOutbox">> /\ u.rows = R("writeParked", base)
      BY <2>1, <3>1
    <3> QED
      BY <2>0, <3>1, <3>2 DEF StagePark
  <2>2. CASE t.todo = <<"deleteOutbox">> /\ t.rows = R("writeParked", base)
    <3>1. Head(t.todo) = "deleteOutbox" /\ Tail(t.todo) = << >>
      BY <2>2, HeadTail
    <3>2. u.todo = << >> /\ u.rows = R("deleteOutbox", R("writeParked", base))
      BY <2>2, <3>1
    <3> QED
      BY <2>0, <3>1, <3>2 DEF StagePark
  <2> QED
    BY <1>3, <2>1, <2>2 DEF StagePark
<1> QED
  BY <1>1, <1>2, <1>3, StageCases

(* The stage a fenced operation reaches with its fence, and the one any    *)
(* other begins in.                                                        *)
LEMMA FirstStage ==
  ASSUME NEW base, NEW t, t.rows = base
  PROVE  /\ t.op \in FencedOps =>
              /\ Statements(t.op) # << >> /\ Head(Statements(t.op)) = "fence"
              /\ t.todo = Tail(Statements(t.op)) => Stage(base, t)
         /\ /\ t.op \in {"saveStateUnfenced", "retryParked", "discardParked", "deleteKey"}
            /\ t.todo = Statements(t.op)
            => Stage(base, t)
<1>1. CASE t.op = "commitPoll"
  <2>1. Statements(t.op) = <<"fence", "items", "outbox", "log", "writeState">>
    BY <1>1 DEF Statements
  <2>2. t.todo = <<"items", "outbox", "log", "writeState">> => Stage(base, t)
    BY <1>1, StageCases DEF StageCommit
  <2>3. /\ Statements(t.op) # << >> /\ Head(Statements(t.op)) = "fence"
        /\ Tail(Statements(t.op)) = <<"items", "outbox", "log", "writeState">>
    BY <2>1, HeadTail
  <2> QED
    BY <1>1, <2>2, <2>3
<1>2. CASE t.op = "parkEvent"
  <2>1. Statements(t.op) = <<"fence", "writeParked", "deleteOutbox">>
    BY <1>2 DEF Statements
  <2>2. t.todo = <<"writeParked", "deleteOutbox">> => Stage(base, t)
    BY <1>2, StageCases DEF StagePark
  <2>3. /\ Statements(t.op) # << >> /\ Head(Statements(t.op)) = "fence"
        /\ Tail(Statements(t.op)) = <<"writeParked", "deleteOutbox">>
    BY <2>1, HeadTail
  <2> QED
    BY <1>2, <2>2, <2>3
<1>3. CASE t.op \in {"saveState", "ackEvents", "recordAttempt", "setValidator"}
  <2>1. Statements(t.op) = <<"fence", Only(t.op)>>
    BY <1>3 DEF Statements, Only
  <2>2. t.todo = <<Only(t.op)>> => Stage(base, t)
    BY <1>3, StageCases DEF StageOne, OneStatementOps
  <2> QED
    BY <1>3, <2>1, <2>2, HeadTail
<1>4. CASE t.op \in {"saveStateUnfenced", "retryParked", "discardParked", "deleteKey"}
  <2>1. Statements(t.op) = <<Only(t.op)>>
    BY <1>4 DEF Statements, Only
  <2>2. t.todo = <<Only(t.op)>> => Stage(base, t)
    BY <1>4, StageCases DEF StageOne, OneStatementOps
  <2> QED
    BY <1>4, <2>1, <2>2 DEF FencedOps
<1> QED
  BY <1>1, <1>2, <1>3, <1>4 DEF FencedOps

(* A transaction is as far after the expiry of the lease as before.        *)
LEMMA StageDark ==
  ASSUME NEW base, RowsSound(base), NEW t, Stage(base, t), ArgOK(t.op, t.arg),
         NEW u, u.op = t.op, u.arg = t.arg, u.todo = t.todo, u.rows = Dark(t.rows)
  PROVE  Stage(Dark(base), u)
<1> DEFINE R(statement, rows) == Run(statement, t.op, t.arg, rows)
           dark == Dark(base)
<1>0. ASSUME NEW rows, NEW statement, Allowed(t.op, statement), RowsSound(rows)
      PROVE  RowsSound(R(statement, rows)) /\ R(statement, Dark(rows)) = Dark(R(statement, rows))
  <2>1. rows \in Rows
    BY <1>0 DEF RowsSound
  <2> QED
    BY <1>0, <2>1, RunSound, RunDark
<1>1. CASE StageOne(base, t)
  <2>1. t.op \in OneStatementOps
    BY <1>1 DEF StageOne
  <2>2. R(Only(t.op), Dark(base)) = Dark(R(Only(t.op), base))
    BY <1>0, <2>1, OnlyIs
  <2>3. StageOne(Dark(base), u)
    BY <1>1, <2>2 DEF StageOne
  <2> QED
    BY <2>3, StageCases
<1>2. CASE StageCommit(base, t)
  <2> DEFINE items == R("items", base)
             outbox == R("outbox", items)
             logged == R("log", outbox)
             all == R("writeState", logged)
  <2>1. \A s \in {"items", "outbox", "log", "writeState"} : Allowed(t.op, s)
    BY <1>2 DEF StageCommit, Allowed
  <2>2. RowsSound(items) /\ R("items", dark) = Dark(items)
    BY <1>0, <2>1
  <2>3. RowsSound(outbox) /\ R("outbox", Dark(items)) = Dark(outbox)
    BY <1>0, <2>1, <2>2
  <2>4. RowsSound(logged) /\ R("log", Dark(outbox)) = Dark(logged)
    BY <1>0, <2>1, <2>3
  <2>5. R("writeState", Dark(logged)) = Dark(all)
    BY <1>0, <2>1, <2>4
  <2>6. /\ t.op = "commitPoll"
        /\ \/ t.todo = <<"items", "outbox", "log", "writeState">> /\ t.rows = base
           \/ t.todo = <<"outbox", "log", "writeState">> /\ t.rows = items
           \/ t.todo = <<"log", "writeState">> /\ t.rows = outbox
           \/ t.todo = <<"writeState">> /\ t.rows = logged
           \/ t.todo = << >> /\ t.rows = all
    BY <1>2 DEF StageCommit
  <2>7. SUFFICES StageCommit(dark, u)
    BY StageCases
  <2>8. /\ R("outbox", R("items", dark)) = Dark(outbox)
        /\ R("log", R("outbox", R("items", dark))) = Dark(logged)
        /\ R("writeState", R("log", R("outbox", R("items", dark)))) = Dark(all)
    <3> HIDE DEF items, outbox, logged, all, R
    <3> QED
      BY <2>2, <2>3, <2>4, <2>5
  <2> HIDE DEF dark, items, outbox, logged, all
  <2> QED
    BY <2>2, <2>6, <2>8 DEF StageCommit, dark
<1>3. CASE StagePark(base, t)
  <2> DEFINE written == R("writeParked", base)
             all == R("deleteOutbox", written)
  <2>1. Allowed(t.op, "writeParked") /\ Allowed(t.op, "deleteOutbox")
    BY <1>3 DEF StagePark, Allowed
  <2>2. RowsSound(written) /\ R("writeParked", dark) = Dark(written)
    BY <1>0, <2>1
  <2>3. R("deleteOutbox", Dark(written)) = Dark(all)
    BY <1>0, <2>1, <2>2
  <2>4. /\ t.op = "parkEvent"
        /\ \/ t.todo = <<"writeParked", "deleteOutbox">> /\ t.rows = base
           \/ t.todo = <<"deleteOutbox">> /\ t.rows = written
           \/ t.todo = << >> /\ t.rows = all
    BY <1>3 DEF StagePark
  <2>5. SUFFICES StagePark(dark, u)
    BY StageCases
  <2>6. R("deleteOutbox", R("writeParked", dark)) = Dark(all)
    BY <2>2, <2>3
  <2> HIDE DEF dark, written, all
  <2> QED
    BY <2>2, <2>4, <2>6 DEF StagePark, dark
<1> QED
  BY <1>1, <1>2, <1>3, StageCases

-----------------------------------------------------------------------------
(* The transaction that has the lock stays sound *)

(* Engines and the operator are different processes.                       *)
LEMMA Processes ==
  /\ Operator \in Process /\ Owner \subseteq Process /\ Operator \notin Owner
  /\ NoOwner \notin Process
BY SqliteAssumption DEF Process

(* Events of rows of the key are events of the batches.                    *)
LEMMA KnownEvents ==
  ASSUME NEW row, Known(row)
  PROVE  row.event \in C!Event
BY DEF Known, C!Event

(* Steps that leave no transaction under way.                              *)
LEMMA NoTransaction ==
  ASSUME TransactionsSound, RowsSound(db'), held' \in [Owner -> Nat], lock' = NoOwner,
         NEW c \in Process, conn' \in {conn, [conn EXCEPT ![c] = Idle]}
  PROVE  TransactionsSound'
<1>1. DOMAIN conn = Process /\ \A d \in Process : DOMAIN conn[d] = {"op", "arg", "todo", "rows"}
  BY DEF TransactionsSound
<1>2. DOMAIN Idle = {"op", "arg", "todo", "rows"}
  BY DEF Idle
<1>3. /\ DOMAIN conn' = Process
      /\ \A d \in Process : DOMAIN conn'[d] = {"op", "arg", "todo", "rows"}
  BY <1>1, <1>2
<1> QED
  BY <1>3 DEF TransactionsSound

(* The statements on the lease keep the rows sound.                        *)
LEMMA LeaseColumns ==
  ASSUME RowsSound(db), NEW c \in Owner,
         AcquireLease(c) \/ RenewLease(c) \/ ReleaseLease(c)
  PROVE  RowsSound(db')
<1>1. db \in Rows /\ \A row \in db.outbox \cup db.parked : Known(row)
  BY DEF RowsSound
<1>2. CASE AcquireLease(c)
  <2>1. /\ db' \in Rows /\ db'.lease_epoch = db'.epoch_counter /\ db'.epoch_counter \in Nat \ {0}
        /\ db'.outbox = db.outbox /\ db'.parked = db.parked
    <3> DEFINE n == db.epoch_counter + 1
    <3>1. n \in Nat \ {0}
      BY <1>1 DEF Rows
    <3>2. db' = [db EXCEPT !.lease_owner = c, !.lease_epoch = n, !.live = TRUE,
                           !.epoch_counter = n]
      BY <1>2 DEF AcquireLease
    <3> HIDE DEF n
    <3> QED
      BY <1>1, <3>1, <3>2 DEF Rows
  <2> QED
    BY <1>1, <2>1 DEF RowsSound
<1>3. CASE RenewLease(c)
  <2>1. /\ db' \in Rows /\ db'.lease_epoch = db.lease_epoch /\ db'.lease_owner = db.lease_owner
        /\ db'.epoch_counter = db.epoch_counter
        /\ db'.outbox = db.outbox /\ db'.parked = db.parked
    BY <1>1, <1>3 DEF RenewLease, Rows
  <2> QED
    BY <1>1, <2>1 DEF RowsSound
<1>4. CASE ReleaseLease(c)
  <2>1. /\ db' \in Rows /\ db'.lease_owner = NoOwner
        /\ db'.outbox = db.outbox /\ db'.parked = db.parked
    BY <1>1, <1>4 DEF ReleaseLease, Rows
  <2> QED
    BY <1>1, <2>1 DEF RowsSound
<1> QED
  BY <1>2, <1>3, <1>4

(* Statements outside of transactions wait for the write lock.             *)
LEMMA SingleStatementSound ==
  ASSUME TransactionsSound,
         \/ \E c \in Owner : AcquireLease(c) \/ RenewLease(c) \/ ReleaseLease(c)
         \/ ClearItems \/ \E n \in 1..LastSequence : PruneLog(n)
  PROVE  TransactionsSound'
<1>0. RowsSound(db) /\ db \in Rows /\ held \in [Owner -> Nat]
  BY DEF TransactionsSound, RowsSound
<1>1. CASE \E c \in Owner : AcquireLease(c) \/ RenewLease(c) \/ ReleaseLease(c)
  <2>1. PICK c \in Owner : AcquireLease(c) \/ RenewLease(c) \/ ReleaseLease(c)
    BY <1>1
  <2>2. lock' = NoOwner /\ conn' = conn
    BY <2>1 DEF AcquireLease, RenewLease, ReleaseLease, OneStatement
  <2>3. held' \in [Owner -> Nat]
    <3>1. db.epoch_counter + 1 \in Nat /\ 0 \in Nat
      BY <1>0 DEF Rows
    <3>2. \/ held' = [held EXCEPT ![c] = db.epoch_counter + 1]
          \/ held' = held \/ held' = [held EXCEPT ![c] = 0]
      BY <2>1 DEF AcquireLease, RenewLease, ReleaseLease
    <3> QED
      BY <1>0, <3>1, <3>2
  <2>4. RowsSound(db')
    BY <1>0, <2>1, LeaseColumns
  <2> QED
    BY <2>2, <2>3, <2>4, Processes, NoTransaction
<1>2. CASE ClearItems
  <2>1. RowsSound(db')
    <3>1. [k \in Identity |-> Absent] \in [Identity -> Version \cup {Absent}]
      OBVIOUS
    <3>2. db' = [db EXCEPT !.items = [k \in Identity |-> Absent]]
      BY <1>2 DEF ClearItems
    <3> QED
      BY <1>0, <3>1, <3>2, ItemsWritten
  <2> QED
    BY <1>0, <1>2, <2>1, Processes, NoTransaction DEF ClearItems, OneStatement
<1>3. CASE \E n \in 1..LastSequence : PruneLog(n)
  <2>1. PICK n : PruneLog(n)
    BY <1>3
  <2>2. RowsSound(db')
    <3> DEFINE kept == {l \in db.log : l.sequence >= n}
    <3>1. kept \subseteq C!LoggedEvent
      BY <1>0 DEF Rows
    <3>2. db' = [db EXCEPT !.log = kept]
      BY <2>1 DEF PruneLog
    <3> HIDE DEF kept
    <3> QED
      BY <1>0, <3>1, <3>2, LogWritten
  <2> QED
    BY <1>0, <2>1, <2>2, Processes, NoTransaction DEF PruneLog, OneStatement
<1> QED
  BY <1>1, <1>2, <1>3

UnfencedOps == {"saveStateUnfenced", "retryParked", "discardParked", "deleteKey"}

(* A transaction begins with the committed rows and all its statements.    *)
LEMMA BeginSound ==
  ASSUME TransactionsSound, NEW c \in Process, NEW op, NEW arg, Begin(c, op, arg), ArgOK(op, arg),
         IF c = Operator THEN op \in UnfencedOps ELSE op \in FencedOps
  PROVE  TransactionsSound'
<1> DEFINE t == conn'[c]
<1>1. DOMAIN conn = Process /\ \A d \in Process : DOMAIN conn[d] = {"op", "arg", "todo", "rows"}
  BY DEF TransactionsSound
<1>2. t = [op |-> op, arg |-> arg, todo |-> Statements(op), rows |-> db]
  BY <1>1 DEF Begin
<1>3. /\ lock' = c /\ db' = db /\ held' = held /\ DOMAIN conn' = Process
      /\ \A d \in Process : d # c => conn'[d] = conn[d]
  BY <1>1 DEF Begin
<1>4. t.op = op /\ t.arg = arg /\ t.todo = Statements(op) /\ t.rows = db
      /\ DOMAIN t = {"op", "arg", "todo", "rows"}
  BY <1>2
<1>5. \A d \in Process : DOMAIN conn'[d] = {"op", "arg", "todo", "rows"}
  BY <1>1, <1>3, <1>4
<1> HIDE DEF t
<1>6. c = Operator => t.op \notin FencedOps /\ Stage(db', t)
  BY <1>3, <1>4, FirstStage DEF UnfencedOps, FencedOps
<1>7. InTransaction(c)'
  BY <1>3, <1>4, <1>6 DEF InTransaction, t
<1> QED
  BY <1>3, <1>5, <1>7 DEF TransactionsSound

(* An engine begins fenced operations.                                     *)
LEMMA EngineCallsSound ==
  ASSUME TransactionsSound, NEW c \in Owner, EngineCalls(c)
  PROVE  TransactionsSound'
<1>0. c \in Process /\ c # Operator
  BY Processes
<1>1. ASSUME NEW op \in FencedOps, NEW arg, ArgOK(op, arg), Begin(c, op, arg)
      PROVE  TransactionsSound'
  BY <1>0, <1>1, BeginSound
<1>2. CASE \E patch \in C!Patch : Begin(c, "saveState", patch)
  BY <1>1, <1>2 DEF FencedOps, ArgOK
<1>3. CASE \E b \in Batch : b.sequence > LastSequence /\ Begin(c, "commitPoll", b)
  BY <1>1, <1>3 DEF FencedOps, ArgOK
<1>4. CASE \E row \in db.outbox : \/ Begin(c, "ackEvents", row.event)
                                  \/ Begin(c, "recordAttempt", row.event)
                                  \/ Begin(c, "parkEvent", row)
  <2>1. PICK row \in db.outbox : \/ Begin(c, "ackEvents", row.event)
                                 \/ Begin(c, "recordAttempt", row.event)
                                 \/ Begin(c, "parkEvent", row)
    BY <1>4
  <2>2. Known(row) /\ row \in C!OutboxRow
    BY DEF TransactionsSound, RowsSound, Rows
  <2>3. row.event \in C!Event
    BY <2>2, KnownEvents
  <2>4. /\ ArgOK("ackEvents", row.event) /\ ArgOK("recordAttempt", row.event)
        /\ ArgOK("parkEvent", row)
    BY <2>2, <2>3 DEF ArgOK
  <2> QED
    BY <1>1, <2>1, <2>4 DEF FencedOps
<1>5. CASE \E tag \in Version : Begin(c, "setValidator", tag)
  BY <1>1, <1>5 DEF FencedOps, ArgOK
<1> QED
  BY <1>2, <1>3, <1>4, <1>5 DEF EngineCalls

(* An operator begins the others.                                          *)
LEMMA OperatorCallsSound ==
  ASSUME TransactionsSound, OperatorCalls
  PROVE  TransactionsSound'
<1>1. ASSUME NEW op \in UnfencedOps, NEW arg, ArgOK(op, arg), Begin(Operator, op, arg)
      PROVE  TransactionsSound'
  BY <1>1, BeginSound, Processes
<1>2. CASE \E patch \in C!Patch : Begin(Operator, "saveStateUnfenced", patch)
  BY <1>1, <1>2 DEF UnfencedOps, ArgOK
<1>3. CASE \E ids \in SUBSET {row.event : row \in db.parked} :
             \/ Begin(Operator, "retryParked", ids)
             \/ Begin(Operator, "discardParked", ids)
  <2>1. PICK ids \in SUBSET {row.event : row \in db.parked} :
               \/ Begin(Operator, "retryParked", ids)
               \/ Begin(Operator, "discardParked", ids)
    BY <1>3
  <2>2. \A row \in db.parked : row.event \in C!Event
    BY KnownEvents DEF TransactionsSound, RowsSound
  <2>3. ids \in SUBSET C!Event
    BY <2>2
  <2>4. ArgOK("retryParked", ids) /\ ArgOK("discardParked", ids)
    BY <2>3 DEF ArgOK
  <2> QED
    BY <1>1, <2>1, <2>4 DEF UnfencedOps
<1>4. CASE ClearItems \/ \E n \in 1..LastSequence : PruneLog(n)
  BY <1>4, SingleStatementSound
<1>5. CASE Begin(Operator, "deleteKey", Null)
  BY <1>1, <1>5 DEF UnfencedOps, ArgOK
<1> QED
  BY <1>2, <1>3, <1>4, <1>5 DEF OperatorCalls

(* A statement of the transaction: its fence, or one past it.              *)
LEMMA StatementSound ==
  ASSUME TransactionsSound, NEW c \in Process, Statement(c)
  PROVE  TransactionsSound'
<1> DEFINE t == conn[c]
           u == conn'[c]
<1>0. /\ DOMAIN conn = Process /\ \A d \in Process : DOMAIN conn[d] = {"op", "arg", "todo", "rows"}
      /\ InTransaction(c)
  BY Processes DEF TransactionsSound, Statement
<1>1. /\ lock = c /\ lock' = c /\ db' = db /\ held' = held /\ t.todo # << >>
      /\ Head(t.todo) = "fence" => Mine(t.rows, c)
  BY DEF Statement, FenceHolds
<1>2. conn' = [conn EXCEPT ![c].todo = Tail(t.todo),
                           ![c].rows = Run(Head(t.todo), t.op, t.arg, t.rows)]
  BY DEF Statement
<1>3. /\ u.op = t.op /\ u.arg = t.arg /\ u.todo = Tail(t.todo)
      /\ u.rows = Run(Head(t.todo), t.op, t.arg, t.rows)
      /\ DOMAIN u = {"op", "arg", "todo", "rows"} /\ DOMAIN conn' = Process
      /\ \A d \in Process : d # c => conn'[d] = conn[d]
  BY <1>0, <1>2
<1>4. \A d \in Process : DOMAIN conn'[d] = {"op", "arg", "todo", "rows"}
  BY <1>0, <1>3
<1>5. /\ ArgOK(t.op, t.arg)
      /\ c = Operator => t.op \notin FencedOps /\ Stage(db, t)
      /\ c # Operator => /\ t.op \in FencedOps
                         /\ \/ t.todo = Statements(t.op) /\ t.rows = db
                            \/ Mine(db, c) /\ Stage(db, t)
  BY <1>0 DEF InTransaction
<1> HIDE DEF t, u
<1>6. CASE Stage(db, t)
  <2>1. Stage(db, u)
    BY <1>1, <1>3, <1>6, StageStep
  <2>2. c # Operator => Mine(db, c)
    <3>1. Head(t.todo) # "fence"
      BY <1>1, <1>3, <1>6, StageStep
    <3>2. t.op \in FencedOps => Head(Statements(t.op)) = "fence"
      <4> DEFINE first == [op |-> t.op, rows |-> db]
      <4>1. first.rows = db /\ first.op = t.op
        OBVIOUS
      <4> HIDE DEF first
      <4> QED
        BY <4>1, FirstStage
    <3> QED
      BY <1>5, <3>1, <3>2
  <2>3. InTransaction(c)'
    BY <1>1, <1>3, <1>5, <2>1, <2>2 DEF InTransaction, Mine, u
  <2> QED
    BY <1>1, <1>3, <1>4, <2>3 DEF TransactionsSound
<1>7. CASE ~Stage(db, t)
  <2>1. c # Operator /\ t.op \in FencedOps /\ t.todo = Statements(t.op) /\ t.rows = db
    BY <1>5, <1>7
  <2>2. Head(t.todo) = "fence"
    BY <2>1, FirstStage
  <2>3. Mine(db, c)
    BY <1>1, <2>1, <2>2
  <2>4. u.rows = db
    BY <1>3, <2>1, <2>2, FenceRuns
  <2>5. Stage(db, u)
    BY <1>3, <2>1, <2>4, FirstStage
  <2>6. InTransaction(c)'
    BY <1>1, <1>3, <1>5, <2>1, <2>3, <2>5 DEF InTransaction, Mine, u
  <2> QED
    BY <1>1, <1>3, <1>4, <2>6 DEF TransactionsSound
<1> QED
  BY <1>6, <1>7

(* A transaction about to commit has run all of its statements.            *)
LEMMA AtCommit ==
  ASSUME TransactionsSound, NEW c \in Process, Commit(c)
  PROVE  /\ Stage(db, conn[c]) /\ ArgOK(conn[c].op, conn[c].arg)
         /\ conn[c].todo = << >>
         /\ c = Operator => conn[c].op \notin FencedOps
         /\ c # Operator => conn[c].op \in FencedOps /\ Mine(db, c)
<1>1. lock = c /\ conn[c].todo = << >> /\ InTransaction(c)
  BY Processes DEF TransactionsSound, Commit
<1>2. conn[c].op \in FencedOps /\ conn[c].rows = db => Statements(conn[c].op) # << >>
  BY FirstStage
<1> QED
  BY <1>1, <1>2 DEF InTransaction

(* A transaction ends: its rows are the committed ones, or forgotten.      *)
LEMMA EndSound ==
  ASSUME TransactionsSound, NEW c \in Process, LeaseLost(c) \/ Commit(c) \/ Rollback(c)
  PROVE  TransactionsSound'
<1>1. RowsSound(db) /\ held \in [Owner -> Nat]
  BY DEF TransactionsSound
<1>2. lock' = NoOwner /\ conn' = [conn EXCEPT ![c] = Idle]
  BY DEF LeaseLost, Commit, Rollback
<1>3. held' \in [Owner -> Nat]
  BY <1>1 DEF LeaseLost, Commit, Rollback
<1>4. CASE Commit(c)
  <2>1. RowsSound(conn[c].rows)
    BY <1>1, <1>4, AtCommit, StageSound
  <2>2. db' = conn[c].rows
    BY <1>4 DEF Commit
  <2> QED
    BY <1>2, <1>3, <2>1, <2>2, NoTransaction
<1>5. CASE LeaseLost(c) \/ Rollback(c)
  <2>1. db' = db
    BY <1>5 DEF LeaseLost, Rollback
  <2> QED
    BY <1>1, <1>2, <1>3, <2>1, NoTransaction
<1> QED
  BY <1>4, <1>5

(* The lease runs out during a transaction.                                *)
LEMMA ExpireSound ==
  ASSUME TransactionsSound, Expire
  PROVE  TransactionsSound'
<1>0. /\ DOMAIN conn = Process /\ \A d \in Process : DOMAIN conn[d] = {"op", "arg", "todo", "rows"}
      /\ RowsSound(db) /\ db \in Rows /\ held \in [Owner -> Nat] /\ lock \in Process \cup {NoOwner}
      /\ lock # NoOwner => InTransaction(lock)
  BY DEF TransactionsSound, RowsSound
<1>1. /\ db' = Dark(db) /\ lock' = lock /\ held' = held
      /\ conn' = [c \in Process |-> [conn[c] EXCEPT !.rows.live = FALSE]]
  BY DEF Expire, Dark
<1>2. \A c \in Process :
        /\ conn'[c].op = conn[c].op /\ conn'[c].arg = conn[c].arg /\ conn'[c].todo = conn[c].todo
        /\ conn'[c].rows = Dark(conn[c].rows)
        /\ DOMAIN conn'[c] = {"op", "arg", "todo", "rows"}
  BY <1>0, <1>1 DEF Dark
<1>3. RowsSound(db')
  BY <1>0, <1>1, DarkSound
<1>4. ASSUME lock # NoOwner PROVE InTransaction(lock)'
  <2> DEFINE t == conn[lock]
             u == conn'[lock]
  <2>1. /\ lock \in Process /\ u.op = t.op /\ u.arg = t.arg /\ u.todo = t.todo
        /\ u.rows = Dark(t.rows)
    BY <1>0, <1>2, <1>4
  <2>2. /\ ArgOK(t.op, t.arg)
        /\ lock = Operator => t.op \notin FencedOps /\ Stage(db, t)
        /\ lock # Operator => /\ t.op \in FencedOps
                              /\ \/ t.todo = Statements(t.op) /\ t.rows = db
                                 \/ Mine(db, lock) /\ Stage(db, t)
    BY <1>0, <1>4 DEF InTransaction
  <2> HIDE DEF t, u
  <2>3. Stage(db, t) => Stage(db', u)
    BY <1>0, <1>1, <2>1, <2>2, StageDark
  <2>4. Mine(db, lock) => db'.lease_owner = lock /\ db'.lease_epoch = held[lock]
    BY <1>0, <1>1, DarkRows DEF Mine
  <2>5. t.rows = db => u.rows = db'
    BY <1>1, <2>1
  <2> QED
    BY <1>1, <2>1, <2>2, <2>3, <2>4, <2>5 DEF InTransaction, Mine, u
<1> QED
  BY <1>0, <1>1, <1>2, <1>3, <1>4 DEF TransactionsSound

(* The invariant holds at first.                                           *)
LEMMA SoundInit ==
  ASSUME Init
  PROVE  TransactionsSound
<1>1. \A c \in Process : DOMAIN conn[c] = {"op", "arg", "todo", "rows"}
  BY DEF Init, Idle
<1> QED
  BY <1>1, EmptySound DEF Init, TransactionsSound

(* One step keeps it.                                                      *)
LEMMA SoundStep ==
  ASSUME TransactionsSound, [Next]_vars
  PROVE  TransactionsSound'
<1>1. CASE \E c \in Owner : AcquireLease(c) \/ RenewLease(c) \/ ReleaseLease(c)
  BY <1>1, SingleStatementSound
<1>2. CASE \E c \in Owner : EngineCalls(c)
  BY <1>2, EngineCallsSound
<1>3. CASE OperatorCalls
  BY <1>3, OperatorCallsSound
<1>4. CASE Expire
  BY <1>4, ExpireSound
<1>5. CASE \E c \in Process : Statement(c)
  BY <1>5, StatementSound
<1>6. CASE \E c \in Process : LeaseLost(c) \/ Commit(c) \/ Rollback(c)
  BY <1>6, EndSound
<1>7. CASE UNCHANGED <<db, lock, conn, held>>
  BY <1>7 DEF TransactionsSound, InTransaction, Mine
<1>8. (\E c \in Process : Busy(c)) \/ UNCHANGED vars => UNCHANGED <<db, lock, conn, held>>
  BY DEF Busy, vars
<1> QED
  BY <1>1, <1>2, <1>3, <1>4, <1>5, <1>6, <1>7, <1>8 DEF Next

(* Whatever the interleaving of processes, crashes and expiries, the       *)
(* transaction that has the write lock works on the committed rows, has    *)
(* done a whole prefix of its operation's statements and, past its fence,  *)
(* still has the lease it was checked against (tx() and fence()).          *)
THEOREM TransactionsIsolated == Spec => []TransactionsSound
<1>1. Init => TransactionsSound
  BY SoundInit
<1>2. TransactionsSound /\ [Next]_vars => TransactionsSound'
  BY SoundStep
<1> QED
  BY <1>1, <1>2, PTL DEF Spec

-----------------------------------------------------------------------------
(* Every step is a step of the contract, or invisible to it *)

(* What the contract sees of the lease.                                    *)
LEMMA LeaseKept ==
  ASSUME SameLease(db', db)
  PROVE  LeaseRow' = LeaseRow /\ db'.epoch_counter = db.epoch_counter
BY DEF LeaseRow, SameLease

(* What it sees of the poller state.                                       *)
LEMMA StateKept ==
  ASSUME db'.state = db.state
  PROVE  StateRow' = StateRow
BY DEF StateRow

(* A patched row is a patched poller state, the missing row included.      *)
LEMMA StatePatched ==
  ASSUME RowsSound(db), NEW patch, patch \in C!Patch \cup [cursor : Nat, sequence : Nat],
         db'.state = C!Patched(IF db.state = Null THEN C!InitialState ELSE db.state, patch)
  PROVE  StateRow' = C!Patched(StateRow, patch)
<1>1. StateRow = IF db.state = Null THEN C!InitialState ELSE db.state
  BY DEF StateRow, C!InitialState
<1>2. C!InitialState \in C!PollerState
  BY DEF C!InitialState, C!PollerState
<1>3. StateRow \in C!PollerState
  BY <1>1, <1>2 DEF RowsSound, Rows
<1>4. db'.state = C!Patched(StateRow, patch)
  BY <1>1
<1>5. db'.state # Null
  BY <1>3, <1>4, PatchedType, SqliteAssumption
<1> QED
  BY <1>4, <1>5 DEF StateRow

(* The commit of an engine is a write under the lease that is current.     *)
LEMMA FencedCommit ==
  ASSUME TransactionsSound, NEW c \in Owner, Commit(c)
  PROVE  C!Fenced(c, held[c]) /\ held[c] \in 1..db.epoch_counter
<1>0. c \in Process /\ c # Operator /\ c # NoOwner
  BY Processes
<1>1. Mine(db, c) /\ conn[c].op \in FencedOps
  BY <1>0, AtCommit
<1>2. SameLease(db', db)
  <2>1. RowsSound(db) /\ db' = conn[c].rows /\ conn[c].op # "deleteKey"
    BY <1>1 DEF TransactionsSound, Commit, FencedOps
  <2> QED
    BY <1>0, <2>1, AtCommit, StageSound
<1>3. LeaseRow.owner = c /\ LeaseRow.epoch = held[c]
  BY <1>0, <1>1 DEF LeaseRow, Mine
<1>4. writer' = [owner |-> c, epoch |-> held[c]]
  BY <1>1 DEF Commit
<1>5. held[c] \in 1..db.epoch_counter
  BY <1>0, <1>1 DEF Mine, TransactionsSound, RowsSound
<1> QED
  BY <1>2, <1>3, <1>4, <1>5, LeaseKept DEF C!Fenced, C!Fence

(* What an operator commits is unfenced in the contract.                   *)
LEMMA UnfencedCommit ==
  ASSUME TransactionsSound, Commit(Operator), conn[Operator].op # "deleteKey"
  PROVE  C!Unfenced
<1>1. conn[Operator].op \notin FencedOps
  BY Processes, AtCommit
<1>2. SameLease(db', db)
  <2>1. RowsSound(db) /\ db' = conn[Operator].rows
    BY DEF TransactionsSound, Commit
  <2> QED
    BY <2>1, Processes, AtCommit, StageSound
<1> QED
  BY <1>1, <1>2, LeaseKept DEF C!Unfenced, Commit

(* The rows an operation of one statement commits.                         *)
LEMMA OneCommitted ==
  ASSUME TransactionsSound, NEW c \in Process, Commit(c), conn[c].op \in OneStatementOps
  PROVE  db' = Run(Only(conn[c].op), conn[c].op, conn[c].arg, db)
<1>1. Stage(db, conn[c]) /\ conn[c].todo = << >> /\ db' = conn[c].rows
  BY AtCommit DEF Commit
<1>2. StageOne(db, conn[c])
  BY <1>1, StageCases DEF StageCommit, StagePark, OneStatementOps
<1>3. <<Only(conn[c].op)>> # << >>
  BY HeadTail
<1> QED
  BY <1>1, <1>2, <1>3 DEF StageOne

(* What each statement does to the columns.                                *)
LEMMA WriteStateColumns ==
  ASSUME NEW rows \in Rows, NEW op, NEW arg, NEW new, new = Run("writeState", op, arg, rows)
  PROVE  /\ new.state = C!Patched(IF rows.state = Null THEN C!InitialState ELSE rows.state,
                                  PatchOf(op, arg))
         /\ new.items = rows.items /\ new.outbox = rows.outbox /\ new.parked = rows.parked
         /\ new.log = rows.log /\ new.validator = rows.validator
<1> DEFINE x == C!Patched(IF rows.state = Null THEN C!InitialState ELSE rows.state,
                          PatchOf(op, arg))
<1>1. Run("writeState", op, arg, rows) = WriteState(rows, PatchOf(op, arg))
  BY WriteStateRuns
<1>2. WriteState(rows, PatchOf(op, arg)) = [rows EXCEPT !.state = x]
  BY Zenon DEF WriteState
<1> HIDE DEF x
<1>3. /\ new.state = x
      /\ new.items = rows.items /\ new.outbox = rows.outbox /\ new.parked = rows.parked
      /\ new.log = rows.log /\ new.validator = rows.validator
  BY <1>1, <1>2 DEF Rows
<1> QED
  BY <1>3 DEF x

(* A write to the outbox leaves the other columns alone.                   *)
LEMMA OutboxColumns ==
  ASSUME NEW rows \in Rows, NEW x, NEW new, new = [rows EXCEPT !.outbox = x]
  PROVE  /\ new.outbox = x /\ new.state = rows.state /\ new.items = rows.items
         /\ new.parked = rows.parked /\ new.log = rows.log /\ new.validator = rows.validator
BY DEF Rows

(* A write to the parked rows leaves the other columns alone.              *)
LEMMA ParkedColumns ==
  ASSUME NEW rows \in Rows, NEW x, NEW new, new = [rows EXCEPT !.parked = x]
  PROVE  /\ new.parked = x /\ new.state = rows.state /\ new.items = rows.items
         /\ new.outbox = rows.outbox /\ new.log = rows.log /\ new.validator = rows.validator
BY DEF Rows

(* The COMMIT of saveState() is the operation of the contract.             *)
LEMMA SaveStateRefines ==
  ASSUME TransactionsSound, NEW c \in Process, Commit(c),
         conn[c].op \in {"saveState", "saveStateUnfenced"}
  PROVE  C!Next
<1> DEFINE patch == conn[c].arg
<1>1. RowsSound(db) /\ db \in Rows
  BY DEF TransactionsSound, RowsSound
<1>2. patch \in C!Patch /\ PatchOf(conn[c].op, patch) = patch
  BY AtCommit DEF ArgOK, PatchOf
<1>3. db' = Run("writeState", conn[c].op, patch, db)
  BY OneCommitted DEF OneStatementOps, Only
<1>4. /\ db'.state = C!Patched(IF db.state = Null THEN C!InitialState ELSE db.state, patch)
      /\ db'.items = db.items /\ db'.outbox = db.outbox /\ db'.parked = db.parked
      /\ db'.log = db.log /\ db'.validator = db.validator
  BY <1>1, <1>2, <1>3, WriteStateColumns
<1> HIDE DEF patch
<1>5. StateRow' = C!Patched(StateRow, patch)
  BY <1>1, <1>2, <1>4, StatePatched
<1>6. CASE c = Operator
  <2>1. C!Unfenced
    BY <1>6, UnfencedCommit
  <2>2. C!SaveStateUnfenced(patch)
    BY <1>4, <1>5, <2>1 DEF C!SaveStateUnfenced
  <2> QED
    BY <1>2, <2>2 DEF C!Next
<1>7. CASE c \in Owner
  <2>1. C!Fenced(c, held[c]) /\ held[c] \in 1..db.epoch_counter
    BY <1>7, FencedCommit
  <2>2. C!SaveState(c, held[c], patch)
    BY <1>4, <1>5, <2>1 DEF C!SaveState
  <2> QED
    BY <1>2, <1>7, <2>1, <2>2 DEF C!Next
<1> QED
  BY <1>6, <1>7 DEF Process

(* The four statements of commitPoll() are one operation of the contract.  *)
LEMMA CommitPollRefines ==
  ASSUME TransactionsSound, NEW c \in Process, Commit(c), conn[c].op = "commitPoll"
  PROVE  C!Next
<1> DEFINE b == conn[c].arg
           items == Run("items", conn[c].op, b, db)
           outbox == Run("outbox", conn[c].op, b, items)
           logged == Run("log", conn[c].op, b, outbox)
<1>0. RowsSound(db) /\ db \in Rows /\ c \in Owner
  BY AtCommit DEF TransactionsSound, RowsSound, FencedOps, Process
<1>1. /\ b \in Batch /\ ArgOK(conn[c].op, b)
      /\ PatchOf(conn[c].op, b) = [cursor |-> b.cursor, sequence |-> b.sequence]
  BY AtCommit DEF ArgOK, PatchOf
<1>2. \A s \in {"items", "outbox", "log"} : Allowed(conn[c].op, s)
  BY DEF Allowed
<1>3. /\ items = [db EXCEPT !.items = C!ItemsAfter(db.items, b)]
      /\ outbox = [items EXCEPT !.outbox = C!Put(items.outbox, b.rows)]
      /\ logged = [outbox EXCEPT !.log = outbox.log \cup C!Logged(b.rows)]
  <2> HIDE DEF b
  <2>1. items = [db EXCEPT !.items = C!ItemsAfter(db.items, b)]
    BY ItemsRuns
  <2> HIDE DEF items
  <2>2. outbox = [items EXCEPT !.outbox = C!Put(items.outbox, b.rows)]
    BY OutboxRuns
  <2> HIDE DEF outbox
  <2>3. logged = [outbox EXCEPT !.log = outbox.log \cup C!Logged(b.rows)]
    BY LogRuns
  <2> QED
    BY <2>1, <2>2, <2>3
<1>4. db' = Run("writeState", conn[c].op, b, logged)
  <2>1. Stage(db, conn[c]) /\ conn[c].todo = << >> /\ db' = conn[c].rows
    BY AtCommit DEF Commit
  <2>2. StageCommit(db, conn[c])
    BY <2>1, StageCases DEF StageOne, StagePark, OneStatementOps
  <2>3. /\ <<"items", "outbox", "log", "writeState">> # << >>
        /\ <<"outbox", "log", "writeState">> # << >> /\ <<"log", "writeState">> # << >>
        /\ <<"writeState">> # << >>
    BY HeadTail
  <2> QED
    BY <2>1, <2>2, <2>3 DEF StageCommit
<1> HIDE DEF items, outbox, logged
<1>5. items \in Rows /\ RowsSound(items)
  BY <1>0, <1>1, <1>2, RunSound DEF items, RowsSound
<1>6. outbox \in Rows /\ RowsSound(outbox)
  BY <1>1, <1>2, <1>5, RunSound DEF outbox, RowsSound
<1>7. logged \in Rows
  BY <1>1, <1>2, <1>6, RunSound DEF logged, RowsSound
<1> HIDE DEF b
<1>8. /\ items.items = C!ItemsAfter(db.items, b) /\ items.outbox = db.outbox
      /\ items.parked = db.parked /\ items.log = db.log /\ items.validator = db.validator
      /\ items.state = db.state
  BY <1>0, <1>3 DEF Rows
<1>9. /\ outbox.items = items.items /\ outbox.outbox = C!Put(items.outbox, b.rows)
      /\ outbox.parked = items.parked /\ outbox.log = items.log
      /\ outbox.validator = items.validator /\ outbox.state = items.state
  BY <1>3, <1>5 DEF Rows
<1>10. /\ logged.items = outbox.items /\ logged.outbox = outbox.outbox
       /\ logged.parked = outbox.parked /\ logged.log = outbox.log \cup C!Logged(b.rows)
       /\ logged.validator = outbox.validator /\ logged.state = outbox.state
  BY <1>3, <1>6 DEF Rows
<1>11. /\ db'.state = C!Patched(IF logged.state = Null THEN C!InitialState ELSE logged.state,
                                PatchOf(conn[c].op, b))
       /\ db'.items = logged.items /\ db'.outbox = logged.outbox /\ db'.parked = logged.parked
       /\ db'.log = logged.log /\ db'.validator = logged.validator
  BY <1>4, <1>7, WriteStateColumns
<1>12. db'.state = C!Patched(IF db.state = Null THEN C!InitialState ELSE db.state,
                             [cursor |-> b.cursor, sequence |-> b.sequence])
  BY <1>1, <1>8, <1>9, <1>10, <1>11
<1>13. StateRow' = C!Patched(StateRow, [cursor |-> b.cursor, sequence |-> b.sequence])
  <2>1. [cursor |-> b.cursor, sequence |-> b.sequence] \in [cursor : Nat, sequence : Nat]
    BY <1>1, BatchRows
  <2> QED
    BY <1>0, <1>12, <2>1, StatePatched
<1>14. C!Fenced(c, held[c]) /\ held[c] \in 1..db.epoch_counter
  BY <1>0, FencedCommit
<1>15. /\ db'.items = C!ItemsAfter(db.items, b) /\ db'.outbox = C!Put(db.outbox, b.rows)
       /\ db'.log = db.log \cup C!Logged(b.rows) /\ db'.parked = db.parked
       /\ db'.validator = db.validator
  BY <1>8, <1>9, <1>10, <1>11
<1>16. C!Commit(c, held[c], b)
  BY <1>13, <1>14, <1>15 DEF C!Commit
<1> QED
  BY <1>0, <1>1, <1>14, <1>16 DEF C!Next

(* The operations on the pending and parked rows.                          *)
LEMMA AckRefines ==
  ASSUME TransactionsSound, NEW c \in Process, Commit(c),
         conn[c].op \in {"ackEvents", "recordAttempt"}
  PROVE  C!Next
<1> DEFINE op == conn[c].op
           event == conn[c].arg
<1>0. db \in Rows /\ c \in Owner
  BY AtCommit DEF TransactionsSound, RowsSound, FencedOps, Process
<1>1. event \in C!Event
  BY AtCommit DEF ArgOK
<1>2. C!Fenced(c, held[c]) /\ held[c] \in 1..db.epoch_counter
  BY <1>0, FencedCommit
<1>3. db' = Run(Only(op), op, event, db)
  BY OneCommitted DEF OneStatementOps
<1> HIDE DEF op, event
<1>4. CASE op = "ackEvents"
  <2>1. Only(op) = "deleteOutbox" /\ EventOf(op, event) = event
    BY <1>4 DEF Only, EventOf
  <2>2. db' = [db EXCEPT !.outbox = C!Without(db.outbox, event)]
    BY <1>3, <2>1, DeleteOutboxRuns
  <2>3. /\ db'.outbox = C!Without(db.outbox, event) /\ db'.state = db.state
        /\ db'.items = db.items /\ db'.parked = db.parked /\ db'.log = db.log
        /\ db'.validator = db.validator
    BY <1>0, <2>2, OutboxColumns
  <2>4. C!Ack(c, held[c], event)
    BY <1>2, <2>3, StateKept DEF C!Ack, C!AckEvents
  <2> QED
    BY <1>0, <1>1, <1>2, <2>4 DEF C!Next
<1>5. CASE op = "recordAttempt"
  <2>1. Only(op) = "recordAttempt"
    BY <1>5 DEF Only
  <2>2. db' = [db EXCEPT !.outbox = Tried(db.outbox, event)]
    BY <1>3, <2>1, RecordAttemptRuns
  <2>3. /\ db'.outbox = Tried(db.outbox, event) /\ db'.state = db.state
        /\ db'.items = db.items /\ db'.parked = db.parked /\ db'.log = db.log
        /\ db'.validator = db.validator
    BY <1>0, <2>2, OutboxColumns
  <2>4. C!RecordAttempt(event)
    BY <2>3, Zenon DEF C!RecordAttempt, Tried
  <2>5. C!Attempt(c, held[c], event)
    BY <1>2, <2>3, <2>4, StateKept DEF C!Attempt
  <2> QED
    BY <1>0, <1>1, <1>2, <2>5 DEF C!Next
<1> QED
  BY <1>4, <1>5 DEF op

(* The two statements of parkEvent() are one operation.                    *)
LEMMA ParkRefines ==
  ASSUME TransactionsSound, NEW c \in Process, Commit(c), conn[c].op = "parkEvent"
  PROVE  C!Next
<1> DEFINE row == conn[c].arg
           written == Run("writeParked", conn[c].op, row, db)
<1>0. RowsSound(db) /\ db \in Rows /\ c \in Owner
  BY AtCommit DEF TransactionsSound, RowsSound, FencedOps, Process
<1>1. ArgOK(conn[c].op, row) /\ Known(row) /\ EventOf(conn[c].op, row) = row.event
  BY AtCommit DEF ArgOK, EventOf
<1>2. PICK x \in UNION {b.rows : b \in Batch} : x.event = row.event /\ x.sequence = row.sequence
  BY <1>1 DEF Known
<1>3. C!Fenced(c, held[c]) /\ held[c] \in 1..db.epoch_counter
  BY <1>0, FencedCommit
<1>4. db' = Run("deleteOutbox", conn[c].op, row, written)
  <2>1. Stage(db, conn[c]) /\ conn[c].todo = << >> /\ db' = conn[c].rows
    BY AtCommit DEF Commit
  <2>2. StagePark(db, conn[c])
    BY <2>1, StageCases DEF StageOne, StageCommit, OneStatementOps
  <2>3. <<"writeParked", "deleteOutbox">> # << >> /\ <<"deleteOutbox">> # << >>
    BY HeadTail
  <2> QED
    BY <2>1, <2>2, <2>3 DEF StagePark
<1>5. written \in Rows
  BY <1>0, <1>1, RunSound DEF Allowed, RowsSound
<1> HIDE DEF row
<1>6. written = [db EXCEPT !.parked = C!Put(db.parked, {C!ParkedRowOf(row)})]
  BY WriteParkedRuns
<1> HIDE DEF written
<1>7. db' = [written EXCEPT !.outbox = C!Without(written.outbox, row.event)]
  BY <1>1, <1>4, DeleteOutboxRuns
<1>8. /\ written.parked = C!Put(db.parked, {C!ParkedRowOf(row)}) /\ written.state = db.state
      /\ written.items = db.items /\ written.outbox = db.outbox /\ written.log = db.log
      /\ written.validator = db.validator
  BY <1>0, <1>6, ParkedColumns
<1>9. /\ db'.outbox = C!Without(written.outbox, row.event) /\ db'.state = written.state
      /\ db'.items = written.items /\ db'.parked = written.parked /\ db'.log = written.log
      /\ db'.validator = written.validator
  BY <1>5, <1>7, OutboxColumns
<1>10. C!ParkEvent(x, TRUE)
  BY <1>2, <1>8, <1>9 DEF C!ParkEvent, C!ParkedRowOf
<1>11. C!Park(c, held[c], x)
  BY <1>3, <1>8, <1>9, <1>10, StateKept DEF C!Park
<1> QED
  BY <1>0, <1>2, <1>3, <1>11 DEF C!Next

(* The COMMIT of setValidator().                                           *)
LEMMA SetValidatorRefines ==
  ASSUME TransactionsSound, NEW c \in Process, Commit(c), conn[c].op = "setValidator"
  PROVE  C!Next
<1> DEFINE tag == conn[c].arg
<1>0. db \in Rows /\ c \in Owner
  BY AtCommit DEF TransactionsSound, RowsSound, FencedOps, Process
<1>1. tag \in Version
  BY AtCommit DEF ArgOK
<1>2. C!Fenced(c, held[c]) /\ held[c] \in 1..db.epoch_counter
  BY <1>0, FencedCommit
<1>3. db' = Run("upsertValidator", conn[c].op, tag, db)
  BY OneCommitted DEF OneStatementOps, Only
<1> HIDE DEF tag
<1>4. db' = [db EXCEPT !.validator = tag]
  BY <1>3, UpsertValidatorRuns
<1>5. /\ db'.validator = tag /\ db'.state = db.state /\ db'.items = db.items
      /\ db'.outbox = db.outbox /\ db'.parked = db.parked /\ db'.log = db.log
  BY <1>0, <1>4 DEF Rows
<1>6. C!SetValidator(c, held[c], tag)
  BY <1>2, <1>5, StateKept DEF C!SetValidator
<1> QED
  BY <1>0, <1>1, <1>2, <1>6 DEF C!Next

(* The COMMIT of retryParked() and discardParked().                        *)
LEMMA ParkedCallsRefine ==
  ASSUME TransactionsSound, NEW c \in Process, Commit(c),
         conn[c].op \in {"retryParked", "discardParked"}
  PROVE  C!Next
<1> DEFINE op == conn[c].op
           ids == conn[c].arg
           moved == Named(db.parked, ids)
<1>0. db \in Rows /\ c = Operator
  BY AtCommit DEF TransactionsSound, RowsSound, FencedOps, Process
<1>1. ids \in SUBSET C!Event
  BY AtCommit DEF ArgOK
<1>2. C!Unfenced
  BY <1>0, UnfencedCommit
<1>3. db' = Run(Only(op), op, ids, db)
  BY OneCommitted DEF OneStatementOps
<1> HIDE DEF op, ids
<1>4. CASE op = "retryParked"
  <2>1. Only(op) = "retry"
    BY <1>4 DEF Only
  <2>2. db' = [db EXCEPT !.outbox = C!Put(db.outbox, C!FreshRows(moved)),
                         !.parked = db.parked \ moved]
    <3>1. db' = Run("retry", op, ids, db)
      BY <1>3, <2>1
    <3>2. Run("retry", op, ids, db) =
            [db EXCEPT !.outbox = C!Put(db.outbox, C!FreshRows(Named(db.parked, ids))),
                       !.parked = db.parked \ Named(db.parked, ids)]
      BY RetryRuns, Zenon
    <3> QED
      BY <3>1, <3>2, Zenon
  <2> HIDE DEF moved
  <2>3. /\ db'.outbox = C!Put(db.outbox, C!FreshRows(moved)) /\ db'.parked = db.parked \ moved
        /\ db'.state = db.state /\ db'.items = db.items /\ db'.log = db.log
        /\ db'.validator = db.validator
    BY <1>0, <2>2 DEF Rows
  <2>4. moved = {row \in db.parked : row.event \in ids}
    BY Zenon DEF moved, Named
  <2>5. C!Retry(ids)
    BY <1>2, <2>3, <2>4, StateKept DEF C!Retry
  <2> QED
    BY <1>1, <2>5 DEF C!Next
<1>5. CASE op = "discardParked"
  <2>1. Only(op) = "deleteParked"
    BY <1>5 DEF Only
  <2>2. db' = [db EXCEPT !.parked = db.parked \ moved]
    BY <1>3, <2>1, DeleteParkedRuns
  <2> HIDE DEF moved
  <2>3. /\ db'.parked = db.parked \ moved /\ db'.state = db.state /\ db'.items = db.items
        /\ db'.outbox = db.outbox /\ db'.log = db.log /\ db'.validator = db.validator
    BY <1>0, <2>2, ParkedColumns
  <2>4. db.parked \ moved = {row \in db.parked : row.event \notin ids}
    BY DEF moved, Named
  <2>5. C!Discard(ids)
    BY <1>2, <2>3, <2>4, StateKept DEF C!Discard
  <2> QED
    BY <1>1, <2>5 DEF C!Next
<1> QED
  BY <1>4, <1>5 DEF op

(* The COMMIT of deleteKey().                                              *)
LEMMA DeleteKeyRefines ==
  ASSUME TransactionsSound, NEW c \in Process, Commit(c), conn[c].op = "deleteKey"
  PROVE  C!Next
<1>1. db' = EmptyRows
  <2>1. db' = Run("deleteAll", conn[c].op, conn[c].arg, db)
    BY OneCommitted DEF OneStatementOps, Only
  <2> QED
    BY <2>1, DeleteAllRuns
<1>2. writer' = writer
  BY DEF Commit, FencedOps
<1>3. /\ db'.lease_owner = NoOwner /\ db'.epoch_counter = 0 /\ db'.state = Null
      /\ db'.items = [k \in Identity |-> Absent] /\ db'.outbox = {} /\ db'.parked = {}
      /\ db'.log = {} /\ db'.validator = Absent
  BY <1>1 DEF EmptyRows
<1>4. LeaseRow' = C!NoLease /\ StateRow' = C!InitialState
  BY <1>3 DEF LeaseRow, StateRow, C!NoLease, C!InitialState
<1>5. C!DeleteKey
  BY <1>2, <1>3, <1>4 DEF C!DeleteKey
<1> QED
  BY <1>5 DEF C!Next

(* Every COMMIT is an operation of the contract.                           *)
LEMMA CommitRefines ==
  ASSUME TransactionsSound, NEW c \in Process, Commit(c)
  PROVE  C!Next
<1>1. conn[c].op \in OneStatementOps \cup {"commitPoll", "parkEvent"}
  BY AtCommit, StageCases DEF StageOne, StageCommit, StagePark
<1> QED
  BY <1>1, SaveStateRefines, CommitPollRefines, AckRefines, ParkRefines, SetValidatorRefines,
     ParkedCallsRefine, DeleteKeyRefines DEF OneStatementOps

(* The lease and the other single statements.                              *)
LEMMA LiveSet ==
  ASSUME NEW o, NEW e, NEW l, NEW m
  PROVE  [[owner |-> o, epoch |-> e, live |-> l] EXCEPT !.live = m] =
           [owner |-> o, epoch |-> e, live |-> m]
OBVIOUS

(* The statements on the lease are its lease operations.                   *)
LEMMA LeaseRefines ==
  ASSUME TransactionsSound, NEW c \in Owner, AcquireLease(c) \/ RenewLease(c) \/ ReleaseLease(c)
  PROVE  C!Next
<1>0. /\ RowsSound(db) /\ db \in Rows /\ c # NoOwner /\ writer' = writer
  BY Processes DEF TransactionsSound, RowsSound, AcquireLease, RenewLease, ReleaseLease,
                   OneStatement
<1>1. CASE AcquireLease(c)
  <2> DEFINE n == db.epoch_counter + 1
  <2>1. db' = [db EXCEPT !.lease_owner = c, !.lease_epoch = n, !.live = TRUE, !.epoch_counter = n]
    BY <1>1 DEF AcquireLease
  <2>2. db.lease_owner = NoOwner \/ ~db.live \/ db.lease_owner = c
    BY <1>1 DEF AcquireLease
  <2>3. ~(LeaseRow.live /\ LeaseRow.owner # c)
    BY <2>2 DEF LeaseRow
  <2>4. n = db.epoch_counter + 1
    OBVIOUS
  <2> HIDE DEF n
  <2>5. /\ db'.lease_owner = c /\ db'.lease_epoch = n /\ db'.live = TRUE /\ db'.epoch_counter = n
        /\ db'.state = db.state /\ db'.items = db.items /\ db'.outbox = db.outbox
        /\ db'.parked = db.parked /\ db'.log = db.log /\ db'.validator = db.validator
    BY <1>0, <2>1 DEF Rows
  <2>6. LeaseRow' = [owner |-> c, epoch |-> n, live |-> TRUE]
    BY <1>0, <2>5 DEF LeaseRow
  <2>7. C!Acquire(c)
    BY <1>0, <2>3, <2>4, <2>5, <2>6, StateKept DEF C!Acquire, C!AcquireLease
  <2> QED
    BY <2>7 DEF C!Next
<1>2. ASSUME Mine(db, c)
      PROVE  /\ LeaseRow = [owner |-> c, epoch |-> held[c], live |-> db.live]
             /\ C!Fence(c, held[c]) /\ held[c] \in 1..db.epoch_counter
  <2>1. db.lease_owner = c /\ db.lease_epoch = held[c]
    BY <1>2 DEF Mine
  <2>2. LeaseRow = [owner |-> c, epoch |-> held[c], live |-> db.live]
    BY <1>0, <2>1 DEF LeaseRow
  <2>3. held[c] \in 1..db.epoch_counter
    BY <1>0, <2>1 DEF RowsSound
  <2> QED
    BY <2>2, <2>3 DEF C!Fence
<1>3. CASE RenewLease(c)
  <2>1. Mine(db, c) /\ db' = [db EXCEPT !.live = TRUE]
    BY <1>3 DEF RenewLease
  <2>2. /\ db'.lease_owner = db.lease_owner /\ db'.lease_epoch = db.lease_epoch
        /\ db'.live = TRUE /\ db'.epoch_counter = db.epoch_counter
        /\ db'.state = db.state /\ db'.items = db.items /\ db'.outbox = db.outbox
        /\ db'.parked = db.parked /\ db'.log = db.log /\ db'.validator = db.validator
    BY <1>0, <2>1 DEF Rows
  <2>3. LeaseRow' = [owner |-> c, epoch |-> held[c], live |-> TRUE]
    BY <1>0, <2>1, <2>2 DEF LeaseRow, Mine
  <2>4. LeaseRow' = [LeaseRow EXCEPT !.live = TRUE]
    <3>1. LeaseRow = [owner |-> c, epoch |-> held[c], live |-> db.live]
      BY <1>2, <2>1
    <3> QED
      BY <2>3, <3>1, LiveSet
  <2>5. C!Renew(c, held[c])
    BY <1>0, <1>2, <2>1, <2>2, <2>4, StateKept DEF C!Renew, C!RenewLease
  <2> QED
    BY <1>2, <2>1, <2>5 DEF C!Next
<1>4. CASE ReleaseLease(c)
  <2>1. Mine(db, c) /\ db' = [db EXCEPT !.lease_owner = NoOwner, !.live = FALSE]
    BY <1>4 DEF ReleaseLease
  <2>2. /\ db'.lease_owner = NoOwner /\ db'.epoch_counter = db.epoch_counter
        /\ db'.state = db.state /\ db'.items = db.items /\ db'.outbox = db.outbox
        /\ db'.parked = db.parked /\ db'.log = db.log /\ db'.validator = db.validator
    BY <1>0, <2>1 DEF Rows
  <2>3. LeaseRow' = C!NoLease
    BY <2>2 DEF LeaseRow, C!NoLease
  <2>4. C!Release(c, held[c])
    BY <1>0, <1>2, <2>1, <2>2, <2>3, StateKept DEF C!Release, C!ReleaseLease
  <2> QED
    BY <1>2, <2>1, <2>4 DEF C!Next
<1> QED
  BY <1>1, <1>3, <1>4

(* Time is the same in both.                                               *)
LEMMA ExpireRefines ==
  ASSUME TransactionsSound, Expire
  PROVE  C!Next \/ UNCHANGED C!contractVars
<1>0. db \in Rows /\ db' = Dark(db) /\ db.live /\ writer' = writer
  BY DEF TransactionsSound, RowsSound, Expire, Dark
<1>1. /\ db'.live = FALSE
      /\ db'.lease_owner = db.lease_owner /\ db'.lease_epoch = db.lease_epoch
      /\ db'.epoch_counter = db.epoch_counter /\ db'.state = db.state
      /\ db'.items = db.items /\ db'.outbox = db.outbox /\ db'.parked = db.parked
      /\ db'.log = db.log /\ db'.validator = db.validator
  BY <1>0, DarkRows
<1>2. CASE db.lease_owner = NoOwner
  <2>1. LeaseRow' = LeaseRow
    BY <1>1, <1>2 DEF LeaseRow
  <2> QED
    BY <1>0, <1>1, <2>1, StateKept DEF C!contractVars, C!storeVars
<1>3. CASE db.lease_owner # NoOwner
  <2>1. /\ LeaseRow = [owner |-> db.lease_owner, epoch |-> db.lease_epoch, live |-> db.live]
        /\ LeaseRow' = [owner |-> db.lease_owner, epoch |-> db.lease_epoch, live |-> FALSE]
    BY <1>1, <1>3 DEF LeaseRow
  <2>2. LeaseRow.live /\ LeaseRow' = [LeaseRow EXCEPT !.live = FALSE]
    BY <1>0, <2>1, LiveSet
  <2>3. C!Expire
    BY <1>0, <1>1, <2>2, StateKept DEF C!Expire
  <2> QED
    BY <2>3 DEF C!Next
<1> QED
  BY <1>2, <1>3

(* clearItems() and pruneLog().                                            *)
LEMMA AdministrationRefines ==
  ASSUME TransactionsSound, ClearItems \/ \E n \in 1..LastSequence : PruneLog(n)
  PROVE  C!Next
<1>0. db \in Rows
  BY DEF TransactionsSound, RowsSound
<1>1. CASE ClearItems
  <2> DEFINE none == [k \in Identity |-> Absent]
  <2>1. db' = [db EXCEPT !.items = none] /\ writer' = writer
    BY <1>1 DEF ClearItems, OneStatement
  <2> HIDE DEF none
  <2>2. /\ db'.items = none /\ SameLease(db', db) /\ db'.state = db.state
        /\ db'.outbox = db.outbox /\ db'.parked = db.parked /\ db'.log = db.log
        /\ db'.validator = db.validator
    BY <1>0, <2>1 DEF Rows, SameLease
  <2>3. C!ClearItems
    BY <2>1, <2>2, LeaseKept, StateKept DEF C!ClearItems, C!Unfenced, none
  <2> QED
    BY <2>3 DEF C!Next
<1>2. CASE \E n \in 1..LastSequence : PruneLog(n)
  <2>1. PICK n \in 1..LastSequence : PruneLog(n)
    BY <1>2
  <2> DEFINE kept == {l \in db.log : l.sequence >= n}
  <2>2. db' = [db EXCEPT !.log = kept] /\ writer' = writer
    BY <2>1 DEF PruneLog, OneStatement
  <2> HIDE DEF kept
  <2>3. /\ db'.log = kept /\ SameLease(db', db) /\ db'.state = db.state
        /\ db'.items = db.items /\ db'.outbox = db.outbox /\ db'.parked = db.parked
        /\ db'.validator = db.validator
    BY <1>0, <2>2 DEF Rows, SameLease
  <2>4. StateRow.sequence = LastSequence
    BY DEF StateRow, LastSequence
  <2>5. C!PruneLog(n)
    BY <2>2, <2>3, LeaseKept, StateKept DEF C!PruneLog, C!Unfenced, kept
  <2> QED
    BY <2>1, <2>4, <2>5 DEF C!Next
<1> QED
  BY <1>1, <1>2

(* The first rows are an empty key.                                        *)
LEMMA ContractInit ==
  ASSUME Init
  PROVE  C!Init
<1>1. /\ db.lease_owner = NoOwner /\ db.epoch_counter = 0 /\ db.state = Null
      /\ db.items = [k \in Identity |-> Absent] /\ db.outbox = {} /\ db.parked = {}
      /\ db.log = {} /\ db.validator = Absent
  BY DEF Init, EmptyRows
<1>2. LeaseRow = C!NoLease /\ StateRow = C!InitialState
  BY <1>1 DEF LeaseRow, StateRow, C!NoLease, C!InitialState
<1> QED
  BY <1>1, <1>2 DEF Init, C!Init, C!StoreInit

(* Every step is a step of the contract, or leaves the committed rows      *)
(* alone.                                                                  *)
LEMMA ContractStep ==
  ASSUME TransactionsSound, [Next]_vars
  PROVE  [C!Next]_C!contractVars
<1>1. CASE \E c \in Owner : AcquireLease(c) \/ RenewLease(c) \/ ReleaseLease(c)
  BY <1>1, LeaseRefines
<1>2. CASE ClearItems \/ \E n \in 1..LastSequence : PruneLog(n)
  BY <1>2, AdministrationRefines
<1>3. CASE Expire
  BY <1>3, ExpireRefines
<1>4. CASE \E c \in Process : Commit(c)
  BY <1>4, CommitRefines
<1>5. CASE UNCHANGED <<db, writer>>
  <2>1. LeaseRow' = LeaseRow /\ StateRow' = StateRow
    BY <1>5 DEF LeaseRow, StateRow
  <2> QED
    BY <1>5, <2>1 DEF C!contractVars, C!storeVars
<1>6. ASSUME NEW c, NEW op, NEW arg, Begin(c, op, arg)
      PROVE  UNCHANGED <<db, writer>>
  BY <1>6 DEF Begin
<1>7. (\E c \in Owner : EngineCalls(c)) => UNCHANGED <<db, writer>>
  BY <1>6 DEF EngineCalls
<1>8. OperatorCalls => \/ UNCHANGED <<db, writer>> \/ ClearItems
                       \/ \E n \in 1..LastSequence : PruneLog(n)
  BY <1>6 DEF OperatorCalls
<1>9. /\ \A c \in Process : Statement(c) \/ LeaseLost(c) \/ Rollback(c) \/ Busy(c)
                              => UNCHANGED <<db, writer>>
      /\ UNCHANGED vars => UNCHANGED <<db, writer>>
  BY DEF Statement, LeaseLost, Rollback, Busy, vars
<1> QED
  BY <1>1, <1>2, <1>3, <1>4, <1>5, <1>7, <1>8, <1>9 DEF Next

(* The SQLite store keeps the promise of the store contract whatever the   *)
(* interleaving of its processes' statements, crashes and expiries: each   *)
(* COMMIT is one whole operation, and a fenced one is made under the lease *)
(* current at that moment (tx() and fence()).                              *)
THEOREM SqliteImplementsContract == Spec => Contract
<1>1. Init => C!Init
  BY ContractInit
<1>2. TransactionsSound /\ [Next]_vars => [C!Next]_C!contractVars
  BY ContractStep
<1> QED
  BY <1>1, <1>2, TransactionsIsolated, PTL DEF Spec, Contract, C!Spec
=============================================================================
