------------------------------ MODULE MCStores ------------------------------
(***************************************************************************)
(* The three database stores, and the replicas that migrate one of them,   *)
(* in one run: the initial state picks one, and only that one moves. The   *)
(* others stay as they start, which is a behaviour of theirs too, so the   *)
(* properties of all are checked in every behaviour.                       *)
(***************************************************************************)
EXTENDS SqliteStore

CONSTANTS
  a, b, k1, k2, v1, op1, op2, NoRow, NoHash, NewKeys, Stores,
  Client, Size, MaxCommands,                          \* Redis: who runs commands by hand
  Replica, Watched, CloseStore, WellFormed, MaxFaults \* see Hosting

VARIABLES
  chosen,       \* the store this behaviour is about
  pgPollers, pgItems, pgOutbox, pgParked, pgLog, pgValidator, pgConn, pgHeld, pgCalls, pgWriter,
  pgClearing, pgLate,
  meta, state, items, pendingIds, rows, attempts, parked, hold, validator, log, listed,
  rdConn, rdHeld, rdCalls, rdWriter,
  tables, locks, migration, ready, op, boot, halt, status, ended, faults

pgVars == <<pgPollers, pgItems, pgOutbox, pgParked, pgLog, pgValidator, pgConn, pgHeld,
            pgCalls, pgWriter, pgClearing, pgLate>>
rdVars == <<meta, state, items, pendingIds, rows, attempts, parked, hold, validator, log,
            listed, rdConn, rdHeld, rdCalls, rdWriter>>
hostingVars == <<tables, locks, migration, ready, op, boot, halt, status, ended, faults>>
allVars == <<chosen, vars, pgVars, rdVars, hostingVars>>

(* One item is created, then deleted. In PostgreSQL the second commit also *)
(* creates another item, or creates it beside the first.                   *)
RowOf(k, type, n) ==
  [event |-> [subject |-> k, version |-> v1, type |-> type], sequence |-> n, attempts |-> 0]

MCBatch ==
  {[rows |-> {RowOf(k1, "created", 1)}, deletes |-> {}, cursor |-> 1, sequence |-> 1],
   [rows |-> {RowOf(k1, "deleted", 2)}, deletes |-> {k1}, cursor |-> 2, sequence |-> 2]}

PgIdentity == {k1, k2}

PgBatch ==
  {[rows |-> {RowOf(k1, "created", 1)}, deletes |-> {}, cursor |-> 1, sequence |-> 1],
   [rows |-> {RowOf(k1, "updated", 2), RowOf(k2, "created", 3)}, deletes |-> {}, cursor |-> 2,
    sequence |-> 3],
   [rows |-> {RowOf(k1, "deleted", 4)}, deletes |-> {k1}, cursor |-> 3, sequence |-> 4]}

Pg == INSTANCE PostgresStore WITH
  Identity <- PgIdentity, Batch <- PgBatch, clearing <- pgClearing, late <- pgLate,
  pollers <- pgPollers, items <- pgItems, outbox <- pgOutbox, parked <- pgParked, log <- pgLog,
  validator <- pgValidator, conn <- pgConn, held <- pgHeld, calls <- pgCalls, writer <- pgWriter

Rd == INSTANCE RedisStore WITH
  Operator <- Client, Limit <- Size, MaxCalls <- MaxCommands,
  conn <- rdConn, held <- rdHeld, calls <- rdCalls, writer <- rdWriter

H == INSTANCE Hosting

(* What is proved of them (StoreProofs): a PostgreSQL key has its row      *)
(* before an administrative write looks for it; Redis gets the batches of  *)
(* an observer, in which an event id has one number.                       *)
ASSUME StoresAssumption == Pg!PostgresParameters /\ Rd!RedisParameters /\ Rd!OneNumber

StoresInit == chosen \in Stores /\ Init /\ Pg!Init /\ Rd!Init /\ H!Init

StoresNext ==
  \/ chosen = "sqlite" /\ Next /\ UNCHANGED <<chosen, pgVars, rdVars, hostingVars>>
  \/ chosen = "postgres" /\ Pg!Next /\ UNCHANGED <<chosen, vars, rdVars, hostingVars>>
  \/ chosen = "redis" /\ Rd!Next /\ UNCHANGED <<chosen, vars, pgVars, hostingVars>>
  \/ chosen = "hosting" /\ H!Next /\ UNCHANGED <<chosen, vars, pgVars, rdVars>>

StoresSpec == StoresInit /\ [][StoresNext]_allVars

(* PostgreSQL: what Contract says of SqliteStore, for transactions whose   *)
(* statements interleave (fenced() and the row locks).                     *)
PostgresImplementsContract == Pg!Contract

(* Redis: the same of the hashes its readers decode (the Lua scripts, and  *)
(* the operations that take several commands).                             *)
RedisImplementsContract == Rd!Contract

(* What the stores answer can be relied on: no operation of a              *)
(* PostgresStore runs before its tables exist, and none fails by a         *)
(* migration it did not wait for (ensureReady, see Hosting); rows that     *)
(* Redis reads in three commands are the pending rows, for a caller that   *)
(* still has the lease (loadPending), and its structures agree.            *)
AnswersSound == H!MigrationsSound /\ Rd!ReadsSound
=============================================================================
