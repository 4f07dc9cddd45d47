------------------------------ MODULE Hosting -------------------------------
(***************************************************************************)
(* Replicas of a NestJS application that host an engine over one Postgres  *)
(* database: the bootstrap and shutdown hooks of src/nestjs/module.ts, and *)
(* the migrations a PostgresStore applies on demand (migrate, ensureReady, *)
(* run and close of src/stores/postgres/postgres-store.ts). A health check *)
(* uses the store whenever it likes.                                       *)
(*                                                                         *)
(* The database: a migration's transaction creates all tables or none, and *)
(* two that create them at the same time collide (IF NOT EXISTS does not   *)
(* see what another transaction has not committed).                        *)
(***************************************************************************)
EXTENDS Naturals, FiniteSets

CONSTANTS
  Replica,      \* processes of the application
  Watched,      \* those whose health is checked and that are shut down
  CloseStore,   \* options.closeStore, with a client that closes
  WellFormed,   \* whether explorer.attach accepts the application
  MaxFaults     \* bound: connections lost

(* applyMigrations as called by ensureReady, where one may still be under  *)
(* way when the next begins, and by migrate().                             *)
Lazy == {"first", "second"}
Migration == Lazy \cup {"boot"}

(* start()'s loadState and the health check's inspect().                   *)
Operation == {"load", "probe"}

None == "none"

VARIABLES
  tables,      \* whether the tables are there, committed
  locks,       \* holders of the advisory lock: <<replica, migration>>
  migration,   \* of each replica, each migration's progress
  ready,       \* the promise of that name: "null", "done" or a migration
  op,          \* of each replica, each operation: [at, on, struck]
  boot,        \* startPromise and where bootstrap() is
  halt,        \* stopPromise and where shutdown() is
  status,      \* the engine's _status
  ended,       \* whether the client was closed
  faults

vars == <<tables, locks, migration, ready, op, boot, halt, status, ended, faults>>

Idle == [at |-> "idle", on |-> None, struck |-> FALSE]

Init ==
  /\ tables = FALSE
  /\ locks = {}
  /\ migration = [r \in Replica |-> [m \in Migration |-> "unused"]]
  /\ ready = [r \in Replica |-> "null"]
  /\ op = [r \in Replica |-> [o \in Operation |-> Idle]]
  /\ boot = [r \in Replica |-> "none"]
  /\ halt = [r \in Replica |-> "none"]
  /\ status = [r \in Replica |-> "idle"]
  /\ ended = [r \in Replica |-> FALSE]
  /\ faults = 0

hostVars == <<boot, halt, status, ended>>

-----------------------------------------------------------------------------
(* A migration stops; the operations that wait on it will see that.        *)
Break(r, m, struck) ==
  /\ migration' = [migration EXCEPT ![r][m] = "failed"]
  /\ locks' = locks \ {<<r, m>>}
  /\ op' = [op EXCEPT ![r] = [o \in Operation |->
              IF op[r][o].on = m /\ op[r][o].at = "waiting"
              THEN [op[r][o] EXCEPT !.struck = @ \/ struck] ELSE op[r][o]]]

(* pg_advisory_xact_lock waits for the transaction that holds it.          *)
Lock(r, m) ==
  /\ migration[r][m] = "begun" /\ locks = {}
  /\ migration' = [migration EXCEPT ![r][m] = "locked"]
  /\ locks' = {<<r, m>>}
  /\ UNCHANGED <<tables, ready, op, hostVars, faults>>

(* The statements of postgresMigrations.                                   *)
Create(r, m) ==
  /\ migration[r][m] = "locked"
  /\ IF ~tables /\ \E s \in Replica, n \in Migration : migration[s][n] = "created"
     THEN Break(r, m, FALSE)
     ELSE migration' = [migration EXCEPT ![r][m] = "created"] /\ UNCHANGED <<locks, op>>
  /\ UNCHANGED <<tables, ready, hostVars, faults>>

Commit(r, m) ==
  /\ migration[r][m] = "created"
  /\ migration' = [migration EXCEPT ![r][m] = "done"]
  /\ locks' = locks \ {<<r, m>>}
  /\ tables' = TRUE
  /\ UNCHANGED <<ready, op, hostVars, faults>>

(* The connection is lost, or the client was closed.                       *)
Drop(r, m) ==
  /\ migration[r][m] \in {"begun", "locked", "created"}
  /\ \/ ended[r] /\ UNCHANGED faults
     \/ faults < MaxFaults /\ faults' = faults + 1
  /\ Break(r, m, TRUE)
  /\ UNCHANGED <<tables, ready, hostVars>>

(* Mutant: a failure stays in place for whoever comes next.                *)
KeepFailure(r, m) ==
  /\ m \in Lazy /\ migration[r][m] = "failed"
  /\ migration' = [migration EXCEPT ![r][m] = "handled"]
  /\ UNCHANGED <<tables, locks, ready, op, hostVars, faults>>

(* pending.catch of ensureReady: forget a failed migration, unless another *)
(* one has taken its place.                                                *)
Forget(r, m) ==
  /\ m \in Lazy /\ migration[r][m] = "failed"
  /\ migration' = [migration EXCEPT ![r][m] = "handled"]
  /\ ready' = [ready EXCEPT ![r] = IF @ = m THEN "null" ELSE @]
  /\ UNCHANGED <<tables, locks, op, hostVars, faults>>

-----------------------------------------------------------------------------
(* Nothing refers to it, or it has not been used.                          *)
Fresh(r) ==
  {m \in Lazy :
     /\ migration[r][m] \in {"unused", "done", "handled"} /\ ready[r] # m
     /\ \A o \in Operation : op[r][o].at = "waiting" => op[r][o].on # m}

(* Mutant: an operation does not wait for a migration under way.           *)
AskAtOnce(r, o) ==
  \/ /\ ready[r] = "null"
     /\ LET m == CHOOSE n \in Fresh(r) : TRUE
        IN /\ Fresh(r) # {}
           /\ migration' = [migration EXCEPT ![r][m] = "begun"]
           /\ ready' = [ready EXCEPT ![r] = m]
           /\ op' = [op EXCEPT ![r][o] = [at |-> "waiting", on |-> m, struck |-> FALSE]]
  \/ /\ ready[r] # "null"
     /\ op' = [op EXCEPT ![r][o] = [Idle EXCEPT !.at = "running"]]
     /\ UNCHANGED <<migration, ready>>

(* run and ensureReady: the operation waits for the migration that is      *)
(* under way, and begins one when there is none.                           *)
Ask(r, o) ==
  \/ /\ ready[r] = "null"
     /\ LET m == CHOOSE n \in Fresh(r) : TRUE
        IN /\ Fresh(r) # {}
           /\ migration' = [migration EXCEPT ![r][m] = "begun"]
           /\ ready' = [ready EXCEPT ![r] = m]
           /\ op' = [op EXCEPT ![r][o] = [at |-> "waiting", on |-> m, struck |-> FALSE]]
  \/ /\ ready[r] \in Lazy
     /\ op' = [op EXCEPT ![r][o] = [at |-> "waiting", on |-> ready[r],
                                   struck |-> migration[r][ready[r]] = "failed"]]
     /\ UNCHANGED <<migration, ready>>
  \/ /\ ready[r] = "done"
     /\ op' = [op EXCEPT ![r][o] = [Idle EXCEPT !.at = "running"]]
     /\ UNCHANGED <<migration, ready>>

(* The migration is settled: the operation goes on or fails with it.       *)
Continue(r, o) ==
  /\ op[r][o].at = "waiting"
  /\ \/ migration[r][op[r][o].on] = "done" /\ op' = [op EXCEPT ![r][o].at = "running"]
     \/ /\ migration[r][op[r][o].on] \in {"failed", "handled"}
        /\ op' = [op EXCEPT ![r][o].at = "failed"]
  /\ UNCHANGED <<tables, locks, migration, ready, hostVars, faults>>

(* The statement of the operation itself.                                  *)
Perform(r, o) ==
  /\ op[r][o].at = "running"
  /\ \/ op' = [op EXCEPT ![r][o].at = IF tables THEN "ok" ELSE "failed"] /\ UNCHANGED faults
     \/ /\ op' = [op EXCEPT ![r][o] = [@ EXCEPT !.at = "failed", !.struck = TRUE]]
        /\ \/ ended[r] /\ UNCHANGED faults
           \/ ~ended[r] /\ faults < MaxFaults /\ faults' = faults + 1
  /\ UNCHANGED <<tables, locks, migration, ready, hostVars>>

(* isHealthy: inspect() reads the store, at any time.                      *)
Probe(r) ==
  /\ r \in Watched /\ op[r]["probe"].at \in {"idle", "ok", "failed"}
  /\ Ask(r, "probe")
  /\ UNCHANGED <<tables, locks, hostVars, faults>>

-----------------------------------------------------------------------------
(* onApplicationBootstrap: bootstrap() migrates first.                     *)
Bootstrap(r) ==
  /\ boot[r] = "none"
  /\ boot' = [boot EXCEPT ![r] = "migrating"]
  /\ migration' = [migration EXCEPT ![r]["boot"] = "begun"]
  /\ UNCHANGED <<tables, locks, ready, op, halt, status, ended, faults>>

(* migrate() failed: so does the bootstrap.                                *)
BootstrapFails(r) ==
  /\ boot[r] = "migrating" /\ migration[r]["boot"] = "failed"
  /\ boot' = [boot EXCEPT ![r] = "failed"]
  /\ UNCHANGED <<tables, locks, migration, ready, op, halt, status, ended, faults>>

(* migrate() is done. The handlers are attached, then start() begins: it   *)
(* refuses a stopping engine, and does nothing to a running one. The       *)
(* operation it waits for comes next.                                      *)
Start(r) ==
  /\ boot[r] = "migrating" /\ migration[r]["boot"] = "done"
  /\ ready' = [ready EXCEPT ![r] = "done"]
  /\ IF WellFormed /\ status[r] # "stopping"
     THEN boot' = [boot EXCEPT ![r] = "starting"] /\ status' = [status EXCEPT ![r] = "running"]
     ELSE boot' = [boot EXCEPT ![r] = "failed"] /\ UNCHANGED status
  /\ UNCHANGED <<tables, locks, migration, op, halt, ended, faults>>

(* start(), its loop over the keys.                                        *)
Load(r) ==
  /\ boot[r] = "starting" /\ op[r]["load"].at = "idle"
  /\ Ask(r, "load")
  /\ UNCHANGED <<tables, locks, hostVars, faults>>

Started(r) ==
  /\ boot[r] = "starting" /\ op[r]["load"].at \in {"ok", "failed"}
  /\ boot' = [boot EXCEPT ![r] = IF op[r]["load"].at = "ok" THEN "up" ELSE "failed"]
  /\ UNCHANGED <<tables, locks, migration, ready, op, halt, status, ended, faults>>

(* beforeApplicationShutdown: stop() has nothing to drain here (Engine is  *)
(* about what it waits for), so it is over when it has begun.              *)
Shutdown(r) ==
  /\ r \in Watched /\ halt[r] = "none" /\ boot[r] # "none"
  /\ halt' = [halt EXCEPT ![r] = "stopping"]
  /\ status' = [status EXCEPT ![r] = IF @ = "running" THEN "stopping" ELSE "stopped"]
  /\ UNCHANGED <<tables, locks, migration, ready, op, boot, ended, faults>>

(* stop() returns; the store is closed when the options say so.            *)
Close(r) ==
  /\ halt[r] = "stopping"
  /\ halt' = [halt EXCEPT ![r] = "down"]
  /\ status' = [status EXCEPT ![r] = IF @ = "stopping" THEN "stopped" ELSE @]
  /\ IF CloseStore
     THEN ended' = [ended EXCEPT ![r] = TRUE] /\ ready' = [ready EXCEPT ![r] = "null"]
     ELSE UNCHANGED <<ended, ready>>
  /\ UNCHANGED <<tables, locks, migration, op, boot, faults>>

Migrate(r, m) == Lock(r, m) \/ Create(r, m) \/ Commit(r, m) \/ Forget(r, m)

Hook(r) == BootstrapFails(r) \/ Start(r) \/ Load(r) \/ Started(r) \/ Close(r)

Settle(r, o) == Continue(r, o) \/ Perform(r, o)

Next ==
  \E r \in Replica :
    \/ Bootstrap(r) \/ Shutdown(r) \/ Probe(r) \/ Hook(r)
    \/ \E m \in Migration : Migrate(r, m) \/ Drop(r, m)
    \/ \E o \in Operation : Settle(r, o)

Spec == Init /\ [][Next]_vars

-----------------------------------------------------------------------------
(* An operation of the store fails only by a fault that befell it or the   *)
(* migration it waited for: not by the migration of another replica, nor   *)
(* by one that failed before it and was forgotten (ensureReady,            *)
(* applyMigrations).                                                       *)
FailsForCause ==
  \A r \in Replica, o \in Operation : op[r][o].at = "failed" => op[r][o].struck

(* An operation reaches the database with the tables in place, though the  *)
(* store was closed, migrated twice or failed to migrate (run).            *)
TablesFirst == \A r \in Replica, o \in Operation : op[r][o].at = "running" => tables

(* Migrations: no operation comes before its tables, and none fails by a   *)
(* migration it did not wait for (ensureReady, applyMigrations, run).      *)
MigrationsSound == FailsForCause /\ TablesFirst
=============================================================================
