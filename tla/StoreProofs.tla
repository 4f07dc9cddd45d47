----------------------------- MODULE StoreProofs -----------------------------
(***************************************************************************)
(* What the stores of MCStores answer can be relied on, for any number of  *)
(* replicas, owners, clients, commands under way and events.               *)
(*                                                                         *)
(* Hosting: who thinks that the tables are there is right (TablesThere),   *)
(* which needs that two migrations do not create them at once              *)
(* (OneAtATime) and that whoever waits is told (WaitersTold).              *)
(*                                                                         *)
(* Redis: rows, index, counters and holds agree at every moment            *)
(* (RowsSeen), so what a reader decodes is a state of the contract, and    *)
(* each script is one operation of it; reads are stutters. What a call     *)
(* read in an earlier command is followed to the command that uses it      *)
(* (CallsOK, Loads).                                                       *)
(*                                                                         *)
(* PostgreSQL: past its first statement a transaction has the key's row,   *)
(* an engine under its lease (KeyHeld), no two have locked the same row    *)
(* (LocksApart), and what one will write is, of the rows as they are now,  *)
(* what its operation writes (EngineStage, OperatorStage). So COMMIT is    *)
(* one operation of the contract, and every other statement a stutter.     *)
(***************************************************************************)
EXTENDS MCStores, FiniteSetTheorems, TLAPS

-----------------------------------------------------------------------------
(* Migrations on demand (Hosting) *)

Progress == {"unused", "begun", "locked", "created", "done", "failed", "handled"}

OpRecord ==
  [at : {"idle", "waiting", "running", "ok", "failed"}, on : H!Lazy \cup {H!None}, struck : BOOLEAN]

HostTypes ==
  /\ tables \in BOOLEAN
  /\ migration \in [Replica -> [H!Migration -> Progress]]
  /\ ready \in [Replica -> {"null", "done"} \cup H!Lazy]
  /\ op \in [Replica -> [H!Operation -> OpRecord]]
  /\ boot \in [Replica -> {"none", "migrating", "starting", "up", "failed"}]

(* A migration past the lock has it, and only one has.                     *)
OneAtATime ==
  /\ locks = {p \in Replica \X H!Migration : migration[p[1]][p[2]] \in {"locked", "created"}}
  /\ \A p, q \in locks : p = q

(* Whoever waits, waits for a migration that is under way or has told it   *)
(* how it ended; a failed one is never waited for anew.                    *)
WaitersTold ==
  \A r \in Replica :
    /\ boot[r] = "none" => migration[r]["boot"] = "unused"
    /\ ready[r] \in H!Lazy => migration[r][ready[r]] \notin {"unused", "handled"}
    /\ \A o \in H!Operation : op[r][o].at = "waiting" =>
         /\ op[r][o].on \in H!Lazy
         /\ migration[r][op[r][o].on] # "unused"
         /\ migration[r][op[r][o].on] \in {"failed", "handled"} => op[r][o].struck

(* Who thinks that the tables are there, is right.                         *)
TablesThere ==
  \A r \in Replica :
    /\ ready[r] = "done" => tables
    /\ \A m \in H!Migration : migration[r][m] = "done" => tables
    /\ \A o \in H!Operation : op[r][o].at = "running" => tables

HostInv == HostTypes /\ OneAtATime /\ WaitersTold /\ TablesThere /\ H!FailsForCause

(* The fields of an operation, and how one is written.                     *)
LEMMA OpFields ==
  ASSUME NEW x \in OpRecord
  PROVE  /\ x = [at |-> x.at, on |-> x.on, struck |-> x.struck]
         /\ x.at \in {"idle", "waiting", "running", "ok", "failed"}
         /\ x.on \in H!Lazy \cup {H!None} /\ x.struck \in BOOLEAN
         /\ \A at : [x EXCEPT !.at = at] = [at |-> at, on |-> x.on, struck |-> x.struck]
         /\ \A s : [x EXCEPT !.struck = s] = [at |-> x.at, on |-> x.on, struck |-> s]
         /\ [x EXCEPT !.at = "failed", !.struck = TRUE] =
              [at |-> "failed", on |-> x.on, struck |-> TRUE]
<1>1. x = [at |-> x.at, on |-> x.on, struck |-> x.struck]
      /\ x.at \in {"idle", "waiting", "running", "ok", "failed"}
      /\ x.on \in H!Lazy \cup {H!None} /\ x.struck \in BOOLEAN
  BY DEF OpRecord
<1>2. ASSUME NEW v PROVE [x EXCEPT !.at = v] = [at |-> v, on |-> x.on, struck |-> x.struck]
  BY <1>1
<1>3. ASSUME NEW v PROVE [x EXCEPT !.struck = v] = [at |-> x.at, on |-> x.on, struck |-> v]
  BY <1>1
<1>4. [x EXCEPT !.at = "failed", !.struck = TRUE] =
        [at |-> "failed", on |-> x.on, struck |-> TRUE]
  <2>0. [x EXCEPT !.at = "failed"] \in OpRecord
    BY <1>1, <1>2 DEF OpRecord
  <2>1. PICK y \in OpRecord : y = [x EXCEPT !.at = "failed"]
    BY <2>0
  <2>2. y.at = "failed" /\ y.on = x.on
    BY <1>2, <2>1
  <2>3. [x EXCEPT !.at = "failed", !.struck = TRUE] = [y EXCEPT !.struck = TRUE]
    BY <2>1
  <2>4. y = [at |-> y.at, on |-> y.on, struck |-> y.struck]
    BY DEF OpRecord
  <2>5. \A v : [y EXCEPT !.struck = v] = [at |-> y.at, on |-> y.on, struck |-> v]
    BY <2>4
  <2> QED
    BY <2>2, <2>3, <2>5
<1> QED
  BY <1>1, <1>2, <1>3, <1>4

(* The names that Hosting gives its migrations and operations.             *)
LEMMA HostNames ==
  /\ H!Lazy \subseteq H!Migration /\ "boot" \in H!Migration /\ "boot" \notin H!Lazy
  /\ H!Lazy = {"first", "second"} /\ H!Operation = {"load", "probe"}
  /\ "null" \notin H!Lazy /\ "done" \notin H!Lazy /\ H!None \notin H!Lazy
BY DEF H!Lazy, H!Migration, H!Operation, H!None

(* At first no replica has asked for a migration.                          *)
LEMMA HostBegins ==
  ASSUME H!Init
  PROVE  HostInv
<1>1. H!Idle \in OpRecord /\ H!Idle.at = "idle"
  BY DEF H!Idle, OpRecord
<1>2. \A r \in Replica : \A o \in H!Operation : op[r][o] = H!Idle
  BY DEF H!Init
<1>3. \A r \in Replica : \A m \in H!Migration : migration[r][m] = "unused"
  BY DEF H!Init
<1>4. HostTypes
  <2>1. op = [r \in Replica |-> [o \in H!Operation |-> H!Idle]]
    BY DEF H!Init
  <2>2. op \in [Replica -> [H!Operation -> OpRecord]]
    BY <1>1, <2>1
  <2> QED
    BY <2>2 DEF H!Init, HostTypes, Progress
<1>5. OneAtATime
  BY <1>3 DEF H!Init, OneAtATime
<1>6. WaitersTold
  BY <1>1, <1>2, <1>3, HostNames DEF H!Init, WaitersTold
<1>7. TablesThere /\ H!FailsForCause
  BY <1>1, <1>2, <1>3 DEF H!Init, TablesThere, H!FailsForCause
<1> QED
  BY <1>4, <1>5, <1>6, <1>7 DEF HostInv

(* What one migration's step does to the others.                           *)
LEMMA MigrationStep ==
  ASSUME HostTypes, NEW r \in Replica, NEW m \in H!Migration, NEW s \in Progress,
         migration' = [migration EXCEPT ![r][m] = s]
  PROVE  /\ migration' \in [Replica -> [H!Migration -> Progress]]
         /\ migration'[r][m] = s
         /\ \A x \in Replica, y \in H!Migration : x # r \/ y # m => migration'[x][y] = migration[x][y]
BY DEF HostTypes

(* The lock, when one migration moves.                                     *)
LEMMA LockKept ==
  ASSUME HostTypes, OneAtATime, NEW r \in Replica, NEW m \in H!Migration, NEW s \in Progress,
         migration' = [migration EXCEPT ![r][m] = s],
         \/ s \notin {"locked", "created"} /\ locks' = locks \ {<<r, m>>}
         \/ s = "locked" /\ locks = {} /\ locks' = {<<r, m>>}
         \/ s = "created" /\ migration[r][m] = "locked" /\ locks' = locks
  PROVE  OneAtATime'
<1>1. /\ migration'[r][m] = s
      /\ \A x \in Replica, y \in H!Migration : x # r \/ y # m => migration'[x][y] = migration[x][y]
  BY DEF HostTypes
<1>2. \A p \in Replica \X H!Migration :
        p = <<p[1], p[2]>> /\ p[1] \in Replica /\ p[2] \in H!Migration
  OBVIOUS
<1>3. <<r, m>> \in Replica \X H!Migration
  OBVIOUS
<1>4. locks' = {p \in Replica \X H!Migration : migration'[p[1]][p[2]] \in {"locked", "created"}}
  BY <1>1, <1>2, <1>3 DEF OneAtATime
<1>5. \A p, q \in locks' : p = q
  BY DEF OneAtATime
<1> QED
  BY <1>4, <1>5 DEF OneAtATime

(* What is written of one operation leaves the others alone.               *)
LEMMA OpStep ==
  ASSUME HostTypes, NEW r \in Replica, NEW o \in H!Operation, NEW x \in OpRecord,
         op' = [op EXCEPT ![r][o] = x]
  PROVE  /\ op' \in [Replica -> [H!Operation -> OpRecord]]
         /\ op'[r][o] = x
         /\ \A y \in Replica, z \in H!Operation : y # r \/ z # o => op'[y][z] = op[y][z]
BY DEF HostTypes

-----------------------------------------------------------------------------
(* What an operation does to the waiters: nothing to the others.           *)

(* A migration that breaks off tells those who wait for it.                *)
LEMMA BreakKeeps ==
  ASSUME HostInv, NEW r \in Replica, NEW m \in H!Migration,
         migration[r][m] \in {"begun", "locked", "created"}, H!Break(r, m, TRUE),
         UNCHANGED <<tables, ready, boot>>
  PROVE  HostInv'
<1> DEFINE waits(o) == op[r][o].on = m /\ op[r][o].at = "waiting"
<1>1. /\ migration' \in [Replica -> [H!Migration -> Progress]] /\ migration'[r][m] = "failed"
      /\ \A x \in Replica, y \in H!Migration : x # r \/ y # m => migration'[x][y] = migration[x][y]
  BY MigrationStep DEF H!Break, HostInv, Progress
<1>2. /\ op' = [op EXCEPT ![r] = [o \in H!Operation |->
                  IF waits(o) THEN [op[r][o] EXCEPT !.struck = TRUE] ELSE op[r][o]]]
      /\ \A y \in Replica, o \in H!Operation : op[y][o] \in OpRecord
  <2>1. \A o \in H!Operation : [op[r][o] EXCEPT !.struck = @ \/ TRUE] = [op[r][o] EXCEPT !.struck = TRUE]
    OBVIOUS
  <2> QED
    BY <2>1 DEF H!Break, HostInv, HostTypes
<1>3. /\ \A y \in Replica, o \in H!Operation : y # r => op'[y][o] = op[y][o]
      /\ \A o \in H!Operation : op'[r][o] = IF waits(o) THEN [op[r][o] EXCEPT !.struck = TRUE] ELSE op[r][o]
      /\ op' \in [Replica -> [H!Operation -> OpRecord]]
  <2>1. \A o \in H!Operation : [op[r][o] EXCEPT !.struck = TRUE] \in OpRecord
    BY <1>2 DEF OpRecord
  <2> QED
    BY <1>2, <2>1 DEF HostInv, HostTypes
<1>4. \A y \in Replica, o \in H!Operation :
        /\ op'[y][o].at = op[y][o].at /\ op'[y][o].on = op[y][o].on
        /\ op[y][o].struck => op'[y][o].struck
        /\ y = r /\ op[y][o].at = "waiting" /\ op[y][o].on = m => op'[y][o].struck
  <2>1. SUFFICES ASSUME NEW y \in Replica, NEW o \in H!Operation
                 PROVE  /\ op'[y][o].at = op[y][o].at /\ op'[y][o].on = op[y][o].on
                        /\ op[y][o].struck => op'[y][o].struck
                        /\ y = r /\ waits(o) => op'[y][o].struck
    OBVIOUS
  <2>2. PICK x \in OpRecord : x = op[y][o]
    BY <1>2
  <2>3. [x EXCEPT !.struck = TRUE] = [at |-> x.at, on |-> x.on, struck |-> TRUE]
    BY OpFields
  <2>4. op'[y][o] = IF y = r /\ waits(o) THEN [at |-> x.at, on |-> x.on, struck |-> TRUE] ELSE x
    BY <1>3, <2>2, <2>3
  <2> QED
    BY <2>2, <2>4
<1>5. HostTypes'
  BY <1>1, <1>3 DEF HostInv, HostTypes
<1>6. OneAtATime'
  BY LockKept DEF HostInv, H!Break, Progress
<1>7. WaitersTold'
  BY <1>1, <1>4, HostNames DEF HostInv, WaitersTold
<1>8. TablesThere' /\ H!FailsForCause'
  BY <1>1, <1>4 DEF HostInv, TablesThere, H!FailsForCause
<1> QED
  BY <1>5, <1>6, <1>7, <1>8 DEF HostInv

(* Create finds no other migration past its first statement.               *)
LEMMA HostMigrates ==
  ASSUME HostInv, NEW r \in Replica, NEW m \in H!Migration, H!Migrate(r, m) \/ H!Drop(r, m)
  PROVE  HostInv'
<1>1. CASE H!Lock(r, m)
  <2>1. /\ migration'[r][m] = "locked" /\ migration' \in [Replica -> [H!Migration -> Progress]]
        /\ \A x \in Replica, y \in H!Migration : x # r \/ y # m => migration'[x][y] = migration[x][y]
    BY <1>1, MigrationStep DEF H!Lock, HostInv, Progress
  <2>2. HostTypes' /\ TablesThere' /\ H!FailsForCause'
    BY <1>1, <2>1 DEF H!Lock, H!hostVars, HostInv, HostTypes, TablesThere, H!FailsForCause
  <2>3. OneAtATime'
    BY <1>1, LockKept DEF HostInv, H!Lock, Progress
  <2>4. WaitersTold'
    BY <1>1, <2>1, HostNames DEF H!Lock, H!hostVars, HostInv, WaitersTold
  <2> QED
    BY <2>2, <2>3, <2>4 DEF HostInv
<1>2. CASE H!Create(r, m)
  <2>1. ~ \E s \in Replica, n \in H!Migration : migration[s][n] = "created"
    <3>1. SUFFICES ASSUME NEW s \in Replica, NEW n \in H!Migration, migration[s][n] = "created" PROVE FALSE
      OBVIOUS
    <3>2. <<s, n>> \in locks /\ <<r, m>> \in locks
      BY <1>2, <3>1 DEF H!Create, HostInv, OneAtATime
    <3> QED
      BY <1>2, <3>1, <3>2 DEF H!Create, HostInv, OneAtATime
  <2>2. /\ migration' = [migration EXCEPT ![r][m] = "created"]
        /\ UNCHANGED <<locks, op, tables, ready, boot>> /\ migration[r][m] = "locked"
    BY <1>2, <2>1 DEF H!Create, H!hostVars
  <2>3. /\ migration'[r][m] = "created" /\ migration' \in [Replica -> [H!Migration -> Progress]]
        /\ \A x \in Replica, y \in H!Migration : x # r \/ y # m => migration'[x][y] = migration[x][y]
    BY <2>2, MigrationStep DEF HostInv, Progress
  <2>4. HostTypes' /\ TablesThere' /\ H!FailsForCause'
    BY <2>2, <2>3, <1>2 DEF H!Create, H!hostVars, HostInv, HostTypes, TablesThere, H!FailsForCause
  <2>5. OneAtATime'
    BY <2>2, LockKept DEF HostInv, Progress
  <2>6. WaitersTold'
    BY <2>2, <2>3, HostNames DEF HostInv, WaitersTold
  <2> QED
    BY <2>4, <2>5, <2>6 DEF HostInv
<1>3. CASE H!Commit(r, m)
  <2>1. /\ migration'[r][m] = "done" /\ migration' \in [Replica -> [H!Migration -> Progress]]
        /\ \A x \in Replica, y \in H!Migration : x # r \/ y # m => migration'[x][y] = migration[x][y]
    BY <1>3, MigrationStep DEF H!Commit, HostInv, Progress
  <2>2. HostTypes' /\ TablesThere' /\ H!FailsForCause'
    BY <1>3, <2>1 DEF H!Commit, H!hostVars, HostInv, HostTypes, TablesThere, H!FailsForCause
  <2>3. OneAtATime'
    BY <1>3, LockKept DEF HostInv, H!Commit, Progress
  <2>4. WaitersTold'
    BY <1>3, <2>1, HostNames DEF H!Commit, H!hostVars, HostInv, WaitersTold
  <2> QED
    BY <2>2, <2>3, <2>4 DEF HostInv
<1>4. CASE H!Forget(r, m)
  <2>1. /\ migration'[r][m] = "handled" /\ migration' \in [Replica -> [H!Migration -> Progress]]
        /\ \A x \in Replica, y \in H!Migration : x # r \/ y # m => migration'[x][y] = migration[x][y]
    BY <1>4, MigrationStep DEF H!Forget, HostInv, Progress
  <2>2. /\ ready' \in [Replica -> {"null", "done"} \cup H!Lazy]
        /\ ready'[r] = IF ready[r] = m THEN "null" ELSE ready[r]
        /\ \A x \in Replica : x # r => ready'[x] = ready[x]
    BY <1>4 DEF H!Forget, HostInv, HostTypes
  <2>3. HostTypes' /\ TablesThere' /\ H!FailsForCause'
    BY <1>4, <2>1, <2>2 DEF H!Forget, H!hostVars, HostInv, HostTypes, TablesThere, H!FailsForCause
  <2>4. OneAtATime'
    <3>1. locks' = locks \ {<<r, m>>}
      BY <1>4 DEF H!Forget, HostInv, OneAtATime
    <3> QED
      BY <1>4, <3>1, LockKept DEF HostInv, H!Forget, Progress
  <2>5. WaitersTold'
    BY <1>4, <2>1, <2>2, HostNames DEF H!Forget, H!hostVars, HostInv, WaitersTold
  <2> QED
    BY <2>3, <2>4, <2>5 DEF HostInv
<1>5. CASE H!Drop(r, m)
  BY <1>5, BreakKeeps DEF H!Drop, H!hostVars
<1> QED
  BY <1>1, <1>2, <1>3, <1>4, <1>5 DEF H!Migrate

(* What is written of an operation may wait for a migration under way.     *)
LEMMA OpKeeps ==
  ASSUME HostInv, NEW r \in Replica, NEW o \in H!Operation, NEW x \in OpRecord,
         op' = [op EXCEPT ![r][o] = x],
         x.at = "failed" => x.struck, x.at = "running" => tables,
         x.at = "waiting" => /\ x.on \in H!Lazy
                             /\ migration[r][x.on] # "unused"
                             /\ migration[r][x.on] \in {"failed", "handled"} => x.struck,
         UNCHANGED <<tables, locks, migration, ready, boot>>
  PROVE  HostInv'
<1>1. /\ op' \in [Replica -> [H!Operation -> OpRecord]] /\ op'[r][o] = x
      /\ \A y \in Replica, z \in H!Operation : y # r \/ z # o => op'[y][z] = op[y][z]
  BY DEF HostInv, HostTypes
<1> QED
  BY <1>1 DEF HostInv, HostTypes, OneAtATime, WaitersTold, TablesThere, H!FailsForCause

(* An operation waits for the migration under way, or begins one.          *)
LEMMA AskKeeps ==
  ASSUME HostInv, NEW r \in Replica, NEW o \in H!Operation, H!Ask(r, o),
         UNCHANGED <<tables, locks, boot>>
  PROVE  HostInv'
<1>1. CASE ready[r] = "null"
  <2>1. PICK m \in H!Fresh(r) :
          /\ migration' = [migration EXCEPT ![r][m] = "begun"]
          /\ ready' = [ready EXCEPT ![r] = m]
          /\ op' = [op EXCEPT ![r][o] = [at |-> "waiting", on |-> m, struck |-> FALSE]]
    <3>1. PICK m : /\ m = CHOOSE n \in H!Fresh(r) : TRUE
                   /\ H!Fresh(r) # {}
                   /\ migration' = [migration EXCEPT ![r][m] = "begun"]
                   /\ ready' = [ready EXCEPT ![r] = m]
                   /\ op' = [op EXCEPT ![r][o] = [at |-> "waiting", on |-> m, struck |-> FALSE]]
      BY <1>1, HostNames DEF H!Ask
    <3> QED
      BY <3>1
  <2>2. /\ m \in H!Lazy /\ m \in H!Migration
        /\ migration[r][m] \in {"unused", "done", "handled"}
        /\ \A z \in H!Operation : op[r][z].at = "waiting" => op[r][z].on # m
    BY HostNames DEF H!Fresh
  <2>3. /\ migration'[r][m] = "begun" /\ migration' \in [Replica -> [H!Migration -> Progress]]
        /\ \A x \in Replica, y \in H!Migration : x # r \/ y # m => migration'[x][y] = migration[x][y]
    BY <2>1, <2>2, MigrationStep DEF HostInv, Progress
  <2>4. PICK new \in OpRecord : new = [at |-> "waiting", on |-> m, struck |-> FALSE]
    BY <2>2 DEF OpRecord
  <2>5. /\ op' \in [Replica -> [H!Operation -> OpRecord]]
        /\ op'[r][o] = new
        /\ \A y \in Replica, z \in H!Operation : y # r \/ z # o => op'[y][z] = op[y][z]
    BY <2>1, <2>4 DEF HostInv, HostTypes
  <2>6. /\ ready' \in [Replica -> {"null", "done"} \cup H!Lazy] /\ ready'[r] = m
        /\ \A x \in Replica : x # r => ready'[x] = ready[x]
    BY <2>1, <2>2 DEF HostInv, HostTypes
  <2>7. HostTypes'
    BY <2>3, <2>5, <2>6 DEF HostInv, HostTypes
  <2>8. OneAtATime'
    <3>1. locks' = locks \ {<<r, m>>}
      BY <2>2 DEF HostInv, OneAtATime
    <3> QED
      BY <2>1, <2>2, <3>1, LockKept DEF HostInv, Progress
  <2>9. WaitersTold'
    BY <2>2, <2>3, <2>4, <2>5, <2>6, HostNames DEF HostInv, WaitersTold
  <2>10. TablesThere' /\ H!FailsForCause'
    <3>1. new.at = "waiting"
      BY <2>4
    <3>2. TablesThere'
      <4>1. \A x \in Replica : ready'[x] = "done" => tables'
        BY <2>2, <2>6, HostNames DEF HostInv, TablesThere
      <4>2. \A x \in Replica, y \in H!Migration : migration'[x][y] = "done" => tables'
        BY <2>3 DEF HostInv, TablesThere
      <4>3. \A x \in Replica, z \in H!Operation : op'[x][z].at = "running" => tables'
        BY <2>5, <3>1 DEF HostInv, TablesThere
      <4> QED
        BY <4>1, <4>2, <4>3 DEF TablesThere
    <3>3. H!FailsForCause'
      BY <2>5, <3>1 DEF HostInv, H!FailsForCause
    <3> QED
      BY <3>2, <3>3
  <2> QED
    BY <2>7, <2>8, <2>9, <2>10 DEF HostInv
<1>2. CASE ready[r] \in H!Lazy
  <2>1. PICK new \in OpRecord :
          new = [at |-> "waiting", on |-> ready[r], struck |-> migration[r][ready[r]] = "failed"]
    <3>1. PICK s \in BOOLEAN : s = (migration[r][ready[r]] = "failed")
      OBVIOUS
    <3>2. [at |-> "waiting", on |-> ready[r], struck |-> s] \in OpRecord
      BY <1>2 DEF OpRecord
    <3> QED
      BY <3>1, <3>2
  <2>2. op' = [op EXCEPT ![r][o] = new] /\ UNCHANGED <<migration, ready>>
    BY <1>2, <2>1, HostNames DEF H!Ask
  <2>3. migration[r][new.on] \notin {"unused", "handled"}
    BY <1>2, <2>1 DEF HostInv, WaitersTold
  <2>4. new.at = "waiting" /\ new.on \in H!Lazy
        /\ (migration[r][new.on] = "failed" => new.struck)
    BY <1>2, <2>1
  <2> QED
    BY <2>2, <2>3, <2>4, OpKeeps
<1>3. CASE ready[r] = "done"
  <2>1. PICK d \in OpRecord : d = H!Idle
    BY DEF H!Idle, OpRecord
  <2>2. PICK new \in OpRecord : new = [d EXCEPT !.at = "running"] /\ new.at = "running"
    <3>1. PICK new \in OpRecord : new = [at |-> "running", on |-> d.on, struck |-> d.struck]
      BY <2>1, OpFields DEF OpRecord
    <3> QED
      BY <3>1, OpFields
  <2>3. op' = [op EXCEPT ![r][o] = new] /\ UNCHANGED <<migration, ready>>
    BY <1>3, <2>1, <2>2, HostNames DEF H!Ask
  <2>4. tables
    BY <1>3 DEF HostInv, TablesThere
  <2> QED
    BY <2>2, <2>3, <2>4, OpKeeps
<1> QED
  BY <1>1, <1>2, <1>3 DEF HostInv, HostTypes

(* An operation goes on, or ends.                                          *)
LEMMA SettleKeeps ==
  ASSUME HostInv, NEW r \in Replica, NEW o \in H!Operation, H!Settle(r, o)
  PROVE  HostInv'
<1>0. op[r][o] \in OpRecord /\ tables \in BOOLEAN
  BY DEF HostInv, HostTypes
<1>1. CASE H!Continue(r, o)
  <2>1. PICK new \in OpRecord :
          /\ new.struck = op[r][o].struck
          /\ op' = [op EXCEPT ![r][o] = new]
          /\ \/ new.at = "running" /\ migration[r][op[r][o].on] = "done"
             \/ new.at = "failed" /\ migration[r][op[r][o].on] \in {"failed", "handled"}
    <3>1. \A at \in {"running", "failed"} :
            LET x == [at |-> at, on |-> op[r][o].on, struck |-> op[r][o].struck]
            IN /\ x \in OpRecord /\ x.struck = op[r][o].struck /\ x.at = at
               /\ [op EXCEPT ![r][o].at = at] = [op EXCEPT ![r][o] = x]
      BY <1>0, OpFields DEF OpRecord
    <3> QED
      BY <1>1, <3>1 DEF H!Continue
  <2>2. op[r][o].at = "waiting" /\ UNCHANGED <<tables, locks, migration, ready, boot>>
    BY <1>1 DEF H!Continue, H!hostVars
  <2>3. new.at = "failed" => new.struck
    BY <2>1, <2>2 DEF HostInv, WaitersTold
  <2>4. new.at = "running" => tables
    BY <2>1, <2>2, HostNames DEF HostInv, WaitersTold, TablesThere
  <2> QED
    BY <2>1, <2>2, <2>3, <2>4, OpKeeps
<1>2. CASE H!Perform(r, o)
  <2>1. tables
    BY <1>2 DEF H!Perform, HostInv, TablesThere
  <2>2. PICK new \in OpRecord :
          op' = [op EXCEPT ![r][o] = new] /\ (new.at = "ok" \/ (new.at = "failed" /\ new.struck))
    <3>1. PICK x \in OpRecord :
            x.at = "ok" /\ [op EXCEPT ![r][o].at = "ok"] = [op EXCEPT ![r][o] = x]
      <4>1. PICK w \in OpRecord : w = [at |-> "ok", on |-> op[r][o].on, struck |-> op[r][o].struck]
        BY <1>0, OpFields DEF OpRecord
      <4>2. w.at = "ok" /\ w = [op[r][o] EXCEPT !.at = "ok"]
        BY <1>0, <4>1, OpFields
      <4> QED
        BY <4>2
    <3>2. LET w == [at |-> "failed", on |-> op[r][o].on, struck |-> TRUE]
          IN /\ w \in OpRecord /\ w.at = "failed" /\ w.struck
             /\ [op EXCEPT ![r][o] = [@ EXCEPT !.at = "failed", !.struck = TRUE]] =
                  [op EXCEPT ![r][o] = w]
      BY <1>0, OpFields DEF OpRecord
    <3>3. \/ op' = [op EXCEPT ![r][o].at = "ok"]
          \/ op' = [op EXCEPT ![r][o] = [@ EXCEPT !.at = "failed", !.struck = TRUE]]
      BY <1>2, <2>1 DEF H!Perform
    <3>4. CASE op' = [op EXCEPT ![r][o].at = "ok"]
      <4>1. op' = [op EXCEPT ![r][o] = x]
        BY <3>1, <3>4, Zenon
      <4> QED
        BY <3>1, <4>1, Zenon
    <3>5. CASE op' = [op EXCEPT ![r][o] = [@ EXCEPT !.at = "failed", !.struck = TRUE]]
      BY <3>2, <3>5
    <3> QED
      BY <3>3, <3>4, <3>5
  <2>3. UNCHANGED <<tables, locks, migration, ready, boot>>
    BY <1>2 DEF H!Perform, H!hostVars
  <2> QED
    BY <2>2, <2>3, OpKeeps
<1> QED
  BY <1>1, <1>2 DEF H!Settle

(* The hooks of the host.                                                  *)
LEMMA HooksKeep ==
  ASSUME HostInv, NEW r \in Replica,
         H!Bootstrap(r) \/ H!Shutdown(r) \/ H!Probe(r) \/ H!Hook(r)
  PROVE  HostInv'
<1>1. CASE H!Bootstrap(r)
  <2>1. /\ migration'[r]["boot"] = "begun" /\ migration' \in [Replica -> [H!Migration -> Progress]]
        /\ \A x \in Replica, y \in H!Migration : x # r \/ y # "boot" => migration'[x][y] = migration[x][y]
    BY <1>1, HostNames, MigrationStep DEF H!Bootstrap, HostInv, Progress
  <2>2. /\ boot' \in [Replica -> {"none", "migrating", "starting", "up", "failed"}]
        /\ boot'[r] = "migrating" /\ \A x \in Replica : x # r => boot'[x] = boot[x]
    BY <1>1 DEF H!Bootstrap, HostInv, HostTypes
  <2>3. HostTypes' /\ TablesThere' /\ H!FailsForCause'
    BY <1>1, <2>1, <2>2 DEF H!Bootstrap, HostInv, HostTypes, TablesThere, H!FailsForCause
  <2>4. OneAtATime'
    <3>1. migration[r]["boot"] = "unused" /\ locks' = locks
      BY <1>1 DEF H!Bootstrap, HostInv, WaitersTold
    <3>2. locks' = locks \ {<<r, "boot">>}
      BY <3>1 DEF HostInv, OneAtATime
    <3> QED
      BY <1>1, <3>2, HostNames, LockKept DEF H!Bootstrap, HostInv, Progress
  <2>5. WaitersTold'
    BY <1>1, <2>1, <2>2, HostNames DEF H!Bootstrap, HostInv, WaitersTold
  <2> QED
    BY <2>3, <2>4, <2>5 DEF HostInv
<1>2. CASE H!Shutdown(r)
  BY <1>2 DEF H!Shutdown, HostInv, HostTypes, OneAtATime, WaitersTold, TablesThere, H!FailsForCause
<1>3. CASE H!Probe(r)
  BY <1>3, AskKeeps, HostNames DEF H!Probe, H!hostVars
<1>4. CASE H!Load(r)
  BY <1>4, AskKeeps, HostNames DEF H!Load, H!hostVars
<1>5. CASE H!BootstrapFails(r) \/ H!Started(r)
  <2>1. /\ boot' \in [Replica -> {"none", "migrating", "starting", "up", "failed"}]
        /\ boot'[r] # "none" /\ \A x \in Replica : x # r => boot'[x] = boot[x]
        /\ UNCHANGED <<tables, locks, migration, ready, op>>
    BY <1>5 DEF H!BootstrapFails, H!Started, HostInv, HostTypes
  <2> QED
    BY <2>1 DEF HostInv, HostTypes, OneAtATime, WaitersTold, TablesThere, H!FailsForCause
<1>6. CASE H!Start(r)
  <2>1. /\ boot' \in [Replica -> {"none", "migrating", "starting", "up", "failed"}]
        /\ boot'[r] # "none" /\ \A x \in Replica : x # r => boot'[x] = boot[x]
        /\ ready' = [ready EXCEPT ![r] = "done"] /\ UNCHANGED <<tables, locks, migration, op>>
    BY <1>6 DEF H!Start, HostInv, HostTypes
  <2>2. tables
    BY <1>6, HostNames DEF H!Start, HostInv, TablesThere
  <2>3. /\ ready' \in [Replica -> {"null", "done"} \cup H!Lazy] /\ ready'[r] = "done"
        /\ \A x \in Replica : x # r => ready'[x] = ready[x]
    BY <2>1 DEF HostInv, HostTypes
  <2> QED
    BY <2>1, <2>2, <2>3, HostNames
    DEF HostInv, HostTypes, OneAtATime, WaitersTold, TablesThere, H!FailsForCause
<1>7. CASE H!Close(r)
  <2>1. /\ ready' \in [Replica -> {"null", "done"} \cup H!Lazy]
        /\ ready'[r] = ready[r] \/ ready'[r] = "null"
        /\ \A x \in Replica : x # r => ready'[x] = ready[x]
        /\ UNCHANGED <<tables, locks, migration, op, boot>>
    BY <1>7 DEF H!Close, HostInv, HostTypes
  <2> QED
    BY <2>1, HostNames
    DEF HostInv, HostTypes, OneAtATime, WaitersTold, TablesThere, H!FailsForCause
<1> QED
  BY <1>1, <1>2, <1>3, <1>4, <1>5, <1>6, <1>7 DEF H!Hook

(* Every step of the host keeps the invariant.                             *)
LEMMA HostStep ==
  ASSUME HostInv, [H!Next]_(H!vars)
  PROVE  HostInv'
<1>1. CASE H!Next
  BY <1>1, HostMigrates, SettleKeeps, HooksKeep DEF H!Next
<1>2. CASE UNCHANGED H!vars
  BY <1>2 DEF H!vars, HostInv, HostTypes, OneAtATime, WaitersTold, TablesThere, H!FailsForCause
<1> QED
  BY <1>1, <1>2

(* ensureReady and onApplicationBootstrap: for any set of replicas, no     *)
(* operation of a PostgresStore runs before its tables exist, and none     *)
(* fails by a migration it did not wait for.                               *)
THEOREM MigrationsKept == H!Spec => []H!MigrationsSound
<1>1. H!Init => HostInv
  BY HostBegins
<1>2. HostInv /\ [H!Next]_(H!vars) => HostInv'
  BY HostStep
<1>3. HostInv => H!MigrationsSound
  BY DEF HostInv, TablesThere, H!MigrationsSound, H!TablesFirst
<1> QED
  BY <1>1, <1>2, <1>3, PTL DEF H!Spec

-----------------------------------------------------------------------------
(* Redis: what the readers decode. *)

(* Rows with the counts of their attempts (decodeRow).                     *)
Decoded(R, A) == {[row EXCEPT !.attempts = @ + A[row.event]] : row \in R}

(* Sums of attempts, as the writers leave the counters.                  *)
Started(A, new) ==
  [e \in Rd!C!Event |-> IF e \in {row.event : row \in new} THEN 0 ELSE A[e]]

(* A row with no attempts since it was written is decoded as it is.      *)
LEMMA DecodeRow ==
  ASSUME NEW row \in Rd!C!OutboxRow, NEW n \in Nat
  PROVE  /\ [row EXCEPT !.attempts = @ + n] \in Rd!C!OutboxRow
         /\ [row EXCEPT !.attempts = @ + n].event = row.event
         /\ [row EXCEPT !.attempts = @ + n].sequence = row.sequence
         /\ [row EXCEPT !.attempts = @ + n].attempts = row.attempts + n
         /\ n = 0 => [row EXCEPT !.attempts = @ + n] = row
BY DEF Rd!C!OutboxRow

(* Writing rows with the counters started anew, decoded: the rows replace  *)
(* those of the same ids.                                                  *)
LEMMA DecodePut ==
  ASSUME NEW R \in SUBSET Rd!C!OutboxRow, NEW new \in SUBSET Rd!C!OutboxRow,
         NEW A \in [Rd!C!Event -> Nat], \A row \in R \cup new : row.event \in Rd!C!Event
  PROVE  Decoded(Rd!C!Put(R, new), Started(A, new)) = Rd!C!Put(Decoded(R, A), new)
<1> DEFINE B == Started(A, new)
           D(row, F) == [row EXCEPT !.attempts = @ + F[row.event]]
<1>1. \A row \in R \cup new :
        /\ B[row.event] \in Nat /\ A[row.event] \in Nat
        /\ D(row, A).event = row.event
        /\ row \in new => D(row, B) = row
        /\ (\A n \in new : n.event # row.event) => D(row, B) = D(row, A)
  <2> TAKE row \in R \cup new
  <2>1. B[row.event] \in Nat /\ A[row.event] \in Nat
    BY DEF Started
  <2>2. D(row, A).event = row.event
    BY <2>1, DecodeRow
  <2>3. ASSUME row \in new PROVE D(row, B) = row
    <3>1. B[row.event] = 0
      BY <2>3 DEF Started
    <3> QED
      BY <3>1, <2>1, DecodeRow
  <2>4. ASSUME \A n \in new : n.event # row.event PROVE D(row, B) = D(row, A)
    <3>1. B[row.event] = A[row.event]
      BY <2>4 DEF Started
    <3> QED
      BY <3>1
  <2> QED
    BY <2>1, <2>2, <2>3, <2>4
<1>2. Decoded(Rd!C!Put(R, new), B) \subseteq Rd!C!Put(Decoded(R, A), new)
  <2> SUFFICES ASSUME NEW row \in Rd!C!Put(R, new)
               PROVE  D(row, B) \in Rd!C!Put(Decoded(R, A), new)
    BY DEF Decoded
  <2>1. CASE row \in new
    BY <1>1, <2>1 DEF Rd!C!Put
  <2>2. CASE row \in R /\ \A n \in new : n.event # row.event
    BY <1>1, <2>2 DEF Rd!C!Put, Decoded
  <2> QED
    BY <2>1, <2>2 DEF Rd!C!Put
<1>3. Rd!C!Put(Decoded(R, A), new) \subseteq Decoded(Rd!C!Put(R, new), B)
  <2> SUFFICES ASSUME NEW x \in Rd!C!Put(Decoded(R, A), new)
               PROVE  x \in Decoded(Rd!C!Put(R, new), B)
    OBVIOUS
  <2>1. CASE x \in new
    BY <1>1, <2>1 DEF Rd!C!Put, Decoded
  <2>2. CASE x \in Decoded(R, A) /\ \A n \in new : n.event # x.event
    <3>1. PICK row \in R : x = D(row, A)
      BY <2>2 DEF Decoded
    <3>2. x.event = row.event
      BY <1>1, <3>1
    <3>3. x = D(row, B) /\ row \in Rd!C!Put(R, new)
      BY <1>1, <2>2, <3>1, <3>2 DEF Rd!C!Put
    <3> QED
      BY <3>3 DEF Decoded
  <2> QED
    BY <2>1, <2>2 DEF Rd!C!Put
<1> QED
  BY <1>2, <1>3

(* DROP_OUTBOX, decoded: the row is gone, with its counter.                *)
LEMMA DecodeWithout ==
  ASSUME NEW R \in SUBSET Rd!C!OutboxRow, NEW A \in [Rd!C!Event -> Nat],
         \A row \in R : row.event \in Rd!C!Event, NEW event
  PROVE  Decoded(Rd!C!Without(R, event), [A EXCEPT ![event] = 0])
           = Rd!C!Without(Decoded(R, A), event)
<1> DEFINE B == [A EXCEPT ![event] = 0]
           D(row, F) == [row EXCEPT !.attempts = @ + F[row.event]]
<1>1. \A row \in R : /\ A[row.event] \in Nat /\ D(row, A).event = row.event
                     /\ row.event # event => D(row, B) = D(row, A)
  BY DecodeRow
<1>2. Decoded(Rd!C!Without(R, event), B) = {D(row, B) : row \in {r \in R : r.event # event}}
  BY DEF Decoded, Rd!C!Without
<1>3. Rd!C!Without(Decoded(R, A), event) = {x \in {D(row, A) : row \in R} : x.event # event}
  BY DEF Decoded, Rd!C!Without
<1> HIDE DEF B, D
<1> DEFINE X == {D(row, B) : row \in {r \in R : r.event # event}}
           Y == {x \in {D(row, A) : row \in R} : x.event # event}
<1>4. X \subseteq Y
  BY <1>1
<1>5. Y \subseteq X
  BY <1>1
<1> QED
  BY <1>2, <1>3, <1>4, <1>5 DEF B

(* HINCRBY, decoded: one attempt more of that row alone.                   *)
LEMMA DecodeAttempt ==
  ASSUME NEW R \in SUBSET Rd!C!OutboxRow, NEW A \in [Rd!C!Event -> Nat],
         \A row \in R : row.event \in Rd!C!Event, NEW event \in Rd!C!Event
  PROVE  Decoded(R, [A EXCEPT ![event] = @ + 1])
           = {IF row.event = event THEN [row EXCEPT !.attempts = @ + 1] ELSE row
                : row \in Decoded(R, A)}
<1> DEFINE B == [A EXCEPT ![event] = @ + 1]
           D(row, F) == [row EXCEPT !.attempts = @ + F[row.event]]
           T(row) == IF row.event = event THEN [row EXCEPT !.attempts = @ + 1] ELSE row
<1>1. \A row \in R : D(row, B) = T(D(row, A))
  <2> TAKE row \in R
  <2>1. A[row.event] \in Nat /\ B[row.event] = IF row.event = event THEN A[row.event] + 1 ELSE A[row.event]
    OBVIOUS
  <2>2. D(row, A).event = row.event
    BY <2>1, DecodeRow
  <2>3. CASE row.event = event
    <3>1. T(D(row, A)) = [D(row, A) EXCEPT !.attempts = @ + 1]
      BY <2>2, <2>3
    <3>2. [D(row, A) EXCEPT !.attempts = @ + 1] = D(row, B)
      <4>1. PICK n \in Nat : n = A[row.event]
        BY <2>1
      <4>2. PICK s : s = D(row, A)
        OBVIOUS
      <4>4. s = [event |-> row.event, sequence |-> row.sequence, attempts |-> row.attempts + n]
        BY <4>1, <4>2 DEF Rd!C!OutboxRow
      <4>5. [s EXCEPT !.attempts = @ + 1]
              = [event |-> row.event, sequence |-> row.sequence, attempts |-> row.attempts + n + 1]
        BY <4>4
      <4>6. D(row, B)
              = [event |-> row.event, sequence |-> row.sequence, attempts |-> row.attempts + (n + 1)]
        BY <2>1, <2>3, <4>1 DEF Rd!C!OutboxRow
      <4>7. row.attempts + n + 1 = row.attempts + (n + 1)
        BY DEF Rd!C!OutboxRow
      <4>8. [D(row, A) EXCEPT !.attempts = @ + 1] = [s EXCEPT !.attempts = @ + 1]
        BY <4>2
      <4> QED
        BY <4>5, <4>6, <4>7, <4>8
    <3> QED
      BY <3>1, <3>2
  <2>4. CASE row.event # event
    BY <2>1, <2>2, <2>4
  <2> QED
    BY <2>3, <2>4
<1>2. Decoded(R, B) = {D(row, B) : row \in R} /\ Decoded(R, A) = {D(row, A) : row \in R}
  BY DEF Decoded
<1> HIDE DEF B, D, T
<1>3. Decoded(R, B) = {T(row) : row \in Decoded(R, A)}
  BY <1>1, <1>2
<1> QED
  BY <1>3 DEF B, T

(* When the index agrees with the rows, every row is decoded.              *)
LEMMA DecodeAll ==
  Rd!IndexSound => Rd!DecodedOutbox = Decoded(rows, attempts)
<1> SUFFICES ASSUME Rd!IndexSound PROVE Rd!DecodedOutbox = Decoded(rows, attempts)
  OBVIOUS
<1>1. \A row \in rows : \E p \in pendingIds : p.event = row.event
  <2> TAKE row \in rows
  <2>1. [event |-> row.event, score |-> row.sequence] \in pendingIds
    BY DEF Rd!IndexSound
  <2> QED
    BY <2>1
<1>2. {r \in rows : \E p \in pendingIds : p.event = r.event} = rows
  BY <1>1
<1> QED
  BY <1>2 DEF Rd!DecodedOutbox, Decoded

(* The same after a step.                                                  *)
LEMMA DecodeAllNext ==
  Rd!IndexSound' => Rd!DecodedOutbox' = Decoded(rows', attempts')
<1> SUFFICES ASSUME Rd!IndexSound' PROVE Rd!DecodedOutbox' = Decoded(rows', attempts')
  OBVIOUS
<1>1. \A row \in rows' : \E p \in pendingIds' : p.event = row.event
  <2> TAKE row \in rows'
  <2>1. [event |-> row.event, score |-> row.sequence] \in pendingIds'
    BY DEF Rd!IndexSound
  <2> QED
    BY <2>1
<1>2. {r \in rows' : \E p \in pendingIds' : p.event = r.event} = rows'
  BY <1>1
<1> QED
  BY <1>2 DEF Rd!DecodedOutbox, Decoded

-----------------------------------------------------------------------------
(* Redis: the rows, their index and their counters. *)

(* An event and a number of a batch's row.                                 *)
FromBatch(row) ==
  \E b1 \in Batch : \E r \in b1.rows : r.event = row.event /\ r.sequence = row.sequence

(* The lease and its epochs.                                               *)
LeaseOK ==
  /\ meta \in [lease_owner : Owner \cup {NoOwner}, lease_epoch : Nat, live : BOOLEAN,
               epoch_counter : Nat]
  /\ meta.lease_owner # NoOwner => meta.lease_epoch \in 1..meta.epoch_counter
  /\ rdHeld \in [Owner -> Nat]

(* Pending and parked rows, and the counters of attempts.                  *)
RowsOK ==
  /\ rows \subseteq Rd!C!OutboxRow /\ parked \subseteq Rd!C!ParkedRow
  /\ \A row \in rows \cup parked : FromBatch(row)
  /\ attempts \in [Rd!C!Event -> Nat]

(* An event of a batch's row is one the batches are about.               *)
LEMMA BatchEvent ==
  ASSUME NEW row, FromBatch(row)
  PROVE  row.event \in Rd!C!Event
BY DEF FromBatch, Rd!C!Event

(* The sorted set of the rows: ids by number.                              *)
Index(R) == {[event |-> row.event, score |-> row.sequence] : row \in R}

(* ZADD of the rows that HSET writes keeps index and rows alike.           *)
LEMMA IndexPut ==
  ASSUME NEW R, NEW new
  PROVE  Rd!C!Put(Index(R), Index(new)) = Index(Rd!C!Put(R, new))
<1>1. Rd!C!Put(Index(R), Index(new)) \subseteq Index(Rd!C!Put(R, new))
  <2> SUFFICES ASSUME NEW x \in Rd!C!Put(Index(R), Index(new))
               PROVE  x \in Index(Rd!C!Put(R, new))
    OBVIOUS
  <2>1. CASE x \in Index(new)
    BY <2>1 DEF Index, Rd!C!Put
  <2>2. CASE x \in Index(R) /\ \A n \in Index(new) : n.event # x.event
    <3>1. PICK row \in R : x = [event |-> row.event, score |-> row.sequence]
      BY <2>2 DEF Index
    <3>2. ASSUME NEW n \in new PROVE n.event # row.event
      <4>1. [event |-> n.event, score |-> n.sequence] \in Index(new)
        BY DEF Index
      <4> QED
        BY <2>2, <3>1, <4>1
    <3> QED
      BY <3>1, <3>2 DEF Index, Rd!C!Put
  <2> QED
    BY <2>1, <2>2 DEF Rd!C!Put
<1>2. Index(Rd!C!Put(R, new)) \subseteq Rd!C!Put(Index(R), Index(new))
  BY DEF Index, Rd!C!Put
<1> QED
  BY <1>1, <1>2

(* So does ZREM of the row that HDEL removes.                              *)
LEMMA IndexWithout ==
  ASSUME NEW R, NEW event
  PROVE  Rd!C!Without(Index(R), event) = Index(Rd!C!Without(R, event))
<1>1. Rd!C!Without(Index(R), event) \subseteq Index(Rd!C!Without(R, event))
  BY DEF Index, Rd!C!Without
<1>2. Index(Rd!C!Without(R, event)) \subseteq Rd!C!Without(Index(R), event)
  BY DEF Index, Rd!C!Without
<1> QED
  BY <1>1, <1>2

(* The types of the rows, and the index that agrees with them.             *)
RowsSeen == RowsOK /\ Rd!IndexSound

(* The rows of a batch, or of a retry, replace those of the same ids.    *)
LEMMA RowsWritten ==
  ASSUME RowsSeen, NEW new \in SUBSET Rd!C!OutboxRow, \A row \in new : FromBatch(row),
         Rd!WriteRows(new), parked' \subseteq parked, hold' \subseteq hold,
         \A e \in hold' : \E row \in parked' : row.event = e
  PROVE  RowsSeen' /\ Rd!DecodedOutbox' = Rd!C!Put(Rd!DecodedOutbox, new)
<1>1. /\ rows' = Rd!C!Put(rows, new)
      /\ attempts' = Started(attempts, new)
      /\ pendingIds' = Rd!C!Put(pendingIds, Index(new))
  BY DEF Rd!WriteRows, Started, Index
<1>2. /\ rows \in SUBSET Rd!C!OutboxRow /\ attempts \in [Rd!C!Event -> Nat]
      /\ \A row \in rows \cup new : row.event \in Rd!C!Event
  BY BatchEvent DEF RowsSeen, RowsOK
<1>3. RowsOK'
  <2>1. rows' \subseteq Rd!C!OutboxRow /\ rows' \subseteq rows \cup new
    BY <1>1, <1>2 DEF Rd!C!Put
  <2>2. attempts' \in [Rd!C!Event -> Nat]
    BY <1>1, <1>2 DEF Started
  <2>3. \A row \in rows' \cup parked' : FromBatch(row)
    BY <2>1 DEF RowsSeen, RowsOK
  <2> QED
    BY <2>1, <2>2, <2>3 DEF RowsSeen, RowsOK, FromBatch
<1>4. Rd!IndexSound'
  <2>1. pendingIds' = Index(rows')
    BY <1>1, IndexPut DEF RowsSeen, Rd!IndexSound, Index
  <2>2. ASSUME NEW e \in Rd!C!Event, attempts'[e] > 0 PROVE \E row \in rows' : row.event = e
    <3>1. e \notin {row.event : row \in new} /\ attempts[e] > 0
      BY <1>1, <1>2, <2>2 DEF Started
    <3>2. PICK row \in rows : row.event = e
      BY <3>1 DEF RowsSeen, Rd!IndexSound
    <3> QED
      BY <1>1, <3>1, <3>2 DEF Rd!C!Put
  <2> QED
    BY <2>1, <2>2 DEF Rd!IndexSound, Index
<1>5. Rd!DecodedOutbox = Decoded(rows, attempts)
  BY DecodeAll DEF RowsSeen
<1>6. Rd!DecodedOutbox' = Decoded(rows', attempts')
  BY <1>4, DecodeAllNext
<1> QED
  BY <1>1, <1>2, <1>3, <1>4, <1>5, <1>6, DecodePut DEF RowsSeen

(* A row that is acknowledged or parked leaves rows, index and counters.   *)
LEMMA RowsDropped ==
  ASSUME RowsSeen, NEW event, Rd!DropOutbox(event), parked' \subseteq Rd!C!ParkedRow,
         \A row \in parked' : FromBatch(row),
         \A e \in hold' : \E row \in parked' : row.event = e
  PROVE  /\ RowsSeen'
         /\ Rd!DecodedOutbox' = Rd!C!Without(Rd!DecodedOutbox, event)
<1>1. /\ rows' = Rd!C!Without(rows, event)
      /\ attempts' = [attempts EXCEPT ![event] = 0]
      /\ pendingIds' = Rd!C!Without(pendingIds, event)
  BY DEF Rd!DropOutbox
<1>2. /\ rows \in SUBSET Rd!C!OutboxRow /\ attempts \in [Rd!C!Event -> Nat]
      /\ \A row \in rows : row.event \in Rd!C!Event
  BY BatchEvent DEF RowsSeen, RowsOK
<1>3. RowsOK'
  BY <1>1, <1>2 DEF RowsSeen, RowsOK, Rd!C!Without, FromBatch
<1>4. Rd!IndexSound'
  <2>1. pendingIds' = Index(rows')
    BY <1>1, IndexWithout DEF RowsSeen, Rd!IndexSound, Index
  <2>2. ASSUME NEW e \in Rd!C!Event, attempts'[e] > 0 PROVE \E row \in rows' : row.event = e
    <3>1. e # event /\ attempts[e] > 0
      BY <1>1, <1>2, <2>2
    <3>2. PICK row \in rows : row.event = e
      BY <3>1 DEF RowsSeen, Rd!IndexSound
    <3> QED
      BY <1>1, <3>1, <3>2 DEF Rd!C!Without
  <2> QED
    BY <2>1, <2>2 DEF Rd!IndexSound, Index
<1>5. Rd!DecodedOutbox = Decoded(rows, attempts)
  BY DecodeAll DEF RowsSeen
<1>6. Rd!DecodedOutbox' = Decoded(rows', attempts')
  BY <1>4, DecodeAllNext
<1> QED
  BY <1>1, <1>2, <1>3, <1>4, <1>5, <1>6, DecodeWithout DEF RowsSeen

(* A failed attempt touches the counter only.                              *)
LEMMA RowAttempted ==
  ASSUME RowsSeen, NEW event \in Rd!C!Event, \E row \in rows : row.event = event,
         attempts' = [attempts EXCEPT ![event] = @ + 1],
         UNCHANGED <<rows, pendingIds, parked, hold>>
  PROVE  /\ RowsSeen'
         /\ Rd!DecodedOutbox' = {IF row.event = event THEN [row EXCEPT !.attempts = @ + 1] ELSE row
                                   : row \in Rd!DecodedOutbox}
<1>2. /\ rows \in SUBSET Rd!C!OutboxRow /\ attempts \in [Rd!C!Event -> Nat]
      /\ \A row \in rows : row.event \in Rd!C!Event
  BY BatchEvent DEF RowsSeen, RowsOK
<1>3. RowsOK'
  BY <1>2 DEF RowsSeen, RowsOK, FromBatch
<1>4. Rd!IndexSound'
  BY <1>2 DEF RowsSeen, Rd!IndexSound
<1>5. Rd!DecodedOutbox = Decoded(rows, attempts)
  BY DecodeAll DEF RowsSeen
<1>6. Rd!DecodedOutbox' = Decoded(rows', attempts')
  BY <1>4, DecodeAllNext
<1> QED
  BY <1>2, <1>3, <1>4, <1>5, <1>6, DecodeAttempt DEF RowsSeen

(* Rows that stay are decoded as before.                                   *)
LEMMA RowsStay ==
  ASSUME RowsSeen, UNCHANGED <<rows, pendingIds, attempts>>, parked' \subseteq parked,
         \A e \in hold' : \E row \in parked' : row.event = e
  PROVE  RowsSeen' /\ Rd!DecodedOutbox' = Rd!DecodedOutbox
BY DEF RowsSeen, RowsOK, Rd!IndexSound, FromBatch, Rd!DecodedOutbox

-----------------------------------------------------------------------------
(* Redis: what the contract sees. *)

(* The lease, the state and the parked rows as the readers decode them.    *)
LeaseSeen == IF meta.lease_owner = NoOwner
             THEN [owner |-> NoOwner, epoch |-> 0, live |-> FALSE]
             ELSE [owner |-> meta.lease_owner, epoch |-> meta.lease_epoch, live |-> meta.live]

StateSeen == IF state = NoHash THEN [cursor |-> 0, sequence |-> 0, paused |-> FALSE] ELSE state

ParkedSeen == {[row EXCEPT !.holdKey = row.event \in hold] : row \in parked}

(* The mark of a held key is the only field of a parked row that changes.  *)
LEMMA HeldRow ==
  ASSUME NEW row \in Rd!C!ParkedRow, NEW x \in BOOLEAN
  PROVE  /\ [row EXCEPT !.holdKey = x] \in Rd!C!ParkedRow
         /\ [row EXCEPT !.holdKey = x].event = row.event
         /\ [row EXCEPT !.holdKey = x].sequence = row.sequence
         /\ row.holdKey = x => [row EXCEPT !.holdKey = x] = row
BY DEF Rd!C!ParkedRow

(* Removing parked rows with their holds removes those rows as seen.       *)
LEMMA ParkedRemoved ==
  ASSUME parked \subseteq Rd!C!ParkedRow, NEW ids,
         parked' = {row \in parked : row.event \notin ids}, hold' = hold \ ids
  PROVE  ParkedSeen' = {row \in ParkedSeen : row.event \notin ids}
<1> DEFINE D(row) == [row EXCEPT !.holdKey = row.event \in hold]
           E(row) == [row EXCEPT !.holdKey = row.event \in hold']
<1>1. \A row \in parked : D(row).event = row.event
  BY HeldRow
<1>2. \A row \in parked' : E(row) = D(row)
  <2> TAKE row \in parked'
  <2>1. (row.event \in hold') = (row.event \in hold)
    OBVIOUS
  <2> QED
    BY <2>1
<1>3. ParkedSeen = {D(row) : row \in parked} /\ ParkedSeen' = {E(row) : row \in parked'}
  BY DEF ParkedSeen
<1> HIDE DEF D, E
<1>4. ParkedSeen' \subseteq {row \in ParkedSeen : row.event \notin ids}
  BY <1>1, <1>2, <1>3
<1>5. {row \in ParkedSeen : row.event \notin ids} \subseteq ParkedSeen'
  BY <1>1, <1>2, <1>3
<1> QED
  BY <1>4, <1>5

(* Parking a row with its hold adds that row as seen.                      *)
LEMMA ParkedAdded ==
  ASSUME parked \subseteq Rd!C!ParkedRow, NEW new \in Rd!C!ParkedRow, new.holdKey = TRUE,
         parked' = Rd!C!Put(parked, {new}), hold' = hold \cup {new.event}
  PROVE  ParkedSeen' = Rd!C!Put(ParkedSeen, {new})
<1> DEFINE D(row) == [row EXCEPT !.holdKey = row.event \in hold]
           E(row) == [row EXCEPT !.holdKey = row.event \in hold']
<1>1. \A row \in parked : D(row).event = row.event
  BY HeldRow
<1>2. \A row \in parked : row.event # new.event => E(row) = D(row)
  <2> TAKE row \in parked
  <2> HAVE row.event # new.event
  <2>1. (row.event \in hold') = (row.event \in hold)
    OBVIOUS
  <2> QED
    BY <2>1
<1>3. E(new) = new
  <2>1. (new.event \in hold') = TRUE
    OBVIOUS
  <2> QED
    BY <2>1, HeldRow
<1>4. ParkedSeen = {D(row) : row \in parked} /\ ParkedSeen' = {E(row) : row \in parked'}
  BY DEF ParkedSeen
<1> HIDE DEF D, E
<1>5. ParkedSeen' \subseteq Rd!C!Put(ParkedSeen, {new})
  BY <1>1, <1>2, <1>3, <1>4 DEF Rd!C!Put
<1>6. Rd!C!Put(ParkedSeen, {new}) \subseteq ParkedSeen'
  BY <1>1, <1>2, <1>3, <1>4 DEF Rd!C!Put
<1> QED
  BY <1>5, <1>6

-----------------------------------------------------------------------------
(* Redis: calls of several commands. *)

(* A call of several commands: what it has read so far.                    *)
RdConn == [op : {"none", "loadRows", "loadAttempts", "loaded", "retryParked", "pruneLog", "deleteKey"},
           arg : {Null}, ids : SUBSET Rd!C!EventId,
           found : SUBSET (Rd!C!OutboxRow \cup Rd!C!LoggedEvent)]

(* Those who send commands: engines, and clients by hand.                  *)
RdClient == Owner \cup Client

(* One call, by itself.                                                    *)
CallOK(call) ==
  /\ call \in RdConn
  /\ call.op \in {"loadAttempts", "loaded", "retryParked"} =>
       \A row \in call.found : row \in Rd!C!OutboxRow /\ FromBatch(row)
  /\ call.op = "retryParked" => \A row \in call.found : row.attempts = 0

(* A pruneLog under way has read a prefix of the log.                      *)
PruneOK(call) ==
  call.op = "pruneLog" /\ call.found # {} => \E n \in 1..Rd!LastSequence :
    /\ \A l \in call.found : l.sequence < n
    /\ \A l \in log : l.sequence < n => l \in call.found

(* All calls.                                                              *)
CallsOK == /\ rdConn = [c \in RdClient |-> rdConn[c]]
           /\ \A c \in RdClient : CallOK(rdConn[c]) /\ PruneOK(rdConn[c])

(* The state hash, which may be missing, and the log.                      *)
StateOK == /\ state = NoHash \/ state \in Rd!C!PollerState
           /\ log \subseteq Rd!C!LoggedEvent

(* The invariant, by what its parts are about.                             *)
RedisInv == LeaseOK /\ RowsSeen /\ StateOK /\ CallsOK

(* What a retryParked has read of a row is still so if the row is parked.  *)
RetriesFresh ==
  \A c \in RdClient : rdConn[c].op = "retryParked" =>
    \A row \in rdConn[c].found, p \in parked : row.event = p.event => row.sequence = p.sequence

(* With one number for each event: none is pending and parked at the same  *)
(* time, and all are numbered up to the stored sequence.                   *)
Apart ==
  /\ \A row \in rows, p \in parked : row.event # p.event
  /\ \A row \in rows \cup parked : row.sequence <= Rd!LastSequence

(* And what the holder of the lease has loaded is pending.                 *)
Loads ==
  \A c \in Owner : Rd!Fenced(c) =>
    /\ rdConn[c].op = "loadAttempts" => rdConn[c].found \subseteq rows
    /\ rdConn[c].op = "loaded" => rdConn[c].found \subseteq Rd!DecodedOutbox

(* A call under way goes on while the log grows at its end or is pruned. *)
LEMMA CallsGoOn ==
  ASSUME CallsOK, StateOK, UNCHANGED rdConn, Rd!LastSequence' >= Rd!LastSequence,
         Rd!LastSequence' \in Nat, \A l \in log' : l \in log \/ l.sequence > Rd!LastSequence,
         log' \subseteq Rd!C!LoggedEvent
  PROVE  CallsOK'
<1>1. ASSUME NEW call, PruneOK(call) PROVE PruneOK(call)'
  <2> SUFFICES ASSUME call.op = "pruneLog", call.found # {}
               PROVE  \E n \in 1..Rd!LastSequence' :
                        /\ \A l \in call.found : l.sequence < n
                        /\ \A l \in log' : l.sequence < n => l \in call.found
    BY DEF PruneOK
  <2>1. PICK n \in 1..Rd!LastSequence :
          /\ \A l \in call.found : l.sequence < n
          /\ \A l \in log : l.sequence < n => l \in call.found
    BY <1>1 DEF PruneOK
  <2>2. Rd!LastSequence \in Nat
    BY DEF StateOK, Rd!LastSequence, Rd!C!PollerState
  <2>3. \A l \in log' : l.sequence < n => l \in call.found
    BY <2>1, <2>2 DEF Rd!C!LoggedEvent
  <2> QED
    BY <2>1, <2>2, <2>3
<1>2. \A c \in RdClient : PruneOK(rdConn[c])'
  BY <1>1 DEF CallsOK
<1> QED
  BY <1>2 DEF CallsOK, CallOK, FromBatch

(* One call goes on to its next command, or ends.                        *)
LEMMA CallMoves ==
  ASSUME CallsOK, NEW c \in RdClient, NEW call, CallOK(call), PruneOK(call)',
         rdConn' = [rdConn EXCEPT ![c] = call], Rd!LastSequence' = Rd!LastSequence,
         log' \subseteq log
  PROVE  CallsOK'
<1>1. \A d \in RdClient : rdConn'[d] = IF d = c THEN call ELSE rdConn[d]
  BY DEF CallsOK
<1>2. rdConn' = [d \in RdClient |-> rdConn'[d]]
  BY DEF CallsOK
<1>3. ASSUME NEW d \in RdClient PROVE CallOK(rdConn[d])' /\ PruneOK(rdConn[d])'
  <2>1. CASE d = c
    BY <1>1, <2>1 DEF CallOK, PruneOK, FromBatch
  <2>2. CASE d # c
    BY <1>1, <2>2 DEF CallsOK, CallOK, PruneOK, FromBatch
  <2> QED
    BY <2>1, <2>2
<1> QED
  BY <1>2, <1>3 DEF CallsOK

-----------------------------------------------------------------------------
(* Redis: the steps. *)

(* All that a reader of the hashes can see.                                *)
RdSeen == <<LeaseSeen, meta.epoch_counter, StateSeen, items, Rd!DecodedOutbox, ParkedSeen, log,
            validator, rdWriter>>

(* A step of the contract, or none.                                        *)
ContractStep == [Rd!C!Next]_(Rd!C!contractVars)

(* A step that a reader cannot see stutters in the contract.               *)
LEMMA SeenStays ==
  ASSUME UNCHANGED RdSeen
  PROVE  ContractStep
<1>1. UNCHANGED Rd!C!contractVars
  BY DEF Rd!C!contractVars, Rd!C!storeVars, RdSeen, LeaseSeen, StateSeen, ParkedSeen
<1> QED
  BY <1>1 DEF ContractStep

(* Steps of the lease leave the data and the calls alone.                *)
DataStay == UNCHANGED <<state, items, pendingIds, rows, attempts, parked, hold, validator, log,
                       rdConn, rdWriter>>

(* So the invariant of the data stays.                                     *)
LEMMA DataStays ==
  ASSUME RedisInv, DataStay, LeaseOK'
  PROVE  /\ RedisInv'
         /\ UNCHANGED <<StateSeen, items, Rd!DecodedOutbox, ParkedSeen, log, validator, rdWriter>>
<1>1. RowsSeen /\ StateOK /\ CallsOK
  BY DEF RedisInv
<1>2. RowsSeen' /\ Rd!DecodedOutbox' = Rd!DecodedOutbox
  <2>1. \A e \in hold : \E row \in parked : row.event = e
    BY <1>1 DEF RowsSeen, Rd!IndexSound
  <2> QED
    BY <1>1, <2>1, RowsStay DEF DataStay
<1>3. StateOK' /\ CallsOK'
  BY <1>1 DEF DataStay, StateOK, CallsOK, CallOK, PruneOK, Rd!LastSequence, FromBatch
<1> QED
  BY <1>2, <1>3 DEF RedisInv, DataStay, StateSeen, ParkedSeen

(* What the types say of the lease.                                        *)
LEMMA LeaseFacts ==
  ASSUME RedisInv, Rd!RedisParameters
  PROVE  /\ meta.epoch_counter \in Nat /\ meta.lease_epoch \in Nat /\ meta.live \in BOOLEAN
         /\ meta.lease_owner \in Owner \cup {NoOwner} /\ NoOwner \notin Owner
         /\ meta.lease_owner # NoOwner => meta.lease_epoch \in 1..meta.epoch_counter
         /\ rdHeld \in [Owner -> Nat]
         /\ meta = [lease_owner |-> meta.lease_owner, lease_epoch |-> meta.lease_epoch,
                    live |-> meta.live, epoch_counter |-> meta.epoch_counter]
BY DEF RedisInv, LeaseOK, Rd!RedisParameters

(* ACQUIRE_LEASE is the contract's acquireLease.                           *)
LEMMA AcquireStep ==
  ASSUME RedisInv, Rd!RedisParameters, NEW c \in Owner, Rd!AcquireLease(c)
  PROVE  RedisInv' /\ ContractStep
<1>1. /\ meta.lease_owner \in {NoOwner, c} \/ ~meta.live
      /\ meta' = [lease_owner |-> c, lease_epoch |-> meta.epoch_counter + 1, live |-> TRUE,
                  epoch_counter |-> meta.epoch_counter + 1]
      /\ rdHeld' \in {[rdHeld EXCEPT ![c] = meta.epoch_counter + 1], rdHeld}
      /\ DataStay
  BY DEF Rd!AcquireLease, DataStay
<1>2. LeaseOK'
  BY <1>1, LeaseFacts DEF LeaseOK
<1>3. Rd!C!Acquire(c)
  <2>1. ~(LeaseSeen.live /\ LeaseSeen.owner # c)
    BY <1>1, LeaseFacts DEF LeaseSeen
  <2>2. LeaseSeen' = [owner |-> c, epoch |-> meta.epoch_counter + 1, live |-> TRUE]
    BY <1>1, LeaseFacts DEF LeaseSeen
  <2> QED
    BY <1>1, <1>2, <2>1, <2>2, DataStays
       DEF Rd!C!Acquire, Rd!C!AcquireLease, LeaseSeen, StateSeen, ParkedSeen
<1> QED
  BY <1>1, <1>2, <1>3, DataStays DEF ContractStep, Rd!C!Next

(* RENEW_LEASE is the contract's renewLease; a refusal is seen by nobody.  *)
LEMMA RenewStep ==
  ASSUME RedisInv, Rd!RedisParameters, NEW c \in Owner, Rd!RenewLease(c)
  PROVE  RedisInv' /\ ContractStep
<1>1. /\ meta.lease_owner = c /\ DataStay /\ UNCHANGED rdHeld
      /\ meta' = [lease_owner |-> c, lease_epoch |-> meta.lease_epoch, live |-> TRUE,
                  epoch_counter |-> meta.epoch_counter]
  BY LeaseFacts DEF Rd!RenewLease, Rd!Fenced, Rd!dataVars, Rd!callVars, DataStay
<1>2. LeaseOK'
  BY <1>1, LeaseFacts DEF LeaseOK
<1>3. Rd!C!Renew(c, meta.lease_epoch)
  <2>1. LeaseSeen = [owner |-> c, epoch |-> meta.lease_epoch, live |-> meta.live]
    BY <1>1, LeaseFacts DEF LeaseSeen
  <2>2. LeaseSeen' = [owner |-> c, epoch |-> meta.lease_epoch, live |-> TRUE]
    BY <1>1, LeaseFacts DEF LeaseSeen
  <2>3. LeaseSeen.owner = c /\ LeaseSeen.epoch = meta.lease_epoch
        /\ LeaseSeen' = [LeaseSeen EXCEPT !.live = TRUE]
    <3>1. PICK s : s = LeaseSeen
      OBVIOUS
    <3>2. \A v : [s EXCEPT !.live = v] = [owner |-> c, epoch |-> meta.lease_epoch, live |-> v]
      BY <2>1, <3>1
    <3>3. [LeaseSeen EXCEPT !.live = TRUE] = [s EXCEPT !.live = TRUE]
      BY <3>1
    <3> QED
      BY <2>1, <2>2, <3>2, <3>3
  <2> QED
    BY <1>1, <1>2, <2>3, DataStays
       DEF Rd!C!Renew, Rd!C!RenewLease, Rd!C!Fence, LeaseSeen, StateSeen, ParkedSeen
<1>4. meta.lease_epoch \in 1..meta.epoch_counter
  BY <1>1, LeaseFacts
<1> QED
  BY <1>1, <1>2, <1>3, <1>4, DataStays DEF ContractStep, Rd!C!Next

(* RELEASE_LEASE is the contract's releaseLease.                           *)
LEMMA ReleaseStep ==
  ASSUME RedisInv, Rd!RedisParameters, NEW c \in Owner,
         Rd!ReleaseLease(c) \/ Rd!RenewRefused(c) \/ Rd!LeaseLost(c)
  PROVE  RedisInv' /\ ContractStep
<1>1. DataStay /\ rdHeld' = [rdHeld EXCEPT ![c] = 0]
  BY DEF Rd!ReleaseLease, Rd!RenewRefused, Rd!LeaseLost, Rd!dataVars, DataStay
<1>2. CASE meta' = meta
  <2>1. LeaseOK'
    BY <1>1, <1>2, LeaseFacts DEF LeaseOK
  <2> QED
    BY <1>1, <1>2, <2>1, DataStays, SeenStays DEF RdSeen, LeaseSeen
<1>3. CASE /\ meta' = [meta EXCEPT !.lease_owner = NoOwner, !.lease_epoch = 0, !.live = FALSE]
           /\ meta.lease_owner = c
  <2>1. meta' = [lease_owner |-> NoOwner, lease_epoch |-> 0, live |-> FALSE,
                 epoch_counter |-> meta.epoch_counter]
    BY <1>3, LeaseFacts
  <2>2. LeaseOK'
    BY <1>1, <2>1, LeaseFacts DEF LeaseOK
  <2>3. Rd!C!Release(c, meta.lease_epoch)
    <3>1. LeaseSeen.owner = c /\ LeaseSeen.epoch = meta.lease_epoch
      BY <1>3, LeaseFacts DEF LeaseSeen
    <3>2. LeaseSeen' = [owner |-> NoOwner, epoch |-> 0, live |-> FALSE]
      BY <2>1 DEF LeaseSeen
    <3> QED
      BY <1>1, <2>1, <2>2, <3>1, <3>2, DataStays
         DEF Rd!C!Release, Rd!C!ReleaseLease, Rd!C!Fence, Rd!C!NoLease, LeaseSeen, StateSeen,
             ParkedSeen
  <2>4. meta.lease_epoch \in 1..meta.epoch_counter
    BY <1>3, LeaseFacts
  <2> QED
    BY <1>1, <2>2, <2>3, <2>4, DataStays DEF ContractStep, Rd!C!Next
<1> QED
  BY <1>2, <1>3 DEF Rd!ReleaseLease, Rd!RenewRefused, Rd!LeaseLost, Rd!Fenced

(* A lease that runs out is one that runs out in the contract.             *)
LEMMA ExpireStep ==
  ASSUME RedisInv, Rd!RedisParameters, Rd!Expire
  PROVE  RedisInv' /\ ContractStep
<1>1. /\ DataStay /\ UNCHANGED rdHeld /\ meta.live
      /\ meta' = [lease_owner |-> meta.lease_owner, lease_epoch |-> meta.lease_epoch,
                  live |-> FALSE, epoch_counter |-> meta.epoch_counter]
  BY LeaseFacts DEF Rd!Expire, Rd!dataVars, Rd!callVars, DataStay
<1>2. LeaseOK'
  BY <1>1, LeaseFacts DEF LeaseOK
<1>3. CASE meta.lease_owner = NoOwner
  BY <1>1, <1>2, <1>3, DataStays, SeenStays DEF RdSeen, LeaseSeen
<1>4. CASE meta.lease_owner # NoOwner
  <2>1. LeaseSeen = [owner |-> meta.lease_owner, epoch |-> meta.lease_epoch, live |-> TRUE]
    BY <1>1, <1>4, LeaseFacts DEF LeaseSeen
  <2>2. LeaseSeen' = [owner |-> meta.lease_owner, epoch |-> meta.lease_epoch, live |-> FALSE]
    BY <1>1, <1>4, LeaseFacts DEF LeaseSeen
  <2>3. LeaseSeen.live /\ LeaseSeen' = [LeaseSeen EXCEPT !.live = FALSE]
    <3>1. PICK s : s = LeaseSeen
      OBVIOUS
    <3>2. \A v : [s EXCEPT !.live = v] = [owner |-> meta.lease_owner, epoch |-> meta.lease_epoch, live |-> v]
      BY <2>1, <3>1
    <3>3. [LeaseSeen EXCEPT !.live = FALSE] = [s EXCEPT !.live = FALSE]
      BY <3>1
    <3> QED
      BY <2>1, <2>2, <3>2, <3>3
  <2>4. Rd!C!Expire
    BY <1>1, <1>2, <2>3, DataStays DEF Rd!C!Expire, LeaseSeen, StateSeen, ParkedSeen
  <2> QED
    BY <1>1, <1>2, <2>4, DataStays DEF ContractStep, Rd!C!Next
<1> QED
  BY <1>3, <1>4

(* Reading changes nothing that the contract sees.                       *)
LEMMA ReadingStep ==
  ASSUME RedisInv, NEW c \in RdClient, NEW call, CallOK(call), PruneOK(call),
         rdConn' = [rdConn EXCEPT ![c] = call], UNCHANGED <<meta, Rd!dataVars, rdHeld, rdWriter>>
  PROVE  RedisInv' /\ ContractStep
<1>1. LeaseOK /\ RowsSeen /\ StateOK /\ CallsOK
  BY DEF RedisInv
<1>2. RowsSeen' /\ Rd!DecodedOutbox' = Rd!DecodedOutbox
  <2>1. \A e \in hold : \E row \in parked : row.event = e
    BY <1>1 DEF RowsSeen, Rd!IndexSound
  <2> QED
    BY <1>1, <2>1, RowsStay DEF Rd!dataVars
<1>3. LeaseOK' /\ StateOK'
  BY <1>1 DEF LeaseOK, StateOK, Rd!dataVars
<1>4. CallsOK'
  BY <1>1, CallMoves DEF Rd!dataVars, PruneOK, Rd!LastSequence
<1> QED
  BY <1>2, <1>3, <1>4, SeenStays DEF RedisInv, RdSeen, LeaseSeen, StateSeen, ParkedSeen, Rd!dataVars

(* The commands that only read, and a call that is given up.               *)
RdReads(c) ==
  \/ c \in Owner /\ (Rd!LoadIds(c) \/ Rd!LoadRows(c) \/ Rd!LoadAttempts(c) \/ Rd!Return(c))
  \/ c \in Client /\ \/ \E ids \in SUBSET {row.event : row \in parked} : Rd!RetryRead(c, ids)
                     \/ \E n \in 1..Rd!LastSequence : Rd!PruneRead(c, n)
  \/ Rd!Abandon(c)

(* What the invariant says of the rows and of what is decoded.             *)
LEMMA RowFacts ==
  ASSUME RedisInv
  PROVE  /\ rows \in SUBSET Rd!C!OutboxRow /\ parked \in SUBSET Rd!C!ParkedRow
         /\ attempts \in [Rd!C!Event -> Nat]
         /\ \A row \in rows \cup parked : FromBatch(row) /\ row.event \in Rd!C!Event
         /\ Rd!DecodedOutbox = Decoded(rows, attempts)
         /\ Rd!DecodedOutbox \subseteq Rd!C!OutboxRow
         /\ \A row \in Rd!DecodedOutbox : \E r \in rows :
              r.event = row.event /\ r.sequence = row.sequence
<1>1. RowsSeen
  BY DEF RedisInv
<1>2. /\ rows \in SUBSET Rd!C!OutboxRow /\ parked \in SUBSET Rd!C!ParkedRow
      /\ attempts \in [Rd!C!Event -> Nat]
      /\ \A row \in rows \cup parked : FromBatch(row) /\ row.event \in Rd!C!Event
  BY <1>1, BatchEvent DEF RowsSeen, RowsOK
<1>3. Rd!DecodedOutbox = Decoded(rows, attempts)
  BY <1>1, DecodeAll DEF RowsSeen
<1>4. ASSUME NEW row \in Decoded(rows, attempts)
      PROVE  row \in Rd!C!OutboxRow /\ \E r \in rows : r.event = row.event /\ r.sequence = row.sequence
  <2>1. PICK r \in rows : row = [r EXCEPT !.attempts = @ + attempts[r.event]]
    BY <1>4 DEF Decoded
  <2>2. r \in Rd!C!OutboxRow /\ attempts[r.event] \in Nat
    BY <1>2
  <2> QED
    BY <2>1, <2>2, DecodeRow
<1> QED
  BY <1>2, <1>3, <1>4

(* A command that reads changes nothing that another reader can see.       *)
LEMMA ReadsStep ==
  ASSUME RedisInv, NEW c \in RdClient, RdReads(c)
  PROVE  RedisInv' /\ ContractStep
<1>1. CallsOK /\ StateOK /\ CallOK(rdConn[c])
  BY DEF RedisInv, CallsOK
<1>2. CASE Rd!LoadIds(c)
  <2>1. PICK ids \in SUBSET {p.event : p \in pendingIds} : Rd!Reading(c, "loadRows", Null, ids, {})
    BY <1>2 DEF Rd!LoadIds
  <2>2. \A p \in pendingIds : \E row \in rows : p.event = row.event
    BY DEF RedisInv, RowsSeen, Rd!IndexSound
  <2>3. ids \subseteq Rd!C!EventId
    BY <2>1, <2>2, RowFacts DEF Rd!C!OutboxRow
  <2>4. PICK call : call = [op |-> "loadRows", arg |-> Null, ids |-> ids, found |-> {}]
    OBVIOUS
  <2>5. CallOK(call) /\ PruneOK(call)
    BY <2>3, <2>4 DEF CallOK, PruneOK, RdConn
  <2> QED
    BY <2>1, <2>4, <2>5, ReadingStep DEF Rd!Reading
<1>3. CASE Rd!LoadRows(c)
  <2>1. PICK call : call = [op |-> "loadAttempts", arg |-> Null, ids |-> rdConn[c].ids,
                            found |-> {row \in rows : row.event \in rdConn[c].ids}]
    OBVIOUS
  <2>2. /\ \A row \in call.found : row \in Rd!C!OutboxRow /\ FromBatch(row)
        /\ rdConn[c].ids \in SUBSET Rd!C!EventId
    BY <1>1, <2>1, RowFacts DEF CallOK, RdConn
  <2>3. CallOK(call) /\ PruneOK(call)
    BY <2>1, <2>2 DEF CallOK, PruneOK, RdConn
  <2> QED
    BY <1>3, <2>1, <2>3, ReadingStep DEF Rd!LoadRows, Rd!Reading
<1>4. CASE Rd!LoadAttempts(c)
  <2>1. PICK call : call = [op |-> "loaded", arg |-> Null, ids |-> {},
             found |-> {[row EXCEPT !.attempts = @ + attempts[row.event]] : row \in rdConn[c].found}]
    OBVIOUS
  <2>2. \A row \in rdConn[c].found : row \in Rd!C!OutboxRow /\ FromBatch(row)
    BY <1>1, <1>4 DEF CallOK, Rd!LoadAttempts
  <2>3. ASSUME NEW row \in rdConn[c].found
        PROVE  LET r == [row EXCEPT !.attempts = @ + attempts[row.event]]
               IN  r \in Rd!C!OutboxRow /\ FromBatch(r)
    <3>1. PICK n \in Nat : n = attempts[row.event]
      BY <2>2, BatchEvent, RowFacts
    <3> QED
      BY <2>2, <3>1, DecodeRow DEF FromBatch
  <2>4. \A r \in call.found : r \in Rd!C!OutboxRow /\ FromBatch(r)
    BY <2>1, <2>3
  <2>5. CallOK(call) /\ PruneOK(call)
    BY <2>1, <2>4 DEF CallOK, PruneOK, RdConn
  <2> QED
    BY <1>4, <2>1, <2>5, ReadingStep DEF Rd!LoadAttempts, Rd!Reading
<1>5. CASE Rd!Return(c) \/ Rd!Abandon(c)
  <2>1. PICK call : call = [op |-> "none", arg |-> Null, ids |-> {}, found |-> {}]
    OBVIOUS
  <2>2. CallOK(call) /\ PruneOK(call)
    BY <2>1 DEF CallOK, PruneOK, RdConn
  <2> QED
    BY <1>5, <2>1, <2>2, ReadingStep DEF Rd!Return, Rd!Reading, Rd!Abandon, Rd!Idle
<1>6. ASSUME NEW ids, Rd!RetryRead(c, ids)
      PROVE  RedisInv' /\ ContractStep
  <2>1. PICK call : call = [op |-> "retryParked", arg |-> Null, ids |-> {},
                            found |-> Rd!C!FreshRows({row \in parked : row.event \in ids})]
    OBVIOUS
  <2>2. ASSUME NEW row \in call.found
        PROVE  row \in Rd!C!OutboxRow /\ row.attempts = 0 /\ FromBatch(row)
    <3>1. PICK p \in parked : row = [event |-> p.event, sequence |-> p.sequence, attempts |-> 0]
      BY <2>1 DEF Rd!C!FreshRows
    <3>2. p \in Rd!C!ParkedRow /\ FromBatch(p)
      BY RowFacts
    <3> QED
      BY <3>1, <3>2 DEF Rd!C!ParkedRow, Rd!C!OutboxRow, FromBatch
  <2>3. CallOK(call) /\ PruneOK(call)
    BY <2>1, <2>2 DEF CallOK, PruneOK, RdConn
  <2> QED
    BY <1>6, <2>1, <2>3, ReadingStep DEF Rd!RetryRead, Rd!Reading
<1>7. ASSUME NEW n \in 1..Rd!LastSequence, Rd!PruneRead(c, n)
      PROVE  RedisInv' /\ ContractStep
  <2>1. PICK call : call = [op |-> "pruneLog", arg |-> Null, ids |-> {},
                            found |-> {l \in log : l.sequence < n}]
    OBVIOUS
  <2>2. CallOK(call) /\ PruneOK(call)
    BY <1>1, <2>1 DEF CallOK, PruneOK, RdConn, StateOK
  <2> QED
    BY <1>7, <2>1, <2>2, ReadingStep DEF Rd!PruneRead, Rd!Reading
<1> QED
  BY <1>2, <1>3, <1>4, <1>5, <1>6, <1>7 DEF RdReads

(* What a fenced script finds and leaves of the lease.                   *)
LEMMA ScriptFacts ==
  ASSUME RedisInv, Rd!RedisParameters, NEW c \in Owner, Rd!Script(c)
  PROVE  /\ UNCHANGED <<meta, rdConn, rdHeld>> /\ LeaseOK'
         /\ Rd!C!Fenced(c, rdHeld[c]) /\ rdHeld[c] \in 1..meta.epoch_counter
<1>1. /\ UNCHANGED <<meta, rdConn, rdHeld>> /\ rdHeld[c] > 0
      /\ meta.lease_owner = c /\ meta.lease_epoch = rdHeld[c]
      /\ rdWriter' = [owner |-> c, epoch |-> rdHeld[c]]
  BY DEF Rd!Script, Rd!Fenced
<1>2. LeaseSeen.owner = c /\ LeaseSeen.epoch = rdHeld[c] /\ UNCHANGED LeaseSeen
  BY <1>1, LeaseFacts DEF LeaseSeen
<1>3. LeaseOK'
  BY <1>1 DEF RedisInv, LeaseOK
<1>4. Rd!C!Fenced(c, rdHeld[c])
  BY <1>1, <1>2 DEF Rd!C!Fenced, Rd!C!Fence, LeaseSeen
<1> QED
  BY <1>1, <1>3, <1>4, LeaseFacts

(* A patched state is a state; its sequence is that of the patch, if any.  *)
LEMMA PatchedTypes ==
  ASSUME NEW s \in Rd!C!PollerState, NEW patch,
         \/ patch \in Rd!C!Patch
         \/ \E x, y \in Nat : patch = [cursor |-> x, sequence |-> y]
  PROVE  /\ Rd!C!Patched(s, patch) \in Rd!C!PollerState
         /\ patch \in Rd!C!Patch => Rd!C!Patched(s, patch).sequence = s.sequence
         /\ patch \notin Rd!C!Patch => Rd!C!Patched(s, patch).sequence = patch.sequence
<1>1. DOMAIN s = {"cursor", "sequence", "paused"}
  BY DEF Rd!C!PollerState
<1>2. PICK t : t = [f \in {"cursor", "sequence", "paused"} |->
                     IF f \in DOMAIN patch THEN patch[f] ELSE s[f]]
  OBVIOUS
<1>3. Rd!C!Patched(s, patch) = t
  BY <1>1, <1>2 DEF Rd!C!Patched
<1>4. t = [cursor |-> t["cursor"], sequence |-> t["sequence"], paused |-> t["paused"]]
  BY <1>2
<1>5. s["cursor"] \in Nat /\ s["sequence"] \in Nat /\ s["paused"] \in BOOLEAN
  BY DEF Rd!C!PollerState
<1>6. CASE \E x \in BOOLEAN : patch = [paused |-> x]
  <2>1. DOMAIN patch = {"paused"} /\ patch["paused"] \in BOOLEAN
    BY <1>6
  <2>2. t["cursor"] = s["cursor"] /\ t["sequence"] = s["sequence"] /\ t["paused"] = patch["paused"]
    BY <1>2, <2>1
  <2>3. patch \in Rd!C!Patch
    BY <1>6 DEF Rd!C!Patch
  <2> QED
    BY <1>3, <1>4, <1>5, <2>1, <2>2, <2>3 DEF Rd!C!PollerState
<1>7. CASE patch = [cursor |-> 0]
  <2>1. DOMAIN patch = {"cursor"} /\ patch["cursor"] = 0
    BY <1>7
  <2>2. t["cursor"] = 0 /\ t["sequence"] = s["sequence"] /\ t["paused"] = s["paused"]
    BY <1>2, <2>1
  <2>3. patch \in Rd!C!Patch
    BY <1>7 DEF Rd!C!Patch
  <2> QED
    BY <1>3, <1>4, <1>5, <2>1, <2>2, <2>3 DEF Rd!C!PollerState
<1>8. CASE \E x, y \in Nat : patch = [cursor |-> x, sequence |-> y]
  <2>1. DOMAIN patch = {"cursor", "sequence"} /\ patch["cursor"] \in Nat /\ patch["sequence"] \in Nat
    BY <1>8
  <2>2. t["cursor"] = patch["cursor"] /\ t["sequence"] = patch["sequence"] /\ t["paused"] = s["paused"]
    BY <1>2, <2>1
  <2>3. patch \notin Rd!C!Patch
    BY <2>1 DEF Rd!C!Patch
  <2> QED
    BY <1>3, <1>4, <1>5, <2>1, <2>2, <2>3 DEF Rd!C!PollerState
<1> QED
  BY <1>6, <1>7, <1>8 DEF Rd!C!Patch

(* APPLY_STATE writes the patch into the state the readers see.            *)
LEMMA Applied ==
  ASSUME StateOK, Rd!RedisParameters, NEW patch,
         \/ patch \in Rd!C!Patch
         \/ \E x, y \in Nat : patch = [cursor |-> x, sequence |-> y],
         Rd!ApplyState(patch)
  PROVE  /\ StateSeen' = Rd!C!Patched(StateSeen, patch)
         /\ state' \in Rd!C!PollerState
         /\ Rd!LastSequence \in Nat /\ Rd!LastSequence' \in Nat
         /\ patch \in Rd!C!Patch => Rd!LastSequence' = Rd!LastSequence
         /\ patch \notin Rd!C!Patch => Rd!LastSequence' = patch.sequence
<1>1. state' = Rd!C!Patched(StateSeen, patch)
  BY DEF Rd!ApplyState, Rd!C!InitialState, StateSeen
<1>2. StateSeen \in Rd!C!PollerState /\ Rd!LastSequence = StateSeen.sequence
  BY DEF StateOK, StateSeen, Rd!C!PollerState, Rd!LastSequence
<1>3. state' \in Rd!C!PollerState /\ state' # NoHash
  BY <1>1, <1>2, PatchedTypes DEF Rd!RedisParameters
<1>4. StateSeen' = state' /\ Rd!LastSequence' = state'.sequence
  BY <1>3 DEF StateSeen, Rd!LastSequence
<1>5. Rd!LastSequence \in Nat /\ Rd!LastSequence' \in Nat
  BY <1>2, <1>3, <1>4 DEF Rd!C!PollerState
<1> QED
  BY <1>1, <1>2, <1>3, <1>4, <1>5, PatchedTypes

(* RowsSeen, log and calls when only the state, the snapshot or the validator *)
(* is written.                                                            *)
LEMMA RowsUntouched ==
  ASSUME RedisInv, UNCHANGED <<rows, pendingIds, attempts, parked, hold>>
  PROVE  RowsSeen' /\ UNCHANGED <<Rd!DecodedOutbox, ParkedSeen>>
<1>1. RowsSeen
  BY DEF RedisInv
<1>2. \A e \in hold' : \E row \in parked' : row.event = e
  BY <1>1 DEF RowsSeen, Rd!IndexSound
<1> QED
  BY <1>1, <1>2, RowsStay DEF ParkedSeen

(* The step that patches the state, as the contract takes it.              *)
LEMMA StatePatched ==
  ASSUME RedisInv, Rd!RedisParameters, NEW patch \in Rd!C!Patch, Rd!ApplyState(patch),
         UNCHANGED <<rows, pendingIds, attempts, parked, hold, log, rdConn>>
  PROVE  /\ RowsSeen' /\ StateOK' /\ CallsOK'
         /\ StateSeen' = Rd!C!Patched(StateSeen, patch)
         /\ UNCHANGED <<Rd!DecodedOutbox, ParkedSeen>>
<1>1. StateOK /\ CallsOK
  BY DEF RedisInv
<1>2. /\ StateSeen' = Rd!C!Patched(StateSeen, patch) /\ state' \in Rd!C!PollerState
      /\ Rd!LastSequence \in Nat /\ Rd!LastSequence' = Rd!LastSequence
  BY <1>1, Applied
<1>3. StateOK' /\ CallsOK'
  BY <1>1, <1>2, CallsGoOn DEF StateOK
<1> QED
  BY <1>2, <1>3, RowsUntouched

(* SAVE_STATE is the contract's saveState.                                 *)
LEMMA SaveStateStep ==
  ASSUME RedisInv, Rd!RedisParameters, NEW c \in Owner, NEW patch \in Rd!C!Patch,
         Rd!SaveState(c, patch)
  PROVE  RedisInv' /\ ContractStep
<1>1. Rd!Script(c) /\ Rd!ApplyState(patch)
      /\ UNCHANGED <<items, pendingIds, rows, attempts, parked, hold, validator, log>>
  BY DEF Rd!SaveState
<1>2. /\ UNCHANGED <<meta, rdConn, rdHeld>> /\ LeaseOK'
      /\ Rd!C!Fenced(c, rdHeld[c]) /\ rdHeld[c] \in 1..meta.epoch_counter
  BY <1>1, ScriptFacts
<1>3. /\ RowsSeen' /\ StateOK' /\ CallsOK' /\ StateSeen' = Rd!C!Patched(StateSeen, patch)
      /\ UNCHANGED <<Rd!DecodedOutbox, ParkedSeen>>
  BY <1>1, <1>2, StatePatched
<1>4. Rd!C!SaveState(c, rdHeld[c], patch)
  BY <1>1, <1>2, <1>3 DEF Rd!C!SaveState, StateSeen, ParkedSeen
<1> QED
  BY <1>2, <1>3, <1>4 DEF RedisInv, ContractStep, Rd!C!Next

(* So is the save without a fence.                                         *)
LEMMA SaveUnfencedStep ==
  ASSUME RedisInv, Rd!RedisParameters, NEW c, NEW patch \in Rd!C!Patch,
         Rd!SaveStateUnfenced(c, patch)
  PROVE  RedisInv' /\ ContractStep
<1>1. Rd!ApplyState(patch)
      /\ UNCHANGED <<meta, items, pendingIds, rows, attempts, parked, hold, validator, log, rdConn,
                     rdHeld, rdWriter>>
  BY DEF Rd!SaveStateUnfenced
<1>2. LeaseOK' /\ UNCHANGED LeaseSeen
  BY <1>1 DEF RedisInv, LeaseOK, LeaseSeen
<1>3. /\ RowsSeen' /\ StateOK' /\ CallsOK' /\ StateSeen' = Rd!C!Patched(StateSeen, patch)
      /\ UNCHANGED <<Rd!DecodedOutbox, ParkedSeen>>
  BY <1>1, StatePatched
<1>4. Rd!C!SaveStateUnfenced(patch)
  BY <1>1, <1>2, <1>3 DEF Rd!C!SaveStateUnfenced, Rd!C!Unfenced, StateSeen, ParkedSeen, LeaseSeen
<1> QED
  BY <1>2, <1>3, <1>4 DEF RedisInv, ContractStep, Rd!C!Next

(* COMMIT_POLL is the contract's commitPoll: items, rows, log and state at *)
(* once.                                                                   *)
LEMMA CommitStep ==
  ASSUME RedisInv, Rd!RedisParameters, NEW c \in Owner, Rd!CallCommitPoll(c)
  PROVE  RedisInv' /\ ContractStep
<1> SUFFICES ASSUME NEW new \in Batch, new.sequence > Rd!LastSequence,
                    \A row \in new.rows : row.sequence \in Rd!LastSequence + 1 .. new.sequence,
                    Rd!CommitPoll(c, new)
             PROVE  RedisInv' /\ ContractStep
  BY DEF Rd!CallCommitPoll
<1>2. PICK patch : patch = [cursor |-> new.cursor, sequence |-> new.sequence]
  OBVIOUS
<1>3. /\ Rd!Script(c) /\ Rd!ApplyState(patch)
      /\ items' = Rd!C!ItemsAfter(items, new) /\ Rd!WriteRows(new.rows)
      /\ log' = log \cup Rd!C!Logged(new.rows)
      /\ UNCHANGED <<parked, hold, validator>>
  <2>2. Rd!Script(c) /\ Rd!ApplyState([cursor |-> new.cursor, sequence |-> new.sequence])
    BY DEF Rd!CommitPoll
  <2>3. items' = Rd!C!ItemsAfter(items, new) /\ Rd!WriteRows(new.rows)
    BY DEF Rd!CommitPoll
  <2>4. log' = log \cup Rd!C!Logged(new.rows) /\ UNCHANGED <<parked, hold, validator>>
    BY DEF Rd!CommitPoll
  <2>5. Rd!ApplyState(patch)
    BY <2>2, <1>2 DEF Rd!ApplyState
  <2> QED
    BY <2>2, <2>3, <2>4, <2>5
<1>4. /\ UNCHANGED <<meta, rdConn, rdHeld>> /\ LeaseOK'
      /\ Rd!C!Fenced(c, rdHeld[c]) /\ rdHeld[c] \in 1..meta.epoch_counter
  BY <1>3, ScriptFacts
<1>5. /\ new.rows \in SUBSET Rd!C!OutboxRow /\ new.cursor \in Nat /\ new.sequence \in Nat
      /\ \A row \in new.rows : FromBatch(row)
  BY DEF Rd!RedisParameters, FromBatch
<1>6. RowsSeen /\ StateOK /\ CallsOK
  BY DEF RedisInv
<1>7. \A e \in hold' : \E row \in parked' : row.event = e
  BY <1>3, <1>6 DEF RowsSeen, Rd!IndexSound
<1>8. RowsSeen' /\ Rd!DecodedOutbox' = Rd!C!Put(Rd!DecodedOutbox, new.rows)
  BY <1>3, <1>5, <1>6, <1>7, RowsWritten
<1>9. patch \notin Rd!C!Patch /\ \E x, y \in Nat : patch = [cursor |-> x, sequence |-> y]
  <2>1. DOMAIN patch = {"cursor", "sequence"}
    BY <1>2
  <2> QED
    BY <1>2, <1>5, <2>1 DEF Rd!C!Patch
<1>10. /\ StateSeen' = Rd!C!Patched(StateSeen, patch) /\ state' \in Rd!C!PollerState
       /\ Rd!LastSequence \in Nat /\ Rd!LastSequence' = new.sequence
  BY <1>2, <1>3, <1>6, <1>9, Applied
<1>11. \A l \in Rd!C!Logged(new.rows) : l \in Rd!C!LoggedEvent /\ l.sequence > Rd!LastSequence
  <2> SUFFICES ASSUME NEW row \in new.rows
               PROVE  /\ [event |-> row.event, sequence |-> row.sequence] \in Rd!C!LoggedEvent
                      /\ row.sequence > Rd!LastSequence
    BY DEF Rd!C!Logged
  <2> QED
    BY <1>5, <1>10 DEF Rd!C!OutboxRow, Rd!C!LoggedEvent
<1>12. StateOK' /\ CallsOK'
  <2>1. log' \subseteq Rd!C!LoggedEvent
        /\ \A l \in log' : l \in log \/ l.sequence > Rd!LastSequence
    BY <1>3, <1>6, <1>11 DEF StateOK
  <2> QED
    BY <1>4, <1>5, <1>6, <1>10, <2>1, CallsGoOn DEF StateOK
<1>13. Rd!C!Commit(c, rdHeld[c], new)
  BY <1>2, <1>3, <1>4, <1>8, <1>10 DEF Rd!C!Commit, StateSeen, ParkedSeen
<1> QED
  BY <1>4, <1>8, <1>12, <1>13 DEF RedisInv, ContractStep, Rd!C!Next

(* State, log and calls when a script writes something else.             *)
LEMMA StateUntouched ==
  ASSUME RedisInv, UNCHANGED <<state, log, rdConn>>
  PROVE  StateOK' /\ CallsOK' /\ UNCHANGED StateSeen
BY DEF RedisInv, StateOK, CallsOK, CallOK, PruneOK, Rd!LastSequence, FromBatch, StateSeen

(* ACK_EVENTS is the contract's ackEvents.                                 *)
LEMMA AckStep ==
  ASSUME RedisInv, Rd!RedisParameters, NEW c \in Owner, NEW event \in Rd!C!Event,
         Rd!AckEvents(c, event)
  PROVE  RedisInv' /\ ContractStep
<1>1. Rd!Script(c) /\ Rd!DropOutbox(event)
      /\ UNCHANGED <<state, items, parked, hold, validator, log>>
  BY DEF Rd!AckEvents
<1>2. /\ UNCHANGED <<meta, rdConn, rdHeld>> /\ LeaseOK'
      /\ Rd!C!Fenced(c, rdHeld[c]) /\ rdHeld[c] \in 1..meta.epoch_counter
  BY <1>1, ScriptFacts
<1>3. StateOK' /\ CallsOK' /\ UNCHANGED <<StateSeen, ParkedSeen>>
  BY <1>1, <1>2, StateUntouched DEF ParkedSeen
<1>4. /\ RowsSeen /\ parked' \subseteq Rd!C!ParkedRow /\ \A row \in parked' : FromBatch(row)
      /\ \A e \in hold' : \E row \in parked' : row.event = e
  BY <1>1 DEF RedisInv, RowsSeen, RowsOK, Rd!IndexSound
<1>5. RowsSeen' /\ Rd!DecodedOutbox' = Rd!C!Without(Rd!DecodedOutbox, event)
  BY <1>1, <1>4, RowsDropped
<1>6. Rd!C!Ack(c, rdHeld[c], event)
  BY <1>1, <1>2, <1>3, <1>5 DEF Rd!C!Ack, Rd!C!AckEvents, StateSeen, ParkedSeen
<1> QED
  BY <1>2, <1>3, <1>5, <1>6 DEF RedisInv, ContractStep, Rd!C!Next

(* PARK_EVENT is the contract's parkEvent: row, counter and hold move at   *)
(* once.                                                                   *)
LEMMA ParkStep ==
  ASSUME RedisInv, Rd!RedisParameters, NEW c \in Owner, NEW row \in Rd!DecodedOutbox,
         Rd!ParkEvent(c, row)
  PROVE  RedisInv' /\ ContractStep
<1> DEFINE new == Rd!C!ParkedRowOf(row)
<1>1. Rd!Script(c) /\ Rd!DropOutbox(row.event)
      /\ parked' = Rd!C!Put(parked, {new}) /\ hold' = hold \cup {row.event}
      /\ UNCHANGED <<state, items, validator, log>>
  BY DEF Rd!ParkEvent
<1>2. /\ UNCHANGED <<meta, rdConn, rdHeld>> /\ LeaseOK'
      /\ Rd!C!Fenced(c, rdHeld[c]) /\ rdHeld[c] \in 1..meta.epoch_counter
  BY <1>1, ScriptFacts
<1>3. StateOK' /\ CallsOK' /\ UNCHANGED StateSeen
  BY <1>1, <1>2, StateUntouched
<1>4. /\ row \in Rd!C!OutboxRow /\ FromBatch(row)
  <2>1. row \in Rd!C!OutboxRow
    BY RowFacts
  <2>2. PICK r \in rows : r.event = row.event /\ r.sequence = row.sequence
    BY RowFacts
  <2>3. FromBatch(r)
    BY RowFacts
  <2> QED
    BY <2>1, <2>2, <2>3 DEF FromBatch
<1>5. /\ new \in Rd!C!ParkedRow /\ FromBatch(new) /\ new.holdKey = TRUE /\ new.event = row.event
  BY <1>4 DEF Rd!C!ParkedRowOf, Rd!C!OutboxRow, Rd!C!ParkedRow, FromBatch
<1> HIDE DEF new
<1>6. RowsSeen /\ parked \subseteq Rd!C!ParkedRow /\ \A p \in parked : FromBatch(p)
  BY DEF RedisInv, RowsSeen, RowsOK
<1>7. /\ parked' \subseteq Rd!C!ParkedRow /\ \A p \in parked' : FromBatch(p)
      /\ \A e \in hold' : \E p \in parked' : p.event = e
  <2>1. parked' \subseteq parked \cup {new}
    BY <1>1 DEF Rd!C!Put
  <2>2. ASSUME NEW e \in hold' PROVE \E p \in parked' : p.event = e
    <3>1. CASE e = row.event
      BY <1>1, <1>5, <3>1 DEF Rd!C!Put
    <3>2. CASE e # row.event
      <4>1. PICK p \in parked : p.event = e
        BY <1>1, <1>6, <3>2 DEF RowsSeen, Rd!IndexSound
      <4> QED
        BY <1>1, <1>5, <3>2, <4>1 DEF Rd!C!Put
    <3> QED
      BY <3>1, <3>2
  <2> QED
    BY <1>5, <1>6, <2>1, <2>2
<1>8. RowsSeen' /\ Rd!DecodedOutbox' = Rd!C!Without(Rd!DecodedOutbox, row.event)
  BY <1>1, <1>6, <1>7, RowsDropped
<1>9. ParkedSeen' = Rd!C!Put(ParkedSeen, {new})
  BY <1>1, <1>5, <1>6, ParkedAdded
<1>10. Rd!C!Park(c, rdHeld[c], row)
  BY <1>1, <1>2, <1>3, <1>8, <1>9
     DEF new, Rd!C!Park, Rd!C!ParkEvent, Rd!C!ParkedRowOf, StateSeen, ParkedSeen
<1>11. \E r \in UNION {x.rows : x \in Batch} : Rd!C!Park(c, rdHeld[c], r)
  <2>1. PICK x \in Batch : \E r \in x.rows : r.event = row.event /\ r.sequence = row.sequence
    BY <1>4 DEF FromBatch
  <2>2. PICK r \in x.rows : r.event = row.event /\ r.sequence = row.sequence
    BY <2>1
  <2>3. Rd!C!Park(c, rdHeld[c], r)
    BY <1>10, <2>2 DEF Rd!C!Park, Rd!C!ParkEvent
  <2> QED
    BY <2>2, <2>3
<1> QED
  BY <1>2, <1>3, <1>8, <1>11 DEF RedisInv, ContractStep, Rd!C!Next

(* RECORD_ATTEMPT is the contract's recordAttempt.                         *)
LEMMA AttemptStep ==
  ASSUME RedisInv, Rd!RedisParameters, NEW c \in Owner, NEW row \in Rd!DecodedOutbox,
         Rd!RecordAttempt(c, row.event)
  PROVE  RedisInv' /\ ContractStep
<1>1. /\ row.event \in Rd!C!Event /\ \E r \in rows : r.event = row.event
  BY RowFacts
<1>2. Rd!Script(c) /\ attempts' = [attempts EXCEPT ![row.event] = @ + 1]
      /\ UNCHANGED <<state, items, pendingIds, rows, parked, hold, validator, log>>
  BY <1>1 DEF Rd!RecordAttempt
<1>3. /\ UNCHANGED <<meta, rdConn, rdHeld>> /\ LeaseOK'
      /\ Rd!C!Fenced(c, rdHeld[c]) /\ rdHeld[c] \in 1..meta.epoch_counter
  BY <1>2, ScriptFacts
<1>4. StateOK' /\ CallsOK' /\ UNCHANGED <<StateSeen, ParkedSeen>>
  BY <1>2, <1>3, StateUntouched DEF ParkedSeen
<1>5. /\ RowsSeen'
      /\ Rd!DecodedOutbox' = {IF r.event = row.event THEN [r EXCEPT !.attempts = @ + 1] ELSE r
                                : r \in Rd!DecodedOutbox}
  BY <1>1, <1>2, RowAttempted DEF RedisInv
<1>6. Rd!C!Attempt(c, rdHeld[c], row.event)
  BY <1>2, <1>3, <1>4, <1>5 DEF Rd!C!Attempt, Rd!C!RecordAttempt, StateSeen, ParkedSeen
<1> QED
  BY <1>1, <1>3, <1>4, <1>5, <1>6 DEF RedisInv, ContractStep, Rd!C!Next

(* The three ends of a delivery.                                           *)
LEMMA DeliveredStep ==
  ASSUME RedisInv, Rd!RedisParameters, NEW c \in Owner, Rd!CallDelivered(c)
  PROVE  RedisInv' /\ ContractStep
<1> SUFFICES ASSUME NEW row \in Rd!DecodedOutbox,
                    \/ Rd!AckEvents(c, row.event) \/ Rd!RecordAttempt(c, row.event)
                    \/ Rd!ParkEvent(c, row)
             PROVE  RedisInv' /\ ContractStep
  BY DEF Rd!CallDelivered
<1>1. row.event \in Rd!C!Event
  BY RowFacts
<1> QED
  BY <1>1, AckStep, AttemptStep, ParkStep

(* SET_VALIDATOR is the contract's setValidator.                           *)
LEMMA ValidatorStep ==
  ASSUME RedisInv, Rd!RedisParameters, NEW c \in Owner, NEW tag \in Version,
         Rd!SetValidator(c, tag)
  PROVE  RedisInv' /\ ContractStep
<1>1. Rd!Script(c) /\ validator' = tag
      /\ UNCHANGED <<state, items, pendingIds, rows, attempts, parked, hold, log>>
  BY DEF Rd!SetValidator
<1>2. /\ UNCHANGED <<meta, rdConn, rdHeld>> /\ LeaseOK'
      /\ Rd!C!Fenced(c, rdHeld[c]) /\ rdHeld[c] \in 1..meta.epoch_counter
  BY <1>1, ScriptFacts
<1>3. StateOK' /\ CallsOK' /\ RowsSeen' /\ UNCHANGED <<StateSeen, ParkedSeen, Rd!DecodedOutbox>>
  BY <1>1, <1>2, StateUntouched, RowsUntouched
<1>4. Rd!C!SetValidator(c, rdHeld[c], tag)
  BY <1>1, <1>2, <1>3 DEF Rd!C!SetValidator, StateSeen, ParkedSeen
<1> QED
  BY <1>2, <1>3, <1>4 DEF RedisInv, ContractStep, Rd!C!Next

(* A call of several commands ends.                                      *)
LEMMA CallEnds ==
  ASSUME RedisInv, NEW c \in RdClient, rdConn' = [rdConn EXCEPT ![c] = Rd!Idle],
         UNCHANGED state, log' \subseteq log
  PROVE  StateOK' /\ CallsOK' /\ UNCHANGED StateSeen
<1>1. StateOK /\ CallsOK
  BY DEF RedisInv
<1>2. PICK call : call = Rd!Idle
  OBVIOUS
<1>3. CallOK(call) /\ PruneOK(call)'
  BY <1>2 DEF Rd!Idle, CallOK, PruneOK, RdConn
<1>4. Rd!LastSequence' = Rd!LastSequence /\ StateOK' /\ UNCHANGED StateSeen
  BY <1>1 DEF Rd!LastSequence, StateOK, StateSeen
<1> QED
  BY <1>1, <1>2, <1>3, <1>4, CallMoves

(* What a retryParked has read and what is parked now are the same rows,   *)
(* if they are of the same events and have the same numbers.               *)
LEMMA FreshFound ==
  ASSUME RedisInv, NEW found \in SUBSET Rd!C!OutboxRow, \A row \in found : row.attempts = 0,
         \A row \in found, p \in parked : row.event = p.event => row.sequence = p.sequence,
         NEW moved, moved = {row \in found : \E p \in parked : p.event = row.event}
  PROVE  Rd!C!FreshRows({p \in ParkedSeen : p.event \in {row.event : row \in moved}}) = moved
<1> DEFINE ids == {row.event : row \in moved}
           seen == {p \in ParkedSeen : p.event \in ids}
<1>1. /\ \A q \in ParkedSeen : \E p \in parked : q.event = p.event /\ q.sequence = p.sequence
      /\ \A p \in parked : \E q \in ParkedSeen : q.event = p.event /\ q.sequence = p.sequence
  <2> DEFINE D(p) == [p EXCEPT !.holdKey = p.event \in hold]
  <2>1. \A p \in parked : D(p).event = p.event /\ D(p).sequence = p.sequence
    <3> TAKE p \in parked
    <3>1. p \in Rd!C!ParkedRow /\ (p.event \in hold) \in BOOLEAN
      BY RowFacts
    <3> QED
      BY <3>1, HeldRow
  <2>2. ParkedSeen = {D(p) : p \in parked}
    BY DEF ParkedSeen
  <2> HIDE DEF D
  <2> QED
    BY <2>1, <2>2
<1>2. \A row \in found : row = [event |-> row.event, sequence |-> row.sequence, attempts |-> 0]
  BY DEF Rd!C!OutboxRow
<1>3. ASSUME NEW row \in moved PROVE row \in Rd!C!FreshRows(seen)
  <2>1. PICK p \in parked : p.event = row.event /\ p.sequence = row.sequence
    BY <1>3
  <2>2. PICK q \in ParkedSeen : q.event = row.event /\ q.sequence = row.sequence
    BY <1>1, <2>1
  <2> QED
    BY <1>2, <1>3, <2>2 DEF Rd!C!FreshRows
<1>4. ASSUME NEW x \in Rd!C!FreshRows(seen) PROVE x \in moved
  <2>1. PICK q \in seen : x = [event |-> q.event, sequence |-> q.sequence, attempts |-> 0]
    BY <1>4 DEF Rd!C!FreshRows
  <2>2. PICK row \in moved : row.event = q.event
    BY <2>1
  <2>3. row.sequence = q.sequence
    BY <1>1, <2>1, <2>2
  <2> QED
    BY <1>2, <2>1, <2>2, <2>3
<1> QED
  BY <1>3, <1>4

(* The script of retryParked is the contract's retryParked for the rows    *)
(* that are still parked.                                                  *)
LEMMA RetryStep ==
  ASSUME RedisInv, Rd!RedisParameters, NEW c \in Client, Rd!RetryMove(c)
  PROVE  RedisInv' /\ (RetriesFresh => ContractStep)
<1> DEFINE moved == {row \in rdConn[c].found : \E p \in parked : p.event = row.event}
           ids == {row.event : row \in moved}
<1>1. /\ rdConn[c].op = "retryParked" /\ Rd!WriteRows(moved)
      /\ parked' = {row \in parked : row.event \notin ids} /\ hold' = hold \ ids
      /\ rdConn' = [rdConn EXCEPT ![c] = Rd!Idle]
      /\ UNCHANGED <<meta, state, items, validator, log, rdHeld, rdWriter>>
  BY DEF Rd!RetryMove
<1>2. c \in RdClient /\ CallOK(rdConn[c])
  BY DEF RedisInv, CallsOK, RdClient
<1>3. /\ rdConn[c].found \subseteq Rd!C!OutboxRow /\ \A row \in rdConn[c].found : row.attempts = 0
      /\ \A row \in moved : FromBatch(row)
  BY <1>1, <1>2 DEF CallOK
<1>4. StateOK' /\ CallsOK' /\ UNCHANGED StateSeen
  BY <1>1, <1>2, CallEnds
<1>5. RowsSeen /\ parked \subseteq Rd!C!ParkedRow
  BY DEF RedisInv, RowsSeen, RowsOK
<1>6. \A e \in hold' : \E row \in parked' : row.event = e
  BY <1>1, <1>5 DEF RowsSeen, Rd!IndexSound
<1>7. moved \in SUBSET Rd!C!OutboxRow /\ parked' \subseteq parked /\ hold' \subseteq hold
  BY <1>1, <1>3
<1>8. ParkedSeen' = {row \in ParkedSeen : row.event \notin ids}
  <2> HIDE DEF ids
  <2> QED
    BY <1>1, <1>5, ParkedRemoved
<1>9. RowsSeen' /\ Rd!DecodedOutbox' = Rd!C!Put(Rd!DecodedOutbox, moved)
  <2> HIDE DEF moved
  <2> QED
    BY <1>1, <1>3, <1>5, <1>6, <1>7, RowsWritten
<1>10. LeaseOK' /\ UNCHANGED LeaseSeen
  BY <1>1 DEF RedisInv, LeaseOK, LeaseSeen
<1>11. RedisInv'
  BY <1>4, <1>9, <1>10 DEF RedisInv
<1>12. ASSUME RetriesFresh PROVE ContractStep
  <2>1. \A row \in rdConn[c].found, p \in parked : row.event = p.event => row.sequence = p.sequence
    BY <1>1, <1>2, <1>12 DEF RedisInv, RetriesFresh, CallsOK
  <2>2. Rd!C!FreshRows({p \in ParkedSeen : p.event \in ids}) = moved
    BY <1>3, <2>1, FreshFound
  <2>3. ids \in SUBSET Rd!C!Event
    BY <1>3, BatchEvent
  <2>6. PICK events : events = ids
    OBVIOUS
  <2>7. PICK fresh : fresh = moved
    OBVIOUS
  <2> HIDE DEF moved, ids
  <2>4. ParkedSeen' = ParkedSeen \ {row \in ParkedSeen : row.event \in events}
    BY <1>8, <2>6
  <2>8. Rd!C!FreshRows({p \in ParkedSeen : p.event \in events}) = fresh
    BY <2>2, <2>6, <2>7
  <2>9. Rd!DecodedOutbox' = Rd!C!Put(Rd!DecodedOutbox, fresh)
    BY <1>9, <2>7
  <2>5. Rd!C!Retry(events)
    BY <1>1, <1>4, <1>10, <2>4, <2>8, <2>9
       DEF Rd!C!Retry, Rd!C!Unfenced, LeaseSeen, StateSeen, ParkedSeen
  <2> QED
    BY <2>3, <2>5, <2>6 DEF ContractStep, Rd!C!Next
<1> QED
  BY <1>11, <1>12

(* DISCARD_PARKED is the contract's discardParked.                         *)
LEMMA DiscardStep ==
  ASSUME RedisInv, Rd!RedisParameters, NEW c,
         NEW ids \in SUBSET {row.event : row \in parked}, Rd!DiscardParked(c, ids)
  PROVE  RedisInv' /\ ContractStep
<1>1. /\ parked' = {row \in parked : row.event \notin ids} /\ hold' = hold \ ids
      /\ UNCHANGED <<meta, state, items, pendingIds, rows, attempts, validator, log, rdConn, rdHeld,
                     rdWriter>>
  BY DEF Rd!DiscardParked
<1>2. StateOK' /\ CallsOK' /\ UNCHANGED StateSeen
  BY <1>1, StateUntouched
<1>3. LeaseOK' /\ UNCHANGED LeaseSeen
  BY <1>1 DEF RedisInv, LeaseOK, LeaseSeen
<1>4. RowsSeen /\ parked \subseteq Rd!C!ParkedRow
  BY DEF RedisInv, RowsSeen, RowsOK
<1>5. RowsSeen' /\ Rd!DecodedOutbox' = Rd!DecodedOutbox
  <2>1. \A e \in hold' : \E row \in parked' : row.event = e
    BY <1>1, <1>4 DEF RowsSeen, Rd!IndexSound
  <2> QED
    BY <1>1, <1>4, <2>1, RowsStay
<1>6. ParkedSeen' = {row \in ParkedSeen : row.event \notin ids}
  BY <1>1, <1>4, ParkedRemoved
<1>7. ids \in SUBSET Rd!C!Event
  BY RowFacts
<1>8. Rd!C!Discard(ids)
  BY <1>1, <1>2, <1>3, <1>5, <1>6 DEF Rd!C!Discard, Rd!C!Unfenced, LeaseSeen, StateSeen, ParkedSeen
<1> QED
  BY <1>2, <1>3, <1>5, <1>7, <1>8 DEF RedisInv, ContractStep, Rd!C!Next

(* CLEAR_ITEMS is the contract's clearItems.                               *)
LEMMA ClearStep ==
  ASSUME RedisInv, Rd!RedisParameters, NEW c, Rd!ClearItems(c)
  PROVE  RedisInv' /\ ContractStep
<1>1. /\ items' = [k \in Identity |-> Absent]
      /\ UNCHANGED <<meta, state, pendingIds, rows, attempts, parked, hold, validator, log, rdConn,
                     rdHeld, rdWriter>>
  BY DEF Rd!ClearItems
<1>2. /\ StateOK' /\ CallsOK' /\ RowsSeen' /\ LeaseOK'
      /\ UNCHANGED <<StateSeen, LeaseSeen, ParkedSeen, Rd!DecodedOutbox>>
  BY <1>1, StateUntouched, RowsUntouched DEF RedisInv, LeaseOK, LeaseSeen
<1>3. Rd!C!ClearItems
  BY <1>1, <1>2 DEF Rd!C!ClearItems, Rd!C!Unfenced, LeaseSeen, StateSeen, ParkedSeen
<1> QED
  BY <1>2, <1>3 DEF RedisInv, ContractStep, Rd!C!Next

(* What a pruneLog removes is a prefix of the log, however it grew since.  *)
LEMMA PruneStep ==
  ASSUME RedisInv, Rd!RedisParameters, NEW c \in Client, Rd!PruneRemove(c)
  PROVE  RedisInv' /\ ContractStep
<1>1. /\ rdConn[c].op = "pruneLog" /\ log' = log \ rdConn[c].found
      /\ rdConn' = [rdConn EXCEPT ![c] = Rd!Idle]
      /\ UNCHANGED <<meta, state, items, pendingIds, rows, attempts, parked, hold, validator, rdHeld,
                     rdWriter>>
  BY DEF Rd!PruneRemove
<1>2. c \in RdClient /\ PruneOK(rdConn[c]) /\ StateOK
  BY DEF RedisInv, CallsOK, RdClient
<1>3. StateOK' /\ CallsOK' /\ UNCHANGED StateSeen
  BY <1>1, <1>2, CallEnds
<1>4. RowsSeen' /\ LeaseOK' /\ UNCHANGED <<LeaseSeen, ParkedSeen, Rd!DecodedOutbox>>
  BY <1>1, RowsUntouched DEF RedisInv, LeaseOK, LeaseSeen
<1>5. CASE rdConn[c].found = {}
  <2>1. log' = log
    BY <1>1, <1>5
  <2>2. ContractStep
    BY <1>1, <1>3, <1>4, <2>1, SeenStays DEF RdSeen
  <2> QED
    BY <1>3, <1>4, <2>2 DEF RedisInv
<1>6. CASE rdConn[c].found # {}
  <2>1. PICK n \in 1..Rd!LastSequence : /\ \A l \in rdConn[c].found : l.sequence < n
                                       /\ \A l \in log : l.sequence < n => l \in rdConn[c].found
    BY <1>1, <1>2, <1>6 DEF PruneOK
  <2>2. n \in 1..StateSeen.sequence
    BY <1>2, <2>1 DEF StateOK, StateSeen, Rd!LastSequence
  <2>3. \A l \in log : l.sequence \in Nat
    BY <1>2 DEF StateOK, Rd!C!LoggedEvent
  <2>4. log' = {l \in log : l.sequence >= n}
    BY <1>1, <1>2, <2>1, <2>3 DEF StateOK, Rd!LastSequence
  <2>5. Rd!C!PruneLog(n)
    BY <1>1, <1>3, <1>4, <2>4 DEF Rd!C!PruneLog, Rd!C!Unfenced, LeaseSeen, StateSeen, ParkedSeen
  <2> QED
    BY <1>3, <1>4, <2>2, <2>5 DEF RedisInv, ContractStep, Rd!C!Next, StateSeen
<1> QED
  BY <1>5, <1>6

(* SREM of the poller's key is seen by no reader of its hashes.            *)
LEMMA MemberStep ==
  ASSUME RedisInv, Rd!RedisParameters, NEW c \in Client, Rd!DeleteMember(c)
  PROVE  RedisInv' /\ ContractStep
<1>1. /\ rdConn' = [rdConn EXCEPT ![c] = Rd!Idle]
      /\ UNCHANGED <<meta, state, items, pendingIds, rows, attempts, parked, hold, validator, log,
                     rdHeld, rdWriter>>
  BY DEF Rd!DeleteMember
<1>2. StateOK' /\ CallsOK' /\ UNCHANGED StateSeen
  BY <1>1, CallEnds DEF RdClient
<1>3. RowsSeen' /\ LeaseOK' /\ UNCHANGED <<LeaseSeen, ParkedSeen, Rd!DecodedOutbox>>
  BY <1>1, RowsUntouched DEF RedisInv, LeaseOK, LeaseSeen
<1>4. ContractStep
  BY <1>1, <1>2, <1>3, SeenStays DEF RdSeen
<1> QED
  BY <1>2, <1>3, <1>4 DEF RedisInv

(* An empty key, as no script has written it yet.                        *)
LEMMA RedisEmptied ==
  /\ rows' = {} /\ pendingIds' = {} /\ parked' = {} /\ hold' = {}
  /\ attempts' = [e \in Rd!C!Event |-> 0]
  => RowsSeen' /\ Rd!DecodedOutbox' = {} /\ ParkedSeen' = {}
<1> SUFFICES ASSUME /\ rows' = {} /\ pendingIds' = {} /\ parked' = {} /\ hold' = {}
                    /\ attempts' = [e \in Rd!C!Event |-> 0]
             PROVE  RowsSeen' /\ Rd!DecodedOutbox' = {} /\ ParkedSeen' = {}
  OBVIOUS
<1>1. RowsOK'
  <2>1. attempts' \in [Rd!C!Event -> Nat]
    OBVIOUS
  <2>2. \A row \in rows' \cup parked' : FromBatch(row)'
    OBVIOUS
  <2>3. rows' \subseteq Rd!C!OutboxRow /\ parked' \subseteq Rd!C!ParkedRow
    OBVIOUS
  <2> QED
    BY <2>1, <2>2, <2>3 DEF RowsOK, FromBatch
<1>2. Rd!IndexSound'
  BY DEF Rd!IndexSound
<1>3. Rd!DecodedOutbox' = Decoded(rows', attempts')
  BY <1>2, DecodeAllNext
<1>4. Rd!DecodedOutbox' = {} /\ ParkedSeen' = {}
  BY <1>3 DEF Decoded, ParkedSeen
<1> QED
  BY <1>1, <1>2, <1>4 DEF RowsSeen

(* The DEL of deleteKey is the contract's deleteKey.                       *)
LEMMA DeleteStep ==
  ASSUME RedisInv, Rd!RedisParameters, NEW c \in Client, Rd!DeleteHashes(c)
  PROVE  RedisInv' /\ ContractStep
<1> DEFINE next(d) == IF d = c THEN [Rd!Idle EXCEPT !.op = "deleteKey"]
                      ELSE IF rdConn[d].op = "pruneLog" THEN [rdConn[d] EXCEPT !.found = {}]
                      ELSE rdConn[d]
<1>1. /\ meta' = [lease_owner |-> NoOwner, lease_epoch |-> 0, live |-> FALSE, epoch_counter |-> 0]
      /\ state' = NoHash /\ items' = [k \in Identity |-> Absent]
      /\ pendingIds' = {} /\ rows' = {} /\ attempts' = [e \in Rd!C!Event |-> 0]
      /\ parked' = {} /\ hold' = {} /\ validator' = Absent /\ log' = {}
      /\ rdConn' = [d \in DOMAIN rdConn |-> next(d)]
      /\ UNCHANGED <<rdHeld, rdWriter>>
  BY DEF Rd!DeleteHashes, Rd!EmptyMeta
<1>2. CallsOK /\ DOMAIN rdConn = RdClient
  BY DEF RedisInv, CallsOK
<1>3. ASSUME NEW d \in RdClient, NEW call, call = next(d)
      PROVE  CallOK(call) /\ PruneOK(call)'
  <2>1. CallOK(rdConn[d])
    BY <1>2 DEF CallsOK
  <2>2. CASE d = c
    BY <1>3, <2>2 DEF Rd!Idle, CallOK, PruneOK, RdConn
  <2>3. CASE d # c /\ rdConn[d].op = "pruneLog"
    <3>1. call = [rdConn[d] EXCEPT !.found = {}]
      BY <1>3, <2>3
    <3>2. call \in RdConn /\ call.op = "pruneLog" /\ call.found = {}
      BY <2>1, <2>3, <3>1 DEF CallOK, RdConn
    <3> QED
      BY <3>2 DEF CallOK, PruneOK
  <2>4. CASE d # c /\ rdConn[d].op # "pruneLog"
    BY <1>3, <2>1, <2>4 DEF PruneOK
  <2> QED
    BY <2>2, <2>3, <2>4
<1>4. CallsOK'
  <2>1. \A d \in RdClient : rdConn'[d] = next(d)
    BY <1>1, <1>2
  <2>2. rdConn' = [d \in RdClient |-> rdConn'[d]]
    BY <1>1, <1>2
  <2>3. ASSUME NEW d \in RdClient PROVE CallOK(rdConn[d])' /\ PruneOK(rdConn[d])'
    <3>1. PICK call : call = next(d)
      OBVIOUS
    <3>2. CallOK(call) /\ PruneOK(call)'
      BY <1>3, <3>1
    <3>3. rdConn'[d] = call
      BY <2>1, <3>1
    <3> HIDE DEF next
    <3> QED
      BY <3>2, <3>3 DEF CallOK, PruneOK, FromBatch
  <2> QED
    BY <2>2, <2>3 DEF CallsOK
<1>5. RowsSeen' /\ Rd!DecodedOutbox' = {} /\ ParkedSeen' = {}
  <2>1. rows' = {} /\ pendingIds' = {} /\ parked' = {} /\ hold' = {}
    BY <1>1
  <2>2. attempts' = [e \in Rd!C!Event |-> 0]
    BY <1>1
  <2> QED
    BY <2>1, <2>2, RedisEmptied
<1>6. StateOK' /\ StateSeen' = Rd!C!InitialState
  BY <1>1 DEF StateOK, StateSeen, Rd!C!InitialState
<1>7. LeaseOK' /\ LeaseSeen' = Rd!C!NoLease
  BY <1>1 DEF RedisInv, LeaseOK, LeaseSeen, Rd!C!NoLease
<1>8. Rd!C!DeleteKey
  BY <1>1, <1>5, <1>6, <1>7 DEF Rd!C!DeleteKey, LeaseSeen, StateSeen, ParkedSeen
<1> QED
  BY <1>4, <1>5, <1>6, <1>7, <1>8 DEF RedisInv, ContractStep, Rd!C!Next

(* Every step keeps the invariant and is a step of the contract or a     *)
(* stutter.                                                              *)
LEMMA RedisStep ==
  ASSUME RedisInv, Rd!RedisParameters, [Rd!Next]_(Rd!vars)
  PROVE  RedisInv' /\ (RetriesFresh => ContractStep)
<1>1. CASE UNCHANGED Rd!vars
  <2>1. DataStay /\ UNCHANGED <<meta, rdHeld>>
    BY <1>1 DEF Rd!vars, Rd!dataVars, Rd!callVars, DataStay
  <2>2. LeaseOK' /\ UNCHANGED LeaseSeen
    BY <2>1 DEF RedisInv, LeaseOK, LeaseSeen
  <2> QED
    BY <2>1, <2>2, DataStays, SeenStays DEF RdSeen
<1>2. ASSUME NEW c \in Owner,
             \/ Rd!AcquireLease(c) \/ Rd!RenewLease(c) \/ Rd!RenewRefused(c) \/ Rd!ReleaseLease(c)
             \/ Rd!LeaseLost(c) \/ Rd!CallSaveState(c) \/ Rd!CallCommitPoll(c)
             \/ Rd!CallDelivered(c) \/ Rd!CallSetValidator(c)
      PROVE  RedisInv' /\ ContractStep
  <2>1. CASE Rd!CallSaveState(c)
    BY <2>1, SaveStateStep DEF Rd!CallSaveState
  <2>2. CASE Rd!CallSetValidator(c)
    BY <2>2, ValidatorStep DEF Rd!CallSetValidator
  <2> QED
    BY <1>2, <2>1, <2>2, AcquireStep, RenewStep, ReleaseStep, CommitStep, DeliveredStep
<1>3. ASSUME NEW c \in Client,
             \/ Rd!CallSaveStateUnfenced(c)
             \/ \E ids \in SUBSET {row.event : row \in parked} : Rd!DiscardParked(c, ids)
             \/ Rd!ClearItems(c) \/ Rd!PruneRemove(c) \/ Rd!DeleteHashes(c) \/ Rd!DeleteMember(c)
      PROVE  RedisInv' /\ ContractStep
  <2>1. CASE Rd!CallSaveStateUnfenced(c)
    BY <2>1, SaveUnfencedStep DEF Rd!CallSaveStateUnfenced
  <2> QED
    BY <1>3, <2>1, DiscardStep, ClearStep, PruneStep, DeleteStep, MemberStep
<1>4. ASSUME NEW c \in RdClient, RdReads(c)
      PROVE  RedisInv' /\ ContractStep
  BY <1>4, ReadsStep
<1>5. CASE Rd!Next
  <2>1. \/ Rd!Expire
        \/ \E c \in Owner :
             \/ Rd!AcquireLease(c) \/ Rd!RenewLease(c) \/ Rd!RenewRefused(c) \/ Rd!ReleaseLease(c)
             \/ Rd!LeaseLost(c) \/ Rd!CallSaveState(c) \/ Rd!CallCommitPoll(c)
             \/ Rd!CallDelivered(c) \/ Rd!CallSetValidator(c)
        \/ \E c \in Client :
             \/ Rd!CallSaveStateUnfenced(c)
             \/ \E ids \in SUBSET {row.event : row \in parked} : Rd!DiscardParked(c, ids)
             \/ Rd!ClearItems(c) \/ Rd!PruneRemove(c) \/ Rd!DeleteHashes(c) \/ Rd!DeleteMember(c)
        \/ \E c \in Client : Rd!RetryMove(c)
        \/ \E c \in RdClient : RdReads(c)
    BY <1>5 DEF Rd!Next, RdReads, RdClient
  <2> QED
    BY <1>2, <1>3, <1>4, <2>1, ExpireStep, RetryStep
<1> QED
  BY <1>1, <1>5

-----------------------------------------------------------------------------
(* Redis, when an event has one number. *)

(* Rows of one event have one number.                                      *)
LEMMA SameNumber ==
  ASSUME Rd!OneNumber, NEW x, NEW y, FromBatch(x), FromBatch(y), x.event = y.event
  PROVE  x.sequence = y.sequence
BY DEF Rd!OneNumber, FromBatch

(* So what a retryParked has read is not out of date.                      *)
LEMMA RetriesAreFresh ==
  ASSUME RedisInv, Rd!OneNumber
  PROVE  RetriesFresh
<1>1. CallsOK
  BY DEF RedisInv
<1> SUFFICES ASSUME NEW c \in RdClient, rdConn[c].op = "retryParked",
                    NEW row \in rdConn[c].found, NEW p \in parked, row.event = p.event
             PROVE  row.sequence = p.sequence
  BY <1>1 DEF RetriesFresh, CallsOK
<1>2. FromBatch(row)
  BY <1>1 DEF CallsOK, CallOK
<1>3. FromBatch(p)
  BY RowFacts
<1> QED
  BY <1>2, <1>3, SameNumber

(* Steps that add no row and do not lower the sequence.                  *)
LEMMA ApartStays ==
  ASSUME Apart, rows' \subseteq rows, parked' \subseteq parked, RedisInv,
         UNCHANGED state
  PROVE  Apart'
BY DEF Apart, Rd!LastSequence

(* A saved state keeps the sequence.                                       *)
LEMMA ApartSaved ==
  ASSUME Apart, RedisInv, Rd!RedisParameters, NEW patch \in Rd!C!Patch,
         Rd!ApplyState(patch), UNCHANGED <<rows, parked>>
  PROVE  Apart'
<1>1. Rd!LastSequence' = Rd!LastSequence
  BY Applied DEF RedisInv
<1> QED
  BY <1>1 DEF Apart

(* New rows are numbered above all that are parked, so none of them is.    *)
LEMMA ApartCommit ==
  ASSUME Apart, RedisInv, Rd!RedisParameters, Rd!OneNumber, NEW c, Rd!CallCommitPoll(c)
  PROVE  Apart'
<1> SUFFICES ASSUME NEW new \in Batch, new.sequence > Rd!LastSequence,
                    \A row \in new.rows : row.sequence \in Rd!LastSequence + 1 .. new.sequence,
                    Rd!CommitPoll(c, new)
             PROVE  Apart'
  BY DEF Rd!CallCommitPoll
<1>1. PICK patch : patch = [cursor |-> new.cursor, sequence |-> new.sequence]
  OBVIOUS
<1>2. /\ Rd!ApplyState([cursor |-> new.cursor, sequence |-> new.sequence])
      /\ Rd!WriteRows(new.rows) /\ parked' = parked
  BY DEF Rd!CommitPoll
<1>3. Rd!ApplyState(patch) /\ rows' = Rd!C!Put(rows, new.rows)
  BY <1>1, <1>2 DEF Rd!ApplyState, Rd!WriteRows
<1>4. /\ new.rows \in SUBSET Rd!C!OutboxRow /\ new.cursor \in Nat /\ new.sequence \in Nat
      /\ \A row \in new.rows : FromBatch(row)
  BY DEF Rd!RedisParameters, FromBatch
<1>5. patch \notin Rd!C!Patch /\ \E x, y \in Nat : patch = [cursor |-> x, sequence |-> y]
  <2>1. DOMAIN patch = {"cursor", "sequence"}
    BY <1>1
  <2> QED
    BY <1>1, <1>4, <2>1 DEF Rd!C!Patch
<1>6. Rd!LastSequence' = new.sequence /\ Rd!LastSequence \in Nat
  BY <1>1, <1>3, <1>5, Applied DEF RedisInv
<1>7. \A row \in rows \cup parked : row.sequence \in Nat /\ row.sequence <= Rd!LastSequence
  BY RowFacts DEF Apart, Rd!C!OutboxRow, Rd!C!ParkedRow
<1>8. \A row \in new.rows, p \in parked : row.event # p.event
  <2> SUFFICES ASSUME NEW row \in new.rows, NEW p \in parked, row.event = p.event PROVE FALSE
    OBVIOUS
  <2>1. row.sequence = p.sequence
    <3>1. FromBatch(row) /\ FromBatch(p)
      BY <1>4, RowFacts
    <3> QED
      BY <3>1, SameNumber
  <2> QED
    BY <1>6, <1>7, <2>1
<1> QED
  BY <1>2, <1>3, <1>4, <1>6, <1>7, <1>8 DEF Apart, Rd!C!Put

(* A row that is parked is no longer pending.                              *)
LEMMA ApartPark ==
  ASSUME Apart, RedisInv, NEW c, NEW row \in Rd!DecodedOutbox, Rd!ParkEvent(c, row)
  PROVE  Apart'
<1>1. /\ rows' = Rd!C!Without(rows, row.event)
      /\ parked' = Rd!C!Put(parked, {Rd!C!ParkedRowOf(row)}) /\ state' = state
  BY DEF Rd!ParkEvent, Rd!DropOutbox
<1>2. PICK r \in rows : r.event = row.event /\ r.sequence = row.sequence
  BY RowFacts
<1>3. \A p \in parked' : p \in parked \/ (p.event = r.event /\ p.sequence = r.sequence)
  BY <1>1, <1>2 DEF Rd!C!Put, Rd!C!ParkedRowOf
<1>4. \A x \in rows' : x \in rows /\ x.event # r.event
  BY <1>1, <1>2 DEF Rd!C!Without
<1> QED
  BY <1>1, <1>3, <1>4 DEF Apart, Rd!LastSequence

(* A row that is retried is no longer parked, and replaces no pending row. *)
LEMMA ApartRetry ==
  ASSUME Apart, RedisInv, Rd!OneNumber, NEW c \in Client, Rd!RetryMove(c)
  PROVE  Apart' /\ rows \subseteq rows' /\ Rd!DecodedOutbox \subseteq Rd!DecodedOutbox'
<1> DEFINE moved == {row \in rdConn[c].found : \E p \in parked : p.event = row.event}
           ids == {row.event : row \in moved}
<1>1. /\ rdConn[c].op = "retryParked" /\ Rd!WriteRows(moved) /\ state' = state
      /\ parked' = {row \in parked : row.event \notin ids} /\ hold' = hold \ ids
  BY DEF Rd!RetryMove
<1>2. RowsSeen /\ CallOK(rdConn[c])
  BY DEF RedisInv, CallsOK, RdClient
<1>3. \A row \in moved : row \in Rd!C!OutboxRow /\ FromBatch(row)
  BY <1>1, <1>2 DEF CallOK
<1>4. \A row \in moved : \E p \in parked : p.event = row.event /\ p.sequence = row.sequence
  <2> SUFFICES ASSUME NEW row \in moved, NEW p \in parked, p.event = row.event
               PROVE  p.sequence = row.sequence
    OBVIOUS
  <2>1. FromBatch(row) /\ FromBatch(p)
    BY <1>3, RowFacts
  <2> QED
    BY <2>1, SameNumber
<1>5. \A row \in rows, m \in moved : row.event # m.event
  BY <1>4 DEF Apart
<1>6. rows' = rows \cup moved
  <2> HIDE DEF moved
  <2> QED
    BY <1>1, <1>5 DEF Rd!WriteRows, Rd!C!Put
<1>7. Rd!DecodedOutbox' = Rd!C!Put(Rd!DecodedOutbox, moved)
  <2>1. \A e \in hold' : \E row \in parked' : row.event = e
    BY <1>1, <1>2 DEF RowsSeen, Rd!IndexSound
  <2>2. moved \in SUBSET Rd!C!OutboxRow /\ parked' \subseteq parked /\ hold' \subseteq hold
    BY <1>1, <1>3
  <2> HIDE DEF moved
  <2> QED
    BY <1>1, <1>2, <1>3, <2>1, <2>2, RowsWritten
<1>8. \A row \in Rd!DecodedOutbox, m \in moved : row.event # m.event
  BY <1>5, RowFacts
<1>9. Apart'
  <2>1. \A row \in rows', p \in parked' : row.event # p.event
    BY <1>1, <1>6 DEF Apart
  <2>2. \A row \in rows' \cup parked' : row.sequence <= Rd!LastSequence
    BY <1>1, <1>4, <1>6 DEF Apart
  <2>3. Rd!LastSequence' = Rd!LastSequence
    BY <1>1 DEF Rd!LastSequence
  <2> QED
    BY <2>1, <2>2, <2>3 DEF Apart
<1> HIDE DEF moved
<1> QED
  BY <1>6, <1>7, <1>8, <1>9 DEF Rd!C!Put

(* Every step keeps pending and parked rows apart.                         *)
LEMMA ApartStep ==
  ASSUME Apart, RedisInv, Rd!RedisParameters, Rd!OneNumber, [Rd!Next]_(Rd!vars)
  PROVE  Apart'
<1>1. ASSUME UNCHANGED <<state, rows, parked>> PROVE Apart'
  BY <1>1, ApartStays
<1>2. CASE UNCHANGED Rd!vars \/ Rd!Expire
  BY <1>1, <1>2 DEF Rd!vars, Rd!dataVars, Rd!Expire
<1>3. ASSUME NEW c \in Owner,
             \/ Rd!AcquireLease(c) \/ Rd!RenewLease(c) \/ Rd!RenewRefused(c) \/ Rd!ReleaseLease(c)
             \/ Rd!LeaseLost(c) \/ Rd!CallSetValidator(c)
      PROVE  Apart'
  BY <1>1, <1>3 DEF Rd!AcquireLease, Rd!RenewLease, Rd!RenewRefused, Rd!ReleaseLease, Rd!LeaseLost,
     Rd!CallSetValidator, Rd!SetValidator, Rd!dataVars
<1>4. ASSUME NEW c \in RdClient, RdReads(c)
      PROVE  Apart'
  BY <1>1, <1>4 DEF RdReads, Rd!LoadIds, Rd!LoadRows, Rd!LoadAttempts, Rd!Return, Rd!RetryRead,
     Rd!PruneRead, Rd!Abandon, Rd!Reading, Rd!dataVars
<1>5. ASSUME NEW c, Rd!CallSaveState(c) \/ Rd!CallSaveStateUnfenced(c)
      PROVE  Apart'
  <2> SUFFICES ASSUME NEW patch \in Rd!C!Patch, Rd!SaveState(c, patch) \/ Rd!SaveStateUnfenced(c, patch)
               PROVE  Apart'
    BY <1>5 DEF Rd!CallSaveState, Rd!CallSaveStateUnfenced
  <2>1. Rd!ApplyState(patch) /\ UNCHANGED <<rows, parked>>
    BY DEF Rd!SaveState, Rd!SaveStateUnfenced
  <2> QED
    BY <2>1, ApartSaved
<1>6. ASSUME NEW c, Rd!CallDelivered(c)
      PROVE  Apart'
  <2> SUFFICES ASSUME NEW row \in Rd!DecodedOutbox,
                      \/ Rd!AckEvents(c, row.event) \/ Rd!RecordAttempt(c, row.event)
                      \/ Rd!ParkEvent(c, row)
               PROVE  Apart'
    BY <1>6 DEF Rd!CallDelivered
  <2>1. CASE Rd!AckEvents(c, row.event) \/ Rd!RecordAttempt(c, row.event)
    <3>1. rows' \subseteq rows /\ UNCHANGED <<state, parked>>
      BY <2>1 DEF Rd!AckEvents, Rd!RecordAttempt, Rd!DropOutbox, Rd!C!Without
    <3> QED
      BY <3>1, ApartStays
  <2> QED
    BY <2>1, ApartPark
<1>7. ASSUME NEW c \in Client,
             \/ Rd!ClearItems(c) \/ Rd!PruneRemove(c) \/ Rd!DeleteMember(c)
             \/ \E ids \in SUBSET {row.event : row \in parked} : Rd!DiscardParked(c, ids)
      PROVE  Apart'
  <2>1. rows' \subseteq rows /\ parked' \subseteq parked /\ UNCHANGED state
    BY <1>7 DEF Rd!ClearItems, Rd!PruneRemove, Rd!DeleteMember, Rd!DiscardParked
  <2> QED
    BY <2>1, ApartStays
<1>8. ASSUME NEW c \in Client, Rd!DeleteHashes(c)
      PROVE  Apart'
  <2>1. rows' = {} /\ parked' = {}
    BY <1>8 DEF Rd!DeleteHashes
  <2> QED
    BY <2>1 DEF Apart
<1>9. CASE Rd!Next
  <2>1. \/ Rd!Expire
        \/ \E c \in Owner :
             \/ Rd!AcquireLease(c) \/ Rd!RenewLease(c) \/ Rd!RenewRefused(c) \/ Rd!ReleaseLease(c)
             \/ Rd!LeaseLost(c) \/ Rd!CallSaveState(c) \/ Rd!CallCommitPoll(c)
             \/ Rd!CallDelivered(c) \/ Rd!CallSetValidator(c)
        \/ \E c \in Client :
             \/ Rd!CallSaveStateUnfenced(c)
             \/ \E ids \in SUBSET {row.event : row \in parked} : Rd!DiscardParked(c, ids)
             \/ Rd!ClearItems(c) \/ Rd!PruneRemove(c) \/ Rd!DeleteHashes(c) \/ Rd!DeleteMember(c)
             \/ Rd!RetryMove(c)
        \/ \E c \in RdClient : RdReads(c)
    BY <1>9 DEF Rd!Next, RdReads, RdClient
  <2> QED
    BY <1>2, <1>3, <1>4, <1>5, <1>6, <1>7, <1>8, <2>1, ApartCommit, ApartRetry
<1> QED
  BY <1>2, <1>9

(* Loads goes on while the rows that were there stay, or the lease goes. *)
LEMMA LoadsGoOn ==
  ASSUME Loads, RedisInv,
         \A c \in Owner : (Rd!Fenced(c))' /\ rdConn'[c].op \in {"loadAttempts", "loaded"} =>
            Rd!Fenced(c) /\ rdConn'[c] = rdConn[c],
         rows \subseteq rows', Rd!DecodedOutbox \subseteq Rd!DecodedOutbox'
  PROVE  Loads'
BY DEF Loads

(* Every step keeps what the holder of the lease has loaded among the      *)
(* pending rows: only the holder removes rows or counts attempts.          *)
LEMMA LoadsStep ==
  ASSUME Loads, Apart, RedisInv, Rd!RedisParameters, Rd!OneNumber, [Rd!Next]_(Rd!vars)
  PROVE  Loads'
<1>1. ASSUME UNCHANGED <<rows, pendingIds, attempts>>
      PROVE  UNCHANGED <<rows, Rd!DecodedOutbox>>
  BY <1>1 DEF Rd!DecodedOutbox
<1>2. CASE UNCHANGED Rd!vars \/ Rd!Expire
  <2>1. /\ UNCHANGED <<rows, pendingIds, attempts, rdConn, rdHeld>>
        /\ UNCHANGED <<meta.lease_owner, meta.lease_epoch>>
    BY <1>2, LeaseFacts DEF Rd!vars, Rd!dataVars, Rd!callVars, Rd!Expire
  <2> QED
    BY <1>1, <2>1, LoadsGoOn DEF Rd!Fenced
<1>3. ASSUME NEW c \in Owner,
             \/ Rd!AcquireLease(c) \/ Rd!RenewLease(c) \/ Rd!RenewRefused(c) \/ Rd!ReleaseLease(c)
             \/ Rd!LeaseLost(c)
      PROVE  Loads'
  <2>1. UNCHANGED <<rows, pendingIds, attempts, rdConn>>
    BY <1>3 DEF Rd!AcquireLease, Rd!RenewLease, Rd!RenewRefused, Rd!ReleaseLease, Rd!LeaseLost,
       Rd!dataVars, Rd!callVars
  <2>2. \/ rdConn[c].op = "none" /\ \A d \in Owner \ {c} : rdHeld'[d] = rdHeld[d]
        \/ rdHeld' = rdHeld /\ UNCHANGED <<meta.lease_owner, meta.lease_epoch>>
    BY <1>3, LeaseFacts DEF Rd!AcquireLease, Rd!RenewLease, Rd!RenewRefused, Rd!ReleaseLease,
       Rd!LeaseLost, Rd!Call, Rd!callVars
  <2>3. meta'.lease_owner \in {c, NoOwner} \/ meta' = meta
        \/ UNCHANGED <<meta.lease_owner, meta.lease_epoch>>
    <3>1. CASE Rd!AcquireLease(c)
      BY <3>1 DEF Rd!AcquireLease
    <3>2. CASE Rd!RenewLease(c)
      BY <3>2, LeaseFacts DEF Rd!RenewLease
    <3>3. CASE Rd!RenewRefused(c) \/ Rd!LeaseLost(c)
      BY <3>3 DEF Rd!RenewRefused, Rd!LeaseLost
    <3>4. CASE Rd!ReleaseLease(c)
      BY <3>4, LeaseFacts DEF Rd!ReleaseLease
    <3> QED
      BY <1>3, <3>1, <3>2, <3>3, <3>4
  <2>4. \A d \in Owner : (Rd!Fenced(d))' /\ rdConn'[d].op \in {"loadAttempts", "loaded"} =>
          Rd!Fenced(d) /\ rdConn'[d] = rdConn[d]
    BY <2>1, <2>2, <2>3, LeaseFacts DEF Rd!Fenced
  <2> QED
    BY <1>1, <2>1, <2>4, LoadsGoOn
<1>4. ASSUME NEW c \in Owner, Rd!Script(c)
      PROVE  Loads'
  <2>1. /\ UNCHANGED <<meta, rdConn, rdHeld>> /\ meta.lease_owner = c /\ rdConn[c].op = "none"
    BY <1>4 DEF Rd!Script, Rd!Fenced, Rd!Call
  <2> QED
    BY <2>1 DEF Loads, Rd!Fenced
<1>5. ASSUME NEW c \in RdClient, RdReads(c)
      PROVE  Loads'
  <2>1. UNCHANGED <<meta, rows, pendingIds, attempts, rdHeld>>
    BY <1>5 DEF RdReads, Rd!LoadIds, Rd!LoadRows, Rd!LoadAttempts, Rd!Return, Rd!RetryRead,
       Rd!PruneRead, Rd!Abandon, Rd!Reading, Rd!dataVars
  <2>2. UNCHANGED <<rows, Rd!DecodedOutbox>>
    BY <1>1, <2>1
  <2>3. \A d \in Owner : Rd!Fenced(d)' <=> Rd!Fenced(d)
    BY <2>1 DEF Rd!Fenced
  <2>4. rdConn = [d \in RdClient |-> rdConn[d]]
    BY DEF RedisInv, CallsOK
  <2>5. \/ rdConn'[c].op \notin {"loadAttempts", "loaded"}
        \/ c \in Owner /\ (Rd!LoadRows(c) \/ Rd!LoadAttempts(c))
    <3>1. ASSUME NEW what, NEW ids, NEW found, what \notin {"loadAttempts", "loaded"},
                 rdConn' = [rdConn EXCEPT ![c] = [op |-> what, arg |-> Null, ids |-> ids, found |-> found]]
          PROVE  rdConn'[c].op \notin {"loadAttempts", "loaded"}
      BY <2>4, <3>1
    <3>2. CASE Rd!LoadIds(c)
      BY <3>1, <3>2 DEF Rd!LoadIds, Rd!Reading
    <3>3. CASE Rd!Return(c) \/ Rd!Abandon(c)
      BY <3>1, <3>3 DEF Rd!Return, Rd!Abandon, Rd!Reading, Rd!Idle
    <3>4. ASSUME NEW ids, Rd!RetryRead(c, ids) PROVE rdConn'[c].op \notin {"loadAttempts", "loaded"}
      <4>1. PICK found : found = Rd!C!FreshRows({row \in parked : row.event \in ids})
        OBVIOUS
      <4>2. rdConn' = [rdConn EXCEPT ![c] = [op |-> "retryParked", arg |-> Null, ids |-> {},
                                             found |-> found]]
        BY <3>4, <4>1 DEF Rd!RetryRead, Rd!Reading
      <4> QED
        BY <2>4, <4>2
    <3>5. ASSUME NEW n, Rd!PruneRead(c, n) PROVE rdConn'[c].op \notin {"loadAttempts", "loaded"}
      BY <3>1, <3>5 DEF Rd!PruneRead, Rd!Reading
    <3> QED
      BY <1>5, <3>2, <3>3, <3>4, <3>5 DEF RdReads
  <2>6. \A d \in RdClient \ {c} : rdConn'[d] = rdConn[d]
    BY <1>5, <2>4 DEF RdReads, Rd!LoadIds, Rd!LoadRows, Rd!LoadAttempts, Rd!Return, Rd!RetryRead,
       Rd!PruneRead, Rd!Abandon, Rd!Reading, Rd!Idle
  <2>7. ASSUME NEW d \in Owner, Rd!Fenced(d), d # c
        PROVE  /\ rdConn'[d].op = "loadAttempts" => rdConn'[d].found \subseteq rows'
               /\ rdConn'[d].op = "loaded" => rdConn'[d].found \subseteq Rd!DecodedOutbox'
    BY <2>2, <2>6, <2>7 DEF Loads, RdClient
  <2>8. ASSUME c \in Owner, Rd!Fenced(c), Rd!LoadRows(c)
        PROVE  /\ rdConn'[c].op = "loadAttempts" /\ rdConn'[c].found \subseteq rows'
    BY <2>2, <2>4, <2>8 DEF Rd!LoadRows, Rd!Reading, RdClient
  <2>9. ASSUME c \in Owner, Rd!Fenced(c), Rd!LoadAttempts(c)
        PROVE  /\ rdConn'[c].op = "loaded" /\ rdConn'[c].found \subseteq Rd!DecodedOutbox'
    <3>1. rdConn[c].found \subseteq rows
      BY <2>9 DEF Loads, Rd!LoadAttempts
    <3>2. rdConn'[c].op = "loaded"
          /\ rdConn'[c].found
               = {[row EXCEPT !.attempts = @ + attempts[row.event]] : row \in rdConn[c].found}
      BY <2>4, <2>9 DEF Rd!LoadAttempts, Rd!Reading, RdClient
    <3>3. Rd!DecodedOutbox' = Decoded(rows, attempts)
      BY <2>2, RowFacts
    <3> QED
      BY <3>1, <3>2, <3>3 DEF Decoded
  <2> QED
    BY <2>3, <2>5, <2>7, <2>8, <2>9 DEF Loads
<1>6. ASSUME NEW c \in Client, UNCHANGED <<meta, rdHeld, rows, pendingIds, attempts>>,
             UNCHANGED rdConn \/ rdConn' = [rdConn EXCEPT ![c] = Rd!Idle]
      PROVE  Loads'
  <2>1. rdConn = [d \in RdClient |-> rdConn[d]]
    BY DEF RedisInv, CallsOK
  <2>2. \A d \in RdClient : rdConn'[d] = rdConn[d] \/ rdConn'[d].op = "none"
    BY <1>6, <2>1 DEF Rd!Idle
  <2>3. \A d \in Owner : (Rd!Fenced(d))' /\ rdConn'[d].op \in {"loadAttempts", "loaded"} =>
          Rd!Fenced(d) /\ rdConn'[d] = rdConn[d]
    BY <1>6, <2>2 DEF Rd!Fenced, RdClient
  <2> QED
    BY <1>1, <1>6, <2>3, LoadsGoOn
<1>7. ASSUME NEW c \in Client, Rd!RetryMove(c)
      PROVE  Loads'
  <2>1. rows \subseteq rows' /\ Rd!DecodedOutbox \subseteq Rd!DecodedOutbox'
    BY <1>7, ApartRetry
  <2>2. UNCHANGED <<meta, rdHeld>> /\ rdConn' = [rdConn EXCEPT ![c] = Rd!Idle]
    BY <1>7 DEF Rd!RetryMove
  <2>3. \A d \in RdClient : rdConn'[d] = rdConn[d] \/ rdConn'[d].op = "none"
    BY <2>2 DEF RedisInv, CallsOK, Rd!Idle
  <2>4. \A d \in Owner : (Rd!Fenced(d))' /\ rdConn'[d].op \in {"loadAttempts", "loaded"} =>
          Rd!Fenced(d) /\ rdConn'[d] = rdConn[d]
    BY <2>2, <2>3 DEF Rd!Fenced, RdClient
  <2> QED
    BY <2>1, <2>4, LoadsGoOn
<1>8. ASSUME NEW c \in Client, Rd!DeleteHashes(c)
      PROVE  Loads'
  <2>1. meta'.lease_owner = NoOwner
    BY <1>8 DEF Rd!DeleteHashes, Rd!EmptyMeta
  <2> QED
    BY <2>1, LeaseFacts DEF Loads, Rd!Fenced
<1>9. CASE Rd!Next
  <2>1. ASSUME NEW c, \/ Rd!CallSaveState(c) \/ Rd!CallCommitPoll(c) \/ Rd!CallDelivered(c)
                      \/ Rd!CallSetValidator(c)
        PROVE  Rd!Script(c)
    BY <2>1 DEF Rd!CallSaveState, Rd!CallCommitPoll, Rd!CallDelivered, Rd!CallSetValidator,
       Rd!SaveState, Rd!CommitPoll, Rd!AckEvents, Rd!RecordAttempt, Rd!ParkEvent, Rd!SetValidator
  <2>2. ASSUME NEW c \in Client,
               \/ Rd!CallSaveStateUnfenced(c)
               \/ \E ids \in SUBSET {row.event : row \in parked} : Rd!DiscardParked(c, ids)
               \/ Rd!ClearItems(c) \/ Rd!PruneRemove(c) \/ Rd!DeleteMember(c)
        PROVE  Loads'
    <3>1. /\ UNCHANGED <<meta, rdHeld, rows, pendingIds, attempts>>
          /\ UNCHANGED rdConn \/ rdConn' = [rdConn EXCEPT ![c] = Rd!Idle]
      BY <2>2 DEF Rd!CallSaveStateUnfenced, Rd!SaveStateUnfenced, Rd!DiscardParked, Rd!ClearItems,
         Rd!PruneRemove, Rd!DeleteMember
    <3> QED
      BY <1>6, <3>1
  <2>3. \/ Rd!Expire
        \/ \E c \in Owner :
             \/ Rd!AcquireLease(c) \/ Rd!RenewLease(c) \/ Rd!RenewRefused(c) \/ Rd!ReleaseLease(c)
             \/ Rd!LeaseLost(c) \/ Rd!CallSaveState(c) \/ Rd!CallCommitPoll(c)
             \/ Rd!CallDelivered(c) \/ Rd!CallSetValidator(c)
        \/ \E c \in Client :
             \/ Rd!CallSaveStateUnfenced(c)
             \/ \E ids \in SUBSET {row.event : row \in parked} : Rd!DiscardParked(c, ids)
             \/ Rd!ClearItems(c) \/ Rd!PruneRemove(c) \/ Rd!DeleteHashes(c) \/ Rd!DeleteMember(c)
             \/ Rd!RetryMove(c)
        \/ \E c \in RdClient : RdReads(c)
    BY <1>9 DEF Rd!Next, RdReads, RdClient
  <2> QED
    BY <1>2, <1>3, <1>4, <1>5, <1>7, <1>8, <2>1, <2>2, <2>3
<1> QED
  BY <1>2, <1>9

-----------------------------------------------------------------------------
(* The theorems about Redis. *)

(* At first the hashes are empty, which decodes to the contract's first    *)
(* state.                                                                  *)
LEMMA RedisBegins ==
  ASSUME Rd!Init, Rd!RedisParameters
  PROVE  RedisInv /\ Apart /\ Loads /\ Rd!C!Init
<1>1. LeaseOK /\ LeaseSeen = Rd!C!NoLease /\ meta.epoch_counter = 0
  BY DEF Rd!Init, Rd!EmptyMeta, LeaseOK, LeaseSeen, Rd!C!NoLease
<1>2. RowsSeen /\ Rd!DecodedOutbox = {} /\ ParkedSeen = {}
  BY DEF Rd!Init, RowsSeen, RowsOK, Rd!IndexSound, Rd!DecodedOutbox, ParkedSeen
<1>3. StateOK /\ StateSeen = Rd!C!InitialState
  BY DEF Rd!Init, StateOK, StateSeen, Rd!C!InitialState
<1>4. CallsOK
  BY DEF Rd!Init, Rd!Idle, CallsOK, CallOK, PruneOK, RdConn, RdClient
<1>5. RedisInv
  BY <1>1, <1>2, <1>3, <1>4 DEF RedisInv
<1>6. Apart /\ Loads
  BY DEF Rd!Init, Apart, Loads, Rd!Idle
<1>7. Rd!C!Init
  BY <1>1, <1>2, <1>3
     DEF Rd!Init, Rd!C!Init, Rd!C!StoreInit, LeaseSeen, StateSeen, ParkedSeen
<1> QED
  BY <1>5, <1>6, <1>7

(* Redis: decoded, the hashes change in whole operations of the contract,  *)
(* as long as what a retryParked has read is still so when it moves it.    *)
THEOREM RedisImplements ==
  ASSUME Rd!RedisParameters
  PROVE  Rd!Spec /\ []RetriesFresh => RedisImplementsContract
<1>1. Rd!Init => RedisInv /\ Rd!C!Init
  BY RedisBegins
<1>2. RedisInv /\ [Rd!Next]_(Rd!vars) => RedisInv'
  BY RedisStep
<1>3. RedisInv /\ RetriesFresh /\ [Rd!Next]_(Rd!vars) => [Rd!C!Next]_(Rd!C!contractVars)
  BY RedisStep DEF ContractStep
<1> QED
  BY <1>1, <1>2, <1>3, PTL DEF Rd!Spec, RedisImplementsContract, Rd!Contract, Rd!C!Spec

(* loadPending, DROP_OUTBOX and PARK_EVENT: if an event id has one number, *)
(* rows read in three commands are pending for a caller that still has the *)
(* lease, rows, index and counters agree, and what a retryParked read      *)
(* stays true.                                                             *)
THEOREM RedisReadsSound ==
  ASSUME Rd!RedisParameters, Rd!OneNumber
  PROVE  Rd!Spec => [](Rd!ReadsSound /\ RetriesFresh)
<1> DEFINE Inv == RedisInv /\ Apart /\ Loads
<1>1. Rd!Init => Inv
  BY RedisBegins
<1>2. Inv /\ [Rd!Next]_(Rd!vars) => Inv'
  BY RedisStep, ApartStep, LoadsStep
<1>3. Inv => Rd!ReadsSound /\ RetriesFresh
  BY RetriesAreFresh DEF Rd!ReadsSound, RedisInv, RowsSeen, Rd!PendingSound, Loads
<1> QED
  BY <1>1, <1>2, <1>3, PTL DEF Rd!Spec

-----------------------------------------------------------------------------
(* PostgreSQL: transactions beside one another.                            *)

(* The rows, committed as they are.                                        *)
Ids(R) == {row.event : row \in R}

FromPgBatch(row) ==
  \E b1 \in PgBatch : \E r \in b1.rows : r.event = row.event /\ r.sequence = row.sequence

RowsOf(event) == {row \in pgOutbox : row.event = event}

PgRows ==
  /\ pgPollers \in Pg!PollersRow \cup {NoRow}
  /\ pgPollers # NoRow /\ pgPollers.lease_owner # NoOwner =>
       pgPollers.lease_epoch \in 1..pgPollers.epoch_counter
  /\ pgHeld \in [Owner -> Nat]
  /\ pgOutbox \subseteq Pg!C!OutboxRow /\ pgParked \subseteq Pg!C!ParkedRow
  /\ \A row \in pgOutbox \cup pgParked : FromPgBatch(row)

(* A transaction: its locks, and what it will write.                       *)
Shape(t) ==
  /\ t = [op |-> t.op, arg |-> t.arg, pc |-> t.pc, locks |-> t.locks, change |-> t.change]
  /\ t.locks = [pollers |-> t.locks.pollers, items |-> t.locks.items, outbox |-> t.locks.outbox,
                parked |-> t.locks.parked]
  /\ t.change = [gone |-> t.change.gone, put |-> t.change.put, unparked |-> t.change.unparked,
                 park |-> t.change.park, state |-> t.change.state]

(* It has locked the rows that it will write or remove.                    *)
Locked(t) ==
  /\ Ids(t.change.gone) \subseteq t.locks.outbox /\ Ids(t.change.put) \subseteq t.locks.outbox
  /\ Ids(t.change.unparked) \subseteq t.locks.parked /\ Ids(t.change.park) \subseteq t.locks.parked

(* Past its first statement it has the key's row, an engine under its      *)
(* lease; only retryParked takes no notice of that row.                    *)
KeyHeld(c, t) ==
  t.op # "retryParked" /\ t.pc \notin {"idle", "lock"} =>
    /\ "key" \in t.locks.pollers /\ pgPollers # NoRow
    /\ c \in Owner => Pg!Mine(c)

(* What the state column is when read and when written.                    *)
Column(t) ==
  /\ t.pc \in {"items", "outbox", "state"} => t.change.state = pgPollers.state
  /\ t.pc = "commit" => t.change.state = Pg!C!Patched(Pg!CommittedState, Pg!PatchOf(t))

OutboxUntouched(t) == t.change.gone = {} /\ t.change.put = {}
ParkedUntouched(t) == t.change.unparked = {} /\ t.change.park = {}

(* What it will write is, of the rows as they are now, what the operation  *)
(* as a whole writes.                                                      *)
EngineStage(t) ==
  \/ /\ t.op = "saveState" /\ t.arg \in Pg!C!Patch /\ t.pc \in {"lock", "state", "commit"}
     /\ OutboxUntouched(t) /\ ParkedUntouched(t) /\ Column(t)
  \/ /\ t.op = "commitPoll" /\ t.arg \in PgBatch
     /\ t.pc \in {"lock", "items", "outbox", "state", "commit"}
     /\ t.change.gone = {} /\ t.change.put = IF t.pc \in {"state", "commit"} THEN t.arg.rows ELSE {}
     /\ ParkedUntouched(t) /\ Column(t)
  \/ /\ t.op = "ackEvents" /\ t.arg \in Pg!C!Event /\ t.pc \in {"lock", "outbox", "commit"}
     /\ t.change.put = {} /\ ParkedUntouched(t)
     /\ t.change.gone = {} \/ (t.pc = "commit" /\ t.change.gone = RowsOf(t.arg))
  \/ /\ t.op = "recordAttempt" /\ t.arg \in Pg!C!Event /\ t.pc \in {"lock", "outbox", "commit"}
     /\ t.change.gone = {} /\ ParkedUntouched(t)
     /\ \/ t.change.put = {}
        \/ /\ t.pc = "commit"
           /\ t.change.put = {[row EXCEPT !.attempts = @ + 1] : row \in RowsOf(t.arg)}
  \/ /\ t.op = "parkEvent" /\ FromPgBatch(t.arg) /\ t.pc \in {"lock", "parked", "outbox", "commit"}
     /\ t.change.put = {} /\ t.change.unparked = {}
     /\ t.change.park = IF t.pc \in {"outbox", "commit"} THEN {Pg!C!ParkedRowOf(t.arg)} ELSE {}
     /\ t.change.gone = IF t.pc = "commit" THEN RowsOf(t.arg.event) ELSE {}
  \/ /\ t.op = "setValidator" /\ t.arg \in Version /\ t.pc \in {"lock", "commit"}
     /\ OutboxUntouched(t) /\ ParkedUntouched(t)

OperatorStage(t) ==
  \/ /\ t.op = "saveStateUnfenced" /\ t.arg \in Pg!C!Patch /\ t.pc \in {"lock", "state", "commit"}
     /\ OutboxUntouched(t) /\ ParkedUntouched(t) /\ Column(t)
  \/ /\ t.op = "retryParked" /\ t.pc \in {"parked", "outbox", "commit"}
     /\ t.change.gone = {} /\ t.change.park = {}
     /\ t.change.unparked = {row \in pgParked : row.event \in Ids(t.change.unparked)}
     /\ t.pc # "outbox" => t.change.put = Pg!C!FreshRows(t.change.unparked)
  \/ /\ t.op = "deleteKey" /\ t.pc \in {"lock", "rows", "commit"}
     /\ t.change.put = {} /\ t.change.park = {}
     /\ t.change.gone = IF t.pc = "commit" THEN pgOutbox ELSE {}
     /\ t.change.unparked = IF t.pc = "commit" THEN pgParked ELSE {}

TxnStage(c, t) ==
  \/ t = Pg!Idle
  \/ c \in Owner /\ EngineStage(t)
  \/ c = Operator /\ OperatorStage(t)

TxnOK(c, t) == Shape(t) /\ Locked(t) /\ KeyHeld(c, t) /\ TxnStage(c, t)

(* No two transactions have locked the same row.                           *)
LocksApart(s, t) ==
  /\ s.locks.pollers \cap t.locks.pollers = {} /\ s.locks.outbox \cap t.locks.outbox = {}
  /\ s.locks.parked \cap t.locks.parked = {}

PgInv ==
  /\ PgRows
  /\ pgConn = [c \in Pg!Caller |-> pgConn[c]]
  /\ \A c \in Pg!Caller : TxnOK(c, pgConn[c])
  /\ \A c, d \in Pg!Caller : c # d => LocksApart(pgConn[c], pgConn[d])

(* A DELETE of clearItems is all its caller does, and will remove what is  *)
(* there and is not late.                                                  *)
ClearInv ==
  pgClearing # {} =>
    /\ pgConn[Operator].pc = "idle"
    /\ pgClearing = {k \in PgIdentity : pgItems[k] # Absent /\ k \notin pgLate}

-----------------------------------------------------------------------------
(* PostgreSQL: what the contract sees.                                     *)

PgLease == IF pgPollers = NoRow \/ pgPollers.lease_owner = NoOwner
           THEN [owner |-> NoOwner, epoch |-> 0, live |-> FALSE]
           ELSE [owner |-> pgPollers.lease_owner, epoch |-> pgPollers.lease_epoch,
                 live |-> pgPollers.live]

PgCounter == IF pgPollers = NoRow THEN 0 ELSE pgPollers.epoch_counter

PgState == IF pgPollers = NoRow \/ pgPollers.state = Null
           THEN [cursor |-> 0, sequence |-> 0, paused |-> FALSE]
           ELSE pgPollers.state

PgStep == [Pg!C!Next \/ Pg!LateClear]_(Pg!C!contractVars)

PgTables == <<pgPollers, pgItems, pgOutbox, pgParked, pgLog, pgValidator>>

(* A step that leaves the tables alone stutters in the contract.           *)
LEMMA PgStutters ==
  ASSUME UNCHANGED <<PgTables, pgWriter>>
  PROVE  PgStep
<1>1. UNCHANGED Pg!C!contractVars
  BY DEF PgTables, Pg!C!contractVars, Pg!C!storeVars
<1> QED
  BY <1>1 DEF PgStep

(* The callers, and what they call.                                        *)
LEMMA PgCallers ==
  ASSUME Pg!PostgresParameters
  PROVE  Pg!Caller = Owner \cup {Operator} /\ Operator \notin Owner
BY DEF Pg!Caller, Pg!PostgresParameters

(* The names of the locks are fields.                                      *)
LEMMA LockFields ==
  ASSUME NEW c, Shape(pgConn[c]), NEW ids
  PROVE  /\ Pg!Locking(c, "pollers", ids) =
              [pollers |-> pgConn[c].locks.pollers \cup ids, items |-> pgConn[c].locks.items,
               outbox |-> pgConn[c].locks.outbox, parked |-> pgConn[c].locks.parked]
         /\ Pg!Locking(c, "items", ids) =
              [pollers |-> pgConn[c].locks.pollers, items |-> pgConn[c].locks.items \cup ids,
               outbox |-> pgConn[c].locks.outbox, parked |-> pgConn[c].locks.parked]
         /\ Pg!Locking(c, "outbox", ids) =
              [pollers |-> pgConn[c].locks.pollers, items |-> pgConn[c].locks.items,
               outbox |-> pgConn[c].locks.outbox \cup ids, parked |-> pgConn[c].locks.parked]
         /\ Pg!Locking(c, "parked", ids) =
              [pollers |-> pgConn[c].locks.pollers, items |-> pgConn[c].locks.items,
               outbox |-> pgConn[c].locks.outbox, parked |-> pgConn[c].locks.parked \cup ids]
<1>1. PICK x : x = pgConn[c].locks
  OBVIOUS
<1>2. x = [pollers |-> x.pollers, items |-> x.items, outbox |-> x.outbox, parked |-> x.parked]
  BY <1>1 DEF Shape
<1>3. ASSUME NEW y
      PROVE  /\ [x EXCEPT !.pollers = y] =
                  [pollers |-> y, items |-> x.items, outbox |-> x.outbox, parked |-> x.parked]
             /\ [x EXCEPT !.items = y] =
                  [pollers |-> x.pollers, items |-> y, outbox |-> x.outbox, parked |-> x.parked]
             /\ [x EXCEPT !.outbox = y] =
                  [pollers |-> x.pollers, items |-> x.items, outbox |-> y, parked |-> x.parked]
             /\ [x EXCEPT !.parked = y] =
                  [pollers |-> x.pollers, items |-> x.items, outbox |-> x.outbox, parked |-> y]
  BY <1>2
<1>4. \A table : Pg!Locking(c, table, ids) = [x EXCEPT ![table] = x[table] \cup ids]
  BY <1>1 DEF Pg!Locking
<1>5. /\ Pg!Locking(c, "pollers", ids) = [x EXCEPT !.pollers = x.pollers \cup ids]
      /\ Pg!Locking(c, "items", ids) = [x EXCEPT !.items = x.items \cup ids]
      /\ Pg!Locking(c, "outbox", ids) = [x EXCEPT !.outbox = x.outbox \cup ids]
      /\ Pg!Locking(c, "parked", ids) = [x EXCEPT !.parked = x.parked \cup ids]
  BY <1>4
<1> QED
  BY <1>1, <1>3, <1>5

(* So are those of a change.                                               *)
LEMMA ChangeFields ==
  ASSUME NEW t, Shape(t), NEW v
  PROVE  /\ [t.change EXCEPT !.state = v] =
              [gone |-> t.change.gone, put |-> t.change.put, unparked |-> t.change.unparked,
               park |-> t.change.park, state |-> v]
         /\ [t.change EXCEPT !.put = v] =
              [gone |-> t.change.gone, put |-> v, unparked |-> t.change.unparked,
               park |-> t.change.park, state |-> t.change.state]
         /\ [t.change EXCEPT !.gone = v] =
              [gone |-> v, put |-> t.change.put, unparked |-> t.change.unparked,
               park |-> t.change.park, state |-> t.change.state]
         /\ [t.change EXCEPT !.park = v] =
              [gone |-> t.change.gone, put |-> t.change.put, unparked |-> t.change.unparked,
               park |-> v, state |-> t.change.state]
         /\ [t.change EXCEPT !.unparked = v] =
              [gone |-> t.change.gone, put |-> t.change.put, unparked |-> v,
               park |-> t.change.park, state |-> t.change.state]
<1>1. PICK x : x = t.change
  OBVIOUS
<1>2. x = [gone |-> x.gone, put |-> x.put, unparked |-> x.unparked, park |-> x.park,
           state |-> x.state]
  BY <1>1 DEF Shape
<1> QED
  BY <1>1, <1>2

(* One transaction goes on, begins or ends without a trace in the tables.  *)
LEMMA TxnMoves ==
  ASSUME PgInv, NEW c \in Pg!Caller, NEW t, pgConn' = [pgConn EXCEPT ![c] = t], TxnOK(c, t),
         \A d \in Pg!Caller \ {c} : LocksApart(pgConn[d], t) /\ LocksApart(t, pgConn[d]),
         UNCHANGED <<PgTables, pgWriter>>,
         pgHeld' \in [Owner -> Nat],
         \A d \in Owner \ {c} : pgHeld'[d] = pgHeld[d],
         c \in Owner => pgHeld'[c] = pgHeld[c] \/ t = Pg!Idle
  PROVE  PgInv' /\ PgStep
<1>1. \A d \in Pg!Caller : pgConn'[d] = IF d = c THEN t ELSE pgConn[d]
  BY DEF PgInv
<1>2. pgConn' = [d \in Pg!Caller |-> pgConn'[d]]
  BY DEF PgInv
<1>3. PgRows'
  BY DEF PgInv, PgRows, PgTables, FromPgBatch
<1>4. ASSUME NEW d \in Pg!Caller, NEW x, TxnOK(d, x), d \in Owner => pgHeld'[d] = pgHeld[d] \/ x =
               Pg!Idle
      PROVE  TxnOK(d, x)'
  <2>1. UNCHANGED <<pgPollers, pgOutbox, pgParked>>
    BY DEF PgTables
  <2>2. TxnStage(d, x)'
    <3>1. Column(x)' <=> Column(x)
      BY <2>1 DEF Column, Pg!CommittedState, Pg!PatchOf, Pg!C!Patched
    <3>2. \A e : RowsOf(e)' = RowsOf(e)
      BY <2>1 DEF RowsOf
    <3>3. EngineStage(x) => EngineStage(x)'
      BY <3>1, <3>2 DEF EngineStage, OutboxUntouched, ParkedUntouched, FromPgBatch, Pg!C!ParkedRowOf,
         Pg!C!Patch, Pg!C!Event
    <3>4. OperatorStage(x) => OperatorStage(x)'
      BY <2>1, <3>1 DEF OperatorStage, OutboxUntouched, ParkedUntouched, Pg!C!FreshRows,
        Pg!C!Patch, Ids
    <3> QED
      BY <1>4, <3>3, <3>4 DEF TxnOK, TxnStage, Pg!Idle, Pg!NoLocks, Pg!NoChange
  <2>3. KeyHeld(d, x)'
    <3>1. CASE x = Pg!Idle
      BY <3>1 DEF KeyHeld, Pg!Idle
    <3>2. CASE d \in Owner => pgHeld'[d] = pgHeld[d]
      BY <1>4, <2>1, <3>2 DEF TxnOK, KeyHeld, Pg!Mine
    <3> QED
      BY <1>4, <3>1, <3>2
  <2> QED
    BY <1>4, <2>2, <2>3 DEF TxnOK, Shape, Locked
<1>5. \A d \in Pg!Caller : TxnOK(d, pgConn[d])'
  <2> SUFFICES ASSUME NEW d \in Pg!Caller PROVE TxnOK(d, pgConn[d])'
    OBVIOUS
  <2>1. PICK x : x = pgConn'[d]
    OBVIOUS
  <2>2. TxnOK(d, x)
    BY <1>1, <2>1 DEF PgInv
  <2>3. d \in Owner => pgHeld'[d] = pgHeld[d] \/ x = Pg!Idle
    BY <1>1, <2>1
  <2>4. TxnOK(d, x)'
    BY <1>4, <2>2, <2>3
  <2> QED
    BY <2>1, <2>4
<1>6. \A d, e \in Pg!Caller : d # e => LocksApart(pgConn[d], pgConn[e])'
  <2> SUFFICES ASSUME NEW d \in Pg!Caller, NEW e \in Pg!Caller, d # e
               PROVE  LocksApart(pgConn[d], pgConn[e])'
    OBVIOUS
  <2>1. LocksApart(IF d = c THEN t ELSE pgConn[d], IF e = c THEN t ELSE pgConn[e])
    BY DEF PgInv
  <2> QED
    BY <1>1, <2>1 DEF LocksApart
<1>7. PgStep
  BY PgStutters
<1> QED
  BY <1>2, <1>3, <1>5, <1>6, <1>7 DEF PgInv

(* A transaction as its five fields.                                       *)
Txn(o, x, p, ls, ch) == [op |-> o, arg |-> x, pc |-> p, locks |-> ls, change |-> ch]

(* What a statement leaves of a transaction.                               *)
LEMMA Continues ==
  ASSUME PgInv, NEW c \in Pg!Caller, NEW p, NEW ls, NEW ch, Pg!Continue(c, p, ls, ch)
  PROVE  /\ pgConn' = [pgConn EXCEPT ![c] = Txn(pgConn[c].op, pgConn[c].arg, p, ls, ch)]
         /\ UNCHANGED <<PgTables, pgWriter, pgHeld>>
<1>1. PICK t : t = pgConn[c]
  OBVIOUS
<1>2. Shape(t)
  BY <1>1 DEF PgInv, TxnOK
<1>3. [t EXCEPT !.pc = p, !.locks = ls, !.change = ch] = Txn(t.op, t.arg, p, ls, ch)
  <2>1. t = [op |-> t.op, arg |-> t.arg, pc |-> t.pc, locks |-> t.locks, change |-> t.change]
    BY <1>2 DEF Shape
  <2>2. PICK o, x, q, l, h : t = [op |-> o, arg |-> x, pc |-> q, locks |-> l, change |-> h]
    BY <2>1
  <2>3. [t EXCEPT !.pc = p] = [op |-> o, arg |-> x, pc |-> p, locks |-> l, change |-> h]
    BY <2>2
  <2>4. [[op |-> o, arg |-> x, pc |-> p, locks |-> l, change |-> h] EXCEPT !.locks = ls]
        = [op |-> o, arg |-> x, pc |-> p, locks |-> ls, change |-> h]
    OBVIOUS
  <2>5. [[op |-> o, arg |-> x, pc |-> p, locks |-> ls, change |-> h] EXCEPT !.change = ch]
        = [op |-> o, arg |-> x, pc |-> p, locks |-> ls, change |-> ch]
    OBVIOUS
  <2>6. [t EXCEPT !.pc = p, !.locks = ls, !.change = ch]
        = [op |-> o, arg |-> x, pc |-> p, locks |-> ls, change |-> ch]
    BY <2>3, <2>4, <2>5
  <2> QED
    BY <2>2, <2>6 DEF Txn
<1>4. pgConn' = [pgConn EXCEPT ![c] = [t EXCEPT !.pc = p, !.locks = ls, !.change = ch]]
  BY <1>1, <1>2 DEF Pg!Continue, PgInv
<1> QED
  BY <1>1, <1>3, <1>4 DEF Pg!Continue, PgTables

(* Locks that are free stay apart from those of others when taken.         *)
LEMMA LocksGrow ==
  ASSUME PgInv, NEW c \in Pg!Caller, NEW t, NEW table \in {"pollers", "items", "outbox", "parked"},
         NEW ids, Pg!Unlocked(c, table, ids), t.locks = Pg!Locking(c, table, ids)
  PROVE  \A d \in Pg!Caller \ {c} : LocksApart(pgConn[d], t) /\ LocksApart(t, pgConn[d])
<1> SUFFICES ASSUME NEW d \in Pg!Caller, d # c
             PROVE  LocksApart(pgConn[d], t) /\ LocksApart(t, pgConn[d])
  OBVIOUS
<1>1. Shape(pgConn[c]) /\ LocksApart(pgConn[d], pgConn[c])
  BY DEF PgInv, TxnOK
<1>2. pgConn[d].locks[table] \cap ids = {}
  BY DEF Pg!Unlocked
<1>3. pgConn[d].locks.pollers \cap t.locks.pollers = {}
  BY <1>1, <1>2, LockFields DEF LocksApart
<1>4. pgConn[d].locks.outbox \cap t.locks.outbox = {}
  BY <1>1, <1>2, LockFields DEF LocksApart
<1>5. pgConn[d].locks.parked \cap t.locks.parked = {}
  BY <1>1, <1>2, LockFields DEF LocksApart
<1> QED
  BY <1>3, <1>4, <1>5 DEF LocksApart

(* A statement that takes free locks, or none.                             *)
LEMMA ContinueMoves ==
  ASSUME PgInv, NEW c \in Pg!Caller, NEW p, NEW ls, NEW ch, Pg!Continue(c, p, ls, ch),
         TxnOK(c, Txn(pgConn[c].op, pgConn[c].arg, p, ls, ch)),
         \/ ls = pgConn[c].locks
         \/ \E table \in {"pollers", "items", "outbox", "parked"} : \E ids :
              Pg!Unlocked(c, table, ids) /\ ls = Pg!Locking(c, table, ids)
  PROVE  PgInv' /\ PgStep
<1>1. PICK t : t = Txn(pgConn[c].op, pgConn[c].arg, p, ls, ch)
  OBVIOUS
<1>2. t.locks = ls
  BY <1>1 DEF Txn
<1>3. \A d \in Pg!Caller \ {c} : LocksApart(pgConn[d], t) /\ LocksApart(t, pgConn[d])
  <2>1. CASE ls = pgConn[c].locks
    BY <1>2, <2>1 DEF PgInv, LocksApart
  <2> QED
    BY <1>2, <2>1, LocksGrow
<1>4. pgConn' = [pgConn EXCEPT ![c] = t] /\ UNCHANGED <<PgTables, pgWriter, pgHeld>>
  BY <1>1, Continues
<1>5. pgHeld' \in [Owner -> Nat]
  BY <1>4 DEF PgInv, PgRows
<1>6. TxnOK(c, t)
  BY <1>1
<1> QED
  BY <1>3, <1>4, <1>5, <1>6, TxnMoves

(* Idle: nothing locked, nothing to write.                                 *)
LEMMA IdleOK ==
  ASSUME NEW c
  PROVE  TxnOK(c, Pg!Idle)
<1>1. Shape(Pg!Idle) /\ Locked(Pg!Idle)
  BY DEF Pg!Idle, Pg!NoLocks, Pg!NoChange, Shape, Locked, Ids
<1>2. KeyHeld(c, Pg!Idle) /\ TxnStage(c, Pg!Idle)
  BY DEF Pg!Idle, KeyHeld, TxnStage
<1> QED
  BY <1>1, <1>2 DEF TxnOK

(* And it is apart from all others.                                        *)
LEMMA IdleApart ==
  ASSUME NEW t, t.locks = Pg!NoLocks, NEW s
  PROVE  LocksApart(t, s) /\ LocksApart(s, t)
BY DEF LocksApart, Pg!NoLocks

(* ROLLBACK, and a lost fence.                                             *)
LEMMA RollbackStep ==
  ASSUME PgInv, NEW c \in Pg!Caller, Pg!Rollback(c) \/ (c \in Owner /\ Pg!LeaseLost(c))
  PROVE  PgInv' /\ PgStep
<1>1. pgConn' = [pgConn EXCEPT ![c] = Pg!Idle] /\ UNCHANGED <<PgTables, pgWriter>>
  BY DEF Pg!Rollback, Pg!LeaseLost, PgTables
<1>2. pgHeld \in [Owner -> Nat]
  BY DEF PgInv, PgRows
<1>3. pgHeld' \in [Owner -> Nat] /\ \A d \in Owner \ {c} : pgHeld'[d] = pgHeld[d]
  BY <1>2 DEF Pg!Rollback, Pg!LeaseLost
<1>4. Pg!Idle.locks = Pg!NoLocks
  BY DEF Pg!Idle
<1>5. \A d \in Pg!Caller : LocksApart(pgConn[d], Pg!Idle) /\ LocksApart(Pg!Idle, pgConn[d])
  BY <1>4, IdleApart
<1> QED
  BY <1>1, <1>3, <1>5, IdleOK, TxnMoves

(* A call's record as it begins.                                           *)
LEMMA BegunTxn ==
  ASSUME NEW o, NEW x, NEW p
  PROVE  [Pg!Idle EXCEPT !.op = o, !.arg = x, !.pc = p] = Txn(o, x, p, Pg!NoLocks, Pg!NoChange)
<1>1. [Pg!Idle EXCEPT !.op = o]
      = [op |-> o, arg |-> Null, pc |-> "idle", locks |-> Pg!NoLocks, change |-> Pg!NoChange]
  BY DEF Pg!Idle
<1>2. [[op |-> o, arg |-> Null, pc |-> "idle", locks |-> Pg!NoLocks, change |-> Pg!NoChange]
         EXCEPT !.arg = x]
      = [op |-> o, arg |-> x, pc |-> "idle", locks |-> Pg!NoLocks, change |-> Pg!NoChange]
  OBVIOUS
<1>3. [[op |-> o, arg |-> x, pc |-> "idle", locks |-> Pg!NoLocks, change |-> Pg!NoChange]
         EXCEPT !.pc = p]
      = [op |-> o, arg |-> x, pc |-> p, locks |-> Pg!NoLocks, change |-> Pg!NoChange]
  OBVIOUS
<1> QED
  BY <1>1, <1>2, <1>3 DEF Txn

(* A row that a batch wrote is about one of the batches' events.           *)
LEMMA PgEvent ==
  ASSUME NEW row, FromPgBatch(row)
  PROVE  row.event \in Pg!C!Event
BY DEF FromPgBatch, Pg!C!Event

(* BEGIN.                                                                  *)
LEMMA BeginMoves ==
  ASSUME PgInv, NEW c \in Pg!Caller, NEW o, NEW x, NEW p, Pg!Begin(c, o, x, p),
         p = "lock" \/ o = "retryParked",
         TxnStage(c, Txn(o, x, p, Pg!NoLocks, Pg!NoChange))
  PROVE  PgInv' /\ PgStep
<1>1. PICK t : t = Txn(o, x, p, Pg!NoLocks, Pg!NoChange)
  OBVIOUS
<1>2. pgConn' = [pgConn EXCEPT ![c] = t] /\ UNCHANGED <<PgTables, pgWriter, pgHeld>>
  BY <1>1, BegunTxn DEF Pg!Begin, PgTables
<1>3. t.op = o /\ t.arg = x /\ t.pc = p /\ t.locks = Pg!NoLocks /\ t.change = Pg!NoChange
  BY <1>1 DEF Txn
<1>4. Shape(t)
  BY <1>1, <1>3 DEF Shape, Txn, Pg!NoLocks, Pg!NoChange
<1>5. Locked(t)
  BY <1>3 DEF Locked, Ids, Pg!NoChange
<1>6. KeyHeld(c, t)
  BY <1>3 DEF KeyHeld
<1>7. TxnOK(c, t)
  BY <1>1, <1>4, <1>5, <1>6 DEF TxnOK
<1>8. \A d \in Pg!Caller : LocksApart(pgConn[d], t) /\ LocksApart(t, pgConn[d])
  BY <1>3, IdleApart
<1>9. pgHeld' \in [Owner -> Nat]
  BY <1>2 DEF PgInv, PgRows
<1> QED
  BY <1>2, <1>7, <1>8, <1>9, TxnMoves

(* At the lock nothing has been done yet.                                  *)
LEMMA StageAtLock ==
  ASSUME NEW o, NEW x, NEW t, t = Txn(o, x, "lock", Pg!NoLocks, Pg!NoChange)
  PROVE  /\ o = "saveState" /\ x \in Pg!C!Patch => EngineStage(t)
         /\ o = "commitPoll" /\ x \in PgBatch => EngineStage(t)
         /\ o \in {"ackEvents", "recordAttempt"} /\ x \in Pg!C!Event => EngineStage(t)
         /\ o = "parkEvent" /\ FromPgBatch(x) => EngineStage(t)
         /\ o = "setValidator" /\ x \in Version => EngineStage(t)
         /\ o = "saveStateUnfenced" /\ x \in Pg!C!Patch => OperatorStage(t)
         /\ o = "deleteKey" => OperatorStage(t)
<1>1. t.op = o /\ t.arg = x /\ t.pc = "lock" /\ t.change = Pg!NoChange
  BY DEF Txn
<1>2. t.change.gone = {} /\ t.change.put = {} /\ t.change.unparked = {} /\ t.change.park = {}
  BY <1>1 DEF Pg!NoChange
<1>3. Column(t) /\ OutboxUntouched(t) /\ ParkedUntouched(t)
  BY <1>1, <1>2 DEF Column, OutboxUntouched, ParkedUntouched
<1>4. o = "saveState" /\ x \in Pg!C!Patch => EngineStage(t)
  BY <1>1, <1>3 DEF EngineStage
<1>5. o = "commitPoll" /\ x \in PgBatch => EngineStage(t)
  BY <1>1, <1>2, <1>3 DEF EngineStage
<1>6. o \in {"ackEvents", "recordAttempt"} /\ x \in Pg!C!Event => EngineStage(t)
  BY <1>1, <1>2, <1>3 DEF EngineStage
<1>7. o = "parkEvent" /\ FromPgBatch(x) => EngineStage(t)
  BY <1>1, <1>2, <1>3 DEF EngineStage
<1>8. o = "setValidator" /\ x \in Version => EngineStage(t)
  BY <1>1, <1>3 DEF EngineStage
<1>9. o = "saveStateUnfenced" /\ x \in Pg!C!Patch => OperatorStage(t)
  BY <1>1, <1>3 DEF OperatorStage
<1>10. o = "deleteKey" => OperatorStage(t)
  BY <1>1, <1>2 DEF OperatorStage
<1> QED
  BY <1>4, <1>5, <1>6, <1>7, <1>8, <1>9, <1>10

(* An engine begins a transaction.                                         *)
LEMMA EngineBegins ==
  ASSUME PgInv, Pg!PostgresParameters, NEW c \in Owner, Pg!EngineCalls(c)
  PROVE  PgInv' /\ PgStep
<1>1. c \in Pg!Caller
  BY PgCallers
<1>2. PICK o, x : /\ Pg!Begin(c, o, x, "lock")
                  /\ \/ o = "saveState" /\ x \in Pg!C!Patch
                     \/ o = "commitPoll" /\ x \in PgBatch
                     \/ o \in {"ackEvents", "recordAttempt"} /\ \E row \in pgOutbox : x = row.event
                     \/ o = "parkEvent" /\ x \in pgOutbox
                     \/ o = "setValidator" /\ x \in Version
  BY DEF Pg!EngineCalls
<1>3. \A row \in pgOutbox : FromPgBatch(row) /\ row.event \in Pg!C!Event
  BY PgEvent DEF PgInv, PgRows
<1>4. EngineStage(Txn(o, x, "lock", Pg!NoLocks, Pg!NoChange))
  BY <1>2, <1>3, StageAtLock
<1>5. TxnStage(c, Txn(o, x, "lock", Pg!NoLocks, Pg!NoChange))
  BY <1>4 DEF TxnStage
<1> QED
  BY <1>1, <1>2, <1>5, BeginMoves

(* The operator begins one.                                                *)
LEMMA OperatorBegins ==
  ASSUME PgInv, Pg!PostgresParameters, NEW x,
         \/ Pg!Begin(Operator, "saveStateUnfenced", x, "lock") /\ x \in Pg!C!Patch
         \/ Pg!Begin(Operator, "retryParked", x, "parked")
         \/ Pg!Begin(Operator, "deleteKey", x, "lock")
  PROVE  PgInv' /\ PgStep
<1>1. Operator \in Pg!Caller
  BY PgCallers
<1>2. ASSUME NEW t, t = Txn("retryParked", x, "parked", Pg!NoLocks, Pg!NoChange)
      PROVE  OperatorStage(t)
  <2>1. t.op = "retryParked" /\ t.pc = "parked" /\ t.change = Pg!NoChange
    BY <1>2 DEF Txn
  <2>2. t.change.gone = {} /\ t.change.put = {} /\ t.change.unparked = {} /\ t.change.park = {}
    BY <2>1 DEF Pg!NoChange
  <2>3. Ids(t.change.unparked) = {} /\ Pg!C!FreshRows(t.change.unparked) = {}
    BY <2>2 DEF Ids, Pg!C!FreshRows
  <2> QED
    BY <2>1, <2>2, <2>3 DEF OperatorStage
<1>3. CASE Pg!Begin(Operator, "retryParked", x, "parked")
  BY <1>1, <1>2, <1>3, BeginMoves DEF TxnStage
<1>4. CASE Pg!Begin(Operator, "saveStateUnfenced", x, "lock") /\ x \in Pg!C!Patch
  BY <1>1, <1>4, BeginMoves, StageAtLock DEF TxnStage
<1>5. CASE Pg!Begin(Operator, "deleteKey", x, "lock")
  BY <1>1, <1>5, BeginMoves, StageAtLock DEF TxnStage
<1> QED
  BY <1>3, <1>4, <1>5

(* What a statement makes of a transaction has its shape.                  *)
LEMMA MovedShape ==
  ASSUME NEW c, Shape(pgConn[c]), NEW o, NEW x, NEW p, NEW ls, NEW ch,
         \/ ls = pgConn[c].locks
         \/ \E table \in {"pollers", "items", "outbox", "parked"} : \E ids : ls = Pg!Locking(c,
              table, ids),
         \/ ch = pgConn[c].change
         \/ \E v : \/ ch = [pgConn[c].change EXCEPT !.state = v]
                   \/ ch = [pgConn[c].change EXCEPT !.put = v]
                   \/ ch = [pgConn[c].change EXCEPT !.gone = v]
                   \/ ch = [pgConn[c].change EXCEPT !.park = v]
                   \/ ch = [pgConn[c].change EXCEPT !.unparked = v]
  PROVE  Shape(Txn(o, x, p, ls, ch))
<1>1. \E lp, li, lo, lk : ls = [pollers |-> lp, items |-> li, outbox |-> lo, parked |-> lk]
  <2>1. CASE ls = pgConn[c].locks
    BY <2>1 DEF Shape
  <2>2. CASE \E table \in {"pollers", "items", "outbox", "parked"} : \E ids : ls = Pg!Locking(c,
               table, ids)
    BY <2>2, LockFields
  <2> QED
    BY <2>1, <2>2
<1>2. \E g, w, u, k, s : ch = [gone |-> g, put |-> w, unparked |-> u, park |-> k, state |-> s]
  <2>1. CASE ch = pgConn[c].change
    BY <2>1 DEF Shape
  <2> QED
    BY <2>1, ChangeFields
<1>3. ls = [pollers |-> ls.pollers, items |-> ls.items, outbox |-> ls.outbox, parked |-> ls.parked]
  BY <1>1
<1>4. ch = [gone |-> ch.gone, put |-> ch.put, unparked |-> ch.unparked, park |-> ch.park,
            state |-> ch.state]
  BY <1>2
<1>5. PICK t : t = Txn(o, x, p, ls, ch)
  OBVIOUS
<1>6. t = [op |-> o, arg |-> x, pc |-> p, locks |-> ls, change |-> ch]
  BY <1>5 DEF Txn
<1>7. t.op = o /\ t.arg = x /\ t.pc = p /\ t.locks = ls /\ t.change = ch
  BY <1>6
<1> QED
  BY <1>3, <1>4, <1>5, <1>6, <1>7 DEF Shape

(* An engine's transaction.                                                *)
LEMMA EngineOpen ==
  ASSUME PgInv, Pg!PostgresParameters, NEW c \in Owner, pgConn[c].pc # "idle"
  PROVE  /\ c \in Pg!Caller
         /\ Shape(pgConn[c]) /\ Locked(pgConn[c]) /\ KeyHeld(c, pgConn[c]) /\ EngineStage(pgConn[c])
<1>1. c \in Pg!Caller /\ c # Operator
  BY PgCallers
<1> QED
  BY <1>1 DEF PgInv, TxnOK, TxnStage, Pg!Idle

(* The operator's.                                                         *)
LEMMA OperatorOpen ==
  ASSUME PgInv, Pg!PostgresParameters, pgConn[Operator].pc # "idle"
  PROVE  /\ Operator \in Pg!Caller
         /\ Shape(pgConn[Operator]) /\ Locked(pgConn[Operator]) /\ KeyHeld(Operator,
              pgConn[Operator])
         /\ OperatorStage(pgConn[Operator])
<1>1. Operator \in Pg!Caller /\ Operator \notin Owner
  BY PgCallers
<1> QED
  BY <1>1 DEF PgInv, TxnOK, TxnStage, Pg!Idle

(* fenced(): under the lease, and with the state as it is.                 *)
LEMMA FencedStep ==
  ASSUME PgInv, Pg!PostgresParameters, NEW c \in Owner, Pg!Fenced(c, Pg!AfterLock(pgConn[c].op))
  PROVE  PgInv' /\ PgStep
<1>1. pgConn[c].pc = "lock" /\ Pg!Mine(c) /\ Pg!Unlocked(c, "pollers", Pg!Key)
  BY DEF Pg!Fenced
<1>2. /\ c \in Pg!Caller /\ Shape(pgConn[c]) /\ Locked(pgConn[c]) /\ EngineStage(pgConn[c])
  BY <1>1, EngineOpen
<1> DEFINE o == pgConn[c].op
           x == pgConn[c].arg
           p == Pg!AfterLock(o)
           ls == Pg!Locking(c, "pollers", Pg!Key)
           ch == [pgConn[c].change EXCEPT !.state = pgPollers.state]
<1>3. PICK t : t = Txn(o, x, p, ls, ch)
  OBVIOUS
<1>4. t.op = o /\ t.arg = x /\ t.pc = p /\ t.locks = ls /\ t.change = ch
  BY <1>3 DEF Txn
<1>5. Shape(t)
  BY <1>2, <1>3, MovedShape
<1>6. /\ t.locks.outbox = pgConn[c].locks.outbox /\ t.locks.parked = pgConn[c].locks.parked
      /\ "key" \in t.locks.pollers
  BY <1>2, <1>4, LockFields DEF Pg!Key
<1>7. /\ t.change.gone = pgConn[c].change.gone /\ t.change.put = pgConn[c].change.put
      /\ t.change.unparked = pgConn[c].change.unparked /\ t.change.park = pgConn[c].change.park
      /\ t.change.state = pgPollers.state
  BY <1>2, <1>4, ChangeFields
<1>8. Locked(t)
  BY <1>2, <1>6, <1>7 DEF Locked
<1>9. KeyHeld(c, t)
  BY <1>1, <1>6 DEF KeyHeld, Pg!Mine
<1>10. EngineStage(t)
  <2>1. CASE o = "saveState"
    BY <1>1, <1>2, <1>4, <1>7, <2>1 DEF EngineStage, Pg!AfterLock, Column, OutboxUntouched,
      ParkedUntouched
  <2>2. CASE o = "commitPoll"
    BY <1>1, <1>2, <1>4, <1>7, <2>2 DEF EngineStage, Pg!AfterLock, Column, OutboxUntouched,
      ParkedUntouched
  <2>3. CASE o = "ackEvents"
    BY <1>1, <1>2, <1>4, <1>7, <2>3 DEF EngineStage, Pg!AfterLock, OutboxUntouched, ParkedUntouched
  <2>4. CASE o = "recordAttempt"
    BY <1>1, <1>2, <1>4, <1>7, <2>4 DEF EngineStage, Pg!AfterLock, OutboxUntouched, ParkedUntouched
  <2>5. CASE o = "parkEvent"
    BY <1>1, <1>2, <1>4, <1>7, <2>5 DEF EngineStage, Pg!AfterLock, OutboxUntouched, ParkedUntouched
  <2>6. CASE o = "setValidator"
    BY <1>1, <1>2, <1>4, <1>7, <2>6 DEF EngineStage, Pg!AfterLock, OutboxUntouched, ParkedUntouched
  <2> QED
    BY <1>2, <2>1, <2>2, <2>3, <2>4, <2>5, <2>6 DEF EngineStage
<1>11. TxnOK(c, Txn(o, x, p, ls, ch))
  BY <1>3, <1>5, <1>8, <1>9, <1>10 DEF TxnOK, TxnStage
<1>12. Pg!Continue(c, p, ls, ch)
  BY DEF Pg!Fenced
<1> QED
  BY <1>1, <1>2, <1>11, <1>12, ContinueMoves

(* commitPoll, the snapshot rows.                                          *)
LEMMA CommitItemsStep ==
  ASSUME PgInv, Pg!PostgresParameters, NEW c \in Owner, Pg!CommitItems(c)
  PROVE  PgInv' /\ PgStep
<1> DEFINE touched == pgConn[c].arg.deletes \cup {row.event.subject : row \in pgConn[c].arg.rows}
           ls == Pg!Locking(c, "items", touched)
           ch == pgConn[c].change
<1>1. /\ pgConn[c].op = "commitPoll" /\ pgConn[c].pc = "items"
      /\ Pg!Unlocked(c, "items", touched) /\ Pg!Continue(c, "outbox", ls, ch)
  BY DEF Pg!CommitItems
<1>2. /\ c \in Pg!Caller /\ Shape(pgConn[c]) /\ Locked(pgConn[c]) /\ EngineStage(pgConn[c])
      /\ KeyHeld(c, pgConn[c])
  BY <1>1, EngineOpen
<1>3. PICK t : t = Txn(pgConn[c].op, pgConn[c].arg, "outbox", ls, ch)
  OBVIOUS
<1>4. t.op = "commitPoll" /\ t.arg = pgConn[c].arg /\ t.pc = "outbox" /\ t.locks = ls /\ t.change =
        ch
  BY <1>1, <1>3 DEF Txn
<1>5. Shape(t)
  BY <1>2, <1>3, MovedShape
<1>6. /\ t.locks.outbox = pgConn[c].locks.outbox /\ t.locks.parked = pgConn[c].locks.parked
      /\ t.locks.pollers = pgConn[c].locks.pollers
  BY <1>2, <1>4, LockFields
<1>7. Locked(t) /\ KeyHeld(c, t)
  BY <1>1, <1>2, <1>4, <1>6 DEF Locked, KeyHeld
<1>8. EngineStage(t)
  BY <1>1, <1>2, <1>4 DEF EngineStage, Column, ParkedUntouched
<1>9. TxnOK(c, Txn(pgConn[c].op, pgConn[c].arg, "outbox", ls, ch))
  BY <1>3, <1>5, <1>7, <1>8 DEF TxnOK, TxnStage
<1> QED
  BY <1>1, <1>2, <1>9, ContinueMoves

(* commitPoll, the outbox rows.                                            *)
LEMMA CommitOutboxStep ==
  ASSUME PgInv, Pg!PostgresParameters, NEW c \in Owner, Pg!CommitOutbox(c)
  PROVE  PgInv' /\ PgStep
<1> DEFINE new == pgConn[c].arg.rows
           ls == Pg!Locking(c, "outbox", Ids(new))
           ch == [pgConn[c].change EXCEPT !.put = new]
<1>1. /\ pgConn[c].op = "commitPoll" /\ pgConn[c].pc = "outbox"
      /\ Pg!Unlocked(c, "outbox", Ids(new)) /\ Pg!Continue(c, "state", ls, ch)
  BY DEF Pg!CommitOutbox, Ids
<1>2. /\ c \in Pg!Caller /\ Shape(pgConn[c]) /\ Locked(pgConn[c]) /\ EngineStage(pgConn[c])
      /\ KeyHeld(c, pgConn[c])
  BY <1>1, EngineOpen
<1>3. PICK t : t = Txn(pgConn[c].op, pgConn[c].arg, "state", ls, ch)
  OBVIOUS
<1>4. t.op = "commitPoll" /\ t.arg = pgConn[c].arg /\ t.pc = "state" /\ t.locks = ls /\ t.change =
        ch
  BY <1>1, <1>3 DEF Txn
<1>5. Shape(t)
  BY <1>2, <1>3, MovedShape
<1>6. /\ t.locks.outbox = pgConn[c].locks.outbox \cup Ids(new)
      /\ t.locks.parked = pgConn[c].locks.parked /\ t.locks.pollers = pgConn[c].locks.pollers
  BY <1>2, <1>4, LockFields
<1>7. /\ t.change.gone = pgConn[c].change.gone /\ t.change.put = new
      /\ t.change.unparked = pgConn[c].change.unparked /\ t.change.park = pgConn[c].change.park
      /\ t.change.state = pgConn[c].change.state
  BY <1>2, <1>4, ChangeFields
<1>8. Locked(t) /\ KeyHeld(c, t)
  BY <1>1, <1>2, <1>4, <1>6, <1>7 DEF Locked, KeyHeld
<1>9. EngineStage(t)
  BY <1>1, <1>2, <1>4, <1>7 DEF EngineStage, Column, ParkedUntouched
<1>10. TxnOK(c, Txn(pgConn[c].op, pgConn[c].arg, "state", ls, ch))
  BY <1>3, <1>5, <1>8, <1>9 DEF TxnOK, TxnStage
<1> QED
  BY <1>1, <1>2, <1>10, ContinueMoves

(* ackEvents: the row, or none.                                            *)
LEMMA AckRowStep ==
  ASSUME PgInv, Pg!PostgresParameters, NEW c \in Owner, Pg!AckEvents(c)
  PROVE  PgInv' /\ PgStep
<1> DEFINE found == RowsOf(pgConn[c].arg)
           ls == Pg!Locking(c, "outbox", Ids(found))
           ch == [pgConn[c].change EXCEPT !.gone = found]
<1>1. /\ pgConn[c].op = "ackEvents" /\ pgConn[c].pc = "outbox"
      /\ Pg!Unlocked(c, "outbox", {pgConn[c].arg}) /\ Pg!Continue(c, "commit", ls, ch)
  BY DEF Pg!AckEvents, Ids, RowsOf
<1>2. /\ c \in Pg!Caller /\ Shape(pgConn[c]) /\ Locked(pgConn[c]) /\ EngineStage(pgConn[c])
      /\ KeyHeld(c, pgConn[c])
  BY <1>1, EngineOpen
<1>3. PICK t : t = Txn(pgConn[c].op, pgConn[c].arg, "commit", ls, ch)
  OBVIOUS
<1>4. t.op = "ackEvents" /\ t.arg = pgConn[c].arg /\ t.pc = "commit" /\ t.locks = ls /\ t.change =
        ch
  BY <1>1, <1>3 DEF Txn
<1>5. Shape(t)
  BY <1>2, <1>3, MovedShape
<1>6. /\ t.locks.outbox = pgConn[c].locks.outbox \cup Ids(found)
      /\ t.locks.parked = pgConn[c].locks.parked /\ t.locks.pollers = pgConn[c].locks.pollers
  BY <1>2, <1>4, LockFields
<1>7. /\ t.change.gone = found /\ t.change.put = pgConn[c].change.put
      /\ t.change.unparked = pgConn[c].change.unparked /\ t.change.park = pgConn[c].change.park
      /\ t.change.state = pgConn[c].change.state
  BY <1>2, <1>4, ChangeFields
<1>8. Locked(t) /\ KeyHeld(c, t)
  BY <1>1, <1>2, <1>4, <1>6, <1>7 DEF Locked, KeyHeld
<1>9. EngineStage(t)
  BY <1>1, <1>2, <1>4, <1>7 DEF EngineStage, ParkedUntouched
<1>10. TxnOK(c, Txn(pgConn[c].op, pgConn[c].arg, "commit", ls, ch))
  BY <1>3, <1>5, <1>8, <1>9 DEF TxnOK, TxnStage
<1>11. Pg!Unlocked(c, "outbox", Ids(found))
  BY <1>1 DEF Pg!Unlocked, Ids, RowsOf
<1> QED
  BY <1>1, <1>2, <1>10, <1>11, ContinueMoves

(* recordAttempt: the row, or none.                                        *)
LEMMA AttemptRowStep ==
  ASSUME PgInv, Pg!PostgresParameters, NEW c \in Owner, Pg!RecordAttempt(c)
  PROVE  PgInv' /\ PgStep
<1> DEFINE found == RowsOf(pgConn[c].arg)
           new == {[row EXCEPT !.attempts = @ + 1] : row \in found}
           ls == Pg!Locking(c, "outbox", Ids(found))
           ch == [pgConn[c].change EXCEPT !.put = new]
<1>1. /\ pgConn[c].op = "recordAttempt" /\ pgConn[c].pc = "outbox"
      /\ Pg!Unlocked(c, "outbox", {pgConn[c].arg}) /\ Pg!Continue(c, "commit", ls, ch)
  BY DEF Pg!RecordAttempt, Ids, RowsOf
<1>2. /\ c \in Pg!Caller /\ Shape(pgConn[c]) /\ Locked(pgConn[c]) /\ EngineStage(pgConn[c])
      /\ KeyHeld(c, pgConn[c])
  BY <1>1, EngineOpen
<1>3. PICK t : t = Txn(pgConn[c].op, pgConn[c].arg, "commit", ls, ch)
  OBVIOUS
<1>4. t.op = "recordAttempt" /\ t.arg = pgConn[c].arg /\ t.pc = "commit" /\ t.locks =
        ls /\ t.change = ch
  BY <1>1, <1>3 DEF Txn
<1>5. Shape(t)
  BY <1>2, <1>3, MovedShape
<1>6. /\ t.locks.outbox = pgConn[c].locks.outbox \cup Ids(found)
      /\ t.locks.parked = pgConn[c].locks.parked /\ t.locks.pollers = pgConn[c].locks.pollers
  BY <1>2, <1>4, LockFields
<1>7. /\ t.change.gone = pgConn[c].change.gone /\ t.change.put = new
      /\ t.change.unparked = pgConn[c].change.unparked /\ t.change.park = pgConn[c].change.park
      /\ t.change.state = pgConn[c].change.state
  BY <1>2, <1>4, ChangeFields
<1>8. Ids(new) \subseteq Ids(found)
  BY DEF Ids, RowsOf, PgInv, PgRows, Pg!C!OutboxRow
<1>9. Locked(t) /\ KeyHeld(c, t)
  BY <1>1, <1>2, <1>4, <1>6, <1>7, <1>8 DEF Locked, KeyHeld
<1>10. EngineStage(t)
  BY <1>1, <1>2, <1>4, <1>7 DEF EngineStage, ParkedUntouched
<1>11. TxnOK(c, Txn(pgConn[c].op, pgConn[c].arg, "commit", ls, ch))
  BY <1>3, <1>5, <1>9, <1>10 DEF TxnOK, TxnStage
<1>12. Pg!Unlocked(c, "outbox", Ids(found))
  BY <1>1 DEF Pg!Unlocked, Ids, RowsOf
<1> QED
  BY <1>1, <1>2, <1>11, <1>12, ContinueMoves

(* parkEvent, the parked row.                                              *)
LEMMA ParkUpsertStep ==
  ASSUME PgInv, Pg!PostgresParameters, NEW c \in Owner, Pg!ParkUpsert(c)
  PROVE  PgInv' /\ PgStep
<1> DEFINE x == pgConn[c].arg
           ls == Pg!Locking(c, "parked", {x.event})
           ch == [pgConn[c].change EXCEPT !.park = {Pg!C!ParkedRowOf(x)}]
<1>1. /\ pgConn[c].op = "parkEvent" /\ pgConn[c].pc = "parked"
      /\ Pg!Unlocked(c, "parked", {x.event}) /\ Pg!Continue(c, "outbox", ls, ch)
  BY DEF Pg!ParkUpsert
<1>2. /\ c \in Pg!Caller /\ Shape(pgConn[c]) /\ Locked(pgConn[c]) /\ EngineStage(pgConn[c])
      /\ KeyHeld(c, pgConn[c])
  BY <1>1, EngineOpen
<1>3. PICK t : t = Txn(pgConn[c].op, x, "outbox", ls, ch)
  OBVIOUS
<1>4. t.op = "parkEvent" /\ t.arg = x /\ t.pc = "outbox" /\ t.locks = ls /\ t.change = ch
  BY <1>1, <1>3 DEF Txn
<1>5. Shape(t)
  BY <1>2, <1>3, MovedShape
<1>6. /\ t.locks.outbox = pgConn[c].locks.outbox /\ t.locks.pollers = pgConn[c].locks.pollers
      /\ t.locks.parked = pgConn[c].locks.parked \cup {x.event}
  BY <1>2, <1>4, LockFields
<1>7. /\ t.change.gone = pgConn[c].change.gone /\ t.change.put = pgConn[c].change.put
      /\ t.change.unparked = pgConn[c].change.unparked
      /\ t.change.park = {Pg!C!ParkedRowOf(x)}
  BY <1>2, <1>4, ChangeFields
<1>8. Ids({Pg!C!ParkedRowOf(x)}) = {x.event}
  BY DEF Ids, Pg!C!ParkedRowOf
<1>9. Locked(t) /\ KeyHeld(c, t)
  BY <1>1, <1>2, <1>4, <1>6, <1>7, <1>8 DEF Locked, KeyHeld
<1>10. EngineStage(t)
  BY <1>1, <1>2, <1>4, <1>7 DEF EngineStage
<1>11. TxnOK(c, Txn(pgConn[c].op, x, "outbox", ls, ch))
  BY <1>3, <1>5, <1>9, <1>10 DEF TxnOK, TxnStage
<1> QED
  BY <1>1, <1>2, <1>11, ContinueMoves

(* parkEvent, the outbox row, or none.                                     *)
LEMMA ParkDeleteStep ==
  ASSUME PgInv, Pg!PostgresParameters, NEW c \in Owner, Pg!ParkDelete(c)
  PROVE  PgInv' /\ PgStep
<1> DEFINE x == pgConn[c].arg
           found == RowsOf(x.event)
           ls == Pg!Locking(c, "outbox", Ids(found))
           ch == [pgConn[c].change EXCEPT !.gone = found]
<1>1. /\ pgConn[c].op = "parkEvent" /\ pgConn[c].pc = "outbox"
      /\ Pg!Unlocked(c, "outbox", {x.event}) /\ Pg!Continue(c, "commit", ls, ch)
  BY DEF Pg!ParkDelete, Ids, RowsOf
<1>2. /\ c \in Pg!Caller /\ Shape(pgConn[c]) /\ Locked(pgConn[c]) /\ EngineStage(pgConn[c])
      /\ KeyHeld(c, pgConn[c])
  BY <1>1, EngineOpen
<1>3. PICK t : t = Txn(pgConn[c].op, x, "commit", ls, ch)
  OBVIOUS
<1>4. t.op = "parkEvent" /\ t.arg = x /\ t.pc = "commit" /\ t.locks = ls /\ t.change = ch
  BY <1>1, <1>3 DEF Txn
<1>5. Shape(t)
  BY <1>2, <1>3, MovedShape
<1>6. /\ t.locks.outbox = pgConn[c].locks.outbox \cup Ids(found)
      /\ t.locks.parked = pgConn[c].locks.parked /\ t.locks.pollers = pgConn[c].locks.pollers
  BY <1>2, <1>4, LockFields
<1>7. /\ t.change.gone = found /\ t.change.put = pgConn[c].change.put
      /\ t.change.unparked = pgConn[c].change.unparked /\ t.change.park = pgConn[c].change.park
  BY <1>2, <1>4, ChangeFields
<1>8. Locked(t) /\ KeyHeld(c, t)
  BY <1>1, <1>2, <1>4, <1>6, <1>7 DEF Locked, KeyHeld
<1>9. EngineStage(t)
  BY <1>1, <1>2, <1>4, <1>7 DEF EngineStage
<1>10. TxnOK(c, Txn(pgConn[c].op, x, "commit", ls, ch))
  BY <1>3, <1>5, <1>8, <1>9 DEF TxnOK, TxnStage
<1>11. Pg!Unlocked(c, "outbox", Ids(found))
  BY <1>1 DEF Pg!Unlocked, Ids, RowsOf
<1> QED
  BY <1>1, <1>2, <1>10, <1>11, ContinueMoves

(* writeState(): the column becomes what the contract says.                *)
LEMMA WriteStateStep ==
  ASSUME PgInv, Pg!PostgresParameters, NEW c \in Pg!Caller,
         Pg!WriteState(c, Pg!PatchOf(pgConn[c]))
  PROVE  PgInv' /\ PgStep
<1> DEFINE o == pgConn[c].op
           x == pgConn[c].arg
           v == Pg!Written(c, Pg!PatchOf(pgConn[c]))
           ls == Pg!Locking(c, "pollers", Pg!Key)
           ch == [pgConn[c].change EXCEPT !.state = v]
<1>1. /\ pgConn[c].pc = "state"
      /\ Pg!Unlocked(c, "pollers", Pg!Key) /\ Pg!Continue(c, "commit", ls, ch)
  BY DEF Pg!WriteState
<1>2. /\ Shape(pgConn[c]) /\ Locked(pgConn[c]) /\ KeyHeld(c, pgConn[c])
      /\ \/ c \in Owner /\ EngineStage(pgConn[c])
         \/ c = Operator /\ OperatorStage(pgConn[c])
  BY <1>1 DEF PgInv, TxnOK, TxnStage, Pg!Idle
<1>3. PICK t : t = Txn(o, x, "commit", ls, ch)
  OBVIOUS
<1>4. t.op = o /\ t.arg = x /\ t.pc = "commit" /\ t.locks = ls /\ t.change = ch
  BY <1>3 DEF Txn
<1>5. Shape(t)
  BY <1>2, <1>3, MovedShape
<1>6. /\ t.locks.outbox = pgConn[c].locks.outbox /\ t.locks.parked = pgConn[c].locks.parked
      /\ t.locks.pollers = pgConn[c].locks.pollers \cup Pg!Key
  BY <1>2, <1>4, LockFields
<1>7. /\ t.change.gone = pgConn[c].change.gone /\ t.change.put = pgConn[c].change.put
      /\ t.change.unparked = pgConn[c].change.unparked /\ t.change.park = pgConn[c].change.park
      /\ t.change.state = v
  BY <1>2, <1>4, ChangeFields
<1>8. Locked(t) /\ KeyHeld(c, t)
  BY <1>1, <1>2, <1>4, <1>6, <1>7 DEF Locked, KeyHeld
<1>9. Column(pgConn[c]) /\ o # "retryParked"
  BY <1>1, <1>2 DEF EngineStage, OperatorStage
<1>10. Column(t)
  <2>1. pgConn[c].change.state = pgPollers.state /\ pgPollers # NoRow
    BY <1>1, <1>2, <1>9 DEF Column, KeyHeld
  <2>2. Pg!PatchOf(t) = Pg!PatchOf(pgConn[c])
    BY <1>4 DEF Pg!PatchOf
  <2>3. v = Pg!C!Patched(Pg!CommittedState, Pg!PatchOf(t))
    BY <2>1, <2>2 DEF Pg!Written, Pg!CommittedState
  <2> QED
    BY <1>4, <1>7, <2>3 DEF Column
<1>11. EngineStage(pgConn[c]) => EngineStage(t)
  BY <1>1, <1>4, <1>7, <1>10 DEF EngineStage, OutboxUntouched, ParkedUntouched
<1>12. OperatorStage(pgConn[c]) => OperatorStage(t)
  BY <1>1, <1>4, <1>7, <1>10 DEF OperatorStage, OutboxUntouched, ParkedUntouched
<1>13. TxnOK(c, Txn(o, x, "commit", ls, ch))
  BY <1>2, <1>3, <1>5, <1>8, <1>11, <1>12 DEF TxnOK, TxnStage
<1> QED
  BY <1>1, <1>13, ContinueMoves

(* saveStateUnfenced: the lock on the key's row, which is there.           *)
LEMMA LockUnfencedStep ==
  ASSUME PgInv, Pg!PostgresParameters, Pg!LockUnfenced(Operator)
  PROVE  PgInv' /\ PgStep
<1> DEFINE c == Operator
           o == pgConn[c].op
           x == pgConn[c].arg
           ls == Pg!Locking(c, "pollers", Pg!Key)
           ch == [pgConn[c].change EXCEPT !.state = pgPollers.state]
<1>1. /\ o = "saveStateUnfenced" /\ pgConn[c].pc = "lock" /\ pgPollers # NoRow
      /\ Pg!Unlocked(c, "pollers", Pg!Key) /\ Pg!Continue(c, "state", ls, ch)
  BY DEF Pg!LockUnfenced, Pg!PostgresParameters
<1>2. /\ c \in Pg!Caller /\ Shape(pgConn[c]) /\ Locked(pgConn[c]) /\ OperatorStage(pgConn[c])
      /\ KeyHeld(c, pgConn[c]) /\ c \notin Owner
  BY <1>1, OperatorOpen DEF Pg!PostgresParameters
<1>3. PICK t : t = Txn(o, x, "state", ls, ch)
  OBVIOUS
<1>4. t.op = o /\ t.arg = x /\ t.pc = "state" /\ t.locks = ls /\ t.change = ch
  BY <1>3 DEF Txn
<1>5. Shape(t)
  BY <1>2, <1>3, MovedShape
<1>6. /\ t.locks.outbox = pgConn[c].locks.outbox /\ t.locks.parked = pgConn[c].locks.parked
      /\ "key" \in t.locks.pollers
  BY <1>2, <1>4, LockFields DEF Pg!Key
<1>7. /\ t.change.gone = pgConn[c].change.gone /\ t.change.put = pgConn[c].change.put
      /\ t.change.unparked = pgConn[c].change.unparked /\ t.change.park = pgConn[c].change.park
      /\ t.change.state = pgPollers.state
  BY <1>2, <1>4, ChangeFields
<1>8. Locked(t) /\ KeyHeld(c, t)
  BY <1>1, <1>2, <1>4, <1>6, <1>7 DEF Locked, KeyHeld
<1>9. OperatorStage(t)
  BY <1>1, <1>2, <1>4, <1>7 DEF OperatorStage, OutboxUntouched, ParkedUntouched, Column
<1>10. TxnOK(c, Txn(o, x, "state", ls, ch))
  BY <1>3, <1>5, <1>8, <1>9 DEF TxnOK, TxnStage
<1> QED
  BY <1>1, <1>2, <1>10, ContinueMoves

(* Ids of sums and of fresh rows.                                          *)
LEMMA IdsOf ==
  ASSUME NEW R, NEW Q
  PROVE  Ids(R \cup Q) = Ids(R) \cup Ids(Q) /\ Ids(Pg!C!FreshRows(R)) = Ids(R)
<1>1. Ids(R \cup Q) = Ids(R) \cup Ids(Q)
  BY DEF Ids
<1>2. \A row \in R : [event |-> row.event, sequence |-> row.sequence, attempts |-> 0] \in
        Pg!C!FreshRows(R)
  BY DEF Pg!C!FreshRows
<1>3. \A new \in Pg!C!FreshRows(R) : \E row \in R : new.event = row.event
  BY DEF Pg!C!FreshRows
<1>4. Ids(R) \subseteq Ids(Pg!C!FreshRows(R))
  <2> SUFFICES ASSUME NEW row \in R PROVE row.event \in Ids(Pg!C!FreshRows(R))
    BY DEF Ids
  <2>1. PICK new : new = [event |-> row.event, sequence |-> row.sequence, attempts |-> 0]
    OBVIOUS
  <2>2. new \in Pg!C!FreshRows(R) /\ new.event = row.event
    BY <1>2, <2>1
  <2> QED
    BY <2>2 DEF Ids
<1>5. Ids(Pg!C!FreshRows(R)) \subseteq Ids(R)
  BY <1>3 DEF Ids
<1> QED
  BY <1>1, <1>4, <1>5

(* retryParked, the parked row of one id, if it is there.                  *)
LEMMA RetryLockStep ==
  ASSUME PgInv, Pg!PostgresParameters, NEW id, Pg!RetryLock(Operator, id)
  PROVE  PgInv' /\ PgStep
<1> DEFINE c == Operator
           x == pgConn[c].arg \ {id}
           found == {row \in pgParked : row.event = id}
           p == IF found = {} THEN "parked" ELSE "outbox"
           ls == Pg!Locking(c, "parked", Ids(found))
           ch == [pgConn[c].change EXCEPT !.unparked = @ \cup found]
<1>1. /\ pgConn[c].op = "retryParked" /\ pgConn[c].pc = "parked" /\ Pg!Unlocked(c, "parked", {id})
      /\ UNCHANGED <<PgTables, pgWriter, pgHeld>>
  BY DEF Pg!RetryLock, PgTables
<1>2. /\ c \in Pg!Caller /\ Shape(pgConn[c]) /\ Locked(pgConn[c]) /\ OperatorStage(pgConn[c])
  BY <1>1, OperatorOpen
<1>3. PICK t : t = Txn("retryParked", x, p, ls, ch)
  OBVIOUS
<1>4. t.op = "retryParked" /\ t.arg = x /\ t.pc = p /\ t.locks = ls /\ t.change = ch
  BY <1>3 DEF Txn
<1>5. pgConn' = [pgConn EXCEPT ![c] = t]
  BY <1>1, <1>3 DEF Pg!RetryLock, Txn, Ids
<1>6. Shape(t)
  BY <1>2, <1>3, MovedShape
<1>7. /\ t.locks.outbox = pgConn[c].locks.outbox
      /\ t.locks.parked = pgConn[c].locks.parked \cup Ids(found)
  BY <1>2, <1>4, LockFields
<1>8. /\ t.change.gone = pgConn[c].change.gone /\ t.change.put = pgConn[c].change.put
      /\ t.change.unparked = pgConn[c].change.unparked \cup found
      /\ t.change.park = pgConn[c].change.park
  BY <1>2, <1>4, ChangeFields
<1>9. Ids(t.change.unparked) = Ids(pgConn[c].change.unparked) \cup Ids(found)
  BY <1>8, IdsOf
<1>10. Locked(t) /\ KeyHeld(c, t)
  BY <1>2, <1>4, <1>7, <1>8, <1>9 DEF Locked, KeyHeld
<1>11. OperatorStage(t)
  <2>1. /\ pgConn[c].change.unparked = {row \in pgParked : row.event \in
             Ids(pgConn[c].change.unparked)}
        /\ pgConn[c].change.put = Pg!C!FreshRows(pgConn[c].change.unparked)
        /\ pgConn[c].change.gone = {} /\ pgConn[c].change.park = {}
    BY <1>1, <1>2 DEF OperatorStage
  <2>2. t.change.unparked = {row \in pgParked : row.event \in Ids(t.change.unparked)}
    BY <1>8, <1>9, <2>1 DEF Ids
  <2>3. t.pc # "outbox" => t.change.put = Pg!C!FreshRows(t.change.unparked)
    <3>1. CASE found = {}
      BY <1>8, <2>1, <3>1
    <3>2. CASE found # {}
      BY <1>4, <3>2
    <3> QED
      BY <3>1, <3>2
  <2> QED
    BY <1>4, <1>8, <2>1, <2>2, <2>3 DEF OperatorStage
<1>12. TxnOK(c, t)
  BY <1>6, <1>10, <1>11 DEF TxnOK, TxnStage
<1>13. Pg!Unlocked(c, "parked", Ids(found))
  BY <1>1 DEF Pg!Unlocked, Ids
<1>14. \A d \in Pg!Caller \ {c} : LocksApart(pgConn[d], t) /\ LocksApart(t, pgConn[d])
  BY <1>2, <1>4, <1>13, LocksGrow
<1>15. pgHeld' \in [Owner -> Nat]
  BY <1>1 DEF PgInv, PgRows
<1> QED
  BY <1>1, <1>2, <1>5, <1>12, <1>14, <1>15, TxnMoves

(* retryParked, the outbox row made of it.                                 *)
LEMMA RetryMoveStep ==
  ASSUME PgInv, Pg!PostgresParameters, Pg!RetryMove(Operator)
  PROVE  PgInv' /\ PgStep
<1> DEFINE c == Operator
           new == Pg!C!FreshRows(pgConn[c].change.unparked)
           ls == Pg!Locking(c, "outbox", Ids(new))
           ch == [pgConn[c].change EXCEPT !.put = new]
<1>1. /\ pgConn[c].op = "retryParked" /\ pgConn[c].pc = "outbox" /\ Pg!Unlocked(c, "outbox",
           Ids(new))
      /\ Pg!Continue(c, "parked", ls, ch)
  BY DEF Pg!RetryMove, Ids
<1>2. /\ c \in Pg!Caller /\ Shape(pgConn[c]) /\ Locked(pgConn[c]) /\ OperatorStage(pgConn[c])
  BY <1>1, OperatorOpen
<1>3. PICK t : t = Txn(pgConn[c].op, pgConn[c].arg, "parked", ls, ch)
  OBVIOUS
<1>4. t.op = "retryParked" /\ t.pc = "parked" /\ t.locks = ls /\ t.change = ch
  BY <1>1, <1>3 DEF Txn
<1>5. Shape(t)
  BY <1>2, <1>3, MovedShape
<1>6. /\ t.locks.outbox = pgConn[c].locks.outbox \cup Ids(new)
      /\ t.locks.parked = pgConn[c].locks.parked
  BY <1>2, <1>4, LockFields
<1>7. /\ t.change.gone = pgConn[c].change.gone /\ t.change.put = new
      /\ t.change.unparked = pgConn[c].change.unparked /\ t.change.park = pgConn[c].change.park
  BY <1>2, <1>4, ChangeFields
<1>8. Locked(t) /\ KeyHeld(c, t)
  BY <1>2, <1>4, <1>6, <1>7 DEF Locked, KeyHeld
<1>9. OperatorStage(t)
  BY <1>1, <1>2, <1>4, <1>7 DEF OperatorStage
<1>10. TxnOK(c, Txn(pgConn[c].op, pgConn[c].arg, "parked", ls, ch))
  BY <1>3, <1>5, <1>8, <1>9 DEF TxnOK, TxnStage
<1> QED
  BY <1>1, <1>2, <1>10, ContinueMoves

(* retryParked, all ids done.                                              *)
LEMMA RetryDoneStep ==
  ASSUME PgInv, Pg!PostgresParameters, Pg!RetryDone(Operator)
  PROVE  PgInv' /\ PgStep
<1> DEFINE c == Operator
           ls == pgConn[c].locks
           ch == pgConn[c].change
<1>1. /\ pgConn[c].op = "retryParked" /\ pgConn[c].pc = "parked" /\ Pg!Continue(c, "commit", ls, ch)
  BY DEF Pg!RetryDone
<1>2. /\ c \in Pg!Caller /\ Shape(pgConn[c]) /\ Locked(pgConn[c]) /\ OperatorStage(pgConn[c])
  BY <1>1, OperatorOpen
<1>3. PICK t : t = Txn(pgConn[c].op, pgConn[c].arg, "commit", ls, ch)
  OBVIOUS
<1>4. t.op = "retryParked" /\ t.pc = "commit" /\ t.locks = ls /\ t.change = ch
  BY <1>1, <1>3 DEF Txn
<1>5. Shape(t)
  BY <1>2, <1>3, MovedShape
<1>6. Locked(t) /\ KeyHeld(c, t)
  BY <1>2, <1>4 DEF Locked, KeyHeld
<1>7. OperatorStage(t)
  BY <1>1, <1>2, <1>4 DEF OperatorStage
<1>8. TxnOK(c, Txn(pgConn[c].op, pgConn[c].arg, "commit", ls, ch))
  BY <1>3, <1>5, <1>6, <1>7 DEF TxnOK, TxnStage
<1> QED
  BY <1>1, <1>2, <1>8, ContinueMoves

(* deleteKey, the key's row.                                               *)
LEMMA DeletePollerStep ==
  ASSUME PgInv, Pg!PostgresParameters, Pg!DeletePoller(Operator)
  PROVE  PgInv' /\ PgStep
<1> DEFINE c == Operator
           ls == Pg!Locking(c, "pollers", Pg!Key)
           ch == pgConn[c].change
<1>1. /\ pgConn[c].op = "deleteKey" /\ pgConn[c].pc = "lock" /\ pgPollers # NoRow
      /\ Pg!Unlocked(c, "pollers", Pg!Key) /\ Pg!Continue(c, "rows", ls, ch)
  BY DEF Pg!DeletePoller, Pg!PostgresParameters
<1>2. /\ c \in Pg!Caller /\ Shape(pgConn[c]) /\ Locked(pgConn[c]) /\ OperatorStage(pgConn[c])
      /\ c \notin Owner
  BY <1>1, OperatorOpen DEF Pg!PostgresParameters
<1>3. PICK t : t = Txn(pgConn[c].op, pgConn[c].arg, "rows", ls, ch)
  OBVIOUS
<1>4. t.op = "deleteKey" /\ t.pc = "rows" /\ t.locks = ls /\ t.change = ch
  BY <1>1, <1>3 DEF Txn
<1>5. Shape(t)
  BY <1>2, <1>3, MovedShape
<1>6. /\ t.locks.outbox = pgConn[c].locks.outbox /\ t.locks.parked = pgConn[c].locks.parked
      /\ "key" \in t.locks.pollers
  BY <1>2, <1>4, LockFields DEF Pg!Key
<1>7. Locked(t) /\ KeyHeld(c, t)
  BY <1>1, <1>2, <1>4, <1>6 DEF Locked, KeyHeld
<1>8. OperatorStage(t)
  BY <1>1, <1>2, <1>4 DEF OperatorStage
<1>9. TxnOK(c, Txn(pgConn[c].op, pgConn[c].arg, "rows", ls, ch))
  BY <1>3, <1>5, <1>7, <1>8 DEF TxnOK, TxnStage
<1> QED
  BY <1>1, <1>2, <1>9, ContinueMoves

(* deleteKey, the rows of the other tables.                                *)
LEMMA DeleteRowsStep ==
  ASSUME PgInv, Pg!PostgresParameters, Pg!DeleteRows(Operator)
  PROVE  PgInv' /\ PgStep
<1> DEFINE c == Operator
           ls == [pgConn[c].locks EXCEPT !.outbox = Ids(pgOutbox), !.parked = Ids(pgParked)]
           ch == [pgConn[c].change EXCEPT !.gone = pgOutbox, !.unparked = pgParked]
<1>1. /\ pgConn[c].op = "deleteKey" /\ pgConn[c].pc = "rows"
      /\ Pg!Unlocked(c, "outbox", Ids(pgOutbox)) /\ Pg!Unlocked(c, "parked", Ids(pgParked))
      /\ Pg!Continue(c, "commit", ls, ch)
  BY DEF Pg!DeleteRows, Ids
<1>2. /\ c \in Pg!Caller /\ Shape(pgConn[c]) /\ Locked(pgConn[c]) /\ OperatorStage(pgConn[c])
      /\ KeyHeld(c, pgConn[c]) /\ c \notin Owner
  BY <1>1, OperatorOpen DEF Pg!PostgresParameters
<1>3. ls = [pollers |-> pgConn[c].locks.pollers, items |-> pgConn[c].locks.items,
            outbox |-> Ids(pgOutbox), parked |-> Ids(pgParked)]
  <2>1. PICK x : x = pgConn[c].locks
    OBVIOUS
  <2>2. PICK lp, li, lo, lk : x = [pollers |-> lp, items |-> li, outbox |-> lo, parked |-> lk]
    BY <1>2, <2>1 DEF Shape
  <2>3. [x EXCEPT !.outbox = Ids(pgOutbox)]
        = [pollers |-> lp, items |-> li, outbox |-> Ids(pgOutbox), parked |-> lk]
    BY <2>2
  <2>4. [[pollers |-> lp, items |-> li, outbox |-> Ids(pgOutbox), parked |-> lk]
           EXCEPT !.parked = Ids(pgParked)]
        = [pollers |-> lp, items |-> li, outbox |-> Ids(pgOutbox), parked |-> Ids(pgParked)]
    OBVIOUS
  <2>5. [x EXCEPT !.outbox = Ids(pgOutbox), !.parked = Ids(pgParked)]
        = [pollers |-> lp, items |-> li, outbox |-> Ids(pgOutbox), parked |-> Ids(pgParked)]
    BY <2>3, <2>4
  <2>6. x.pollers = lp /\ x.items = li
    BY <2>2
  <2> QED
    BY <2>1, <2>5, <2>6
<1>4. ch = [gone |-> pgOutbox, put |-> pgConn[c].change.put, unparked |-> pgParked,
            park |-> pgConn[c].change.park, state |-> pgConn[c].change.state]
  <2>1. PICK x : x = pgConn[c].change
    OBVIOUS
  <2>2. PICK g, w, u, k, s : x = [gone |-> g, put |-> w, unparked |-> u, park |-> k, state |-> s]
    BY <1>2, <2>1 DEF Shape
  <2>3. [x EXCEPT !.gone = pgOutbox]
        = [gone |-> pgOutbox, put |-> w, unparked |-> u, park |-> k, state |-> s]
    BY <2>2
  <2>4. [[gone |-> pgOutbox, put |-> w, unparked |-> u, park |-> k, state |-> s]
           EXCEPT !.unparked = pgParked]
        = [gone |-> pgOutbox, put |-> w, unparked |-> pgParked, park |-> k, state |-> s]
    OBVIOUS
  <2>5. [x EXCEPT !.gone = pgOutbox, !.unparked = pgParked]
        = [gone |-> pgOutbox, put |-> w, unparked |-> pgParked, park |-> k, state |-> s]
    BY <2>3, <2>4
  <2>6. x.put = w /\ x.park = k /\ x.state = s
    BY <2>2
  <2> QED
    BY <2>1, <2>5, <2>6
<1>5. PICK t : t = Txn(pgConn[c].op, pgConn[c].arg, "commit", ls, ch)
  OBVIOUS
<1>6. t.op = "deleteKey" /\ t.pc = "commit" /\ t.locks = ls /\ t.change = ch
      /\ t = [op |-> t.op, arg |-> t.arg, pc |-> t.pc, locks |-> t.locks, change |-> t.change]
  BY <1>1, <1>5 DEF Txn
<1>7. /\ t.locks.outbox = Ids(pgOutbox) /\ t.locks.parked = Ids(pgParked)
      /\ t.locks.pollers = pgConn[c].locks.pollers
      /\ t.locks = [pollers |-> t.locks.pollers, items |-> t.locks.items,
                    outbox |-> t.locks.outbox, parked |-> t.locks.parked]
  BY <1>3, <1>6
<1>8. /\ t.change.gone = pgOutbox /\ t.change.unparked = pgParked
      /\ t.change.put = pgConn[c].change.put /\ t.change.park = pgConn[c].change.park
      /\ t.change = [gone |-> t.change.gone, put |-> t.change.put, unparked |-> t.change.unparked,
                     park |-> t.change.park, state |-> t.change.state]
  BY <1>4, <1>6
<1>9. Shape(t)
  BY <1>6, <1>7, <1>8 DEF Shape
<1>10. pgConn[c].change.put = {} /\ pgConn[c].change.park = {}
  BY <1>1, <1>2 DEF OperatorStage
<1>11. Locked(t) /\ KeyHeld(c, t)
  BY <1>1, <1>2, <1>6, <1>7, <1>8, <1>10 DEF Locked, KeyHeld, Ids
<1>12. OperatorStage(t)
  BY <1>6, <1>8, <1>10 DEF OperatorStage
<1>13. TxnOK(c, t)
  BY <1>9, <1>11, <1>12 DEF TxnOK, TxnStage
<1>14. \A d \in Pg!Caller \ {c} : LocksApart(pgConn[d], t) /\ LocksApart(t, pgConn[d])
  BY <1>1, <1>2, <1>7 DEF LocksApart, Pg!Unlocked, PgInv
<1>15. pgConn' = [pgConn EXCEPT ![c] = t] /\ UNCHANGED <<PgTables, pgWriter, pgHeld>>
  BY <1>1, <1>2, <1>5, Continues
<1>16. pgHeld' \in [Owner -> Nat]
  BY <1>15 DEF PgInv, PgRows
<1> QED
  BY <1>2, <1>13, <1>14, <1>15, <1>16, TxnMoves

(* A transaction that has locked what a step of others changes goes on.    *)
LEMMA StageKept ==
  ASSUME NEW d, NEW x, TxnStage(d, x), Locked(x), PgInv,
         x.op # "retryParked" => (Column(x) => Column(x)'),
         d \in Owner /\ x.pc = "commit" =>
           \A e : e \in x.locks.outbox \/ (x.op = "parkEvent" /\ e = x.arg.event) => RowsOf(e)' =
             RowsOf(e),
         d = Operator /\ x.op = "retryParked" =>
           {row \in pgParked' : row.event \in Ids(x.change.unparked)}
             = {row \in pgParked : row.event \in Ids(x.change.unparked)},
         d = Operator /\ x.op = "deleteKey" /\ x.pc = "commit" => UNCHANGED <<pgOutbox, pgParked>>
  PROVE  TxnStage(d, x)'
<1>1. CASE x = Pg!Idle
  BY <1>1 DEF TxnStage, Pg!Idle, Pg!NoLocks, Pg!NoChange
<1>2. CASE d \in Owner /\ EngineStage(x)
  <2> SUFFICES EngineStage(x)'
    BY <1>2 DEF TxnStage
  <2>1. CASE x.op = "saveState"
    BY <1>2, <2>1 DEF EngineStage, OutboxUntouched, ParkedUntouched, Pg!C!Patch
  <2>2. CASE x.op = "commitPoll"
    BY <1>2, <2>2 DEF EngineStage, OutboxUntouched, ParkedUntouched
  <2>3. CASE x.op = "ackEvents"
    <3>1. CASE x.change.gone = {}
      BY <1>2, <2>3, <3>1 DEF EngineStage, ParkedUntouched, Pg!C!Event
    <3>2. CASE x.change.gone # {}
      <4>1. x.pc = "commit" /\ x.change.gone = RowsOf(x.arg)
        BY <1>2, <2>3, <3>2 DEF EngineStage
      <4>2. x.arg \in x.locks.outbox
        BY <3>2, <4>1 DEF Locked, Ids, RowsOf
      <4>3. RowsOf(x.arg)' = RowsOf(x.arg)
        BY <1>2, <4>1, <4>2
      <4> QED
        BY <1>2, <2>3, <4>1, <4>3 DEF EngineStage, ParkedUntouched, Pg!C!Event
    <3> QED
      BY <3>1, <3>2
  <2>4. CASE x.op = "recordAttempt"
    <3>1. CASE x.change.put = {}
      BY <1>2, <2>4, <3>1 DEF EngineStage, ParkedUntouched, Pg!C!Event
    <3>2. CASE x.change.put # {}
      <4>1. x.pc = "commit" /\ x.change.put = {[row EXCEPT !.attempts = @ + 1] : row \in
              RowsOf(x.arg)}
        BY <1>2, <2>4, <3>2 DEF EngineStage
      <4>2. PICK row \in RowsOf(x.arg) : [row EXCEPT !.attempts = @ + 1] \in x.change.put
        BY <3>2, <4>1
      <4>3. [row EXCEPT !.attempts = @ + 1].event = x.arg
        BY DEF RowsOf, PgInv, PgRows, Pg!C!OutboxRow
      <4>4. x.arg \in x.locks.outbox
        BY <4>2, <4>3 DEF Locked, Ids
      <4>5. RowsOf(x.arg)' = RowsOf(x.arg)
        BY <1>2, <4>1, <4>4
      <4> QED
        BY <1>2, <2>4, <4>1, <4>5 DEF EngineStage, ParkedUntouched, Pg!C!Event
    <3> QED
      BY <3>1, <3>2
  <2>5. CASE x.op = "parkEvent"
    <3>1. x.pc = "commit" => RowsOf(x.arg.event)' = RowsOf(x.arg.event)
      BY <1>2, <2>5
    <3> QED
      BY <1>2, <2>5, <3>1 DEF EngineStage, FromPgBatch, Pg!C!ParkedRowOf
  <2>6. CASE x.op = "setValidator"
    BY <1>2, <2>6 DEF EngineStage, OutboxUntouched, ParkedUntouched
  <2> QED
    BY <1>2, <2>1, <2>2, <2>3, <2>4, <2>5, <2>6 DEF EngineStage
<1>3. CASE d = Operator /\ OperatorStage(x)
  <2> SUFFICES OperatorStage(x)'
    BY <1>3 DEF TxnStage
  <2>1. CASE x.op = "saveStateUnfenced"
    BY <1>3, <2>1 DEF OperatorStage, OutboxUntouched, ParkedUntouched, Pg!C!Patch
  <2>2. CASE x.op = "retryParked"
    BY <1>3, <2>2 DEF OperatorStage, Pg!C!FreshRows, Ids
  <2>3. CASE x.op = "deleteKey"
    BY <1>3, <2>3 DEF OperatorStage
  <2> QED
    BY <1>3, <2>1, <2>2, <2>3 DEF OperatorStage
<1> QED
  BY <1>1, <1>2, <1>3 DEF TxnStage

(* Who has not got the key's row, is at the start or takes no notice.      *)
LEMMA KeyFree ==
  ASSUME PgInv, NEW d \in Pg!Caller, "key" \notin pgConn[d].locks.pollers
  PROVE  pgConn[d].op = "retryParked" \/ pgConn[d].pc \in {"idle", "lock"}
BY DEF PgInv, TxnOK, KeyHeld

(* A statement that writes the key's row and waits for its lock.           *)
LEMMA PollersMove ==
  ASSUME PgInv, Pg!PostgresParameters, NEW c \in Owner, pgConn[c].pc = "idle",
         Pg!Unlocked(c, "pollers", Pg!Key),
         UNCHANGED <<pgConn, pgOutbox, pgParked>>,
         pgPollers' \in Pg!PollersRow,
         (pgPollers.lease_owner # NoOwner => pgPollers.lease_epoch \in 1..pgPollers.epoch_counter)',
         pgHeld' \in [Owner -> Nat]
  PROVE  PgInv'
<1>1. PgRows'
  BY DEF PgInv, PgRows, FromPgBatch
<1>2. ASSUME NEW d \in Pg!Caller
      PROVE  TxnOK(d, pgConn[d])'
  <2>1. PICK x : x = pgConn[d]
    OBVIOUS
  <2>2. x.op = "retryParked" \/ x.pc \in {"idle", "lock"}
    <3>1. CASE d = c
      BY <2>1, <3>1
    <3>2. CASE d # c
      BY <2>1, <3>2, KeyFree DEF Pg!Unlocked, Pg!Key
    <3> QED
      BY <3>1, <3>2
  <2>3. Shape(x) /\ Locked(x) /\ TxnStage(d, x)
    BY <2>1 DEF PgInv, TxnOK
  <2>4. KeyHeld(d, x)'
    BY <2>2 DEF KeyHeld
  <2>5. CASE x.pc \in {"idle", "lock"}
    <3>1. Column(x)'
      BY <2>5 DEF Column
    <3> QED
      BY <2>1, <2>3, <2>4, <2>5, <3>1, StageKept DEF TxnOK, Shape, Locked
  <2>6. CASE x.op = "retryParked"
    <3>1. x # Pg!Idle /\ d = Operator /\ OperatorStage(x)
      BY <2>3, <2>6 DEF TxnStage, EngineStage, Pg!Idle
    <3>2. OperatorStage(x)'
      BY <2>6, <3>1 DEF OperatorStage, Pg!C!FreshRows, Ids
    <3> QED
      BY <2>1, <2>3, <2>4, <3>1, <3>2 DEF TxnOK, TxnStage, Shape, Locked
  <2> QED
    BY <2>2, <2>5, <2>6
<1>3. pgConn' = [d \in Pg!Caller |-> pgConn'[d]]
  BY DEF PgInv
<1>4. \A d, e \in Pg!Caller : d # e => LocksApart(pgConn[d], pgConn[e])'
  BY DEF PgInv, LocksApart
<1> QED
  BY <1>1, <1>2, <1>3, <1>4 DEF PgInv

(* A row of the pollers table, field by field.                             *)
LEMMA PollersFields ==
  ASSUME NEW x \in Pg!PollersRow
  PROVE  /\ x = [lease_owner |-> x.lease_owner, lease_epoch |-> x.lease_epoch, live |-> x.live,
                 epoch_counter |-> x.epoch_counter, state |-> x.state]
         /\ x.lease_owner \in Owner \cup {NoOwner} /\ x.lease_epoch \in Nat /\ x.live \in BOOLEAN
         /\ x.epoch_counter \in Nat /\ x.state \in Pg!C!PollerState \cup {Null}
         /\ \A v : [x EXCEPT !.live = v] =
              [lease_owner |-> x.lease_owner, lease_epoch |-> x.lease_epoch, live |-> v,
               epoch_counter |-> x.epoch_counter, state |-> x.state]
         /\ \A v : [x EXCEPT !.state = v] =
              [lease_owner |-> x.lease_owner, lease_epoch |-> x.lease_epoch, live |-> x.live,
               epoch_counter |-> x.epoch_counter, state |-> v]
         /\ [x EXCEPT !.lease_owner = NoOwner, !.live = FALSE] =
              [lease_owner |-> NoOwner, lease_epoch |-> x.lease_epoch, live |-> FALSE,
               epoch_counter |-> x.epoch_counter, state |-> x.state]
<1>1. PICK o \in Owner \cup {NoOwner}, e \in Nat, l \in BOOLEAN, n \in Nat, s \in Pg!C!PollerState
             \cup {Null} :
        x = [lease_owner |-> o, lease_epoch |-> e, live |-> l, epoch_counter |-> n, state |-> s]
  BY DEF Pg!PollersRow
<1>2. [x EXCEPT !.lease_owner = NoOwner] =
        [lease_owner |-> NoOwner, lease_epoch |-> e, live |-> l, epoch_counter |-> n, state |-> s]
  BY <1>1
<1>3. PICK y : y = [lease_owner |-> NoOwner, lease_epoch |-> e, live |-> l, epoch_counter |-> n,
                    state |-> s]
  OBVIOUS
<1>31. \A v : [y EXCEPT !.live = v]
        = [lease_owner |-> NoOwner, lease_epoch |-> e, live |-> v, epoch_counter |-> n, state |-> s]
  BY <1>3
<1>4. [x EXCEPT !.lease_owner = NoOwner, !.live = FALSE] =
        [lease_owner |-> NoOwner, lease_epoch |-> e, live |-> FALSE, epoch_counter |-> n, state |->
          s]
  BY <1>2, <1>3, <1>31
<1>5. /\ \A v : [x EXCEPT !.live = v] =
           [lease_owner |-> o, lease_epoch |-> e, live |-> v, epoch_counter |-> n, state |-> s]
      /\ \A v : [x EXCEPT !.state = v] =
           [lease_owner |-> o, lease_epoch |-> e, live |-> l, epoch_counter |-> n, state |-> v]
  BY <1>1
<1>6. x.lease_owner = o /\ x.lease_epoch = e /\ x.live = l /\ x.epoch_counter = n /\ x.state = s
  BY <1>1
<1> QED
  BY <1>1, <1>4, <1>5, <1>6

(* The key's row: types, and the epoch of a lease that is held.            *)
LEMMA PollersFacts ==
  ASSUME PgInv, Pg!PostgresParameters
  PROVE  /\ pgPollers \in Pg!PollersRow \cup {NoRow} /\ NoRow \notin Pg!PollersRow
         /\ pgPollers # NoRow /\ pgPollers.lease_owner # NoOwner =>
              pgPollers.lease_epoch \in 1..pgPollers.epoch_counter
         /\ NoOwner \notin Owner /\ pgHeld \in [Owner -> Nat]
         /\ Null \notin Pg!C!PollerState
         /\ PgState \in Pg!C!PollerState /\ PgState = Pg!CommittedState
BY DEF PgInv, PgRows, Pg!PostgresParameters, PgState, Pg!CommittedState, Pg!C!InitialState,
   Pg!C!PollerState, Pg!PollersRow

(* The statement that acquires is the contract's acquireLease.             *)
LEMMA PgAcquireStep ==
  ASSUME PgInv, Pg!PostgresParameters, NEW c \in Owner, Pg!Acquire(c)
  PROVE  PgInv' /\ PgStep
<1> DEFINE n == IF pgPollers = NoRow THEN 1 ELSE pgPollers.epoch_counter + 1
           s == IF pgPollers = NoRow THEN Null ELSE pgPollers.state
<1>1. /\ pgConn[c].pc = "idle" /\ Pg!Unlocked(c, "pollers", Pg!Key)
      /\ pgPollers # NoRow =>
           pgPollers.lease_owner = NoOwner \/ ~pgPollers.live \/ pgPollers.lease_owner = c
      /\ pgPollers' = [lease_owner |-> c, lease_epoch |-> n, live |-> TRUE, epoch_counter |-> n,
                       state |-> s]
      /\ pgHeld' = [pgHeld EXCEPT ![c] = n]
      /\ UNCHANGED <<pgConn, pgItems, pgOutbox, pgParked, pgLog, pgValidator, pgWriter>>
  BY DEF Pg!Acquire, Pg!OneStatement, Pg!Ready
<1>2. n \in Nat /\ n \in 1..n /\ n = PgCounter + 1 /\ PgCounter \in Nat
  <2>1. CASE pgPollers = NoRow
    BY <2>1 DEF PgCounter
  <2>2. CASE pgPollers \in Pg!PollersRow
    <3>1. pgPollers.epoch_counter \in Nat /\ pgPollers # NoRow
      BY <2>2, PollersFields, PollersFacts
    <3> QED
      BY <3>1 DEF PgCounter
  <2> QED
    BY <2>1, <2>2, PollersFacts
<1>3. s \in Pg!C!PollerState \cup {Null}
  BY PollersFacts, PollersFields
<1>4. pgPollers' \in Pg!PollersRow /\ pgPollers' # NoRow
  <2>1. pgPollers' \in Pg!PollersRow
    BY <1>1, <1>2, <1>3 DEF Pg!PollersRow
  <2> QED
    BY <2>1, PollersFacts
<1>5. pgHeld' \in [Owner -> Nat]
  BY <1>1, <1>2, PollersFacts
<1>6. PgInv'
  <2>1. (pgPollers.lease_owner # NoOwner => pgPollers.lease_epoch \in 1..pgPollers.epoch_counter)'
    BY <1>1, <1>2
  <2> QED
    BY <1>1, <1>4, <1>5, <2>1, PollersMove
<1>7. Pg!C!Acquire(c)
  <2>1. ~(PgLease.live /\ PgLease.owner # c)
    BY <1>1 DEF PgLease
  <2>2. PgLease' = [owner |-> c, epoch |-> PgCounter + 1, live |-> TRUE] /\ PgCounter' = PgCounter
          + 1
    BY <1>1, <1>2, <1>4, PollersFacts DEF PgLease, PgCounter
  <2>3. PgState' = PgState
    BY <1>1, <1>4 DEF PgState
  <2> QED
    BY <1>1, <2>1, <2>2, <2>3 DEF Pg!C!Acquire, Pg!C!AcquireLease, PgLease, PgCounter, PgState
<1> QED
  BY <1>6, <1>7 DEF PgStep, Pg!C!Next

(* Under its own lease an engine passes the contract's fence.              *)
LEMMA MineFences ==
  ASSUME PgInv, Pg!PostgresParameters, NEW c \in Owner, Pg!Mine(c)
  PROVE  /\ Pg!C!Fence(c, pgHeld[c]) /\ pgHeld[c] \in 1..PgCounter
         /\ PgLease = [owner |-> c, epoch |-> pgHeld[c], live |-> pgPollers.live]
         /\ pgPollers \in Pg!PollersRow /\ pgPollers.lease_owner = c
<1>1. pgPollers \in Pg!PollersRow /\ pgPollers # NoRow
  BY PollersFacts DEF Pg!Mine
<1>2. pgPollers.lease_owner = c /\ pgPollers.lease_epoch = pgHeld[c] /\ c # NoOwner
  BY PollersFacts DEF Pg!Mine
<1>3. PgLease = [owner |-> c, epoch |-> pgHeld[c], live |-> pgPollers.live]
  BY <1>1, <1>2 DEF PgLease
<1>4. PgLease.owner = c /\ PgLease.epoch = pgHeld[c]
  BY <1>3
<1>5. Pg!C!Fence(c, pgHeld[c])
  BY <1>4 DEF Pg!C!Fence, PgLease
<1>6. pgHeld[c] \in 1..PgCounter
  BY <1>1, <1>2, PollersFacts DEF PgCounter
<1> QED
  BY <1>1, <1>2, <1>3, <1>5, <1>6

(* The statement that renews is the contract's renewLease.                 *)
LEMMA PgRenewStep ==
  ASSUME PgInv, Pg!PostgresParameters, NEW c \in Owner, Pg!Renew(c)
  PROVE  PgInv' /\ PgStep
<1>1. /\ pgConn[c].pc = "idle" /\ Pg!Unlocked(c, "pollers", Pg!Key) /\ Pg!Mine(c)
      /\ pgPollers' = [pgPollers EXCEPT !.live = TRUE]
      /\ UNCHANGED <<pgConn, pgHeld, pgItems, pgOutbox, pgParked, pgLog, pgValidator, pgWriter>>
  BY DEF Pg!Renew, Pg!OneStatement, Pg!Ready
<1>2. /\ pgPollers \in Pg!PollersRow /\ pgPollers.lease_owner = c /\ pgPollers # NoRow
      /\ PgLease = [owner |-> c, epoch |-> pgHeld[c], live |-> pgPollers.live]
      /\ pgHeld[c] \in 1..PgCounter /\ Pg!C!Fence(c, pgHeld[c])
  BY <1>1, MineFences, PollersFacts
<1>3. pgPollers' = [lease_owner |-> c, lease_epoch |-> pgPollers.lease_epoch, live |-> TRUE,
                    epoch_counter |-> pgPollers.epoch_counter, state |-> pgPollers.state]
  BY <1>1, <1>2, PollersFields
<1>4. pgPollers' \in Pg!PollersRow /\ pgPollers' # NoRow
  <2>1. /\ pgPollers.lease_owner \in Owner \cup {NoOwner} /\ pgPollers.lease_epoch \in Nat
        /\ pgPollers.epoch_counter \in Nat /\ pgPollers.state \in Pg!C!PollerState \cup {Null}
    BY <1>2, PollersFields
  <2>2. pgPollers' \in Pg!PollersRow
    BY <1>3, <2>1 DEF Pg!PollersRow
  <2> QED
    BY <2>2, PollersFacts
<1>5. PgInv'
  <2>1. (pgPollers.lease_owner # NoOwner => pgPollers.lease_epoch \in 1..pgPollers.epoch_counter)'
    BY <1>2, <1>3, PollersFacts
  <2> QED
    BY <1>1, <1>4, <2>1, PollersMove, PollersFacts
<1>6. Pg!C!Renew(c, pgHeld[c])
  <2>1. pgPollers.lease_epoch = pgHeld[c] /\ c # NoOwner
    BY <1>1, PollersFacts DEF Pg!Mine
  <2>2. PgLease' = [owner |-> c, epoch |-> pgHeld[c], live |-> TRUE]
        /\ PgCounter' = PgCounter /\ PgState' = PgState
    BY <1>2, <1>3, <1>4, <2>1 DEF PgLease, PgCounter, PgState
  <2>3. PgLease' = [PgLease EXCEPT !.live = TRUE]
    <3>1. PICK x : x = PgLease
      OBVIOUS
    <3>2. \A v : [x EXCEPT !.live = v] = [owner |-> c, epoch |-> pgHeld[c], live |-> v]
      BY <1>2, <3>1
    <3>3. [PgLease EXCEPT !.live = TRUE] = [x EXCEPT !.live = TRUE]
      BY <3>1
    <3> QED
      BY <2>2, <3>2, <3>3
  <2> QED
    BY <1>1, <1>2, <2>2, <2>3 DEF Pg!C!Renew, Pg!C!RenewLease, PgLease, PgCounter, PgState
<1> QED
  BY <1>2, <1>5, <1>6 DEF PgStep, Pg!C!Next, PgCounter

(* The statement that releases is the contract's releaseLease.             *)
LEMMA PgReleaseStep ==
  ASSUME PgInv, Pg!PostgresParameters, NEW c \in Owner, Pg!Release(c)
  PROVE  PgInv' /\ PgStep
<1>1. /\ pgConn[c].pc = "idle" /\ Pg!Unlocked(c, "pollers", Pg!Key) /\ Pg!Mine(c)
      /\ pgPollers' = [pgPollers EXCEPT !.lease_owner = NoOwner, !.live = FALSE]
      /\ pgHeld' = [pgHeld EXCEPT ![c] = 0]
      /\ UNCHANGED <<pgConn, pgItems, pgOutbox, pgParked, pgLog, pgValidator, pgWriter>>
  BY DEF Pg!Release, Pg!OneStatement, Pg!Ready
<1>2. /\ pgPollers \in Pg!PollersRow /\ pgPollers # NoRow
      /\ pgHeld[c] \in 1..PgCounter /\ Pg!C!Fence(c, pgHeld[c])
  BY <1>1, MineFences, PollersFacts
<1>3. pgPollers' = [lease_owner |-> NoOwner, lease_epoch |-> pgPollers.lease_epoch, live |-> FALSE,
                    epoch_counter |-> pgPollers.epoch_counter, state |-> pgPollers.state]
  BY <1>1, <1>2, PollersFields
<1>4. pgPollers' \in Pg!PollersRow /\ pgPollers' # NoRow
  <2>1. /\ pgPollers.lease_owner \in Owner \cup {NoOwner} /\ pgPollers.lease_epoch \in Nat
        /\ pgPollers.epoch_counter \in Nat /\ pgPollers.state \in Pg!C!PollerState \cup {Null}
    BY <1>2, PollersFields
  <2>2. pgPollers' \in Pg!PollersRow
    BY <1>3, <2>1 DEF Pg!PollersRow
  <2> QED
    BY <2>2, PollersFacts
<1>5. PgInv'
  <2>1. (pgPollers.lease_owner # NoOwner => pgPollers.lease_epoch \in 1..pgPollers.epoch_counter)'
    BY <1>3
  <2>2. pgHeld' \in [Owner -> Nat]
    BY <1>1, PollersFacts
  <2> QED
    BY <1>1, <1>4, <2>1, <2>2, PollersMove
<1>6. Pg!C!Release(c, pgHeld[c])
  <2>1. PgLease' = Pg!C!NoLease /\ PgCounter' = PgCounter /\ PgState' = PgState
    BY <1>2, <1>3, <1>4 DEF PgLease, PgCounter, PgState, Pg!C!NoLease
  <2> QED
    BY <1>1, <1>2, <2>1 DEF Pg!C!Release, Pg!C!ReleaseLease, PgLease, PgCounter, PgState
<1> QED
  BY <1>2, <1>5, <1>6 DEF PgStep, Pg!C!Next, PgCounter

(* Time passes the expiry, whatever is locked.                             *)
LEMMA PgExpireStep ==
  ASSUME PgInv, Pg!PostgresParameters, Pg!Expire
  PROVE  PgInv' /\ PgStep
<1>1. /\ pgPollers # NoRow /\ pgPollers.live /\ pgPollers' = [pgPollers EXCEPT !.live = FALSE]
      /\ UNCHANGED <<pgConn, pgHeld, pgItems, pgOutbox, pgParked, pgLog, pgValidator, pgWriter>>
  BY DEF Pg!Expire
<1>2. pgPollers \in Pg!PollersRow
  BY <1>1, PollersFacts
<1>3. pgPollers' = [lease_owner |-> pgPollers.lease_owner, lease_epoch |-> pgPollers.lease_epoch,
                    live |-> FALSE, epoch_counter |-> pgPollers.epoch_counter,
                    state |-> pgPollers.state]
  BY <1>1, <1>2, PollersFields
<1>4. pgPollers' \in Pg!PollersRow /\ pgPollers' # NoRow
  <2>1. /\ pgPollers.lease_owner \in Owner \cup {NoOwner} /\ pgPollers.lease_epoch \in Nat
        /\ pgPollers.epoch_counter \in Nat /\ pgPollers.state \in Pg!C!PollerState \cup {Null}
    BY <1>2, PollersFields
  <2>2. pgPollers' \in Pg!PollersRow
    BY <1>3, <2>1 DEF Pg!PollersRow
  <2> QED
    BY <2>2, PollersFacts
<1>5. PgRows'
  <2>1. (pgPollers.lease_owner # NoOwner => pgPollers.lease_epoch \in 1..pgPollers.epoch_counter)'
    BY <1>1, <1>3, PollersFacts
  <2> QED
    BY <1>1, <1>4, <2>1 DEF PgInv, PgRows, FromPgBatch
<1>6. pgPollers'.state = pgPollers.state /\ Pg!CommittedState' = Pg!CommittedState
  BY <1>1, <1>3, <1>4 DEF Pg!CommittedState, Pg!C!InitialState
<1>7. ASSUME NEW d \in Pg!Caller
      PROVE  TxnOK(d, pgConn[d])'
  <2>1. PICK x : x = pgConn[d]
    OBVIOUS
  <2>2. Shape(x) /\ Locked(x) /\ KeyHeld(d, x) /\ TxnStage(d, x)
    BY <2>1 DEF PgInv, TxnOK
  <2>3. KeyHeld(d, x)'
    BY <1>1, <1>3, <1>4, <2>2 DEF KeyHeld, Pg!Mine
  <2>4. Column(x) => Column(x)'
    BY <1>6 DEF Column, Pg!PatchOf, Pg!C!Patched
  <2>5. \A e : RowsOf(e)' = RowsOf(e)
    BY <1>1 DEF RowsOf
  <2>6. TxnStage(d, x)'
    BY <1>1, <2>2, <2>4, <2>5, StageKept
  <2> QED
    BY <1>1, <2>1, <2>2, <2>3, <2>6 DEF TxnOK, Shape, Locked
<1>8. PgInv'
  <2>1. pgConn' = [d \in Pg!Caller |-> pgConn'[d]]
    BY <1>1 DEF PgInv
  <2>2. \A d, e \in Pg!Caller : d # e => LocksApart(pgConn[d], pgConn[e])'
    BY <1>1 DEF PgInv, LocksApart
  <2> QED
    BY <1>5, <1>7, <2>1, <2>2 DEF PgInv
<1>9. PgCounter' = PgCounter /\ PgState' = PgState
  BY <1>1, <1>3, <1>4 DEF PgCounter, PgState
<1>10. CASE pgPollers.lease_owner = NoOwner
  <2>1. PgLease' = PgLease
    BY <1>3, <1>10 DEF PgLease
  <2>2. UNCHANGED Pg!C!contractVars
    BY <1>1, <1>9, <2>1 DEF PgLease, PgCounter, PgState, Pg!C!contractVars, Pg!C!storeVars
  <2> QED
    BY <1>8, <2>2 DEF PgStep
<1>11. CASE pgPollers.lease_owner # NoOwner
  <2>1. PICK x : x = PgLease
    OBVIOUS
  <2>2. x = [owner |-> pgPollers.lease_owner, epoch |-> pgPollers.lease_epoch, live |->
          pgPollers.live]
    BY <1>1, <1>11, <2>1 DEF PgLease
  <2>3. \A v : [x EXCEPT !.live = v] =
          [owner |-> pgPollers.lease_owner, epoch |-> pgPollers.lease_epoch, live |-> v]
    BY <2>2
  <2>4. PgLease' = [owner |-> pgPollers.lease_owner, epoch |-> pgPollers.lease_epoch, live |->
          FALSE]
    BY <1>3, <1>4, <1>11 DEF PgLease
  <2>5. PgLease.live /\ PgLease' = [PgLease EXCEPT !.live = FALSE]
    <3>1. [PgLease EXCEPT !.live = FALSE] = [x EXCEPT !.live = FALSE]
      BY <2>1
    <3>2. x.live
      BY <1>1, <2>2
    <3> QED
      BY <2>1, <2>3, <2>4, <3>1, <3>2
  <2>6. Pg!C!Expire
    BY <1>1, <1>9, <2>5 DEF Pg!C!Expire, PgLease, PgCounter, PgState
  <2> QED
    BY <1>8, <2>6 DEF PgStep, Pg!C!Next
<1> QED
  BY <1>10, <1>11

(* A statement of the operator that is no transaction.                     *)
LEMMA OperatorStatement ==
  ASSUME PgInv, Pg!PostgresParameters, pgConn[Operator].pc = "idle",
         UNCHANGED <<pgConn, pgHeld, pgPollers, pgOutbox>>, pgParked' \subseteq pgParked
  PROVE  PgInv'
<1>1. PgRows'
  BY DEF PgInv, PgRows, FromPgBatch
<1>2. ASSUME NEW d \in Pg!Caller
      PROVE  TxnOK(d, pgConn[d])'
  <2>1. PICK x : x = pgConn[d]
    OBVIOUS
  <2>2. Shape(x) /\ Locked(x) /\ KeyHeld(d, x) /\ TxnStage(d, x)
    BY <2>1 DEF PgInv, TxnOK
  <2>3. KeyHeld(d, x)'
    BY <2>2 DEF KeyHeld, Pg!Mine
  <2>4. Column(x) => Column(x)'
    BY DEF Column, Pg!PatchOf, Pg!C!Patched, Pg!CommittedState
  <2>5. \A e : RowsOf(e)' = RowsOf(e)
    BY DEF RowsOf
  <2>6. d = Operator => x.op \notin {"retryParked", "deleteKey"}
    BY <2>1, <2>2, PgCallers DEF TxnStage, OperatorStage, Pg!Idle
  <2>7. TxnStage(d, x)'
    BY <2>2, <2>4, <2>5, <2>6, StageKept
  <2> QED
    BY <2>1, <2>2, <2>3, <2>7 DEF TxnOK, Shape, Locked
<1>3. pgConn' = [d \in Pg!Caller |-> pgConn'[d]]
  BY DEF PgInv
<1>4. \A d, e \in Pg!Caller : d # e => LocksApart(pgConn[d], pgConn[e])'
  BY DEF PgInv, LocksApart
<1> QED
  BY <1>1, <1>2, <1>3, <1>4 DEF PgInv

(* discardParked and pruneLog are the contract's; clearItems begins.       *)
LEMMA StatementStep ==
  ASSUME PgInv, Pg!PostgresParameters,
         \/ \E ids \in SUBSET {row.event : row \in pgParked} : Pg!DiscardParked(ids)
         \/ Pg!ClearItems
         \/ \E n \in 1..Pg!CommittedState.sequence : Pg!PruneLog(n)
  PROVE  PgInv' /\ PgStep
<1>1. ASSUME UNCHANGED pgPollers
      PROVE  UNCHANGED <<PgLease, PgCounter, PgState>>
  BY <1>1 DEF PgLease, PgCounter, PgState
<1>2. CASE \E ids \in SUBSET {row.event : row \in pgParked} : Pg!DiscardParked(ids)
  <2>1. PICK ids \in SUBSET {row.event : row \in pgParked} : Pg!DiscardParked(ids)
    BY <1>2
  <2>2. /\ pgConn[Operator].pc = "idle"
        /\ UNCHANGED <<pgConn, pgHeld, pgPollers, pgOutbox, pgItems, pgLog, pgValidator, pgWriter>>
        /\ pgParked' = {row \in pgParked : row.event \notin ids}
    BY <2>1 DEF Pg!DiscardParked, Pg!OneStatement, Pg!Ready
  <2>3. PgInv'
    BY <2>2, OperatorStatement
  <2>4. ids \in SUBSET Pg!C!Event
    BY PgEvent DEF PgInv, PgRows
  <2>5. Pg!C!Discard(ids)
    BY <1>1, <2>2 DEF Pg!C!Discard, Pg!C!Unfenced, PgLease, PgCounter, PgState
  <2> QED
    BY <2>3, <2>4, <2>5 DEF PgStep, Pg!C!Next
<1>3. CASE Pg!ClearItems
  <2>1. /\ pgConn[Operator].pc = "idle"
        /\ UNCHANGED <<pgConn, pgHeld, PgTables, pgWriter>>
    BY <1>3 DEF Pg!ClearItems, Pg!OneStatement, Pg!Ready, PgTables
  <2>2. PgInv'
    BY <2>1, OperatorStatement DEF PgTables
  <2> QED
    BY <2>1, <2>2, PgStutters
<1>4. CASE \E n \in 1..Pg!CommittedState.sequence : Pg!PruneLog(n)
  <2>1. PICK n \in 1..Pg!CommittedState.sequence : Pg!PruneLog(n)
    BY <1>4
  <2>2. /\ pgConn[Operator].pc = "idle"
        /\ UNCHANGED <<pgConn, pgHeld, pgPollers, pgOutbox, pgParked, pgItems, pgValidator,
             pgWriter>>
        /\ pgLog' = {l \in pgLog : l.sequence >= n}
    BY <2>1 DEF Pg!PruneLog, Pg!OneStatement, Pg!Ready
  <2>3. PgInv'
    BY <2>2, OperatorStatement
  <2>4. n \in 1..PgState.sequence
    BY PollersFacts
  <2>5. Pg!C!PruneLog(n)
    BY <1>1, <2>2 DEF Pg!C!PruneLog, Pg!C!Unfenced, PgLease, PgCounter, PgState
  <2> QED
    BY <2>3, <2>4, <2>5 DEF PgStep, Pg!C!Next, PgState
<1> QED
  BY <1>2, <1>3, <1>4

(* clearItems ends: all that is not late is gone, or nothing is.           *)
LEMMA ClearEnds ==
  ASSUME PgInv, ClearInv, Pg!PostgresParameters, Pg!ClearRows \/ Pg!ClearFails
  PROVE  PgInv' /\ PgStep
<1>1. /\ pgClearing # {} /\ pgConn[Operator].pc = "idle"
      /\ pgClearing = {k \in PgIdentity : pgItems[k] # Absent /\ k \notin pgLate}
      /\ UNCHANGED <<pgConn, pgHeld, pgPollers, pgOutbox, pgParked, pgLog, pgValidator, pgWriter>>
  BY DEF Pg!ClearRows, Pg!ClearFails, ClearInv
<1>2. PgInv'
  BY <1>1, OperatorStatement
<1>3. CASE Pg!ClearFails
  <2>1. UNCHANGED <<PgTables, pgWriter>>
    BY <1>1, <1>3 DEF Pg!ClearFails, PgTables
  <2> QED
    BY <1>2, <2>1, PgStutters
<1>4. CASE Pg!ClearRows
  <2>1. pgItems' = [k \in PgIdentity |-> IF k \in pgClearing THEN Absent ELSE pgItems[k]]
    BY <1>4 DEF Pg!ClearRows
  <2>2. \A k \in PgIdentity : (IF k \in pgClearing THEN Absent ELSE pgItems[k])
                              = (IF k \in pgLate THEN pgItems[k] ELSE Absent)
    BY <1>1
  <2>3. pgItems' = [k \in PgIdentity |-> IF k \in pgLate THEN pgItems[k] ELSE Absent]
    BY <2>1, <2>2
  <2>4. UNCHANGED <<PgLease, PgCounter, Pg!CommittedState>>
    BY <1>1 DEF PgLease, PgCounter, Pg!CommittedState
  <2>5. Pg!LateClear
    BY <1>1, <2>3, <2>4 DEF Pg!LateClear, Pg!C!Unfenced, PgLease, PgCounter
  <2> QED
    BY <1>2, <2>5 DEF PgStep
<1> QED
  BY <1>3, <1>4

(* What begins no clear and writes no item leaves a clear as it is.        *)
LEMMA ClearUntouched ==
  ASSUME ClearInv, pgClearing' = pgClearing,
         pgClearing = {} \/ UNCHANGED <<pgItems, pgLate, pgConn[Operator]>>
  PROVE  ClearInv'
BY DEF ClearInv

(* A transaction of another caller leaves the operator's connection alone. *)
LEMMA OthersConn ==
  ASSUME PgInv, Pg!PostgresParameters, NEW c \in Owner, NEW t, pgConn' = [pgConn EXCEPT ![c] = t]
  PROVE  pgConn'[Operator] = pgConn[Operator]
BY PgCallers DEF PgInv

(* COMMIT leaves a clear the rows that are still there.                    *)
LEMMA CommitClear ==
  ASSUME PgInv, ClearInv, Pg!PostgresParameters, NEW c \in Pg!Caller, Pg!Commit(c)
  PROVE  ClearInv'
<1>1. /\ pgConn[c].pc = "commit" /\ pgConn' = [pgConn EXCEPT ![c] = Pg!Idle]
      /\ pgClearing' = {k \in pgClearing : pgItems'[k] # Absent}
      /\ pgClearing' # {} => pgLate' = {k \in PgIdentity : pgItems'[k] # Absent
                                           /\ (pgItems[k] = Absent \/ k \in pgLate)}
  BY DEF Pg!Commit, Pg!Overtake
<1>2. CASE pgClearing = {}
  BY <1>1, <1>2 DEF ClearInv
<1>3. CASE pgClearing # {}
  <2>1. /\ pgConn[Operator].pc = "idle"
        /\ pgClearing = {k \in PgIdentity : pgItems[k] # Absent /\ k \notin pgLate}
    BY <1>3 DEF ClearInv
  <2>2. c \in Owner
    BY <1>1, <2>1, PgCallers
  <2>3. pgConn'[Operator].pc = "idle"
    BY <1>1, <2>1, <2>2, OthersConn
  <2>4. pgClearing' # {} =>
          pgClearing' = {k \in PgIdentity : pgItems'[k] # Absent /\ k \notin pgLate'}
    BY <1>1, <2>1
  <2> QED
    BY <2>3, <2>4 DEF ClearInv
<1> QED
  BY <1>2, <1>3

(* Every step of the store keeps ClearInv.                                 *)
LEMMA ClearKept ==
  ASSUME PgInv, ClearInv, Pg!PostgresParameters, [Pg!Next]_(Pg!vars)
  PROVE  ClearInv'
<1>1. CASE UNCHANGED Pg!vars
  BY <1>1, ClearUntouched DEF Pg!vars, Pg!clearVars
<1>2. ASSUME NEW c \in Owner,
             Pg!Acquire(c) \/ Pg!Renew(c) \/ Pg!Release(c) \/ Pg!EngineCalls(c) \/ Pg!LeaseLost(c)
      PROVE  ClearInv'
  <2>1. UNCHANGED <<pgItems, pgLate, pgClearing>>
    BY <1>2 DEF Pg!Acquire, Pg!Renew, Pg!Release, Pg!EngineCalls, Pg!LeaseLost, Pg!Begin,
       Pg!clearVars
  <2>2. pgConn' = pgConn \/ \E t : pgConn' = [pgConn EXCEPT ![c] = t]
    BY <1>2 DEF Pg!Acquire, Pg!Renew, Pg!Release, Pg!EngineCalls, Pg!LeaseLost, Pg!Begin,
       Pg!OneStatement
  <2> QED
    BY <2>1, <2>2, OthersConn, ClearUntouched
<1>3. CASE Pg!OperatorCalls
  <2>1. CASE Pg!ClearItems
    <3>1. /\ pgConn[Operator].pc = "idle" /\ UNCHANGED <<pgConn, pgItems>>
          /\ pgClearing' = {k \in PgIdentity : pgItems[k] # Absent} /\ pgLate' = {}
      BY <2>1 DEF Pg!ClearItems, Pg!OneStatement, Pg!Ready
    <3> QED
      BY <3>1 DEF ClearInv
  <2>2. CASE ~Pg!ClearItems
    <3>1. pgClearing = {} /\ pgClearing' = {}
      BY <1>3, <2>2 DEF Pg!OperatorCalls, Pg!Begin, Pg!DiscardParked, Pg!PruneLog,
         Pg!OneStatement, Pg!Ready, Pg!clearVars
    <3> QED
      BY <3>1 DEF ClearInv
  <2> QED
    BY <2>1, <2>2
<1>4. CASE Pg!Expire
  BY <1>4, ClearUntouched DEF Pg!Expire, Pg!clearVars
<1>5. CASE Pg!ClearRows \/ Pg!ClearFails
  BY <1>5 DEF Pg!ClearRows, Pg!ClearFails, ClearInv
<1>6. ASSUME NEW c \in Pg!Caller, NEW p, NEW ls, NEW ch, pgConn[c].pc # "idle",
             Pg!Continue(c, p, ls, ch)
      PROVE  ClearInv'
  <2>1. UNCHANGED <<pgItems, pgLate, pgClearing>>
    BY <1>6 DEF Pg!Continue, Pg!clearVars
  <2>2. CASE c = Operator
    BY <1>6, <2>1, <2>2 DEF ClearInv
  <2>3. CASE c \in Owner
    BY <1>6, <2>1, <2>3, Continues, OthersConn, ClearUntouched
  <2> QED
    BY <2>2, <2>3, PgCallers
<1>7. ASSUME NEW c \in Owner,
             \/ Pg!Fenced(c, Pg!AfterLock(pgConn[c].op))
             \/ Pg!CommitItems(c) \/ Pg!CommitOutbox(c) \/ Pg!AckEvents(c) \/ Pg!RecordAttempt(c)
             \/ Pg!ParkUpsert(c) \/ Pg!ParkDelete(c)
      PROVE  ClearInv'
  <2>1. \E p, ls, ch : pgConn[c].pc # "idle" /\ Pg!Continue(c, p, ls, ch)
    BY <1>7 DEF Pg!Fenced, Pg!CommitItems, Pg!CommitOutbox, Pg!AckEvents, Pg!RecordAttempt,
       Pg!ParkUpsert, Pg!ParkDelete
  <2> QED
    BY <1>6, <2>1, PgCallers
<1>8. ASSUME NEW c \in Pg!Caller, Pg!WriteState(c, Pg!PatchOf(pgConn[c])) \/ Pg!Rollback(c)
      PROVE  ClearInv'
  <2>1. CASE Pg!WriteState(c, Pg!PatchOf(pgConn[c]))
    BY <1>6, <2>1 DEF Pg!WriteState
  <2>2. CASE Pg!Rollback(c)
    <3>1. /\ pgConn[c].pc # "idle" /\ pgConn' = [pgConn EXCEPT ![c] = Pg!Idle]
          /\ UNCHANGED <<pgItems, pgLate, pgClearing>>
      BY <2>2 DEF Pg!Rollback, Pg!clearVars
    <3>2. CASE c = Operator
      BY <3>1, <3>2 DEF ClearInv
    <3>3. CASE c \in Owner
      BY <3>1, <3>3, OthersConn, ClearUntouched
    <3> QED
      BY <3>2, <3>3, PgCallers
  <2> QED
    BY <1>8, <2>1, <2>2
<1>9. CASE \/ Pg!LockUnfenced(Operator)
           \/ \E id \in Pg!C!Event : Pg!RetryLock(Operator, id)
           \/ Pg!RetryMove(Operator) \/ Pg!RetryDone(Operator)
           \/ Pg!DeletePoller(Operator) \/ Pg!DeleteRows(Operator)
  <2>1. pgConn[Operator].pc # "idle"
    BY <1>9 DEF Pg!LockUnfenced, Pg!RetryLock, Pg!RetryMove, Pg!RetryDone, Pg!DeletePoller,
       Pg!DeleteRows
  <2>2. pgClearing' = pgClearing
    BY <1>9 DEF Pg!LockUnfenced, Pg!RetryLock, Pg!RetryMove, Pg!RetryDone, Pg!DeletePoller,
       Pg!DeleteRows, Pg!Continue, Pg!clearVars
  <2> QED
    BY <2>1, <2>2 DEF ClearInv
<1> QED
  BY <1>1, <1>2, <1>3, <1>4, <1>5, <1>7, <1>8, <1>9, CommitClear DEF Pg!Next

(* A transaction at its COMMIT, and the tables after it.                   *)
LEMMA AtCommit ==
  ASSUME PgInv, Pg!PostgresParameters, NEW c \in Pg!Caller, Pg!Commit(c)
  PROVE  /\ pgConn[c].pc = "commit"
         /\ Shape(pgConn[c]) /\ Locked(pgConn[c]) /\ KeyHeld(c, pgConn[c])
         /\ \/ c \in Owner /\ EngineStage(pgConn[c]) /\ pgConn[c].op \in Pg!FencedOps
            \/ c = Operator /\ OperatorStage(pgConn[c])
                 /\ pgConn[c].op \in {"saveStateUnfenced", "retryParked", "deleteKey"}
         /\ pgOutbox' = Pg!C!Put(pgOutbox \ pgConn[c].change.gone, pgConn[c].change.put)
         /\ pgParked' = Pg!C!Put(pgParked \ pgConn[c].change.unparked, pgConn[c].change.park)
         /\ pgConn' = [pgConn EXCEPT ![c] = Pg!Idle] /\ pgHeld' = pgHeld
<1>1. pgConn[c].pc = "commit"
  BY DEF Pg!Commit
<1>2. /\ Shape(pgConn[c]) /\ Locked(pgConn[c]) /\ KeyHeld(c, pgConn[c]) /\ TxnStage(c, pgConn[c])
  BY DEF PgInv, TxnOK
<1>3. \/ c \in Owner /\ EngineStage(pgConn[c])
      \/ c = Operator /\ OperatorStage(pgConn[c])
  BY <1>1, <1>2 DEF TxnStage, Pg!Idle
<1>4. EngineStage(pgConn[c]) => pgConn[c].op \in Pg!FencedOps
  BY DEF EngineStage, Pg!FencedOps
<1>5. OperatorStage(pgConn[c]) =>
        pgConn[c].op \in {"saveStateUnfenced", "retryParked", "deleteKey"}
  BY DEF OperatorStage
<1>6. /\ pgOutbox' = Pg!C!Put(pgOutbox \ pgConn[c].change.gone, pgConn[c].change.put)
      /\ pgParked' = Pg!C!Put(pgParked \ pgConn[c].change.unparked, pgConn[c].change.park)
      /\ pgConn' = [pgConn EXCEPT ![c] = Pg!Idle] /\ pgHeld' = pgHeld
  BY DEF Pg!Commit
<1> QED
  BY <1>1, <1>2, <1>3, <1>4, <1>5, <1>6

(* What it writes is of the tables' types and came from a batch.           *)
LEMMA WritesSound ==
  ASSUME PgInv, Pg!PostgresParameters, NEW c \in Pg!Caller, Pg!Commit(c)
  PROVE  /\ pgConn[c].change.put \subseteq Pg!C!OutboxRow
         /\ pgConn[c].change.park \subseteq Pg!C!ParkedRow
         /\ \A row \in pgConn[c].change.put \cup pgConn[c].change.park : FromPgBatch(row)
<1> DEFINE t == pgConn[c]
<1>1. /\ pgOutbox \subseteq Pg!C!OutboxRow /\ pgParked \subseteq Pg!C!ParkedRow
      /\ \A row \in pgOutbox \cup pgParked : FromPgBatch(row)
  BY DEF PgInv, PgRows
<1>2. t.pc = "commit" /\ \/ EngineStage(t) /\ t.op \in Pg!FencedOps
                         \/ OperatorStage(t) /\ t.op \in {"saveStateUnfenced", "retryParked",
                              "deleteKey"}
  BY AtCommit
<1>3. CASE t.op = "commitPoll"
  <2>1. t.arg \in PgBatch /\ t.change.put = t.arg.rows /\ t.change.park = {}
    BY <1>2, <1>3 DEF EngineStage, ParkedUntouched
  <2>2. t.arg.rows \subseteq Pg!C!OutboxRow
    BY <2>1 DEF Pg!PostgresParameters
  <2> QED
    BY <2>1, <2>2 DEF FromPgBatch
<1>4. CASE t.op = "recordAttempt"
  <2>1. t.change.park = {}
        /\ \A new \in t.change.put : \E row \in pgOutbox : new = [row EXCEPT !.attempts = @ + 1]
    BY <1>2, <1>4 DEF EngineStage, ParkedUntouched, RowsOf
  <2>2. ASSUME NEW row \in pgOutbox
        PROVE  [row EXCEPT !.attempts = @ + 1] \in Pg!C!OutboxRow /\ FromPgBatch([row EXCEPT
                 !.attempts = @ + 1])
    <3>1. row \in Pg!C!OutboxRow /\ FromPgBatch(row)
      BY <1>1
    <3>2. PICK e \in Pg!C!EventId, q \in Nat, n \in Nat : row = [event |-> e, sequence |-> q,
                 attempts |-> n]
      BY <3>1 DEF Pg!C!OutboxRow
    <3>3. [row EXCEPT !.attempts = @ + 1] = [event |-> e, sequence |-> q, attempts |-> n + 1]
      BY <3>2
    <3>4. n + 1 \in Nat
      OBVIOUS
    <3> QED
      BY <3>1, <3>2, <3>3, <3>4 DEF Pg!C!OutboxRow, FromPgBatch
  <2> QED
    BY <2>1, <2>2
<1>5. CASE t.op = "parkEvent"
  <2>1. t.change.put = {} /\ t.change.park = {Pg!C!ParkedRowOf(t.arg)} /\ FromPgBatch(t.arg)
    BY <1>2, <1>5 DEF EngineStage
  <2>2. PICK b1 \in PgBatch : \E r \in b1.rows : r.event = t.arg.event /\ r.sequence = t.arg.sequence
    BY <2>1 DEF FromPgBatch
  <2>22. PICK r \in b1.rows : r.event = t.arg.event /\ r.sequence = t.arg.sequence
    BY <2>2
  <2>3. r \in Pg!C!OutboxRow
    BY <2>22 DEF Pg!PostgresParameters
  <2>4. t.arg.event \in Pg!C!EventId /\ t.arg.sequence \in Nat
    BY <2>22, <2>3 DEF Pg!C!OutboxRow
  <2>5. Pg!C!ParkedRowOf(t.arg) \in Pg!C!ParkedRow /\ FromPgBatch(Pg!C!ParkedRowOf(t.arg))
    BY <2>22, <2>4 DEF Pg!C!ParkedRowOf, Pg!C!ParkedRow, FromPgBatch
  <2> QED
    BY <2>1, <2>5
<1>6. CASE t.op = "retryParked"
  <2>1. t.change.park = {} /\ t.change.put = Pg!C!FreshRows(t.change.unparked)
        /\ t.change.unparked \subseteq pgParked
    BY <1>2, <1>6 DEF OperatorStage, Pg!FencedOps
  <2>2. ASSUME NEW new \in t.change.put
        PROVE  new \in Pg!C!OutboxRow /\ FromPgBatch(new)
    <3>1. PICK row \in pgParked : new = [event |-> row.event, sequence |-> row.sequence, attempts
                 |-> 0]
      BY <2>1 DEF Pg!C!FreshRows
    <3>2. row \in Pg!C!ParkedRow /\ FromPgBatch(row)
      BY <1>1
    <3>3. new \in Pg!C!OutboxRow
      BY <3>1, <3>2 DEF Pg!C!OutboxRow, Pg!C!ParkedRow
    <3>4. new.event = row.event /\ new.sequence = row.sequence
      BY <3>1
    <3> QED
      BY <3>2, <3>3, <3>4 DEF FromPgBatch
  <2> QED
    BY <2>1, <2>2
<1>7. CASE t.op \in {"saveState", "ackEvents", "setValidator", "saveStateUnfenced", "deleteKey"}
  <2>1. t.change.put = {} /\ t.change.park = {}
    BY <1>2, <1>7 DEF EngineStage, OperatorStage, OutboxUntouched, ParkedUntouched
  <2> QED
    BY <2>1
<1> QED
  BY <1>2, <1>3, <1>4, <1>5, <1>6, <1>7 DEF Pg!FencedOps

(* The state a transaction writes is a state.                              *)
LEMMA WrittenState ==
  ASSUME PgInv, Pg!PostgresParameters, NEW c \in Pg!Caller, Pg!Commit(c),
         pgConn[c].op \in Pg!StateOps
  PROVE  /\ pgConn[c].change.state = Pg!C!Patched(PgState, Pg!PatchOf(pgConn[c]))
         /\ pgConn[c].change.state \in Pg!C!PollerState
         /\ pgPollers # NoRow /\ pgPollers \in Pg!PollersRow
<1> DEFINE t == pgConn[c]
<1>1. /\ t.pc = "commit" /\ KeyHeld(c, t)
      /\ \/ EngineStage(t) /\ t.op \in Pg!FencedOps
         \/ OperatorStage(t) /\ t.op = "saveStateUnfenced"
  BY AtCommit DEF Pg!StateOps
<1>2. /\ Column(t)
      /\ \/ t.op = "commitPoll" /\ t.arg \in PgBatch
         \/ t.op # "commitPoll" /\ t.arg \in Pg!C!Patch
  <2>1. CASE t.op = "saveState"
    BY <1>1, <2>1 DEF EngineStage, Pg!FencedOps
  <2>2. CASE t.op = "commitPoll"
    BY <1>1, <2>2 DEF EngineStage, Pg!FencedOps
  <2>3. CASE t.op = "saveStateUnfenced"
    BY <1>1, <2>3 DEF OperatorStage, Pg!FencedOps
  <2> QED
    BY <2>1, <2>2, <2>3 DEF Pg!StateOps
<1>3. t.change.state = Pg!C!Patched(PgState, Pg!PatchOf(t))
  BY <1>1, <1>2, PollersFacts DEF Column
<1>4. \/ Pg!PatchOf(t) \in Rd!C!Patch
      \/ \E x, y \in Nat : Pg!PatchOf(t) = [cursor |-> x, sequence |-> y]
  <2>1. CASE t.op = "commitPoll"
    <3>1. t.arg.cursor \in Nat /\ t.arg.sequence \in Nat
      BY <1>2, <2>1 DEF Pg!PostgresParameters
    <3> QED
      BY <2>1, <3>1 DEF Pg!PatchOf
  <2>2. CASE t.op # "commitPoll"
    BY <1>2, <2>2 DEF Pg!PatchOf, Pg!C!Patch, Rd!C!Patch
  <2> QED
    BY <2>1, <2>2
<1>5. PgState \in Rd!C!PollerState
  BY PollersFacts DEF Pg!C!PollerState, Rd!C!PollerState
<1>6. Rd!C!Patched(PgState, Pg!PatchOf(t)) \in Rd!C!PollerState
  BY <1>4, <1>5, PatchedTypes
<1>7. t.change.state \in Pg!C!PollerState
  BY <1>3, <1>6 DEF Pg!C!Patched, Rd!C!Patched, Pg!C!PollerState, Rd!C!PollerState
<1>8. pgPollers # NoRow
  BY <1>1 DEF KeyHeld, Pg!FencedOps, Pg!StateOps
<1> QED
  BY <1>3, <1>7, <1>8, PollersFacts

(* The key's row after a COMMIT.                                           *)
LEMMA PollersCommitted ==
  ASSUME PgInv, Pg!PostgresParameters, NEW c \in Pg!Caller, Pg!Commit(c)
  PROVE  /\ pgConn[c].op = "deleteKey" => pgPollers' = NoRow
         /\ pgConn[c].op \in Pg!StateOps =>
              /\ pgPollers' \in Pg!PollersRow /\ pgPollers' # NoRow
              /\ pgPollers' =
                   [lease_owner |-> pgPollers.lease_owner, lease_epoch |-> pgPollers.lease_epoch,
                    live |-> pgPollers.live, epoch_counter |-> pgPollers.epoch_counter,
                    state |-> pgConn[c].change.state]
         /\ pgConn[c].op \notin Pg!StateOps \cup {"deleteKey"} => pgPollers' = pgPollers
         /\ pgPollers' \in Pg!PollersRow \cup {NoRow}
         /\ (pgPollers # NoRow /\ pgPollers.lease_owner # NoOwner =>
               pgPollers.lease_epoch \in 1..pgPollers.epoch_counter)'
<1> DEFINE t == pgConn[c]
<1>0. pgPollers' = CASE t.op = "deleteKey" -> NoRow
                     [] t.op \in Pg!StateOps /\ pgPollers = NoRow ->
                          [lease_owner |-> NoOwner, lease_epoch |-> 0, live |-> FALSE,
                           epoch_counter |-> 0, state |-> t.change.state]
                     [] t.op \in Pg!StateOps /\ pgPollers # NoRow ->
                          [pgPollers EXCEPT !.state = t.change.state]
                     [] OTHER -> pgPollers
  BY DEF Pg!Commit
<1>1. CASE t.op = "deleteKey"
  <2>1. pgPollers' = NoRow
    <3>1. t.op \notin Pg!StateOps
      BY <1>1 DEF Pg!StateOps
    <3> QED
      BY <1>0, <1>1, <3>1
  <2> QED
    BY <1>1, <2>1 DEF Pg!StateOps
<1>2. CASE t.op \in Pg!StateOps
  <2>1. /\ pgPollers # NoRow /\ pgPollers \in Pg!PollersRow
        /\ t.change.state \in Pg!C!PollerState
    BY <1>2, WrittenState
  <2>2. pgPollers' = [pgPollers EXCEPT !.state = t.change.state]
    <3>1. t.op # "deleteKey"
      BY <1>2 DEF Pg!StateOps
    <3> QED
      BY <1>0, <1>2, <2>1, <3>1
  <2>3. pgPollers' =
          [lease_owner |-> pgPollers.lease_owner, lease_epoch |-> pgPollers.lease_epoch,
           live |-> pgPollers.live, epoch_counter |-> pgPollers.epoch_counter,
           state |-> t.change.state]
    BY <2>1, <2>2, PollersFields
  <2>4. /\ pgPollers.lease_owner \in Owner \cup {NoOwner} /\ pgPollers.lease_epoch \in Nat
        /\ pgPollers.epoch_counter \in Nat /\ pgPollers.live \in BOOLEAN
    BY <2>1, PollersFields
  <2>5. pgPollers' \in Pg!PollersRow
    BY <2>1, <2>3, <2>4 DEF Pg!PollersRow
  <2>6. pgPollers' # NoRow
    BY <2>5, PollersFacts
  <2>7. (pgPollers.lease_owner # NoOwner => pgPollers.lease_epoch \in 1..pgPollers.epoch_counter)'
    BY <2>1, <2>3, PollersFacts
  <2>8. t.op # "deleteKey"
    BY <1>2 DEF Pg!StateOps
  <2> QED
    BY <1>2, <2>3, <2>5, <2>6, <2>7, <2>8
<1>3. CASE t.op \notin Pg!StateOps \cup {"deleteKey"}
  <2>1. pgPollers' = pgPollers
    BY <1>0, <1>3
  <2> QED
    BY <1>3, <2>1, PollersFacts
<1> QED
  BY <1>1, <1>2, <1>3

(* The rows after a COMMIT.                                                *)
LEMMA RowsCommitted ==
  ASSUME PgInv, Pg!PostgresParameters, NEW c \in Pg!Caller, Pg!Commit(c)
  PROVE  PgRows'
<1> DEFINE t == pgConn[c]
<1>1. /\ t.change.put \subseteq Pg!C!OutboxRow /\ t.change.park \subseteq Pg!C!ParkedRow
      /\ \A row \in t.change.put \cup t.change.park : FromPgBatch(row)
  BY WritesSound
<1>2. /\ pgOutbox \subseteq Pg!C!OutboxRow /\ pgParked \subseteq Pg!C!ParkedRow
      /\ \A row \in pgOutbox \cup pgParked : FromPgBatch(row)
      /\ pgHeld \in [Owner -> Nat]
  BY DEF PgInv, PgRows
<1>3. pgOutbox' \subseteq pgOutbox \cup t.change.put /\ pgParked' \subseteq pgParked \cup
        t.change.park
      /\ pgHeld' = pgHeld
  BY AtCommit DEF Pg!C!Put
<1>4. pgOutbox' \subseteq Pg!C!OutboxRow /\ pgParked' \subseteq Pg!C!ParkedRow
  BY <1>1, <1>2, <1>3
<1>5. \A row \in pgOutbox' \cup pgParked' : FromPgBatch(row)
  BY <1>1, <1>2, <1>3
<1> QED
  BY <1>2, <1>3, <1>4, <1>5, PollersCommitted DEF PgRows, Pg!C!OutboxRow, Pg!C!ParkedRow,
     Pg!C!EventId, FromPgBatch, Pg!PollersRow, Pg!C!PollerState

(* The other transactions have not lost a row they have locked or read.    *)
LEMMA CommitOthers ==
  ASSUME PgInv, Pg!PostgresParameters, NEW c \in Pg!Caller, Pg!Commit(c),
         NEW d \in Pg!Caller, d # c
  PROVE  TxnOK(d, pgConn[d])'
<1> DEFINE t == pgConn[c]
<1>1. PICK x : x = pgConn[d]
  OBVIOUS
<1>2. Shape(x) /\ Locked(x) /\ KeyHeld(d, x) /\ TxnStage(d, x) /\ LocksApart(t, x)
  BY <1>1 DEF PgInv, TxnOK
<1>3. x = pgConn[d]'
  BY <1>1, AtCommit DEF PgInv
<1>4. /\ t.pc = "commit" /\ Locked(t) /\ KeyHeld(c, t) /\ pgHeld' = pgHeld
      /\ pgOutbox' = Pg!C!Put(pgOutbox \ t.change.gone, t.change.put)
      /\ pgParked' = Pg!C!Put(pgParked \ t.change.unparked, t.change.park)
  BY AtCommit
<1>5. CASE t.op # "retryParked"
  <2>1. x.op = "retryParked" \/ x.pc \in {"idle", "lock"}
    <3>1. "key" \in t.locks.pollers
      BY <1>4, <1>5 DEF KeyHeld
    <3> QED
      BY <1>1, <1>2, <3>1, KeyFree DEF LocksApart
  <2>2. KeyHeld(d, x)'
    BY <2>1 DEF KeyHeld
  <2>3. x.op # "retryParked" => (Column(x) => Column(x)')
    BY <2>1 DEF Column
  <2>4. x.op = "retryParked" => OperatorStage(x) /\ d = Operator /\ c \in Owner /\ x.pc # "idle"
    BY <1>2, PgCallers DEF TxnStage, EngineStage, Pg!Idle, OperatorStage
  <2>5. x.op = "retryParked" =>
          {row \in pgParked' : row.event \in Ids(x.change.unparked)}
            = {row \in pgParked : row.event \in Ids(x.change.unparked)}
    <3> SUFFICES ASSUME x.op = "retryParked"
                 PROVE  {row \in pgParked' : row.event \in Ids(x.change.unparked)}
                          = {row \in pgParked : row.event \in Ids(x.change.unparked)}
      OBVIOUS
    <3>1. c \in Owner /\ c # Operator
      BY <2>4, PgCallers
    <3>2. t.change.unparked = {}
      BY <3>1, AtCommit DEF EngineStage, OutboxUntouched, ParkedUntouched
    <3>3. Ids(t.change.park) \cap Ids(x.change.unparked) = {}
      BY <1>2, <1>4 DEF Locked, LocksApart
    <3>4. \A new \in t.change.park : new.event \notin Ids(x.change.unparked)
      BY <3>3 DEF Ids
    <3>5. pgParked' = Pg!C!Put(pgParked, t.change.park)
      BY <1>4, <3>2
    <3> QED
      BY <3>4, <3>5 DEF Pg!C!Put
  <2>6. TxnStage(d, x)'
    <3>1. x.pc = "commit" => x.op = "retryParked"
      BY <2>1
    <3>2. d \in Owner => x.pc # "commit"
      BY <2>4, <3>1, PgCallers
    <3> QED
      BY <1>2, <2>3, <2>5, <3>1, <3>2, StageKept
  <2> QED
    BY <1>2, <1>3, <2>2, <2>6 DEF TxnOK, Shape, Locked
<1>6. CASE t.op = "retryParked"
  <2>1. c = Operator /\ OperatorStage(t) /\ d \in Owner
    BY <1>6, AtCommit, PgCallers DEF Pg!FencedOps
  <2>2. t.change.gone = {} /\ t.change.put = Pg!C!FreshRows(t.change.unparked)
    BY <1>4, <1>6, <2>1 DEF OperatorStage
  <2>3. pgPollers' = pgPollers
    BY <1>6, PollersCommitted DEF Pg!StateOps
  <2>4. KeyHeld(d, x)'
    BY <1>2, <1>4, <2>3 DEF KeyHeld, Pg!Mine
  <2>5. Column(x) => Column(x)'
    BY <2>3 DEF Column, Pg!PatchOf, Pg!C!Patched, Pg!CommittedState
  <2>6. Ids(t.change.put) \cap x.locks.outbox = {} /\ Ids(t.change.put) \cap x.locks.parked = {}
    BY <1>2, <1>4, <2>2, IdsOf DEF Locked, LocksApart
  <2>7. \A e : e \notin Ids(t.change.put) => RowsOf(e)' = RowsOf(e)
    <3>1. pgOutbox' = Pg!C!Put(pgOutbox, t.change.put)
      BY <1>4, <2>2
    <3> QED
      BY <3>1 DEF RowsOf, Pg!C!Put, Ids
  <2>8. x.op = "parkEvent" /\ x.pc = "commit" => x.arg.event \in x.locks.parked
    <3> SUFFICES ASSUME x.op = "parkEvent", x.pc = "commit" PROVE x.arg.event \in x.locks.parked
      OBVIOUS
    <3>1. x.change.park = {Pg!C!ParkedRowOf(x.arg)}
      BY <1>2, <2>1, PgCallers DEF TxnStage, EngineStage, Pg!Idle
    <3>2. Pg!C!ParkedRowOf(x.arg).event = x.arg.event
      BY DEF Pg!C!ParkedRowOf
    <3> QED
      BY <1>2, <3>1, <3>2 DEF Locked, Ids
  <2>9. x.pc = "commit" =>
          \A e : e \in x.locks.outbox \/ (x.op = "parkEvent" /\ e = x.arg.event) => RowsOf(e)' =
            RowsOf(e)
    BY <2>6, <2>7, <2>8
  <2>10. TxnStage(d, x)'
    <3>1. d # Operator
      BY <2>1, PgCallers
    <3> QED
      BY <1>2, <2>5, <2>9, <3>1, StageKept
  <2> QED
    BY <1>2, <1>3, <2>4, <2>10 DEF TxnOK, Shape, Locked
<1> QED
  BY <1>5, <1>6

(* COMMIT keeps the invariant.                                             *)
LEMMA CommitKeeps ==
  ASSUME PgInv, Pg!PostgresParameters, NEW c \in Pg!Caller, Pg!Commit(c)
  PROVE  PgInv'
<1>1. pgConn' = [pgConn EXCEPT ![c] = Pg!Idle]
  BY AtCommit
<1>2. \A d \in Pg!Caller : pgConn'[d] = IF d = c THEN Pg!Idle ELSE pgConn[d]
  BY <1>1 DEF PgInv
<1>3. pgConn' = [d \in Pg!Caller |-> pgConn'[d]]
  BY <1>1 DEF PgInv
<1>4. \A d \in Pg!Caller : TxnOK(d, pgConn[d])'
  <2> SUFFICES ASSUME NEW d \in Pg!Caller PROVE TxnOK(d, pgConn[d])'
    OBVIOUS
  <2>1. CASE d = c
    <3>1. pgConn'[c] = Pg!Idle
      BY <1>2
    <3>2. Shape(Pg!Idle)' /\ Locked(Pg!Idle)'
      BY IdleOK DEF TxnOK, Shape, Locked, Ids, Pg!Idle, Pg!NoLocks, Pg!NoChange
    <3>3. KeyHeld(c, Pg!Idle)' /\ TxnStage(c, Pg!Idle)'
      BY DEF KeyHeld, TxnStage, Pg!Idle
    <3> QED
      BY <2>1, <3>1, <3>2, <3>3 DEF TxnOK, Shape, Locked, KeyHeld, TxnStage
  <2>2. CASE d # c
    BY <2>2, CommitOthers
  <2> QED
    BY <2>1, <2>2
<1>5. \A d, e \in Pg!Caller : d # e => LocksApart(pgConn[d], pgConn[e])'
  <2> SUFFICES ASSUME NEW d \in Pg!Caller, NEW e \in Pg!Caller, d # e
               PROVE  LocksApart(pgConn[d], pgConn[e])'
    OBVIOUS
  <2>1. LocksApart(IF d = c THEN Pg!Idle ELSE pgConn[d], IF e = c THEN Pg!Idle ELSE pgConn[e])
    BY DEF PgInv, LocksApart, Pg!Idle, Pg!NoLocks
  <2> QED
    BY <1>2, <2>1 DEF LocksApart
<1> QED
  BY <1>3, <1>4, <1>5, RowsCommitted DEF PgInv

(* What COMMIT does to the tables without an invariant.                    *)
LEMMA CommitTables ==
  ASSUME NEW c, Pg!Commit(c)
  PROVE  /\ pgConn[c].op = "commitPoll" =>
              /\ pgItems' = Pg!C!ItemsAfter(pgItems, pgConn[c].arg)
              /\ pgLog' = pgLog \cup Pg!C!Logged(pgConn[c].arg.rows)
         /\ pgConn[c].op = "deleteKey" =>
              /\ pgItems' = [k \in PgIdentity |-> Absent] /\ pgLog' = {}
              /\ pgValidator' = Absent
         /\ pgConn[c].op \notin {"commitPoll", "deleteKey"} => UNCHANGED <<pgItems, pgLog>>
         /\ pgConn[c].op = "setValidator" => pgValidator' = pgConn[c].arg
         /\ pgConn[c].op \notin {"setValidator", "deleteKey"} => UNCHANGED pgValidator
         /\ pgConn[c].op \in Pg!FencedOps => pgWriter' = [owner |-> c, epoch |-> pgHeld[c]]
         /\ pgConn[c].op \notin Pg!FencedOps => UNCHANGED pgWriter
<1> DEFINE t == pgConn[c]
<1>1. /\ pgItems' = CASE t.op = "commitPoll" -> Pg!C!ItemsAfter(pgItems, t.arg)
                      [] t.op = "deleteKey" -> [k \in PgIdentity |-> Absent]
                      [] OTHER -> pgItems
      /\ pgLog' = IF t.op = "deleteKey" THEN {}
                  ELSE IF t.op = "commitPoll" THEN pgLog \cup Pg!C!Logged(t.arg.rows) ELSE pgLog
      /\ pgValidator' = CASE t.op = "setValidator" -> t.arg
                          [] t.op = "deleteKey" -> Absent
                          [] OTHER -> pgValidator
      /\ pgWriter' = IF t.op \in Pg!FencedOps THEN [owner |-> c, epoch |-> pgHeld[c]] ELSE pgWriter
  BY DEF Pg!Commit
<1>2. pgItems' = IF t.op = "commitPoll" THEN Pg!C!ItemsAfter(pgItems, t.arg)
                 ELSE IF t.op = "deleteKey" THEN [k \in PgIdentity |-> Absent] ELSE pgItems
  BY <1>1
<1>3. pgValidator' = IF t.op = "setValidator" THEN t.arg
                     ELSE IF t.op = "deleteKey" THEN Absent ELSE pgValidator
  BY <1>1
<1> QED
  BY <1>1, <1>2, <1>3

(* The lease and the state that the contract sees, after COMMIT.           *)
LEMMA CommitLease ==
  ASSUME PgInv, Pg!PostgresParameters, NEW c \in Pg!Caller, Pg!Commit(c)
  PROVE  /\ pgConn[c].op # "deleteKey" => UNCHANGED <<PgLease, PgCounter>>
         /\ pgConn[c].op = "deleteKey" =>
              PgLease' = Pg!C!NoLease /\ PgCounter' = 0 /\ PgState' = Pg!C!InitialState
         /\ pgConn[c].op \in Pg!StateOps =>
              PgState' = Pg!C!Patched(PgState, Pg!PatchOf(pgConn[c]))
         /\ pgConn[c].op \notin Pg!StateOps \cup {"deleteKey"} => UNCHANGED PgState
<1> DEFINE t == pgConn[c]
<1>1. CASE t.op = "deleteKey"
  <2>1. pgPollers' = NoRow /\ t.op \notin Pg!StateOps
    BY <1>1, PollersCommitted DEF Pg!StateOps
  <2> QED
    BY <1>1, <2>1 DEF PgLease, PgCounter, PgState, Pg!C!NoLease, Pg!C!InitialState
<1>2. CASE t.op \in Pg!StateOps
  <2>1. /\ t.change.state = Pg!C!Patched(PgState, Pg!PatchOf(t))
        /\ t.change.state \in Pg!C!PollerState /\ pgPollers # NoRow
    BY <1>2, WrittenState
  <2>2. PICK x : x = t.change.state
    OBVIOUS
  <2>3. /\ pgPollers' # NoRow
        /\ pgPollers' = [lease_owner |-> pgPollers.lease_owner,
                         lease_epoch |-> pgPollers.lease_epoch, live |-> pgPollers.live,
                         epoch_counter |-> pgPollers.epoch_counter, state |-> x]
    BY <1>2, <2>2, PollersCommitted
  <2>4. UNCHANGED <<PgLease, PgCounter>>
    BY <2>1, <2>3 DEF PgLease, PgCounter
  <2>5. x # Null
    BY <2>1, <2>2, PollersFacts
  <2>6. PgState' = x
    BY <2>3, <2>5 DEF PgState
  <2>7. t.op # "deleteKey"
    BY <1>2 DEF Pg!StateOps
  <2> QED
    BY <1>2, <2>1, <2>2, <2>4, <2>6, <2>7
<1>3. CASE t.op \notin Pg!StateOps \cup {"deleteKey"}
  <2>1. pgPollers' = pgPollers
    BY <1>3, PollersCommitted
  <2>2. UNCHANGED <<PgLease, PgCounter, PgState>>
    BY <2>1 DEF PgLease, PgCounter, PgState
  <2> QED
    BY <1>3, <2>2
<1> QED
  BY <1>1, <1>2, <1>3

(* Rows, when nothing is removed or nothing is written.                    *)
LEMMA PutPlain ==
  ASSUME NEW R, NEW N
  PROVE  Pg!C!Put(R \ {}, {}) = R /\ Pg!C!Put(R \ N, {}) = R \ N /\ Pg!C!Put(R \ {}, N) =
           Pg!C!Put(R, N)
BY DEF Pg!C!Put

(* A fenced write passes the contract's fence when it commits.             *)
LEMMA CommitFenced ==
  ASSUME PgInv, Pg!PostgresParameters, NEW c \in Owner, Pg!Commit(c), pgConn[c].op \in Pg!FencedOps
  PROVE  /\ Pg!C!Fence(c, pgHeld[c]) /\ pgHeld[c] \in 1..PgCounter
         /\ UNCHANGED <<PgLease, PgCounter>> /\ pgWriter' = [owner |-> c, epoch |-> pgHeld[c]]
         /\ Pg!C!Fenced(c, pgHeld[c])
<1>1. c \in Pg!Caller /\ pgConn[c].op \notin {"retryParked", "deleteKey"}
  BY PgCallers DEF Pg!FencedOps
<1>2. Pg!Mine(c)
  BY <1>1, AtCommit DEF KeyHeld
<1>3. Pg!C!Fence(c, pgHeld[c]) /\ pgHeld[c] \in 1..PgCounter
  BY <1>2, MineFences
<1>4. UNCHANGED <<PgLease, PgCounter>> /\ pgWriter' = [owner |-> c, epoch |-> pgHeld[c]]
  BY <1>1, CommitLease, CommitTables
<1>5. Pg!C!Fenced(c, pgHeld[c])
  BY <1>3, <1>4 DEF Pg!C!Fenced, PgLease, PgCounter
<1> QED
  BY <1>3, <1>4, <1>5

(* A write under the lease that writes nothing is a saveState that writes  *)
(* what is there.                                                          *)
LEMMA NothingSaved ==
  ASSUME PgInv, Pg!PostgresParameters, NEW c \in Owner, NEW n, n \in 1..PgCounter,
         Pg!C!Fenced(c, n), UNCHANGED <<PgState, pgItems, pgOutbox, pgParked, pgLog, pgValidator>>
  PROVE  PgStep
<1>1. PICK s \in Pg!C!PollerState : s = PgState
  BY PollersFacts
<1>2. PICK x \in Nat, q \in Nat, p \in BOOLEAN : s = [cursor |-> x, sequence |-> q, paused |-> p]
  BY DEF Pg!C!PollerState
<1>3. PICK patch : patch = [paused |-> p]
  OBVIOUS
<1>4. patch \in Pg!C!Patch
  BY <1>3 DEF Pg!C!Patch
<1>5. Pg!C!Patched(s, patch) = s
  BY <1>2, <1>3 DEF Pg!C!Patched
<1>6. Pg!C!SaveState(c, n, patch)
  BY <1>1, <1>5 DEF Pg!C!SaveState, PgState
<1> QED
  BY <1>4, <1>6 DEF PgStep, Pg!C!Next, PgCounter

(* COMMIT of a transaction that writes the state.                          *)
LEMMA CommitOfState ==
  ASSUME PgInv, Pg!PostgresParameters, NEW c \in Pg!Caller, Pg!Commit(c),
         pgConn[c].op \in Pg!StateOps
  PROVE  PgStep
<1> DEFINE t == pgConn[c]
<1>1. PgState' = Pg!C!Patched(PgState, Pg!PatchOf(t))
  BY CommitLease
<1>2. /\ \/ c \in Owner /\ EngineStage(t) /\ t.op \in Pg!FencedOps
         \/ c = Operator /\ OperatorStage(t) /\ t.op = "saveStateUnfenced"
      /\ pgOutbox' = Pg!C!Put(pgOutbox \ t.change.gone, t.change.put)
      /\ pgParked' = Pg!C!Put(pgParked \ t.change.unparked, t.change.park)
      /\ t.pc = "commit"
  BY AtCommit DEF Pg!StateOps
<1>3. CASE t.op = "saveState"
  <2>1. c \in Owner /\ t.arg \in Pg!C!Patch /\ OutboxUntouched(t) /\ ParkedUntouched(t)
    BY <1>2, <1>3 DEF EngineStage
  <2>2. pgOutbox' = pgOutbox /\ pgParked' = pgParked
    BY <1>2, <2>1, PutPlain DEF OutboxUntouched, ParkedUntouched
  <2>3. UNCHANGED <<pgItems, pgLog, pgValidator>> /\ Pg!PatchOf(t) = t.arg
    BY <1>3, CommitTables DEF Pg!PatchOf
  <2>4. pgHeld[c] \in 1..PgCounter /\ Pg!C!Fenced(c, pgHeld[c])
    BY <1>3, <2>1, CommitFenced DEF Pg!FencedOps
  <2>5. Pg!C!SaveState(c, pgHeld[c], t.arg)
    BY <1>1, <2>2, <2>3, <2>4 DEF Pg!C!SaveState, PgState
  <2> QED
    BY <2>1, <2>4, <2>5 DEF PgStep, Pg!C!Next, PgCounter
<1>4. CASE t.op = "commitPoll"
  <2>1. /\ c \in Owner /\ t.arg \in PgBatch /\ t.change.gone = {} /\ t.change.put = t.arg.rows
        /\ ParkedUntouched(t)
    BY <1>2, <1>4 DEF EngineStage
  <2>2. pgOutbox' = Pg!C!Put(pgOutbox, t.arg.rows) /\ pgParked' = pgParked
    BY <1>2, <2>1, PutPlain DEF ParkedUntouched
  <2>3. /\ pgItems' = Pg!C!ItemsAfter(pgItems, t.arg)
        /\ pgLog' = pgLog \cup Pg!C!Logged(t.arg.rows)
        /\ pgValidator' = pgValidator
        /\ Pg!PatchOf(t) = [cursor |-> t.arg.cursor, sequence |-> t.arg.sequence]
    BY <1>4, CommitTables DEF Pg!PatchOf
  <2>4. pgHeld[c] \in 1..PgCounter /\ Pg!C!Fenced(c, pgHeld[c])
    BY <1>4, <2>1, CommitFenced DEF Pg!FencedOps
  <2>5. Pg!C!Commit(c, pgHeld[c], t.arg)
    BY <1>1, <2>2, <2>3, <2>4 DEF Pg!C!Commit, PgState
  <2> QED
    BY <2>1, <2>4, <2>5 DEF PgStep, Pg!C!Next, PgCounter
<1>5. CASE t.op = "saveStateUnfenced"
  <2>1. t.arg \in Pg!C!Patch /\ OutboxUntouched(t) /\ ParkedUntouched(t)
    BY <1>2, <1>5 DEF OperatorStage, Pg!FencedOps
  <2>2. pgOutbox' = pgOutbox /\ pgParked' = pgParked
    BY <1>2, <2>1, PutPlain DEF OutboxUntouched, ParkedUntouched
  <2>3. UNCHANGED <<pgItems, pgLog, pgValidator, pgWriter>> /\ Pg!PatchOf(t) = t.arg
    BY <1>5, CommitTables DEF Pg!PatchOf, Pg!FencedOps
  <2>4. UNCHANGED <<PgLease, PgCounter>>
    BY <1>5, CommitLease
  <2>5. Pg!C!SaveStateUnfenced(t.arg)
    BY <1>1, <2>2, <2>3, <2>4
       DEF Pg!C!SaveStateUnfenced, Pg!C!Unfenced, PgState, PgLease, PgCounter
  <2> QED
    BY <2>1, <2>5 DEF PgStep, Pg!C!Next
<1> QED
  BY <1>3, <1>4, <1>5 DEF Pg!StateOps

(* COMMIT of a fenced transaction that writes rows or the validator.       *)
LEMMA CommitOfRows ==
  ASSUME PgInv, Pg!PostgresParameters, NEW c \in Owner, Pg!Commit(c),
         pgConn[c].op \in Pg!FencedOps \ Pg!StateOps
  PROVE  PgStep
<1> DEFINE t == pgConn[c]
<1>0. c \in Pg!Caller /\ c # Operator
  BY PgCallers
<1>1. t.op \notin Pg!StateOps \cup {"commitPoll", "deleteKey"}
  BY DEF Pg!FencedOps, Pg!StateOps
<1>2. /\ EngineStage(t) /\ t.pc = "commit"
      /\ pgOutbox' = Pg!C!Put(pgOutbox \ t.change.gone, t.change.put)
      /\ pgParked' = Pg!C!Put(pgParked \ t.change.unparked, t.change.park)
  BY <1>0, AtCommit
<1>3. UNCHANGED <<pgItems, pgLog, PgState>>
  BY <1>0, <1>1, CommitTables, CommitLease
<1>4. pgHeld[c] \in 1..PgCounter /\ Pg!C!Fenced(c, pgHeld[c])
  BY CommitFenced
<1>5. pgOutbox \subseteq Pg!C!OutboxRow
  BY DEF PgInv, PgRows
<1>6. CASE t.op = "ackEvents"
  <2>1. /\ t.arg \in Pg!C!Event /\ t.change.put = {} /\ ParkedUntouched(t)
        /\ t.change.gone = {} \/ t.change.gone = RowsOf(t.arg)
    BY <1>2, <1>6 DEF EngineStage
  <2>2. pgParked' = pgParked /\ pgValidator' = pgValidator /\ pgOutbox' = pgOutbox \ t.change.gone
    BY <1>2, <1>6, <2>1, PutPlain, CommitTables DEF ParkedUntouched
  <2>3. CASE t.change.gone = {}
    BY <1>3, <1>4, <2>2, <2>3, NothingSaved
  <2>4. CASE t.change.gone = RowsOf(t.arg)
    <3>1. pgOutbox' = Pg!C!Without(pgOutbox, t.arg)
      BY <2>2, <2>4 DEF RowsOf, Pg!C!Without
    <3>2. Pg!C!Ack(c, pgHeld[c], t.arg)
      BY <1>3, <1>4, <2>2, <3>1 DEF Pg!C!Ack, Pg!C!AckEvents, PgState
    <3> QED
      BY <1>4, <2>1, <3>2 DEF PgStep, Pg!C!Next, PgCounter
  <2> QED
    BY <2>1, <2>3, <2>4
<1>7. CASE t.op = "recordAttempt"
  <2> DEFINE new == {[row EXCEPT !.attempts = @ + 1] : row \in RowsOf(t.arg)}
  <2>1. /\ t.arg \in Pg!C!Event /\ t.change.gone = {} /\ ParkedUntouched(t)
        /\ t.change.put = {} \/ t.change.put = new
    BY <1>2, <1>7 DEF EngineStage
  <2>2. /\ pgParked' = pgParked /\ pgValidator' = pgValidator
        /\ pgOutbox' = Pg!C!Put(pgOutbox, t.change.put)
    BY <1>2, <1>7, <2>1, PutPlain, CommitTables DEF ParkedUntouched
  <2>3. CASE t.change.put = {}
    <3>1. pgOutbox' = pgOutbox
      BY <2>2, <2>3 DEF Pg!C!Put
    <3> QED
      BY <1>3, <1>4, <2>2, <3>1, NothingSaved
  <2>4. CASE t.change.put = new
    <3>1. \A row \in pgOutbox : [row EXCEPT !.attempts = @ + 1].event = row.event
      BY <1>5 DEF Pg!C!OutboxRow
    <3>2. \A n \in new : n.event = t.arg
      BY <3>1 DEF RowsOf
    <3>3. \A row \in pgOutbox : row.event = t.arg => [row EXCEPT !.attempts = @ + 1] \in new
      BY DEF RowsOf
    <3>4. Pg!C!Put(pgOutbox, new) =
            {IF row.event = t.arg THEN [row EXCEPT !.attempts = @ + 1] ELSE row : row \in pgOutbox}
      <4> DEFINE after == {IF row.event = t.arg THEN [row EXCEPT !.attempts = @ + 1] ELSE row
                             : row \in pgOutbox}
      <4>1. ASSUME NEW y \in Pg!C!Put(pgOutbox, new) PROVE y \in after
        <5>1. CASE y \in new
          BY <5>1 DEF RowsOf
        <5>2. CASE y \in pgOutbox /\ \A n \in new : n.event # y.event
          <6>1. y.event # t.arg
            BY <3>1, <3>3, <5>2
          <6> QED
            BY <5>2, <6>1
        <5> QED
          BY <4>1, <5>1, <5>2 DEF Pg!C!Put
      <4>2. ASSUME NEW row \in pgOutbox
            PROVE  (IF row.event = t.arg THEN [row EXCEPT !.attempts = @ + 1] ELSE row)
                      \in Pg!C!Put(pgOutbox, new)
        BY <3>2, <3>3 DEF Pg!C!Put
      <4> QED
        BY <4>1, <4>2
    <3>5. Pg!C!Attempt(c, pgHeld[c], t.arg)
      BY <1>3, <1>4, <2>2, <2>4, <3>4 DEF Pg!C!Attempt, Pg!C!RecordAttempt, PgState
    <3> QED
      BY <1>4, <2>1, <3>5 DEF PgStep, Pg!C!Next, PgCounter
  <2> QED
    BY <2>1, <2>3, <2>4
<1>8. CASE t.op = "parkEvent"
  <2>1. /\ FromPgBatch(t.arg) /\ t.change.put = {} /\ t.change.unparked = {}
        /\ t.change.park = {Pg!C!ParkedRowOf(t.arg)} /\ t.change.gone = RowsOf(t.arg.event)
    BY <1>2, <1>8 DEF EngineStage
  <2>2. PICK r \in UNION {batch.rows : batch \in PgBatch} :
          r.event = t.arg.event /\ r.sequence = t.arg.sequence
    BY <2>1 DEF FromPgBatch
  <2>3. pgOutbox' = Pg!C!Without(pgOutbox, r.event)
    <3>1. pgOutbox' = pgOutbox \ RowsOf(r.event)
      BY <1>2, <2>1, <2>2, PutPlain
    <3> QED
      BY <3>1 DEF RowsOf, Pg!C!Without
  <2>4. pgParked' = Pg!C!Put(pgParked, {[event |-> r.event, sequence |-> r.sequence, holdKey |->
          TRUE]})
    BY <1>2, <2>1, <2>2, PutPlain DEF Pg!C!ParkedRowOf
  <2>5. pgValidator' = pgValidator
    BY <1>8, CommitTables
  <2>6. Pg!C!Park(c, pgHeld[c], r)
    BY <1>3, <1>4, <2>3, <2>4, <2>5 DEF Pg!C!Park, Pg!C!ParkEvent, PgState
  <2> QED
    BY <1>4, <2>6 DEF PgStep, Pg!C!Next, PgCounter
<1>9. CASE t.op = "setValidator"
  <2>1. t.arg \in Version /\ OutboxUntouched(t) /\ ParkedUntouched(t)
    BY <1>2, <1>9 DEF EngineStage
  <2>2. pgOutbox' = pgOutbox /\ pgParked' = pgParked /\ pgValidator' = t.arg
    BY <1>2, <1>9, <2>1, PutPlain, CommitTables DEF OutboxUntouched, ParkedUntouched
  <2>3. Pg!C!SetValidator(c, pgHeld[c], t.arg)
    BY <1>3, <1>4, <2>2 DEF Pg!C!SetValidator, PgState
  <2> QED
    BY <1>4, <2>1, <2>3 DEF PgStep, Pg!C!Next, PgCounter
<1> QED
  BY <1>6, <1>7, <1>8, <1>9 DEF Pg!FencedOps, Pg!StateOps

(* COMMIT of retryParked and of deleteKey.                                 *)
LEMMA CommitOfOperator ==
  ASSUME PgInv, Pg!PostgresParameters, Operator \in Pg!Caller, Pg!Commit(Operator),
         pgConn[Operator].op \in {"retryParked", "deleteKey"}
  PROVE  PgStep
<1> DEFINE t == pgConn[Operator]
<1>1. /\ OperatorStage(t) /\ t.pc = "commit"
      /\ pgOutbox' = Pg!C!Put(pgOutbox \ t.change.gone, t.change.put)
      /\ pgParked' = Pg!C!Put(pgParked \ t.change.unparked, t.change.park)
  BY AtCommit, PgCallers
<1>2. pgWriter' = pgWriter
  BY CommitTables DEF Pg!FencedOps
<1>3. CASE t.op = "retryParked"
  <2> DEFINE moved == {row \in pgParked : row.event \in Ids(t.change.unparked)}
  <2>1. /\ t.change.gone = {} /\ t.change.park = {} /\ t.change.unparked = moved
        /\ t.change.put = Pg!C!FreshRows(t.change.unparked)
    BY <1>1, <1>3 DEF OperatorStage
  <2>2. pgOutbox' = Pg!C!Put(pgOutbox, Pg!C!FreshRows(moved)) /\ pgParked' = pgParked \ moved
    <3>1. pgOutbox' = Pg!C!Put(pgOutbox, Pg!C!FreshRows(t.change.unparked))
          /\ pgParked' = pgParked \ t.change.unparked
      BY <1>1, <2>1, PutPlain
    <3>2. PICK u : u = t.change.unparked
      OBVIOUS
    <3>3. u = moved
      BY <2>1, <3>2
    <3> QED
      BY <3>1, <3>2, <3>3
  <2>3. UNCHANGED <<pgItems, pgLog, pgValidator>>
    BY <1>3, CommitTables
  <2>4. UNCHANGED <<PgLease, PgCounter, PgState>>
    BY <1>3, CommitLease DEF Pg!StateOps
  <2>5. Pg!C!Retry(Ids(t.change.unparked))
    BY <1>2, <2>2, <2>3, <2>4 DEF Pg!C!Retry, Pg!C!Unfenced, PgLease, PgCounter, PgState
  <2>6. Ids(t.change.unparked) \in SUBSET Pg!C!Event
    BY <2>1, PgEvent DEF Ids, PgInv, PgRows
  <2> QED
    BY <2>5, <2>6 DEF PgStep, Pg!C!Next
<1>4. CASE t.op = "deleteKey"
  <2>1. /\ t.change.gone = pgOutbox /\ t.change.unparked = pgParked
        /\ t.change.put = {} /\ t.change.park = {}
    BY <1>1, <1>4 DEF OperatorStage
  <2>2. pgOutbox' = {} /\ pgParked' = {}
    BY <1>1, <2>1, PutPlain
  <2>3. pgItems' = [k \in PgIdentity |-> Absent] /\ pgLog' = {} /\ pgValidator' = Absent
    BY <1>4, CommitTables
  <2>4. PgLease' = Pg!C!NoLease /\ PgCounter' = 0 /\ PgState' = Pg!C!InitialState
    BY <1>4, CommitLease
  <2>5. Pg!C!DeleteKey
    BY <1>2, <2>2, <2>3, <2>4 DEF Pg!C!DeleteKey, PgLease, PgCounter, PgState, Pg!C!NoLease,
       Pg!C!InitialState
  <2> QED
    BY <2>5 DEF PgStep, Pg!C!Next
<1> QED
  BY <1>3, <1>4

(* COMMIT makes one whole operation of the contract visible.               *)
LEMMA PgCommitStep ==
  ASSUME PgInv, Pg!PostgresParameters, NEW c \in Pg!Caller, Pg!Commit(c)
  PROVE  PgInv' /\ PgStep
<1>1. PgInv'
  BY CommitKeeps
<1>2. \/ c \in Owner /\ pgConn[c].op \in Pg!FencedOps
      \/ c = Operator /\ pgConn[c].op \in {"saveStateUnfenced", "retryParked", "deleteKey"}
  BY AtCommit
<1>3. PgStep
  BY <1>2, CommitOfState, CommitOfRows, CommitOfOperator DEF Pg!StateOps
<1> QED
  BY <1>1, <1>3

(* Every step of the store keeps the invariant and is one of the           *)
(* contract's, or none.                                                    *)
LEMMA PgNextStep ==
  ASSUME PgInv, ClearInv, Pg!PostgresParameters, [Pg!Next]_(Pg!vars)
  PROVE  PgInv' /\ ClearInv' /\ PgStep
<1>0. ClearInv'
  BY ClearKept
<1>1. CASE UNCHANGED Pg!vars
  <2>1. UNCHANGED <<pgPollers, pgItems, pgOutbox, pgParked, pgLog, pgValidator, pgConn, pgHeld,
                    pgWriter>>
    BY <1>1 DEF Pg!vars
  <2>2. PgStep
    BY <2>1, PgStutters DEF PgTables
  <2>3. PgRows' /\ pgConn' = [c \in Pg!Caller |-> pgConn'[c]]
    BY <2>1 DEF PgInv, PgRows, FromPgBatch
  <2>4. ASSUME NEW d \in Pg!Caller
        PROVE  TxnOK(d, pgConn[d])'
    <3>1. PICK x : x = pgConn[d]
      OBVIOUS
    <3>2. Shape(x) /\ Locked(x) /\ KeyHeld(d, x) /\ TxnStage(d, x)
      BY <3>1 DEF PgInv, TxnOK
    <3>3. KeyHeld(d, x)'
      BY <2>1, <3>2 DEF KeyHeld, Pg!Mine
    <3>4. (Column(x) => Column(x)') /\ \A e : RowsOf(e)' = RowsOf(e)
      BY <2>1 DEF Column, Pg!PatchOf, Pg!C!Patched, Pg!CommittedState, RowsOf
    <3>5. TxnStage(d, x)'
      BY <2>1, <3>2, <3>4, StageKept
    <3> QED
      BY <2>1, <3>1, <3>2, <3>3, <3>5 DEF TxnOK, Shape, Locked
  <2>5. \A d, e \in Pg!Caller : d # e => LocksApart(pgConn[d], pgConn[e])'
    BY <2>1 DEF PgInv, LocksApart
  <2> QED
    BY <1>0, <2>2, <2>3, <2>4, <2>5 DEF PgInv
<1>2. ASSUME NEW c \in Owner, Pg!Acquire(c) \/ Pg!Renew(c) \/ Pg!Release(c) \/ Pg!EngineCalls(c)
      PROVE  PgInv' /\ PgStep
  BY <1>2, PgAcquireStep, PgRenewStep, PgReleaseStep, EngineBegins
<1>3. CASE Pg!OperatorCalls
  <2>1. \/ \E x \in Pg!C!Patch : Pg!Begin(Operator, "saveStateUnfenced", x, "lock")
        \/ \E ids \in SUBSET {row.event : row \in pgParked} :
             Pg!Begin(Operator, "retryParked", ids, "parked")
        \/ Pg!Begin(Operator, "deleteKey", Null, "lock")
        \/ \E ids \in SUBSET {row.event : row \in pgParked} : Pg!DiscardParked(ids)
        \/ Pg!ClearItems
        \/ \E n \in 1..Pg!CommittedState.sequence : Pg!PruneLog(n)
    BY <1>3 DEF Pg!OperatorCalls
  <2> QED
    BY <1>0, <2>1, OperatorBegins, StatementStep
<1>4. CASE Pg!Expire
  BY <1>0, <1>4, PgExpireStep
<1>5. ASSUME NEW c \in Owner,
             \/ Pg!Fenced(c, Pg!AfterLock(pgConn[c].op)) \/ Pg!LeaseLost(c)
             \/ Pg!CommitItems(c) \/ Pg!CommitOutbox(c) \/ Pg!AckEvents(c) \/ Pg!RecordAttempt(c)
             \/ Pg!ParkUpsert(c) \/ Pg!ParkDelete(c)
      PROVE  PgInv' /\ PgStep
  <2>1. c \in Pg!Caller
    BY PgCallers
  <2> QED
    BY <1>5, <2>1, FencedStep, RollbackStep, CommitItemsStep, CommitOutboxStep, AckRowStep,
       AttemptRowStep, ParkUpsertStep, ParkDeleteStep
<1>6. ASSUME NEW c \in Pg!Caller,
             Pg!WriteState(c, Pg!PatchOf(pgConn[c])) \/ Pg!Commit(c) \/ Pg!Rollback(c)
      PROVE  PgInv' /\ PgStep
  BY <1>6, WriteStateStep, PgCommitStep, RollbackStep
<1>7. CASE \/ Pg!LockUnfenced(Operator)
           \/ \E id \in Pg!C!Event : Pg!RetryLock(Operator, id)
           \/ Pg!RetryMove(Operator) \/ Pg!RetryDone(Operator)
           \/ Pg!DeletePoller(Operator) \/ Pg!DeleteRows(Operator)
  BY <1>0, <1>7, LockUnfencedStep, RetryLockStep, RetryMoveStep, RetryDoneStep, DeletePollerStep,
     DeleteRowsStep
<1>8. CASE Pg!ClearRows \/ Pg!ClearFails
  BY <1>0, <1>8, ClearEnds
<1> QED
  BY <1>0, <1>1, <1>2, <1>3, <1>4, <1>5, <1>6, <1>7, <1>8 DEF Pg!Next

(* At first the tables are empty but for the key's row.                    *)
LEMMA PgBegins ==
  ASSUME Pg!Init, Pg!PostgresParameters
  PROVE  PgInv /\ ClearInv /\ Pg!C!Init
<1>1. /\ pgPollers = [lease_owner |-> NoOwner, lease_epoch |-> 0, live |-> FALSE,
                      epoch_counter |-> 0, state |-> Null]
      /\ pgOutbox = {} /\ pgParked = {} /\ pgHeld = [o \in Owner |-> 0]
      /\ pgConn = [c \in Pg!Caller |-> Pg!Idle]
  BY DEF Pg!Init, Pg!PostgresParameters
<1>2. pgPollers \in Pg!PollersRow
  BY <1>1 DEF Pg!PollersRow
<1>3. pgPollers # NoRow
  BY <1>2 DEF Pg!PostgresParameters
<1>4. PgRows
  BY <1>1, <1>2 DEF PgRows
<1>5. \A c \in Pg!Caller : pgConn[c] = Pg!Idle /\ Pg!Idle.locks = Pg!NoLocks
  BY <1>1 DEF Pg!Idle
<1>6. \A c \in Pg!Caller : TxnOK(c, pgConn[c])
  BY <1>5, IdleOK
<1>7. \A c, d \in Pg!Caller : LocksApart(pgConn[c], pgConn[d])
  BY <1>5, IdleApart
<1>8. PgInv
  BY <1>1, <1>4, <1>6, <1>7 DEF PgInv
<1>9. PgLease = Pg!C!NoLease /\ PgCounter = 0 /\ PgState = Pg!C!InitialState
  BY <1>1, <1>3 DEF PgLease, PgCounter, PgState, Pg!C!NoLease, Pg!C!InitialState
<1>10. Pg!C!Init
  BY <1>9 DEF Pg!Init, Pg!C!Init, Pg!C!StoreInit, PgLease, PgCounter, PgState
<1>11. ClearInv
  BY DEF Pg!Init, ClearInv
<1> QED
  BY <1>8, <1>10, <1>11

(* PostgreSQL: whatever statements of other transactions run between those *)
(* of one, the tables change in whole operations of the contract, and a    *)
(* fenced one is made under the lease that is current when it commits. A   *)
(* clear leaves the items that were committed since it began, and no other.*)
THEOREM PostgresImplements ==
  ASSUME Pg!PostgresParameters
  PROVE  Pg!Spec => PostgresImplementsContract
<1>1. Pg!Init => PgInv /\ ClearInv /\ Pg!C!Init
  BY PgBegins
<1>2. PgInv /\ ClearInv /\ [Pg!Next]_(Pg!vars)
        => PgInv' /\ ClearInv' /\ [Pg!C!Next \/ Pg!LateClear]_(Pg!C!contractVars)
  BY PgNextStep DEF PgStep
<1> QED
  BY <1>1, <1>2, PTL DEF Pg!Spec, PostgresImplementsContract, Pg!Contract

-----------------------------------------------------------------------------
(* One store or the other.                                                 *)

(* Of the four, only the chosen one takes a step.                          *)
LEMMA StoresSteps ==
  ASSUME [StoresNext]_allVars
  PROVE  [Pg!Next]_(Pg!vars) /\ [Rd!Next]_(Rd!vars) /\ [H!Next]_(H!vars)
<1>1. ASSUME UNCHANGED pgVars PROVE UNCHANGED Pg!vars
  BY <1>1 DEF pgVars, Pg!vars, Pg!clearVars
<1>2. ASSUME UNCHANGED rdVars PROVE UNCHANGED Rd!vars
  BY <1>2 DEF rdVars, Rd!vars, Rd!dataVars, Rd!callVars
<1>3. ASSUME UNCHANGED hostingVars PROVE UNCHANGED H!vars
  BY <1>3 DEF hostingVars, H!vars
<1> QED
  BY <1>1, <1>2, <1>3 DEF StoresNext, allVars

(* The stores beside one another: PostgreSQL's tables and Redis's hashes   *)
(* change in whole operations of the contract, and no operation or reader  *)
(* is misled (ensureReady, loadPending).                                   *)
THEOREM StoresAnswer ==
  StoresSpec => []AnswersSound /\ PostgresImplementsContract /\ RedisImplementsContract
<1>1. StoresInit => Pg!Init /\ Rd!Init /\ H!Init
  BY DEF StoresInit
<1>2. [StoresNext]_allVars => [Pg!Next]_(Pg!vars) /\ [Rd!Next]_(Rd!vars) /\ [H!Next]_(H!vars)
  BY StoresSteps
<1>3. StoresSpec => Pg!Spec /\ Rd!Spec /\ H!Spec
  BY <1>1, <1>2, PTL DEF StoresSpec, Pg!Spec, Rd!Spec, H!Spec
<1>4. Rd!Spec => [](Rd!ReadsSound /\ RetriesFresh)
  BY StoresAssumption, RedisReadsSound
<1>5. Rd!Spec /\ []RetriesFresh => RedisImplementsContract
  BY StoresAssumption, RedisImplements
<1>6. Pg!Spec => PostgresImplementsContract
  BY StoresAssumption, PostgresImplements
<1>7. H!Spec => []H!MigrationsSound
  BY MigrationsKept
<1>8. Rd!ReadsSound /\ H!MigrationsSound => AnswersSound
  BY DEF AnswersSound
<1> QED
  BY <1>3, <1>4, <1>5, <1>6, <1>7, <1>8, PTL
=============================================================================
