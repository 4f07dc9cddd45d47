--------------------------- MODULE IdentityStream ---------------------------
(***************************************************************************)
(* How the end of a full scan reads the snapshot: streamIdentities() of    *)
(* the stores, page by page, then loadVersions() of the identities that    *)
(* the scan did not see, chunk by chunk, then the commit of the deletions  *)
(* (src/core/runner.ts). FullScan takes this as one step. Between two      *)
(* pages others write: an instance that took the lease over, or an         *)
(* operator who clears the snapshot.                                       *)
(*                                                                         *)
(* The SQL stores ask for the identities after the last one they have,     *)
(* the memory store copies the list first, and Redis scans a hash: HSCAN   *)
(* returns what is there throughout at least once, in any order, possibly  *)
(* several times, and may return what comes or goes meanwhile.             *)
(***************************************************************************)
EXTENDS Integers, FiniteSets, Sequences, SequencesExt

CONSTANTS
  Ident,        \* identities, as numbers in their order
  Size,         \* batchSize
  Chunk,        \* identities per statement of loadVersions
  MaxWrites     \* bound: writes by others

StreamParameters ==
  /\ Ident \subseteq Nat /\ IsFiniteSet(Ident)
  /\ Size \in Nat \ {0} /\ Chunk \in Nat \ {0} /\ MaxWrites \in Nat

VARIABLES
  store,        \* the kind of store: sql, memory, redis
  snapshot,     \* the identities in the items table
  listing,      \* the identities the scan saw
  reader,       \* the reading under way
  lost,         \* another instance has taken the lease
  stable,       \* history: identities present ever since the stream began
  ever,         \* history: identities present at some time since then
  writes

vars == <<store, snapshot, listing, reader, lost, stable, ever, writes>>

Start == 0 - 1      \* before every identity

Idle == [pc |-> "idle", after |-> Start, todo |-> {}, scanned |-> {}, yielded |-> << >>,
         missing |-> {}, unread |-> {}, rows |-> {}]

(* The first n members of a set, in order.                                 *)
First(set, n) == {i \in set : Cardinality({j \in set : j < i}) < n}

(* The set in order.                                                       *)
InOrder(set) ==
  CHOOSE q \in [1..Cardinality(set) -> set] : \A i, j \in DOMAIN q : i < j => q[i] < q[j]

-----------------------------------------------------------------------------
(* streamIdentities() *)

Begin ==
  /\ reader.pc = "idle"
  /\ reader' = [Idle EXCEPT !.pc = "stream", !.todo = IF store = "memory" THEN snapshot ELSE {}]
  /\ stable' = snapshot /\ ever' = snapshot
  /\ UNCHANGED <<store, snapshot, listing, lost, writes>>

(* Mutant: what an earlier batch lacked is forgotten.                      *)
BatchLatest(ids) ==
  [reader EXCEPT !.yielded = @ \o ids, !.missing = ToSet(ids) \ listing]

(* detectDeletes() of a batch.                                             *)
Batch(ids) ==
  [reader EXCEPT !.yielded = @ \o ids, !.missing = @ \cup (ToSet(ids) \ listing)]

Streamed(r) == [r EXCEPT !.pc = "load", !.unread = r.missing]

(* Mutant: the page after the first of the last page.                      *)
SqlPageOverlapping ==
  LET page == First({i \in snapshot : i > reader.after}, Size)
      next == Batch(InOrder(page))
  IN /\ reader.pc = "stream" /\ store = "sql"
     /\ reader' = IF Cardinality(page) < Size THEN Streamed(next)
                  ELSE [next EXCEPT !.after = InOrder(page)[1]]
     /\ UNCHANGED <<store, snapshot, listing, lost, stable, ever, writes>>

(* A page of the SQL stores: a short one is the last.                      *)
SqlPage ==
  LET page == First({i \in snapshot : i > reader.after}, Size)
      next == Batch(InOrder(page))
  IN /\ reader.pc = "stream" /\ store = "sql"
     /\ reader' = IF Cardinality(page) < Size THEN Streamed(next)
                  ELSE [next EXCEPT !.after = Last(InOrder(page))]
     /\ UNCHANGED <<store, snapshot, listing, lost, stable, ever, writes>>

(* A slice of the copy.                                                    *)
MemoryPage ==
  LET page == First(reader.todo, Size)
      next == [Batch(InOrder(page)) EXCEPT !.todo = @ \ page]
  IN /\ reader.pc = "stream" /\ store = "memory"
     /\ reader' = IF next.todo = {} THEN Streamed(next) ELSE next
     /\ UNCHANGED <<store, snapshot, listing, lost, stable, ever, writes>>

(* HSCAN: the fields not seen before are yielded. (They wait in a buffer   *)
(* until a batch is full, or the scan is over.)                            *)
ScanPage(fields, last) ==
  LET next == [Batch(InOrder(fields \ reader.scanned)) EXCEPT !.scanned = @ \cup fields]
  IN /\ reader.pc = "stream" /\ store = "redis"
     /\ fields \subseteq ever
     /\ last => stable \subseteq next.scanned
     /\ reader' = IF last THEN Streamed(next) ELSE next
     /\ UNCHANGED <<store, snapshot, listing, lost, stable, ever, writes>>

-----------------------------------------------------------------------------
(* loadVersions() and the commit *)

(* One statement: the rows of a chunk that are there. The memory store     *)
(* and Redis read all of them at once.                                     *)
LoadChunk ==
  /\ reader.pc = "load" /\ reader.unread # {}
  /\ LET ids == IF store = "sql" THEN First(reader.unread, Chunk) ELSE reader.unread
     IN reader' = [reader EXCEPT !.unread = @ \ ids, !.rows = @ \cup (ids \cap snapshot)]
  /\ UNCHANGED <<store, snapshot, listing, lost, stable, ever, writes>>

(* commitPoll with the deletions, under the lease, if there are any.       *)
Commit ==
  /\ reader.pc = "load" /\ reader.unread = {} /\ (~lost \/ reader.missing = {})
  /\ snapshot' = snapshot \ reader.missing
  /\ reader' = [reader EXCEPT !.pc = "done"]
  /\ UNCHANGED <<store, listing, lost, stable, ever, writes>>

(* LeaseLostError, an error of the store, an abort or a crash.             *)
Fail ==
  /\ reader.pc \in {"stream", "load"}
  /\ reader' = Idle
  /\ lost' = FALSE
  /\ UNCHANGED <<store, snapshot, listing, stable, ever, writes>>

-----------------------------------------------------------------------------
(* Others *)

Write(new) ==
  /\ writes < MaxWrites /\ reader.pc # "idle"
  /\ writes' = writes + 1
  /\ snapshot' = new
  /\ stable' = stable \cap new /\ ever' = ever \cup new
  /\ UNCHANGED <<store, listing, reader>>

TakeOver(new) == Write(new) /\ lost' = TRUE

Clear == Write({}) /\ UNCHANGED lost

-----------------------------------------------------------------------------
Init ==
  /\ store \in {"sql", "memory", "redis"}
  /\ snapshot \in SUBSET Ident /\ listing \in SUBSET Ident
  /\ reader = Idle /\ lost = FALSE /\ writes = 0
  /\ stable = {} /\ ever = {}

Next ==
  \/ Begin \/ SqlPage \/ MemoryPage
  \/ \E fields \in SUBSET ever, last \in BOOLEAN :
       Cardinality(fields) <= Size /\ ScanPage(fields, last)
  \/ LoadChunk \/ Commit \/ Fail
  \/ \E new \in SUBSET Ident : TakeOver(new)
  \/ Clear

Spec == Init /\ [][Next]_vars

-----------------------------------------------------------------------------
Reader ==
  [pc : {"idle", "stream", "load", "done"}, after : Nat \cup {Start}, todo : SUBSET Ident,
   scanned : SUBSET Ident, yielded : Seq(Ident), missing : SUBSET Ident,
   unread : SUBSET Ident, rows : SUBSET Ident]

TypeOK ==
  /\ store \in {"sql", "memory", "redis"}
  /\ snapshot \subseteq Ident /\ listing \subseteq Ident
  /\ reader \in Reader /\ reader.rows \subseteq reader.missing
  /\ lost \in BOOLEAN /\ writes \in 0..MaxWrites
  /\ stable \subseteq ever /\ ever \subseteq Ident

(* The stream yields every identity that is there throughout, none twice,  *)
(* and none that never was, whatever is written between its pages          *)
(* (streamIdentities of all stores).                                       *)
StreamExact ==
  /\ IsInjective(reader.yielded)
  /\ ToSet(reader.yielded) \subseteq ever
  /\ reader.pc \in {"load", "done"} => stable \subseteq ToSet(reader.yielded)

(* A committed deletion leaves exactly what the scan saw, unless the       *)
(* snapshot was cleared meanwhile: nothing the listing lacks survives, and *)
(* nothing it has is deleted. Only rows that were there make an event      *)
(* (runCycle, loadVersions).                                               *)
DeletesExact ==
  reader.pc = "done" /\ writes = 0 =>
    /\ snapshot = ever \cap listing
    /\ reader.rows = ever \ listing

(* The end of a scan: the stream yields what is there, and the deletion    *)
(* leaves what the scan saw (streamIdentities, loadVersions, runCycle).    *)
StreamSound == TypeOK /\ StreamExact /\ DeletesExact

-----------------------------------------------------------------------------
(* A strengthening of StreamSound that every step keeps: what a reading    *)
(* has yielded, and what it owes, by the kind of the store.                *)
Yielded == ToSet(reader.yielded)

Reading == reader.pc \in {"stream", "load"}

(* What lies behind a page of SQL, in the rest of the copy, or in the      *)
(* fields that HSCAN has returned.                                         *)
Positioned ==
  reader.pc = "stream" =>
    /\ store = "sql" => /\ \A x \in Yielded : x <= reader.after
                        /\ \A x \in stable : x <= reader.after => x \in Yielded
    /\ store = "memory" => /\ reader.todo \subseteq ever \ Yielded
                           /\ stable \subseteq Yielded \cup reader.todo
    /\ store = "redis" => Yielded = reader.scanned

(* What is missing, what of it is still to be loaded, and what was there.  *)
Compared ==
  /\ reader.missing = Yielded \ listing /\ reader.unread \subseteq reader.missing
  /\ reader.pc = "stream" => reader.rows = {}
  /\ reader.pc \in {"load", "done"} /\ writes = 0 => reader.rows = reader.missing \ reader.unread
  /\ reader.pc = "done" => reader.unread = {}

(* The world between two pages.                                            *)
Between ==
  /\ Reading => stable \subseteq snapshot /\ snapshot \subseteq ever
  /\ writes = 0 => stable = ever
  /\ reader.pc = "done" /\ writes = 0 => snapshot = ever \ reader.missing

StreamInv == TypeOK /\ StreamExact /\ Positioned /\ Compared /\ Between
=============================================================================
