------------------------------ MODULE FullScan ------------------------------
(***************************************************************************)
(* A full scan: the reconcile lane, or the live lane of a snapshotDiff     *)
(* poller (runCycle and processPage of src/core/runner.ts with the page    *)
(* and snapshotDiff cursors). Pages of a listing are fetched, diffed with  *)
(* the snapshot and committed one by one; when the listing is complete,    *)
(* what was not seen is deleted. The scan may fail, crash, be stopped or   *)
(* run out of time between any two steps, and the items change meanwhile.  *)
(*                                                                         *)
(* Fencing is Runner's subject: here one run at a time works on the key.   *)
(* The listing is stable: an item that exists is always on the same page.  *)
(***************************************************************************)
EXTENDS ScanParameters

VARIABLES
  api,        \* the items as they are
  items,      \* the snapshot in the store
  laneCursor, \* the persisted page cursor of the lane; 0 is null
  validator,  \* per page, the content its stored validator stands for
  pc,         \* where the cycle is
  cursor,     \* the cycle's page cursor
  pos,        \* the page of the listing that was asked for
  pages,      \* summary.pages
  inCall,     \* pagesInCall
  got,        \* the items of the page in hand
  more,       \* its hasMore
  emitted,    \* did its commit write events?
  seen,       \* identities listed so far
  flags,      \* which of done, truncated, notModified... are set
  during,     \* history: the values each item had since the cycle began
  changes,    \* changes so far
  mishaps     \* mishaps so far

storeVars == <<items, laneCursor, validator>>
cycleVars == <<cursor, pos, pages, inCall, got, more, emitted, seen, flags>>
vars == <<api, storeVars, pc, cycleVars, during, changes, mishaps>>

Value == Version \cup {Absent}
Nothing == [k \in Identity |-> Absent]
Flag == {"done", "truncated", "notModified", "halted", "aborted"}
NoValidator == [k \in Identity |-> {}]

Init ==
  /\ api \in [Identity -> Value]
  /\ items = Nothing
  /\ laneCursor = 0
  /\ validator = [p \in 1..LastPage |-> NoValidator]
  /\ pc = "idle"
  /\ cursor = 1
  /\ pos = 1
  /\ pages = 0
  /\ inCall = 0
  /\ got = Nothing
  /\ more = FALSE
  /\ emitted = FALSE
  /\ seen = {}
  /\ flags = {}
  /\ during = [k \in Identity |-> {}]
  /\ changes = 0
  /\ mishaps = 0

Mishap == mishaps < MaxMishaps /\ mishaps' = mishaps + 1

Set(flag) == flags' = flags \cup {flag}

-----------------------------------------------------------------------------
(* The API *)

Change(k, v) ==
  /\ changes < MaxChanges
  /\ v # api[k]
  /\ api' = [api EXCEPT ![k] = v]
  /\ during' = [during EXCEPT ![k] = @ \cup {v}]
  /\ changes' = changes + 1
  /\ UNCHANGED <<storeVars, pc, cycleVars, mishaps>>

OnPage(p) == [k \in Identity |-> IF PageOf[k] = p THEN api[k] ELSE Absent]

(* What a validator stands for, as a value no page without one has.        *)
Tag(content) == [k \in Identity |-> {content[k]}]

-----------------------------------------------------------------------------
(* The cycle *)

(* The lane's cursor is taken up where it was left; `seen` starts empty.   *)
Start ==
  /\ pc = "idle"
  /\ pc' = "loop"
  /\ cursor' = IF laneCursor = 0 THEN 1 ELSE laneCursor
  /\ pages' = 0
  /\ inCall' = 0
  /\ seen' = {}
  /\ flags' = {}
  /\ during' = [k \in Identity |-> {api[k]}]
  /\ UNCHANGED <<api, storeVars, pos, got, more, emitted, changes, mishaps>>

(* The loop, or the request for the next page, finds the signal aborted.   *)
Stopped ==
  /\ pc \in {"loop", "iterate"}
  /\ "aborted" \in flags
  /\ pc' = "idle"
  /\ UNCHANGED <<api, storeVars, cycleVars, during, changes, mishaps>>

(* The cap on pages, or the deadline of a tick.                            *)
Truncate ==
  /\ pc = "loop"
  /\ "aborted" \notin flags
  /\ IF pages >= PageCap THEN UNCHANGED mishaps ELSE Mishap
  /\ Set("truncated")
  /\ pc' = "finish"
  /\ UNCHANGED <<api, storeVars, cursor, pos, pages, inCall, got, more, emitted, seen,
                 during, changes>>

(* A page arrives. Its validator is stored with the response, before the   *)
(* page is processed, and may fail to be stored or to be loaded. A request *)
(* with the validator of the page as it is now is answered 304, for which  *)
(* the poller returns no items and no hasMore.                             *)
Receive(p) ==
  /\ pos' = p
  /\ pages' = pages + 1
  /\ inCall' = inCall + 1
  /\ pc' = "commit"
  /\ \/ /\ Conditional
        /\ validator[p] = Tag(OnPage(p))
        /\ got' = Nothing
        /\ more' = FALSE
        /\ Set("notModified")
        /\ UNCHANGED validator
     \/ /\ got' = OnPage(p)
        /\ more' = (p < LastPage)
        /\ \/ UNCHANGED validator
           \/ Conditional /\ validator' = [validator EXCEPT ![p] = Tag(OnPage(p))]
        /\ UNCHANGED flags
  /\ UNCHANGED <<api, items, laneCursor, cursor, emitted, seen, during, changes, mishaps>>

Fetch ==
  /\ pc = "loop"
  /\ "aborted" \notin flags
  /\ pages < PageCap
  /\ Receive(IF FetchBy = "page" THEN pages + 1 ELSE cursor)

(* The next page of the async iterable.                                    *)
NextOfIterable ==
  /\ pc = "iterate"
  /\ "aborted" \notin flags
  /\ pos < LastPage
  /\ Receive(pos + 1)

Valid(k) == got[k] # Absent /\ got[k] \notin Invalid

Rejected == OnInvalid = "fail" /\ \E k \in Identity : got[k] \in Invalid

Throw ==
  /\ pc = "commit"
  /\ Rejected
  /\ Mishap
  /\ pc' = "idle"
  /\ UNCHANGED <<api, storeVars, cycleVars, during, changes>>

Advance == IF more THEN cursor + 1 ELSE cursor

(* Mutant: an item the snapshot knows is left as it is.                    *)
DiffNewOnly ==
  [k \in Identity |-> IF Valid(k) /\ items[k] = Absent THEN got[k] ELSE items[k]]

Diff == [k \in Identity |-> IF Valid(k) THEN got[k] ELSE items[k]]

(* processPage and its commit: the snapshot rows, the events and the lane  *)
(* cursor are one transaction.                                             *)
CommitPage ==
  /\ pc = "commit"
  /\ ~Rejected
  /\ items' = Diff
  /\ emitted' = (Diff # items)
  /\ seen' = seen \cup {k \in Identity : Valid(k)}
  /\ cursor' = Advance
  /\ laneCursor' = Advance
  /\ IF more THEN UNCHANGED flags ELSE Set("done")
  /\ pc' = "drain"
  /\ UNCHANGED <<api, validator, pos, pages, inCall, got, more, during, changes, mishaps>>

(* A poison event halts the drain: the circuit is opened and the cycle is  *)
(* done.                                                                   *)
Halt ==
  /\ pc = "drain"
  /\ emitted
  /\ Mishap
  /\ flags' = flags \cup {"halted", "done"}
  /\ pc' = "finish"
  /\ UNCHANGED <<api, storeVars, cursor, pos, pages, inCall, got, more, emitted, seen,
                 during, changes>>

(* Drained and renewed. A stop breaks out of the iteration; a call that    *)
(* gave more than one page counts as the whole listing.                    *)
AfterPage ==
  /\ pc = "drain"
  /\ IF "done" \in flags THEN pc' = "finish" /\ UNCHANGED <<flags, inCall>>
     ELSE IF "aborted" \in flags
     THEN IF inCall > 1 THEN pc' = "finish" /\ Set("done") /\ UNCHANGED inCall
          ELSE pc' = "loop" /\ inCall' = 0 /\ UNCHANGED flags
     ELSE IF pages >= PageCap THEN pc' = "finish" /\ Set("truncated") /\ UNCHANGED inCall
     ELSE IF Iterable THEN pc' = "iterate" /\ UNCHANGED <<flags, inCall>>
     ELSE pc' = "loop" /\ inCall' = 0 /\ UNCHANGED flags
  /\ UNCHANGED <<api, storeVars, cursor, pos, pages, got, more, emitted, seen, during,
                 changes, mishaps>>

Deadline ==
  /\ pc = "drain"
  /\ "done" \notin flags
  /\ "aborted" \notin flags
  /\ Mishap
  /\ Set("truncated")
  /\ pc' = "finish"
  /\ UNCHANGED <<api, storeVars, cursor, pos, pages, inCall, got, more, emitted, seen,
                 during, changes>>

(* Mutants: a listing cut short counts as whole; nothing is ever deleted.  *)
TruncatedCounts == "done" \in flags \/ "truncated" \in flags
NeverWhole == FALSE

(* The listing completed in this cycle, with no page left out.             *)
Whole ==
  "done" \in flags /\ flags \cap {"truncated", "notModified", "halted"} = {}

(* What was not seen is deleted from the snapshot, with its events.        *)
Deletes ==
  /\ pc = "finish"
  /\ Whole
  /\ items' = [k \in Identity |-> IF k \in seen THEN items[k] ELSE Absent]
  /\ pc' = "save"
  /\ UNCHANGED <<api, laneCursor, validator, cycleVars, during, changes, mishaps>>

NoDeletes ==
  /\ pc = "finish"
  /\ ~Whole
  /\ pc' = "save"
  /\ UNCHANGED <<api, storeVars, cycleVars, during, changes, mishaps>>

SaveState ==
  /\ pc = "save"
  /\ laneCursor' = 0
  /\ pc' = "idle"
  /\ UNCHANGED <<api, items, validator, cycleVars, during, changes, mishaps>>

(* A crash, a lost lease, a fetch or a store that throws: what follows     *)
(* saves the schedule and the sequence at most, never the lane.            *)
EndEarly ==
  /\ pc # "idle"
  /\ Mishap
  /\ pc' = "idle"
  /\ UNCHANGED <<api, storeVars, cycleVars, during, changes>>

(* The engine stops, or the lease keeper gives up.                         *)
Abort ==
  /\ pc # "idle"
  /\ "aborted" \notin flags
  /\ Mishap
  /\ Set("aborted")
  /\ UNCHANGED <<api, storeVars, pc, cursor, pos, pages, inCall, got, more, emitted, seen,
                 during, changes>>

Cycle ==
  \/ Start \/ Stopped \/ Truncate \/ Fetch \/ NextOfIterable \/ CommitPage \/ AfterPage
  \/ Deletes \/ NoDeletes \/ SaveState

Next ==
  \/ Cycle \/ Throw \/ Halt \/ Deadline \/ EndEarly \/ Abort
  \/ \E k \in Identity, v \in Value : Change(k, v)

(* Each cycle goes on, and the lane becomes due again (reconcile.every).   *)
Spec == Init /\ [][Next]_vars /\ WF_vars(Cycle)

-----------------------------------------------------------------------------
PC == {"idle", "loop", "commit", "drain", "iterate", "finish", "save"}

TypeOK ==
  /\ api \in [Identity -> Value]
  /\ items \in [Identity -> Value]
  /\ laneCursor \in Nat
  /\ DOMAIN validator = 1..LastPage
  /\ pc \in PC
  /\ cursor \in Nat \ {0}
  /\ pos \in 1..LastPage
  /\ pages \in Nat
  /\ inCall \in Nat
  /\ got \in [Identity -> Value]
  /\ more \in BOOLEAN
  /\ emitted \in BOOLEAN
  /\ seen \subseteq Identity
  /\ flags \subseteq Flag
  /\ during \in [Identity -> SUBSET Value]
  /\ changes \in Nat
  /\ mishaps \in Nat

(* An item is reported deleted only if it was absent from the listing at   *)
(* some time during the cycle that reports it (docs/cursors.md: "deleted   *)
(* for stored identities absent from the listing").                        *)
NoFalseDelete ==
  [][\A k \in Identity :
       items[k] # Absent /\ items'[k] = Absent => Absent \in during[k]]_vars

(* After the deletes of a whole listing every row of the snapshot is a     *)
(* value the item had during the cycle: no change and no delete that came  *)
(* before the cycle is missed, whatever happened in earlier cycles.        *)
ScanComplete ==
  pc = "save" /\ Whole => \A k \in Identity : items[k] \in during[k]

(* When the items stop changing and nothing else fails, the snapshot       *)
(* becomes and stays the listing.                                          *)
Mirrors == <>[](items = api)
=============================================================================
