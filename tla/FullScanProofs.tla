--------------------------- MODULE FullScanProofs ---------------------------
(***************************************************************************)
(* Full scans whose fetch goes by ctx.page and returns one page per call,  *)
(* and whose invalid items, if any, fail the cycle: whatever fails and     *)
(* whenever the items change, nothing that was listed is deleted, and a    *)
(* scan that completes leaves nothing stale.                               *)
(***************************************************************************)
EXTENDS FullScan, TLAPS

Paged == FetchBy = "page" /\ ~Iterable /\ (Invalid = {} \/ OnInvalid = "fail")

(* Where the cycle is in the listing: the page asked for is the number of  *)
(* pages had, and only the last page, a 304 or a halt makes it done.       *)
Position ==
  /\ pc # "iterate"
  /\ pc = "loop" => inCall = 0 /\ pages < LastPage /\ "done" \notin flags
  /\ pc = "commit" => /\ inCall = 1 /\ pos = pages /\ "done" \notin flags
                      /\ more => pages < LastPage
                      /\ ~more => pages = LastPage \/ "notModified" \in flags
  /\ pc = "drain" => inCall = 1 /\ ("done" \notin flags => pages < LastPage)
  /\ pc \in {"drain", "finish", "save"} /\ "done" \in flags =>
       pages = LastPage \/ "notModified" \in flags \/ "halted" \in flags

(* Pages that are in the snapshot.                                         *)
Listed == IF pc = "commit" THEN pages - 1 ELSE pages

(* What the cycle has seen of the items: a row it saw is recent, an item   *)
(* it did not see on a listed page was absent.                             *)
Sight ==
  pc # "idle" =>
    /\ \A k \in Identity : api[k] \in during[k]
    /\ \A k \in seen : items[k] \in during[k]
    /\ "notModified" \notin flags =>
         \A k \in Identity \ seen : PageOf[k] <= Listed => Absent \in during[k]
    /\ pc = "commit" =>
         \A k \in Identity :
           /\ got[k] # Absent => got[k] \in during[k]
           /\ "notModified" \notin flags /\ PageOf[k] = pos => got[k] \in during[k]
    /\ pc = "save" /\ Whole => \A k \in Identity \ seen : items[k] = Absent

ScanInv == TypeOK /\ Position /\ Sight

LEMMA InitScan == Init => ScanInv
<1> SUFFICES ASSUME Init PROVE ScanInv
  OBVIOUS
<1>1. TypeOK
  <2>1. /\ items \in [Identity -> Value] /\ got \in [Identity -> Value]
        /\ during \in [Identity -> SUBSET Value] /\ DOMAIN validator = 1..LastPage
    BY DEF Init, Nothing, Value
  <2>2. /\ api \in [Identity -> Value] /\ laneCursor \in Nat /\ pc \in PC
        /\ cursor \in Nat \ {0} /\ pos \in 1..LastPage /\ pages \in Nat
        /\ inCall \in Nat /\ changes \in Nat /\ mishaps \in Nat
    BY ScanAssumption DEF Init, PC
  <2>3. more \in BOOLEAN /\ emitted \in BOOLEAN /\ seen \subseteq Identity
    BY DEF Init
  <2>4. flags \subseteq Flag
    BY DEF Init
  <2> QED
    BY <2>1, <2>2, <2>3, <2>4 DEF TypeOK
<1>2. Position /\ Sight
  BY DEF Init, Position, Sight
<1> QED
  BY <1>1, <1>2 DEF ScanInv

(* Each step keeps the types, given the position in the listing.           *)
LEMMA TypeStep == Paged /\ TypeOK /\ Position /\ [Next]_vars => TypeOK'
<1> SUFFICES ASSUME Paged, TypeOK, Position, [Next]_vars PROVE TypeOK'
  OBVIOUS
<1> USE ScanAssumption DEF TypeOK, Value, PC, Flag
<1>1. CASE UNCHANGED vars
  BY <1>1 DEF vars, storeVars, cycleVars
<1>2. CASE Start
  BY <1>2 DEF Start, storeVars
<1>3. CASE Stopped \/ NoDeletes \/ Throw \/ EndEarly
  <2>1. UNCHANGED <<api, storeVars, cycleVars, during, changes>> /\ pc' \in PC
    BY <1>3 DEF Stopped, NoDeletes, Throw, EndEarly
  <2>2. mishaps' \in Nat
    BY <1>3 DEF Stopped, NoDeletes, Throw, EndEarly, Mishap
  <2> QED
    BY <2>1, <2>2 DEF storeVars, cycleVars
<1>4. CASE Truncate \/ Deadline \/ Abort
  <2>1. /\ UNCHANGED <<api, storeVars, cursor, pos, pages, inCall, got, more, emitted, seen,
                       during, changes>>
        /\ pc' \in PC
    BY <1>4 DEF Truncate, Deadline, Abort
  <2>2. mishaps' \in Nat
    BY <1>4 DEF Truncate, Deadline, Abort, Mishap
  <2>3. flags' \subseteq Flag
    BY <1>4 DEF Truncate, Deadline, Abort, Set
  <2> QED
    BY <2>1, <2>2, <2>3 DEF storeVars
<1>5. CASE Fetch
  <2>1. pages + 1 \in 1..LastPage
    BY <1>5 DEF Fetch, Position
  <2>2. Receive(pages + 1)
    BY <1>5 DEF Fetch, Paged
  <2>3. OnPage(pages + 1) \in [Identity -> Value] /\ Nothing \in [Identity -> Value]
    BY DEF OnPage, Nothing
  <2>4. /\ pos' \in 1..LastPage /\ pages' \in Nat /\ inCall' \in Nat /\ pc' \in PC
        /\ UNCHANGED <<api, items, laneCursor, cursor, emitted, seen, during, changes,
                       mishaps>>
    BY <2>1, <2>2 DEF Receive
  <2>5. /\ got' \in [Identity -> Value] /\ more' \in BOOLEAN /\ flags' \subseteq Flag
        /\ DOMAIN validator' = 1..LastPage
    <3>1. CASE got' = Nothing /\ more' = FALSE /\ Set("notModified") /\ UNCHANGED validator
      BY <2>3, <3>1 DEF Set
    <3>2. CASE /\ got' = OnPage(pages + 1) /\ more' = (pages + 1 < LastPage) /\ flags' = flags
               /\ \/ validator' = validator
                  \/ validator' = [validator EXCEPT ![pages + 1] = Tag(OnPage(pages + 1))]
      <4>1. DOMAIN validator' = DOMAIN validator
        BY <3>2
      <4> QED
        BY <2>3, <3>2, <4>1
    <3> QED
      BY <2>2, <3>1, <3>2 DEF Receive
  <2> QED
    BY <2>4, <2>5
<1>6. CASE NextOfIterable
  BY <1>6 DEF NextOfIterable, Position
<1>7. CASE CommitPage
  <2>1. Diff \in [Identity -> Value] /\ Advance \in Nat \ {0}
    BY DEF Diff, Advance
  <2> QED
    BY <1>7, <2>1 DEF CommitPage, Set
<1>8. CASE Halt
  BY <1>8 DEF Halt, Mishap, storeVars
<1>9. CASE AfterPage
  <2>1. pc' \in PC /\ inCall' \in Nat
    BY <1>9 DEF AfterPage
  <2>2. flags' = flags \/ flags' = flags \cup {"done"} \/ flags' = flags \cup {"truncated"}
    BY <1>9 DEF AfterPage, Set
  <2>3. flags' \subseteq Flag
    BY <2>2
  <2> QED
    BY <1>9, <2>1, <2>3 DEF AfterPage, storeVars
<1>10. CASE Deletes
  BY <1>10 DEF Deletes, cycleVars
<1>11. CASE SaveState
  BY <1>11 DEF SaveState, cycleVars
<1>12. ASSUME NEW k \in Identity, NEW v \in Value, Change(k, v) PROVE TypeOK'
  <2>1. during' \in [Identity -> SUBSET Value] /\ api' \in [Identity -> Value]
    BY <1>12 DEF Change
  <2> QED
    BY <1>12, <2>1 DEF Change, storeVars, cycleVars
<1> QED
  BY <1>1, <1>2, <1>3, <1>4, <1>5, <1>6, <1>7, <1>8, <1>9, <1>10, <1>11, <1>12
  DEF Next, Cycle

(* Each step keeps the position in the listing.                            *)
LEMMA PositionStep == Paged /\ TypeOK /\ Position /\ [Next]_vars => Position'
<1> SUFFICES ASSUME Paged, TypeOK, Position, [Next]_vars PROVE Position'
  OBVIOUS
<1>0. /\ pages \in Nat /\ pos \in Nat /\ inCall \in Nat /\ LastPage \in Nat \ {0}
      /\ more \in BOOLEAN /\ pc \in PC
  BY ScanAssumption DEF TypeOK
<1> USE <1>0 DEF Position
<1>1. CASE UNCHANGED vars
  BY <1>1 DEF vars, storeVars, cycleVars
<1>2. CASE Start
  BY <1>2 DEF Start, storeVars
<1>3. CASE Stopped \/ NoDeletes \/ Throw \/ EndEarly
  BY <1>3 DEF Stopped, NoDeletes, Throw, EndEarly, cycleVars
<1>4. CASE Truncate
  BY <1>4 DEF Truncate, Set
<1>5. CASE Deadline
  BY <1>5 DEF Deadline, Set
<1>6. CASE Abort
  BY <1>6 DEF Abort, Set
<1>7. CASE Fetch
  <2>1. Receive(pages + 1) /\ pc = "loop"
    BY <1>7 DEF Fetch, Paged
  <2>2. pages' = pages + 1 /\ pos' = pages + 1 /\ inCall' = 1 /\ pc' = "commit"
    BY <2>1 DEF Receive
  <2>3. \/ more' = FALSE /\ flags' = flags \cup {"notModified"}
        \/ more' = (pages + 1 < LastPage) /\ flags' = flags
    BY <2>1 DEF Receive, Set
  <2>4. "done" \notin flags'
    BY <2>1, <2>3
  <2>5. /\ more' => pages' < LastPage
        /\ ~more' => pages' = LastPage \/ "notModified" \in flags'
    <3>1. CASE more' = FALSE /\ flags' = flags \cup {"notModified"}
      BY <3>1
    <3>2. CASE more' = (pages + 1 < LastPage)
      <4>1. pages + 1 < LastPage \/ pages + 1 = LastPage
        BY <2>1
      <4> QED
        BY <2>2, <3>2, <4>1
    <3> QED
      BY <2>3, <3>1, <3>2
  <2> QED
    BY <2>2, <2>4, <2>5
<1>8. CASE NextOfIterable
  BY <1>8 DEF NextOfIterable
<1>9. CASE CommitPage
  <2>1. CASE more
    BY <1>9, <2>1 DEF CommitPage
  <2>2. CASE ~more
    BY <1>9, <2>2 DEF CommitPage, Set
  <2> QED
    BY <2>1, <2>2
<1>10. CASE Halt
  BY <1>10 DEF Halt
<1>11. CASE AfterPage
  BY <1>11 DEF AfterPage, Set, Paged
<1>12. CASE Deletes \/ SaveState
  BY <1>12 DEF Deletes, SaveState, cycleVars
<1>13. ASSUME NEW k \in Identity, NEW v \in Value, Change(k, v) PROVE Position'
  BY <1>13 DEF Change, cycleVars
<1> QED
  BY <1>1, <1>2, <1>3, <1>4, <1>5, <1>6, <1>7, <1>8, <1>9, <1>10, <1>11, <1>12, <1>13
  DEF Next, Cycle

(* Each step keeps what the cycle has seen true.                           *)
LEMMA SightStep == Paged /\ ScanInv /\ [Next]_vars => Sight'
<1> SUFFICES ASSUME Paged, TypeOK, Position, Sight, [Next]_vars PROVE Sight'
  BY DEF ScanInv
<1>0. /\ pages \in Nat /\ pos \in Nat /\ LastPage \in Nat \ {0} /\ pc \in PC
      /\ PageOf \in [Identity -> 1..LastPage] /\ seen \subseteq Identity
      /\ api \in [Identity -> Value] /\ items \in [Identity -> Value]
      /\ got \in [Identity -> Value] /\ during \in [Identity -> SUBSET Value]
  BY ScanAssumption DEF TypeOK
<1> USE <1>0 DEF Sight
<1>1. CASE UNCHANGED vars
  BY <1>1 DEF vars, storeVars, cycleVars, Listed, Whole
<1>2. CASE Start
  BY <1>2 DEF Start, Listed, storeVars
<1>3. CASE Stopped \/ Throw \/ EndEarly \/ SaveState
  BY <1>3 DEF Stopped, Throw, EndEarly, SaveState
<1>4. CASE Truncate \/ Deadline
  BY <1>4 DEF Truncate, Deadline, Set, Listed, storeVars
<1>5. CASE Abort
  BY <1>5 DEF Abort, Set, Listed, Whole, storeVars
<1>6. CASE Halt
  BY <1>6 DEF Halt, Listed, storeVars
<1>7. CASE AfterPage
  BY <1>7 DEF AfterPage, Set, Listed, storeVars
<1>8. CASE NextOfIterable
  BY <1>8 DEF NextOfIterable, Position
<1>9. CASE NoDeletes
  BY <1>9 DEF NoDeletes, Listed, Whole, storeVars, cycleVars
<1>10. CASE Deletes
  BY <1>10 DEF Deletes, Listed, Whole, cycleVars
<1>11. CASE Fetch
  <2>1. Receive(pages + 1) /\ pc = "loop"
    BY <1>11 DEF Fetch, Paged
  <2>2. \A k \in Identity : got'[k] # Absent => got'[k] = api[k]
    BY <2>1 DEF Receive, OnPage, Nothing
  <2>3. "notModified" \notin flags' =>
          /\ "notModified" \notin flags
          /\ \A k \in Identity : PageOf[k] = pages + 1 => got'[k] = api[k]
    BY <2>1 DEF Receive, OnPage, Set
  <2> QED
    BY <2>1, <2>2, <2>3 DEF Receive, Listed
<1>12. CASE CommitPage
  <2>1. \A k \in Identity : Valid(k) <=> got[k] # Absent
    BY <1>12, ScanAssumption DEF CommitPage, Rejected, Valid, Paged
  <2>2. /\ pc = "commit" /\ pc' = "drain" /\ pos = pages
        /\ UNCHANGED <<api, during, pages>>
        /\ "notModified" \notin flags' => "notModified" \notin flags
        /\ seen' = seen \cup {k \in Identity : Valid(k)}
    BY <1>12 DEF CommitPage, Set, Position
  <2>3. \A k \in seen' : items'[k] \in during[k]
    BY <1>12, <2>1, <2>2 DEF CommitPage, Diff
  <2>4. ASSUME "notModified" \notin flags', NEW k \in Identity \ seen', PageOf[k] <= pages
        PROVE  Absent \in during[k]
    <3>1. CASE PageOf[k] = pages
      BY <2>1, <2>2, <2>4, <3>1
    <3>2. CASE PageOf[k] # pages
      <4>1. PageOf[k] \in Nat /\ PageOf[k] <= pages - 1
        BY <2>4, <3>2
      <4> QED
        BY <2>2, <2>4, <4>1 DEF Listed
    <3> QED
      BY <3>1, <3>2
  <2> QED
    BY <2>2, <2>3, <2>4 DEF Listed
<1>13. ASSUME NEW k \in Identity, NEW v \in Value, Change(k, v) PROVE Sight'
  <2>1. \A j \in Identity : during[j] \subseteq during'[j]
    BY <1>13 DEF Change
  <2>2. pc # "idle" => \A j \in Identity : api'[j] \in during'[j]
    BY <1>13 DEF Change
  <2> QED
    BY <1>13, <2>1, <2>2 DEF Change, Listed, Whole, storeVars, cycleVars
<1> QED
  BY <1>1, <1>2, <1>3, <1>4, <1>5, <1>6, <1>7, <1>8, <1>9, <1>10, <1>11, <1>12, <1>13
  DEF Next, Cycle

LEMMA ScanInvariant ==
  ASSUME Paged
  PROVE  Spec => []ScanInv
<1>1. ScanInv /\ [Next]_vars => ScanInv'
  BY TypeStep, PositionStep, SightStep DEF ScanInv
<1> QED
  BY InitScan, <1>1, PTL DEF Spec

(* A scan that listed every page leaves each row of the snapshot at a      *)
(* value the item had during the scan.                                     *)
THEOREM ScansComplete ==
  ASSUME Paged
  PROVE  Spec => []ScanComplete
<1>1. ScanInv => ScanComplete
  <2> SUFFICES ASSUME ScanInv, pc = "save", Whole, NEW k \in Identity
               PROVE  items[k] \in during[k]
    BY DEF ScanComplete
  <2>1. CASE k \in seen
    BY <2>1 DEF ScanInv, Sight
  <2>2. CASE k \notin seen
    <3>1. pages = LastPage /\ "notModified" \notin flags
      BY DEF ScanInv, Position, Whole
    <3>2. PageOf[k] <= pages
      BY <3>1, ScanAssumption
    <3>3. items[k] = Absent /\ Absent \in during[k]
      BY <2>2, <3>1, <3>2 DEF ScanInv, Sight, Listed
    <3> QED
      BY <3>3
  <2> QED
    BY <2>1, <2>2
<1> QED
  BY ScanInvariant, <1>1, PTL

(* An item is deleted from the snapshot, and reported deleted, only if it  *)
(* was absent at some time during the scan: no crash, failure, deadline,   *)
(* halt, stop or 304 makes an item that is listed look deleted.            *)
THEOREM NothingDeletedFalsely ==
  ASSUME Paged
  PROVE  Spec => NoFalseDelete
<1> DEFINE Step == \A k \in Identity :
                     items[k] # Absent /\ items'[k] = Absent => Absent \in during[k]
<1>1. ScanInv /\ [Next]_vars => [Step]_vars
  <2> SUFFICES ASSUME ScanInv, [Next]_vars, NEW k \in Identity,
                      items[k] # Absent, items'[k] = Absent
               PROVE  Absent \in during[k]
    OBVIOUS
  <2>1. CASE Deletes
    <3>1. k \notin seen
      BY <2>1 DEF Deletes, ScanInv, TypeOK
    <3>2. pages = LastPage /\ "notModified" \notin flags /\ pc = "finish"
      BY <2>1 DEF Deletes, ScanInv, Position, Whole
    <3>3. PageOf[k] <= pages
      BY <3>2, ScanAssumption
    <3> QED
      BY <3>1, <3>2, <3>3 DEF ScanInv, Sight, Listed
  <2>2. CASE CommitPage
    BY <2>2 DEF CommitPage, Diff, Valid
  <2>3. CASE items' = items
    BY <2>3
  <2>4. Deletes \/ CommitPage \/ items' = items
    BY DEF Next, Cycle, Start, Stopped, Truncate, Fetch, NextOfIterable, Receive, Throw,
           AfterPage, NoDeletes, SaveState, Halt, Deadline, EndEarly, Abort, Change, vars,
           storeVars
  <2> QED
    BY <2>1, <2>2, <2>3, <2>4
<1> QED
  BY ScanInvariant, <1>1, PTL DEF Spec, NoFalseDelete
=============================================================================
