---------------------------- MODULE RunnerProofs ----------------------------
(***************************************************************************)
(* Theorems about Runner, for every set of items, versions, instances and  *)
(* runs and every bound on the feed and on the mishaps: the types, that no *)
(* event is lost, the fencing of writes and the atomic commit.             *)
(***************************************************************************)
EXTENDS Runner, FiniteSetTheorems, WellFoundedInduction, TLAPS

-----------------------------------------------------------------------------
(* Operators *)

(* The order of the natural numbers as a well-founded relation.            *)
LEMMA WellOrder ==
  ASSUME NEW S, S \subseteq Nat, S # {}
  PROVE  \E R : /\ \A m, n \in Nat : m < n => <<m, n>> \in R
               /\ \E n \in S : \A m \in S : ~(<<m, n>> \in R)
<1>1. \E n \in S : \A m \in S : ~(<<m, n>> \in OpToRel(<, Nat))
  BY WFMin, NatLessThanWellFounded, Zenon
<1>2. \A m, n \in Nat : m < n => <<m, n>> \in OpToRel(<, Nat)
  BY DEF OpToRel
<1> WITNESS OpToRel(<, Nat)
<1> QED
  BY <1>1, <1>2, Zenon

(* A nonempty set of natural numbers has a smallest element.               *)
LEMMA SmallestElement ==
  ASSUME NEW S, S \subseteq Nat, S # {}
  PROVE  \E n \in S : \A m \in S : n <= m
<1>1. PICK R : /\ \A m, n \in Nat : m < n => <<m, n>> \in R
               /\ \E n \in S : \A m \in S : ~(<<m, n>> \in R)
  BY WellOrder
<1>2. PICK n \in S : \A m \in S : ~(<<m, n>> \in R)
  BY <1>1
<1>3. ASSUME NEW m \in S PROVE ~(m < n)
  <2>1. m < n => <<m, n>> \in R
    BY <1>1, Zenon
  <2> QED
    BY <1>2, <2>1, Zenon
<1> QED
  BY <1>3

(* A nonempty set of positions up to n has a largest element.              *)
LEMMA LargestPosition ==
  ASSUME NEW n \in Nat, NEW S, S \subseteq 1..n, S # {}
  PROVE  \E i \in S : \A j \in S : j <= i
<1> DEFINE Gaps == {n - i : i \in S}
<1>0. Gaps \subseteq Nat /\ Gaps # {}
  <2>1. \A i \in S : n - i \in Nat
    OBVIOUS
  <2>2. PICK i \in S : TRUE
    OBVIOUS
  <2>3. n - i \in Gaps
    OBVIOUS
  <2> QED
    BY <2>1, <2>3
<1>1. PICK g \in Gaps : \A h \in Gaps : g <= h
  <2> HIDE DEF Gaps
  <2> QED BY <1>0, SmallestElement
<1>2. PICK i \in S : g = n - i
  OBVIOUS
<1>3. \A j \in S : n - i <= n - j
  BY <1>1, <1>2
<1> QED
  BY <1>2, <1>3

(* The last version of an item that occurs in the feed is a version.       *)
LEMMA LastVersionType ==
  ASSUME feed \in Seq(FeedEntry), NEW n \in Nat, n <= Len(feed), NEW k,
         NEW o \in 1..n, feed[o].subject = k
  PROVE  LastVersion(k, n) \in Version
<1> DEFINE is == {i \in 1..n : feed[i].subject = k}
<1>1. is # {} /\ is \subseteq 1..n
  OBVIOUS
<1>2. \E i \in is : \A j \in is : j <= i
  BY <1>1, LargestPosition
<1>3. (CHOOSE i \in is : \A j \in is : j <= i) \in is
  BY <1>2
<1>4. ASSUME NEW i \in is PROVE feed[i].version \in Version
  <2>1. i \in 1..Len(feed)
    OBVIOUS
  <2>2. feed[i] \in FeedEntry
    BY <2>1
  <2> QED
    BY <2>2 DEF FeedEntry
<1> QED
  BY <1>1, <1>3, <1>4 DEF LastVersion

-----------------------------------------------------------------------------
(* Type correctness *)

TypeInv == TypeOK /\ PageInFeed

LEMMA TypeInit == Init => TypeInv
<1> SUFFICES ASSUME Init PROVE TypeInv
  OBVIOUS
<1> USE DispatcherAssumption DEF Init, StoreInit, DrainInit
<1>1. StoreTypeOK
  BY DEF StoreTypeOK, NoLease, PollerState, InitialState
<1>2. DrainTypeOK
  BY DEF DrainTypeOK, NoWork, WorkerState
<1>3. TypeOK
  BY <1>1, <1>2 DEF TypeOK, PC, NoState, NoPage
<1>4. PageInFeed
  BY DEF PageInFeed, NoPage
<1> QED
  BY <1>3, <1>4 DEF TypeInv

(* The workers' steps keep the types of the store, the drain and pc.       *)
WorkTypeOK == StoreTypeOK /\ DrainTypeOK /\ pc \in [Run -> PC]

LEMMA EntryType ==
  ASSUME NEW row \in OutboxRow \cup ParkedRow
  PROVE  Entry(row) \in LoggedEvent
BY DEF Entry, OutboxRow, ParkedRow, LoggedEvent

LEMMA StepType ==
  ASSUME NEW r \in Run, NEW row \in OutboxRow, NEW step \in WorkerState,
         work \in [Run -> [Identity -> WorkerState]], Step(r, row, step)
  PROVE  work' \in [Run -> [Identity -> WorkerState]]
BY DEF Step, OutboxRow, EventId

LEMMA WorkerType ==
  ASSUME WorkTypeOK, NEW r \in Run, NEW row \in rows[r], Worker(r, row)
  PROVE  WorkTypeOK'
<1>0. row \in OutboxRow /\ row.event.subject \in Identity /\ Entry(row) \in LoggedEvent
  BY EntryType DEF WorkTypeOK, DrainTypeOK, OutboxRow, EventId
<1>1. CASE DeliverOk(r, row)
  <2>1. work' \in [Run -> [Identity -> WorkerState]]
    BY <1>0, <1>1, StepType DEF DeliverOk, WorkTypeOK, DrainTypeOK, WorkerState
  <2> QED
    BY <1>0, <1>1, <2>1 DEF DeliverOk, WorkTypeOK, StoreTypeOK, storeVars, DrainTypeOK
<1>2. CASE Ack(r, row)
  <2>1. work' \in [Run -> [Identity -> WorkerState]]
    BY <1>0, <1>2, StepType DEF Ack, AfterRow, WorkTypeOK, DrainTypeOK, WorkerState
  <2>2. StoreTypeOK'
    BY <1>2 DEF Ack, AckEvents, Without, WorkTypeOK, StoreTypeOK
  <2> QED
    BY <1>0, <1>2, <2>1, <2>2 DEF Ack, AfterRow, WorkTypeOK, DrainTypeOK, consumerVars
<1>3. CASE Retry(r, row)
  <2>1. work' \in [Run -> [Identity -> WorkerState]]
    BY <1>0, <1>3, StepType DEF Retry, LeaveGroup, WorkTypeOK, DrainTypeOK, WorkerState
  <2>2. outbox' \subseteq OutboxRow
    BY <1>3 DEF Retry, RecordAttempt, WorkTypeOK, StoreTypeOK, OutboxRow
  <2>3. StoreTypeOK'
    BY <1>3, <2>2 DEF Retry, WorkTypeOK, StoreTypeOK
  <2> QED
    BY <1>0, <1>3, <2>1, <2>3 DEF Retry, LeaveGroup, WorkTypeOK, DrainTypeOK, consumerVars
<1>4. CASE LeaseLost(r, row)
  <2>1. work' \in [Run -> [Identity -> WorkerState]]
    BY <1>0, <1>4, StepType
    DEF LeaseLost, WorkerThrows, NoWork, WorkTypeOK, DrainTypeOK, WorkerState
  <2>2. pc' \in [Run -> PC] /\ workers' \in [Run -> Int]
    BY <1>4 DEF LeaseLost, WorkerThrows, WorkTypeOK, DrainTypeOK, PC
  <2>3. StoreTypeOK'
    BY <1>4 DEF LeaseLost, WorkerThrows, WorkTypeOK, StoreTypeOK, storeVars
  <2>4. UNCHANGED <<epoch, rows, blocked, progress, window, stopped, invoked, handled>>
    BY <1>4 DEF LeaseLost, WorkerThrows, consumerVars
  <2> QED
    BY <2>1, <2>2, <2>3, <2>4 DEF WorkTypeOK, DrainTypeOK
<1>5. CASE Park(r, row)
  <2>1. work' \in [Run -> [Identity -> WorkerState]]
    BY <1>0, <1>5, StepType
    DEF Park, AfterRow, LeaveGroup, StopWorkers, WorkTypeOK, DrainTypeOK, WorkerState
  <2>2. parked' \subseteq ParkedRow /\ outbox' \subseteq OutboxRow
    BY <1>0, <1>5, DispatcherAssumption
    DEF Park, ParkEvent, Put, Without, WorkTypeOK, StoreTypeOK, OutboxRow, ParkedRow
  <2>3. StoreTypeOK'
    BY <1>5, <2>2 DEF Park, WorkTypeOK, StoreTypeOK
  <2>4. /\ rows' \in [Run -> SUBSET OutboxRow]
        /\ blocked' \in [Run -> SUBSET Identity]
        /\ progress' \in [Run -> BOOLEAN]
        /\ stopped' \in [Run -> {"no", "aborted", "halted"}]
    <3>1. rows' \in [Run -> SUBSET OutboxRow]
      BY <1>5 DEF Park, AfterRow, WorkTypeOK, DrainTypeOK
    <3>2. blocked' \in [Run -> SUBSET Identity]
      <4>1. \/ blocked' = blocked
            \/ blocked' = [blocked EXCEPT ![r] = @ \cup {row.event.subject}]
        BY <1>5 DEF Park, LeaveGroup
      <4> QED
        BY <1>0, <4>1 DEF WorkTypeOK, DrainTypeOK
    <3>3. progress' \in [Run -> BOOLEAN]
      <4>1. progress' = [progress EXCEPT ![r] = TRUE]
        BY <1>5 DEF Park, AfterRow
      <4> QED
        BY <4>1 DEF WorkTypeOK, DrainTypeOK
    <3>4. stopped' \in [Run -> {"no", "aborted", "halted"}]
      BY <1>5 DEF Park, WorkTypeOK, DrainTypeOK
    <3> QED
      BY <3>1, <3>2, <3>3, <3>4
  <2>5. UNCHANGED <<pc, epoch, window, workers, invoked, handled>>
    BY <1>5 DEF Park, consumerVars
  <2> QED
    BY <2>1, <2>3, <2>4, <2>5 DEF WorkTypeOK, DrainTypeOK
<1> QED
  BY <1>1, <1>2, <1>3, <1>4, <1>5 DEF Worker

(* What else may happen to a row in a worker's hands.                      *)
RowMishap(r, row) ==
  \/ DeliverThrows(r, row)
  \/ NotDueYet(r, row)
  \/ AckErrors(r, row)
  \/ /\ At(r, row, "failed")
     /\ WorkerThrows(r, row, IF phase[r] = "pre" THEN "release" ELSE "fail")

LEMMA RowMishapType ==
  ASSUME WorkTypeOK, NEW r \in Run, NEW row \in rows[r], RowMishap(r, row)
  PROVE  WorkTypeOK'
<1>0. row \in OutboxRow /\ row.event.subject \in Identity /\ Entry(row) \in LoggedEvent
  BY EntryType DEF WorkTypeOK, DrainTypeOK, OutboxRow, EventId
<1>1. CASE DeliverThrows(r, row)
  <2>1. work' \in [Run -> [Identity -> WorkerState]]
    BY <1>0, <1>1, StepType DEF DeliverThrows, WorkTypeOK, DrainTypeOK, WorkerState
  <2> QED
    BY <1>0, <1>1, <2>1 DEF DeliverThrows, WorkTypeOK, StoreTypeOK, storeVars, DrainTypeOK
<1>2. CASE NotDueYet(r, row)
  <2>1. work' \in [Run -> [Identity -> WorkerState]]
    BY <1>0, <1>2, StepType DEF NotDueYet, WorkTypeOK, DrainTypeOK, WorkerState
  <2> QED
    BY <1>0, <1>2, <2>1
    DEF NotDueYet, WorkTypeOK, StoreTypeOK, storeVars, consumerVars, DrainTypeOK
<1>3. CASE AckErrors(r, row)
  <2>1. work' \in [Run -> [Identity -> WorkerState]]
    BY <1>0, <1>3, StepType DEF AckErrors, WorkTypeOK, DrainTypeOK, WorkerState
  <2>2. StoreTypeOK'
    BY <1>3 DEF AckErrors, AckEvents, Without, WorkTypeOK, StoreTypeOK
  <2> QED
    BY <1>3, <2>1, <2>2 DEF AckErrors, WorkTypeOK, DrainTypeOK, consumerVars
<1>4. ASSUME NEW target \in {"release", "fail"}, WorkerThrows(r, row, target)
      PROVE  WorkTypeOK'
  <2>1. work' \in [Run -> [Identity -> WorkerState]]
    BY <1>0, <1>4, StepType
    DEF WorkerThrows, NoWork, WorkTypeOK, DrainTypeOK, WorkerState
  <2>2. pc' \in [Run -> PC] /\ workers' \in [Run -> Int]
    BY <1>4 DEF WorkerThrows, WorkTypeOK, DrainTypeOK, PC
  <2>3. StoreTypeOK'
    BY <1>4 DEF WorkerThrows, WorkTypeOK, StoreTypeOK, storeVars
  <2>4. UNCHANGED <<epoch, rows, blocked, progress, window, stopped, invoked, handled>>
    BY <1>4 DEF WorkerThrows, consumerVars
  <2> QED
    BY <2>1, <2>2, <2>3, <2>4 DEF WorkTypeOK, DrainTypeOK
<1> QED
  BY <1>1, <1>2, <1>3, <1>4 DEF RowMishap

LEMMA RoundType ==
  ASSUME WorkTypeOK, NEW r \in Run, NEW exit \in PC,
         LoadRows(r, exit) \/ FilterHeld(r, exit) \/ EndRound(r, exit)
  PROVE  WorkTypeOK'
<1>1. CASE LoadRows(r, exit)
  <2>1. LoadPending(window[r]) \subseteq OutboxRow
    BY DEF LoadPending, WorkTypeOK, StoreTypeOK
  <2>2. rows' \in [Run -> SUBSET OutboxRow] /\ pc' \in [Run -> PC]
    BY <1>1, <2>1 DEF LoadRows, WorkTypeOK, DrainTypeOK, PC
  <2> QED
    BY <1>1, <2>2
    DEF LoadRows, WorkTypeOK, StoreTypeOK, DrainTypeOK, storeVars, consumerVars
<1>2. CASE FilterHeld(r, exit)
  <2> DEFINE groups == Groups(rows[r]) \ (HeldKeys \cup blocked[r])
  <2>1. groups \subseteq Identity
    BY DEF Groups, WorkTypeOK, DrainTypeOK, OutboxRow, EventId
  <2>2. Cardinality(groups) \in Nat
    BY <2>1, StoreAssumption, FS_Subset, FS_CardinalityType
  <2>3. UNCHANGED <<storeVars, consumerVars, epoch, blocked, stopped>>
    BY <1>2 DEF FilterHeld
  <2>4. CASE groups = {}
    <3>1. WidenOrExit(r, exit)
      BY <1>2, <2>4 DEF FilterHeld
    <3>2. pc' \in [Run -> PC] /\ window' \in [Run -> Nat]
      <4>1. \/ pc' = [pc EXCEPT ![r] = exit] /\ window' = window
            \/ pc' = [pc EXCEPT ![r] = "load"] /\ window' = [window EXCEPT ![r] = 2 * @]
        BY <3>1 DEF WidenOrExit
      <4> QED
        BY <4>1 DEF WorkTypeOK, DrainTypeOK, PC
    <3> QED
      BY <2>3, <3>1, <3>2
      DEF WidenOrExit, WorkTypeOK, StoreTypeOK, DrainTypeOK, storeVars, consumerVars
  <2>5. CASE groups # {}
    <3>1. /\ pc' = [pc EXCEPT ![r] = "work"]
          /\ rows' = [rows EXCEPT ![r] = {row \in @ : row.event.subject \in groups}]
          /\ work' = [work EXCEPT ![r] =
                        [k \in Identity |-> IF k \in groups THEN "queued" ELSE "none"]]
          /\ workers' = [workers EXCEPT ![r] = IF Cardinality(groups) < Concurrency
                                              THEN Cardinality(groups) ELSE Concurrency]
          /\ progress' = [progress EXCEPT ![r] = FALSE]
          /\ window' = window
      BY <1>2, <2>5 DEF FilterHeld
    <3> HIDE DEF groups
    <3>2. pc' \in [Run -> PC]
      BY <3>1 DEF WorkTypeOK, PC
    <3>3. rows' \in [Run -> SUBSET OutboxRow]
      BY <3>1 DEF WorkTypeOK, DrainTypeOK
    <3>4. work' \in [Run -> [Identity -> WorkerState]]
      BY <3>1 DEF WorkTypeOK, DrainTypeOK, WorkerState
    <3>5. workers' \in [Run -> Int] /\ progress' \in [Run -> BOOLEAN]
      BY <2>2, <3>1, DispatcherAssumption DEF WorkTypeOK, DrainTypeOK
    <3> QED
      BY <2>3, <3>1, <3>2, <3>3, <3>4, <3>5
      DEF WorkTypeOK, StoreTypeOK, DrainTypeOK, storeVars, consumerVars
  <2> QED
    BY <2>4, <2>5
<1>3. CASE EndRound(r, exit)
  <2>1. pc' \in [Run -> PC]
    BY <1>3 DEF EndRound, WorkTypeOK, PC
  <2> QED
    BY <1>3, <2>1
    DEF EndRound, WorkTypeOK, StoreTypeOK, DrainTypeOK, storeVars, drainVars, consumerVars
<1> QED
  BY <1>1, <1>2, <1>3

(* The part of the type invariant that the drain does not touch.           *)
RunTypeOK ==
  /\ feed \in Seq(FeedEntry)
  /\ phase \in [Run -> {"pre", "cycle"}]
  /\ mem \in [Run -> [cursor : Nat, sequence : Nat]]
  /\ page \in [Run -> [to : Nat, more : BOOLEAN, count : Nat]]
  /\ batch \in [Run -> SUBSET OutboxRow]
  /\ retried \subseteq LoggedEvent
  /\ dropped \subseteq LoggedEvent
  /\ mishaps \in Nat
  /\ \A r \in Run : page[r].to <= Len(feed)

LEMMA TypeParts == TypeInv <=> WorkTypeOK /\ RunTypeOK
BY DEF TypeInv, TypeOK, WorkTypeOK, RunTypeOK, PageInFeed

LEMMA TypePartsNext == TypeInv' <=> WorkTypeOK' /\ RunTypeOK'
BY DEF TypeInv, TypeOK, WorkTypeOK, RunTypeOK, PageInFeed

LEMMA MishapType ==
  ASSUME mishaps \in Nat, Mishap \/ UNCHANGED mishaps
  PROVE  mishaps' \in Nat
BY DEF Mishap

LEMMA DrainType ==
  ASSUME TypeInv, NEW r \in Run, Drain(r) \/ DeliveryMishap(r)
  PROVE  TypeInv'
<1> USE TypeParts, TypePartsNext
<1>1. AfterDrain(r) \in PC
  BY DEF AfterDrain, PC
<1>2. CASE Drain(r)
  <2>1. WorkTypeOK'
    BY <1>1, <1>2, RoundType, WorkerType DEF Drain
  <2>2. RunTypeOK'
    BY <1>2 DEF Drain, RunTypeOK, runVars, operatorVars
  <2> QED
    BY <2>1, <2>2
<1>3. CASE DeliveryMishap(r)
  <2>1. WorkTypeOK'
    BY <1>3, RowMishapType DEF DeliveryMishap, RowMishap
  <2>2. RunTypeOK'
    BY <1>3, MishapType DEF DeliveryMishap, RunTypeOK, runVars, operatorVars
  <2> QED
    BY <2>1, <2>2
<1> QED
  BY <1>2, <1>3

(* The steps that move a run along without touching a snapshot or a drain. *)
LEMMA ControlType ==
  ASSUME TypeInv, NEW r \in Run,
         \/ OpenCircuit(r) \/ LiveNotDue(r) \/ AbortCycle(r) \/ StepThrows(r)
         \/ Renew(r) \/ SaveState(r) \/ SaveFailure(r)
  PROVE  TypeInv'
<1> USE TypeParts, TypePartsNext
<1>1. pc' \in [Run -> PC]
  BY DEF OpenCircuit, LiveNotDue, AbortCycle, StepThrows, Renew, SaveState, SaveFailure,
         GoTo, PC, WorkTypeOK
<1>2. lease' \in [owner : Owner \cup {NoOwner}, epoch : Nat, live : BOOLEAN]
  BY DEF OpenCircuit, LiveNotDue, AbortCycle, StepThrows, Renew, SaveState, SaveFailure,
         RenewLease, storeVars, WorkTypeOK, StoreTypeOK
<1>3. state' \in PollerState
  BY DEF OpenCircuit, LiveNotDue, AbortCycle, StepThrows, Renew, SaveState, SaveFailure,
         storeVars, WorkTypeOK, StoreTypeOK, PollerState, RunTypeOK
<1>4. mishaps' \in Nat
  BY MishapType
  DEF OpenCircuit, LiveNotDue, AbortCycle, StepThrows, Renew, SaveState, SaveFailure,
      RunTypeOK
<1>5. UNCHANGED <<epochCounter, items, outbox, parked, log, consumerVars, epoch, drainVars,
                  feed, runVars, operatorVars>>
  BY DEF OpenCircuit, LiveNotDue, AbortCycle, StepThrows, Renew, SaveState, SaveFailure,
         storeVars
<1>6. WorkTypeOK'
  BY <1>1, <1>2, <1>3, <1>5
  DEF WorkTypeOK, StoreTypeOK, DrainTypeOK, drainVars, consumerVars
<1>7. RunTypeOK'
  BY <1>4, <1>5 DEF RunTypeOK, runVars, operatorVars
<1> QED
  BY <1>6, <1>7

(* The start and the end of a run.                                         *)
LEMMA RunEndsType ==
  ASSUME TypeInv, NEW r \in Run,
         \/ Begin(r) \/ ReadState(r) \/ ReleaseRun(r) \/ ReleaseFails(r)
  PROVE  TypeInv'
<1> USE TypeParts, TypePartsNext
<1>1. CASE Begin(r)
  <2>1. pc' \in [Run -> PC] /\ epoch' \in [Run -> Nat] /\ epochCounter' \in Nat
    BY <1>1 DEF Begin, AcquireLease, GoTo, PC, WorkTypeOK, StoreTypeOK, DrainTypeOK
  <2>2. lease' \in [owner : Owner \cup {NoOwner}, epoch : Nat, live : BOOLEAN]
    BY <1>1, DispatcherAssumption DEF Begin, AcquireLease, WorkTypeOK, StoreTypeOK
  <2>3. mishaps' \in Nat
    BY <1>1, MishapType DEF Begin, RunTypeOK
  <2>4. UNCHANGED <<state, items, outbox, parked, log, drainVars, consumerVars, feed,
                    runVars, operatorVars>>
    BY <1>1 DEF Begin
  <2>5. WorkTypeOK'
    BY <2>1, <2>2, <2>4 DEF WorkTypeOK, StoreTypeOK, DrainTypeOK, drainVars, consumerVars
  <2>6. RunTypeOK'
    BY <2>3, <2>4 DEF RunTypeOK, runVars, operatorVars
  <2> QED
    BY <2>5, <2>6
<1>2. CASE ReadState(r)
  <2>1. pc' \in [Run -> PC]
    BY <1>2 DEF ReadState, GoTo, PC, WorkTypeOK
  <2>2. /\ rows' \in [Run -> SUBSET OutboxRow]
        /\ blocked' \in [Run -> SUBSET Identity]
        /\ progress' \in [Run -> BOOLEAN]
        /\ window' \in [Run -> Nat]
    BY <1>2, DispatcherAssumption DEF ReadState, StartDrain, WorkTypeOK, DrainTypeOK
  <2>3. mem' \in [Run -> [cursor : Nat, sequence : Nat]]
    BY <1>2 DEF ReadState, WorkTypeOK, StoreTypeOK, PollerState, RunTypeOK
  <2>4. /\ phase' \in [Run -> {"pre", "cycle"}]
        /\ page' \in [Run -> [to : Nat, more : BOOLEAN, count : Nat]]
        /\ \A x \in Run : page'[x].to <= Len(feed)
    BY <1>2 DEF ReadState, NoPage, RunTypeOK
  <2>5. UNCHANGED <<storeVars, consumerVars, epoch, work, stopped, workers, feed, batch,
                    operatorVars, mishaps>>
    BY <1>2 DEF ReadState
  <2>6. WorkTypeOK'
    BY <2>1, <2>2, <2>5 DEF WorkTypeOK, StoreTypeOK, DrainTypeOK, storeVars, consumerVars
  <2>7. RunTypeOK'
    BY <2>3, <2>4, <2>5 DEF RunTypeOK, operatorVars
  <2> QED
    BY <2>6, <2>7
<1>3. CASE ReleaseRun(r) \/ ReleaseFails(r)
  <2>1. pc' \in [Run -> PC]
    BY <1>3 DEF ReleaseRun, ReleaseFails, GoTo, PC, WorkTypeOK
  <2>2. Forget(r)
    BY <1>3 DEF ReleaseRun, ReleaseFails
  <2>3. DrainTypeOK'
    <3>1. epoch' \in [Run -> Nat] /\ rows' \in [Run -> SUBSET OutboxRow]
      BY <2>2 DEF Forget, WorkTypeOK, DrainTypeOK
    <3>2. blocked' \in [Run -> SUBSET Identity] /\ progress' \in [Run -> BOOLEAN]
      BY <2>2 DEF Forget, WorkTypeOK, DrainTypeOK
    <3>3. window' \in [Run -> Nat] /\ workers' \in [Run -> Int]
      BY <2>2, DispatcherAssumption DEF Forget, WorkTypeOK, DrainTypeOK
    <3>4. stopped' \in [Run -> {"no", "aborted", "halted"}]
      BY <2>2 DEF Forget, WorkTypeOK, DrainTypeOK
    <3> QED
      BY <1>3, <2>2, <3>1, <3>2, <3>3, <3>4
      DEF Forget, ReleaseRun, ReleaseFails, WorkTypeOK, DrainTypeOK, consumerVars
  <2>4. StoreTypeOK'
    <3>1. lease' = lease \/ lease' = NoLease
      <4>1. CASE ReleaseRun(r)
        BY <4>1 DEF ReleaseRun, ReleaseLease
      <4>2. CASE ReleaseFails(r)
        BY <4>2 DEF ReleaseFails, storeVars
      <4> QED
        BY <1>3, <4>1, <4>2
    <3>2. lease' \in [owner : Owner \cup {NoOwner}, epoch : Nat, live : BOOLEAN]
      <4>1. NoLease \in [owner : Owner \cup {NoOwner}, epoch : Nat, live : BOOLEAN]
        BY DEF NoLease
      <4>2. lease \in [owner : Owner \cup {NoOwner}, epoch : Nat, live : BOOLEAN]
        BY DEF WorkTypeOK, StoreTypeOK
      <4> QED
        BY <3>1, <4>1, <4>2
    <3>3. UNCHANGED <<epochCounter, state, items, outbox, parked, log>>
      BY <1>3 DEF ReleaseRun, ReleaseFails, storeVars
    <3> QED
      BY <3>2, <3>3 DEF WorkTypeOK, StoreTypeOK
  <2>5. RunTypeOK'
    <3>1. mishaps' \in Nat
      BY <1>3, MishapType DEF ReleaseRun, ReleaseFails, RunTypeOK
    <3>2. phase' \in [Run -> {"pre", "cycle"}] /\ batch' \in [Run -> SUBSET OutboxRow]
      BY <2>2 DEF Forget, RunTypeOK
    <3>3. mem' \in [Run -> [cursor : Nat, sequence : Nat]]
      BY <2>2 DEF Forget, NoState, RunTypeOK
    <3>4. /\ page' \in [Run -> [to : Nat, more : BOOLEAN, count : Nat]]
          /\ \A x \in Run : page'[x].to <= Len(feed)
      BY <2>2 DEF Forget, NoPage, RunTypeOK
    <3> QED
      BY <1>3, <3>1, <3>2, <3>3, <3>4
      DEF ReleaseRun, ReleaseFails, RunTypeOK, operatorVars
  <2> QED
    BY <2>1, <2>3, <2>4, <2>5 DEF WorkTypeOK
<1> QED
  BY <1>1, <1>2, <1>3

(* The row processPage builds for a changed item.                          *)
LEMMA EventRowType ==
  ASSUME TypeInv, NEW r \in Run, NEW k \in Changed(r)
  PROVE  EventRow(r, k) \in OutboxRow
<1> USE TypeParts
<1>1. k \in Identity /\ Changed(r) \subseteq Identity
  BY DEF Changed
<1>2. LastVersion(k, page[r].to) \in Version
  <2>1. page[r].to \in Nat /\ page[r].to <= Len(feed) /\ mem[r].cursor \in Nat
    BY DEF RunTypeOK
  <2>2. PICK i \in InPage(r) : feed[i].subject = k
    BY DEF Changed
  <2>3. i \in 1..page[r].to
    BY <2>1 DEF InPage
  <2> QED
    BY <2>1, <2>2, <2>3, LastVersionType DEF RunTypeOK
<1>3. Cardinality({j \in Changed(r) : FirstIn(r, j) < FirstIn(r, k)}) \in Nat
  <2>1. {j \in Changed(r) : FirstIn(r, j) < FirstIn(r, k)} \subseteq Identity
    BY <1>1
  <2> QED
    BY <2>1, StoreAssumption, FS_Subset, FS_CardinalityType
<1>4. mem[r].sequence \in Nat
  BY DEF RunTypeOK
<1> QED
  BY <1>1, <1>2, <1>3, <1>4 DEF EventRow, OutboxRow, EventId, EventType

LEMMA UpsertedType ==
  ASSUME NEW rs \in SUBSET OutboxRow, items \in [Identity -> Version \cup {Absent}],
         NEW k \in Identity
  PROVE  Upserted(rs, k) \in Version \cup {Absent}
<1>1. CASE \E row \in rs : row.event.subject = k
  <2>1. (CHOOSE row \in rs : row.event.subject = k) \in rs
    BY <1>1
  <2> QED
    BY <1>1, <2>1 DEF Upserted, OutboxRow, EventId
<1>2. CASE ~\E row \in rs : row.event.subject = k
  BY <1>2 DEF Upserted
<1> QED
  BY <1>1, <1>2

LEMMA CommitPollType ==
  ASSUME StoreTypeOK, NEW rs \in SUBSET OutboxRow, NEW cursor \in Nat, NEW sequence \in Nat,
         CommitPoll(rs, cursor, sequence), UNCHANGED <<lease, epochCounter, parked>>
  PROVE  StoreTypeOK'
<1>1. items' \in [Identity -> Version \cup {Absent}]
  BY UpsertedType DEF CommitPoll, StoreTypeOK
<1>2. outbox' \subseteq OutboxRow
  BY DEF CommitPoll, Put, StoreTypeOK
<1>3. log' \subseteq LoggedEvent
  BY DEF CommitPoll, Logged, StoreTypeOK, LoggedEvent, OutboxRow
<1>4. state' \in PollerState
  BY DEF CommitPoll, StoreTypeOK, PollerState
<1> QED
  BY <1>1, <1>2, <1>3, <1>4 DEF StoreTypeOK

(* The page loop: fetch, diff, commit.                                     *)
LEMMA CycleType ==
  ASSUME TypeInv, NEW r \in Run,
         Fetch(r) \/ ProcessPage(r) \/ Commit(r) \/ CommitAnswerLost(r)
  PROVE  TypeInv'
<1> USE TypeParts, TypePartsNext
<1>0. /\ mem[r].cursor \in Nat /\ mem[r].sequence \in Nat /\ batch[r] \in SUBSET OutboxRow
      /\ page[r].to \in Nat /\ page[r].to <= Len(feed) /\ page[r].count \in Nat
      /\ Len(feed) \in Nat
  BY DEF RunTypeOK
<1>1. CASE Fetch(r)
  <2>1. PageEnd(r) \in Nat /\ PageEnd(r) <= Len(feed)
    BY <1>0, RunnerAssumption DEF PageEnd
  <2>2. /\ page' \in [Run -> [to : Nat, more : BOOLEAN, count : Nat]]
        /\ \A x \in Run : page'[x].to <= Len(feed)
    BY <1>0, <1>1, <2>1 DEF Fetch, RunTypeOK
  <2>3. pc' \in [Run -> PC]
    BY <1>1 DEF Fetch, GoTo, PC, WorkTypeOK
  <2>4. UNCHANGED <<storeVars, consumerVars, epoch, drainVars, feed, phase, mem, batch,
                    operatorVars, mishaps>>
    BY <1>1 DEF Fetch
  <2>5. WorkTypeOK'
    BY <2>3, <2>4
    DEF WorkTypeOK, StoreTypeOK, DrainTypeOK, storeVars, drainVars, consumerVars
  <2>6. RunTypeOK'
    BY <2>2, <2>4 DEF RunTypeOK, operatorVars
  <2> QED
    BY <2>5, <2>6
<1>2. CASE ProcessPage(r)
  <2>1. batch' \in [Run -> SUBSET OutboxRow]
    BY <1>2, EventRowType DEF ProcessPage, RunTypeOK
  <2>2. Cardinality(Changed(r)) \in Nat
    <3>1. Changed(r) \subseteq Identity
      BY DEF Changed
    <3> QED
      BY <3>1, StoreAssumption, FS_Subset, FS_CardinalityType
  <2>3. mem' \in [Run -> [cursor : Nat, sequence : Nat]]
    <3>1. mem[r] \in [cursor : Nat, sequence : Nat]
      BY DEF RunTypeOK
    <3> DEFINE next == [mem[r] EXCEPT !.sequence = mem[r].sequence + Cardinality(Changed(r))]
    <3>2. next \in [cursor : Nat, sequence : Nat]
      BY <2>2, <3>1
    <3>3. mem' = [mem EXCEPT ![r] = next]
      BY <1>2 DEF ProcessPage
    <3> HIDE DEF next
    <3> QED
      BY <3>2, <3>3 DEF RunTypeOK
  <2>4. pc' \in [Run -> PC]
    BY <1>2 DEF ProcessPage, GoTo, PC, WorkTypeOK
  <2>5. UNCHANGED <<storeVars, consumerVars, epoch, drainVars, feed, phase, page,
                    operatorVars, mishaps>>
    BY <1>2 DEF ProcessPage
  <2>6. WorkTypeOK'
    BY <2>4, <2>5
    DEF WorkTypeOK, StoreTypeOK, DrainTypeOK, storeVars, drainVars, consumerVars
  <2>7. RunTypeOK'
    BY <2>1, <2>3, <2>5 DEF RunTypeOK, operatorVars
  <2> QED
    BY <2>6, <2>7
<1>3. CASE Commit(r) /\ Fenced(r)
  <2>1. StoreTypeOK'
    BY <1>0, <1>3, CommitPollType DEF Commit, WorkTypeOK
  <2>2. pc' \in [Run -> PC]
    BY <1>3 DEF Commit, GoTo, PC, WorkTypeOK
  <2>3. /\ rows' \in [Run -> SUBSET OutboxRow]
        /\ blocked' \in [Run -> SUBSET Identity]
        /\ progress' \in [Run -> BOOLEAN]
        /\ window' \in [Run -> Nat]
    <3>1. StartDrain(r) \/ UNCHANGED <<rows, blocked, progress, window>>
      BY <1>3 DEF Commit
    <3>2. CASE StartDrain(r)
      BY <3>2, DispatcherAssumption DEF StartDrain, WorkTypeOK, DrainTypeOK
    <3> QED
      BY <3>1, <3>2 DEF WorkTypeOK, DrainTypeOK
  <2>4. mem' \in [Run -> [cursor : Nat, sequence : Nat]]
    <3>1. mem[r] \in [cursor : Nat, sequence : Nat]
      BY DEF RunTypeOK
    <3>2. [mem[r] EXCEPT !.cursor = page[r].to] \in [cursor : Nat, sequence : Nat]
      BY <1>0, <3>1
    <3>3. mem' = [mem EXCEPT ![r] = [mem[r] EXCEPT !.cursor = page[r].to]]
      BY <1>3 DEF Commit
    <3> QED
      BY <3>2, <3>3 DEF RunTypeOK
  <2>5. phase' \in [Run -> {"pre", "cycle"}] /\ batch' \in [Run -> SUBSET OutboxRow]
    BY <1>3 DEF Commit, RunTypeOK
  <2>6. UNCHANGED <<consumerVars, epoch, work, stopped, workers, feed, page, operatorVars,
                    mishaps>>
    BY <1>3 DEF Commit
  <2>7. WorkTypeOK'
    BY <2>1, <2>2, <2>3, <2>6 DEF WorkTypeOK, DrainTypeOK, consumerVars
  <2>8. RunTypeOK'
    BY <2>4, <2>5, <2>6 DEF RunTypeOK, operatorVars
  <2> QED
    BY <2>7, <2>8
<1>4. CASE Commit(r) /\ ~Fenced(r)
  <2>1. pc' \in [Run -> PC]
    BY <1>4 DEF Commit, GoTo, PC, WorkTypeOK
  <2>2. UNCHANGED <<lease, epochCounter, state, items, outbox, parked, log, rows, blocked,
                    progress, window, consumerVars, epoch, work, stopped, workers, mem,
                    phase, batch, feed, page, operatorVars, mishaps>>
    BY <1>4 DEF Commit
  <2>3. WorkTypeOK'
    BY <2>1, <2>2 DEF WorkTypeOK, StoreTypeOK, DrainTypeOK, consumerVars
  <2>4. RunTypeOK'
    BY <2>2 DEF RunTypeOK, operatorVars
  <2> QED
    BY <2>3, <2>4
<1>5. CASE CommitAnswerLost(r)
  <2>1. StoreTypeOK'
    BY <1>0, <1>5, CommitPollType DEF CommitAnswerLost, WorkTypeOK
  <2>2. pc' \in [Run -> PC] /\ mishaps' \in Nat
    BY <1>5, MishapType DEF CommitAnswerLost, GoTo, PC, WorkTypeOK, RunTypeOK
  <2>3. UNCHANGED <<consumerVars, epoch, drainVars, feed, runVars, operatorVars>>
    BY <1>5 DEF CommitAnswerLost
  <2>4. WorkTypeOK'
    BY <2>1, <2>2, <2>3 DEF WorkTypeOK, DrainTypeOK, drainVars, consumerVars
  <2>5. RunTypeOK'
    BY <2>2, <2>3 DEF RunTypeOK, runVars, operatorVars
  <2> QED
    BY <2>4, <2>5
<1> QED
  BY <1>1, <1>2, <1>3, <1>4, <1>5

(* The API, time, the operators and the end of a process.                  *)
LEMMA ChangeType ==
  ASSUME TypeInv, NEW k \in Identity, NEW v \in Version, Change(k, v)
  PROVE  TypeInv'
<1> USE TypeParts, TypePartsNext
<1>1. /\ feed' \in Seq(FeedEntry)
      /\ Len(feed') = Len(feed) + 1
      /\ Len(feed) \in Nat
  BY DEF Change, FeedEntry, RunTypeOK
<1>2. UNCHANGED <<storeVars, pc, epoch, drainVars, consumerVars, runVars, operatorVars,
                  mishaps>>
  BY DEF Change
<1>3. WorkTypeOK'
  BY <1>2 DEF WorkTypeOK, StoreTypeOK, DrainTypeOK, storeVars, drainVars, consumerVars
<1>4. RunTypeOK'
  BY <1>1, <1>2 DEF RunTypeOK, runVars, operatorVars
<1> QED
  BY <1>3, <1>4

LEMMA LeaseStepsType ==
  ASSUME TypeInv, Expire \/ ExpireOrphan \/ Pause \/ Resume
  PROVE  TypeInv'
<1> USE TypeParts, TypePartsNext
<1>1. lease' \in [owner : Owner \cup {NoOwner}, epoch : Nat, live : BOOLEAN]
  BY DEF Expire, ExpireOrphan, Pause, Resume, WorkTypeOK, StoreTypeOK
<1>2. state' \in PollerState
  BY DEF Expire, ExpireOrphan, Pause, Resume, WorkTypeOK, StoreTypeOK, PollerState
<1>3. mishaps' \in Nat
  BY MishapType DEF Expire, ExpireOrphan, Pause, Resume, RunTypeOK
<1>4. UNCHANGED <<epochCounter, items, outbox, parked, log, pc, epoch, drainVars,
                  consumerVars, feed, runVars, operatorVars>>
  BY DEF Expire, ExpireOrphan, Pause, Resume
<1>5. WorkTypeOK'
  BY <1>1, <1>2, <1>4 DEF WorkTypeOK, StoreTypeOK, DrainTypeOK, drainVars, consumerVars
<1>6. RunTypeOK'
  BY <1>3, <1>4 DEF RunTypeOK, runVars, operatorVars
<1> QED
  BY <1>5, <1>6

LEMMA AbortType ==
  ASSUME TypeInv, NEW r \in Run, Beat(r) \/ StopEngine(r)
  PROVE  TypeInv'
<1> USE TypeParts, TypePartsNext
<1>1. lease' \in [owner : Owner \cup {NoOwner}, epoch : Nat, live : BOOLEAN]
  BY DEF Beat, StopEngine, RenewLease, storeVars, WorkTypeOK, StoreTypeOK
<1>2. AbortWorkers(r) \/ UNCHANGED <<stopped, work>>
  BY DEF Beat, StopEngine
<1>3. work' \in [Run -> [Identity -> WorkerState]]
  <2>1. work[r] \in [Identity -> WorkerState]
    BY DEF WorkTypeOK, DrainTypeOK
  <2>2. StopWorkers(work[r]) \in [Identity -> WorkerState]
    BY <2>1 DEF StopWorkers, WorkerState
  <2> QED
    BY <1>2, <2>2 DEF AbortWorkers, WorkTypeOK, DrainTypeOK
<1>4. stopped' \in [Run -> {"no", "aborted", "halted"}]
  BY <1>2 DEF AbortWorkers, WorkTypeOK, DrainTypeOK
<1>5. mishaps' \in Nat
  BY MishapType DEF Beat, StopEngine, RunTypeOK
<1>6. UNCHANGED <<epochCounter, state, items, outbox, parked, log, pc, epoch, rows, blocked,
                  progress, window, workers, consumerVars, feed, runVars, operatorVars>>
  BY DEF Beat, StopEngine, storeVars
<1>7. WorkTypeOK'
  BY <1>1, <1>3, <1>4, <1>6 DEF WorkTypeOK, StoreTypeOK, DrainTypeOK, consumerVars
<1>8. RunTypeOK'
  BY <1>5, <1>6 DEF RunTypeOK, runVars, operatorVars
<1> QED
  BY <1>7, <1>8

LEMMA CrashType ==
  ASSUME TypeInv, NEW o \in Owner, Crash(o)
  PROVE  TypeInv'
<1> USE TypeParts, TypePartsNext
<1>1. pc' \in [Run -> PC] /\ epoch' \in [Run -> Nat]
  BY DEF Crash, PC, WorkTypeOK, DrainTypeOK
<1>2. rows' \in [Run -> SUBSET OutboxRow] /\ blocked' \in [Run -> SUBSET Identity]
  BY DEF Crash, WorkTypeOK, DrainTypeOK
<1>3. work' \in [Run -> [Identity -> WorkerState]]
  BY DEF Crash, NoWork, WorkerState, WorkTypeOK, DrainTypeOK
<1>4. progress' \in [Run -> BOOLEAN]
  BY DEF Crash, WorkTypeOK, DrainTypeOK
<1>5. window' \in [Run -> Nat] /\ workers' \in [Run -> Int]
  BY DispatcherAssumption DEF Crash, WorkTypeOK, DrainTypeOK
<1>6. stopped' \in [Run -> {"no", "aborted", "halted"}]
  BY DEF Crash, WorkTypeOK, DrainTypeOK
<1>7. phase' \in [Run -> {"pre", "cycle"}] /\ batch' \in [Run -> SUBSET OutboxRow]
  BY DEF Crash, RunTypeOK
<1>8. mem' \in [Run -> [cursor : Nat, sequence : Nat]]
  BY DEF Crash, NoState, RunTypeOK
<1>9. /\ page' \in [Run -> [to : Nat, more : BOOLEAN, count : Nat]]
      /\ \A x \in Run : page'[x].to <= Len(feed)
  BY DEF Crash, NoPage, RunTypeOK
<1>10. mishaps' \in Nat
  BY MishapType DEF Crash, RunTypeOK
<1>11. UNCHANGED <<storeVars, consumerVars, feed, operatorVars>>
  BY DEF Crash
<1>12. WorkTypeOK'
  BY <1>1, <1>2, <1>3, <1>4, <1>5, <1>6, <1>11
  DEF WorkTypeOK, StoreTypeOK, DrainTypeOK, storeVars, consumerVars
<1>13. RunTypeOK'
  BY <1>7, <1>8, <1>9, <1>10, <1>11 DEF RunTypeOK, operatorVars
<1> QED
  BY <1>12, <1>13

LEMMA OperatorType ==
  ASSUME TypeInv, NEW row \in parked, OperatorRetries(row) \/ OperatorDiscards(row)
  PROVE  TypeInv'
<1> USE TypeParts, TypePartsNext
<1>0. row \in ParkedRow /\ Entry(row) \in LoggedEvent
  BY EntryType DEF WorkTypeOK, StoreTypeOK
<1>1. outbox' \subseteq OutboxRow /\ parked' \subseteq ParkedRow
  BY <1>0 DEF OperatorRetries, OperatorDiscards, RetryParked, DiscardParked, Put, WorkTypeOK,
              StoreTypeOK, ParkedRow, OutboxRow
<1>2. retried' \subseteq LoggedEvent /\ dropped' \subseteq LoggedEvent
  BY <1>0 DEF OperatorRetries, OperatorDiscards, RunTypeOK
<1>3. mishaps' \in Nat
  BY MishapType DEF OperatorRetries, OperatorDiscards, RunTypeOK
<1>4. UNCHANGED <<lease, epochCounter, state, items, log, pc, epoch, drainVars,
                  consumerVars, feed, runVars>>
  BY DEF OperatorRetries, OperatorDiscards
<1>5. WorkTypeOK'
  BY <1>1, <1>4 DEF WorkTypeOK, StoreTypeOK, DrainTypeOK, drainVars, consumerVars
<1>6. RunTypeOK'
  BY <1>2, <1>3, <1>4 DEF RunTypeOK, runVars
<1> QED
  BY <1>5, <1>6

LEMMA StutterType == TypeInv /\ UNCHANGED vars => TypeInv'
<1> SUFFICES ASSUME TypeInv, UNCHANGED vars PROVE TypeInv'
  OBVIOUS
<1> USE TypeParts, TypePartsNext
<1>1. WorkTypeOK'
  BY DEF WorkTypeOK, StoreTypeOK, DrainTypeOK, vars, storeVars, drainVars, consumerVars
<1>2. RunTypeOK'
  BY DEF RunTypeOK, vars, runVars, operatorVars
<1> QED
  BY <1>1, <1>2

LEMMA TypeNext == TypeInv /\ [Next]_vars => TypeInv'
<1> SUFFICES ASSUME TypeInv, [Next]_vars PROVE TypeInv'
  OBVIOUS
<1>1. ASSUME NEW r \in Run, Begin(r) \/ RunStep(r) \/ RunMishap(r) \/ Beat(r)
      PROVE  TypeInv'
  BY <1>1, DrainType, ControlType, RunEndsType, CycleType, AbortType DEF RunStep, RunMishap
<1>2. ASSUME NEW k \in Identity, NEW v \in Version, Change(k, v) PROVE TypeInv'
  BY <1>2, ChangeType
<1>3. CASE Expire \/ ExpireOrphan \/ Pause \/ Resume
  BY <1>3, LeaseStepsType
<1>4. ASSUME NEW o \in Owner, Crash(o) PROVE TypeInv'
  BY <1>4, CrashType
<1>5. ASSUME NEW row \in parked, OperatorRetries(row) \/ OperatorDiscards(row) PROVE TypeInv'
  BY <1>5, OperatorType
<1>6. CASE UNCHANGED vars
  BY <1>6, StutterType
<1> QED
  BY <1>1, <1>2, <1>3, <1>4, <1>5, <1>6 DEF Next

(* Type correctness: whatever crashes, races and store errors happen, the  *)
(* store's record and the locals of every run keep their types.            *)
THEOREM TypeCorrect == Spec => []TypeOK
<1>1. TypeInv => TypeOK
  BY DEF TypeInv
<1> QED
  BY TypeInit, TypeNext, <1>1, PTL DEF Spec

-----------------------------------------------------------------------------
(* Locality: a run changes its own locals only *)

SameLocals(x) ==
  /\ pc'[x] = pc[x] /\ work'[x] = work[x] /\ rows'[x] = rows[x]
  /\ epoch'[x] = epoch[x] /\ mem'[x] = mem[x] /\ phase'[x] = phase[x]

RunAction(r) == Begin(r) \/ RunStep(r) \/ RunMishap(r) \/ Beat(r)

LEMMA OthersUntouched ==
  ASSUME TypeInv, NEW r \in Run, RunAction(r), NEW x \in Run, x # r
  PROVE  SameLocals(x)
<1> USE TypeParts DEF SameLocals
<1>0. /\ DOMAIN pc = Run /\ DOMAIN work = Run /\ DOMAIN rows = Run /\ DOMAIN epoch = Run
      /\ DOMAIN mem = Run /\ DOMAIN phase = Run
  BY DEF WorkTypeOK, DrainTypeOK, RunTypeOK
<1> HIDE TypeParts
<1>1. CASE Begin(r)
  BY <1>0, <1>1 DEF Begin, GoTo, drainVars, runVars
<1>2. CASE ReadState(r)
  BY <1>0, <1>2 DEF ReadState, GoTo, StartDrain
<1>3. CASE Drain(r)
  <2>1. CASE LoadRows(r, AfterDrain(r))
    BY <1>0, <1>3, <2>1 DEF Drain, LoadRows, runVars
  <2>2. CASE FilterHeld(r, AfterDrain(r))
    BY <1>0, <1>3, <2>2 DEF Drain, FilterHeld, WidenOrExit, runVars
  <2>3. CASE EndRound(r, AfterDrain(r))
    BY <1>0, <1>3, <2>3 DEF Drain, EndRound, drainVars, runVars
  <2>4. ASSUME NEW row \in rows[r], Worker(r, row) PROVE SameLocals(x)
    <3>1. CASE DeliverOk(r, row)
      BY <1>0, <1>3, <3>1 DEF Drain, DeliverOk, Step, runVars
    <3>2. CASE Ack(r, row)
      BY <1>0, <1>3, <3>2 DEF Drain, Ack, AfterRow, Step, runVars
    <3>3. CASE Retry(r, row)
      BY <1>0, <1>3, <3>3 DEF Drain, Retry, LeaveGroup, Step, runVars
    <3>4. CASE Park(r, row)
      BY <1>0, <1>3, <3>4 DEF Drain, Park, LeaveGroup, AfterRow, Step, runVars
    <3>5. CASE LeaseLost(r, row)
      BY <1>0, <1>3, <3>5 DEF Drain, LeaseLost, WorkerThrows, Step, runVars
    <3> QED
      BY <2>4, <3>1, <3>2, <3>3, <3>4, <3>5 DEF Worker
  <2> QED
    BY <1>3, <2>1, <2>2, <2>3, <2>4 DEF Drain
<1>4. CASE DeliveryMishap(r)
  <2>1. PICK row \in rows[r] : RowMishap(r, row)
    BY <1>4 DEF DeliveryMishap, RowMishap
  <2>2. mem' = mem /\ phase' = phase
    BY <1>4 DEF DeliveryMishap, runVars
  <2> QED
    BY <1>0, <2>1, <2>2
    DEF RowMishap, DeliverThrows, NotDueYet, AckErrors, WorkerThrows, Step
<1>5. CASE ReleaseRun(r) \/ ReleaseFails(r)
  BY <1>0, <1>5 DEF ReleaseRun, ReleaseFails, Forget, GoTo
<1>6. CASE Fetch(r) \/ ProcessPage(r) \/ Commit(r) \/ CommitAnswerLost(r)
  BY <1>0, <1>6 DEF Fetch, ProcessPage, Commit, CommitAnswerLost, StartDrain, GoTo, drainVars,
                    runVars
<1>7. CASE \/ OpenCircuit(r) \/ LiveNotDue(r) \/ AbortCycle(r) \/ StepThrows(r)
           \/ Renew(r) \/ SaveState(r) \/ SaveFailure(r)
  BY <1>0, <1>7 DEF OpenCircuit, LiveNotDue, AbortCycle, StepThrows, Renew, SaveState,
                    SaveFailure, GoTo, drainVars, runVars
<1>8. CASE Beat(r) \/ StopEngine(r)
  BY <1>0, <1>8 DEF Beat, StopEngine, AbortWorkers, runVars
<1> QED
  BY <1>1, <1>2, <1>3, <1>4, <1>5, <1>6, <1>7, <1>8 DEF RunAction, RunStep, RunMishap

-----------------------------------------------------------------------------
(* Abandoned workers *)

LEMMA StepOf ==
  ASSUME TypeInv, NEW r \in Run, NEW row \in rows[r], NEW step, Step(r, row, step)
  PROVE  /\ row.event.subject \in Identity
         /\ work'[r][row.event.subject] = step
         /\ \A k \in Identity \ {row.event.subject} : work'[r][k] = work[r][k]
BY TypeParts DEF Step, WorkTypeOK, DrainTypeOK, OutboxRow, EventId

(* A row in a worker's hands shows that its run is not idle.               *)
LEMMA AtBusy ==
  ASSUME TypeInv, NEW r \in Run, Outlives(r), NEW row \in rows[r], NEW step,
         At(r, row, step), step # "none"
  PROVE  pc[r] \in {"work", "fail", "release", "idle"}
BY TypeParts DEF At, Outlives, Idle, WorkTypeOK, DrainTypeOK, OutboxRow, EventId

LEMMA OutlivesStep ==
  ASSUME TypeInv, NEW r \in Run, Outlives(r), RunAction(r)
  PROVE  Outlives(r)'
<1> USE TypeParts
<1>0. DOMAIN pc = Run /\ DOMAIN work = Run
  BY DEF WorkTypeOK, DrainTypeOK
<1>1. CASE Begin(r)
  BY <1>1 DEF Begin, Outlives, Idle, drainVars
<1>2. CASE ReadState(r)
  BY <1>2 DEF ReadState, Outlives, Idle
<1>3. CASE Drain(r)
  <2>1. CASE LoadRows(r, AfterDrain(r))
    BY <2>1 DEF LoadRows, Outlives, Idle
  <2>2. CASE FilterHeld(r, AfterDrain(r))
    BY <1>0, <2>2 DEF FilterHeld, WidenOrExit, Outlives, Idle
  <2>3. CASE EndRound(r, AfterDrain(r))
    BY <2>3 DEF EndRound, Outlives, Idle, drainVars
  <2>4. ASSUME NEW row \in rows[r], Worker(r, row) PROVE Outlives(r)'
    <3>1. pc[r] \in {"work", "fail", "release", "idle"}
      BY <2>4, AtBusy DEF Worker, DeliverOk, Ack, Retry, Park, LeaseLost, Takes
    <3>2. pc'[r] = pc[r] \/ pc'[r] = "release"
      BY <1>0, <2>4 DEF Worker, DeliverOk, Ack, Retry, Park, LeaseLost, WorkerThrows
    <3> QED
      BY <3>1, <3>2 DEF Outlives
  <2> QED
    BY <1>3, <2>1, <2>2, <2>3, <2>4 DEF Drain
<1>4. CASE DeliveryMishap(r)
  <2>1. PICK row \in rows[r] : RowMishap(r, row)
    BY <1>4 DEF DeliveryMishap, RowMishap
  <2>2. pc[r] \in {"work", "fail", "release", "idle"}
    BY <2>1, AtBusy DEF RowMishap, DeliverThrows, NotDueYet, AckErrors, Takes
  <2>3. pc'[r] \in {pc[r], "release", "fail"}
    BY <1>0, <2>1 DEF RowMishap, DeliverThrows, NotDueYet, AckErrors, WorkerThrows
  <2> QED
    BY <2>2, <2>3 DEF Outlives
<1>5. CASE ReleaseRun(r) \/ ReleaseFails(r)
  BY <1>0, <1>5 DEF ReleaseRun, ReleaseFails, GoTo, Outlives
<1>6. CASE Fetch(r) \/ ProcessPage(r) \/ Commit(r) \/ CommitAnswerLost(r)
  BY <1>6 DEF Fetch, ProcessPage, Commit, CommitAnswerLost, drainVars, Outlives, Idle
<1>7. CASE \/ OpenCircuit(r) \/ LiveNotDue(r) \/ AbortCycle(r) \/ StepThrows(r)
           \/ Renew(r) \/ SaveState(r) \/ SaveFailure(r)
  <2>1. work' = work
    BY <1>7 DEF OpenCircuit, LiveNotDue, AbortCycle, StepThrows, Renew, SaveState,
                SaveFailure, drainVars
  <2>2. pc[r] \in {"work", "fail", "release", "idle"} => pc'[r] = "release"
    BY <1>0, <1>7 DEF OpenCircuit, LiveNotDue, AbortCycle, StepThrows, Renew, SaveState,
                      SaveFailure, GoTo
  <2> QED
    BY <2>1, <2>2 DEF Outlives, Idle
<1>8. CASE Beat(r) \/ StopEngine(r)
  <2>1. pc' = pc
    BY <1>8 DEF Beat, StopEngine
  <2>2. \A k \in Identity : work[r][k] = "none" => work'[r][k] = "none"
    BY <1>0, <1>8 DEF Beat, StopEngine, AbortWorkers, StopWorkers
  <2> QED
    BY <2>1, <2>2 DEF Outlives, Idle
<1> QED
  BY <1>1, <1>2, <1>3, <1>4, <1>5, <1>6, <1>7, <1>8 DEF RunAction, RunStep, RunMishap

(* Every action of Next is an action of one run, the end of a process, or  *)
(* leaves the locals of all runs alone.                                    *)
Elsewhere ==
  \/ \E k \in Identity, v \in Version : Change(k, v)
  \/ Expire \/ ExpireOrphan \/ Pause \/ Resume
  \/ \E row \in parked : OperatorRetries(row) \/ OperatorDiscards(row)
  \/ UNCHANGED vars

LEMMA NextCases ==
  ASSUME [Next]_vars
  PROVE  (\E r \in Run : RunAction(r)) \/ (\E o \in Owner : Crash(o)) \/ Elsewhere
BY DEF Next, RunAction, Elsewhere

LEMMA ElsewhereLocals ==
  ASSUME Elsewhere
  PROVE  UNCHANGED <<pc, work, rows, epoch, mem, phase, handled, invoked>>
BY DEF Elsewhere, Change, Expire, ExpireOrphan, Pause, Resume, OperatorRetries,
       OperatorDiscards, vars, drainVars, runVars, consumerVars

LEMMA WorkersOutliveNext ==
  ASSUME TypeInv, WorkersOutlive, [Next]_vars
  PROVE  WorkersOutlive'
<1>1. ASSUME NEW r \in Run, RunAction(r) PROVE WorkersOutlive'
  <2>1. Outlives(r)'
    BY <1>1, OutlivesStep DEF WorkersOutlive
  <2>2. ASSUME NEW x \in Run, x # r PROVE Outlives(x)'
    BY <1>1, <2>2, OthersUntouched DEF SameLocals, WorkersOutlive, Outlives, Idle
  <2> QED
    BY <2>1, <2>2 DEF WorkersOutlive
<1>2. CASE Elsewhere
  BY <1>2, ElsewhereLocals DEF WorkersOutlive, Outlives, Idle
<1>3. ASSUME NEW o \in Owner, Crash(o) PROVE WorkersOutlive'
  BY <1>3 DEF Crash, NoWork, WorkersOutlive, Outlives, Idle
<1> QED
  BY <1>1, <1>2, <1>3, NextCases

-----------------------------------------------------------------------------
(* At-least-once delivery *)

LEMMA HandledGrows ==
  ASSUME [Next]_vars
  PROVE  handled \subseteq handled'
<1>1. ASSUME NEW r \in Run, RunAction(r) PROVE handled \subseteq handled'
  <2>1. CASE Drain(r)
    BY <2>1 DEF Drain, LoadRows, FilterHeld, EndRound, Worker, DeliverOk, Ack, Retry, Park,
                LeaseLost, WorkerThrows, consumerVars
  <2>2. CASE DeliveryMishap(r)
    BY <2>2 DEF DeliveryMishap, DeliverThrows, NotDueYet, AckErrors, WorkerThrows,
                consumerVars
  <2>3. CASE ~Drain(r) /\ ~DeliveryMishap(r)
    BY <1>1, <2>3 DEF RunAction, RunStep, RunMishap, Begin, ReadState, ReleaseRun,
       ReleaseFails, Fetch, ProcessPage, Commit, CommitAnswerLost, OpenCircuit, LiveNotDue,
       AbortCycle, StepThrows, Renew, SaveState, SaveFailure, Beat, StopEngine, consumerVars
  <2> QED
    BY <2>1, <2>2, <2>3
<1>2. ASSUME NEW o \in Owner, Crash(o) PROVE handled \subseteq handled'
  BY <1>2 DEF Crash, consumerVars
<1> QED
  BY <1>1, <1>2, NextCases, ElsewhereLocals

(* Two rows cannot both be the first of a group.                           *)
LEMMA FirstUnique ==
  ASSUME NEW rs \in SUBSET OutboxRow, NEW x, NEW y, IsFirst(rs, x), IsFirst(rs, y),
         x.event.subject = y.event.subject
  PROVE  x = y
<1>1. x \in rs /\ y \in rs /\ x.sequence \in Nat /\ y.sequence \in Nat
  BY DEF IsFirst, OutboxRow
<1>2. ASSUME x # y PROVE x.sequence < y.sequence /\ y.sequence < x.sequence
  BY <1>2 DEF IsFirst
<1> QED
  BY <1>1, <1>2

(* A worker's step keeps the property for its run: it marks a row as       *)
(* delivered only together with handling it, and the other groups keep     *)
(* their first rows.                                                       *)
LEMMA AckedStep ==
  ASSUME TypeInv, NEW r \in Run, AckedWereHandled(r), handled \subseteq handled',
         NEW row \in rows[r], IsFirst(rows[r], row), NEW step, Step(r, row, step),
         step = "delivered" => Entry(row) \in handled',
         rows' = rows \/ (rows' = [rows EXCEPT ![r] = @ \ {row}] /\ step # "delivered")
  PROVE  AckedWereHandled(r)'
<1> USE TypeParts
<1>1. rows[r] \in SUBSET OutboxRow /\ DOMAIN rows = Run
  BY DEF WorkTypeOK, DrainTypeOK
<1> SUFFICES ASSUME NEW x \in rows'[r], At(r, x, "delivered")'
             PROVE  Entry(x) \in handled'
  BY DEF AckedWereHandled, At, IsFirst, Entry
<1>2. x \in rows[r] /\ IsFirst(rows'[r], x) /\ work'[r][x.event.subject] = "delivered"
  BY <1>1 DEF At
<1>3. x.event.subject \in Identity
  BY <1>1, <1>2 DEF OutboxRow, EventId
<1>4. CASE x.event.subject = row.event.subject
  <2>1. step = "delivered"
    BY <1>2, <1>4, StepOf
  <2>2. rows'[r] = rows[r]
    BY <1>1, <2>1
  <2>3. x = row
    BY <1>1, <1>2, <1>4, <2>2, FirstUnique
  <2> QED
    BY <2>1, <2>3
<1>5. CASE x.event.subject # row.event.subject
  <2>1. work[r][x.event.subject] = "delivered"
    BY <1>2, <1>3, <1>5, StepOf
  <2>2. IsFirst(rows[r], x)
    BY <1>1, <1>2, <1>5 DEF IsFirst
  <2> QED
    BY <1>2, <2>1, <2>2 DEF AckedWereHandled, At
<1> QED
  BY <1>4, <1>5

(* Workers that only stop, on an abort or on a throw, or are all idle.     *)
LEMMA AckedShrinks ==
  ASSUME NEW r \in Run, AckedWereHandled(r), handled \subseteq handled',
         rows'[r] = rows[r] \/ rows'[r] = {},
         \A k : work'[r][k] = "delivered" => work[r][k] = "delivered"
  PROVE  AckedWereHandled(r)'
BY DEF AckedWereHandled, At, IsFirst, Entry

LEMMA AckedRun ==
  ASSUME TypeInv, NEW r \in Run, Outlives(r), AckedWereHandled(r), RunAction(r),
         handled \subseteq handled'
  PROVE  AckedWereHandled(r)'
<1> USE TypeParts
<1>0. /\ DOMAIN rows = Run /\ DOMAIN work = Run /\ rows[r] \in SUBSET OutboxRow
      /\ \A row \in rows[r] : row.event.subject \in Identity
  BY DEF WorkTypeOK, DrainTypeOK, OutboxRow, EventId
<1>1. CASE Begin(r)
  BY <1>1, AckedShrinks DEF Begin, drainVars
<1>2. CASE ReadState(r)
  BY <1>0, <1>2, AckedShrinks DEF ReadState, StartDrain
<1>3. CASE LoadRows(r, AfterDrain(r))
  <2>1. Idle(r)'
    BY <1>3 DEF LoadRows, Outlives, Idle
  <2>2. LoadPending(window[r]) \in SUBSET OutboxRow
    BY DEF LoadPending, WorkTypeOK, StoreTypeOK
  <2>3. rows'[r] = rows[r] \/ rows'[r] = LoadPending(window[r])
    BY <1>0, <1>3 DEF LoadRows
  <2>4. rows'[r] \in SUBSET OutboxRow
    BY <1>0, <2>2, <2>3
  <2>5. \A row \in rows'[r] : row.event.subject \in Identity
    BY <2>4 DEF OutboxRow, EventId
  <2> QED
    BY <2>1, <2>5 DEF AckedWereHandled, At, Idle
<1>4. CASE FilterHeld(r, AfterDrain(r))
  <2>1. CASE WidenOrExit(r, AfterDrain(r))
    BY <2>1, AckedShrinks DEF WidenOrExit
  <2>2. CASE ~WidenOrExit(r, AfterDrain(r))
    <3>1. \A k \in Identity : work'[r][k] \in {"queued", "none"}
      BY <1>0, <1>4, <2>2 DEF FilterHeld
    <3>2. rows'[r] \subseteq rows[r]
      BY <1>0, <1>4, <2>2 DEF FilterHeld
    <3> QED
      BY <1>0, <3>1, <3>2 DEF AckedWereHandled, At
  <2> QED
    BY <2>1, <2>2
<1>5. CASE EndRound(r, AfterDrain(r))
  BY <1>5, AckedShrinks DEF EndRound, drainVars
<1>6. ASSUME NEW row \in rows[r], NEW target, WorkerThrows(r, row, target), 
             IsFirst(rows[r], row)
      PROVE  AckedWereHandled(r)'
  <2>1. CASE Step(r, row, "none")
    BY <1>6, <2>1, AckedStep DEF WorkerThrows
  <2>2. CASE work' = [work EXCEPT ![r] = NoWork]
    <3>1. \A k \in Identity : work'[r][k] = "none"
      BY <1>0, <2>2 DEF NoWork
    <3>2. rows' = rows
      BY <1>6 DEF WorkerThrows
    <3> QED
      BY <1>0, <3>1, <3>2 DEF AckedWereHandled, At
  <2> QED
    BY <1>6, <2>1, <2>2 DEF WorkerThrows
<1>7. ASSUME NEW row \in rows[r], Worker(r, row) PROVE AckedWereHandled(r)'
  <2>0. IsFirst(rows[r], row)
    BY <1>7 DEF Worker, DeliverOk, Ack, Retry, Park, LeaseLost, Takes, At
  <2>1. CASE DeliverOk(r, row)
    BY <2>0, <2>1, AckedStep DEF DeliverOk
  <2>2. CASE Ack(r, row)
    BY <2>0, <2>2, AckedStep DEF Ack, AfterRow
  <2>3. CASE Retry(r, row)
    BY <2>0, <2>3, AckedStep DEF Retry, LeaveGroup
  <2>4. CASE LeaseLost(r, row)
    BY <1>6, <2>0, <2>4 DEF LeaseLost
  <2>5. CASE Park(r, row)
    <3>1. CASE LeaveGroup(r, row) /\ rows' = rows
      BY <2>0, <3>1, AckedStep DEF LeaveGroup
    <3>2. CASE AfterRow(r, row)
      BY <2>0, <3>2, AckedStep DEF AfterRow
    <3>3. CASE /\ rows' = rows
               /\ work' = [work EXCEPT ![r] =
                             StopWorkers([@ EXCEPT ![row.event.subject] = "none"])]
      <4>1. \A k \in Identity : work'[r][k] = "delivered" => work[r][k] = "delivered"
        BY <1>0, <3>3 DEF StopWorkers, WorkTypeOK, DrainTypeOK
      <4> QED
        BY <1>0, <3>3, <4>1 DEF AckedWereHandled, At, IsFirst, Entry
    <3> QED
      BY <2>5, <3>1, <3>2, <3>3 DEF Park
  <2> QED
    BY <1>7, <2>1, <2>2, <2>3, <2>4, <2>5 DEF Worker
<1>8. CASE DeliveryMishap(r)
  <2>1. PICK row \in rows[r] : RowMishap(r, row)
    BY <1>8 DEF DeliveryMishap, RowMishap
  <2>2. IsFirst(rows[r], row)
    BY <2>1 DEF RowMishap, DeliverThrows, NotDueYet, AckErrors, Takes, At
  <2>3. CASE DeliverThrows(r, row) \/ NotDueYet(r, row) \/ AckErrors(r, row)
    BY <2>2, <2>3, AckedStep DEF DeliverThrows, NotDueYet, AckErrors
  <2> QED
    BY <1>6, <2>1, <2>2, <2>3 DEF RowMishap
<1>9. CASE ReleaseRun(r) \/ ReleaseFails(r)
  BY <1>0, <1>9, AckedShrinks DEF ReleaseRun, ReleaseFails, Forget
<1>10. CASE Fetch(r) \/ ProcessPage(r) \/ Commit(r) \/ CommitAnswerLost(r)
  BY <1>0, <1>10, AckedShrinks
  DEF Fetch, ProcessPage, Commit, CommitAnswerLost, StartDrain, drainVars
<1>11. CASE \/ OpenCircuit(r) \/ LiveNotDue(r) \/ AbortCycle(r) \/ StepThrows(r)
            \/ Renew(r) \/ SaveState(r) \/ SaveFailure(r)
  BY <1>11, AckedShrinks DEF OpenCircuit, LiveNotDue, AbortCycle, StepThrows, Renew,
                             SaveState, SaveFailure, drainVars
<1>12. CASE Beat(r) \/ StopEngine(r)
  <2>1. \A k \in Identity : work'[r][k] = "delivered" => work[r][k] = "delivered"
    BY <1>0, <1>12 DEF Beat, StopEngine, AbortWorkers, StopWorkers
  <2>2. rows' = rows
    BY <1>12 DEF Beat, StopEngine
  <2> QED
    BY <1>0, <2>1, <2>2 DEF AckedWereHandled, At, IsFirst, Entry
<1> QED
  BY <1>1, <1>2, <1>3, <1>4, <1>5, <1>7, <1>8, <1>9, <1>10, <1>11, <1>12
  DEF RunAction, RunStep, RunMishap, Drain

LEMMA DeliveredHandledNext ==
  ASSUME TypeInv, WorkersOutlive, DeliveredHandled, [Next]_vars
  PROVE  DeliveredHandled'
<1>0. handled \subseteq handled'
  BY HandledGrows
<1>1. ASSUME NEW r \in Run, RunAction(r) PROVE DeliveredHandled'
  <2>1. AckedWereHandled(r)'
    BY <1>0, <1>1, AckedRun DEF WorkersOutlive, DeliveredHandled
  <2>2. ASSUME NEW x \in Run, x # r PROVE AckedWereHandled(x)'
    BY <1>0, <1>1, <2>2, OthersUntouched, AckedShrinks DEF SameLocals, DeliveredHandled
  <2> QED
    BY <2>1, <2>2 DEF DeliveredHandled
<1>2. CASE Elsewhere
  BY <1>0, <1>2, ElsewhereLocals, AckedShrinks DEF DeliveredHandled
<1>3. ASSUME NEW o \in Owner, Crash(o) PROVE DeliveredHandled'
  <2> SUFFICES ASSUME NEW x \in Run PROVE AckedWereHandled(x)'
    BY DEF DeliveredHandled
  <2>1. \/ rows'[x] = {}
        \/ rows'[x] = rows[x] /\ work'[x] = work[x]
    BY <1>3 DEF Crash
  <2> QED
    BY <1>0, <2>1 DEF AckedWereHandled, At, IsFirst, Entry, DeliveredHandled
<1> QED
  BY <1>1, <1>2, <1>3, NextCases

-----------------------------------------------------------------------------
(* At least once *)

(* What a committed event owes, and what each kind of step does to it.     *)
Kept(e) ==
  \/ \E h \in handled \cup dropped : h.event = e
  \/ \E row \in outbox \cup parked : row.event = e

(* Steps that write neither the outbox, nor the parked rows, nor the log.  *)
LEMMA KeptUnchanged ==
  ASSUME NoEventLost, UNCHANGED <<outbox, parked, log, dropped>>, handled \subseteq handled'
  PROVE  NoEventLost'
BY DEF NoEventLost

(* A step that logs nothing and keeps what was kept.                       *)
LEMMA KeptStep ==
  ASSUME NoEventLost, log' = log,
         \A l \in log : Kept(l.event) => Kept(l.event)'
  PROVE  NoEventLost'
BY DEF NoEventLost, Kept

(* Writing rows by event id never removes an id.                           *)
LEMMA PutKeepsIds ==
  ASSUME NEW old, NEW new, NEW row \in old \cup new
  PROVE  \E x \in Put(old, new) : x.event = row.event
<1>1. CASE \E n \in new : n.event = row.event
  BY <1>1 DEF Put
<1>2. CASE ~\E n \in new : n.event = row.event
  BY <1>2 DEF Put
<1> QED
  BY <1>1, <1>2

LEMMA CommitKeeps ==
  ASSUME NoEventLost, NEW new, NEW cursor, NEW sequence, CommitPoll(new, cursor, sequence),
         parked' = parked, handled' = handled, dropped' = dropped
  PROVE  NoEventLost'
<1> SUFFICES ASSUME NEW l \in log' PROVE Kept(l.event)'
  BY DEF NoEventLost, Kept
<1>1. outbox' = Put(outbox, new) /\ log' = log \cup Logged(new)
  BY DEF CommitPoll
<1>2. ASSUME \E row \in outbox \cup new : row.event = l.event PROVE Kept(l.event)'
  <2>1. PICK row \in outbox \cup new : row.event = l.event
    BY <1>2
  <2>2. \E x \in Put(outbox, new) : x.event = row.event
    BY PutKeepsIds
  <2> QED
    BY <1>1, <2>1, <2>2 DEF Kept
<1>3. CASE l \in log
  BY <1>2, <1>3 DEF NoEventLost, Kept
<1>4. CASE l \in Logged(new)
  BY <1>2, <1>4 DEF Logged
<1> QED
  BY <1>1, <1>3, <1>4

LEMMA WorkerKeeps ==
  ASSUME TypeInv, NoEventLost, NEW r \in Run, AckedWereHandled(r), NEW row \in rows[r],
         Worker(r, row) \/ RowMishap(r, row), UNCHANGED <<dropped>>, handled \subseteq handled'
  PROVE  NoEventLost'
<1>1. ASSUME outbox' = Without(outbox, row.event), Entry(row) \in handled,
             UNCHANGED <<parked, log>>
      PROVE  NoEventLost'
  BY <1>1, KeptStep DEF Kept, Without, Entry
<1>2. CASE Ack(r, row)
  <2>1. Entry(row) \in handled
    BY <1>2 DEF Ack, AckedWereHandled
  <2> QED
    BY <1>1, <1>2, <2>1 DEF Ack, AckEvents
<1>3. CASE AckErrors(r, row)
  <2>1. Entry(row) \in handled
    BY <1>3 DEF AckErrors, AckedWereHandled
  <2>2. CASE outbox' = outbox
    BY <1>3, <2>2, KeptUnchanged DEF AckErrors
  <2> QED
    BY <1>1, <1>3, <2>1, <2>2 DEF AckErrors, AckEvents
<1>4. CASE Retry(r, row)
  <2>1. \A x \in outbox : \E y \in outbox' : y.event = x.event
    <3> SUFFICES ASSUME NEW x \in outbox PROVE \E y \in outbox' : y.event = x.event
      OBVIOUS
    <3>1. x \in OutboxRow
      BY TypeParts DEF WorkTypeOK, StoreTypeOK
    <3>2. (IF x.event = row.event THEN [x EXCEPT !.attempts = @ + 1] ELSE x) \in outbox'
      BY <1>4 DEF Retry, RecordAttempt
    <3>3. (IF x.event = row.event THEN [x EXCEPT !.attempts = @ + 1] ELSE x).event = x.event
      BY <3>1 DEF OutboxRow
    <3> QED
      BY <3>2, <3>3
  <2>2. UNCHANGED <<parked, log>>
    BY <1>4 DEF Retry
  <2> QED
    BY <2>1, <2>2, KeptStep DEF Kept
<1>5. CASE Park(r, row)
  <2> DEFINE p == [event |-> row.event, sequence |-> row.sequence, holdKey |-> HoldKey]
  <2>1. parked' = Put(parked, {p}) /\ outbox' = Without(outbox, row.event) /\ log' = log
    BY <1>5 DEF Park, ParkEvent
  <2>2. p.event = row.event
    OBVIOUS
  <2> HIDE DEF p
  <2>3. ASSUME NEW x \in outbox \cup parked
        PROVE  \E y \in outbox' \cup parked' : y.event = x.event
    <3>1. CASE x \in parked
      <4>0. x \in parked \cup {p}
        BY <3>1
      <4>1. \E y \in Put(parked, {p}) : y.event = x.event
        BY <4>0, PutKeepsIds
      <4> QED
        BY <2>1, <4>1
    <3>2. CASE x.event = row.event
      BY <2>1, <2>2, <3>2 DEF Put
    <3>3. CASE x \in outbox /\ x.event # row.event
      BY <2>1, <3>3 DEF Without
    <3> QED
      BY <3>1, <3>2, <3>3
  <2> QED
    BY <2>1, <2>3, KeptStep DEF Kept
<1>6. CASE \/ DeliverOk(r, row) \/ LeaseLost(r, row) \/ DeliverThrows(r, row)
           \/ NotDueYet(r, row) \/ \E target : WorkerThrows(r, row, target)
  BY <1>6, KeptUnchanged
  DEF DeliverOk, LeaseLost, DeliverThrows, NotDueYet, WorkerThrows, storeVars
<1> QED
  BY <1>2, <1>3, <1>4, <1>5, <1>6 DEF Worker, RowMishap

LEMMA NoEventLostNext ==
  ASSUME TypeInv, DeliveredHandled, NoEventLost, [Next]_vars
  PROVE  NoEventLost'
<1>0. handled \subseteq handled'
  BY HandledGrows
<1>1. ASSUME NEW r \in Run, RunAction(r) PROVE NoEventLost'
  <2>1. CASE Begin(r) \/ ReadState(r) \/ OpenCircuit(r) \/ AbortCycle(r) \/ Fetch(r)
    BY <1>0, <2>1, KeptUnchanged
    DEF Begin, ReadState, OpenCircuit, AbortCycle, Fetch, storeVars, operatorVars
  <2>2. CASE ProcessPage(r) \/ Renew(r) \/ SaveState(r) \/ SaveFailure(r) \/ ReleaseRun(r)
    BY <1>0, <2>2, KeptUnchanged
    DEF ProcessPage, Renew, SaveState, SaveFailure, ReleaseRun, storeVars, operatorVars
  <2>3. CASE \/ LiveNotDue(r) \/ StepThrows(r) \/ ReleaseFails(r) \/ StopEngine(r)
             \/ Beat(r)
    BY <1>0, <2>3, KeptUnchanged
    DEF LiveNotDue, StepThrows, ReleaseFails, StopEngine, Beat, storeVars, operatorVars
  <2>4. CASE Commit(r)
    <3>1. CASE Fenced(r)
      BY <2>4, <3>1, CommitKeeps DEF Commit, consumerVars, operatorVars
    <3>2. CASE ~Fenced(r)
      BY <1>0, <2>4, <3>2, KeptUnchanged DEF Commit, operatorVars
    <3> QED
      BY <3>1, <3>2
  <2>5. CASE CommitAnswerLost(r)
    BY <2>5, CommitKeeps DEF CommitAnswerLost, consumerVars, operatorVars
  <2>6. CASE Drain(r)
    <3>1. CASE \E row \in rows[r] : Worker(r, row)
      BY <1>0, <2>6, <3>1, WorkerKeeps DEF Drain, DeliveredHandled, operatorVars
    <3>2. CASE \/ LoadRows(r, AfterDrain(r)) \/ FilterHeld(r, AfterDrain(r))
               \/ EndRound(r, AfterDrain(r))
      BY <1>0, <2>6, <3>2, KeptUnchanged
      DEF Drain, LoadRows, FilterHeld, EndRound, storeVars, operatorVars
    <3> QED
      BY <2>6, <3>1, <3>2 DEF Drain
  <2>7. CASE DeliveryMishap(r)
    <3>1. PICK row \in rows[r] : RowMishap(r, row)
      BY <2>7 DEF DeliveryMishap, RowMishap
    <3> QED
      BY <1>0, <2>7, <3>1, WorkerKeeps DEF DeliveryMishap, DeliveredHandled, operatorVars
  <2> QED
    BY <1>1, <2>1, <2>2, <2>3, <2>4, <2>5, <2>6, <2>7 DEF RunAction, RunStep, RunMishap
<1>2. ASSUME NEW o \in Owner, Crash(o) PROVE NoEventLost'
  BY <1>0, <1>2, KeptUnchanged DEF Crash, storeVars, operatorVars
<1>3. ASSUME NEW row \in parked, OperatorRetries(row) PROVE NoEventLost'
  <2> DEFINE back == [event |-> row.event, sequence |-> row.sequence, attempts |-> 0]
  <2>1. /\ outbox' = Put(outbox, {back}) /\ parked' = parked \ {row}
        /\ log' = log /\ handled' = handled /\ dropped' = dropped
    BY <1>3 DEF OperatorRetries, RetryParked, consumerVars
  <2>2. back.event = row.event
    OBVIOUS
  <2> HIDE DEF back
  <2>3. ASSUME NEW x \in outbox \cup parked
        PROVE  \E y \in outbox' \cup parked' : y.event = x.event
    <3>1. CASE x \in outbox /\ x.event # row.event
      BY <2>1, <2>2, <3>1 DEF Put
    <3>2. CASE x.event = row.event
      BY <2>1, <2>2, <3>2 DEF Put
    <3>3. CASE x \in parked /\ x.event # row.event
      BY <2>1, <3>3
    <3> QED
      BY <3>1, <3>2, <3>3
  <2> QED
    BY <2>1, <2>3, KeptStep DEF Kept
<1>4. ASSUME NEW row \in parked, OperatorDiscards(row) PROVE NoEventLost'
  <2>1. /\ parked' = parked \ {row} /\ dropped' = dropped \cup {Entry(row)}
        /\ log' = log /\ handled' = handled /\ outbox' = outbox
    BY <1>4 DEF OperatorDiscards, DiscardParked, consumerVars
  <2>2. Entry(row).event = row.event
    BY DEF Entry
  <2>3. ASSUME NEW l \in log, Kept(l.event) PROVE Kept(l.event)'
    BY <2>1, <2>2, <2>3 DEF Kept
  <2> QED
    BY <2>1, <2>3, KeptStep
<1>5. CASE \/ \E k \in Identity, v \in Version : Change(k, v)
           \/ Expire \/ ExpireOrphan \/ Pause \/ Resume \/ UNCHANGED vars
  BY <1>0, <1>5, KeptUnchanged
  DEF Change, Expire, ExpireOrphan, Pause, Resume, vars, storeVars, operatorVars
<1> QED
  BY <1>1, <1>2, <1>3, <1>4, <1>5, NextCases DEF Elsewhere

(* G1, at-least-once, for any number of instances, items, versions and     *)
(* rows: whatever crashes, lost leases, failed acks, abandoned workers and *)
(* operator calls interleave, a committed event is handled, pending,       *)
(* parked or discarded. The invariant adds that a worker about to ack a    *)
(* row has seen its handler return.                                        *)
THEOREM AtLeastOnce == Spec => []NoEventLost
<1> DEFINE Inv == TypeInv /\ WorkersOutlive /\ DeliveredHandled /\ NoEventLost
<1>1. Init => Inv
  <2>1. Init => WorkersOutlive
    BY DEF Init, DrainInit, NoWork, WorkersOutlive, Outlives, Idle
  <2>2. Init => DeliveredHandled
    BY DEF Init, DrainInit, DeliveredHandled, AckedWereHandled
  <2>3. Init => NoEventLost
    BY DEF Init, StoreInit, NoEventLost
  <2> QED
    BY <2>1, <2>2, <2>3, TypeInit
<1>2. Inv /\ [Next]_vars => Inv'
  BY TypeNext, WorkersOutliveNext, DeliveredHandledNext, NoEventLostNext
<1>3. Inv => NoEventLost
  OBVIOUS
<1> QED
  BY <1>1, <1>2, <1>3, PTL DEF Spec

-----------------------------------------------------------------------------
(* Fencing and the atomic commit: however leases expire and change hands,  *)
(* at most one run passes the fence, it works from the state as stored,    *)
(* and what it commits moves cursor, snapshot, log and sequence together.  *)

(* What SingleFreshWriter says of one run's copy of the state.             *)
Fresh(r) ==
  pc[r] # "idle" /\ Fenced(r) =>
    /\ pc[r] \notin {"acquired", "release"} => mem[r].sequence >= state.sequence
    /\ pc[r] \notin {"acquired", "fail", "release"} => mem[r].cursor = state.cursor

FenceInv == EpochsDistinct /\ PhaseStarts /\ \A r \in Run : Fresh(r)

(* The types the arguments below rest on.                                  *)
LEMMA FenceTypes ==
  ASSUME TypeInv, NEW r \in Run
  PROVE  /\ epochCounter \in Nat /\ lease.epoch \in Nat /\ epoch[r] \in Nat
         /\ mem[r].sequence \in Nat /\ mem[r].cursor \in Nat
         /\ state.sequence \in Nat /\ state.cursor \in Nat
         /\ DOMAIN pc = Run /\ DOMAIN epoch = Run /\ DOMAIN mem = Run /\ DOMAIN phase = Run
         /\ OwnerOf[r] \in Owner
BY TypeParts, DispatcherAssumption
DEF WorkTypeOK, StoreTypeOK, DrainTypeOK, RunTypeOK, PollerState

(* Two runs that go on never pass the fence together.                      *)
LEMMA OneFenced ==
  ASSUME EpochsDistinct, NEW r \in Run, NEW x \in Run, pc[r] # "idle", pc[x] # "idle",
         Fenced(r), Fenced(x)
  PROVE  x = r
BY DEF EpochsDistinct, Fenced, Fence

(* A step that leaves epochs, the identity of the lease and the phase of a *)
(* run alone keeps the epochs distinct.                                    *)
LEMMA EpochsKept ==
  ASSUME TypeInv, EpochsDistinct, epochCounter' = epochCounter,
         lease'.epoch = lease.epoch \/ lease' = NoLease,
         \A r \in Run : /\ epoch'[r] = epoch[r] \/ (epoch'[r] = 0 /\ pc'[r] = "idle")
                        /\ pc'[r] # "idle" => pc[r] # "idle"
  PROVE  EpochsDistinct'
<1>1. lease'.epoch <= epochCounter'
  BY TypeParts DEF EpochsDistinct, NoLease, WorkTypeOK, StoreTypeOK
<1>2. ASSUME NEW r \in Run
      PROVE  /\ epoch'[r] <= epochCounter'
             /\ pc'[r] # "idle" => epoch'[r] # 0
             /\ \A other \in Run : epoch'[other] = epoch'[r] /\ epoch'[r] # 0 => other = r
  BY TypeParts DEF EpochsDistinct, WorkTypeOK, StoreTypeOK
<1> QED
  BY <1>1, <1>2 DEF EpochsDistinct

(* A step of r that is calm: it changes neither the stored state nor r's   *)
(* copy of it, and r neither starts nor comes back from failing.           *)
Calm(r) ==
  /\ UNCHANGED <<epochCounter, state>>
  /\ lease'.owner = lease.owner /\ lease'.epoch = lease.epoch
  /\ epoch'[r] = epoch[r] /\ mem'[r] = mem[r] /\ phase'[r] = phase[r]
  /\ \/ pc'[r] = pc[r]
     \/ pc[r] # "idle" /\ pc'[r] = "release"
     \/ /\ pc[r] \notin {"idle", "acquired", "fail", "release"}
        /\ pc'[r] \notin {"idle", "acquired"}

(* A step that changes neither the stored state nor the copy of its run    *)
(* keeps the fence.                                                        *)
LEMMA CalmStep ==
  ASSUME TypeInv, FenceInv, NEW r \in Run, Calm(r),
         \A x \in Run \ {r} : SameLocals(x)
  PROVE  FenceInv'
<1>1. EpochsDistinct'
  <2>1. ASSUME NEW x \in Run
        PROVE  /\ epoch'[x] = epoch[x] \/ (epoch'[x] = 0 /\ pc'[x] = "idle")
               /\ pc'[x] # "idle" => pc[x] # "idle"
    <3>1. CASE x = r
      BY <3>1 DEF Calm
    <3>2. CASE x # r
      BY <3>2 DEF SameLocals
    <3> QED
      BY <3>1, <3>2
  <2> QED
    BY <2>1, EpochsKept DEF FenceInv, Calm
<1>2. PhaseStarts'
  <2> SUFFICES ASSUME NEW x \in Run, pc'[x] \in {"idle", "acquired"} PROVE phase'[x] = "pre"
    BY DEF PhaseStarts
  <2>1. CASE x = r
    BY <2>1 DEF Calm, FenceInv, PhaseStarts
  <2>2. CASE x # r
    BY <2>2 DEF SameLocals, FenceInv, PhaseStarts
  <2> QED
    BY <2>1, <2>2
<1>3. ASSUME NEW x \in Run PROVE Fresh(x)'
  <2>1. CASE x = r
    BY <2>1 DEF Calm, FenceInv, Fresh, Fenced, Fence
  <2>2. CASE x # r
    BY <2>2 DEF SameLocals, Calm, FenceInv, Fresh, Fenced, Fence
  <2> QED
    BY <2>1, <2>2
<1> QED
  BY <1>1, <1>2, <1>3 DEF FenceInv

(* Which steps are calm.                                                   *)
LEMMA CalmSteps ==
  ASSUME TypeInv, FenceInv, NEW r \in Run,
         \/ Drain(r) \/ DeliveryMishap(r) \/ OpenCircuit(r) \/ AbortCycle(r) \/ Fetch(r)
         \/ Renew(r) \/ LiveNotDue(r) \/ StepThrows(r) \/ StopEngine(r) \/ Beat(r)
         \/ (Commit(r) /\ ~Fenced(r))
  PROVE  Calm(r)
<1>0. /\ DOMAIN pc = Run /\ DOMAIN epoch = Run /\ DOMAIN mem = Run /\ DOMAIN phase = Run
      /\ DOMAIN lease = {"owner", "epoch", "live"}
  BY FenceTypes, TypeParts DEF WorkTypeOK, StoreTypeOK
<1>1. CASE Drain(r)
  <2>0. UNCHANGED <<epochCounter, state, lease, epoch, mem, phase>>
    BY <1>1 DEF Drain, LoadRows, FilterHeld, EndRound, Worker, DeliverOk, Ack, Retry, Park,
                LeaseLost, WorkerThrows, storeVars, runVars
  <2>1. AfterDrain(r) \in {"openCircuit", "fetch", "renew"}
    BY DEF AfterDrain
  <2>2. CASE LoadRows(r, AfterDrain(r))
    BY <1>0, <2>0, <2>1, <2>2 DEF LoadRows, Calm
  <2>3. CASE FilterHeld(r, AfterDrain(r))
    BY <1>0, <2>0, <2>1, <2>3 DEF FilterHeld, WidenOrExit, Calm
  <2>4. CASE EndRound(r, AfterDrain(r))
    BY <1>0, <2>0, <2>1, <2>4 DEF EndRound, Calm
  <2>5. ASSUME NEW row \in rows[r], Worker(r, row) PROVE Calm(r)
    <3>1. CASE LeaseLost(r, row)
      BY <1>0, <2>0, <3>1 DEF LeaseLost, WorkerThrows, Calm
    <3>2. CASE ~LeaseLost(r, row)
      <4>1. pc' = pc
        BY <2>5, <3>2 DEF Worker, DeliverOk, Ack, Retry, Park
      <4> QED
        BY <2>0, <4>1 DEF Calm
    <3> QED
      BY <3>1, <3>2
  <2> QED
    BY <1>1, <2>2, <2>3, <2>4, <2>5 DEF Drain
<1>2. CASE DeliveryMishap(r)
  <2>0. UNCHANGED <<epochCounter, state, lease, epoch, mem, phase>>
    BY <1>2 DEF DeliveryMishap, DeliverThrows, NotDueYet, AckErrors, WorkerThrows, storeVars,
                runVars
  <2>1. PICK row \in rows[r] : RowMishap(r, row)
    BY <1>2 DEF DeliveryMishap, RowMishap
  <2>2. CASE \E target \in {"release", "fail"} : WorkerThrows(r, row, target)
    BY <1>0, <2>0, <2>2 DEF WorkerThrows, Calm
  <2>3. CASE DeliverThrows(r, row) \/ NotDueYet(r, row) \/ AckErrors(r, row)
    <3>1. pc' = pc
      BY <2>3 DEF DeliverThrows, NotDueYet, AckErrors
    <3> QED
      BY <2>0, <3>1 DEF Calm
  <2> QED
    BY <2>1, <2>2, <2>3 DEF RowMishap
<1>3. CASE OpenCircuit(r) \/ AbortCycle(r) \/ Fetch(r) \/ LiveNotDue(r) \/ StopEngine(r)
  BY <1>0, <1>3 DEF OpenCircuit, AbortCycle, Fetch, LiveNotDue, StopEngine, GoTo, storeVars,
                    runVars, Calm
<1>4. CASE Renew(r)
  BY <1>0, <1>4 DEF Renew, RenewLease, GoTo, runVars, Calm
<1>5. CASE Beat(r)
  BY <1>0, <1>5 DEF Beat, RenewLease, runVars, Calm
<1>6. CASE StepThrows(r)
  <2>1. UNCHANGED <<epochCounter, state, lease, epoch, mem, phase>>
    BY <1>6 DEF StepThrows, storeVars, runVars
  <2>2. pc[r] = "acquired" => phase[r] = "pre"
    BY DEF FenceInv, PhaseStarts
  <2> QED
    BY <1>0, <1>6, <2>1, <2>2 DEF StepThrows, GoTo, Calm
<1>7. CASE Commit(r) /\ ~Fenced(r)
  BY <1>0, <1>7 DEF Commit, GoTo, Calm
<1> QED
  BY <1>1, <1>2, <1>3, <1>4, <1>5, <1>6, <1>7

(* A step of the run that passes the fence: no other run passes it, so the *)
(* state it writes makes no copy stale that could still be written.        *)
LEMMA OthersFresh ==
  ASSUME TypeInv, FenceInv, NEW r \in Run, NEW x \in Run, x # r, SameLocals(x),
         lease' = lease, pc[r] # "idle", Fenced(r)
  PROVE  Fresh(x)'
<1>1. ~(pc[x] # "idle" /\ Fenced(x))
  BY OneFenced DEF FenceInv
<1> QED
  BY <1>1 DEF SameLocals, Fresh, Fenced, Fence

(* A step of r that keeps its epoch, the lease and the phase at the start. *)
LEMMA FencedStep ==
  ASSUME TypeInv, FenceInv, NEW r \in Run, \A x \in Run \ {r} : SameLocals(x),
         lease' = lease, epochCounter' = epochCounter, epoch'[r] = epoch[r],
         pc[r] # "idle", pc'[r] \notin {"idle", "acquired"},
         state' = state \/ Fenced(r), Fresh(r)'
  PROVE  FenceInv'
<1>1. EpochsDistinct'
  <2>1. ASSUME NEW x \in Run
        PROVE  /\ epoch'[x] = epoch[x]
               /\ pc'[x] # "idle" => pc[x] # "idle"
    BY DEF SameLocals
  <2> QED
    BY <2>1, EpochsKept DEF FenceInv
<1>2. PhaseStarts'
  BY DEF SameLocals, FenceInv, PhaseStarts
<1>3. ASSUME NEW x \in Run, x # r PROVE Fresh(x)'
  <2>1. SameLocals(x)
    BY <1>3
  <2>2. CASE state' = state
    BY <2>1, <2>2 DEF SameLocals, FenceInv, Fresh, Fenced, Fence
  <2>3. CASE Fenced(r)
    BY <1>3, <2>1, <2>3, OthersFresh
  <2> QED
    BY <2>2, <2>3
<1> QED
  BY <1>1, <1>2, <1>3 DEF FenceInv

(* The end of a run, by release or not: nobody passes the fence who did    *)
(* not before.                                                             *)
LEMMA EndStep ==
  ASSUME TypeInv, FenceInv, state' = state, epochCounter' = epochCounter,
         lease' = lease \/ lease' = NoLease,
         \A x \in Run : \/ SameLocals(x)
                        \/ /\ pc'[x] = "idle" /\ phase'[x] = "pre"
                           /\ epoch'[x] = epoch[x] \/ epoch'[x] = 0
  PROVE  FenceInv'
<1>1. EpochsDistinct'
  <2>1. ASSUME NEW x \in Run
        PROVE  /\ epoch'[x] = epoch[x] \/ (epoch'[x] = 0 /\ pc'[x] = "idle")
               /\ pc'[x] # "idle" => pc[x] # "idle"
    BY DEF SameLocals
  <2> QED
    BY <2>1, EpochsKept DEF FenceInv
<1>2. PhaseStarts'
  BY DEF SameLocals, FenceInv, PhaseStarts
<1>3. ASSUME NEW x \in Run PROVE Fresh(x)'
  <2>1. OwnerOf[x] \in Owner
    BY FenceTypes
  <2>2. CASE lease' = NoLease
    BY <2>1, <2>2, StoreAssumption DEF Fresh, Fenced, Fence, NoLease
  <2>3. CASE lease' = lease
    BY <2>3 DEF SameLocals, FenceInv, Fresh, Fenced, Fence
  <2> QED
    BY <2>2, <2>3
<1> QED
  BY <1>1, <1>2, <1>3 DEF FenceInv

(* A run that takes the lease gets an epoch no other run has.              *)
LEMMA BeginStep ==
  ASSUME TypeInv, FenceInv, NEW r \in Run, Begin(r), \A x \in Run \ {r} : SameLocals(x)
  PROVE  FenceInv'
<1>0. /\ epochCounter' = epochCounter + 1
      /\ lease' = [owner |-> OwnerOf[r], epoch |-> epochCounter + 1, live |-> TRUE]
      /\ epoch'[r] = epochCounter + 1
      /\ pc'[r] = "acquired" /\ pc[r] = "idle" /\ phase' = phase
  BY FenceTypes DEF Begin, AcquireLease, GoTo, runVars
<1>1. \A x \in Run : epoch[x] \in Nat /\ epochCounter \in Nat
  BY FenceTypes
<1>2. EpochsDistinct'
  <2>1. lease'.epoch <= epochCounter'
    BY <1>0, <1>1
  <2>2. ASSUME NEW x \in Run
        PROVE  /\ epoch'[x] <= epochCounter'
               /\ pc'[x] # "idle" => epoch'[x] # 0
               /\ \A other \in Run : epoch'[other] = epoch'[x] /\ epoch'[x] # 0 => other = x
    BY <1>0, <1>1 DEF SameLocals, FenceInv, EpochsDistinct
  <2> QED
    BY <2>1, <2>2 DEF EpochsDistinct
<1>3. PhaseStarts'
  BY <1>0 DEF SameLocals, FenceInv, PhaseStarts
<1>4. ASSUME NEW x \in Run PROVE Fresh(x)'
  <2>1. CASE x = r
    BY <1>0, <2>1 DEF Fresh
  <2>2. CASE x # r
    <3>1. epoch'[x] # lease'.epoch
      BY <1>0, <1>1, <2>2 DEF SameLocals, FenceInv, EpochsDistinct
    <3> QED
      BY <3>1 DEF Fresh, Fenced, Fence
  <2> QED
    BY <2>1, <2>2
<1> QED
  BY <1>2, <1>3, <1>4 DEF FenceInv

(* The steps that read the state, advance the copy or write it back.       *)
LEMMA WriterStep ==
  ASSUME TypeInv, FenceInv, NEW r \in Run, \A x \in Run \ {r} : SameLocals(x),
         \/ ReadState(r) \/ ProcessPage(r) \/ (Commit(r) /\ Fenced(r))
         \/ CommitAnswerLost(r) \/ SaveState(r) \/ SaveFailure(r)
  PROVE  FenceInv'
<1>0. /\ DOMAIN pc = Run /\ DOMAIN epoch = Run /\ DOMAIN mem = Run
      /\ mem[r] \in [cursor : Nat, sequence : Nat] /\ state \in PollerState
      /\ state.sequence \in Nat
  BY TypeParts, FenceTypes DEF WorkTypeOK, StoreTypeOK, RunTypeOK
<1>1. CASE ReadState(r)
  <2>1. mem'[r] = [cursor |-> state.cursor, sequence |-> state.sequence] /\ state' = state
    BY <1>0, <1>1 DEF ReadState, storeVars
  <2>2. Fresh(r)'
    BY <1>0, <2>1 DEF Fresh
  <2>3. pc'[r] \in {"load", "release"} /\ pc[r] = "acquired"
    BY <1>0, <1>1 DEF ReadState, GoTo
  <2>4. UNCHANGED <<lease, epochCounter, epoch>>
    BY <1>1 DEF ReadState, storeVars
  <2> QED
    BY <2>1, <2>2, <2>3, <2>4, FencedStep
<1>2. CASE ProcessPage(r)
  <2>1. /\ pc[r] = "process" /\ pc'[r] = "commit"
        /\ UNCHANGED <<lease, epochCounter, epoch, state>>
    BY <1>0, <1>2 DEF ProcessPage, GoTo, storeVars
  <2>2. Cardinality(Changed(r)) \in Nat
    <3>1. IsFiniteSet(Changed(r))
      BY StoreAssumption, FS_Subset DEF Changed
    <3> QED
      BY <3>1, FS_CardinalityType
  <2>3. mem'[r] = [mem[r] EXCEPT !.sequence = mem[r].sequence + Cardinality(Changed(r))]
    BY <1>0, <1>2 DEF ProcessPage
  <2>4. mem'[r].cursor = mem[r].cursor /\ mem'[r].sequence >= mem[r].sequence
    BY <1>0, <2>2, <2>3
  <2>5. mem'[r].sequence \in Nat /\ mem[r].sequence \in Nat
    BY <1>0, <2>2, <2>3
  <2>6. Fresh(r)'
    BY <1>0, <2>1, <2>4, <2>5 DEF FenceInv, Fresh, Fenced, Fence
  <2> QED
    BY <2>1, <2>6, FencedStep
<1>3. CASE Commit(r) /\ Fenced(r)
  <2>1. /\ pc[r] = "commit" /\ pc'[r] \in {"renew", "load"}
        /\ UNCHANGED <<lease, epochCounter, epoch>>
    BY <1>0, <1>3 DEF Commit, GoTo
  <2>2. state' = [state EXCEPT !.cursor = page[r].to, !.sequence = mem[r].sequence]
    BY <1>3 DEF Commit, CommitPoll
  <2>3. mem'[r] = [mem[r] EXCEPT !.cursor = page[r].to]
    BY <1>0, <1>3 DEF Commit
  <2>4. state'.cursor = mem'[r].cursor /\ mem'[r].sequence >= state'.sequence
    BY <1>0, <2>2, <2>3 DEF PollerState
  <2>5. Fresh(r)'
    BY <2>4 DEF Fresh
  <2> QED
    BY <1>3, <2>1, <2>5, FencedStep
<1>4. CASE CommitAnswerLost(r)
  <2>1. /\ pc[r] = "commit" /\ pc'[r] = "fail" /\ Fenced(r)
        /\ UNCHANGED <<lease, epochCounter, epoch, mem>>
    BY <1>0, <1>4 DEF CommitAnswerLost, GoTo, runVars
  <2>2. state' = [state EXCEPT !.cursor = page[r].to, !.sequence = mem[r].sequence]
    BY <1>4 DEF CommitAnswerLost, CommitPoll
  <2>3. mem'[r].sequence >= state'.sequence
    BY <1>0, <2>1, <2>2 DEF PollerState
  <2>4. Fresh(r)'
    BY <2>1, <2>3 DEF Fresh
  <2> QED
    BY <2>1, <2>4, FencedStep
<1>5. CASE SaveState(r) \/ SaveFailure(r)
  <2>1. /\ pc[r] \in {"save", "fail"} /\ pc'[r] = "release"
        /\ UNCHANGED <<lease, epochCounter, epoch>>
        /\ state' = state \/ Fenced(r)
    BY <1>0, <1>5 DEF SaveState, SaveFailure, GoTo
  <2>2. Fresh(r)'
    BY <2>1 DEF Fresh
  <2> QED
    BY <2>1, <2>2, FencedStep
<1> QED
  BY <1>1, <1>2, <1>3, <1>4, <1>5

(* One step keeps the invariant of the fence.                              *)
LEMMA FenceInvNext ==
  ASSUME TypeInv, FenceInv, [Next]_vars
  PROVE  FenceInv'
<1>1. ASSUME NEW r \in Run, RunAction(r) PROVE FenceInv'
  <2>0. \A x \in Run \ {r} : SameLocals(x)
    BY <1>1, OthersUntouched
  <2>1. CASE Begin(r)
    BY <2>0, <2>1, BeginStep
  <2>2. CASE ReleaseRun(r) \/ ReleaseFails(r)
    <3>1. /\ state' = state /\ epochCounter' = epochCounter
          /\ lease' = lease \/ lease' = NoLease
          /\ pc'[r] = "idle" /\ phase'[r] = "pre"
          /\ epoch'[r] = epoch[r] \/ epoch'[r] = 0
      BY <2>2, FenceTypes
      DEF ReleaseRun, ReleaseFails, ReleaseLease, Forget, GoTo, storeVars
    <3> QED
      BY <2>0, <3>1, EndStep
  <2>3. CASE \/ ReadState(r) \/ ProcessPage(r) \/ (Commit(r) /\ Fenced(r))
             \/ CommitAnswerLost(r) \/ SaveState(r) \/ SaveFailure(r)
    BY <2>0, <2>3, WriterStep
  <2>4. CASE \/ Drain(r) \/ DeliveryMishap(r) \/ OpenCircuit(r) \/ AbortCycle(r) \/ Fetch(r)
             \/ Renew(r) \/ LiveNotDue(r) \/ StepThrows(r) \/ StopEngine(r) \/ Beat(r)
             \/ (Commit(r) /\ ~Fenced(r))
    BY <2>0, <2>4, CalmSteps, CalmStep
  <2> QED
    BY <1>1, <2>1, <2>2, <2>3, <2>4 DEF RunAction, RunStep, RunMishap
<1>2. ASSUME NEW o \in Owner, Crash(o) PROVE FenceInv'
  <2>1. state' = state /\ epochCounter' = epochCounter /\ lease' = lease
    BY <1>2 DEF Crash, storeVars
  <2>2. ASSUME NEW x \in Run
        PROVE  \/ SameLocals(x)
               \/ pc'[x] = "idle" /\ phase'[x] = "pre" /\ epoch'[x] = 0
    BY <1>2 DEF Crash, SameLocals
  <2> QED
    BY <2>1, <2>2, EndStep
<1>3. CASE Elsewhere
  <2>1. UNCHANGED <<pc, epoch, mem, phase>>
    BY <1>3, ElsewhereLocals
  <2>2. /\ epochCounter' = epochCounter
        /\ lease'.owner = lease.owner /\ lease'.epoch = lease.epoch
        /\ state'.cursor = state.cursor /\ state'.sequence = state.sequence
    <3>1. CASE Expire \/ ExpireOrphan
      BY <3>1, TypeParts DEF Expire, ExpireOrphan, WorkTypeOK, StoreTypeOK
    <3>2. CASE Pause \/ Resume
      BY <3>2, TypeParts DEF Pause, Resume, WorkTypeOK, StoreTypeOK, PollerState
    <3>3. CASE ~Expire /\ ~ExpireOrphan /\ ~Pause /\ ~Resume
      <4>1. UNCHANGED <<lease, epochCounter, state>>
        BY <1>3, <3>3 DEF Elsewhere, Change, OperatorRetries, OperatorDiscards, vars, storeVars
      <4> QED
        BY <4>1
    <3> QED
      BY <3>1, <3>2, <3>3
  <2>3. EpochsDistinct'
    BY <2>1, <2>2, EpochsKept DEF FenceInv
  <2>4. PhaseStarts'
    BY <2>1 DEF FenceInv, PhaseStarts
  <2>5. \A r \in Run : Fresh(r)'
    BY <2>1, <2>2 DEF FenceInv, Fresh, Fenced, Fence
  <2> QED
    BY <2>3, <2>4, <2>5 DEF FenceInv
<1> QED
  BY <1>1, <1>2, <1>3, NextCases

(* It holds at first.                                                      *)
LEMMA FenceInvInit == Init => FenceInv
BY StoreAssumption DEF Init, StoreInit, NoLease, FenceInv, EpochsDistinct, PhaseStarts, Fresh

(* G5, fencing, for any number of instances and overlapping runs: whatever *)
(* expires, crashes or is taken over, at most one run that goes on passes  *)
(* the fence, and its copy of cursor and sequence is not behind the store. *)
(* The invariant adds that epochs are handed out once and that a run that  *)
(* has not read the state is not in its cycle.                             *)
THEOREM Fencing == Spec => []SingleFreshWriter
<1>1. TypeInv /\ FenceInv /\ [Next]_vars => TypeInv' /\ FenceInv'
  BY TypeNext, FenceInvNext
<1>2. TypeInv /\ FenceInv => SingleFreshWriter
  BY OneFenced DEF FenceInv, Fresh, SingleFreshWriter
<1> QED
  BY <1>1, <1>2, TypeInit, FenceInvInit, PTL DEF Spec

-----------------------------------------------------------------------------
(* The feed and the rows of a page *)

(* What a commit relies on and establishes: the batch of the run that      *)
(* passes the fence is ready for the state as stored.                      *)
CommitInv == PagesSound /\ SequenceUnique /\ CursorSound

(* The entries of an item up to n, and the last of a set of positions.     *)
Positions(k, n) == {i \in 1..n : feed[i].subject = k}

LastOf(is) == CHOOSE i \in is : \A j \in is : j <= i

(* The last version of an item in a prefix of the feed, now and after a    *)
(* step.                                                                   *)
LEMMA LastVersionIs ==
  ASSUME NEW k, NEW n
  PROVE  /\ LastVersion(k, n) =
              IF Positions(k, n) = {} THEN Absent ELSE feed[LastOf(Positions(k, n))].version
         /\ LastVersion(k, n)' =
              IF Positions(k, n)' = {} THEN Absent
              ELSE feed'[LastOf(Positions(k, n)')].version
BY DEF LastVersion, Positions, LastOf

(* What was last read of an item up to n does not change when the feed     *)
(* grows.                                                                  *)
LEMMA LastVersionKept ==
  ASSUME feed \in Seq(FeedEntry), NEW e \in FeedEntry, feed' = Append(feed, e),
         NEW n \in Nat, n <= Len(feed), NEW k
  PROVE  LastVersion(k, n)' = LastVersion(k, n)
<1>1. \A i \in 1..n : feed'[i] = feed[i]
  OBVIOUS
<1>2. Positions(k, n)' = Positions(k, n)
  BY <1>1 DEF Positions
<1>3. CASE Positions(k, n) = {}
  BY <1>2, <1>3, LastVersionIs
<1>4. CASE Positions(k, n) # {}
  <2>1. Positions(k, n) \subseteq 1..n
    BY DEF Positions
  <2>2. \E i \in Positions(k, n) : \A j \in Positions(k, n) : j <= i
    BY <1>4, <2>1, LargestPosition
  <2>3. LastOf(Positions(k, n)) \in Positions(k, n)
    BY <2>2 DEF LastOf
  <2>4. feed'[LastOf(Positions(k, n))] = feed[LastOf(Positions(k, n))]
    BY <1>1, <2>1, <2>3
  <2> QED
    BY <1>2, <1>4, <2>4, LastVersionIs
<1> QED
  BY <1>3, <1>4

(* Nothing of an item between m and n: nothing new.                        *)
LEMMA LastVersionSkips ==
  ASSUME NEW m \in Nat, NEW n \in Nat, m <= n, NEW k,
         \A i \in (m + 1)..n : feed[i].subject # k
  PROVE  LastVersion(k, n) = LastVersion(k, m)
<1>1. Positions(k, n) = Positions(k, m)
  BY DEF Positions
<1> QED
  BY <1>1, LastVersionIs

(* The place of a changed item in its page.                                *)
LEMMA FirstInPage ==
  ASSUME TypeInv, NEW r \in Run, NEW k \in Changed(r)
  PROVE  FirstIn(r, k) \in Nat /\ feed[FirstIn(r, k)].subject = k
<1> DEFINE is == {i \in InPage(r) : feed[i].subject = k}
<1>1. mem[r].cursor \in Nat /\ page[r].to \in Nat
  BY TypeParts DEF RunTypeOK
<1>2. is \subseteq Nat /\ InPage(r) \subseteq Nat
  BY <1>1 DEF InPage
<1>3. is # {}
  BY DEF Changed
<1>4. \E i \in is : \A j \in is : i <= j
  <2> HIDE DEF is
  <2> QED BY <1>2, <1>3, SmallestElement
<1>5. \E i \in InPage(r) :
        feed[i].subject = k /\ \A j \in InPage(r) : feed[j].subject = k => i <= j
  BY <1>4
<1>6. FirstIn(r, k) \in InPage(r) /\ feed[FirstIn(r, k)].subject = k
  BY <1>5 DEF FirstIn
<1> QED
  BY <1>2, <1>6

(* The items that come before k in the page.                               *)
Before(r, k) == {j \in Changed(r) : FirstIn(r, j) < FirstIn(r, k)}

(* The items a page changes are finitely many.                             *)
LEMMA ChangedFinite ==
  ASSUME NEW r \in Run
  PROVE  /\ IsFiniteSet(Changed(r)) /\ Cardinality(Changed(r)) \in Nat
         /\ \A S \in SUBSET Changed(r) : IsFiniteSet(S) /\ Cardinality(S) \in Nat
<1>1. Changed(r) \subseteq Identity
  BY DEF Changed
<1>2. ASSUME NEW S \in SUBSET Changed(r) PROVE IsFiniteSet(S) /\ Cardinality(S) \in Nat
  BY <1>1, StoreAssumption, FS_Subset, FS_CardinalityType
<1> QED
  BY <1>2

(* A proper subset of a finite set has fewer elements.                     *)
LEMMA FewerElements ==
  ASSUME NEW T, IsFiniteSet(T), NEW S \in SUBSET T, NEW x \in T, x \notin S
  PROVE  Cardinality(S) < Cardinality(T)
<1>1. Cardinality(S) <= Cardinality(T) /\ (Cardinality(S) = Cardinality(T) => S = T)
  BY FS_Subset
<1>2. Cardinality(S) \in Nat /\ Cardinality(T) \in Nat
  BY FS_Subset, FS_CardinalityType
<1> QED
  BY <1>1, <1>2

(* Each event of a page gets a number of its own, after the last one.      *)
LEMMA EventNumbers ==
  ASSUME TypeInv, NEW r \in Run, NEW k \in Changed(r)
  PROVE  /\ mem[r].sequence < EventRow(r, k).sequence
         /\ EventRow(r, k).sequence <= mem[r].sequence + Cardinality(Changed(r))
         /\ \A j \in Changed(r) :
              EventRow(r, j).sequence = EventRow(r, k).sequence => j = k
<1>0. /\ mem[r].sequence \in Nat
      /\ \A j \in Changed(r) : FirstIn(r, j) \in Nat /\ feed[FirstIn(r, j)].subject = j
  BY TypeParts, FirstInPage DEF RunTypeOK
<1>1. \A j \in Changed(r) : Before(r, j) \in SUBSET Changed(r)
  BY DEF Before
<1>2. \A j \in Changed(r) : IsFiniteSet(Before(r, j)) /\ Cardinality(Before(r, j)) \in Nat
  BY <1>1, ChangedFinite
<1>3. \A j \in Changed(r) : EventRow(r, j).sequence = mem[r].sequence + 1 + Cardinality(Before(r, j))
  BY DEF EventRow, Before
<1>4. Cardinality(Before(r, k)) < Cardinality(Changed(r))
  <2>1. k \notin Before(r, k)
    BY <1>0 DEF Before
  <2> QED
    BY <1>1, <2>1, ChangedFinite, FewerElements
<1>5. ASSUME NEW i \in Changed(r), NEW j \in Changed(r), FirstIn(r, i) < FirstIn(r, j)
      PROVE  Cardinality(Before(r, i)) < Cardinality(Before(r, j))
  <2>1. Before(r, i) \in SUBSET Before(r, j)
    BY <1>0, <1>5 DEF Before
  <2>2. i \in Before(r, j) /\ i \notin Before(r, i)
    BY <1>0, <1>5 DEF Before
  <2> QED
    BY <1>2, <2>1, <2>2, FewerElements
<1>6. ASSUME NEW j \in Changed(r), j # k
      PROVE  Cardinality(Before(r, j)) # Cardinality(Before(r, k))
  <2>1. FirstIn(r, j) < FirstIn(r, k) \/ FirstIn(r, k) < FirstIn(r, j)
    BY <1>0, <1>6
  <2> QED
    BY <1>2, <1>5, <2>1
<1>7. Cardinality(Changed(r)) \in Nat
  BY ChangedFinite
<1> QED
  BY <1>0, <1>2, <1>3, <1>4, <1>6, <1>7

-----------------------------------------------------------------------------
(* Who passes the fence *)

(* The lease is taken by a run that begins, or stays, or is given up.      *)
LEMMA LeaseSteps ==
  ASSUME TypeInv, [Next]_vars
  PROVE  \/ \E r \in Run : Begin(r)
         \/ lease'.owner = lease.owner /\ lease'.epoch = lease.epoch
         \/ lease'.owner = NoOwner
<1>0. DOMAIN lease = {"owner", "epoch", "live"}
  BY TypeParts DEF WorkTypeOK, StoreTypeOK
<1>1. ASSUME NEW r \in Run, RunAction(r), ~Begin(r)
      PROVE  \/ lease'.owner = lease.owner /\ lease'.epoch = lease.epoch
             \/ lease'.owner = NoOwner
  <2>1. CASE Drain(r) \/ DeliveryMishap(r)
    BY <2>1 DEF Drain, LoadRows, FilterHeld, EndRound, Worker, DeliverOk, Ack, Retry, Park,
                LeaseLost, WorkerThrows, DeliveryMishap, DeliverThrows, NotDueYet, AckErrors,
                storeVars
  <2>2. CASE Renew(r) \/ Beat(r) \/ ReleaseRun(r)
    BY <1>0, <2>2 DEF Renew, Beat, RenewLease, ReleaseRun, ReleaseLease, NoLease
  <2>3. CASE \/ ReadState(r) \/ OpenCircuit(r) \/ AbortCycle(r) \/ Fetch(r)
             \/ ProcessPage(r) \/ Commit(r) \/ SaveState(r) \/ SaveFailure(r)
             \/ LiveNotDue(r) \/ StepThrows(r) \/ CommitAnswerLost(r) \/ ReleaseFails(r)
             \/ StopEngine(r)
    BY <2>3 DEF ReadState, OpenCircuit, AbortCycle, Fetch, ProcessPage, Commit, SaveState,
                SaveFailure, LiveNotDue, StepThrows, CommitAnswerLost, ReleaseFails, StopEngine,
                storeVars
  <2> QED
    BY <1>1, <2>1, <2>2, <2>3 DEF RunAction, RunStep, RunMishap
<1>2. ASSUME NEW o \in Owner, Crash(o) PROVE lease' = lease
  BY <1>2 DEF Crash, storeVars
<1>3. CASE Elsewhere
  BY <1>0, <1>3 DEF Elsewhere, Change, Expire, ExpireOrphan, Pause, Resume, OperatorRetries,
                    OperatorDiscards, vars, storeVars
<1> QED
  BY <1>1, <1>2, <1>3, NextCases

(* Only a run that begins comes to pass the fence.                         *)
LEMMA FenceOnlyLost ==
  ASSUME TypeInv, FenceInv, [Next]_vars, NEW x \in Run, Fenced(x)', epoch'[x] = epoch[x]
  PROVE  Fenced(x)
<1>1. ASSUME NEW r \in Run, Begin(r) PROVE FALSE
  <2>1. lease'.epoch = epochCounter + 1
    BY <1>1 DEF Begin, AcquireLease
  <2>2. epoch[x] <= epochCounter /\ epoch[x] \in Nat /\ epochCounter \in Nat
    BY FenceTypes DEF FenceInv, EpochsDistinct
  <2> QED
    BY <2>1, <2>2 DEF Fenced, Fence
<1>2. OwnerOf[x] # NoOwner
  BY FenceTypes, StoreAssumption
<1> QED
  BY <1>1, <1>2, LeaseSteps DEF Fenced, Fence

(* A run that goes on after the step has the epoch it had.                 *)
LEMMA EpochStays ==
  ASSUME TypeInv, [Next]_vars, NEW x \in Run, pc'[x] \notin {"idle", "acquired"}
  PROVE  epoch'[x] = epoch[x] /\ pc[x] # "idle"
<1>0. DOMAIN pc = Run
  BY FenceTypes
<1>1. ASSUME NEW r \in Run, RunAction(r) PROVE epoch'[x] = epoch[x] /\ pc[x] # "idle"
  <2>1. CASE x # r
    BY <1>1, <2>1, OthersUntouched DEF SameLocals
  <2>2. CASE x = r
    <3>1. CASE Begin(r) \/ ReleaseRun(r) \/ ReleaseFails(r)
      BY <1>0, <2>2, <3>1 DEF Begin, ReleaseRun, ReleaseFails, GoTo
    <3>2. CASE Drain(r) \/ DeliveryMishap(r)
      <4>1. epoch' = epoch
        BY <3>2 DEF Drain, LoadRows, FilterHeld, EndRound, Worker, DeliverOk, Ack, Retry, Park,
                    LeaseLost, WorkerThrows, DeliveryMishap, DeliverThrows, NotDueYet, AckErrors
      <4>2. pc[r] = "idle" => pc'[r] = "idle"
        BY <1>0, <3>2 DEF Drain, LoadRows, FilterHeld, EndRound, Worker, DeliverOk, Ack, Retry,
               Park, LeaseLost, WorkerThrows, DeliveryMishap, DeliverThrows, NotDueYet, AckErrors
      <4> QED
        BY <2>2, <4>1, <4>2
    <3>3. CASE \/ ReadState(r) \/ OpenCircuit(r) \/ AbortCycle(r) \/ Fetch(r)
               \/ ProcessPage(r) \/ Commit(r) \/ SaveState(r) \/ SaveFailure(r)
               \/ LiveNotDue(r) \/ StepThrows(r) \/ CommitAnswerLost(r) \/ StopEngine(r)
               \/ Renew(r) \/ Beat(r)
      BY <2>2, <3>3 DEF ReadState, OpenCircuit, AbortCycle, Fetch, ProcessPage, Commit,
         SaveState, SaveFailure, LiveNotDue, StepThrows, CommitAnswerLost, StopEngine, Renew,
         Beat
    <3> QED
      BY <1>1, <3>1, <3>2, <3>3 DEF RunAction, RunStep, RunMishap
  <2> QED
    BY <2>1, <2>2
<1>2. ASSUME NEW o \in Owner, Crash(o) PROVE epoch'[x] = epoch[x] /\ pc[x] # "idle"
  BY <1>2 DEF Crash
<1> QED
  BY <1>1, <1>2, NextCases, ElsewhereLocals

-----------------------------------------------------------------------------
(* The steps of the commit invariant *)

(* The types the arguments on commits rest on.                             *)
LEMMA CommitTypes ==
  ASSUME TypeInv, NEW r \in Run
  PROVE  /\ mem[r] \in [cursor : Nat, sequence : Nat] /\ page[r].to \in Nat
         /\ page[r].to <= Len(feed) /\ Len(feed) \in Nat
         /\ batch[r] \subseteq OutboxRow
         /\ state \in PollerState /\ log \subseteq LoggedEvent /\ feed \in Seq(FeedEntry)
         /\ items \in [Identity -> Version \cup {Absent}]
         /\ DOMAIN mem = Run /\ DOMAIN page = Run /\ DOMAIN batch = Run /\ DOMAIN pc = Run
BY TypeParts DEF WorkTypeOK, StoreTypeOK, RunTypeOK

(* A run's page and batch, too, are its own.                               *)
LEMMA OthersPages ==
  ASSUME TypeInv, NEW r \in Run, RunAction(r), NEW x \in Run, x # r
  PROVE  page'[x] = page[x] /\ batch'[x] = batch[x]
<1>0. DOMAIN page = Run /\ DOMAIN batch = Run
  BY CommitTypes
<1>1. CASE Drain(r) \/ DeliveryMishap(r)
  BY <1>1 DEF Drain, DeliveryMishap, runVars
<1>2. CASE ReadState(r) \/ Fetch(r) \/ ProcessPage(r) \/ Commit(r) \/ ReleaseRun(r) \/ ReleaseFails(r)
  BY <1>0, <1>2 DEF ReadState, Fetch, ProcessPage, Commit, ReleaseRun, ReleaseFails, Forget
<1>3. CASE \/ Begin(r) \/ OpenCircuit(r) \/ AbortCycle(r) \/ SaveState(r) \/ SaveFailure(r)
           \/ LiveNotDue(r) \/ StepThrows(r) \/ CommitAnswerLost(r) \/ StopEngine(r)
           \/ Renew(r) \/ Beat(r)
  BY <1>3 DEF Begin, OpenCircuit, AbortCycle, SaveState, SaveFailure, LiveNotDue, StepThrows,
              CommitAnswerLost, StopEngine, Renew, Beat, runVars
<1> QED
  BY <1>1, <1>2, <1>3 DEF RunAction, RunStep, RunMishap

(* What a batch was ready for stays as it is.                              *)
SamePage(x) ==
  mem'[x] = mem[x] /\ page'[x] = page[x] /\ batch'[x] = batch[x]

(* A batch computed from the stored rows stays right while they stay.      *)
LEMMA BatchStays ==
  ASSUME TypeInv, FenceInv, [Next]_vars, NEW x \in Run, BatchReady(x),
         pc'[x] = "commit" => pc[x] = "commit" /\ SamePage(x),
         items' = items, feed' = feed, state'.sequence = state.sequence
  PROVE  BatchReady(x)'
<1> SUFFICES ASSUME pc'[x] = "commit", Fenced(x)'
             PROVE  BatchReady(x)'
  BY DEF BatchReady
<1>1. epoch'[x] = epoch[x]
  BY EpochStays
<1>2. Fenced(x)
  BY <1>1, FenceOnlyLost
<1>3. ASSUME NEW k \in Identity
      PROVE  /\ LastVersion(k, page[x].to)' = LastVersion(k, page[x].to)
             /\ Upserted(batch[x], k)' = Upserted(batch[x], k)
  <2>1. page'[x] = page[x] /\ batch'[x] = batch[x]
    BY DEF SamePage
  <2>2. LastVersion(k, page[x].to)' = LastVersion(k, page[x].to)
    BY <2>1 DEF LastVersion
  <2>3. Upserted(batch[x], k)' = Upserted(batch[x], k)
    BY <2>1 DEF Upserted
  <2> QED
    BY <2>2, <2>3
<1> QED
  BY <1>2, <1>3 DEF BatchReady, SamePage

(* Steps that leave the store's contents, the feed and all pages alone, or *)
(* end a run.                                                              *)
LEMMA QuietStep ==
  ASSUME TypeInv, FenceInv, CommitInv, [Next]_vars,
         items' = items, log' = log, feed' = feed,
         state'.cursor = state.cursor, state'.sequence = state.sequence,
         \A x \in Run : /\ PageAhead(x)'
                        /\ pc'[x] = "commit" => pc[x] = "commit" /\ SamePage(x)
  PROVE  CommitInv'
<1>1. PagesSound'
  <2>1. ASSUME NEW x \in Run PROVE BatchReady(x)'
    BY BatchStays DEF CommitInv, PagesSound
  <2> QED
    BY <2>1 DEF PagesSound
<1>2. SequenceUnique'
  BY DEF CommitInv, SequenceUnique
<1>3. CursorSound'
  <2>1. ASSUME NEW k \in Identity
        PROVE  LastVersion(k, state.cursor)' = LastVersion(k, state.cursor)
    BY DEF LastVersion
  <2> QED
    BY <2>1 DEF CommitInv, CursorSound
<1> QED
  BY <1>1, <1>2, <1>3 DEF CommitInv

(* A step that keeps the pages of r in memory and does not bring it to a   *)
(* page.                                                                   *)
Steady(r) ==
  /\ UNCHANGED <<items, log, feed, state>>
  /\ SamePage(r)
  /\ pc'[r] \in {"process", "commit"} => pc'[r] = pc[r]

(* Which steps leave cursor, snapshot, log and sequence alone.             *)
LEMMA SteadySteps ==
  ASSUME TypeInv, NEW r \in Run,
         \/ Begin(r) \/ Drain(r) \/ DeliveryMishap(r) \/ OpenCircuit(r) \/ AbortCycle(r)
         \/ Renew(r) \/ LiveNotDue(r) \/ StepThrows(r) \/ StopEngine(r) \/ Beat(r)
         \/ (Commit(r) /\ ~Fenced(r))
  PROVE  Steady(r)
<1>0. DOMAIN pc = Run
  BY CommitTypes
<1>1. CASE Drain(r)
  <2>1. UNCHANGED <<items, log, feed, state, mem, page, batch>>
    BY <1>1 DEF Drain, LoadRows, FilterHeld, EndRound, Worker, DeliverOk, Ack, Retry, Park,
                LeaseLost, WorkerThrows, storeVars, runVars
  <2>2. AfterDrain(r) \in {"openCircuit", "fetch", "renew"}
    BY DEF AfterDrain
  <2>3. pc'[r] \in {"process", "commit"} => pc'[r] = pc[r]
    BY <1>0, <1>1, <2>2 DEF Drain, LoadRows, FilterHeld, WidenOrExit, EndRound, Worker,
       DeliverOk, Ack, Retry, Park, LeaseLost, WorkerThrows
  <2> QED
    BY <2>1, <2>3 DEF Steady, SamePage
<1>2. CASE DeliveryMishap(r)
  <2>1. UNCHANGED <<items, log, feed, state, mem, page, batch>>
    BY <1>2 DEF DeliveryMishap, DeliverThrows, NotDueYet, AckErrors, WorkerThrows, storeVars,
                runVars
  <2>2. pc'[r] \in {"process", "commit"} => pc'[r] = pc[r]
    BY <1>0, <1>2 DEF DeliveryMishap, DeliverThrows, NotDueYet, AckErrors, WorkerThrows
  <2> QED
    BY <2>1, <2>2 DEF Steady, SamePage
<1>3. CASE \/ Begin(r) \/ OpenCircuit(r) \/ AbortCycle(r) \/ Renew(r) \/ LiveNotDue(r)
           \/ StepThrows(r) \/ StopEngine(r) \/ Beat(r) \/ (Commit(r) /\ ~Fenced(r))
  <2>1. UNCHANGED <<items, log, feed, state, mem, page, batch>>
    BY <1>3 DEF Begin, OpenCircuit, AbortCycle, Renew, LiveNotDue, StepThrows, StopEngine, Beat,
                Commit, storeVars, runVars
  <2>2. pc'[r] \in {"process", "commit"} => pc'[r] = pc[r]
    BY <1>0, <1>3 DEF Begin, OpenCircuit, AbortCycle, Renew, LiveNotDue, StepThrows, StopEngine,
                      Beat, Commit, GoTo
  <2> QED
    BY <2>1, <2>2 DEF Steady, SamePage
<1> QED
  BY <1>1, <1>2, <1>3

(* processPage under the lease makes the batch ready.                      *)
LEMMA ProcessReady ==
  ASSUME TypeInv, FenceInv, CommitInv, NEW r \in Run, ProcessPage(r)
  PROVE  BatchReady(r)'
<1> SUFFICES ASSUME Fenced(r)' PROVE BatchReady(r)'
  BY DEF BatchReady
<1> USE CommitTypes
<1>0. /\ pc[r] = "process"
      /\ batch'[r] = {EventRow(r, k) : k \in Changed(r)}
      /\ mem'[r].sequence = mem[r].sequence + Cardinality(Changed(r))
      /\ UNCHANGED <<state, items, page, feed, lease, epoch>>
  BY DEF ProcessPage, storeVars
<1>1. Fenced(r)
  BY <1>0 DEF Fenced, Fence
<1>2. mem[r].sequence >= state.sequence /\ mem[r].cursor = state.cursor
  BY <1>0, <1>1 DEF FenceInv, Fresh
<1>3. mem[r].sequence \in Nat /\ state.sequence \in Nat /\ mem[r].cursor \in Nat
  BY DEF PollerState
<1>4. \A k \in Changed(r) : EventRow(r, k).event.subject = k
  BY DEF EventRow
<1>5. \A x \in batch'[r] : \E k \in Changed(r) : x = EventRow(r, k)
  BY <1>0
<1>6. \A x \in batch'[r] : state'.sequence < x.sequence /\ x.sequence <= mem'[r].sequence
  <2> SUFFICES ASSUME NEW k \in Changed(r)
               PROVE  /\ state.sequence < EventRow(r, k).sequence
                      /\ EventRow(r, k).sequence <= mem'[r].sequence
    BY <1>0, <1>5
  <2>1. EventRow(r, k).sequence \in Nat
    BY EventRowType DEF OutboxRow
  <2> QED
    BY <1>0, <1>2, <1>3, <2>1, EventNumbers
<1>7. \A x, y \in batch'[r] : x.sequence = y.sequence => x = y
  BY <1>5, EventNumbers
<1>8. \A x, y \in batch'[r] : x.event.subject = y.event.subject => x = y
  BY <1>4, <1>5
<1>9. ASSUME NEW k \in Identity PROVE Upserted(batch[r], k)' = LastVersion(k, page[r].to)'
  <2>0. LastVersion(k, page[r].to)' = LastVersion(k, page[r].to)
    BY <1>0 DEF LastVersion
  <2>1. CASE k \in Changed(r)
    <3>1. \E x \in batch'[r] : x.event.subject = k
      BY <1>0, <1>4, <2>1
    <3>2. PICK x \in batch'[r] : Upserted(batch[r], k)' = x.event.version /\ x.event.subject = k
      BY <3>1 DEF Upserted
    <3>3. x = EventRow(r, k)
      BY <1>4, <1>5, <3>2
    <3>4. x.event.version = LastVersion(k, page[r].to)
      BY <3>3 DEF EventRow
    <3> QED
      BY <2>0, <3>2, <3>4
  <2>2. CASE k \notin Changed(r)
    <3>1. ~\E x \in batch'[r] : x.event.subject = k
      BY <1>4, <1>5, <2>2
    <3>2. Upserted(batch[r], k)' = items[k]
      BY <1>0, <3>1 DEF Upserted
    <3>3. CASE \E i \in InPage(r) : feed[i].subject = k
      BY <2>0, <2>2, <3>2, <3>3 DEF Changed
    <3>4. CASE \A i \in InPage(r) : feed[i].subject # k
      <4>1. mem[r].cursor <= page[r].to
        BY <1>0 DEF CommitInv, PagesSound, PageAhead
      <4>2. LastVersion(k, page[r].to) = LastVersion(k, mem[r].cursor)
        BY <1>3, <3>4, <4>1, LastVersionSkips DEF InPage
      <4>3. items[k] = LastVersion(k, state.cursor)
        BY DEF CommitInv, CursorSound
      <4> QED
        BY <1>2, <2>0, <3>2, <4>2, <4>3
    <3> QED
      BY <3>3, <3>4
  <2> QED
    BY <2>1, <2>2
<1> QED
  BY <1>6, <1>7, <1>8, <1>9 DEF BatchReady

(* The transaction: numbers, snapshot and log move together.               *)
LEMMA CommitStep ==
  ASSUME TypeInv, FenceInv, CommitInv, NEW r \in Run, pc[r] = "commit", Fenced(r),
         CommitPoll(batch[r], page[r].to, mem[r].sequence), feed' = feed
  PROVE  SequenceUnique' /\ CursorSound'
<1> USE CommitTypes
<1>0. /\ state' = [state EXCEPT !.cursor = page[r].to, !.sequence = mem[r].sequence]
      /\ items' = [k \in Identity |-> Upserted(batch[r], k)]
      /\ log' = log \cup Logged(batch[r])
  BY DEF CommitPoll
<1>1. state'.cursor = page[r].to /\ state'.sequence = mem[r].sequence
  BY <1>0 DEF PollerState
<1>2. BatchReady(r)
  BY DEF CommitInv, PagesSound
<1>3. /\ \A x \in batch[r] : state.sequence < x.sequence /\ x.sequence <= mem[r].sequence
      /\ \A x, y \in batch[r] : x.sequence = y.sequence => x = y
      /\ \A x, y \in batch[r] : x.event.subject = y.event.subject => x = y
      /\ \A k \in Identity : Upserted(batch[r], k) = LastVersion(k, page[r].to)
  BY <1>2 DEF BatchReady
<1>4. mem[r].sequence >= state.sequence
  BY DEF FenceInv, Fresh
<1>5. /\ mem[r].sequence \in Nat /\ state.sequence \in Nat
      /\ \A l \in log : l.sequence \in Nat
      /\ \A x \in batch[r] : x.sequence \in Nat
  BY DEF PollerState, LoggedEvent, OutboxRow
<1>6. \A l \in Logged(batch[r]) :
        \E x \in batch[r] : l = [event |-> x.event, sequence |-> x.sequence]
  BY DEF Logged
<1>7. \A l \in log : l.sequence <= state.sequence
  BY DEF CommitInv, SequenceUnique
<1>8. SequenceUnique'
  <2>1. ASSUME NEW a \in log' PROVE a.sequence <= state'.sequence
    BY <1>0, <1>1, <1>3, <1>4, <1>5, <1>6, <1>7
  <2>2. ASSUME NEW a \in log', NEW b \in log', a.sequence = b.sequence PROVE a = b
    <3>1. CASE a \in log /\ b \in log
      BY <2>2, <3>1 DEF CommitInv, SequenceUnique
    <3>2. CASE a \in Logged(batch[r]) /\ b \in Logged(batch[r])
      <4>1. PICK x \in batch[r] : a = [event |-> x.event, sequence |-> x.sequence]
        BY <1>6, <3>2
      <4>2. PICK y \in batch[r] : b = [event |-> y.event, sequence |-> y.sequence]
        BY <1>6, <3>2
      <4>3. x.sequence = y.sequence
        BY <2>2, <4>1, <4>2
      <4>4. x = y
        BY <1>3, <4>3
      <4> QED
        BY <4>1, <4>2, <4>4
    <3>3. ASSUME NEW old \in log, NEW new \in Logged(batch[r]) PROVE old.sequence # new.sequence
      BY <1>3, <1>5, <1>6, <1>7
    <3> QED
      BY <1>0, <2>2, <3>1, <3>2, <3>3
  <2> QED
    BY <2>1, <2>2 DEF SequenceUnique
<1>9. CursorSound'
  <2>1. ASSUME NEW k \in Identity
        PROVE  LastVersion(k, state.cursor)' = LastVersion(k, page[r].to)
    BY <1>1 DEF LastVersion
  <2>2. ASSUME NEW k \in Identity PROVE items'[k] = LastVersion(k, page[r].to)
    BY <1>0, <1>3
  <2>3. ASSUME NEW k \in Identity, LastVersion(k, page[r].to) # Absent
        PROVE  \E l \in log' : l.event.subject = k /\ l.event.version = LastVersion(k, page[r].to)
    <3>0. Upserted(batch[r], k) = LastVersion(k, page[r].to)
      BY <1>3
    <3>1. CASE \E x \in batch[r] : x.event.subject = k
      <4>1. PICK x \in batch[r] : x.event.subject = k /\ Upserted(batch[r], k) = x.event.version
        BY <3>1 DEF Upserted
      <4>2. [event |-> x.event, sequence |-> x.sequence] \in log'
        BY <1>0 DEF Logged
      <4> QED
        BY <3>0, <4>1, <4>2
    <3>2. CASE ~\E x \in batch[r] : x.event.subject = k
      <4>1. items[k] = LastVersion(k, page[r].to)
        BY <3>0, <3>2 DEF Upserted
      <4>2. \E l \in log : l.event.subject = k /\ l.event.version = items[k]
        BY <2>3, <4>1 DEF CommitInv, CursorSound
      <4> QED
        BY <1>0, <4>1, <4>2
    <3> QED
      BY <3>1, <3>2
  <2>4. state'.cursor <= Len(feed')
    BY <1>1
  <2> QED
    BY <2>1, <2>2, <2>3, <2>4 DEF CursorSound
<1> QED
  BY <1>8, <1>9

(* A batch that stays ready while the run that passes the fence writes:    *)
(* the others are not about to pass it.                                    *)
LEMMA OthersReady ==
  ASSUME TypeInv, FenceInv, [Next]_vars, NEW r \in Run, pc[r] # "idle", Fenced(r),
         NEW x \in Run, x # r, SameLocals(x)
  PROVE  BatchReady(x)'
<1> SUFFICES ASSUME pc'[x] = "commit", Fenced(x)' PROVE FALSE
  BY DEF BatchReady
<1>1. epoch'[x] = epoch[x] /\ pc[x] # "idle"
  BY EpochStays
<1>2. Fenced(x)
  BY <1>1, FenceOnlyLost
<1> QED
  BY <1>1, <1>2, OneFenced DEF FenceInv

(* One step keeps the invariant of the commit.                             *)
LEMMA CommitInvNext ==
  ASSUME TypeInv, FenceInv, CommitInv, [Next]_vars
  PROVE  CommitInv'
<1> USE CommitTypes
<1>1. ASSUME NEW r \in Run, RunAction(r) PROVE CommitInv'
  <2>0. /\ \A x \in Run \ {r} : SameLocals(x) /\ SamePage(x)
        /\ feed' = feed
    <3>1. \A x \in Run \ {r} : SameLocals(x) /\ page'[x] = page[x] /\ batch'[x] = batch[x]
      BY <1>1, OthersUntouched, OthersPages
    <3>2. feed' = feed
      BY <1>1 DEF RunAction, RunStep, RunMishap, Begin, ReadState, Drain, OpenCircuit,
         ReleaseRun, AbortCycle, Fetch, ProcessPage, Commit, Renew, SaveState, SaveFailure,
         LiveNotDue, DeliveryMishap, StepThrows, CommitAnswerLost, ReleaseFails, StopEngine, Beat
    <3> QED
      BY <3>1, <3>2 DEF SameLocals, SamePage
  <2>1. ASSUME NEW x \in Run \ {r}
        PROVE  PageAhead(x)' /\ (pc'[x] = "commit" => pc[x] = "commit" /\ SamePage(x))
    BY <2>0 DEF SameLocals, SamePage, CommitInv, PagesSound, PageAhead
  <2>2. ASSUME UNCHANGED <<items, log, state>>, PageAhead(r)',
               pc'[r] = "commit" => pc[r] = "commit" /\ SamePage(r)
        PROVE  CommitInv'
    BY <2>0, <2>1, <2>2, QuietStep
  <2>3. CASE \/ Begin(r) \/ Drain(r) \/ DeliveryMishap(r) \/ OpenCircuit(r) \/ AbortCycle(r)
             \/ Renew(r) \/ LiveNotDue(r) \/ StepThrows(r) \/ StopEngine(r) \/ Beat(r)
             \/ (Commit(r) /\ ~Fenced(r))
    <3>1. Steady(r)
      BY <2>3, SteadySteps
    <3>2. PageAhead(r)'
      BY <3>1 DEF Steady, SamePage, CommitInv, PagesSound, PageAhead
    <3> QED
      BY <2>2, <3>1, <3>2 DEF Steady
  <2>4. CASE ReadState(r)
    <3>1. /\ UNCHANGED <<items, log, state>> /\ pc'[r] \in {"load", "release"}
          /\ mem'[r].cursor = state.cursor
      BY <2>4 DEF ReadState, GoTo, storeVars
    <3>2. PageAhead(r)'
      BY <2>0, <3>1 DEF PageAhead, CommitInv, CursorSound
    <3> QED
      BY <2>2, <3>1, <3>2
  <2>5. CASE Fetch(r)
    <3>1. /\ UNCHANGED <<items, log, state, mem>> /\ pc'[r] = "process"
          /\ page'[r].to = PageEnd(r)
      BY <2>5 DEF Fetch, GoTo, storeVars
    <3>2. mem[r].cursor <= PageEnd(r)
      BY RunnerAssumption DEF PageEnd, CommitInv, PagesSound, PageAhead
    <3>3. PageAhead(r)'
      BY <2>0, <3>1, <3>2 DEF PageAhead, CommitInv, PagesSound
    <3> QED
      BY <2>2, <3>1, <3>3
  <2>6. CASE ReleaseRun(r) \/ ReleaseFails(r)
    <3>1. UNCHANGED <<items, log, state>> /\ pc'[r] = "idle" /\ mem'[r] = NoState
      BY <2>6 DEF ReleaseRun, ReleaseFails, GoTo, Forget, storeVars
    <3>2. PageAhead(r)'
      BY <2>0, <3>1 DEF PageAhead, NoState
    <3> QED
      BY <2>2, <3>1, <3>2
  <2>7. CASE ProcessPage(r)
    <3>1. /\ UNCHANGED <<items, log, state, page>> /\ pc[r] = "process"
          /\ mem'[r].cursor = mem[r].cursor
      BY <2>7 DEF ProcessPage, storeVars
    <3>2. PageAhead(r)'
      BY <2>0, <3>1 DEF PageAhead, CommitInv, PagesSound
    <3>3. ASSUME NEW x \in Run PROVE BatchReady(x)'
      <4>1. CASE x = r
        BY <2>7, <4>1, ProcessReady
      <4>2. CASE x # r
        BY <2>0, <2>1, <3>1, <4>2, BatchStays DEF CommitInv, PagesSound
      <4> QED
        BY <4>1, <4>2
    <3>4. PagesSound'
      BY <2>1, <3>2, <3>3 DEF PagesSound
    <3>5. SequenceUnique'
      BY <3>1 DEF CommitInv, SequenceUnique
    <3>6. CursorSound'
      <4>1. ASSUME NEW k \in Identity
            PROVE  LastVersion(k, state.cursor)' = LastVersion(k, state.cursor)
        BY <2>0, <3>1 DEF LastVersion
      <4> QED
        BY <2>0, <3>1, <4>1 DEF CommitInv, CursorSound
    <3> QED
      BY <3>4, <3>5, <3>6 DEF CommitInv
  <2>8. CASE (Commit(r) /\ Fenced(r)) \/ CommitAnswerLost(r)
    <3>1. /\ pc[r] = "commit" /\ Fenced(r) /\ pc'[r] \in {"renew", "load", "fail"}
          /\ CommitPoll(batch[r], page[r].to, mem[r].sequence)
      BY <2>8 DEF Commit, CommitAnswerLost, GoTo
    <3>2. mem'[r] = mem[r] \/ mem'[r].cursor = page[r].to
      BY <2>8 DEF Commit, CommitAnswerLost, runVars
    <3>3. SequenceUnique' /\ CursorSound'
      BY <2>0, <3>1, CommitStep
    <3>4. PageAhead(r)'
      BY <2>0, <3>1, <3>2 DEF PageAhead, CommitInv, PagesSound
    <3>5. ASSUME NEW x \in Run PROVE BatchReady(x)'
      <4>1. CASE x = r
        BY <3>1, <4>1 DEF BatchReady
      <4>2. CASE x # r
        BY <2>0, <3>1, <4>2, OthersReady
      <4> QED
        BY <4>1, <4>2
    <3> QED
      BY <2>1, <3>3, <3>4, <3>5 DEF CommitInv, PagesSound
  <2>9. CASE SaveState(r) \/ SaveFailure(r)
    <3>1. /\ UNCHANGED <<items, log, mem, page, batch>> /\ pc'[r] = "release"
          /\ pc[r] \in {"save", "fail"}
      BY <2>9 DEF SaveState, SaveFailure, GoTo, runVars
    <3>2. PageAhead(r)'
      BY <2>0, <3>1 DEF PageAhead, CommitInv, PagesSound
    <3>3. CASE ~Fenced(r)
      <4>1. state' = state
        BY <2>9, <3>3 DEF SaveState, SaveFailure
      <4> QED
        BY <2>2, <3>1, <3>2, <4>1
    <3>4. CASE Fenced(r)
      <4>1. Fresh(r)
        BY DEF FenceInv
      <4>2. state'.cursor = state.cursor /\ state'.sequence = mem[r].sequence
        <5>1. CASE SaveState(r)
          BY <3>4, <4>1, <5>1 DEF SaveState, Fresh, PollerState
        <5>2. CASE SaveFailure(r)
          BY <3>4, <5>2 DEF SaveFailure, PollerState
        <5> QED
          BY <2>9, <5>1, <5>2
      <4>3. mem[r].sequence >= state.sequence
        BY <3>1, <3>4, <4>1 DEF Fresh
      <4>4. SequenceUnique'
        <5>1. /\ \A l \in log : l.sequence \in Nat
              /\ state.sequence \in Nat /\ mem[r].sequence \in Nat
          BY DEF LoggedEvent, PollerState
        <5> QED
          BY <3>1, <4>2, <4>3, <5>1 DEF CommitInv, SequenceUnique
      <4>5. CursorSound'
        <5>1. ASSUME NEW k \in Identity
              PROVE  LastVersion(k, state.cursor)' = LastVersion(k, state.cursor)
          BY <2>0, <4>2 DEF LastVersion
        <5> QED
          BY <2>0, <3>1, <4>2, <5>1 DEF CommitInv, CursorSound
      <4>6. ASSUME NEW x \in Run PROVE BatchReady(x)'
        <5>1. CASE x = r
          BY <3>1, <5>1 DEF BatchReady
        <5>2. CASE x # r
          BY <2>0, <3>1, <3>4, <5>2, OthersReady
        <5> QED
          BY <5>1, <5>2
      <4> QED
        BY <2>1, <3>2, <4>4, <4>5, <4>6 DEF CommitInv, PagesSound
    <3> QED
      BY <3>3, <3>4
  <2> QED
    BY <1>1, <2>3, <2>4, <2>5, <2>6, <2>7, <2>8, <2>9 DEF RunAction, RunStep, RunMishap
<1>2. ASSUME NEW o \in Owner, Crash(o) PROVE CommitInv'
  <2>1. UNCHANGED <<items, log, feed, state>>
    BY <1>2 DEF Crash, storeVars
  <2>2. ASSUME NEW x \in Run
        PROVE  PageAhead(x)' /\ (pc'[x] = "commit" => pc[x] = "commit" /\ SamePage(x))
    <3>1. CASE OwnerOf[x] = o
      BY <1>2, <2>1, <3>1 DEF Crash, NoState, PageAhead
    <3>2. CASE OwnerOf[x] # o
      BY <1>2, <2>1, <3>2 DEF Crash, SamePage, PageAhead, CommitInv, PagesSound
    <3> QED
      BY <3>1, <3>2
  <2> QED
    BY <2>1, <2>2, QuietStep
<1>3. ASSUME NEW k \in Identity, NEW v \in Version, Change(k, v) PROVE CommitInv'
  <2> DEFINE e == [subject |-> k, version |-> v]
  <2>1. /\ feed' = Append(feed, e) /\ e \in FeedEntry /\ feed \in Seq(FeedEntry)
        /\ UNCHANGED <<items, log, state, pc, mem, page, batch, lease, epoch>>
    BY <1>3, TypeParts DEF Change, storeVars, runVars, FeedEntry, RunTypeOK
  <2>2. Len(feed) \in Nat /\ Len(feed') = Len(feed) + 1
    BY <2>1
  <2>3. ASSUME NEW n \in Nat, n <= Len(feed), NEW i
        PROVE  LastVersion(i, n)' = LastVersion(i, n)
    BY <2>1, <2>3, LastVersionKept
  <2>4. SequenceUnique'
    BY <2>1 DEF CommitInv, SequenceUnique
  <2>5. CursorSound'
    <3>1. state.cursor \in Nat /\ state.cursor <= Len(feed)
      BY TypeParts DEF CommitInv, CursorSound, WorkTypeOK, StoreTypeOK, PollerState
    <3>2. ASSUME NEW i \in Identity
          PROVE  LastVersion(i, state.cursor)' = LastVersion(i, state.cursor)
      BY <2>1, <2>3, <3>1
    <3>3. state'.cursor <= Len(feed')
      BY <2>1, <2>2, <3>1
    <3> QED
      BY <2>1, <3>2, <3>3 DEF CommitInv, CursorSound
  <2>6. ASSUME NEW x \in Run PROVE PageAhead(x)' /\ BatchReady(x)'
    <3>1. PageAhead(x)'
      BY <2>1, <2>2 DEF CommitInv, PagesSound, PageAhead
    <3>2. ASSUME NEW i \in Identity
          PROVE  /\ LastVersion(i, page[x].to)' = LastVersion(i, page[x].to)
                 /\ Upserted(batch[x], i)' = Upserted(batch[x], i)
      <4>1. LastVersion(i, page[x].to)' = LastVersion(i, page[x].to)
        BY <2>1, <2>3
      <4>2. Upserted(batch[x], i)' = Upserted(batch[x], i)
        BY <2>1 DEF Upserted
      <4> QED
        BY <4>1, <4>2
    <3>3. BatchReady(x)'
      BY <2>1, <3>2 DEF CommitInv, PagesSound, BatchReady, Fenced, Fence
    <3> QED
      BY <3>1, <3>3
  <2> QED
    BY <2>4, <2>5, <2>6 DEF CommitInv, PagesSound
<1>4. CASE Elsewhere /\ ~\E k \in Identity, v \in Version : Change(k, v)
  <2>1. /\ UNCHANGED <<items, log, feed, pc, mem, page, batch>>
        /\ state'.cursor = state.cursor /\ state'.sequence = state.sequence
    <3>1. CASE Pause \/ Resume
      BY <3>1, TypeParts DEF Pause, Resume, runVars, WorkTypeOK, StoreTypeOK, PollerState
    <3>2. CASE ~Pause /\ ~Resume
      BY <1>4, <3>2 DEF Elsewhere, Expire, ExpireOrphan, OperatorRetries, OperatorDiscards,
                        vars, storeVars, runVars
    <3> QED
      BY <3>1, <3>2
  <2> QED
    BY <2>1, QuietStep DEF SamePage, PageAhead, CommitInv, PagesSound
<1> QED
  BY <1>1, <1>2, <1>3, <1>4, NextCases

(* It holds at first.                                                      *)
LEMMA CommitInvInit == Init => CommitInv
<1> SUFFICES ASSUME Init PROVE CommitInv
  OBVIOUS
<1>1. SequenceUnique
  BY DEF Init, StoreInit, SequenceUnique
<1>2. PagesSound
  BY DEF Init, PagesSound, PageAhead, BatchReady, NoState
<1>3. CursorSound
  <2>1. ASSUME NEW k \in Identity PROVE LastVersion(k, 0) = Absent
    BY DEF LastVersion
  <2>2. state.cursor = 0 /\ feed = <<>> /\ items = [k \in Identity |-> Absent]
    BY DEF Init, StoreInit, InitialState
  <2> QED
    BY <2>1, <2>2 DEF CursorSound
<1> QED
  BY <1>1, <1>2, <1>3 DEF CommitInv

(* Sequence numbers, for any number of instances and any page size: two    *)
(* committed events never share one, and none exceeds the saved sequence,  *)
(* whichever run commits, fails or loses the answer of its commit. It      *)
(* rests on Fencing: only the run with the fresh copy writes, and its      *)
(* batch is numbered after that copy (processPage, commitPoll, the saves   *)
(* at the end of a cycle).                                                 *)
THEOREM SequencesUnique == Spec => []SequenceUnique
<1>1. TypeInv /\ FenceInv /\ CommitInv /\ [Next]_vars => TypeInv' /\ FenceInv' /\ CommitInv'
  BY TypeNext, FenceInvNext, CommitInvNext
<1>2. CommitInv => SequenceUnique
  BY DEF CommitInv
<1> QED
  BY <1>1, <1>2, TypeInit, FenceInvInit, CommitInvInit, PTL DEF Spec

(* G4, atomic commit, under the same generality: in every reachable state  *)
(* the snapshot is what the feed says up to the saved cursor and the last  *)
(* change of each item up to there has been logged, so neither a crash nor *)
(* a takeover makes the cursor skip a change (commitPoll in runCycle).     *)
THEOREM AtomicCommit == Spec => []CursorSound
<1>1. TypeInv /\ FenceInv /\ CommitInv /\ [Next]_vars => TypeInv' /\ FenceInv' /\ CommitInv'
  BY TypeNext, FenceInvNext, CommitInvNext
<1>2. CommitInv => CursorSound
  BY DEF CommitInv
<1> QED
  BY <1>1, <1>2, TypeInit, FenceInvInit, CommitInvInit, PTL DEF Spec
=============================================================================
