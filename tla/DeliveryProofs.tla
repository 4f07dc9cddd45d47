--------------------------- MODULE DeliveryProofs ---------------------------
(***************************************************************************)
(* Order and completeness of delivery: the handler is called for the       *)
(* events of an item in the order of their sequence numbers, by whichever  *)
(* runs and abandoned workers, and no occurrence of a repeated event is    *)
(* swallowed by the ack or the parking of another one.                     *)
(***************************************************************************)
EXTENDS RunnerProofs

(* The outbox and the batches are finite: loadPending counts their rows.   *)
FiniteRows == IsFiniteSet(outbox) /\ \A r \in Run : IsFiniteSet(batch[r])

(* What the steps before have established of every reachable state.        *)
BaseInv == TypeInv /\ FenceInv /\ CommitInv /\ WorkersOutlive /\ DeliveredHandled

DeliveryInv ==
  /\ AllLogged /\ Accounted /\ RowsCurrent /\ ParkedAlike /\ FiniteRows
  /\ \A r \in Run : Preceded(r)
  /\ DeliveryInOrder

-----------------------------------------------------------------------------
(* Rows and their entries *)

(* The types of rows and entries that the arguments below rest on.         *)
LEMMA DeliveryTypes ==
  ASSUME TypeInv
  PROVE  /\ \A row \in outbox \cup parked : row.sequence \in Nat /\ Entry(row) \in LoggedEvent
         /\ \A l \in log \cup handled \cup invoked \cup dropped \cup retried : l.sequence \in Nat
         /\ \A r \in Run : \A row \in rows[r] \cup batch[r] :
              row.sequence \in Nat /\ row.event.subject \in Identity
         /\ DOMAIN pc = Run /\ DOMAIN rows = Run /\ DOMAIN work = Run /\ DOMAIN batch = Run
         /\ DOMAIN epoch = Run
BY TypeParts, EntryType
DEF WorkTypeOK, StoreTypeOK, DrainTypeOK, RunTypeOK, OutboxRow, ParkedRow, LoggedEvent, EventId

(* An entry names the event and the number of its row.                     *)
LEMMA EntryOf ==
  ASSUME NEW row
  PROVE  Entry(row).event = row.event /\ Entry(row).sequence = row.sequence
BY DEF Entry

(* Acking or parking by id: another occurrence of the id of a current row  *)
(* has been put back or superseded.                                        *)
LEMMA SameId ==
  ASSUME TypeInv, NEW row, Current(row), Entry(row) \in log, NEW l \in log,
         l.event = row.event
  PROVE  l = Entry(row) \/ PutBack(l) \/ Superseded(l)
<1>0. /\ l.sequence \in Nat /\ row.sequence \in Nat
      /\ l = [event |-> l.event, sequence |-> l.sequence]
  <2>1. l \in LoggedEvent /\ Entry(row) \in LoggedEvent
    BY TypeParts DEF WorkTypeOK, StoreTypeOK
  <2> QED
    BY <2>1, EntryOf DEF LoggedEvent
<1>1. CASE l.sequence = row.sequence
  BY <1>0, <1>1 DEF Entry
<1>2. CASE l.sequence < row.sequence
  BY <1>2, EntryOf DEF Superseded
<1>3. CASE l.sequence > row.sequence
  BY <1>3 DEF Current, PutBack, Superseded
<1> QED
  BY <1>0, <1>1, <1>2, <1>3

-----------------------------------------------------------------------------
(* What a step may write *)

(* A worker of r settles a row in its hands.                               *)
Settles(r, row) ==
  /\ Fenced(r) /\ ~Idle(r)
  /\ UNCHANGED <<log, retried, dropped, batch>>
  /\ \/ Entry(row) \in handled /\ AckEvents(row.event) /\ UNCHANGED parked
     \/ RecordAttempt(row.event) /\ UNCHANGED parked
     \/ ParkEvent(row, HoldKey)

(* The run that passes the fence commits its batch.                        *)
Commits(r) ==
  /\ pc[r] = "commit" /\ Fenced(r)
  /\ CommitPoll(batch[r], page[r].to, mem[r].sequence)
  /\ UNCHANGED <<parked, retried, dropped>>
  /\ batch'[r] = {} \/ batch'[r] = batch[r]
  /\ \A x \in Run \ {r} : batch'[x] = batch[x]

NoWrite == UNCHANGED <<outbox, parked, log, retried, dropped>>

(* A worker that is at a row is busy.                                      *)
LEMMA AtHolds ==
  ASSUME TypeInv, NEW r \in Run, NEW row \in rows[r], NEW step, At(r, row, step),
         step # "none"
  PROVE  ~Idle(r)
BY DeliveryTypes DEF At, Idle

(* A step of a drain writes nothing or settles a row.                      *)
LEMMA DrainWrites ==
  ASSUME TypeInv, DeliveredHandled, NEW r \in Run, Drain(r) \/ DeliveryMishap(r)
  PROVE  /\ UNCHANGED batch
         /\ NoWrite \/ \E row \in rows[r] : Settles(r, row)
<1>0. UNCHANGED <<batch, retried, dropped>>
  BY DEF Drain, DeliveryMishap, runVars, operatorVars
<1>1. CASE LoadRows(r, AfterDrain(r)) \/ FilterHeld(r, AfterDrain(r)) \/ EndRound(r, AfterDrain(r))
  BY <1>0, <1>1 DEF LoadRows, FilterHeld, EndRound, storeVars, NoWrite
<1>2. ASSUME NEW row \in rows[r], Worker(r, row)
      PROVE  NoWrite \/ Settles(r, row)
  <2>1. CASE DeliverOk(r, row) \/ LeaseLost(r, row)
    BY <1>0, <2>1 DEF DeliverOk, LeaseLost, WorkerThrows, storeVars, NoWrite
  <2>2. CASE Ack(r, row)
    <3>1. ~Idle(r) /\ Entry(row) \in handled
      BY <2>2, AtHolds DEF Ack, DeliveredHandled, AckedWereHandled
    <3> QED
      BY <1>0, <2>2, <3>1 DEF Ack, Settles
  <2>3. CASE Retry(r, row) \/ Park(r, row)
    <3>1. ~Idle(r)
      BY <2>3, AtHolds DEF Retry, Park
    <3> QED
      BY <1>0, <2>3, <3>1 DEF Retry, Park, Settles
  <2> QED
    BY <1>2, <2>1, <2>2, <2>3 DEF Worker
<1>3. ASSUME NEW row \in rows[r], RowMishap(r, row)
      PROVE  NoWrite \/ Settles(r, row)
  <2>1. CASE AckErrors(r, row)
    <3>1. ~Idle(r) /\ Entry(row) \in handled
      BY <2>1, AtHolds DEF AckErrors, DeliveredHandled, AckedWereHandled
    <3> QED
      BY <1>0, <2>1, <3>1 DEF AckErrors, Settles, NoWrite
  <2>2. CASE ~AckErrors(r, row)
    BY <1>0, <1>3, <2>2 DEF RowMishap, DeliverThrows, NotDueYet, WorkerThrows, storeVars, NoWrite
  <2> QED
    BY <2>1, <2>2
<1> QED
  BY <1>0, <1>1, <1>2, <1>3 DEF Drain, DeliveryMishap, RowMishap

(* What a step may do to the outbox, the parked rows and the log: nothing, *)
(* settle a row by its run, commit a batch, or serve an operator.          *)
LEMMA StoreWrites ==
  ASSUME TypeInv, DeliveredHandled, [Next]_vars
  PROVE  \/ NoWrite
         \/ \E r \in Run : \E row \in rows[r] : Settles(r, row)
         \/ \E r \in Run : Commits(r)
         \/ \E row \in parked : OperatorRetries(row) \/ OperatorDiscards(row)
<1>1. ASSUME NEW r \in Run, RunAction(r)
      PROVE  NoWrite \/ (\E row \in rows[r] : Settles(r, row)) \/ Commits(r)
  <2>1. CASE Drain(r) \/ DeliveryMishap(r)
    BY <2>1, DrainWrites
  <2>2. CASE (Commit(r) /\ Fenced(r)) \/ CommitAnswerLost(r)
    BY <2>2, DeliveryTypes DEF Commit, CommitAnswerLost, Commits, runVars, operatorVars
  <2>3. CASE \/ Begin(r) \/ ReadState(r) \/ OpenCircuit(r) \/ AbortCycle(r) \/ Fetch(r)
             \/ ProcessPage(r) \/ (Commit(r) /\ ~Fenced(r)) \/ SaveState(r) \/ SaveFailure(r)
    BY <2>3 DEF Begin, ReadState, OpenCircuit, AbortCycle, Fetch, ProcessPage, Commit, SaveState,
                SaveFailure, storeVars, operatorVars, NoWrite
  <2>4. CASE \/ LiveNotDue(r) \/ StepThrows(r) \/ StopEngine(r) \/ Renew(r) \/ Beat(r)
             \/ ReleaseRun(r) \/ ReleaseFails(r)
    BY <2>4 DEF LiveNotDue, StepThrows, StopEngine, Renew, Beat, ReleaseRun, ReleaseFails,
                storeVars, operatorVars, NoWrite
  <2> QED
    BY <1>1, <2>1, <2>2, <2>3, <2>4 DEF RunAction, RunStep, RunMishap
<1>2. ASSUME NEW o \in Owner, Crash(o) PROVE NoWrite
  BY <1>2 DEF Crash, storeVars, operatorVars, NoWrite
<1>3. CASE Elsewhere
  BY <1>3 DEF Elsewhere, Change, Expire, ExpireOrphan, Pause, Resume, vars, storeVars,
              operatorVars, NoWrite
<1> QED
  BY <1>1, <1>2, <1>3, NextCases

-----------------------------------------------------------------------------
(* The entries of the store *)

(* What a write does to the entries of the log: it keeps them and numbers  *)
(* the new ones higher, what is past stays past, and a parked occurrence   *)
(* stays parked or is past.                                                *)
EntriesKept ==
  /\ log \subseteq log' /\ retried \subseteq retried'
  /\ \A l \in log' \ log, x \in log : x.sequence < l.sequence
  /\ \A l \in log : Past(l) => Past(l)'
  /\ \A l \in Entries(parked) : l \in Entries(parked)' \/ Past(l)'

(* The part of the invariant that is about the store alone.                *)
StoreSound ==
  /\ Entries(outbox) \cup Entries(parked) \subseteq log
  /\ Accounted
  /\ \A row \in outbox : Current(row)
  /\ ParkedAlike
  /\ IsFiniteSet(outbox)

(* A step that writes no row keeps what is said of the rows.               *)
LEMMA UnwrittenStore ==
  ASSUME StoreSound, NoWrite, handled \subseteq handled'
  PROVE  EntriesKept /\ StoreSound'
<1>1. \A l : (PutBack(l)' <=> PutBack(l)) /\ (Superseded(l)' <=> Superseded(l))
  BY DEF NoWrite, PutBack, Superseded
<1>2. /\ Entries(outbox)' = Entries(outbox) /\ Entries(parked)' = Entries(parked)
      /\ GivenUp' = GivenUp
  BY DEF NoWrite, Entries, GivenUp
<1>3. EntriesKept
  BY <1>1, <1>2 DEF NoWrite, EntriesKept, Past
<1>4. Accounted'
  BY <1>1, <1>2 DEF NoWrite, StoreSound, Accounted
<1>5. \A row \in outbox' : Current(row)'
  BY <1>1 DEF NoWrite, StoreSound, Current
<1> QED
  BY <1>2, <1>3, <1>4, <1>5 DEF NoWrite, StoreSound, ParkedAlike

(* Steps that log nothing keep what is put back, superseded or current.    *)
LEMMA RecordsKept ==
  ASSUME log' = log, retried \subseteq retried', NEW l
  PROVE  /\ PutBack(l) => PutBack(l)'
         /\ Superseded(l) => Superseded(l)'
         /\ Current(l) => Current(l)'
BY DEF PutBack, Superseded, Current

(* The image of a finite set is finite.                                    *)
LEMMA FiniteImage ==
  ASSUME NEW S, IsFiniteSet(S), NEW T, NEW f \in [S -> T], T = {f[x] : x \in S}
  PROVE  IsFiniteSet(T)
<1>1. f \in Surjection(S, T)
  BY DEF Surjection
<1> QED
  BY <1>1, FS_Surjection

(* recordAttempt() changes the attempts of a row, neither its event nor    *)
(* its place.                                                              *)
LEMMA RecordedAttempt ==
  ASSUME TypeInv, NEW event, RecordAttempt(event)
  PROVE  /\ Entries(outbox)' = Entries(outbox)
         /\ \A row \in outbox' : \E old \in outbox : old.event = row.event
                                                    /\ old.sequence = row.sequence
         /\ IsFiniteSet(outbox) => IsFiniteSet(outbox')
<1> DEFINE Touch(row) == IF row.event = event THEN [row EXCEPT !.attempts = @ + 1] ELSE row
<1>0. outbox \subseteq OutboxRow
  BY TypeParts DEF WorkTypeOK, StoreTypeOK
<1>1. outbox' = {Touch(row) : row \in outbox}
  BY DEF RecordAttempt
<1>2. \A row \in outbox : Touch(row).event = row.event /\ Touch(row).sequence = row.sequence
  BY <1>0 DEF OutboxRow
<1>3. \A row \in outbox : Entry(Touch(row)) = Entry(row)
  BY <1>2 DEF Entry
<1>4. IsFiniteSet(outbox) => IsFiniteSet(outbox')
  <2> DEFINE f == [row \in outbox |-> Touch(row)]
  <2>1. outbox' = {f[row] : row \in outbox} /\ f \in [outbox -> outbox']
    BY <1>1
  <2> HIDE DEF f
  <2> QED
    BY <2>1, FiniteImage
<1> HIDE DEF Touch
<1>5. Entries(outbox)' = Entries(outbox)
  BY <1>1, <1>3 DEF Entries
<1> QED
  BY <1>1, <1>2, <1>4, <1>5

(* ackEvents(), recordAttempt() and parkEvent() of a current row: the ack  *)
(* by id takes no other occurrence with it.                                *)
LEMMA SettledStore ==
  ASSUME TypeInv, StoreSound, NEW r \in Run, NEW row \in rows[r], Settles(r, row),
         handled \subseteq handled', Current(row), Entry(row) \in log
  PROVE  EntriesKept /\ StoreSound'
<1>0. log' = log /\ retried' = retried /\ dropped' = dropped
  BY DEF Settles
<1>1. \A l : /\ PutBack(l) => PutBack(l)'
             /\ Superseded(l) => Superseded(l)'
             /\ Current(l) => Current(l)'
  BY <1>0, RecordsKept
<1>2. \A l \in log : l.event = row.event => l = Entry(row) \/ PutBack(l)' \/ Superseded(l)'
  BY <1>1, SameId
<1>3. ASSUME AckEvents(row.event), Entry(row) \in handled, parked' = parked
      PROVE  EntriesKept /\ StoreSound'
  <2>1. \A l \in Entries(outbox) :
          l \in Entries(outbox)' \/ l \in handled' \/ PutBack(l)' \/ Superseded(l)'
    <3> SUFFICES ASSUME NEW y \in outbox
                 PROVE  \/ Entry(y) \in Entries(outbox)' \/ Entry(y) \in handled'
                        \/ PutBack(Entry(y))' \/ Superseded(Entry(y))'
      BY DEF Entries
    <3>1. CASE y.event # row.event
      BY <1>3, <3>1 DEF AckEvents, Without, Entries
    <3>2. CASE y.event = row.event
      <4>1. Entry(y) \in log /\ Entry(y).event = row.event
        BY <3>2, EntryOf DEF StoreSound, Entries
      <4> QED
        BY <1>2, <1>3, <4>1
    <3> QED
      BY <3>1, <3>2
  <2>2. outbox' \subseteq outbox /\ Entries(parked)' = Entries(parked) /\ GivenUp' = GivenUp
    BY <1>0, <1>3 DEF AckEvents, Without, Entries, GivenUp
  <2>3. EntriesKept
    BY <1>0, <1>1, <2>2 DEF EntriesKept, Past
  <2>4. Accounted'
    BY <1>0, <1>1, <2>1, <2>2 DEF StoreSound, Accounted
  <2>5. Entries(outbox)' \subseteq Entries(outbox)
    BY <2>2 DEF Entries
  <2>6. IsFiniteSet(outbox')
    BY <2>2, FS_Subset DEF StoreSound
  <2> QED
    BY <1>0, <1>1, <1>3, <2>2, <2>3, <2>4, <2>5, <2>6 DEF StoreSound, ParkedAlike
<1>4. ASSUME RecordAttempt(row.event), parked' = parked
      PROVE  EntriesKept /\ StoreSound'
  <2>1. /\ Entries(outbox)' = Entries(outbox) /\ IsFiniteSet(outbox')
        /\ \A new \in outbox' : \E old \in outbox : old.event = new.event
                                                   /\ old.sequence = new.sequence
    BY <1>4, RecordedAttempt DEF StoreSound
  <2>2. Entries(parked)' = Entries(parked) /\ GivenUp' = GivenUp
    BY <1>0, <1>4 DEF Entries, GivenUp
  <2>3. EntriesKept
    BY <1>0, <1>1, <2>2 DEF EntriesKept, Past
  <2>4. Accounted'
    BY <1>0, <1>1, <2>1, <2>2 DEF StoreSound, Accounted
  <2>5. \A new \in outbox' : Current(new)'
    BY <1>0, <2>1 DEF StoreSound, Current, PutBack, Superseded
  <2> QED
    BY <1>0, <1>4, <2>1, <2>2, <2>3, <2>4, <2>5 DEF StoreSound, ParkedAlike
<1>5. ASSUME ParkEvent(row, HoldKey)
      PROVE  EntriesKept /\ StoreSound'
  <2> DEFINE new == [event |-> row.event, sequence |-> row.sequence, holdKey |-> HoldKey]
  <2>0. /\ parked' = {p \in parked : p.event # row.event} \cup {new}
        /\ outbox' = {y \in outbox : y.event # row.event}
        /\ Entry(new) = Entry(row)
    BY <1>5 DEF ParkEvent, Put, Without, Entry
  <2>1. new \in parked' /\ Entry(row) \in Entries(parked)'
    BY <2>0 DEF Entries
  <2>2. \A l \in Entries(outbox) :
          l \in Entries(outbox)' \/ l \in Entries(parked)' \/ PutBack(l)' \/ Superseded(l)'
    <3> SUFFICES ASSUME NEW y \in outbox
                 PROVE  \/ Entry(y) \in Entries(outbox)' \/ Entry(y) \in Entries(parked)'
                        \/ PutBack(Entry(y))' \/ Superseded(Entry(y))'
      BY DEF Entries
    <3>1. CASE y.event # row.event
      BY <2>0, <3>1 DEF Entries
    <3>2. CASE y.event = row.event
      <4>1. Entry(y) \in log /\ Entry(y).event = row.event
        BY <3>2, EntryOf DEF StoreSound, Entries
      <4> QED
        BY <1>2, <2>1, <4>1
    <3> QED
      BY <3>1, <3>2
  <2>3. ASSUME NEW p \in parked
        PROVE  \/ p \in parked' \/ PutBack(Entry(p))' \/ Superseded(Entry(p))'
               \/ Entry(p) = Entry(row)
    <3>1. CASE p.event # row.event
      BY <2>0, <3>1
    <3>2. CASE p.event = row.event
      <4>1. Entry(p) \in log /\ Entry(p).event = row.event
        BY <3>2, EntryOf DEF StoreSound, Entries
      <4> QED
        BY <1>2, <4>1
    <3> QED
      BY <3>1, <3>2
  <2>4. \A l \in Entries(parked) : l \in Entries(parked)' \/ PutBack(l)' \/ Superseded(l)'
    BY <2>1, <2>3 DEF Entries
  <2>5. \A l \in GivenUp : l \in GivenUp' \/ PutBack(l)' \/ Superseded(l)'
    <3> SUFFICES ASSUME NEW p \in parked, ~p.holdKey
                 PROVE  Entry(p) \in GivenUp' \/ PutBack(Entry(p))' \/ Superseded(Entry(p))'
      BY <1>0 DEF GivenUp, Entries
    <3>1. CASE p \in parked'
      BY <3>1 DEF GivenUp, Entries
    <3>2. CASE Entry(p) = Entry(row)
      <4>1. ~new.holdKey
        BY DEF StoreSound, ParkedAlike
      <4>2. Entry(new) \in GivenUp'
        BY <2>1, <4>1 DEF GivenUp, Entries
      <4> QED
        BY <2>0, <3>2, <4>2
    <3> QED
      BY <2>3, <3>1, <3>2
  <2>6. EntriesKept
    BY <1>0, <1>1, <2>4, <2>5 DEF EntriesKept, Past
  <2>7. Accounted'
    BY <1>0, <1>1, <2>2, <2>4 DEF StoreSound, Accounted
  <2>8. Entries(outbox)' \subseteq log' /\ Entries(parked)' \subseteq log'
    BY <1>0, <2>0 DEF StoreSound, Entries
  <2>9. IsFiniteSet(outbox')
    BY <2>0, FS_Subset DEF StoreSound
  <2>10. ParkedAlike' /\ \A y \in outbox' : Current(y)'
    BY <1>1, <2>0 DEF StoreSound, ParkedAlike
  <2> QED
    BY <2>6, <2>7, <2>8, <2>9, <2>10 DEF StoreSound
<1> QED
  BY <1>3, <1>4, <1>5 DEF Settles

(* A commit replaces the pending rows of its ids: they are superseded.     *)
LEMMA CommittedStore ==
  ASSUME TypeInv, FenceInv, CommitInv, StoreSound, NEW r \in Run, Commits(r),
         IsFiniteSet(batch[r]), handled \subseteq handled'
  PROVE  EntriesKept /\ StoreSound'
<1>0. /\ outbox' = {y \in outbox : \A n \in batch[r] : n.event # y.event} \cup batch[r]
      /\ log' = log \cup Entries(batch[r])
      /\ UNCHANGED <<parked, retried, dropped>>
  BY DEF Commits, CommitPoll, Put, Logged, Entries, Entry
<1>1. /\ \A n \in batch[r] : state.sequence < n.sequence
      /\ \A x, y \in batch[r] : x.event.subject = y.event.subject => x = y
  BY DEF Commits, CommitInv, PagesSound, BatchReady
<1>2. /\ \A l \in log : l.sequence <= state.sequence /\ l.sequence \in Nat
      /\ \A n \in batch[r] : n.sequence \in Nat
      /\ state.sequence \in Nat
  BY DeliveryTypes, FenceTypes DEF CommitInv, SequenceUnique
<1>3. \A n \in batch[r], l \in log : l.sequence < n.sequence
  BY <1>1, <1>2
<1>4. \A l : (PutBack(l)' <=> PutBack(l)) /\ (Superseded(l) => Superseded(l)')
  BY <1>0 DEF PutBack, Superseded
<1>5. Entries(parked)' = Entries(parked) /\ GivenUp' = GivenUp
  BY <1>0 DEF Entries, GivenUp
<1>6. EntriesKept
  <2>1. ASSUME NEW l \in log' \ log, NEW x \in log PROVE x.sequence < l.sequence
    <3>1. PICK n \in batch[r] : l = Entry(n)
      BY <1>0 DEF Entries
    <3> QED
      BY <1>3, <3>1, EntryOf
  <2> QED
    BY <1>0, <1>4, <1>5, <2>1 DEF EntriesKept, Past
<1>7. \A l \in Entries(outbox) : l \in Entries(outbox)' \/ Superseded(l)'
  <2> SUFFICES ASSUME NEW y \in outbox
               PROVE  Entry(y) \in Entries(outbox)' \/ Superseded(Entry(y))'
    BY DEF Entries
  <2>1. CASE \A n \in batch[r] : n.event # y.event
    BY <1>0, <2>1 DEF Entries
  <2>2. CASE \E n \in batch[r] : n.event = y.event
    <3>1. PICK n \in batch[r] : n.event = y.event
      BY <2>2
    <3>2. Entry(n) \in log' /\ Entry(y) \in log
      BY <1>0 DEF Entries, StoreSound
    <3>3. Entry(n).event = Entry(y).event /\ Entry(n).sequence > Entry(y).sequence
      <4>1. Entry(y).sequence < n.sequence
        BY <1>3, <3>2
      <4>2. Entry(y).sequence \in Nat /\ n.sequence \in Nat
        BY <1>2, <3>2
      <4> QED
        BY <3>1, <4>1, <4>2, EntryOf
    <3> QED
      BY <3>2, <3>3 DEF Superseded
  <2> QED
    BY <2>1, <2>2
<1>8. Entries(batch[r]) \subseteq Entries(outbox)'
  BY <1>0 DEF Entries
<1>9. Accounted'
  BY <1>0, <1>4, <1>5, <1>7, <1>8 DEF StoreSound, Accounted
<1>10. ASSUME NEW row \in outbox' PROVE Current(row)'
  <2>1. CASE row \in batch[r]
    <3>1. ASSUME NEW x \in log', x.event = row.event PROVE ~(x.sequence > row.sequence)
      <4>1. CASE x \in log
        BY <1>2, <1>3, <2>1, <4>1
      <4>2. CASE x \in Entries(batch[r])
        <5>1. PICK n \in batch[r] : x = Entry(n)
          BY <4>2 DEF Entries
        <5>2. n = row
          BY <1>1, <2>1, <3>1, <5>1, EntryOf
        <5> QED
          BY <1>2, <2>1, <5>1, <5>2, EntryOf
      <4> QED
        BY <1>0, <3>1, <4>1, <4>2
    <3> QED
      BY <3>1 DEF Current, Superseded
  <2>2. CASE row \in outbox /\ \A n \in batch[r] : n.event # row.event
    <3>1. Superseded(row)' => Superseded(row)
      BY <1>0, <2>2, EntryOf DEF Superseded, Entries
    <3> QED
      BY <1>4, <2>2, <3>1 DEF StoreSound, Current
  <2> QED
    BY <1>0, <2>1, <2>2
<1>11. IsFiniteSet(outbox')
  <2>1. IsFiniteSet({y \in outbox : \A n \in batch[r] : n.event # y.event})
    BY FS_Subset DEF StoreSound
  <2> QED
    BY <1>0, <2>1, FS_Union
<1>12. Entries(outbox)' \subseteq log'
  BY <1>0 DEF StoreSound, Entries
<1> QED
  BY <1>0, <1>5, <1>6, <1>9, <1>10, <1>11, <1>12 DEF StoreSound, ParkedAlike

(* retryParked() and discardParked(): the entries they move are put back   *)
(* or dropped.                                                             *)
LEMMA OperatorStore ==
  ASSUME TypeInv, StoreSound, NEW p \in parked, OperatorRetries(p) \/ OperatorDiscards(p),
         handled \subseteq handled'
  PROVE  EntriesKept /\ StoreSound'
<1>0. log' = log /\ parked' = parked \ {p} /\ retried \subseteq retried' /\ dropped \subseteq dropped'
  BY DEF OperatorRetries, OperatorDiscards, RetryParked, DiscardParked
<1>1. \A l : /\ PutBack(l) => PutBack(l)'
             /\ Superseded(l) => Superseded(l)'
             /\ Current(l) => Current(l)'
  BY <1>0, RecordsKept
<1>2. Entry(p) \in dropped' \/ PutBack(Entry(p))'
  BY DEF OperatorRetries, OperatorDiscards, PutBack
<1>3. \A l \in Entries(parked) : l \in Entries(parked)' \/ l \in dropped' \/ PutBack(l)'
  BY <1>0, <1>2 DEF Entries
<1>4. \A l \in GivenUp : l \in GivenUp' \/ l \in dropped' \/ PutBack(l)'
  BY <1>0, <1>2 DEF GivenUp, Entries
<1>5. EntriesKept
  BY <1>0, <1>1, <1>3, <1>4 DEF EntriesKept, Past, GivenUp
<1>6. ParkedAlike' /\ Entries(parked)' \subseteq log'
  BY <1>0 DEF StoreSound, ParkedAlike, Entries
<1>7. CASE OperatorDiscards(p)
  <2>1. outbox' = outbox
    BY <1>7 DEF OperatorDiscards
  <2>2. Entries(outbox)' = Entries(outbox)
    BY <2>1 DEF Entries
  <2>3. Accounted'
    BY <1>0, <1>1, <1>3, <2>2 DEF StoreSound, Accounted
  <2> QED
    BY <1>0, <1>1, <1>5, <1>6, <2>1, <2>2, <2>3 DEF StoreSound
<1>8. CASE OperatorRetries(p)
  <2> DEFINE new == [event |-> p.event, sequence |-> p.sequence, attempts |-> 0]
  <2>0. /\ outbox' = {y \in outbox : y.event # p.event} \cup {new}
        /\ Entry(new) = Entry(p) /\ Entry(p) \in retried'
    BY <1>8 DEF OperatorRetries, RetryParked, Put, Entry
  <2>1. \A l : l.event = p.event => PutBack(l)'
    BY <2>0, EntryOf DEF PutBack
  <2>2. \A l \in Entries(outbox) : l \in Entries(outbox)' \/ PutBack(l)'
    <3> SUFFICES ASSUME NEW y \in outbox
                 PROVE  Entry(y) \in Entries(outbox)' \/ PutBack(Entry(y))'
      BY DEF Entries
    <3>1. CASE y.event # p.event
      BY <2>0, <3>1 DEF Entries
    <3>2. CASE y.event = p.event
      BY <2>1, <3>2, EntryOf
    <3> QED
      BY <3>1, <3>2
  <2>3. Accounted'
    BY <1>0, <1>1, <1>3, <2>2 DEF StoreSound, Accounted
  <2>4. Entries(outbox)' \subseteq log'
    BY <1>0, <2>0 DEF StoreSound, Entries
  <2>5. \A y \in outbox' : Current(y)'
    <3>1. Current(new)'
      BY <2>1 DEF Current
    <3> QED
      BY <1>1, <2>0, <3>1 DEF StoreSound
  <2>6. IsFiniteSet(outbox')
    <3>1. IsFiniteSet({y \in outbox : y.event # p.event})
      BY FS_Subset DEF StoreSound
    <3> QED
      BY <2>0, <3>1, FS_AddElement
  <2> QED
    BY <1>5, <1>6, <2>3, <2>4, <2>5, <2>6 DEF StoreSound
<1> QED
  BY <1>7, <1>8

(* Every step keeps what is said of the stored rows.                       *)
LEMMA StoreStep ==
  ASSUME BaseInv, DeliveryInv, [Next]_vars
  PROVE  EntriesKept /\ StoreSound'
<1>0. handled \subseteq handled' /\ StoreSound
  BY HandledGrows DEF DeliveryInv, AllLogged, RowsCurrent, FiniteRows, StoreSound
<1>1. CASE NoWrite
  BY <1>0, <1>1, UnwrittenStore
<1>2. ASSUME NEW r \in Run, NEW row \in rows[r], Settles(r, row)
      PROVE  EntriesKept /\ StoreSound'
  <2>1. Current(row) /\ Entry(row) \in log
    BY <1>2 DEF DeliveryInv, RowsCurrent, AllLogged, Entries, Settles, Holds
  <2> QED
    BY <1>0, <1>2, <2>1, SettledStore DEF BaseInv
<1>3. ASSUME NEW r \in Run, Commits(r) PROVE EntriesKept /\ StoreSound'
  BY <1>0, <1>3, CommittedStore DEF BaseInv, DeliveryInv, FiniteRows
<1>4. ASSUME NEW p \in parked, OperatorRetries(p) \/ OperatorDiscards(p)
      PROVE  EntriesKept /\ StoreSound'
  BY <1>0, <1>4, OperatorStore DEF BaseInv
<1> QED
  BY <1>1, <1>2, <1>3, <1>4, StoreWrites DEF BaseInv

-----------------------------------------------------------------------------
(* The rows in the hands of a run *)

(* What may happen to them while the run holds rows: nothing, or they are  *)
(* the ones just loaded, or what is left after the held and blocked groups *)
(* were filtered out, or what is left after one of them was settled.       *)
KeepsRows(x) ==
  Holds(x) /\ rows'[x] = rows[x] /\ (pc[x] = "held" => pc'[x] = "held")

LoadsRows(x) ==
  NoWrite /\ pc'[x] = "held" /\ rows'[x] = LoadPending(window[x])

FiltersRows(x) ==
  /\ NoWrite /\ pc[x] = "held"
  /\ \E groups : /\ groups \cap HeldKeys = {}
                 /\ rows'[x] = {row \in rows[x] : row.event.subject \in groups}

DropsRow(x) ==
  /\ pc[x] # "held" /\ ~Idle(x)
  /\ \E row \in rows[x] : rows'[x] = rows[x] \ {row} /\ Entry(row) \in handled' \cup GivenUp'

RowsMove(x) == KeepsRows(x) \/ LoadsRows(x) \/ FiltersRows(x) \/ DropsRow(x)

(* A worker keeps the rows of its run, or drops the one it is done with.   *)
LEMMA WorkerRows ==
  ASSUME TypeInv, NEW r \in Run, Outlives(r), AckedWereHandled(r), handled \subseteq handled',
         NEW row \in rows[r], Worker(r, row) \/ RowMishap(r, row), UNCHANGED dropped
  PROVE  RowsMove(r) /\ epoch'[r] = epoch[r]
<1>0. DOMAIN pc = Run /\ DOMAIN rows = Run
  BY DeliveryTypes
<1>1. \E step \in {"next", "queued", "delivered", "failed"} : At(r, row, step)
  BY DEF Worker, RowMishap, DeliverOk, Ack, Retry, Park, LeaseLost, DeliverThrows, NotDueYet,
         AckErrors, Takes
<1>2. ~Idle(r) /\ pc[r] # "held"
  BY <1>1, AtHolds, AtBusy
<1>3. epoch' = epoch
  BY DEF Worker, RowMishap, DeliverOk, Ack, Retry, Park, LeaseLost, DeliverThrows, NotDueYet,
         AckErrors, WorkerThrows
<1>4. CASE AfterRow(r, row)
  <2>1. rows'[r] = rows[r] \ {row}
    BY <1>0, <1>4 DEF AfterRow
  <2>2. CASE Ack(r, row)
    <3>1. Entry(row) \in handled'
      BY <2>2 DEF Ack, AckedWereHandled
    <3> QED
      BY <1>2, <1>3, <2>1, <3>1 DEF RowsMove, DropsRow
  <2>3. CASE Park(r, row)
    <3>0. rows'[r] # rows[r]
      BY <2>1
    <3>1. ~HoldKey /\ ParkEvent(row, HoldKey)
      BY <2>3, <3>0 DEF Park, LeaveGroup
    <3> DEFINE new == [event |-> row.event, sequence |-> row.sequence, holdKey |-> HoldKey]
    <3>2. new \in parked' /\ ~new.holdKey /\ Entry(new) = Entry(row)
      BY <3>1 DEF ParkEvent, Put, Entry
    <3>3. Entry(row) \in GivenUp'
      BY <3>2 DEF GivenUp, Entries
    <3> QED
      BY <1>2, <1>3, <2>1, <3>3 DEF RowsMove, DropsRow
  <2>4. CASE ~Ack(r, row) /\ ~Park(r, row)
    <3>1. rows' = rows
      BY <2>4 DEF Worker, RowMishap, DeliverOk, Retry, LeaseLost, WorkerThrows, DeliverThrows,
                  NotDueYet, AckErrors
    <3> QED
      BY <1>2, <1>3, <3>1 DEF RowsMove, KeepsRows, Holds
  <2> QED
    BY <2>2, <2>3, <2>4
<1>5. CASE ~AfterRow(r, row)
  <2>1. rows' = rows
    BY <1>5 DEF Worker, RowMishap, DeliverOk, Retry, LeaseLost, WorkerThrows, DeliverThrows,
                NotDueYet, AckErrors, Ack, Park
  <2> QED
    BY <1>2, <1>3, <2>1 DEF RowsMove, KeepsRows, Holds
<1> QED
  BY <1>4, <1>5

(* So does each step of a run.                                             *)
LEMMA RunRows ==
  ASSUME TypeInv, NEW r \in Run, Outlives(r), AckedWereHandled(r), handled \subseteq handled',
         RunAction(r), Holds(r)'
  PROVE  RowsMove(r) /\ epoch'[r] = epoch[r]
<1>0. DOMAIN pc = Run /\ DOMAIN rows = Run /\ DOMAIN epoch = Run /\ DOMAIN work = Run
  BY DeliveryTypes
<1>1. CASE Drain(r)
  <2>0. UNCHANGED dropped /\ AfterDrain(r) # "held"
    BY <1>1 DEF Drain, operatorVars, AfterDrain
  <2>1. CASE LoadRows(r, AfterDrain(r))
    <3>1. Idle(r)'
      BY <2>1 DEF LoadRows, Outlives, Idle
    <3>2. pc'[r] = "held"
      BY <3>1 DEF Holds
    <3>3. rows'[r] = LoadPending(window[r])
      BY <1>0, <2>0, <2>1, <3>2 DEF LoadRows
    <3>4. NoWrite
      BY <1>1, <2>1 DEF LoadRows, Drain, storeVars, operatorVars, NoWrite
    <3> QED
      BY <2>1, <3>2, <3>3, <3>4 DEF RowsMove, LoadsRows, LoadRows
  <2>2. CASE FilterHeld(r, AfterDrain(r))
    <3> DEFINE groups == Groups(rows[r]) \ (HeldKeys \cup blocked[r])
    <3>1. NoWrite /\ pc[r] = "held" /\ epoch' = epoch
      BY <1>1, <2>2 DEF FilterHeld, Drain, storeVars, operatorVars, NoWrite
    <3>2. Idle(r)
      BY <3>1 DEF Outlives
    <3>3. CASE groups = {}
      <4>0. WidenOrExit(r, AfterDrain(r))
        BY <2>2, <3>3 DEF FilterHeld
      <4>1. pc'[r] # "held" /\ work' = work
        BY <1>0, <2>0, <4>0 DEF WidenOrExit
      <4> QED
        BY <3>2, <4>1 DEF Holds, Idle
    <3>4. CASE groups # {}
      <4>1. rows'[r] = {row \in rows[r] : row.event.subject \in groups}
        BY <1>0, <2>2, <3>4 DEF FilterHeld
      <4>2. groups \cap HeldKeys = {}
        OBVIOUS
      <4> QED
        BY <3>1, <4>1, <4>2 DEF RowsMove, FiltersRows
    <3> QED
      BY <3>3, <3>4
  <2>3. CASE EndRound(r, AfterDrain(r))
    <3>1. Idle(r)'
      BY <2>3 DEF EndRound, Idle, drainVars
    <3>2. pc'[r] # "held"
      BY <1>0, <2>0, <2>3 DEF EndRound
    <3> QED
      BY <3>1, <3>2 DEF Holds
  <2>4. ASSUME NEW row \in rows[r], Worker(r, row) PROVE RowsMove(r) /\ epoch'[r] = epoch[r]
    BY <2>0, <2>4, WorkerRows
  <2> QED
    BY <1>1, <2>1, <2>2, <2>3, <2>4 DEF Drain
<1>2. CASE DeliveryMishap(r)
  <2>1. UNCHANGED dropped
    BY <1>2 DEF DeliveryMishap, operatorVars
  <2>2. PICK row \in rows[r] : RowMishap(r, row)
    BY <1>2 DEF DeliveryMishap, RowMishap
  <2> QED
    BY <2>1, <2>2, WorkerRows
<1>3. CASE Begin(r) \/ ReadState(r) \/ Commit(r)
  <2>1. Idle(r) /\ work' = work
    BY <1>3 DEF Begin, ReadState, Commit, Outlives, drainVars
  <2>2. pc'[r] # "held"
    BY <1>0, <1>3 DEF Begin, ReadState, Commit, GoTo
  <2> QED
    BY <2>1, <2>2 DEF Holds, Idle
<1>4. CASE \/ OpenCircuit(r) \/ AbortCycle(r) \/ Fetch(r) \/ ProcessPage(r) \/ LiveNotDue(r)
           \/ CommitAnswerLost(r) \/ Renew(r) \/ SaveState(r) \/ SaveFailure(r)
           \/ StepThrows(r)
  <2>1. UNCHANGED <<work, rows, epoch>>
    BY <1>4 DEF OpenCircuit, AbortCycle, Fetch, ProcessPage, LiveNotDue, CommitAnswerLost, Renew,
                SaveState, SaveFailure, StepThrows, drainVars
  <2>2. pc'[r] # "held"
    BY <1>0, <1>4 DEF OpenCircuit, AbortCycle, Fetch, ProcessPage, LiveNotDue, CommitAnswerLost,
                      Renew, SaveState, SaveFailure, StepThrows, GoTo
  <2>3. ~Idle(r)
    BY <2>1, <2>2 DEF Holds, Idle
  <2>4. pc[r] # "held"
    BY <2>3 DEF Outlives
  <2> QED
    BY <2>1, <2>3, <2>4 DEF RowsMove, KeepsRows, Holds
<1>5. CASE ReleaseRun(r) \/ ReleaseFails(r)
  <2>1. pc[r] = "release" /\ pc'[r] = "idle" /\ work' = work
    BY <1>0, <1>5 DEF ReleaseRun, ReleaseFails, Forget, GoTo
  <2>2. ~Idle(r)
    BY <2>1 DEF Holds, Idle
  <2>3. rows'[r] = rows[r] /\ epoch'[r] = epoch[r]
    BY <1>0, <1>5, <2>2 DEF ReleaseRun, ReleaseFails, Forget
  <2> QED
    BY <2>1, <2>2, <2>3 DEF RowsMove, KeepsRows, Holds
<1>6. CASE Beat(r) \/ StopEngine(r)
  <2>1. UNCHANGED <<pc, rows, epoch>>
    BY <1>6 DEF Beat, StopEngine
  <2>2. work' = work \/ work' = [work EXCEPT ![r] = StopWorkers(work[r])]
    BY <1>6 DEF Beat, StopEngine, AbortWorkers
  <2>3. Idle(r) => Idle(r)'
    BY <1>0, <2>2 DEF Idle, StopWorkers
  <2> QED
    BY <2>1, <2>3 DEF RowsMove, KeepsRows, Holds
<1> QED
  BY <1>1, <1>2, <1>3, <1>4, <1>5, <1>6 DEF RunAction, RunStep, RunMishap

(* The rows in the hands of any run, after any step.                       *)
LEMMA RowsSteps ==
  ASSUME TypeInv, WorkersOutlive, DeliveredHandled, [Next]_vars, NEW x \in Run, Holds(x)'
  PROVE  RowsMove(x) /\ epoch'[x] = epoch[x]
<1>0. handled \subseteq handled'
  BY HandledGrows
<1>1. ASSUME NEW r \in Run, RunAction(r) PROVE RowsMove(x) /\ epoch'[x] = epoch[x]
  <2>1. CASE x = r
    BY <1>0, <1>1, <2>1, RunRows DEF WorkersOutlive, DeliveredHandled
  <2>2. CASE x # r
    BY <1>1, <2>2, OthersUntouched DEF SameLocals, RowsMove, KeepsRows, Holds, Idle
  <2> QED
    BY <2>1, <2>2
<1>2. ASSUME NEW o \in Owner, Crash(o) PROVE RowsMove(x) /\ epoch'[x] = epoch[x]
  <2>1. CASE OwnerOf[x] = o
    BY <1>2, <2>1 DEF Crash, NoWork, Holds, Idle
  <2>2. CASE OwnerOf[x] # o
    BY <1>2, <2>2 DEF Crash, RowsMove, KeepsRows, Holds, Idle
  <2> QED
    BY <2>1, <2>2
<1>3. CASE Elsewhere
  BY <1>3, ElsewhereLocals DEF RowsMove, KeepsRows, Holds, Idle
<1> QED
  BY <1>1, <1>2, <1>3, NextCases

(* Rows come from the outbox.                                              *)
LEMMA RowsSource ==
  ASSUME TypeInv, [Next]_vars, NEW x \in Run
  PROVE  rows'[x] \subseteq rows[x] \cup outbox
<1>0. DOMAIN rows = Run
  BY DeliveryTypes
<1>1. ASSUME NEW r \in Run, RunAction(r) PROVE rows'[x] \subseteq rows[x] \cup outbox
  <2>1. CASE x # r
    BY <1>1, <2>1, OthersUntouched DEF SameLocals
  <2>2. CASE x = r
    <3>1. CASE Drain(r)
      <4>1. CASE \/ LoadRows(r, AfterDrain(r)) \/ FilterHeld(r, AfterDrain(r))
                 \/ EndRound(r, AfterDrain(r))
        BY <1>0, <2>2, <4>1 DEF LoadRows, LoadPending, FilterHeld, WidenOrExit, EndRound,
           drainVars
      <4>2. ASSUME NEW row \in rows[r], Worker(r, row) PROVE rows'[r] \subseteq rows[r]
        BY <1>0, <4>2 DEF Worker, DeliverOk, Ack, Retry, Park, LeaseLost, WorkerThrows, AfterRow
      <4> QED
        BY <2>2, <3>1, <4>1, <4>2 DEF Drain
    <3>2. CASE DeliveryMishap(r)
      BY <2>2, <3>2 DEF DeliveryMishap, DeliverThrows, NotDueYet, AckErrors, WorkerThrows
    <3>3. CASE ReadState(r) \/ Commit(r) \/ ReleaseRun(r) \/ ReleaseFails(r)
      BY <1>0, <2>2, <3>3 DEF ReadState, Commit, StartDrain, ReleaseRun, ReleaseFails, Forget
    <3>4. CASE \/ Begin(r) \/ OpenCircuit(r) \/ AbortCycle(r) \/ Fetch(r) \/ ProcessPage(r)
               \/ SaveState(r) \/ SaveFailure(r) \/ LiveNotDue(r) \/ StepThrows(r)
               \/ CommitAnswerLost(r) \/ StopEngine(r) \/ Renew(r) \/ Beat(r)
      BY <2>2, <3>4 DEF Begin, OpenCircuit, AbortCycle, Fetch, ProcessPage, SaveState,
         SaveFailure, LiveNotDue, StepThrows, CommitAnswerLost, StopEngine, Renew, Beat, drainVars
    <3> QED
      BY <1>1, <3>1, <3>2, <3>3, <3>4 DEF RunAction, RunStep, RunMishap
  <2> QED
    BY <2>1, <2>2
<1>2. ASSUME NEW o \in Owner, Crash(o) PROVE rows'[x] \subseteq rows[x] \cup outbox
  BY <1>2 DEF Crash
<1> QED
  BY <1>1, <1>2, NextCases, ElsewhereLocals

(* The handler is called for a row a worker takes.                         *)
LEMMA InvokedSource ==
  ASSUME TypeInv, [Next]_vars, NEW e \in invoked', e \notin invoked
  PROVE  \E r \in Run : \E row \in rows[r] : Takes(r, row) /\ e = Entry(row)
<1>1. ASSUME NEW r \in Run, RunAction(r)
      PROVE  \E row \in rows[r] : Takes(r, row) /\ e = Entry(row)
  <2>1. CASE Drain(r)
    <3>1. PICK row \in rows[r] : DeliverOk(r, row)
      BY <2>1 DEF Drain, LoadRows, FilterHeld, EndRound, Worker, Ack, Retry, Park, LeaseLost,
                  WorkerThrows, consumerVars
    <3> QED
      BY <3>1 DEF DeliverOk
  <2>2. CASE DeliveryMishap(r)
    <3>1. PICK row \in rows[r] : DeliverThrows(r, row)
      BY <2>2 DEF DeliveryMishap, NotDueYet, AckErrors, WorkerThrows, consumerVars
    <3> QED
      BY <3>1 DEF DeliverThrows
  <2>3. CASE ~Drain(r) /\ ~DeliveryMishap(r)
    <3>1. invoked' = invoked
      BY <1>1, <2>3 DEF RunAction, RunStep, RunMishap, Begin, ReadState, ReleaseRun,
         ReleaseFails, Fetch, ProcessPage, Commit, CommitAnswerLost, OpenCircuit, LiveNotDue,
         AbortCycle, StepThrows, Renew, SaveState, SaveFailure, Beat, StopEngine, consumerVars
    <3> QED
      BY <3>1
  <2> QED
    BY <2>1, <2>2, <2>3
<1>2. ASSUME NEW o \in Owner, Crash(o) PROVE FALSE
  BY <1>2 DEF Crash, consumerVars
<1> QED
  BY <1>1, <1>2, NextCases, ElsewhereLocals

(* Batches stay finite.                                                    *)
LEMMA BatchFinite ==
  ASSUME TypeInv, [Next]_vars, NEW x \in Run, IsFiniteSet(batch[x])
  PROVE  IsFiniteSet(batch'[x])
<1>0. DOMAIN batch = Run
  BY DeliveryTypes
<1>1. ASSUME NEW r \in Run, RunAction(r) PROVE IsFiniteSet(batch'[x])
  <2>1. CASE x # r
    BY <1>1, <2>1, OthersPages
  <2>2. CASE x = r /\ ProcessPage(r)
    <3> DEFINE f == [k \in Changed(r) |-> EventRow(r, k)]
    <3>1. batch'[r] = {EventRow(r, k) : k \in Changed(r)}
      BY <1>0, <2>2 DEF ProcessPage
    <3>2. f \in [Changed(r) -> batch'[r]] /\ batch'[r] = {f[k] : k \in Changed(r)}
      BY <3>1
    <3>3. IsFiniteSet(Changed(r))
      BY ChangedFinite
    <3> HIDE DEF f
    <3> QED
      BY <2>2, <3>2, <3>3, FiniteImage
  <2>3. CASE x = r /\ ~ProcessPage(r)
    <3>1. batch'[r] = batch[r] \/ batch'[r] = {}
      BY <1>0, <1>1, <2>3 DEF RunAction, RunStep, RunMishap, Begin, ReadState, ReleaseRun,
         ReleaseFails, Forget, Drain, DeliveryMishap, Fetch, Commit, CommitAnswerLost,
         OpenCircuit, LiveNotDue, AbortCycle, StepThrows, Renew, SaveState, SaveFailure, Beat,
         StopEngine, runVars
    <3> QED
      BY <2>3, <3>1, FS_EmptySet
  <2> QED
    BY <2>1, <2>2, <2>3
<1>2. ASSUME NEW o \in Owner, Crash(o) PROVE IsFiniteSet(batch'[x])
  BY <1>2, FS_EmptySet DEF Crash
<1>3. CASE Elsewhere
  BY <1>3 DEF Elsewhere, Change, Expire, ExpireOrphan, Pause, Resume, OperatorRetries,
              OperatorDiscards, vars, runVars
<1> QED
  BY <1>1, <1>2, <1>3, NextCases

(* loadPending leaves no row behind that precedes one it returns.          *)
LEMMA LoadedDownwards ==
  ASSUME TypeInv, IsFiniteSet(outbox), NEW limit \in Nat, NEW row \in LoadPending(limit),
         NEW y \in outbox, y.sequence < row.sequence
  PROVE  y \in LoadPending(limit)
<1> DEFINE Below(z) == {r \in outbox : r.sequence < z.sequence}
<1>1. \A z \in outbox : z.sequence \in Nat
  BY DeliveryTypes
<1>2. row \in outbox /\ Cardinality(Below(row)) < limit
  BY DEF LoadPending
<1>3. Below(y) \in SUBSET Below(row) /\ Below(row) \in SUBSET outbox
  BY <1>1, <1>2
<1>4. IsFiniteSet(Below(row)) /\ IsFiniteSet(Below(y))
  BY <1>3, FS_Subset
<1>5. Cardinality(Below(y)) <= Cardinality(Below(row))
  BY <1>3, <1>4, FS_Subset
<1>6. Cardinality(Below(y)) \in Nat /\ Cardinality(Below(row)) \in Nat
  BY <1>4, FS_CardinalityType
<1>7. Cardinality(Below(y)) < limit
  BY <1>2, <1>5, <1>6
<1> QED
  BY <1>7 DEF LoadPending

-----------------------------------------------------------------------------
(* The invariant *)

(* A commit finds no other run that passes the fence with rows in hand.    *)
LEMMA CommitterAlone ==
  ASSUME TypeInv, FenceInv, WorkersOutlive, NEW r \in Run, Commits(r),
         NEW x \in Run, Holds(x), Fenced(x)
  PROVE  FALSE
<1>1. ~Holds(r)
  BY DEF Commits, WorkersOutlive, Outlives, Holds
<1>2. x = r
  BY DEF Commits, Fenced, Fence, FenceInv, EpochsDistinct
<1> QED
  BY <1>1, <1>2

(* The rows of the run that passes the fence stay the newest of their ids. *)
LEMMA RowsCurrentNext ==
  ASSUME BaseInv, DeliveryInv, [Next]_vars, NEW x \in Run, Holds(x)', Fenced(x)'
  PROVE  \A row \in rows'[x] : Current(row)'
<1>1. RowsMove(x) /\ Fenced(x)
  BY RowsSteps, FenceOnlyLost DEF BaseInv
<1>2. EntriesKept
  BY StoreStep
<1>3. ASSUME log' = log, NEW row, Current(row) PROVE Current(row)'
  BY <1>2, <1>3, RecordsKept DEF EntriesKept
<1>4. CASE LoadsRows(x)
  BY <1>3, <1>4 DEF LoadsRows, NoWrite, LoadPending, DeliveryInv, RowsCurrent
<1>5. CASE ~LoadsRows(x)
  <2>1. Holds(x) /\ rows'[x] \subseteq rows[x]
    BY <1>1, <1>5 DEF RowsMove, KeepsRows, FiltersRows, DropsRow, Holds
  <2>2. \A row \in rows'[x] : Current(row)
    BY <1>1, <2>1 DEF DeliveryInv, RowsCurrent
  <2>3. log' = log
    <3>1. ~\E r \in Run : Commits(r)
      BY <1>1, <2>1, CommitterAlone DEF BaseInv
    <3> QED
      BY <3>1, StoreWrites DEF BaseInv, NoWrite, Settles, OperatorRetries, OperatorDiscards
  <2> QED
    BY <1>3, <2>2, <2>3
<1> QED
  BY <1>4, <1>5

(* What precedes a row in the hands of a run is in its hands too, or past. *)
LEMMA PrecededNext ==
  ASSUME BaseInv, DeliveryInv, [Next]_vars, NEW x \in Run, Holds(x)',
         NEW row \in rows'[x], NEW l \in log',
         l.event.subject = row.event.subject, l.sequence < row.sequence
  PROVE  \/ l \in Entries(rows'[x]) \/ Past(l)'
         \/ pc'[x] = "held" /\ l \in Entries(parked)'
<1>0. TypeInv /\ EntriesKept /\ RowsMove(x) /\ handled \subseteq handled'
  BY StoreStep, RowsSteps, HandledGrows DEF BaseInv
<1>1. Entry(row) \in log
  BY <1>0, RowsSource DEF DeliveryInv, AllLogged, Entries
<1>2. l \in log
  <2>1. row.sequence \in Nat
    BY <1>0, <1>1, DeliveryTypes, EntryOf
  <2>2. l \in log \/ Entry(row).sequence < l.sequence
    BY <1>0, <1>1 DEF EntriesKept
  <2>3. l.sequence \in Nat
    BY <1>0, TypeNext, TypePartsNext DEF BaseInv, WorkTypeOK, StoreTypeOK, LoggedEvent
  <2> QED
    BY <2>1, <2>2, <2>3, EntryOf
<1>3. Past(l) => Past(l)'
  BY <1>0, <1>2 DEF EntriesKept
<1>4. ASSUME Holds(x), row \in rows[x]
      PROVE  l \in Entries(rows[x]) \/ Past(l) \/ (pc[x] = "held" /\ l \in Entries(parked))
  BY <1>2, <1>4 DEF DeliveryInv, Preceded
<1>5. CASE KeepsRows(x)
  BY <1>0, <1>3, <1>4, <1>5 DEF KeepsRows, EntriesKept
<1>6. CASE LoadsRows(x)
  <2>1. /\ rows'[x] = LoadPending(window[x]) /\ pc'[x] = "held" /\ parked' = parked
        /\ dropped' = dropped
    BY <1>6 DEF LoadsRows, NoWrite
  <2>2. CASE l \in Entries(outbox)
    <3>1. PICK y \in outbox : l = Entry(y)
      BY <2>2 DEF Entries
    <3>2. y.sequence < row.sequence
      BY <3>1, EntryOf
    <3>3. window[x] \in Nat
      BY <1>0, TypeParts DEF WorkTypeOK, DrainTypeOK
    <3>4. y \in rows'[x]
      BY <1>0, <2>1, <3>2, <3>3, LoadedDownwards DEF DeliveryInv, FiniteRows
    <3> QED
      BY <3>1, <3>4 DEF Entries
  <2>3. CASE l \in Entries(parked)
    BY <2>1, <2>3 DEF Entries
  <2>4. CASE l \in handled \cup dropped \/ PutBack(l) \/ Superseded(l)
    BY <1>3, <2>4 DEF Past, GivenUp
  <2> QED
    BY <1>2, <2>2, <2>3, <2>4 DEF DeliveryInv, Accounted
<1>7. CASE FiltersRows(x)
  <2>1. PICK groups : /\ groups \cap HeldKeys = {}
                      /\ rows'[x] = {y \in rows[x] : y.event.subject \in groups}
    BY <1>7 DEF FiltersRows
  <2>2. row \in rows[x] /\ row.event.subject \in groups /\ Holds(x)
    BY <1>7, <2>1 DEF FiltersRows, Holds
  <2>3. CASE l \in Entries(rows[x])
    <3>1. PICK y \in rows[x] : l = Entry(y)
      BY <2>3 DEF Entries
    <3>2. y \in rows'[x]
      BY <2>1, <2>2, <3>1, EntryOf
    <3> QED
      BY <3>1, <3>2 DEF Entries
  <2>4. CASE l \in Entries(parked)
    <3>1. PICK p \in parked : l = Entry(p)
      BY <2>4 DEF Entries
    <3>2. p.event.subject \notin HeldKeys
      BY <2>1, <2>2, <3>1, EntryOf
    <3>3. l \in GivenUp
      BY <3>1, <3>2 DEF HeldKeys, GivenUp, Entries
    <3> QED
      BY <1>3, <3>3 DEF Past
  <2> QED
    BY <1>3, <1>4, <2>2, <2>3, <2>4
<1>8. CASE DropsRow(x)
  <2>1. PICK y \in rows[x] : rows'[x] = rows[x] \ {y} /\ Entry(y) \in handled' \cup GivenUp'
    BY <1>8 DEF DropsRow
  <2>2. row \in rows[x] /\ Holds(x) /\ pc[x] # "held"
    BY <1>8, <2>1 DEF DropsRow, Holds
  <2>3. CASE l \in Entries(rows[x])
    <3>1. PICK z \in rows[x] : l = Entry(z)
      BY <2>3 DEF Entries
    <3> QED
      BY <2>1, <3>1 DEF Entries, Past
  <2> QED
    BY <1>3, <1>4, <2>2, <2>3
<1> QED
  BY <1>0, <1>5, <1>6, <1>7, <1>8 DEF RowsMove

(* A call of the handler comes after what precedes it.                     *)
LEMMA InOrderNext ==
  ASSUME BaseInv, DeliveryInv, [Next]_vars, NEW e \in invoked', NEW l \in log',
         e.event.subject = l.event.subject, l.sequence < e.sequence
  PROVE  Past(l)'
<1>0. TypeInv /\ EntriesKept
  BY StoreStep DEF BaseInv
<1>1. CASE e \in invoked
  <2>1. e \in log
    BY <1>1 DEF DeliveryInv, AllLogged
  <2>2. l \in log
    <3>1. e.sequence \in Nat /\ l.sequence \in Nat
      BY <1>0, <2>1, TypeNext, TypePartsNext, DeliveryTypes
      DEF BaseInv, WorkTypeOK, StoreTypeOK, LoggedEvent
    <3> QED
      BY <1>0, <2>1, <3>1 DEF EntriesKept
  <2>3. Past(l)
    BY <1>1, <2>2 DEF DeliveryInv, DeliveryInOrder
  <2> QED
    BY <1>0, <2>2, <2>3 DEF EntriesKept
<1>2. CASE e \notin invoked
  <2>0. PICK r \in Run : \E row \in rows[r] : Takes(r, row) /\ e = Entry(row)
    BY <1>0, <1>2, InvokedSource
  <2>1. PICK row \in rows[r] : Takes(r, row) /\ e = Entry(row)
    BY <2>0
  <2>2. \E step \in {"next", "queued"} : At(r, row, step)
    BY <2>1 DEF Takes
  <2>3. ~Idle(r) /\ IsFirst(rows[r], row)
    BY <1>0, <2>2, AtHolds DEF At
  <2>4. pc[r] # "held" /\ Holds(r)
    BY <2>3 DEF BaseInv, WorkersOutlive, Outlives, Holds
  <2>5. Entry(row) \in log
    BY DEF DeliveryInv, AllLogged, Entries
  <2>6. /\ row.sequence \in Nat /\ l.sequence \in Nat
        /\ l.sequence < row.sequence /\ l.event.subject = row.event.subject
    BY <1>0, <2>1, TypeNext, TypePartsNext, DeliveryTypes, EntryOf
    DEF BaseInv, WorkTypeOK, StoreTypeOK, LoggedEvent
  <2>7. l \in log
    BY <1>0, <2>5, <2>6, EntryOf DEF EntriesKept
  <2>8. l \notin Entries(rows[r])
    <3> SUFFICES ASSUME NEW y \in rows[r], l = Entry(y) PROVE FALSE
      BY DEF Entries
    <3>1. y # row /\ y.event.subject = row.event.subject /\ y.sequence < row.sequence
      BY <2>6, EntryOf
    <3> QED
      BY <2>3, <2>6, <3>1, DeliveryTypes, <1>0 DEF IsFirst
  <2>9. Past(l)
    BY <2>4, <2>6, <2>7, <2>8 DEF DeliveryInv, Preceded
  <2> QED
    BY <1>0, <2>7, <2>9 DEF EntriesKept
<1> QED
  BY <1>1, <1>2

(* One step keeps the invariant.                                           *)
LEMMA DeliveryInvNext ==
  ASSUME BaseInv, DeliveryInv, [Next]_vars
  PROVE  DeliveryInv'
<1>0. TypeInv /\ EntriesKept /\ StoreSound'
  BY StoreStep DEF BaseInv
<1>1. \A x \in Run : Entries(rows'[x]) \subseteq log'
  <2> SUFFICES ASSUME NEW x \in Run, NEW row \in rows'[x] PROVE Entry(row) \in log'
    BY DEF Entries
  <2>1. row \in rows[x] \cup outbox
    BY <1>0, RowsSource
  <2> QED
    BY <1>0, <2>1 DEF DeliveryInv, AllLogged, Entries, EntriesKept
<1>2. invoked' \subseteq log'
  <2> SUFFICES ASSUME NEW e \in invoked', e \notin invoked PROVE e \in log'
    BY <1>0 DEF DeliveryInv, AllLogged, EntriesKept
  <2>0. PICK r \in Run : \E row \in rows[r] : Takes(r, row) /\ e = Entry(row)
    BY <1>0, InvokedSource
  <2>1. PICK row \in rows[r] : e = Entry(row)
    BY <2>0
  <2> QED
    BY <1>0, <2>1 DEF DeliveryInv, AllLogged, Entries, EntriesKept
<1>3. AllLogged'
  BY <1>0, <1>1, <1>2 DEF StoreSound, AllLogged, Entries
<1>4. RowsCurrent'
  BY <1>0, RowsCurrentNext DEF StoreSound, RowsCurrent
<1>5. \A x \in Run : Preceded(x)'
  <2> SUFFICES ASSUME NEW x \in Run, Holds(x)', NEW row \in rows'[x], NEW l \in log',
                      l.event.subject = row.event.subject, l.sequence < row.sequence
               PROVE  \/ l \in Entries(rows'[x]) \/ Past(l)'
                      \/ pc'[x] = "held" /\ l \in Entries(parked)'
    BY DEF Preceded, Entries
  <2> QED
    BY PrecededNext
<1>6. FiniteRows'
  BY <1>0, BatchFinite DEF StoreSound, DeliveryInv, FiniteRows
<1>7. DeliveryInOrder'
  BY InOrderNext DEF DeliveryInOrder
<1> QED
  BY <1>0, <1>3, <1>4, <1>5, <1>6, <1>7 DEF StoreSound, DeliveryInv

(* It holds at first.                                                      *)
LEMMA DeliveryInvInit == Init => DeliveryInv
<1> SUFFICES ASSUME Init PROVE DeliveryInv
  OBVIOUS
<1>1. /\ outbox = {} /\ parked = {} /\ log = {} /\ invoked = {}
      /\ rows = [r \in Run |-> {}] /\ batch = [r \in Run |-> {}]
  BY DEF Init, StoreInit, DrainInit
<1>2. AllLogged
  BY <1>1 DEF AllLogged, Entries
<1>3. RowsCurrent /\ ParkedAlike /\ Accounted /\ DeliveryInOrder
  BY <1>1 DEF RowsCurrent, ParkedAlike, Accounted, DeliveryInOrder
<1>4. FiniteRows
  BY <1>1, FS_EmptySet DEF FiniteRows
<1>5. \A r \in Run : Preceded(r)
  BY <1>1 DEF Preceded
<1> QED
  BY <1>2, <1>3, <1>4, <1>5 DEF DeliveryInv

(* The invariants of the other proofs, together.                           *)
LEMMA BaseInvNext == BaseInv /\ [Next]_vars => BaseInv'
BY TypeNext, FenceInvNext, CommitInvNext, WorkersOutliveNext, DeliveredHandledNext DEF BaseInv

(* They hold at first.                                                     *)
LEMMA BaseInvInit == Init => BaseInv
<1>1. Init => WorkersOutlive /\ DeliveredHandled
  BY DEF Init, DrainInit, NoWork, WorkersOutlive, Outlives, Idle, DeliveredHandled,
         AckedWereHandled
<1> QED
  BY <1>1, TypeInit, FenceInvInit, CommitInvInit DEF BaseInv

-----------------------------------------------------------------------------
(* The theorems *)

(* The last occurrence of an event id is superseded by none.               *)
LEMMA LastOccurrence ==
  ASSUME TypeInv, SequenceUnique, NEW l \in log
  PROVE  \E x \in log : x.event = l.event /\ x.sequence >= l.sequence /\ ~Superseded(x)
<1> DEFINE Same == {x \in log : x.event = l.event /\ x.sequence >= l.sequence}
           Gaps == {state.sequence - x.sequence : x \in Same}
<1>1. /\ \A x \in log : x.sequence \in Nat /\ x.sequence <= state.sequence
      /\ state.sequence \in Nat
  BY DeliveryTypes, TypeParts DEF SequenceUnique, WorkTypeOK, StoreTypeOK, PollerState
<1>2. l \in Same
  BY <1>1
<1>3. Gaps \subseteq Nat /\ Gaps # {}
  <2>1. \A x \in Same : state.sequence - x.sequence \in Nat
    BY <1>1
  <2> QED
    BY <1>2, <2>1
<1>4. \E g \in Gaps : \A m \in Gaps : g <= m
  <2> HIDE DEF Gaps
  <2> QED
    BY <1>3, SmallestElement
<1>5. PICK x \in Same : \A y \in Same : state.sequence - x.sequence <= state.sequence - y.sequence
  BY <1>4
<1>6. \A y \in Same : y.sequence <= x.sequence
  BY <1>1, <1>5
<1>7. ~Superseded(x)
  BY <1>1, <1>6 DEF Superseded
<1> QED
  BY <1>7

(* Each occurrence that is the newest of its id is on its way, and with it *)
(* those before it.                                                        *)
LEMMA AccountedDelivers ==
  ASSUME TypeInv, SequenceUnique, Accounted
  PROVE  RepeatsDelivered
<1> SUFFICES ASSUME NEW l \in log PROVE OnItsWay(l) \/ PutBack(l)
  BY DEF RepeatsDelivered
<1>1. PICK x \in log : x.event = l.event /\ x.sequence >= l.sequence /\ ~Superseded(x)
  BY LastOccurrence
<1>2. CASE PutBack(x)
  BY <1>1, <1>2 DEF PutBack
<1>3. CASE x \in handled \cup dropped
  BY <1>1, <1>3 DEF OnItsWay
<1>4. CASE x \in Entries(outbox) \cup Entries(parked)
  <2>1. PICK row \in outbox \cup parked : x = Entry(row)
    BY <1>4 DEF Entries
  <2> QED
    BY <1>1, <2>1, EntryOf DEF OnItsWay
<1> QED
  BY <1>1, <1>2, <1>3, <1>4 DEF Accounted

(* G3, order per key, for any number of instances, overlapping runs and    *)
(* abandoned workers, any batch size, retry count and poison policy: when  *)
(* drainOutbox calls the handler for an event, every earlier event of its  *)
(* item has been handled or given up, or its row was written again. The    *)
(* invariant: whatever precedes a row in the hands of a run is in its      *)
(* hands too, past, or parked until heldKeys has been asked; a row that a  *)
(* fenced worker settles by id is the latest occurrence of it.             *)
THEOREM OrderPerKey == Spec => []DeliveryInOrder
<1>1. BaseInv /\ DeliveryInv /\ [Next]_vars => BaseInv' /\ DeliveryInv'
  BY BaseInvNext, DeliveryInvNext
<1>2. DeliveryInv => DeliveryInOrder
  BY DEF DeliveryInv
<1> QED
  BY <1>1, <1>2, BaseInvInit, DeliveryInvInit, PTL DEF Spec

(* G1 for repeated changes, under the same generality: acking, parking or  *)
(* replacing outbox rows by event id never swallows a later occurrence of  *)
(* the id, unless an operator's retryParked put an old one in its place.   *)
(* It follows from Accounted for the last occurrence of the id.            *)
THEOREM RepeatsArrive == Spec => []RepeatsDelivered
<1>1. BaseInv /\ DeliveryInv /\ [Next]_vars => BaseInv' /\ DeliveryInv'
  BY BaseInvNext, DeliveryInvNext
<1>2. BaseInv /\ DeliveryInv => RepeatsDelivered
  BY AccountedDelivers DEF BaseInv, CommitInv, DeliveryInv
<1> QED
  BY <1>1, <1>2, BaseInvInit, DeliveryInvInit, PTL DEF Spec
=============================================================================
