------------------------------- MODULE Replay -------------------------------
(***************************************************************************)
(* replay() of src/core/engine.ts: it takes the lease of the key, reads    *)
(* the event log page by page and queues every entry again with a new      *)
(* sequence. Nobody renews its lease, and a run of its own instance may    *)
(* take the lease from it, as acquireLease() grants it to the same owner.  *)
(* A run is that of Runner, as far as log and sequence go; the wake-up     *)
(* that replay() ends with is Trigger of Engine.                           *)
(***************************************************************************)
EXTENDS Integers, FiniteSets, Sequences, SequencesExt

CONSTANTS
  Time,         \* values of createdAt
  Limit,        \* entries per readLog()
  Tries,        \* attempts of acquireWithRetry()
  MaxSequence,  \* bound: sequences in use
  MaxEpoch      \* bound: leases granted before the last call or run

ReplayParameters ==
  /\ Time \subseteq Nat /\ Time # {}
  /\ Limit \in Nat \ {0} /\ Tries \in Nat \ {0} /\ MaxSequence \in Nat
  /\ MaxEpoch \in Nat

VARIABLES
  sequence,     \* PollerState.sequence
  lease,        \* the lease of the key; live until it expires
  log,          \* the event log
  replay,       \* the call of replay()
  runs,         \* the run of each instance
  queued,       \* history: <<event, sequence>>, as they were put in the outbox
  expected,     \* history: the events in the range when replay() got its lease
  replayed      \* history: the events it has queued

vars == <<sequence, lease, log, replay, runs, queued, expected, replayed>>

Instance == {"own", "other"}
Idle == [pc |-> "idle", epoch |-> 0, sequence |-> 0]
NoCall == [pc |-> "idle", tries |-> 0, from |-> 0, to |-> 0, epoch |-> 0, sequence |-> 0,
           after |-> 0, page |-> << >>, threw |-> FALSE]
Answered(threw) == [NoCall EXCEPT !.pc = "answered", !.threw = threw]

-----------------------------------------------------------------------------
(* The store *)

MayAcquire(o) == lease.live => lease.owner = o

(* The lease and its epoch, one more than any before.                      *)
Acquire(o) == lease' = [owner |-> o, epoch |-> lease.epoch + 1, live |-> TRUE]

Fenced(o, epoch) == lease.owner = o /\ lease.epoch = epoch

Release(o, epoch) ==
  lease' = IF Fenced(o, epoch) THEN [lease EXCEPT !.owner = "nobody", !.live = FALSE] ELSE lease

InRange(from, to) == {e \in log : e.time >= from /\ e.time <= to}

(* ORDER BY sequence.                                                      *)
InOrder(entries) ==
  CHOOSE q \in [1..Cardinality(entries) -> entries] :
    \A i, j \in DOMAIN q : i < j => q[i].sequence < q[j].sequence

(* Mutant: the page starts at the last entry of the one before.            *)
ReadLogFrom(from, to, after) ==
  LET all == InOrder({e \in InRange(from, to) : e.sequence >= after})
  IN SubSeq(all, 1, IF Len(all) < Limit THEN Len(all) ELSE Limit)

ReadLog(from, to, after) ==
  LET all == InOrder({e \in InRange(from, to) : e.sequence > after})
  IN SubSeq(all, 1, IF Len(all) < Limit THEN Len(all) ELSE Limit)

Events(entries) == [i \in DOMAIN entries |-> entries[i].event]

-----------------------------------------------------------------------------
(* replay() *)

Call(from, to) ==
  /\ replay.pc \in {"idle", "answered"} /\ lease.epoch < MaxEpoch
  /\ replay' = [NoCall EXCEPT !.pc = "acquire", !.from = from, !.to = to]
  /\ expected' = << >> /\ replayed' = << >>
  /\ UNCHANGED <<sequence, lease, log, runs, queued>>

(* acquireWithRetry: a try, and the 250 ms until the next; the last one    *)
(* throws.                                                                 *)
Try ==
  /\ replay.pc = "acquire"
  /\ \/ /\ MayAcquire("own") /\ Acquire("own")
        /\ replay' = [replay EXCEPT !.pc = "load", !.epoch = lease.epoch + 1]
        /\ expected' = Events(InOrder(InRange(replay.from, replay.to)))
     \/ /\ ~MayAcquire("own")
        /\ replay' = IF replay.tries + 1 < Tries THEN [replay EXCEPT !.tries = @ + 1]
                     ELSE Answered(TRUE)
        /\ UNCHANGED <<lease, expected>>
  /\ UNCHANGED <<sequence, log, runs, queued, replayed>>

LoadState ==
  /\ replay.pc = "load"
  /\ replay' = [replay EXCEPT !.pc = "read", !.sequence = sequence]
  /\ UNCHANGED <<sequence, lease, log, runs, queued, expected, replayed>>

ReadPage ==
  /\ replay.pc = "read"
  /\ LET page == ReadLog(replay.from, replay.to, replay.after)
     IN replay' = [replay EXCEPT !.pc = IF page = << >> THEN "finally" ELSE "commit",
                                 !.page = page]
  /\ UNCHANGED <<sequence, lease, log, runs, queued, expected, replayed>>

(* Mutant: the rows are put in without looking at the lease.               *)
CommitPageUnfenced ==
  LET n == Len(replay.page)
  IN /\ replay.pc = "commit"
     /\ replay.sequence + n <= MaxSequence
     /\ sequence' = replay.sequence + n
     /\ queued' = queued \o [i \in 1..n |-> <<replay.page[i].event, replay.sequence + i>>]
     /\ replayed' = replayed \o Events(replay.page)
     /\ replay' = [replay EXCEPT !.sequence = @ + n, !.after = Last(replay.page).sequence,
                                 !.pc = IF n < Limit THEN "finally" ELSE "read"]
     /\ UNCHANGED <<lease, log, runs, expected>>

(* commitPoll() of a page: nothing is logged, and a short page is the      *)
(* last. LeaseLostError ends the call.                                     *)
CommitPage ==
  LET n == Len(replay.page)
  IN /\ replay.pc = "commit"
     /\ \/ /\ Fenced("own", replay.epoch)
           /\ replay.sequence + n <= MaxSequence
           /\ sequence' = replay.sequence + n
           /\ queued' = queued \o [i \in 1..n |-> <<replay.page[i].event, replay.sequence + i>>]
           /\ replayed' = replayed \o Events(replay.page)
           /\ replay' = [replay EXCEPT !.sequence = @ + n, !.after = Last(replay.page).sequence,
                                       !.pc = IF n < Limit THEN "finally" ELSE "read"]
        \/ /\ ~Fenced("own", replay.epoch)
           /\ replay' = [replay EXCEPT !.pc = "finally", !.threw = TRUE]
           /\ UNCHANGED <<sequence, queued, replayed>>
     /\ UNCHANGED <<lease, log, runs, expected>>

(* An error of the store.                                                  *)
Throw ==
  /\ replay.pc \in {"load", "read", "commit"}
  /\ replay' = [replay EXCEPT !.pc = "finally", !.threw = TRUE]
  /\ UNCHANGED <<sequence, lease, log, runs, queued, expected, replayed>>

(* The finally block, and the answer.                                      *)
Answer ==
  /\ replay.pc = "finally"
  /\ Release("own", replay.epoch)
  /\ replay' = Answered(replay.threw)
  /\ UNCHANGED <<sequence, log, runs, queued, expected, replayed>>

(* The instance dies; a caller asks the next one again.                    *)
Crash ==
  /\ replay.pc \notin {"idle", "answered"} \/ runs["own"].pc # "idle"
  /\ replay' = Answered(TRUE)
  /\ runs' = [runs EXCEPT !["own"] = Idle]
  /\ UNCHANGED <<sequence, lease, log, queued, expected, replayed>>

-----------------------------------------------------------------------------
(* Runs *)

Expire ==
  /\ lease.live
  /\ lease' = [lease EXCEPT !.live = FALSE]
  /\ UNCHANGED <<sequence, log, replay, runs, queued, expected, replayed>>

(* A run takes the lease and loads the state.                              *)
Start(o) ==
  /\ runs[o].pc = "idle" /\ MayAcquire(o) /\ lease.epoch < MaxEpoch
  /\ Acquire(o)
  /\ runs' = [runs EXCEPT ![o] = [pc |-> "held", epoch |-> lease.epoch + 1, sequence |-> sequence]]
  /\ UNCHANGED <<sequence, log, replay, queued, expected, replayed>>

(* Its commit queues and logs an event; LeaseLostError ends it.            *)
CommitRun(o, t) ==
  /\ runs[o].pc = "held"
  /\ \/ /\ Fenced(o, runs[o].epoch) /\ runs[o].sequence < MaxSequence
        /\ LET n == runs[o].sequence + 1
           IN /\ sequence' = n
              /\ queued' = Append(queued, <<n, n>>)
              /\ log' = log \cup {[event |-> n, sequence |-> n, time |-> t]}
              /\ runs' = [runs EXCEPT ![o].sequence = n]
     \/ /\ ~Fenced(o, runs[o].epoch)
        /\ runs' = [runs EXCEPT ![o] = Idle]
        /\ UNCHANGED <<sequence, queued, log>>
  /\ UNCHANGED <<lease, replay, expected, replayed>>

End(o) ==
  /\ runs[o].pc = "held"
  /\ Release(o, runs[o].epoch)
  /\ runs' = [runs EXCEPT ![o] = Idle]
  /\ UNCHANGED <<sequence, log, replay, queued, expected, replayed>>

-----------------------------------------------------------------------------
Init ==
  /\ sequence = 0 /\ lease = [owner |-> "nobody", epoch |-> 0, live |-> FALSE] /\ log = {}
  /\ replay = NoCall /\ runs = [o \in Instance |-> Idle]
  /\ queued = << >> /\ expected = << >> /\ replayed = << >>

Next ==
  \/ \E from, to \in Time : Call(from, to)
  \/ Try \/ LoadState \/ ReadPage \/ CommitPage \/ Answer \/ Throw \/ Crash \/ Expire
  \/ \E o \in Instance : Start(o) \/ End(o) \/ \E t \in Time : CommitRun(o, t)

Spec == Init /\ [][Next]_vars

-----------------------------------------------------------------------------
Entry == [event : 1..MaxSequence, sequence : 1..MaxSequence, time : Time]

CallRecord ==
  [pc : {"idle", "acquire", "load", "read", "commit", "finally", "answered"}, tries : Nat,
   from : Nat, to : Nat, epoch : Nat, sequence : 0..MaxSequence, after : 0..MaxSequence,
   page : Seq(Entry), threw : BOOLEAN]

TypeOK ==
  /\ sequence \in 0..MaxSequence
  /\ lease \in [owner : Instance \cup {"nobody"}, epoch : Nat, live : BOOLEAN]
  /\ log \subseteq Entry
  /\ replay \in CallRecord
  /\ Len(replay.page) <= Limit
  /\ runs \in [Instance -> [pc : {"idle", "held"}, epoch : Nat, sequence : 0..MaxSequence]]
  /\ queued \in Seq((1..MaxSequence) \X (1..MaxSequence))
  /\ expected \in Seq(1..MaxSequence) /\ replayed \in Seq(1..MaxSequence)

(* What runs and replays queue carries ever larger sequences, whoever held *)
(* the lease in between: a consumer that drops what it has seen drops no   *)
(* replayed event (replay, runCycle).                                      *)
SequencesGrow == \A i \in 2..Len(queued) : queued[i - 1][2] < queued[i][2]

(* A replay that returns has queued every event of its range once, in the  *)
(* order in which they first came; one that throws has queued the first    *)
(* few of them, and nothing else (replay, readLog).                        *)
ReplayExact ==
  /\ IsPrefix(replayed, expected)
  /\ replay.pc = "answered" /\ ~replay.threw => replayed = expected

(* A replay queues its range once and in order, under sequences that no    *)
(* run has used or will use (replay, runCycle).                            *)
ReplaySound == TypeOK /\ SequencesGrow /\ ReplayExact

-----------------------------------------------------------------------------
(* A strengthening of ReplaySound that every step keeps: the log has one   *)
(* entry of a sequence; who is not fenced out knows the sequence, and a    *)
(* run of the own instance has an epoch of its own; what was expected is   *)
(* still in the log, and is all there is in the range while the lease is   *)
(* held; a page that may still be committed is the next part of the range. *)
Numbered ==
  /\ IsFiniteSet(log)
  /\ \A e \in log : e.event = e.sequence /\ e.sequence <= sequence
  /\ \A d, e \in log : d.sequence = e.sequence => d = e
  /\ \A i \in 1..Len(queued) : queued[i][2] <= sequence

Active == replay.pc \in {"load", "read", "commit", "finally"}

Epochs ==
  /\ \A o \in Instance :
       runs[o].pc = "held" =>
         /\ runs[o].epoch <= lease.epoch
         /\ Fenced(o, runs[o].epoch) => runs[o].sequence = sequence
  /\ Active =>
       /\ replay.epoch <= lease.epoch
       /\ runs["own"].pc = "held" => runs["own"].epoch # replay.epoch
       /\ Fenced("own", replay.epoch) /\ replay.pc \in {"read", "commit"} =>
            replay.sequence = sequence

Ascending(q) == \A i, j \in DOMAIN q : i < j => q[i] < q[j]

InHand == {e.sequence : e \in InRange(replay.from, replay.to)}

Read ==
  /\ Ascending(expected) /\ Ascending(replayed)
  /\ Active =>
       /\ ToSet(expected) \subseteq InHand
       /\ Fenced("own", replay.epoch) => InHand = ToSet(expected)
       /\ ToSet(replayed) = {x \in ToSet(expected) : x <= replay.after}
  /\ replay.pc = "acquire" => replay.after = 0 /\ replayed = << >>

NextPage(page) ==
  LET new == {x \in InHand : x > replay.after}
  IN /\ page # << >> /\ Ascending(page) /\ ToSet(page) \subseteq new
     /\ \A x \in new : x <= Last(page) => x \in ToSet(page)
     /\ Len(page) < Limit => new \subseteq ToSet(page)

Matching(page) == \A i \in 1..Len(page) : page[i].event = page[i].sequence

Paged ==
  replay.pc = "commit" /\ Fenced("own", replay.epoch) =>
    Matching(replay.page) /\ NextPage(Events(replay.page))

Through == replay.pc = "finally" /\ ~replay.threw => replayed = expected

ReplayInv ==
  TypeOK /\ Numbered /\ SequencesGrow /\ Epochs /\ Read /\ Paged /\ Through /\ ReplayExact
=============================================================================
