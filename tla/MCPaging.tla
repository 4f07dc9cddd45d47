------------------------------ MODULE MCPaging ------------------------------
(* What a poller carries from one poll to the next, while the world        *)
(* changes: the schedule of its key, and the positions of its readers, a   *)
(* timestamp cursor, the stream of the snapshot's identities and a replay  *)
(* of the log. A behaviour takes the steps of one of them, chosen in its   *)
(* first state.                                                            *)
EXTENDS Scheduler

CONSTANTS
  Parts,                                    \* those to choose from
  Item, Config, Delay, Latency, LastMoment,
  Ident, Size, Chunk, MaxWrites,
  Time, PageLimit, Tries, MaxSequence, MaxEpoch

VARIABLES
  chosen,
  moment, config, row, cursor, cycle, taken, owed,
  store, snapshot, listing, reader, lost, stable, ever, writes,
  sequence, lease, log, replay, runs, queued, expected, replayed

K == INSTANCE Keyset WITH now <- moment, MaxTime <- LastMoment

I == INSTANCE IdentityStream

R == INSTANCE Replay WITH Limit <- PageLimit

ASSUME PagingAssumption ==
  SchedulerParameters /\ K!KeysetParameters /\ I!StreamParameters /\ R!ReplayParameters

(* Pollers: lag over pages of one, overlap over pages that hold all, and   *)
(* overlap for a fetch() that pages by itself and names the watermark.     *)
Pollers ==
  {[lag |-> 3, overlap |-> 0, size |-> 1, iterable |-> FALSE, override |-> FALSE],
   [lag |-> 0, overlap |-> 2, size |-> 2, iterable |-> FALSE, override |-> FALSE],
   [lag |-> 0, overlap |-> 2, size |-> 1, iterable |-> TRUE, override |-> TRUE]}

(* They are pollers of the kind KeysetKept is about (PagingProofs).        *)
ASSUME PollersCovered == Config = Pollers => \A c \in Config : K!Covered(c)

(* Overlap over pages of one.                                              *)
SmallPages == {[lag |-> 0, overlap |-> 2, size |-> 1, iterable |-> FALSE, override |-> FALSE]}

keysetVars == <<moment, config, row, cursor, cycle, taken, owed>>
streamVars == <<store, snapshot, listing, reader, lost, stable, ever, writes>>
replayVars == <<sequence, lease, log, replay, runs, queued, expected, replayed>>

PagingInit ==
  /\ chosen \in Parts
  /\ Init
  /\ K!Init /\ (chosen # "keyset" => config = CHOOSE c \in Config : TRUE)
  /\ I!Init /\ (chosen # "stream" => store = "sql" /\ snapshot = {} /\ listing = {})
  /\ R!Init

PagingNext ==
  /\ UNCHANGED chosen
  /\ \/ chosen = "schedule" /\ Next /\ UNCHANGED <<keysetVars, streamVars, replayVars>>
     \/ chosen = "keyset" /\ K!Next /\ UNCHANGED <<vars, streamVars, replayVars>>
     \/ chosen = "stream" /\ I!Next /\ UNCHANGED <<vars, keysetVars, replayVars>>
     \/ chosen = "replay" /\ R!Next /\ UNCHANGED <<vars, keysetVars, streamVars>>

PagingSpec ==
  PagingInit /\ [][PagingNext]_<<chosen, vars, keysetVars, streamVars, replayVars>>

(* The timestamp cursor skips nothing, catches up and does not go back     *)
(* (advance, forFetch): see Keyset.                                        *)
KeysetSound == K!KeysetSound

(* The part of KeysetSound that says what is asked for again (forFetch).   *)
NoneSkipped == K!NoneSkipped

(* The end of a scan sees and deletes what it should (streamIdentities,    *)
(* runCycle): see IdentityStream.                                          *)
StreamSound == I!StreamSound

(* A replay queues its range once, in order, under fresh sequences         *)
(* (replay): see Replay.                                                   *)
ReplaySound == R!ReplaySound
=============================================================================
