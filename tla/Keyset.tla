------------------------------- MODULE Keyset -------------------------------
(***************************************************************************)
(* The timestamp cursor (src/cursor/timestamp.ts) as runCycle() of         *)
(* src/core/runner.ts uses it: the watermark (value, tieBreak), the lag    *)
(* that holds fresh items back, the overlap that is asked for again, and   *)
(* an API that lists what changed since a keyset, page by page, while rows *)
(* keep changing. A change is stamped when its transaction begins and is   *)
(* listed when it commits, at most Delay later.                            *)
(*                                                                         *)
(* Timestamps are whole numbers, and item ids are numbers whose order is   *)
(* both the API's order and that of their strings. Every item carries the  *)
(* field, and no item changes twice at one timestamp. A change is the pair *)
(* of an item and a timestamp. Commits, leases and delivery are those of   *)
(* Runner.                                                                 *)
(***************************************************************************)
EXTENDS Integers, FiniteSets

CONSTANTS
  Item,         \* item ids, positive numbers
  Config,       \* the pollers: lag, overlap, page size, how fetch() pages,
                \* and whether the last page names the watermark
  Delay,        \* the longest transaction of the API's database
  Latency,      \* the longest cycle
  MaxTime       \* bound: the clock

KeysetParameters ==
  /\ Item \subseteq Nat \ {0} /\ IsFiniteSet(Item)
  /\ Config \subseteq [lag : Nat, overlap : Nat, size : Nat \ {0},
                       iterable : BOOLEAN, override : BOOLEAN]
  /\ Delay \in Nat /\ Latency \in Nat /\ MaxTime \in Nat

VARIABLES
  now,
  config,       \* the poller's configuration
  row,          \* per item: the committed timestamp, and that of a change under way
  cursor,       \* the stored watermark
  cycle,        \* the cycle under way
  taken,        \* history: the present changes that were handed on
  owed          \* history: those the cycle found committed and old enough

vars == <<now, config, row, cursor, cycle, taken, owed>>

None == -1      \* null; before every timestamp
NoTie == 0      \* null; before every id

Keyset == [value : Nat \cup {None}, tie : Item \cup {NoTie}]

Rest(pc) == [pc |-> pc, from |-> cursor, page |-> {}, more |-> FALSE, stamp |-> None,
             left |-> Latency]

-----------------------------------------------------------------------------
(* The API *)

Before(x, y) == x.ts < y.ts \/ (x.ts = y.ts /\ x.id < y.id)

Committed == {[id |-> i, ts |-> row[i].ts] : i \in {j \in Item : row[j].ts # None}}

(* `field >= value`, and beyond the tie-break at exactly that value.       *)
Asked(x, from) == x.ts > from.value \/ (x.ts = from.value /\ x.id > from.tie)

Listed(from) == {x \in Committed : Asked(x, from)}

PageOf(from) ==
  {x \in Listed(from) : Cardinality({y \in Listed(from) : Before(y, x)}) < config.size}

(* The position after a page, for a fetch() that pages by itself.          *)
After(page, from) ==
  IF page = {} THEN from
  ELSE LET last == CHOOSE x \in page : \A y \in page : y = x \/ Before(y, x)
       IN [value |-> last.ts, tie |-> last.id]

(* A transaction stamps its change, and commits.                           *)
Stamp(i) ==
  /\ row[i].draft = None /\ row[i].ts < now
  /\ row' = [row EXCEPT ![i].draft = now]
  /\ UNCHANGED <<now, config, cursor, cycle, taken, owed>>

CommitChange(i) ==
  /\ row[i].draft # None
  /\ row' = [row EXCEPT ![i] = [ts |-> row[i].draft, draft |-> None]]
  /\ taken' = {x \in taken : x.id # i}
  /\ owed' = {x \in owed : x.id # i}
  /\ UNCHANGED <<now, config, cursor, cycle>>

-----------------------------------------------------------------------------
(* The strategy *)

(* Mutant: the overlap is left out.                                        *)
ForFetchExact(c) == c

(* forFetch(): the watermark less the overlap, without a tie-break.        *)
ForFetch(c) ==
  IF config.overlap = 0 \/ c.value = None THEN c
  ELSE [value |-> c.value - config.overlap, tie |-> NoTie]

(* Items newer than now - lag are left for a later cycle.                  *)
Kept(page) == {x \in page : x.ts <= now - config.lag}

(* The largest timestamp, and the largest tie-break at that timestamp.     *)
MaxOf(changes) ==
  LET top == CHOOSE x \in changes : \A y \in changes : y = x \/ Before(y, x)
  IN [value |-> top.ts, tie |-> top.id]

(* Mutant: fresh items are dropped, and move the watermark all the same.   *)
AdvanceFresh(c, page, stamp) ==
  IF stamp # None THEN [value |-> stamp, tie |-> NoTie]
  ELSE IF page = {} THEN c
  ELSE LET max == MaxOf(page)
       IN IF max.value > c.value THEN max
          ELSE IF max.value = c.value /\ max.tie > c.tie THEN max ELSE c

(* Mutant: the page decides, also one that lies behind the watermark.      *)
AdvanceBack(c, page, stamp) ==
  IF stamp # None THEN [value |-> stamp, tie |-> NoTie]
  ELSE IF Kept(page) = {} THEN c
  ELSE MaxOf(Kept(page))

(* advance(): a watermark the page names, or the larger of the page's and  *)
(* the present one.                                                        *)
Advance(c, page, stamp) ==
  IF stamp # None THEN [value |-> stamp, tie |-> NoTie]
  ELSE IF Kept(page) = {} THEN c
  ELSE LET max == MaxOf(Kept(page))
       IN IF max.value > c.value THEN max
          ELSE IF max.value = c.value /\ max.tie > c.tie THEN max ELSE c

-----------------------------------------------------------------------------
(* A cycle *)

Resting == cycle.pc \in {"idle", "done"}

Start ==
  /\ Resting
  /\ cycle' = [Rest("fetch") EXCEPT !.from = ForFetch(cursor)]
  /\ owed' = Kept(Committed)
  /\ UNCHANGED <<now, config, row, cursor, taken>>

(* The API answers; its last page may name the time of the response.       *)
Answer ==
  /\ cycle.pc = "fetch"
  /\ LET more == Cardinality(Listed(cycle.from)) > config.size
     IN cycle' = [cycle EXCEPT !.pc = "page", !.page = PageOf(cycle.from), !.more = more,
                               !.stamp = IF config.override /\ ~more THEN now ELSE None]
  /\ UNCHANGED <<now, config, row, cursor, taken, owed>>

(* The page is read: advance(), its items, the commit. The next page is    *)
(* asked for from the exact cursor, or by the iterable from where it is.   *)
Read ==
  /\ cycle.pc = "page"
  /\ cursor' = Advance(cursor, cycle.page, cycle.stamp)
  /\ taken' = taken \cup (Committed \cap IF cycle.stamp # None THEN cycle.page ELSE Kept(cycle.page))
  /\ cycle' = IF cycle.more
              THEN [cycle EXCEPT !.pc = "fetch", !.page = {},
                      !.from = IF config.iterable THEN After(cycle.page, cycle.from) ELSE cursor']
              ELSE [Rest("done") EXCEPT !.from = cursor']
  /\ UNCHANGED <<now, config, row, owed>>

(* The page cap, a deadline, an error, an abort or a crash.                *)
Cut ==
  /\ ~Resting
  /\ cycle' = Rest("idle")
  /\ owed' = {}
  /\ UNCHANGED <<now, config, row, cursor, taken>>

Tick ==
  /\ now < MaxTime
  /\ \A i \in Item : row[i].draft = None \/ now < row[i].draft + Delay
  /\ Resting \/ cycle.left > 0
  /\ now' = now + 1
  /\ cycle' = IF Resting THEN cycle ELSE [cycle EXCEPT !.left = @ - 1]
  /\ UNCHANGED <<config, row, cursor, taken, owed>>

-----------------------------------------------------------------------------
Init ==
  /\ now = 0
  /\ config \in Config
  /\ row = [i \in Item |-> [ts |-> None, draft |-> None]]
  /\ cursor = [value |-> None, tie |-> NoTie]
  /\ cycle = Rest("idle")
  /\ taken = {} /\ owed = {}

Next ==
  \/ Start \/ Answer \/ Read \/ Cut \/ Tick
  \/ \E i \in Item : Stamp(i) \/ CommitChange(i)

Spec == Init /\ [][Next]_vars

-----------------------------------------------------------------------------
Change == [id : Item, ts : Nat]

TypeOK ==
  /\ now \in Nat /\ config \in Config
  /\ row \in [Item -> [ts : Nat \cup {None}, draft : Nat \cup {None}]]
  /\ cursor \in Keyset
  /\ cycle \in [pc : {"idle", "done", "fetch", "page"},
                from : [value : Int, tie : Item \cup {NoTie}],
                page : SUBSET Change, more : BOOLEAN, stamp : Nat \cup {None},
                left : 0..Latency]
  /\ taken \cup owed \subseteq Change

(* No change is lost to late commits, ties, page boundaries, or a cycle    *)
(* cut short: between cycles, a committed change that was not taken lies   *)
(* in the range the next cycle asks for (advance, forFetch).               *)
NoneSkipped ==
  Resting => \A x \in Committed \ taken : Asked(x, ForFetch(cursor))

(* A cycle that ends by itself has taken every change that was committed,  *)
(* and old enough for the lag, when it began (advance, runCycle).          *)
CaughtUp == cycle.pc = "done" => owed \subseteq taken

(* The stored watermark never goes back, in spite of overlaps and of pages *)
(* that lie behind it (advance); a watermark that the API names drops the  *)
(* tie-break only.                                                         *)
WatermarkForward ==
  [][\/ cursor'.value > cursor.value
     \/ cursor'.value = cursor.value /\ (cursor'.tie >= cursor.tie \/ cycle.stamp # None)]_vars

(* The timestamp cursor: nothing committed is skipped, a whole cycle       *)
(* catches up, and the watermark does not go back (advance, forFetch).     *)
KeysetSound == [](TypeOK /\ NoneSkipped /\ CaughtUp) /\ WatermarkForward

-----------------------------------------------------------------------------
(* What the proof of KeysetSound assumes and needs (PagingProofs).         *)

(* A poller that waits out late commits: its lag exceeds the longest       *)
(* transaction and the longest cycle together.                             *)
Lagged(c) == c.lag > Delay + Latency /\ ~c.iterable /\ ~c.override

(* A poller that asks again for as much, in pages that hold everything or  *)
(* by a fetch() that keeps its own position.                               *)
Overlapped(c) ==
  /\ c.lag = 0 /\ c.overlap > 0 /\ c.overlap >= Delay + Latency
  /\ c.iterable \/ c.size >= Cardinality(Item)

Covered(c) == Lagged(c) \/ Overlapped(c)

(* Timestamps lie in the past: by the lag, where the cursor keeps to it;   *)
(* and a watermark that the API names lies ahead of the cursor.            *)
Clocked ==
  /\ \A i \in Item : /\ row[i].ts <= now /\ row[i].draft <= now
                     /\ row[i].draft # None => now <= row[i].draft + Delay
  /\ cursor.value <= now
  /\ Lagged(config) => cursor.value = None \/ cursor.value <= now - config.lag
  /\ cycle.stamp # None => /\ config.override /\ cycle.pc = "page" /\ ~cycle.more
                           /\ cursor.value <= cycle.stamp /\ cycle.stamp <= now
  /\ \A x \in cycle.page : x.ts <= now
  /\ IsFiniteSet(cycle.page)
  /\ \A x \in owed : x.ts <= now - config.lag

Pending == Committed \ taken

(* What was not taken is asked for again, at every moment; with a lag, not *)
(* even the overlap is needed.                                             *)
Reach == \A x \in Pending : Asked(x, IF Lagged(config) THEN cursor ELSE ForFetch(cursor))

(* Committed so late that the cycle need not see it.                       *)
Late(x) == x.ts >= now - (Latency - cycle.left) - Delay

(* The cycle is still to meet a change: in what it fetches, in the page it *)
(* reads, or behind that page.                                             *)
Ahead(x) ==
  /\ cycle.pc = "fetch" => Asked(x, cycle.from)
  /\ cycle.pc = "page" =>
       \/ x \in cycle.page
       \/ /\ cycle.more /\ Asked(x, cycle.from)
          /\ \A y \in cycle.page : Before(y, x)

Walk ==
  /\ \A x \in Pending : Ahead(x) \/ Late(x)
  /\ owed \subseteq Committed
  /\ \A x \in owed \ taken : Ahead(x) /\ cycle.pc # "done"
  /\ cycle.more => Lagged(config) \/ config.iterable

KeysetInv == TypeOK /\ Clocked /\ Reach /\ Walk
=============================================================================
