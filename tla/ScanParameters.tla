--------------------------- MODULE ScanParameters ---------------------------
(* The parameters of FullScan: the poller's definition and the polled API. *)
EXTENDS Integers

CONSTANTS
  Identity,   \* item identities
  Version,    \* contents of an item
  Absent,     \* no such item
  PageOf,     \* the page of the listing an item is on
  LastPage,   \* pages in the listing
  PageCap,    \* FULL_SCAN_PAGE_CAP
  FetchBy,    \* does the poller's fetch go by ctx.page or by ctx.cursor?
  Iterable,   \* does it return an async iterable of pages?
  Invalid,    \* contents that fail the poller's schema
  OnInvalid,  \* poller.onInvalid
  Conditional,\* does the API answer conditional requests?
  MaxChanges, \* bound: changes of items
  MaxMishaps  \* bound: failures, crashes, deadlines, stops

ASSUME ScanAssumption ==
  /\ Absent \notin Version
  /\ LastPage \in Nat \ {0}
  /\ PageOf \in [Identity -> 1..LastPage]
  /\ PageCap \in Nat \ {0}
  /\ FetchBy \in {"page", "cursor"}
  /\ Iterable \in BOOLEAN
  /\ Invalid \subseteq Version
  /\ OnInvalid \in {"quarantine", "skip", "fail"}
  /\ Conditional \in BOOLEAN
  /\ MaxChanges \in Nat
  /\ MaxMishaps \in Nat
=============================================================================
