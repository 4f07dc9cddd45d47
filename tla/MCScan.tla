------------------------------- MODULE MCScan -------------------------------
(* Two pollers, of which a behaviour runs one: the poller of the constants *)
(* and one whose fetch returns an async iterable of the pages of an API    *)
(* without conditional requests, with a smaller page cap (I).              *)
EXTENDS MCFullScan

VARIABLE chosen

I == INSTANCE FullScan WITH
  Version <- {v1, v2}, PageCap <- 2, Iterable <- TRUE, Invalid <- {}, OnInvalid <- "quarantine",
  Conditional <- FALSE, MaxMishaps <- 1

ScanInit ==
  \/ chosen = "pages" /\ Init
  \/ chosen = "iterable" /\ I!Init

ScanNext ==
  \/ chosen = "pages" /\ Next /\ UNCHANGED chosen
  \/ chosen = "iterable" /\ I!Next /\ UNCHANGED chosen

ScanSpec ==
  ScanInit /\ [][ScanNext]_<<chosen, vars>> /\ WF_vars(chosen = "iterable" /\ I!Cycle)

(* When the items stop changing, the snapshot of the iterable's poller     *)
(* becomes and stays the listing (runCycle): see FullScan.                 *)
IterableMirrors == chosen = "iterable" => Mirrors
=============================================================================
