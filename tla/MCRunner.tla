------------------------------ MODULE MCRunner ------------------------------
(***************************************************************************)
(* Instances of Runner for TLC.                                            *)
(***************************************************************************)
EXTENDS Runner, TLC

CONSTANTS a, b, r1, r2, k1, k2, v1, v2

(* Two runs of two instances, two overlapping runs of one, or one run.     *)
TwoInstances == r1 :> a @@ r2 :> b
OneInstance == r1 :> a @@ r2 :> a
OneRun == r1 :> a

(* Exchanging the two instances together with their runs, and the versions *)
(* or the items among themselves, maps behaviours to behaviours.           *)
Swap == {a :> a @@ b :> b @@ r1 :> r1 @@ r2 :> r2, a :> b @@ b :> a @@ r1 :> r2 @@ r2 :> r1}

Symmetry == {f @@ g @@ h : f \in Swap, g \in Permutations(Version), h \in Permutations(Identity)}

(* Either the longest feed or the most mishaps, not both: a bound on the   *)
(* work of TLC.                                                            *)
Explored == Len(feed) < MaxFeed \/ mishaps < MaxMishaps
=============================================================================
