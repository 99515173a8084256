------------------------------ MODULE MCWatchEbpf ------------------------------
(***************************************************************************)
(* Instances of WatchEbpf for TLC.                                         *)
(***************************************************************************)
EXTENDS WatchRefinement, TLC

CONSTANTS t1, t2

\* Two functions, and two functions of which the first is matched twice.
Apart == <<1, 2>>
Shared == <<1, 2, 1>>

Symmetry == Permutations({t1, t2})

================================================================================
