----------------------------- MODULE MCPtraceSession -----------------------------
(***************************************************************************)
(* Instances of PtraceSession for TLC: words of 3 bytes, INT3 of 1 byte,    *)
(* and return sites that share bytes with the word at the entry.           *)
(***************************************************************************)
EXTENDS PtraceRefinement

MCCode == [a \in 0 .. 7 |-> a]

\* Commands with a negative count, an empty one and one of a single call.
MCShortCounts == {-1, 0, 1}

================================================================================
