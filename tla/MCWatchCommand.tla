----------------------------- MODULE MCWatchCommand -----------------------------
(***************************************************************************)
(* Instances of WatchCommand for TLC: an overloaded function f and a       *)
(* function g, with arguments that name one, match all and match nothing.  *)
(***************************************************************************)
EXTENDS WatchCommand

MCSymbols == <<"f", "f", "g">>

Exact    == [name |-> "f",    matches |-> {"f", "g"}]
Pattern  == [name |-> "[fg]", matches |-> {"f", "g"}]
Nonsense == [name |-> "x",    matches |-> {}]

MCArguments == {Exact, Pattern, Nonsense}

\* Commands with a negative count, an empty one and one of a single call.
MCCounts == {-1, 0, 1}

================================================================================
