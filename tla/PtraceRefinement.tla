----------------------------- MODULE PtraceRefinement -----------------------------
(***************************************************************************)
(* PtraceSession implements Observer: what a caller of trace() or stack()  *)
(* sees of a command, and of the state in which it leaves the target.      *)
(***************************************************************************)
EXTENDS PtraceSession

Obs == INSTANCE Observer WITH
         phase <- IF pc \in {"idle", "exited"} THEN pc ELSE "active",
         nodes <- Len(results),
         held  <- traced,
         clean <- text = Code,
         alive <- tstate # "dead"

\* Seen from outside, every step of a command is one that Observer allows: it
\* begins on a target that nobody holds and whose text is its own, it collects
\* no more results than asked for, returns early only for a reason and never with
\* a breakpoint left behind, and if it fails it lets go of the target only when
\* the text is its own.
ImplementsObserver == Obs!ObserverSpec

================================================================================
