----------------------------- MODULE WatchRefinement -----------------------------
(***************************************************************************)
(* WatchEbpf implements EbpfPath: what the rest of watch_checked() and the *)
(* target see of the eBPF path.                                            *)
(***************************************************************************)
EXTENDS WatchEbpf

Path == INSTANCE EbpfPath WITH
          status    <- IF phase \in {"returned", "fallback"} THEN phase ELSE "active",
          collected <- Len(events),
          stopped   <- stop_flag,
          probed    <- links # {}

\* Seen from outside, the eBPF path collects no more events than were asked for,
\* returns early only after Ctrl-C or the deadline, throws events away for the
\* fallback only while it has none, and leaves no probe however it ends.
ImplementsEbpfPath == Path!EbpfSpec

================================================================================
