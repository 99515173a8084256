-------------------------------- MODULE EbpfPath --------------------------------
(***************************************************************************)
(* What the eBPF path of AttachEngine::watch_checked() promises to the     *)
(* rest of the command and to the target: nothing of maps, records and     *)
(* polls, only how it may end, with how many events, and that no probe     *)
(* outlives it.  WatchEbpf implements this module; the steps EbpfReturns   *)
(* and EbpfFails of WatchCommand are its Return and Fail.                  *)
(***************************************************************************)
EXTENDS Integers

CONSTANT MaxEvents      \* the max_events argument

VARIABLES
    status,             \* active, returned, or given up in favour of ptrace
    collected,          \* number of events
    stopped, expired,   \* Ctrl-C, and the deadline
    probed              \* uatu has a probe in the target

ebpfVars == <<status, collected, stopped, expired, probed>>

EbpfInit ==
    /\ status = "active" /\ collected = 0
    /\ stopped = FALSE /\ expired = FALSE /\ probed = FALSE

Attach ==
    /\ status = "active"
    /\ probed' = TRUE
    /\ UNCHANGED <<status, collected, stopped, expired>>

\* An event more, but never more than were asked for.
Collect ==
    /\ status = "active" /\ probed /\ collected < MaxEvents
    /\ collected' = collected + 1
    /\ UNCHANGED <<status, stopped, expired, probed>>

Ends(how) ==
    /\ status = "active"
    /\ status' = how /\ probed' = FALSE
    /\ UNCHANGED <<collected, stopped, expired>>

\* It returns with fewer events than were asked for only for a reason.
Return == (collected >= MaxEvents \/ stopped \/ expired) /\ Ends("returned")

\* It gives way to the fallback only while there is nothing to lose.
Fail == collected = 0 /\ Ends("fallback")

Stop ==
    /\ status = "active"
    /\ stopped' = TRUE
    /\ UNCHANGED <<status, collected, expired, probed>>

Expire ==
    /\ status = "active"
    /\ expired' = TRUE
    /\ UNCHANGED <<status, collected, stopped, probed>>

EbpfNext == Attach \/ Collect \/ Return \/ Fail \/ Stop \/ Expire

EbpfSpec == EbpfInit /\ [][EbpfNext]_ebpfVars

================================================================================
