-------------------------------- MODULE Observer --------------------------------
(***************************************************************************)
(* What AttachEngine::trace() and AttachEngine::stack() promise to their   *)
(* caller, the prompt or the fallback of watch_checked(), and to the       *)
(* target: nothing of breakpoints, stops and signals, only how a command   *)
(* may begin and end and who holds the target in between.  PtraceSession   *)
(* implements this module, and WatchCommand is built on it.                *)
(***************************************************************************)
EXTENDS Integers

CONSTANT Counts     \* values of the count argument

VARIABLES
    phase,          \* a command is active, or uatu is idle or gone
    outcome,        \* how the last command ended
    count,          \* its count argument
    nodes,          \* number of results it has
    stop_flag,      \* Ctrl-C since it began
    expired,        \* its time is up
    held,           \* uatu is attached to the target
    clean,          \* the target's text is the program
    alive           \* the target lives

command == <<phase, outcome, count, nodes>>
target == <<held, clean, alive>>
observerVars == <<command, stop_flag, expired, target>>

ObserverTypeOK ==
    /\ phase \in {"idle", "active", "exited"}
    /\ outcome \in {"none", "returned", "threw"}
    /\ count \in Counts \cup {0}
    /\ nodes \in Nat
    /\ stop_flag \in BOOLEAN
    /\ expired \in BOOLEAN
    /\ held \in BOOLEAN
    /\ clean \in BOOLEAN
    /\ alive \in BOOLEAN

ObserverInit ==
    /\ phase = "idle" /\ outcome = "none" /\ count = 0 /\ nodes = 0
    /\ stop_flag = FALSE /\ expired = FALSE
    /\ held = FALSE /\ clean = TRUE /\ alive = TRUE

Begin(n) ==
    /\ phase = "idle"
    /\ count' = n /\ nodes' = 0
    /\ stop_flag' = FALSE /\ expired' = FALSE

\* The target is attached.  It is one that nobody holds, and so one whose text
\* is its own: no command takes the patches of another for the program.
Start(n) ==
    /\ Begin(n)
    /\ alive /\ ~held /\ clean
    /\ phase' = "active" /\ outcome' = "none"
    /\ held' = TRUE
    /\ UNCHANGED <<clean, alive>>

\* No function, no address, or no permission to attach.
Refuse(n) ==
    /\ Begin(n)
    /\ outcome' = "threw"
    /\ UNCHANGED <<phase, target>>

\* The first breakpoint is written, and the time of the command begins.  Room for
\* the results is reserved first, which throws for a negative count.
Arm ==
    /\ phase = "active" /\ held /\ alive /\ nodes = 0 /\ count >= 0
    /\ clean' = FALSE /\ expired' = FALSE
    /\ UNCHANGED <<command, stop_flag, held, alive>>

\* A stop is handled: breakpoints come and go, and there may be a result more,
\* but never more than were asked for.
Observe ==
    /\ phase = "active" /\ held /\ alive
    /\ \/ nodes' = nodes
       \/ nodes < count /\ nodes' = nodes + 1
    /\ clean' \in BOOLEAN
    /\ UNCHANGED <<phase, outcome, count, stop_flag, expired, held, alive>>

\* A command may return with fewer results than were asked for only for a reason.
Excused == stop_flag \/ expired \/ ~alive

\* The command has left the target as it was, or the target is dead.  A command
\* with a negative count never comes to its loop, and so never returns.
Return ==
    /\ phase = "active" /\ count >= 0
    /\ nodes >= count \/ Excused
    /\ phase' = "idle" /\ outcome' = "returned"
    /\ clean' = TRUE /\ held' = (held /\ ~alive)
    /\ alive \/ clean
    /\ UNCHANGED <<count, nodes, stop_flag, expired, alive>>

\* The command fails.  It lets go of the target only if its text is its own.
Throw ==
    /\ phase = "active"
    /\ phase' = "idle" /\ outcome' = "threw"
    /\ \/ held' = held
       \/ clean /\ held' = FALSE
    /\ UNCHANGED <<count, nodes, stop_flag, expired, clean, alive>>

\* uatu exits or is killed: the kernel lets go of the target.
Vanish ==
    /\ phase # "exited"
    /\ phase' = "exited" /\ held' = FALSE
    /\ UNCHANGED <<outcome, count, nodes, stop_flag, expired, clean, alive>>

request_stop ==
    /\ phase # "exited"
    /\ stop_flag' = TRUE
    /\ UNCHANGED <<command, expired, target>>

Expire ==
    /\ phase = "active"
    /\ expired' = TRUE
    /\ UNCHANGED <<command, stop_flag, target>>

Die ==
    /\ alive' = FALSE
    /\ UNCHANGED <<command, stop_flag, expired, held, clean>>

ObserverNext ==
    \/ \E n \in Counts : Start(n) \/ Refuse(n)
    \/ Arm \/ Observe \/ Return \/ Throw \/ Vanish
    \/ request_stop \/ Expire \/ Die

ObserverSpec == ObserverInit /\ [][ObserverNext]_observerVars

================================================================================
