------------------------------ MODULE WatchCommand ------------------------------
(***************************************************************************)
(* The prompt of main() and AttachEngine::watch_checked() as a whole: the  *)
(* resolution of its argument, its eBPF path as one step (WatchEbpf has    *)
(* the details) and its ptrace fallback, which runs trace() for one target *)
(* after the other.  trace() and stack() are the commands of Observer.     *)
(*                                                                         *)
(* place is where the prompt's thread is:                                  *)
(*   prompt      waiting for a line                                        *)
(*   single      in trace() or stack(), called from the prompt             *)
(*   ebpf        in the eBPF path of watch_checked()                       *)
(*   fallback    in ptrace_watch, between two calls of trace()             *)
(*   tracing     in ptrace_watch, in trace()                               *)
(***************************************************************************)
EXTENDS Observer, Sequences, SequencesExt

CONSTANTS
    Symbols,        \* the names of the functions in the symbol index, in order
    Arguments,      \* what may be typed: a name, and the names it matches
    MaxLines        \* bound: lines typed

Symbol == 1 .. Len(Symbols)

ASSUME CommandAssumption ==
    /\ Counts \subseteq Int
    /\ Symbols \in Seq(STRING)
    /\ \A a \in Arguments : a.name \in STRING /\ a.matches \subseteq STRING
    /\ MaxLines \in Nat

VARIABLES
    place,
    lines,          \* lines typed
    arg,            \* the argument of the last command
    wanted,         \* its count
    targets,        \* the functions it was resolved to
    todo,           \* those of them the fallback has not yet traced
    evs,            \* WatchEvents: the function that was observed, for each
    shown,          \* what the last command printed: nodes of trace or stack,
                    \* samples of the eBPF path, events of the fallback, an error
    \* History.
    told,           \* Ctrl-C during a trace() of this command
    cut             \* a trace() of this command ended early

watchVars == <<lines, arg, wanted, targets>>
vars == <<observerVars, place, watchVars, todo, evs, shown, told, cut>>

TypeOK ==
    /\ ObserverTypeOK
    /\ place \in {"prompt", "single", "ebpf", "fallback", "tracing"}
    /\ lines \in 0 .. MaxLines
    /\ arg \in Arguments
    /\ wanted \in Counts \cup {0}
    /\ targets \subseteq Symbol /\ todo \subseteq targets
    /\ place \in {"ebpf", "fallback", "tracing"} => targets # {}
    /\ place = "tracing" => todo # {}
    /\ evs \in Seq(Symbol)
    /\ shown \in {"nothing", "nodes", "samples", "events", "error"}
    /\ told \in BOOLEAN
    /\ cut \in BOOLEAN

Init ==
    /\ ObserverInit
    /\ place = "prompt" /\ lines = 0
    /\ arg \in Arguments /\ wanted = 0
    /\ targets = {} /\ todo = {} /\ evs = <<>>
    /\ shown = "nothing" /\ told = FALSE /\ cut = FALSE

--------------------------------------------------------------------------------
(* The symbol index, as watch_checked() and trace() use it.  It holds functions  *)
(* with an address only, so that watch_checked() has none to remove.            *)

Named(name) == {i \in Symbol : Symbols[i] = name}

First(S) == CHOOSE i \in S : \A j \in S : i <= j

\* find: the first function of that name.
find(name) == IF Named(name) = {} THEN {} ELSE {First(Named(name))}

\* find_regex: all functions whose name matches.
find_regex(a) == {i \in Symbol : Symbols[i] \in a.matches}

\* Fault: the argument is always taken for a regular expression.
ResolveByRegex(a) == find_regex(a)

\* An exact match is preferred.
Resolve(a) == IF find(a.name) # {} THEN find(a.name) ELSE find_regex(a)

\* Fault: a pattern without a match is not noticed.
NeverEmpty(a) == TRUE

Found(a) == Resolve(a) # {}

--------------------------------------------------------------------------------
(* The prompt *)

Type(a, n) ==
    /\ place = "prompt" /\ phase = "idle" /\ lines < MaxLines
    /\ lines' = lines + 1
    /\ arg' = a /\ wanted' = n
    /\ evs' = <<>> /\ todo' = targets'
    /\ told' = FALSE /\ cut' = FALSE

\* trace or stack is called, and has attached.
TypeSingle(a, n) ==
    /\ find(a.name) # {} /\ Start(n)
    /\ targets' = find(a.name)
    /\ Type(a, n)
    /\ place' = "single" /\ shown' = "nothing"

\* trace or stack fails before it has attached.
TypeRefused(a, n) ==
    /\ Refuse(n)
    /\ targets' = find(a.name)
    /\ Type(a, n)
    /\ shown' = "error"
    /\ UNCHANGED place

\* watch clears the flag and resolves its argument.
TypeWatch(a, n) ==
    /\ stop_flag' = FALSE
    /\ targets' = Resolve(a)
    /\ Type(a, n)
    /\ IF Found(a)
       THEN shown' = "nothing" /\ place' \in {"ebpf", "fallback"}
       ELSE shown' = "error" /\ UNCHANGED place
    /\ UNCHANGED <<command, expired, target>>

\* A count or a timeout that is no number: std::stoi throws outside of the try
\* block and the process ends.  So it does on quit and at the end of the input.
Leave ==
    /\ place = "prompt"
    /\ Vanish
    /\ UNCHANGED <<place, watchVars, todo, evs, shown, told, cut>>

\* A result or an error is printed, and the prompt comes back.
Show(what) ==
    /\ shown' = what
    /\ place' = "prompt"
    /\ UNCHANGED <<watchVars, told>>

SingleReturns ==
    /\ place = "single" /\ Return
    /\ Show("nodes")
    /\ cut' = (nodes < count)
    /\ UNCHANGED <<todo, evs>>

SingleThrows ==
    /\ place = "single" /\ Throw
    /\ Show("error")
    /\ UNCHANGED <<todo, evs, cut>>

--------------------------------------------------------------------------------
(* watch_checked *)

\* The eBPF path returns; its targets are observed side by side, and it
\* collects no more events than wanted.
EbpfReturns ==
    /\ place = "ebpf" /\ wanted >= 0
    /\ \E k \in 0 .. wanted : evs' \in [1 .. k -> targets]
    /\ Show("samples")
    /\ cut' = (Len(evs') < wanted)
    /\ UNCHANGED <<observerVars, todo>>

\* events.reserve of a negative number throws outside of the try block.
EbpfThrows ==
    /\ place = "ebpf" /\ wanted < 0
    /\ Show("error")
    /\ UNCHANGED <<observerVars, todo, evs, cut>>

\* The loader throws; nothing is collected yet (EbpfPath!Fail).
EbpfFails ==
    /\ place = "ebpf" /\ wanted >= 0
    /\ place' = "fallback"
    /\ UNCHANGED <<observerVars, watchVars, todo, evs, shown, told, cut>>

\* trace() is called with the name of the next target, which it looks up again.
FallbackStarts ==
    /\ place = "fallback" /\ todo # {}
    /\ Start(wanted)
    /\ place' = "tracing"
    /\ UNCHANGED <<watchVars, todo, evs, shown, told, cut>>

\* The function that trace() finds under the name of the next target.
Traced == First(Named(Symbols[First(todo)]))

TraceReturns ==
    /\ place = "tracing" /\ Return
    /\ evs' = evs \o [k \in 1 .. nodes |-> Traced]
    /\ todo' = todo \ {First(todo)}
    /\ cut' = (cut \/ nodes < count)
    /\ place' = "fallback"
    /\ UNCHANGED <<watchVars, shown, told>>

\* Fault: an exception of trace() is caught and the next target is traced.
CarryOn ==
    /\ todo' = todo \ {First(todo)}
    /\ place' = "fallback"
    /\ UNCHANGED <<watchVars, evs, shown, told, cut>>

\* Fault: an exception of trace() is caught and the same target is traced again.
Retry ==
    /\ place' = "fallback"
    /\ UNCHANGED <<watchVars, todo, evs, shown, told, cut>>

\* An exception of trace() leaves watch_checked(), with all events lost.
GiveUp ==
    /\ Show("error")
    /\ evs' = <<>>
    /\ UNCHANGED <<todo, cut>>

\* trace() cannot attach.
FallbackRefused ==
    /\ place = "fallback" /\ todo # {}
    /\ Refuse(wanted)
    /\ GiveUp

TraceThrows == place = "tracing" /\ Throw /\ GiveUp

FallbackReturns ==
    /\ place = "fallback" /\ todo = {}
    /\ Show("events")
    /\ UNCHANGED <<observerVars, todo, evs, cut>>

--------------------------------------------------------------------------------
(* The SIGINT handler, and what happens inside of a command *)

PressCtrlC ==
    /\ request_stop
    /\ told' = (told \/ phase = "active")
    /\ UNCHANGED <<place, watchVars, todo, evs, shown, cut>>

Inside ==
    /\ Arm \/ Observe \/ Expire \/ Die
    /\ UNCHANGED <<place, watchVars, todo, evs, shown, told, cut>>

\* The steps by which a command comes to its end.
Ending ==
    \/ SingleReturns \/ SingleThrows
    \/ EbpfReturns \/ EbpfThrows \/ EbpfFails
    \/ FallbackStarts \/ FallbackRefused
    \/ TraceReturns \/ TraceThrows \/ FallbackReturns

Next ==
    \/ \E a \in Arguments, n \in Counts :
         TypeSingle(a, n) \/ TypeRefused(a, n) \/ TypeWatch(a, n)
    \/ Ending
    \/ Leave
    \/ PressCtrlC
    \/ Inside

Spec == Init /\ [][Next]_vars

\* Every call of trace() and stack() ends (Terminates of PtraceSession), and so
\* does the loop of the eBPF path.
FairSpec == Spec /\ WF_vars(Ending)

--------------------------------------------------------------------------------
(* Properties *)

\* The functions an argument asks for: those of that very name if there are any
\* (overloads share one name), and otherwise those whose name matches.
Asked(a) ==
    IF Named(a.name) # {}
    THEN Named(a.name)
    ELSE {i \in Symbol : Symbols[i] \in a.matches}

\* Whatever a command observes, on the eBPF path, which goes by address, or in
\* the fallback, which looks names up a second time, was asked for.
OnlyAsked == \A k \in DOMAIN evs : evs[k] \in Asked(arg)

\* When the prompt is back with a result of trace, stack or the fallback, the
\* target's text is its own and nobody holds it: a failure in one of the calls
\* of trace() is never hidden by the results of the others.
ResultMeansClean ==
    (place = "prompt" /\ shown \in {"nodes", "events"} /\ phase = "idle")
        => clean /\ (held => ~alive)

\* A fallback that ran to its end, in which each trace() met as many calls as it
\* asked for, has an event of every name that was matched, whatever becomes of the
\* target meanwhile and though each name is looked up a second time.
EveryNameObserved ==
    (shown = "events" /\ ~cut /\ wanted > 0)
        => \A i \in targets : \E k \in DOMAIN evs : Symbols[evs[k]] = Symbols[i]

\* The prompt comes back, however many functions a pattern matches and however
\* the calls of trace() for them end.
CommandEnds == (place # "prompt") ~> (place = "prompt")

\* README.md says that Ctrl-C stops the command and brings the prompt back: no
\* further call of trace() begins once the user has said so.
StopEndsCommand == [][told /\ place = "fallback" => place' # "tracing"]_vars

\* docs/commands/watch.md says that a pattern observes all functions it matches.
\* So a fallback that ran to its end, in which each trace() met as many calls as
\* it asked for, has an event of each.
AllMatchesObserved ==
    (shown = "events" /\ ~told /\ ~cut /\ wanted > 0)
        => targets \subseteq Range(evs)

================================================================================
