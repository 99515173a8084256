--------------------------------- MODULE Target ---------------------------------
(***************************************************************************)
(* The process that uatu observes and the part of the kernel that stands   *)
(* between the two: ptrace stops, signal delivery and the breakpoint trap. *)
(* None of it is code of the repository; it is modelled from how           *)
(* attach_engine.cpp uses ptrace(2), waitpid(2) and signal(7).             *)
(*                                                                         *)
(* Only the main thread (the pid given to PTRACE_ATTACH) has a control     *)
(* state here.  It calls the traced function, whose first instruction is   *)
(* at Entry, from call sites that return to RetSites; everything else it   *)
(* executes is Elsewhere.  The other threads of a multi-threaded target    *)
(* share its text and are never stopped by PTRACE_ATTACH.                  *)
(***************************************************************************)
EXTENDS TextPatch, Sequences

CONSTANTS
    Entry,          \* runtime address of the traced function
    RetSites,       \* addresses its calls return to
    Signals,        \* signals the outside world may send to the target
    MultiThreaded,  \* other threads execute the same text
    Exceptions,     \* calls may also be left by C++ stack unwinding
    MaxDepth,       \* bound: nesting of calls of the traced function
    MaxCalls,       \* bound: calls of the traced function
    MaxSignals      \* bound: signals sent from outside

Sites == {Entry} \cup RetSites
Elsewhere == -1

ASSUME SitesAssumption ==
    /\ Entry \in WordAddr
    /\ RetSites \subseteq WordAddr
    /\ Entry \notin RetSites
    \* A byte past the first of an instruction starts no instruction.
    /\ \A a, b \in Sites : a # b => a + BpLen <= b \/ b + BpLen <= a
    /\ PCAdjust # 0 => \A a \in Sites : a + PCAdjust \notin Sites

ASSUME TargetAssumption ==
    /\ Signals \subseteq {"USR", "TRAP"}
    /\ MultiThreaded \in BOOLEAN
    /\ Exceptions \in BOOLEAN
    /\ MaxDepth \in Nat /\ MaxCalls \in Nat /\ MaxSignals \in Nat

VARIABLES
    text,       \* the text segment, as the processor sees it
    tstate,     \* scheduling state of the main thread
    traced,     \* uatu is the tracer of the main thread
    sig,        \* the signal of the current ptrace stop
    pending,    \* signals sent and not yet taken
    jobstop,    \* a stop signal took effect: job control keeps it stopped
    ip,         \* next instruction of the main thread
    stk,        \* active calls of the traced function, innermost first
    calls,      \* calls made so far; also the identity of the next call
    sent,       \* signals sent so far
    \* History of what happened to the target.
    popped,     \* the call that returned last
    unwound,    \* calls left by unwinding
    lost,       \* signals taken from the target and never delivered
    derailed,   \* executed from the middle of a replaced instruction
    cause       \* why the target died

targetVars == <<text, tstate, traced, sig, pending, jobstop, ip, stk, calls,
                sent, popped, unwound, lost, derailed, cause>>

\* waitpid reports SIGTRAP for a breakpoint ("INT3") and for a SIGTRAP sent
\* by somebody ("TRAP") alike.
SIGTRAP == {"INT3", "TRAP"}

Frame == [ret : RetSites, id : Nat]

TargetTypeOK ==
    /\ text \in Text
    /\ tstate \in {"running", "stopped", "jobstopped", "dead"}
    /\ traced \in BOOLEAN
    /\ sig \in {"none", "STOP", "GROUP", "USR"} \cup SIGTRAP
    /\ pending \subseteq {"STOP", "USR", "TRAP"}
    /\ jobstop \in BOOLEAN
    /\ ip \in {Elsewhere} \cup Sites \cup {a + PCAdjust : a \in Sites}
    /\ stk \in Seq(Frame)
    /\ calls \in Nat
    /\ sent \in Nat
    /\ popped \in Nat
    /\ unwound \subseteq Nat
    /\ lost \subseteq Signals
    /\ derailed \in BOOLEAN
    /\ cause \in {"none", "exit", "kill", "int3"}

\* uatu may start while the traced function is already active.
TargetInit ==
    /\ text = Code
    /\ tstate = "running"
    /\ traced = FALSE
    /\ sig = "none"
    /\ pending = {}
    /\ jobstop = FALSE
    /\ ip = Elsewhere
    /\ stk \in {<<>>} \cup {<<[ret |-> r, id |-> 0]>> : r \in RetSites}
    /\ calls = 1
    /\ sent = 0
    /\ popped = 0
    /\ unwound = {}
    /\ lost = {}
    /\ derailed = FALSE
    /\ cause = "none"

--------------------------------------------------------------------------------
(* Steps of the main thread *)

Call(r) ==
    /\ tstate = "running" /\ ip = Elsewhere
    /\ Len(stk) < MaxDepth /\ calls < MaxCalls
    /\ stk' = <<[ret |-> r, id |-> calls]>> \o stk
    /\ calls' = calls + 1
    /\ ip' = Entry
    /\ UNCHANGED <<text, tstate, traced, sig, pending, jobstop, sent, popped,
                   unwound, lost, derailed, cause>>

Return ==
    /\ tstate = "running" /\ ip = Elsewhere /\ stk # <<>>
    /\ stk' = Tail(stk)
    /\ popped' = Head(stk).id
    /\ ip' = Head(stk).ret
    /\ UNCHANGED <<text, tstate, traced, sig, pending, jobstop, calls, sent,
                   unwound, lost, derailed, cause>>

\* An exception leaves the call without executing its return site.
Unwind ==
    /\ Exceptions
    /\ tstate = "running" /\ ip = Elsewhere /\ stk # <<>>
    /\ stk' = Tail(stk)
    /\ unwound' = unwound \cup {Head(stk).id}
    /\ UNCHANGED <<text, tstate, traced, sig, pending, jobstop, ip, calls, sent,
                   popped, lost, derailed, cause>>

\* The instruction at a site is the program's own.
Execute ==
    /\ tstate = "running" /\ ip \in Sites /\ ~TrapAt(text, ip)
    /\ ip' = Elsewhere
    /\ UNCHANGED <<text, tstate, traced, sig, pending, jobstop, stk, calls, sent,
                   popped, unwound, lost, derailed, cause>>

\* The instruction at a site is a breakpoint: a tracee stops past it, an
\* untraced process dies of SIGTRAP.
Trap ==
    /\ tstate = "running" /\ ip \in Sites /\ TrapAt(text, ip)
    /\ ip' = ip + PCAdjust
    /\ IF traced
       THEN /\ tstate' = "stopped" /\ sig' = "INT3"
            /\ UNCHANGED cause
       ELSE /\ tstate' = "dead" /\ cause' = "int3"
            /\ UNCHANGED sig
    /\ UNCHANGED <<text, traced, pending, jobstop, stk, calls, sent, popped,
                   unwound, lost, derailed>>

\* Execution goes on behind a breakpoint whose instruction was never replayed.
Derail ==
    /\ tstate = "running" /\ ip \notin Sites \cup {Elsewhere}
    /\ derailed' = TRUE
    /\ ip' = Elsewhere
    /\ UNCHANGED <<text, tstate, traced, sig, pending, jobstop, stk, calls, sent,
                   popped, unwound, lost, cause>>

Exit ==
    /\ tstate = "running" /\ ip = Elsewhere
    /\ tstate' = "dead" /\ cause' = "exit"
    /\ UNCHANGED <<text, traced, sig, pending, jobstop, ip, stk, calls, sent,
                   popped, unwound, lost, derailed>>

\* Another thread executes a breakpoint.  Nobody traces that thread, so the
\* default action of SIGTRAP ends the whole process.
OtherThreadTraps(a) ==
    /\ MultiThreaded
    /\ tstate # "dead" /\ TrapAt(text, a)
    /\ tstate' = "dead" /\ cause' = "int3"
    /\ UNCHANGED <<text, traced, sig, pending, jobstop, ip, stk, calls, sent,
                   popped, unwound, lost, derailed>>

\* SIGKILL, or another thread that ends the process; it does not wait for the
\* main thread to run.
Killed ==
    /\ tstate # "dead"
    /\ tstate' = "dead" /\ cause' = "kill"
    /\ UNCHANGED <<text, traced, sig, pending, jobstop, ip, stk, calls, sent,
                   popped, unwound, lost, derailed>>

--------------------------------------------------------------------------------
(* Signals *)

SendSignal(s) ==
    /\ tstate # "dead" /\ sent < MaxSignals
    /\ pending' = pending \cup {s}
    /\ sent' = sent + 1
    /\ UNCHANGED <<text, tstate, traced, sig, jobstop, ip, stk, calls, popped,
                   unwound, lost, derailed, cause>>

\* A tracee stops before the signal is delivered; without a tracer SIGSTOP
\* stops the process, SIGTRAP kills it and the others have a handler.
TakeSignal(s) ==
    /\ tstate = "running" /\ s \in pending
    /\ pending' = pending \ {s}
    /\ IF traced
       THEN /\ tstate' = "stopped" /\ sig' = s
            /\ UNCHANGED <<jobstop, cause>>
       ELSE /\ tstate' = CASE s = "STOP" -> "jobstopped"
                           [] s = "TRAP" -> "dead"
                           [] OTHER -> "running"
            /\ jobstop' = (jobstop \/ s = "STOP")
            /\ cause' = IF s = "TRAP" THEN "kill" ELSE cause
            /\ UNCHANGED sig
    /\ UNCHANGED <<text, traced, ip, stk, calls, sent, popped, unwound, lost,
                   derailed>>

TargetNext ==
    \/ \E r \in RetSites : Call(r)
    \/ Return \/ Unwind \/ Execute \/ Trap \/ Derail \/ Exit \/ Killed
    \/ \E a \in Sites : OtherThreadTraps(a)
    \/ \E s \in Signals : SendSignal(s)
    \/ \E s \in {"STOP", "USR", "TRAP"} : TakeSignal(s)

--------------------------------------------------------------------------------
(* ptrace requests, as conjuncts of the tracer's actions.  All but         *)
(* PTRACE_ATTACH succeed only on a tracee that is in a ptrace stop.        *)

Requestable == traced /\ tstate = "stopped"

\* What a stop's signal becomes when the tracee is resumed without it.
Swallowed == {sig} \cap Signals

\* PTRACE_ATTACH: a SIGSTOP is sent; a job-stopped process enters its ptrace
\* stop at once.
PtraceAttach ==
    /\ ~traced /\ tstate # "dead"
    /\ traced' = TRUE
    /\ pending' = pending \cup {"STOP"}
    /\ IF tstate = "jobstopped"
       THEN tstate' = "stopped" /\ sig' = "GROUP"
       ELSE UNCHANGED <<tstate, sig>>
    /\ UNCHANGED <<jobstop, lost, cause>>

\* PTRACE_CONT with signal 0.
PtraceCont ==
    /\ tstate' = "running" /\ sig' = "none"
    /\ lost' = lost \cup Swallowed
    /\ UNCHANGED <<traced, pending, jobstop, cause>>

\* PTRACE_CONT with the signal of the stop.  SIGSTOP takes effect and is
\* reported once more, as a group stop, which the next PTRACE_CONT leaves.
PtraceContSig ==
    /\ IF sig = "STOP"
       THEN tstate' = "stopped" /\ sig' = "GROUP" /\ jobstop' = TRUE
       ELSE tstate' = "running" /\ sig' = "none" /\ UNCHANGED jobstop
    /\ UNCHANGED <<traced, pending, lost, cause>>

\* PTRACE_DETACH with signal 0; a stop signal that took effect is reinstated.
PtraceDetach ==
    /\ traced' = FALSE
    /\ tstate' = IF jobstop THEN "jobstopped" ELSE "running"
    /\ sig' = "none"
    /\ lost' = lost \cup Swallowed
    /\ UNCHANGED <<pending, jobstop, cause>>

PtraceNothing == UNCHANGED <<tstate, traced, sig, pending, jobstop, lost, cause>>

\* The kernel detaches what is left attached when the tracer's process ends.
TracerGone ==
    /\ traced' = FALSE
    /\ IF Requestable
       THEN /\ tstate' = IF jobstop THEN "jobstopped" ELSE "running"
            /\ sig' = "none" /\ lost' = lost \cup Swallowed
       ELSE UNCHANGED <<tstate, sig, lost>>
    /\ UNCHANGED <<pending, jobstop, cause>>

================================================================================
