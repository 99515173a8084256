------------------------------ MODULE PtraceSession ------------------------------
(***************************************************************************)
(* AttachEngine::trace() and AttachEngine::stack() (attach_engine.cpp)     *)
(* running against Target: the commands of one uatu process, one after the *)
(* other, each of which attaches, arms a breakpoint at the function's      *)
(* entry, moves it to the return address and back for every call, and      *)
(* cleans up.  The two functions repeat the same code up to their handlers *)
(* and their cleanup; cmd tells which of them runs.                        *)
(*                                                                         *)
(* pc is the place in it:                                                  *)
(*   idle        at the prompt, no command running                         *)
(*   attachWait  PTRACE_ATTACH done, waiting for the first stop            *)
(*   install     the target has stopped, entry breakpoint not yet written  *)
(*   loop        top of the while loop                                     *)
(*   wait        in wait_with_timeout                                      *)
(*   handle      a stop was reported                                       *)
(*   cleanup     behind the loop                                           *)
(*   exited      the uatu process is gone                                  *)
(*                                                                         *)
(* A handler is one action: the main thread is in a ptrace stop while it   *)
(* runs, so nothing can come between its requests except the death of the  *)
(* target, after which each of them fails.                                 *)
(***************************************************************************)
EXTENDS Target

CONSTANTS
    Counts,         \* values of the count argument
    Crashes,        \* the uatu process may be killed at any point
    MaxSessions     \* bound: commands

ASSUME SessionAssumption ==
    /\ Counts \subseteq Int
    /\ Crashes \in BOOLEAN
    /\ MaxSessions \in Nat

VARIABLES
    pc, outcome, sessions, cmd, count, mapped, stop_flag, expired,
    waiting_for_exit, entry_armed, ret_vaddr, orig_entry, orig_ret, need_cont,
    results,
    \* History.
    entered,        \* the call whose entry_ts is kept
    fresh,          \* the first stop after PTRACE_ATTACH has not been left
    abandoned       \* a command ended without having seen the tracee stop

command == <<sessions, cmd, count, mapped>>
breakpoints == <<waiting_for_exit, entry_armed, ret_vaddr, orig_entry, orig_ret>>
history == <<entered, fresh, abandoned>>

engineVars == <<pc, outcome, command, stop_flag, expired, breakpoints, need_cont,
                results, history>>

vars == <<targetVars, engineVars>>

\* One TraceNode: which call gave entry_ts and which return gave exit_ts,
\* whether the first was still active, and whether Ctrl-C came before.  A
\* StackEvent is about one call only.
Node == [entered : Nat, returned : Nat, open : BOOLEAN, late : BOOLEAN]

EngineTypeOK ==
    /\ pc \in {"idle", "attachWait", "install", "loop", "wait", "handle",
               "cleanup", "exited"}
    /\ outcome \in {"none", "returned", "threw"}
    /\ sessions \in Nat
    /\ cmd \in {"trace", "stack"}
    /\ count \in Counts \cup {0}
    /\ mapped \in BOOLEAN
    /\ stop_flag \in BOOLEAN
    /\ expired \in BOOLEAN
    /\ waiting_for_exit \in BOOLEAN
    /\ entry_armed \in BOOLEAN
    /\ ret_vaddr \in RetSites \cup {0}
    /\ orig_entry \in Word
    /\ orig_ret \in Word
    /\ need_cont \in BOOLEAN
    /\ results \in Seq(Node)
    /\ entered \in Nat
    /\ fresh \in BOOLEAN
    /\ abandoned \in BOOLEAN

TypeOK == TargetTypeOK /\ EngineTypeOK

Init ==
    /\ TargetInit
    /\ pc = "idle" /\ outcome = "none" /\ sessions = 0
    /\ cmd = "trace" /\ count = 0 /\ mapped = TRUE
    /\ stop_flag = FALSE /\ expired = FALSE
    /\ waiting_for_exit = FALSE /\ entry_armed = FALSE /\ ret_vaddr = 0
    /\ orig_entry = ptrace_read8(Code, Entry)
    /\ orig_ret = ptrace_read8(Code, Entry)
    /\ need_cont = TRUE /\ results = <<>>
    /\ entered = 0 /\ fresh = FALSE /\ abandoned = FALSE

\* What no step of uatu changes.
OwnTarget == <<stk, calls, sent, popped, unwound, derailed>>

--------------------------------------------------------------------------------
(* Beginning of a command *)

\* Everything up to PTRACE_ATTACH.  n is the count argument; mapped tells
\* whether the runtime address computed from the DWARF address and the cached
\* slide is one of the target.
Begin(c, n) ==
    /\ pc = "idle" /\ sessions < MaxSessions
    /\ sessions' = sessions + 1
    /\ cmd' = c /\ count' = n /\ mapped' \in BOOLEAN
    /\ stop_flag' = FALSE /\ expired' = FALSE
    /\ waiting_for_exit' = FALSE /\ entry_armed' = FALSE /\ ret_vaddr' = 0
    /\ need_cont' = TRUE /\ results' = <<>>
    /\ entered' = 0
    /\ UNCHANGED <<text, ip, OwnTarget, orig_entry, orig_ret, abandoned>>

Attach(c, n) ==
    /\ Begin(c, n)
    /\ PtraceAttach
    /\ pc' = "attachWait" /\ outcome' = "none" /\ fresh' = TRUE

\* The function is not found, has no address, or PTRACE_ATTACH fails: the
\* target is dead or still attached since an earlier command.
AttachFails(c, n) ==
    /\ Begin(c, n)
    /\ PtraceNothing
    /\ pc' = "idle" /\ outcome' = "threw" /\ fresh' = FALSE

AttachStopSeen ==
    /\ pc = "attachWait" /\ tstate \in {"stopped", "dead"}
    /\ pc' = "install"
    /\ UNCHANGED <<targetVars, outcome, command, stop_flag, expired,
                   breakpoints, need_cont, results, history>>

\* No stop within 5 seconds.  PTRACE_DETACH works only if the stop came
\* after the last look.
AttachTimeout ==
    /\ pc = "attachWait" /\ expired
    /\ IF Requestable THEN PtraceDetach ELSE PtraceNothing
    /\ pc' = "idle" /\ outcome' = "threw"
    /\ UNCHANGED <<text, ip, OwnTarget, command, stop_flag, expired,
                   breakpoints, need_cont, results, history>>

\* insert_breakpoint at the entry, the guard, and the state of the loop.
Install ==
    /\ pc = "install" /\ Requestable /\ count >= 0 /\ mapped
    /\ orig_entry' = ptrace_read8(text, Entry)
    /\ text' = insert_breakpoint(text, Entry)
    /\ entry_armed' = TRUE
    /\ expired' = FALSE
    /\ pc' = "loop"
    /\ PtraceNothing
    /\ UNCHANGED <<ip, OwnTarget, outcome, command, stop_flag, waiting_for_exit,
                   ret_vaddr, orig_ret, need_cont, results, history>>

\* results.reserve of a negative count throws, and so does insert_breakpoint
\* on an unmapped address or a dead target.  The guard does not exist yet.
InstallThrows ==
    /\ pc = "install" /\ ~(Requestable /\ count >= 0 /\ mapped)
    /\ pc' = "idle" /\ outcome' = "threw"
    /\ UNCHANGED <<targetVars, command, stop_flag, expired, breakpoints,
                   need_cont, results, history>>

--------------------------------------------------------------------------------
(* The loop *)

\* Fault: the loop never looks at the flag Ctrl-C sets.
LoopEndsIgnoringStop == Len(results) >= count \/ expired

\* Fault: the loop ends one result short.
LoopEndsShort == Len(results) + 1 >= count \/ stop_flag \/ expired

\* The loop condition and the two breaks at its top.
LoopEnds == Len(results) >= count \/ stop_flag \/ expired

LoopExit ==
    /\ pc = "loop" /\ LoopEnds
    /\ abandoned' = (abandoned \/ ~need_cont)
    /\ pc' = "cleanup"
    /\ UNCHANGED <<targetVars, outcome, command, stop_flag, expired,
                   breakpoints, need_cont, results, entered, fresh>>

LoopCont ==
    /\ pc = "loop" /\ ~LoopEnds
    /\ IF need_cont /\ Requestable THEN PtraceCont ELSE PtraceNothing
    /\ need_cont' = TRUE /\ fresh' = FALSE
    /\ pc' = "wait"
    /\ UNCHANGED <<text, ip, OwnTarget, outcome, command, stop_flag, expired,
                   breakpoints, results, entered, abandoned>>

WaitStopped ==
    /\ pc = "wait" /\ Requestable
    /\ pc' = "handle"
    /\ UNCHANGED <<targetVars, outcome, command, stop_flag, expired,
                   breakpoints, need_cont, results, history>>

WaitExited ==
    /\ pc = "wait" /\ tstate = "dead"
    /\ pc' = "cleanup"
    /\ UNCHANGED <<targetVars, outcome, command, stop_flag, expired,
                   breakpoints, need_cont, results, history>>

\* Fault: a blocking waitpid instead of the polling loop.
WaitForever == FALSE

\* The deadline passes in waitpid_timeout, or just before it.
WaitTimeout ==
    /\ pc = "wait" /\ expired
    /\ abandoned' = TRUE
    /\ pc' = "cleanup"
    /\ UNCHANGED <<targetVars, outcome, command, stop_flag, expired,
                   breakpoints, need_cont, results, entered, fresh>>

\* Fault: the stop is left without its signal.
DropSignal == IF Requestable THEN PtraceCont ELSE PtraceNothing

\* PTRACE_CONT with the signal that was reported.
PassSignal == IF Requestable THEN PtraceContSig ELSE PtraceNothing

ForwardSignal ==
    /\ pc = "handle" /\ sig \notin SIGTRAP
    /\ PassSignal
    /\ need_cont' = FALSE
    /\ pc' = "loop"
    /\ UNCHANGED <<text, ip, OwnTarget, outcome, command, stop_flag, expired,
                   breakpoints, results, history>>

\* Fault: PC_ADJUST_AFTER_TRAP is not subtracted.
RawIp == ip

hit_addr == ip - PCAdjust

\* Fault: the return address is taken from the outermost frame.
OutermostReturnAddress == stk[Len(stk)].ret

\* Fault: another register than the stack pointer is followed.
WordElsewhere == Head(stk).id

\* The word the stack pointer points at when the function is entered.
ReturnAddress == Head(stk).ret

\* The text once the breakpoint at from has been taken out and one at to
\* has been put in.
MoveBreakpoint(from, orig, to) ==
    insert_breakpoint(restore_word(text, from, orig), to)

\* Fault: the word is saved before the old breakpoint has been taken out.
SavedTooEarly(from, orig, to) == ptrace_read8(text, to)

\* The word at to that insert_breakpoint saves in MoveBreakpoint.
SavedWord(from, orig, to) == ptrace_read8(restore_word(text, from, orig), to)

\* A breakpoint stop at a while the tracee is still there.
HitAt(a) == pc = "handle" /\ sig \in SIGTRAP /\ Requestable /\ hit_addr = a

\* The breakpoint goes from the entry to the return address of the call.
ArmReturn ==
    /\ ret_vaddr' = ReturnAddress
    /\ orig_ret' = SavedWord(Entry, orig_entry, ReturnAddress)
    /\ text' = MoveBreakpoint(Entry, orig_entry, ReturnAddress)
    /\ waiting_for_exit' = TRUE
    /\ pc' = "loop"
    /\ UNCHANGED orig_entry

\* The breakpoint goes from the return address to the entry.
RearmEntry ==
    /\ orig_entry' = SavedWord(ret_vaddr, orig_ret, Entry)
    /\ text' = MoveBreakpoint(ret_vaddr, orig_ret, Entry)
    /\ waiting_for_exit' = FALSE
    /\ pc' = "loop"
    /\ UNCHANGED <<ret_vaddr, orig_ret>>

\* trace() keeps the time of the entry.
TraceEntryHit ==
    /\ cmd = "trace" /\ ~waiting_for_exit /\ HitAt(Entry)
    /\ ArmReturn
    /\ ip' = Entry
    /\ entered' = Head(stk).id
    /\ PtraceNothing
    /\ UNCHANGED <<OwnTarget, outcome, command, stop_flag, expired, entry_armed,
                   need_cont, results, fresh, abandoned>>

\* trace() emits a node for the call whose entry time it kept.
TraceReturnHit ==
    /\ cmd = "trace" /\ waiting_for_exit /\ HitAt(ret_vaddr)
    /\ results' = Append(results,
                    [entered |-> entered, returned |-> popped,
                     open |-> \E i \in 1 .. Len(stk) : stk[i].id = entered,
                     late |-> stop_flag])
    /\ RearmEntry
    /\ ip' = ret_vaddr
    /\ PtraceNothing
    /\ UNCHANGED <<OwnTarget, outcome, command, stop_flag, expired, entry_armed,
                   need_cont, history>>

\* Fault: the entry is armed again at once, below the call just sampled.
RearmedAtOnce ==
    /\ pc' = "loop"
    /\ UNCHANGED <<text, waiting_for_exit, entry_armed, ret_vaddr, orig_entry,
                   orig_ret>>

\* stack() needs more samples: the return of this call re-arms the entry.
ArmForNextSample == ArmReturn /\ entry_armed' = FALSE

\* stack() has its last sample: the function runs freely.
LeaveUnarmed ==
    /\ text' = restore_word(text, Entry, orig_entry)
    /\ entry_armed' = FALSE
    /\ pc' = "cleanup"
    /\ UNCHANGED <<waiting_for_exit, ret_vaddr, orig_entry, orig_ret>>

\* stack() takes its sample at the entry.
StackEntryHit ==
    /\ cmd = "stack" /\ ~waiting_for_exit /\ HitAt(Entry)
    /\ results' = Append(results,
                    [entered |-> Head(stk).id, returned |-> Head(stk).id,
                     open |-> TRUE, late |-> stop_flag])
    /\ IF Len(results) + 1 >= count THEN LeaveUnarmed ELSE ArmForNextSample
    /\ ip' = Entry
    /\ PtraceNothing
    /\ UNCHANGED <<OwnTarget, outcome, command, stop_flag, expired, need_cont,
                   history>>

StackReturnHit ==
    /\ cmd = "stack" /\ waiting_for_exit /\ HitAt(ret_vaddr)
    /\ RearmEntry
    /\ entry_armed' = TRUE
    /\ ip' = ret_vaddr
    /\ PtraceNothing
    /\ UNCHANGED <<OwnTarget, outcome, command, stop_flag, expired, need_cont,
                   results, history>>

\* Any other SIGTRAP is swallowed by the next PTRACE_CONT.
UnexpectedTrap ==
    /\ pc = "handle" /\ sig \in SIGTRAP /\ Requestable
    /\ hit_addr # IF waiting_for_exit THEN ret_vaddr ELSE Entry
    /\ pc' = "loop"
    /\ UNCHANGED <<targetVars, outcome, command, stop_flag, expired,
                   breakpoints, need_cont, results, history>>

\* The target died after it was seen stopped: get_regs throws, and the
\* requests of the guard fail like it.
HandlerThrows ==
    /\ pc = "handle" /\ sig \in SIGTRAP /\ ~Requestable
    /\ pc' = "idle" /\ outcome' = "threw"
    /\ UNCHANGED <<targetVars, command, stop_flag, expired, breakpoints,
                   need_cont, results, history>>

--------------------------------------------------------------------------------
(* End of a command *)

\* Fault: only the entry is restored.
EntryRestored == restore_word(text, Entry, orig_entry)

\* The text behind the calls of restore_word that end a command; trace()
\* always restores the entry, stack() if it is armed.
CleanedText ==
    LET returnRestored == IF waiting_for_exit
                          THEN restore_word(text, ret_vaddr, orig_ret) ELSE text
    IN  IF entry_armed THEN restore_word(returnRestored, Entry, orig_entry)
                       ELSE returnRestored

Cleanup ==
    /\ pc = "cleanup" /\ Requestable
    /\ text' = CleanedText
    /\ PtraceDetach
    /\ pc' = "idle" /\ outcome' = "returned"
    /\ UNCHANGED <<ip, OwnTarget, command, stop_flag, expired, breakpoints,
                   need_cont, results, history>>

\* stack() ends with nothing to restore: nobody notices that PTRACE_DETACH
\* fails on a dead target.
CleanupNothing ==
    /\ pc = "cleanup" /\ ~Requestable /\ ~waiting_for_exit /\ ~entry_armed
    /\ pc' = "idle" /\ outcome' = "returned"
    /\ UNCHANGED <<targetVars, command, stop_flag, expired, breakpoints,
                   need_cont, results, history>>

\* The tracee runs or is dead: the first restore_word throws, with the guard
\* already disabled.
CleanupThrows ==
    /\ pc = "cleanup" /\ ~Requestable /\ (waiting_for_exit \/ entry_armed)
    /\ pc' = "idle" /\ outcome' = "threw"
    /\ UNCHANGED <<targetVars, command, stop_flag, expired, breakpoints,
                   need_cont, results, history>>

\* uatu exits at the prompt, or is killed anywhere.
UatuGone ==
    /\ pc = "idle" \/ (Crashes /\ pc # "exited")
    /\ TracerGone
    /\ abandoned' = (abandoned \/ pc # "idle")
    /\ pc' = "exited"
    /\ UNCHANGED <<text, ip, OwnTarget, outcome, command, stop_flag, expired,
                   breakpoints, need_cont, results, entered, fresh>>

--------------------------------------------------------------------------------
(* The SIGINT handler and the clock *)

request_stop ==
    /\ pc # "exited" /\ ~stop_flag
    /\ stop_flag' = TRUE
    /\ UNCHANGED <<targetVars, pc, outcome, command, expired, breakpoints,
                   need_cont, results, history>>

\* The deadline of the wait or of the command passes.
Expire ==
    /\ pc \notin {"idle", "install", "exited"} /\ ~expired
    /\ expired' = TRUE
    /\ UNCHANGED <<targetVars, pc, outcome, command, stop_flag, breakpoints,
                   need_cont, results, history>>

--------------------------------------------------------------------------------

\* The steps a command takes by itself once it has been called.
CommandStep ==
    \/ AttachStopSeen \/ AttachTimeout \/ Install \/ InstallThrows
    \/ LoopExit \/ LoopCont \/ WaitStopped \/ WaitExited \/ WaitTimeout
    \/ ForwardSignal \/ TraceEntryHit \/ TraceReturnHit
    \/ StackEntryHit \/ StackReturnHit \/ UnexpectedTrap
    \/ HandlerThrows \/ Cleanup \/ CleanupNothing \/ CleanupThrows

TargetStep == TargetNext /\ UNCHANGED engineVars

Next ==
    \/ TargetStep
    \/ \E c \in {"trace", "stack"}, n \in Counts : Attach(c, n) \/ AttachFails(c, n)
    \/ CommandStep
    \/ UatuGone
    \/ request_stop
    \/ Expire

Spec == Init /\ [][Next]_vars

\* The scheduler runs uatu and the clock advances.  Nothing is assumed of the
\* target, of its signals or of the user.
FairSpec == Spec /\ WF_vars(CommandStep) /\ WF_vars(Expire)

--------------------------------------------------------------------------------
(* Properties *)

Patched(a) == insert_breakpoint(Code, a)

\* Whatever has happened, the target's text is the program or the program with
\* exactly one breakpoint: saving and restoring whole words never mixes the
\* bytes of two breakpoints, however close entry and return address are, and a
\* breakpoint left behind by one command is never mistaken for the program's
\* own code by the next.
OnePatch == text \in {Code} \cup {Patched(a) : a \in Sites}

\* When a command returns normally, however its loop ended, the target's text is
\* the program again and a living target is no longer attached.
CleanReturn ==
    pc = "idle" /\ outcome = "returned" => text = Code /\ (traced => tstate = "dead")

\* uatu never lets go of a target whose text it has patched: as long as it
\* lives, a breakpoint in the text of a living target means it is attached.
NoPatchLeftBehind ==
    text # Code /\ pc # "exited" => traced \/ tstate = "dead"

\* A single-threaded target comes to harm (it executes behind a replaced
\* instruction, or a breakpoint kills it) only after a command was given up
\* while the tracee had been resumed and not been seen to stop again.
HarmOnlyIfAbandoned ==
    derailed \/ cause = "int3" => abandoned

\* The duration of a node runs from the entry of a call to its own return or to
\* the return of a call nested in it; it can run further only if an exception
\* has left the call.
DurationNested ==
    \A i \in 1 .. Len(results) :
        LET n == results[i]
        IN  n.returned = n.entered \/ n.open \/ n.entered \in unwound

\* No call is recorded twice: replaying the first instruction after a breakpoint
\* does not hit it again, and a later node is about a later call.
EachCallOnce ==
    \A i, j \in 1 .. Len(results) : i < j => results[i].entered < results[j].entered

\* At most one node is recorded after Ctrl-C: the stop that was already being
\* waited for.
OneLateNode ==
    Cardinality({i \in 1 .. Len(results) : results[i].late}) <= 1

\* uatu takes a signal away from the target only at the edges of a command: the
\* stop it takes for its own SIGSTOP after attaching, the stop it has not seen
\* when it gives up or dies, and a SIGTRAP.
LossOnlyAtEdges ==
    [][lost' \ lost # {} => \/ fresh
                            \/ sig = "TRAP"
                            \/ pc = "cleanup" /\ abandoned
                            \/ pc' = "exited"]_vars

\* Every command comes to an end by itself, whatever the target does: each wait
\* has a deadline.
Terminates == pc # "idle" ~> pc \in {"idle", "exited"}

(* What comments and documents of the repository say and the code does not *)
(* do; each is the property of a run that TLC finds violated.              *)

\* "RAII guard: on any exit path, restore the entry breakpoint byte and detach."
\* (attach_engine.cpp, above PtraceGuard)
RestoredOnAnyExit ==
    pc = "idle" /\ outcome = "threw" /\ tstate # "dead" => text = Code

\* "Attach. Observe. Never interfere." (README.md): no breakpoint of uatu
\* kills the target.
NeverInterferes == cause # "int3"

================================================================================
