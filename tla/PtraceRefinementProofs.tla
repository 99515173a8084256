-------------------------- MODULE PtraceRefinementProofs --------------------------
(***************************************************************************)
(* Proof that PtraceSession implements Observer, for all constants.        *)
(***************************************************************************)
EXTENDS PtraceRefinement, PtraceSessionProofs

\* What the places of the loop say of the number of results and of the count.
LoopInv ==
    /\ pc \in {"loop", "wait", "handle", "cleanup"} => count >= 0
    /\ pc \in {"attachWait", "install"} => Len(results) = 0
    /\ pc \in {"wait", "handle"} => Len(results) < count
    /\ pc = "cleanup" =>
         Len(results) >= count \/ stop_flag \/ expired \/ tstate = "dead"

\* The length of results is a number, and Append adds one to it.
LEMMA ResultsLength ==
    ASSUME EngineTypeOK
    PROVE  /\ Len(results) \in Nat
           /\ \A n : Len(Append(results, n)) = Len(results) + 1
BY DEF EngineTypeOK

\* A step of the loop's own, or one that leaves it alone.
LEMMA LoopStep ==
    ASSUME TypeInv, LoopInv, [Next]_vars
    PROVE  LoopInv'
<1>0. EngineTypeOK /\ Len(results) \in Nat
  BY ResultsLength DEF TypeInv, TypeOK
<1>1. CASE UNCHANGED vars
  BY <1>1 DEF vars, targetVars, engineVars, command, LoopInv
<1>2. CASE TargetStep
  <2>1. tstate = "dead" => tstate' = "dead"
    BY <1>2 DEF TargetStep, TargetNext, Call, Return, Unwind, Execute, Trap, Derail,
                Exit, Killed, OtherThreadTraps, SendSignal, TakeSignal
  <2>2. QED
    BY <1>2, <2>1 DEF TargetStep, engineVars, command, LoopInv
<1>3. ASSUME NEW c \in {"trace", "stack"}, NEW n \in Counts,
             Attach(c, n) \/ AttachFails(c, n)
      PROVE  LoopInv'
  <2>1. results' = <<>> /\ pc' \in {"attachWait", "idle"}
    BY <1>3 DEF Attach, AttachFails, Begin
  <2>2. QED
    BY <2>1 DEF LoopInv
<1>4. CASE \/ AttachStopSeen \/ AttachTimeout \/ Install \/ InstallThrows
           \/ WaitStopped \/ WaitExited \/ WaitTimeout \/ UnexpectedTrap
           \/ HandlerThrows \/ Cleanup \/ CleanupNothing \/ CleanupThrows
           \/ UatuGone \/ LoopExit
  BY <1>0, <1>4
     DEF AttachStopSeen, AttachTimeout, Install, InstallThrows, WaitStopped,
         WaitExited, WaitTimeout, UnexpectedTrap, HandlerThrows, Cleanup,
         CleanupNothing, CleanupThrows, UatuGone, LoopExit, LoopEnds, targetVars,
         command, LoopInv
<1>5. CASE LoopCont
  <2>1. Len(results) < count
    <3>1. count \in Counts \cup {0}
      BY <1>0 DEF EngineTypeOK
    <3>2. count \in Int
      BY <3>1, SessionAssumption
    <3>3. ~(Len(results) >= count)
      BY <1>5 DEF LoopCont, LoopEnds
    <3>4. QED
      BY <1>0, <3>2, <3>3
  <2>2. QED
    BY <1>5, <2>1 DEF LoopCont, command, LoopInv
<1>6. CASE ForwardSignal
  BY <1>6 DEF ForwardSignal, command, LoopInv
<1>7. CASE TraceEntryHit \/ TraceReturnHit \/ StackReturnHit
  <2>1. pc = "handle" /\ pc' = "loop" /\ count' = count
    BY <1>7 DEF TraceEntryHit, TraceReturnHit, StackReturnHit, ArmReturn, RearmEntry,
                HitAt, command
  <2>2. QED
    BY <2>1 DEF LoopInv
<1>8. CASE StackEntryHit
  <2>1. CASE Len(results) + 1 >= count
    <3>1. /\ pc = "handle" /\ pc' = "cleanup" /\ count' = count
          /\ Len(results') = Len(results) + 1
      BY <1>0, <1>8, <2>1, ResultsLength
         DEF StackEntryHit, LeaveUnarmed, HitAt, command
    <3>2. QED
      BY <2>1, <3>1 DEF LoopInv
  <2>2. CASE ~(Len(results) + 1 >= count)
    <3>1. pc = "handle" /\ pc' = "loop" /\ count' = count
      BY <1>8, <2>2 DEF StackEntryHit, ArmForNextSample, ArmReturn, HitAt, command
    <3>2. QED
      BY <3>1 DEF LoopInv
  <2>3. QED
    BY <2>1, <2>2
<1>9. CASE request_stop \/ Expire
  BY <1>9 DEF request_stop, Expire, targetVars, command, LoopInv
<1>10. QED
  BY <1>1, <1>2, <1>3, <1>4, <1>5, <1>6, <1>7, <1>8, <1>9 DEF Next, CommandStep

LEMMA LoopInvariant == Spec => [](TypeInv /\ PatchInv /\ LoopInv)
<1>1. Init => LoopInv
  BY DEF Init, LoopInv
<1>2. QED
  BY <1>1, LoopStep, PatchInvariant, PTL DEF Spec

--------------------------------------------------------------------------------
(* The steps of Observer that the steps of PtraceSession are *)

Abstract == Obs!observerVars

\* A step that changes nothing that Observer speaks of.
LEMMA Stutter ==
    ASSUME UNCHANGED <<results, text, traced, outcome, count, stop_flag, expired>>,
           pc' = pc \/ {pc, pc'} \cap {"idle", "exited"} = {},
           tstate' = "dead" <=> tstate = "dead"
    PROVE  UNCHANGED Abstract
BY DEF Abstract, Obs!observerVars, Obs!command, Obs!target

\* A patched text is not the program.
LEMMA PatchedIsNotCode ==
    ASSUME NEW a \in Sites
    PROVE  Patched(a) # Code
<1>1. a \in Addr /\ a \in a .. a + WordSize - 1 /\ a \in Int
  BY SitesAssumption, SizesAssumption DEF Sites, WordAddr, Addr
<1>2. Patched(a)[a] = Bp
  BY <1>1, SizesAssumption
     DEF Patched, insert_breakpoint, ptrace_write8, make_patched_word
<1>3. QED
  BY <1>1, <1>2, CodeAssumption

\* The target only lives or dies.
LEMMA TargetStepObserved ==
    ASSUME TargetStep
    PROVE  [Obs!ObserverNext]_Abstract
<1>1. text' = text /\ traced' = traced
  BY DEF TargetStep, TargetNext, Call, Return, Unwind, Execute, Trap, Derail, Exit,
         Killed, OtherThreadTraps, SendSignal, TakeSignal
<1>2. tstate = "dead" => tstate' = "dead"
  BY DEF TargetStep, TargetNext, Call, Return, Unwind, Execute, Trap, Derail, Exit,
         Killed, OtherThreadTraps, SendSignal, TakeSignal
<1>3. UNCHANGED <<pc, results, outcome, count, stop_flag, expired>>
  BY DEF TargetStep, engineVars, command
<1>4. CASE tstate' = "dead" <=> tstate = "dead"
  BY <1>1, <1>3, <1>4, Stutter
<1>5. CASE ~(tstate' = "dead" <=> tstate = "dead")
  <2>1. Obs!Die
    BY <1>1, <1>2, <1>3, <1>5 DEF Obs!Die, Obs!command
  <2>2. QED
    BY <2>1 DEF Obs!ObserverNext
<1>6. QED
  BY <1>4, <1>5

\* Every step of PtraceSession is a step of Observer or changes nothing in it.
LEMMA StepObserved ==
    ASSUME TypeInv, PatchInv, LoopInv, [Next]_vars
    PROVE  [Obs!ObserverNext]_Abstract
<1>0. /\ EngineTypeOK /\ Len(results) \in Nat /\ count \in Int
      /\ \A n : Len(Append(results, n)) = Len(results) + 1
  <2>1. EngineTypeOK
    BY DEF TypeInv, TypeOK
  <2>2. count \in Int
    BY <2>1, SessionAssumption DEF EngineTypeOK
  <2>3. QED
    BY <2>1, <2>2, ResultsLength
<1>1. CASE UNCHANGED vars
  BY <1>1, Stutter DEF vars, targetVars, engineVars, command
<1>2. CASE TargetStep
  BY <1>2, TargetStepObserved
<1>3. ASSUME NEW c \in {"trace", "stack"}, NEW n \in Counts, Attach(c, n)
      PROVE  Obs!Start(n)
  <2>1. text = Code /\ text' = Code
    BY <1>3 DEF Attach, Begin, PtraceAttach, PatchInv
  <2>2. tstate # "dead" /\ tstate' # "dead" /\ ~traced /\ traced'
    BY <1>3 DEF Attach, PtraceAttach
  <2>3. QED
    BY <1>3, <2>1, <2>2 DEF Attach, Begin, Obs!Start, Obs!Begin
<1>4. ASSUME NEW c \in {"trace", "stack"}, NEW n \in Counts, AttachFails(c, n)
      PROVE  Obs!Refuse(n)
  BY <1>4 DEF AttachFails, Begin, PtraceNothing, Obs!Refuse, Obs!Begin, Obs!target
<1>5. CASE \/ AttachStopSeen \/ WaitStopped \/ WaitExited \/ WaitTimeout
           \/ UnexpectedTrap \/ LoopExit
  BY <1>5, Stutter
     DEF AttachStopSeen, WaitStopped, WaitExited, WaitTimeout, UnexpectedTrap,
         LoopExit, targetVars, command
<1>6. CASE LoopCont \/ ForwardSignal
  BY <1>6, Stutter
     DEF LoopCont, ForwardSignal, PassSignal, PtraceCont, PtraceContSig,
         PtraceNothing, Requestable, command
<1>7. ASSUME AttachTimeout
      PROVE  Obs!Throw
  <2>1. /\ UNCHANGED <<text, results, count, stop_flag, expired>>
        /\ tstate' = "dead" <=> tstate = "dead"
        /\ traced' = traced \/ traced' = FALSE
        /\ text = Code
        /\ pc = "attachWait" /\ pc' = "idle" /\ outcome' = "threw"
    BY <1>7
       DEF AttachTimeout, PtraceDetach, PtraceNothing, Requestable, command, PatchInv
  <2>2. QED
    BY <2>1 DEF Obs!Throw
<1>8. ASSUME InstallThrows \/ HandlerThrows \/ CleanupThrows
      PROVE  Obs!Throw
  <2>1. /\ UNCHANGED <<text, results, count, stop_flag, expired, tstate, traced>>
        /\ pc \notin {"idle", "exited"} /\ pc' = "idle" /\ outcome' = "threw"
        /\ traced
    BY <1>8
       DEF InstallThrows, HandlerThrows, CleanupThrows, targetVars, command, PatchInv,
           Observing
  <2>2. QED
    BY <2>1 DEF Obs!Throw
<1>9. ASSUME Install
      PROVE  Obs!Arm
  <2>1. text' # Code
    <3>1. text' = Patched(Entry)
      BY <1>9 DEF Install, PatchInv, Patched
    <3>2. QED
      BY <3>1, PatchedIsNotCode, SitesFacts
  <2>2. /\ UNCHANGED <<outcome, count, results, stop_flag, traced, tstate>>
        /\ expired' = FALSE /\ pc = "install" /\ pc' = "loop"
        /\ traced /\ tstate # "dead" /\ Len(results) = 0 /\ count >= 0
    BY <1>9 DEF Install, PtraceNothing, Requestable, command, LoopInv
  <2>3. QED
    BY <2>1, <2>2 DEF Obs!Arm, Obs!command
<1>10. ASSUME \/ TraceEntryHit \/ TraceReturnHit \/ StackEntryHit \/ StackReturnHit
       PROVE  Obs!Observe
  <2>1. /\ UNCHANGED <<outcome, count, stop_flag, expired, traced, tstate>>
        /\ pc = "handle" /\ traced /\ tstate # "dead"
    BY <1>10
       DEF TraceEntryHit, TraceReturnHit, StackEntryHit, StackReturnHit, HitAt,
           Requestable, PtraceNothing, command
  <2>2. pc' \in {"loop", "cleanup"}
    BY <1>10
       DEF TraceEntryHit, TraceReturnHit, StackEntryHit, StackReturnHit, ArmReturn,
           RearmEntry, LeaveUnarmed, ArmForNextSample
  <2>3. Len(results') = Len(results) \/ Len(results') = Len(results) + 1
    BY <1>0, <1>10
       DEF TraceEntryHit, TraceReturnHit, StackEntryHit, StackReturnHit
  <2>4. Len(results) < count
    BY <2>1 DEF LoopInv
  <2>5. (text' = Code) \in BOOLEAN
    OBVIOUS
  <2>6. QED
    BY <2>1, <2>2, <2>3, <2>4, <2>5 DEF Obs!Observe
<1>11. ASSUME Cleanup
       PROVE  Obs!Return
  <2>1. text' = Code
    BY <1>11, CleanedIsCode DEF Cleanup, Observing
  <2>2. /\ UNCHANGED <<results, count, stop_flag, expired>>
        /\ pc = "cleanup" /\ pc' = "idle" /\ outcome' = "returned"
        /\ traced' = FALSE /\ tstate # "dead" /\ tstate' # "dead"
    BY <1>11 DEF Cleanup, PtraceDetach, Requestable, command
  <2>3. count >= 0 /\ (Len(results) >= count \/ stop_flag \/ expired)
    BY <2>2 DEF LoopInv
  <2>4. QED
    BY <2>1, <2>2, <2>3 DEF Obs!Return, Obs!Excused
<1>12. ASSUME CleanupNothing
       PROVE  Obs!Return
  <2>1. /\ UNCHANGED <<text, results, count, stop_flag, expired, tstate, traced>>
        /\ pc = "cleanup" /\ pc' = "idle" /\ outcome' = "returned"
    BY <1>12 DEF CleanupNothing, targetVars, command
  <2>2. text = Code /\ traced /\ tstate = "dead"
    BY <1>12 DEF CleanupNothing, PatchInv, Observing, Believed, Requestable, Moving
  <2>3. count >= 0
    BY <2>1 DEF LoopInv
  <2>4. QED
    BY <2>1, <2>2, <2>3 DEF Obs!Return, Obs!Excused
<1>13. ASSUME UatuGone
       PROVE  Obs!Vanish
  <2>1. tstate' = "dead" <=> tstate = "dead"
    BY <1>13 DEF UatuGone, TracerGone, Requestable
  <2>2. QED
    BY <1>13, <2>1 DEF UatuGone, TracerGone, command, Obs!Vanish
<1>14. ASSUME request_stop
       PROVE  Obs!request_stop
  BY <1>14 DEF request_stop, targetVars, command, Obs!request_stop, Obs!command, Obs!target
<1>15. ASSUME Expire
       PROVE  Obs!Expire
  BY <1>15 DEF Expire, targetVars, command, Obs!Expire, Obs!command, Obs!target
<1>16. QED
  BY <1>1, <1>2, <1>3, <1>4, <1>5, <1>6, <1>7, <1>8, <1>9, <1>10, <1>11, <1>12,
     <1>13, <1>14, <1>15 DEF Next, CommandStep, Obs!ObserverNext

\* What a caller of trace() or stack() sees is a behaviour of Observer, for every
\* target, layout, signal, count and crash: the promise of ImplementsObserver.
THEOREM Implementation == Spec => ImplementsObserver
<1>1. Init => Obs!ObserverInit
  BY DEF Init, TargetInit, Obs!ObserverInit
<1>2. QED
  BY <1>1, StepObserved, LoopInvariant, PTL
     DEF Spec, ImplementsObserver, Obs!ObserverSpec, Abstract

================================================================================
