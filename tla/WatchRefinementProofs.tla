-------------------------- MODULE WatchRefinementProofs --------------------------
(***************************************************************************)
(* Proof that WatchEbpf implements EbpfPath, for all constants.            *)
(***************************************************************************)
EXTENDS WatchRefinement, WatchEbpfProofs

\* Before the ring buffer is read nothing is collected, and once a function is
\* probed a probe stays until the path ends.
ReaderInv ==
    /\ phase \in {"entry", "exit"} => ~rb
    /\ ~rb => events = <<>>
    /\ phase = "entry" /\ next > 1 => links # {}
    /\ phase \in {"exit", "loop", "poll"} => links # {}

LEMMA ReaderInit == Init => ReaderInv
BY DEF Init, ReaderInv

LEMMA ReaderStep == TypeOK /\ ReaderInv /\ [Next]_vars => ReaderInv'
<1> SUFFICES ASSUME TypeOK, ReaderInv, [Next]_vars PROVE ReaderInv'
  OBVIOUS
<1>1. ASSUME NEW t \in Threads,
             Return(t) \/ Unwind(t) \/ RunAgain(t) \/ \E f \in Funcs : Enter(t, f)
      PROVE  ReaderInv'
  <2>1. UNCHANGED userVars
    BY <1>1 DEF Return, Unwind, RunAgain, Enter
  <2>2. QED
    BY <2>1 DEF userVars, ReaderInv
<1>2. CASE AttachEntry \/ AttachExit
  <2>1. links' # {} /\ UNCHANGED <<rb, events>> /\ phase \in {"entry", "exit"}
    BY <1>2 DEF AttachEntry, AttachExit
  <2>2. QED
    BY <2>1 DEF ReaderInv
<1>3. CASE Attached
  <2>1. next > 1
    BY <1>3, WatchAssumption DEF Attached
  <2>2. QED
    BY <1>3, <2>1 DEF Attached, ReaderInv
<1>4. CASE Throw \/ LoopExit
  <2>1. phase' \in {"returned", "fallback"} /\ UNCHANGED <<rb, events>>
    BY <1>4 DEF Throw, LoopExit
  <2>2. QED
    BY <2>1 DEF ReaderInv
<1>5. CASE Poll \/ OpenReader \/ PollReturns \/ OnEntry
  BY <1>5 DEF Poll, OpenReader, PollReturns, OnEntry, ReaderInv
<1>6. CASE OnExit
  <2>1. rb /\ rb' = rb /\ phase' = phase /\ phase = "poll" /\ links' = links
    BY <1>6 DEF OnExit
  <2>2. QED
    BY <2>1 DEF ReaderInv
<1>7. CASE request_stop \/ Expire \/ UNCHANGED vars
  BY <1>7 DEF request_stop, Expire, vars, userVars, ReaderInv
<1>8. QED
  BY <1>1, <1>2, <1>3, <1>4, <1>5, <1>6, <1>7 DEF Next, WatchStep

LEMMA ReaderInvariant == Spec => [](WatchInv /\ ReaderInv)
<1>1. WatchInv => TypeOK
  BY DEF WatchInv
<1>2. QED
  BY <1>1, ReaderInit, ReaderStep, WatchInvariant, PTL DEF Spec

--------------------------------------------------------------------------------
(* The steps of EbpfPath that the steps of WatchEbpf are *)

Abstract == Path!ebpfVars

\* A step that changes nothing that EbpfPath speaks of.
LEMMA WatchStutter ==
    ASSUME UNCHANGED <<events, stop_flag, expired, links>>,
           phase' = phase \/ {phase, phase'} \cap {"returned", "fallback"} = {}
    PROVE  UNCHANGED Abstract
BY DEF Abstract, Path!ebpfVars

\* Every step of WatchEbpf is a step of EbpfPath or a stutter.
LEMMA StepObserved ==
    ASSUME WatchInv, ReaderInv, [Next]_vars
    PROVE  [Path!EbpfNext]_Abstract
<1>0. TypeOK /\ events \in Seq(WatchEvent) /\ Len(events) \in Nat
  BY DEF WatchInv, TypeOK
<1>1. ASSUME NEW t \in Threads,
             Return(t) \/ Unwind(t) \/ RunAgain(t) \/ \E f \in Funcs : Enter(t, f)
      PROVE  UNCHANGED Abstract
  <2>1. UNCHANGED userVars
    BY <1>1 DEF Return, Unwind, RunAgain, Enter
  <2>2. QED
    BY <2>1, WatchStutter DEF userVars
<1>2. CASE AttachEntry \/ AttachExit
  <2>1. /\ phase \notin {"returned", "fallback"}
        /\ phase' \notin {"returned", "fallback"}
        /\ links' # {} /\ UNCHANGED <<events, stop_flag, expired>>
    BY <1>2 DEF AttachEntry, AttachExit
  <2>2. Path!Attach
    BY <2>1 DEF Path!Attach
  <2>3. QED
    BY <2>2 DEF Path!EbpfNext
<1>3. CASE Attached \/ Poll \/ OpenReader \/ PollReturns \/ OnEntry
  <2>1. /\ UNCHANGED <<events, stop_flag, expired, links>>
        /\ phase \in {"entry", "loop", "poll"} /\ phase' \in {"entry", "loop", "poll"}
    BY <1>3 DEF Attached, Poll, OpenReader, PollReturns, OnEntry
  <2>2. QED
    BY <2>1, WatchStutter
<1>4. CASE OnExit
  <2>1. /\ phase = "poll" /\ phase' = phase
        /\ UNCHANGED <<stop_flag, expired, links>>
    BY <1>4 DEF OnExit
  <2>2. CASE events' = events
    BY <2>1, <2>2, WatchStutter
  <2>3. CASE ~EnoughEvents /\ events' = Append(events, EventOf(Head(ring)))
    <3>1. EventOf(Head(ring)) \in WatchEvent
      BY <1>0, <1>4, OnExitType
    <3> HIDE DEF EventOf
    <3>2. Len(events') = Len(events) + 1
      BY <1>0, <2>3, <3>1, AppendAll
    <3>3. Len(events) < MaxEvents
      BY <1>0, <2>3, WatchAssumption DEF EnoughEvents
    <3>4. links # {}
      BY <2>1 DEF ReaderInv
    <3>5. Path!Collect
      BY <2>1, <3>2, <3>3, <3>4 DEF Path!Collect
    <3>6. QED
      BY <3>5 DEF Path!EbpfNext
  <2>4. QED
    BY <1>0, <1>4, <2>2, <2>3, OnExitType
<1>5. CASE LoopExit
  <2>1. /\ phase = "loop" /\ phase' = "returned" /\ links' = {}
        /\ UNCHANGED <<events, stop_flag, expired>>
    BY <1>5 DEF LoopExit, detach_all, WatchInv, AllPushed
  <2>2. Len(events) >= MaxEvents \/ stop_flag \/ expired
    BY <1>5 DEF LoopExit, LoopEnds
  <2>3. Path!Return
    BY <2>1, <2>2 DEF Path!Return, Path!Ends
  <2>4. QED
    BY <2>3 DEF Path!EbpfNext
<1>6. CASE Throw
  <2>1. /\ phase \in {"entry", "exit", "poll"} /\ phase' = "fallback" /\ links' = {}
        /\ UNCHANGED <<events, stop_flag, expired>>
    BY <1>6 DEF Throw, PollFails, detach_all, WatchInv, AllPushed
  <2>2. ~rb
    BY <1>6 DEF Throw, PollFails, ReaderInv
  <2>3. Len(events) = 0
    BY <2>2 DEF ReaderInv
  <2>4. Path!Fail
    BY <2>1, <2>3 DEF Path!Fail, Path!Ends
  <2>5. QED
    BY <2>4 DEF Path!EbpfNext
<1>7. CASE request_stop
  <2>1. Path!Stop
    BY <1>7 DEF request_stop, Path!Stop
  <2>2. QED
    BY <2>1 DEF Path!EbpfNext
<1>8. CASE Expire
  <2>1. Path!Expire
    BY <1>8 DEF Expire, Path!Expire
  <2>2. QED
    BY <2>1 DEF Path!EbpfNext
<1>9. CASE UNCHANGED vars
  BY <1>9, WatchStutter DEF vars, userVars
<1>10. QED
  BY <1>1, <1>2, <1>3, <1>4, <1>5, <1>6, <1>7, <1>8, <1>9 DEF Next, WatchStep

\* The eBPF path of watch_checked() is what EbpfPath promises: it returns early
\* only for a reason, falls back only with nothing collected, and leaves no probe.
THEOREM Implementation == Spec => ImplementsEbpfPath
<1>1. Init => Path!EbpfInit
  BY DEF Init, Path!EbpfInit
<1>2. WatchInv /\ ReaderInv /\ [Next]_vars => [Path!EbpfNext]_(Path!ebpfVars)
  BY StepObserved DEF Abstract
<1>3. QED
  BY <1>1, <1>2, ReaderInvariant, PTL DEF Spec, ImplementsEbpfPath, Path!EbpfSpec

================================================================================
