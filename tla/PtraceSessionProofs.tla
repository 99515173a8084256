--------------------------- MODULE PtraceSessionProofs ---------------------------
(***************************************************************************)
(* Proofs about trace(), stack() and the target, for every text, set of    *)
(* return sites, bound and mix of signals, threads, exceptions and         *)
(* crashes.                                                                *)
(***************************************************************************)
EXTENDS PtraceSession, TLAPS, FiniteSetTheorems

--------------------------------------------------------------------------------
(* What reading, patching and restoring words does to a text, for every    *)
(* word size, breakpoint length and program                                *)

\* A word read from a text is a word: ptrace_read8.
LEMMA ReadType ==
    ASSUME NEW t \in Text, NEW a \in WordAddr
    PROVE  ptrace_read8(t, a) \in Word
BY SizesAssumption DEF Text, Word, WordAddr, Addr, ptrace_read8

\* Writing a word leaves a text: ptrace_write8 and restore_word.
LEMMA WriteType ==
    ASSUME NEW t \in Text, NEW a \in WordAddr, NEW w \in Word
    PROVE  restore_word(t, a, w) \in Text
<1>1. ASSUME NEW x \in Addr
      PROVE  (IF x \in a .. a + WordSize - 1 THEN w[x - a] ELSE t[x]) \in Byte
  BY SizesAssumption DEF Text, Word, WordAddr, Addr
<1>2. QED
  BY <1>1 DEF Text, restore_word, ptrace_write8

\* A patched word is a word: make_patched_word.
LEMMA PatchedWordType ==
    ASSUME NEW w \in Word
    PROVE  make_patched_word(w) \in Word
<1>1. Bp \in Byte
  BY DEF Byte
<1>2. QED
  BY <1>1 DEF Word, make_patched_word

\* Inserting a breakpoint leaves a text: insert_breakpoint.
LEMMA InsertType ==
    ASSUME NEW t \in Text, NEW a \in WordAddr
    PROVE  insert_breakpoint(t, a) \in Text
BY ReadType, PatchedWordType, WriteType DEF insert_breakpoint, restore_word

\* restore_word undoes insert_breakpoint when it is given the word that
\* insert_breakpoint returned.
LEMMA RestoreUndoesInsert ==
    ASSUME NEW t \in Text, NEW a \in WordAddr
    PROVE  restore_word(insert_breakpoint(t, a), a, ptrace_read8(t, a)) = t
<1> DEFINE r == restore_word(insert_breakpoint(t, a), a, ptrace_read8(t, a))
<1>1. ASSUME NEW x \in Addr
      PROVE  r[x] = t[x]
  BY SizesAssumption
     DEF restore_word, insert_breakpoint, ptrace_write8, ptrace_read8, WordAddr, Addr
<1>2. r = [x \in Addr |-> r[x]]
  BY DEF restore_word, ptrace_write8
<1>3. t = [x \in Addr |-> t[x]]
  BY DEF Text
<1>4. QED
  BY <1>1, <1>2, <1>3

\* Restoring a word that is in place changes nothing: the second call of
\* restore_word at the end of trace().
LEMMA RestoreInPlace ==
    ASSUME NEW t \in Text, NEW a \in WordAddr
    PROVE  restore_word(t, a, ptrace_read8(t, a)) = t
<1> DEFINE r == restore_word(t, a, ptrace_read8(t, a))
<1>1. ASSUME NEW x \in Addr
      PROVE  r[x] = t[x]
  BY SizesAssumption DEF restore_word, ptrace_write8, ptrace_read8, WordAddr, Addr
<1>2. r = [x \in Addr |-> r[x]]
  BY DEF restore_word, ptrace_write8
<1>3. t = [x \in Addr |-> t[x]]
  BY DEF Text
<1>4. QED
  BY <1>1, <1>2, <1>3

--------------------------------------------------------------------------------
(* Type correctness *)

\* Where the function's entry has been reached, its caller's return address is
\* on the stack: what ReturnAddress reads.
StackHolds == ip \in {Entry, Entry + PCAdjust} => stk # <<>>

\* A command that waits for a return knows the address.
RetKnown == waiting_for_exit => ret_vaddr \in RetSites

TypeInv == TypeOK /\ StackHolds /\ RetKnown

LEMMA SitesFacts ==
    /\ Entry \in Sites
    /\ RetSites \subseteq Sites
    /\ Sites \subseteq WordAddr
    /\ \A a \in Sites : a \in Nat
    /\ Elsewhere \notin Sites
    /\ \A a \in Sites : Elsewhere # a + PCAdjust
    /\ PCAdjust \in Nat
    /\ \A r \in RetSites : r # Entry /\ r # Entry + PCAdjust
    /\ \A r \in RetSites : r + PCAdjust # Entry /\ r + PCAdjust # Entry + PCAdjust
BY SitesAssumption, SizesAssumption DEF Sites, WordAddr, Elsewhere

LEMMA CodeIsText == Code \in Text
BY CodeAssumption DEF Text

\* Every step of the target keeps the types and the stack.
LEMMA TargetStepType ==
    ASSUME TypeInv, TargetStep
    PROVE  TypeInv'
<1> USE DEF TypeInv, TypeOK, TargetTypeOK, StackHolds, RetKnown
<1>1. EngineTypeOK' /\ RetKnown'
  BY DEF TargetStep, EngineTypeOK, engineVars, command, breakpoints, history
<1>2. ASSUME NEW r \in RetSites, Call(r)
      PROVE  TargetTypeOK' /\ StackHolds'
  <2>1. [ret |-> r, id |-> calls] \in Frame
    BY DEF Frame
  <2>2. stk' \in Seq(Frame) /\ stk' # <<>>
    BY <1>2, <2>1 DEF Call
  <2>3. QED
    BY <1>2, <2>2, SitesFacts DEF Call
<1>3. CASE Return
  <2>1. Head(stk) \in Frame /\ Tail(stk) \in Seq(Frame)
    BY <1>3 DEF Return
  <2>2. Head(stk).ret \in RetSites /\ Head(stk).id \in Nat
    BY <2>1 DEF Frame
  <2>3. QED
    BY <1>1, <1>3, <2>1, <2>2, SitesFacts DEF Return
<1>4. CASE Unwind
  <2>1. Head(stk) \in Frame /\ Tail(stk) \in Seq(Frame)
    BY <1>4 DEF Unwind
  <2>2. Head(stk).id \in Nat
    BY <2>1 DEF Frame
  <2>3. ip' \notin {Entry, Entry + PCAdjust}
    BY <1>1, <1>4, SitesFacts DEF Unwind
  <2>4. QED
    BY <1>1, <1>4, <2>1, <2>2, <2>3 DEF Unwind
<1>5. CASE Execute
  BY <1>1, <1>5, SitesFacts DEF Execute
<1>6. CASE Trap
  BY <1>1, <1>6, SitesFacts DEF Trap, SIGTRAP, Sites
<1>7. CASE Derail
  BY <1>1, <1>7, SitesFacts DEF Derail
<1>8. CASE Exit
  BY <1>1, <1>8 DEF Exit
<1>8b. CASE Killed
  BY <1>1, <1>8b DEF Killed
<1>9. ASSUME NEW a \in Sites, OtherThreadTraps(a)
      PROVE  TargetTypeOK' /\ StackHolds'
  BY <1>9 DEF OtherThreadTraps
<1>10. ASSUME NEW s \in Signals, SendSignal(s)
       PROVE  TargetTypeOK' /\ StackHolds'
  BY <1>10, TargetAssumption DEF SendSignal
<1>11. ASSUME NEW s \in {"STOP", "USR", "TRAP"}, TakeSignal(s)
       PROVE  TargetTypeOK' /\ StackHolds'
  BY <1>11, ZenonT(40) DEF TakeSignal, SIGTRAP
<1>12. QED
  BY <1>1, <1>2, <1>3, <1>4, <1>5, <1>6, <1>7, <1>8, <1>8b, <1>9, <1>10,
     <1>11 DEF TargetStep, TargetNext

LEMMA EmptyResults == <<>> \in Seq(Node)
OBVIOUS

\* The arithmetic of Begin.
LEMMA BeginCounts ==
    ASSUME NEW c \in {"trace", "stack"}, NEW n \in Counts, Begin(c, n), EngineTypeOK
    PROVE  sessions' \in Nat /\ entered' \in Nat /\ ret_vaddr' = 0
BY DEF Begin, EngineTypeOK

\* Resuming or leaving a tracee loses only signals that somebody can send.
LEMMA SwallowedType == Swallowed \subseteq Signals
BY DEF Swallowed

\* Every step of trace(), of the SIGINT handler and of the clock keeps the
\* types and the stack.
LEMMA EngineStepType ==
    ASSUME TypeInv,
           \/ \E c \in {"trace", "stack"}, n \in Counts :
                Attach(c, n) \/ AttachFails(c, n)
           \/ CommandStep \/ UatuGone \/ request_stop \/ Expire
    PROVE  TypeInv'
<1>0. TargetTypeOK /\ EngineTypeOK /\ StackHolds /\ RetKnown
  BY DEF TypeInv, TypeOK
<1>1. ASSUME NEW c \in {"trace", "stack"}, NEW n \in Counts, Attach(c, n)
      PROVE  TypeInv'
  <2>1. TargetTypeOK' /\ StackHolds'
    BY <1>1, <1>0
       DEF Attach, Begin, PtraceAttach, OwnTarget, TargetTypeOK, StackHolds
  <2>2. EngineTypeOK' /\ RetKnown'
    <3>1. sessions' \in Nat /\ entered' \in Nat /\ ret_vaddr' = 0
      BY <1>1, <1>0, BeginCounts DEF Attach
    <3>2. QED
      BY <1>1, <1>0, <3>1, EmptyResults, Zenon
         DEF Attach, Begin, EngineTypeOK, RetKnown
  <2>3. QED
    BY <2>1, <2>2 DEF TypeInv, TypeOK
<1>2. ASSUME NEW c \in {"trace", "stack"}, NEW n \in Counts, AttachFails(c, n)
      PROVE  TypeInv'
  <2>1. TargetTypeOK' /\ StackHolds'
    BY <1>2, <1>0
       DEF AttachFails, Begin, PtraceNothing, OwnTarget, TargetTypeOK,
           StackHolds
  <2>2. EngineTypeOK' /\ RetKnown'
    <3>1. sessions' \in Nat /\ entered' \in Nat /\ ret_vaddr' = 0
      BY <1>2, <1>0, BeginCounts DEF AttachFails
    <3>2. QED
      BY <1>2, <1>0, <3>1, EmptyResults, Zenon
         DEF AttachFails, Begin, EngineTypeOK, RetKnown
  <2>3. QED
    BY <2>1, <2>2 DEF TypeInv, TypeOK
<1>3. CASE AttachStopSeen
  <2>1. TargetTypeOK' /\ StackHolds'
    BY <1>3, <1>0 DEF AttachStopSeen, targetVars, TargetTypeOK, StackHolds
  <2>2. EngineTypeOK' /\ RetKnown'
    BY <1>3, <1>0
       DEF AttachStopSeen, command, breakpoints, history, EngineTypeOK, RetKnown
  <2>3. QED
    BY <2>1, <2>2 DEF TypeInv, TypeOK
<1>4. CASE AttachTimeout
  <2>1. TargetTypeOK' /\ StackHolds'
    BY <1>4, <1>0, SwallowedType, ZenonT(40)
       DEF AttachTimeout, PtraceDetach, PtraceNothing, OwnTarget, TargetTypeOK,
           StackHolds
  <2>2. EngineTypeOK' /\ RetKnown'
    BY <1>4, <1>0
       DEF AttachTimeout, command, breakpoints, history, EngineTypeOK, RetKnown
  <2>3. QED
    BY <2>1, <2>2 DEF TypeInv, TypeOK
<1>5. CASE Install
  <2>1. text' \in Text /\ orig_entry' \in Word
    BY <1>5, <1>0, ReadType, InsertType, SitesFacts DEF Install, TargetTypeOK
  <2>2. TargetTypeOK' /\ StackHolds'
    BY <1>5, <1>0, <2>1
       DEF Install, PtraceNothing, OwnTarget, TargetTypeOK, StackHolds
  <2>3. EngineTypeOK' /\ RetKnown'
    BY <1>5, <1>0, <2>1 DEF Install, command, history, EngineTypeOK, RetKnown
  <2>4. QED
    BY <2>2, <2>3 DEF TypeInv, TypeOK
<1>6. CASE InstallThrows
  <2>1. TargetTypeOK' /\ StackHolds'
    BY <1>6, <1>0 DEF InstallThrows, targetVars, TargetTypeOK, StackHolds
  <2>2. EngineTypeOK' /\ RetKnown'
    BY <1>6, <1>0
       DEF InstallThrows, command, breakpoints, history, EngineTypeOK, RetKnown
  <2>3. QED
    BY <2>1, <2>2 DEF TypeInv, TypeOK
<1>7. CASE LoopExit
  <2>1. TargetTypeOK' /\ StackHolds'
    BY <1>7, <1>0 DEF LoopExit, targetVars, TargetTypeOK, StackHolds
  <2>2. EngineTypeOK' /\ RetKnown'
    BY <1>7, <1>0
       DEF LoopExit, command, breakpoints, history, EngineTypeOK, RetKnown
  <2>3. QED
    BY <2>1, <2>2 DEF TypeInv, TypeOK
<1>8. CASE LoopCont
  <2>1. TargetTypeOK' /\ StackHolds'
    BY <1>8, <1>0, SwallowedType, ZenonT(40)
       DEF LoopCont, PtraceCont, PtraceNothing, OwnTarget, TargetTypeOK,
           StackHolds
  <2>2. EngineTypeOK' /\ RetKnown'
    BY <1>8, <1>0, ZenonT(40)
       DEF LoopCont, command, breakpoints, history, EngineTypeOK, RetKnown
  <2>3. QED
    BY <2>1, <2>2 DEF TypeInv, TypeOK
<1>9. CASE WaitStopped
  <2>1. TargetTypeOK' /\ StackHolds'
    BY <1>9, <1>0 DEF WaitStopped, targetVars, TargetTypeOK, StackHolds
  <2>2. EngineTypeOK' /\ RetKnown'
    BY <1>9, <1>0
       DEF WaitStopped, command, breakpoints, history, EngineTypeOK, RetKnown
  <2>3. QED
    BY <2>1, <2>2 DEF TypeInv, TypeOK
<1>10. CASE WaitExited
  <2>1. TargetTypeOK' /\ StackHolds'
    BY <1>10, <1>0 DEF WaitExited, targetVars, TargetTypeOK, StackHolds
  <2>2. EngineTypeOK' /\ RetKnown'
    BY <1>10, <1>0
       DEF WaitExited, command, breakpoints, history, EngineTypeOK, RetKnown
  <2>3. QED
    BY <2>1, <2>2 DEF TypeInv, TypeOK
<1>11. CASE WaitTimeout
  <2>1. TargetTypeOK' /\ StackHolds'
    BY <1>11, <1>0 DEF WaitTimeout, targetVars, TargetTypeOK, StackHolds
  <2>2. EngineTypeOK' /\ RetKnown'
    BY <1>11, <1>0
       DEF WaitTimeout, command, breakpoints, history, EngineTypeOK, RetKnown
  <2>3. QED
    BY <2>1, <2>2 DEF TypeInv, TypeOK
<1>12. CASE ForwardSignal
  <2>1. TargetTypeOK' /\ StackHolds'
    <3>1. CASE ~Requestable
      <4>1. PtraceNothing
        BY <1>12, <3>1 DEF ForwardSignal, PassSignal
      <4>2. QED
        BY <1>12, <1>0, <4>1
           DEF ForwardSignal, PtraceNothing, OwnTarget, TargetTypeOK, StackHolds
    <3>2. CASE Requestable
      <4>1. PtraceContSig
        BY <1>12, <3>2 DEF ForwardSignal, PassSignal
      <4>2. /\ tstate' \in {"running", "stopped"}
            /\ sig' \in {"none", "GROUP"}
            /\ jobstop' \in BOOLEAN
        BY <4>1, <1>0 DEF PtraceContSig, TargetTypeOK
      <4>3. QED
        BY <1>12, <1>0, <4>1, <4>2
           DEF ForwardSignal, PtraceContSig, OwnTarget, TargetTypeOK, StackHolds
    <3>3. QED
      BY <3>1, <3>2
  <2>2. EngineTypeOK' /\ RetKnown'
    BY <1>12, <1>0, ZenonT(40)
       DEF ForwardSignal, command, breakpoints, history, EngineTypeOK, RetKnown
  <2>3. QED
    BY <2>1, <2>2 DEF TypeInv, TypeOK
<1>13. ASSUME ~waiting_for_exit, HitAt(Entry)
       PROVE  /\ ip = Entry + PCAdjust
              /\ ReturnAddress \in RetSites
              /\ Head(stk).id \in Nat
              /\ restore_word(text, Entry, orig_entry) \in Text
  <2>1. ip \in Int
    BY <1>0, SitesFacts DEF TargetTypeOK, Elsewhere
  <2>2. ip = Entry + PCAdjust
    BY <1>13, <2>1, SitesFacts DEF HitAt, hit_addr
  <2>3. Head(stk) \in Frame
    BY <1>0, <2>2 DEF StackHolds, TargetTypeOK
  <2>4. ReturnAddress \in RetSites /\ Head(stk).id \in Nat
    BY <2>3 DEF Frame, ReturnAddress
  <2>5. restore_word(text, Entry, orig_entry) \in Text
    BY <1>0, WriteType, SitesFacts DEF TargetTypeOK, EngineTypeOK
  <2>6. QED
    BY <2>2, <2>4, <2>5
<1>14. ASSUME ~waiting_for_exit, HitAt(Entry), ArmReturn
       PROVE  /\ text' \in Text
              /\ orig_ret' \in Word
              /\ ret_vaddr' \in RetSites
  BY <1>13, <1>14, ReadType, InsertType, SitesFacts
     DEF ArmReturn, MoveBreakpoint, SavedWord
<1>15. ASSUME waiting_for_exit, RearmEntry
       PROVE  /\ text' \in Text
              /\ orig_entry' \in Word
              /\ ret_vaddr \in Sites
              /\ ret_vaddr \notin {Entry, Entry + PCAdjust}
  <2>1. ret_vaddr \in RetSites
    BY <1>15, <1>0 DEF RetKnown
  <2>2. restore_word(text, ret_vaddr, orig_ret) \in Text
    BY <1>0, <2>1, WriteType, SitesFacts DEF TargetTypeOK, EngineTypeOK
  <2>3. QED
    BY <1>15, <2>1, <2>2, ReadType, InsertType, SitesFacts
       DEF RearmEntry, MoveBreakpoint, SavedWord
<1>16. ASSUME NEW n \in Node, results' = Append(results, n)
       PROVE  results' \in Seq(Node)
  <2>1. results \in Seq(Node)
    BY <1>0 DEF EngineTypeOK
  <2>2. QED
    BY <1>16, <2>1
<1>17. CASE TraceEntryHit
  <2>1. TargetTypeOK' /\ StackHolds'
    BY <1>17, <1>0, <1>13, <1>14, SitesFacts
       DEF TraceEntryHit, PtraceNothing, OwnTarget, TargetTypeOK, StackHolds
  <2>2. EngineTypeOK' /\ RetKnown'
    BY <1>17, <1>0, <1>13, <1>14
       DEF TraceEntryHit, ArmReturn, command, EngineTypeOK, RetKnown
  <2>3. QED
    BY <2>1, <2>2 DEF TypeInv, TypeOK
<1>18. CASE TraceReturnHit
  <2>1. TargetTypeOK' /\ StackHolds'
    BY <1>18, <1>0, <1>15
       DEF TraceReturnHit, PtraceNothing, OwnTarget, TargetTypeOK, StackHolds
  <2>2. results' \in Seq(Node)
    <3>1. [entered |-> entered, returned |-> popped,
           open |-> \E i \in 1 .. Len(stk) : stk[i].id = entered,
           late |-> stop_flag] \in Node
      BY <1>0 DEF Node, TargetTypeOK, EngineTypeOK
    <3>2. QED
      BY <1>16, <1>18, <3>1 DEF TraceReturnHit
  <2>3. EngineTypeOK' /\ RetKnown'
    BY <1>18, <1>0, <1>15, <2>2, ZenonT(40)
       DEF TraceReturnHit, RearmEntry, command, history, EngineTypeOK, RetKnown
  <2>4. QED
    BY <2>1, <2>3 DEF TypeInv, TypeOK
<1>19. CASE StackEntryHit
  <2>1. results' \in Seq(Node)
    <3>1. [entered |-> Head(stk).id, returned |-> Head(stk).id,
           open |-> TRUE, late |-> stop_flag] \in Node
      BY <1>19, <1>0, <1>13 DEF StackEntryHit, Node, EngineTypeOK
    <3>2. QED
      BY <1>16, <1>19, <3>1 DEF StackEntryHit
  <2>2. CASE LeaveUnarmed
    <3>1. TargetTypeOK' /\ StackHolds'
      BY <1>19, <1>0, <1>13, <2>2, SitesFacts
         DEF StackEntryHit, LeaveUnarmed, PtraceNothing, OwnTarget, TargetTypeOK,
             StackHolds
    <3>2. EngineTypeOK' /\ RetKnown'
      BY <1>19, <1>0, <2>1, <2>2
         DEF StackEntryHit, LeaveUnarmed, command, history, EngineTypeOK, RetKnown
    <3>3. QED
      BY <3>1, <3>2 DEF TypeInv, TypeOK
  <2>3. CASE ArmForNextSample
    <3>1. TargetTypeOK' /\ StackHolds'
      BY <1>19, <1>0, <1>13, <1>14, <2>3, SitesFacts
         DEF StackEntryHit, ArmForNextSample, PtraceNothing, OwnTarget,
             TargetTypeOK, StackHolds
    <3>2. EngineTypeOK' /\ RetKnown'
      BY <1>19, <1>0, <1>14, <2>1, <2>3
         DEF StackEntryHit, ArmForNextSample, ArmReturn, command, history,
             EngineTypeOK, RetKnown
    <3>3. QED
      BY <3>1, <3>2 DEF TypeInv, TypeOK
  <2>4. QED
    BY <1>19, <2>2, <2>3 DEF StackEntryHit
<1>20. CASE StackReturnHit
  <2>1. TargetTypeOK' /\ StackHolds'
    BY <1>20, <1>0, <1>15
       DEF StackReturnHit, PtraceNothing, OwnTarget, TargetTypeOK, StackHolds
  <2>2. EngineTypeOK' /\ RetKnown'
    BY <1>20, <1>0, <1>15
       DEF StackReturnHit, RearmEntry, command, history, EngineTypeOK, RetKnown
  <2>3. QED
    BY <2>1, <2>2 DEF TypeInv, TypeOK
<1>21. CASE UnexpectedTrap
  <2>1. TargetTypeOK' /\ StackHolds'
    BY <1>21, <1>0 DEF UnexpectedTrap, targetVars, TargetTypeOK, StackHolds
  <2>2. EngineTypeOK' /\ RetKnown'
    BY <1>21, <1>0
       DEF UnexpectedTrap, command, breakpoints, history, EngineTypeOK, RetKnown
  <2>3. QED
    BY <2>1, <2>2 DEF TypeInv, TypeOK
<1>22. CASE HandlerThrows
  <2>1. TargetTypeOK' /\ StackHolds'
    BY <1>22, <1>0 DEF HandlerThrows, targetVars, TargetTypeOK, StackHolds
  <2>2. EngineTypeOK' /\ RetKnown'
    BY <1>22, <1>0
       DEF HandlerThrows, command, breakpoints, history, EngineTypeOK, RetKnown
  <2>3. QED
    BY <2>1, <2>2 DEF TypeInv, TypeOK
<1>23. CASE Cleanup
  <2>1. CleanedText \in Text
    BY <1>0, WriteType, SitesFacts DEF CleanedText, TargetTypeOK, EngineTypeOK, RetKnown
  <2>2. TargetTypeOK' /\ StackHolds'
    BY <1>23, <1>0, <2>1, SwallowedType
       DEF Cleanup, PtraceDetach, OwnTarget, TargetTypeOK, StackHolds
  <2>3. EngineTypeOK' /\ RetKnown'
    BY <1>23, <1>0
       DEF Cleanup, command, breakpoints, history, EngineTypeOK, RetKnown
  <2>4. QED
    BY <2>2, <2>3 DEF TypeInv, TypeOK
<1>24. CASE CleanupThrows
  <2>1. TargetTypeOK' /\ StackHolds'
    BY <1>24, <1>0 DEF CleanupThrows, targetVars, TargetTypeOK, StackHolds
  <2>2. EngineTypeOK' /\ RetKnown'
    BY <1>24, <1>0
       DEF CleanupThrows, command, breakpoints, history, EngineTypeOK, RetKnown
  <2>3. QED
    BY <2>1, <2>2 DEF TypeInv, TypeOK
<1>25. CASE CleanupNothing
  <2>1. TargetTypeOK' /\ StackHolds'
    BY <1>25, <1>0 DEF CleanupNothing, targetVars, TargetTypeOK, StackHolds
  <2>2. EngineTypeOK' /\ RetKnown'
    BY <1>25, <1>0
       DEF CleanupNothing, command, breakpoints, history, EngineTypeOK, RetKnown
  <2>3. QED
    BY <2>1, <2>2 DEF TypeInv, TypeOK
<1>26. CASE UatuGone
  <2>1. TargetTypeOK' /\ StackHolds'
    BY <1>26, <1>0, SwallowedType
       DEF UatuGone, TracerGone, OwnTarget, TargetTypeOK, StackHolds
  <2>2. EngineTypeOK' /\ RetKnown'
    BY <1>26, <1>0
       DEF UatuGone, command, breakpoints, history, EngineTypeOK, RetKnown
  <2>3. QED
    BY <2>1, <2>2 DEF TypeInv, TypeOK
<1>27. CASE request_stop
  <2>1. TargetTypeOK' /\ StackHolds'
    BY <1>27, <1>0 DEF request_stop, targetVars, TargetTypeOK, StackHolds
  <2>2. EngineTypeOK' /\ RetKnown'
    BY <1>27, <1>0
       DEF request_stop, command, breakpoints, history, EngineTypeOK, RetKnown
  <2>3. QED
    BY <2>1, <2>2 DEF TypeInv, TypeOK
<1>28. CASE Expire
  <2>1. TargetTypeOK' /\ StackHolds'
    BY <1>28, <1>0 DEF Expire, targetVars, TargetTypeOK, StackHolds
  <2>2. EngineTypeOK' /\ RetKnown'
    BY <1>28, <1>0
       DEF Expire, command, breakpoints, history, EngineTypeOK, RetKnown
  <2>3. QED
    BY <2>1, <2>2 DEF TypeInv, TypeOK
<1>29. QED
  BY <1>1, <1>2, <1>3, <1>4, <1>5, <1>6, <1>7, <1>8, <1>9, <1>10, <1>11, <1>12,
     <1>17, <1>18, <1>19, <1>20, <1>21, <1>22, <1>23, <1>24, <1>25, <1>26, <1>27,
     <1>28 DEF CommandStep

LEMMA TypeInvariant == Spec => []TypeInv
<1>1. Init => TypeInv
  <2> SUFFICES ASSUME Init PROVE TypeInv
    OBVIOUS
  <2>1. StackHolds
    BY SitesFacts DEF Init, TargetInit, StackHolds
  <2>2. stk \in Seq(Frame)
    <3>1. \A r \in RetSites : [ret |-> r, id |-> 0] \in Frame
      BY DEF Frame
    <3>2. CASE stk = <<>>
      BY <3>2
    <3>3. ASSUME NEW r \in RetSites, stk = <<[ret |-> r, id |-> 0]>>
          PROVE  stk \in Seq(Frame)
      BY <3>1, <3>3
    <3>4. QED
      BY <3>2, <3>3 DEF Init, TargetInit
  <2>3. text \in Text /\ orig_entry \in Word /\ orig_ret \in Word
    BY CodeIsText, ReadType, SitesFacts DEF Init, TargetInit
  <2>4. QED
    BY <2>1, <2>2, <2>3, EmptyResults
       DEF Init, TargetInit, TypeInv, TypeOK, TargetTypeOK, EngineTypeOK, RetKnown
<1>2. TypeInv /\ [Next]_vars => TypeInv'
  <2>1. ASSUME TypeInv, UNCHANGED vars
        PROVE  TypeInv'
    BY <2>1 DEF vars, targetVars, engineVars, command, breakpoints, history, TypeInv,
                TypeOK, TargetTypeOK, EngineTypeOK, StackHolds, RetKnown
  <2>2. QED
    BY <2>1, TargetStepType, EngineStepType DEF Next
<1>3. QED
  BY <1>1, <1>2, PTL DEF Spec

\* The variables of trace() and of its target keep their types in every
\* behaviour.
THEOREM TypeCorrect == Spec => []TypeOK
<1>1. TypeInv => TypeOK
  BY DEF TypeInv
<1>2. QED
  BY <1>1, TypeInvariant, PTL

--------------------------------------------------------------------------------
(* The text of the target *)

Observing == {"loop", "wait", "handle", "cleanup"}

\* The text that a command believes to be in the target.
Believed ==
    IF waiting_for_exit THEN Patched(ret_vaddr)
    ELSE IF entry_armed THEN Patched(Entry) ELSE Code

\* The tracee executes.
Moving == tstate \notin {"stopped", "dead"}

\* The inductive invariant.  While a command observes, the text is the program
\* with the breakpoint it believes to be armed, and each saved word is the
\* program's own; before that it is the program.  Only stack(), once it has its
\* last sample, observes with nothing armed, and the tracee stands still.  That
\* the next command starts from the program is known only from the fourth
\* conjunct: an attached target cannot be attached again.
PatchInv ==
    /\ OnePatch
    /\ pc \in {"attachWait", "install"} => traced /\ text = Code /\ ~waiting_for_exit
    /\ pc \in Observing =>
         /\ traced
         /\ text = Believed
         /\ orig_entry = ptrace_read8(Code, Entry)
         /\ waiting_for_exit => orig_ret = ptrace_read8(Code, ret_vaddr)
         /\ cmd = "trace" => entry_armed
         /\ ~waiting_for_exit /\ ~entry_armed => pc = "cleanup" /\ ~Moving
    /\ text # Code /\ pc # "exited" => traced
    /\ CleanReturn

\* A step that changes neither the text nor what the command knows of it.
LEMMA PatchFrame ==
    ASSUME PatchInv, UNCHANGED <<text, traced, cmd, breakpoints>>,
           tstate = "dead" => tstate' = "dead",
           pc # "cleanup" \/ Moving \/ ~Moving',
           \/ UNCHANGED <<pc, outcome>>
           \/ pc = "attachWait" /\ pc' = "install"
           \/ pc \in Observing \ {"cleanup"} /\ pc' \in Observing
           \/ pc' = "idle" /\ pc # "exited" /\ outcome' = "threw"
    PROVE  PatchInv'
BY DEF PatchInv, OnePatch, Observing, Believed, Patched, CleanReturn, Moving,
       breakpoints

\* Taking a breakpoint out gives the program back.
LEMMA RestoredIsCode ==
    ASSUME NEW a \in Sites
    PROVE  /\ restore_word(Patched(a), a, ptrace_read8(Code, a)) = Code
           /\ restore_word(Code, a, ptrace_read8(Code, a)) = Code
BY RestoreUndoesInsert, RestoreInPlace, CodeIsText, SitesFacts DEF Patched

\* Moving the breakpoint to the return address of the call just entered.
LEMMA ArmReturnPatch ==
    ASSUME TypeInv', PatchInv, pc \in Observing, ~waiting_for_exit, ArmReturn
    PROVE  /\ text' = Patched(ret_vaddr')
           /\ orig_ret' = ptrace_read8(Code, ret_vaddr')
           /\ ret_vaddr' \in Sites
<1>1. restore_word(text, Entry, orig_entry) = Code
  BY RestoredIsCode, SitesFacts DEF PatchInv, Believed
<1>2. QED
  BY <1>1, SitesFacts
     DEF ArmReturn, MoveBreakpoint, SavedWord, Patched, TypeInv, RetKnown

\* Moving it back to the entry.
LEMMA RearmEntryPatch ==
    ASSUME TypeInv, PatchInv, pc \in Observing, waiting_for_exit, RearmEntry
    PROVE  /\ text' = Patched(Entry)
           /\ orig_entry' = ptrace_read8(Code, Entry)
<1>1. restore_word(text, ret_vaddr, orig_ret) = Code
  BY RestoredIsCode, SitesFacts DEF PatchInv, Believed, TypeInv, RetKnown
<1>2. QED
  BY <1>1 DEF RearmEntry, MoveBreakpoint, SavedWord, Patched

\* The cleanup removes whatever is armed.
LEMMA CleanedIsCode ==
    ASSUME TypeInv, PatchInv, pc \in Observing
    PROVE  CleanedText = Code
<1>1. CASE waiting_for_exit
  <2>1. restore_word(text, ret_vaddr, orig_ret) = Code
    BY <1>1, RestoredIsCode, SitesFacts DEF PatchInv, Believed, TypeInv, RetKnown
  <2>2. QED
    BY <1>1, <2>1, RestoredIsCode, SitesFacts DEF CleanedText, PatchInv
<1>2. CASE ~waiting_for_exit
  BY <1>2, RestoredIsCode, SitesFacts DEF CleanedText, PatchInv, Believed
<1>3. QED
  BY <1>1, <1>2

\* Every step preserves the invariant.
LEMMA PatchStep ==
    ASSUME TypeInv, TypeInv', PatchInv, [Next]_vars
    PROVE  PatchInv'
<1> USE DEF Observing
<1>1. CASE UNCHANGED vars
  BY <1>1, PatchFrame DEF vars, targetVars, engineVars, command, Moving
<1>2. CASE TargetStep
  <2>1. /\ text' = text /\ traced' = traced
        /\ tstate = "dead" => tstate' = "dead"
        /\ Moving \/ ~Moving'
    BY <1>2 DEF TargetStep, TargetNext, Call, Return, Unwind, Execute, Trap, Derail,
                Exit, Killed, OtherThreadTraps, SendSignal, TakeSignal, Moving
  <2>2. QED
    BY <1>2, <2>1, PatchFrame DEF TargetStep, engineVars, command
<1>3. ASSUME NEW c \in {"trace", "stack"}, NEW n \in Counts, Attach(c, n)
      PROVE  PatchInv'
  BY <1>3 DEF Attach, Begin, PtraceAttach, PatchInv, OnePatch, CleanReturn
<1>4. ASSUME NEW c \in {"trace", "stack"}, NEW n \in Counts, AttachFails(c, n)
      PROVE  PatchInv'
  BY <1>4 DEF AttachFails, Begin, PtraceNothing, PatchInv, OnePatch, CleanReturn
<1>5. CASE AttachTimeout
  BY <1>5 DEF AttachTimeout, PtraceDetach, PtraceNothing, PatchInv, OnePatch,
              CleanReturn
<1>6. CASE Install
  <2>1. text' = Patched(Entry) /\ orig_entry' = ptrace_read8(Code, Entry)
    BY <1>6 DEF Install, PatchInv, Patched
  <2>2. ~waiting_for_exit' /\ entry_armed'
    BY <1>6 DEF Install, PatchInv
  <2>3. QED
    BY <1>6, <2>1, <2>2, SitesFacts
       DEF Install, PtraceNothing, PatchInv, OnePatch, Believed, CleanReturn
<1>7. CASE \/ AttachStopSeen \/ InstallThrows \/ LoopExit \/ WaitStopped
           \/ WaitExited \/ WaitTimeout \/ UnexpectedTrap \/ HandlerThrows
           \/ CleanupThrows
  BY <1>7, PatchFrame
     DEF AttachStopSeen, InstallThrows, LoopExit, WaitStopped, WaitExited,
         WaitTimeout, UnexpectedTrap, HandlerThrows, CleanupThrows, targetVars,
         command, Moving
<1>8. CASE LoopCont
  BY <1>8, PatchFrame DEF LoopCont, PtraceCont, PtraceNothing, Requestable, command
<1>9. CASE ForwardSignal
  BY <1>9, PatchFrame
     DEF ForwardSignal, PassSignal, PtraceContSig, PtraceNothing, Requestable,
         command
<1>10. CASE TraceEntryHit
  <2>1. /\ text' = Patched(ret_vaddr')
        /\ orig_ret' = ptrace_read8(Code, ret_vaddr')
        /\ ret_vaddr' \in Sites
    BY <1>10, ArmReturnPatch DEF TraceEntryHit, HitAt
  <2>2. QED
    BY <1>10, <2>1
       DEF TraceEntryHit, HitAt, ArmReturn, PtraceNothing, PatchInv, OnePatch,
           Believed, CleanReturn, command
<1>11. CASE TraceReturnHit
  <2>1. text' = Patched(Entry) /\ orig_entry' = ptrace_read8(Code, Entry)
    BY <1>11, RearmEntryPatch DEF TraceReturnHit, HitAt
  <2>2. entry_armed'
    BY <1>11, <2>1 DEF TraceReturnHit, HitAt, PatchInv
  <2>3. QED
    BY <1>11, <2>1, <2>2, SitesFacts
       DEF TraceReturnHit, HitAt, RearmEntry, PtraceNothing, PatchInv, OnePatch,
           Believed, CleanReturn, command
<1>12. CASE StackEntryHit
  <2>1. CASE LeaveUnarmed
    <3>1. text' = Code
      BY <1>12, <2>1, RestoredIsCode, SitesFacts
         DEF StackEntryHit, HitAt, LeaveUnarmed, PatchInv, Believed
    <3>2. QED
      BY <1>12, <2>1, <3>1
         DEF StackEntryHit, HitAt, LeaveUnarmed, PtraceNothing, PatchInv, OnePatch,
             Believed, CleanReturn, Moving, Requestable, command
  <2>2. CASE ArmForNextSample
    <3>1. /\ text' = Patched(ret_vaddr')
          /\ orig_ret' = ptrace_read8(Code, ret_vaddr')
          /\ ret_vaddr' \in Sites
      BY <1>12, <2>2, ArmReturnPatch DEF StackEntryHit, HitAt, ArmForNextSample
    <3>2. QED
      BY <1>12, <2>2, <3>1
         DEF StackEntryHit, HitAt, ArmForNextSample, ArmReturn, PtraceNothing,
             PatchInv, OnePatch, Believed, CleanReturn, command
  <2>3. QED
    BY <1>12, <2>1, <2>2 DEF StackEntryHit
<1>13. CASE StackReturnHit
  <2>1. text' = Patched(Entry) /\ orig_entry' = ptrace_read8(Code, Entry)
    BY <1>13, RearmEntryPatch DEF StackReturnHit, HitAt
  <2>2. QED
    BY <1>13, <2>1, SitesFacts
       DEF StackReturnHit, HitAt, RearmEntry, PtraceNothing, PatchInv, OnePatch,
           Believed, CleanReturn, command
<1>14. CASE Cleanup
  <2>1. text' = Code
    BY <1>14, CleanedIsCode DEF Cleanup
  <2>2. QED
    BY <1>14, <2>1 DEF Cleanup, PtraceDetach, PatchInv, OnePatch, CleanReturn
<1>15. CASE CleanupNothing
  <2>1. text = Code /\ traced /\ tstate # "stopped"
    BY <1>15 DEF CleanupNothing, PatchInv, Believed, Requestable
  <2>2. tstate = "dead"
    BY <1>15, <2>1 DEF CleanupNothing, PatchInv, Moving
  <2>3. QED
    BY <1>15, <2>1, <2>2
       DEF CleanupNothing, targetVars, PatchInv, OnePatch, CleanReturn
<1>16. CASE UatuGone
  BY <1>16 DEF UatuGone, PatchInv, OnePatch, CleanReturn
<1>17. CASE request_stop
  BY <1>17, PatchFrame DEF request_stop, targetVars, command, Moving
<1>18. CASE Expire
  BY <1>18, PatchFrame DEF Expire, targetVars, command, Moving
<1>19. QED
  BY <1>1, <1>2, <1>3, <1>4, <1>5, <1>6, <1>7, <1>8, <1>9, <1>10, <1>11, <1>12,
     <1>13, <1>14, <1>15, <1>16, <1>17, <1>18 DEF Next, CommandStep

LEMMA PatchInvariant == Spec => [](TypeInv /\ PatchInv)
<1>1. Init => PatchInv
  BY DEF Init, TargetInit, PatchInv, OnePatch, CleanReturn, Observing
<1>2. QED
  BY <1>1, PatchStep, TypeInvariant, PTL DEF Spec

\* The text of the target is the program or the program with one breakpoint, for
\* every placement of entry and return sites, in every behaviour.
THEOREM OnePatchTheorem == Spec => []OnePatch
<1>1. PatchInv => OnePatch
  BY DEF PatchInv
<1>2. QED
  BY <1>1, PatchInvariant, PTL

\* A normal return of trace() leaves the program's own text and no attachment.
THEOREM CleanReturnTheorem == Spec => []CleanReturn
<1>1. PatchInv => CleanReturn
  BY DEF PatchInv
<1>2. QED
  BY <1>1, PatchInvariant, PTL

\* uatu never detaches from a target whose text still holds a breakpoint.
THEOREM NoPatchLeftBehindTheorem == Spec => []NoPatchLeftBehind
<1>1. PatchInv => NoPatchLeftBehind
  BY DEF PatchInv, NoPatchLeftBehind
<1>2. QED
  BY <1>1, PatchInvariant, PTL

--------------------------------------------------------------------------------
(* Where the tracee stands still *)

\* The tracee stands still, or is dead, wherever a command handles a stop, and
\* wherever it goes on without having resumed it; only a command that has given
\* up reaches its cleanup with a tracee that moves.
StillInv ==
    /\ pc \in {"wait", "handle"} => need_cont
    /\ \/ pc \in {"install", "handle"}
       \/ pc = "loop" /\ need_cont
       \/ pc = "cleanup" /\ ~abandoned
       => ~Moving

\* The target does not change what uatu knows, and does not leave a ptrace stop.
LEMMA TargetStepFrame ==
    ASSUME TargetStep
    PROVE  /\ UNCHANGED <<pc, outcome, sessions, cmd, count, mapped, stop_flag, expired,
                          waiting_for_exit, entry_armed, ret_vaddr, orig_entry,
                          orig_ret, need_cont, results, entered, fresh, abandoned>>
           /\ UNCHANGED <<text, traced, lost>>
           /\ ~Moving => ~Moving'
           /\ tstate = "dead" => tstate' = "dead"
BY DEF TargetStep, TargetNext, Call, Return, Unwind, Execute, Trap, Derail, Exit,
       Killed, OtherThreadTraps, SendSignal, TakeSignal, Moving, engineVars, command,
       breakpoints, history

LEMMA StillStep ==
    ASSUME TypeInv, StillInv, [Next]_vars
    PROVE  StillInv'
<1>0. need_cont \in BOOLEAN /\ abandoned \in BOOLEAN
  BY DEF TypeInv, TypeOK, EngineTypeOK
<1>1. CASE UNCHANGED vars
  BY <1>1 DEF vars, targetVars, engineVars, history, StillInv, Moving
<1>2. CASE TargetStep
  BY <1>2, TargetStepFrame DEF StillInv
<1>3. ASSUME NEW c \in {"trace", "stack"}, NEW n \in Counts,
             Attach(c, n) \/ AttachFails(c, n)
      PROVE  StillInv'
  BY <1>3 DEF Attach, AttachFails, StillInv
<1>4. CASE AttachTimeout \/ InstallThrows \/ HandlerThrows \/ Cleanup
           \/ CleanupNothing \/ CleanupThrows \/ UatuGone
  BY <1>4 DEF AttachTimeout, InstallThrows, HandlerThrows, Cleanup, CleanupNothing,
              CleanupThrows, UatuGone, StillInv
<1>5. CASE AttachStopSeen \/ WaitStopped \/ WaitExited \/ WaitTimeout
           \/ UnexpectedTrap \/ LoopExit \/ request_stop \/ Expire
  <2>1. CASE LoopExit
    BY <1>0, <2>1 DEF LoopExit, targetVars, StillInv, Moving
  <2>2. CASE WaitTimeout
    BY <2>2 DEF WaitTimeout, StillInv
  <2>3. CASE AttachStopSeen \/ WaitStopped \/ WaitExited \/ UnexpectedTrap
    BY <2>3 DEF AttachStopSeen, WaitStopped, WaitExited, UnexpectedTrap, targetVars,
                StillInv, Moving, Requestable
  <2>4. CASE request_stop \/ Expire
    BY <2>4 DEF request_stop, Expire, targetVars, history, StillInv, Moving
  <2>5. QED
    BY <1>5, <2>1, <2>2, <2>3, <2>4
<1>6. CASE Install
  BY <1>6 DEF Install, PtraceNothing, StillInv, Moving, Requestable
<1>7. CASE LoopCont \/ ForwardSignal
  BY <1>7 DEF LoopCont, ForwardSignal, StillInv
<1>8. CASE TraceEntryHit \/ TraceReturnHit \/ StackEntryHit \/ StackReturnHit
  BY <1>8
     DEF TraceEntryHit, TraceReturnHit, StackEntryHit, StackReturnHit, HitAt,
         ArmReturn, RearmEntry, LeaveUnarmed, ArmForNextSample, PtraceNothing,
         history, StillInv, Moving, Requestable
<1>9. QED
  BY <1>1, <1>2, <1>3, <1>4, <1>5, <1>6, <1>7, <1>8 DEF Next, CommandStep

LEMMA StillInvariant == Spec => [](TypeInv /\ PatchInv /\ StillInv)
<1>1. Init => StillInv
  BY DEF Init, StillInv
<1>2. QED
  BY <1>1, StillStep, PatchInvariant, PTL DEF Spec

--------------------------------------------------------------------------------
(* Ctrl-C *)

\* No two late nodes.  The second conjunct is the reason: once there is a late
\* node the flag is set, and from the top of the loop the flag leads to the cleanup
\* and never back to a wait.
LateInv ==
    /\ \A i, j \in 1 .. Len(results) : results[i].late /\ results[j].late => i = j
    /\ (\E i \in 1 .. Len(results) : results[i].late) =>
         \/ pc \in {"idle", "exited"}
         \/ stop_flag /\ pc \in {"loop", "cleanup"}

\* A step that adds no node.
LEMMA LateFrame ==
    ASSUME LateInv, results' = results, stop_flag => stop_flag',
           \/ pc' = pc
           \/ pc' \in {"idle", "exited"}
           \/ pc = "loop" /\ pc' = "cleanup"
           \/ pc \notin {"idle", "exited", "loop", "cleanup"}
    PROVE  LateInv'
BY DEF LateInv

\* What Append does to the elements of results.
LEMMA ResultsAppend ==
    ASSUME EngineTypeOK, NEW n, results' = Append(results, n)
    PROVE  /\ Len(results) \in Nat
           /\ Len(results') = Len(results) + 1
           /\ \A i \in 1 .. Len(results) : results'[i] = results[i]
           /\ results'[Len(results) + 1] = n
BY DEF EngineTypeOK

\* A step that adds a node: while a stop is handled there is no late one yet.
LEMMA LateAppend ==
    ASSUME EngineTypeOK, LateInv, NEW n, results' = Append(results, n),
           n.late => stop_flag', pc = "handle", pc' \in {"loop", "cleanup"}
    PROVE  LateInv'
<1>1. \A i \in 1 .. Len(results) : ~results[i].late
  BY DEF LateInv
<1>2. \A i \in 1 .. Len(results') : results'[i].late => i = Len(results) + 1
  BY <1>1, ResultsAppend
<1>3. (\E i \in 1 .. Len(results') : results'[i].late) => n.late
  BY <1>2, ResultsAppend
<1>4. QED
  BY <1>2, <1>3 DEF LateInv

LEMMA LateStep ==
    ASSUME TypeInv, LateInv, [Next]_vars
    PROVE  LateInv'
<1>0. EngineTypeOK
  BY DEF TypeInv, TypeOK
<1>1. CASE UNCHANGED vars
  BY <1>1, LateFrame DEF vars, engineVars
<1>2. CASE TargetStep
  BY <1>2, LateFrame, TargetStepFrame
<1>3. ASSUME NEW c \in {"trace", "stack"}, NEW n \in Counts,
             Attach(c, n) \/ AttachFails(c, n)
      PROVE  LateInv'
  <2>1. results' = <<>>
    BY <1>3 DEF Attach, AttachFails, Begin
  <2>2. QED
    BY <2>1 DEF LateInv
<1>4. CASE AttachStopSeen \/ AttachTimeout \/ Install \/ InstallThrows \/ LoopExit
           \/ WaitStopped \/ WaitExited \/ WaitTimeout \/ ForwardSignal
           \/ UnexpectedTrap \/ HandlerThrows \/ Cleanup \/ CleanupNothing
           \/ CleanupThrows \/ UatuGone \/ request_stop \/ Expire
  BY <1>4, LateFrame
     DEF AttachStopSeen, AttachTimeout, Install, InstallThrows, LoopExit,
         WaitStopped, WaitExited, WaitTimeout, ForwardSignal, UnexpectedTrap,
         HandlerThrows, Cleanup, CleanupNothing, CleanupThrows, UatuGone,
         request_stop, Expire
<1>5. CASE LoopCont
  BY <1>5 DEF LoopCont, LoopEnds, LateInv
<1>6. CASE TraceEntryHit \/ StackReturnHit
  BY <1>6, LateFrame DEF TraceEntryHit, StackReturnHit, HitAt
<1>7. CASE TraceReturnHit
  BY <1>0, <1>7, LateAppend DEF TraceReturnHit, HitAt, RearmEntry
<1>8. CASE StackEntryHit
  BY <1>0, <1>8, LateAppend
     DEF StackEntryHit, HitAt, LeaveUnarmed, ArmForNextSample, ArmReturn
<1>9. QED
  BY <1>1, <1>2, <1>3, <1>4, <1>5, <1>6, <1>7, <1>8 DEF Next, CommandStep

\* After Ctrl-C at most the stop that was already waited for becomes a node,
\* however the handler of SIGINT, the loop and the target are interleaved.
THEOREM OneLateNodeTheorem == Spec => []OneLateNode
<1>1. Init => LateInv
  BY DEF Init, LateInv
<1>2. LateInv => OneLateNode
  <2> SUFFICES ASSUME LateInv PROVE OneLateNode
    OBVIOUS
  <2> DEFINE S == {i \in 1 .. Len(results) : results[i].late}
  <2>1. CASE S = {}
    BY <2>1, FS_EmptySet DEF OneLateNode
  <2>2. ASSUME NEW i \in S
        PROVE  OneLateNode
    <3>1. S = {i}
      BY <2>2 DEF LateInv
    <3>2. Cardinality(S) = 1
      BY <3>1, FS_Singleton
    <3>3. QED
      BY <3>2 DEF OneLateNode
  <2>3. QED
    BY <2>1, <2>2
<1>3. QED
  BY <1>1, <1>2, LateStep, TypeInvariant, PTL DEF Spec

--------------------------------------------------------------------------------
(* Signals taken from the target *)

\* Wherever uatu may resume or leave a tracee without the signal of its stop, the
\* stop is the first one, or that of a breakpoint or a SIGTRAP; only a command
\* that has given up may do it at another stop.
LossInv ==
    /\ pc \in {"attachWait", "install"} => fresh
    /\ \/ pc = "loop" /\ need_cont
       \/ pc = "cleanup" /\ ~abandoned
       => fresh \/ tstate = "dead" \/ sig \in SIGTRAP

LEMMA LossStep ==
    ASSUME TypeInv, StillInv, LossInv, [Next]_vars
    PROVE  LossInv'
<1>0. need_cont \in BOOLEAN /\ abandoned \in BOOLEAN /\ fresh \in BOOLEAN
  BY DEF TypeInv, TypeOK, EngineTypeOK
<1>1. CASE UNCHANGED vars
  BY <1>1 DEF vars, targetVars, engineVars, history, LossInv
<1>2. CASE TargetStep
  <2>1. ~Moving => sig' = sig
    BY <1>2 DEF TargetStep, TargetNext, Call, Return, Unwind, Execute, Trap, Derail,
                Exit, Killed, OtherThreadTraps, SendSignal, TakeSignal, Moving
  <2>2. QED
    BY <1>2, <2>1, TargetStepFrame DEF LossInv, StillInv
<1>3. ASSUME NEW c \in {"trace", "stack"}, NEW n \in Counts,
             Attach(c, n) \/ AttachFails(c, n)
      PROVE  LossInv'
  BY <1>3 DEF Attach, AttachFails, LossInv
<1>4. CASE AttachTimeout \/ InstallThrows \/ HandlerThrows \/ Cleanup
           \/ CleanupNothing \/ CleanupThrows \/ UatuGone
  BY <1>4 DEF AttachTimeout, InstallThrows, HandlerThrows, Cleanup, CleanupNothing,
              CleanupThrows, UatuGone, LossInv
<1>5. CASE LoopExit
  BY <1>0, <1>5 DEF LoopExit, targetVars, LossInv
<1>6. CASE AttachStopSeen \/ WaitStopped \/ WaitExited \/ WaitTimeout
  BY <1>6 DEF AttachStopSeen, WaitStopped, WaitExited, WaitTimeout, targetVars,
              history, LossInv
<1>7. CASE Install \/ LoopCont \/ ForwardSignal
  BY <1>7 DEF Install, LoopCont, ForwardSignal, history, LossInv
<1>8. CASE \/ TraceEntryHit \/ TraceReturnHit \/ StackEntryHit \/ StackReturnHit
           \/ UnexpectedTrap
  <2>1. sig \in SIGTRAP /\ sig' = sig /\ pc' \in {"loop", "cleanup"}
    BY <1>8
       DEF TraceEntryHit, TraceReturnHit, StackEntryHit, StackReturnHit,
           UnexpectedTrap, HitAt, ArmReturn, RearmEntry, LeaveUnarmed,
           ArmForNextSample, PtraceNothing, targetVars
  <2>2. QED
    BY <2>1 DEF LossInv
<1>9. CASE request_stop \/ Expire
  BY <1>9 DEF request_stop, Expire, targetVars, history, LossInv
<1>10. QED
  BY <1>1, <1>2, <1>3, <1>4, <1>5, <1>6, <1>7, <1>8, <1>9 DEF Next, CommandStep

\* What is lost is the signal of the stop that is left.
LEMMA LossStepEdge ==
    ASSUME StillInv, LossInv, Next, lost' \ lost # {}
    PROVE  \/ fresh
           \/ sig = "TRAP"
           \/ pc = "cleanup" /\ abandoned
           \/ pc' = "exited"
<1>0. Swallowed # {} /\ sig \in SIGTRAP => sig = "TRAP"
  BY TargetAssumption DEF Swallowed, SIGTRAP
<1>1. ~TargetStep
  BY TargetStepFrame
<1>2. ASSUME NEW c \in {"trace", "stack"}, NEW n \in Counts,
             Attach(c, n) \/ AttachFails(c, n)
      PROVE  FALSE
  BY <1>2 DEF Attach, AttachFails, PtraceAttach, PtraceNothing
<1>3. CASE AttachTimeout
  BY <1>3 DEF AttachTimeout, LossInv
<1>4. CASE LoopCont
  <2>1. need_cont /\ tstate = "stopped" /\ Swallowed # {} /\ pc = "loop"
    BY <1>4 DEF LoopCont, PtraceCont, PtraceNothing, Requestable
  <2>2. QED
    BY <1>0, <2>1 DEF LossInv
<1>5. CASE Cleanup
  <2>1. tstate = "stopped" /\ Swallowed # {} /\ pc = "cleanup"
    BY <1>5 DEF Cleanup, PtraceDetach, Requestable
  <2>2. QED
    BY <1>0, <2>1 DEF LossInv
<1>6. CASE UatuGone
  BY <1>6 DEF UatuGone
<1>7. CASE \/ AttachStopSeen \/ InstallThrows \/ LoopExit \/ WaitStopped
           \/ WaitExited \/ WaitTimeout \/ UnexpectedTrap \/ HandlerThrows
           \/ CleanupNothing \/ CleanupThrows \/ request_stop \/ Expire
  BY <1>7
     DEF AttachStopSeen, InstallThrows, LoopExit, WaitStopped, WaitExited,
         WaitTimeout, UnexpectedTrap, HandlerThrows, CleanupNothing, CleanupThrows,
         request_stop, Expire, targetVars
<1>8. CASE \/ Install \/ ForwardSignal \/ TraceEntryHit \/ TraceReturnHit
           \/ StackEntryHit \/ StackReturnHit
  BY <1>8
     DEF Install, ForwardSignal, TraceEntryHit, TraceReturnHit, StackEntryHit,
         StackReturnHit, PassSignal, PtraceContSig, PtraceNothing
<1>9. QED
  BY <1>1, <1>2, <1>3, <1>4, <1>5, <1>6, <1>7, <1>8 DEF Next, CommandStep

\* A signal of the target is lost only at the edges of a command: at the stop uatu
\* takes for its own SIGSTOP, at a SIGTRAP, where a command gives up and where uatu
\* goes away.
THEOREM LossOnlyAtEdgesTheorem == Spec => LossOnlyAtEdges
<1>1. Init => LossInv
  BY DEF Init, LossInv
<1>2. TypeInv /\ StillInv /\ LossInv /\ [Next]_vars => LossInv'
  BY LossStep
<1>3. StillInv /\ LossInv /\ [Next]_vars =>
        [lost' \ lost # {} => \/ fresh
                              \/ sig = "TRAP"
                              \/ pc = "cleanup" /\ abandoned
                              \/ pc' = "exited"]_vars
  BY LossStepEdge
<1>4. QED
  BY <1>1, <1>2, <1>3, StillInvariant, PTL DEF Spec, LossOnlyAtEdges

--------------------------------------------------------------------------------
(* No call twice *)

Looping == pc \in {"loop", "wait", "handle"}

AtEntry == ip \in {Entry, Entry + PCAdjust}

\* The nodes so far are about calls before n.
Below(n) == \A i \in 1 .. Len(results) : results[i].entered < n

\* The tracee is at the entry only in the newest call of all.  While the entry is
\* armed and the tracee is there, no node is about that call yet, for the return
\* that armed the entry left the tracee at a return site; while a return is
\* awaited, the nodes are about calls before the one entered.
OnceInv ==
    /\ AtEntry => Head(stk).id = calls - 1
    /\ EachCallOnce
    /\ Below(calls)
    /\ pc \in {"attachWait", "install"} => results = <<>> /\ ~waiting_for_exit
    /\ Looping /\ ~waiting_for_exit /\ AtEntry => Below(calls - 1)
    /\ Looping /\ waiting_for_exit /\ cmd = "trace" => entered < calls /\ Below(entered)

\* A step that neither adds a node nor moves the tracee.
LEMMA OnceFrame ==
    ASSUME OnceInv,
           UNCHANGED <<ip, stk, calls, results, waiting_for_exit, cmd, entered>>,
           \/ pc' = pc
           \/ pc' \in {"cleanup", "idle", "exited"}
           \/ pc = "attachWait" /\ pc' = "install"
           \/ Looping /\ Looping'
    PROVE  OnceInv'
BY DEF OnceInv, EachCallOnce, Below, AtEntry, Looping

\* A step that moves the tracee away from the entry and adds no node.
LEMMA OnceAway ==
    ASSUME OnceInv, UNCHANGED <<calls, results, entered, cmd>>, ~AtEntry',
           waiting_for_exit' => waiting_for_exit, Looping' => Looping,
           pc' \in {"attachWait", "install"} => pc' = pc
    PROVE  OnceInv'
BY DEF OnceInv, EachCallOnce, Below, AtEntry

LEMMA NodeType ==
    ASSUME EngineTypeOK, NEW i \in 1 .. Len(results)
    PROVE  results[i].entered \in Nat /\ results[i].returned \in Nat
<1>1. results[i] \in Node
  BY DEF EngineTypeOK
<1>2. QED
  BY <1>1, Zenon DEF Node

\* A node about a call after those of all others.
LEMMA OnceAppend ==
    ASSUME EngineTypeOK, EachCallOnce, NEW n, n.entered \in Nat, Below(n.entered),
           results' = Append(results, n)
    PROVE  /\ EachCallOnce'
           /\ \A m \in Int : n.entered < m =>
                \A i \in 1 .. Len(results') : results'[i].entered < m
<1>0. /\ Len(results) \in Nat /\ Len(results') = Len(results) + 1
      /\ \A i \in 1 .. Len(results) : results'[i] = results[i]
      /\ results'[Len(results) + 1] = n
      /\ \A i \in 1 .. Len(results) : results[i].entered \in Nat
  BY ResultsAppend, NodeType
<1>1. ASSUME NEW i \in 1 .. Len(results'), NEW j \in 1 .. Len(results'), i < j
      PROVE  results'[i].entered < results'[j].entered
  <2>1. i \in 1 .. Len(results) /\ results'[i].entered < n.entered
    BY <1>0, <1>1 DEF Below
  <2>2. CASE j = Len(results) + 1
    BY <1>0, <2>1, <2>2
  <2>3. CASE j # Len(results) + 1
    <3>1. j \in 1 .. Len(results)
      BY <1>0, <1>1, <2>3
    <3>2. results'[i] = results[i] /\ results'[j] = results[j]
      BY <1>0, <2>1, <3>1
    <3>3. results[i].entered < results[j].entered
      BY <1>1, <2>1, <3>1 DEF EachCallOnce
    <3>4. QED
      BY <3>2, <3>3
  <2>4. QED
    BY <2>2, <2>3
<1>2. ASSUME NEW m \in Int, n.entered < m, NEW i \in 1 .. Len(results')
      PROVE  results'[i].entered < m
  <2>1. CASE i = Len(results) + 1
    BY <1>0, <1>2, <2>1
  <2>2. CASE i # Len(results) + 1
    BY <1>0, <1>2, <2>2 DEF Below
  <2>3. QED
    BY <2>1, <2>2
<1>3. QED
  BY <1>1, <1>2 DEF EachCallOnce

LEMMA OnceTargetStep ==
    ASSUME TypeInv, OnceInv, TargetStep
    PROVE  OnceInv'
<1>0. calls \in Nat /\ entered \in Nat /\ results \in Seq(Node)
  BY DEF TypeInv, TypeOK, TargetTypeOK, EngineTypeOK
<1>0a. \A i \in 1 .. Len(results) : results[i].entered \in Nat
  BY NodeType DEF TypeInv, TypeOK
<1>1. UNCHANGED <<pc, results, waiting_for_exit, cmd, entered>>
  BY TargetStepFrame
<1>2. ASSUME NEW r \in RetSites, Call(r)
      PROVE  OnceInv'
  <2>1. Head(stk').id = calls /\ calls' = calls + 1 /\ calls' - 1 = calls
    BY <1>0, <1>2 DEF Call, TypeInv, TypeOK, TargetTypeOK
  <2>2. \A i \in 1 .. Len(results) : results[i].entered < calls + 1
    BY <1>0, <1>0a DEF OnceInv, Below
  <2>3. entered < calls => entered < calls + 1
    BY <1>0
  <2>4. QED
    BY <1>1, <2>1, <2>2, <2>3 DEF OnceInv, EachCallOnce, Below, Looping
<1>3. CASE Return
  <2>1. Head(stk) \in Frame
    BY <1>3 DEF Return, TypeInv, TypeOK, TargetTypeOK
  <2>2. ip' \in RetSites
    BY <1>3, <2>1 DEF Return, Frame
  <2>3. ~AtEntry' /\ calls' = calls
    BY <1>3, <2>2, SitesFacts DEF Return, AtEntry
  <2>4. QED
    BY <1>1, <2>3, OnceAway DEF Looping
<1>4. CASE Unwind \/ Execute \/ Derail
  <2>1. ip' = Elsewhere /\ calls' = calls
    BY <1>4 DEF Unwind, Execute, Derail
  <2>2. ~AtEntry'
    BY <2>1, SitesFacts DEF AtEntry
  <2>3. QED
    BY <1>1, <2>1, <2>2, OnceAway DEF Looping
<1>5. CASE Trap
  <2>1. ip \in Sites /\ ip' = ip + PCAdjust /\ UNCHANGED <<stk, calls>>
    BY <1>5 DEF Trap
  <2>2. CASE ip = Entry
    BY <1>1, <2>1, <2>2 DEF OnceInv, EachCallOnce, Below, AtEntry, Looping
  <2>3. CASE ip # Entry
    <3>1. ~AtEntry'
      BY <2>1, <2>3, SitesFacts DEF AtEntry, Sites
    <3>2. QED
      BY <1>1, <2>1, <3>1, OnceAway DEF Looping
  <2>4. QED
    BY <2>2, <2>3
<1>6. CASE \/ Exit \/ Killed
           \/ \E a \in Sites : OtherThreadTraps(a)
           \/ \E s \in Signals : SendSignal(s)
           \/ \E s \in {"STOP", "USR", "TRAP"} : TakeSignal(s)
  <2>1. UNCHANGED <<ip, stk, calls>>
    BY <1>6 DEF Exit, Killed, OtherThreadTraps, SendSignal, TakeSignal
  <2>2. QED
    BY <1>1, <2>1, OnceFrame
<1>7. QED
  BY <1>2, <1>3, <1>4, <1>5, <1>6 DEF TargetStep, TargetNext

LEMMA OnceStep ==
    ASSUME TypeInv, OnceInv, [Next]_vars
    PROVE  OnceInv'
<1>0. /\ EngineTypeOK /\ StackHolds /\ RetKnown
      /\ calls \in Nat /\ entered \in Nat /\ ip \in Int
  BY SitesFacts DEF TypeInv, TypeOK, TargetTypeOK, EngineTypeOK, Elsewhere
<1>1. CASE UNCHANGED vars
  BY <1>1, OnceFrame DEF vars, targetVars, engineVars, command, breakpoints, history
<1>2. CASE TargetStep
  BY <1>2, OnceTargetStep
<1>3. ASSUME NEW c \in {"trace", "stack"}, NEW n \in Counts,
             Attach(c, n) \/ AttachFails(c, n)
      PROVE  OnceInv'
  <2>1. /\ results' = <<>> /\ pc' \in {"attachWait", "idle"}
        /\ ~waiting_for_exit' /\ UNCHANGED <<ip, stk, calls>>
    BY <1>3 DEF Attach, AttachFails, Begin, OwnTarget
  <2>2. QED
    BY <2>1 DEF OnceInv, EachCallOnce, Below, AtEntry, Looping
<1>4. CASE \/ AttachStopSeen \/ InstallThrows \/ LoopExit \/ WaitStopped
           \/ WaitExited \/ WaitTimeout \/ UnexpectedTrap \/ HandlerThrows
           \/ CleanupNothing \/ CleanupThrows \/ request_stop \/ Expire
  BY <1>4, OnceFrame
     DEF AttachStopSeen, InstallThrows, LoopExit, WaitStopped, WaitExited,
         WaitTimeout, UnexpectedTrap, HandlerThrows, CleanupNothing, CleanupThrows,
         request_stop, Expire, targetVars, command, breakpoints, history, Looping
<1>5. CASE AttachTimeout \/ LoopCont \/ ForwardSignal \/ Cleanup \/ UatuGone
  BY <1>5, OnceFrame
     DEF AttachTimeout, LoopCont, ForwardSignal, Cleanup, UatuGone, OwnTarget,
         command, breakpoints, history, Looping
<1>6. CASE Install
  <2>1. /\ results' = <<>> /\ pc' = "loop"
        /\ UNCHANGED <<ip, stk, calls, waiting_for_exit, cmd, entered>>
    BY <1>6 DEF Install, OwnTarget, command, history, OnceInv
  <2>2. ~waiting_for_exit
    BY <1>6 DEF Install, OnceInv
  <2>3. QED
    BY <2>1, <2>2 DEF OnceInv, EachCallOnce, Below, AtEntry
<1>7. ASSUME ~waiting_for_exit, HitAt(Entry)
      PROVE  /\ AtEntry /\ Head(stk).id = calls - 1 /\ calls - 1 \in Nat
             /\ Below(calls - 1) /\ ReturnAddress \in RetSites
  <2>1. AtEntry
    BY <1>0, <1>7, SitesFacts DEF HitAt, hit_addr, AtEntry
  <2>2. Head(stk) \in Frame
    BY <1>0, <2>1 DEF AtEntry, StackHolds, TypeInv, TypeOK, TargetTypeOK
  <2>3. QED
    BY <1>7, <2>1, <2>2 DEF OnceInv, HitAt, Looping, Frame, ReturnAddress
<1>8. CASE TraceEntryHit
  <2>1. /\ UNCHANGED <<stk, calls, results, cmd>>
        /\ waiting_for_exit' /\ entered' = calls - 1 /\ AtEntry'
        /\ pc' = "loop"
    BY <1>7, <1>8 DEF TraceEntryHit, ArmReturn, OwnTarget, command, AtEntry
  <2>2. entered' < calls
    BY <1>0, <2>1
  <2>3. QED
    BY <1>7, <1>8, <2>1, <2>2 DEF TraceEntryHit, OnceInv, EachCallOnce, Below
<1>9. ASSUME waiting_for_exit, ip' = ret_vaddr
      PROVE  ~AtEntry'
  BY <1>0, <1>9, SitesFacts DEF RetKnown, AtEntry
<1>10. CASE TraceReturnHit
  <2>1. /\ UNCHANGED <<stk, calls>> /\ ~waiting_for_exit' /\ ~AtEntry'
        /\ pc' = "loop"
    BY <1>9, <1>10 DEF TraceReturnHit, RearmEntry, OwnTarget
  <2>2. entered < calls /\ Below(entered)
    BY <1>10 DEF TraceReturnHit, HitAt, Looping, OnceInv
  <2>3. PICK n : n.entered = entered /\ results' = Append(results, n)
    BY <1>10 DEF TraceReturnHit
  <2>4. EachCallOnce' /\ \A i \in 1 .. Len(results') : results'[i].entered < calls
    BY <1>0, <2>2, <2>3, OnceAppend DEF OnceInv
  <2>5. QED
    BY <2>1, <2>4 DEF OnceInv, Below
<1>11. CASE StackEntryHit
  <2>1. /\ UNCHANGED <<stk, calls, cmd>> /\ AtEntry' /\ cmd = "stack"
        /\ pc' \in {"loop", "cleanup"}
        /\ pc' = "loop" => waiting_for_exit'
    BY <1>11
       DEF StackEntryHit, LeaveUnarmed, ArmForNextSample, ArmReturn, OwnTarget,
           command, AtEntry
  <2>2. Head(stk).id = calls - 1 /\ calls - 1 \in Nat /\ Below(calls - 1)
    BY <1>7, <1>11 DEF StackEntryHit
  <2>3. PICK n : n.entered = calls - 1 /\ results' = Append(results, n)
    BY <1>11, <2>2 DEF StackEntryHit
  <2>4. n.entered \in Nat /\ Below(n.entered) /\ n.entered < calls
    BY <1>0, <2>2, <2>3
  <2>5. EachCallOnce' /\ \A i \in 1 .. Len(results') : results'[i].entered < calls
    <3>1. EachCallOnce /\ results' = Append(results, n) /\ calls \in Int
      BY <1>0, <2>3 DEF OnceInv
    <3>2. QED
      BY <1>0, <2>4, <3>1, OnceAppend
  <2>6. QED
    BY <2>1, <2>2, <2>5 DEF OnceInv, Below, Looping
<1>12. CASE StackReturnHit
  BY <1>9, <1>12, OnceAway
     DEF StackReturnHit, HitAt, RearmEntry, OwnTarget, command, history, Looping
<1>13. QED
  BY <1>1, <1>2, <1>3, <1>4, <1>5, <1>6, <1>8, <1>10, <1>11, <1>12
     DEF Next, CommandStep

LEMMA OnceInit == Init => OnceInv
<1> SUFFICES ASSUME Init PROVE OnceInv
  OBVIOUS
<1>1. ~AtEntry
  BY SitesFacts DEF Init, TargetInit, AtEntry
<1>2. QED
  BY <1>1 DEF Init, OnceInv, EachCallOnce, Below, Looping

\* Each node is about a later call than the node before it: the instruction that
\* is replayed at the entry never counts as a call of its own.
THEOREM EachCallOnceTheorem == Spec => []EachCallOnce
<1>1. OnceInv => EachCallOnce
  BY DEF OnceInv
<1>2. QED
  BY <1>1, OnceInit, OnceStep, TypeInvariant, PTL DEF Spec

--------------------------------------------------------------------------------
(* Durations *)

\* The call whose entry time is kept is still active; or an exception has left it;
\* or it was the last to return, and the tracee has not got past the breakpoint
\* at its return address.
OnStack == \E i \in 1 .. Len(stk) : stk[i].id = entered /\ stk[i].ret = ret_vaddr

\* The tracee has stopped at the breakpoint and nothing resumes it but a handler.
StoppedPast ==
    /\ ip = ret_vaddr + PCAdjust
    /\ ~Moving /\ sig = "INT3"
    /\ pc \in {"wait", "handle"} \/ (pc = "loop" /\ ~need_cont)

JustReturned == popped = entered /\ (ip = ret_vaddr \/ StoppedPast)

Awaiting == Looping /\ waiting_for_exit /\ cmd = "trace"

DurInv ==
    /\ DurationNested
    /\ Awaiting => OnStack \/ entered \in unwound \/ JustReturned

\* A breakpoint traps.
LEMMA PatchedTraps ==
    ASSUME NEW a \in Sites
    PROVE  TrapAt(Patched(a), a)
<1>1. a \in 0 .. TextSize - WordSize
  BY SitesFacts DEF WordAddr
<1>2. ASSUME NEW k \in 0 .. BpLen - 1
      PROVE  Patched(a)[a + k] = Bp
  <2>1. k \in 0 .. WordSize - 1 /\ a + k \in Addr /\ a + k \in a .. a + WordSize - 1
    BY <1>1, <1>2, SizesAssumption DEF Addr
  <2>2. (a + k) - a = k /\ k < BpLen
    BY <1>1, <1>2, SizesAssumption
  <2>3. make_patched_word(ptrace_read8(Code, a))[(a + k) - a] = Bp
    BY <2>1, <2>2 DEF make_patched_word
  <2>4. QED
    BY <2>1, <2>3 DEF Patched, insert_breakpoint, ptrace_write8
<1>3. QED
  BY <1>2 DEF TrapAt

\* A step that leaves the nodes, the call and the tracee where they are.
LEMMA DurFrame ==
    ASSUME DurInv,
           UNCHANGED <<ip, stk, popped, unwound, results, waiting_for_exit, cmd,
                       ret_vaddr, entered>>,
           Looping' => Looping,
           StoppedPast /\ Looping' => StoppedPast'
    PROVE  DurInv'
BY DEF DurInv, DurationNested, Awaiting, OnStack, JustReturned

LEMMA DurTargetStep ==
    ASSUME TypeInv, PatchInv, StillInv, DurInv, TargetStep
    PROVE  DurInv'
<1>0. /\ UNCHANGED <<pc, results, waiting_for_exit, cmd, ret_vaddr, entered, need_cont,
                     text, traced>>
      /\ ~Moving => ~Moving'
  BY TargetStepFrame
<1>0a. unwound \subseteq unwound'
  BY DEF TargetStep, TargetNext, Call, Return, Unwind, Execute, Trap, Derail, Exit,
         Killed, OtherThreadTraps, SendSignal, TakeSignal
<1>0b. DurationNested'
  BY <1>0, <1>0a DEF DurInv, DurationNested
<1>0c. stk \in Seq(Frame) /\ (waiting_for_exit => ret_vaddr \in RetSites)
  BY DEF TypeInv, TypeOK, TargetTypeOK, RetKnown
<1>0d. Awaiting' <=> Awaiting
  BY <1>0 DEF Awaiting, Looping
<1>0e. (UNCHANGED <<stk, popped, ip>> /\ (StoppedPast => sig' = sig)) => DurInv'
  BY <1>0, <1>0a, <1>0b, <1>0d DEF DurInv, OnStack, JustReturned, StoppedPast
<1>0f. Awaiting /\ ip = Elsewhere => OnStack \/ entered \in unwound
  <2>1. ASSUME Awaiting
        PROVE  Elsewhere # ret_vaddr /\ Elsewhere # ret_vaddr + PCAdjust
    BY <1>0c, <2>1, SitesFacts DEF Awaiting
  <2>2. QED
    BY <2>1 DEF DurInv, JustReturned, StoppedPast
<1>1. ASSUME NEW r \in RetSites, Call(r)
      PROVE  DurInv'
  <2>1. ASSUME OnStack
        PROVE  OnStack'
    <3>1. PICK i \in 1 .. Len(stk) : stk[i].id = entered /\ stk[i].ret = ret_vaddr
      BY <2>1 DEF OnStack
    <3>2. i + 1 \in 1 .. Len(stk') /\ stk'[i + 1] = stk[i]
      BY <1>0c, <1>1, <3>1 DEF Call
    <3>3. QED
      BY <1>0, <3>1, <3>2 DEF OnStack
  <2>2. ip = Elsewhere
    BY <1>1 DEF Call
  <2>3. QED
    BY <1>0a, <1>0b, <1>0d, <1>0f, <1>0, <2>1, <2>2 DEF DurInv
<1>2. ASSUME ip = Elsewhere, stk # <<>>, stk' = Tail(stk), OnStack
      PROVE  OnStack' \/ (Head(stk).id = entered /\ Head(stk).ret = ret_vaddr)
  <2>1. PICK i \in 1 .. Len(stk) : stk[i].id = entered /\ stk[i].ret = ret_vaddr
    BY <1>2 DEF OnStack
  <2>2. CASE i = 1
    BY <1>0c, <1>2, <2>1, <2>2
  <2>3. CASE i # 1
    <3>1. i - 1 \in 1 .. Len(stk') /\ stk'[i - 1] = stk[i]
      BY <1>0c, <1>2, <2>1, <2>3
    <3>2. QED
      BY <1>0, <2>1, <3>1 DEF OnStack
  <2>4. QED
    BY <2>2, <2>3
<1>3. CASE Return
  BY <1>0, <1>0a, <1>0b, <1>0d, <1>0f, <1>2, <1>3 DEF Return, DurInv, JustReturned
<1>4. CASE Unwind
  BY <1>0, <1>0a, <1>0b, <1>0d, <1>0f, <1>2, <1>4 DEF Unwind, DurInv
<1>5. CASE Execute \/ Derail
  <2>1. Awaiting => text = Patched(ret_vaddr) /\ ret_vaddr \in Sites
    BY <1>0c, SitesFacts DEF Awaiting, Looping, PatchInv, Observing, Believed
  <2>2. Awaiting => ~JustReturned
    BY <1>5, <2>1, PatchedTraps
       DEF Execute, Derail, JustReturned, StoppedPast, Moving
  <2>3. UNCHANGED <<stk, unwound>>
    BY <1>5 DEF Execute, Derail
  <2>4. OnStack => OnStack'
    BY <1>0, <2>3 DEF OnStack
  <2>5. QED
    BY <1>0, <1>0a, <1>0b, <1>0d, <2>2, <2>3, <2>4 DEF DurInv
<1>6. CASE Trap
  <2>1. OnStack => OnStack'
    BY <1>0, <1>6 DEF Trap, OnStack
  <2>2. ASSUME Awaiting, JustReturned
        PROVE  JustReturned'
    <3>1. ip = ret_vaddr /\ traced
      BY <1>6, <2>2
         DEF Trap, JustReturned, StoppedPast, Moving, Awaiting, Looping, PatchInv,
             Observing
    <3>2. /\ ip' = ret_vaddr' + PCAdjust
          /\ ~Moving' /\ sig' = "INT3" /\ popped' = popped
      BY <1>0, <1>6, <3>1 DEF Trap, Moving
    <3>3. CASE pc \in {"wait", "handle"} \/ (pc = "loop" /\ ~need_cont)
      BY <1>0, <2>2, <3>2, <3>3 DEF JustReturned, StoppedPast
    <3>4. CASE pc = "loop" /\ need_cont
      BY <1>6, <3>4 DEF Trap, StillInv, Moving
    <3>5. QED
      BY <2>2, <3>3, <3>4 DEF Awaiting, Looping
  <2>3. QED
    BY <1>0a, <1>0b, <1>0d, <1>0, <2>1, <2>2 DEF DurInv
<1>7. CASE \/ Exit \/ Killed
           \/ \E a \in Sites : OtherThreadTraps(a)
           \/ \E s \in Signals : SendSignal(s)
           \/ \E s \in {"STOP", "USR", "TRAP"} : TakeSignal(s)
  <2>1. UNCHANGED <<ip, stk, popped>> /\ (~Moving => sig' = sig)
    BY <1>7 DEF Exit, Killed, OtherThreadTraps, SendSignal, TakeSignal, Moving
  <2>2. QED
    BY <1>0e, <2>1 DEF StoppedPast
<1>8. QED
  BY <1>1, <1>3, <1>4, <1>5, <1>6, <1>7 DEF TargetStep, TargetNext

\* A node whose time runs to the entered call's own return, or over a call nested
\* in it, or that an exception has left.
LEMMA DurAppend ==
    ASSUME EngineTypeOK, DurationNested, unwound' = unwound, NEW n,
           results' = Append(results, n),
           n.returned = n.entered \/ n.open \/ n.entered \in unwound
    PROVE  DurationNested'
<1>1. ASSUME NEW i \in 1 .. Len(results')
      PROVE  \/ results'[i].returned = results'[i].entered
             \/ results'[i].open
             \/ results'[i].entered \in unwound
  <2>1. CASE i = Len(results) + 1
    BY <2>1, ResultsAppend
  <2>2. CASE i # Len(results) + 1
    BY <2>2, ResultsAppend DEF DurationNested
  <2>3. QED
    BY <2>1, <2>2
<1>2. QED
  BY <1>1 DEF DurationNested

LEMMA DurStep ==
    ASSUME TypeInv, PatchInv, StillInv, DurInv, [Next]_vars
    PROVE  DurInv'
<1>0. EngineTypeOK /\ StackHolds /\ ip \in Int
  BY SitesFacts DEF TypeInv, TypeOK, TargetTypeOK, Elsewhere
<1>1. CASE UNCHANGED vars
  BY <1>1, DurFrame
     DEF vars, targetVars, engineVars, command, breakpoints, history, Looping,
         StoppedPast, Moving
<1>2. CASE TargetStep
  BY <1>2, DurTargetStep
<1>3. ASSUME NEW c \in {"trace", "stack"}, NEW n \in Counts,
             Attach(c, n) \/ AttachFails(c, n)
      PROVE  DurInv'
  <2>1. results' = <<>> /\ ~Looping'
    BY <1>3 DEF Attach, AttachFails, Begin, Looping
  <2>2. QED
    BY <2>1 DEF DurInv, DurationNested, Awaiting
<1>4. CASE \/ AttachStopSeen \/ InstallThrows \/ LoopExit \/ WaitExited
           \/ WaitTimeout \/ HandlerThrows \/ CleanupNothing \/ CleanupThrows
  BY <1>4, DurFrame
     DEF AttachStopSeen, InstallThrows, LoopExit, WaitExited, WaitTimeout,
         HandlerThrows, CleanupNothing, CleanupThrows, targetVars, command,
         breakpoints, history, Looping
<1>5. CASE AttachTimeout \/ Cleanup \/ UatuGone
  BY <1>5, DurFrame
     DEF AttachTimeout, Cleanup, UatuGone, OwnTarget, command, breakpoints, history,
         Looping
<1>6. CASE WaitStopped \/ request_stop \/ Expire
  BY <1>6, DurFrame
     DEF WaitStopped, request_stop, Expire, targetVars, command, breakpoints,
         history, Looping, StoppedPast, Moving
<1>7. CASE UnexpectedTrap
  <2>1. Awaiting => ~StoppedPast
    <3>1. ASSUME Awaiting, StoppedPast
          PROVE  FALSE
      <4>1. ret_vaddr \in RetSites
        BY <3>1 DEF Awaiting, TypeInv, RetKnown
      <4>2. hit_addr = ret_vaddr
        BY <1>0, <3>1, <4>1, SitesFacts DEF StoppedPast, hit_addr
      <4>3. QED
        BY <1>7, <3>1, <4>2 DEF UnexpectedTrap, Awaiting
    <3>2. QED
      BY <3>1
  <2>2. UNCHANGED <<ip, stk, popped, unwound, results, waiting_for_exit, cmd,
                    ret_vaddr, entered>>
    BY <1>7 DEF UnexpectedTrap, targetVars, command, breakpoints, history
  <2>3. Looping
    BY <1>7 DEF UnexpectedTrap, Looping
  <2>4. QED
    BY <2>1, <2>2, <2>3
       DEF DurInv, DurationNested, Awaiting, OnStack, JustReturned, Looping
<1>8. CASE Install
  <2>1. results' = results /\ unwound' = unwound /\ ~waiting_for_exit'
    BY <1>8 DEF Install, OwnTarget, PatchInv
  <2>2. QED
    BY <2>1 DEF DurInv, DurationNested, Awaiting
<1>9. CASE LoopCont
  <2>1. StoppedPast => StoppedPast'
    BY <1>9 DEF LoopCont, PtraceNothing, StoppedPast, Moving, breakpoints
  <2>2. QED
    BY <1>9, <2>1, DurFrame
       DEF LoopCont, OwnTarget, command, breakpoints, Looping
<1>10. CASE ForwardSignal
  <2>1. ~StoppedPast
    BY <1>10 DEF ForwardSignal, StoppedPast, SIGTRAP
  <2>2. QED
    BY <1>10, <2>1, DurFrame
       DEF ForwardSignal, OwnTarget, command, breakpoints, history, Looping
<1>11. CASE TraceEntryHit
  <2>1. /\ results' = results /\ unwound' = unwound /\ stk' = stk
        /\ entered' = Head(stk).id /\ ret_vaddr' = Head(stk).ret
    BY <1>11 DEF TraceEntryHit, ArmReturn, ReturnAddress, OwnTarget
  <2>2. stk # <<>> /\ stk \in Seq(Frame)
    BY <1>0, <1>11, SitesFacts
       DEF TraceEntryHit, HitAt, hit_addr, StackHolds, TypeInv, TypeOK, TargetTypeOK
  <2>3. 1 \in 1 .. Len(stk) /\ stk[1] = Head(stk)
    BY <2>2
  <2>4. OnStack'
    BY <2>1, <2>3 DEF OnStack
  <2>5. QED
    BY <2>1, <2>4 DEF DurInv, DurationNested
<1>12. CASE TraceReturnHit
  <2>1. OnStack \/ entered \in unwound \/ popped = entered
    BY <1>12 DEF TraceReturnHit, HitAt, DurInv, Awaiting, Looping, JustReturned
  <2>2. OnStack => \E i \in 1 .. Len(stk) : stk[i].id = entered
    BY DEF OnStack
  <2>3. DurationNested' /\ ~waiting_for_exit'
    BY <1>0, <1>12, <2>1, <2>2, DurAppend
       DEF TraceReturnHit, RearmEntry, OwnTarget, DurInv
  <2>4. QED
    BY <2>3 DEF DurInv, Awaiting
<1>13. CASE StackEntryHit
  <2>1. DurationNested'
    BY <1>0, <1>13, DurAppend DEF StackEntryHit, OwnTarget, DurInv
  <2>2. cmd' = "stack"
    BY <1>13 DEF StackEntryHit, command
  <2>3. QED
    BY <2>1, <2>2 DEF DurInv, Awaiting
<1>14. CASE StackReturnHit
  <2>1. results' = results /\ unwound' = unwound /\ ~waiting_for_exit'
    BY <1>14 DEF StackReturnHit, RearmEntry, OwnTarget
  <2>2. QED
    BY <2>1 DEF DurInv, DurationNested, Awaiting
<1>15. QED
  BY <1>1, <1>2, <1>3, <1>4, <1>5, <1>6, <1>7, <1>8, <1>9, <1>10, <1>11, <1>12,
     <1>13, <1>14 DEF Next, CommandStep

\* The duration of a node never spans a second, later call of the function: it ends
\* with the entered call, or with one nested in it, unless an exception has left it.
THEOREM DurationNestedTheorem == Spec => []DurationNested
<1>1. Init => DurInv
  BY DEF Init, DurInv, DurationNested, Awaiting
<1>2. DurInv => DurationNested
  BY DEF DurInv
<1>3. QED
  BY <1>1, <1>2, DurStep, StillInvariant, PTL DEF Spec

--------------------------------------------------------------------------------
(* Harm to the target *)

\* The tracee has executed a breakpoint and not yet the instruction under it.
Past == ip \notin Sites \cup {Elsewhere}

Armed == IF waiting_for_exit THEN ret_vaddr ELSE Entry

\* The tracee stands behind the breakpoint that the command has armed, and uatu
\* will take the stop for what it is.
Held ==
    /\ tstate = "stopped" /\ sig = "INT3" /\ ip = Armed + PCAdjust
    /\ pc \in {"wait", "handle"} \/ (pc = "loop" /\ ~need_cont)

\* As long as no command has been given up: no harm is done, a tracee behind a
\* breakpoint is held there until the handler moves it back, and uatu is at the
\* prompt, or gone, only with the text restored or the target dead.
HarmInv ==
    ~abandoned =>
        /\ ~derailed /\ cause # "int3"
        /\ Past => tstate = "dead" \/ Held
        /\ pc \in {"idle", "exited"} => text = Code \/ tstate = "dead"

LEMMA CodeNeverTraps ==
    ASSUME NEW a \in Sites
    PROVE  ~TrapAt(Code, a)
<1>1. a + 0 = a /\ a \in Addr /\ 0 \in 0 .. BpLen - 1
  BY SitesFacts, SizesAssumption DEF WordAddr, Addr
<1>2. QED
  BY <1>1, CodeAssumption DEF TrapAt

\* A breakpoint traps at no other site, however many bytes their words share.
LEMMA PatchedTrapsThere ==
    ASSUME NEW a \in Sites, NEW b \in Sites, TrapAt(Patched(a), b)
    PROVE  a = b
<1> SUFFICES ASSUME a # b PROVE FALSE
  OBVIOUS
<1>1. /\ a \in Nat /\ b \in Nat /\ b \in Addr /\ 0 \in 0 .. BpLen - 1 /\ b + 0 = b
      /\ a + BpLen <= b \/ b + BpLen <= a
  BY SitesFacts, SitesAssumption, SizesAssumption DEF WordAddr, Addr
<1>2. Patched(a)[b] = Bp
  BY <1>1 DEF TrapAt
<1>3. Patched(a)[b] = Code[b]
  <2>1. CASE b \in a .. a + WordSize - 1
    <3>1. b - a \in 0 .. WordSize - 1 /\ ~(b - a < BpLen) /\ a + (b - a) = b
      BY <1>1, <2>1, SizesAssumption
    <3>2. make_patched_word(ptrace_read8(Code, a))[b - a] = Code[b]
      BY <3>1 DEF make_patched_word, ptrace_read8
    <3>3. QED
      BY <1>1, <2>1, <3>2 DEF Patched, insert_breakpoint, ptrace_write8
  <2>2. CASE b \notin a .. a + WordSize - 1
    BY <1>1, <2>2 DEF Patched, insert_breakpoint, ptrace_write8
  <2>3. QED
    BY <2>1, <2>2
<1>4. QED
  BY <1>1, <1>2, <1>3, CodeAssumption

\* Where a tracee meets a breakpoint, if no command has been given up.
LEMMA TrapIsArmed ==
    ASSUME TypeInv, PatchInv, StillInv, HarmInv, ~abandoned, Trap
    PROVE  traced /\ ip = Armed /\ (pc = "wait" \/ (pc = "loop" /\ ~need_cont))
<1>1. ip \in Sites /\ TrapAt(text, ip) /\ tstate = "running"
  BY DEF Trap
<1>2. text # Code
  BY <1>1, CodeNeverTraps
<1>3. pc \in Observing
  BY <1>1, <1>2
     DEF HarmInv, PatchInv, Observing, TypeInv, TypeOK, EngineTypeOK
<1>4. traced /\ text = Patched(Armed)
  BY <1>2, <1>3 DEF PatchInv, Believed, Armed
<1>5. Armed \in Sites
  BY SitesFacts DEF Armed, TypeInv, RetKnown
<1>6. ip = Armed
  BY <1>1, <1>4, <1>5, PatchedTrapsThere
<1>7. Moving
  BY <1>1 DEF Moving
<1>8. QED
  BY <1>3, <1>4, <1>6, <1>7 DEF StillInv, Observing

LEMMA HarmTargetStep ==
    ASSUME ~MultiThreaded, TypeInv, PatchInv, StillInv, HarmInv, TargetStep
    PROVE  HarmInv'
<1> SUFFICES ASSUME ~abandoned PROVE HarmInv'
  BY TargetStepFrame DEF HarmInv
<1>0. UNCHANGED <<pc, need_cont, text, waiting_for_exit, ret_vaddr, abandoned>>
  BY TargetStepFrame
<1>1. tstate = "running" => ~Past
  BY DEF HarmInv, Held
<1>2. pc \in {"idle", "exited"} => text' = Code \/ tstate' = "dead"
  BY TargetStepFrame DEF HarmInv
<1>3. CASE (\E r \in RetSites : Call(r)) \/ Return \/ Unwind \/ Execute
  <2>1. ip' \in Sites \cup {Elsewhere}
    <3>1. CASE (\E r \in RetSites : Call(r)) \/ Execute
      BY <3>1, SitesFacts DEF Call, Execute
    <3>2. CASE Return
      <4>1. Head(stk) \in Frame
        BY <3>2 DEF Return, TypeInv, TypeOK, TargetTypeOK
      <4>2. QED
        BY <3>2, <4>1, SitesFacts DEF Return, Frame
    <3>3. CASE Unwind
      BY <3>3 DEF Unwind
    <3>4. QED
      BY <1>3, <3>1, <3>2, <3>3
  <2>2. UNCHANGED <<derailed, cause>>
    BY <1>3 DEF Call, Return, Unwind, Execute
  <2>3. QED
    BY <1>0, <1>2, <2>1, <2>2 DEF HarmInv, Past
<1>4. CASE Trap
  <2>1. traced /\ ip = Armed /\ (pc = "wait" \/ (pc = "loop" /\ ~need_cont))
    BY <1>4, TrapIsArmed
  <2>2. Held' /\ UNCHANGED <<derailed, cause>>
    BY <1>0, <1>4, <2>1 DEF Trap, Held, Armed
  <2>3. QED
    BY <1>0, <1>2, <2>2 DEF HarmInv
<1>5. CASE Derail
  BY <1>1, <1>5 DEF Derail, Past
<1>6. CASE Exit \/ Killed
  <2>1. tstate' = "dead" /\ cause' # "int3" /\ derailed' = derailed
    BY <1>6 DEF Exit, Killed
  <2>2. QED
    BY <1>0, <2>1 DEF HarmInv
<1>7. CASE \E a \in Sites : OtherThreadTraps(a)
  BY <1>7 DEF OtherThreadTraps
<1>8. CASE \/ \E s \in Signals : SendSignal(s)
           \/ \E s \in {"STOP", "USR", "TRAP"} : TakeSignal(s)
  <2>1. /\ UNCHANGED <<ip, derailed>>
        /\ cause' = cause \/ cause' = "kill"
        /\ Past => UNCHANGED <<tstate, sig>>
    BY <1>1, <1>8 DEF SendSignal, TakeSignal
  <2>2. QED
    BY <1>0, <1>2, <2>1 DEF HarmInv, Past, Held, Armed
<1>9. QED
  BY <1>3, <1>4, <1>5, <1>6, <1>7, <1>8 DEF TargetStep, TargetNext

\* A step of uatu that leaves the tracee where it is and resumes it only if it is
\* not behind a breakpoint.
LEMMA HarmFrame ==
    ASSUME HarmInv, ~abandoned, abandoned' = abandoned,
           UNCHANGED <<ip, derailed, cause>>,
           Past => tstate' = "dead" \/ Held',
           pc' \in {"idle", "exited"} => text' = Code \/ tstate' = "dead"
    PROVE  HarmInv'
BY DEF HarmInv, Past

LEMMA HarmStep ==
    ASSUME ~MultiThreaded, TypeInv, TypeInv', PatchInv, StillInv, HarmInv, [Next]_vars
    PROVE  HarmInv'
<1> USE DEF Observing
<1>0. abandoned \in BOOLEAN /\ abandoned' \in BOOLEAN /\ ip \in Int /\ RetKnown
  BY SitesFacts DEF TypeInv, TypeOK, TargetTypeOK, EngineTypeOK, Elsewhere
<1>1. CASE UNCHANGED vars
  BY <1>1 DEF vars, targetVars, engineVars, breakpoints, history, HarmInv, Past, Held,
              Armed
<1>2. CASE TargetStep
  BY <1>2, HarmTargetStep
<1>2a. ASSUME Next, ~TargetStep
       PROVE  abandoned => abandoned'
  BY <1>0, <1>2a
     DEF Next, CommandStep, Attach, AttachFails, Begin, AttachStopSeen, AttachTimeout,
         Install, InstallThrows, LoopExit, LoopCont, WaitStopped, WaitExited,
         WaitTimeout, ForwardSignal, TraceEntryHit, TraceReturnHit, StackEntryHit,
         StackReturnHit, UnexpectedTrap, HandlerThrows, Cleanup, CleanupNothing,
         CleanupThrows, UatuGone, request_stop, Expire, history
<1>3. SUFFICES ASSUME ~abandoned, ~abandoned', Next, ~TargetStep
               PROVE  HarmInv'
  BY <1>1, <1>2, <1>2a DEF HarmInv
<1>4. abandoned' = abandoned
  BY <1>0, <1>3
<1>5. ASSUME NEW c \in {"trace", "stack"}, NEW n \in Counts,
             Attach(c, n) \/ AttachFails(c, n)
      PROVE  HarmInv'
  <2>1. CASE Attach(c, n)
    <3>1. ~Past
      BY <1>3, <2>1 DEF Attach, Begin, PtraceAttach, HarmInv, Held
    <3>2. QED
      BY <1>3, <1>4, <2>1, <3>1, HarmFrame
         DEF Attach, Begin, PtraceAttach, OwnTarget
  <2>2. CASE AttachFails(c, n)
    BY <1>3, <1>4, <2>2, HarmFrame
       DEF AttachFails, Begin, PtraceNothing, OwnTarget, HarmInv, Held
  <2>3. QED
    BY <1>5, <2>1, <2>2
<1>6. CASE AttachStopSeen \/ InstallThrows
  BY <1>3, <1>4, <1>6, HarmFrame
     DEF AttachStopSeen, InstallThrows, targetVars, HarmInv, Held, PatchInv
<1>7. CASE AttachTimeout
  BY <1>3, <1>4, <1>7, HarmFrame
     DEF AttachTimeout, PtraceDetach, PtraceNothing, Requestable, OwnTarget, HarmInv,
         Held, PatchInv
<1>8. CASE Install
  BY <1>3, <1>4, <1>8, HarmFrame
     DEF Install, PtraceNothing, Requestable, OwnTarget, HarmInv, Held
<1>9. CASE LoopExit
  <2>1. need_cont /\ pc = "loop" /\ pc' = "cleanup" /\ UNCHANGED targetVars
    BY <1>3, <1>9 DEF LoopExit
  <2>2. QED
    BY <1>3, <1>4, <2>1, HarmFrame DEF targetVars, HarmInv, Held
<1>10. CASE LoopCont
  <2>1. CASE need_cont /\ Requestable
    <3>1. ~Past
      BY <1>3, <1>10, <2>1 DEF LoopCont, Requestable, HarmInv, Held
    <3>2. QED
      BY <1>3, <1>4, <1>10, <2>1, <3>1, HarmFrame DEF LoopCont, PtraceCont, OwnTarget
  <2>2. CASE ~(need_cont /\ Requestable)
    <3>1. Past => tstate' = "dead" \/ Held'
      BY <1>3, <1>10, <2>2
         DEF LoopCont, PtraceNothing, breakpoints, HarmInv, Held, Armed
    <3>2. QED
      BY <1>3, <1>4, <1>10, <2>2, <3>1, HarmFrame
         DEF LoopCont, PtraceNothing, OwnTarget
  <2>3. QED
    BY <2>1, <2>2
<1>11. CASE WaitStopped \/ WaitExited
  BY <1>3, <1>4, <1>11, HarmFrame
     DEF WaitStopped, WaitExited, targetVars, breakpoints, HarmInv, Held, Armed
<1>12. CASE WaitTimeout
  BY <1>3, <1>12 DEF WaitTimeout
<1>13. CASE ForwardSignal
  <2>1. Past => tstate = "dead"
    BY <1>3, <1>13 DEF ForwardSignal, HarmInv, Held, SIGTRAP
  <2>2. Past => tstate' = "dead"
    BY <1>13, <2>1
       DEF ForwardSignal, PassSignal, PtraceNothing, Requestable
  <2>3. UNCHANGED <<ip, derailed, cause>> /\ pc' = "loop"
    BY <1>13
       DEF ForwardSignal, PassSignal, PtraceContSig, PtraceNothing, OwnTarget
  <2>4. QED
    BY <1>3, <1>4, <2>2, <2>3, HarmFrame
<1>14. CASE TraceEntryHit \/ TraceReturnHit \/ StackEntryHit \/ StackReturnHit
  <2>1. ip' \in Sites
    BY <1>0, <1>14, SitesFacts
       DEF TraceEntryHit, TraceReturnHit, StackEntryHit, StackReturnHit, RetKnown
  <2>2. UNCHANGED <<derailed, cause>> /\ pc' \in {"loop", "cleanup"}
    BY <1>14
       DEF TraceEntryHit, TraceReturnHit, StackEntryHit, StackReturnHit, ArmReturn,
           RearmEntry, LeaveUnarmed, ArmForNextSample, PtraceNothing, OwnTarget
  <2>3. QED
    BY <1>3, <1>4, <2>1, <2>2 DEF HarmInv, Past
<1>15. CASE UnexpectedTrap
  <2>1. ~Held
    BY <1>0, <1>15, SitesFacts DEF UnexpectedTrap, Held, Armed, hit_addr, RetKnown
  <2>2. QED
    BY <1>3, <1>4, <1>15, <2>1, HarmFrame
       DEF UnexpectedTrap, targetVars, HarmInv
<1>16. CASE HandlerThrows \/ CleanupThrows
  <2>1. tstate = "dead"
    BY <1>3, <1>16
       DEF HandlerThrows, CleanupThrows, PatchInv, StillInv, Moving, Requestable
  <2>2. QED
    BY <1>3, <1>4, <1>16, <2>1, HarmFrame DEF HandlerThrows, CleanupThrows, targetVars
<1>17. CASE Cleanup
  <2>1. text' = Code /\ ~Past
    BY <1>3, <1>17, CleanedIsCode DEF Cleanup, Requestable, HarmInv, Held
  <2>2. QED
    BY <1>3, <1>4, <1>17, <2>1, HarmFrame DEF Cleanup, PtraceDetach, OwnTarget
<1>18. CASE CleanupNothing
  <2>1. text = Code
    BY <1>18 DEF CleanupNothing, PatchInv, Believed
  <2>2. QED
    BY <1>3, <1>4, <1>18, <2>1, HarmFrame
       DEF CleanupNothing, targetVars, HarmInv, Held
<1>19. CASE UatuGone
  <2>1. pc = "idle"
    BY <1>3, <1>19 DEF UatuGone
  <2>2. (tstate = "dead" => tstate' = "dead") /\ UNCHANGED <<text, ip, derailed, cause>>
    BY <1>19 DEF UatuGone, TracerGone, Requestable, OwnTarget
  <2>3. QED
    BY <1>3, <1>4, <2>1, <2>2, HarmFrame DEF HarmInv, Held
<1>20. CASE request_stop \/ Expire
  BY <1>3, <1>20
     DEF request_stop, Expire, targetVars, breakpoints, history, HarmInv, Past, Held,
         Armed
<1>21. QED
  BY <1>3, <1>5, <1>6, <1>7, <1>8, <1>9, <1>10, <1>11, <1>12, <1>13, <1>14, <1>15,
     <1>16, <1>17, <1>18, <1>19, <1>20 DEF Next, CommandStep

\* A target with a single thread comes to harm only if a command was given up
\* while the tracee had been resumed and not been seen to stop.
THEOREM HarmOnlyIfAbandonedTheorem ==
    ASSUME ~MultiThreaded
    PROVE  Spec => []HarmOnlyIfAbandoned
<1>1. Init => HarmInv
  BY DEF Init, TargetInit, HarmInv, Past
<1>2. TypeInv /\ TypeInv' /\ PatchInv /\ StillInv /\ HarmInv /\ [Next]_vars => HarmInv'
  BY HarmStep
<1>3. HarmInv => HarmOnlyIfAbandoned
  BY DEF HarmInv, HarmOnlyIfAbandoned
<1>4. QED
  BY <1>1, <1>2, <1>3, StillInvariant, PTL DEF Spec

================================================================================
