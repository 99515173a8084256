------------------------------ MODULE CallFrames ------------------------------
(***************************************************************************)
(* What stack() reads off the target when the breakpoint at the entry of   *)
(* the function fires: the return address on top of the stack, then the    *)
(* chain of saved frame pointers.  Memory is a function from the mapped    *)
(* stack addresses to words; peek_word outside of them fails.              *)
(***************************************************************************)
EXTENDS SymbolIndex

CONSTANT MaxFrames      \* bound: frames taken from the chain (14)

ASSUME FramesAssumption == MaxFrames \in Nat

Word == 8

Unreadable == -1
peek_word(mem, addr) == IF addr \in DOMAIN mem THEN mem[addr] ELSE Unreadable

\* Fault: the address is looked up where it is, not where it was linked.
AsLoaded(addr, slide) == addr

\* A slide below 0 is huge as an unsigned number.
LinkAddress(addr, slide) ==
    IF slide >= 0 /\ addr >= slide THEN addr - slide ELSE addr

\* A frame that has no name is shown as its address.
sym_for(index, slide, addr) ==
    LET name == lookup_by_addr(index, LinkAddress(addr, slide))
    IN  IF name # Absent THEN name ELSE <<"0x", ToString(addr)>>

\* What may be a frame pointer.
FramePointer(rbp) == rbp # 0 /\ rbp % Word = 0

\* rbp is taken for one, and there is an address to return to above it.
HasFrame(mem, rbp) ==
    FramePointer(rbp) /\ peek_word(mem, rbp + Word) \notin {Unreadable, 0}

\* What follows rbp, each word read where the one before points to.
Saved(mem, rbp) ==
    LET fp[i \in 0 .. MaxFrames] == IF i = 0 THEN rbp ELSE peek_word(mem, fp[i - 1])
    IN  fp

\* Fault: the walk goes on where nothing returns from.
WalkEndsPastOutermost(mem, fp, i) ==
    \/ i = MaxFrames
    \/ i > 0 /\ (fp[i] \in {Unreadable, 0} \/ fp[i] <= fp[i - 1])
    \/ ~FramePointer(fp[i])
    \/ peek_word(mem, fp[i] + Word) = Unreadable

\* Iteration i of the walk takes no frame: it is one too many, iteration i - 1 has
\* left the loop, the pointer cannot be one, or nothing returns from there.
WalkEnds(mem, fp, i) ==
    \/ i = MaxFrames
    \/ i > 0 /\ (fp[i] \in {Unreadable, 0} \/ fp[i] <= fp[i - 1])
    \/ ~HasFrame(mem, fp[i])

\* The return addresses of the frames that the chain from rbp leads through.
Chain(mem, rbp) ==
    LET fp == Saved(mem, rbp)
        frames == First({i \in 0 .. MaxFrames : WalkEnds(mem, fp, i)})
    IN  [i \in 1 .. frames |-> peek_word(mem, fp[i - 1] + Word)]

\* The frames of a StackEvent.
Frames(index, slide, func_name, mem, rsp, rbp) ==
    LET ra == peek_word(mem, rsp)
        returns == IF ra = Unreadable THEN <<>> ELSE <<ra>> \o Chain(mem, rbp)
    IN  <<func_name>> \o [i \in 1 .. Len(returns) |->
                              sym_for(index, slide, returns[i])]

================================================================================
