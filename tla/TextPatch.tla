------------------------------- MODULE TextPatch -------------------------------
(***************************************************************************)
(* The target's text segment and the operations of attach_engine.cpp that  *)
(* read and write it.  PTRACE_PEEKDATA and PTRACE_POKEDATA move a word of  *)
(* WordSize bytes; a breakpoint instruction covers only the first BpLen of *)
(* them (1 byte of INT3 on x86_64, 4 bytes of BRK or EBREAK elsewhere), so *)
(* two breakpoints closer than WordSize bytes share bytes of their words.  *)
(* A byte is a model value or a number; Bp stands for a byte of the        *)
(* breakpoint instruction.                                                 *)
(***************************************************************************)
EXTENDS Integers, FiniteSets

CONSTANTS
    TextSize,       \* number of bytes of text that are modelled
    WordSize,       \* bytes moved by one PEEKDATA or POKEDATA (8 in the code)
    BpLen,          \* length in bytes of the breakpoint instruction
    PCAdjust,       \* PC_ADJUST_AFTER_TRAP of arch.h
    Bp,             \* a byte of the breakpoint instruction
    Code            \* the program's own text, before anything is patched

Addr == 0 .. TextSize - 1

\* The addresses at which a whole word can be read and written.
WordAddr == 0 .. TextSize - WordSize

ASSUME SizesAssumption ==
    /\ TextSize \in Nat
    /\ WordSize \in Nat \ {0}
    /\ BpLen \in 1 .. WordSize
    /\ PCAdjust \in {0, BpLen}

Byte == {Code[a] : a \in Addr} \cup {Bp}

\* The program contains no breakpoint instruction of its own.
ASSUME CodeAssumption ==
    /\ Code \in [Addr -> Byte]
    /\ \A a \in Addr : Code[a] # Bp

Text == [Addr -> Byte]
Word == [0 .. WordSize - 1 -> Byte]

\* ptrace_read8: the word at a.
ptrace_read8(t, a) == [k \in 0 .. WordSize - 1 |-> t[a + k]]

\* ptrace_write8: the text once the word at a has been replaced by w.
ptrace_write8(t, a, w) ==
    [x \in Addr |-> IF x \in a .. a + WordSize - 1 THEN w[x - a] ELSE t[x]]

\* make_patched_word: the low bytes become the breakpoint instruction.
make_patched_word(w) ==
    [k \in 0 .. WordSize - 1 |-> IF k < BpLen THEN Bp ELSE w[k]]

\* insert_breakpoint leaves this text and returns ptrace_read8(t, a).
insert_breakpoint(t, a) ==
    ptrace_write8(t, a, make_patched_word(ptrace_read8(t, a)))

\* restore_word: put back a word saved by insert_breakpoint.
restore_word(t, a, orig) == ptrace_write8(t, a, orig)

\* Executing the instruction at a raises a breakpoint trap.
TrapAt(t, a) == \A k \in 0 .. BpLen - 1 : t[a + k] = Bp

================================================================================
