------------------------------ MODULE ParamFormat ------------------------------
(***************************************************************************)
(* How the arguments of a call, six integer registers as the entry probe   *)
(* saw them, become the parameters of a WatchEvent: format_params() and    *)
(* the walk of the callback over the same types, which reads strings.      *)
(*                                                                         *)
(* A type is what resolve_type_name makes of it.  The width of registers   *)
(* and integers is given by the number of their values, 2 ^ 64 and 2 ^ 8   *)
(* to 2 ^ 64 on the machine.                                               *)
(***************************************************************************)
EXTENDS Integers, Sequences, SequencesExt

CONSTANTS
    RegSize,            \* values of a register
    Sizes,              \* values of each signed integer type
    CharTypes           \* the type names with "char" anywhere in them

FpTypes == {"float", "double", "long double"}

\* An integer fills a register, or a part of it.
ASSUME RegisterAssumption ==
    /\ "char" \in CharTypes /\ CharTypes \subseteq STRING
    /\ RegSize \in Nat \ {0}
    /\ DOMAIN Sizes \subseteq STRING \ (FpTypes \cup {"bool"})
    /\ \A t \in DOMAIN Sizes :
          /\ Sizes[t] \in Nat \ {0}
          /\ Sizes[t] % 2 = 0
          /\ RegSize % Sizes[t] = 0

Registers == 0 .. 5
FloatRegisters == 0 .. 7
RegValue == 0 .. RegSize - 1

\* strip_cv drops what stands in front of a type; all it leaves is looked at here.
Is(type, bases, marks) == type.base \in bases /\ type.marks = marks
EndsIn(type, marks) == type.marks # <<>> /\ Last(type.marks) \in marks

is_fp_param(type) == Is(type, FpTypes, <<>>)
is_char_ptr(type) == Is(type, {"char"}, <<"*">>)

\* Fault: the register is printed as it is, whatever the width of the type.
AsRegister(v, n) == IF v >= RegSize \div 2 THEN v - RegSize ELSE v

\* A cast to the signed type with n values.
AsSigned(v, n) ==
    LET low == v % n
    IN  IF low >= n \div 2 THEN low - n ELSE low

format_param_val(v, type) ==
    CASE Is(type, {"bool"}, <<>>)     -> <<"bool", v # 0>>
      [] Is(type, DOMAIN Sizes, <<>>) -> <<"decimal", AsSigned(v, Sizes[type.base])>>
      [] EndsIn(type, {"*"})          -> IF v = 0 THEN <<"nullptr">>
                                         ELSE IF type.base \in CharTypes THEN <<"quoted", v>>
                                         ELSE <<"hex", v>>
      [] EndsIn(type, {"&", "&&"})    -> <<"reference", v>>
      [] OTHER                        -> <<"decimal", v>>

--------------------------------------------------------------------------------

\* Fault: the register of the implicit parameter is not left out.
NoneBefore(has_this) == 0

\* int_reg before the first parameter.
Implicit(has_this) == IF has_this THEN 1 ELSE 0

\* fp_reg and int_reg at parameter i; both count on beyond the last register.
FpBefore(types, i) == Cardinality({j \in 1 .. i - 1 : is_fp_param(types[j])})
IntBefore(types, has_this, i) ==
    Implicit(has_this) + Cardinality({j \in 1 .. i - 1 : ~is_fp_param(types[j])})

\* What read_proc_mem_str gives for each parameter: Strings maps an address to the
\* text there, empty if there is none, if it is not readable or if it is "".
str_vals(types, has_this, args, Strings) ==
    [i \in 1 .. Len(types) |->
        LET r == IntBefore(types, has_this, i)
        IN  IF is_char_ptr(types[i]) /\ r \in Registers THEN Strings[args[r]] ELSE ""]

format_params(types, args, has_this, strings) ==
    [i \in 1 .. Len(types) |->
        LET r == IntBefore(types, has_this, i)
        IN  IF is_fp_param(types[i]) THEN <<"xmm", FpBefore(types, i)>>
            ELSE IF r \notin Registers THEN <<"?">>
            ELSE IF strings[i] # "" THEN <<"text", strings[i]>>
            ELSE format_param_val(args[r], types[i])]

================================================================================
