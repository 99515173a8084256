------------------------------ MODULE SymbolIndex ------------------------------
(***************************************************************************)
(* dwarf::SymbolFinder: the functions that the DWARF of a program          *)
(* describes, and the three questions asked about them.                    *)
(*                                                                         *)
(* The DIEs of a program are a sequence in document order (the compilation *)
(* units one after the other), each with the index of its parent, 0 for    *)
(* the root of a unit.  A name is a sequence of tokens; of a demangled     *)
(* name it matters only where its first "(" stands.                        *)
(***************************************************************************)
EXTENDS Integers, Sequences, SequencesExt

Absent == <<>>

\* The k-th number of S, and the sequence of what stands at the places in S.
Nth(S, k) == CHOOSE i \in S : Cardinality({j \in S : j <= i}) = k
At(s, S) == [k \in 1 .. Cardinality(S) |-> s[Nth(S, k)]]

\* The parts of a program file that uatu reads.
Tags == {"subprogram", "namespace", "class", "structure", "lexical_block",
         "inlined_subroutine", "union", "variable"}
Die == [tag : Tags, parent : Nat,
        low : Nat,                  \* DW_AT_low_pc, 0 if there is none
        high : Nat,                 \* the end it gives, 0 if there is none
        link : Seq(STRING),         \* the demangled linkage name, or Absent
        name : Seq(STRING),         \* DW_AT_name, or Absent
        params : Seq([artificial : BOOLEAN, type : [quals : Seq(STRING), base : STRING]])]

\* The type at the end of a chain of qualifiers that end in void.
Void == "void"

Qualified(t, kinds) ==
    At(t.quals, {i \in 1 .. Len(t.quals) : t.quals[i] \in kinds})
CV == {"const ", "volatile "}
Marks == {"*", "&", "&&"}

\* Every qualifier in front of the type it qualifies, every mark behind it; a
\* typedef leaves no trace.  A chain that ends in void ends in "?" instead, which
\* stands for its last qualifier, too.
resolve_type_name(t) ==
    LET known == IF t.base # Void THEN t
                 ELSE [quals |-> IF t.quals = <<>> THEN <<>> ELSE Front(t.quals),
                       base |-> "?"]
    IN  [cv |-> Qualified(known, CV), base |-> known.base,
         marks |-> Reverse(Qualified(known, Marks))]

--------------------------------------------------------------------------------

\* Fault: lexical blocks are not searched for functions.
OuterScopes == {"subprogram", "namespace", "class", "structure"}

\* collect_subprograms descends into the children of these.
Scopes == OuterScopes \cup {"lexical_block", "inlined_subroutine"}

\* The DIEs that the traversal comes to.
Reached(dies) ==
    LET reached[i \in 1 .. Len(dies)] ==
            LET p == dies[i].parent
            IN  p = 0 \/ (dies[p].tag \in Scopes /\ reached[p])
    IN  {i \in 1 .. Len(dies) : reached[i]}

\* Without the parameter list: what stands before the first "(".
strip_params(name) ==
    LET paren == SelectInSeq(name, LAMBDA token : token = "(")
    IN  IF paren = 0 THEN name ELSE SubSeq(name, 1, paren - 1)

DieName(d) == IF d.link # Absent THEN strip_params(d.link) ELSE d.name

\* The parameters that are declared; the others are implicit.
Declared(params) == At(params, {i \in 1 .. Len(params) : ~params[i].artificial})

\* What process_subprogram makes of a function with an address and a name.
FuncInfo(d) ==
    [name        |-> DieName(d),
     address     |-> d.low,
     size        |-> IF d.high > d.low THEN d.high - d.low ELSE 0,
     has_this    |-> \E i \in 1 .. Len(d.params) : d.params[i].artificial,
     param_types |-> LET own == Declared(d.params)
                     IN  [i \in 1 .. Len(own) |-> resolve_type_name(own[i].type)]]

\* cache_: the concrete functions, each at its place in the document.
all(dies) ==
    LET concrete(d) == d.tag = "subprogram" /\ d.low # 0 /\ DieName(d) # Absent
    IN  [i \in {i \in Reached(dies) : concrete(dies[i])} |-> FuncInfo(dies[i])]

--------------------------------------------------------------------------------
(* Questions to an index.  The answers are places in it.  The two maps     *)
(* keep the first function of a name and of an address.                    *)

First(S) == CHOOSE i \in S : \A j \in S : i <= j

find(index, name) ==
    LET named == {i \in DOMAIN index : index[i].name = name}
    IN  IF named = {} THEN {} ELSE {First(named)}

find_regex(index, matches) == {i \in DOMAIN index : index[i].name \in matches}

\* The functions that upper_bound leaves to the left of an address.
UpTo(index, addr) == {i \in DOMAIN index : index[i].address <= addr}

\* Of those, the first with the last address.
Nearest(index, addr) ==
    First({i \in UpTo(index, addr) :
              \A j \in UpTo(index, addr) : index[j].address <= index[i].address})

Covers(f, addr) == f.address = addr \/ (f.size > 0 /\ addr < f.address + f.size)

\* The name of the function at an address, or Absent.
lookup_by_addr(index, addr) ==
    IF UpTo(index, addr) = {} THEN Absent
    ELSE LET f == index[Nearest(index, addr)]
         IN  IF Covers(f, addr) THEN f.name ELSE Absent

================================================================================
