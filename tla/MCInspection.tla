------------------------------ MODULE MCInspection ------------------------------
(***************************************************************************)
(* Instances of Inspection for TLC: a position independent program, one    *)
(* with a fixed address whose linker put the text at another address than  *)
(* file offset, and a later version of the first.                          *)
(***************************************************************************)
EXTENDS Inspection

Type(quals, base) == [quals |-> quals, base |-> base]
Int32 == Type(<<>>, "int")
Text == Type(<<"*", "const ">>, "char")
Double == Type(<<"const ">>, "double")

Param(type) == [artificial |-> FALSE, type |-> type]
This(base) == [artificial |-> TRUE, type |-> Type(<<"*">>, base)]
Params(types) == [i \in 1 .. Len(types) |-> Param(types[i])]

Scope(tag, parent) ==
    [tag |-> tag, parent |-> parent, low |-> 0, high |-> 0, link |-> Absent,
     name |-> Absent, params |-> <<>>]
Function(parent, low, high, link, params) ==
    [tag |-> "subprogram", parent |-> parent, low |-> low, high |-> high,
     link |-> link, name |-> <<"local">>, params |-> params]

\* Overloads, one of them with more floating-point arguments than registers, a
\* member with more arguments than registers, a function in a lexical
\* block, one without a usable name, one without a size.
Dies(base) ==
    <<Scope("namespace", 0),
      Function(1, base + 4, base + 8, <<"f", "(", "int", ")">>,
               Params(<<Type(<<>>, "short int"), Double, Text, Int32, Double,
                        Type(<<"&">>, "Foo")>>)),
      Function(1, base + 8, base + 12, <<"f", "(", "char", ")">>,
               Params(<<Type(<<>>, "char"), Type(<<"typedef", "*">>, "Foo"),
                        Type(<<"*">>, "wchar_t")>> \o [i \in 1 .. 9 |-> Double])),
      Scope("class", 0),
      Function(4, base + 12, base + 16, <<"Foo::g", "(", ")">>,
               <<This("Foo")>> \o Params(<<Int32, Int32, Text, Double, Int32,
                                           Type(<<>>, "long int"), Text>>)),
      Scope("lexical_block", 3),
      Function(6, base + 17, base + 20, Absent, <<>>),
      Function(0, base + 20, base + 24, <<"(", "anonymous", ")", "::h">>, <<>>),
      Function(0, base + 24, 0, Absent, <<>>),
      Function(0, 0, 0, <<"declared", "(", ")">>, <<>>)>>

Pie ==
    [dies |-> Dies(0), pie |-> TRUE, sites |-> {6, 12, 18},
     segments |-> <<[offset |-> 0, vaddr |-> 0, size |-> 4],
                    [offset |-> 4, vaddr |-> 4, size |-> 28]>>]

Fixed ==
    [dies |-> Dies(104), pie |-> FALSE, sites |-> {110, 140},
     segments |-> <<[offset |-> 4, vaddr |-> 68, size |-> 4],
                    [offset |-> 0, vaddr |-> 100, size |-> 4],
                    [offset |-> 8, vaddr |-> 108, size |-> 28]>>]

Later ==
    [dies |-> Dies(8), pie |-> TRUE, sites |-> {14},
     segments |-> <<[offset |-> 0, vaddr |-> 4, size |-> 4],
                    [offset |-> 4, vaddr |-> 8, size |-> 36]>>]

MCImage == "pie" :> Pie @@ "fixed" :> Fixed @@ "later" :> Later
MCPrograms == DOMAIN MCImage
\* /app is the end of /opt/app.
MCPaths == {"/app", "/opt/app"}
MCWithin ==
    {pq \in ProcName \X ProcName :
        /\ pq[1].path = pq[2].path \/ pq[1].path = "/app"
        /\ pq[1].deleted => pq[2].deleted}

MCSlides == {64}
MCLibSites == {48}
MCCommands ==
    {[kind |-> c[1], name |-> c[2], matches |-> {<<"f">>, <<"Foo::g">>}] :
        c \in ({"stack", "watch"} \X {<<"f">>, <<"?">>}) \cup {<<"watch", <<"Foo::g">>>>}}

\* rbp as it is where a thread begins, and as a pointer to what looks like two frames
\* on the heap.
MCWords == {0, 80}
MCElsewhere == (80 :> 96) @@ (88 :> 70) @@ (96 :> 80) @@ (104 :> 48) @@ (112 :> 0)

MCCharTypes == {"char", "signed char", "wchar_t"}
MCSizes == ("char" :> 4) @@ ("short int" :> 8) @@ ("int" :> 16) @@ ("long int" :> 64)
MCStrings == [a \in RegValue |-> IF a = 1 THEN "one" ELSE ""]
MCArgLists ==
    {[values |-> [i \in 1 .. 12 |-> IF i \in neg THEN -2 ELSE v], above |-> a] :
        neg \in {{}, {1, 3, 4}}, v \in {0, 1}, a \in {0, 3}}
================================================================================
