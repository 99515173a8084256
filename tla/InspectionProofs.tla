---------------------------- MODULE InspectionProofs ----------------------------
(***************************************************************************)
(* Proofs about the symbol index and about Inspection, for every program,  *)
(* every set of commands and any number of changes.                        *)
(***************************************************************************)
EXTENDS Inspection, TLAPS, WellFoundedInduction

--------------------------------------------------------------------------------
(* The symbol index *)

\* A set of places that is not empty has a first one.
LEMMA FirstIsLeast ==
    ASSUME NEW S \in SUBSET Nat, S # {}
    PROVE  First(S) \in S /\ \A j \in S : First(S) <= j
<1>1. PICK i \in S : \A j \in S : <<j, i>> \notin OpToRel(<, Nat)
  BY NatLessThanWellFounded, WFMin
<1>2. ASSUME NEW j \in S
      PROVE  i <= j
  <2>1. ~(j < i)
    BY <1>1, <1>2 DEF OpToRel
  <2>. QED BY <2>1
<1>. QED BY <1>2 DEF First

\* An address inside of a function, with no other function beginning between the
\* two, is given that function's name: lookup_by_addr is exact where functions do
\* not overlap.
THEOREM LookupExact ==
    ASSUME NEW index,
           \A i \in DOMAIN index : index[i].address \in Nat /\ index[i].size \in Nat,
           DOMAIN index \subseteq Nat,
           NEW f \in DOMAIN index, NEW addr \in Nat,
           index[f].address <= addr,
           addr = index[f].address \/ addr < index[f].address + index[f].size,
           \A g \in DOMAIN index \ {f} :
               \/ index[g].address < index[f].address
               \/ addr < index[g].address
    PROVE  lookup_by_addr(index, addr) = index[f].name
<1> DEFINE near == {i \in UpTo(index, addr) :
                       \A j \in UpTo(index, addr) : index[j].address <= index[i].address}
<1>1. f \in UpTo(index, addr)
  BY DEF UpTo
<1>2. \A i \in UpTo(index, addr) : i = f \/ index[i].address < index[f].address
  BY DEF UpTo
<1>3. near = {f}
  <2>1. f \in near
    BY <1>1, <1>2 DEF UpTo
  <2>2. ASSUME NEW i \in near PROVE i = f
    BY <1>1, <1>2, <2>2 DEF UpTo
  <2>. QED BY <2>1, <2>2
<1>4. First(near) = f
  BY <1>3 DEF First
<1>5. Nearest(index, addr) = f
  BY <1>4 DEF Nearest
<1>6. Covers(index[f], addr)
  BY DEF Covers
<1>. QED BY <1>1, <1>5, <1>6 DEF lookup_by_addr

\* The name given for an address is the name of a function the address is in.
THEOREM LookupSound ==
    ASSUME NEW index,
           \A i \in DOMAIN index : index[i].address \in Nat /\ index[i].size \in Nat,
           DOMAIN index \subseteq Nat,
           NEW addr \in Nat,
           lookup_by_addr(index, addr) # Absent
    PROVE  \E f \in DOMAIN index :
              /\ index[f].name = lookup_by_addr(index, addr)
              /\ \/ addr = index[f].address
                 \/ /\ index[f].address <= addr
                    /\ addr < index[f].address + index[f].size
<1> DEFINE near == {i \in UpTo(index, addr) :
                       \A j \in UpTo(index, addr) : index[j].address <= index[i].address}
           distances == {addr - index[i].address : i \in UpTo(index, addr)}
<1>1. UpTo(index, addr) # {}
  BY DEF lookup_by_addr
<1>2. distances \in SUBSET Nat /\ distances # {}
  BY <1>1 DEF UpTo
<1>3. First(distances) \in distances /\ \A d \in distances : First(distances) <= d
  BY <1>2, FirstIsLeast
<1>4. PICK i \in UpTo(index, addr) : First(distances) = addr - index[i].address
  BY <1>3
<1>5. ASSUME NEW j \in UpTo(index, addr)
      PROVE  index[j].address <= index[i].address
  <2>1. addr - index[i].address <= addr - index[j].address
    BY <1>3, <1>4
  <2>. QED BY <2>1 DEF UpTo
<1>6. near \in SUBSET Nat /\ near # {}
  BY <1>5 DEF UpTo
<1>7. Nearest(index, addr) \in near
  <2>1. First(near) \in near
    BY <1>6, FirstIsLeast
  <2>. QED BY <2>1 DEF Nearest
<1>8. Nearest(index, addr) \in UpTo(index, addr)
  BY <1>7
<1>. QED BY <1>1, <1>8 DEF lookup_by_addr, Covers, UpTo

\* Places in an index are places of concrete functions of the program.
LEMMA IndexedAreConcrete ==
    ASSUME NEW prog \in Programs, NEW i \in DOMAIN IndexOf(prog)
    PROVE  \E d \in Concrete(prog) :
              /\ DieName(d) = IndexOf(prog)[i].name
              /\ d.low = IndexOf(prog)[i].address /\ d.low \in Nat
<1> DEFINE dies == Image[prog].dies
<1>1. dies \in Seq(Die) /\ prog # NoFile
  BY InspectionAssumption
<1>2. IndexOf(prog) = all(dies)
  BY <1>1 DEF IndexOf, Index
<1>3. /\ i \in 1 .. Len(dies) /\ dies[i].tag = "subprogram" /\ dies[i].low # 0
      /\ all(dies)[i] = FuncInfo(dies[i])
  BY <1>2 DEF all, Reached
<1>4. dies[i] \in Die /\ dies[i] \in ToSet(dies)
  BY <1>1, <1>3 DEF ToSet
<1>. QED BY <1>2, <1>3, <1>4 DEF Concrete, FuncInfo, Die

LEMMA ResolvedAreIndexed ==
    ASSUME NEW prog \in Programs \cup {NoFile}, NEW c
    PROVE  Resolve(IndexOf(prog), c) \subseteq DOMAIN IndexOf(prog)
<1> DEFINE index == IndexOf(prog)
<1>1. DOMAIN index \subseteq Nat
  <2>1. CASE prog = NoFile
    BY <2>1 DEF IndexOf
  <2>2. CASE prog \in Programs
    BY <2>2, InspectionAssumption DEF IndexOf, Index, all, Reached
  <2>. QED BY <2>1, <2>2
<1>2. DEFINE named == {i \in DOMAIN index : index[i].name = c.name}
<1>3. named # {} => First(named) \in named
  BY <1>1, FirstIsLeast
<1>4. find(index, c.name) \subseteq DOMAIN index
  BY <1>3 DEF find
<1>. QED BY <1>4 DEF Resolve, find_regex

--------------------------------------------------------------------------------
(* Types *)

LEMMA LoadsTyped ==
    ASSUME TypeOK, NEW path \in Paths, files[path] \in Programs, NEW d \in BOOLEAN
    PROVE  Loads(path, d) \subseteq
              [prog : Programs, path : Paths, slide : Nat, deleted : BOOLEAN]
BY InspectionAssumption DEF TypeOK, Loads

LEMMA LinkBaseTyped == \A p \in Programs \cup {NoFile} : LinkBase(p) \in Nat
BY InspectionAssumption DEF LinkBase

\* The variables have their types: a command that goes on has functions to observe
\* and, once its breakpoints are due, both parts of the slide.
THEOREM TypeCorrect == Spec => []TypeOK
<1>1. Init => TypeOK
  <2> SUFFICES ASSUME Init PROVE TypeOK
    OBVIOUS
  <2>1. running \in [prog : Programs, path : Paths, slide : Nat, deleted : BOOLEAN]
    BY InspectionAssumption DEF Init, Loads
  <2>2. files \in [Paths -> Programs \cup {NoFile}]
    BY DEF Init
  <2>3. changes \in 0 .. MaxChanges /\ min_vaddr = Unset /\ maps_base = Unset
    BY InspectionAssumption DEF Init
  <2>4. targets = {} /\ shown.kind = "nothing" /\ place = "idle" /\ spoilt = FALSE
    BY DEF Init, Blank
  <2>5. finder = NoFile /\ exe_path = NoEngine /\ command \in Commands
    BY DEF Init
  <2>. QED BY <2>1, <2>2, <2>3, <2>4, <2>5 DEF TypeOK
<1>2. TypeOK /\ [Next]_vars => TypeOK'
  <2> SUFFICES ASSUME TypeOK, [Next]_vars PROVE TypeOK'
    OBVIOUS
  <2>1. ASSUME NEW path \in Paths, NEW prog \in Programs \cup {NoFile},
               Replace(path, prog)
        PROVE  TypeOK'
    <3>1. running' \in [prog : Programs, path : Paths, slide : Nat, deleted : BOOLEAN]
      BY <2>1 DEF TypeOK, Replace, Deleted
    <3>2. changes' \in 0 .. MaxChanges
      BY <2>1, InspectionAssumption DEF TypeOK, Replace, Change
    <3>3. spoilt' \in BOOLEAN
      BY <2>1 DEF TypeOK, Replace
    <3>4. files' \in [Paths -> Programs \cup {NoFile}]
      BY <2>1 DEF TypeOK, Replace
    <3>. QED BY <2>1, <3>1, <3>2, <3>3, <3>4
             DEF TypeOK, Replace, Change, cacheVars, Blank, IndexOf
  <2>2. ASSUME NEW path \in Paths, Exec(path)
        PROVE  TypeOK'
    <3>1. running' \in [prog : Programs, path : Paths, slide : Nat, deleted : BOOLEAN]
      BY <2>2, LoadsTyped DEF Exec, TypeOK
    <3>. QED BY <2>2, <3>1, InspectionAssumption
             DEF TypeOK, Exec, Change, cacheVars, Blank, Attached
  <2>3. CASE AttachEngine
    BY <2>3 DEF TypeOK, ProcName, AttachEngine, worldVars, Attached, IndexOf
  <2>4. ASSUME NEW c \in Commands, Ask(c)
        PROVE  TypeOK'
    <3>1. get_finder \in Programs \cup {NoFile}
      BY <2>4 DEF TypeOK, ProcName, get_finder, Opened, Ask, Attached, NoEngine
    <3>2. targets' \subseteq DOMAIN IndexOf(finder')
      BY <2>4, <3>1, ResolvedAreIndexed DEF Ask
    <3>3. targets' \subseteq DOMAIN IndexOf(finder)'
      BY <3>2 DEF IndexOf
    <3>. QED BY <2>4, <3>1, <3>3
             DEF TypeOK, Ask, worldVars, NothingToDo, Blank, Attached
  <2>5. CASE elf_min_vaddr
    <3>1. Opened \in Programs \cup {NoFile}
      BY <2>5 DEF TypeOK, ProcName, Opened, elf_min_vaddr, NoEngine
    <3>. QED BY <2>5, <3>1, LinkBaseTyped DEF TypeOK, elf_min_vaddr, worldVars, IndexOf, Unset
  <2>6. CASE get_load_base
    <3>1. maps_base' \in Nat \cup {Unset} /\ maps_base' # Unset
      BY <2>6, LinkBaseTyped DEF TypeOK, get_load_base, Unset
    <3>. QED BY <2>6, <3>1 DEF TypeOK, get_load_base, worldVars, IndexOf
  <2>7. ASSUME NEW chain, NEW bottom, Sample(chain, bottom)
        PROVE  TypeOK'
    BY <2>7 DEF TypeOK, Sample, worldVars, cacheVars, IndexOf
  <2>8. ASSUME NEW die, NEW list, Event(die, list)
        PROVE  TypeOK'
    BY <2>8 DEF TypeOK, Event, worldVars, cacheVars, IndexOf
  <2>9. CASE TimeOut
    BY <2>9 DEF TypeOK, TimeOut, worldVars, cacheVars, IndexOf
  <2>10. CASE UNCHANGED vars
    BY <2>10 DEF TypeOK, vars, worldVars, cacheVars, IndexOf
  <2>. QED BY <2>1, <2>2, <2>3, <2>4, <2>5, <2>6, <2>7, <2>8, <2>9, <2>10 DEF Next
<1>. QED BY <1>1, <1>2, PTL DEF Spec

--------------------------------------------------------------------------------
(* The entry addresses *)

\* What is stored where the target was loaded from, while it is there.
Stored == ~running.deleted => files[running.path] = running.prog

\* The engine knows the path of the target as it was when it looked.
PathOwn ==
    Attached => /\ exe_path.path = running.path
                /\ exe_path.deleted => running.deleted

\* Each cached part is that of the running program, and as long as one has to be
\* read from the file, the file is there.
PartsOwn ==
    /\ finder # NoFile => finder = running.prog
    /\ min_vaddr # Unset => min_vaddr = LinkBase(running.prog)
    /\ maps_base # Unset => maps_base = running.slide + LinkBase(running.prog)
    /\ Attached /\ min_vaddr = Unset /\ ~exe_path.deleted =>
          files[exe_path.path] = running.prog

\* A file that was gone when the engine was made is never opened, and no part of
\* the slide is looked up before the index exists.
NeverOpened ==
    /\ ~Attached => finder = NoFile /\ min_vaddr = Unset /\ maps_base = Unset
    /\ Attached /\ exe_path.deleted => finder = NoFile
    /\ finder = NoFile => min_vaddr = Unset

SlideInv ==
    /\ Stored
    /\ NeverOpened
    /\ ~spoilt => PathOwn /\ PartsOwn

LEMMA UsedIsIndexed ==
    ASSUME TypeOK, place # "idle"
    PROVE  finder \in Programs /\ targets \subseteq DOMAIN IndexOf(finder)
BY DEF TypeOK, IndexOf

LEMMA SlideInvInit == Init => SlideInv
<1> SUFFICES ASSUME Init PROVE SlideInv
  OBVIOUS
<1>1. Stored
  BY DEF Init, Stored, Loads
<1>. QED BY <1>1 DEF Init, SlideInv, NeverOpened, PathOwn, PartsOwn, Attached

LEMMA SlideInvStep ==
    ASSUME TypeOK, TypeOK', SlideInv, [Next]_vars
    PROVE  SlideInv'
<1>1. ASSUME NEW path \in Paths, NEW prog \in Programs \cup {NoFile},
             Replace(path, prog)
      PROVE  SlideInv'
  <2>1. /\ running'.prog = running.prog /\ running'.path = running.path
        /\ running'.slide = running.slide
        /\ running'.deleted = (running.deleted \/ running.path = path)
    BY <1>1 DEF Replace, Deleted, TypeOK
  <2>2. /\ files' = [files EXCEPT ![path] = prog]
        /\ UNCHANGED cacheVars
        /\ spoilt' = (spoilt \/ (path = exe_path.path /\ min_vaddr = Unset))
    BY <1>1 DEF Replace
  <2>3. Stored'
    BY <2>1, <2>2 DEF SlideInv, Stored, TypeOK
  <2>4. NeverOpened'
    BY <2>2 DEF SlideInv, NeverOpened, cacheVars, Attached
  <2>5. ASSUME ~spoilt' PROVE PathOwn' /\ PartsOwn'
    <3>1. ~spoilt /\ ~(path = exe_path.path /\ min_vaddr = Unset)
      BY <2>2, <2>5
    <3>2. PathOwn'
      BY <2>1, <2>2, <3>1 DEF SlideInv, PathOwn, Attached, cacheVars
    <3>3. Attached /\ min_vaddr = Unset => files'[exe_path.path] = files[exe_path.path]
      BY <2>2, <3>1 DEF TypeOK, Attached
    <3>4. PartsOwn'
      BY <2>1, <2>2, <3>1, <3>3 DEF SlideInv, PartsOwn, Attached, cacheVars
    <3>. QED BY <3>2, <3>4
  <2>. QED BY <2>3, <2>4, <2>5 DEF SlideInv
<1>2. ASSUME NEW path \in Paths, Exec(path)
      PROVE  SlideInv'
  <2>1. /\ running'.prog = files[path] /\ running'.path = path
        /\ ~running'.deleted /\ UNCHANGED <<files, cacheVars>>
    BY <1>2 DEF Exec, Loads
  <2>2. ~spoilt' => ~Attached
    BY <1>2 DEF Exec
  <2>. QED BY <2>1, <2>2
           DEF SlideInv, Stored, NeverOpened, PathOwn, PartsOwn, Attached, cacheVars
<1>3. CASE AttachEngine
  BY <1>3 DEF AttachEngine, SlideInv, Stored, NeverOpened, PathOwn, PartsOwn,
              Attached, worldVars
<1>4. ASSUME NEW c \in Commands, Ask(c)
      PROVE  SlideInv'
  <2>1. /\ Attached /\ finder' = get_finder
        /\ UNCHANGED <<worldVars, exe_path, min_vaddr, maps_base, spoilt>>
    BY <1>4 DEF Ask
  <2>2. /\ exe_path.deleted => get_finder = NoFile
        /\ get_finder = NoFile => finder = NoFile
    BY <2>1 DEF get_finder, Opened, SlideInv, NeverOpened
  <2>3. Stored' /\ NeverOpened' /\ (PathOwn => PathOwn')
    BY <2>1, <2>2 DEF SlideInv, Stored, NeverOpened, PathOwn, Attached, worldVars
  <2>4. ASSUME ~spoilt, get_finder # NoFile
        PROVE  get_finder = running.prog
    BY <2>1, <2>2, <2>4 DEF get_finder, Opened, SlideInv, PartsOwn, NeverOpened
  <2>5. ~spoilt => PartsOwn'
    BY <2>1, <2>4 DEF SlideInv, PartsOwn, Attached, worldVars
  <2>. QED BY <2>1, <2>3, <2>5 DEF SlideInv
<1>5. CASE elf_min_vaddr
  <2>1. /\ finder \in Programs /\ Attached
        /\ min_vaddr' = IF min_vaddr = Unset THEN LinkBase(Opened) ELSE min_vaddr
        /\ UNCHANGED <<worldVars, exe_path, finder, maps_base, spoilt>>
    BY <1>5, UsedIsIndexed DEF elf_min_vaddr, TypeOK, Attached
  <2>2. finder # NoFile /\ ~exe_path.deleted
    BY <2>1, InspectionAssumption DEF SlideInv, NeverOpened
  <2>3. Stored' /\ (PathOwn => PathOwn')
    BY <2>1 DEF SlideInv, Stored, PathOwn, Attached, worldVars
  <2>4. NeverOpened'
    BY <2>1, <2>2 DEF NeverOpened, Attached
  <2>5. ~spoilt => min_vaddr' = LinkBase(running.prog)
    BY <2>1, <2>2 DEF SlideInv, PartsOwn, Opened
  <2>6. min_vaddr' # Unset
    BY <1>5 DEF elf_min_vaddr, TypeOK
  <2>7. ~spoilt => PartsOwn'
    BY <2>1, <2>5, <2>6 DEF SlideInv, PartsOwn, Attached, worldVars
  <2>. QED BY <2>1, <2>3, <2>4, <2>7 DEF SlideInv
<1>6. CASE get_load_base
  <2>1. /\ Attached /\ UNCHANGED <<worldVars, exe_path, finder, min_vaddr, spoilt>>
        /\ maps_base' = IF maps_base # Unset THEN maps_base
                        ELSE IF ContainsPath
                             THEN running.slide + LinkBase(running.prog) ELSE 0
    BY <1>6 DEF get_load_base, TypeOK, Attached
  <2>2. ~spoilt => ContainsPath
    <3> DEFINE mapped == [path |-> running.path, deleted |-> running.deleted]
    <3>1. exe_path \in ProcName /\ mapped \in ProcName
      BY <2>1 DEF TypeOK, Attached, ProcName
    <3>2. ~spoilt => exe_path.path = mapped.path /\ (exe_path.deleted => mapped.deleted)
      BY <2>1 DEF SlideInv, PathOwn
    <3>3. ~spoilt => <<exe_path, mapped>> \in Within
      BY <3>1, <3>2, PathsAssumption
    <3>. QED BY <3>3 DEF ContainsPath
  <2>3. ~spoilt => PartsOwn' /\ PathOwn'
    BY <2>1, <2>2 DEF SlideInv, PartsOwn, PathOwn, Attached, worldVars
  <2>. QED BY <2>1, <2>3 DEF SlideInv, Stored, NeverOpened, Attached, worldVars
<1>7. ASSUME UNCHANGED <<worldVars, cacheVars, spoilt>>
      PROVE  SlideInv'
  BY <1>7 DEF SlideInv, Stored, NeverOpened, PathOwn, PartsOwn, Attached, worldVars,
              cacheVars
<1>8. ASSUME \/ \E chain, bottom : Sample(chain, bottom)
             \/ \E die, list : Event(die, list)
             \/ TimeOut \/ UNCHANGED vars
      PROVE  UNCHANGED <<worldVars, cacheVars, spoilt>>
  BY <1>8 DEF Sample, Event, TimeOut, vars
<1>. QED BY <1>1, <1>2, <1>3, <1>4, <1>5, <1>6, <1>7, <1>8 DEF Next

LEMMA SlideInvariant == Spec => [](TypeOK /\ SlideInv)
<1>1. TypeOK /\ TypeOK' /\ SlideInv /\ [Next]_vars => SlideInv'
  BY SlideInvStep
<1>. QED BY <1>1, TypeCorrect, SlideInvInit, PTL DEF Spec

\* Breakpoints are put where the running program has a function of the name that
\* was found, for every program, however its file was removed or replaced after
\* the first lookup.
THEOREM EntriesCorrect == Spec => []EntriesOwn
<1>1. TypeOK /\ SlideInv => EntriesOwn
  <2> SUFFICES ASSUME TypeOK, SlideInv, place = "armed", ~spoilt, NEW i \in targets
               PROVE  \E d \in Concrete(running.prog) :
                         DieName(d) = Found(i).name /\ d.low + running.slide = Entry(i)
    BY DEF EntriesOwn
  <2>1. finder \in Programs /\ i \in DOMAIN IndexOf(finder)
    BY UsedIsIndexed
  <2>2. finder = running.prog /\ finder # NoFile
    BY <2>1, InspectionAssumption DEF SlideInv, PartsOwn
  <2>3. PICK d \in Concrete(running.prog) :
           /\ DieName(d) = Found(i).name /\ d.low = Found(i).address /\ d.low \in Nat
    BY <2>1, <2>2, IndexedAreConcrete DEF Found
  <2>4. /\ maps_base = running.slide + LinkBase(running.prog)
        /\ min_vaddr = LinkBase(running.prog)
    BY DEF TypeOK, SlideInv, PartsOwn
  <2>5. running.slide \in Nat /\ LinkBase(running.prog) \in Nat
    BY LinkBaseTyped DEF TypeOK
  <2>6. aslr_slide = running.slide
    BY <2>4, <2>5 DEF aslr_slide
  <2>. QED BY <2>3, <2>6 DEF Entry
<1>. QED BY <1>1, SlideInvariant, PTL

================================================================================
