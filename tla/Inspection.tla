------------------------------- MODULE Inspection -------------------------------
(***************************************************************************)
(* From a name that was typed to what is shown of a call: AttachEngine     *)
(* looks the function up in the DWARF of the target's executable, computes *)
(* where the program was loaded, and reads the stacks (stack()) and the    *)
(* arguments (watch_checked()) of the calls it sees there.                 *)
(*                                                                         *)
(* The engine keeps the index and both parts of the slide for as long as   *)
(* it lives.  Meanwhile the executable may be replaced on disk and the     *)
(* target may exec; uatu is told of neither.                               *)
(*                                                                         *)
(* place is where a command is:                                            *)
(*   idle        no command, or still in get_finder()                      *)
(*   elf, maps   in get_aslr_slide(), before either of its lookups         *)
(*   armed       the entry addresses are computed                          *)
(***************************************************************************)
EXTENDS CallFrames, ParamFormat

CONSTANTS
    Programs,       \* executables
    Image,          \* what is in each: dies, segments (PT_LOAD), pie, and sites,
                    \* the return addresses of its calls
    NoFile,
    Paths,          \* where executables are stored
    Within,         \* the names of files that stand within another's
    Slides,         \* where the kernel may load a position independent one
    Commands,       \* what may be typed: stack or watch, a name, what it matches
    LibSites,       \* return addresses outside of the program
    MaxChanges,     \* bound: changes of a file, and execs
    MaxDepth,       \* bound: callers of the function on the stack
    Words,          \* what rbp may hold that is no frame pointer
    Elsewhere,      \* address -> word, of what can be read outside of the frames
    Strings,        \* address -> text in the target's memory, "" if none
    ArgLists        \* argument values of a call, and what is above narrow ones

NoEngine == [path |-> "", deleted |-> FALSE]
Unset == -1

\* The index of each program; there is none of a file that is not there.
Index == [p \in Programs |-> all(Image[p].dies)]
IndexOf(prog) == IF prog = NoFile THEN <<>> ELSE Index[prog]

\* p_vaddr of the first PT_LOAD at file offset 0, or 0.
LinkBase(prog) ==
    LET headers == {i \in 1 .. Len(Image[prog].segments) :
                       Image[prog].segments[i].offset = 0}
    IN  IF prog = NoFile \/ headers = {} THEN 0
        ELSE Image[prog].segments[First(headers)].vaddr

\* How /proc names a file: by its path, with a mark behind it if it was removed.
ProcName == [path : Paths, deleted : BOOLEAN]

ASSUME PathsAssumption ==
    \A p, q \in ProcName :
        p.path = q.path /\ (p.deleted => q.deleted) => <<p, q>> \in Within

ASSUME InspectionAssumption ==
    /\ NoFile \notin Programs
    /\ Slides \subseteq Nat /\ MaxChanges \in Nat
    /\ \A p \in Programs :
          /\ Image[p].dies \in Seq(Die)
          /\ Image[p].segments \in Seq([offset : Nat, vaddr : Nat, size : Nat])
          /\ LinkBase(p) \in Nat
          /\ \E i \in 1 .. Len(Image[p].segments) : Image[p].segments[i].offset = 0

Concrete(prog) ==
    {d \in ToSet(Image[prog].dies) : d.tag = "subprogram" /\ d.low # 0}

\* Where C++ has functions with code.
FunctionScopes == {"subprogram", "namespace", "class", "structure", "lexical_block",
                   "inlined_subroutine"}

\* Of two functions, one ends before the other begins, unless they have all their
\* code in common.  Parents stand before their children.  Libraries are mapped
\* above the program, or at least above its link addresses.
ASSUME LayoutAssumption ==
    /\ \A p \in Programs :
          /\ Image[p].sites \subseteq Nat \ {0}
          /\ \A d, e \in Concrete(p) :
                e.low \in d.low .. d.high - 1 => e.low = d.low /\ e.high = d.high
          /\ LET dies == Image[p].dies
             IN  /\ \A i \in 1 .. Len(dies) : dies[i].parent < i
                 /\ \E S \in SUBSET (1 .. Len(dies)) :
                       /\ \A i \in 1 .. Len(dies) : dies[i] \in Concrete(p) => i \in S
                       /\ \A i \in S : LET up == dies[i].parent
                                      IN  \/ up = 0
                                          \/ up \in S /\ dies[up].tag \in FunctionScopes
    /\ LibSites \subseteq Nat \ {0}
    /\ \A s \in LibSites, slide \in Slides :
          \/ slide <= s
          \/ \A p \in Programs : \A d \in Concrete(p) :
                Image[p].pie => d.low < s /\ d.high <= s

ASSUME StackAssumption ==
    /\ Words \subseteq Nat
    /\ DOMAIN Elsewhere \subseteq Nat
    /\ \A a \in DOMAIN Elsewhere : Elsewhere[a] \in Nat

\* There is nothing at address 0, and no argument is void.
ASSUME ArgumentsAssumption ==
    /\ Void \notin DOMAIN Sizes
    /\ Strings \in [RegValue -> STRING] /\ Strings[0] = ""
    /\ \A list \in ArgLists : list.above \in Nat

VARIABLES
    files,          \* path -> the program stored there, or NoFile
    changes,        \* changes so far
    running,        \* the target: its program, path and slide, and whether the
                    \* file was removed from the path
    exe_path,       \* of the engine, or NoEngine
    finder,         \* the program that was indexed, or NoFile
    min_vaddr,      \* cached_elf_min_vaddr_, or Unset
    maps_base,      \* cached_maps_base_, or Unset
    place,
    command,        \* the command that runs or ran last
    targets,        \* the functions it found, as places in the index
    shown,          \* a call, and what was shown of it at that moment
    spoilt          \* history: the engine's view of the target went stale

worldVars == <<files, running, changes>>
cacheVars == <<exe_path, finder, min_vaddr, maps_base>>
vars == <<worldVars, cacheVars, place, command, targets, shown, spoilt>>

Blank == [kind |-> "nothing"]

TypeOK ==
    /\ files \in [Paths -> Programs \cup {NoFile}]
    /\ running \in [prog : Programs, path : Paths, slide : Nat, deleted : BOOLEAN]
    /\ changes \in 0 .. MaxChanges
    /\ exe_path \in ProcName \cup {NoEngine}
    /\ finder \in Programs \cup {NoFile}
    /\ min_vaddr \in Nat \cup {Unset} /\ maps_base \in Nat \cup {Unset}
    /\ place \in {"idle", "elf", "maps", "armed"}
    /\ targets \subseteq DOMAIN IndexOf(finder)
    /\ place # "idle" => targets # {} /\ exe_path # NoEngine
    /\ place \in {"maps", "armed"} => min_vaddr # Unset
    /\ place = "armed" => maps_base # Unset
    /\ command \in Commands
    /\ shown.kind \in {"nothing", "error", "stack", "watch"}
    /\ spoilt \in BOOLEAN

Loads(path, deleted) ==
    {[prog |-> files[path], path |-> path, slide |-> s, deleted |-> deleted] :
        s \in IF Image[files[path]].pie THEN Slides ELSE {0}}

Init ==
    /\ files \in [Paths -> Programs]
    /\ running \in UNION {Loads(p, d) : p \in Paths, d \in BOOLEAN}
    /\ changes = 0
    /\ exe_path = NoEngine /\ finder = NoFile
    /\ min_vaddr = Unset /\ maps_base = Unset
    /\ place = "idle" /\ command \in Commands
    /\ targets = {} /\ shown = Blank /\ spoilt = FALSE

Attached == exe_path # NoEngine
Deleted(path) == [running EXCEPT !.deleted = @ \/ running.path = path]

--------------------------------------------------------------------------------
(* The world *)

Change == changes < MaxChanges /\ changes' = changes + 1 /\ shown' = Blank

\* The file at a path is removed, or another one put in its place.
Replace(path, prog) ==
    /\ Change
    /\ prog # files[path]
    /\ files' = [files EXCEPT ![path] = prog]
    /\ running' = Deleted(path)
    /\ spoilt' = (spoilt \/ (path = exe_path.path /\ min_vaddr = Unset))
    /\ UNCHANGED <<cacheVars, place, command, targets>>

Exec(path) ==
    /\ Change
    /\ files[path] # NoFile
    /\ running' \in Loads(path, FALSE)
    /\ spoilt' = (spoilt \/ Attached)
    /\ UNCHANGED <<files, cacheVars, place, command, targets>>

--------------------------------------------------------------------------------
(* The engine *)

\* The constructor: resolve_exe.  What readlink gives of a removed file names no
\* file.
AttachEngine ==
    /\ ~Attached
    /\ exe_path' = [path |-> running.path, deleted |-> running.deleted]
    /\ UNCHANGED <<worldVars, finder, min_vaddr, maps_base, place, command, targets,
                   shown, spoilt>>

\* The file that opening exe_path finds.
Opened == IF exe_path.deleted THEN NoFile ELSE files[exe_path.path]

\* Fault: the executable is opened anew for every command.
ReopenedFinder == Opened

\* get_finder: opened once, unless that fails.
get_finder == IF finder = NoFile THEN Opened ELSE finder

\* find, then find_regex in watch_checked only.
Resolve(index, c) ==
    LET exact == find(index, c.name)
    IN  IF exact = {} /\ c.kind = "watch" THEN find_regex(index, c.matches) ELSE exact

\* Fault: a name without a function is not refused.
NeverNothing(ts) == FALSE

NothingToDo(ts) == ts = {}

Ask(c) ==
    /\ Attached /\ place = "idle"
    /\ finder' = get_finder
    /\ targets' = Resolve(IndexOf(get_finder), c)
    /\ command' = c
    /\ IF NothingToDo(targets') THEN place' = place /\ shown' = [kind |-> "error"]
                                ELSE place' = "elf" /\ shown' = Blank
    /\ UNCHANGED <<worldVars, exe_path, min_vaddr, maps_base, spoilt>>

elf_min_vaddr ==
    /\ place = "elf"
    /\ min_vaddr' = IF min_vaddr = Unset THEN LinkBase(Opened) ELSE min_vaddr
    /\ place' = "maps"
    /\ UNCHANGED <<worldVars, exe_path, finder, maps_base, command, targets, shown,
                   spoilt>>

\* Fault: a line of /proc/<pid>/maps has to end in exe_path.
EndsInPath == exe_path = [path |-> running.path, deleted |-> running.deleted]

\* A line of /proc/<pid>/maps contains exe_path, its own or that of another file.
\* Only the lines of the program are looked at: no library below it has its path in the
\* name.
ContainsPath ==
    <<exe_path, [path |-> running.path, deleted |-> running.deleted]>> \in Within

get_load_base ==
    /\ place = "maps"
    /\ maps_base' = IF maps_base # Unset THEN maps_base
                    ELSE IF ContainsPath THEN running.slide + LinkBase(running.prog)
                    ELSE 0
    /\ place' = "armed"
    /\ UNCHANGED <<worldVars, exe_path, finder, min_vaddr, command, targets, shown,
                   spoilt>>

aslr_slide == maps_base - min_vaddr

\* Where the entry breakpoints are put.
Found(i) == IndexOf(finder)[i]
Entry(i) == Found(i).address + aslr_slide
Entries == {Entry(i) : i \in targets}

--------------------------------------------------------------------------------
(* A call of an observed function *)

\* What the code of an activation does to rbp, as its callee finds it: points it to
\* a frame of its own, leaves it as it came, or keeps anything else in it.
Own == -2
Untouched == -1

Activation == [ret : {s + running.slide : s \in Image[running.prog].sites} \cup LibSites,
               rbp : Words \cup {Own, Untouched}]

\* The stack of a thread in chain[1], called by chain[2], ..., at the entry of a
\* function.  RegisterAbove is what the register holds that activation i finds, and
\* saves if it makes a frame; the outermost activation finds bottom in it.
RSP == Word
FrameAt(i) == 2 * Word * i
Keepers(chain) == {i \in 1 .. Len(chain) : chain[i].rbp = Own}
RegisterAbove(chain, i, bottom) ==
    LET above == {j \in 1 .. Len(chain) : j > i /\ chain[j].rbp # Untouched}
        next == First(above)
    IN  IF above = {} THEN bottom
        ELSE IF chain[next].rbp = Own THEN FrameAt(next)
        ELSE chain[next].rbp

\* Nothing returns from the outermost activation.
Memory(chain, bottom) ==
    LET saved == {FrameAt(i) : i \in Keepers(chain)}
        returns == {FrameAt(i) + Word : i \in Keepers(chain)}
        at(a) == a \div (2 * Word)
    IN  [a \in {RSP} \cup saved \cup returns \cup DOMAIN Elsewhere |->
            IF a = RSP THEN chain[1].ret
            ELSE IF a \in saved THEN RegisterAbove(chain, at(a), bottom)
            ELSE IF a \in returns
                 THEN IF at(a) < Len(chain) THEN chain[at(a) + 1].ret ELSE 0
            ELSE Elsewhere[a]]

\* One sample of stack().
Sample(chain, bottom) ==
    /\ place = "armed" /\ command.kind = "stack"
    /\ shown' = [kind   |-> "stack", chain |-> chain, bottom |-> bottom,
                 frames |-> Frames(IndexOf(finder), aslr_slide, command.name,
                                   Memory(chain, bottom), RSP,
                                   RegisterAbove(chain, 0, bottom))]
    /\ place' = "idle"
    /\ UNCHANGED <<worldVars, cacheVars, command, targets, spoilt>>

--------------------------------------------------------------------------------

\* Where the kernel puts the uprobes of watch_checked(): the link address is
\* passed where it takes an offset in the file.
Probes ==
    LET of(a) == {a - g.offset + g.vaddr + running.slide : g \in
                     {h \in ToSet(Image[running.prog].segments) :
                         a \in h.offset .. h.offset + h.size - 1}}
    IN  UNION {of(Found(i).address) : i \in targets}

\* The calling convention: integers, pointers and references in the integer
\* registers as long as there are any, the implicit parameters among them;
\* float and double in registers of their own, long double on the stack.  Nothing
\* is said of structures passed by value.
Plain(t, bases) == Qualified(t, Marks) = <<>> /\ t.base \in bases
Integral(t) == ~Plain(t, FpTypes)
Before(die, i, Kind(_)) == Cardinality({j \in 1 .. i - 1 : Kind(die.params[j].type)})
IntegerRank(die, i) == Before(die, i, Integral)
FloatRank(die, i) == Before(die, i, LAMBDA t : Plain(t, {"float", "double"}))

\* What an argument of a type may be.
Fits(t, value) ==
    value \in IF Plain(t, DOMAIN Sizes)
              THEN -(Sizes[t.base] \div 2) .. (Sizes[t.base] \div 2) - 1
              ELSE Int

\* A narrow integer fills its part of the register, anything may stand above it.
Raw(t, value, above) ==
    IF Plain(t, DOMAIN Sizes)
    THEN ((value % Sizes[t.base]) + above * Sizes[t.base]) % RegSize
    ELSE value % RegSize

Args(die, list) ==
    [r \in Registers |->
        LET here == {i \in 1 .. Len(die.params) :
                        Integral(die.params[i].type) /\ IntegerRank(die, i) = r}
        IN  IF here = {} THEN list.above
            ELSE LET i == CHOOSE j \in here : TRUE
                 IN  Raw(die.params[i].type, list.values[i], list.above)]

\* addr_to_idx: the last target at an address.
Attributed(addr) == Found(Max({i \in targets : Entry(i) = addr}))

\* One event of watch_checked().
Event(die, list) ==
    /\ place = "armed" /\ command.kind = "watch" /\ ~running.deleted
    /\ die.low + running.slide \in Probes \cap Entries
    /\ \A i \in 1 .. Len(die.params) : Fits(die.params[i].type, list.values[i])
    /\ LET fi == Attributed(die.low + running.slide)
           args == Args(die, list)
           strings == str_vals(fi.param_types, fi.has_this, args, Strings)
       IN  shown' = [kind |-> "watch", die |-> die, list |-> list, name |-> fi.name,
                     params |-> format_params(fi.param_types, args, fi.has_this,
                                              strings)]
    /\ place' = "idle"
    /\ UNCHANGED <<worldVars, cacheVars, command, targets, spoilt>>

\* The deadline passes without a call.
TimeOut ==
    /\ place = "armed"
    /\ place' = "idle"
    /\ UNCHANGED <<worldVars, cacheVars, command, targets, shown, spoilt>>

--------------------------------------------------------------------------------

Next ==
    \/ \E path \in Paths, prog \in Programs \cup {NoFile} : Replace(path, prog)
    \/ \E path \in Paths : Exec(path)
    \/ AttachEngine
    \/ \E c \in Commands : Ask(c)
    \/ elf_min_vaddr
    \/ get_load_base
    \/ \E n \in 1 .. MaxDepth : \E chain \in [1 .. n -> Activation], b \in Words :
          Sample(chain, b)
    \/ \E d \in Concrete(running.prog), list \in ArgLists : Event(d, list)
    \/ TimeOut

Spec == Init /\ [][Next]_vars

--------------------------------------------------------------------------------
(* Properties *)

\* Breakpoints are put where the running program has a function of the name that
\* was found, whatever part of the addresses was cached by which command: a
\* position independent program or not, its file removed or replaced once the
\* engine has looked at it.  Only an exec, or another file before the first
\* lookup is over, leads uatu astray.
EntriesOwn ==
    place = "armed" /\ ~spoilt =>
        \A i \in targets : \E d \in Concrete(running.prog) :
            DieName(d) = Found(i).name /\ d.low + running.slide = Entry(i)

\* The functions of the running program around the call that returns to ret.
Around(ret) ==
    {d \in Concrete(running.prog) : ret - 1 - running.slide \in d.low .. d.high - 1}
\* The call ends its function, as those that never return do, or another function
\* begins behind it.
CallIsLast(ret) ==
    \/ \E d \in Around(ret) : ret - running.slide = d.high
    \/ \E d \in Concrete(running.prog) : ret - running.slide = d.low

\* The activations below the first one that keeps something else in rbp.
Sure(chain) ==
    {i \in 1 .. Len(chain) : \A j \in 1 .. i : chain[j].rbp \in {Own, Untouched}}

\* What a stack should show: the direct caller, and the caller of every function
\* that makes a frame, up to the first that keeps something else in rbp.
Callers(chain) ==
    LET seen == {1} \cup {i \in 2 .. Len(chain) : i - 1 \in Sure(chain) \cap Keepers(chain)}
    IN  [k \in 1 .. Min({Cardinality(seen), MaxFrames + 1}) |-> chain[Nth(seen, k)].ret]

\* The walk may leave the frames: rbp is used for something else, or is at the
\* bottom of the stack, and what it holds can be followed.
Astray(chain, bottom) ==
    LET lost == (1 .. Len(chain)) \ Sure(chain)
        rbp == IF lost = {} THEN bottom ELSE chain[First(lost)].rbp
    IN  /\ lost = {} => Len(chain) \notin Keepers(chain)
        /\ HasFrame(Memory(chain, bottom), rbp)

\* A return address is shown by the name of the function its call is in, or as it
\* is where there is none with a name.
ShowsCaller(frame, ret) ==
    LET names == {DieName(d) : d \in Around(ret)} \ {<<>>}
    IN  frame \in IF names # {} THEN names ELSE {<<"0x", ToString(ret)>>}

\* A stack begins with the function's real callers: the direct one whatever the
\* compiler did with rbp, and the others as far as frame pointers lead, through
\* libraries, functions without a usable name and programs loaded anywhere.  What
\* is in rbp where they end adds frames only if it can be followed, and never more
\* than the walk may take.  Only of a call that ends its code nothing is known.
FramesOwn ==
    shown.kind = "stack" /\ ~spoilt =>
        LET callers == Callers(shown.chain)
            wrong == Len(shown.frames) - (Len(callers) + 1)
        IN  /\ wrong \in 0 .. MaxFrames + 1 - Len(callers)
            /\ wrong > 0 => Astray(shown.chain, shown.bottom)
            /\ \A k \in 1 .. Len(callers) :
                  CallIsLast(callers[k]) \/ ShowsCaller(shown.frames[k + 1], callers[k])

\* How an argument is to be read.
Reading(t, value) ==
    LET marks == Qualified(t, Marks)
        addr == value % RegSize
    IN  CASE marks = <<>>             -> <<"decimal", value>>
          [] marks # <<>> /\ Head(marks) # "*" -> <<"reference", addr>>
          [] OTHER ->
                IF addr = 0 THEN <<"nullptr">>
                ELSE IF marks # <<"*">> \/ t.base \notin CharTypes THEN <<"hex", addr>>
                ELSE IF t.base = "char" /\ Strings[addr] # "" THEN <<"text", Strings[addr]>>
                ELSE <<"quoted", addr>>

\* The types of which Reading tells how they are to be read, which leaves out
\* unsigned integers, bool, what points to void, and pointers to pointers to what
\* has "char" in its name.
Told(t) ==
    \/ Plain(t, DOMAIN Sizes \cup {"float", "double"})
    \/ /\ Qualified(t, Marks) # <<>> /\ t.base # Void
       /\ \/ Head(Qualified(t, Marks)) # "*" \/ Qualified(t, Marks) = <<"*">>
          \/ t.base \notin CharTypes

\* The implicit parameter is this, if there is one.
OnlyThis(die) ==
    \A i \in 1 .. Len(die.params) :
        die.params[i].artificial => i = 1 /\ Integral(die.params[i].type)

\* No other function has the same code.
Alone(die) == \A d \in Concrete(running.prog) : d.low = die.low => d = die

\* The k-th declared parameter of a call is shown as the argument it is: a signed
\* integer of any width with its value, a pointer or a reference with its address, a
\* string with its own text, a floating-point one by its register, and "?" for an
\* integer, pointer or reference that was passed on the stack.  Of floating-point
\* arguments on the stack nothing is said, nor of those behind a long double: they
\* are shown as registers.
ShowsArgument(params, die, list, k) ==
    LET own == Declared(die.params)
        i == k + (Len(die.params) - Len(own))
        t == own[k].type
    IN  CASE ~Integral(t) ->
               \/ \E j \in 1 .. i : Plain(die.params[j].type, {"long double"})
               \/ FloatRank(die, i) \notin FloatRegisters
               \/ params[k] = <<"xmm", FloatRank(die, i)>>
          [] Integral(t) /\ IntegerRank(die, i) >= 6 -> params[k] = <<"?">>
          [] OTHER -> Told(t) => params[k] = Reading(t, list.values[i])

\* An event has the name of a function at the address of the call.  If it is the
\* only one there, the event's parameters are the arguments of the call, in the
\* order of the declaration.
ParamsFaithful ==
    shown.kind = "watch" /\ ~spoilt =>
        LET die == shown.die
            declared == Len(Declared(die.params))
        IN  /\ \E d \in Concrete(running.prog) :
                  d.low = die.low /\ DieName(d) = shown.name
            /\ Alone(die) =>
                  /\ Len(shown.params) = declared
                  /\ OnlyThis(die) =>
                        \A k \in 1 .. declared :
                           ShowsArgument(shown.params, die, shown.list, k)

(* What a comment or a document of the repository says and the code does    *)
(* not do.                                                                  *)

\* Uprobes are put at the offset of the function in its file
\* (docs/architecture.md), so that they fire where the function begins.
ProbesOwn ==
    place = "armed" /\ command.kind = "watch" /\ ~spoilt /\ ~running.deleted =>
        Probes = Entries

================================================================================
