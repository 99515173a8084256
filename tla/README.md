# TLA+ models of uatu

uatu attaches to a running C++ process and reports the calls of one of its
functions: `watch` (arguments, return value, duration), `trace` (duration) and
`stack` (call stack). These modules model the parts of it in which the order of
events matters (the ptrace session behind `trace` and `stack`, the eBPF path of
`watch`, and the prompt and the ptrace fallback of `watch`, which put these
together) and the parts that turn a name into addresses, and registers and
memory into what is shown. Paths below are those of the repository.

## 1. The system

| Component | Source | State it keeps | Operations |
|---|---|---|---|
| ptrace engine | `src/engine/attach_engine.cpp` `trace()`, `stack()` | the attached target; saved words, `waiting_for_exit`, `entry_armed`, `ret_vaddr`, `need_cont`, results | attach, install, loop (continue, wait, handle a stop), clean up |
| architecture layer | `include/uatu/platform/arch.h` | none | breakpoint word, program counter, stack pointer |
| eBPF programs | `ebpf/watch.bpf.c` | `entry_times` (thread to time), ring buffer | `uprobe_entry`, `uprobe_exit` |
| probe loader | `src/ebpf/uprobe_loader.cpp` | BPF object, links, ring buffer reader | construct, `attach`, `poll`, `detach_all`, destroy |
| watch command | `attach_engine.cpp` `watch_checked()` | `entry_cache` (thread to arguments), events | resolve targets, eBPF loop and its callback, ptrace fallback |
| prompt | `src/cli/main.cpp` | none | read a line, call the engine, print; the SIGINT handler sets `s_stop_flag` |
| symbol index | `src/dwarf/symbol_finder.cpp` | functions by name and by address | collect, `find`, `find_regex`, `lookup_by_addr` |
| slide and executable | `AttachEngine::Impl` in `attach_engine.cpp` | `exe_path`, `finder_`, `cached_elf_min_vaddr_`, `cached_maps_base_` | `resolve_exe`, `get_finder`, `get_aslr_slide` |
| call stack | the walk in `stack()` | none | memory to frames |
| parameter formatting | `format_params` in `attach_engine.cpp` | none | registers to parameters |
| formatter | `src/cli/formatter.cpp` | none | events to lines |
| JSON codec | `src/protocol/json_codec.cpp` | none | `encode`, `decode_watch`, `encode_stack`, `decode_stack` |
| call tracing program | `ebpf/trace.bpf.c` | | neither built nor loaded |

How they interact. The prompt calls one engine operation at a time, in one
thread. The SIGINT handler may run between any two of its instructions and only
sets a flag, which each command clears when it starts. The engine and the target
are concurrent processes: they meet in ptrace requests, which succeed only while
the tracee is in a ptrace stop, in `waitpid`, and in the target's text, which
the engine patches and all threads of the target execute. The eBPF programs run
in the target's threads, in the kernel; they share a map among themselves and a
bounded ring buffer with the engine, whose `poll` calls back into
`watch_checked`. Between them the engine keeps what it has read of the target's
executable, which others may replace, and the target may execute another one.

What is hard, and which properties it leads to:

* The engine writes into the code of a process that goes on running. Words of 8
  bytes are saved and restored for breakpoints of 1 or 4, so neighbouring
  breakpoints share bytes (`OnePatch`), and every way out of a command must
  leave the text as it was (`CleanReturn`, `NoPatchLeftBehind`).
* ptrace requests fail on a tracee that runs. A deadline that passes while it
  runs makes the cleanup fail (`HarmOnlyIfAbandoned`, `RestoredOnAnyExit`).
* Stops come in an order the engine does not choose: another signal before the
  SIGSTOP of the attach, group stops, the death of the target in a handler
  (`LossOnlyAtEdges`).
* Only one thread is traced (`NeverInterferes`).
* A return is recognised by its address (`DurationNested`), and a breakpoint must
  be replaced by the instruction it covers before the tracee goes on
  (`EachCallOnce`).
* Ctrl-C and the deadline race with every stop (`OneLateNode`, `Terminates`).
* The fallback of `watch` is a sequence of `trace()` calls that share a flag and
  look names up again; any of them may fail (`OnlyAsked`, `ResultMeansClean`,
  `EveryNameObserved`, `CommandEnds`, `StopEndsCommand`, `AllMatchesObserved`).
* Entry and exit of a call are two events of two programs: threads, nesting,
  dropped events, unwound calls and probes that are attached one after the other,
  several pairs of them to one function, must not mix up calls (`NeverOverstated`,
  `ParamsOwn`, `LeafExact`, `AtMostMaxEvents`, `NoResidualTimestamp`,
  `FullySupported`).
* The target runs on while its events wait in the ring buffer
  (`StringsReadAlive`), and the path must end all the same, early only for a
  reason and with nothing left in the target (`WatchEnds`, `ImplementsEbpfPath`).
* An address is found in one file, shifted by a number from a second lookup and
  one from a third, each made once, perhaps by different commands: the sum must
  be the address of the function in the process (`EntriesOwn`, `ProbesOwn`).
* Frames come from a chain of words anything may stand in, since a function need
  not keep a frame pointer, and names from the nearest function below an address:
  what of them is sure, and when there may be more (`FramesOwn`).
* Arguments come from registers that are assigned by counting, twice
  (`ParamsFaithful`).

`PROJECT.json` lists the hazards one by one, each at its line, with the
properties that are about it.

## 2. The modules

    TextPatch <-- Target <-- PtraceSession <-- PtraceRefinement <-- MCPtraceSession
                                   ^                  ^
                                   |          PtraceRefinementProofs
                           PtraceSessionProofs <------'

    Observer  (implemented by PtraceSession: PtraceRefinement)
        ^
    WatchCommand <-- MCWatchCommand, WatchCommandProofs

    EbpfPath  (implemented by WatchEbpf: WatchRefinement)

    WatchEbpf <-- WatchRefinement <-- MCWatchEbpf
        ^                 ^
    WatchEbpfProofs <-- WatchRefinementProofs, WatchPairingProofs

    SymbolIndex <-- CallFrames <-- Inspection <-- MCInspection
                    ParamFormat <------'  ^
                                 InspectionProofs <-- ShownProofs

Arrows point to the module that is extended.

**TextPatch** has the text segment as a function from addresses to bytes, and the
operations on it under their names in the source: `ptrace_read8`,
`ptrace_write8`, `insert_breakpoint`, `restore_word`, `make_patched_word`. Word
size, length of the breakpoint instruction and adjustment of the program counter
are constants; `SizesAssumption` and `CodeAssumption` state what is assumed of
them (x86_64: 8, 1, 1; aarch64 and RISC-V: 8, 4, 0).

**Target** is the observed process and the kernel around it, none of which is
code of the repository; it is modelled from how `attach_engine.cpp` uses them.
The main thread calls the traced function (`Call`), returns (`Return`) or leaves
it by an exception (`Unwind`); at a site it executes either the program's
instruction (`Execute`) or a breakpoint (`Trap`). `Derail` is what happens when
it is resumed behind a breakpoint that was never replayed. `Killed` ends the
process at any point, a ptrace stop included. Other threads are the
action `OtherThreadTraps`: they share the text, nobody traces them, and a
breakpoint kills the process. Signals are sent, taken and reported as stops;
SIGSTOP leads to a group stop under a tracer and to a job stop without one.
`stk` gives every call an identity, so that properties can tell calls apart
whose addresses are equal.

**PtraceSession** is `trace()` and `stack()` running against `Target`, command
after command of one uatu process. The two functions repeat the same code up to
their handlers; the variable `cmd` tells which of them runs. `pc` is the place:

| Action | Code (`trace()`; `stack()` has the same at its own lines) |
|---|---|
| `Attach`, `AttachFails` | look-ups, slide, PTRACE_ATTACH (499-515) |
| `AttachStopSeen`, `AttachTimeout` | first wait (523-526) |
| `Install`, `InstallThrows` | `reserve`, `insert_breakpoint`, the guard (528-558) |
| `LoopExit`, `LoopCont` | loop condition, flag, deadline, PTRACE_CONT (571-579) |
| `WaitStopped`, `WaitExited`, `WaitTimeout` | `wait_with_timeout` and `WIFSTOPPED` (583-588) |
| `ForwardSignal` | signals other than SIGTRAP (590-598) |
| `TraceEntryHit`, `TraceReturnHit`, `UnexpectedTrap` | the three branches (605-646) |
| `StackEntryHit`, `StackReturnHit` | the handlers of `stack()` (787-849) |
| `HandlerThrows` | `get_regs` on a tracee that has died (601), and the guard |
| `Cleanup`, `CleanupNothing`, `CleanupThrows` | behind the loop (649-657, 853-859) |
| `UatuGone` | exit at the prompt, or death of uatu |
| `request_stop`, `Expire` | SIGINT handler, the clock |

A handler is one action: the tracee is in a ptrace stop during it, and the only
thing that can come between two of its requests is the death of the target,
after which all later ones fail; this is what dying just before or just after
the handler does. `count` may be negative, because `std::stoi` at the prompt
accepts it; `reserve` throws then. `mapped` is the outcome of the address computation.

A `Node` of `results` does not hold times but the calls whose entry and return
gave them. `entered`, `fresh` and `abandoned` are history variables: no guard
reads them. `abandoned` says that a command ended without having seen the tracee
stop again after it had resumed it, or that uatu was killed during a command.

**Observer** is what `trace()` and `stack()` promise to whoever calls them, with
nothing of breakpoints, stops and signals: how a command may begin (`Start`,
`Refuse`) and end (`Return`, `Throw`, `Vanish`), when it may come back with less
than it was asked for (`Excused`), and in which state it leaves the target. With a
negative count it never returns.
**PtraceRefinement** is the mapping: `phase` is `pc` with all places of a command
taken together, `nodes` the number of results, `held` the attachment, `clean`
that the text is the program, `alive` the state of the target. The property
`ImplementsObserver` is `ObserverSpec` under this mapping.

**WatchCommand** is the prompt and `watch_checked()`, built on `Observer` where
they call `trace()` or `stack()`. `place` is where the prompt's thread is.

| Action | Code |
|---|---|
| `TypeSingle`, `TypeRefused` | a line with trace or stack; the call attaches, or fails before (`main.cpp:95-102`) |
| `TypeWatch` | the flag, the targets, the choice of the path (`attach_engine.cpp:232-275`) |
| `Leave` | end of input, quit, `std::stoi` outside of the try block (`main.cpp:59`, `67`, `83`) |
| `SingleReturns`, `SingleThrows` | results or the error of trace and stack |
| `EbpfReturns`, `EbpfThrows`, `EbpfFails` | the eBPF path; `reserve` of a negative count; the catch block (294-368) |
| `FallbackStarts`, `FallbackRefused`, `TraceReturns`, `TraceThrows`, `FallbackReturns` | the loop of `ptrace_watch` (259-272) |
| `PressCtrlC` | the SIGINT handler |

An argument is a name and the set of names it matches as a regular expression.
`Symbols` is a sequence and not a set because names repeat and the first counts:
`strip_params` takes the parameter lists away and overloads share a name. The
index holds no function without an address (`symbol_finder.cpp:138`), so the
removal of such targets has nothing to remove. `told` and `cut` are history
variables.

**WatchEbpf** is the eBPF path of `watch_checked()`. `uprobe_entry` and
`uprobe_exit` happen inside the target's actions `Enter` and `Return`, as they
do in the kernel; `AttachEntry`/`AttachExit` are the halves of
`UprobeLoader::attach`, `OnEntry`/`OnExit` the callback, one record at a time,
interleaved with the threads that produce. Targets have addresses (`Address`), and
several may share one, as the DIEs of an inline function of several compilation
units do. Each gets a pair of probes of its own, so that the kernel runs each
program once for each of them: the first run is part of `Enter` or `Return`, the
thread stays at the probe for the others (`hit`, `RunAgain`), and other threads go
on in between. What a program reports is the address (`Funcs`), by which the
callback finds the target. `links` are the links that exist, `pushed` those the
loader keeps: `detach_all` destroys the latter. The number of a call stands for its
arguments and for the time it began, so a duration is the call it was measured
from. `mishaps` is a history variable that keeps what went wrong for a thread; `leaf`
and `again` in a record say of which kind the call and the report are.

**EbpfPath** is what the eBPF path promises to the rest of `watch_checked` and to
the target: an event more (`Collect`), its two ends (`Return`, which needs a
reason, and `Fail`, which needs that nothing is lost), Ctrl-C and the deadline,
and that there are probes in between and none behind. **WatchRefinement** maps
`WatchEbpf` to it: `collected` is the number of events, `probed` that there is a
link. `EbpfReturns` and `EbpfFails` of `WatchCommand` are these two ends.

**SymbolIndex** has `SymbolFinder` as operators. A program is a sequence of DIEs
in document order, each with its parent; `Reached` are those the recursive
`collect_subprograms` comes to, `all` the index as a function from places in the
document, so that its order is that of `cache_`; `find` and `lookup_by_addr`
answer with the first of several, as `try_emplace` does. A name is a sequence of
tokens, because `strip_params` looks for one of them.

**CallFrames** has the frames of a `StackEvent`: the return address, then the chain
of frame pointers (`Chain`, at most `MaxFrames` long), each named by `sym_for`.
`Saved` are the words the walk would read if it never ended, each where the one
before points to, and `WalkEnds` is what ends it at iteration `i`: the conditions
of the loop and its two breaks; the frames are those before the first such `i`.
**ParamFormat** has `format_params` and the walk of the callback, which reads
strings, over the types as `resolve_type_name` spells them; a register has
`RegSize` values (2^64) and a signed integer type those `Sizes` gives it.
`CharTypes` is the set of type names that have the letters "char" in them, which is
all that `format_param_val` looks at; `wchar_t` is one of them.

**Inspection** puts the three together as a state machine: files that are
replaced or removed (`Replace`), a target that execs (`Exec`), and an engine
that keeps `exe_path`, `finder`, `min_vaddr` and `maps_base` for as long as it
lives.

| Action | Code (`attach_engine.cpp`) |
|---|---|
| `AttachEngine` | the constructor, `resolve_exe` (30-38, 221-225) |
| `Ask` | `get_finder`, `find`, `find_regex`, nothing found (203-207, 234-256, 677-682) |
| `elf_min_vaddr`, `get_load_base` | the halves of `get_aslr_slide`, each behind its cache (212-218, 402-447) |
| `Sample` | one hit of `stack()`: `sym_for`, `peek_word`, the walk (707-725, 795-818) |
| `Event` | one call seen by `watch_checked`: both walks over its parameters, attribution by address (282-284, 314-361) |
| `TimeOut` | a command that sees no call |

A target's stack is a sequence of activations. The code of each makes a frame and
points `rbp` to it (`Own`), leaves it as it came (`Untouched`), or has it hold
anything else (`Words`), as optimised code does; `RegisterAbove` is what an
activation finds in it and saves if it makes a frame, and the outermost one finds
any of `Words` (`bottom`). `Elsewhere` is what can be read outside of the frames,
such as a heap that looks like frames. `Memory` lays this out as the calling
convention does, and `Args` does the same for arguments. These are not code of the
repository and are written from the convention, independently of how the engine
counts. `spoilt` is a history variable: the engine's view of the target went stale, by
an exec or by a file that changed before the first command had read it. `shown` keeps
a call with what was shown of it. `Within` tells which names of files stand within
another's, because `get_load_base` takes a line of `/proc/<pid>/maps` that contains
`exe_path`.

## 3. What is checked

Passing runs. Deadlock is not checked, because all of these systems may stop:
the target exits and uatu leaves the prompt.

| Run | Instance | Shows |
|---|---|---|
| `session` | one command of two samples, 3 calls nested up to 2, exceptions, return sites at 0 and 4 around an entry at 2 with words of 3 bytes, so that both overlap the entry's word, other threads in the same text | `TypeOK`; one breakpoint at most in the text (`OnePatch`); durations end at the call's own return or at one nested in it unless it was unwound (`DurationNested`); no call twice (`EachCallOnce`); at most one node after Ctrl-C (`OneLateNode`) |
| `restart` | two commands, counts -1, 0, 1, uatu killed anywhere, a signal from outside (with a handler, or SIGTRAP) | `CleanReturn`, `NoPatchLeftBehind`; harm only after a command was given up with the tracee resumed (`HarmOnlyIfAbandoned`); signals are lost only at the edges of a command (`LossOnlyAtEdges`); every command ends (`Terminates`, under fairness); seen from outside, each command is one of `Observer` (`ImplementsObserver`) |
| `watch` | two threads, three targets, the first and the last at one address, 2 calls that may be nested, ring of 2 records, map of 1 entry, 2 events wanted | no duration is overstated (`NeverOverstated`); parameters are those of the call or there are none, unless records were dropped or calls unwound (`ParamsOwn`); a leaf call is reported with its own duration and parameters, and if it is reported again with neither (`LeafExact`); no more events than wanted (`AtMostMaxEvents`); no stale timestamps (`NoResidualTimestamp`); the path ends (`WatchEnds`, under fairness) and implements `EbpfPath`, which leaves no probe (`ImplementsEbpfPath`) |
| `inspect` | three programs (position independent, at a fixed address with its headers in the second segment, a later version linked elsewhere) with overloads, a method with more arguments than registers, functions in nested scopes, without a name, without a size; two paths of which one ends in the other, 2 changes; stacks of up to 2 activations of the program and of a library, each with a frame, with `rbp` as it came or with something else in it, 0 or a pointer to what looks like two frames on the heap; a library mapped below the slide, and return addresses in code without a DIE; arguments positive, negative and null, with and without junk above, a `wchar_t*` and nine of type `double` among them | breakpoints are put where the function is (`EntriesOwn`); the frames begin with the real callers as far as frame pointers lead, in their order, each with the name of the function its call is in or with its address, and go on only where the chain ends in a word that can be followed (`FramesOwn`); every declared parameter shows its own argument, an integer or pointer passed on the stack is "?" and a floating-point one has its own register as long as there are any (`ParamsFaithful`) |
| `watch_command` | two lines, functions f, f, g, arguments that name f, match all or none, counts -1, 0, 1 | only functions that were asked for are observed (`OnlyAsked`); a result of a ptrace command means a clean, released target (`ResultMeansClean`); a fallback that ran to its end with all the calls it asked for has an event of every name that was matched (`EveryNameObserved`); the prompt comes back (`CommandEnds`, under fairness) |

Runs in which TLC finds a violation: the code does not do what a comment or a
document says. Each checks one property.

| Run | Says | Does |
|---|---|---|
| `timeout` | "RAII guard: on any exit path, restore the entry breakpoint byte and detach." (`attach_engine.cpp:537`) | a command that times out while the tracee runs disables the guard, throws from `restore_word` and leaves the breakpoint |
| `interfere` | "Attach. Observe. Never interfere." (`README.md:15`); the target keeps serving throughout (`docs/faq.md:15`) | a thread other than the main one dies of the breakpoint |
| `watch_stop` | "Press `Ctrl-C` to stop the command and return to the `uatu>` prompt." (`README.md:121`) | in the fallback it ends the trace of one match; the next clears the flag |
| `watch_overload` | a pattern observes all it matches at the same time (`docs/commands/watch.md:25`) | the fallback traces the first of several overloads in place of each |
| `watch_nested` | at `-g -O0` arguments, return value and cost are all reported (`docs/commands/watch.md:71`) | a nested call takes the timestamp and the cached arguments of the outer one |
| `strings` | strings are read "now, while the stack frame is still alive" (`attach_engine.cpp:323`) | they are read when the record is consumed; the call may have returned |
| `probe_offset` | a function at `0x401234` is probed at file offset `0x1234` (`docs/architecture.md:224`, `227`) | `loader.attach(fi.address)` passes the link address (`attach_engine.cpp:300`); right only where both are equal, as in the text of a position independent program linked without gaps |

Seen while reading and not the subject of a run:

* A recursive call that returns to the same address ends the node of the outer
  call in `trace()`, though `docs/commands/trace.md:66` says recursion is
  supported; the attach SIGSTOP, if it is not the first stop, is forwarded and
  leaves the target stopped after the detach, though `docs/quick-start.md:134`
  says that it goes on without side effects. Both are behaviours of
  `PtraceSession`, and the reason why `DurationNested` and `LossOnlyAtEdges` are
  stated as weakly as they are.
* `FuncInfo::return_type` is never set, so that `ret` is an unsigned decimal
  number for pointers, booleans and negative integers, too
  (`attach_engine.cpp:351`, `docs/commands/watch.md:41`). Unsigned types narrower
  than a register, and `bool`, are shown with whatever stands above them in the
  register, and a `void*`, whose type is spelled "?", in decimal.
  `ParamsFaithful` says nothing of these types (`Told`).
* A pointer whose type has "char" anywhere in its name is shown as `"<0x...>"`, in the
  form of a string (`attach_engine.cpp:80`): `char**`, `wchar_t*`, `char16_t*`, a
  pointer to a class `Discharge`. `docs/commands/watch.md:61` has an address in hex
  for these. `Reading`, by which `ParamsFaithful` is stated, follows the code
  (`CharTypes`), and leaves pointers to such pointers out.
* A `long double` is passed on the stack, but `is_fp_param` counts it among the
  arguments in registers: it is shown as `<xmm0>`, and the `float` and `double`
  arguments behind it with a number that is one too high. There are eight registers
  for floating-point arguments, as the comment at `attach_engine.cpp:141` has it, but
  they are counted without end: a ninth `double`, which is on the stack, is shown as
  `<xmm8>`, where an integer on the stack is "?". `ShowsArgument` leaves these out.
* A regular expression that matches an inline function of several compilation units
  finds a target for each of its DIEs, all at one address (`symbol_finder.cpp:91`).
  `watch` attaches a pair of probes for each (`attach_engine.cpp:299-300`), and every
  call is reported as often, from the second report on with a duration of 0 and
  without parameters, though `docs/commands/watch.md:34` speaks of one record for each
  hit. `LeafExact` tells these reports apart and does not claim that there are none.
* `DW_AT_artificial` is looked up in the concrete DIE only: a constructor that
  gcc describes by an abstract and two concrete instances has a `this` that is
  not recognised and is shown as a parameter. Functions with more than one
  implicit parameter shift the others by one register. The programs of the
  `inspect` run have at most one.
* Functions with `DW_AT_ranges` only are not in the index, and those of an
  anonymous namespace get an empty name from `strip_params`, which drops them.
* "Valid for the lifetime of the engine" (`attach_engine.cpp:196`) does not hold
  behind an exec of the target: this is `spoilt`. "The lowest PT_LOAD"
  (`attach_engine.cpp:397`) is the first one at file offset 0.
* A return address behind a call that ends its function, as a call that does not
  return does, gets the name of the next function, also at `-O0`
  (`docs/commands/stack.md:69` calls the result exact): `CallIsLast`.
* Without frame pointers, as at `-O2`, the walk follows whatever `rbp` holds, as long
  as it is a multiple of 8 and there is something to read behind it: callers may be
  missing, and frames that never were may be shown behind the direct caller, as
  `docs/commands/stack.md:70` says. `FramesOwn` says what is sure all the same, and
  that frames of no caller come from such a word only (`Astray`).
* `docs/commands/watch.md` calls the timestamp of an event its entry, the code
  stores that of the exit, and `count` the limit of all hits, in the fallback it
  is one for each target; `docs/architecture.md` lets Ctrl-C at the prompt end
  uatu, the handler only sets the flag; `docs/commands/stack.md` accepts regular
  expressions, `stack()` looks up the exact name only; "Deliver non-SIGTRAP
  signals transparently" (`attach_engine.cpp:592`) is not true of a signal whose
  stop is taken for that of the attach, which `LossOnlyAtEdges` excepts as
  `fresh`.

### Bounds

`MaxCalls`, `MaxDepth`, `MaxSignals`, `MaxSessions`, `MaxLines`, `TextSize`,
`RingSize` and `MapSize` are the bounds. Words of 3 bytes with sites 2 bytes
apart already give every kind of overlap of two words (before, behind, none).
Two nested calls are what it takes to confuse an inner with an outer one, and in
`session` a third follows them. In `watch` the two calls may be of one thread, nested
or one behind the other, with the outer one not yet probed, or of two threads; a call
of the function with two targets makes up to four records. That more calls bring
nothing new is what the theorems say, which bound neither calls nor nesting.
Two commands suffice for what one leaves to the next: all that survives a
command is the state of the target. A ring of two records can be empty, partly
filled and full while both threads produce; a map of one entry is full as soon
as one thread is inside of a call, and the `watch_nested` run has room for all,
so that its violation is due to nesting alone. Signals: one with a handler
stands for all that are neither SIGSTOP nor SIGTRAP. Three functions, two of one
name, give a pattern with a unique and a repeated match; two lines let a command
meet what another left. The counts of `restart` and `watch_command` have a negative
one for the error path of `reserve`; `watch_stop` and `watch_overload` have a count of
1 only.

In `Inspection`, `MaxChanges` (2) is what it takes to remove a file and put
another in its place, or to replace one and execute it; one slide that is not 0
is enough to tell shifted from unshifted addresses. `MaxFrames` is scaled from
14 to 2 with stacks of up to 2 activations (`MaxDepth`): a chain that goes on into
the heap is cut by this bound, and the theorem `FramesCorrect` has any bound and any
depth. `Words` are 0, what `rbp` holds where a thread begins, and an address in
`Elsewhere`, where two words are linked like frames. Registers have 64 values, with
integers of 4, 8, 16 and 64, so that each width has a sign, and all but the last have
room above; pointers are any register value. Eight arguments exceed the six registers,
and nine of type `double` their eight.

### Fairness

`FairSpec` assumes weak fairness of `CommandStep`, the steps uatu takes by
itself, and of `Expire`, the clock: the scheduler runs a process that is ready,
the polling loop of `waitpid_timeout` sleeps 10 ms at a time and looks at a
deadline of the steady clock. Nothing is assumed of the target, of signals or of
the user. All waits have deadlines, so this is enough for `Terminates`; the
steps of a handler are made of requests that return at once. In `WatchCommand`
fairness is that of `Ending`, the steps that bring a command to its end: for
`trace()` and `stack()` this is what `Terminates` says, for the eBPF path
`WatchEnds`. `FairSpec` of `WatchEbpf` assumes weak fairness of `WatchStep`, what
uatu does by itself, and of `Expire`: each poll lasts 100 ms at most or until the
ring buffer is empty, which is why `WatchEnds` speaks of a target that goes quiet
(it makes `MaxCalls` calls). `Terminates` holds also where uatu is killed, in the
`restart` run.

## 4. What is proved

The theorems hold for all values of the constants that satisfy the named
assumptions. Those about the ptrace engine are in `PtraceSessionProofs` and
`PtraceRefinementProofs`, for any text, any entry and any set of return sites
that are instructions of their own (`SitesAssumption`), any word size and
breakpoint length, any bounds, counts and signals, with or without threads,
exceptions and crashes.

* `TypeCorrect`: `Spec => []TypeOK`. The inductive invariant is `TypeInv`:
  `TypeOK` is not inductive, since the return address is read from the stack and
  the return breakpoint is used later. `StackHolds` says that the stack holds a
  frame while the function's first instruction is next, `RetKnown` that a
  command that waits for a return knows its address. Both need the assumption
  that no site is reached by the adjustment of another one's trap.
* `OnePatchTheorem`, `CleanReturnTheorem`, `NoPatchLeftBehindTheorem`: from
  `PatchInv`, which says what the command believes of the text: where the one
  breakpoint is in each state of `pc`, `waiting_for_exit` and `entry_armed`,
  and that the saved words are those of the program wherever they will be
  restored. It is needed because none of the three mentions the saved words
  on which the next step depends. The argument about bytes comes first in the
  module: restoring the word that `insert_breakpoint` returned undoes
  it (`RestoreUndoesInsert`), and restoring a word that is in place changes
  nothing (`RestoreInPlace`, the second restore of `trace()`'s cleanup). What
  keeps overlapping words apart is the order: the old breakpoint is always taken
  out before the next word is read (`MoveBreakpoint`).
* What follows rests on `StillInv`: wherever a command handles a stop, or goes on
  without having resumed the tracee (`need_cont`), the tracee stands still, and
  only a command that has given up (`abandoned`) reaches its cleanup otherwise.
  * `OneLateNodeTheorem`, from `LateInv`: once there is a late node the flag is set
    and the loop can only be left.
  * `LossOnlyAtEdgesTheorem`, from `LossInv`: where a stop may be left without its
    signal, it is the first of the command, or a breakpoint's, or a SIGTRAP.
  * `EachCallOnceTheorem`, from `OnceInv`: at the entry the tracee is always in the
    newest call, and where the entry is armed no node is about that call yet.
  * `DurationNestedTheorem`, from `DurInv`: the entered call is active, or was left
    by an exception, or has just returned and the tracee stands at or behind the
    breakpoint at its return address, where only the handler moves it
    (`StoppedPast`). That the address traps is what `PatchInv` adds.
  * `HarmOnlyIfAbandonedTheorem`, for targets with one thread, from `HarmInv`: a
    tracee behind a breakpoint is held there (`Held`), and only the armed
    breakpoint can trap (`TrapIsArmed`), since no other site's bytes are those of
    a breakpoint (`PatchedTrapsThere`). With other threads the property is false:
    run `interfere`.
* `Implementation`: `Spec => ImplementsObserver`. Besides `TypeInv` and `PatchInv`
  it rests on `LoopInv`: results do not outnumber the count until the loop is
  left, and a loop that was left early was left with a reason that still holds
  (`Excused`), which is why `Return` of `Observer` is justified at the cleanup and
  not only at the loop condition. Each action of `Next` is mapped to a step of
  `Observer` or to a stutter, one step of the proof for each.

An error of an earlier command shows in the shape of `PatchInv`: after a failed
cleanup the text is not the program's, and then the target is still attached or
dead, so that no later command can attach and save a breakpoint byte as if it
were code. When uatu exits this ends, which is why `NoPatchLeftBehind` speaks of
a living uatu.

About the eBPF path, in `WatchEbpfProofs`, for any number of threads, functions
and calls and any capacity of map and ring buffer: `NeverOverstatedTheorem`,
`NoResidualTimestampTheorem`, `AtMostMaxEventsTheorem`; targets may be any number, at
any addresses. The invariant is `WatchInv`. Its heart is `TimesRecent`: what the exit
program would find in the map for an active call is that call's time, a later one's,
or nothing. This needs `ProbesPaired`: a call whose return is probed has had its entry
probed, because `UprobeLoader::attach` attaches in that order; in the opposite order a
call would be measured from the call around it.

`ParamsOwnTheorem` and `LeafExactTheorem`, in `WatchPairingProofs`, say that entries
and exits are paired. `PairingInv` adds to `WatchInv` what holds as long as the
callback collects (`Live`). `RingPaired`: if the entry of a call `d` of a function
stands in the ring, or in the cache, before the exit of another call `c` of the same
function and thread, then in between stands what displaces it, the entry of `c` or
the exit of `d` (`Gone`). `StackPaired` says the same of the exits still to come, of
the frames of active calls, where the exit of `d` may also be still to come itself,
from a frame inside of that of `c`: this is where the nesting of calls enters the
argument. `FramesHooked` and `HookedAlike` are needed for it: the return of a call is
hooked only if all later calls of the function are seen, so that none of them
displaces nothing. `RingLeaves` and `StackLeaves` say that the map holds the time of a
leaf and that the last record of its thread is its entry. Where targets share an
address a call has several exit records, and all this is about the first of them;
`RingRepeats` and `HitLeft` say of the others, in the ring or still to be written by
their thread, that they follow an exit of the same call (`JustLeft`), which has taken
the timestamp and what the cache held of the function. Each action moves records
(`Grows` at the end, `Consumes` at the front) and frames, and the lemmas follow them.

`Implementation` of `WatchRefinementProofs`: `Spec => ImplementsEbpfPath`. It adds
`ReaderInv` to `WatchInv`: nothing is collected before the reader exists, and the
reader exists only once all probes are attached, so that whatever throws
(attaching, or the creation of the reader) throws with nothing to lose. That no
probe stays behind rests on `AllPushed`: the loader knows every link that exists.

About the symbol index and the caches, in `InspectionProofs`, for all programs,
slides, commands and changes: `LookupExact` and `LookupSound` (where functions do
not overlap an address finds the function it is in, and whatever is found begins
at the address or spans it), and `EntriesCorrect`. Its invariant is `SlideInv`: a
file that was gone when the engine was made is never opened (`NeverOpened`), and
as long as nothing is `spoilt`, the engine's path is the target's (`PathOwn`),
what is cached is of the running program, and as long as something has to be
read from the file, the file is still that program (`PartsOwn`). It is needed
because `EntriesOwn` speaks of the place behind both lookups only, and the halves
come from different commands and times.

About the prompt and the fallback, in `WatchCommandProofs`, for any program,
pattern and number of lines: `OnlyAskedTheorem` and `ResultMeansCleanTheorem`.
The invariant is `CommandInv`, in which `FallbackInv` says that the fallback goes
on to the next target only behind calls of `trace()` that left nothing behind.
`WatchCommand` is built on `Observer`, and so all that it assumes of `trace()` and
`stack()` is the theorem `Implementation`.

`EveryNameObservedTheorem` adds `ObservedInv`: every target the fallback has left
behind was observed under its name, as long as no `trace()` was cut short, and the
`count` of a `trace()` is that of the command. It is needed because `todo` shrinks
by a place in the index while `evs` grows by what the second look-up finds there.
`AllObservedWithoutOverloads` is its corollary: if no two functions have one name,
the sentence of `docs/commands/watch.md` that run `watch_overload` refutes is true.
`StopEndsWithOneTarget` does the same for run `watch_stop`: with one target the
sentence of `README.md` about Ctrl-C is true, because a user who has said so did it
during a `trace()` of the fallback, behind which nothing is left to trace (`StopInv`).

About what is shown, in `ShownProofs`, for all programs, stacks, types and
arguments, with `SlideInv` from above:

* `FramesCorrect`: `Spec => []FramesOwn`. A sample shows what it should when the
  index and the slide are the running program's (`UsedIsRunning`); the rest is about
  three definitions that recurse over data. `SavedIs` says that the words of the
  chain exist, `AboveIsNext` and `SavedKeepers` that the k-th of them is the frame of
  the k-th activation that makes one, as long as no other use of `rbp` comes before,
  and then the word that stands there instead (`End`). Hence `WalkEnds` is false
  before that place, and `ChainIs` says that the chain begins with the frames of
  `Callers` and is no longer than they are unless that word can be followed
  (`Astray`); what comes behind may be anything, and only its length is bounded.
  `ReachedIs` says what the traversal of the DIEs comes to, so that
  `ConcreteAreIndexed`, and `LookupInside` with `NameOfCaller` that an address finds
  the function around it, or none where there is none: for functions without a size or
  a name, overloads at one address and libraries. `LoadedOwn`, an invariant of its
  own, is what keeps the addresses of libraries from becoming the program's.
* `ParamsCorrect`: `Spec => []ParamsFaithful`. Three counts have to agree: that of the
  calling convention over all parameters, the implicit one included (`IntegerRank`),
  that of `format_params` over the declared ones, and that of the callback which
  looks for strings. `ShiftCount` compares a count with one that begins a place
  later, `RegistersAre` concludes that a parameter is looked for where it was passed,
  and `ArgsHold` that the argument is there. `CastIsArgument` is the arithmetic: the
  cast to a signed type undoes what stands above a narrow integer, for every even
  size that divides that of the register. `EventShows` puts them together with the
  attribution of an event to the last target of an address (`AttributedOwn`). Which
  type names contain "char" is left open (`CharTypes`), and floating-point arguments
  are claimed for the eight registers there are.
* `ProbesWhereLinked`: in a program of which every function has the same number as
  link address and as offset in its file (`OffsetsAreAddresses`), the uprobes are put
  where the functions begin. This is the other half of run `probe_offset`: it says
  when the sentence of `docs/architecture.md` holds.

Induction is used without the library's theorems about it, which take an operator:
`AllNaturals` says of a set of numbers, which may be any set defined at the place,
that it has all numbers if it has 0 and the next one of each.

Assumptions. `WatchAssumption`: targets have addresses other than 0.
`PathsAssumption`: the name of a file stands within itself, also with the mark of a
removed one behind it. `StackAssumption`: words and addresses are unsigned.
`LayoutAssumption`: of two functions, one ends before the other begins,
or they have all their code in common; parents stand before their children, and
functions in scopes which the traversal enters (`FunctionScopes`, that of DWARF for
C++, written without regard to `Scopes`); libraries are mapped above the slide, or at
least above the program's link addresses. `ArgumentsAssumption`: nothing is
mapped at address 0. `RegisterAssumption`: an integer fills a register or an even
part of it, and "char" is among the names that have "char" in them. `FramesAssumption`
bounds the walk by a natural number. TLC evaluates them all for the instance of
`inspect`.

Only model-checked: `Terminates`, `CommandEnds` and `WatchEnds`, which are liveness
under fairness and out of the prover's reach. Every invariant of a passing run is a
theorem, and so are its action properties and refinements.

## 5. Not modelled

* `ebpf/vmlinux.h`: 150510 generated lines of declarations of the kernel's types,
  nearly all of the repository by number of lines. `ebpf/trace.bpf.c`: neither
  built nor loaded. The JSON codec has no callers but its unit test. Examples,
  tests and fixtures were read as descriptions. `src/cli/formatter.cpp` and the
  list of processes are layout.
* The digits and escapes of the texts that are shown; times and return values,
  which are represented by the calls they belong to.
* The kernel, libbpf and libdw, except for what the source relies on.
* The branch of `stack()` in which the word at the stack pointer cannot be read:
  at a function's entry it is the return address the call instruction has just
  stored.
* A guard that fails on a dead target leaves nothing behind and is not told
  apart from one that is not there.
* On aarch64 and RISC-V the return address is in a register at the entry, not
  on the stack from which `trace()` and `stack()` read it; the model is of x86_64
  in this respect, and in the assignment of parameters to registers. An
  unwinding exception that goes through a hooked return address is an ordinary
  `Unwind`.
* `ring_buffer__poll` runs until the buffer is empty. The bounded number of
  calls makes it end; whether a fast producer can keep it from ending is not
  asked.
* Lines of `/proc/<pid>/maps` of other files than the program: a library that is
  mapped below it and has the program's path in its own name would be taken for it.
* Structures that are passed by value or returned through memory, functions
  with several implicit parameters or with `DW_AT_ranges` only (see above).
* `PtraceSession` and `Inspection` are not composed: the first leaves open
  whether the computed address is mapped, the second says when it is right.

## 6. Plan

1. Liveness stays with TLC. What can be proved about it is the safety it rests on,
   such as that the loop of `trace()` is never without an enabled step of uatu.
2. `JsonCodec`, should the program come to use it: what a round trip keeps.
