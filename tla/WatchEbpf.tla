------------------------------- MODULE WatchEbpf -------------------------------
(***************************************************************************)
(* The eBPF path of AttachEngine::watch_checked(): the two BPF programs of *)
(* watch.bpf.c with their map and ring buffer, UprobeLoader, and the poll  *)
(* loop whose callback pairs entry and exit events into WatchEvents.       *)
(*                                                                         *)
(* The threads of the target run concurrently with uatu.  A call is known  *)
(* by its number, which also stands for its arguments and for the time it  *)
(* began: a timestamp, a cached argument list and an event name the call   *)
(* they were taken from, so mixing up two calls is visible.                *)
(*                                                                         *)
(* A regular expression may match several entries of DWARF at one address: *)
(* every one of them is a target of its own and gets its own two probes,   *)
(* so a function, which is an address here, may run each program several   *)
(* times per call.                                                         *)
(***************************************************************************)
EXTENDS Integers, Sequences, SequencesExt

CONSTANTS
    Threads,        \* threads of the target
    NTargets,       \* number of resolved targets
    Address,        \* target -> address of its function
    MaxEvents,      \* the max_events argument
    RingSize,       \* bound: records the ring buffer holds
    MapSize,        \* bound: entries of the entry_times map (4096)
    MaxCalls,       \* bound: calls the target makes
    MaxDepth        \* bound: nesting of calls in a thread

ASSUME WatchAssumption ==
    /\ NTargets \in Nat \ {0} /\ MaxEvents \in Nat
    /\ Address \in [1 .. NTargets -> Nat \ {0}]
    /\ RingSize \in Nat /\ MapSize \in Nat
    /\ MaxCalls \in Nat /\ MaxDepth \in Nat

Targets == 1 .. NTargets
None == 0

\* The functions are the addresses, which is what bpf_get_func_ip tells and what
\* addr_to_idx is keyed by; of several targets at one address it keeps the last.
Funcs == {Address[i] : i \in Targets}

VARIABLES
    phase,          \* place in watch_checked
    next,           \* the target whose probes are attached next
    links,          \* bpf_links that exist: <<target, program>>
    pushed,         \* those of them that the loader knows: impl_->links
    rb,             \* the ring_buffer reader exists
    stop_flag, expired,
    entry_cache,    \* thread -> call and function of its last entry event
    events,         \* the WatchEvents collected
    \* Kernel side
    entry_times,    \* BPF map: thread -> call whose entry time it holds
    ring,           \* records submitted and not yet consumed
    \* Target
    stk,            \* thread -> active calls, innermost first
    calls,          \* calls made; the number of the next one is calls + 1
    hit,            \* thread -> programs still to run for the probe it is stopped at
    mishaps         \* history: what went wrong for a thread

userVars == <<phase, next, links, pushed, rb, stop_flag, expired, entry_cache,
              events>>
bpfVars == <<entry_times, ring>>
targetVars == <<stk, calls, hit, mishaps>>
vars == <<userVars, bpfVars, targetVars>>

Call == Nat
Frame == [call : Call, func : Funcs, seen : BOOLEAN, hooked : BOOLEAN,
          leaf : BOOLEAN]
RawEvent == [is_exit : BOOLEAN, tid : Threads, func : Funcs, call : Call,
             from : Call, leaf : BOOLEAN, again : BOOLEAN]
WatchEvent == [tid : Threads, func : Funcs, call : Call, from : Call,
               params : Call, leaf : BOOLEAN, again : BOOLEAN]
Programs == {"entry", "exit"}
Hit == [prog : Programs, left : SUBSET Targets, func : Funcs \cup {None},
        call : Call, leaf : BOOLEAN]

TypeOK ==
    /\ phase \in {"entry", "exit", "loop", "poll", "returned", "fallback"}
    /\ next \in 1 .. NTargets + 1
    /\ links \subseteq Targets \X Programs /\ pushed \subseteq Targets \X Programs
    /\ rb \in BOOLEAN
    /\ stop_flag \in BOOLEAN
    /\ expired \in BOOLEAN
    /\ entry_cache \in [Threads -> [call : Call, func : Funcs \cup {None}]]
    /\ events \in Seq(WatchEvent)
    /\ entry_times \in [Threads -> Call]
    /\ ring \in Seq(RawEvent) /\ Len(ring) <= RingSize
    /\ stk \in [Threads -> Seq(Frame)]
    /\ calls \in Nat
    /\ hit \in [Threads -> Hit]
    /\ mishaps \in [Threads -> SUBSET {"dropped", "unwound", "unstored", "unhooked"}]

Nothing == [call |-> None, func |-> None]
Idle == [prog |-> "entry", left |-> {}, func |-> None, call |-> None, leaf |-> FALSE]

Init ==
    /\ phase = "entry" /\ next = 1
    /\ links = {} /\ pushed = {} /\ rb = FALSE
    /\ stop_flag = FALSE /\ expired = FALSE
    /\ entry_cache = [t \in Threads |-> Nothing]
    /\ events = <<>>
    /\ entry_times = [t \in Threads |-> None]
    /\ ring = <<>>
    /\ stk = [t \in Threads |-> <<>>]
    /\ calls = 0
    /\ hit = [t \in Threads |-> Idle]
    /\ mishaps = [t \in Threads |-> {}]

--------------------------------------------------------------------------------
(* watch.bpf.c, run by the kernel in the thread that hits the probe *)

Mishap(t, m) == mishaps' = [mishaps EXCEPT ![t] = @ \cup m]

\* Fault: the result of bpf_ringbuf_reserve is not looked at.
AlwaysRoom == TRUE

\* bpf_ringbuf_reserve succeeds.
RingHasRoom == Len(ring) < RingSize

\* Fault: the map is keyed by the upper half of the id, which is the process.
ProcessKey(t) == CHOOSE x \in Threads : TRUE

\* The key of entry_times: the lower half of bpf_get_current_pid_tgid().
Key(t) == t

Stored == {t \in Threads : entry_times[t] # None}

\* bpf_map_update_elem fails only for a new key in a full map.
MapHasRoom(t) == Key(t) \in Stored \/ Cardinality(Stored) < MapSize

\* Fault: BPF_NOEXIST instead of BPF_ANY.
TimesAfterEntryKept(t, c) ==
    IF MapHasRoom(t) /\ Key(t) \notin Stored
    THEN [entry_times EXCEPT ![Key(t)] = c] ELSE entry_times

\* bpf_map_update_elem with BPF_ANY overwrites the time of an outer call.
TimesAfterEntry(t, c) ==
    IF MapHasRoom(t) THEN [entry_times EXCEPT ![Key(t)] = c] ELSE entry_times

Submit(ev) == ring' = IF RingHasRoom THEN Append(ring, ev) ELSE ring

uprobe_entry(t, f, c) ==
    /\ entry_times' = TimesAfterEntry(t, c)
    /\ Submit([is_exit |-> FALSE, tid |-> t, func |-> f, call |-> c,
               from |-> None, leaf |-> FALSE, again |-> FALSE])
    /\ Mishap(t, (IF MapHasRoom(t) THEN {} ELSE {"unstored"})
                  \cup (IF RingHasRoom THEN {} ELSE {"dropped"}))

\* Fault: the timestamp is not deleted when the ring buffer is full.
TimesAfterExitKept(t) ==
    IF RingHasRoom THEN [entry_times EXCEPT ![Key(t)] = None] ELSE entry_times

\* bpf_map_delete_elem, on both ways out of uprobe_exit.
TimesAfterExit(t) == [entry_times EXCEPT ![Key(t)] = None]

\* duration_ns is measured from the call named by from; 0 when it is None.  The
\* program runs again if the function has another exit probe.
uprobe_exit(t, frame, again) ==
    /\ Submit([is_exit |-> TRUE, tid |-> t, func |-> frame.func,
               call |-> frame.call, from |-> entry_times[Key(t)],
               leaf |-> frame.leaf, again |-> again])
    /\ entry_times' = TimesAfterExit(t)
    /\ Mishap(t, IF RingHasRoom THEN {} ELSE {"dropped"})

--------------------------------------------------------------------------------
(* The target.  A uretprobe hooks the return address when the function is  *)
(* entered, so a call begun before the exit probe existed has no exit      *)
(* event.  A thread that hits a probe goes on when the programs of all     *)
(* links at that address have run, one after another.                      *)

\* The targets at address f whose probe runs the program.
Linked(f, prog) == {i \in Targets : Address[i] = f /\ <<i, prog>> \in links}

Probed(f, prog) == Linked(f, prog) # {}

\* The programs at one address are alike: which of them has run does not matter.
Rest(left) == left \ {CHOOSE i \in left : TRUE}

\* The thread is stopped at a probe until nothing is left to run.
AfterProgram(prog, left, frame) ==
    IF Rest(left) = {} THEN Idle
    ELSE [prog |-> prog, left |-> Rest(left), func |-> frame.func,
          call |-> frame.call, leaf |-> frame.leaf]

Running(t) == hit[t].left = {}

Enter(t, f) ==
    LET c == calls + 1
        seen == Probed(f, "entry")
        frame == [call |-> c, func |-> f, seen |-> seen,
                  hooked |-> Probed(f, "exit"), leaf |-> TRUE]
        callers == [i \in 1 .. Len(stk[t]) |->
                       [stk[t][i] EXCEPT !.leaf = @ /\ ~seen]]
    IN  /\ Running(t) /\ calls < MaxCalls /\ Len(stk[t]) < MaxDepth
        /\ calls' = c
        /\ stk' = [stk EXCEPT ![t] = <<frame>> \o callers]
        /\ IF seen
           THEN /\ uprobe_entry(t, f, c)
                /\ hit' = [hit EXCEPT ![t] =
                              AfterProgram("entry", Linked(f, "entry"), frame)]
           ELSE UNCHANGED <<entry_times, ring, mishaps, hit>>
        /\ UNCHANGED userVars

Return(t) ==
    LET frame == Head(stk[t])
    IN  /\ Running(t) /\ stk[t] # <<>>
        /\ stk' = [stk EXCEPT ![t] = Tail(@)]
        /\ IF frame.hooked /\ Probed(frame.func, "exit")
           THEN /\ uprobe_exit(t, frame, FALSE)
                /\ hit' = [hit EXCEPT ![t] =
                              AfterProgram("exit", Linked(frame.func, "exit"), frame)]
           ELSE /\ Mishap(t, IF frame.seen THEN {"unhooked"} ELSE {})
                /\ UNCHANGED <<entry_times, ring, hit>>
        /\ UNCHANGED <<calls, userVars>>

\* The program of another link at the address of the probe that was hit.
RunAgain(t) ==
    /\ ~Running(t)
    /\ hit' = [hit EXCEPT ![t] = AfterProgram(@.prog, @.left, @)]
    /\ IF hit[t].prog = "entry" THEN uprobe_entry(t, hit[t].func, hit[t].call)
                               ELSE uprobe_exit(t, hit[t], TRUE)
    /\ UNCHANGED <<stk, calls, userVars>>

\* The call is left by longjmp or by an exception: no exit event.
Unwind(t) ==
    /\ Running(t) /\ stk[t] # <<>>
    /\ stk' = [stk EXCEPT ![t] = Tail(@)]
    /\ Mishap(t, {"unwound"})
    /\ UNCHANGED <<calls, hit, bpfVars, userVars>>

--------------------------------------------------------------------------------
(* UprobeLoader and watch_checked *)

\* Fault: a link is pushed only once both probes of its target exist.
PushedInPairs(prog) ==
    IF prog = "entry" THEN pushed
    ELSE pushed \cup {<<next, "entry">>, <<next, "exit">>}

\* Each link is pushed as soon as it exists.
PushedAfter(prog) == pushed \cup {<<next, prog>>}

\* The first half of UprobeLoader::attach for the next target, whether or not another
\* target has the same address.
AttachEntry ==
    /\ phase = "entry" /\ next \in Targets
    /\ links' = links \cup {<<next, "entry">>}
    /\ pushed' = PushedAfter("entry")
    /\ phase' = "exit"
    /\ UNCHANGED <<next, rb, stop_flag, expired, entry_cache, events, bpfVars,
                   targetVars>>

AttachExit ==
    /\ phase = "exit"
    /\ links' = links \cup {<<next, "exit">>}
    /\ pushed' = PushedAfter("exit")
    /\ next' = next + 1
    /\ phase' = "entry"
    /\ UNCHANGED <<rb, stop_flag, expired, entry_cache, events, bpfVars,
                   targetVars>>

\* All targets are probed; the deadline starts to run.
Attached ==
    /\ phase = "entry" /\ next = NTargets + 1
    /\ phase' = "loop"
    /\ UNCHANGED <<next, links, pushed, rb, stop_flag, expired, entry_cache, events,
                   bpfVars, targetVars>>

\* detach_all destroys the links that were pushed, and no other.
detach_all == links' = links \ pushed /\ pushed' = {}

\* Fault: an error of ring_buffer__poll is thrown, whatever was collected.
AnyPollFails == phase = "poll"

\* The ring buffer reader cannot be created; the result of ring_buffer__poll is
\* not looked at.
PollFails == phase = "poll" /\ ~rb

\* The object does not load, a probe does not attach or the ring buffer reader
\* is not created: the loader is destroyed and ptrace_watch() takes over.
Throw ==
    /\ \/ phase = "entry" /\ next \in Targets
       \/ phase = "exit"
       \/ PollFails
    /\ detach_all
    /\ phase' = "fallback"
    /\ UNCHANGED <<next, rb, stop_flag, expired, entry_cache, events, bpfVars,
                   targetVars>>

\* Fault: the loop goes on when a poll has timed out.
LoopEndsWithoutClock == Len(events) >= MaxEvents \/ stop_flag

LoopEnds == Len(events) >= MaxEvents \/ stop_flag \/ expired

LoopExit ==
    /\ phase = "loop" /\ LoopEnds
    /\ detach_all
    /\ phase' = "returned"
    /\ UNCHANGED <<next, rb, stop_flag, expired, entry_cache, events, bpfVars,
                   targetVars>>

Poll ==
    /\ phase = "loop" /\ ~LoopEnds
    /\ phase' = "poll"
    /\ UNCHANGED <<next, links, pushed, rb, stop_flag, expired, entry_cache, events,
                   bpfVars, targetVars>>

OpenReader ==
    /\ phase = "poll" /\ ~rb
    /\ rb' = TRUE
    /\ UNCHANGED <<phase, next, links, pushed, stop_flag, expired, entry_cache, events,
                   bpfVars, targetVars>>

\* ring_buffer__poll comes back when its 100 ms are over or when it has
\* consumed everything; either way the ring was seen empty.
PollReturns ==
    /\ phase = "poll" /\ rb /\ ring = <<>>
    /\ phase' = "loop"
    /\ UNCHANGED <<next, links, pushed, rb, stop_flag, expired, entry_cache, events,
                   bpfVars, targetVars>>

\* The callback on an entry event.
OnEntry ==
    /\ phase = "poll" /\ rb /\ ring # <<>> /\ ~Head(ring).is_exit
    /\ LET raw == Head(ring)
       IN  entry_cache' = [entry_cache EXCEPT ![raw.tid] =
                             [call |-> raw.call, func |-> raw.func]]
    /\ ring' = Tail(ring)
    /\ UNCHANGED <<phase, next, links, pushed, rb, stop_flag, expired, events,
                   entry_times, targetVars>>

\* Fault: only the loop looks at the number of events.
NeverFull == FALSE

\* The callback ignores exit events once it has enough.
EnoughEvents == Len(events) >= MaxEvents

\* Fault: arguments are taken from the cache whatever function they are of.
CachedForThread(raw) == entry_cache[raw.tid].call # None

\* The cache holds an entry event of the thread for the same function.
Cached(raw) == entry_cache[raw.tid].func = raw.func

\* The callback on an exit event.
OnExit ==
    /\ phase = "poll" /\ rb /\ ring # <<>> /\ Head(ring).is_exit
    /\ ring' = Tail(ring)
    /\ LET raw == Head(ring)
           cached == entry_cache[raw.tid]
       IN  IF EnoughEvents
           THEN UNCHANGED <<entry_cache, events>>
           ELSE /\ events' = Append(events,
                     [tid |-> raw.tid, func |-> raw.func, call |-> raw.call,
                      from |-> raw.from, leaf |-> raw.leaf,
                      again |-> raw.again,
                      params |-> IF Cached(raw) THEN cached.call ELSE None])
                /\ entry_cache' = IF Cached(raw)
                                  THEN [entry_cache EXCEPT ![raw.tid] = Nothing]
                                  ELSE entry_cache
    /\ UNCHANGED <<phase, next, links, pushed, rb, stop_flag, expired, entry_times,
                   targetVars>>

request_stop ==
    /\ ~stop_flag /\ phase \notin {"returned", "fallback"}
    /\ stop_flag' = TRUE
    /\ UNCHANGED <<phase, next, links, pushed, rb, expired, entry_cache, events,
                   bpfVars, targetVars>>

Expire ==
    /\ ~expired /\ phase \in {"loop", "poll"}
    /\ expired' = TRUE
    /\ UNCHANGED <<phase, next, links, pushed, rb, stop_flag, entry_cache, events,
                   bpfVars, targetVars>>

--------------------------------------------------------------------------------

WatchStep ==
    \/ AttachEntry \/ AttachExit \/ Attached \/ Throw
    \/ LoopExit \/ Poll \/ OpenReader \/ PollReturns \/ OnEntry \/ OnExit

Next ==
    \/ \E t \in Threads :
          Return(t) \/ Unwind(t) \/ RunAgain(t) \/ \E f \in Funcs : Enter(t, f)
    \/ WatchStep
    \/ request_stop
    \/ Expire

Spec == Init /\ [][Next]_vars

\* The scheduler runs uatu and the clock advances; nothing is assumed of the
\* target or of the user.
FairSpec == Spec /\ WF_vars(WatchStep) /\ WF_vars(Expire)

--------------------------------------------------------------------------------
(* Properties *)

Collected == {events[i] : i \in 1 .. Len(events)}

\* A reported duration is never longer than the call took: it is measured from
\* the call itself or from one that began later in the same thread, whatever
\* was dropped, unwound or not stored.
NeverOverstated ==
    \A e \in Collected : e.from # None => e.from >= e.call

\* The parameters of an event are those of the call that returned, or there are
\* none, unless an event of its thread was dropped or a call of it was unwound.
ParamsOwn ==
    \A e \in Collected :
        e.params \in {None, e.call} \/ mishaps[e.tid] \cap {"dropped", "unwound"} # {}

\* A call in which no other probed one began, not even behind functions that are
\* not probed yet, is reported with its own duration and its own parameters, unless
\* something went wrong for its thread.  If its function has several targets the call
\* is reported several times, and the reports behind the first one have a duration of
\* 0 and no parameters: none passes for a call of its own.
LeafExact ==
    \A e \in Collected :
        e.leaf /\ mishaps[e.tid] = {}
            => IF e.again THEN e.from = None /\ e.params = None
                          ELSE e.from = e.call /\ e.params = e.call

\* One poll may deliver many events; no more than MaxEvents are collected.
AtMostMaxEvents == Len(events) <= MaxEvents

\* The timestamp map holds nothing for a thread outside of all probed calls: a
\* full ring buffer leaves no residue, only a call whose return is not seen.
NoResidualTimestamp ==
    \A t \in Stored :
        \/ \E i \in 1 .. Len(stk[t]) : stk[t][i].seen
        \/ mishaps[t] \cap {"unwound", "unhooked"} # {}

\* The eBPF path comes to an end when the target goes quiet (it makes no more than
\* MaxCalls calls), with the ring buffer full or empty and whoever has its events.
WatchEnds == <>(phase \in {"returned", "fallback"})

(* What comments and documents of the repository say and the code does not *)
(* do; each is the property of a run that TLC finds violated.              *)

\* At -O0 parameters, return value and cost of every reported call are there
\* (docs/commands/watch.md), if nothing went wrong for its thread.
FullySupported ==
    \A e \in Collected :
        mishaps[e.tid] = {} => e.from = e.call /\ e.params = e.call

\* The callback reads the strings that arguments point at "now, while the stack
\* frame is still alive" (attach_engine.cpp, above the walk over the parameter
\* types): when it caches the arguments of a call, the call is active.
StringsReadAlive ==
    [][\A t \in Threads :
          LET c == entry_cache'[t].call
          IN  c \notin {None, entry_cache[t].call}
                 => \E i \in 1 .. Len(stk[t]) : stk[t][i].call = c]_vars

================================================================================
