---------------------------- MODULE WatchEbpfProofs ----------------------------
(***************************************************************************)
(* Proofs about WatchEbpf, for any number of threads, functions, calls and *)
(* events and any capacity of the ring buffer and of the map.              *)
(***************************************************************************)
EXTENDS WatchEbpf, TLAPS

--------------------------------------------------------------------------------
(* The inductive invariant *)

\* A target whose exit probe is next is one of the targets: TypeOK alone is not
\* inductive.
PlaceOK == phase = "exit" => next \in Targets

\* Exit probes are attached after entry probes and released with them.
ProbesPaired ==
    /\ phase = "exit" => <<next, "entry">> \in links
    /\ \A i \in Targets : <<i, "exit">> \in links => <<i, "entry">> \in links

\* The loader knows every link that exists.
AllPushed == links \subseteq pushed

\* A thread stopped at the entry of a function has its frame in front and no younger
\* call; one stopped at a return has lost its timestamp.
HitKnown ==
    \A t \in Threads : hit[t].left # {} =>
        /\ hit[t].func \in Funcs
        /\ hit[t].prog = "exit" => entry_times[t] = None
        /\ hit[t].prog = "entry" =>
              /\ Len(stk[t]) >= 1 /\ stk[t][1].seen
              /\ hit[t].call = stk[t][1].call /\ hit[t].func = stk[t][1].func

\* The calls of a thread, the youngest in front.
YoungestFirst ==
    \A t \in Threads : \A i \in 1 .. Len(stk[t]) : \A j \in 1 .. Len(stk[t]) :
        i <= j => stk[t][i].call >= stk[t][j].call

\* Calls that are active have been made.
CallsKnown == \A t \in Threads : \A i \in 1 .. Len(stk[t]) : stk[t][i].call <= calls

\* The time that the exit program would find for an active call is its own, a
\* later one's, or none.
TimesRecent ==
    \A t \in Threads : \A i \in 1 .. Len(stk[t]) :
        stk[t][i].hooked => entry_times[t] = None \/ entry_times[t] >= stk[t][i].call

\* A duration measured from the call itself, from a later one, or from none.
Sound(r) == r.from # None => r.from >= r.call

RingSound == \A i \in 1 .. Len(ring) : Sound(ring[i])
EventsSound == \A i \in 1 .. Len(events) : Sound(events[i])

WatchInv ==
    /\ TypeOK
    /\ PlaceOK
    /\ ProbesPaired
    /\ AllPushed
    /\ HitKnown
    /\ YoungestFirst
    /\ AtMostMaxEvents
    /\ CallsKnown
    /\ TimesRecent
    /\ RingSound
    /\ EventsSound
    /\ NoResidualTimestamp

--------------------------------------------------------------------------------
(* Stacks and queues *)

\* Taking the first element of a sequence moves the others by one.
LEMMA TailMoves ==
    ASSUME NEW S, NEW s \in Seq(S), s # <<>>
    PROVE  /\ Len(s) >= 1
           /\ Head(s) = s[1] /\ Head(s) \in S
           /\ Tail(s) \in Seq(S) /\ Len(Tail(s)) = Len(s) - 1
           /\ \A i \in 1 .. Len(Tail(s)) :
                i + 1 \in 1 .. Len(s) /\ Tail(s)[i] = s[i + 1]
OBVIOUS

\* An element that is put in front moves the others by one.
LEMMA ConsMoves ==
    ASSUME NEW S, NEW s \in Seq(S), NEW e \in S
    PROVE  /\ <<e>> \o s \in Seq(S) /\ Len(<<e>> \o s) = Len(s) + 1
           /\ (<<e>> \o s)[1] = e
           /\ \A i \in 2 .. Len(s) + 1 : (<<e>> \o s)[i] = s[i - 1]
           /\ \A i \in 1 .. Len(s) : (<<e>> \o s)[i + 1] = s[i]
OBVIOUS

\* What holds of the old elements and of the new one holds of all.
LEMMA AppendAll ==
    ASSUME NEW S, NEW s \in Seq(S), NEW e \in S
    PROVE  /\ Append(s, e) \in Seq(S) /\ Len(Append(s, e)) = Len(s) + 1
           /\ \A i \in 1 .. Len(s) + 1 :
                Append(s, e)[i] = IF i = Len(s) + 1 THEN e ELSE s[i]
OBVIOUS

--------------------------------------------------------------------------------
(* What a step of the target does to the stacks *)

\* Frames of one call: everything but leaf.
SameCall(f, g) == f.call = g.call /\ f.seen = g.seen /\ f.hooked = g.hooked

\* Entering a function puts a frame on the stack and leaves the calls below.
LEMMA EnterStack ==
    ASSUME TypeOK, NEW t \in Threads, NEW f \in Funcs, Enter(t, f)
    PROVE  /\ stk' \in [Threads -> Seq(Frame)]
           /\ Len(stk'[t]) = Len(stk[t]) + 1
           /\ stk'[t][1].call = calls + 1 /\ stk'[t][1].func = f
           /\ stk'[t][1].seen = (Probed(f, "entry"))
           /\ stk'[t][1].hooked = (Probed(f, "exit"))
           /\ \A i \in 2 .. Len(stk'[t]) : SameCall(stk'[t][i], stk[t][i - 1])
           /\ \A i \in 1 .. Len(stk[t]) : SameCall(stk'[t][i + 1], stk[t][i])
           /\ \A u \in Threads \ {t} : stk'[u] = stk[u]
<1> DEFINE seen == Probed(f, "entry")
           frame == [call |-> calls + 1, func |-> f, seen |-> seen,
                     hooked |-> Probed(f, "exit"), leaf |-> TRUE]
           callers == [i \in 1 .. Len(stk[t]) |->
                          [stk[t][i] EXCEPT !.leaf = @ /\ ~seen]]
<1>1. stk' = [stk EXCEPT ![t] = <<frame>> \o callers]
  BY DEF Enter
<1>2. stk \in [Threads -> Seq(Frame)] /\ stk[t] \in Seq(Frame) /\ calls \in Nat
  BY DEF TypeOK
<1>3. frame \in Frame
  <2>1. seen \in BOOLEAN /\ Probed(f, "exit") \in BOOLEAN /\ calls + 1 \in Nat
    BY <1>2 DEF Probed
  <2> HIDE DEF seen
  <2>2. QED
    BY <2>1 DEF Frame, Call
<1>4. /\ callers \in Seq(Frame) /\ Len(callers) = Len(stk[t])
      /\ \A i \in 1 .. Len(stk[t]) : SameCall(callers[i], stk[t][i])
  <2>1. ASSUME NEW i \in 1 .. Len(stk[t])
        PROVE  callers[i] \in Frame /\ SameCall(callers[i], stk[t][i])
    <3>1. stk[t][i] \in Frame
      BY <1>2
    <3>2. callers[i] = [stk[t][i] EXCEPT !.leaf = @ /\ ~seen]
      OBVIOUS
    <3>3. (stk[t][i].leaf /\ ~seen) \in BOOLEAN
      OBVIOUS
    <3> HIDE DEF seen, callers
    <3>4. QED
      BY <3>1, <3>2, <3>3 DEF Frame, SameCall
  <2>2. Len(stk[t]) \in Nat
    BY <1>2
  <2>3. callers \in [1 .. Len(stk[t]) -> Frame]
    BY <2>1
  <2>4. callers \in Seq(Frame) /\ Len(callers) = Len(stk[t])
    BY <2>2, <2>3
  <2>5. QED
    BY <2>1, <2>4
<1> HIDE DEF callers
<1>5. /\ <<frame>> \o callers \in Seq(Frame)
      /\ Len(<<frame>> \o callers) = Len(callers) + 1
      /\ (<<frame>> \o callers)[1] = frame
      /\ \A i \in 2 .. Len(callers) + 1 : (<<frame>> \o callers)[i] = callers[i - 1]
      /\ \A i \in 1 .. Len(callers) : (<<frame>> \o callers)[i + 1] = callers[i]
  BY <1>3, <1>4, ConsMoves
<1>6. stk'[t] = <<frame>> \o callers /\ \A u \in Threads \ {t} : stk'[u] = stk[u]
  BY <1>1, <1>2
<1>7. \A i \in 2 .. Len(stk'[t]) : SameCall(stk'[t][i], stk[t][i - 1])
  <2>1. ASSUME NEW i \in 2 .. Len(stk[t]) + 1
        PROVE  i - 1 \in 1 .. Len(stk[t])
    BY <1>2
  <2>2. QED
    BY <1>4, <1>5, <1>6, <2>1
<1>8. stk' \in [Threads -> Seq(Frame)]
  BY <1>1, <1>2, <1>5
<1>9. frame.call = calls + 1 /\ frame.func = f /\ frame.seen = seen /\ frame.hooked = (Probed(f, "exit"))
  OBVIOUS
<1> HIDE DEF frame
<1>10. QED
  BY <1>4, <1>5, <1>6, <1>7, <1>8, <1>9

\* Leaving a call takes its frame off the stack.
LEMMA LeaveStack ==
    ASSUME TypeOK, NEW t \in Threads, Return(t) \/ Unwind(t)
    PROVE  /\ stk' \in [Threads -> Seq(Frame)]
           /\ Len(stk[t]) >= 1 /\ Head(stk[t]) = stk[t][1] /\ Head(stk[t]) \in Frame
           /\ Len(stk'[t]) = Len(stk[t]) - 1
           /\ \A i \in 1 .. Len(stk'[t]) :
                i + 1 \in 1 .. Len(stk[t]) /\ stk'[t][i] = stk[t][i + 1]
           /\ \A u \in Threads \ {t} : stk'[u] = stk[u]
<1>1. stk[t] # <<>> /\ stk' = [stk EXCEPT ![t] = Tail(@)]
  BY DEF Return, Unwind
<1>2. stk \in [Threads -> Seq(Frame)] /\ stk[t] \in Seq(Frame)
  BY DEF TypeOK
<1>3. QED
  BY <1>1, <1>2, TailMoves

--------------------------------------------------------------------------------
(* What a step of the target does on the kernel's side *)

\* Whatever is submitted, the ring holds no more than it has room for.
LEMMA SubmitType ==
    ASSUME TypeOK, NEW ev \in RawEvent, Submit(ev)
    PROVE  /\ ring' \in Seq(RawEvent) /\ Len(ring') <= RingSize
           /\ \A i \in 1 .. Len(ring') :
                \/ i \in 1 .. Len(ring) /\ ring'[i] = ring[i]
                \/ ring'[i] = ev
<1>1. ring \in Seq(RawEvent) /\ Len(ring) \in Nat /\ Len(ring) <= RingSize
      /\ RingSize \in Nat
  BY WatchAssumption DEF TypeOK
<1>2. CASE RingHasRoom
  <2>1. ring' = Append(ring, ev)
    BY <1>2 DEF Submit
  <2>2. /\ Append(ring, ev) \in Seq(RawEvent) /\ Len(Append(ring, ev)) = Len(ring) + 1
        /\ \A i \in 1 .. Len(ring) + 1 :
             Append(ring, ev)[i] = IF i = Len(ring) + 1 THEN ev ELSE ring[i]
    BY <1>1, AppendAll
  <2>3. Len(ring) < RingSize
    BY <1>2 DEF RingHasRoom
  <2>4. QED
    BY <1>1, <2>1, <2>2, <2>3
<1>3. CASE ~RingHasRoom
  BY <1>1, <1>3 DEF Submit
<1>4. QED
  BY <1>2, <1>3

Mishaps == {"dropped", "unwound", "unstored", "unhooked"}

\* What went wrong for a thread stays on record.
LEMMA MishapType ==
    ASSUME TypeOK, NEW t \in Threads, NEW m \in SUBSET Mishaps, Mishap(t, m)
    PROVE  /\ mishaps' \in [Threads -> SUBSET Mishaps]
           /\ mishaps'[t] = mishaps[t] \cup m
           /\ \A u \in Threads : mishaps[u] \subseteq mishaps'[u]
BY DEF TypeOK, Mishap, Mishaps

\* The entry program leaves the time of its own call, or none.
LEMMA EntryTimes ==
    ASSUME TypeOK, NEW t \in Threads, NEW c \in Call,
           entry_times' = TimesAfterEntry(t, c)
    PROVE  /\ entry_times' \in [Threads -> Call]
           /\ entry_times'[t] = c \/ entry_times'[t] = None
           /\ \A u \in Threads \ {t} : entry_times'[u] = entry_times[u]
<1>1. entry_times \in [Threads -> Call]
  BY DEF TypeOK
<1>2. CASE MapHasRoom(t)
  BY <1>1, <1>2 DEF TimesAfterEntry, Key
<1>3. CASE ~MapHasRoom(t)
  <2>1. t \notin Stored
    BY <1>3 DEF MapHasRoom, Key
  <2>2. entry_times[t] = None
    BY <2>1 DEF Stored
  <2>3. QED
    BY <1>1, <1>3, <2>2 DEF TimesAfterEntry
<1>4. QED
  BY <1>2, <1>3

\* The exit program leaves no time.
LEMMA ExitTimes ==
    ASSUME TypeOK, NEW t \in Threads, entry_times' = TimesAfterExit(t)
    PROVE  /\ entry_times' \in [Threads -> Call]
           /\ entry_times'[t] = None
           /\ \A u \in Threads \ {t} : entry_times'[u] = entry_times[u]
BY DEF TypeOK, TimesAfterExit, Key, Call, None

\* What a run of the entry program does, whichever of the links at the address it
\* belongs to.
LEMMA EntryProgram ==
    ASSUME TypeOK, NEW t \in Threads, NEW f \in Funcs, NEW c \in Call,
           uprobe_entry(t, f, c)
    PROVE  /\ ring' \in Seq(RawEvent) /\ Len(ring') <= RingSize
           /\ entry_times' \in [Threads -> Call]
           /\ mishaps' \in [Threads -> SUBSET Mishaps]
           /\ \A u \in Threads : mishaps[u] \subseteq mishaps'[u]
           /\ entry_times'[t] = c \/ entry_times'[t] = None
           /\ \A u \in Threads \ {t} : entry_times'[u] = entry_times[u]
           /\ \A i \in 1 .. Len(ring') :
                \/ i \in 1 .. Len(ring) /\ ring'[i] = ring[i]
                \/ ring'[i].from = None
<1> DEFINE ev == [is_exit |-> FALSE, tid |-> t, func |-> f, call |-> c,
                  from |-> None, leaf |-> FALSE, again |-> FALSE]
           m == (IF MapHasRoom(t) THEN {} ELSE {"unstored"})
                  \cup (IF RingHasRoom THEN {} ELSE {"dropped"})
<1>1. ev \in RawEvent /\ Submit(ev) /\ ev.from = None
  BY DEF RawEvent, Call, None, uprobe_entry
<1>2. m \in SUBSET Mishaps /\ Mishap(t, m)
  BY DEF uprobe_entry, Mishaps
<1>3. entry_times' = TimesAfterEntry(t, c)
  BY DEF uprobe_entry
<1> HIDE DEF ev, m
<1>4. /\ ring' \in Seq(RawEvent) /\ Len(ring') <= RingSize
      /\ \A i \in 1 .. Len(ring') :
           (i \in 1 .. Len(ring) /\ ring'[i] = ring[i]) \/ ring'[i] = ev
  BY <1>1, SubmitType
<1>5. /\ mishaps' \in [Threads -> SUBSET Mishaps]
      /\ \A u \in Threads : mishaps[u] \subseteq mishaps'[u]
  BY <1>2, MishapType
<1>6. QED
  BY <1>1, <1>3, <1>4, <1>5, EntryTimes

\* What a run of the exit program does.
LEMMA ExitProgram ==
    ASSUME TypeOK, NEW t \in Threads, NEW frame, NEW again \in BOOLEAN,
           frame.func \in Funcs, frame.call \in Call, frame.leaf \in BOOLEAN,
           uprobe_exit(t, frame, again)
    PROVE  /\ ring' \in Seq(RawEvent) /\ Len(ring') <= RingSize
           /\ entry_times' \in [Threads -> Call]
           /\ mishaps' \in [Threads -> SUBSET Mishaps]
           /\ \A u \in Threads : mishaps[u] \subseteq mishaps'[u]
           /\ entry_times'[t] = None
           /\ \A u \in Threads \ {t} : entry_times'[u] = entry_times[u]
           /\ \A i \in 1 .. Len(ring') :
                \/ i \in 1 .. Len(ring) /\ ring'[i] = ring[i]
                \/ ring'[i].from = entry_times[t] /\ ring'[i].call = frame.call
<1> DEFINE ev == [is_exit |-> TRUE, tid |-> t, func |-> frame.func,
                  call |-> frame.call, from |-> entry_times[t],
                  leaf |-> frame.leaf, again |-> again]
           m == IF RingHasRoom THEN {} ELSE {"dropped"}
<1>1. ev \in RawEvent /\ Submit(ev)
  BY DEF TypeOK, uprobe_exit, Key, RawEvent
<1>2. ev.from = entry_times[t] /\ ev.call = frame.call
  OBVIOUS
<1>3. m \in SUBSET Mishaps /\ Mishap(t, m)
  BY DEF uprobe_exit, Mishaps
<1>4. entry_times' = TimesAfterExit(t)
  BY DEF uprobe_exit
<1> HIDE DEF ev, m
<1>5. /\ ring' \in Seq(RawEvent) /\ Len(ring') <= RingSize
      /\ \A i \in 1 .. Len(ring') :
           (i \in 1 .. Len(ring) /\ ring'[i] = ring[i]) \/ ring'[i] = ev
  BY <1>1, SubmitType
<1>6. /\ mishaps' \in [Threads -> SUBSET Mishaps]
      /\ \A u \in Threads : mishaps[u] \subseteq mishaps'[u]
  BY <1>3, MishapType
<1>7. \A i \in 1 .. Len(ring') :
        \/ i \in 1 .. Len(ring) /\ ring'[i] = ring[i]
        \/ ring'[i].from = entry_times[t] /\ ring'[i].call = frame.call
  BY <1>2, <1>5
<1>8. QED
  BY <1>4, <1>5, <1>6, <1>7, ExitTimes

\* What is left to run is a set of targets, of the function that was hit.
LEMMA AfterType ==
    ASSUME NEW prog \in Programs, NEW left \in SUBSET Targets, NEW frame,
           frame.func \in Funcs, frame.call \in Call, frame.leaf \in BOOLEAN
    PROVE  /\ AfterProgram(prog, left, frame) \in Hit
           /\ AfterProgram(prog, left, frame).left # {}
                => /\ AfterProgram(prog, left, frame).prog = prog
                   /\ AfterProgram(prog, left, frame).func = frame.func
                   /\ AfterProgram(prog, left, frame).call = frame.call
                   /\ AfterProgram(prog, left, frame).leaf = frame.leaf
<1>1. Rest(left) \in SUBSET Targets
  BY DEF Rest
<1>2. Idle \in Hit /\ Idle.left = {}
  BY DEF Idle, Hit, Programs, Call, None
<1>3. CASE Rest(left) = {}
  BY <1>2, <1>3 DEF AfterProgram
<1>4. CASE Rest(left) # {}
  BY <1>1, <1>4 DEF AfterProgram, Hit
<1>5. QED
  BY <1>3, <1>4

\* An exit probe is attached to a target after its entry probe.
LEMMA ProbedPaired ==
    ASSUME ProbesPaired, NEW f, Probed(f, "exit")
    PROVE  Probed(f, "entry")
BY DEF ProbesPaired, Probed, Linked

--------------------------------------------------------------------------------
(* Type correctness *)

LEMMA TypeInit == Init => TypeOK
<1> SUFFICES ASSUME Init PROVE TypeOK
  OBVIOUS
<1>1. next \in 1 .. NTargets + 1
  BY WatchAssumption DEF Init
<1>h. hit \in [Threads -> Hit]
  BY DEF Init, Idle, Hit, Programs, Call, None
<1>2. entry_cache \in [Threads -> [call : Call, func : Funcs \cup {None}]]
  BY DEF Init, Nothing, None, Call
<1>3. events \in Seq(WatchEvent) /\ ring \in Seq(RawEvent)
  BY DEF Init
<1>4. Len(ring) <= RingSize
  BY WatchAssumption DEF Init
<1>5. stk \in [Threads -> Seq(Frame)]
  BY DEF Init
<1>6. entry_times \in [Threads -> Call]
  BY DEF Init, None, Call
<1>7. mishaps \in [Threads -> SUBSET Mishaps]
  BY DEF Init
<1>8. QED
  BY <1>1, <1>h, <1>2, <1>3, <1>4, <1>5, <1>6, <1>7 DEF Init, TypeOK, Mishaps

\* What a step of the target leaves on the kernel's side.
KernelType ==
    /\ entry_times \in [Threads -> Call]
    /\ ring \in Seq(RawEvent) /\ Len(ring) <= RingSize
    /\ calls \in Nat
    /\ hit \in [Threads -> Hit]
    /\ mishaps \in [Threads -> SUBSET Mishaps]

LEMMA EnterType ==
    ASSUME TypeOK, NEW t \in Threads, NEW f \in Funcs, Enter(t, f)
    PROVE  KernelType'
<1>1. calls \in Nat /\ calls' = calls + 1 /\ hit \in [Threads -> Hit]
  BY DEF TypeOK, Enter
<1>2. CASE Probed(f, "entry")
  <2>1. uprobe_entry(t, f, calls + 1) /\ calls + 1 \in Call
    BY <1>1, <1>2 DEF Enter, Call
  <2>2. PICK frame : /\ frame.func = f /\ frame.call = calls + 1 /\ frame.leaf = TRUE
                     /\ hit' = [hit EXCEPT ![t] =
                                  AfterProgram("entry", Linked(f, "entry"), frame)]
    BY <1>2 DEF Enter
  <2>3. hit' \in [Threads -> Hit]
    <3>1. "entry" \in Programs /\ Linked(f, "entry") \in SUBSET Targets
      BY DEF Programs, Linked
    <3>2. AfterProgram("entry", Linked(f, "entry"), frame) \in Hit
      BY <2>1, <2>2, <3>1, AfterType
    <3>3. QED
      BY <1>1, <2>2, <3>2
  <2>4. QED
    BY <1>1, <2>1, <2>3, EntryProgram DEF KernelType
<1>3. CASE ~Probed(f, "entry")
  <2>1. UNCHANGED <<entry_times, ring, mishaps, hit>>
    BY <1>3 DEF Enter
  <2>2. QED
    BY <1>1, <2>1 DEF TypeOK, KernelType, Mishaps
<1>4. QED
  BY <1>2, <1>3

\* The exit program runs, or the return is not seen.
LEMMA ReturnEffect ==
    ASSUME TypeOK, NEW t \in Threads, Return(t)
    PROVE  \/ /\ uprobe_exit(t, Head(stk[t]), FALSE) /\ Head(stk[t]).hooked
              /\ hit' = [hit EXCEPT ![t] = AfterProgram("exit",
                           Linked(Head(stk[t]).func, "exit"), Head(stk[t]))]
           \/ /\ Mishap(t, IF Head(stk[t]).seen THEN {"unhooked"} ELSE {})
              /\ UNCHANGED <<entry_times, ring, hit>>
BY DEF Return

LEMMA LeaveType ==
    ASSUME TypeOK, NEW t \in Threads, Return(t) \/ Unwind(t)
    PROVE  KernelType'
<1>0. hit \in [Threads -> Hit]
  BY DEF TypeOK
<1>1. CASE Return(t)
  <2>1. calls' = calls /\ Head(stk[t]) \in Frame
    BY <1>1, LeaveStack DEF Return
  <2>2. CASE /\ uprobe_exit(t, Head(stk[t]), FALSE)
             /\ hit' = [hit EXCEPT ![t] = AfterProgram("exit",
                          Linked(Head(stk[t]).func, "exit"), Head(stk[t]))]
    <3>1. PICK h : h = Head(stk[t])
      OBVIOUS
    <3>2. h.func \in Funcs /\ h.call \in Call /\ h.leaf \in BOOLEAN
      BY <2>1, <3>1 DEF Frame
    <3>3. uprobe_exit(t, h, FALSE)
      BY <2>2, <3>1
    <3>4. "exit" \in Programs /\ Linked(h.func, "exit") \in SUBSET Targets
      BY DEF Programs, Linked
    <3>5. AfterProgram("exit", Linked(h.func, "exit"), h) \in Hit
      BY <3>2, <3>4, AfterType
    <3>6. hit' \in [Threads -> Hit]
      BY <1>0, <2>2, <3>1, <3>5
    <3>7. calls' \in Nat
      BY <2>1 DEF TypeOK
    <3>8. QED
      BY <3>2, <3>3, <3>6, <3>7, ExitProgram DEF KernelType
  <2>3. CASE /\ Mishap(t, IF Head(stk[t]).seen THEN {"unhooked"} ELSE {})
             /\ UNCHANGED <<entry_times, ring, hit>>
    <3> DEFINE m == IF Head(stk[t]).seen THEN {"unhooked"} ELSE {}
    <3>1. m \in SUBSET Mishaps /\ Mishap(t, m)
      BY <2>3 DEF Mishaps
    <3> HIDE DEF m
    <3>2. mishaps' \in [Threads -> SUBSET Mishaps]
      BY <3>1, MishapType
    <3>3. QED
      BY <2>1, <2>3, <3>2 DEF KernelType, TypeOK
  <2>4. QED
    BY <1>1, <2>2, <2>3, ReturnEffect
<1>2. CASE Unwind(t)
  <2>1. {"unwound"} \in SUBSET Mishaps /\ Mishap(t, {"unwound"})
    BY <1>2 DEF Unwind, Mishaps
  <2>2. mishaps' \in [Threads -> SUBSET Mishaps]
    BY <2>1, MishapType
  <2>3. QED
    BY <1>2, <2>2 DEF Unwind, bpfVars, KernelType, TypeOK
<1>3. QED
  BY <1>1, <1>2

\* A program that runs again is the entry program for the frame in front, or the exit
\* program for a call that has been left.
LEMMA AgainEffect ==
    ASSUME TypeOK, HitKnown, NEW t \in Threads, RunAgain(t)
    PROVE  /\ UNCHANGED <<stk, calls, userVars>>
           /\ hit[t].left # {} /\ hit[t].func \in Funcs /\ hit[t].call \in Call
           /\ hit[t].leaf \in BOOLEAN
           /\ hit' \in [Threads -> Hit]
           /\ \A u \in Threads \ {t} : hit'[u] = hit[u]
           /\ hit'[t].left # {} => /\ hit'[t].prog = hit[t].prog
                                   /\ hit'[t].func = hit[t].func
                                   /\ hit'[t].call = hit[t].call
           /\ \/ hit[t].prog = "entry" /\ uprobe_entry(t, hit[t].func, hit[t].call)
              \/ hit[t].prog = "exit" /\ uprobe_exit(t, hit[t], TRUE)
<1>1. hit \in [Threads -> Hit] /\ hit[t] \in Hit
  BY DEF TypeOK
<1>2. hit[t].left # {} /\ hit[t].func \in Funcs
  BY DEF RunAgain, Running, HitKnown
<1>3. /\ hit[t].call \in Call /\ hit[t].leaf \in BOOLEAN
      /\ hit[t].prog \in Programs /\ hit[t].left \in SUBSET Targets
  BY <1>1 DEF Hit
<1>4. hit' = [hit EXCEPT ![t] = AfterProgram(hit[t].prog, hit[t].left, hit[t])]
  BY <1>1 DEF RunAgain
<1>5. PICK x : x = AfterProgram(hit[t].prog, hit[t].left, hit[t])
  OBVIOUS
<1>6. /\ x \in Hit
      /\ x.left # {} => x.prog = hit[t].prog /\ x.func = hit[t].func /\ x.call = hit[t].call
  BY <1>2, <1>3, <1>5, AfterType
<1>7. hit'[t] = x /\ hit' \in [Threads -> Hit]
      /\ \A u \in Threads \ {t} : hit'[u] = hit[u]
  BY <1>1, <1>4, <1>5, <1>6
<1>8. UNCHANGED <<stk, calls, userVars>>
  BY DEF RunAgain
<1>9. \/ hit[t].prog = "entry" /\ uprobe_entry(t, hit[t].func, hit[t].call)
      \/ hit[t].prog = "exit" /\ uprobe_exit(t, hit[t], TRUE)
  BY <1>3 DEF RunAgain, Programs
<1>10. QED
  BY <1>2, <1>3, <1>6, <1>7, <1>8, <1>9

LEMMA AgainType ==
    ASSUME TypeOK, HitKnown, NEW t \in Threads, RunAgain(t)
    PROVE  KernelType'
<1>1. /\ UNCHANGED <<stk, calls>> /\ hit' \in [Threads -> Hit]
      /\ hit[t].func \in Funcs /\ hit[t].call \in Call /\ hit[t].leaf \in BOOLEAN
      /\ \/ uprobe_entry(t, hit[t].func, hit[t].call)
         \/ uprobe_exit(t, hit[t], TRUE)
  BY AgainEffect
<1>2. calls' \in Nat
  BY <1>1 DEF TypeOK
<1>3. QED
  BY <1>1, <1>2, EntryProgram, ExitProgram DEF KernelType

\* The callback's record of an entry, and the event it makes of an exit.
LEMMA OnEntryType ==
    ASSUME TypeOK, OnEntry
    PROVE  /\ entry_cache' \in [Threads -> [call : Call, func : Funcs \cup {None}]]
           /\ ring' \in Seq(RawEvent) /\ Len(ring') = Len(ring) - 1
<1>1. ring \in Seq(RawEvent) /\ ring # <<>> /\ ring' = Tail(ring)
  BY DEF TypeOK, OnEntry
<1>2. Head(ring) \in RawEvent /\ ring' \in Seq(RawEvent) /\ Len(ring') = Len(ring) - 1
  BY <1>1, TailMoves
<1>3. entry_cache' = [entry_cache EXCEPT ![Head(ring).tid] =
                        [call |-> Head(ring).call, func |-> Head(ring).func]]
  BY DEF OnEntry
<1>4. QED
  BY <1>2, <1>3 DEF TypeOK, RawEvent

\* The event that the callback makes of an exit record.
EventOf(raw) ==
    [tid |-> raw.tid, func |-> raw.func, call |-> raw.call, from |-> raw.from,
     leaf |-> raw.leaf, again |-> raw.again,
     params |-> IF Cached(raw) THEN entry_cache[raw.tid].call ELSE None]

LEMMA OnExitType ==
    ASSUME TypeOK, OnExit
    PROVE  /\ entry_cache' \in [Threads -> [call : Call, func : Funcs \cup {None}]]
           /\ ring' \in Seq(RawEvent) /\ Len(ring') = Len(ring) - 1
           /\ EventOf(Head(ring)) \in WatchEvent
           /\ \/ events' = events
              \/ ~EnoughEvents /\ events' = Append(events, EventOf(Head(ring)))
<1>1. ring \in Seq(RawEvent) /\ ring # <<>> /\ ring' = Tail(ring)
  BY DEF TypeOK, OnExit
<1>2. Head(ring) \in RawEvent /\ ring' \in Seq(RawEvent) /\ Len(ring') = Len(ring) - 1
  BY <1>1, TailMoves
<1>3. \/ events' = events
      \/ ~EnoughEvents /\ events' = Append(events, EventOf(Head(ring)))
  <2>1. CASE EnoughEvents
    <3>1. events' = events
      BY <2>1, Zenon DEF OnExit
    <3>2. QED
      BY <3>1
  <2>2. CASE ~EnoughEvents
    <3>1. events' = Append(events, EventOf(Head(ring)))
      BY <2>2, Zenon DEF OnExit, EventOf
    <3>2. QED
      BY <2>2, <3>1
  <2>3. QED
    BY <2>1, <2>2
<1>4. \/ entry_cache' = entry_cache
      \/ entry_cache' = [entry_cache EXCEPT ![Head(ring).tid] = Nothing]
  BY DEF OnExit
<1>5. entry_cache \in [Threads -> [call : Call, func : Funcs \cup {None}]]
  BY DEF TypeOK
<1>6. Nothing \in [call : Call, func : Funcs \cup {None}]
  BY DEF Nothing, Call, None
<1>7. entry_cache' \in [Threads -> [call : Call, func : Funcs \cup {None}]]
  BY <1>4, <1>5, <1>6
<1>8. EventOf(Head(ring)) \in WatchEvent
  <2>1. Head(ring).tid \in Threads /\ entry_cache[Head(ring).tid].call \in Call
    BY <1>2, <1>5 DEF RawEvent
  <2>2. QED
    BY <1>2, <2>1 DEF EventOf, WatchEvent, RawEvent, Call, None
<1>9. QED
  BY <1>2, <1>3, <1>7, <1>8

LEMMA TypeStep ==
    ASSUME TypeOK, PlaceOK, HitKnown, [Next]_vars
    PROVE  TypeOK' /\ PlaceOK'
<1>a. ASSUME NEW t \in Threads,
             Return(t) \/ Unwind(t) \/ RunAgain(t) \/ \E f \in Funcs : Enter(t, f)
      PROVE  PlaceOK'
  BY <1>a DEF Return, Unwind, RunAgain, Enter, userVars, PlaceOK
<1>b. ASSUME WatchStep \/ request_stop \/ Expire \/ UNCHANGED vars
      PROVE  PlaceOK'
  BY <1>b DEF WatchStep, AttachEntry, AttachExit, Attached, Throw, LoopExit, Poll,
              OpenReader, PollReturns, OnEntry, OnExit, request_stop, Expire, vars,
              userVars, PlaceOK
<1>1. ASSUME UNCHANGED vars PROVE TypeOK'
  BY <1>1 DEF vars, userVars, bpfVars, targetVars, TypeOK
<1>2. ASSUME NEW t \in Threads, Return(t) \/ Unwind(t) \/ RunAgain(t)
      PROVE  TypeOK'
  <2>1. stk' \in [Threads -> Seq(Frame)]
    <3>1. CASE RunAgain(t)
      BY <3>1 DEF RunAgain, TypeOK
    <3>2. QED
      BY <1>2, <3>1, LeaveStack
  <2>2. KernelType' /\ UNCHANGED userVars
    BY <1>2, LeaveType, AgainType DEF Return, Unwind, RunAgain
  <2>3. QED
    BY <2>1, <2>2 DEF TypeOK, KernelType, userVars, Mishaps
<1>3. ASSUME NEW t \in Threads, NEW f \in Funcs, Enter(t, f)
      PROVE  TypeOK'
  <2>1. KernelType' /\ stk' \in [Threads -> Seq(Frame)]
    BY <1>3, EnterType, EnterStack
  <2>2. UNCHANGED userVars
    BY <1>3 DEF Enter
  <2>3. QED
    BY <2>1, <2>2 DEF TypeOK, KernelType, userVars, Mishaps
<1>4. ASSUME AttachEntry PROVE TypeOK'
  BY <1>4 DEF AttachEntry, PushedAfter, Programs, bpfVars, targetVars, TypeOK
<1>5. ASSUME AttachExit PROVE TypeOK'
  <2>1. next \in Targets
    BY <1>5 DEF AttachExit, PlaceOK
  <2>3. /\ links' \subseteq Targets \X Programs /\ pushed' \subseteq Targets \X Programs
        /\ next' \in 1 .. NTargets + 1
    BY <1>5, <2>1, WatchAssumption DEF AttachExit, PushedAfter, Programs, TypeOK,
                                       Targets
  <2>2. QED
    BY <1>5, <2>3 DEF AttachExit, bpfVars, targetVars, TypeOK
<1>6. ASSUME \/ Attached \/ Throw \/ LoopExit \/ Poll \/ OpenReader \/ PollReturns
             \/ request_stop \/ Expire
      PROVE  TypeOK'
  BY <1>6 DEF Attached, Throw, LoopExit, Poll, OpenReader, PollReturns, request_stop,
              Expire, detach_all, bpfVars, targetVars, TypeOK
<1>7. ASSUME OnEntry PROVE TypeOK'
  <2>1. Len(ring) \in Nat
    BY DEF TypeOK
  <2>2. QED
    BY <1>7, <2>1, OnEntryType, WatchAssumption DEF OnEntry, targetVars, TypeOK
<1>8. ASSUME OnExit PROVE TypeOK'
  <2>1. Len(ring) \in Nat
    BY DEF TypeOK
  <2>2. events' \in Seq(WatchEvent)
    <3>1. events \in Seq(WatchEvent)
      BY DEF TypeOK
    <3>2. /\ EventOf(Head(ring)) \in WatchEvent
          /\ events' = events \/ events' = Append(events, EventOf(Head(ring)))
      BY <1>8, OnExitType
    <3> HIDE DEF EventOf
    <3>3. QED
      BY <3>1, <3>2, AppendAll
  <2>3. QED
    BY <1>8, <2>1, <2>2, OnExitType, WatchAssumption DEF OnExit, targetVars, TypeOK
<1>9. QED
  BY <1>a, <1>b, <1>1, <1>2, <1>3, <1>4, <1>5, <1>6, <1>7, <1>8 DEF Next, WatchStep

--------------------------------------------------------------------------------
(* What a step of the target does to the invariant *)

LEMMA FramesTyped ==
    ASSUME TypeOK
    PROVE  /\ calls \in Nat
           /\ \A t \in Threads :
                /\ entry_times[t] \in Nat /\ Len(stk[t]) \in Nat
                /\ \A i \in 1 .. Len(stk[t]) :
                     stk[t][i] \in Frame /\ stk[t][i].call \in Nat
<1>1. ASSUME NEW t \in Threads
      PROVE  /\ entry_times[t] \in Nat /\ Len(stk[t]) \in Nat
             /\ \A i \in 1 .. Len(stk[t]) : stk[t][i] \in Frame
  BY DEF TypeOK, Call
<1>2. \A g \in Frame : g.call \in Nat
  BY DEF Frame, Call
<1>3. calls \in Nat
  BY DEF TypeOK
<1>4. QED
  BY <1>1, <1>2, <1>3

\* What the entry of a function does on the kernel's side.
LEMMA EnterEffect ==
    ASSUME TypeOK, NEW t \in Threads, NEW f \in Funcs, Enter(t, f)
    PROVE  /\ calls' = calls + 1
           /\ \A u \in Threads \ {t} : entry_times'[u] = entry_times[u]
           /\ \A u \in Threads : mishaps[u] \subseteq mishaps'[u]
           /\ \/ /\ Probed(f, "entry")
                 /\ entry_times'[t] = calls + 1 \/ entry_times'[t] = None
                 /\ \A i \in 1 .. Len(ring') :
                      \/ i \in 1 .. Len(ring) /\ ring'[i] = ring[i]
                      \/ ring'[i].from = None
              \/ /\ ~Probed(f, "entry")
                 /\ entry_times' = entry_times /\ ring' = ring
<1>1. calls \in Nat /\ calls' = calls + 1
  BY DEF TypeOK, Enter
<1>2. CASE Probed(f, "entry")
  <2>1. uprobe_entry(t, f, calls + 1) /\ calls + 1 \in Call
    BY <1>1, <1>2 DEF Enter, Call
  <2>2. QED
    BY <1>1, <1>2, <2>1, EntryProgram
<1>3. CASE ~Probed(f, "entry")
  <2>1. UNCHANGED <<entry_times, ring, mishaps>>
    BY <1>3 DEF Enter
  <2>2. QED
    BY <1>1, <1>3, <2>1
<1>4. QED
  BY <1>2, <1>3

\* The thread is stopped at the entry it has just hit, or goes on.
LEMMA EnterHit ==
    ASSUME TypeOK, NEW t \in Threads, NEW f \in Funcs, Enter(t, f)
    PROVE  /\ hit[t].left = {}
           /\ \A u \in Threads \ {t} : hit'[u] = hit[u]
           /\ hit'[t].left # {} =>
                /\ Probed(f, "entry") /\ hit'[t].prog = "entry"
                /\ hit'[t].func = f /\ hit'[t].call = calls + 1
<1>1. hit \in [Threads -> Hit] /\ hit[t].left = {} /\ calls + 1 \in Call
  BY DEF TypeOK, Enter, Running, Call
<1>2. CASE Probed(f, "entry")
  <2>1. PICK frame : /\ frame.func = f /\ frame.call = calls + 1 /\ frame.leaf = TRUE
                     /\ hit' = [hit EXCEPT ![t] =
                                  AfterProgram("entry", Linked(f, "entry"), frame)]
    BY <1>2 DEF Enter
  <2>2. "entry" \in Programs /\ Linked(f, "entry") \in SUBSET Targets
    BY DEF Programs, Linked
  <2>3. PICK x : x = AfterProgram("entry", Linked(f, "entry"), frame)
    OBVIOUS
  <2>4. x.left # {} => x.prog = "entry" /\ x.func = f /\ x.call = calls + 1
    <3>1. frame.func \in Funcs /\ frame.call \in Call /\ frame.leaf \in BOOLEAN
      BY <1>1, <2>1
    <3>2. x.left # {} => /\ x.prog = "entry" /\ x.func = frame.func
                         /\ x.call = frame.call
      BY <2>2, <2>3, <3>1, AfterType
    <3>3. QED
      BY <2>1, <3>2
  <2>5. QED
    BY <1>1, <1>2, <2>1, <2>3, <2>4
<1>3. CASE ~Probed(f, "entry")
  BY <1>1, <1>3 DEF Enter
<1>4. QED
  BY <1>2, <1>3

LEMMA EnterStep ==
    ASSUME WatchInv, NEW t \in Threads, NEW f \in Funcs, Enter(t, f)
    PROVE  CallsKnown' /\ TimesRecent' /\ RingSound' /\ NoResidualTimestamp'
           /\ HitKnown' /\ YoungestFirst'
<1>1. TypeOK
  BY DEF WatchInv
<1>2. /\ calls \in Nat /\ Len(stk[t]) \in Nat
      /\ \A u \in Threads : entry_times[u] \in Nat
      /\ \A u \in Threads : \A i \in 1 .. Len(stk[u]) : stk[u][i].call \in Nat
  BY <1>1, FramesTyped
<1>3. /\ Len(stk'[t]) = Len(stk[t]) + 1
      /\ stk'[t][1].call = calls + 1
      /\ stk'[t][1].seen = (Probed(f, "entry"))
      /\ stk'[t][1].hooked = (Probed(f, "exit"))
      /\ \A i \in 2 .. Len(stk'[t]) : SameCall(stk'[t][i], stk[t][i - 1])
      /\ \A i \in 1 .. Len(stk[t]) : SameCall(stk'[t][i + 1], stk[t][i])
      /\ \A u \in Threads \ {t} : stk'[u] = stk[u]
  BY <1>1, EnterStack
<1>4. /\ calls' = calls + 1
      /\ \A u \in Threads \ {t} : entry_times'[u] = entry_times[u]
      /\ \A u \in Threads : mishaps[u] \subseteq mishaps'[u]
      /\ \/ /\ Probed(f, "entry")
            /\ entry_times'[t] = calls + 1 \/ entry_times'[t] = None
            /\ \A i \in 1 .. Len(ring') :
                 (i \in 1 .. Len(ring) /\ ring'[i] = ring[i]) \/ ring'[i].from = None
         \/ /\ ~Probed(f, "entry")
            /\ entry_times' = entry_times /\ ring' = ring
  BY <1>1, EnterEffect
<1>5. \A i \in 1 .. Len(stk'[t]) : i = 1 \/ (i \in 2 .. Len(stk'[t]) /\ i - 1 \in 1 .. Len(stk[t]))
  BY <1>2, <1>3
<1>6. CallsKnown'
  <2>1. ASSUME NEW u \in Threads, NEW i \in 1 .. Len(stk'[u])
        PROVE  stk'[u][i].call <= calls'
    <3>1. CASE u # t
      <4>1. stk'[u] = stk[u] /\ i \in 1 .. Len(stk[u])
        BY <1>3, <2>1, <3>1
      <4>2. stk[u][i].call <= calls /\ stk[u][i].call \in Nat
        BY <1>2, <4>1 DEF WatchInv, CallsKnown
      <4>3. QED
        BY <1>2, <1>4, <4>1, <4>2
    <3>2. CASE u = t /\ i = 1
      BY <1>2, <1>3, <1>4, <3>2
    <3>3. CASE u = t /\ i # 1
      <4>1. i \in 2 .. Len(stk'[t]) /\ i - 1 \in 1 .. Len(stk[t])
        BY <1>5, <2>1, <3>3
      <4>2. stk'[t][i].call = stk[t][i - 1].call /\ stk[t][i - 1].call <= calls
        BY <1>3, <4>1 DEF SameCall, WatchInv, CallsKnown
      <4>3. QED
        BY <1>2, <1>4, <3>3, <4>1, <4>2, SMTT(30)
    <3>4. QED
      BY <3>1, <3>2, <3>3
  <2>2. QED
    BY <2>1 DEF CallsKnown
<1>7. TimesRecent'
  <2>1. ASSUME NEW u \in Threads, NEW i \in 1 .. Len(stk'[u]), stk'[u][i].hooked
        PROVE  entry_times'[u] = None \/ entry_times'[u] >= stk'[u][i].call
    <3>1. CASE u # t
      BY <1>3, <1>4, <2>1, <3>1 DEF WatchInv, TimesRecent
    <3>2. CASE u = t /\ i = 1
      <4>1. Probed(f, "exit")
        BY <1>3, <2>1, <3>2
      <4>2. Probed(f, "entry")
        BY <4>1, ProbedPaired DEF WatchInv
      <4>3. QED
        BY <1>2, <1>3, <1>4, <3>2, <4>2
    <3>3. CASE u = t /\ i # 1
      <4>1. i \in 2 .. Len(stk'[t]) /\ i - 1 \in 1 .. Len(stk[t])
        BY <1>5, <2>1, <3>3
      <4>2. stk'[t][i].call = stk[t][i - 1].call /\ stk[t][i - 1].call <= calls
            /\ stk[t][i - 1].hooked
        BY <1>3, <2>1, <3>3, <4>1 DEF SameCall, WatchInv, CallsKnown
      <4>3. entry_times[t] = None \/ entry_times[t] >= stk[t][i - 1].call
        BY <4>1, <4>2 DEF WatchInv, TimesRecent
      <4>4. QED
        <5>1. \/ entry_times'[t] = calls + 1 \/ entry_times'[t] = None
              \/ entry_times'[t] = entry_times[t]
          BY <1>4
        <5>2. stk[t][i - 1].call \in Nat
          BY <1>2, <4>1
        <5>3. entry_times'[t] = None \/ entry_times'[t] >= stk[t][i - 1].call
          BY <1>2, <4>2, <4>3, <5>1, <5>2
        <5>4. QED
          BY <3>3, <4>2, <5>3
    <3>4. QED
      BY <3>1, <3>2, <3>3
  <2>2. QED
    BY <2>1 DEF TimesRecent
<1>8. RingSound'
  <2>1. ASSUME NEW i \in 1 .. Len(ring')
        PROVE  Sound(ring'[i])
    <3>1. (i \in 1 .. Len(ring) /\ ring'[i] = ring[i]) \/ ring'[i].from = None
      BY <1>4, <2>1
    <3>2. QED
      BY <3>1 DEF Sound, WatchInv, RingSound
  <2>2. QED
    BY <2>1 DEF RingSound, Sound
<1>9. NoResidualTimestamp'
  <2>1. ASSUME NEW u \in Threads, entry_times'[u] # None
        PROVE  \/ \E i \in 1 .. Len(stk'[u]) : stk'[u][i].seen
               \/ mishaps'[u] \cap {"unwound", "unhooked"} # {}
    <3>1. CASE u # t
      <4>1. u \in Stored
        BY <1>4, <2>1, <3>1 DEF Stored
      <4>2. QED
        BY <1>3, <1>4, <3>1, <4>1 DEF WatchInv, NoResidualTimestamp
    <3>2. CASE u = t /\ Probed(f, "entry")
      <4>1. 1 \in 1 .. Len(stk'[t]) /\ stk'[t][1].seen
        <5>1. 1 \in 1 .. Len(stk'[t])
          BY <1>2, <1>3
        <5>2. stk'[t][1].seen
          BY <1>3, <3>2, Zenon
        <5>3. QED
          BY <5>1, <5>2
      <4>2. QED
        BY <3>2, <4>1
    <3>3. CASE u = t /\ ~Probed(f, "entry")
      <4>1. t \in Stored
        BY <1>4, <2>1, <3>3 DEF Stored
      <4>2. CASE mishaps[t] \cap {"unwound", "unhooked"} # {}
        BY <1>4, <3>3, <4>2
      <4>3. CASE \E i \in 1 .. Len(stk[t]) : stk[t][i].seen
        <5>1. PICK i \in 1 .. Len(stk[t]) : stk[t][i].seen
          BY <4>3
        <5>2. i + 1 \in 1 .. Len(stk'[t]) /\ stk'[t][i + 1].seen
          BY <1>2, <1>3, <5>1, SMTT(30) DEF SameCall
        <5>3. QED
          BY <3>3, <5>2
      <4>4. QED
        BY <4>1, <4>2, <4>3 DEF WatchInv, NoResidualTimestamp
    <3>4. QED
      BY <3>1, <3>2, <3>3
  <2>2. QED
    BY <2>1 DEF NoResidualTimestamp, Stored
<1>10. YoungestFirst'
  <2>1. ASSUME NEW u \in Threads, NEW i \in 1 .. Len(stk'[u]),
               NEW j \in 1 .. Len(stk'[u]), i <= j
        PROVE  stk'[u][i].call >= stk'[u][j].call
    <3>1. CASE u # t
      BY <1>3, <2>1, <3>1 DEF WatchInv, YoungestFirst
    <3>2. CASE u = t /\ i = 1
      <4>1. CASE j = 1
        BY <1>2, <1>3, <3>2, <4>1
      <4>2. CASE j # 1
        <5>1. j \in 2 .. Len(stk'[t]) /\ j - 1 \in 1 .. Len(stk[t])
          BY <1>5, <2>1, <3>2, <4>2
        <5>2. stk'[t][j].call = stk[t][j - 1].call /\ stk[t][j - 1].call <= calls
              /\ stk[t][j - 1].call \in Nat
          BY <1>2, <1>3, <5>1 DEF SameCall, WatchInv, CallsKnown
        <5>3. QED
          BY <1>2, <1>3, <3>2, <5>2
      <4>3. QED
        BY <4>1, <4>2
    <3>3. CASE u = t /\ i # 1
      <4>1. /\ i \in 2 .. Len(stk'[t]) /\ i - 1 \in 1 .. Len(stk[t])
            /\ j \in 2 .. Len(stk'[t]) /\ j - 1 \in 1 .. Len(stk[t])
            /\ i - 1 <= j - 1
        BY <1>5, <2>1, <3>3
      <4>2. stk'[t][i].call = stk[t][i - 1].call /\ stk'[t][j].call = stk[t][j - 1].call
        BY <1>3, <4>1 DEF SameCall
      <4>3. stk[t][i - 1].call >= stk[t][j - 1].call
        BY <4>1 DEF WatchInv, YoungestFirst
      <4>4. QED
        BY <3>3, <4>2, <4>3
    <3>4. QED
      BY <3>1, <3>2, <3>3
  <2>2. QED
    BY <2>1 DEF YoungestFirst
<1>11. HitKnown'
  <2>1. ASSUME NEW u \in Threads, hit'[u].left # {}
        PROVE  /\ hit'[u].func \in Funcs
               /\ hit'[u].prog = "exit" => entry_times'[u] = None
               /\ hit'[u].prog = "entry" =>
                     /\ Len(stk'[u]) >= 1 /\ stk'[u][1].seen
                     /\ hit'[u].call = stk'[u][1].call /\ hit'[u].func = stk'[u][1].func
    <3>1. CASE u # t
      <4>1. /\ hit'[u] = hit[u] /\ stk'[u] = stk[u] /\ entry_times'[u] = entry_times[u]
        BY <1>1, <1>3, <1>4, <3>1, EnterHit
      <4>2. QED
        BY <2>1, <4>1 DEF WatchInv, HitKnown
    <3>2. CASE u = t
      <4>1. /\ Probed(f, "entry") /\ hit'[t].prog = "entry"
            /\ hit'[t].func = f /\ hit'[t].call = calls + 1
        BY <1>1, <2>1, <3>2, EnterHit
      <4>2. stk'[t][1].seen /\ Len(stk'[t]) >= 1
        <5>1. stk'[t][1].seen
          BY <1>3, <4>1, Zenon
        <5>2. QED
          BY <1>2, <1>3, <5>1
      <4>3. stk'[t][1].func = f
        BY <1>1, EnterStack
      <4>4. QED
        BY <1>3, <3>2, <4>1, <4>2, <4>3
    <3>3. QED
      BY <3>1, <3>2
  <2>2. QED
    BY <2>1 DEF HitKnown
<1>12. QED
  BY <1>6, <1>7, <1>8, <1>9, <1>10, <1>11

\* What leaving a call does on the kernel's side: the exit program has run, the
\* return was not seen, or the call was unwound.
LEMMA LeaveEffect ==
    ASSUME TypeOK, NEW t \in Threads, Return(t) \/ Unwind(t)
    PROVE  /\ calls' = calls
           /\ \A u \in Threads \ {t} : entry_times'[u] = entry_times[u]
           /\ \A u \in Threads : mishaps[u] \subseteq mishaps'[u]
           /\ \/ /\ entry_times'[t] = None
                 /\ Head(stk[t]).hooked
                 /\ \A i \in 1 .. Len(ring') :
                      \/ i \in 1 .. Len(ring) /\ ring'[i] = ring[i]
                      \/ /\ ring'[i].from = entry_times[t]
                         /\ ring'[i].call = Head(stk[t]).call
              \/ /\ entry_times' = entry_times /\ ring' = ring
                 /\ \/ ~Head(stk[t]).seen
                    \/ mishaps'[t] \cap {"unwound", "unhooked"} # {}
<1>1. calls' = calls /\ Head(stk[t]) \in Frame
  BY LeaveStack DEF Return, Unwind
<1>2. CASE Return(t) /\ uprobe_exit(t, Head(stk[t]), FALSE) /\ Head(stk[t]).hooked
  <2>1. PICK h : h = Head(stk[t])
    OBVIOUS
  <2>2. h.func \in Funcs /\ h.call \in Call /\ h.leaf \in BOOLEAN /\ h.hooked
    BY <1>1, <1>2, <2>1 DEF Frame
  <2>3. uprobe_exit(t, h, FALSE)
    BY <1>2, <2>1
  <2>4. QED
    BY <1>1, <2>1, <2>2, <2>3, ExitProgram
<1>3. CASE /\ Mishap(t, IF Head(stk[t]).seen THEN {"unhooked"} ELSE {})
           /\ UNCHANGED <<entry_times, ring>>
  <2> DEFINE m == IF Head(stk[t]).seen THEN {"unhooked"} ELSE {}
  <2>1. m \in SUBSET Mishaps /\ Mishap(t, m)
    BY <1>3 DEF Mishaps
  <2>2. ~Head(stk[t]).seen \/ "unhooked" \in m
    OBVIOUS
  <2> HIDE DEF m
  <2>3. /\ mishaps'[t] = mishaps[t] \cup m
        /\ \A u \in Threads : mishaps[u] \subseteq mishaps'[u]
    BY <2>1, MishapType
  <2>4. ~Head(stk[t]).seen \/ mishaps'[t] \cap {"unwound", "unhooked"} # {}
    BY <2>2, <2>3
  <2>5. QED
    BY <1>1, <1>3, <2>3, <2>4
<1>4. CASE Unwind(t)
  <2>1. {"unwound"} \in SUBSET Mishaps /\ Mishap(t, {"unwound"})
        /\ UNCHANGED <<entry_times, ring>>
    BY <1>4 DEF Unwind, bpfVars, Mishaps
  <2>2. /\ mishaps'[t] = mishaps[t] \cup {"unwound"}
        /\ \A u \in Threads : mishaps[u] \subseteq mishaps'[u]
    BY <2>1, MishapType
  <2>3. QED
    BY <1>1, <2>1, <2>2
<1>5. QED
  BY <1>2, <1>3, <1>4, ReturnEffect

\* The thread is stopped at the return it has just hit, or goes on.
LEMMA LeaveHit ==
    ASSUME TypeOK, NEW t \in Threads, Return(t) \/ Unwind(t)
    PROVE  /\ hit[t].left = {}
           /\ \A u \in Threads \ {t} : hit'[u] = hit[u]
           /\ hit'[t].left # {} =>
                /\ hit'[t].prog = "exit" /\ entry_times'[t] = None
                /\ hit'[t].func = Head(stk[t]).func
                /\ hit'[t].call = Head(stk[t]).call
                /\ hit'[t].leaf = Head(stk[t]).leaf
                /\ Head(stk[t]).hooked /\ Return(t)
                /\ uprobe_exit(t, Head(stk[t]), FALSE)
<1>1. hit \in [Threads -> Hit] /\ hit[t].left = {}
  BY DEF TypeOK, Return, Unwind, Running
<1>2. PICK h : h = Head(stk[t])
  OBVIOUS
<1>3. h.func \in Funcs /\ h.call \in Call /\ h.leaf \in BOOLEAN
  <2>1. h \in Frame
    BY <1>2, LeaveStack
  <2>2. QED
    BY <2>1 DEF Frame
<1>4. CASE /\ Return(t) /\ uprobe_exit(t, h, FALSE) /\ h.hooked
           /\ hit' = [hit EXCEPT ![t] = AfterProgram("exit", Linked(h.func, "exit"), h)]
  <2>1. "exit" \in Programs /\ Linked(h.func, "exit") \in SUBSET Targets
    BY DEF Programs, Linked
  <2>2. PICK x : x = AfterProgram("exit", Linked(h.func, "exit"), h)
    OBVIOUS
  <2>3. x.left # {} =>
          /\ x.prog = "exit" /\ x.func = h.func /\ x.call = h.call /\ x.leaf = h.leaf
    BY <1>3, <2>1, <2>2, AfterType
  <2>4. hit'[t] = x /\ \A u \in Threads \ {t} : hit'[u] = hit[u]
    BY <1>1, <1>4, <2>2
  <2>5. entry_times'[t] = None
    BY <1>3, <1>4, ExitProgram
  <2>6. QED
    BY <1>1, <1>2, <1>4, <2>3, <2>4, <2>5
<1>5. CASE hit' = hit
  BY <1>1, <1>5
<1>6. QED
  BY <1>2, <1>4, <1>5, ReturnEffect DEF Unwind

LEMMA LeaveStep ==
    ASSUME WatchInv, NEW t \in Threads, Return(t) \/ Unwind(t)
    PROVE  CallsKnown' /\ TimesRecent' /\ RingSound' /\ NoResidualTimestamp'
           /\ HitKnown' /\ YoungestFirst'
<1>1. TypeOK
  BY DEF WatchInv
<1>2. /\ Len(stk[t]) >= 1 /\ Head(stk[t]) = stk[t][1]
      /\ Len(stk'[t]) = Len(stk[t]) - 1
      /\ \A i \in 1 .. Len(stk'[t]) :
           i + 1 \in 1 .. Len(stk[t]) /\ stk'[t][i] = stk[t][i + 1]
      /\ \A u \in Threads \ {t} : stk'[u] = stk[u]
  BY <1>1, LeaveStack
<1>3. /\ calls' = calls
      /\ \A u \in Threads \ {t} : entry_times'[u] = entry_times[u]
      /\ \A u \in Threads : mishaps[u] \subseteq mishaps'[u]
      /\ \/ /\ entry_times'[t] = None
            /\ Head(stk[t]).hooked
            /\ \A i \in 1 .. Len(ring') :
                 \/ i \in 1 .. Len(ring) /\ ring'[i] = ring[i]
                 \/ /\ ring'[i].from = entry_times[t]
                    /\ ring'[i].call = Head(stk[t]).call
         \/ /\ entry_times' = entry_times /\ ring' = ring
            /\ \/ ~Head(stk[t]).seen
               \/ mishaps'[t] \cap {"unwound", "unhooked"} # {}
  BY <1>1, LeaveEffect
<1>4. Len(stk[t]) \in Nat /\ 1 \in 1 .. Len(stk[t])
  BY <1>1, <1>2, FramesTyped
<1>5. CallsKnown'
  <2>1. ASSUME NEW u \in Threads, NEW i \in 1 .. Len(stk'[u])
        PROVE  stk'[u][i].call <= calls'
    <3>1. CASE u # t
      <4>1. stk'[u] = stk[u] /\ i \in 1 .. Len(stk[u])
        BY <1>2, <2>1, <3>1
      <4>2. QED
        BY <1>3, <4>1 DEF WatchInv, CallsKnown
    <3>2. CASE u = t
      <4>1. i + 1 \in 1 .. Len(stk[t]) /\ stk'[t][i] = stk[t][i + 1]
        BY <1>2, <2>1, <3>2
      <4>2. QED
        BY <1>3, <3>2, <4>1 DEF WatchInv, CallsKnown
    <3>3. QED
      BY <3>1, <3>2
  <2>2. QED
    BY <2>1 DEF CallsKnown
<1>6. TimesRecent'
  <2>1. ASSUME NEW u \in Threads, NEW i \in 1 .. Len(stk'[u]), stk'[u][i].hooked
        PROVE  entry_times'[u] = None \/ entry_times'[u] >= stk'[u][i].call
    <3>1. CASE u # t
      BY <1>2, <1>3, <2>1, <3>1 DEF WatchInv, TimesRecent
    <3>2. CASE u = t /\ entry_times'[t] = None
      BY <3>2
    <3>3. CASE u = t /\ entry_times' = entry_times
      <4>1. i + 1 \in 1 .. Len(stk[t]) /\ stk'[t][i] = stk[t][i + 1]
        BY <1>2, <2>1, <3>3
      <4>2. stk[t][i + 1].hooked
        BY <2>1, <3>3, <4>1
      <4>3. entry_times[t] = None \/ entry_times[t] >= stk[t][i + 1].call
        BY <4>1, <4>2 DEF WatchInv, TimesRecent
      <4>4. QED
        BY <3>3, <4>1, <4>3
    <3>4. QED
      BY <1>3, <3>1, <3>2, <3>3
  <2>2. QED
    BY <2>1 DEF TimesRecent
<1>7. RingSound'
  <2>1. Head(stk[t]).hooked =>
          entry_times[t] = None \/ entry_times[t] >= Head(stk[t]).call
    BY <1>2, <1>4 DEF WatchInv, TimesRecent
  <2>2. ASSUME NEW i \in 1 .. Len(ring')
        PROVE  Sound(ring'[i])
    <3>1. CASE i \in 1 .. Len(ring) /\ ring'[i] = ring[i]
      BY <3>1 DEF WatchInv, RingSound, Sound
    <3>2. CASE /\ Head(stk[t]).hooked
               /\ ring'[i].from = entry_times[t]
               /\ ring'[i].call = Head(stk[t]).call
      BY <2>1, <3>2 DEF Sound
    <3>3. QED
      BY <1>3, <2>2, <3>1, <3>2
  <2>3. QED
    BY <2>2 DEF RingSound, Sound
<1>8. NoResidualTimestamp'
  <2>1. ASSUME NEW u \in Threads, entry_times'[u] # None
        PROVE  \/ \E i \in 1 .. Len(stk'[u]) : stk'[u][i].seen
               \/ mishaps'[u] \cap {"unwound", "unhooked"} # {}
    <3>1. CASE u # t
      <4>1. u \in Stored
        BY <1>3, <2>1, <3>1 DEF Stored
      <4>2. QED
        BY <1>2, <1>3, <3>1, <4>1 DEF WatchInv, NoResidualTimestamp
    <3>2. CASE u = t /\ mishaps'[t] \cap {"unwound", "unhooked"} # {}
      BY <3>2
    <3>3. CASE /\ u = t /\ ~Head(stk[t]).seen /\ entry_times' = entry_times
      <4>1. t \in Stored
        BY <2>1, <3>3 DEF Stored
      <4>2. CASE mishaps[t] \cap {"unwound", "unhooked"} # {}
        BY <1>3, <3>3, <4>2
      <4>3. CASE \E i \in 1 .. Len(stk[t]) : stk[t][i].seen
        <5>1. PICK i \in 1 .. Len(stk[t]) : stk[t][i].seen
          BY <4>3
        <5>2. i # 1
          BY <1>2, <3>3, <5>1
        <5>3. i - 1 \in 1 .. Len(stk'[t]) /\ (i - 1) + 1 = i
          BY <1>2, <1>4, <5>2
        <5>4. stk'[t][i - 1].seen
          BY <1>2, <5>1, <5>3
        <5>5. QED
          BY <3>3, <5>3, <5>4
      <4>4. QED
        BY <4>1, <4>2, <4>3 DEF WatchInv, NoResidualTimestamp
    <3>4. QED
      BY <1>3, <2>1, <3>1, <3>2, <3>3
  <2>2. QED
    BY <2>1 DEF NoResidualTimestamp, Stored
<1>9. YoungestFirst'
  <2>1. ASSUME NEW u \in Threads, NEW i \in 1 .. Len(stk'[u]),
               NEW j \in 1 .. Len(stk'[u]), i <= j
        PROVE  stk'[u][i].call >= stk'[u][j].call
    <3>1. CASE u # t
      BY <1>2, <2>1, <3>1 DEF WatchInv, YoungestFirst
    <3>2. CASE u = t
      <4>1. /\ i + 1 \in 1 .. Len(stk[t]) /\ stk'[t][i] = stk[t][i + 1]
            /\ j + 1 \in 1 .. Len(stk[t]) /\ stk'[t][j] = stk[t][j + 1]
            /\ i + 1 <= j + 1
        BY <1>2, <2>1, <3>2
      <4>2. stk[t][i + 1].call >= stk[t][j + 1].call
        BY <4>1 DEF WatchInv, YoungestFirst
      <4>3. QED
        BY <3>2, <4>1, <4>2
    <3>3. QED
      BY <3>1, <3>2
  <2>2. QED
    BY <2>1 DEF YoungestFirst
<1>10. HitKnown'
  <2>1. ASSUME NEW u \in Threads, hit'[u].left # {}
        PROVE  /\ hit'[u].func \in Funcs
               /\ hit'[u].prog = "exit" => entry_times'[u] = None
               /\ hit'[u].prog = "entry" =>
                     /\ Len(stk'[u]) >= 1 /\ stk'[u][1].seen
                     /\ hit'[u].call = stk'[u][1].call /\ hit'[u].func = stk'[u][1].func
    <3>1. CASE u # t
      <4>0. \A v \in Threads \ {t} : hit'[v] = hit[v]
        BY <1>1, LeaveHit
      <4>1. /\ hit'[u] = hit[u] /\ stk'[u] = stk[u] /\ entry_times'[u] = entry_times[u]
        BY <1>2, <1>3, <3>1, <4>0
      <4>2. QED
        BY <2>1, <4>1 DEF WatchInv, HitKnown
    <3>2. CASE u = t
      <4>1. hit'[t].prog = "exit" /\ entry_times'[t] = None
            /\ hit'[t].func = Head(stk[t]).func /\ Head(stk[t]) \in Frame
        BY <1>1, <2>1, <3>2, LeaveHit, LeaveStack
      <4>2. QED
        BY <3>2, <4>1 DEF Frame
    <3>3. QED
      BY <3>1, <3>2
  <2>2. QED
    BY <2>1 DEF HitKnown
<1>11. QED
  BY <1>5, <1>6, <1>7, <1>8, <1>9, <1>10

\* The same for a program that runs again: the time it stores is that of the frame in
\* front, and the time it finds at a return has been deleted.
LEMMA AgainStep ==
    ASSUME WatchInv, NEW t \in Threads, RunAgain(t)
    PROVE  CallsKnown' /\ TimesRecent' /\ RingSound' /\ NoResidualTimestamp'
           /\ HitKnown' /\ YoungestFirst'
<1>1. TypeOK /\ HitKnown
  BY DEF WatchInv
<1>2. /\ UNCHANGED <<stk, calls>>
      /\ hit[t].left # {} /\ hit[t].func \in Funcs /\ hit[t].call \in Call
      /\ hit[t].leaf \in BOOLEAN
      /\ \A u \in Threads \ {t} : hit'[u] = hit[u]
      /\ hit'[t].left # {} => /\ hit'[t].prog = hit[t].prog
                              /\ hit'[t].func = hit[t].func
                              /\ hit'[t].call = hit[t].call
      /\ \/ hit[t].prog = "entry" /\ uprobe_entry(t, hit[t].func, hit[t].call)
         \/ hit[t].prog = "exit" /\ uprobe_exit(t, hit[t], TRUE)
  BY <1>1, AgainEffect
<1>3. CallsKnown' /\ YoungestFirst'
  BY <1>2 DEF WatchInv, CallsKnown, YoungestFirst
<1>4. /\ \A u \in Threads : mishaps[u] \subseteq mishaps'[u]
      /\ \A u \in Threads \ {t} : entry_times'[u] = entry_times[u]
      /\ \/ /\ hit[t].prog = "entry"
            /\ entry_times'[t] = hit[t].call \/ entry_times'[t] = None
         \/ hit[t].prog = "exit" /\ entry_times'[t] = None
      /\ \A i \in 1 .. Len(ring') :
           \/ i \in 1 .. Len(ring) /\ ring'[i] = ring[i]
           \/ ring'[i].from = None
  <2>1. CASE hit[t].prog = "entry" /\ uprobe_entry(t, hit[t].func, hit[t].call)
    BY <1>1, <1>2, <2>1, EntryProgram
  <2>2. CASE hit[t].prog = "exit" /\ uprobe_exit(t, hit[t], TRUE)
    <3>1. entry_times[t] = None
      BY <1>2, <2>2 DEF WatchInv, HitKnown
    <3>2. QED
      BY <1>1, <1>2, <2>2, <3>1, ExitProgram
  <2>3. QED
    BY <1>2, <2>1, <2>2
<1>5. hit[t].prog = "entry" =>
        /\ 1 \in 1 .. Len(stk[t]) /\ stk[t][1].seen /\ hit[t].call = stk[t][1].call
        /\ hit[t].func = stk[t][1].func
  <2>1. Len(stk[t]) \in Nat
    BY <1>1, FramesTyped
  <2>2. QED
    BY <1>2, <2>1 DEF WatchInv, HitKnown
<1>6. TimesRecent'
  <2>1. ASSUME NEW u \in Threads, NEW i \in 1 .. Len(stk'[u]), stk'[u][i].hooked
        PROVE  entry_times'[u] = None \/ entry_times'[u] >= stk'[u][i].call
    <3>1. CASE u # t
      BY <1>2, <1>4, <2>1, <3>1 DEF WatchInv, TimesRecent
    <3>2. CASE u = t /\ hit[t].prog = "entry"
      <4>1. i \in 1 .. Len(stk[t]) /\ 1 \in 1 .. Len(stk[t]) /\ 1 <= i
        BY <1>2, <1>5, <2>1, <3>2
      <4>2. stk[t][1].call >= stk[t][i].call
        BY <4>1 DEF WatchInv, YoungestFirst
      <4>3. entry_times'[t] = None \/ entry_times'[t] = stk[t][1].call
        BY <1>4, <1>5, <3>2
      <4>4. QED
        BY <1>2, <3>2, <4>2, <4>3
    <3>3. CASE u = t /\ entry_times'[t] = None
      BY <3>3
    <3>4. QED
      BY <1>4, <3>1, <3>2, <3>3
  <2>2. QED
    BY <2>1 DEF TimesRecent
<1>7. RingSound'
  <2>1. ASSUME NEW i \in 1 .. Len(ring')
        PROVE  Sound(ring'[i])
    <3>1. (i \in 1 .. Len(ring) /\ ring'[i] = ring[i]) \/ ring'[i].from = None
      BY <1>4, <2>1
    <3>2. QED
      BY <3>1 DEF Sound, WatchInv, RingSound
  <2>2. QED
    BY <2>1 DEF RingSound, Sound
<1>8. NoResidualTimestamp'
  <2>1. ASSUME NEW u \in Threads, entry_times'[u] # None
        PROVE  \/ \E i \in 1 .. Len(stk'[u]) : stk'[u][i].seen
               \/ mishaps'[u] \cap {"unwound", "unhooked"} # {}
    <3>1. CASE u # t
      <4>1. u \in Stored
        BY <1>4, <2>1, <3>1 DEF Stored
      <4>2. QED
        BY <1>2, <1>4, <3>1, <4>1 DEF WatchInv, NoResidualTimestamp
    <3>2. CASE u = t
      <4>1. 1 \in 1 .. Len(stk[t]) /\ stk[t][1].seen
        BY <1>4, <1>5, <2>1, <3>2
      <4>2. QED
        BY <1>2, <3>2, <4>1
    <3>3. QED
      BY <3>1, <3>2
  <2>2. QED
    BY <2>1 DEF NoResidualTimestamp, Stored
<1>9. HitKnown'
  <2>1. ASSUME NEW u \in Threads, hit'[u].left # {}
        PROVE  /\ hit'[u].func \in Funcs
               /\ hit'[u].prog = "exit" => entry_times'[u] = None
               /\ hit'[u].prog = "entry" =>
                     /\ Len(stk'[u]) >= 1 /\ stk'[u][1].seen
                     /\ hit'[u].call = stk'[u][1].call /\ hit'[u].func = stk'[u][1].func
    <3>1. CASE u # t
      <4>1. /\ hit'[u] = hit[u] /\ stk'[u] = stk[u] /\ entry_times'[u] = entry_times[u]
        BY <1>2, <1>4, <3>1
      <4>2. QED
        BY <2>1, <4>1 DEF WatchInv, HitKnown
    <3>2. CASE u = t
      <4>1. /\ hit'[t].prog = hit[t].prog /\ hit'[t].func = hit[t].func
            /\ hit'[t].call = hit[t].call
        BY <1>2, <2>1, <3>2
      <4>2. hit[t].prog = "exit" => entry_times'[t] = None
        BY <1>4
      <4>3. hit[t].prog = "entry" => Len(stk[t]) >= 1
        BY <1>5, FramesTyped DEF WatchInv, HitKnown
      <4>4. QED
        BY <1>2, <1>5, <3>2, <4>1, <4>2, <4>3
    <3>3. QED
      BY <3>1, <3>2
  <2>2. QED
    BY <2>1 DEF HitKnown
<1>10. QED
  BY <1>3, <1>6, <1>7, <1>8, <1>9

--------------------------------------------------------------------------------
(* The steps of uatu *)

\* No step of uatu touches the stacks or the map.
LEMMA UserLeavesTarget ==
    ASSUME WatchStep \/ request_stop \/ Expire \/ UNCHANGED vars
    PROVE  UNCHANGED <<targetVars, entry_times>>
BY DEF WatchStep, AttachEntry, AttachExit, Attached, Throw, LoopExit, Poll, OpenReader,
       PollReturns, OnEntry, OnExit, request_stop, Expire, vars, bpfVars, targetVars

\* The probes of a target come in order and go together.
LEMMA UserProbes ==
    ASSUME ProbesPaired, AllPushed,
           WatchStep \/ request_stop \/ Expire \/ UNCHANGED vars
    PROVE  ProbesPaired' /\ AllPushed'
<1>1. CASE AttachEntry
  BY <1>1 DEF AttachEntry, PushedAfter, ProbesPaired, AllPushed
<1>2. CASE Throw \/ LoopExit
  BY <1>2 DEF Throw, LoopExit, detach_all, ProbesPaired, AllPushed
<1>3. CASE \/ Attached \/ Poll \/ OpenReader \/ PollReturns \/ OnEntry \/ OnExit
           \/ request_stop \/ Expire \/ UNCHANGED vars
  BY <1>3 DEF Attached, Poll, OpenReader, PollReturns, OnEntry, OnExit, request_stop,
              Expire, vars, userVars, ProbesPaired, AllPushed
<1>4. CASE AttachExit
  BY <1>4 DEF AttachExit, PushedAfter, ProbesPaired, AllPushed
<1>5. QED
  BY <1>1, <1>2, <1>3, <1>4 DEF WatchStep

\* The callback consumes the ring from its front, and an event says of times what
\* its record said.
LEMMA UserEvents ==
    ASSUME TypeOK, RingSound, EventsSound, AtMostMaxEvents,
           WatchStep \/ request_stop \/ Expire \/ UNCHANGED vars
    PROVE  RingSound' /\ EventsSound' /\ AtMostMaxEvents'
<1>1. ring \in Seq(RawEvent) /\ events \in Seq(WatchEvent) /\ Len(events) \in Nat
  BY DEF TypeOK
<1>2. ASSUME ring # <<>>, ring' = Tail(ring)
      PROVE  RingSound' /\ Sound(Head(ring))
  <2>1. /\ Len(ring) >= 1 /\ Head(ring) = ring[1]
        /\ \A i \in 1 .. Len(Tail(ring)) :
             i + 1 \in 1 .. Len(ring) /\ Tail(ring)[i] = ring[i + 1]
    BY <1>1, <1>2, TailMoves
  <2>2. Len(ring) \in Nat /\ 1 \in 1 .. Len(ring)
    BY <1>1, <2>1
  <2>3. QED
    BY <1>2, <2>1, <2>2 DEF RingSound, Sound
<1>3. CASE OnEntry
  <2>1. ring # <<>> /\ ring' = Tail(ring) /\ events' = events
    BY <1>3 DEF OnEntry
  <2>2. QED
    BY <1>2, <2>1 DEF EventsSound, AtMostMaxEvents, Sound
<1>4. CASE OnExit
  <2>1. ring # <<>> /\ ring' = Tail(ring)
    BY <1>4 DEF OnExit
  <2>2. CASE events' = events
    BY <1>2, <2>1, <2>2 DEF EventsSound, AtMostMaxEvents, Sound
  <2>3. CASE ~EnoughEvents /\ events' = Append(events, EventOf(Head(ring)))
    <3>1. Sound(EventOf(Head(ring)))
      BY <1>2, <2>1 DEF Sound, EventOf
    <3>2. EventOf(Head(ring)) \in WatchEvent
      BY <1>4, OnExitType
    <3> HIDE DEF EventOf
    <3>3. /\ Len(events') = Len(events) + 1
          /\ \A i \in 1 .. Len(events) + 1 :
               events'[i] = IF i = Len(events) + 1 THEN EventOf(Head(ring)) ELSE events[i]
      BY <1>1, <2>3, <3>2, AppendAll
    <3>4. EventsSound'
      <4>1. ASSUME NEW i \in 1 .. Len(events) + 1
            PROVE  Sound(events'[i])
        <5>1. CASE i = Len(events) + 1
          BY <3>1, <3>3, <5>1
        <5>2. CASE i # Len(events) + 1
          <6>1. i \in 1 .. Len(events) /\ events'[i] = events[i]
            BY <1>1, <3>3, <5>2
          <6>2. QED
            BY <6>1 DEF EventsSound
        <5>3. QED
          BY <5>1, <5>2
      <4>2. QED
        BY <3>3, <4>1 DEF EventsSound, Sound
    <3>5. AtMostMaxEvents'
      BY <1>1, <2>3, <3>3, WatchAssumption DEF EnoughEvents, AtMostMaxEvents
    <3>6. QED
      BY <1>2, <2>1, <3>4, <3>5
  <2>4. QED
    BY <1>4, <2>2, <2>3, OnExitType
<1>5. CASE \/ AttachEntry \/ AttachExit \/ Attached \/ Throw \/ LoopExit \/ Poll
           \/ OpenReader \/ PollReturns \/ request_stop \/ Expire \/ UNCHANGED vars
  <2>1. ring' = ring /\ events' = events
    BY <1>5 DEF AttachEntry, AttachExit, Attached, Throw, LoopExit, Poll, OpenReader,
                PollReturns, request_stop, Expire, vars, bpfVars, userVars
  <2>2. QED
    BY <2>1 DEF RingSound, EventsSound, AtMostMaxEvents, Sound
<1>6. QED
  BY <1>3, <1>4, <1>5 DEF WatchStep

--------------------------------------------------------------------------------
(* The theorems *)

LEMMA WatchInvInit == Init => WatchInv
<1> SUFFICES ASSUME Init PROVE WatchInv
  OBVIOUS
<1>1. TypeOK
  BY TypeInit
<1>2. PlaceOK /\ ProbesPaired /\ AllPushed
  BY DEF Init, PlaceOK, ProbesPaired, AllPushed
<1>3. AtMostMaxEvents /\ RingSound /\ EventsSound
  BY WatchAssumption DEF Init, AtMostMaxEvents, RingSound, EventsSound
<1>4. CallsKnown /\ TimesRecent /\ YoungestFirst /\ HitKnown
  BY DEF Init, CallsKnown, TimesRecent, YoungestFirst, HitKnown, Idle
<1>5. NoResidualTimestamp
  BY DEF Init, NoResidualTimestamp, Stored
<1>6. QED
  BY <1>1, <1>2, <1>3, <1>4, <1>5 DEF WatchInv

LEMMA WatchInvStep == WatchInv /\ [Next]_vars => WatchInv'
<1> SUFFICES ASSUME WatchInv, [Next]_vars PROVE WatchInv'
  OBVIOUS
<1>1. TypeOK' /\ PlaceOK'
  BY TypeStep DEF WatchInv
<1>2. ASSUME NEW t \in Threads,
             Return(t) \/ Unwind(t) \/ RunAgain(t) \/ \E f \in Funcs : Enter(t, f)
      PROVE  WatchInv'
  <2>1. UNCHANGED userVars
    BY <1>2 DEF Return, Unwind, RunAgain, Enter
  <2>2. ProbesPaired' /\ AllPushed' /\ AtMostMaxEvents' /\ EventsSound'
    BY <2>1 DEF userVars, WatchInv, ProbesPaired, AllPushed, AtMostMaxEvents,
                EventsSound, Sound
  <2>3. CallsKnown' /\ TimesRecent' /\ RingSound' /\ NoResidualTimestamp'
        /\ HitKnown' /\ YoungestFirst'
    BY <1>2, EnterStep, LeaveStep, AgainStep
  <2>4. QED
    BY <1>1, <2>2, <2>3 DEF WatchInv
<1>3. ASSUME WatchStep \/ request_stop \/ Expire \/ UNCHANGED vars
      PROVE  WatchInv'
  <2>1. ProbesPaired' /\ AllPushed'
    BY <1>3, UserProbes DEF WatchInv
  <2>2. RingSound' /\ EventsSound' /\ AtMostMaxEvents'
    BY <1>3, UserEvents DEF WatchInv
  <2>3. UNCHANGED <<targetVars, entry_times>>
    BY <1>3, UserLeavesTarget
  <2>4. CallsKnown' /\ TimesRecent' /\ NoResidualTimestamp'
        /\ HitKnown' /\ YoungestFirst'
    BY <2>3 DEF targetVars, WatchInv, CallsKnown, TimesRecent, NoResidualTimestamp,
                Stored, HitKnown, YoungestFirst
  <2>5. QED
    BY <1>1, <2>1, <2>2, <2>4 DEF WatchInv
<1>4. QED
  BY <1>2, <1>3 DEF Next

\* The invariant holds in every reachable state, whatever the capacities.
THEOREM WatchInvariant == Spec => []WatchInv
<1>1. Init => WatchInv
  BY WatchInvInit
<1>2. WatchInv /\ [Next]_vars => WatchInv'
  BY WatchInvStep
<1>3. QED
  BY <1>1, <1>2, PTL DEF Spec

\* uprobe_entry, uprobe_exit, UprobeLoader and the callback keep the state well
\* typed; in particular, the ring buffer never holds more than it has room for.
THEOREM TypeCorrect == Spec => []TypeOK
<1>1. WatchInv => TypeOK
  BY DEF WatchInv
<1>2. QED
  BY <1>1, WatchInvariant, PTL

\* No reported duration is longer than the call took, although entry_times has
\* one entry per thread only and events are dropped.
THEOREM NeverOverstatedTheorem == Spec => []NeverOverstated
<1>1. WatchInv => NeverOverstated
  BY DEF WatchInv, EventsSound, Sound, NeverOverstated, Collected
<1>2. QED
  BY <1>1, WatchInvariant, PTL

\* The callback collects no more events than watch_checked was asked for.
THEOREM AtMostMaxEventsTheorem == Spec => []AtMostMaxEvents
<1>1. WatchInv => AtMostMaxEvents
  BY DEF WatchInv
<1>2. QED
  BY <1>1, WatchInvariant, PTL

\* The timestamps that entry_times holds are those of active calls, or of calls
\* whose return the exit program could not see.
THEOREM NoResidualTimestampTheorem == Spec => []NoResidualTimestamp
<1>1. WatchInv => NoResidualTimestamp
  BY DEF WatchInv
<1>2. QED
  BY <1>1, WatchInvariant, PTL

================================================================================
