--------------------------- MODULE WatchPairingProofs ---------------------------
(***************************************************************************)
(* Proofs that WatchEbpf pairs entry and exit records of the same call,    *)
(* for all constants: what the cache of the callback holds is not that of  *)
(* another call when an exit record is consumed.                           *)
(***************************************************************************)
EXTENDS WatchEbpfProofs

\* The callback still collects.
Live == phase \notin {"returned", "fallback"} /\ ~EnoughEvents

\* What stands at a place of the ring buffer, and in a frame.
IsEntry(k, t, f, c) ==
    ring[k].tid = t /\ ~ring[k].is_exit /\ ring[k].func = f /\ ring[k].call = c
IsExit(k, t, f, c) ==
    ring[k].tid = t /\ ring[k].is_exit /\ ring[k].func = f /\ ring[k].call = c
IsHooked(p, t, f, c) ==
    stk[t][p].hooked /\ stk[t][p].func = f /\ stk[t][p].call = c

\* The entry of a call, in the ring buffer or, at place 0, in the cache.
EntryAt(j, t, f, c) ==
    IF j = 0 THEN entry_cache[t].func = f /\ entry_cache[t].call = c
             ELSE IsEntry(j, t, f, c)

\* The entry of d at place j is not in the cache any more when the exit of c at
\* place i comes: that of c has taken its place, or the exit of d has erased it.
Gone(t, f, d, c, j, i) ==
    d = c \/ \E k \in j + 1 .. i - 1 : IsEntry(k, t, f, c) \/ IsExit(k, t, f, d)

\* The call d is active inside of the one in frame p, so that its exit is to come.
Inside(t, f, d, p) == \E q \in 1 .. p - 1 : IsHooked(q, t, f, d)

\* The entry of c is what the cache will hold at place i.
Latest(t, f, c, i) ==
    \E j \in 0 .. i - 1 : /\ EntryAt(j, t, f, c)
                          /\ \A k \in j + 1 .. i - 1 : ring[k].tid # t

\* The last that was heard of the thread is the exit of a call of f: that record, or
\* at place 0 a cache that holds no entry for f.
LeftAt(k, t, f) ==
    IF k = 0 THEN entry_cache[t].func # f
             ELSE ring[k].tid = t /\ ring[k].is_exit /\ ring[k].func = f
JustLeft(t, f, i) ==
    \E k \in 0 .. i - 1 : /\ LeftAt(k, t, f)
                          /\ \A l \in k + 1 .. i - 1 : ring[l].tid # t

Calm(t) == mishaps[t] \cap {"dropped", "unwound"} = {}

RingPaired ==
    \A t \in Threads, f \in Funcs, c \in Nat, d \in Nat, i \in 1 .. Len(ring) :
        \A j \in 0 .. i - 1 :
            Calm(t) /\ IsExit(i, t, f, c) /\ ~ring[i].again /\ EntryAt(j, t, f, d)
                => Gone(t, f, d, c, j, i)

\* m is the place of the next record.
StackPaired ==
    \A t \in Threads, f \in Funcs, c \in Nat, d \in Nat, m \in Nat :
        m = Len(ring) + 1 => \A j \in 0 .. m - 1 : \A p \in 1 .. Len(stk[t]) :
            Calm(t) /\ IsHooked(p, t, f, c) /\ EntryAt(j, t, f, d)
                => Gone(t, f, d, c, j, m) \/ Inside(t, f, d, p)

RingLeaves ==
    \A t \in Threads, f \in Funcs, c \in Nat, i \in 1 .. Len(ring) :
        mishaps[t] = {} /\ IsExit(i, t, f, c) /\ ~ring[i].again /\ ring[i].leaf
            => ring[i].from = c /\ Latest(t, f, c, i)

StackLeaves ==
    \A t \in Threads, f \in Funcs, c \in Nat, m \in Nat :
        m = Len(ring) + 1 => \A p \in 1 .. Len(stk[t]) :
            mishaps[t] = {} /\ IsHooked(p, t, f, c) /\ stk[t][p].leaf
                => /\ entry_times[t] = c
                   /\ Latest(t, f, c, m)
                   /\ \A q \in 1 .. p - 1 : ~stk[t][q].hooked /\ ~stk[t][q].seen

\* An exit record of a further link follows one of the same call: it finds neither a
\* timestamp nor an entry in the cache.
RingRepeats ==
    \A t \in Threads, f \in Funcs, c \in Nat, i \in 1 .. Len(ring) :
        Calm(t) /\ IsExit(i, t, f, c) /\ ring[i].again
            => ring[i].from = None /\ JustLeft(t, f, i)

\* The same for the exit program that a thread is still to run.
HitLeft ==
    \A t \in Threads, m \in Nat :
        m = Len(ring) + 1 /\ Calm(t) /\ hit[t].left # {} /\ hit[t].prog = "exit"
            => JustLeft(t, hit[t].func, m)

\* A call whose return is probed was entered when both probes were there.
FramesHooked ==
    \A t \in Threads : \A p \in 1 .. Len(stk[t]) :
        stk[t][p].hooked => /\ stk[t][p].seen /\ stk[t][p].call # None
                            /\ Probed(stk[t][p].func, "exit")

\* So were the calls of the same function inside of it.
HookedAlike ==
    \A t \in Threads : \A p \in 1 .. Len(stk[t]) : \A q \in 1 .. p - 1 :
        stk[t][p].hooked /\ stk[t][q].func = stk[t][p].func => stk[t][q].hooked

Paired ==
    /\ RingPaired /\ StackPaired
    /\ RingLeaves /\ StackLeaves
    /\ RingRepeats /\ HitLeft
    /\ FramesHooked /\ HookedAlike

PairingInv ==
    /\ Live => Paired
    /\ ParamsOwn
    /\ LeafExact

--------------------------------------------------------------------------------
(* What a step does to these parts of the state *)

\* The frames behind the entry of a function, with all their fields.
LEMMA EnterFrames ==
    ASSUME TypeOK, NEW t \in Threads, NEW f \in Funcs, Enter(t, f)
    PROVE  /\ Len(stk[t]) \in Nat /\ Len(stk'[t]) = Len(stk[t]) + 1
           /\ stk'[t][1] = [call |-> calls + 1, func |-> f,
                            seen |-> Probed(f, "entry"),
                            hooked |-> Probed(f, "exit"), leaf |-> TRUE]
           /\ \A i \in 1 .. Len(stk[t]) :
                stk'[t][i + 1] = [stk[t][i] EXCEPT !.leaf = @ /\ ~Probed(f, "entry")]
           /\ \A u \in Threads \ {t} : stk'[u] = stk[u]
<1> DEFINE seen == Probed(f, "entry")
           frame == [call |-> calls + 1, func |-> f, seen |-> seen,
                     hooked |-> Probed(f, "exit"), leaf |-> TRUE]
           callers == [i \in 1 .. Len(stk[t]) |->
                          [stk[t][i] EXCEPT !.leaf = @ /\ ~seen]]
<1>1. stk' = [stk EXCEPT ![t] = <<frame>> \o callers]
  BY DEF Enter
<1>2. stk \in [Threads -> Seq(Frame)] /\ stk[t] \in Seq(Frame) /\ calls \in Nat
      /\ Len(stk[t]) \in Nat
  BY DEF TypeOK
<1>3. frame \in Frame
  <2>1. seen \in BOOLEAN /\ Probed(f, "exit") \in BOOLEAN /\ calls + 1 \in Nat
    BY <1>2 DEF Probed
  <2> HIDE DEF seen
  <2>2. QED
    BY <2>1 DEF Frame, Call
<1>4. ASSUME NEW i \in 1 .. Len(stk[t])
      PROVE  callers[i] \in Frame
  <2>1. stk[t][i] \in Frame /\ (stk[t][i].leaf /\ ~seen) \in BOOLEAN
    BY <1>2
  <2>2. callers[i] = [stk[t][i] EXCEPT !.leaf = @ /\ ~seen]
    OBVIOUS
  <2> HIDE DEF seen, callers
  <2>3. QED
    BY <2>1, <2>2 DEF Frame
<1>5. callers \in [1 .. Len(stk[t]) -> Frame]
  BY <1>4
<1>6. callers \in Seq(Frame) /\ Len(callers) = Len(stk[t])
  <2>1. Len(stk[t]) \in Nat
    BY <1>2
  <2>2. QED
    BY <1>5, <2>1
<1>7. /\ Len(<<frame>> \o callers) = Len(callers) + 1
      /\ (<<frame>> \o callers)[1] = frame
      /\ \A i \in 1 .. Len(callers) : (<<frame>> \o callers)[i + 1] = callers[i]
  <2> HIDE DEF frame, callers
  <2>1. QED
    BY <1>3, <1>6, ConsMoves
<1>8. stk'[t] = <<frame>> \o callers /\ \A u \in Threads \ {t} : stk'[u] = stk[u]
  BY <1>1, <1>2
<1>9. ASSUME NEW i \in 1 .. Len(stk[t])
      PROVE  stk'[t][i + 1] = [stk[t][i] EXCEPT !.leaf = @ /\ ~Probed(f, "entry")]
  <2>1. stk'[t][i + 1] = callers[i]
    BY <1>6, <1>7, <1>8
  <2>2. callers[i] = [stk[t][i] EXCEPT !.leaf = @ /\ ~seen]
    OBVIOUS
  <2>3. QED
    BY <2>1, <2>2
<1>10. Len(stk'[t]) = Len(stk[t]) + 1 /\ stk'[t][1] = frame
  <2> HIDE DEF frame, callers
  <2>1. QED
    BY <1>6, <1>7, <1>8
<1>11. QED
  BY <1>2, <1>8, <1>9, <1>10

\* A record is added at the end, or lost.
LEMMA SubmitAdds ==
    ASSUME TypeOK, NEW ev \in RawEvent, Submit(ev)
    PROVE  /\ Len(ring) \in Nat
           /\ \A k \in 1 .. Len(ring) : ring'[k] = ring[k]
           /\ RingHasRoom => Len(ring') = Len(ring) + 1 /\ ring'[Len(ring) + 1] = ev
           /\ ~RingHasRoom => ring' = ring
<1>1. ring \in Seq(RawEvent) /\ Len(ring) \in Nat
  BY DEF TypeOK
<1>2. CASE RingHasRoom
  <2>1. ring' = Append(ring, ev)
    BY <1>2 DEF Submit
  <2>2. /\ Len(Append(ring, ev)) = Len(ring) + 1
        /\ \A i \in 1 .. Len(ring) + 1 :
             Append(ring, ev)[i] = IF i = Len(ring) + 1 THEN ev ELSE ring[i]
    BY <1>1, AppendAll
  <2>3. Len(ring) + 1 \in 1 .. Len(ring) + 1
        /\ \A k \in 1 .. Len(ring) : k \in 1 .. Len(ring) + 1 /\ k # Len(ring) + 1
    BY <1>1
  <2>4. QED
    BY <1>1, <1>2, <2>1, <2>2, <2>3
<1>3. CASE ~RingHasRoom
  BY <1>1, <1>3 DEF Submit
<1>4. QED
  BY <1>2, <1>3

\* As long as records are only added, places keep what stands there.
LEMMA PlacesKept ==
    ASSUME Len(ring) \in Nat, \A k \in 1 .. Len(ring) : ring'[k] = ring[k],
           entry_cache' = entry_cache
    PROVE  /\ \A t, f, c : \A k \in 1 .. Len(ring) :
                IsEntry(k, t, f, c)' = IsEntry(k, t, f, c)
                /\ IsExit(k, t, f, c)' = IsExit(k, t, f, c)
           /\ \A t, f, c : \A j \in 0 .. Len(ring) :
                EntryAt(j, t, f, c)' = EntryAt(j, t, f, c)
           /\ \A t, f, d, c : \A i \in 1 .. Len(ring) + 1 : \A j \in 0 .. i - 1 :
                Gone(t, f, d, c, j, i) => Gone(t, f, d, c, j, i)'
           /\ \A t, f, c : \A i \in 1 .. Len(ring) + 1 :
                Latest(t, f, c, i) => Latest(t, f, c, i)'
           /\ \A t, f : \A k \in 0 .. Len(ring) : LeftAt(k, t, f)' = LeftAt(k, t, f)
           /\ \A t, f : \A i \in 1 .. Len(ring) + 1 :
                JustLeft(t, f, i) => JustLeft(t, f, i)'
<1>1. \A t, f, c : \A k \in 1 .. Len(ring) :
        IsEntry(k, t, f, c)' = IsEntry(k, t, f, c)
        /\ IsExit(k, t, f, c)' = IsExit(k, t, f, c)
  BY DEF IsEntry, IsExit
<1>2. ASSUME NEW t, NEW f, NEW c, NEW j \in 0 .. Len(ring)
      PROVE  EntryAt(j, t, f, c)' = EntryAt(j, t, f, c)
  <2>1. CASE j = 0
    BY <2>1 DEF EntryAt
  <2>2. CASE j # 0
    <3>1. j \in 1 .. Len(ring)
      BY <2>2
    <3>2. QED
      BY <1>1, <2>2, <3>1 DEF EntryAt
  <2>3. QED
    BY <2>1, <2>2
<1>3. ASSUME NEW t, NEW f, NEW d, NEW c, NEW i \in 1 .. Len(ring) + 1,
             NEW j \in 0 .. i - 1, Gone(t, f, d, c, j, i)
      PROVE  Gone(t, f, d, c, j, i)'
  <2>1. \A k \in j + 1 .. i - 1 : k \in 1 .. Len(ring)
    OBVIOUS
  <2>2. QED
    BY <1>1, <1>3, <2>1 DEF Gone
<1>4. ASSUME NEW t, NEW f, NEW c, NEW i \in 1 .. Len(ring) + 1, Latest(t, f, c, i)
      PROVE  Latest(t, f, c, i)'
  <2>1. PICK j \in 0 .. i - 1 : /\ EntryAt(j, t, f, c)
                                /\ \A k \in j + 1 .. i - 1 : ring[k].tid # t
    BY <1>4 DEF Latest
  <2>2. j \in 0 .. Len(ring) /\ \A k \in j + 1 .. i - 1 : k \in 1 .. Len(ring)
    OBVIOUS
  <2>3. EntryAt(j, t, f, c)' /\ \A k \in j + 1 .. i - 1 : ring'[k].tid # t
    BY <1>2, <2>1, <2>2
  <2>4. QED
    BY <2>3 DEF Latest
<1>5. ASSUME NEW t, NEW f, NEW k \in 0 .. Len(ring)
      PROVE  LeftAt(k, t, f)' = LeftAt(k, t, f)
  <2>1. CASE k = 0
    BY <2>1 DEF LeftAt
  <2>2. CASE k # 0
    <3>1. k \in 1 .. Len(ring)
      BY <2>2
    <3>2. QED
      BY <2>2, <3>1 DEF LeftAt
  <2>3. QED
    BY <2>1, <2>2
<1>6. ASSUME NEW t, NEW f, NEW i \in 1 .. Len(ring) + 1, JustLeft(t, f, i)
      PROVE  JustLeft(t, f, i)'
  <2>1. PICK j \in 0 .. i - 1 : /\ LeftAt(j, t, f)
                                /\ \A k \in j + 1 .. i - 1 : ring[k].tid # t
    BY <1>6 DEF JustLeft
  <2>2. j \in 0 .. Len(ring) /\ \A k \in j + 1 .. i - 1 : k \in 1 .. Len(ring)
    OBVIOUS
  <2>3. LeftAt(j, t, f)' /\ \A k \in j + 1 .. i - 1 : ring'[k].tid # t
    BY <1>5, <2>1, <2>2
  <2>4. QED
    BY <2>3 DEF JustLeft
<1>7. QED
  BY <1>1, <1>2, <1>3, <1>4, <1>5, <1>6

--------------------------------------------------------------------------------
(* Steps of the target: thread t adds a record at most *)

Grows(t) ==
    /\ Len(ring) \in Nat /\ Len(ring') \in {Len(ring), Len(ring) + 1}
    /\ \A k \in 1 .. Len(ring) : ring'[k] = ring[k]
    /\ Len(ring') = Len(ring) + 1 => ring'[Len(ring) + 1].tid = t
    /\ entry_cache' = entry_cache
    /\ \A u \in Threads : mishaps[u] \subseteq mishaps'[u]

\* A thread that is calm is one that was.
LEMMA CalmBefore ==
    ASSUME NEW u \in Threads, mishaps[u] \subseteq mishaps'[u]
    PROVE  (Calm(u)' => Calm(u)) /\ (mishaps'[u] = {} => mishaps[u] = {})
BY DEF Calm

\* The exits that were in the ring buffer stay paired.
LEMMA OldExits ==
    ASSUME NEW t \in Threads, Grows(t), RingPaired, RingLeaves, RingRepeats,
           NEW u \in Threads, NEW f \in Funcs, NEW c \in Nat, NEW i \in 1 .. Len(ring),
           IsExit(i, u, f, c)'
    PROVE  /\ \A d \in Nat : \A j \in 0 .. i - 1 :
                Calm(u)' /\ ~ring'[i].again /\ EntryAt(j, u, f, d)'
                    => Gone(u, f, d, c, j, i)'
           /\ mishaps'[u] = {} /\ ~ring'[i].again /\ ring'[i].leaf
                => ring'[i].from = c /\ Latest(u, f, c, i)'
           /\ Calm(u)' /\ ring'[i].again
                => ring'[i].from = None /\ JustLeft(u, f, i)'
<1>1. /\ Len(ring) \in Nat /\ \A k \in 1 .. Len(ring) : ring'[k] = ring[k]
      /\ entry_cache' = entry_cache /\ mishaps[u] \subseteq mishaps'[u]
  BY DEF Grows
<1>2. IsExit(i, u, f, c) /\ ring'[i] = ring[i]
  BY <1>1, PlacesKept
<1>3. ASSUME NEW d \in Nat, NEW j \in 0 .. i - 1, Calm(u)', ~ring'[i].again,
             EntryAt(j, u, f, d)'
      PROVE  Gone(u, f, d, c, j, i)'
  <2>1. j \in 0 .. Len(ring) /\ i \in 1 .. Len(ring) + 1
    BY <1>1
  <2>2. EntryAt(j, u, f, d) /\ Calm(u)
    BY <1>1, <1>3, <2>1, PlacesKept, CalmBefore
  <2>3. Gone(u, f, d, c, j, i)
    BY <1>2, <1>3, <2>2 DEF RingPaired
  <2>4. QED
    BY <1>1, <2>1, <2>3, PlacesKept
<1>4. ASSUME mishaps'[u] = {}, ~ring'[i].again, ring'[i].leaf
      PROVE  ring'[i].from = c /\ Latest(u, f, c, i)'
  <2>1. ring[i].from = c /\ Latest(u, f, c, i)
    BY <1>1, <1>2, <1>4, CalmBefore DEF RingLeaves
  <2>2. i \in 1 .. Len(ring) + 1
    BY <1>1
  <2>3. QED
    BY <1>1, <1>2, <2>1, <2>2, PlacesKept
<1>5. ASSUME Calm(u)', ring'[i].again
      PROVE  ring'[i].from = None /\ JustLeft(u, f, i)'
  <2>1. ring[i].from = None /\ JustLeft(u, f, i)
    BY <1>1, <1>2, <1>5, CalmBefore DEF RingRepeats
  <2>2. i \in 1 .. Len(ring) + 1
    BY <1>1
  <2>3. QED
    BY <1>1, <1>2, <2>1, <2>2, PlacesKept
<1>6. QED
  BY <1>3, <1>4, <1>5

\* What is gone in front of the end stays gone, and a record of another thread
\* leaves what is latest.
LEMMA EndMoves ==
    ASSUME NEW t \in Threads, Grows(t), NEW u, NEW f, NEW c,
           NEW m, m = Len(ring') + 1
    PROVE  /\ \A d : \A j \in 0 .. Len(ring) :
                Gone(u, f, d, c, j, Len(ring) + 1) => Gone(u, f, d, c, j, m)'
           /\ Latest(u, f, c, Len(ring) + 1) /\ (u # t \/ ring' = ring)
                => Latest(u, f, c, m)'
           /\ JustLeft(u, f, Len(ring) + 1) /\ (u # t \/ ring' = ring)
                => JustLeft(u, f, m)'
<1>1. /\ Len(ring) \in Nat /\ \A k \in 1 .. Len(ring) : ring'[k] = ring[k]
      /\ entry_cache' = entry_cache
      /\ m \in Nat /\ (m = Len(ring) + 1 \/ m = Len(ring) + 2)
      /\ m = Len(ring) + 2 => ring'[Len(ring) + 1].tid = t
  BY DEF Grows
<1>2. ASSUME NEW d, NEW j \in 0 .. Len(ring), Gone(u, f, d, c, j, Len(ring) + 1)
      PROVE  Gone(u, f, d, c, j, m)'
  <2>1. CASE d = c
    BY <2>1 DEF Gone
  <2>2. CASE d # c
    <3>1. PICK k \in j + 1 .. Len(ring) : IsEntry(k, u, f, c) \/ IsExit(k, u, f, d)
      BY <1>1, <1>2, <2>2 DEF Gone
    <3>2. k \in 1 .. Len(ring) /\ k \in j + 1 .. m - 1
      BY <1>1, <3>1
    <3>3. (IsEntry(k, u, f, c) \/ IsExit(k, u, f, d))'
      BY <1>1, <3>1, <3>2, PlacesKept
    <3>4. QED
      BY <3>2, <3>3 DEF Gone
  <2>3. QED
    BY <2>1, <2>2
<1>3. ASSUME Latest(u, f, c, Len(ring) + 1), u # t \/ ring' = ring
      PROVE  Latest(u, f, c, m)'
  <2>1. PICK j \in 0 .. Len(ring) : /\ EntryAt(j, u, f, c)
                                   /\ \A k \in j + 1 .. Len(ring) : ring[k].tid # u
    BY <1>1, <1>3 DEF Latest
  <2>2. EntryAt(j, u, f, c)' /\ j \in 0 .. m - 1
    BY <1>1, <2>1, PlacesKept
  <2>3. ASSUME NEW k \in j + 1 .. m - 1
        PROVE  ring'[k].tid # u
    <3>1. CASE k \in 1 .. Len(ring)
      <4>1. k \in j + 1 .. Len(ring)
        BY <2>1, <2>3, <3>1
      <4>2. QED
        BY <1>1, <2>1, <3>1, <4>1
    <3>2. CASE k = Len(ring) + 1 /\ m = Len(ring) + 2
      <4>1. Len(ring') # Len(ring)
        BY <1>1, <3>2
      <4>2. QED
        BY <1>1, <1>3, <3>2, <4>1
    <3>3. QED
      BY <1>1, <2>1, <2>3, <3>1, <3>2
  <2>4. QED
    BY <2>2, <2>3 DEF Latest
<1>4. ASSUME JustLeft(u, f, Len(ring) + 1), u # t \/ ring' = ring
      PROVE  JustLeft(u, f, m)'
  <2>1. PICK j \in 0 .. Len(ring) : /\ LeftAt(j, u, f)
                                   /\ \A k \in j + 1 .. Len(ring) : ring[k].tid # u
    BY <1>1, <1>4 DEF JustLeft
  <2>2. LeftAt(j, u, f)' /\ j \in 0 .. m - 1
    BY <1>1, <2>1, PlacesKept
  <2>3. ASSUME NEW k \in j + 1 .. m - 1
        PROVE  ring'[k].tid # u
    <3>1. CASE k \in 1 .. Len(ring)
      <4>1. k \in j + 1 .. Len(ring)
        BY <2>1, <2>3, <3>1
      <4>2. QED
        BY <1>1, <2>1, <3>1, <4>1
    <3>2. CASE k = Len(ring) + 1 /\ m = Len(ring) + 2
      <4>1. Len(ring') # Len(ring)
        BY <1>1, <3>2
      <4>2. QED
        BY <1>1, <1>4, <3>2, <4>1
    <3>3. QED
      BY <1>1, <2>1, <2>3, <3>1, <3>2
  <2>4. QED
    BY <2>2, <2>3 DEF JustLeft
<1>5. QED
  BY <1>2, <1>3, <1>4

\* The other threads' frames stay paired.
LEMMA OtherStacks ==
    ASSUME NEW t \in Threads, Grows(t), StackPaired, StackLeaves,
           NEW u \in Threads, u # t, stk'[u] = stk[u], entry_times'[u] = entry_times[u],
           NEW f \in Funcs, NEW c \in Nat, NEW m \in Nat, m = Len(ring') + 1,
           NEW p \in 1 .. Len(stk'[u]), IsHooked(p, u, f, c)'
    PROVE  /\ \A d \in Nat : \A j \in 0 .. m - 1 :
                Calm(u)' /\ EntryAt(j, u, f, d)'
                    => Gone(u, f, d, c, j, m)' \/ Inside(u, f, d, p)'
           /\ mishaps'[u] = {} /\ stk'[u][p].leaf
                => /\ entry_times'[u] = c
                   /\ Latest(u, f, c, m)'
                   /\ \A q \in 1 .. p - 1 : ~stk'[u][q].hooked /\ ~stk'[u][q].seen
<1>1. /\ Len(ring) \in Nat /\ \A k \in 1 .. Len(ring) : ring'[k] = ring[k]
      /\ entry_cache' = entry_cache /\ mishaps[u] \subseteq mishaps'[u]
      /\ m = Len(ring) + 1 \/ m = Len(ring) + 2
      /\ m = Len(ring) + 2 => ring'[Len(ring) + 1].tid = t
  BY DEF Grows
<1>2. IsHooked(p, u, f, c) /\ p \in 1 .. Len(stk[u])
  BY DEF IsHooked
<1>3. ASSUME NEW d \in Nat, NEW j \in 0 .. m - 1, Calm(u)', EntryAt(j, u, f, d)'
      PROVE  Gone(u, f, d, c, j, m)' \/ Inside(u, f, d, p)'
  <2>1. j \in 0 .. Len(ring)
    <3>1. CASE m = Len(ring) + 2 /\ j = Len(ring) + 1
      <4>1. ring'[j].tid = u /\ ring'[j].tid = t
        BY <1>1, <1>3, <3>1 DEF EntryAt, IsEntry
      <4>2. QED
        BY <4>1
    <3>2. QED
      BY <1>1, <1>3, <3>1
  <2>2. EntryAt(j, u, f, d) /\ Calm(u)
    BY <1>1, <1>3, <2>1, PlacesKept, CalmBefore
  <2>3. Gone(u, f, d, c, j, Len(ring) + 1) \/ Inside(u, f, d, p)
    <3>1. Len(ring) + 1 \in Nat /\ j \in 0 .. (Len(ring) + 1) - 1
      BY <1>1, <2>1
    <3>2. QED
      BY <1>2, <2>2, <3>1 DEF StackPaired
  <2>4. CASE Inside(u, f, d, p)
    BY <2>4 DEF Inside, IsHooked
  <2>5. CASE Gone(u, f, d, c, j, Len(ring) + 1)
    BY <2>1, <2>5, EndMoves
  <2>6. QED
    BY <2>3, <2>4, <2>5
<1>4. ASSUME mishaps'[u] = {}, stk'[u][p].leaf
      PROVE  /\ entry_times'[u] = c
             /\ Latest(u, f, c, m)'
             /\ \A q \in 1 .. p - 1 : ~stk'[u][q].hooked /\ ~stk'[u][q].seen
  <2>1. mishaps[u] = {} /\ stk[u][p].leaf /\ Len(ring) + 1 \in Nat
    BY <1>1, <1>4, CalmBefore
  <2>2. /\ entry_times[u] = c
        /\ Latest(u, f, c, Len(ring) + 1)
        /\ \A q \in 1 .. p - 1 : ~stk[u][q].hooked /\ ~stk[u][q].seen
    BY <1>2, <2>1 DEF StackLeaves
  <2>3. Latest(u, f, c, m)'
    BY <2>2, EndMoves
  <2>4. QED
    BY <2>2, <2>3
<1>5. QED
  BY <1>3, <1>4

\* What the other threads are stopped at stays as it was.
LEMMA OtherHits ==
    ASSUME NEW t \in Threads, Grows(t), HitLeft,
           NEW u \in Threads, u # t, hit'[u] = hit[u], NEW m \in Nat,
           m = Len(ring') + 1, Calm(u)', hit'[u].left # {}, hit'[u].prog = "exit"
    PROVE  JustLeft(u, hit[u].func, m)'
<1>1. Len(ring) \in Nat /\ mishaps[u] \subseteq mishaps'[u]
  BY DEF Grows
<1>2. Calm(u)
  BY <1>1, CalmBefore
<1>n. PICK n \in Nat : n = Len(ring) + 1
  BY <1>1
<1>3. PICK f : f = hit[u].func
  OBVIOUS
<1>4. JustLeft(u, f, n)
  BY <1>2, <1>n, <1>3 DEF HitLeft
<1>5. JustLeft(u, f, m)'
  BY <1>n, <1>4, EndMoves
<1>6. f = hit'[u].func
  BY <1>3
<1>7. QED
  BY <1>3, <1>5, <1>6 DEF JustLeft, LeftAt

--------------------------------------------------------------------------------
(* A call begins *)

\* The entry record is the last one, or lost.
LEMMA EnterRecord ==
    ASSUME TypeOK, NEW t \in Threads, NEW f \in Funcs, Enter(t, f),
           NEW n, n = Len(ring) + 1, NEW c, c = calls + 1
    PROVE  /\ Grows(t)
           /\ Probed(f, "entry")
                => /\ \/ "dropped" \in mishaps'[t]
                      \/ Len(ring') = n /\ IsEntry(n, t, f, c)'
                   /\ entry_times'[t] = c \/ "unstored" \in mishaps'[t]
           /\ ~Probed(f, "entry") => UNCHANGED <<entry_times, ring, mishaps>>
<1>1. calls \in Nat /\ Len(ring) \in Nat /\ entry_cache' = entry_cache
  BY DEF TypeOK, Enter, userVars
<1>2. CASE Probed(f, "entry")
  <2>1. uprobe_entry(t, f, c)
    BY <1>2 DEF Enter
  <2> DEFINE ev == [is_exit |-> FALSE, tid |-> t, func |-> f, call |-> c,
                    from |-> None, leaf |-> FALSE, again |-> FALSE]
             m == (IF MapHasRoom(t) THEN {} ELSE {"unstored"})
                    \cup (IF RingHasRoom THEN {} ELSE {"dropped"})
  <2>2. ev \in RawEvent /\ Submit(ev)
    BY <1>1, <2>1 DEF RawEvent, Call, None, uprobe_entry
  <2>3. m \in SUBSET Mishaps /\ Mishap(t, m)
    BY <2>1 DEF uprobe_entry, Mishaps
  <2>4. /\ ~MapHasRoom(t) => "unstored" \in m
        /\ ~RingHasRoom => "dropped" \in m
    OBVIOUS
  <2>5. ev.tid = t /\ ~ev.is_exit /\ ev.func = f /\ ev.call = c
    OBVIOUS
  <2> HIDE DEF ev, m
  <2>6. /\ \A k \in 1 .. Len(ring) : ring'[k] = ring[k]
        /\ RingHasRoom => Len(ring') = n /\ ring'[n] = ev
        /\ ~RingHasRoom => ring' = ring
    BY <2>2, SubmitAdds
  <2>7. /\ mishaps'[t] = mishaps[t] \cup m
        /\ \A u \in Threads : mishaps[u] \subseteq mishaps'[u]
    BY <2>3, MishapType
  <2>8. Grows(t)
    BY <1>1, <2>5, <2>6, <2>7 DEF Grows
  <2>9. \/ "dropped" \in mishaps'[t]
        \/ Len(ring') = n /\ ring'[n] = ev
    BY <2>4, <2>6, <2>7
  <2>10. ring'[n] = ev => IsEntry(n, t, f, c)'
    <3> SUFFICES ASSUME ring'[n] = ev
                 PROVE  IsEntry(n, t, f, c)'
      OBVIOUS
    <3>1. QED
      BY <2>5 DEF IsEntry
  <2>11. MapHasRoom(t) => entry_times'[t] = c
    BY <2>1 DEF uprobe_entry, TimesAfterEntry, Key, TypeOK
  <2>12. QED
    BY <1>2, <2>4, <2>7, <2>8, <2>9, <2>10, <2>11
<1>3. CASE ~Probed(f, "entry")
  <2>1. UNCHANGED <<entry_times, ring, mishaps>>
    BY <1>3 DEF Enter
  <2>2. QED
    BY <1>1, <1>3, <2>1 DEF Grows
<1>4. QED
  BY <1>2, <1>3

\* The frame in front and the ones behind it, after the entry of f.
LEMMA EnterOwnFrames ==
    ASSUME WatchInv, Paired, NEW t \in Threads, NEW f \in Funcs, Enter(t, f)
    PROVE  /\ Len(stk[t]) \in Nat /\ Len(stk'[t]) = Len(stk[t]) + 1
           /\ \A g, c : IsHooked(1, t, g, c)'
                => g = f /\ c = calls + 1 /\ Probed(f, "entry")
           /\ Probed(f, "exit")
                => \A c : c = calls + 1 => IsHooked(1, t, f, c)'
           /\ ~Probed(f, "entry") => ~stk'[t][1].hooked /\ ~stk'[t][1].seen
           /\ \A i \in 1 .. Len(stk[t]) :
                /\ \A g, c : IsHooked(i + 1, t, g, c)' = IsHooked(i, t, g, c)
                /\ stk'[t][i + 1].hooked = stk[t][i].hooked
                /\ stk'[t][i + 1].seen = stk[t][i].seen
                /\ stk'[t][i + 1].leaf => stk[t][i].leaf /\ ~Probed(f, "entry")
<1>1. TypeOK /\ (Probed(f, "exit") => Probed(f, "entry"))
  BY ProbedPaired DEF WatchInv
<1>2. /\ Len(stk[t]) \in Nat /\ Len(stk'[t]) = Len(stk[t]) + 1
      /\ stk'[t][1] = [call |-> calls + 1, func |-> f,
                       seen |-> Probed(f, "entry"),
                       hooked |-> Probed(f, "exit"), leaf |-> TRUE]
      /\ \A i \in 1 .. Len(stk[t]) :
           stk'[t][i + 1] = [stk[t][i] EXCEPT !.leaf = @ /\ ~Probed(f, "entry")]
  BY <1>1, EnterFrames
<1>3. /\ stk'[t][1].call = calls + 1 /\ stk'[t][1].func = f
      /\ stk'[t][1].seen = (Probed(f, "entry"))
      /\ stk'[t][1].hooked = (Probed(f, "exit"))
  BY <1>2
<1>4. ASSUME NEW i \in 1 .. Len(stk[t])
      PROVE  /\ stk'[t][i + 1].hooked = stk[t][i].hooked
             /\ stk'[t][i + 1].seen = stk[t][i].seen
             /\ stk'[t][i + 1].func = stk[t][i].func
             /\ stk'[t][i + 1].call = stk[t][i].call
             /\ stk'[t][i + 1].leaf => stk[t][i].leaf /\ ~Probed(f, "entry")
  <2>1. stk[t][i] \in Frame
    BY <1>1, FramesTyped
  <2>2. stk'[t][i + 1] = [stk[t][i] EXCEPT !.leaf = @ /\ ~Probed(f, "entry")]
    BY <1>2
  <2>3. QED
    BY <2>1, <2>2 DEF Frame
<1>5. ASSUME NEW i \in 1 .. Len(stk[t]), NEW g, NEW c
      PROVE  IsHooked(i + 1, t, g, c)' = IsHooked(i, t, g, c)
  BY <1>4 DEF IsHooked
<1>6. \A g, c : IsHooked(1, t, g, c)'
        => g = f /\ c = calls + 1 /\ Probed(f, "entry")
  BY <1>1, <1>3, Zenon DEF IsHooked
<1>7. Probed(f, "exit") => \A c : c = calls + 1 => IsHooked(1, t, f, c)'
  BY <1>3, Zenon DEF IsHooked
<1>8. ~Probed(f, "entry") => ~stk'[t][1].hooked /\ ~stk'[t][1].seen
  BY <1>1, <1>3, Zenon
<1>9. QED
  BY <1>2, <1>4, <1>5, <1>6, <1>7, <1>8

\* The frames of the thread that calls f stay paired.
LEMMA EnterStackPaired ==
    ASSUME WatchInv, Paired, NEW t \in Threads, NEW f \in Funcs, Enter(t, f),
           NEW g \in Funcs, NEW c \in Nat, NEW d \in Nat, NEW m \in Nat,
           m = Len(ring') + 1, NEW j \in 0 .. m - 1, NEW p \in 1 .. Len(stk'[t]),
           Calm(t)', IsHooked(p, t, g, c)', EntryAt(j, t, g, d)'
    PROVE  Gone(t, g, d, c, j, m)' \/ Inside(t, g, d, p)'
<1>t. TypeOK /\ calls \in Nat /\ Len(ring) \in Nat /\ Len(stk[t]) \in Nat
  BY FramesTyped DEF WatchInv, TypeOK
<1>n. PICK n \in Nat : n = Len(ring) + 1
  BY <1>t
<1>e. PICK e \in Nat : e = calls + 1
  BY <1>t
<1>1. /\ Len(stk'[t]) = Len(stk[t]) + 1
      /\ IsHooked(1, t, g, c)' => g = f /\ c = e /\ Probed(f, "entry")
      /\ Probed(f, "exit") => IsHooked(1, t, f, e)'
      /\ \A i \in 1 .. Len(stk[t]) :
           \A b, a : IsHooked(i + 1, t, b, a)' = IsHooked(i, t, b, a)
  BY <1>e, EnterOwnFrames
<1>2. /\ Grows(t)
      /\ Probed(f, "entry") => Len(ring') = n /\ IsEntry(n, t, f, e)'
      /\ ~Probed(f, "entry") => ring' = ring
  <2>1. "dropped" \notin mishaps'[t]
    BY DEF Calm
  <2>2. QED
    BY <1>t, <1>n, <1>e, <2>1, EnterRecord
<1>3. /\ entry_cache' = entry_cache /\ mishaps[t] \subseteq mishaps'[t]
      /\ \A k \in 1 .. Len(ring) : ring'[k] = ring[k]
      /\ m = n \/ (m = n + 1 /\ Len(ring') = n)
      /\ j \in 0 .. Len(ring) \/ j = n
  <2>1. /\ entry_cache' = entry_cache /\ mishaps[t] \subseteq mishaps'[t]
        /\ \A k \in 1 .. Len(ring) : ring'[k] = ring[k]
    BY <1>2 DEF Grows
  <2>2. Len(ring) \in Nat /\ (Len(ring') = Len(ring) \/ Len(ring') = Len(ring) + 1)
    BY <1>2 DEF Grows
  <2>3. m = n \/ (m = n + 1 /\ Len(ring') = n)
    BY <1>n, <2>2
  <2>4. j \in 0 .. Len(ring) \/ j = n
    BY <1>n, <2>2
  <2>5. QED
    BY <2>1, <2>3, <2>4
\* The new frame: its entry record is behind every other entry.
<1>4. CASE p = 1
  <2>1. g = f /\ c = e /\ Len(ring') = n /\ IsEntry(n, t, g, c)'
    BY <1>1, <1>2, <1>4
  <2>2. CASE j = n
    <3>1. d = c
      BY <1>n, <2>1, <2>2 DEF EntryAt, IsEntry
    <3>2. QED
      BY <3>1 DEF Gone
  <2>3. CASE j \in 0 .. Len(ring)
    <3>1. n \in j + 1 .. m - 1
      BY <1>n, <2>1, <2>3
    <3>2. QED
      BY <2>1, <3>1 DEF Gone
  <2>4. QED
    BY <1>3, <2>2, <2>3
\* A frame behind it: the new call is inside of it.
<1>5. CASE p # 1
  <2>1. PICK i \in 1 .. Len(stk[t]) : p = i + 1
    <3>1. p - 1 \in 1 .. Len(stk[t]) /\ p = (p - 1) + 1
      BY <1>t, <1>1, <1>5
    <3>2. QED
      BY <3>1
  <2>2. IsHooked(i, t, g, c)
    BY <1>1, <2>1
  <2>3. CASE j \in 0 .. Len(ring)
    <3>1. EntryAt(j, t, g, d) /\ Calm(t)
      BY <1>t, <1>3, <2>3, PlacesKept, CalmBefore
    <3>2. Gone(t, g, d, c, j, n) \/ Inside(t, g, d, i)
      <4>1. j \in 0 .. n - 1
        BY <1>n, <2>3
      <4>2. QED
        BY <1>n, <2>2, <3>1, <4>1 DEF Paired, StackPaired
    <3>3. CASE Gone(t, g, d, c, j, n)
      BY <1>n, <1>2, <2>3, <3>3, EndMoves
    <3>4. CASE Inside(t, g, d, i)
      <4>1. PICK q \in 1 .. i - 1 : IsHooked(q, t, g, d)
        BY <3>4 DEF Inside
      <4>2. q \in 1 .. Len(stk[t]) /\ q + 1 \in 1 .. p - 1
        BY <1>t, <2>1, <4>1
      <4>3. IsHooked(q + 1, t, g, d)'
        BY <1>1, <4>1, <4>2
      <4>4. QED
        BY <4>2, <4>3 DEF Inside
    <3>5. QED
      BY <3>2, <3>3, <3>4
  <2>4. CASE j = n /\ m = n + 1
    <3>1. IsEntry(n, t, f, e)'
      <4>1. ring' # ring
        BY <1>n, <1>3, <2>4
      <4>2. QED
        BY <1>2, <4>1
    <3>2. g = f /\ d = e
      BY <1>n, <2>4, <3>1 DEF EntryAt, IsEntry
    <3>3. Probed(f, "exit")
      BY <2>2, <3>2 DEF IsHooked, Paired, FramesHooked
    <3>4. IsHooked(1, t, g, d)' /\ 1 \in 1 .. p - 1
      BY <1>1, <1>5, <2>1, <3>2, <3>3
    <3>5. QED
      BY <3>4 DEF Inside
  <2>5. j \in 0 .. Len(ring) \/ (j = n /\ m = n + 1)
    BY <1>n, <1>3
  <2>6. QED
    BY <2>3, <2>4, <2>5
<1>6. QED
  BY <1>4, <1>5

\* The same for a given function and call.
LEMMA EnterOwnCall ==
    ASSUME WatchInv, Paired, NEW t \in Threads, NEW f \in Funcs, Enter(t, f),
           NEW g, NEW c
    PROVE  /\ IsHooked(1, t, g, c)'
                => g = f /\ c = calls + 1 /\ Probed(f, "entry")
           /\ \A i \in 1 .. Len(stk[t]) : IsHooked(i + 1, t, g, c)' => IsHooked(i, t, g, c)
<1>1. IsHooked(1, t, g, c)' => g = f /\ c = calls + 1 /\ Probed(f, "entry")
  <2>1. TypeOK /\ (Probed(f, "exit") => Probed(f, "entry"))
    BY ProbedPaired DEF WatchInv
  <2>2. stk'[t][1] = [call |-> calls + 1, func |-> f,
                      seen |-> Probed(f, "entry"),
                      hooked |-> Probed(f, "exit"), leaf |-> TRUE]
    BY <2>1, EnterFrames
  <2>3. /\ stk'[t][1].call = calls + 1 /\ stk'[t][1].func = f
        /\ stk'[t][1].hooked = (Probed(f, "exit"))
    BY <2>2
  <2>4. QED
    BY <2>1, <2>3, Zenon DEF IsHooked
<1>2. \A i \in 1 .. Len(stk[t]) : IsHooked(i + 1, t, g, c)' => IsHooked(i, t, g, c)
  BY EnterOwnFrames DEF IsHooked
<1>3. QED
  BY <1>1, <1>2

\* A leaf among them has the time and the latest entry.
LEMMA EnterStackLeaves ==
    ASSUME WatchInv, Paired, NEW t \in Threads, NEW f \in Funcs, Enter(t, f),
           NEW g \in Funcs, NEW c \in Nat, NEW m \in Nat, m = Len(ring') + 1,
           NEW p \in 1 .. Len(stk'[t]),
           mishaps'[t] = {}, IsHooked(p, t, g, c)', stk'[t][p].leaf
    PROVE  /\ entry_times'[t] = c
           /\ Latest(t, g, c, m)'
           /\ \A q \in 1 .. p - 1 : ~stk'[t][q].hooked /\ ~stk'[t][q].seen
<1>t. TypeOK /\ calls \in Nat /\ Len(ring) \in Nat /\ Len(stk[t]) \in Nat
  BY FramesTyped DEF WatchInv, TypeOK
<1>n. PICK n \in Nat : n = Len(ring) + 1
  BY <1>t
<1>e. PICK e \in Nat : e = calls + 1
  BY <1>t
<1>0. /\ Len(stk'[t]) = Len(stk[t]) + 1
      /\ IsHooked(1, t, g, c)' => g = f /\ c = e /\ Probed(f, "entry")
      /\ ~Probed(f, "entry") => ~stk'[t][1].hooked /\ ~stk'[t][1].seen
  <2>1. Len(stk'[t]) = Len(stk[t]) + 1
    BY EnterOwnFrames, Zenon
  <2>2. IsHooked(1, t, g, c)' => g = f /\ c = e /\ Probed(f, "entry")
    BY <1>e, EnterOwnCall
  <2>3. ~Probed(f, "entry") => ~stk'[t][1].hooked /\ ~stk'[t][1].seen
    BY EnterOwnFrames, Zenon
  <2>4. QED
    BY <2>1, <2>2, <2>3
<1>1. ASSUME NEW i \in 1 .. Len(stk[t])
      PROVE  /\ IsHooked(i + 1, t, g, c)' => IsHooked(i, t, g, c)
             /\ stk'[t][i + 1].hooked = stk[t][i].hooked
             /\ stk'[t][i + 1].seen = stk[t][i].seen
             /\ stk'[t][i + 1].leaf => stk[t][i].leaf /\ ~Probed(f, "entry")
  <2>1. IsHooked(i + 1, t, g, c)' => IsHooked(i, t, g, c)
    BY EnterOwnCall
  <2>2. stk'[t][i + 1].hooked = stk[t][i].hooked /\ stk'[t][i + 1].seen = stk[t][i].seen
    BY EnterOwnFrames, Zenon
  <2>3. stk'[t][i + 1].leaf => stk[t][i].leaf /\ ~Probed(f, "entry")
    BY EnterOwnFrames, Zenon
  <2>4. QED
    BY <2>1, <2>2, <2>3
<1>2. /\ Grows(t)
      /\ Probed(f, "entry") => /\ Len(ring') = n /\ IsEntry(n, t, f, e)'
                                   /\ entry_times'[t] = e
      /\ ~Probed(f, "entry") => UNCHANGED <<entry_times, ring, mishaps>>
  BY <1>t, <1>n, <1>e, EnterRecord
<1>3. CASE p = 1
  <2>1. g = f /\ c = e /\ Probed(f, "entry")
    BY <1>0, <1>3
  <2>2. EntryAt(n, t, g, c)' /\ m = n + 1
    BY <1>n, <1>2, <2>1 DEF EntryAt
  <2>3. Latest(t, g, c, m)'
    <3>1. n \in 0 .. m - 1 /\ \A k \in n + 1 .. m - 1 : FALSE
      BY <2>2
    <3>2. QED
      BY <2>2, <3>1 DEF Latest
  <2>4. \A q \in 1 .. p - 1 : FALSE
    BY <1>3
  <2>5. QED
    BY <1>2, <2>1, <2>3, <2>4
<1>4. CASE p # 1
  <2>1. PICK i \in 1 .. Len(stk[t]) : p = i + 1
    <3>1. p - 1 \in 1 .. Len(stk[t]) /\ p = (p - 1) + 1
      BY <1>t, <1>0, <1>4
    <3>2. QED
      BY <3>1
  <2>2. IsHooked(i, t, g, c) /\ stk[t][i].leaf /\ ~Probed(f, "entry")
    <3>1. IsHooked(i + 1, t, g, c)' /\ stk'[t][i + 1].leaf
      BY <2>1
    <3>2. QED
      BY <1>1, <3>1
  <2>3. UNCHANGED <<entry_times, ring, mishaps>>
    BY <1>2, <2>2
  <2>4. /\ entry_times[t] = c
        /\ Latest(t, g, c, n)
        /\ \A q \in 1 .. i - 1 : ~stk[t][q].hooked /\ ~stk[t][q].seen
    BY <1>n, <2>2, <2>3 DEF Paired, StackLeaves
  <2>5. Latest(t, g, c, m)'
    BY <1>n, <1>2, <2>3, <2>4, EndMoves
  <2>6. ASSUME NEW q \in 1 .. p - 1
        PROVE  ~stk'[t][q].hooked /\ ~stk'[t][q].seen
    <3>1. CASE q = 1
      BY <1>0, <2>2, <3>1
    <3>2. CASE q # 1
      <4>1. PICK r \in 1 .. i - 1 : q = r + 1
        <5>1. q - 1 \in 1 .. i - 1 /\ q = (q - 1) + 1
          BY <2>1, <2>6, <3>2
        <5>2. QED
          BY <5>1
      <4>2. r \in 1 .. Len(stk[t])
        BY <1>t, <2>1, <4>1
      <4>3. QED
        BY <1>1, <2>4, <4>1, <4>2
    <3>3. QED
      BY <3>1, <3>2
  <2>7. QED
    BY <2>3, <2>4, <2>5, <2>6
<1>5. QED
  BY <1>3, <1>4

\* The calls of one function in a stack are hooked alike when one more begins.
LEMMA EnterHookedAlike ==
    ASSUME WatchInv, Paired, NEW t \in Threads, NEW f \in Funcs, Enter(t, f)
    PROVE  HookedAlike'
<1>1. TypeOK
  BY DEF WatchInv
<1>2. /\ Len(stk[t]) \in Nat /\ Len(stk'[t]) = Len(stk[t]) + 1
      /\ stk'[t][1].func = f /\ stk'[t][1].hooked = Probed(f, "exit")
      /\ \A u \in Threads \ {t} : stk'[u] = stk[u]
  <2>1. stk'[t][1] = [call |-> calls + 1, func |-> f, seen |-> Probed(f, "entry"),
                      hooked |-> Probed(f, "exit"), leaf |-> TRUE]
    BY <1>1, EnterFrames
  <2>2. stk'[t][1].func = f /\ stk'[t][1].hooked = Probed(f, "exit")
    BY <2>1
  <2>3. QED
    BY <1>1, <2>2, EnterFrames
<1>3. ASSUME NEW i \in 1 .. Len(stk[t])
      PROVE  /\ stk'[t][i + 1].hooked = stk[t][i].hooked
             /\ stk'[t][i + 1].func = stk[t][i].func
  <2>1. stk[t][i] \in Frame
        /\ stk'[t][i + 1] = [stk[t][i] EXCEPT !.leaf = @ /\ ~Probed(f, "entry")]
    BY <1>1, EnterFrames, FramesTyped
  <2>2. QED
    BY <2>1 DEF Frame
<1>4. ASSUME NEW u \in Threads, NEW p \in 1 .. Len(stk'[u]), NEW q \in 1 .. p - 1,
             stk'[u][p].hooked, stk'[u][q].func = stk'[u][p].func
      PROVE  stk'[u][q].hooked
  <2>1. CASE u # t
    BY <1>2, <1>4, <2>1 DEF Paired, HookedAlike
  <2>2. CASE u = t
    <3>1. PICK i \in 1 .. Len(stk[t]) : p = i + 1
      <4>1. p - 1 \in 1 .. Len(stk[t]) /\ p = (p - 1) + 1
        BY <1>2, <1>4, <2>2
      <4>2. QED
        BY <4>1
    <3>2. stk[t][i].hooked /\ stk[t][i].func = stk'[u][p].func
      BY <1>3, <1>4, <2>2, <3>1
    <3>3. CASE q = 1
      <4>1. stk[t][i].func = f /\ Probed(stk[t][i].func, "exit")
        BY <1>2, <1>4, <2>2, <3>2, <3>3 DEF Paired, FramesHooked
      <4>2. QED
        BY <1>2, <2>2, <3>3, <4>1
    <3>4. CASE q # 1
      <4>1. PICK r \in 1 .. i - 1 : q = r + 1
        <5>1. q - 1 \in 1 .. i - 1 /\ q = (q - 1) + 1
          BY <1>4, <3>1, <3>4
        <5>2. QED
          BY <5>1
      <4>2. r \in 1 .. Len(stk[t])
        BY <1>2, <3>1, <4>1
      <4>3. /\ stk'[t][q].hooked = stk[t][r].hooked
            /\ stk[t][r].func = stk[t][i].func
        BY <1>3, <1>4, <2>2, <3>2, <4>1, <4>2
      <4>4. stk[t][r].hooked
        BY <3>1, <3>2, <4>1, <4>3 DEF Paired, HookedAlike
      <4>5. QED
        BY <2>2, <4>3, <4>4
    <3>5. QED
      BY <3>3, <3>4
  <2>3. QED
    BY <2>1, <2>2
<1>5. QED
  BY <1>4 DEF HookedAlike

LEMMA EnterPaired ==
    ASSUME WatchInv, Paired, NEW t \in Threads, NEW f \in Funcs, Enter(t, f)
    PROVE  Paired'
<1>t. TypeOK /\ calls \in Nat /\ Len(ring) \in Nat /\ Len(stk[t]) \in Nat
  BY FramesTyped DEF WatchInv, TypeOK
<1>n. PICK n \in Nat : n = Len(ring) + 1
  BY <1>t
<1>e. PICK e \in Nat : e = calls + 1
  BY <1>t
<1>1. Grows(t)
  BY <1>t, <1>n, <1>e, EnterRecord
<1>2. ASSUME NEW u \in Threads, NEW g \in Funcs, NEW c \in Nat,
             NEW i \in 1 .. Len(ring'), IsExit(i, u, g, c)',
             mishaps'[u] = {} \/ Calm(u)'
      PROVE  i \in 1 .. Len(ring)
  <2>1. CASE i = n /\ Len(ring') = n
    <3>1. u = t /\ ring' # ring
      BY <1>n, <1>1, <1>2, <2>1 DEF Grows, IsExit
    <3>2. "dropped" \notin mishaps'[t] /\ Probed(f, "entry")
      BY <1>t, <1>n, <1>e, <1>2, <3>1, EnterRecord DEF Calm
    <3>3. IsEntry(n, t, f, e)'
      BY <1>t, <1>n, <1>e, <3>2, EnterRecord
    <3>4. QED
      BY <1>2, <2>1, <3>3 DEF IsEntry, IsExit
  <2>2. QED
    BY <1>n, <1>1, <1>2, <2>1 DEF Grows
<1>3. RingPaired'
  <2>1. ASSUME NEW u \in Threads, NEW g \in Funcs, NEW c \in Nat, NEW d \in Nat,
               NEW i \in 1 .. Len(ring'), NEW j \in 0 .. i - 1,
               Calm(u)', IsExit(i, u, g, c)', ~ring'[i].again, EntryAt(j, u, g, d)'
        PROVE  Gone(u, g, d, c, j, i)'
    BY <1>1, <1>2, <2>1, OldExits DEF Paired
  <2>2. QED
    BY <2>1 DEF RingPaired
<1>4. RingLeaves'
  <2>1. ASSUME NEW u \in Threads, NEW g \in Funcs, NEW c \in Nat,
               NEW i \in 1 .. Len(ring'),
               mishaps'[u] = {}, IsExit(i, u, g, c)', ~ring'[i].again, ring'[i].leaf
        PROVE  ring'[i].from = c /\ Latest(u, g, c, i)'
    BY <1>1, <1>2, <2>1, OldExits DEF Paired
  <2>2. QED
    BY <2>1 DEF RingLeaves
<1>5. \A u \in Threads \ {t} : stk'[u] = stk[u] /\ entry_times'[u] = entry_times[u]
  BY <1>t, EnterFrames, EnterEffect
<1>6. StackPaired'
  <2>1. ASSUME NEW u \in Threads, NEW g \in Funcs, NEW c \in Nat, NEW d \in Nat,
               NEW m \in Nat, m = Len(ring') + 1, NEW j \in 0 .. m - 1,
               NEW p \in 1 .. Len(stk'[u]),
               Calm(u)', IsHooked(p, u, g, c)', EntryAt(j, u, g, d)'
        PROVE  Gone(u, g, d, c, j, m)' \/ Inside(u, g, d, p)'
    <3>1. CASE u = t
      BY <2>1, <3>1, EnterStackPaired
    <3>2. CASE u # t
      BY <1>1, <1>5, <2>1, <3>2, OtherStacks DEF Paired
    <3>3. QED
      BY <3>1, <3>2
  <2>2. QED
    BY <2>1 DEF StackPaired
<1>7. StackLeaves'
  <2>1. ASSUME NEW u \in Threads, NEW g \in Funcs, NEW c \in Nat,
               NEW m \in Nat, m = Len(ring') + 1, NEW p \in 1 .. Len(stk'[u]),
               mishaps'[u] = {}, IsHooked(p, u, g, c)', stk'[u][p].leaf
        PROVE  /\ entry_times'[u] = c
               /\ Latest(u, g, c, m)'
               /\ \A q \in 1 .. p - 1 : ~stk'[u][q].hooked /\ ~stk'[u][q].seen
    <3>1. CASE u = t
      BY <2>1, <3>1, EnterStackLeaves
    <3>2. CASE u # t
      BY <1>1, <1>5, <2>1, <3>2, OtherStacks DEF Paired
    <3>3. QED
      BY <3>1, <3>2
  <2>2. QED
    BY <2>1 DEF StackLeaves
<1>8. FramesHooked'
  <2>1. ASSUME NEW u \in Threads, NEW p \in 1 .. Len(stk'[u]), stk'[u][p].hooked
        PROVE  /\ stk'[u][p].seen /\ stk'[u][p].call # None
               /\ Probed(stk[u][p].func, "exit")'
    <3>1. \A g : Probed(g, "exit")' = Probed(g, "exit")
      BY DEF Enter, userVars, Probed, Linked
    <3>f. PICK g : g = stk'[u][p].func
      OBVIOUS
    <3>p. Probed(g, "exit") => Probed(stk[u][p].func, "exit")'
      BY <3>1, <3>f DEF Probed, Linked
    <3>2. CASE u # t
      BY <1>5, <2>1, <3>f, <3>p, <3>2 DEF Paired, FramesHooked
    <3>3. CASE u = t /\ p = 1
      <4>1. /\ stk'[t][1].func = f /\ stk'[t][1].call = calls + 1
            /\ stk'[t][1].seen = (Probed(f, "entry"))
            /\ stk'[t][1].hooked = (Probed(f, "exit"))
        <5>1. stk'[t][1] = [call |-> calls + 1, func |-> f,
                            seen |-> Probed(f, "entry"),
                            hooked |-> Probed(f, "exit"), leaf |-> TRUE]
          BY <1>t, EnterFrames
        <5>2. QED
          BY <5>1
      <4>2. Probed(f, "exit") => Probed(f, "entry")
        BY ProbedPaired DEF WatchInv
      <4>3. stk'[u][p].seen /\ Probed(g, "exit")
        BY <2>1, <3>f, <3>3, <4>1, <4>2, Zenon
      <4>4. calls + 1 # None
        BY <1>t DEF None
      <4>5. QED
        BY <3>3, <3>p, <4>1, <4>3, <4>4, Zenon
    <3>4. CASE u = t /\ p # 1
      <4>1. PICK i \in 1 .. Len(stk[t]) : p = i + 1
        <5>1. Len(stk'[t]) = Len(stk[t]) + 1
          BY <1>t, EnterFrames
        <5>2. p - 1 \in 1 .. Len(stk[t]) /\ p = (p - 1) + 1
          BY <1>t, <2>1, <3>4, <5>1
        <5>3. QED
          BY <5>2
      <4>2. stk[t][i] \in Frame
            /\ stk'[t][p] = [stk[t][i] EXCEPT !.leaf = @ /\ ~Probed(f, "entry")]
        BY <1>t, <4>1, EnterFrames, FramesTyped
      <4>3. stk'[t][p].func = stk[t][i].func /\ stk'[t][p].seen = stk[t][i].seen
            /\ stk'[t][p].hooked = stk[t][i].hooked /\ stk'[t][p].call = stk[t][i].call
        BY <4>2 DEF Frame
      <4>4. QED
        BY <2>1, <3>f, <3>p, <3>4, <4>1, <4>3 DEF Paired, FramesHooked
    <3>5. QED
      BY <3>2, <3>3, <3>4
  <2>2. QED
    BY <2>1 DEF FramesHooked
<1>9. RingRepeats'
  <2>1. ASSUME NEW u \in Threads, NEW g \in Funcs, NEW c \in Nat,
               NEW i \in 1 .. Len(ring'),
               Calm(u)', IsExit(i, u, g, c)', ring'[i].again
        PROVE  ring'[i].from = None /\ JustLeft(u, g, i)'
    BY <1>1, <1>2, <2>1, OldExits DEF Paired
  <2>2. QED
    BY <2>1 DEF RingRepeats
<1>10. HitLeft'
  <2>1. ASSUME NEW u \in Threads, NEW m \in Nat, m = Len(ring') + 1, Calm(u)',
               hit'[u].left # {}, hit'[u].prog = "exit"
        PROVE  JustLeft(u, hit[u].func, m)'
    <3>1. u # t /\ hit'[u] = hit[u]
      <4>1. (hit'[t].left # {} => hit'[t].prog = "entry")
            /\ \A v \in Threads \ {t} : hit'[v] = hit[v]
        BY <1>t, EnterHit
      <4>2. QED
        BY <2>1, <4>1
    <3>2. QED
      BY <1>1, <2>1, <3>1, OtherHits DEF Paired
  <2>2. QED
    BY <2>1 DEF HitLeft
<1>11. HookedAlike'
  BY EnterHookedAlike
<1>12. QED
  BY <1>3, <1>4, <1>6, <1>7, <1>8, <1>9, <1>10, <1>11 DEF Paired

--------------------------------------------------------------------------------
(* A call returns or is unwound *)

\* The exit record of a hooked call is the last one, or lost.
LEMMA LeaveRecord ==
    ASSUME WatchInv, Paired, NEW t \in Threads, Return(t) \/ Unwind(t),
           NEW n, n = Len(ring) + 1, NEW h, h = stk[t][1]
    PROVE  /\ Grows(t)
           /\ \/ mishaps'[t] \cap {"dropped", "unwound"} # {}
              \/ ~h.hooked /\ UNCHANGED <<entry_times, ring>>
              \/ /\ h.hooked
                 /\ Len(ring') = n /\ ring'[n].tid = t /\ ring'[n].is_exit
                 /\ ring'[n].func = h.func /\ ring'[n].call = h.call
                 /\ ring'[n].from = entry_times[t] /\ ring'[n].leaf = h.leaf
                 /\ ~ring'[n].again
<1>1. TypeOK /\ Len(ring) \in Nat /\ entry_cache' = entry_cache
  <2>1. UNCHANGED userVars
    BY DEF Return, Unwind
  <2>2. QED
    BY <2>1 DEF WatchInv, TypeOK, userVars
<1>2. /\ Head(stk[t]) = h /\ h \in Frame /\ 1 \in 1 .. Len(stk[t])
  BY <1>1, LeaveStack
<1>3. CASE Return(t) /\ h.hooked
  <2>1. Probed(h.func, "exit")
    BY <1>2, <1>3 DEF Paired, FramesHooked
  <2>2. uprobe_exit(t, h, FALSE)
    BY <1>2, <1>3, <2>1 DEF Return
  <2> DEFINE ev == [is_exit |-> TRUE, tid |-> t, func |-> h.func, call |-> h.call,
                    from |-> entry_times[t], leaf |-> h.leaf, again |-> FALSE]
             m == IF RingHasRoom THEN {} ELSE {"dropped"}
  <2>3. ev \in RawEvent /\ Submit(ev)
    <3>1. Submit(ev)
      BY <2>2 DEF uprobe_exit, Key
    <3>2. h.func \in Funcs /\ h.call \in Call /\ h.leaf \in BOOLEAN
          /\ entry_times[t] \in Call
      BY <1>1, <1>2 DEF Frame, TypeOK
    <3>3. ev \in RawEvent
      BY <3>2 DEF RawEvent
    <3>4. QED
      BY <3>1, <3>3
  <2>4. m \in SUBSET Mishaps /\ Mishap(t, m) /\ (~RingHasRoom => "dropped" \in m)
    BY <2>2 DEF uprobe_exit, Mishaps
  <2>5. /\ ev.tid = t /\ ev.is_exit /\ ev.func = h.func /\ ev.call = h.call
        /\ ev.from = entry_times[t] /\ ev.leaf = h.leaf /\ ~ev.again
    OBVIOUS
  <2> HIDE DEF ev, m
  <2>6. /\ \A k \in 1 .. Len(ring) : ring'[k] = ring[k]
        /\ RingHasRoom => Len(ring') = Len(ring) + 1 /\ ring'[Len(ring) + 1] = ev
        /\ ~RingHasRoom => ring' = ring
    BY <1>1, <2>3, SubmitAdds
  <2>7. /\ mishaps'[t] = mishaps[t] \cup m
        /\ \A u \in Threads : mishaps[u] \subseteq mishaps'[u]
    BY <1>1, <2>4, MishapType
  <2>8. Grows(t)
    BY <1>1, <2>5, <2>6, <2>7 DEF Grows
  <2>9. CASE RingHasRoom
    <3>1. Len(ring') = n /\ ring'[n] = ev
      BY <2>6, <2>9
    <3>2. QED
      BY <1>3, <2>5, <2>8, <3>1
  <2>10. CASE ~RingHasRoom
    BY <2>4, <2>7, <2>8, <2>10
  <2>11. QED
    BY <2>9, <2>10
<1>4. CASE Return(t) /\ ~h.hooked
  <2> DEFINE m == IF h.seen THEN {"unhooked"} ELSE {}
  <2>1. Mishap(t, m) /\ UNCHANGED <<entry_times, ring>>
    BY <1>2, <1>4 DEF Return
  <2>2. m \in SUBSET Mishaps
    BY DEF Mishaps
  <2> HIDE DEF m
  <2>3. \A u \in Threads : mishaps[u] \subseteq mishaps'[u]
    BY <1>1, <2>1, <2>2, MishapType
  <2>4. QED
    BY <1>1, <1>4, <2>1, <2>3 DEF Grows
<1>5. CASE Unwind(t)
  <2>1. {"unwound"} \in SUBSET Mishaps /\ Mishap(t, {"unwound"}) /\ ring' = ring
    BY <1>5 DEF Unwind, bpfVars, Mishaps
  <2>2. /\ mishaps'[t] = mishaps[t] \cup {"unwound"}
        /\ \A u \in Threads : mishaps[u] \subseteq mishaps'[u]
    BY <1>1, <2>1, MishapType
  <2>3. QED
    BY <1>1, <2>1, <2>2 DEF Grows
<1>6. QED
  BY <1>3, <1>4, <1>5

\* The frames behind the one that is left move up.
LEMMA LeaveFrames ==
    ASSUME WatchInv, NEW t \in Threads, Return(t) \/ Unwind(t)
    PROVE  /\ Len(stk[t]) \in Nat /\ Len(stk[t]) >= 1 /\ Len(stk'[t]) = Len(stk[t]) - 1
           /\ \A i \in 1 .. Len(stk'[t]) :
                i + 1 \in 1 .. Len(stk[t]) /\ stk'[t][i] = stk[t][i + 1]
           /\ \A u \in Threads \ {t} : stk'[u] = stk[u] /\ entry_times'[u] = entry_times[u]
           /\ \A g : Probed(g, "exit")' = Probed(g, "exit")
<1>1. TypeOK
  BY DEF WatchInv
<1>2. \A g : Probed(g, "exit")' = Probed(g, "exit")
  BY DEF Return, Unwind, userVars, Probed, Linked
<1>3. \A u \in Threads \ {t} : entry_times'[u] = entry_times[u]
  BY <1>1, LeaveEffect
<1>4. QED
  BY <1>1, <1>2, <1>3, LeaveStack, FramesTyped

\* The frames of the thread that leaves a call stay paired.
LEMMA LeaveStackPaired ==
    ASSUME WatchInv, Paired, NEW t \in Threads, Return(t) \/ Unwind(t),
           NEW g \in Funcs, NEW c \in Nat, NEW d \in Nat, NEW m \in Nat,
           m = Len(ring') + 1, NEW j \in 0 .. m - 1, NEW p \in 1 .. Len(stk'[t]),
           Calm(t)', IsHooked(p, t, g, c)', EntryAt(j, t, g, d)'
    PROVE  Gone(t, g, d, c, j, m)' \/ Inside(t, g, d, p)'
<1>t. Len(ring) \in Nat
  BY DEF WatchInv, TypeOK
<1>n. PICK n \in Nat : n = Len(ring) + 1
  BY <1>t
<1>h. PICK h : h = stk[t][1]
  OBVIOUS
<1>1. /\ Grows(t)
      /\ \/ ~h.hooked /\ ring' = ring
         \/ /\ Len(ring') = n /\ ring'[n].tid = t /\ ring'[n].is_exit
            /\ ring'[n].func = h.func /\ ring'[n].call = h.call
  BY <1>n, <1>h, LeaveRecord DEF Calm
<1>2. /\ Len(ring') = Len(ring) \/ Len(ring') = n
      /\ \A k \in 1 .. Len(ring) : ring'[k] = ring[k]
      /\ entry_cache' = entry_cache /\ mishaps[t] \subseteq mishaps'[t]
  BY <1>n, <1>1 DEF Grows
<1>3. p + 1 \in 1 .. Len(stk[t]) /\ IsHooked(p + 1, t, g, c)
  BY LeaveFrames DEF IsHooked
\* The exit record is no entry.
<1>4. j \in 0 .. Len(ring)
  <2>1. CASE j = n /\ Len(ring') = n
    <3>1. ring'[n].is_exit
      BY <1>n, <1>1, <2>1
    <3>2. ~ring'[n].is_exit
      BY <1>n, <2>1 DEF EntryAt, IsEntry
    <3>3. QED
      BY <3>1, <3>2
  <2>2. QED
    BY <1>t, <1>n, <1>2, <2>1
<1>5. EntryAt(j, t, g, d) /\ Calm(t)
  BY <1>t, <1>2, <1>4, PlacesKept, CalmBefore
<1>6. Gone(t, g, d, c, j, n) \/ Inside(t, g, d, p + 1)
  <2>1. j \in 0 .. n - 1
    BY <1>n, <1>4
  <2>2. QED
    BY <1>n, <1>3, <1>5, <2>1 DEF Paired, StackPaired
<1>7. CASE Gone(t, g, d, c, j, n)
  BY <1>n, <1>1, <1>4, <1>7, EndMoves
<1>8. CASE Inside(t, g, d, p + 1)
  <2>1. PICK q \in 1 .. p : IsHooked(q, t, g, d)
    BY <1>8 DEF Inside
  <2>2. CASE q = 1
    <3>1. h.hooked /\ h.func = g /\ h.call = d
      BY <1>h, <2>1, <2>2 DEF IsHooked
    <3>2. Len(ring') = n /\ IsExit(n, t, g, d)'
      BY <1>1, <3>1 DEF IsExit
    <3>3. n \in j + 1 .. m - 1
      BY <1>n, <1>4, <3>2
    <3>4. QED
      BY <3>2, <3>3 DEF Gone
  <2>3. CASE q # 1
    <3>1. PICK r \in 1 .. p - 1 : q = r + 1
      <4>1. q - 1 \in 1 .. p - 1 /\ q = (q - 1) + 1
        BY <2>1, <2>3
      <4>2. QED
        BY <4>1
    <3>2. r \in 1 .. Len(stk'[t])
      BY <3>1, LeaveFrames
    <3>3. IsHooked(r, t, g, d)'
      BY <2>1, <3>1, <3>2, LeaveFrames DEF IsHooked
    <3>4. QED
      BY <3>1, <3>3 DEF Inside
  <2>4. QED
    BY <2>2, <2>3
<1>9. QED
  BY <1>6, <1>7, <1>8

LEMMA LeaveStackLeaves ==
    ASSUME WatchInv, Paired, NEW t \in Threads, Return(t) \/ Unwind(t),
           NEW g \in Funcs, NEW c \in Nat, NEW m \in Nat, m = Len(ring') + 1,
           NEW p \in 1 .. Len(stk'[t]),
           mishaps'[t] = {}, IsHooked(p, t, g, c)', stk'[t][p].leaf
    PROVE  /\ entry_times'[t] = c
           /\ Latest(t, g, c, m)'
           /\ \A q \in 1 .. p - 1 : ~stk'[t][q].hooked /\ ~stk'[t][q].seen
<1>t. Len(ring) \in Nat
  BY DEF WatchInv, TypeOK
<1>n. PICK n \in Nat : n = Len(ring) + 1
  BY <1>t
<1>1. p + 1 \in 1 .. Len(stk[t]) /\ IsHooked(p + 1, t, g, c) /\ stk[t][p + 1].leaf
  BY LeaveFrames DEF IsHooked
<1>2. Grows(t) /\ mishaps[t] = {}
  <2>1. Grows(t)
    BY <1>n, LeaveRecord
  <2>2. QED
    BY <2>1, CalmBefore DEF Grows
<1>3. /\ entry_times[t] = c
      /\ Latest(t, g, c, n)
      /\ \A q \in 1 .. p : ~stk[t][q].hooked /\ ~stk[t][q].seen
  <2>1. /\ entry_times[t] = c
        /\ Latest(t, g, c, n)
        /\ \A q \in 1 .. (p + 1) - 1 : ~stk[t][q].hooked /\ ~stk[t][q].seen
    BY <1>n, <1>1, <1>2 DEF Paired, StackLeaves
  <2>2. QED
    BY <2>1
<1>4. entry_times' = entry_times /\ ring' = ring
  <2>1. ~stk[t][1].hooked
    BY <1>3
  <2>2. QED
    BY <1>n, <2>1, LeaveRecord
<1>5. Latest(t, g, c, m)'
  BY <1>n, <1>2, <1>3, <1>4, EndMoves
<1>6. ASSUME NEW q \in 1 .. p - 1
      PROVE  ~stk'[t][q].hooked /\ ~stk'[t][q].seen
  <2>1. q \in 1 .. Len(stk'[t]) /\ q + 1 \in 1 .. p
    BY LeaveFrames
  <2>2. stk'[t][q] = stk[t][q + 1]
    BY <2>1, LeaveFrames
  <2>3. QED
    BY <1>3, <2>1, <2>2
<1>7. QED
  BY <1>3, <1>4, <1>5, <1>6

\* The exit record of the call that is left is paired as its frame was.
LEMMA LeaveNewExit ==
    ASSUME WatchInv, Paired, NEW t \in Threads, Return(t) \/ Unwind(t),
           NEW n \in Nat, n = Len(ring) + 1, Len(ring') = n,
           NEW u \in Threads, NEW g \in Funcs, NEW c \in Nat, IsExit(n, u, g, c)'
    PROVE  /\ Calm(u)' => ~ring'[n].again
           /\ \A d \in Nat : \A j \in 0 .. n - 1 :
                Calm(u)' /\ EntryAt(j, u, g, d)' => Gone(u, g, d, c, j, n)'
           /\ mishaps'[u] = {} /\ ring'[n].leaf
                => ring'[n].from = c /\ Latest(u, g, c, n)'
<1>t. Len(ring) \in Nat
  BY DEF WatchInv, TypeOK
<1>h. PICK h : h = stk[t][1]
  OBVIOUS
<1>1. Grows(t) /\ ring' # ring
  BY <1>t, <1>h, LeaveRecord
<1>2. u = t
  BY <1>1 DEF Grows, IsExit
<1>3. /\ \A k \in 1 .. Len(ring) : ring'[k] = ring[k]
      /\ entry_cache' = entry_cache /\ mishaps[t] \subseteq mishaps'[t]
  BY <1>1 DEF Grows
<1>4. ASSUME Calm(t)'
      PROVE  /\ 1 \in 1 .. Len(stk[t]) /\ IsHooked(1, t, g, c)
             /\ ring'[n].from = entry_times[t] /\ ring'[n].leaf = stk[t][1].leaf
             /\ ~ring'[n].again
  <2>1. /\ h.hooked /\ ring'[n].func = h.func /\ ring'[n].call = h.call
        /\ ring'[n].from = entry_times[t] /\ ring'[n].leaf = h.leaf /\ ~ring'[n].again
    BY <1>h, <1>1, <1>4, LeaveRecord DEF Calm
  <2>2. 1 \in 1 .. Len(stk[t])
    BY LeaveFrames
  <2>3. QED
    BY <1>h, <2>1, <2>2 DEF IsExit, IsHooked
<1>5. ASSUME NEW d \in Nat, NEW j \in 0 .. n - 1, Calm(u)', EntryAt(j, u, g, d)'
      PROVE  Gone(u, g, d, c, j, n)'
  <2>1. IsHooked(1, t, g, c) /\ 1 \in 1 .. Len(stk[t]) /\ j \in 0 .. Len(ring)
    BY <1>2, <1>4, <1>5
  <2>2. EntryAt(j, t, g, d) /\ Calm(t)
    BY <1>t, <1>2, <1>3, <1>5, <2>1, PlacesKept, CalmBefore
  <2>3. Gone(t, g, d, c, j, n) \/ Inside(t, g, d, 1)
    BY <2>1, <2>2 DEF Paired, StackPaired
  <2>4. ~Inside(t, g, d, 1)
    BY DEF Inside
  <2>5. n \in 1 .. Len(ring) + 1
    BY <1>t
  <2>6. QED
    BY <1>t, <1>2, <1>3, <2>3, <2>4, <2>5, PlacesKept
<1>6. ASSUME mishaps'[u] = {}, ring'[n].leaf
      PROVE  ring'[n].from = c /\ Latest(u, g, c, n)'
  <2>1. Calm(t)' /\ mishaps[t] = {}
    BY <1>2, <1>3, <1>6, CalmBefore DEF Calm
  <2>2. /\ IsHooked(1, t, g, c) /\ 1 \in 1 .. Len(stk[t])
        /\ ring'[n].from = entry_times[t] /\ stk[t][1].leaf
    BY <1>4, <1>6, <2>1
  <2>3. entry_times[t] = c /\ Latest(t, g, c, n)
    BY <2>1, <2>2 DEF Paired, StackLeaves
  <2>4. n \in 1 .. Len(ring) + 1
    BY <1>t
  <2>5. QED
    BY <1>t, <1>2, <1>3, <2>2, <2>3, <2>4, PlacesKept
<1>7. QED
  BY <1>2, <1>4, <1>5, <1>6

\* If the exit program is to run again, the exit record of the call is the last one.
LEMMA LeaveOwnHit ==
    ASSUME WatchInv, Paired, NEW t \in Threads, Return(t) \/ Unwind(t),
           NEW m \in Nat, m = Len(ring') + 1, Calm(t)', hit'[t].left # {}
    PROVE  JustLeft(t, hit[t].func, m)'
<1>t. TypeOK /\ Len(ring) \in Nat
  BY DEF WatchInv, TypeOK
<1>n. PICK n \in Nat : n = Len(ring) + 1
  BY <1>t
<1>h. PICK h : h = stk[t][1]
  OBVIOUS
<1>1. hit'[t].func = h.func /\ h.hooked
  <2>1. hit'[t].func = Head(stk[t]).func /\ Head(stk[t]).hooked
    BY <1>t, LeaveHit
  <2>2. Head(stk[t]) = h
    BY <1>t, <1>h, LeaveStack
  <2>3. QED
    BY <2>1, <2>2
<1>2. Len(ring') = n /\ ring'[n].tid = t /\ ring'[n].is_exit /\ ring'[n].func = h.func
  BY <1>n, <1>h, <1>1, LeaveRecord DEF Calm
<1>f. PICK f : f = h.func
  OBVIOUS
<1>3. LeftAt(n, t, f)'
  BY <1>n, <1>t, <1>f, <1>2 DEF LeftAt
<1>4. JustLeft(t, f, m)'
  <2>1. n \in 0 .. m - 1 /\ \A k \in n + 1 .. m - 1 : FALSE
    BY <1>2
  <2>2. QED
    BY <1>3, <2>1 DEF JustLeft
<1>5. f = hit'[t].func
  BY <1>1, <1>f
<1>6. QED
  BY <1>4, <1>5 DEF JustLeft, LeftAt

LEMMA LeavePaired ==
    ASSUME WatchInv, Paired, NEW t \in Threads, Return(t) \/ Unwind(t)
    PROVE  Paired'
<1>t. Len(ring) \in Nat
  BY DEF WatchInv, TypeOK
<1>n. PICK n \in Nat : n = Len(ring) + 1
  BY <1>t
<1>1. Grows(t) /\ (Len(ring') = Len(ring) \/ Len(ring') = n)
  <2>1. Grows(t)
    BY <1>n, LeaveRecord
  <2>2. QED
    BY <1>n, <2>1 DEF Grows
<1>2. \A i \in 1 .. Len(ring') : i \in 1 .. Len(ring) \/ (i = n /\ Len(ring') = n)
  BY <1>t, <1>n, <1>1
<1>3. RingPaired'
  <2>1. ASSUME NEW u \in Threads, NEW g \in Funcs, NEW c \in Nat, NEW d \in Nat,
               NEW i \in 1 .. Len(ring'), NEW j \in 0 .. i - 1,
               Calm(u)', IsExit(i, u, g, c)', ~ring'[i].again, EntryAt(j, u, g, d)'
        PROVE  Gone(u, g, d, c, j, i)'
    <3>1. CASE i \in 1 .. Len(ring)
      BY <1>1, <2>1, <3>1, OldExits DEF Paired
    <3>2. CASE i = n /\ Len(ring') = n
      BY <1>n, <2>1, <3>2, LeaveNewExit
    <3>3. QED
      BY <1>2, <3>1, <3>2
  <2>2. QED
    BY <2>1 DEF RingPaired
<1>4. RingLeaves'
  <2>1. ASSUME NEW u \in Threads, NEW g \in Funcs, NEW c \in Nat,
               NEW i \in 1 .. Len(ring'),
               mishaps'[u] = {}, IsExit(i, u, g, c)', ~ring'[i].again, ring'[i].leaf
        PROVE  ring'[i].from = c /\ Latest(u, g, c, i)'
    <3>1. CASE i \in 1 .. Len(ring)
      BY <1>1, <2>1, <3>1, OldExits DEF Paired
    <3>2. CASE i = n /\ Len(ring') = n
      BY <1>n, <2>1, <3>2, LeaveNewExit
    <3>3. QED
      BY <1>2, <3>1, <3>2
  <2>2. QED
    BY <2>1 DEF RingLeaves
<1>5. \A u \in Threads \ {t} : stk'[u] = stk[u] /\ entry_times'[u] = entry_times[u]
  BY LeaveFrames
<1>6. StackPaired'
  <2>1. ASSUME NEW u \in Threads, NEW g \in Funcs, NEW c \in Nat, NEW d \in Nat,
               NEW m \in Nat, m = Len(ring') + 1, NEW j \in 0 .. m - 1,
               NEW p \in 1 .. Len(stk'[u]),
               Calm(u)', IsHooked(p, u, g, c)', EntryAt(j, u, g, d)'
        PROVE  Gone(u, g, d, c, j, m)' \/ Inside(u, g, d, p)'
    <3>1. CASE u = t
      BY <2>1, <3>1, LeaveStackPaired
    <3>2. CASE u # t
      BY <1>1, <1>5, <2>1, <3>2, OtherStacks DEF Paired
    <3>3. QED
      BY <3>1, <3>2
  <2>2. QED
    BY <2>1 DEF StackPaired
<1>7. StackLeaves'
  <2>1. ASSUME NEW u \in Threads, NEW g \in Funcs, NEW c \in Nat,
               NEW m \in Nat, m = Len(ring') + 1, NEW p \in 1 .. Len(stk'[u]),
               mishaps'[u] = {}, IsHooked(p, u, g, c)', stk'[u][p].leaf
        PROVE  /\ entry_times'[u] = c
               /\ Latest(u, g, c, m)'
               /\ \A q \in 1 .. p - 1 : ~stk'[u][q].hooked /\ ~stk'[u][q].seen
    <3>1. CASE u = t
      BY <2>1, <3>1, LeaveStackLeaves
    <3>2. CASE u # t
      BY <1>1, <1>5, <2>1, <3>2, OtherStacks DEF Paired
    <3>3. QED
      BY <3>1, <3>2
  <2>2. QED
    BY <2>1 DEF StackLeaves
<1>8. FramesHooked'
  <2>1. ASSUME NEW u \in Threads, NEW p \in 1 .. Len(stk'[u]), stk'[u][p].hooked
        PROVE  /\ stk'[u][p].seen /\ stk'[u][p].call # None
               /\ Probed(stk[u][p].func, "exit")'
    <3>f. PICK g : g = stk'[u][p].func
      OBVIOUS
    <3>p. Probed(g, "exit") => Probed(stk[u][p].func, "exit")'
      BY <3>f, LeaveFrames DEF Probed, Linked
    <3>1. CASE u # t
      BY <2>1, <3>f, <3>p, <3>1, LeaveFrames DEF Paired, FramesHooked
    <3>2. CASE u = t
      <4>1. p + 1 \in 1 .. Len(stk[t]) /\ stk'[t][p] = stk[t][p + 1]
        BY <3>2, LeaveFrames
      <4>2. QED
        BY <2>1, <3>f, <3>p, <3>2, <4>1 DEF Paired, FramesHooked
    <3>3. QED
      BY <3>1, <3>2
  <2>2. QED
    BY <2>1 DEF FramesHooked
<1>9. RingRepeats'
  <2>1. ASSUME NEW u \in Threads, NEW g \in Funcs, NEW c \in Nat,
               NEW i \in 1 .. Len(ring'),
               Calm(u)', IsExit(i, u, g, c)', ring'[i].again
        PROVE  ring'[i].from = None /\ JustLeft(u, g, i)'
    <3>1. CASE i \in 1 .. Len(ring)
      BY <1>1, <2>1, <3>1, OldExits DEF Paired
    <3>2. CASE i = n /\ Len(ring') = n
      BY <1>n, <2>1, <3>2, LeaveNewExit
    <3>3. QED
      BY <1>2, <3>1, <3>2
  <2>2. QED
    BY <2>1 DEF RingRepeats
<1>10. HitLeft'
  <2>1. ASSUME NEW u \in Threads, NEW m \in Nat, m = Len(ring') + 1, Calm(u)',
               hit'[u].left # {}, hit'[u].prog = "exit"
        PROVE  JustLeft(u, hit[u].func, m)'
    <3>1. CASE u # t
      <4>1. \A v \in Threads \ {t} : hit'[v] = hit[v]
        BY LeaveHit DEF WatchInv
      <4>2. hit'[u] = hit[u]
        BY <3>1, <4>1
      <4>3. QED
        BY <1>1, <2>1, <3>1, <4>2, OtherHits DEF Paired
    <3>2. CASE u = t
      BY <2>1, <3>2, LeaveOwnHit
    <3>3. QED
      BY <3>1, <3>2
  <2>2. QED
    BY <2>1 DEF HitLeft
<1>11. HookedAlike'
  <2>1. ASSUME NEW u \in Threads, NEW p \in 1 .. Len(stk'[u]), NEW q \in 1 .. p - 1,
               stk'[u][p].hooked, stk'[u][q].func = stk'[u][p].func
        PROVE  stk'[u][q].hooked
    <3>1. CASE u # t
      BY <2>1, <3>1, LeaveFrames DEF Paired, HookedAlike
    <3>2. CASE u = t
      <4>1. /\ q \in 1 .. Len(stk'[t]) /\ q + 1 \in 1 .. (p + 1) - 1
            /\ p + 1 \in 1 .. Len(stk[t]) /\ stk'[t][p] = stk[t][p + 1]
            /\ stk'[t][q] = stk[t][q + 1]
        BY <2>1, <3>2, LeaveFrames
      <4>2. QED
        BY <2>1, <3>2, <4>1 DEF Paired, HookedAlike
    <3>3. QED
      BY <3>1, <3>2
  <2>2. QED
    BY <2>1 DEF HookedAlike
<1>12. QED
  BY <1>3, <1>4, <1>6, <1>7, <1>8, <1>9, <1>10, <1>11 DEF Paired

--------------------------------------------------------------------------------
(* The program of a further link runs *)

\* Its record is the last one, or lost.
LEMMA AgainRecord ==
    ASSUME WatchInv, NEW t \in Threads, RunAgain(t),
           NEW n, n = Len(ring) + 1, NEW h, h = hit[t]
    PROVE  /\ Grows(t) /\ UNCHANGED <<stk, links>>
           /\ h.left # {} /\ h.func \in Funcs /\ h.call \in Nat
           /\ \A u \in Threads \ {t} : entry_times'[u] = entry_times[u]
           /\ \/ /\ h.prog = "entry"
                 /\ entry_times'[t] = h.call \/ mishaps'[t] # {}
                 /\ \/ ~Calm(t)'
                    \/ Len(ring') = n /\ IsEntry(n, t, h.func, h.call)'
              \/ /\ h.prog = "exit" /\ entry_times[t] = None
                 /\ entry_times'[t] = None
                 /\ \/ ~Calm(t)'
                    \/ /\ Len(ring') = n /\ IsExit(n, t, h.func, h.call)'
                       /\ ring'[n].again /\ ring'[n].from = None
<1>1. TypeOK /\ HitKnown /\ Len(ring) \in Nat /\ entry_cache' = entry_cache
      /\ UNCHANGED <<stk, links>>
  BY DEF WatchInv, TypeOK, RunAgain, userVars
<1>2. /\ h.left # {} /\ h.func \in Funcs /\ h.call \in Call /\ h.leaf \in BOOLEAN
      /\ \/ h.prog = "entry" /\ uprobe_entry(t, h.func, h.call)
         \/ h.prog = "exit" /\ uprobe_exit(t, h, TRUE)
  BY <1>1, AgainEffect
<1>c. h.call \in Nat
  BY <1>2 DEF Call
<1>3. CASE h.prog = "entry" /\ uprobe_entry(t, h.func, h.call)
  <2> DEFINE ev == [is_exit |-> FALSE, tid |-> t, func |-> h.func, call |-> h.call,
                    from |-> None, leaf |-> FALSE, again |-> FALSE]
             m == (IF MapHasRoom(t) THEN {} ELSE {"unstored"})
                    \cup (IF RingHasRoom THEN {} ELSE {"dropped"})
  <2>1. ev \in RawEvent /\ Submit(ev)
    BY <1>2, <1>3 DEF RawEvent, Call, None, uprobe_entry
  <2>2. m \in SUBSET Mishaps /\ Mishap(t, m)
        /\ (~MapHasRoom(t) => "unstored" \in m) /\ (~RingHasRoom => "dropped" \in m)
    BY <1>3 DEF uprobe_entry, Mishaps
  <2>3. ev.tid = t /\ ~ev.is_exit /\ ev.func = h.func /\ ev.call = h.call
    OBVIOUS
  <2>4. \A u \in Threads \ {t} : entry_times'[u] = entry_times[u]
    BY <1>1, <1>2, <1>3, EntryProgram
  <2>5. MapHasRoom(t) => entry_times'[t] = h.call
    BY <1>1, <1>3 DEF uprobe_entry, TimesAfterEntry, Key, TypeOK
  <2> HIDE DEF ev, m
  <2>6. /\ \A k \in 1 .. Len(ring) : ring'[k] = ring[k]
        /\ RingHasRoom => Len(ring') = n /\ ring'[n] = ev
        /\ ~RingHasRoom => ring' = ring
    BY <1>1, <2>1, SubmitAdds
  <2>7. /\ mishaps'[t] = mishaps[t] \cup m
        /\ \A u \in Threads : mishaps[u] \subseteq mishaps'[u]
    BY <1>1, <2>2, MishapType
  <2>8. Grows(t)
    BY <1>1, <2>3, <2>6, <2>7 DEF Grows
  <2>9. ring'[n] = ev => IsEntry(n, t, h.func, h.call)'
    <3> SUFFICES ASSUME ring'[n] = ev
                 PROVE  IsEntry(n, t, h.func, h.call)'
      OBVIOUS
    <3>1. QED
      BY <2>3 DEF IsEntry
  <2>10. ~Calm(t)' \/ (Len(ring') = n /\ IsEntry(n, t, h.func, h.call)')
    BY <2>2, <2>6, <2>7, <2>9 DEF Calm
  <2>11. entry_times'[t] = h.call \/ mishaps'[t] # {}
    BY <2>2, <2>5, <2>7
  <2>12. QED
    BY <1>1, <1>2, <1>c, <1>3, <2>4, <2>8, <2>10, <2>11
<1>4. CASE h.prog = "exit" /\ uprobe_exit(t, h, TRUE)
  <2>0. entry_times[t] = None
    BY <1>1, <1>2, <1>4 DEF HitKnown
  <2> DEFINE ev == [is_exit |-> TRUE, tid |-> t, func |-> h.func, call |-> h.call,
                    from |-> entry_times[t], leaf |-> h.leaf, again |-> TRUE]
             m == IF RingHasRoom THEN {} ELSE {"dropped"}
  <2>1. ev \in RawEvent /\ Submit(ev)
    BY <1>1, <1>2, <1>4 DEF TypeOK, RawEvent, uprobe_exit, Key
  <2>2. m \in SUBSET Mishaps /\ Mishap(t, m) /\ (~RingHasRoom => "dropped" \in m)
    BY <1>4 DEF uprobe_exit, Mishaps
  <2>3. /\ ev.tid = t /\ ev.is_exit /\ ev.func = h.func /\ ev.call = h.call
        /\ ev.again /\ ev.from = None
    BY <2>0
  <2>4. /\ \A u \in Threads \ {t} : entry_times'[u] = entry_times[u]
        /\ entry_times'[t] = None
    BY <1>1, <1>2, <1>4, ExitProgram
  <2> HIDE DEF ev, m
  <2>6. /\ \A k \in 1 .. Len(ring) : ring'[k] = ring[k]
        /\ RingHasRoom => Len(ring') = n /\ ring'[n] = ev
        /\ ~RingHasRoom => ring' = ring
    BY <1>1, <2>1, SubmitAdds
  <2>7. /\ mishaps'[t] = mishaps[t] \cup m
        /\ \A u \in Threads : mishaps[u] \subseteq mishaps'[u]
    BY <1>1, <2>2, MishapType
  <2>8. Grows(t)
    BY <1>1, <2>3, <2>6, <2>7 DEF Grows
  <2>9. ring'[n] = ev => IsExit(n, t, h.func, h.call)'
    <3> SUFFICES ASSUME ring'[n] = ev
                 PROVE  IsExit(n, t, h.func, h.call)'
      OBVIOUS
    <3>1. QED
      BY <2>3 DEF IsExit
  <2>10. \/ ~Calm(t)'
         \/ /\ Len(ring') = n /\ IsExit(n, t, h.func, h.call)'
            /\ ring'[n].again /\ ring'[n].from = None
    BY <2>2, <2>3, <2>6, <2>7, <2>9 DEF Calm
  <2>11. QED
    BY <1>1, <1>2, <1>c, <1>4, <2>0, <2>4, <2>8, <2>10
<1>5. QED
  BY <1>2, <1>3, <1>4

\* A frame of the function that is hit is the one in front, or the one in front is a
\* hooked call inside of it.
LEMMA AgainFront ==
    ASSUME WatchInv, Paired, NEW t \in Threads, NEW h, h = hit[t],
           h.left # {}, h.prog = "entry",
           NEW c, NEW p \in 1 .. Len(stk[t]), IsHooked(p, t, h.func, c)
    PROVE  h.call = c \/ Inside(t, h.func, h.call, p)
<1>1. /\ Len(stk[t]) >= 1 /\ h.call = stk[t][1].call /\ h.func = stk[t][1].func
  BY DEF WatchInv, HitKnown
<1>2. CASE p = 1
  BY <1>1, <1>2 DEF IsHooked
<1>3. CASE p # 1
  <2>1. 1 \in 1 .. p - 1
    BY <1>3
  <2>2. stk[t][1].hooked
    BY <1>1, <2>1 DEF Paired, HookedAlike, IsHooked
  <2>3. QED
    BY <1>1, <2>1, <2>2 DEF Inside, IsHooked
<1>4. QED
  BY <1>2, <1>3

\* The frames of the thread stay paired: its new entry record is of the call in front.
LEMMA AgainStackPaired ==
    ASSUME WatchInv, Paired, NEW t \in Threads, RunAgain(t),
           NEW g \in Funcs, NEW c \in Nat, NEW d \in Nat, NEW m \in Nat,
           m = Len(ring') + 1, NEW j \in 0 .. m - 1, NEW p \in 1 .. Len(stk'[t]),
           Calm(t)', IsHooked(p, t, g, c)', EntryAt(j, t, g, d)'
    PROVE  Gone(t, g, d, c, j, m)' \/ Inside(t, g, d, p)'
<1>t. Len(ring) \in Nat
  BY DEF WatchInv, TypeOK
<1>n. PICK n \in Nat : n = Len(ring) + 1
  BY <1>t
<1>h. PICK h : h = hit[t]
  OBVIOUS
<1>1. Grows(t) /\ stk' = stk /\ h.left # {}
  BY <1>n, <1>h, AgainRecord
<1>2. /\ entry_cache' = entry_cache /\ mishaps[t] \subseteq mishaps'[t]
      /\ \A k \in 1 .. Len(ring) : ring'[k] = ring[k]
      /\ Len(ring') = Len(ring) \/ Len(ring') = n
  BY <1>n, <1>1 DEF Grows
<1>3. p \in 1 .. Len(stk[t]) /\ IsHooked(p, t, g, c)
  BY <1>1 DEF IsHooked
<1>4. \A a, b, q : Inside(t, a, b, q) => Inside(t, a, b, q)'
  BY <1>1 DEF Inside, IsHooked
<1>5. CASE j \in 0 .. Len(ring)
  <2>1. EntryAt(j, t, g, d) /\ Calm(t)
    BY <1>t, <1>2, <1>5, PlacesKept, CalmBefore
  <2>2. j \in 0 .. n - 1
    BY <1>n, <1>5
  <2>3. Gone(t, g, d, c, j, n) \/ Inside(t, g, d, p)
    BY <1>n, <1>3, <2>1, <2>2 DEF Paired, StackPaired
  <2>4. CASE Gone(t, g, d, c, j, n)
    BY <1>n, <1>1, <1>5, <2>4, EndMoves
  <2>5. QED
    BY <1>4, <2>3, <2>4
<1>6. CASE j = n /\ Len(ring') = n
  <2>0. ring'[n].func = g /\ ring'[n].call = d /\ ~ring'[n].is_exit
    BY <1>n, <1>6 DEF EntryAt, IsEntry
  <2>1. h.prog = "entry" /\ IsEntry(n, t, h.func, h.call)'
    BY <1>n, <1>h, <2>0, AgainRecord DEF IsExit
  <2>2. g = h.func /\ d = h.call
    BY <2>0, <2>1 DEF IsEntry
  <2>3. d = c \/ Inside(t, g, d, p)
    BY <1>h, <1>1, <1>3, <2>1, <2>2, AgainFront
  <2>4. QED
    BY <1>4, <2>3 DEF Gone
<1>7. QED
  BY <1>t, <1>n, <1>2, <1>5, <1>6

\* A leaf in the stack is the call in front, whose time and entry are new.
LEMMA AgainStackLeaves ==
    ASSUME WatchInv, Paired, NEW t \in Threads, RunAgain(t),
           NEW g \in Funcs, NEW c \in Nat, NEW m \in Nat, m = Len(ring') + 1,
           NEW p \in 1 .. Len(stk'[t]),
           mishaps'[t] = {}, IsHooked(p, t, g, c)', stk'[t][p].leaf
    PROVE  /\ entry_times'[t] = c
           /\ Latest(t, g, c, m)'
           /\ \A q \in 1 .. p - 1 : ~stk'[t][q].hooked /\ ~stk'[t][q].seen
<1>t. Len(ring) \in Nat
  BY DEF WatchInv, TypeOK
<1>n. PICK n \in Nat : n = Len(ring) + 1
  BY <1>t
<1>h. PICK h : h = hit[t]
  OBVIOUS
<1>1. Grows(t) /\ stk' = stk /\ h.left # {} /\ Calm(t)'
  BY <1>n, <1>h, AgainRecord DEF Calm
<1>2. mishaps[t] = {}
  BY <1>1, CalmBefore DEF Grows
<1>3. p \in 1 .. Len(stk[t]) /\ IsHooked(p, t, g, c) /\ stk[t][p].leaf
  BY <1>1 DEF IsHooked
<1>4. /\ entry_times[t] = c
      /\ \A q \in 1 .. p - 1 : ~stk[t][q].hooked /\ ~stk[t][q].seen
  BY <1>n, <1>2, <1>3 DEF Paired, StackLeaves
<1>5. c # None
  BY <1>3 DEF Paired, FramesHooked, IsHooked
<1>6. h.prog = "entry" /\ entry_times'[t] = h.call /\ Len(ring') = n
      /\ IsEntry(n, t, h.func, h.call)'
  BY <1>n, <1>h, <1>1, <1>4, <1>5, AgainRecord
<1>7. /\ Len(stk[t]) >= 1 /\ stk[t][1].seen
      /\ h.call = stk[t][1].call /\ h.func = stk[t][1].func
  BY <1>h, <1>1, <1>6 DEF WatchInv, HitKnown
<1>8. p = 1
  BY <1>3, <1>4, <1>7
<1>9. g = h.func /\ c = h.call
  BY <1>3, <1>7, <1>8 DEF IsHooked
<1>10. EntryAt(n, t, g, c)'
  BY <1>n, <1>t, <1>6, <1>9 DEF EntryAt
<1>11. Latest(t, g, c, m)'
  <2>1. n \in 0 .. m - 1 /\ \A k \in n + 1 .. m - 1 : FALSE
    BY <1>6
  <2>2. QED
    BY <1>10, <2>1 DEF Latest
<1>12. QED
  BY <1>1, <1>4, <1>6, <1>9, <1>11

\* A new exit record comes behind one of the same call.
LEMMA AgainNewExit ==
    ASSUME WatchInv, Paired, NEW t \in Threads, RunAgain(t),
           NEW n \in Nat, n = Len(ring) + 1, Len(ring') = n,
           NEW u \in Threads, NEW g \in Funcs, NEW c \in Nat, IsExit(n, u, g, c)',
           Calm(u)'
    PROVE  ring'[n].again /\ ring'[n].from = None /\ JustLeft(u, g, n)'
<1>t. Len(ring) \in Nat
  BY DEF WatchInv, TypeOK
<1>h. PICK h : h = hit[t]
  OBVIOUS
<1>1. Grows(t) /\ h.left # {} /\ ring' # ring
  BY <1>t, <1>h, AgainRecord
<1>2. u = t
  BY <1>1 DEF Grows, IsExit
<1>3. h.prog = "exit" /\ IsExit(n, t, h.func, h.call)'
      /\ ring'[n].again /\ ring'[n].from = None
  BY <1>h, <1>2, AgainRecord DEF IsExit, IsEntry
<1>4. g = h.func
  BY <1>3 DEF IsExit
<1>5. Calm(t)
  BY <1>1, <1>2, CalmBefore DEF Grows
<1>6. JustLeft(t, g, n)
  BY <1>h, <1>1, <1>3, <1>4, <1>5 DEF Paired, HitLeft
<1>7. n \in 1 .. Len(ring) + 1
  BY <1>t
<1>8. QED
  BY <1>1, <1>2, <1>3, <1>6, <1>7, PlacesKept DEF Grows

\* If the exit program runs once more, the record is behind this one.
LEMMA AgainOwnHit ==
    ASSUME WatchInv, Paired, NEW t \in Threads, RunAgain(t),
           NEW m \in Nat, m = Len(ring') + 1, Calm(t)', hit'[t].left # {},
           hit'[t].prog = "exit"
    PROVE  JustLeft(t, hit[t].func, m)'
<1>t. TypeOK /\ HitKnown /\ Len(ring) \in Nat
  BY DEF WatchInv, TypeOK
<1>n. PICK n \in Nat : n = Len(ring) + 1
  BY <1>t
<1>h. PICK h : h = hit[t]
  OBVIOUS
<1>1. hit'[t].prog = h.prog /\ hit'[t].func = h.func
  BY <1>t, <1>h, AgainEffect
<1>f. PICK f : f = h.func
  OBVIOUS
<1>2. Len(ring') = n /\ IsExit(n, t, f, h.call)'
  BY <1>n, <1>h, <1>f, <1>1, AgainRecord
<1>3. LeftAt(n, t, f)'
  BY <1>n, <1>t, <1>2 DEF LeftAt, IsExit
<1>4. JustLeft(t, f, m)'
  <2>1. n \in 0 .. m - 1 /\ \A k \in n + 1 .. m - 1 : FALSE
    BY <1>2
  <2>2. QED
    BY <1>3, <2>1 DEF JustLeft
<1>5. f = hit'[t].func
  BY <1>1, <1>f
<1>6. QED
  BY <1>4, <1>5 DEF JustLeft, LeftAt

LEMMA AgainPaired ==
    ASSUME WatchInv, Paired, NEW t \in Threads, RunAgain(t)
    PROVE  Paired'
<1>t. TypeOK /\ HitKnown /\ Len(ring) \in Nat
  BY DEF WatchInv, TypeOK
<1>n. PICK n \in Nat : n = Len(ring) + 1
  BY <1>t
<1>1. /\ Grows(t) /\ UNCHANGED <<stk, links>>
      /\ \A u \in Threads \ {t} : entry_times'[u] = entry_times[u]
      /\ Len(ring') = Len(ring) \/ Len(ring') = n
  <2>1. /\ Grows(t) /\ UNCHANGED <<stk, links>>
        /\ \A u \in Threads \ {t} : entry_times'[u] = entry_times[u]
    BY <1>n, AgainRecord
  <2>2. QED
    BY <1>n, <2>1 DEF Grows
<1>2. \A i \in 1 .. Len(ring') : i \in 1 .. Len(ring) \/ (i = n /\ Len(ring') = n)
  BY <1>t, <1>n, <1>1
<1>3. RingPaired'
  <2>1. ASSUME NEW u \in Threads, NEW g \in Funcs, NEW c \in Nat, NEW d \in Nat,
               NEW i \in 1 .. Len(ring'), NEW j \in 0 .. i - 1,
               Calm(u)', IsExit(i, u, g, c)', ~ring'[i].again, EntryAt(j, u, g, d)'
        PROVE  Gone(u, g, d, c, j, i)'
    <3>1. i \in 1 .. Len(ring)
      BY <1>n, <1>2, <2>1, AgainNewExit
    <3>2. QED
      BY <1>1, <2>1, <3>1, OldExits DEF Paired
  <2>2. QED
    BY <2>1 DEF RingPaired
<1>4. RingLeaves'
  <2>1. ASSUME NEW u \in Threads, NEW g \in Funcs, NEW c \in Nat,
               NEW i \in 1 .. Len(ring'),
               mishaps'[u] = {}, IsExit(i, u, g, c)', ~ring'[i].again, ring'[i].leaf
        PROVE  ring'[i].from = c /\ Latest(u, g, c, i)'
    <3>1. Calm(u)'
      BY <2>1 DEF Calm
    <3>2. i \in 1 .. Len(ring)
      BY <1>n, <1>2, <2>1, <3>1, AgainNewExit
    <3>3. QED
      BY <1>1, <2>1, <3>2, OldExits DEF Paired
  <2>2. QED
    BY <2>1 DEF RingLeaves
<1>5. RingRepeats'
  <2>1. ASSUME NEW u \in Threads, NEW g \in Funcs, NEW c \in Nat,
               NEW i \in 1 .. Len(ring'),
               Calm(u)', IsExit(i, u, g, c)', ring'[i].again
        PROVE  ring'[i].from = None /\ JustLeft(u, g, i)'
    <3>1. CASE i \in 1 .. Len(ring)
      BY <1>1, <2>1, <3>1, OldExits DEF Paired
    <3>2. CASE i = n /\ Len(ring') = n
      BY <1>n, <2>1, <3>2, AgainNewExit
    <3>3. QED
      BY <1>2, <3>1, <3>2
  <2>2. QED
    BY <2>1 DEF RingRepeats
<1>6. StackPaired'
  <2>1. ASSUME NEW u \in Threads, NEW g \in Funcs, NEW c \in Nat, NEW d \in Nat,
               NEW m \in Nat, m = Len(ring') + 1, NEW j \in 0 .. m - 1,
               NEW p \in 1 .. Len(stk'[u]),
               Calm(u)', IsHooked(p, u, g, c)', EntryAt(j, u, g, d)'
        PROVE  Gone(u, g, d, c, j, m)' \/ Inside(u, g, d, p)'
    <3>1. CASE u = t
      BY <2>1, <3>1, AgainStackPaired
    <3>2. CASE u # t
      BY <1>1, <2>1, <3>2, OtherStacks DEF Paired
    <3>3. QED
      BY <3>1, <3>2
  <2>2. QED
    BY <2>1 DEF StackPaired
<1>7. StackLeaves'
  <2>1. ASSUME NEW u \in Threads, NEW g \in Funcs, NEW c \in Nat,
               NEW m \in Nat, m = Len(ring') + 1, NEW p \in 1 .. Len(stk'[u]),
               mishaps'[u] = {}, IsHooked(p, u, g, c)', stk'[u][p].leaf
        PROVE  /\ entry_times'[u] = c
               /\ Latest(u, g, c, m)'
               /\ \A q \in 1 .. p - 1 : ~stk'[u][q].hooked /\ ~stk'[u][q].seen
    <3>1. CASE u = t
      BY <2>1, <3>1, AgainStackLeaves
    <3>2. CASE u # t
      BY <1>1, <2>1, <3>2, OtherStacks DEF Paired
    <3>3. QED
      BY <3>1, <3>2
  <2>2. QED
    BY <2>1 DEF StackLeaves
<1>8. HitLeft'
  <2>1. ASSUME NEW u \in Threads, NEW m \in Nat, m = Len(ring') + 1, Calm(u)',
               hit'[u].left # {}, hit'[u].prog = "exit"
        PROVE  JustLeft(u, hit[u].func, m)'
    <3>1. CASE u # t
      <4>1. \A v \in Threads \ {t} : hit'[v] = hit[v]
        BY <1>t, AgainEffect
      <4>2. hit'[u] = hit[u]
        BY <3>1, <4>1
      <4>3. QED
        BY <1>1, <2>1, <3>1, <4>2, OtherHits DEF Paired
    <3>2. CASE u = t
      BY <2>1, <3>2, AgainOwnHit
    <3>3. QED
      BY <3>1, <3>2
  <2>2. QED
    BY <2>1 DEF HitLeft
<1>9. FramesHooked' /\ HookedAlike'
  BY <1>1 DEF Paired, FramesHooked, HookedAlike, Probed, Linked
<1>10. QED
  BY <1>3, <1>4, <1>5, <1>6, <1>7, <1>8, <1>9 DEF Paired

--------------------------------------------------------------------------------
(* The callback consumes a record *)

Consumes == OnEntry \/ (OnExit /\ ~EnoughEvents)

\* The records move one place to the front.
LEMMA ConsumeMoves ==
    ASSUME WatchInv, Consumes
    PROVE  /\ Len(ring) \in Nat /\ Len(ring) >= 1 /\ Len(ring') = Len(ring) - 1
           /\ Head(ring) = ring[1] /\ ring[1].tid \in Threads
           /\ \A k \in 1 .. Len(ring') : k + 1 \in 1 .. Len(ring) /\ ring'[k] = ring[k + 1]
           /\ \A t, f, c : \A k \in 1 .. Len(ring') :
                /\ IsEntry(k, t, f, c)' = IsEntry(k + 1, t, f, c)
                /\ IsExit(k, t, f, c)' = IsExit(k + 1, t, f, c)
           /\ UNCHANGED <<stk, entry_times, mishaps, links, hit>>
<1>1. ring \in Seq(RawEvent) /\ ring # <<>> /\ ring' = Tail(ring)
  BY DEF WatchInv, TypeOK, Consumes, OnEntry, OnExit
<1>2. UNCHANGED <<stk, entry_times, mishaps, links, hit>>
  BY DEF Consumes, OnEntry, OnExit, targetVars
<1>3. /\ Len(ring) \in Nat /\ Len(ring) >= 1 /\ Len(ring') = Len(ring) - 1
      /\ Head(ring) = ring[1] /\ Head(ring) \in RawEvent
      /\ \A k \in 1 .. Len(ring') : k + 1 \in 1 .. Len(ring) /\ ring'[k] = ring[k + 1]
  BY <1>1, TailMoves
<1>4. ring[1].tid \in Threads
  BY <1>3 DEF RawEvent
<1>5. \A t, f, c : \A k \in 1 .. Len(ring') :
        /\ IsEntry(k, t, f, c)' = IsEntry(k + 1, t, f, c)
        /\ IsExit(k, t, f, c)' = IsExit(k + 1, t, f, c)
  BY <1>3 DEF IsEntry, IsExit
<1>6. QED
  BY <1>2, <1>3, <1>4, <1>5

\* What the cache holds of a function was in the record, or in the cache before and
\* the record did not displace it.
LEMMA CacheBack ==
    ASSUME WatchInv, Consumes, NEW t \in Threads, NEW f \in Funcs, NEW d,
           EntryAt(0, t, f, d)'
    PROVE  \/ EntryAt(1, t, f, d)
           \/ /\ EntryAt(0, t, f, d)
              /\ \A c : ~IsEntry(1, t, f, c) /\ ~IsExit(1, t, f, c)
<1>1. entry_cache \in [Threads -> [call : Call, func : Funcs \cup {None}]]
      /\ Head(ring) = ring[1] /\ ring[1].tid \in Threads
  BY ConsumeMoves DEF WatchInv, TypeOK
<1>2. entry_cache'[t].func = f /\ entry_cache'[t].call = d
  BY DEF EntryAt
<1>3. CASE entry_cache'[t] = entry_cache[t] /\ ring[1].tid # t
  BY <1>2, <1>3 DEF EntryAt, IsEntry, IsExit
<1>4. CASE OnEntry /\ ring[1].tid = t
  <2>1. entry_cache'[t] = [call |-> ring[1].call, func |-> ring[1].func]
        /\ ~ring[1].is_exit
    BY <1>1, <1>4 DEF OnEntry
  <2>2. QED
    BY <1>2, <1>4, <2>1 DEF EntryAt, IsEntry
<1>5. CASE OnExit /\ ~EnoughEvents /\ ring[1].tid = t
  <2>1. ring[1].is_exit
    BY <1>1, <1>5 DEF OnExit
  <2>2. entry_cache' = IF Cached(ring[1]) THEN [entry_cache EXCEPT ![t] = Nothing]
                                         ELSE entry_cache
    BY <1>1, <1>5 DEF OnExit
  <2>3. CASE Cached(ring[1])
    <3>1. entry_cache'[t].func = None
      BY <1>1, <2>2, <2>3 DEF Nothing
    <3>2. QED
      BY <1>2, <3>1, WatchAssumption DEF None, Funcs, Targets
  <2>4. CASE ~Cached(ring[1])
    <3>1. entry_cache' = entry_cache /\ entry_cache[t].func # ring[1].func
      BY <1>5, <2>2, <2>4 DEF Cached
    <3>2. QED
      BY <1>2, <2>1, <3>1 DEF EntryAt, IsEntry, IsExit
  <2>5. QED
    BY <2>3, <2>4
<1>6. ring[1].tid # t => entry_cache'[t] = entry_cache[t]
  BY <1>1 DEF Consumes, OnEntry, OnExit
<1>7. QED
  BY <1>3, <1>4, <1>5, <1>6 DEF Consumes

\* An entry record comes into the cache, and those of other threads stay.
LEMMA CacheForward ==
    ASSUME WatchInv, Consumes, NEW t \in Threads, NEW f, NEW c,
           IsEntry(1, t, f, c) \/ (EntryAt(0, t, f, c) /\ ring[1].tid # t)
    PROVE  EntryAt(0, t, f, c)'
<1>1. entry_cache \in [Threads -> [call : Call, func : Funcs \cup {None}]]
      /\ Head(ring) = ring[1] /\ ring[1].tid \in Threads
  BY ConsumeMoves DEF WatchInv, TypeOK
<1>2. CASE IsEntry(1, t, f, c)
  <2>1. ring[1].tid = t /\ ~ring[1].is_exit /\ ring[1].func = f /\ ring[1].call = c
    BY <1>2 DEF IsEntry
  <2>2. OnEntry
    BY <1>1, <2>1 DEF Consumes, OnExit
  <2>3. entry_cache'[t] = [call |-> ring[1].call, func |-> ring[1].func]
    BY <1>1, <2>1, <2>2 DEF OnEntry
  <2>4. QED
    BY <2>1, <2>3 DEF EntryAt
<1>3. CASE EntryAt(0, t, f, c) /\ ring[1].tid # t
  <2>1. entry_cache'[t] = entry_cache[t]
    BY <1>1, <1>3 DEF Consumes, OnEntry, OnExit
  <2>2. QED
    BY <1>3, <2>1 DEF EntryAt
<1>4. QED
  BY <1>2, <1>3

\* An entry was somewhere before, and what displaces it moves with the records.
LEMMA GoneMoves ==
    ASSUME WatchInv, Consumes, NEW t \in Threads, NEW f \in Funcs, NEW c, NEW d,
           NEW i \in 1 .. Len(ring') + 1, NEW j \in 0 .. i - 1, EntryAt(j, t, f, d)'
    PROVE  \E b \in 0 .. (i + 1) - 1 :
             EntryAt(b, t, f, d) /\ (Gone(t, f, d, c, b, i + 1) => Gone(t, f, d, c, j, i)')
<1>1. /\ Len(ring') \in Nat /\ Len(ring) \in Nat /\ Len(ring') = Len(ring) - 1
      /\ \A k \in 1 .. Len(ring') : \A a :
           /\ IsEntry(k, t, f, a)' = IsEntry(k + 1, t, f, a)
           /\ IsExit(k, t, f, a)' = IsExit(k + 1, t, f, a)
  BY ConsumeMoves
\* The displacing record is not the one consumed.
<1>2. ASSUME NEW b \in 0 .. i, Gone(t, f, d, c, b, i + 1),
             \A k \in b + 1 .. i : (k = 1 \/ k \notin j + 2 .. i)
                 => ~IsEntry(k, t, f, c) /\ ~IsExit(k, t, f, d)
      PROVE  Gone(t, f, d, c, j, i)'
  <2>1. CASE d = c
    BY <2>1 DEF Gone
  <2>2. CASE d # c
    <3>1. PICK k \in b + 1 .. i : IsEntry(k, t, f, c) \/ IsExit(k, t, f, d)
      BY <1>2, <2>2 DEF Gone
    <3>2. k # 1 /\ k \in j + 2 .. i
      BY <1>2, <3>1
    <3>3. PICK l \in j + 1 .. i - 1 : k = l + 1
      <4>1. k - 1 \in j + 1 .. i - 1 /\ k = (k - 1) + 1
        BY <3>2
      <4>2. QED
        BY <4>1
    <3>4. l \in 1 .. Len(ring')
      BY <1>1, <3>3
    <3>5. (IsEntry(l, t, f, c) \/ IsExit(l, t, f, d))'
      BY <1>1, <3>1, <3>3, <3>4
    <3>6. QED
      BY <3>3, <3>5 DEF Gone
  <2>3. QED
    BY <2>1, <2>2
<1>3. CASE j # 0
  <2>1. j \in 1 .. Len(ring') /\ j + 1 \in 0 .. i
    BY <1>1, <1>3
  <2>2. EntryAt(j + 1, t, f, d)
    BY <1>1, <1>3, <2>1 DEF EntryAt
  <2>3. \A k \in (j + 1) + 1 .. i : k # 1 /\ k \in j + 2 .. i
    BY <1>3
  <2>4. QED
    BY <1>2, <2>1, <2>2, <2>3
<1>4. CASE j = 0 /\ EntryAt(1, t, f, d)
  <2>1. 1 \in 0 .. i /\ \A k \in 1 + 1 .. i : k # 1 /\ k \in j + 2 .. i
    BY <1>4
  <2>2. QED
    BY <1>2, <1>4, <2>1
<1>5. CASE /\ j = 0 /\ EntryAt(0, t, f, d)
           /\ \A a : ~IsEntry(1, t, f, a) /\ ~IsExit(1, t, f, a)
  <2>1. 0 \in 0 .. i /\ \A k \in 0 + 1 .. i : k = 1 \/ k \in j + 2 .. i
    BY <1>5
  <2>2. \A k \in 0 + 1 .. i : (k = 1 \/ k \notin j + 2 .. i)
          => ~IsEntry(k, t, f, c) /\ ~IsExit(k, t, f, d)
    BY <1>5, <2>1
  <2>3. QED
    BY <1>2, <1>5, <2>1, <2>2
<1>6. QED
  BY <1>3, <1>4, <1>5, CacheBack

\* The entry that the cache will hold at a place is the same after the move.
LEMMA LatestMoves ==
    ASSUME WatchInv, Consumes, NEW t \in Threads, NEW f, NEW c,
           NEW i \in 1 .. Len(ring') + 1, Latest(t, f, c, i + 1)
    PROVE  Latest(t, f, c, i)'
<1>1. /\ Len(ring') \in Nat /\ Len(ring) \in Nat /\ Len(ring') = Len(ring) - 1
      /\ \A k \in 1 .. Len(ring') : ring'[k] = ring[k + 1]
      /\ \A k \in 1 .. Len(ring') : \A a : IsEntry(k, t, f, a)' = IsEntry(k + 1, t, f, a)
  BY ConsumeMoves
<1>2. PICK j \in 0 .. i : EntryAt(j, t, f, c) /\ \A k \in j + 1 .. i : ring[k].tid # t
  BY DEF Latest
<1>3. ASSUME NEW l \in 0 .. i - 1, EntryAt(l, t, f, c)', l + 1 >= j
      PROVE  Latest(t, f, c, i)'
  <2>1. ASSUME NEW k \in l + 1 .. i - 1
        PROVE  ring'[k].tid # t
    <3>1. k \in 1 .. Len(ring') /\ k + 1 \in j + 1 .. i
      BY <1>1, <1>2, <1>3, <2>1
    <3>2. QED
      BY <1>1, <1>2, <3>1
  <2>2. QED
    BY <1>3, <2>1 DEF Latest
<1>4. CASE j = 0
  <2>1. 1 \in j + 1 .. i
    BY <1>4
  <2>2. EntryAt(0, t, f, c)'
    BY <1>2, <1>4, <2>1, CacheForward
  <2>3. QED
    BY <1>3, <1>4, <2>2
<1>5. CASE j = 1
  <2>1. IsEntry(1, t, f, c)
    BY <1>2, <1>5 DEF EntryAt
  <2>2. EntryAt(0, t, f, c)'
    BY <2>1, CacheForward
  <2>3. QED
    BY <1>3, <1>5, <2>2
<1>6. CASE j \in 2 .. i
  <2>1. PICK l \in 1 .. i - 1 : j = l + 1
    <3>1. j - 1 \in 1 .. i - 1 /\ j = (j - 1) + 1
      BY <1>6
    <3>2. QED
      BY <3>1
  <2>2. l \in 1 .. Len(ring') /\ IsEntry(l + 1, t, f, c)
    BY <1>1, <1>2, <2>1 DEF EntryAt
  <2>3. IsEntry(l, t, f, c)'
    BY <1>1, <2>2
  <2>4. EntryAt(l, t, f, c)'
    BY <2>1, <2>3 DEF EntryAt
  <2>5. QED
    BY <1>3, <2>1, <2>4
<1>7. QED
  BY <1>2, <1>4, <1>5, <1>6

\* An exit record leaves no entry of its function in the cache.
LEMMA LeftForward ==
    ASSUME WatchInv, Consumes, NEW t \in Threads, NEW f \in Funcs,
           LeftAt(1, t, f) \/ (LeftAt(0, t, f) /\ ring[1].tid # t)
    PROVE  LeftAt(0, t, f)'
<1>1. entry_cache \in [Threads -> [call : Call, func : Funcs \cup {None}]]
      /\ Head(ring) = ring[1] /\ ring[1].tid \in Threads
  BY ConsumeMoves DEF WatchInv, TypeOK
<1>2. CASE LeftAt(1, t, f)
  <2>1. ring[1].tid = t /\ ring[1].is_exit /\ ring[1].func = f
    BY <1>2 DEF LeftAt
  <2>2. OnExit /\ ~EnoughEvents
    BY <1>1, <2>1 DEF Consumes, OnEntry
  <2>3. entry_cache' = IF Cached(ring[1]) THEN [entry_cache EXCEPT ![t] = Nothing]
                                         ELSE entry_cache
    BY <1>1, <2>1, <2>2 DEF OnExit
  <2>4. CASE Cached(ring[1])
    <3>1. entry_cache'[t].func = None /\ f # None
      BY <1>1, <2>3, <2>4, WatchAssumption DEF Nothing, None, Funcs, Targets
    <3>2. QED
      BY <3>1 DEF LeftAt
  <2>5. CASE ~Cached(ring[1])
    BY <2>1, <2>3, <2>5 DEF Cached, LeftAt
  <2>6. QED
    BY <2>4, <2>5
<1>3. CASE LeftAt(0, t, f) /\ ring[1].tid # t
  <2>1. entry_cache'[t] = entry_cache[t]
    BY <1>1, <1>3 DEF Consumes, OnEntry, OnExit
  <2>2. QED
    BY <1>3, <2>1 DEF LeftAt
<1>4. QED
  BY <1>2, <1>3

\* What was last heard of a thread is the same after the move.
LEMMA LeftMoves ==
    ASSUME WatchInv, Consumes, NEW t \in Threads, NEW f \in Funcs,
           NEW i \in 1 .. Len(ring') + 1, JustLeft(t, f, i + 1)
    PROVE  JustLeft(t, f, i)'
<1>1. /\ Len(ring') \in Nat /\ Len(ring) \in Nat /\ Len(ring') = Len(ring) - 1
      /\ \A k \in 1 .. Len(ring') : ring'[k] = ring[k + 1]
  BY ConsumeMoves
<1>2. PICK j \in 0 .. i : LeftAt(j, t, f) /\ \A k \in j + 1 .. i : ring[k].tid # t
  BY DEF JustLeft
<1>3. ASSUME NEW l \in 0 .. i - 1, LeftAt(l, t, f)', l + 1 >= j
      PROVE  JustLeft(t, f, i)'
  <2>1. ASSUME NEW k \in l + 1 .. i - 1
        PROVE  ring'[k].tid # t
    <3>1. k \in 1 .. Len(ring') /\ k + 1 \in j + 1 .. i
      BY <1>1, <1>2, <1>3, <2>1
    <3>2. QED
      BY <1>1, <1>2, <3>1
  <2>2. QED
    BY <1>3, <2>1 DEF JustLeft
<1>4. CASE j = 0
  <2>1. 1 \in j + 1 .. i
    BY <1>4
  <2>2. LeftAt(0, t, f)'
    BY <1>2, <1>4, <2>1, LeftForward
  <2>3. QED
    BY <1>3, <1>4, <2>2
<1>5. CASE j = 1
  <2>1. LeftAt(0, t, f)'
    BY <1>2, <1>5, LeftForward
  <2>2. QED
    BY <1>3, <1>5, <2>1
<1>6. CASE j \in 2 .. i
  <2>1. PICK l \in 1 .. i - 1 : j = l + 1
    <3>1. j - 1 \in 1 .. i - 1 /\ j = (j - 1) + 1
      BY <1>6
    <3>2. QED
      BY <3>1
  <2>2. l \in 1 .. Len(ring') /\ ring'[l] = ring[l + 1]
    BY <1>1, <2>1
  <2>3. LeftAt(l, t, f)'
    BY <1>2, <2>1, <2>2 DEF LeftAt
  <2>4. QED
    BY <1>3, <2>1, <2>3
<1>7. QED
  BY <1>2, <1>4, <1>5, <1>6

LEMMA ConsumePaired ==
    ASSUME WatchInv, Paired, Consumes
    PROVE  Paired'
<1>1. /\ Len(ring') \in Nat /\ Len(ring) \in Nat /\ Len(ring') = Len(ring) - 1
      /\ \A k \in 1 .. Len(ring') : k + 1 \in 1 .. Len(ring) /\ ring'[k] = ring[k + 1]
      /\ \A t, f, c : \A k \in 1 .. Len(ring') :
           IsExit(k, t, f, c)' = IsExit(k + 1, t, f, c)
  BY ConsumeMoves
<1>2. UNCHANGED <<stk, entry_times, mishaps, links, hit>>
  BY ConsumeMoves
<1>3. RingPaired'
  <2>1. ASSUME NEW t \in Threads, NEW f \in Funcs, NEW c \in Nat, NEW d \in Nat,
               NEW i \in 1 .. Len(ring'), NEW j \in 0 .. i - 1,
               Calm(t)', IsExit(i, t, f, c)', ~ring'[i].again, EntryAt(j, t, f, d)'
        PROVE  Gone(t, f, d, c, j, i)'
    <3>1. i \in 1 .. Len(ring') + 1
      BY <1>1
    <3>2. PICK b \in 0 .. (i + 1) - 1 :
            EntryAt(b, t, f, d) /\ (Gone(t, f, d, c, b, i + 1) => Gone(t, f, d, c, j, i)')
      BY <2>1, <3>1, GoneMoves
    <3>3. i + 1 \in 1 .. Len(ring) /\ IsExit(i + 1, t, f, c) /\ Calm(t)
          /\ ~ring[i + 1].again
      BY <1>1, <1>2, <2>1 DEF Calm
    <3>4. Gone(t, f, d, c, b, i + 1)
      BY <3>2, <3>3 DEF Paired, RingPaired
    <3>5. QED
      BY <3>2, <3>4
  <2>2. QED
    BY <2>1 DEF RingPaired
<1>4. StackPaired'
  <2>1. ASSUME NEW t \in Threads, NEW f \in Funcs, NEW c \in Nat, NEW d \in Nat,
               NEW m \in Nat, m = Len(ring') + 1, NEW j \in 0 .. m - 1,
               NEW p \in 1 .. Len(stk'[t]),
               Calm(t)', IsHooked(p, t, f, c)', EntryAt(j, t, f, d)'
        PROVE  Gone(t, f, d, c, j, m)' \/ Inside(t, f, d, p)'
    <3>1. m \in 1 .. Len(ring') + 1 /\ m + 1 = Len(ring) + 1 /\ m + 1 \in Nat
      BY <1>1, <2>1
    <3>2. PICK b \in 0 .. (m + 1) - 1 :
            EntryAt(b, t, f, d) /\ (Gone(t, f, d, c, b, m + 1) => Gone(t, f, d, c, j, m)')
      BY <2>1, <3>1, GoneMoves
    <3>3. p \in 1 .. Len(stk[t]) /\ IsHooked(p, t, f, c) /\ Calm(t)
      BY <1>2, <2>1 DEF Calm, IsHooked
    <3>4. Gone(t, f, d, c, b, m + 1) \/ Inside(t, f, d, p)
      BY <3>1, <3>2, <3>3 DEF Paired, StackPaired
    <3>5. Inside(t, f, d, p) => Inside(t, f, d, p)'
      BY <1>2 DEF Inside, IsHooked
    <3>6. QED
      BY <3>2, <3>4, <3>5
  <2>2. QED
    BY <2>1 DEF StackPaired
<1>5. RingLeaves'
  <2>1. ASSUME NEW t \in Threads, NEW f \in Funcs, NEW c \in Nat,
               NEW i \in 1 .. Len(ring'),
               mishaps'[t] = {}, IsExit(i, t, f, c)', ~ring'[i].again, ring'[i].leaf
        PROVE  ring'[i].from = c /\ Latest(t, f, c, i)'
    <3>1. /\ i + 1 \in 1 .. Len(ring) /\ IsExit(i + 1, t, f, c)
          /\ mishaps[t] = {} /\ ring'[i] = ring[i + 1]
      BY <1>1, <1>2, <2>1
    <3>2. ring[i + 1].from = c /\ Latest(t, f, c, i + 1)
      BY <2>1, <3>1 DEF Paired, RingLeaves
    <3>3. i \in 1 .. Len(ring') + 1
      BY <1>1
    <3>4. QED
      BY <3>1, <3>2, <3>3, LatestMoves
  <2>2. QED
    BY <2>1 DEF RingLeaves
<1>6. StackLeaves'
  <2>1. ASSUME NEW t \in Threads, NEW f \in Funcs, NEW c \in Nat,
               NEW m \in Nat, m = Len(ring') + 1, NEW p \in 1 .. Len(stk'[t]),
               mishaps'[t] = {}, IsHooked(p, t, f, c)', stk'[t][p].leaf
        PROVE  /\ entry_times'[t] = c
               /\ Latest(t, f, c, m)'
               /\ \A q \in 1 .. p - 1 : ~stk'[t][q].hooked /\ ~stk'[t][q].seen
    <3>1. m \in 1 .. Len(ring') + 1 /\ m + 1 = Len(ring) + 1 /\ m + 1 \in Nat
      BY <1>1, <2>1
    <3>2. /\ p \in 1 .. Len(stk[t]) /\ IsHooked(p, t, f, c)
          /\ stk[t][p].leaf /\ mishaps[t] = {}
      BY <1>2, <2>1 DEF IsHooked
    <3>3. /\ entry_times[t] = c
          /\ Latest(t, f, c, m + 1)
          /\ \A q \in 1 .. p - 1 : ~stk[t][q].hooked /\ ~stk[t][q].seen
      BY <3>1, <3>2 DEF Paired, StackLeaves
    <3>4. Latest(t, f, c, m)'
      BY <3>1, <3>3, LatestMoves
    <3>5. QED
      BY <1>2, <3>3, <3>4
  <2>2. QED
    BY <2>1 DEF StackLeaves
<1>7. FramesHooked' /\ HookedAlike'
  BY <1>2 DEF Paired, FramesHooked, HookedAlike, Probed, Linked
<1>8. RingRepeats'
  <2>1. ASSUME NEW t \in Threads, NEW f \in Funcs, NEW c \in Nat,
               NEW i \in 1 .. Len(ring'),
               Calm(t)', IsExit(i, t, f, c)', ring'[i].again
        PROVE  ring'[i].from = None /\ JustLeft(t, f, i)'
    <3>1. /\ i + 1 \in 1 .. Len(ring) /\ IsExit(i + 1, t, f, c)
          /\ Calm(t) /\ ring'[i] = ring[i + 1]
      BY <1>1, <1>2, <2>1 DEF Calm
    <3>2. ring[i + 1].from = None /\ JustLeft(t, f, i + 1)
      BY <2>1, <3>1 DEF Paired, RingRepeats
    <3>3. i \in 1 .. Len(ring') + 1
      BY <1>1
    <3>4. QED
      BY <3>1, <3>2, <3>3, LeftMoves
  <2>2. QED
    BY <2>1 DEF RingRepeats
<1>9. HitLeft'
  <2>1. ASSUME NEW t \in Threads, NEW m \in Nat, m = Len(ring') + 1, Calm(t)',
               hit'[t].left # {}, hit'[t].prog = "exit"
        PROVE  JustLeft(t, hit[t].func, m)'
    <3>1. m \in 1 .. Len(ring') + 1 /\ m + 1 = Len(ring) + 1 /\ m + 1 \in Nat
      BY <1>1, <2>1
    <3>2. PICK f : f = hit[t].func
      OBVIOUS
    <3>3. f \in Funcs
      BY <1>2, <2>1, <3>2 DEF WatchInv, HitKnown
    <3>4. JustLeft(t, f, m + 1)
      BY <1>2, <2>1, <3>1, <3>2 DEF Paired, HitLeft, Calm
    <3>5. JustLeft(t, f, m)'
      BY <3>1, <3>3, <3>4, LeftMoves
    <3>6. f = hit'[t].func
      BY <1>2, <3>2
    <3>7. QED
      BY <3>5, <3>6 DEF JustLeft, LeftAt
  <2>2. QED
    BY <2>1 DEF HitLeft
<1>10. QED
  BY <1>3, <1>4, <1>5, <1>6, <1>7, <1>8, <1>9 DEF Paired

\* What LeafExact says of an event.
LeafSaid(e) ==
    e.leaf /\ mishaps[e.tid] = {}
        => IF e.again THEN e.from = None /\ e.params = None
                      ELSE e.from = e.call /\ e.params = e.call

\* The event made of a record says what was proved of the record.
LEMMA EventExact ==
    ASSUME WatchInv, Paired, OnExit, ~EnoughEvents, NEW e, e = EventOf(Head(ring))
    PROVE  /\ e.tid \in Threads
           /\ e.params \in {None, e.call} \/ mishaps[e.tid] \cap {"dropped", "unwound"} # {}
           /\ LeafSaid(e)
<1>1. ring \in Seq(RawEvent) /\ ring # <<>> /\ Head(ring).is_exit
  BY DEF WatchInv, TypeOK, OnExit
<1> DEFINE raw == ring[1]
           t == raw.tid
           f == raw.func
           c == raw.call
<1>2. Head(ring) = raw /\ raw \in RawEvent /\ 1 \in 1 .. Len(ring)
  BY <1>1, TailMoves
<1>3. t \in Threads /\ f \in Funcs /\ c \in Nat /\ raw.is_exit
  BY <1>1, <1>2 DEF RawEvent, Call
<1>4. IsExit(1, t, f, c)
  BY <1>3 DEF IsExit
<1>5. /\ e.tid = t /\ e.func = f /\ e.call = c /\ e.from = raw.from /\ e.leaf = raw.leaf
      /\ e.again = raw.again
      /\ e.params = IF entry_cache[t].func = f THEN entry_cache[t].call ELSE None
  BY <1>2 DEF EventOf, Cached
<1>r. raw = ring[1]
  OBVIOUS
<1>6. entry_cache[t].call \in Nat
  BY <1>3 DEF WatchInv, TypeOK, Call
<1> HIDE DEF raw, t, f, c
<1>7. ASSUME Calm(t)
      PROVE  e.params \in {None, e.call}
  <2>1. CASE entry_cache[t].func = f
    <3>1. EntryAt(0, t, f, entry_cache[t].call)
      BY <2>1 DEF EntryAt
    <3>2. ~ring[1].again
      <4>1. ASSUME ring[1].again
            PROVE  FALSE
        <5>1. JustLeft(t, f, 1)
          BY <1>2, <1>3, <1>4, <1>7, <4>1 DEF Paired, RingRepeats
        <5>2. LeftAt(0, t, f)
          BY <5>1 DEF JustLeft
        <5>3. QED
          BY <2>1, <5>2 DEF LeftAt
      <4>2. QED
        BY <4>1
    <3>3. Gone(t, f, entry_cache[t].call, c, 0, 1)
      BY <1>2, <1>3, <1>4, <1>6, <1>7, <3>1, <3>2 DEF Paired, RingPaired
    <3>4. entry_cache[t].call = c
      BY <3>3 DEF Gone
    <3>5. QED
      BY <1>5, <2>1, <3>4
  <2>2. CASE entry_cache[t].func # f
    BY <1>5, <2>2
  <2>3. QED
    BY <2>1, <2>2
<1>8. ASSUME e.leaf, mishaps[t] = {}, ~e.again
      PROVE  e.from = e.call /\ e.params = e.call
  <2>1. raw.from = c /\ Latest(t, f, c, 1)
    <3>1. raw.leaf /\ ~raw.again /\ ring[1] = raw
      BY <1>5, <1>8, <1>r
    <3>2. ring[1].from = c /\ Latest(t, f, c, 1)
      BY <1>2, <1>3, <1>4, <1>8, <3>1 DEF Paired, RingLeaves
    <3>3. QED
      BY <3>1, <3>2
  <2>2. EntryAt(0, t, f, c)
    BY <2>1 DEF Latest
  <2>3. entry_cache[t].func = f /\ entry_cache[t].call = c
    BY <2>2 DEF EntryAt
  <2>4. QED
    BY <1>5, <2>1, <2>3
<1>9. ASSUME mishaps[t] = {}, e.again
      PROVE  e.from = None /\ e.params = None
  <2>1. Calm(t) /\ ring[1].again
    BY <1>5, <1>9, <1>r DEF Calm
  <2>2. ring[1].from = None /\ JustLeft(t, f, 1)
    BY <1>2, <1>3, <1>4, <2>1 DEF Paired, RingRepeats
  <2>3. LeftAt(0, t, f)
    BY <2>2 DEF JustLeft
  <2>4. entry_cache[t].func # f
    BY <2>3 DEF LeftAt
  <2>5. QED
    BY <1>5, <1>r, <2>2, <2>4
<1>10. QED
  BY <1>3, <1>5, <1>7, <1>8, <1>9 DEF Calm, LeafSaid

--------------------------------------------------------------------------------
(* The theorems *)

LEMMA PairingInit == Init => PairingInv
<1> SUFFICES ASSUME Init PROVE PairingInv
  OBVIOUS
<1>1. /\ Len(ring) = 0 /\ Len(events) = 0 /\ \A t \in Threads : Len(stk[t]) = 0
  BY DEF Init
<1>2. RingPaired /\ RingLeaves
  BY <1>1 DEF RingPaired, RingLeaves
<1>3. StackPaired /\ StackLeaves
  BY <1>1 DEF StackPaired, StackLeaves
<1>4. FramesHooked /\ HookedAlike
  BY <1>1 DEF FramesHooked, HookedAlike
<1>5. ParamsOwn /\ LeafExact
  BY <1>1 DEF ParamsOwn, LeafExact, Collected
<1>6. RingRepeats /\ HitLeft
  <2>1. \A t \in Threads : hit[t].left = {}
    BY DEF Init, Idle
  <2>2. QED
    BY <1>1, <2>1 DEF RingRepeats, HitLeft
<1>7. QED
  BY <1>2, <1>3, <1>4, <1>5, <1>6 DEF PairingInv, Paired

\* Events that are there stay as good as they were.
LEMMA OldEvents ==
    ASSUME ParamsOwn, LeafExact, events' = events,
           events \in Seq(WatchEvent),
           \A u \in Threads : mishaps[u] \subseteq mishaps'[u]
    PROVE  ParamsOwn' /\ LeafExact'
<1>1. ASSUME NEW e \in Collected'
      PROVE  /\ e.params \in {None, e.call} \/ mishaps'[e.tid] \cap {"dropped", "unwound"} # {}
             /\ LeafSaid(e)'
  <2>1. e \in Collected /\ e \in WatchEvent
    BY DEF Collected
  <2>2. e.tid \in Threads
    BY <2>1 DEF WatchEvent
  <2>3. e.params \in {None, e.call} \/ mishaps[e.tid] \cap {"dropped", "unwound"} # {}
    BY <2>1 DEF ParamsOwn
  <2>4. LeafSaid(e)
    BY <2>1 DEF LeafExact, LeafSaid
  <2>5. mishaps[e.tid] \subseteq mishaps'[e.tid]
    BY <2>2
  <2>6. QED
    BY <2>3, <2>4, <2>5 DEF LeafSaid
<1>2. QED
  BY <1>1 DEF ParamsOwn, LeafExact, LeafSaid

\* The steps of uatu that leave records and calls alone.
LEMMA OtherSteps ==
    ASSUME WatchInv, PairingInv,
           \/ AttachEntry \/ AttachExit \/ Attached \/ Throw \/ LoopExit \/ Poll
           \/ OpenReader \/ PollReturns \/ (OnExit /\ EnoughEvents)
           \/ request_stop \/ Expire \/ UNCHANGED vars
    PROVE  PairingInv'
<1>1. events \in Seq(WatchEvent)
  BY DEF WatchInv, TypeOK
<1>2. events' = events /\ mishaps' = mishaps
  BY DEF AttachEntry, AttachExit, Attached, Throw, LoopExit, Poll, OpenReader,
         PollReturns, OnExit, request_stop, Expire, vars, userVars, targetVars
<1>3. ParamsOwn' /\ LeafExact'
  BY <1>1, <1>2, OldEvents DEF PairingInv
<1>4. ASSUME Live'
      PROVE  Paired'
  <2>1. /\ UNCHANGED <<ring, stk, entry_cache, entry_times, mishaps, hit>>
        /\ links \subseteq links'
        /\ Live
    <3>1. ~EnoughEvents
      BY <1>2, <1>4 DEF Live, EnoughEvents
    <3>2. ~Throw /\ ~LoopExit
      BY <1>4 DEF Live, Throw, LoopExit
    <3>3. CASE AttachEntry \/ AttachExit
      BY <3>1, <3>3 DEF AttachEntry, AttachExit, Live, bpfVars, targetVars
    <3>4. CASE \/ Attached \/ Poll \/ OpenReader \/ PollReturns
               \/ request_stop \/ Expire \/ UNCHANGED vars
      BY <1>4, <3>1, <3>4 DEF Attached, Poll, OpenReader, PollReturns, request_stop,
               Expire, Live, vars, userVars, bpfVars, targetVars
    <3>5. QED
      BY <3>1, <3>2, <3>3, <3>4
  <2>2. Paired
    BY <2>1 DEF PairingInv
  <2>3. \A k, t, f, c : /\ IsEntry(k, t, f, c)' = IsEntry(k, t, f, c)
                        /\ IsExit(k, t, f, c)' = IsExit(k, t, f, c)
                        /\ IsHooked(k, t, f, c)' = IsHooked(k, t, f, c)
    BY <2>1 DEF IsEntry, IsExit, IsHooked
  <2>4. \A k, t, f, c : EntryAt(k, t, f, c)' = EntryAt(k, t, f, c)
    BY <2>1, <2>3 DEF EntryAt
  <2>5. \A t, f, d, c, j, i : Gone(t, f, d, c, j, i) => Gone(t, f, d, c, j, i)'
    BY <2>3 DEF Gone
  <2>6. \A t, f, d, p : Inside(t, f, d, p) => Inside(t, f, d, p)'
    BY <2>3 DEF Inside
  <2>7. \A t, f, c, i : Latest(t, f, c, i) => Latest(t, f, c, i)'
    BY <2>1, <2>4 DEF Latest
  <2>8. \A t : Calm(t)' = Calm(t)
    BY <2>1 DEF Calm
  <2>9. RingPaired'
    <3>1. ASSUME NEW t \in Threads, NEW f \in Funcs, NEW c \in Nat, NEW d \in Nat,
                 NEW i \in 1 .. Len(ring), NEW j \in 0 .. i - 1,
                 Calm(t)', IsExit(i, t, f, c)', ~ring[i].again, EntryAt(j, t, f, d)'
          PROVE  Gone(t, f, d, c, j, i)'
      BY <2>2, <2>3, <2>4, <2>5, <2>8, <3>1 DEF Paired, RingPaired
    <3>2. QED
      BY <2>1, <3>1 DEF RingPaired
  <2>10. StackPaired'
    <3>1. ASSUME NEW t \in Threads, NEW f \in Funcs, NEW c \in Nat, NEW d \in Nat,
                 NEW m \in Nat, m = Len(ring) + 1, NEW j \in 0 .. m - 1,
                 NEW p \in 1 .. Len(stk[t]),
                 Calm(t)', IsHooked(p, t, f, c)', EntryAt(j, t, f, d)'
          PROVE  Gone(t, f, d, c, j, m)' \/ Inside(t, f, d, p)'
      BY <2>2, <2>3, <2>4, <2>5, <2>6, <2>8, <3>1 DEF Paired, StackPaired
    <3>2. QED
      BY <2>1, <3>1 DEF StackPaired
  <2>11. RingLeaves'
    <3>1. ASSUME NEW t \in Threads, NEW f \in Funcs, NEW c \in Nat,
                 NEW i \in 1 .. Len(ring),
                 mishaps[t] = {}, IsExit(i, t, f, c)', ~ring[i].again, ring[i].leaf
          PROVE  ring[i].from = c /\ Latest(t, f, c, i)'
      BY <2>2, <2>3, <2>7, <3>1 DEF Paired, RingLeaves
    <3>2. QED
      BY <2>1, <3>1 DEF RingLeaves
  <2>12. StackLeaves'
    <3>1. ASSUME NEW t \in Threads, NEW f \in Funcs, NEW c \in Nat,
                 NEW m \in Nat, m = Len(ring) + 1, NEW p \in 1 .. Len(stk[t]),
                 mishaps[t] = {}, IsHooked(p, t, f, c)', stk[t][p].leaf
          PROVE  /\ entry_times[t] = c
                 /\ Latest(t, f, c, m)'
                 /\ \A q \in 1 .. p - 1 : ~stk[t][q].hooked /\ ~stk[t][q].seen
      BY <2>2, <2>3, <2>7, <3>1 DEF Paired, StackLeaves
    <3>2. QED
      BY <2>1, <3>1 DEF StackLeaves
  <2>13. FramesHooked' /\ HookedAlike'
    <3>1. \A f : Probed(f, "exit") => Probed(f, "exit")'
      BY <2>1 DEF Probed, Linked
    <3>2. \A t, p : Probed(stk[t][p].func, "exit") => Probed(stk[t][p].func, "exit")'
      BY <2>1, <3>1 DEF Probed, Linked
    <3>3. QED
      BY <2>1, <2>2, <3>2 DEF Paired, FramesHooked, HookedAlike
  <2>14. \A t, f, i : JustLeft(t, f, i)' = JustLeft(t, f, i)
    BY <2>1 DEF JustLeft, LeftAt
  <2>15. RingRepeats'
    <3>1. ASSUME NEW t \in Threads, NEW f \in Funcs, NEW c \in Nat,
                 NEW i \in 1 .. Len(ring),
                 Calm(t)', IsExit(i, t, f, c)', ring[i].again
          PROVE  ring[i].from = None /\ JustLeft(t, f, i)'
      BY <2>2, <2>3, <2>8, <2>14, <3>1 DEF Paired, RingRepeats
    <3>2. QED
      BY <2>1, <3>1 DEF RingRepeats
  <2>16. HitLeft'
    <3>1. ASSUME NEW t \in Threads, NEW m \in Nat, m = Len(ring) + 1, Calm(t)',
                 hit[t].left # {}, hit[t].prog = "exit"
          PROVE  JustLeft(t, hit[t].func, m)'
      <4>1. JustLeft(t, hit[t].func, m)
        BY <2>2, <2>8, <3>1 DEF Paired, HitLeft
      <4>2. QED
        BY <2>1, <4>1 DEF JustLeft, LeftAt
    <3>2. QED
      BY <2>1, <3>1 DEF HitLeft
  <2>17. QED
    BY <2>9, <2>10, <2>11, <2>12, <2>13, <2>15, <2>16 DEF Paired
<1>5. QED
  BY <1>3, <1>4 DEF PairingInv

\* The steps of the target.
LEMMA TargetSteps ==
    ASSUME WatchInv, PairingInv, NEW t \in Threads,
           Return(t) \/ Unwind(t) \/ RunAgain(t) \/ \E f \in Funcs : Enter(t, f)
    PROVE  PairingInv'
<1>1. TypeOK /\ events \in Seq(WatchEvent)
  BY DEF WatchInv, TypeOK
<1>2. UNCHANGED userVars
  BY DEF Return, Unwind, RunAgain, Enter
<1>3. events' = events /\ Live' = Live
  BY <1>2 DEF userVars, Live, EnoughEvents
<1>4. \A u \in Threads : mishaps[u] \subseteq mishaps'[u]
  <2>1. CASE RunAgain(t)
    BY <2>1, AgainRecord DEF Grows
  <2>2. QED
    BY <1>1, <2>1, EnterEffect, LeaveEffect
<1>5. ParamsOwn' /\ LeafExact'
  BY <1>1, <1>3, <1>4, OldEvents DEF PairingInv
<1>6. Live => Paired'
  BY EnterPaired, LeavePaired, AgainPaired DEF PairingInv
<1>7. QED
  BY <1>3, <1>5, <1>6 DEF PairingInv

\* The callback.
LEMMA ConsumeSteps ==
    ASSUME WatchInv, PairingInv, Consumes
    PROVE  PairingInv'
<1>1. TypeOK /\ events \in Seq(WatchEvent) /\ Len(events) \in Nat
  BY DEF WatchInv, TypeOK
<1>2. mishaps' = mishaps
  BY DEF Consumes, OnEntry, OnExit, targetVars
<1>3. CASE OnEntry
  <2>1. events' = events /\ Live' = Live
    BY <1>3 DEF OnEntry, Live, EnoughEvents
  <2>2. ParamsOwn' /\ LeafExact'
    BY <1>1, <1>2, <2>1, OldEvents DEF PairingInv
  <2>3. QED
    BY <2>1, <2>2, ConsumePaired DEF PairingInv
<1>4. CASE OnExit /\ ~EnoughEvents
  <2>1. Live /\ Paired
    BY <1>4 DEF OnExit, Live, PairingInv
  <2>2. PICK e : e = EventOf(Head(ring))
    OBVIOUS
  <2>3. events' = Append(events, e) /\ e \in WatchEvent
    <3>1. events' = Append(events, EventOf(Head(ring)))
      BY <1>4, Zenon DEF OnExit, EventOf
    <3>2. EventOf(Head(ring)) \in WatchEvent
      BY <1>1, <1>4, OnExitType
    <3>3. QED
      BY <2>2, <3>1, <3>2
  <2>4. \A i \in 1 .. Len(events') :
          events'[i] = e \/ (i \in 1 .. Len(events) /\ events'[i] = events[i])
    BY <1>1, <2>3, AppendAll
  <2>5. \A x \in Collected' : x = e \/ x \in Collected
    BY <2>4 DEF Collected
  <2>6. /\ e.params \in {None, e.call} \/ mishaps[e.tid] \cap {"dropped", "unwound"} # {}
        /\ LeafSaid(e)
    BY <1>4, <2>1, <2>2, EventExact
  <2>7. ParamsOwn'
    BY <1>2, <2>5, <2>6 DEF PairingInv, ParamsOwn
  <2>8. LeafExact'
    BY <1>2, <2>5, <2>6 DEF PairingInv, LeafExact, LeafSaid
  <2>9. QED
    BY <2>1, <2>7, <2>8, ConsumePaired DEF PairingInv
<1>5. QED
  BY <1>3, <1>4 DEF Consumes

\* Entry and exit records are paired in every reachable state.
THEOREM PairingInvariant == Spec => []PairingInv
<1>1. Init => PairingInv
  BY PairingInit
<1>2. ASSUME WatchInv, PairingInv, [Next]_vars
      PROVE  PairingInv'
  BY <1>2, TargetSteps, ConsumeSteps, OtherSteps DEF Next, WatchStep, Consumes
<1>3. QED
  BY <1>1, <1>2, WatchInvariant, PTL DEF Spec

\* The callback of watch_checked never reports a call with the arguments of another
\* one, however calls of the same function nest and however many threads make them,
\* unless a record of the thread was dropped or a call of it was unwound.
THEOREM ParamsOwnTheorem == Spec => []ParamsOwn
<1>1. PairingInv => ParamsOwn
  BY DEF PairingInv
<1>2. QED
  BY <1>1, PairingInvariant, PTL

\* A call without a probed call in it is reported with its own time, which the one
\* entry of entry_times for its thread still holds, and its own arguments.  However
\* many targets share its address, no further report of the call has either.
THEOREM LeafExactTheorem == Spec => []LeafExact
<1>1. PairingInv => LeafExact
  BY DEF PairingInv
<1>2. QED
  BY <1>1, PairingInvariant, PTL

================================================================================
