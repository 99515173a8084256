--------------------------- MODULE WatchCommandProofs ---------------------------
(***************************************************************************)
(* Proofs about WatchCommand, for any program, any patterns and counts and *)
(* any number of lines typed.                                              *)
(***************************************************************************)
EXTENDS WatchCommand, TLAPS, WellFoundedInduction

--------------------------------------------------------------------------------
(* The symbol index *)

\* A set of functions that is not empty has a first one.
LEMMA FirstIn ==
    ASSUME NEW S, S \subseteq Symbol, S # {}
    PROVE  First(S) \in S
<1>1. S \subseteq Nat
  BY DEF Symbol
<1>2. PICK i \in S : \A j \in S : <<j, i>> \notin OpToRel(<, Nat)
  BY <1>1, NatLessThanWellFounded, WFMin
<1>3. ASSUME NEW j \in S
      PROVE  i <= j
  <2>1. ~(j < i)
    BY <1>1, <1>2 DEF OpToRel
  <2>2. QED
    BY <1>1, <2>1
<1>4. QED
  BY <1>3 DEF First

LEMMA ResolveType ==
    ASSUME NEW a \in Arguments
    PROVE  /\ find(a.name) \subseteq Symbol /\ Resolve(a) \subseteq Symbol
           /\ find(a.name) \subseteq Asked(a) /\ Resolve(a) \subseteq Asked(a)
<1>1. Named(a.name) \subseteq Symbol
  BY DEF Named
<1>2. find(a.name) \subseteq Named(a.name)
  BY <1>1, FirstIn DEF find
<1>3. find(a.name) = {} <=> Named(a.name) = {}
  BY DEF find
<1>4. QED
  BY <1>1, <1>2, <1>3 DEF Resolve, find_regex, Asked

\* The function that trace() finds under the name of a target is asked for like
\* the target itself, though it may be another one.
LEMMA TracedAsked ==
    ASSUME targets \subseteq Symbol, todo \subseteq targets, todo # {},
           targets \subseteq Asked(arg)
    PROVE  Traced \in Symbol /\ Traced \in Asked(arg)
<1>1. First(todo) \in todo
  BY FirstIn
<1> DEFINE i == First(todo)
<1>2. i \in Symbol /\ i \in Asked(arg)
  BY <1>1
<1>3. i \in Named(Symbols[i]) /\ Named(Symbols[i]) \subseteq Symbol
  BY <1>2 DEF Named
<1>4. Traced \in Named(Symbols[i])
  BY <1>3, FirstIn DEF Traced
<1>5. Traced \in Symbol /\ Symbols[Traced] = Symbols[i]
  BY <1>4 DEF Named
<1>6. QED
  BY <1>2, <1>5 DEF Asked, Named

--------------------------------------------------------------------------------
(* The inductive invariant *)

\* The prompt's thread is in trace() or stack() while a command is active.
PlaceInv == place \in {"single", "tracing"} <=> phase = "active"

\* The fallback goes on only behind calls of trace() that left nothing behind.
FallbackInv ==
    /\ place = "ebpf" => todo = targets
    /\ place = "fallback" /\ todo # targets => clean /\ (held => ~alive)

\* Nothing but what was asked for is ever a target.
TargetsInv == targets \subseteq Asked(arg)

CommandInv ==
    /\ TypeOK
    /\ PlaceInv
    /\ FallbackInv
    /\ TargetsInv
    /\ OnlyAsked
    /\ ResultMeansClean

LEMMA CommandInit == Init => CommandInv
<1> SUFFICES ASSUME Init PROVE CommandInv
  OBVIOUS
<1>1. TypeOK
  <2>1. ObserverTypeOK
    BY DEF Init, ObserverInit, ObserverTypeOK
  <2>2. lines \in 0 .. MaxLines /\ evs \in Seq(Symbol)
    BY CommandAssumption DEF Init
  <2>3. QED
    BY <2>1, <2>2 DEF Init, TypeOK
<1>2. PlaceInv /\ FallbackInv /\ TargetsInv /\ OnlyAsked /\ ResultMeansClean
  BY DEF Init, ObserverInit, PlaceInv, FallbackInv, TargetsInv, OnlyAsked,
         ResultMeansClean
<1>3. QED
  BY <1>1, <1>2 DEF CommandInv

\* What is said of events depends on the events and the argument only.
LEMMA AskedKept ==
    ASSUME UNCHANGED <<arg, targets>>, TargetsInv
    PROVE  TargetsInv' /\ (\A f : (f \in Asked(arg))' <=> f \in Asked(arg))
BY DEF TargetsInv, Asked

LEMMA OnlyAskedEmpty == ASSUME evs' = <<>> PROVE OnlyAsked'
BY DEF OnlyAsked

\* A line is typed.
LEMMA TypeStep ==
    ASSUME CommandInv, NEW a \in Arguments, NEW n \in Counts,
           TypeSingle(a, n) \/ TypeRefused(a, n) \/ TypeWatch(a, n)
    PROVE  CommandInv'
<1>1. Type(a, n)
  BY DEF TypeSingle, TypeRefused, TypeWatch
<1>2. targets' = find(a.name) \/ targets' = Resolve(a)
  BY DEF TypeSingle, TypeRefused, TypeWatch
<1>3. targets' \subseteq Symbol /\ targets' \subseteq Asked(a) /\ todo' = targets'
  BY <1>1, <1>2, ResolveType DEF Type
<1>4. arg' = a /\ evs' = <<>> /\ wanted' = n /\ lines' \in 0 .. MaxLines
  BY <1>1, CommandAssumption DEF Type, CommandInv, TypeOK
<1>5. TargetsInv' /\ OnlyAsked'
  BY <1>3, <1>4, OnlyAskedEmpty DEF TargetsInv, Asked
<1>6. FallbackInv'
  BY <1>3 DEF FallbackInv
<1>7. ObserverTypeOK'
  <2>1. CASE Start(n)
    BY <2>1 DEF Start, Begin, CommandInv, TypeOK, ObserverTypeOK
  <2>2. CASE Refuse(n)
    BY <2>2 DEF Refuse, Begin, target, CommandInv, TypeOK, ObserverTypeOK
  <2>3. CASE TypeWatch(a, n)
    BY <2>3 DEF TypeWatch, command, target, CommandInv, TypeOK, ObserverTypeOK
  <2>4. QED
    BY <2>1, <2>2, <2>3 DEF TypeSingle, TypeRefused
<1>8. evs' \in Seq(Symbol) /\ told' \in BOOLEAN /\ cut' \in BOOLEAN
  <2>1. evs' \in Seq(Symbol)
    BY <1>4
  <2>2. told' = FALSE /\ cut' = FALSE
    BY <1>1 DEF Type
  <2>3. QED
    BY <2>1, <2>2
<1>9. place = "prompt" /\ phase = "idle"
  BY <1>1 DEF Type
<1>10. CASE TypeSingle(a, n)
  <2>1. place' = "single" /\ shown' = "nothing" /\ phase' = "active"
    BY <1>10 DEF TypeSingle, Start
  <2>2. TypeOK'
    BY <1>3, <1>4, <1>7, <1>8, <2>1 DEF TypeOK
  <2>3. PlaceInv' /\ ResultMeansClean'
    BY <2>1 DEF PlaceInv, ResultMeansClean
  <2>4. QED
    BY <1>5, <1>6, <2>2, <2>3 DEF CommandInv
<1>11. CASE TypeRefused(a, n)
  <2>1. place' = "prompt" /\ shown' = "error" /\ phase' = "idle"
    BY <1>9, <1>11 DEF TypeRefused, Refuse
  <2>2. TypeOK'
    BY <1>3, <1>4, <1>7, <1>8, <2>1 DEF TypeOK
  <2>3. PlaceInv' /\ ResultMeansClean'
    BY <2>1 DEF PlaceInv, ResultMeansClean
  <2>4. QED
    BY <1>5, <1>6, <2>2, <2>3 DEF CommandInv
<1>12. CASE TypeWatch(a, n)
  <2>1. /\ phase' = "idle" /\ shown' \in {"nothing", "error"}
        /\ \/ place' = "prompt"
           \/ place' \in {"ebpf", "fallback"} /\ targets' # {}
    BY <1>9, <1>12 DEF TypeWatch, command, Found
  <2>2. TypeOK'
    BY <1>3, <1>4, <1>7, <1>8, <2>1 DEF TypeOK
  <2>3. PlaceInv' /\ ResultMeansClean'
    BY <2>1 DEF PlaceInv, ResultMeansClean
  <2>4. QED
    BY <1>5, <1>6, <2>2, <2>3 DEF CommandInv
<1>13. QED
  BY <1>10, <1>11, <1>12

\* Back at the prompt, with an error or with a result.
LEMMA ShowStep ==
    ASSUME CommandInv, NEW what \in {"nodes", "samples", "events", "error"},
           Show(what), ObserverTypeOK', phase' # "active",
           what \in {"nodes", "events"} => clean' /\ (held' => ~alive'),
           todo' = todo, cut' \in BOOLEAN,
           evs' \in Seq(Symbol), \A k \in DOMAIN evs' : evs'[k] \in Asked(arg)
    PROVE  CommandInv'
<1>1. /\ shown' = what /\ place' = "prompt"
      /\ UNCHANGED <<lines, arg, wanted, targets, told>>
  BY DEF Show, watchVars
<1>2. TypeOK'
  BY <1>1 DEF CommandInv, TypeOK
<1>3. PlaceInv' /\ FallbackInv' /\ ResultMeansClean'
  BY <1>1 DEF PlaceInv, FallbackInv, ResultMeansClean
<1>4. TargetsInv' /\ OnlyAsked'
  BY <1>1 DEF CommandInv, TargetsInv, OnlyAsked, Asked
<1>5. QED
  BY <1>2, <1>3, <1>4 DEF CommandInv

LEMMA EventsKept ==
    ASSUME CommandInv, evs' = evs \/ evs' = <<>>
    PROVE  evs' \in Seq(Symbol) /\ \A k \in DOMAIN evs' : evs'[k] \in Asked(arg)
<1>1. CASE evs' = evs
  BY <1>1 DEF CommandInv, TypeOK, OnlyAsked
<1>2. CASE evs' = <<>>
  BY <1>2
<1>3. QED
  BY <1>1, <1>2

\* trace or stack comes back to the prompt.
LEMMA SingleStep ==
    ASSUME CommandInv, SingleReturns \/ SingleThrows
    PROVE  CommandInv'
<1>1. todo' = todo /\ evs' = evs
  BY DEF SingleReturns, SingleThrows
<1>2. evs' \in Seq(Symbol) /\ \A k \in DOMAIN evs' : evs'[k] \in Asked(arg)
  BY <1>1, EventsKept
<1>3. CASE SingleReturns
  <2>1. /\ Show("nodes") /\ phase' = "idle" /\ clean' = TRUE
        /\ held' = (held /\ ~alive) /\ alive' = alive
    BY <1>3 DEF SingleReturns, Return
  <2>2. ObserverTypeOK'
    BY <1>3 DEF SingleReturns, Return, CommandInv, TypeOK, ObserverTypeOK
  <2>3. cut' \in BOOLEAN
    BY <1>3 DEF SingleReturns
  <2>4. clean' /\ (held' => ~alive')
    BY <2>1, Zenon
  <2>5. QED
    BY <1>1, <1>2, <2>1, <2>2, <2>3, <2>4, ShowStep
<1>4. CASE SingleThrows
  <2>1. Show("error") /\ phase' = "idle" /\ cut' = cut
    BY <1>4 DEF SingleThrows, Throw
  <2>2. ObserverTypeOK'
    BY <1>4 DEF SingleThrows, Throw, CommandInv, TypeOK, ObserverTypeOK
  <2>3. cut' \in BOOLEAN
    BY <2>1 DEF CommandInv, TypeOK
  <2>4. QED
    BY <1>1, <1>2, <2>1, <2>2, <2>3, ShowStep
<1>5. QED
  BY <1>3, <1>4

\* The eBPF path comes back, throws or fails.
LEMMA EbpfStep ==
    ASSUME CommandInv, EbpfReturns \/ EbpfThrows \/ EbpfFails
    PROVE  CommandInv'
<1>1. UNCHANGED observerVars /\ todo' = todo /\ place = "ebpf"
  BY DEF EbpfReturns, EbpfThrows, EbpfFails
<1>2. ObserverTypeOK' /\ phase' # "active"
  BY <1>1 DEF observerVars, command, target, CommandInv, TypeOK, ObserverTypeOK, PlaceInv
<1>3. CASE EbpfReturns
  <2>1. Show("samples")
    BY <1>3 DEF EbpfReturns
  <2>2. cut' \in BOOLEAN
    BY <1>3 DEF EbpfReturns
  <2>3. PICK k \in 0 .. wanted : evs' \in [1 .. k -> targets]
    BY <1>3 DEF EbpfReturns
  <2>4. targets \subseteq Symbol /\ targets \subseteq Asked(arg) /\ wanted \in Int
    <3>1. targets \subseteq Symbol /\ targets \subseteq Asked(arg)
      BY DEF CommandInv, TypeOK, TargetsInv
    <3>2. wanted \in Counts \cup {0}
      BY DEF CommandInv, TypeOK
    <3>3. wanted \in Int
      BY <3>2, CommandAssumption
    <3>4. QED
      BY <3>1, <3>3
  <2>5. k \in Nat
    BY <2>4
  <2>6. evs' \in Seq(Symbol) /\ \A i \in DOMAIN evs' : evs'[i] \in Asked(arg)
    BY <2>3, <2>4, <2>5
  <2>7. QED
    BY <1>1, <1>2, <2>1, <2>2, <2>6, ShowStep
<1>4. CASE EbpfThrows
  <2>1. Show("error") /\ evs' = evs /\ cut' = cut
    BY <1>4 DEF EbpfThrows
  <2>2. evs' \in Seq(Symbol) /\ \A k \in DOMAIN evs' : evs'[k] \in Asked(arg)
    BY <2>1, EventsKept
  <2>3. cut' \in BOOLEAN
    BY <2>1 DEF CommandInv, TypeOK
  <2>4. QED
    BY <1>1, <1>2, <2>1, <2>2, <2>3, ShowStep
<1>5. CASE EbpfFails
  <2>1. place' = "fallback" /\ UNCHANGED <<watchVars, todo, evs, shown, told, cut>>
    BY <1>5 DEF EbpfFails
  <2>2. TypeOK'
    BY <1>1, <1>2, <2>1 DEF watchVars, CommandInv, TypeOK
  <2>3. PlaceInv' /\ ResultMeansClean'
    BY <1>2, <2>1 DEF PlaceInv, ResultMeansClean
  <2>4. TargetsInv' /\ OnlyAsked'
    BY <2>1 DEF watchVars, CommandInv, TargetsInv, OnlyAsked, Asked
  <2>5. FallbackInv'
    BY <1>1, <2>1 DEF watchVars, observerVars, target, CommandInv, FallbackInv
  <2>6. QED
    BY <2>2, <2>3, <2>4, <2>5 DEF CommandInv
<1>6. QED
  BY <1>3, <1>4, <1>5

\* The fallback calls trace() for the next target.
LEMMA StartStep ==
    ASSUME CommandInv, FallbackStarts
    PROVE  CommandInv'
<1>1. /\ place = "fallback" /\ todo # {} /\ place' = "tracing"
      /\ UNCHANGED <<watchVars, todo, evs, shown, told, cut>>
      /\ Start(wanted)
  BY DEF FallbackStarts
<1>2. ObserverTypeOK' /\ phase' = "active"
  BY <1>1 DEF Start, Begin, CommandInv, TypeOK, ObserverTypeOK
<1>3. TypeOK'
  BY <1>1, <1>2 DEF watchVars, CommandInv, TypeOK
<1>4. PlaceInv' /\ FallbackInv' /\ ResultMeansClean'
  BY <1>1, <1>2 DEF PlaceInv, FallbackInv, ResultMeansClean
<1>5. TargetsInv' /\ OnlyAsked'
  BY <1>1 DEF watchVars, CommandInv, TargetsInv, OnlyAsked, Asked
<1>6. QED
  BY <1>3, <1>4, <1>5 DEF CommandInv

\* trace() cannot attach or throws: so does watch_checked().
LEMMA GiveUpStep ==
    ASSUME CommandInv, FallbackRefused \/ TraceThrows
    PROVE  CommandInv'
<1>1. Show("error") /\ evs' = <<>> /\ todo' = todo /\ cut' = cut
  BY DEF FallbackRefused, TraceThrows, GiveUp
<1>2. ObserverTypeOK' /\ phase' # "active"
  <2>1. CASE FallbackRefused
    BY <2>1 DEF FallbackRefused, Refuse, Begin, target, CommandInv, TypeOK,
                ObserverTypeOK
  <2>2. CASE TraceThrows
    BY <2>2 DEF TraceThrows, Throw, CommandInv, TypeOK, ObserverTypeOK
  <2>3. QED
    BY <2>1, <2>2
<1>3. cut' \in BOOLEAN
  BY <1>1 DEF CommandInv, TypeOK
<1>4. evs' \in Seq(Symbol) /\ \A k \in DOMAIN evs' : evs'[k] \in Asked(arg)
  BY <1>1, EventsKept
<1>5. QED
  BY <1>1, <1>2, <1>3, <1>4, ShowStep

\* trace() returns and the fallback goes on, with clean text.
LEMMA TraceStep ==
    ASSUME CommandInv, TraceReturns
    PROVE  CommandInv'
<1>1. /\ place = "tracing" /\ place' = "fallback" /\ todo # {}
      /\ UNCHANGED <<lines, arg, wanted, targets, shown, told>>
      /\ todo' = todo \ {First(todo)}
      /\ evs' = evs \o [k \in 1 .. nodes |-> Traced]
  BY DEF TraceReturns, watchVars, CommandInv, TypeOK
<1>2. /\ phase' = "idle" /\ clean' = TRUE
      /\ held' = (held /\ ~alive) /\ alive' = alive
  BY DEF TraceReturns, Return
<1>3. ObserverTypeOK'
  BY DEF TraceReturns, Return, CommandInv, TypeOK, ObserverTypeOK
<1>4. /\ targets \subseteq Symbol /\ todo \subseteq targets /\ targets # {}
      /\ targets \subseteq Asked(arg) /\ nodes \in Nat /\ evs \in Seq(Symbol)
  BY <1>1 DEF CommandInv, TypeOK, ObserverTypeOK, TargetsInv
<1>5. Traced \in Symbol /\ Traced \in Asked(arg)
  BY <1>1, <1>4, TracedAsked
<1> DEFINE new == [k \in 1 .. nodes |-> Traced]
<1>6. new \in Seq(Symbol) /\ \A k \in DOMAIN new : new[k] \in Asked(arg)
  BY <1>4, <1>5
<1> HIDE DEF new
<1>7. /\ evs \o new \in Seq(Symbol)
      /\ \A k \in DOMAIN (evs \o new) : (evs \o new)[k] \in Asked(arg)
  BY <1>4, <1>6 DEF CommandInv, OnlyAsked
<1>8. evs' \in Seq(Symbol) /\ \A k \in DOMAIN evs' : evs'[k] \in Asked(arg)
  BY <1>1, <1>7 DEF new
<1>9. cut' \in BOOLEAN
  <2>1. cut' = (cut \/ nodes < count)
    BY DEF TraceReturns
  <2>2. QED
    BY <2>1, Zenon
<1>10. TypeOK'
  BY <1>1, <1>3, <1>4, <1>8, <1>9 DEF CommandInv, TypeOK
<1>11. FallbackInv'
  <2>1. place' # "ebpf"
    BY <1>1
  <2>2. clean' /\ (held' => ~alive')
    BY <1>2, Zenon
  <2>3. QED
    BY <2>1, <2>2 DEF FallbackInv
<1>12. PlaceInv' /\ ResultMeansClean'
  BY <1>1, <1>2 DEF PlaceInv, ResultMeansClean
<1>13. TargetsInv' /\ OnlyAsked'
  BY <1>1, <1>4, <1>8 DEF TargetsInv, OnlyAsked, Asked
<1>14. QED
  BY <1>10, <1>11, <1>12, <1>13 DEF CommandInv

\* All targets are traced.
LEMMA FallbackReturnsStep ==
    ASSUME CommandInv, FallbackReturns
    PROVE  CommandInv'
<1>1. /\ place = "fallback" /\ todo = {} /\ Show("events")
      /\ UNCHANGED observerVars /\ todo' = todo /\ evs' = evs /\ cut' = cut
  BY DEF FallbackReturns
<1>2. ObserverTypeOK' /\ phase' # "active"
  BY <1>1 DEF observerVars, command, target, CommandInv, TypeOK, ObserverTypeOK, PlaceInv
<1>3. clean /\ (held => ~alive)
  BY <1>1 DEF CommandInv, TypeOK, FallbackInv
<1>4. clean' /\ (held' => ~alive')
  BY <1>1, <1>3 DEF observerVars, target
<1>5. evs' \in Seq(Symbol) /\ \A k \in DOMAIN evs' : evs'[k] \in Asked(arg)
  BY <1>1, EventsKept
<1>6. cut' \in BOOLEAN
  BY <1>1 DEF CommandInv, TypeOK
<1>7. QED
  BY <1>1, <1>2, <1>4, <1>5, <1>6, ShowStep

\* What leaves the prompt's own state alone.
LEMMA OutsideStep ==
    ASSUME CommandInv, UNCHANGED <<place, watchVars, todo, evs, shown, cut>>,
           told' \in BOOLEAN, ObserverTypeOK',
           phase' = "active" <=> phase = "active",
           phase' = "idle" => phase = "idle",
           phase # "active" /\ clean => clean',
           phase # "active" /\ (held => ~alive) => (held' => ~alive')
    PROVE  CommandInv'
<1>1. UNCHANGED <<lines, arg, wanted, targets>>
  BY DEF watchVars
<1>2. TypeOK' /\ PlaceInv'
  BY <1>1 DEF CommandInv, TypeOK, PlaceInv
<1>3. TargetsInv' /\ OnlyAsked'
  BY <1>1 DEF CommandInv, TargetsInv, OnlyAsked, Asked
<1>4. ResultMeansClean'
  BY DEF CommandInv, ResultMeansClean, PlaceInv
<1>5. FallbackInv'
  BY <1>1 DEF CommandInv, FallbackInv, PlaceInv
<1>6. QED
  BY <1>2, <1>3, <1>4, <1>5 DEF CommandInv

\* Exits, Ctrl-C and what happens inside of a command.
LEMMA OtherStep ==
    ASSUME CommandInv, Leave \/ PressCtrlC \/ Inside \/ UNCHANGED vars
    PROVE  CommandInv'
<1>1. UNCHANGED <<place, watchVars, todo, evs, shown, cut>>
  BY DEF Leave, PressCtrlC, Inside, vars
<1>2. told' \in BOOLEAN
  <2>1. CASE PressCtrlC
    BY <2>1, Zenon DEF PressCtrlC
  <2>2. CASE told' = told
    BY <2>2 DEF CommandInv, TypeOK
  <2>3. QED
    BY <2>1, <2>2 DEF Leave, Inside, vars
<1>3. ObserverTypeOK
  BY DEF CommandInv, TypeOK
<1>4. CASE Leave
  <2>1. /\ ObserverTypeOK'
        /\ phase' = "exited" /\ phase # "active" /\ clean' = clean /\ held' = FALSE
    BY <1>3, <1>4 DEF Leave, Vanish, ObserverTypeOK, CommandInv, PlaceInv
  <2>2. QED
    BY <1>1, <1>2, <2>1, OutsideStep
<1>5. CASE request_stop \/ Expire \/ Die \/ UNCHANGED observerVars
  <2>1. /\ ObserverTypeOK'
        /\ phase' = phase /\ clean' = clean /\ held' = held
        /\ alive' = alive \/ alive' = FALSE
    BY <1>3, <1>5
       DEF request_stop, Expire, Die, observerVars, command, target, ObserverTypeOK
  <2>2. QED
    BY <1>1, <1>2, <2>1, OutsideStep
<1>6. CASE Arm \/ Observe
  <2>1. phase = "active" /\ phase' = "active" /\ ObserverTypeOK'
    <3>1. CASE Arm
      BY <1>3, <3>1 DEF Arm, command, ObserverTypeOK
    <3>2. CASE Observe
      <4>1. nodes' \in Nat
        BY <1>3, <3>2 DEF Observe, ObserverTypeOK
      <4>2. /\ phase = "active" /\ clean' \in BOOLEAN
            /\ UNCHANGED <<phase, outcome, count, stop_flag, expired, held, alive>>
        BY <3>2 DEF Observe
      <4>3. QED
        BY <1>3, <4>1, <4>2 DEF ObserverTypeOK
    <3>3. QED
      BY <1>6, <3>1, <3>2
  <2>2. QED
    BY <1>1, <1>2, <2>1, OutsideStep
<1>7. QED
  BY <1>4, <1>5, <1>6 DEF PressCtrlC, Inside, vars

--------------------------------------------------------------------------------
(* The theorems *)

LEMMA CommandStep == CommandInv /\ [Next]_vars => CommandInv'
<1> SUFFICES ASSUME CommandInv, [Next]_vars PROVE CommandInv'
  OBVIOUS
<1>1. ASSUME NEW a \in Arguments, NEW n \in Counts,
             TypeSingle(a, n) \/ TypeRefused(a, n) \/ TypeWatch(a, n)
      PROVE  CommandInv'
  BY <1>1, TypeStep
<1>2. ASSUME Ending PROVE CommandInv'
  BY <1>2, SingleStep, EbpfStep, StartStep, GiveUpStep, TraceStep, FallbackReturnsStep
     DEF Ending
<1>3. ASSUME Leave \/ PressCtrlC \/ Inside \/ UNCHANGED vars PROVE CommandInv'
  BY <1>3, OtherStep
<1>4. QED
  BY <1>1, <1>2, <1>3 DEF Next

\* The invariant holds in every reachable state.
THEOREM CommandInvariant == Spec => []CommandInv
<1>1. QED
  BY CommandInit, CommandStep, PTL DEF Spec

\* main() and watch_checked() keep their state well typed, and the fallback never
\* runs without a target.
THEOREM TypeCorrect == Spec => []TypeOK
<1>1. CommandInv => TypeOK
  BY DEF CommandInv
<1>2. QED
  BY <1>1, CommandInvariant, PTL

\* A command observes functions only that its argument asks for, although the
\* fallback of watch_checked() looks each of its targets up again.
THEOREM OnlyAskedTheorem == Spec => []OnlyAsked
<1>1. CommandInv => OnlyAsked
  BY DEF CommandInv
<1>2. QED
  BY <1>1, CommandInvariant, PTL

\* A result of trace, stack or the fallback at the prompt means that the target
\* has been released with its own text.
THEOREM ResultMeansCleanTheorem == Spec => []ResultMeansClean
<1>1. CommandInv => ResultMeansClean
  BY DEF CommandInv
<1>2. QED
  BY <1>1, CommandInvariant, PTL

--------------------------------------------------------------------------------
(* What the fallback has observed *)

\* There is an event of a function with the name of target i.
Seen(i) == \E k \in DOMAIN evs : Symbols[evs[k]] = Symbols[i]

\* The targets behind the fallback have been observed, each by its name.
ObservedInv ==
    /\ place = "tracing" => count = wanted
    /\ place \in {"fallback", "tracing"} /\ ~cut /\ wanted > 0
          => \A i \in targets \ todo : Seen(i)
    /\ place \in {"ebpf", "fallback", "tracing"} => shown = "nothing"
    /\ EveryNameObserved

\* What was in the events stays there.
LEMMA SeenStays ==
    ASSUME evs \in Seq(Symbol), NEW new \in Seq(Symbol), evs' = evs \o new, NEW i, Seen(i)
    PROVE  Seen(i)'
<1>1. PICK k \in DOMAIN evs : Symbols[evs[k]] = Symbols[i]
  BY DEF Seen
<1>2. k \in DOMAIN (evs \o new) /\ (evs \o new)[k] = evs[k]
  OBVIOUS
<1>. QED BY <1>1, <1>2 DEF Seen

\* Another target is traced: the function found under its name has its name.
LEMMA ObservedTrace ==
    ASSUME CommandInv, ObservedInv, TraceReturns
    PROVE  ObservedInv'
<1>1. /\ place = "tracing" /\ place' = "fallback" /\ todo # {}
      /\ UNCHANGED <<wanted, targets, shown>>
      /\ todo' = todo \ {First(todo)}
      /\ evs' = evs \o [k \in 1 .. nodes |-> Traced]
      /\ cut' = (cut \/ nodes < count)
  BY DEF TraceReturns, watchVars, CommandInv, TypeOK
<1>2. /\ targets \subseteq Symbol /\ todo \subseteq targets /\ nodes \in Nat
      /\ evs \in Seq(Symbol) /\ wanted \in Int /\ count = wanted
      /\ targets \subseteq Asked(arg) /\ shown' = shown
  <2>1. wanted \in Counts \cup {0}
    BY DEF CommandInv, TypeOK
  <2>2. wanted \in Int
    BY <2>1, CommandAssumption
  <2>. QED BY <1>1, <2>2 DEF CommandInv, TypeOK, ObserverTypeOK, ObservedInv, TargetsInv
<1>3. PICK last : last = First(todo)
  OBVIOUS
<1>4. last \in todo /\ Traced \in Symbol /\ Symbols[Traced] = Symbols[last]
  <2>1. last \in todo
    BY <1>1, <1>2, <1>3, FirstIn
  <2>2. last \in Named(Symbols[last]) /\ Named(Symbols[last]) \subseteq Symbol
    BY <1>2, <2>1 DEF Named
  <2>3. Traced \in Named(Symbols[last])
    BY <1>3, <2>2, FirstIn DEF Traced
  <2>. QED BY <2>1, <2>3 DEF Named
<1>5. PICK new : new = [k \in 1 .. nodes |-> Traced]
  OBVIOUS
<1>6. new \in Seq(Symbol) /\ evs' = evs \o new
  BY <1>1, <1>2, <1>4, <1>5
<1>7. ASSUME ~cut', wanted > 0, NEW i \in targets \ todo'
      PROVE  Seen(i)'
  <2>1. ~cut /\ ~(nodes < count)
    BY <1>1, <1>7
  <2>2. nodes >= 1
    BY <1>2, <1>7, <2>1
  <2>3. CASE i = last
    <3>1. Len(evs) + 1 \in DOMAIN (evs \o new) /\ (evs \o new)[Len(evs) + 1] = new[1]
      BY <1>2, <1>5, <1>6, <2>2
    <3>2. new[1] = Traced
      BY <1>2, <1>5, <2>2
    <3>. QED BY <1>4, <1>6, <2>3, <3>1, <3>2 DEF Seen
  <2>4. CASE i # last
    <3>1. i \in targets \ todo
      BY <1>1, <1>3, <1>7, <2>4
    <3>2. Seen(i)
      BY <1>1, <1>7, <2>1, <3>1 DEF ObservedInv
    <3>. QED BY <1>2, <1>6, <3>2, SeenStays
  <2>. QED BY <2>3, <2>4
<1>8. shown # "events"
  BY <1>1 DEF ObservedInv
<1>9. shown' = "nothing" /\ place' = "fallback"
  BY <1>1 DEF ObservedInv
<1>10. ASSUME ~cut', wanted' > 0, NEW i \in targets' \ todo'
       PROVE  Seen(i)'
  BY <1>1, <1>7, <1>10
<1>. QED BY <1>9, <1>10 DEF ObservedInv, EveryNameObserved

\* A line is typed: nothing is observed yet, and all targets are ahead.
LEMMA ObservedType ==
    ASSUME NEW a \in Arguments, NEW n \in Counts, CommandInv,
           TypeSingle(a, n) \/ TypeRefused(a, n) \/ TypeWatch(a, n)
    PROVE  ObservedInv'
<1>1. place = "prompt" /\ todo' = targets'
  BY DEF TypeSingle, TypeRefused, TypeWatch, Type
<1>2. /\ place' # "tracing" /\ shown' # "events"
      /\ place' \in {"ebpf", "fallback"} => shown' = "nothing"
  BY <1>1 DEF TypeSingle, TypeRefused, TypeWatch
<1>3. targets' \ todo' = {}
  BY <1>1
<1>. QED BY <1>2, <1>3 DEF ObservedInv, EveryNameObserved

\* The prompt is back: only the fallback prints events, behind all of its targets.
LEMMA ObservedShow ==
    ASSUME CommandInv, ObservedInv,
           \/ SingleReturns \/ SingleThrows \/ EbpfReturns \/ EbpfThrows
           \/ FallbackRefused \/ TraceThrows \/ FallbackReturns
    PROVE  ObservedInv'
<1>1. place' = "prompt"
  BY DEF SingleReturns, SingleThrows, EbpfReturns, EbpfThrows, FallbackRefused,
         TraceThrows, FallbackReturns, GiveUp, Show
<1>2. CASE FallbackReturns
  <2>1. /\ place = "fallback" /\ todo = {}
        /\ UNCHANGED <<targets, wanted, evs, cut>>
    BY <1>2 DEF FallbackReturns, Show, watchVars
  <2>2. ASSUME ~cut, wanted > 0, NEW i \in targets PROVE Seen(i)
    BY <2>1, <2>2 DEF ObservedInv
  <2>3. EveryNameObserved'
    BY <2>1, <2>2 DEF EveryNameObserved, Seen
  <2>. QED BY <1>1, <2>3 DEF ObservedInv
<1>3. CASE ~FallbackReturns
  <2>1. shown' # "events"
    BY <1>3 DEF SingleReturns, SingleThrows, EbpfReturns, EbpfThrows, FallbackRefused,
                TraceThrows, GiveUp, Show
  <2>. QED BY <1>1, <2>1 DEF ObservedInv, EveryNameObserved
<1>. QED BY <1>2, <1>3

\* The fallback begins, and calls trace() with the count of the command.
LEMMA ObservedStart ==
    ASSUME CommandInv, ObservedInv, EbpfFails \/ FallbackStarts
    PROVE  ObservedInv'
<1>1. UNCHANGED <<targets, wanted, todo, evs, shown, cut>>
  BY DEF EbpfFails, FallbackStarts, watchVars
<1>2. shown = "nothing"
  BY DEF EbpfFails, FallbackStarts, ObservedInv
<1>3. CASE EbpfFails
  <2>1. place' = "fallback" /\ todo = targets
    BY <1>3 DEF EbpfFails, CommandInv, FallbackInv
  <2>2. targets' \ todo' = {}
    BY <1>1, <2>1
  <2>. QED BY <1>1, <1>2, <2>1, <2>2 DEF ObservedInv, EveryNameObserved
<1>4. CASE FallbackStarts
  <2>1. place = "fallback" /\ place' = "tracing" /\ count' = wanted
    BY <1>4 DEF FallbackStarts, Start, Begin
  <2>. QED BY <1>1, <1>2, <2>1 DEF ObservedInv, EveryNameObserved, Seen
<1>. QED BY <1>3, <1>4

\* What does not touch the prompt's own state keeps the count of a command too.
LEMMA ObservedOther ==
    ASSUME CommandInv, ObservedInv, Leave \/ PressCtrlC \/ Inside \/ UNCHANGED vars
    PROVE  ObservedInv'
<1>1. UNCHANGED <<place, targets, wanted, todo, evs, shown, cut>>
  BY DEF Leave, PressCtrlC, Inside, vars, watchVars
<1>2. place = "tracing" => count' = count
  BY DEF Leave, PressCtrlC, Inside, vars, observerVars, command, request_stop, Arm,
         Observe, Expire, Die
<1>. QED BY <1>1, <1>2 DEF ObservedInv, EveryNameObserved, Seen

LEMMA ObservedInit == Init => ObservedInv
BY DEF Init, ObservedInv, EveryNameObserved

LEMMA ObservedStep == CommandInv /\ ObservedInv /\ [Next]_vars => ObservedInv'
<1> SUFFICES ASSUME CommandInv, ObservedInv, [Next]_vars PROVE ObservedInv'
  OBVIOUS
<1>1. ASSUME NEW a \in Arguments, NEW n \in Counts,
             TypeSingle(a, n) \/ TypeRefused(a, n) \/ TypeWatch(a, n)
      PROVE  ObservedInv'
  BY <1>1, ObservedType
<1>2. ASSUME Ending PROVE ObservedInv'
  BY <1>2, ObservedShow, ObservedStart, ObservedTrace DEF Ending
<1>3. ASSUME Leave \/ PressCtrlC \/ Inside \/ UNCHANGED vars PROVE ObservedInv'
  BY <1>3, ObservedOther
<1>4. QED
  BY <1>1, <1>2, <1>3 DEF Next

\* A fallback of watch_checked() that ran to its end, with all the calls it asked
\* for, has an event of every name that its argument matched.
THEOREM EveryNameObservedTheorem == Spec => []EveryNameObserved
<1>1. ObservedInv => EveryNameObserved
  BY DEF ObservedInv
<1>2. CommandInv /\ [Next]_vars /\ ObservedInv => ObservedInv'
  BY ObservedStep
<1>3. QED
  BY <1>1, <1>2, ObservedInit, CommandInvariant, PTL DEF Spec

\* What docs/commands/watch.md says of a pattern, that all functions it matches are
\* observed, is true of a program without overloads: names that stand for one
\* function each are all that the fallback of watch_checked() is short of.
THEOREM AllObservedWithoutOverloads ==
    (\A i, j \in Symbol : Symbols[i] = Symbols[j] => i = j)
        => (Spec => []AllMatchesObserved)
<1> SUFFICES ASSUME \A i, j \in Symbol : Symbols[i] = Symbols[j] => i = j
             PROVE  Spec => []AllMatchesObserved
  OBVIOUS
<1>1. ASSUME TypeOK, EveryNameObserved PROVE AllMatchesObserved
  <2>1. evs \in Seq(Symbol) /\ targets \subseteq Symbol
    BY <1>1 DEF TypeOK
  <2>2. ASSUME shown = "events", ~cut, wanted > 0, NEW i \in targets
        PROVE  i \in Range(evs)
    <3>1. PICK k \in DOMAIN evs : Symbols[evs[k]] = Symbols[i]
      BY <1>1, <2>2 DEF EveryNameObserved
    <3>2. evs[k] = i
      BY <2>1, <3>1
    <3>. QED BY <3>1, <3>2 DEF Range
  <2>. QED BY <2>2 DEF AllMatchesObserved
<1>2. QED
  BY <1>1, TypeCorrect, EveryNameObservedTheorem, PTL

--------------------------------------------------------------------------------
(* Ctrl-C in the fallback *)

\* The user has said so during a trace() of this command, behind which a target less
\* is to be traced.
StopInv == told /\ place \in {"ebpf", "fallback"} => todo # targets

LEMMA StopStep == CommandInv /\ StopInv /\ [Next]_vars => StopInv'
<1> SUFFICES ASSUME CommandInv, StopInv, [Next]_vars PROVE StopInv'
  OBVIOUS
<1>1. ASSUME NEW a \in Arguments, NEW n \in Counts,
             TypeSingle(a, n) \/ TypeRefused(a, n) \/ TypeWatch(a, n)
      PROVE  StopInv'
  <2>1. told' = FALSE
    BY <1>1 DEF TypeSingle, TypeRefused, TypeWatch, Type
  <2>. QED BY <2>1 DEF StopInv
<1>2. CASE \/ SingleReturns \/ SingleThrows \/ EbpfReturns \/ EbpfThrows
           \/ FallbackRefused \/ TraceThrows \/ FallbackReturns \/ FallbackStarts
  <2>1. place' \in {"prompt", "tracing"}
    BY <1>2 DEF SingleReturns, SingleThrows, EbpfReturns, EbpfThrows, FallbackRefused,
                TraceThrows, FallbackReturns, FallbackStarts, GiveUp, Show
  <2>. QED BY <2>1 DEF StopInv
<1>3. CASE EbpfFails
  <2>1. place = "ebpf" /\ UNCHANGED <<told, todo, targets>>
    BY <1>3 DEF EbpfFails, watchVars
  <2>. QED BY <2>1 DEF StopInv
<1>4. CASE TraceReturns
  <2>1. /\ todo # {} /\ todo \subseteq targets /\ targets \subseteq Symbol
        /\ targets' = targets /\ todo' = todo \ {First(todo)}
    BY <1>4 DEF TraceReturns, watchVars, CommandInv, TypeOK
  <2>2. First(todo) \in todo
    BY <2>1, FirstIn
  <2>. QED BY <2>1, <2>2 DEF StopInv
<1>5. CASE PressCtrlC
  <2>1. UNCHANGED <<place, todo, targets>> /\ told' = (told \/ phase = "active")
    BY <1>5 DEF PressCtrlC, watchVars
  <2>2. place \in {"ebpf", "fallback"} => phase # "active"
    BY DEF CommandInv, PlaceInv
  <2>. QED BY <2>1, <2>2 DEF StopInv
<1>6. CASE Leave \/ Inside \/ UNCHANGED vars
  BY <1>6 DEF Leave, Inside, vars, watchVars, StopInv
<1>. QED BY <1>1, <1>2, <1>3, <1>4, <1>5, <1>6 DEF Next, Ending

\* What README.md says of Ctrl-C is true of a fallback with one target: no further call
\* of trace() begins once the user has said so.  With several targets it is not, since
\* each trace() clears the flag that the one before was told by.
THEOREM StopEndsWithOneTarget ==
    Spec => [][(\E i : targets = {i}) /\ told /\ place = "fallback"
                  => place' # "tracing"]_vars
<1>1. Init => StopInv
  BY DEF Init, StopInv
<1>2. CommandInv /\ [Next]_vars /\ StopInv => StopInv'
  BY StopStep
<1>3. ASSUME CommandInv, StopInv, Next, told, place = "fallback",
             NEW i, targets = {i}
      PROVE  place' # "tracing"
  <2>1. todo = {}
    <3>1. todo \subseteq {i} /\ todo # {i}
      BY <1>3 DEF CommandInv, TypeOK, StopInv
    <3>. QED BY <3>1
  <2>2. CASE Ending
    <3>1. FallbackReturns
      BY <1>3, <2>1, <2>2
         DEF Ending, SingleReturns, SingleThrows, EbpfReturns, EbpfThrows, EbpfFails,
             FallbackStarts, FallbackRefused, TraceReturns, TraceThrows
    <3>. QED BY <3>1 DEF FallbackReturns, Show
  <2>3. CASE ~Ending
    BY <1>3, <2>3 DEF Next, TypeSingle, TypeRefused, TypeWatch, Type, Leave, PressCtrlC,
                      Inside
  <2>. QED BY <2>2, <2>3
<1>4. CommandInv /\ StopInv /\ [Next]_vars =>
         [(\E i : targets = {i}) /\ told /\ place = "fallback" => place' # "tracing"]_vars
  BY <1>3
<1>. QED BY <1>1, <1>2, <1>4, CommandInvariant, PTL DEF Spec

================================================================================
