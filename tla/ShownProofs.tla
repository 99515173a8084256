------------------------------- MODULE ShownProofs -------------------------------
(***************************************************************************)
(* Proofs that what Inspection shows of a call is that call's: the frames  *)
(* of its real callers, and its own arguments.                             *)
(***************************************************************************)
EXTENDS InspectionProofs, FiniteSetTheorems

--------------------------------------------------------------------------------
(* Counting *)

\* A set of numbers with 0 and, for each of its numbers, the next one.
LEMMA AllNaturals ==
    ASSUME NEW S \in SUBSET Nat, 0 \in S, \A n \in S : n + 1 \in S
    PROVE  S = Nat
<1>. SUFFICES ASSUME Nat \ S # {} PROVE FALSE
  OBVIOUS
<1>1. PICK n \in Nat \ S : \A m \in Nat \ S : n <= m
  BY FirstIsLeast
<1>2. n # 0 /\ n - 1 \in Nat
  BY <1>1
<1>3. n - 1 \in S
  <2>1. ~(n <= n - 1)
    BY <1>1
  <2>. QED BY <1>1, <1>2, <2>1
<1>. QED BY <1>1, <1>3

Upto(S, n) == {j \in S : j <= n}

LEMMA UptoFinite ==
    ASSUME NEW S \in SUBSET Nat, NEW n \in Int
    PROVE  /\ IsFiniteSet(Upto(S, n)) /\ Cardinality(Upto(S, n)) \in Nat
           /\ Upto(S, n) \in SUBSET Nat
<1>1. Upto(S, n) \in SUBSET Nat
  BY DEF Upto
<1>2. CASE n < 0
  <2>1. Upto(S, n) = {}
    <3> SUFFICES ASSUME NEW j \in Upto(S, n) PROVE FALSE
      OBVIOUS
    <3>. QED BY <1>2 DEF Upto
  <2>. QED BY <1>1, <2>1, FS_EmptySet, FS_CardinalityType
<1>3. CASE n \in Nat
  <2>1. \A j \in Upto(S, n) : j <= n
    BY DEF Upto
  <2>. QED BY <1>1, <1>3, <2>1, FS_BoundedSetOfNaturals, FS_CardinalityType
<1>. QED BY <1>2, <1>3

\* One number more is one element more, if it belongs to S.
LEMMA UptoNext ==
    ASSUME NEW S \in SUBSET Nat, NEW n \in Int
    PROVE  Cardinality(Upto(S, n + 1)) =
              IF n + 1 \in S THEN Cardinality(Upto(S, n)) + 1
                             ELSE Cardinality(Upto(S, n))
<1>1. CASE n + 1 \in S
  <2>1. Upto(S, n + 1) = Upto(S, n) \cup {n + 1}
    <3>1. \A j \in S : j <= n + 1 <=> j <= n \/ j = n + 1
      OBVIOUS
    <3>. QED BY <1>1, <3>1 DEF Upto
  <2>2. n + 1 \notin Upto(S, n)
    BY DEF Upto
  <2>. QED BY <1>1, <2>1, <2>2, UptoFinite, FS_AddElement
<1>2. CASE n + 1 \notin S
  <2>1. Upto(S, n + 1) = Upto(S, n)
    <3>1. \A j \in S : j <= n + 1 <=> j <= n
      BY <1>2
    <3>. QED BY <3>1 DEF Upto
  <2>. QED BY <1>2, <2>1
<1>. QED BY <1>1, <1>2

LEMMA UptoMonotone ==
    ASSUME NEW S \in SUBSET Nat, NEW m \in Int, NEW n \in Int, m <= n
    PROVE  Cardinality(Upto(S, m)) <= Cardinality(Upto(S, n))
<1>1. Upto(S, m) \in SUBSET Upto(S, n)
  <2>1. \A j \in S : j <= m => j <= n
    OBVIOUS
  <2>. QED BY <2>1 DEF Upto
<1>. QED BY <1>1, UptoFinite, FS_Subset

\* Two elements are not the k-th one.
LEMMA UptoStrict ==
    ASSUME NEW S \in SUBSET Nat, NEW m \in Int, NEW n \in S, m < n
    PROVE  Cardinality(Upto(S, m)) < Cardinality(Upto(S, n))
<1>1. Cardinality(Upto(S, n)) = Cardinality(Upto(S, n - 1)) + 1
  <2>1. n - 1 \in Int /\ (n - 1) + 1 = n
    OBVIOUS
  <2>. QED BY <2>1, UptoNext
<1>2. Cardinality(Upto(S, m)) <= Cardinality(Upto(S, n - 1))
  BY UptoMonotone
<1>3. /\ Cardinality(Upto(S, m)) \in Nat /\ Cardinality(Upto(S, n - 1)) \in Nat
  <2>1. m \in Int /\ n - 1 \in Int
    OBVIOUS
  <2>. QED BY <2>1, UptoFinite
<1>. QED BY <1>1, <1>2, <1>3

\* An element is the k-th one if k numbers of S do not exceed it.
LEMMA NthIs ==
    ASSUME NEW S \in SUBSET Nat, NEW i \in S, NEW k,
           Cardinality(Upto(S, i)) = k
    PROVE  Nth(S, k) = i
<1>1. \A j \in S : Cardinality(Upto(S, j)) = k => j = i
  <2> SUFFICES ASSUME NEW j \in S, Cardinality(Upto(S, j)) = k, j # i
               PROVE  FALSE
    OBVIOUS
  <2>1. i < j \/ j < i
    OBVIOUS
  <2>2. Cardinality(Upto(S, i)) \in Nat /\ Cardinality(Upto(S, j)) \in Nat
    BY UptoFinite
  <2>. QED BY <2>1, <2>2, UptoStrict
<1>. QED BY <1>1 DEF Nth, Upto

\* There is a k-th element as long as there are k.
LEMMA NthExists ==
    ASSUME NEW S \in SUBSET Nat, NEW n \in Nat,
           NEW k \in 1 .. Cardinality(Upto(S, n))
    PROVE  /\ Nth(S, k) \in S /\ Nth(S, k) <= n
           /\ Cardinality(Upto(S, Nth(S, k))) = k
<1> DEFINE enough == {m \in Nat : k <= Cardinality(Upto(S, m))}
<1>1. enough \in SUBSET Nat /\ enough # {}
  OBVIOUS
<1>2. PICK m \in enough : \A j \in enough : m <= j
  BY <1>1, FirstIsLeast
<1>3. ~(k <= Cardinality(Upto(S, m - 1)))
  <2>1. CASE m = 0
    <3>1. Upto(S, m - 1) = {}
      <4> SUFFICES ASSUME NEW j \in Upto(S, m - 1) PROVE FALSE
        OBVIOUS
      <4>. QED BY <2>1 DEF Upto
    <3>. QED BY <3>1, FS_EmptySet
  <2>2. CASE m # 0
    <3>1. m - 1 \in Nat /\ ~(m <= m - 1)
      BY <2>2
    <3>. QED BY <1>2, <3>1
  <2>. QED BY <2>1, <2>2
<1>4. /\ Cardinality(Upto(S, m - 1)) \in Nat /\ Cardinality(Upto(S, m)) \in Nat
      /\ Cardinality(Upto(S, n)) \in Nat
  BY UptoFinite
<1>5. Cardinality(Upto(S, m)) = IF m \in S THEN Cardinality(Upto(S, m - 1)) + 1
                                           ELSE Cardinality(Upto(S, m - 1))
  <2>1. m - 1 \in Int /\ (m - 1) + 1 = m
    OBVIOUS
  <2>. QED BY <2>1, UptoNext
<1>6. k <= Cardinality(Upto(S, m))
  OBVIOUS
<1>7. m \in S /\ Cardinality(Upto(S, m)) = k
  BY <1>3, <1>4, <1>5, <1>6
<1>8. m <= n
  BY <1>2
<1>. QED BY <1>7, <1>8, NthIs

\* The element behind the k-th one.
LEMMA NthNext ==
    ASSUME NEW S \in SUBSET Nat, NEW i \in Int, NEW j \in S, i < j,
           \A l \in S : l <= i \/ j <= l
    PROVE  Nth(S, Cardinality(Upto(S, i)) + 1) = j
<1>1. Upto(S, j) = Upto(S, i) \cup {j} /\ j \notin Upto(S, i)
  <2>1. \A l \in S : l <= j <=> l <= i \/ l = j
    OBVIOUS
  <2>2. ~(j <= i) /\ j <= j
    OBVIOUS
  <2>. QED BY <2>1, <2>2 DEF Upto
<1>2. Cardinality(Upto(S, j)) = Cardinality(Upto(S, i)) + 1
  BY <1>1, UptoFinite, FS_AddElement
<1>. QED BY <1>2, NthIs

--------------------------------------------------------------------------------
(* The walk along the frame pointers *)

\* The recursive definition of Saved has a solution: there is one for each number
\* of iterations.
LEMMA SavedIs ==
    ASSUME NEW mem, NEW rbp, NEW i \in 0 .. MaxFrames
    PROVE  Saved(mem, rbp)[i] =
              IF i = 0 THEN rbp ELSE peek_word(mem, Saved(mem, rbp)[i - 1])
<1> DEFINE Solves(f, n) ==
              f = [l \in 0 .. n |-> IF l = 0 THEN rbp ELSE peek_word(mem, f[l - 1])]
           solved == {n \in Nat : \E f : Solves(f, n)}
<1>1. 0 \in solved
  <2>1. [l \in 0 .. 0 |-> rbp] =
           [l \in 0 .. 0 |-> IF l = 0 THEN rbp
                             ELSE peek_word(mem, [k \in 0 .. 0 |-> rbp][l - 1])]
    OBVIOUS
  <2>. QED BY <2>1
<1>2. ASSUME NEW n \in solved
      PROVE  n + 1 \in solved
  <2>1. PICK f : Solves(f, n)
    BY <1>2
  <2> DEFINE g == [l \in 0 .. n + 1 |->
                      IF l = n + 1 THEN peek_word(mem, f[n]) ELSE f[l]]
  <2>2. ASSUME NEW l \in 0 .. n + 1
        PROVE  g[l] = IF l = 0 THEN rbp ELSE peek_word(mem, g[l - 1])
    <3>1. CASE l = n + 1
      <4>1. g[l] = peek_word(mem, f[n]) /\ g[n] = f[n] /\ l # 0 /\ l - 1 = n
        BY <3>1
      <4>. QED BY <4>1
    <3>2. CASE l # n + 1
      <4>1. l \in 0 .. n /\ g[l] = f[l]
        BY <3>2
      <4>2. l # 0 => l - 1 \in 0 .. n /\ g[l - 1] = f[l - 1]
        BY <4>1
      <4>3. f[l] = IF l = 0 THEN rbp ELSE peek_word(mem, f[l - 1])
        BY <2>1, <4>1
      <4>. QED BY <4>1, <4>2, <4>3
    <3>. QED BY <3>1, <3>2
  <2>3. Solves(g, n + 1)
    BY <2>2
  <2>4. \E h : Solves(h, n + 1)
    BY <2>3
  <2>. QED BY <2>4
<1>3. solved = Nat
  <2>. HIDE DEF solved
  <2>. QED BY <1>1, <1>2, AllNaturals DEF solved
<1>4. Solves(Saved(mem, rbp), MaxFrames)
  <2>1. MaxFrames \in solved
    BY <1>3, FramesAssumption
  <2>2. \E f : Solves(f, MaxFrames)
    BY <2>1
  <2>3. Saved(mem, rbp) = CHOOSE f : Solves(f, MaxFrames)
    BY DEF Saved
  <2>. HIDE DEF Solves
  <2>. QED BY <2>2, <2>3
<1>. QED BY <1>4

\* A stack of calls and what the register at its bottom holds.
Caller == [ret : Nat \ {0}, rbp : Nat \cup {Own, Untouched}]
Stack(chain, n, bottom) ==
    n \in Nat \ {0} /\ chain \in [1 .. n -> Caller] /\ bottom \in Nat

\* The frames that are sure to be in the chain, and what is in the register where
\* they end.
Chained(chain) == Sure(chain) \cap Keepers(chain)
Lost(chain) == (1 .. Len(chain)) \ Sure(chain)
End(chain, bottom) ==
    IF Lost(chain) = {} THEN bottom ELSE chain[First(Lost(chain))].rbp

LEMMA StackTyped ==
    ASSUME NEW chain, NEW n, NEW bottom, Stack(chain, n, bottom)
    PROVE  /\ Len(chain) = n /\ n \in Nat \ {0} /\ DOMAIN chain = 1 .. n
           /\ \A i \in 1 .. n : chain[i].ret \in Nat \ {0}
           /\ Keepers(chain) = {i \in 1 .. n : chain[i].rbp = Own}
           /\ Keepers(chain) \in SUBSET Nat
           /\ Chained(chain) \in SUBSET Nat /\ Chained(chain) \in SUBSET (1 .. n)
           /\ Chained(chain) = Sure(chain) \cap Keepers(chain)
<1>1. Len(chain) = n /\ DOMAIN chain = 1 .. n
  BY DEF Stack
<1>2. Keepers(chain) = {i \in 1 .. n : chain[i].rbp = Own}
  BY <1>1 DEF Keepers
<1>3. Chained(chain) \in SUBSET (1 .. n) /\ Chained(chain) = Sure(chain) \cap Keepers(chain)
  BY <1>2 DEF Chained
<1>4. \A i \in 1 .. n : chain[i].ret \in Nat \ {0}
  BY <1>1 DEF Stack, Caller
<1>. QED BY <1>1, <1>2, <1>3, <1>4 DEF Stack

\* An activation is sure if those below it are and it keeps nothing else in rbp.
LEMMA SureIs ==
    ASSUME NEW chain, NEW n, NEW bottom, Stack(chain, n, bottom), NEW i \in 1 .. n
    PROVE  i \in Sure(chain) <=>
              \A j \in 1 .. n : j <= i => chain[j].rbp \in {Own, Untouched}
<1>1. Len(chain) = n /\ n \in Nat
  BY StackTyped
<1>2. \A j : j \in 1 .. i <=> j \in 1 .. n /\ j <= i
  BY <1>1
<1>. QED BY <1>1, <1>2 DEF Sure

\* What is read at the stack pointer and at the frames of the functions that keep
\* the frame pointer.
LEMMA MemoryHolds ==
    ASSUME NEW chain, NEW n, NEW bottom, Stack(chain, n, bottom)
    PROVE  /\ peek_word(Memory(chain, bottom), RSP) = chain[1].ret
           /\ \A i \in Keepers(chain) :
                 /\ peek_word(Memory(chain, bottom), FrameAt(i))
                       = RegisterAbove(chain, i, bottom)
                 /\ peek_word(Memory(chain, bottom), FrameAt(i) + Word)
                       = IF i < n THEN chain[i + 1].ret ELSE 0
<1> DEFINE K == Keepers(chain)
           mem == Memory(chain, bottom)
           saved == {FrameAt(i) : i \in K}
           returns == {FrameAt(i) + Word : i \in K}
           D == {RSP} \cup saved \cup returns \cup DOMAIN Elsewhere
           at(a) == a \div (2 * Word)
           Holds(a) == IF a = RSP THEN chain[1].ret
                       ELSE IF a \in saved THEN RegisterAbove(chain, at(a), bottom)
                       ELSE IF a \in returns
                            THEN IF at(a) < Len(chain) THEN chain[at(a) + 1].ret ELSE 0
                       ELSE Elsewhere[a]
<1>1. Len(chain) = n /\ K \in SUBSET (1 .. n) /\ n \in Nat
  BY StackTyped
<1>2. DOMAIN mem = D /\ \A a \in D : mem[a] = Holds(a)
  BY DEF Memory
<1>3. peek_word(mem, RSP) = chain[1].ret
  BY <1>2 DEF peek_word
<1>4. ASSUME NEW i \in K
      PROVE  /\ peek_word(mem, FrameAt(i)) = RegisterAbove(chain, i, bottom)
             /\ peek_word(mem, FrameAt(i) + Word) = IF i < n THEN chain[i + 1].ret ELSE 0
  <2>1. i \in Nat /\ i >= 1 /\ \A j \in K : j \in Nat /\ j >= 1
    BY <1>1
  <2>2. /\ FrameAt(i) # RSP /\ FrameAt(i) + Word # RSP
        /\ at(FrameAt(i)) = i /\ at(FrameAt(i) + Word) = i
        /\ FrameAt(i) + Word \notin saved
    <3>1. \A j \in K : FrameAt(i) + Word # FrameAt(j)
      BY <2>1 DEF FrameAt, Word
    <3>2. /\ FrameAt(i) # RSP /\ FrameAt(i) + Word # RSP
          /\ FrameAt(i) \div (2 * Word) = i
          /\ (FrameAt(i) + Word) \div (2 * Word) = i
      BY <2>1 DEF FrameAt, RSP, Word
    <3>. QED BY <3>1, <3>2
  <2>3. FrameAt(i) \in saved /\ FrameAt(i) + Word \in returns
    OBVIOUS
  <2>4. FrameAt(i) \in D /\ FrameAt(i) + Word \in D
    BY <2>3
  <2>. HIDE DEF saved, returns, D, at, mem
  <2>5. Holds(FrameAt(i)) = RegisterAbove(chain, i, bottom)
    BY <2>2, <2>3
  <2>6. Holds(FrameAt(i) + Word) = IF i < n THEN chain[i + 1].ret ELSE 0
    BY <2>2, <2>3, <1>1
  <2>7. /\ mem[FrameAt(i)] = Holds(FrameAt(i))
        /\ mem[FrameAt(i) + Word] = Holds(FrameAt(i) + Word)
    BY <1>2, <2>4
  <2>. HIDE DEF Holds
  <2>. QED BY <1>2, <2>4, <2>5, <2>6, <2>7 DEF peek_word
<1>. QED BY <1>3, <1>4

\* The register that is found behind a sure activation is the frame pointer of the
\* next one in the chain, or what is in it where the chain ends.
LEMMA AboveIsNext ==
    ASSUME NEW chain, NEW n, NEW bottom, Stack(chain, n, bottom),
           NEW i \in {0} \cup Sure(chain)
    PROVE  LET K == Chained(chain)
               r == Cardinality(Upto(K, i))
           IN  RegisterAbove(chain, i, bottom) =
                  IF r < Cardinality(K) THEN FrameAt(Nth(K, r + 1))
                  ELSE End(chain, bottom)
<1> DEFINE K == Chained(chain)
           above == {j \in 1 .. n : j > i /\ chain[j].rbp # Untouched}
<1>1. /\ K \in SUBSET Nat /\ K = Upto(K, n) /\ i \in Int /\ n \in Int
      /\ n \in Nat \ {0} /\ K \in SUBSET (1 .. n) /\ Len(chain) = n /\ i \in 0 .. n
      /\ K = Sure(chain) \cap Keepers(chain) /\ Sure(chain) \subseteq 1 .. n
  <2>1. Len(chain) = n /\ n \in Nat \ {0} /\ K \in SUBSET Nat /\ K \in SUBSET (1 .. n)
        /\ K = Sure(chain) \cap Keepers(chain)
    BY StackTyped
  <2>2. Sure(chain) \subseteq 1 .. n
    BY <2>1 DEF Sure
  <2>3. i \in 0 .. n
    BY <2>1, <2>2
  <2>4. K = Upto(K, n)
    BY <2>1 DEF Upto
  <2>5. i \in Int /\ n \in Int
    BY <2>1, <2>3
  <2>. HIDE DEF K
  <2>. QED BY <2>1, <2>2, <2>3, <2>4, <2>5
<1>2. /\ Cardinality(K) \in Nat /\ IsFiniteSet(K)
      /\ Cardinality(Upto(K, i)) \in Nat
  <2>. HIDE DEF K
  <2>1. i \in Int /\ n \in Int /\ K \in SUBSET Nat /\ K = Upto(K, n)
    BY <1>1
  <2>2. \A j \in Int : IsFiniteSet(Upto(K, j)) /\ Cardinality(Upto(K, j)) \in Nat
    BY <2>1, UptoFinite
  <2>. QED BY <2>1, <2>2
<1>3. \A j \in 1 .. n : j <= i => chain[j].rbp \in {Own, Untouched}
  <2>1. CASE i = 0
    BY <2>1
  <2>2. CASE i # 0
    <3>1. i \in 1 .. n /\ i \in Sure(chain)
      BY <1>1, <2>2
    <3>. QED BY <3>1, SureIs
  <2>. QED BY <2>1, <2>2
<1>4. \A j \in K : chain[j].rbp = Own
  BY <1>1 DEF Keepers
<1>5. Own # Untouched
  BY DEF Own, Untouched
<1>6. CASE above = {}
  <2>1. \A j \in 1 .. n : chain[j].rbp \in {Own, Untouched}
    BY <1>1, <1>3, <1>6
  <2>2. \A j \in 1 .. n : j \in Sure(chain)
    BY <2>1, SureIs
  <2>3. Lost(chain) = {}
    BY <1>1, <2>2 DEF Lost
  <2>4. \A j \in K : j <= i
    BY <1>1, <1>4, <1>5, <1>6
  <2>5. Upto(K, i) = K
    BY <2>4 DEF Upto
  <2>6. RegisterAbove(chain, i, bottom) = bottom
    BY <1>1, <1>6 DEF RegisterAbove
  <2>. QED BY <1>2, <2>3, <2>5, <2>6 DEF End
<1>7. CASE above # {}
  <2>1. First(above) \in above /\ \A j \in above : First(above) <= j
    <3>1. above \in SUBSET Nat
      OBVIOUS
    <3>. QED BY <1>7, <3>1, FirstIsLeast
  <2>2. PICK j \in above : j = First(above)
    BY <2>1
  <2>3. /\ j \in 1 .. n /\ i < j /\ j \in Nat /\ chain[j].rbp # Untouched
        /\ \A l \in 1 .. n : i < l /\ l < j => chain[l].rbp = Untouched
    <3>1. j \in 1 .. n /\ i < j /\ j \in Nat /\ chain[j].rbp # Untouched
      BY <1>1
    <3>2. ASSUME NEW l \in 1 .. n, i < l, l < j, chain[l].rbp # Untouched
          PROVE  FALSE
      <4>1. l \in above
        BY <1>1, <3>2
      <4>2. j <= l
        BY <2>1, <2>2, <4>1
      <4>. QED BY <3>1, <3>2, <4>2
    <3>. QED BY <3>1, <3>2
  <2>4. \A l \in 1 .. n : l < j => chain[l].rbp \in {Own, Untouched}
    <3> SUFFICES ASSUME NEW l \in 1 .. n, l < j
                 PROVE  chain[l].rbp \in {Own, Untouched}
      OBVIOUS
    <3>1. l <= i \/ i < l
      BY <1>1
    <3>. QED BY <1>3, <2>3, <3>1
  <2>5. ASSUME NEW l \in K, i < l
        PROVE  j <= l
    <3>1. l \in 1 .. n /\ chain[l].rbp # Untouched
      BY <1>1, <1>4, <1>5
    <3>2. ~(l < j)
      BY <2>3, <2>5, <3>1
    <3>. QED BY <2>3, <3>1, <3>2
  <2>6. RegisterAbove(chain, i, bottom) =
           IF chain[j].rbp = Own THEN FrameAt(j) ELSE chain[j].rbp
    BY <1>1, <1>7, <2>2 DEF RegisterAbove
  <2>7. CASE chain[j].rbp = Own
    <3>1. j \in K
      <4>1. \A l \in 1 .. n : l <= j => l < j \/ l = j
        BY <2>3
      <4>2. \A l \in 1 .. n : l <= j => chain[l].rbp \in {Own, Untouched}
        BY <2>4, <2>7, <4>1
      <4>3. j \in Sure(chain)
        BY <2>3, <4>2, SureIs
      <4>. QED BY <1>1, <2>3, <2>7, <4>3 DEF Keepers
    <3>2. \A l \in K : l <= i \/ j <= l
      <4> SUFFICES ASSUME NEW l \in K, ~(l <= i) PROVE j <= l
        OBVIOUS
      <4>1. i < l
        BY <1>1
      <4>. QED BY <2>5, <4>1
    <3>. HIDE DEF K, above
    <3>3. Nth(K, Cardinality(Upto(K, i)) + 1) = j
      BY <1>1, <2>3, <3>1, <3>2, NthNext
    <3>4. Cardinality(Upto(K, i)) < Cardinality(K)
      <4>1. Cardinality(Upto(K, i)) < Cardinality(Upto(K, j))
        BY <1>1, <2>3, <3>1, UptoStrict
      <4>2. j <= n /\ n \in Int /\ j \in Int
        BY <1>1, <2>3
      <4>3. Cardinality(Upto(K, j)) <= Cardinality(Upto(K, n))
        BY <1>1, <4>2, UptoMonotone
      <4>4. Cardinality(Upto(K, j)) \in Nat
        BY <1>1, <4>2, UptoFinite
      <4>5. Cardinality(Upto(K, n)) = Cardinality(K)
        BY <1>1
      <4>. QED BY <1>2, <4>1, <4>3, <4>4, <4>5
    <3>. QED BY <2>6, <2>7, <3>3, <3>4 DEF K
  <2>8. CASE chain[j].rbp # Own
    <3>1. j \notin Sure(chain)
      <4>1. j <= j /\ chain[j].rbp \notin {Own, Untouched}
        BY <2>3, <2>8
      <4>. QED BY <2>3, <4>1, SureIs
    <3>2. j \in Lost(chain) /\ Lost(chain) \in SUBSET Nat /\ Lost(chain) \subseteq 1 .. n
      BY <1>1, <2>3, <3>1 DEF Lost
    <3>3. \A l \in Lost(chain) : j <= l
      <4> SUFFICES ASSUME NEW l \in Lost(chain), ~(j <= l) PROVE FALSE
        OBVIOUS
      <4>1. l \in 1 .. n /\ l < j /\ l \notin Sure(chain)
        BY <1>1, <2>3, <3>2 DEF Lost
      <4>2. \A k \in 1 .. n : k <= l => k < j
        BY <2>3, <4>1
      <4>3. \A k \in 1 .. n : k <= l => chain[k].rbp \in {Own, Untouched}
        BY <2>4, <4>2
      <4>. QED BY <4>1, <4>3, SureIs
    <3>4. First(Lost(chain)) = j
      <4>1. /\ First(Lost(chain)) \in Lost(chain)
            /\ \A l \in Lost(chain) : First(Lost(chain)) <= l
        BY <3>2, FirstIsLeast
      <4>2. PICK f \in Nat : f = First(Lost(chain))
        BY <3>2, <4>1
      <4>3. f <= j /\ j <= f
        BY <3>2, <3>3, <4>1, <4>2
      <4>. QED BY <2>3, <4>2, <4>3
    <3>5. End(chain, bottom) = chain[j].rbp
      BY <3>2, <3>4 DEF End
    <3>6. \A l \in K : l <= i
      <4> SUFFICES ASSUME NEW l \in K, ~(l <= i) PROVE FALSE
        OBVIOUS
      <4>1. i < l /\ l \in 1 .. n /\ l \in Sure(chain)
        BY <1>1
      <4>2. j <= l
        BY <2>5, <4>1
      <4>3. chain[j].rbp \in {Own, Untouched}
        BY <2>3, <4>1, <4>2, SureIs
      <4>. QED BY <2>3, <2>8, <4>3
    <3>7. Upto(K, i) = K
      BY <3>6 DEF Upto
    <3>. QED BY <1>2, <2>6, <2>8, <3>5, <3>7
  <2>. QED BY <2>7, <2>8
<1>. QED BY <1>6, <1>7

\* The k-th word of the chain is the frame of the k-th function in it, and behind
\* the last of them what is in the register where it ends.
LEMMA SavedKeepers ==
    ASSUME NEW chain, NEW n, NEW bottom, Stack(chain, n, bottom)
    PROVE  LET K == Chained(chain)
               fp == Saved(Memory(chain, bottom), RegisterAbove(chain, 0, bottom))
           IN  \A k \in 0 .. MaxFrames :
                  /\ k < Cardinality(K) => fp[k] = FrameAt(Nth(K, k + 1))
                  /\ k = Cardinality(K) => fp[k] = End(chain, bottom)
<1> DEFINE K == Chained(chain)
           mem == Memory(chain, bottom)
           fp == Saved(mem, RegisterAbove(chain, 0, bottom))
           Right(k) == /\ k < Cardinality(K) => fp[k] = FrameAt(Nth(K, k + 1))
                       /\ k = Cardinality(K) => fp[k] = End(chain, bottom)
           right == {k \in Nat : k <= MaxFrames => Right(k)}
<1>1. /\ K \in SUBSET Nat /\ K = Upto(K, n) /\ n \in Nat
      /\ Cardinality(K) \in Nat /\ K \in SUBSET (1 .. n)
  <2>1. K \in SUBSET Nat /\ K = Upto(K, n) /\ n \in Nat /\ K \in SUBSET (1 .. n)
    BY StackTyped DEF Upto
  <2>. QED BY <2>1, UptoFinite
<1>2. 0 \in right
  <2>1. fp[0] = RegisterAbove(chain, 0, bottom)
    BY SavedIs, FramesAssumption
  <2>2. Upto(K, 0) = {}
    <3> SUFFICES ASSUME NEW j \in Upto(K, 0) PROVE FALSE
      OBVIOUS
    <3>. QED BY <1>1 DEF Upto
  <2>3. Cardinality(Upto(K, 0)) = 0
    BY <2>2, FS_EmptySet
  <2>4. RegisterAbove(chain, 0, bottom) =
           IF 0 < Cardinality(K) THEN FrameAt(Nth(K, 0 + 1)) ELSE End(chain, bottom)
    BY <1>1, <2>3, AboveIsNext
  <2>. HIDE DEF fp, K
  <2>. QED BY <2>1, <2>4, <1>1
<1>3. ASSUME NEW k \in right
      PROVE  k + 1 \in right
  <2> SUFFICES ASSUME k + 1 <= MaxFrames, k + 1 <= Cardinality(K)
               PROVE  Right(k + 1)
    BY <1>1
  <2> DEFINE j == Nth(K, k + 1)
  <2>1. fp[k] = FrameAt(j)
    <3>1. k \in Nat /\ k <= MaxFrames /\ k < Cardinality(K)
      BY <1>1, FramesAssumption
    <3>2. Right(k)
      BY <3>1
    <3>. QED BY <3>1, <3>2
  <2>2. /\ j \in K /\ Cardinality(Upto(K, j)) = k + 1
        /\ j \in Keepers(chain) /\ j \in Sure(chain)
    <3>1. j \in K /\ Cardinality(Upto(K, j)) = k + 1
      BY <1>1, NthExists
    <3>. QED BY <3>1 DEF Chained
  <2>3. fp[k + 1] = peek_word(mem, fp[k])
    <3>1. k + 1 \in 0 .. MaxFrames /\ k + 1 # 0 /\ (k + 1) - 1 = k
      BY FramesAssumption
    <3>. QED BY <3>1, SavedIs
  <2>4. peek_word(mem, FrameAt(j)) = RegisterAbove(chain, j, bottom)
    BY <2>2, MemoryHolds
  <2>5. j \in {0} \cup Sure(chain)
    BY <2>2
  <2>6. RegisterAbove(chain, j, bottom) =
           IF k + 1 < Cardinality(K) THEN FrameAt(Nth(K, (k + 1) + 1)) ELSE End(chain, bottom)
    BY <2>2, <2>5, AboveIsNext
  <2>. HIDE DEF fp, K, j, mem
  <2>. QED BY <1>1, <2>1, <2>3, <2>4, <2>6
<1>4. right = Nat
  <2>. HIDE DEF right
  <2>. QED BY <1>2, <1>3, AllNaturals DEF right
<1>. QED BY <1>4

\* The walk takes the return address of every function in the chain that has a
\* caller, up to its limit, and goes on only if it can go astray.
LEMMA ChainIs ==
    ASSUME NEW chain, NEW n, NEW bottom, Stack(chain, n, bottom)
    PROVE  LET K == Chained(chain)
               m == Cardinality(Upto(K, n - 1))
               taken == IF m < MaxFrames THEN m ELSE MaxFrames
               walked == Chain(Memory(chain, bottom), RegisterAbove(chain, 0, bottom))
           IN  /\ Len(walked) \in taken .. MaxFrames
               /\ walked = [k \in 1 .. Len(walked) |-> walked[k]]
               /\ Len(walked) > taken => Astray(chain, bottom)
               /\ \A k \in 1 .. taken : walked[k] = chain[Nth(K, k) + 1].ret
<1> DEFINE K == Chained(chain)
           m == Cardinality(Upto(K, n - 1))
           taken == IF m < MaxFrames THEN m ELSE MaxFrames
           mem == Memory(chain, bottom)
           fp == Saved(mem, RegisterAbove(chain, 0, bottom))
           ends == {i \in 0 .. MaxFrames : WalkEnds(mem, fp, i)}
<1>1. /\ K \in SUBSET Nat /\ K = Upto(K, n) /\ n \in Nat \ {0}
      /\ K \in SUBSET (1 .. n)
  BY StackTyped DEF Upto
<1>2. /\ Cardinality(K) \in Nat /\ m \in Nat /\ m <= Cardinality(K)
      /\ MaxFrames \in Nat
  <2>1. n - 1 \in Int /\ n \in Int /\ n - 1 <= n
    BY <1>1
  <2>2. m <= Cardinality(Upto(K, n))
    BY <1>1, <2>1, UptoMonotone
  <2>3. m \in Nat /\ Cardinality(Upto(K, n)) \in Nat
    BY <1>1, <2>1, UptoFinite
  <2>. QED BY <1>1, <2>2, <2>3, FramesAssumption
<1>3. taken \in 0 .. MaxFrames /\ taken <= m
  BY <1>2
<1>4. \A k \in 0 .. MaxFrames :
         /\ k < Cardinality(K) => fp[k] = FrameAt(Nth(K, k + 1))
         /\ k = Cardinality(K) => fp[k] = End(chain, bottom)
  BY SavedKeepers
<1>5. ASSUME NEW k \in 1 .. m
      PROVE  Nth(K, k) \in K /\ Nth(K, k) < n /\ Cardinality(Upto(K, Nth(K, k))) = k
  <2>1. n - 1 \in Nat
    BY <1>1
  <2>2. /\ Nth(K, k) \in K /\ Nth(K, k) <= n - 1
        /\ Cardinality(Upto(K, Nth(K, k))) = k
    BY <1>1, <2>1, NthExists
  <2>. QED BY <1>1, <2>2
<1>6. ASSUME NEW k \in 1 .. m
      PROVE  /\ FrameAt(Nth(K, k)) \in Nat /\ FramePointer(FrameAt(Nth(K, k)))
             /\ peek_word(mem, FrameAt(Nth(K, k)) + Word) = chain[Nth(K, k) + 1].ret
             /\ chain[Nth(K, k) + 1].ret \notin {Unreadable, 0}
  <2> DEFINE j == Nth(K, k)
  <2>1. j \in K /\ j < n
    BY <1>5
  <2>2. j \in Nat /\ j >= 1 /\ j + 1 \in 1 .. n
    BY <1>1, <2>1
  <2>3. FrameAt(j) \in Nat /\ FramePointer(FrameAt(j))
    BY <2>2 DEF FrameAt, FramePointer, Word
  <2>4. peek_word(mem, FrameAt(j) + Word) = chain[j + 1].ret
    BY <2>1, MemoryHolds DEF Chained
  <2>5. chain[j + 1].ret \in Nat \ {0}
    BY <2>2, StackTyped
  <2>. QED BY <2>3, <2>4, <2>5 DEF Unreadable
<1>7. ASSUME NEW k \in 0 .. MaxFrames, k < taken
      PROVE  k \notin ends
  <2>1. k + 1 \in 1 .. m /\ k # MaxFrames /\ k < Cardinality(K)
    BY <1>2, <1>3, <1>7
  <2>2. fp[k] = FrameAt(Nth(K, k + 1))
    BY <1>4, <2>1
  <2>3. ASSUME k > 0
        PROVE  fp[k] \notin {Unreadable, 0} /\ ~(fp[k] <= fp[k - 1])
    <3>1. k \in 1 .. m /\ k - 1 \in 0 .. MaxFrames /\ k - 1 < Cardinality(K)
          /\ (k - 1) + 1 = k
      BY <1>2, <1>3, <1>7, <2>1, <2>3
    <3>2. fp[k - 1] = FrameAt(Nth(K, k))
      BY <1>4, <3>1
    <3>3. PICK i, j \in K : /\ i = Nth(K, k) /\ Cardinality(Upto(K, i)) = k
                            /\ j = Nth(K, k + 1) /\ Cardinality(Upto(K, j)) = k + 1
      BY <1>5, <2>1, <3>1
    <3>4. ~(j <= i)
      <4>1. j <= i => k + 1 <= k
        BY <1>1, <3>3, UptoMonotone
      <4>. QED BY <4>1
    <3>5. i \in Nat /\ j \in Nat
      BY <1>1
    <3>. QED BY <2>2, <3>2, <3>3, <3>4, <3>5 DEF FrameAt, Word, Unreadable
  <2>4. /\ FramePointer(fp[k])
        /\ peek_word(mem, fp[k] + Word) \notin {Unreadable, 0}
    BY <1>6, <2>1, <2>2
  <2>. HIDE DEF fp, mem
  <2>5. ~WalkEnds(mem, fp, k)
    BY <2>1, <2>3, <2>4 DEF WalkEnds, HasFrame
  <2>. QED BY <2>5
<1>8. MaxFrames \in ends
  BY <1>2 DEF WalkEnds
<1>9. taken \in ends \/ Astray(chain, bottom)
  <2>1. CASE taken = MaxFrames
    BY <1>8, <2>1
  <2>2. CASE taken # MaxFrames /\ m < Cardinality(K)
    <3>1. taken = m /\ m + 1 \in 1 .. Cardinality(Upto(K, n)) /\ n \in Nat
      BY <1>1, <1>2, <2>2
    <3>2. fp[m] = FrameAt(Nth(K, m + 1))
      BY <1>3, <1>4, <2>2, <3>1
    <3>3. PICK j \in K : j = Nth(K, m + 1) /\ Cardinality(Upto(K, j)) = m + 1
      BY <1>1, <3>1, NthExists
    <3>4. j = n /\ j \in Keepers(chain)
      <4>1. j \in 1 .. n /\ j \in Keepers(chain)
        BY <1>1 DEF Chained
      <4>2. j <= n - 1 => m + 1 <= m
        <5>1. j \in Int /\ n - 1 \in Int
          BY <1>1, <4>1
        <5>. QED BY <1>1, <3>3, <5>1, UptoMonotone
      <4>. QED BY <1>1, <1>2, <4>1, <4>2
    <3>5. peek_word(mem, FrameAt(j) + Word) = 0
      <4>1. peek_word(mem, FrameAt(j) + Word) =
               IF j < n THEN chain[j + 1].ret ELSE 0
        BY <3>4, MemoryHolds
      <4>. QED BY <1>1, <3>4, <4>1
    <3>. HIDE DEF fp, mem, m
    <3>6. WalkEnds(mem, fp, m)
      BY <3>2, <3>3, <3>5 DEF WalkEnds, HasFrame
    <3>. QED BY <1>3, <3>1, <3>6 DEF fp, mem, m
  <2>3. CASE taken # MaxFrames /\ m = Cardinality(K)
    <3>1. taken = m /\ fp[m] = End(chain, bottom)
      BY <1>3, <1>4, <2>3
    <3>2. n \notin K
      <4>1. n \in K => Cardinality(Upto(K, n - 1)) < Cardinality(Upto(K, n))
        <5>1. n - 1 \in Int /\ n - 1 < n
          BY <1>1
        <5>. QED BY <1>1, <5>1, UptoStrict
      <4>. QED BY <1>1, <1>2, <2>3, <4>1
    <3>3. Lost(chain) = {} => n \notin Keepers(chain)
      <4>1. Lost(chain) = {} => n \in Sure(chain)
        BY <1>1, StackTyped DEF Lost
      <4>. QED BY <3>2, <4>1 DEF Chained
    <3>4. HasFrame(mem, End(chain, bottom)) => Astray(chain, bottom)
      BY <3>3, StackTyped DEF Astray, End, Lost
    <3>. HIDE DEF fp, mem, m
    <3>5. ~HasFrame(mem, End(chain, bottom)) => WalkEnds(mem, fp, m)
      BY <3>1 DEF WalkEnds
    <3>. QED BY <1>3, <3>1, <3>4, <3>5 DEF fp, mem, m
  <2>. QED BY <1>2, <2>1, <2>2, <2>3
<1>10. /\ First(ends) \in taken .. MaxFrames
       /\ First(ends) # taken => Astray(chain, bottom)
  <2>1. ends \in SUBSET Nat /\ ends # {}
    BY <1>2, <1>8
  <2>2. First(ends) \in ends /\ \A l \in ends : First(ends) <= l
    BY <2>1, FirstIsLeast
  <2>3. PICK f \in 0 .. MaxFrames : f = First(ends)
    BY <2>2
  <2>4. f \in ends /\ f <= MaxFrames /\ (taken \in ends => f <= taken)
    BY <1>8, <2>2, <2>3
  <2>5. ~(f < taken)
    BY <1>7, <2>3, <2>4
  <2>. HIDE DEF ends, taken
  <2>. QED BY <1>2, <1>3, <1>9, <2>3, <2>4, <2>5
<1> DEFINE walked == Chain(mem, RegisterAbove(chain, 0, bottom))
<1>11. walked = [k \in 1 .. First(ends) |-> peek_word(mem, fp[k - 1] + Word)]
  BY DEF Chain
<1>12. ASSUME NEW k \in 1 .. taken
       PROVE  peek_word(mem, fp[k - 1] + Word) = chain[Nth(K, k) + 1].ret
  <2>1. k \in 1 .. m /\ k - 1 \in 0 .. MaxFrames /\ k - 1 < Cardinality(K)
        /\ (k - 1) + 1 = k
    BY <1>2, <1>3
  <2>2. fp[k - 1] = FrameAt(Nth(K, k))
    BY <1>4, <2>1
  <2>. QED BY <1>6, <2>1, <2>2
<1>13. PICK f \in taken .. MaxFrames :
          /\ f = First(ends) /\ (f # taken => Astray(chain, bottom))
  BY <1>10
<1>. HIDE DEF ends, walked, taken
<1>14. walked = [k \in 1 .. f |-> peek_word(mem, fp[k - 1] + Word)] /\ f \in Nat
       /\ taken \in Nat
  BY <1>2, <1>3, <1>11, <1>13
<1>. HIDE DEF fp, mem
<1>15. Len(walked) = f /\ DOMAIN walked = 1 .. f
       /\ \A k \in 1 .. f : walked[k] = peek_word(mem, fp[k - 1] + Word)
  BY <1>14
<1>16. walked = [k \in 1 .. Len(walked) |-> walked[k]]
  BY <1>14, <1>15
<1>17. \A k \in 1 .. taken : walked[k] = chain[Nth(K, k) + 1].ret
  <2> SUFFICES ASSUME NEW k \in 1 .. taken
               PROVE  walked[k] = chain[Nth(K, k) + 1].ret
    OBVIOUS
  <2>1. k \in 1 .. f
    BY <1>13, <1>14
  <2>. QED BY <1>12, <1>15, <2>1
<1>18. Len(walked) \in taken .. MaxFrames
       /\ (Len(walked) > taken => Astray(chain, bottom))
  BY <1>2, <1>13, <1>14, <1>15
<1>. QED BY <1>16, <1>17, <1>18 DEF walked, taken, mem

LEMMA MinOfTwo ==
    ASSUME NEW a \in Int, NEW b \in Int
    PROVE  Min({a, b}) = IF a < b THEN a ELSE b
BY DEF Min

\* The callers that a stack should show are the direct one and those the walk takes.
LEMMA CallersAre ==
    ASSUME NEW chain, NEW n, NEW bottom, Stack(chain, n, bottom)
    PROVE  LET K == Chained(chain)
               m == Cardinality(Upto(K, n - 1))
               taken == IF m < MaxFrames THEN m ELSE MaxFrames
           IN  Callers(chain) =
                  [k \in 1 .. taken + 1 |->
                      IF k = 1 THEN chain[1].ret ELSE chain[Nth(K, k - 1) + 1].ret]
<1> DEFINE K == Chained(chain)
           m == Cardinality(Upto(K, n - 1))
           taken == IF m < MaxFrames THEN m ELSE MaxFrames
           seen == {1} \cup {i \in 2 .. Len(chain) : i - 1 \in Sure(chain) \cap Keepers(chain)}
           counted == {d \in Nat : d + 1 <= n =>
                          Cardinality(Upto(seen, d + 1)) = Cardinality(Upto(K, d)) + 1}
<1>1. /\ K \in SUBSET Nat /\ n \in Nat \ {0} /\ K \in SUBSET (1 .. n)
      /\ Len(chain) = n /\ seen \in SUBSET Nat /\ seen \in SUBSET (1 .. n)
  BY StackTyped
<1>2. \A d \in 1 .. n - 1 : d + 1 \in seen <=> d \in K
  BY <1>1 DEF Chained
<1>3. 0 \in counted
  <2>1. Upto(seen, 0 + 1) = {1}
    <3>1. \A j \in seen : j <= 0 + 1 <=> j = 1
      BY <1>1
    <3>. QED BY <3>1 DEF Upto
  <2>2. Upto(K, 0) = {}
    <3> SUFFICES ASSUME NEW j \in Upto(K, 0) PROVE FALSE
      OBVIOUS
    <3>. QED BY <1>1 DEF Upto
  <2>3. Cardinality({1}) = 1 /\ Cardinality(Upto(K, 0)) = 0
    BY <2>2, FS_EmptySet, FS_Singleton
  <2>4. Cardinality(Upto(seen, 0 + 1)) = Cardinality(Upto(K, 0)) + 1
    <3>. HIDE DEF seen, K
    <3>. QED BY <2>1, <2>3
  <2>. HIDE DEF seen, K
  <2>. QED BY <2>4
<1>4. ASSUME NEW d \in counted
      PROVE  d + 1 \in counted
  <2> SUFFICES ASSUME (d + 1) + 1 <= n
               PROVE  Cardinality(Upto(seen, (d + 1) + 1)) =
                         Cardinality(Upto(K, d + 1)) + 1
    OBVIOUS
  <2>1. Cardinality(Upto(seen, d + 1)) = Cardinality(Upto(K, d)) + 1
    BY <1>1
  <2>2. Cardinality(Upto(K, d + 1)) =
           IF d + 1 \in K THEN Cardinality(Upto(K, d)) + 1 ELSE Cardinality(Upto(K, d))
    BY <1>1, UptoNext
  <2>3. Cardinality(Upto(seen, (d + 1) + 1)) =
           IF (d + 1) + 1 \in seen THEN Cardinality(Upto(seen, d + 1)) + 1
                                   ELSE Cardinality(Upto(seen, d + 1))
    <3>1. d + 1 \in Int
      OBVIOUS
    <3>. HIDE DEF seen, counted
    <3>. QED BY <1>1, <3>1, UptoNext
  <2>4. (d + 1) + 1 \in seen <=> d + 1 \in K
    <3>1. d + 1 \in 1 .. n - 1
      BY <1>1
    <3>. HIDE DEF seen, counted
    <3>. QED BY <1>2, <3>1
  <2>. HIDE DEF seen, K
  <2>. QED BY <2>1, <2>2, <2>3, <2>4
<1>5. counted = Nat
  <2>. HIDE DEF counted
  <2>. QED BY <1>3, <1>4, AllNaturals DEF counted
<1>6. ASSUME NEW d \in Nat, d + 1 <= n
      PROVE  Cardinality(Upto(seen, d + 1)) = Cardinality(Upto(K, d)) + 1
  BY <1>5, <1>6
<1>7. Cardinality(seen) = m + 1 /\ m \in Nat
  <2>1. n - 1 \in Nat /\ (n - 1) + 1 = n
    BY <1>1
  <2>2. Upto(seen, n) = seen
    BY <1>1 DEF Upto
  <2>. HIDE DEF seen, K, counted
  <2>3. m \in Nat
    <3>1. n - 1 \in Int
      BY <2>1
    <3>. QED BY <1>1, <3>1, UptoFinite
  <2>. QED BY <1>6, <2>1, <2>2, <2>3
<1>8. Nth(seen, 1) = 1
  <2>1. Cardinality(Upto(seen, 0 + 1)) = Cardinality(Upto(K, 0)) + 1
    <3>1. 0 \in Nat /\ 0 + 1 <= n
      BY <1>1
    <3>. HIDE DEF seen, K
    <3>. QED BY <1>6, <3>1
  <2>2. Upto(K, 0) = {}
    <3> SUFFICES ASSUME NEW j \in Upto(K, 0) PROVE FALSE
      OBVIOUS
    <3>. QED BY <1>1 DEF Upto
  <2>3. Cardinality(Upto(seen, 1)) = 1
    <3>1. Cardinality(Upto(K, 0)) = 0 /\ 0 + 1 = 1
      BY <2>2, FS_EmptySet
    <3>. HIDE DEF seen, K
    <3>. QED BY <2>1, <3>1
  <2>. QED BY <1>1, <2>3, NthIs
<1>9. ASSUME NEW k \in 1 .. m
      PROVE  Nth(seen, k + 1) = Nth(K, k) + 1
  <2>1. n - 1 \in Nat
    BY <1>1
  <2>2. PICK j \in K : /\ j = Nth(K, k) /\ j <= n - 1
                       /\ Cardinality(Upto(K, j)) = k
    BY <1>1, <2>1, NthExists
  <2>3. j \in 1 .. n - 1 /\ j \in Nat /\ j + 1 <= n
    BY <1>1, <2>2
  <2>4. Cardinality(Upto(seen, j + 1)) = k + 1
    BY <1>6, <2>2, <2>3
  <2>5. j + 1 \in seen
    BY <1>2, <2>3
  <2>. HIDE DEF seen
  <2>. QED BY <1>1, <2>2, <2>4, <2>5, NthIs
<1>10. Min({Cardinality(seen), MaxFrames + 1}) = taken + 1
  <2>1. MaxFrames \in Nat
    BY FramesAssumption
  <2>2. Min({m + 1, MaxFrames + 1}) = IF m + 1 < MaxFrames + 1 THEN m + 1 ELSE MaxFrames + 1
    BY <1>7, <2>1, MinOfTwo
  <2>. HIDE DEF m, seen
  <2>. QED BY <1>7, <2>1, <2>2
<1>11. Callers(chain) = [k \in 1 .. taken + 1 |-> chain[Nth(seen, k)].ret]
  BY <1>10 DEF Callers
<1>12. ASSUME NEW k \in 1 .. taken + 1
       PROVE  chain[Nth(seen, k)].ret =
                 IF k = 1 THEN chain[1].ret ELSE chain[Nth(K, k - 1) + 1].ret
  <2>1. CASE k = 1
    BY <1>8, <2>1
  <2>2. CASE k # 1
    <3>1. k - 1 \in 1 .. m /\ (k - 1) + 1 = k
      BY <1>7, <2>2, FramesAssumption
    <3>2. Nth(seen, (k - 1) + 1) = Nth(K, k - 1) + 1
      BY <1>9, <3>1
    <3>. QED BY <2>2, <3>1, <3>2
  <2>. QED BY <2>1, <2>2
<1>. QED BY <1>11, <1>12

\* A stack lists the function, then its callers by the names of their return
\* addresses, and more only if the walk can go astray.
LEMMA FramesAreCallers ==
    ASSUME NEW chain, NEW n, NEW bottom, Stack(chain, n, bottom),
           NEW index, NEW slide, NEW name
    PROVE  LET frames == Frames(index, slide, name, Memory(chain, bottom), RSP,
                                RegisterAbove(chain, 0, bottom))
               callers == Callers(chain)
               wrong == Len(frames) - (Len(callers) + 1)
           IN  /\ Len(callers) \in Nat
               /\ wrong \in 0 .. MaxFrames + 1 - Len(callers)
               /\ wrong > 0 => Astray(chain, bottom)
               /\ \A k \in 1 .. Len(callers) :
                     frames[k + 1] = sym_for(index, slide, callers[k])
<1> DEFINE K == Chained(chain)
           m == Cardinality(Upto(K, n - 1))
           taken == IF m < MaxFrames THEN m ELSE MaxFrames
           mem == Memory(chain, bottom)
<1>1. PICK callers :
         /\ callers = Callers(chain)
         /\ callers = [k \in 1 .. taken + 1 |->
                         IF k = 1 THEN chain[1].ret ELSE chain[Nth(K, k - 1) + 1].ret]
  BY CallersAre
<1>2. PICK walked, l :
         /\ walked = Chain(mem, RegisterAbove(chain, 0, bottom)) /\ l = Len(walked)
         /\ l \in taken .. MaxFrames /\ walked = [k \in 1 .. l |-> walked[k]]
         /\ l > taken => Astray(chain, bottom)
         /\ \A k \in 1 .. taken : walked[k] = chain[Nth(K, k) + 1].ret
  BY ChainIs
<1>3. taken \in Nat /\ MaxFrames \in Nat
  <2>1. n - 1 \in Int /\ K \in SUBSET Nat
    BY StackTyped
  <2>2. m \in Nat
    BY <2>1, UptoFinite
  <2>. QED BY <2>2, FramesAssumption
<1>4. peek_word(mem, RSP) = chain[1].ret /\ chain[1].ret # Unreadable
  <2>1. chain[1].ret \in Nat
    BY StackTyped
  <2>. QED BY <2>1, MemoryHolds DEF Unreadable
<1>. HIDE DEF taken
<1> DEFINE returns == <<chain[1].ret>> \o walked
           names == [i \in 1 .. l + 1 |-> sym_for(index, slide, returns[i])]
<1>5. Len(callers) = taken + 1
  BY <1>1, <1>3
<1>6. l \in Nat /\ taken <= l
  BY <1>2, <1>3
<1>7. returns = [k \in 1 .. l + 1 |-> IF k = 1 THEN chain[1].ret ELSE walked[k - 1]]
  BY <1>2, <1>6
<1>8. Len(returns) = l + 1
  BY <1>6, <1>7
<1>9. \A k \in 1 .. taken + 1 : returns[k] = callers[k]
  <2> SUFFICES ASSUME NEW k \in 1 .. taken + 1 PROVE returns[k] = callers[k]
    OBVIOUS
  <2>1. k \in 1 .. l + 1
    BY <1>3, <1>6
  <2>2. CASE k = 1
    BY <1>1, <1>7, <2>1, <2>2
  <2>3. CASE k # 1
    <3>1. k - 1 \in 1 .. taken
      BY <1>3, <2>3
    <3>. HIDE DEF returns
    <3>. QED BY <1>1, <1>2, <1>7, <2>1, <2>3, <3>1
  <2>. QED BY <2>2, <2>3
<1>. HIDE DEF returns
<1>10. PICK frames :
          /\ frames = Frames(index, slide, name, mem, RSP, RegisterAbove(chain, 0, bottom))
          /\ frames = <<name>> \o names
  <2>. HIDE DEF mem
  <2>1. PICK ra, rest : /\ ra = peek_word(mem, RSP) /\ ra # Unreadable
                        /\ rest = Chain(mem, RegisterAbove(chain, 0, bottom))
                        /\ <<ra>> \o rest = returns
    BY <1>2, <1>4 DEF returns
  <2>2. Frames(index, slide, name, mem, RSP, RegisterAbove(chain, 0, bottom)) =
           <<name>> \o [i \in 1 .. Len(returns) |-> sym_for(index, slide, returns[i])]
    BY <2>1 DEF Frames
  <2>. QED BY <1>8, <2>2
<1>11. /\ Len(frames) = l + 2
       /\ \A k \in 1 .. l + 1 : frames[k + 1] = names[k]
  <2>1. PICK N \in Nat : N = l + 1
    BY <1>6
  <2>2. /\ Len(<<name>> \o names) = N + 1
        /\ \A k \in 1 .. N : (<<name>> \o names)[k + 1] = names[k]
    BY <2>1
  <2>3. N + 1 = l + 2
    BY <1>6, <2>1
  <2>. HIDE DEF names
  <2>. QED BY <1>10, <2>1, <2>2, <2>3
<1>12. \A k \in 1 .. taken + 1 : frames[k + 1] = sym_for(index, slide, callers[k])
  <2> SUFFICES ASSUME NEW k \in 1 .. taken + 1
               PROVE  frames[k + 1] = sym_for(index, slide, callers[k])
    OBVIOUS
  <2>1. k \in 1 .. l + 1
    BY <1>3, <1>6
  <2>. QED BY <1>9, <1>11, <2>1
<1>13. /\ Len(frames) - (Len(callers) + 1) = l - taken
       /\ l - taken \in 0 .. MaxFrames + 1 - Len(callers)
  BY <1>2, <1>3, <1>5, <1>6, <1>11
<1>14. l - taken > 0 => Astray(chain, bottom)
  BY <1>2, <1>3, <1>6
<1>. HIDE DEF mem
<1>. QED BY <1>1, <1>3, <1>5, <1>10, <1>12, <1>13, <1>14 DEF mem

--------------------------------------------------------------------------------
(* The names of return addresses *)

\* The recursive definition of Reached has a solution, because parents stand before
\* their children.
LEMMA ReachedIs ==
    ASSUME NEW dies, NEW N \in Nat, Len(dies) = N,
           \A i \in 1 .. N : dies[i].parent \in Nat /\ dies[i].parent < i
    PROVE  \A i \in 1 .. N :
              i \in Reached(dies) <=>
                 LET p == dies[i].parent
                 IN  p = 0 \/ (dies[p].tag \in Scopes /\ p \in Reached(dies))
<1> DEFINE E(i, b) == dies[i].parent = 0 \/ (dies[dies[i].parent].tag \in Scopes /\ b)
           Solves(f, n) == f = [i \in 1 .. n |-> E(i, f[dies[i].parent])]
           solved == {n \in Nat : n <= N => \E f : Solves(f, n)}
<1>1. 0 \in solved
  <2>1. 1 .. 0 = {}
    OBVIOUS
  <2>2. Solves([i \in 1 .. 0 |-> TRUE], 0)
    BY <2>1
  <2>3. \E f : Solves(f, 0)
    BY <2>2
  <2>. HIDE DEF Solves
  <2>. QED BY <2>3
<1>2. ASSUME NEW n \in solved
      PROVE  n + 1 \in solved
  <2> SUFFICES ASSUME n + 1 <= N
               PROVE  \E f : Solves(f, n + 1)
    OBVIOUS
  <2>1. PICK f : Solves(f, n)
    BY <1>2
  <2> DEFINE g == [i \in 1 .. n + 1 |->
                      IF i = n + 1 THEN E(i, f[dies[i].parent]) ELSE f[i]]
  <2>2. ASSUME NEW i \in 1 .. n + 1
        PROVE  g[i] = E(i, f[dies[i].parent])
    <3>1. CASE i = n + 1
      BY <3>1
    <3>2. CASE i # n + 1
      <4>1. i \in 1 .. n /\ g[i] = f[i]
        BY <3>2
      <4>. HIDE DEF E, g
      <4>. QED BY <2>1, <4>1
    <3>. QED BY <3>1, <3>2
  <2>3. ASSUME NEW i \in 1 .. n + 1
        PROVE  E(i, f[dies[i].parent]) = E(i, g[dies[i].parent])
    <3>1. dies[i].parent \in 0 .. n
      OBVIOUS
    <3>2. dies[i].parent # 0 => g[dies[i].parent] = f[dies[i].parent]
      <4>1. dies[i].parent # 0 => dies[i].parent \in 1 .. n + 1 /\ dies[i].parent # n + 1
        BY <3>1
      <4>. HIDE DEF E
      <4>. QED BY <4>1
    <3>. HIDE DEF g
    <3>. QED BY <3>2
  <2>4. Solves(g, n + 1)
    <3> DEFINE h == [i \in 1 .. n + 1 |-> E(i, g[dies[i].parent])]
    <3>1. \A i \in 1 .. n + 1 : g[i] = h[i]
      <4>. HIDE DEF E, g
      <4>. QED BY <2>2, <2>3
    <3>2. g = h
      <4>. HIDE DEF E
      <4>. QED BY <3>1
    <3>. QED BY <3>2
  <2>. HIDE DEF Solves
  <2>. QED BY <2>4
<1>3. solved = Nat
  <2>. HIDE DEF solved
  <2>. QED BY <1>1, <1>2, AllNaturals DEF solved
<1> DEFINE reached == CHOOSE f : Solves(f, N)
<1>4. Solves(reached, N)
  <2>1. \E f : Solves(f, N)
    <3>1. N \in solved /\ N <= N
      <4>. HIDE DEF solved
      <4>. QED BY <1>3
    <3>. HIDE DEF Solves
    <3>. QED BY <3>1
  <2>. HIDE DEF Solves
  <2>. QED BY <2>1
<1>5. Reached(dies) = {i \in 1 .. N : reached[i]}
  BY DEF Reached
<1>. HIDE DEF reached
<1>6. \A i \in 1 .. N : reached[i] = E(i, reached[dies[i].parent])
  <2>. HIDE DEF E
  <2>. QED BY <1>4
<1>7. \A i \in 1 .. N : dies[i].parent # 0 => dies[i].parent \in 1 .. N
  OBVIOUS
<1>. QED BY <1>5, <1>6, <1>7

\* Every concrete function with a name is in the index of its program.
LEMMA ConcreteAreIndexed ==
    ASSUME NEW prog \in Programs, NEW d \in Concrete(prog), DieName(d) # Absent
    PROVE  \E i \in DOMAIN IndexOf(prog) : IndexOf(prog)[i] = FuncInfo(d)
<1> DEFINE dies == Image[prog].dies
           N == Len(dies)
<1>1. dies \in Seq(Die) /\ N \in Nat /\ prog # NoFile
  BY InspectionAssumption
<1>2. \A i \in 1 .. N : dies[i].parent \in Nat /\ dies[i].parent < i
  <2>1. \A i \in 1 .. N : dies[i] \in Die
    BY <1>1
  <2>. QED BY <2>1, LayoutAssumption DEF Die
<1>3. PICK S \in SUBSET (1 .. N) :
         /\ \A i \in 1 .. N : dies[i] \in Concrete(prog) => i \in S
         /\ \A i \in S : LET up == dies[i].parent
                        IN  up = 0 \/ (up \in S /\ dies[up].tag \in FunctionScopes)
  BY LayoutAssumption
<1>4. FunctionScopes \subseteq Scopes
  BY DEF FunctionScopes, Scopes, OuterScopes
<1>5. S \subseteq Reached(dies)
  <2> DEFINE missed == S \ Reached(dies)
  <2> SUFFICES ASSUME missed # {} PROVE FALSE
    OBVIOUS
  <2>1. missed \in SUBSET Nat
    <3>1. S \subseteq Nat
      <4>1. 1 .. N \subseteq Nat
        BY <1>1
      <4>. QED BY <4>1
    <3>. QED BY <3>1
  <2>2. PICK i \in missed : \A j \in missed : i <= j
    <3>. HIDE DEF missed
    <3>. QED BY <2>1, FirstIsLeast
  <2>3. dies[i].parent \notin missed
    <3>1. i \in 1 .. N /\ ~(i <= dies[i].parent)
      BY <1>2, <1>3
    <3>. HIDE DEF missed
    <3>. QED BY <2>2, <3>1
  <2>4. /\ i \in 1 .. N /\ i \in S /\ i \notin Reached(dies)
        /\ \/ dies[i].parent = 0
           \/ /\ dies[i].parent \in S
              /\ dies[dies[i].parent].tag \in FunctionScopes
    <3>1. i \in S /\ i \notin Reached(dies)
      OBVIOUS
    <3>. HIDE DEF missed, dies
    <3>. QED BY <1>3, <3>1
  <2>5. dies[i].parent = 0 \/
           (dies[dies[i].parent].tag \in Scopes /\ dies[i].parent \in Reached(dies))
    BY <1>4, <2>3, <2>4
  <2>6. i \in Reached(dies)
    BY <1>1, <1>2, <2>4, <2>5, ReachedIs
  <2>. QED BY <2>4, <2>6
<1>6. PICK i \in 1 .. N : dies[i] = d
  BY <1>1 DEF Concrete, ToSet
<1>7. i \in Reached(dies)
  BY <1>3, <1>5, <1>6
<1>8. dies[i].tag = "subprogram" /\ dies[i].low # 0 /\ DieName(dies[i]) # Absent
  BY <1>6 DEF Concrete
<1>9. IndexOf(prog) = all(dies)
  BY <1>1 DEF IndexOf, Index
<1>10. i \in DOMAIN all(dies) /\ all(dies)[i] = FuncInfo(dies[i])
  BY <1>7, <1>8 DEF all
<1>. QED BY <1>6, <1>9, <1>10

\* What an entry of the index says of its function.
LEMMA IndexSays ==
    ASSUME NEW prog \in Programs, NEW i \in DOMAIN IndexOf(prog)
    PROVE  \E d \in Concrete(prog) :
              /\ IndexOf(prog)[i] = FuncInfo(d) /\ DieName(d) # Absent
              /\ d.low \in Nat /\ d.high \in Nat
<1> DEFINE dies == Image[prog].dies
<1>1. dies \in Seq(Die) /\ prog # NoFile
  BY InspectionAssumption
<1>2. IndexOf(prog) = all(dies)
  BY <1>1 DEF IndexOf, Index
<1>3. /\ i \in 1 .. Len(dies) /\ dies[i].tag = "subprogram" /\ dies[i].low # 0
      /\ DieName(dies[i]) # Absent
      /\ all(dies)[i] = FuncInfo(dies[i])
  BY <1>2 DEF all, Reached
<1>4. dies[i] \in Die /\ dies[i] \in ToSet(dies)
  BY <1>1, <1>3 DEF ToSet
<1>. QED BY <1>2, <1>3, <1>4 DEF Concrete, Die

LEMMA FuncInfoOf ==
    ASSUME NEW d, d.low \in Nat, d.high \in Nat
    PROVE  /\ FuncInfo(d).name = DieName(d) /\ FuncInfo(d).address = d.low
           /\ FuncInfo(d).size \in Nat
           /\ \A a \in Nat : d.low <= a =>
                 (a < d.low + FuncInfo(d).size <=> a < d.high)
<1>1. /\ FuncInfo(d).name = DieName(d) /\ FuncInfo(d).address = d.low
      /\ FuncInfo(d).size = IF d.high > d.low THEN d.high - d.low ELSE 0
  BY DEF FuncInfo
<1>. QED BY <1>1

LEMMA IndexTyped ==
    ASSUME NEW prog \in Programs
    PROVE  /\ DOMAIN IndexOf(prog) \subseteq Nat
           /\ \A i \in DOMAIN IndexOf(prog) :
                 IndexOf(prog)[i].address \in Nat /\ IndexOf(prog)[i].size \in Nat
<1>1. DOMAIN IndexOf(prog) \subseteq Nat
  BY InspectionAssumption DEF IndexOf, Index, all, Reached
<1>2. ASSUME NEW i \in DOMAIN IndexOf(prog)
      PROVE  IndexOf(prog)[i].address \in Nat /\ IndexOf(prog)[i].size \in Nat
  BY IndexSays, FuncInfoOf
<1>. QED BY <1>1, <1>2

LEMMA ConcreteTyped ==
    ASSUME NEW prog \in Programs, NEW d \in Concrete(prog)
    PROVE  d \in Die /\ d.low \in Nat /\ d.high \in Nat
<1>1. Image[prog].dies \in Seq(Die)
  BY InspectionAssumption
<1>2. d \in Die
  BY <1>1 DEF Concrete, ToSet
<1>. QED BY <1>2 DEF Die

\* At an address inside of a function with a name and not at its beginning,
\* lookup_by_addr finds it, or one that has all its code in common with it.
LEMMA LookupInside ==
    ASSUME NEW prog \in Programs, NEW d \in Concrete(prog), DieName(d) # Absent,
           NEW a \in Nat, d.low < a, a < d.high
    PROVE  \E e \in Concrete(prog) :
              /\ e.low = d.low /\ e.high = d.high /\ DieName(e) # Absent
              /\ lookup_by_addr(IndexOf(prog), a) = DieName(e)
<1> DEFINE index == IndexOf(prog)
           below == {a - index[i].address : i \in UpTo(index, a)}
           near == {i \in UpTo(index, a) :
                       \A j \in UpTo(index, a) : index[j].address <= index[i].address}
<1>1. DOMAIN index \subseteq Nat /\ \A i \in DOMAIN index : index[i].address \in Nat
  BY IndexTyped
<1>2. d.low \in Nat /\ d.high \in Nat
  BY ConcreteTyped
<1>3. PICK i \in DOMAIN index : index[i].address = d.low
  BY <1>2, ConcreteAreIndexed, FuncInfoOf
<1>4. i \in UpTo(index, a) /\ UpTo(index, a) # {}
  BY <1>2, <1>3 DEF UpTo
<1>5. below \in SUBSET Nat /\ below # {}
  BY <1>1, <1>4 DEF UpTo
<1>6. PICK n \in UpTo(index, a) : \A x \in below : a - index[n].address <= x
  <2>1. First(below) \in below /\ \A x \in below : First(below) <= x
    BY <1>5, FirstIsLeast
  <2>2. PICK n \in UpTo(index, a) : First(below) = a - index[n].address
    BY <2>1
  <2>. QED BY <2>1, <2>2
<1>7. ASSUME NEW j \in UpTo(index, a)
      PROVE  index[j].address <= index[n].address
  <2>1. a - index[n].address <= a - index[j].address
    BY <1>6
  <2>2. index[n].address \in Nat /\ index[j].address \in Nat
    BY <1>1 DEF UpTo
  <2>. QED BY <2>1, <2>2
<1>8. near \in SUBSET Nat /\ near # {}
  BY <1>1, <1>7 DEF UpTo
<1>9. Nearest(index, a) \in near
  <2>1. First(near) \in near
    BY <1>8, FirstIsLeast
  <2>. QED BY <2>1 DEF Nearest
<1>10. PICK m \in UpTo(index, a) :
          /\ m = Nearest(index, a)
          /\ index[i].address <= index[m].address
  BY <1>4, <1>9
<1>11. m \in DOMAIN index /\ index[m].address <= a
  BY <1>10 DEF UpTo
<1>12. PICK e \in Concrete(prog) :
          /\ index[m] = FuncInfo(e) /\ DieName(e) # Absent
          /\ e.low \in Nat /\ e.high \in Nat
  BY <1>11, IndexSays
<1>13. index[m].address = e.low /\ index[m].name = DieName(e)
  BY <1>12, FuncInfoOf
<1>14. e.low \in d.low .. d.high - 1
  BY <1>2, <1>3, <1>10, <1>11, <1>12, <1>13
<1>15. e.low = d.low /\ e.high = d.high
  BY <1>14, LayoutAssumption
<1>16. Covers(index[m], a)
  <2>1. e.low <= a /\ a < e.high
    BY <1>2, <1>15
  <2>2. a < e.low + FuncInfo(e).size /\ FuncInfo(e).size \in Nat
    BY <1>12, <2>1, FuncInfoOf
  <2>3. index[m].size > 0
    BY <1>2, <1>12, <1>15, <2>2
  <2>. QED BY <1>12, <1>13, <2>2, <2>3 DEF Covers
<1>17. lookup_by_addr(index, a) = DieName(e)
  BY <1>4, <1>10, <1>13, <1>16 DEF lookup_by_addr
<1>. QED BY <1>12, <1>15, <1>17

--------------------------------------------------------------------------------
(* Frames *)

\* What is known of a return address: a library's one below the slide is above all
\* link addresses of the program.
ReturnAddress(ret) ==
    /\ ret \in Nat
    /\ \/ running.slide <= ret
       \/ \A d \in Concrete(running.prog) : d.low < ret /\ d.high <= ret

\* A return address is shown by the name of a function its call is in, or as it is.
LEMMA NameOfCaller ==
    ASSUME TypeOK, NEW ret, ReturnAddress(ret), ~CallIsLast(ret)
    PROVE  ShowsCaller(sym_for(IndexOf(running.prog), running.slide, ret), ret)
<1> DEFINE prog == running.prog
           slide == running.slide
           index == IndexOf(prog)
           addr == LinkAddress(ret, slide)
           names == {DieName(d) : d \in Around(ret)} \ {<<>>}
<1>1. prog \in Programs /\ slide \in Nat /\ ret \in Nat
  BY DEF TypeOK, ReturnAddress
<1>2. \A d \in Concrete(prog) : d.low \in Nat /\ d.high \in Nat
  BY <1>1, ConcreteTyped
<1>3. addr = IF slide <= ret THEN ret - slide ELSE ret
  BY <1>1 DEF LinkAddress
<1>4. addr \in Nat
  BY <1>1, <1>3
<1>5. ASSUME NEW d \in Around(ret), DieName(d) # Absent
      PROVE  lookup_by_addr(index, addr) \in names
  <2>1. d \in Concrete(prog) /\ ret - 1 - slide \in d.low .. d.high - 1
    BY DEF Around
  <2>2. ret - slide # d.high
    BY DEF CallIsLast
  <2>3. addr = ret - slide /\ d.low < addr /\ addr < d.high
    BY <1>1, <1>2, <1>3, <2>1, <2>2
  <2>4. PICK e \in Concrete(prog) :
           /\ e.low = d.low /\ e.high = d.high /\ DieName(e) # Absent
           /\ lookup_by_addr(index, addr) = DieName(e)
    BY <1>1, <1>4, <1>5, <2>1, <2>3, LookupInside
  <2>5. e \in Around(ret)
    BY <2>1, <2>4 DEF Around
  <2>. QED BY <2>4, <2>5 DEF Absent
<1>6. ASSUME lookup_by_addr(index, addr) # Absent
      PROVE  lookup_by_addr(index, addr) \in names
  <2>1. DOMAIN index \subseteq Nat
        /\ \A i \in DOMAIN index : index[i].address \in Nat /\ index[i].size \in Nat
    BY <1>1, IndexTyped
  <2>2. PICK i \in DOMAIN index :
           /\ index[i].name = lookup_by_addr(index, addr)
           /\ \/ addr = index[i].address
              \/ /\ index[i].address <= addr
                 /\ addr < index[i].address + index[i].size
    <3>. HIDE DEF index, addr
    <3>. QED BY <1>4, <1>6, <2>1, LookupSound
  <2>3. PICK d \in Concrete(prog) : /\ index[i] = FuncInfo(d) /\ DieName(d) # Absent
                                    /\ d.low \in Nat /\ d.high \in Nat
    BY <1>1, IndexSays
  <2>4. index[i].name = DieName(d) /\ index[i].address = d.low
        /\ (d.low <= addr /\ addr < d.low + index[i].size => addr < d.high)
    <3>. HIDE DEF index, addr
    <3>. QED BY <1>4, <2>3, FuncInfoOf
  <2>5. addr = d.low \/ (d.low <= addr /\ addr < d.high)
    <3>. HIDE DEF index, addr
    <3>. QED BY <2>2, <2>4
  <2>6. slide <= ret
    <3>1. ~(slide <= ret) => addr = ret /\ d.low < ret /\ d.high <= ret
      BY <1>3 DEF ReturnAddress
    <3>. HIDE DEF addr
    <3>. QED BY <1>1, <2>3, <2>5, <3>1
  <2>7. addr = ret - slide /\ addr # d.low
    BY <1>3, <2>6 DEF CallIsLast
  <2>8. ret - 1 - slide \in d.low .. d.high - 1
    <3>. HIDE DEF addr
    <3>. QED BY <1>1, <2>3, <2>5, <2>7
  <2>9. d \in Around(ret)
    BY <2>8 DEF Around
  <2>. QED BY <2>2, <2>3, <2>4, <2>9 DEF Absent
<1>. SUFFICES sym_for(index, slide, ret) \in
                 IF names # {} THEN names ELSE {<<"0x", ToString(ret)>>}
  BY DEF ShowsCaller
<1>7. names # {} => \E d \in Around(ret) : DieName(d) # Absent
  BY DEF Absent
<1>8. sym_for(index, slide, ret) =
         IF lookup_by_addr(index, addr) # Absent THEN lookup_by_addr(index, addr)
         ELSE <<"0x", ToString(ret)>>
  BY DEF sym_for
<1>. HIDE DEF index, addr
<1>9. CASE names # {}
  <2>1. lookup_by_addr(index, addr) \in names
    <3>. HIDE DEF names
    <3>. QED BY <1>5, <1>7, <1>9
  <2>2. lookup_by_addr(index, addr) # Absent
    BY <2>1 DEF Absent
  <2>. HIDE DEF names
  <2>. QED BY <1>8, <1>9, <2>1, <2>2 DEF names, index
<1>10. CASE names = {}
  <2>1. lookup_by_addr(index, addr) = Absent
    <3>. HIDE DEF names
    <3>. QED BY <1>6, <1>10
  <2>. QED BY <1>8, <1>10, <2>1 DEF index
<1>. QED BY <1>9, <1>10

\* The target was loaded where the kernel puts programs.
LoadedOwn == running.slide \in IF Image[running.prog].pie THEN Slides ELSE {0}

LEMMA LoadedInvariant == Spec => []LoadedOwn
<1>1. Init => LoadedOwn
  BY DEF Init, Loads, LoadedOwn
<1>2. TypeOK /\ LoadedOwn /\ [Next]_vars => LoadedOwn'
  <2> SUFFICES ASSUME TypeOK, LoadedOwn, [Next]_vars PROVE LoadedOwn'
    OBVIOUS
  <2>1. ASSUME NEW path \in Paths, NEW prog \in Programs \cup {NoFile},
               Replace(path, prog)
        PROVE  LoadedOwn'
    <3>1. running'.prog = running.prog /\ running'.slide = running.slide
      BY <2>1 DEF Replace, Deleted, TypeOK
    <3>. QED BY <3>1 DEF LoadedOwn
  <2>2. ASSUME NEW path \in Paths, Exec(path)
        PROVE  LoadedOwn'
    <3>1. running' \in Loads(path, FALSE)
      BY <2>2 DEF Exec
    <3>. QED BY <3>1 DEF LoadedOwn, Loads
  <2>3. ASSUME running' = running
        PROVE  LoadedOwn'
    BY <2>3 DEF LoadedOwn
  <2>4. ASSUME AttachEngine \/ (\E c \in Commands : Ask(c)) \/ elf_min_vaddr
               \/ get_load_base \/ (\E chain, b : Sample(chain, b))
               \/ (\E die, list : Event(die, list)) \/ TimeOut \/ UNCHANGED vars
        PROVE  running' = running
    BY <2>4 DEF AttachEngine, Ask, elf_min_vaddr, get_load_base, Sample, Event,
                TimeOut, vars, worldVars
  <2>. QED BY <2>1, <2>2, <2>3, <2>4 DEF Next
<1>. QED BY <1>1, <1>2, TypeCorrect, PTL DEF Spec

\* The return addresses that a call may have.
LEMMA ActivationTyped ==
    ASSUME TypeOK, LoadedOwn, NEW a \in Activation
    PROVE  a \in Caller /\ ReturnAddress(a.ret)
<1>1. /\ a.ret \in {s + running.slide : s \in Image[running.prog].sites} \cup LibSites
      /\ a.rbp \in Nat \cup {Own, Untouched} /\ a = [ret |-> a.ret, rbp |-> a.rbp]
  BY StackAssumption DEF Activation
<1>2. running.prog \in Programs /\ running.slide \in Nat
  BY DEF TypeOK
<1>3. CASE a.ret \in LibSites
  <2>1. a.ret \in Nat \ {0}
    BY <1>3, LayoutAssumption
  <2>2. running.slide <= a.ret \/
           \A d \in Concrete(running.prog) : d.low < a.ret /\ d.high <= a.ret
    <3>1. CASE Image[running.prog].pie
      <4>1. running.slide \in Slides
        BY <3>1 DEF LoadedOwn
      <4>. QED BY <1>2, <1>3, <3>1, <4>1, LayoutAssumption
    <3>2. CASE ~Image[running.prog].pie
      BY <2>1, <3>2 DEF LoadedOwn
    <3>. QED BY <3>1, <3>2
  <2>. QED BY <1>1, <2>1, <2>2 DEF Caller, ReturnAddress
<1>4. CASE a.ret \notin LibSites
  <2>1. PICK s \in Image[running.prog].sites : a.ret = s + running.slide
    BY <1>1, <1>4
  <2>2. s \in Nat \ {0}
    BY <1>2, LayoutAssumption
  <2>3. a.ret \in Nat \ {0} /\ running.slide <= a.ret
    BY <1>2, <2>1, <2>2
  <2>. QED BY <1>1, <2>3 DEF Caller, ReturnAddress
<1>. QED BY <1>3, <1>4

\* At the entries of a target of which nothing is stale, the index is that of the
\* running program and the slide is its slide.
LEMMA UsedIsRunning ==
    ASSUME TypeOK, SlideInv, place = "armed", ~spoilt
    PROVE  finder = running.prog /\ aslr_slide = running.slide
<1>1. finder \in Programs /\ finder # NoFile
  BY UsedIsIndexed, InspectionAssumption
<1>2. /\ maps_base = running.slide + LinkBase(running.prog)
      /\ min_vaddr = LinkBase(running.prog)
  BY DEF TypeOK, SlideInv, PartsOwn
<1>3. running.slide \in Nat /\ LinkBase(running.prog) \in Nat
  BY LinkBaseTyped DEF TypeOK
<1>. QED BY <1>1, <1>2, <1>3 DEF aslr_slide, SlideInv, PartsOwn

\* A sample that is taken while nothing is stale shows the callers.
LEMMA SampleShows ==
    ASSUME TypeOK, SlideInv, LoadedOwn, place = "armed", ~spoilt,
           NEW n \in Nat \ {0}, NEW chain \in [1 .. n -> Activation],
           NEW bottom \in Words, NEW name
    PROVE  LET frames == Frames(IndexOf(finder), aslr_slide, name,
                                Memory(chain, bottom), RSP, RegisterAbove(chain, 0, bottom))
               callers == Callers(chain)
               wrong == Len(frames) - (Len(callers) + 1)
           IN  /\ wrong \in 0 .. MaxFrames + 1 - Len(callers)
               /\ wrong > 0 => Astray(chain, bottom)
               /\ \A k \in 1 .. Len(callers) :
                     CallIsLast(callers[k]) \/ ShowsCaller(frames[k + 1], callers[k])
<1> DEFINE callers == Callers(chain)
           frames == Frames(IndexOf(finder), aslr_slide, name, Memory(chain, bottom),
                            RSP, RegisterAbove(chain, 0, bottom))
<1>1. \A i \in 1 .. n : chain[i] \in Caller /\ ReturnAddress(chain[i].ret)
  BY ActivationTyped
<1>2. Stack(chain, n, bottom)
  BY <1>1, StackAssumption DEF Stack
<1>3. finder = running.prog /\ aslr_slide = running.slide
  BY UsedIsRunning
<1> DEFINE wrong == Len(frames) - (Len(callers) + 1)
<1>4. /\ Len(callers) \in Nat
      /\ wrong \in 0 .. MaxFrames + 1 - Len(callers)
      /\ wrong > 0 => Astray(chain, bottom)
      /\ \A k \in 1 .. Len(callers) :
            frames[k + 1] = sym_for(IndexOf(running.prog), running.slide, callers[k])
  BY <1>2, <1>3, FramesAreCallers
<1>5. ASSUME NEW k \in 1 .. Len(callers)
      PROVE  ReturnAddress(callers[k])
  <2> DEFINE K == Chained(chain)
             m == Cardinality(Upto(K, n - 1))
             taken == IF m < MaxFrames THEN m ELSE MaxFrames
  <2>1. callers = [l \in 1 .. taken + 1 |->
                     IF l = 1 THEN chain[1].ret ELSE chain[Nth(K, l - 1) + 1].ret]
    BY <1>2, CallersAre
  <2>2. K \in SUBSET (1 .. n) /\ K \in SUBSET Nat /\ n - 1 \in Nat
    BY <1>2, StackTyped
  <2>. HIDE DEF K
  <2>3. m \in Nat /\ MaxFrames \in Nat
    <3>1. n - 1 \in Int
      BY <2>2
    <3>. QED BY <2>2, <3>1, UptoFinite, FramesAssumption
  <2>. HIDE DEF m, callers
  <2>4. taken \in Nat /\ taken <= m
    BY <2>3
  <2>5. Len(callers) = taken + 1
    BY <2>1, <2>4
  <2>6. CASE k = 1
    <3>1. callers[k] = chain[1].ret
      BY <2>1, <2>4, <2>6
    <3>. QED BY <1>1, <3>1
  <2>7. CASE k # 1
    <3>1. k - 1 \in 1 .. m /\ k \in 1 .. taken + 1
      <4>. HIDE DEF taken
      <4>. QED BY <2>3, <2>4, <2>5, <2>7
    <3>2. Nth(K, k - 1) \in K /\ Nth(K, k - 1) <= n - 1
      BY <2>2, <3>1, NthExists DEF m
    <3>3. Nth(K, k - 1) + 1 \in 1 .. n
      <4>1. \A i \in K : i \in 1 .. n /\ (i <= n - 1 => i + 1 \in 1 .. n)
        BY <2>2
      <4>. QED BY <3>2, <4>1
    <3>4. callers[k] = chain[Nth(K, k - 1) + 1].ret
      BY <2>1, <2>7, <3>1
    <3>. QED BY <1>1, <3>3, <3>4
  <2>. QED BY <2>6, <2>7
<1>. HIDE DEF callers, frames
<1>6. ASSUME NEW k \in 1 .. Len(callers), ~CallIsLast(callers[k])
      PROVE  ShowsCaller(frames[k + 1], callers[k])
  <2>1. PICK ret : ret = callers[k]
    OBVIOUS
  <2>2. ReturnAddress(ret) /\ ~CallIsLast(ret)
    BY <1>5, <1>6, <2>1
  <2>3. frames[k + 1] = sym_for(IndexOf(running.prog), running.slide, ret)
    BY <1>4, <2>1
  <2>. QED BY <2>1, <2>2, <2>3, NameOfCaller
<1>. QED BY <1>4, <1>6 DEF callers, frames

\* What is shown stays true of the target: whatever changes the running program takes
\* away what is shown.
LEMMA ShownStays ==
    ASSUME TypeOK, [Next]_vars
    PROVE  \/ shown'.kind \in {"nothing", "error"}
           \/ /\ shown' = shown /\ running' = running
              /\ spoilt' = spoilt
           \/ /\ running' = running /\ spoilt' = spoilt
              /\ \/ \E n \in 1 .. MaxDepth :
                       \E chain \in [1 .. n -> Activation], b \in Words : Sample(chain, b)
                 \/ \E d \in Concrete(running.prog), list \in ArgLists : Event(d, list)
<1>1. ASSUME NEW path, NEW prog, Replace(path, prog)
      PROVE  shown'.kind = "nothing"
  BY <1>1 DEF Replace, Change, Blank
<1>2. ASSUME NEW path, Exec(path)
      PROVE  shown'.kind = "nothing"
  BY <1>2 DEF Exec, Change, Blank
<1>3. ASSUME NEW c, Ask(c)
      PROVE  shown'.kind \in {"nothing", "error"}
  BY <1>3 DEF Ask, Blank
<1>4. ASSUME AttachEngine \/ elf_min_vaddr \/ get_load_base \/ TimeOut \/ UNCHANGED vars
      PROVE  shown' = shown /\ running' = running /\ spoilt' = spoilt
  BY <1>4 DEF AttachEngine, elf_min_vaddr, get_load_base, TimeOut, vars, worldVars
<1>5. ASSUME NEW chain, NEW b, Sample(chain, b)
      PROVE  running' = running /\ spoilt' = spoilt
  BY <1>5 DEF Sample, worldVars
<1>6. ASSUME NEW d, NEW list, Event(d, list)
      PROVE  running' = running /\ spoilt' = spoilt
  BY <1>6 DEF Event, worldVars
<1>. QED BY <1>1, <1>2, <1>3, <1>4, <1>5, <1>6 DEF Next

\* A stack begins with the function's real callers as far as frame pointers lead,
\* each by the name of the function its call is in, for every program, slide and
\* depth, every mix of functions that make frames, leave rbp alone or keep anything
\* else in it, everything that can be read there, and whatever was replaced and
\* executed before.
THEOREM FramesCorrect == Spec => []FramesOwn
<1>1. Init => FramesOwn
  BY DEF Init, FramesOwn, Blank
<1>2. ASSUME TypeOK, SlideInv, LoadedOwn, FramesOwn, [Next]_vars
      PROVE  FramesOwn'
  <2>1. CASE shown'.kind \in {"nothing", "error"}
    BY <2>1 DEF FramesOwn
  <2>2. CASE shown' = shown /\ running' = running /\ spoilt' = spoilt
    BY <1>2, <2>2 DEF FramesOwn, CallIsLast, ShowsCaller, Around
  <2>3. ASSUME running' = running, spoilt' = spoilt,
               NEW n \in 1 .. MaxDepth, NEW chain \in [1 .. n -> Activation],
               NEW bottom \in Words, Sample(chain, bottom)
        PROVE  FramesOwn'
    <3> SUFFICES ASSUME ~spoilt PROVE FramesOwn'
      BY <2>3 DEF FramesOwn
    <3>1. PICK frames :
             /\ frames = Frames(IndexOf(finder), aslr_slide, command.name,
                                Memory(chain, bottom), RSP, RegisterAbove(chain, 0, bottom))
             /\ shown' = [kind |-> "stack", chain |-> chain, bottom |-> bottom,
                         frames |-> frames]
      BY <2>3 DEF Sample
    <3>2. PICK callers : callers = Callers(chain)
      OBVIOUS
    <3>3. n \in Nat \ {0} /\ place = "armed"
      BY <2>3 DEF Sample
    <3>4. PICK wrong : wrong = Len(frames) - (Len(callers) + 1)
      OBVIOUS
    <3>5. /\ wrong \in 0 .. MaxFrames + 1 - Len(callers)
          /\ wrong > 0 => Astray(chain, bottom)
          /\ \A k \in 1 .. Len(callers) :
                CallIsLast(callers[k]) \/ ShowsCaller(frames[k + 1], callers[k])
      BY <1>2, <3>1, <3>2, <3>3, <3>4, SampleShows
    <3>6. \A ret : CallIsLast(ret)' <=> CallIsLast(ret)
      BY <2>3 DEF CallIsLast, Around
    <3>7. \A frame, ret : ShowsCaller(frame, ret)' <=> ShowsCaller(frame, ret)
      BY <2>3 DEF ShowsCaller, Around
    <3>8. shown'.frames = frames /\ shown'.chain = chain /\ shown'.bottom = bottom
      BY <3>1
    <3>. QED BY <3>2, <3>4, <3>5, <3>6, <3>7, <3>8 DEF FramesOwn
  <2>4. ASSUME NEW d, NEW list, Event(d, list)
        PROVE  FramesOwn'
    BY <2>4 DEF Event, FramesOwn
  <2>. QED BY <1>2, <2>1, <2>2, <2>3, <2>4, ShownStays
<1>. QED BY <1>1, <1>2, SlideInvariant, LoadedInvariant, PTL DEF Spec

--------------------------------------------------------------------------------
(* Numbers in registers *)

\* A quotient and a remainder are the only ones.
LEMMA Remainder ==
    ASSUME NEW n \in Nat \ {0}, NEW q \in Int, NEW r \in 0 .. n - 1
    PROVE  (n * q + r) % n = r
<1> DEFINE a == n * q + r
           d == a \div n
           e == a % n
<1>1. a \in Int
  OBVIOUS
<1>2. d \in Int /\ e \in 0 .. n - 1 /\ a = n * d + e
  BY <1>1
<1>. HIDE DEF d, e
<1>3. n * (q - d) = e - r
  <2>1. n * q + r = n * d + e
    BY <1>2
  <2>2. n * (q - d) = n * q - n * d
    BY <1>2
  <2>3. n * q \in Int /\ n * d \in Int
    BY <1>2
  <2>. QED BY <1>2, <2>1, <2>2, <2>3
<1>4. q = d
  <2>1. CASE q - d >= 1
    <3>1. n * (q - d) >= n
      BY <1>2, <2>1
    <3>. QED BY <1>2, <1>3, <3>1
  <2>2. CASE q - d <= -1
    <3>1. n * (q - d) <= -n
      BY <1>2, <2>2
    <3>. QED BY <1>2, <1>3, <3>1
  <2>. QED BY <1>2, <2>1, <2>2
<1>5. n * (q - d) = 0
  BY <1>2, <1>4
<1>6. e = r
  BY <1>2, <1>3, <1>5
<1>. QED BY <1>6 DEF e

\* What is cast to the signed type of n values is the argument, whatever stands above
\* it in its register.
LEMMA CastIsArgument ==
    ASSUME NEW n \in Nat \ {0}, n % 2 = 0, RegSize % n = 0, RegSize \in Nat \ {0},
           NEW value \in -(n \div 2) .. (n \div 2) - 1, NEW above \in Nat
    PROVE  AsSigned(((value % n) + above * n) % RegSize, n) = value
<1> DEFINE h == n \div 2
           c == RegSize \div n
           x == (value % n) + above * n
           v == x % RegSize
           q == x \div RegSize
<1>1. h \in Nat /\ n = h + h /\ value \in Int /\ -h <= value /\ value < h
  OBVIOUS
<1>. HIDE DEF h
<1>2. c \in Int /\ RegSize = n * c
  OBVIOUS
<1>3. value % n \in 0 .. n - 1
  BY <1>1
<1>4. x \in Int
  BY <1>3
<1>5. q \in Int /\ v \in Int /\ x = RegSize * q + v
  BY <1>4
<1>6. v = n * (above - c * q) + (value % n)
  <2>. HIDE DEF c, q, v
  <2>1. v = (value % n) + above * n - (n * c) * q
    <3>1. RegSize * q = (n * c) * q /\ RegSize * q \in Int
      BY <1>2, <1>5
    <3>2. x = (value % n) + above * n /\ x \in Int
      BY <1>4
    <3>. HIDE DEF x
    <3>. QED BY <1>5, <3>1, <3>2
  <2>2. (n * c) * q = n * (c * q) /\ c * q \in Int
    BY <1>2, <1>5
  <2>3. n * (above - c * q) = n * above - n * (c * q)
    <3>1. \A y \in Int : n * (above - y) = n * above - n * y
      OBVIOUS
    <3>. QED BY <2>2, <3>1
  <2>4. above * n = n * above /\ n * above \in Int /\ n * (c * q) \in Int
    BY <2>2
  <2>. QED BY <1>3, <2>1, <2>2, <2>3, <2>4
<1>7. v % n = value % n
  <2>1. above - c * q \in Int
    <3>. HIDE DEF c, q
    <3>. QED BY <1>2, <1>5
  <2>. HIDE DEF c, q, v
  <2>. QED BY <1>3, <1>6, <2>1, Remainder
<1>8. CASE value >= 0
  <2>1. n * 0 + value = value /\ value \in 0 .. n - 1
    BY <1>1, <1>8
  <2>2. value % n = value
    BY <2>1, Remainder
  <2>. HIDE DEF v
  <2>. QED BY <1>1, <1>7, <1>8, <2>2 DEF AsSigned, h, v
<1>9. CASE value < 0
  <2>1. n * (-1) + (value + n) = value /\ value + n \in 0 .. n - 1
    BY <1>1, <1>9
  <2>2. value % n = value + n
    BY <2>1, Remainder
  <2>3. value + n >= h
    BY <1>1
  <2>. HIDE DEF v
  <2>. QED BY <1>1, <1>7, <1>9, <2>2, <2>3 DEF AsSigned, h, v
<1>. QED BY <1>1, <1>8, <1>9

--------------------------------------------------------------------------------
(* The order of parameters *)

\* Two sets that agree up to N, one moved by f, have as many elements up to there but
\* for those before.
LEMMA ShiftCount ==
    ASSUME NEW S \in SUBSET Nat, NEW T \in SUBSET (Nat \ {0}), NEW f \in Nat, NEW N \in Nat,
           \A d \in 1 .. N : d + f \in S <=> d \in T
    PROVE  \A d \in 0 .. N :
              Cardinality(Upto(S, d + f)) =
                 Cardinality(Upto(T, d)) + Cardinality(Upto(S, f))
<1> DEFINE c == Cardinality(Upto(S, f))
           counted == {d \in Nat : d <= N =>
                          Cardinality(Upto(S, d + f)) = Cardinality(Upto(T, d)) + c}
<1>1. c \in Nat
  <2>1. f \in Int
    OBVIOUS
  <2>. QED BY <2>1, UptoFinite
<1>2. 0 \in counted
  <2>1. Upto(T, 0) = {}
    <3> SUFFICES ASSUME NEW j \in Upto(T, 0) PROVE FALSE
      OBVIOUS
    <3>. QED BY DEF Upto
  <2>2. Cardinality(Upto(T, 0)) = 0 /\ 0 + f = f
    BY <2>1, FS_EmptySet
  <2>. HIDE DEF c
  <2>3. Cardinality(Upto(S, 0 + f)) = c
    BY <2>2 DEF c
  <2>. QED BY <1>1, <2>2, <2>3
<1>3. ASSUME NEW d \in counted
      PROVE  d + 1 \in counted
  <2> SUFFICES ASSUME d + 1 <= N
               PROVE  Cardinality(Upto(S, (d + 1) + f)) = Cardinality(Upto(T, d + 1)) + c
    OBVIOUS
  <2>1. Cardinality(Upto(S, d + f)) = Cardinality(Upto(T, d)) + c
    OBVIOUS
  <2>2. Cardinality(Upto(T, d + 1)) =
           IF d + 1 \in T THEN Cardinality(Upto(T, d)) + 1 ELSE Cardinality(Upto(T, d))
    <3>1. T \in SUBSET Nat /\ d \in Int
      OBVIOUS
    <3>. HIDE DEF counted
    <3>. QED BY <3>1, UptoNext
  <2>3. Cardinality(Upto(S, (d + f) + 1)) =
           IF (d + f) + 1 \in S THEN Cardinality(Upto(S, d + f)) + 1
                                ELSE Cardinality(Upto(S, d + f))
    <3>1. d + f \in Int
      OBVIOUS
    <3>. HIDE DEF counted
    <3>. QED BY <3>1, UptoNext
  <2>4. (d + f) + 1 = (d + 1) + f /\ d + 1 \in 1 .. N
    OBVIOUS
  <2>5. Cardinality(Upto(T, d)) \in Nat
    <3>1. T \in SUBSET Nat /\ d \in Int
      OBVIOUS
    <3>. HIDE DEF counted
    <3>. QED BY <3>1, UptoFinite
  <2>. HIDE DEF counted, c
  <2>6. (d + f) + 1 \in S <=> d + 1 \in T
    BY <2>4
  <2>. QED BY <1>1, <2>1, <2>2, <2>3, <2>4, <2>5, <2>6
<1>4. counted = Nat
  <2>. HIDE DEF counted
  <2>. QED BY <1>2, <1>3, AllNaturals DEF counted
<1>. QED BY <1>4

\* A set of places has its number of elements, and a sequence is taken at them.
LEMMA PlacesTyped ==
    ASSUME NEW n \in Nat, NEW S \in SUBSET (1 .. n)
    PROVE  /\ Cardinality(S) \in Nat /\ S = Upto(S, n) /\ S \in SUBSET Nat
           /\ \A k \in 1 .. Cardinality(S) : Nth(S, k) \in S
           /\ \A s : /\ DOMAIN At(s, S) = 1 .. Cardinality(S)
                     /\ Len(At(s, S)) = Cardinality(S)
                     /\ \A k \in 1 .. Cardinality(S) : At(s, S)[k] = s[Nth(S, k)]
<1>1. S \in SUBSET Nat /\ S = Upto(S, n)
  <2>1. \A i \in S : i \in Nat /\ i <= n
    OBVIOUS
  <2>2. S \in SUBSET Nat
    BY <2>1
  <2>3. S = Upto(S, n)
    BY <2>1 DEF Upto
  <2>. QED BY <2>2, <2>3
<1>2. Cardinality(S) \in Nat
  BY <1>1, UptoFinite
<1>3. \A k \in 1 .. Cardinality(S) : Nth(S, k) \in S
  BY <1>1, NthExists
<1>. QED BY <1>1, <1>2, <1>3 DEF At

TypeOf == [quals : Seq(STRING), base : STRING]

\* The marks of a type are a sequence of marks.
LEMMA QualifiedTyped ==
    ASSUME NEW t, t.quals \in Seq(STRING), NEW kinds
    PROVE  Qualified(t, kinds) \in Seq(kinds)
<1> DEFINE S == {i \in 1 .. Len(t.quals) : t.quals[i] \in kinds}
           q == Qualified(t, kinds)
<1>1. q = At(t.quals, S) /\ Len(t.quals) \in Nat /\ S \in SUBSET (1 .. Len(t.quals))
  BY DEF Qualified
<1>2. PICK m \in Nat : m = Cardinality(S)
  BY <1>1, PlacesTyped
<1>3. \A k \in 1 .. m : Nth(S, k) \in S
  BY <1>1, <1>2, PlacesTyped
<1>4. q = [k \in 1 .. m |-> t.quals[Nth(S, k)]]
  BY <1>1, <1>2 DEF At
<1>5. \A k \in 1 .. m : t.quals[Nth(S, k)] \in kinds
  BY <1>3
<1>. HIDE DEF q, S
<1>. QED BY <1>2, <1>4, <1>5 DEF q

\* The mark that stands before the others in a type stands behind them in its name.
LEMMA ReverseIs ==
    ASSUME NEW S, NEW q \in Seq(S)
    PROVE  /\ Reverse(q) = <<>> <=> q = <<>>
           /\ q # <<>> => Last(Reverse(q)) = Head(q)
           /\ \A x : Reverse(q) = <<x>> <=> q = <<x>>
<1> DEFINE n == Len(q)
           r == Reverse(q)
<1>1. n \in Nat /\ r = [i \in 1 .. n |-> q[(n - i) + 1]] /\ q \in [1 .. n -> S]
  BY DEF Reverse
<1>2. r \in Seq(S) /\ Len(r) = n
  BY <1>1
<1>3. n # 0 => r[n] = q[1] /\ r[1] = q[n]
  BY <1>1
<1>4. q = <<>> <=> n = 0
  OBVIOUS
<1>5. r = <<>> <=> n = 0
  BY <1>2
<1>6. \A x : (q = <<x>> <=> n = 1 /\ q[1] = x) /\ (r = <<x>> <=> n = 1 /\ r[1] = x)
  <2> SUFFICES ASSUME NEW x
               PROVE  /\ q = <<x>> <=> n = 1 /\ q[1] = x
                      /\ r = <<x>> <=> n = 1 /\ r[1] = x
    OBVIOUS
  <2>1. q = <<x>> <=> n = 1 /\ q[1] = x
    OBVIOUS
  <2>2. r = <<x>> <=> Len(r) = 1 /\ r[1] = x
    <3>1. \A s \in Seq(S) : s = <<x>> <=> Len(s) = 1 /\ s[1] = x
      OBVIOUS
    <3>. HIDE DEF r, n
    <3>. QED BY <1>2, <3>1
  <2>. QED BY <1>2, <2>1, <2>2
<1>7. q # <<>> => Head(q) = q[1] /\ Last(r) = r[n]
  BY <1>2 DEF Last
<1>. HIDE DEF n, r
<1>. QED BY <1>3, <1>4, <1>5, <1>6, <1>7 DEF r

\* What is left of a type is a floating-point type if it was one.
LEMMA FpIs ==
    ASSUME NEW t \in TypeOf
    PROVE  is_fp_param(resolve_type_name(t)) <=> ~Integral(t)
<1>1. t.base = Void => resolve_type_name(t).base = "?" /\ ~Plain(t, FpTypes)
  BY DEF resolve_type_name, Plain, Void, FpTypes
<1>2. t.base # Void => /\ resolve_type_name(t).base = t.base
                       /\ resolve_type_name(t).marks = Reverse(Qualified(t, Marks))
  BY DEF resolve_type_name
<1>3. Reverse(Qualified(t, Marks)) = <<>> <=> Qualified(t, Marks) = <<>>
  <2>1. t.quals \in Seq(STRING)
    BY DEF TypeOf
  <2>2. Qualified(t, Marks) \in Seq(Marks)
    BY <2>1, QualifiedTyped
  <2>. QED BY <2>2, ReverseIs
<1>. QED BY <1>1, <1>2, <1>3 DEF is_fp_param, Is, Integral, Plain, FpTypes

\* Where the declared parameters are, if the only implicit one is this.
LEMMA DeclaredAre ==
    ASSUME NEW die, NEW N \in Nat, Len(die.params) = N,
           \A i \in 1 .. N : die.params[i].artificial \in BOOLEAN,
           OnlyThis(die)
    PROVE  LET own == Declared(die.params)
               first == IF \E i \in 1 .. N : die.params[i].artificial THEN 1 ELSE 0
           IN  /\ first <= N /\ Len(own) = N - first
               /\ \A k \in 1 .. N - first : own[k] = die.params[k + first]
               /\ first = 1 => Integral(die.params[1].type)
<1> DEFINE D == {i \in 1 .. N : ~die.params[i].artificial}
           own == Declared(die.params)
           first == IF \E i \in 1 .. N : die.params[i].artificial THEN 1 ELSE 0
<1>1. \A i \in 1 .. N : die.params[i].artificial => i = 1 /\ Integral(die.params[i].type)
  BY DEF OnlyThis
<1>2. first \in Nat /\ first <= N /\ (first = 1 => Integral(die.params[1].type))
  <2>1. CASE \E i \in 1 .. N : die.params[i].artificial
    <3>1. PICK i \in 1 .. N : die.params[i].artificial
      BY <2>1
    <3>2. i = 1 /\ Integral(die.params[i].type)
      BY <1>1, <3>1
    <3>3. 1 <= N
      BY <3>2
    <3>. QED BY <2>1, <3>2, <3>3
  <2>. QED BY <2>1
<1>3. D = (1 + first) .. N
  <2>1. ASSUME NEW i \in 1 .. N
        PROVE  ~die.params[i].artificial <=> 1 + first <= i
    <3>1. CASE \E j \in 1 .. N : die.params[j].artificial
      <4>1. first = 1 /\ die.params[1].artificial
        BY <1>1, <3>1
      <4>2. i = 1 \/ 2 <= i
        OBVIOUS
      <4>. QED BY <1>1, <4>1, <4>2
    <3>2. CASE ~\E j \in 1 .. N : die.params[j].artificial
      <4>1. first = 0 /\ ~die.params[i].artificial
        BY <3>2
      <4>. QED BY <4>1
    <3>. QED BY <3>1, <3>2
  <2>2. \A i \in (1 + first) .. N : i \in 1 .. N /\ 1 + first <= i
    BY <1>2
  <2>3. \A i \in 1 .. N : 1 + first <= i => i \in (1 + first) .. N
    BY <1>2
  <2>. HIDE DEF first
  <2>. QED BY <2>1, <2>2, <2>3
<1>. HIDE DEF first
<1>4. Cardinality(D) = N - first /\ D \in SUBSET (1 .. N)
  <2>1. 1 + first \in Int /\ N \in Int /\ N - (1 + first) + 1 = N - first
    BY <1>2
  <2>2. Cardinality((1 + first) .. N) =
           IF 1 + first > N THEN 0 ELSE N - (1 + first) + 1
    BY <2>1, FS_Interval
  <2>3. 1 + first > N => N - first = 0
    BY <1>2
  <2>4. Cardinality((1 + first) .. N) = N - first
    BY <2>1, <2>2, <2>3
  <2>. QED BY <1>3, <2>4
<1>5. ASSUME NEW k \in 1 .. N - first
      PROVE  Nth(D, k) = k + first
  <2>1. k + first \in D
    BY <1>2, <1>3
  <2>2. Upto(D, k + first) = (1 + first) .. (k + first)
    BY <1>2, <1>3 DEF Upto
  <2>3. Cardinality((1 + first) .. (k + first)) = k
    BY <1>2, FS_Interval
  <2>4. D \in SUBSET Nat
    BY <1>4
  <2>. HIDE DEF D
  <2>. QED BY <2>1, <2>2, <2>3, <2>4, NthIs
<1>6. own = At(die.params, D)
  BY DEF Declared
<1>7. Len(own) = N - first
  <2>. HIDE DEF own, D
  <2>. QED BY <1>4, <1>6, PlacesTyped
<1>8. ASSUME NEW k \in 1 .. N - first
      PROVE  own[k] = die.params[k + first]
  <2>. HIDE DEF own, D
  <2>. QED BY <1>4, <1>5, <1>6, PlacesTyped
<1>. QED BY <1>2, <1>7, <1>8 DEF first

\* The declared parameters are those behind the first, and types are their types.
Declares(die, N, first, has_this, types) ==
    /\ N \in Nat /\ Len(die.params) = N
    /\ first \in {0, 1} /\ first <= N
    /\ first = 1 => Integral(die.params[1].type)
    /\ has_this \in BOOLEAN /\ (has_this <=> first = 1)
    /\ Len(types) = N - first
    /\ \A k \in 1 .. N - first :
          is_fp_param(types[k]) <=> ~Integral(die.params[k + first].type)

\* A parameter has the integer register that the calling convention gives it, and
\* the floating-point register as long as there was no long double.
InRegister(die, first, has_this, types, k) ==
    /\ IntBefore(types, has_this, k) = IntegerRank(die, k + first)
    /\ \/ \E j \in 1 .. k + first : Plain(die.params[j].type, {"long double"})
       \/ FpBefore(types, k) = FloatRank(die, k + first)

LEMMA RegistersAre ==
    ASSUME NEW die, NEW N, NEW first, NEW has_this, NEW types,
           Declares(die, N, first, has_this, types), NEW k \in 1 .. N - first
    PROVE  InRegister(die, first, has_this, types, k)
<1>0. /\ N \in Nat /\ first \in {0, 1} /\ first <= N
      /\ first = 1 => Integral(die.params[1].type)
      /\ has_this \in BOOLEAN /\ (has_this <=> first = 1)
      /\ \A l \in 1 .. N - first :
            is_fp_param(types[l]) <=> ~Integral(die.params[l + first].type)
  BY DEF Declares
<1>1. k \in 1 .. N /\ k + first \in 1 .. N /\ k - 1 \in 0 .. N - first
      /\ (k - 1) + first = (k + first) - 1 /\ first \in Nat /\ N - first \in Nat
  BY <1>0
<1>2. IntBefore(types, has_this, k) = IntegerRank(die, k + first)
  <2> DEFINE S == {j \in 1 .. N : Integral(die.params[j].type)}
             T == {j \in 1 .. N - first : ~is_fp_param(types[j])}
  <2>1. S \in SUBSET Nat /\ T \in SUBSET (Nat \ {0})
    <3>1. S \subseteq 1 .. N /\ 1 .. N \subseteq Nat
      BY <1>0
    <3>2. T \subseteq 1 .. N - first /\ 1 .. N - first \subseteq Nat \ {0}
      BY <1>0
    <3>. HIDE DEF S, T
    <3>. QED BY <3>1, <3>2
  <2>2. \A d \in 1 .. N - first : d + first \in S <=> d \in T
    BY <1>0
  <2>3. Upto(S, (k + first) - 1) =
           {j \in 1 .. (k + first) - 1 : Integral(die.params[j].type)}
    <3>1. \A j : j \in 1 .. N /\ j <= (k + first) - 1 <=> j \in 1 .. (k + first) - 1
      BY <1>0, <1>1
    <3>. QED BY <3>1 DEF Upto
  <2>4. Upto(T, k - 1) = {j \in 1 .. k - 1 : ~is_fp_param(types[j])}
    <3>1. \A j : j \in 1 .. N - first /\ j <= k - 1 <=> j \in 1 .. k - 1
      BY <1>1
    <3>. QED BY <3>1 DEF Upto
  <2>5. Cardinality(Upto(S, first)) = Implicit(has_this)
    <3>1. CASE first = 0
      <4>1. Upto(S, first) = {}
        <5> SUFFICES ASSUME NEW j \in Upto(S, first) PROVE FALSE
          OBVIOUS
        <5>. QED BY <3>1 DEF Upto
      <4>. QED BY <1>0, <3>1, <4>1, FS_EmptySet DEF Implicit
    <3>2. CASE first = 1
      <4>1. 1 \in S /\ \A j \in S : j <= 1 <=> j = 1
        BY <1>0, <3>2
      <4>2. Upto(S, first) = {1}
        BY <3>2, <4>1 DEF Upto
      <4>3. Cardinality({1}) = 1
        BY FS_Singleton
      <4>. HIDE DEF S
      <4>. QED BY <1>0, <3>2, <4>2, <4>3 DEF Implicit
    <3>. QED BY <1>0, <3>1, <3>2
  <2>6. Cardinality(Upto(S, (k - 1) + first)) =
           Cardinality(Upto(T, k - 1)) + Cardinality(Upto(S, first))
    <3>. HIDE DEF S, T
    <3>1. k \in Nat /\ k - 1 \in 0 .. k
      BY <1>1
    <3>2. \A d \in 1 .. k : d + first \in S <=> d \in T
      BY <1>0, <2>2
    <3>3. \A d \in 0 .. k : Cardinality(Upto(S, d + first)) =
             Cardinality(Upto(T, d)) + Cardinality(Upto(S, first))
      <4>1. first \in Nat
        BY <1>1
      <4>. QED BY <2>1, <3>1, <3>2, <4>1, ShiftCount
    <3>. QED BY <3>1, <3>3
  <2>7. Cardinality(Upto(T, k - 1)) \in Nat
    <3>1. T \in SUBSET Nat /\ k - 1 \in Int
      BY <2>1, <1>1
    <3>. HIDE DEF T
    <3>. QED BY <3>1, UptoFinite
  <2>8. Implicit(has_this) \in Nat
    BY DEF Implicit
  <2>9. /\ IntegerRank(die, k + first) = Cardinality(Upto(S, (k + first) - 1))
        /\ IntBefore(types, has_this, k) =
              Implicit(has_this) + Cardinality(Upto(T, k - 1))
    BY <2>3, <2>4 DEF IntegerRank, Before, IntBefore
  <2>. HIDE DEF S, T
  <2>. QED BY <1>1, <2>5, <2>6, <2>7, <2>8, <2>9
<1>3. ASSUME \A j \in 1 .. k + first : ~Plain(die.params[j].type, {"long double"})
      PROVE  FpBefore(types, k) = FloatRank(die, k + first)
  <2> DEFINE S == {j \in 1 .. N : Plain(die.params[j].type, {"float", "double"})}
             T == {j \in 1 .. N - first : is_fp_param(types[j])}
  <2>1. S \in SUBSET Nat /\ T \in SUBSET (Nat \ {0})
    <3>1. S \subseteq 1 .. N /\ 1 .. N \subseteq Nat
      BY <1>0
    <3>2. T \subseteq 1 .. N - first /\ 1 .. N - first \subseteq Nat \ {0}
      BY <1>0
    <3>. HIDE DEF S, T
    <3>. QED BY <3>1, <3>2
  <2>2. ASSUME NEW j \in 1 .. k + first
        PROVE  Plain(die.params[j].type, {"float", "double"})
                  <=> ~Integral(die.params[j].type)
    BY <1>3 DEF Integral, Plain, FpTypes
  <2>3. \A d \in 1 .. k : d + first \in S <=> d \in T
    <3> SUFFICES ASSUME NEW d \in 1 .. k PROVE d + first \in S <=> d \in T
      OBVIOUS
    <3>1. d \in 1 .. N - first /\ d + first \in 1 .. k + first /\ d + first \in 1 .. N
      BY <1>0
    <3>. QED BY <1>0, <2>2, <3>1
  <2>4. Upto(S, (k + first) - 1) =
           {j \in 1 .. (k + first) - 1 : Plain(die.params[j].type, {"float", "double"})}
    <3>1. \A j : j \in 1 .. N /\ j <= (k + first) - 1 <=> j \in 1 .. (k + first) - 1
      BY <1>0, <1>1
    <3>. QED BY <3>1 DEF Upto
  <2>5. Upto(T, k - 1) = {j \in 1 .. k - 1 : is_fp_param(types[j])}
    <3>1. \A j : j \in 1 .. N - first /\ j <= k - 1 <=> j \in 1 .. k - 1
      BY <1>1
    <3>. QED BY <3>1 DEF Upto
  <2>6. Upto(S, first) = {}
    <3> SUFFICES ASSUME NEW j \in Upto(S, first) PROVE FALSE
      OBVIOUS
    <3>1. j = 1 /\ first = 1 /\ j \in S
      BY <1>0 DEF Upto
    <3>. QED BY <1>0, <2>2, <3>1
  <2>7. Cardinality(Upto(S, (k - 1) + first)) =
           Cardinality(Upto(T, k - 1)) + Cardinality(Upto(S, first))
    <3>1. k \in Nat /\ k - 1 \in 0 .. k
      BY <1>1
    <3>. HIDE DEF S, T
    <3>2. \A d \in 0 .. k : Cardinality(Upto(S, d + first)) =
             Cardinality(Upto(T, d)) + Cardinality(Upto(S, first))
      <4>1. first \in Nat
        BY <1>1
      <4>. QED BY <2>1, <2>3, <3>1, <4>1, ShiftCount
    <3>. QED BY <3>1, <3>2
  <2>8. Cardinality(Upto(T, k - 1)) \in Nat /\ Cardinality(Upto(S, first)) = 0
    <3>1. T \in SUBSET Nat /\ k - 1 \in Int
      BY <2>1, <1>1
    <3>. HIDE DEF T, S
    <3>. QED BY <2>6, <3>1, UptoFinite, FS_EmptySet
  <2>9. /\ FloatRank(die, k + first) = Cardinality(Upto(S, (k + first) - 1))
        /\ FpBefore(types, k) = Cardinality(Upto(T, k - 1))
    BY <2>4, <2>5 DEF FloatRank, Before, FpBefore
  <2>. HIDE DEF S, T
  <2>. QED BY <1>1, <2>7, <2>8, <2>9
<1>. QED BY <1>2, <1>3 DEF InRegister

\* What the integer register of a parameter holds.
LEMMA ArgsHold ==
    ASSUME NEW die, NEW N \in Nat, Len(die.params) = N, NEW list,
           NEW i \in 1 .. N, Integral(die.params[i].type), IntegerRank(die, i) \in Registers
    PROVE  Args(die, list)[IntegerRank(die, i)] =
              Raw(die.params[i].type, list.values[i], list.above)
<1> DEFINE S == {j \in 1 .. N : Integral(die.params[j].type)}
           here == {j \in 1 .. N : Integral(die.params[j].type) /\
                                     IntegerRank(die, j) = IntegerRank(die, i)}
<1>1. S \in SUBSET Nat
  OBVIOUS
<1>2. ASSUME NEW j \in S
      PROVE  /\ Cardinality(Upto(S, j)) = IntegerRank(die, j) + 1
             /\ IntegerRank(die, j) \in Nat
  <2>1. Upto(S, j - 1) = {l \in 1 .. j - 1 : Integral(die.params[l].type)}
    BY DEF Upto
  <2>2. IntegerRank(die, j) = Cardinality(Upto(S, j - 1))
    BY <2>1 DEF IntegerRank, Before
  <2>3. j - 1 \in Int /\ (j - 1) + 1 = j
    OBVIOUS
  <2>4. Cardinality(Upto(S, j)) = Cardinality(Upto(S, j - 1)) + 1
    <3>1. j \in S
      OBVIOUS
    <3>. HIDE DEF S
    <3>. QED BY <1>1, <2>3, <3>1, UptoNext
  <2>5. Cardinality(Upto(S, j - 1)) \in Nat
    <3>. HIDE DEF S
    <3>. QED BY <1>1, <2>3, UptoFinite
  <2>. QED BY <2>2, <2>4, <2>5
<1>3. ASSUME NEW j \in here
      PROVE  j = i
  <2>1. j \in S /\ i \in S /\ IntegerRank(die, j) = IntegerRank(die, i)
    OBVIOUS
  <2>. HIDE DEF S, here
  <2>2. Cardinality(Upto(S, j)) = Cardinality(Upto(S, i))
    BY <1>2, <2>1
  <2>3. Nth(S, Cardinality(Upto(S, i))) = i /\ Nth(S, Cardinality(Upto(S, i))) = j
    BY <1>1, <2>1, <2>2, NthIs
  <2>. QED BY <2>3
<1>4. i \in here
  OBVIOUS
<1>5. here # {} /\ (CHOOSE j \in here : TRUE) = i
  <2>. HIDE DEF here
  <2>. QED BY <1>3, <1>4
<1>6. Args(die, list)[IntegerRank(die, i)] =
         IF here = {} THEN list.above
         ELSE LET j == CHOOSE l \in here : TRUE
              IN  Raw(die.params[j].type, list.values[j], list.above)
  BY DEF Args
<1>. HIDE DEF here
<1>. QED BY <1>5, <1>6

\* Which of its cases format_param_val takes.
LEMMA FormatIs ==
    ASSUME NEW v, NEW type, ~Is(type, {"bool"}, <<>>)
    PROVE  /\ Is(type, DOMAIN Sizes, <<>>) =>
                 format_param_val(v, type) = <<"decimal", AsSigned(v, Sizes[type.base])>>
           /\ ~Is(type, DOMAIN Sizes, <<>>) /\ EndsIn(type, {"*"}) =>
                 format_param_val(v, type) =
                    IF v = 0 THEN <<"nullptr">>
                    ELSE IF type.base \in CharTypes THEN <<"quoted", v>> ELSE <<"hex", v>>
           /\ /\ ~Is(type, DOMAIN Sizes, <<>>) /\ ~EndsIn(type, {"*"})
              /\ EndsIn(type, {"&", "&&"})
              => format_param_val(v, type) = <<"reference", v>>
<1>1. ~EndsIn(type, {"*"}) \/ ~Is(type, DOMAIN Sizes, <<>>)
  BY DEF EndsIn, Is
<1>2. ~EndsIn(type, {"&", "&&"}) \/ ~Is(type, DOMAIN Sizes, <<>>)
  BY DEF EndsIn, Is
<1>3. ~EndsIn(type, {"*"}) \/ ~EndsIn(type, {"&", "&&"})
  BY DEF EndsIn
<1>. QED BY <1>1, <1>2, <1>3 DEF format_param_val

\* What is read of a register that holds an argument of a type of which Reading tells.
LEMMA FormatReads ==
    ASSUME NEW t \in TypeOf, Told(t), Integral(t), NEW value, Fits(t, value),
           NEW above \in Nat
    PROVE  LET type == resolve_type_name(t)
               v == Raw(t, value, above)
           IN  Reading(t, value) =
                  IF is_char_ptr(type) /\ Strings[v] # "" THEN <<"text", Strings[v]>>
                  ELSE format_param_val(v, type)
<1>0. PICK type, v, q : /\ type = resolve_type_name(t)
                        /\ v = Raw(t, value, above)
                        /\ q = Qualified(t, Marks)
  OBVIOUS
<1>1. q \in Seq(Marks)
  BY <1>0, QualifiedTyped DEF TypeOf
<1>2. ~Plain(t, FpTypes)
  BY DEF Integral
<1>3. t.base # Void
  <2>1. Plain(t, DOMAIN Sizes) => t.base # Void
    BY ArgumentsAssumption DEF Plain
  <2>2. Plain(t, {"float", "double"}) => t.base # Void
    BY DEF Plain, Void
  <2>. QED BY <2>1, <2>2 DEF Told, Plain
<1>4. type.base = t.base /\ type.marks = Reverse(q)
  BY <1>0, <1>3 DEF resolve_type_name
<1>5. /\ type.marks = <<>> <=> q = <<>>
      /\ q # <<>> => Last(type.marks) = Head(q)
      /\ type.marks = <<"*">> <=> q = <<"*">>
  BY <1>1, <1>4, ReverseIs
<1>6. is_char_ptr(type) <=> t.base = "char" /\ q = <<"*">>
  BY <1>4, <1>5 DEF is_char_ptr, Is
<1>. SUFFICES Reading(t, value) =
        IF is_char_ptr(type) /\ Strings[v] # "" THEN <<"text", Strings[v]>>
        ELSE format_param_val(v, type)
  BY <1>0
<1>7. CASE q = <<>>
  <2>1. Plain(t, DOMAIN Sizes)
    BY <1>0, <1>2, <1>7 DEF Told, Plain, FpTypes
  <2>2. t.base \in DOMAIN Sizes /\ t.base # "bool"
    BY <2>1, RegisterAssumption DEF Plain
  <2>3. Is(type, DOMAIN Sizes, <<>>) /\ ~Is(type, {"bool"}, <<>>)
    BY <1>4, <1>5, <1>7, <2>2 DEF Is
  <2>4. format_param_val(v, type) = <<"decimal", AsSigned(v, Sizes[t.base])>>
    BY <1>4, <2>3, FormatIs
  <2>5. PICK n : n = Sizes[t.base]
    OBVIOUS
  <2>6. n \in Nat \ {0} /\ n % 2 = 0 /\ RegSize % n = 0 /\ RegSize \in Nat \ {0}
    BY <2>2, <2>5, RegisterAssumption
  <2>7. value \in -(n \div 2) .. (n \div 2) - 1
    BY <2>1, <2>5 DEF Fits
  <2>8. v = ((value % n) + above * n) % RegSize
    BY <1>0, <2>1, <2>5 DEF Raw
  <2>9. AsSigned(v, n) = value
    BY <2>6, <2>7, <2>8, CastIsArgument
  <2>10. Reading(t, value) = <<"decimal", value>>
    BY <1>0, <1>7 DEF Reading
  <2>11. ~is_char_ptr(type)
    BY <1>6, <1>7
  <2>. QED BY <2>4, <2>5, <2>9, <2>10, <2>11
<1>8. CASE q # <<>>
  <2>1. ~Plain(t, DOMAIN Sizes) /\ v = value % RegSize /\ value \in Int
    BY <1>0, <1>8 DEF Plain, Raw, Fits
  <2>2. ~Is(type, {"bool"}, <<>>) /\ ~Is(type, DOMAIN Sizes, <<>>)
    BY <1>5, <1>8 DEF Is
  <2>3. Head(q) \in Marks
    BY <1>1, <1>8
  <2>4. CASE Head(q) # "*"
    <3>1. ~EndsIn(type, {"*"}) /\ EndsIn(type, {"&", "&&"})
      BY <1>5, <1>8, <2>3, <2>4 DEF EndsIn, Marks
    <3>2. format_param_val(v, type) = <<"reference", v>>
      BY <2>2, <3>1, FormatIs
    <3>3. Reading(t, value) = <<"reference", value % RegSize>>
      BY <1>0, <1>8, <2>4 DEF Reading
    <3>4. ~is_char_ptr(type)
      BY <1>6, <2>4
    <3>. QED BY <2>1, <3>2, <3>3, <3>4
  <2>5. CASE Head(q) = "*"
    <3>1. EndsIn(type, {"*"})
      BY <1>5, <1>8, <2>5 DEF EndsIn
    <3>2. format_param_val(v, type) =
             IF v = 0 THEN <<"nullptr">>
             ELSE IF t.base \in CharTypes THEN <<"quoted", v>> ELSE <<"hex", v>>
      BY <1>4, <2>2, <3>1, FormatIs
    <3>3. Reading(t, value) =
             IF v = 0 THEN <<"nullptr">>
             ELSE IF q # <<"*">> \/ t.base \notin CharTypes THEN <<"hex", v>>
             ELSE IF t.base = "char" /\ Strings[v] # "" THEN <<"text", Strings[v]>>
             ELSE <<"quoted", v>>
      BY <1>0, <1>8, <2>1, <2>5 DEF Reading
    <3>4. q = <<"*">> \/ t.base \notin CharTypes
      BY <1>0, <1>8, <2>5 DEF Told, Plain
    <3>5. Strings[0] = "" /\ "char" \in CharTypes
      BY ArgumentsAssumption, RegisterAssumption
    <3>6. CASE v = 0
      BY <3>2, <3>3, <3>5, <3>6
    <3>7. CASE v # 0 /\ t.base \notin CharTypes
      BY <1>6, <3>2, <3>3, <3>5, <3>7
    <3>8. CASE v # 0 /\ t.base \in CharTypes /\ t.base = "char"
      BY <1>6, <3>2, <3>3, <3>4, <3>8
    <3>9. CASE v # 0 /\ t.base \in CharTypes /\ t.base # "char"
      BY <1>6, <3>2, <3>3, <3>4, <3>9
    <3>. QED BY <3>6, <3>7, <3>8, <3>9
  <2>. QED BY <2>4, <2>5
<1>. QED BY <1>7, <1>8

\* A call of a function with arguments of its types, and what is made of it with what
\* the index says of a function.
Call(die, list) ==
    /\ die \in Die /\ list \in ArgLists
    /\ \A i \in 1 .. Len(die.params) : Fits(die.params[i].type, list.values[i])
ParamsOf(fi, die, list) ==
    format_params(fi.param_types, Args(die, list), fi.has_this,
                  str_vals(fi.param_types, fi.has_this, Args(die, list), Strings))

\* What a call of a function without other functions at its address is shown with.
LEMMA ParamsAre ==
    ASSUME NEW die, NEW list, Call(die, list), OnlyThis(die),
           NEW k \in 1 .. Len(Declared(die.params))
    PROVE  ShowsArgument(ParamsOf(FuncInfo(die), die, list), die, list, k)
<1> DEFINE own == Declared(die.params)
           fi == FuncInfo(die)
           types == fi.param_types
           has_this == fi.has_this
           args == Args(die, list)
           strings == str_vals(types, has_this, args, Strings)
           shows == format_params(types, args, has_this, strings)
           t == own[k].type
<1>0. /\ die \in Die /\ list \in ArgLists
      /\ \A i \in 1 .. Len(die.params) : Fits(die.params[i].type, list.values[i])
  BY DEF Call
<1>1. PICK N : N \in Nat /\ N = Len(die.params)
  BY <1>0 DEF Die
<1>2. \A i \in 1 .. N : /\ die.params[i].artificial \in BOOLEAN
                        /\ die.params[i].type \in TypeOf
  <2>1. die.params \in Seq([artificial : BOOLEAN, type : TypeOf])
    BY <1>0 DEF Die, TypeOf
  <2>2. \A S : \A s \in Seq(S) : \A i \in 1 .. Len(s) : s[i] \in S
    OBVIOUS
  <2>3. \A i \in 1 .. N : die.params[i] \in [artificial : BOOLEAN, type : TypeOf]
    BY <1>1, <2>1, <2>2
  <2>. QED BY <2>3
<1>3. PICK first : /\ first \in {0, 1}
                   /\ first = IF \E i \in 1 .. N : die.params[i].artificial THEN 1 ELSE 0
  OBVIOUS
<1>4. /\ first <= N /\ Len(own) = N - first
      /\ \A l \in 1 .. N - first : own[l] = die.params[l + first]
      /\ first = 1 => Integral(die.params[1].type)
  BY <1>1, <1>2, <1>3, DeclaredAre
<1>5. has_this \in BOOLEAN /\ (has_this <=> first = 1)
  BY <1>1, <1>3 DEF FuncInfo
<1>6. types = [l \in 1 .. N - first |-> resolve_type_name(own[l].type)]
  BY <1>4 DEF FuncInfo
<1>7. Len(types) = N - first /\ N - first \in Nat
  <2>1. N - first \in Nat
    BY <1>4
  <2>. HIDE DEF types
  <2>. QED BY <1>6, <2>1
<1>8. ASSUME NEW l \in 1 .. N - first
      PROVE  /\ l + first \in 1 .. N /\ own[l].type \in TypeOf
             /\ types[l] = resolve_type_name(own[l].type)
             /\ is_fp_param(types[l]) <=> ~Integral(die.params[l + first].type)
  <2>1. l + first \in 1 .. N
    BY <1>1, <1>3, <1>4
  <2>2. own[l] = die.params[l + first]
    BY <1>4
  <2>3. types[l] = resolve_type_name(own[l].type)
    <3>. HIDE DEF types, own
    <3>. QED BY <1>6
  <2>. QED BY <1>2, <2>1, <2>2, <2>3, FpIs
<1>9. k \in 1 .. N - first
  BY <1>4
<1>10. PICK i : i \in 1 .. N /\ i = k + first
  BY <1>8, <1>9
<1>11. t = die.params[i].type /\ t \in TypeOf /\ types[k] = resolve_type_name(t)
       /\ (is_fp_param(types[k]) <=> ~Integral(t))
  BY <1>4, <1>8, <1>9, <1>10
<1>. HIDE DEF types, has_this
<1>12. PICK r : r = IntBefore(types, has_this, k)
  OBVIOUS
<1>13. /\ r = IntegerRank(die, i)
       /\ \/ \E j \in 1 .. i : Plain(die.params[j].type, {"long double"})
          \/ FpBefore(types, k) = FloatRank(die, i)
  <2>1. \A l \in 1 .. N - first :
           is_fp_param(types[l]) <=> ~Integral(die.params[l + first].type)
    BY <1>8
  <2>2. /\ IntBefore(types, has_this, k) = IntegerRank(die, k + first)
        /\ \/ \E j \in 1 .. k + first : Plain(die.params[j].type, {"long double"})
           \/ FpBefore(types, k) = FloatRank(die, k + first)
    <3>1. Declares(die, N, first, has_this, types)
      <4>. HIDE DEF own
      <4>. QED BY <1>1, <1>3, <1>4, <1>5, <1>7, <2>1 DEF Declares
    <3>2. InRegister(die, first, has_this, types, k)
      BY <1>9, <3>1, RegistersAre
    <3>. QED BY <3>2 DEF InRegister
  <2>. QED BY <1>10, <1>12, <2>2
<1>14. r \in Nat
  <2> DEFINE S == {j \in 1 .. i - 1 : Integral(die.params[j].type)}
  <2>1. i - 1 \in Nat /\ S \in SUBSET (1 .. i - 1)
    BY <1>1, <1>10
  <2>2. Cardinality(S) \in Nat
    <3>. HIDE DEF S
    <3>. QED BY <2>1, PlacesTyped
  <2>. QED BY <1>13, <2>2 DEF IntegerRank, Before
<1>15. strings[k] = IF is_char_ptr(types[k]) /\ r \in Registers THEN Strings[args[r]]
                    ELSE ""
  BY <1>7, <1>9, <1>12 DEF str_vals
<1>16. shows[k] = IF is_fp_param(types[k]) THEN <<"xmm", FpBefore(types, k)>>
                  ELSE IF r \notin Registers THEN <<"?">>
                  ELSE IF strings[k] # "" THEN <<"text", strings[k]>>
                  ELSE format_param_val(args[r], types[k])
  BY <1>7, <1>9, <1>12 DEF format_params
<1>17. i = k + (Len(die.params) - Len(own))
  BY <1>1, <1>3, <1>4, <1>9, <1>10
<1>18. ASSUME Integral(t), r < 6, Told(t)
       PROVE  shows[k] = Reading(t, list.values[i])
  <2>1. r \in Registers
    BY <1>14, <1>18 DEF Registers
  <2>2. args[r] = Raw(t, list.values[i], list.above)
    <3>1. Integral(die.params[i].type) /\ IntegerRank(die, i) \in Registers
      BY <1>11, <1>13, <1>18, <2>1
    <3>2. Args(die, list)[IntegerRank(die, i)] =
             Raw(die.params[i].type, list.values[i], list.above)
      BY <1>1, <1>10, <3>1, ArgsHold
    <3>. QED BY <1>11, <1>13, <3>2
  <2>3. Fits(t, list.values[i]) /\ list.above \in Nat
    BY <1>0, <1>1, <1>10, <1>11, ArgumentsAssumption
  <2>4. Reading(t, list.values[i]) =
           IF is_char_ptr(types[k]) /\ Strings[args[r]] # "" THEN <<"text", Strings[args[r]]>>
           ELSE format_param_val(args[r], types[k])
    <3>1. PICK value, above : value = list.values[i] /\ above = list.above
      OBVIOUS
    <3>2. Reading(t, value) =
             IF is_char_ptr(resolve_type_name(t)) /\ Strings[Raw(t, value, above)] # ""
             THEN <<"text", Strings[Raw(t, value, above)]>>
             ELSE format_param_val(Raw(t, value, above), resolve_type_name(t))
      <4>. HIDE DEF t
      <4>. QED BY <1>11, <1>18, <2>3, <3>1, FormatReads
    <3>. HIDE DEF args, t
    <3>. QED BY <1>11, <2>2, <3>1, <3>2
  <2>5. ~is_fp_param(types[k])
    BY <1>11, <1>18
  <2>. HIDE DEF args, strings, shows, t
  <2>. QED BY <1>15, <1>16, <2>1, <2>4, <2>5
<1>19. ASSUME Integral(t), r >= 6
       PROVE  shows[k] = <<"?">>
  <2>1. r \notin Registers
    BY <1>14, <1>19 DEF Registers
  <2>2. ~is_fp_param(types[k])
    BY <1>11, <1>19
  <2>. HIDE DEF shows, strings, args, t
  <2>. QED BY <1>16, <2>1, <2>2
<1>20. ASSUME ~Integral(t)
       PROVE  shows[k] = <<"xmm", FpBefore(types, k)>>
  BY <1>11, <1>16, <1>20
<1>21. r < 6 \/ r >= 6
  BY <1>14
<1>22. ParamsOf(FuncInfo(die), die, list) = shows
  BY DEF ParamsOf, types, has_this
<1>. HIDE DEF shows, own, t
<1>23. /\ i = k + (Len(die.params) - Len(Declared(die.params)))
       /\ t = Declared(die.params)[k].type
  BY <1>17 DEF own, t
<1>. QED BY <1>13, <1>18, <1>19, <1>20, <1>21, <1>22, <1>23 DEF ShowsArgument

--------------------------------------------------------------------------------
(* Events *)

\* A set of places with a last one has one.
LEMMA MaxOfPlaces ==
    ASSUME NEW n \in Nat, NEW S \in SUBSET (1 .. n), S # {}
    PROVE  Max(S) \in S
<1> DEFINE left == {n - i : i \in S}
<1>1. left \in SUBSET Nat /\ left # {}
  <2>1. \A i \in S : n - i \in Nat
    OBVIOUS
  <2>2. PICK i \in S : TRUE
    OBVIOUS
  <2>3. n - i \in left
    OBVIOUS
  <2>. QED BY <2>1, <2>3
<1>2. First(left) \in left /\ \A j \in left : First(left) <= j
  BY <1>1, FirstIsLeast
<1>3. PICK i \in S : First(left) = n - i
  BY <1>2
<1>4. ASSUME NEW j \in S
      PROVE  i >= j
  <2>1. n - i <= n - j
    BY <1>2, <1>3
  <2>. QED BY <2>1
<1>. QED BY <1>4 DEF Max

\* What an event is attributed to is a function at its address.
LEMMA AttributedOwn ==
    ASSUME TypeOK, finder = running.prog, aslr_slide = running.slide,
           NEW die \in Concrete(running.prog), die.low + running.slide \in Entries
    PROVE  \E d \in Concrete(running.prog) :
              d.low = die.low /\ Attributed(die.low + running.slide) = FuncInfo(d)
<1> DEFINE addr == die.low + running.slide
           S == {i \in targets : Entry(i) = addr}
           dies == Image[running.prog].dies
<1>1. running.prog \in Programs /\ running.slide \in Nat
      /\ targets \subseteq DOMAIN IndexOf(running.prog)
  BY DEF TypeOK
<1>2. Len(dies) \in Nat /\ DOMAIN IndexOf(running.prog) \subseteq 1 .. Len(dies)
  <2>1. dies \in Seq(Die) /\ IndexOf(running.prog) = all(dies)
    BY <1>1, InspectionAssumption DEF IndexOf, Index
  <2>2. DOMAIN all(dies) \subseteq 1 .. Len(dies)
    BY DEF all, Reached
  <2>. QED BY <2>1, <2>2
<1>3. S \in SUBSET (1 .. Len(dies)) /\ S # {}
  BY <1>1, <1>2 DEF Entries
<1>4. PICK i \in S : i = Max(S)
  <2>. HIDE DEF S
  <2>. QED BY <1>2, <1>3, MaxOfPlaces
<1>5. i \in DOMAIN IndexOf(running.prog) /\ Entry(i) = addr
      /\ Found(i) = IndexOf(running.prog)[i]
  BY <1>1 DEF Found
<1>6. PICK d \in Concrete(running.prog) :
         /\ IndexOf(running.prog)[i] = FuncInfo(d) /\ d.low \in Nat /\ d.high \in Nat
  BY <1>1, <1>5, IndexSays
<1>7. Found(i).address = d.low
  BY <1>5, <1>6, FuncInfoOf
<1>8. d.low + running.slide = addr /\ die.low \in Nat
  BY <1>1, <1>5, <1>7, ConcreteTyped DEF Entry
<1>9. d.low = die.low
  BY <1>1, <1>6, <1>8
<1>10. Attributed(addr) = FuncInfo(d)
  BY <1>4, <1>5, <1>6 DEF Attributed
<1>. QED BY <1>9, <1>10

\* An event that is read while nothing is stale shows the call.
LEMMA EventShows ==
    ASSUME TypeOK, SlideInv, ~spoilt,
           NEW die \in Concrete(running.prog), NEW list \in ArgLists, Event(die, list)
    PROVE  LET declared == Len(Declared(die.params))
           IN  /\ shown'.die = die /\ shown'.list = list
               /\ \E d \in Concrete(running.prog) :
                     d.low = die.low /\ DieName(d) = shown'.name
               /\ Alone(die) =>
                     /\ Len(shown'.params) = declared
                     /\ OnlyThis(die) =>
                           \A k \in 1 .. declared :
                              ShowsArgument(shown'.params, die, list, k)
<1> DEFINE own == Declared(die.params)
<1>1. finder = running.prog /\ aslr_slide = running.slide
  BY UsedIsRunning DEF Event
<1>2. PICK d \in Concrete(running.prog) :
         d.low = die.low /\ Attributed(die.low + running.slide) = FuncInfo(d)
  BY <1>1, AttributedOwn DEF Event
<1>3. /\ shown' = [kind |-> "watch", die |-> die, list |-> list, name |-> FuncInfo(d).name,
                   params |-> ParamsOf(FuncInfo(d), die, list)]
      /\ Call(die, list)
  <2>1. die \in Die
    BY ConcreteTyped DEF TypeOK
  <2>. QED BY <1>2, <2>1 DEF Event, Call, ParamsOf
<1>4. shown'.die = die /\ shown'.list = list /\ shown'.name = DieName(d)
      /\ shown'.params = ParamsOf(FuncInfo(d), die, list)
  BY <1>3 DEF FuncInfo
<1>5. ASSUME Alone(die)
      PROVE  shown'.params = ParamsOf(FuncInfo(die), die, list)
  BY <1>2, <1>4, <1>5 DEF Alone
<1>6. Len(ParamsOf(FuncInfo(die), die, list)) = Len(own)
  <2>1. Len(own) \in Nat
    <3> DEFINE D == {i \in 1 .. Len(die.params) : ~die.params[i].artificial}
    <3>1. Len(die.params) \in Nat /\ D \in SUBSET (1 .. Len(die.params))
      BY <1>3 DEF Call, Die
    <3>. HIDE DEF D
    <3>2. Len(At(die.params, D)) = Cardinality(D) /\ Cardinality(D) \in Nat
      BY <3>1, PlacesTyped
    <3>. QED BY <3>2 DEF Declared, D
  <2>2. Len(FuncInfo(die).param_types) = Len(own)
    <3>1. FuncInfo(die).param_types =
             [i \in 1 .. Len(own) |-> resolve_type_name(own[i].type)]
      BY DEF FuncInfo
    <3>. HIDE DEF own
    <3>. QED BY <2>1, <3>1
  <2>. HIDE DEF own
  <2>. QED BY <2>1, <2>2 DEF ParamsOf, format_params
<1>7. ASSUME Alone(die), OnlyThis(die), NEW k \in 1 .. Len(own)
      PROVE  ShowsArgument(shown'.params, die, list, k)
  <2>1. ShowsArgument(ParamsOf(FuncInfo(die), die, list), die, list, k)
    BY <1>3, <1>7, ParamsAre
  <2>. QED BY <1>5, <1>7, <2>1
<1>. QED BY <1>2, <1>4, <1>5, <1>6, <1>7

\* An event shows the call: its function's name, and the arguments it was made with,
\* for every program, type, list of arguments and number of parameters.
THEOREM ParamsCorrect == Spec => []ParamsFaithful
<1>1. Init => ParamsFaithful
  <2>1. Init => shown.kind # "watch"
    BY DEF Init, Blank
  <2>. QED BY <2>1 DEF ParamsFaithful
<1>2. ASSUME TypeOK, SlideInv, ParamsFaithful, [Next]_vars
      PROVE  ParamsFaithful'
  <2>1. CASE shown'.kind \in {"nothing", "error"}
    BY <2>1 DEF ParamsFaithful
  <2>2. CASE shown' = shown /\ running' = running /\ spoilt' = spoilt
    BY <1>2, <2>2 DEF ParamsFaithful, Alone
  <2>3. ASSUME NEW chain, NEW b, Sample(chain, b)
        PROVE  ParamsFaithful'
    BY <2>3 DEF Sample, ParamsFaithful
  <2>4. ASSUME running' = running, spoilt' = spoilt,
               NEW die \in Concrete(running.prog), NEW list \in ArgLists,
               Event(die, list)
        PROVE  ParamsFaithful'
    <3> SUFFICES ASSUME ~spoilt PROVE ParamsFaithful'
      BY <2>4 DEF ParamsFaithful
    <3>1. Alone(die)' <=> Alone(die)
      BY <2>4 DEF Alone
    <3>. QED BY <1>2, <2>4, <3>1, EventShows DEF ParamsFaithful
  <2>. QED BY <1>2, <2>1, <2>2, <2>3, <2>4, ShownStays
<1>. QED BY <1>1, <1>2, SlideInvariant, PTL DEF Spec

--------------------------------------------------------------------------------
(* The probes of the eBPF path *)

\* The program's functions lie in segments whose link address is their offset in
\* the file, as that of the text is where a linker leaves it at that.
OffsetsAreAddresses(prog) ==
    \A d \in Concrete(prog) :
       /\ \E g \in ToSet(Image[prog].segments) :
             d.low \in g.offset .. g.offset + g.size - 1
       /\ \A g \in ToSet(Image[prog].segments) :
             d.low \in g.offset .. g.offset + g.size - 1 => g.vaddr = g.offset

LEMMA SegmentsTyped ==
    ASSUME NEW prog \in Programs, NEW g \in ToSet(Image[prog].segments)
    PROVE  g.offset \in Nat /\ g.vaddr \in Nat
<1>1. PICK segs : segs = Image[prog].segments
  OBVIOUS
<1>2. PICK Segment : Segment = [offset : Nat, vaddr : Nat, size : Nat]
  OBVIOUS
<1>3. segs \in Seq(Segment)
  BY <1>1, <1>2, InspectionAssumption
<1>4. PICK k \in 1 .. Len(segs) : g = segs[k]
  BY <1>1, <1>3 DEF ToSet
<1>5. segs[k] \in Segment
  BY <1>3, <1>4
<1>. QED BY <1>2, <1>4, <1>5

\* Wherever the program was linked so, the offset that watch_checked() passes is the
\* function's: the uprobes are put where the functions begin.  This is the condition
\* under which docs/architecture.md is right.
THEOREM ProbesWhereLinked ==
    Spec => [](OffsetsAreAddresses(running.prog) => ProbesOwn)
<1>1. ASSUME TypeOK, SlideInv, OffsetsAreAddresses(running.prog), place = "armed", ~spoilt
      PROVE  Probes = Entries
  <2> DEFINE segments == ToSet(Image[running.prog].segments)
             of(a) == {a - g.offset + g.vaddr + running.slide : g \in
                         {h \in segments : a \in h.offset .. h.offset + h.size - 1}}
  <2>1. finder = running.prog /\ aslr_slide = running.slide
    BY <1>1, UsedIsRunning
  <2>2. finder \in Programs /\ targets \subseteq DOMAIN IndexOf(finder)
    BY <1>1, UsedIsIndexed
  <2>3. ASSUME NEW g \in segments
        PROVE  g.offset \in Nat /\ g.vaddr \in Nat
    BY <2>1, <2>2, <2>3, SegmentsTyped
  <2>4. running.slide \in Nat
    BY <1>1 DEF TypeOK
  <2>5. ASSUME NEW i \in targets
        PROVE  of(Found(i).address) = {Entry(i)}
    <3>1. PICK d \in Concrete(running.prog) : d.low = Found(i).address /\ d.low \in Nat
      BY <2>1, <2>2, IndexedAreConcrete DEF Found
    <3>2. ASSUME NEW g \in segments, d.low \in g.offset .. g.offset + g.size - 1
          PROVE  d.low - g.offset + g.vaddr + running.slide = d.low + running.slide
      <4>1. g.vaddr = g.offset
        BY <1>1, <3>2 DEF OffsetsAreAddresses
      <4>. QED BY <2>3, <2>4, <3>1, <4>1
    <3>3. PICK g \in segments : d.low \in g.offset .. g.offset + g.size - 1
      BY <1>1 DEF OffsetsAreAddresses
    <3>4. of(d.low) = {d.low + running.slide}
      <4>. HIDE DEF segments
      <4>. QED BY <3>2, <3>3
    <3>. QED BY <2>1, <3>1, <3>4 DEF Entry
  <2>6. Probes = UNION {of(Found(i).address) : i \in targets}
    BY DEF Probes
  <2>. HIDE DEF of
  <2>. QED BY <2>5, <2>6 DEF Entries
<1>2. TypeOK /\ SlideInv => (OffsetsAreAddresses(running.prog) => ProbesOwn)
  BY <1>1 DEF ProbesOwn
<1>. QED BY <1>2, SlideInvariant, PTL

================================================================================
