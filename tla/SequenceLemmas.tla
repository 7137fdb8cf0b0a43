--------------------------- MODULE SequenceLemmas ---------------------------
(***************************************************************************)
(* Facts about numbers, about the operators of SequencesExt and Folds that *)
(* the models use, and about block maps, for the proofs of several modules.*)
(***************************************************************************)
EXTENDS Disposition, SequenceTheorems, WellFoundedInduction, TLAPS

(* Every non-empty set of natural numbers has a least element.             *)
LEMMA LeastNumber ==
  ASSUME NEW T, T \subseteq Nat, T # {}
  PROVE  \E x \in T : \A y \in T : x <= y
<1> DEFINE R == { ss \in Nat \X Nat : ss[1] < ss[2] }
<1>1. IsWellFoundedOn(R, Nat)
  BY NatLessThanWellFounded DEF OpToRel
<1>2. \A a, b \in Nat : a < b => <<a, b>> \in R
  OBVIOUS
<1> HIDE DEF R
<1>3. PICK x \in T : \A y \in T : ~(<<y, x>> \in R)
  BY <1>1, WFMin
<1>4. \A y \in T : ~(y < x)
  BY <1>2, <1>3
<1>5. \A y \in T : x <= y
  BY <1>4
<1> QED BY <1>5

(* And a greatest one, if it is bounded.                                   *)
LEMMA GreatestNumber ==
  ASSUME NEW T, NEW m \in Nat, T \subseteq 0 .. m, T # {}
  PROVE  \E x \in T : \A y \in T : y <= x
<1> DEFINE U == { m - t : t \in T }
<1>1. U \subseteq Nat
  OBVIOUS
<1>2. PICK t \in T : TRUE
  OBVIOUS
<1>3. m - t \in U
  OBVIOUS
<1>4. PICK u \in U : \A y \in U : u <= y
  BY <1>1, <1>3, LeastNumber
<1>5. PICK x \in T : u = m - x
  BY <1>4
<1>6. \A y \in T : m - y \in U
  OBVIOUS
<1>7. \A y \in T : m - x <= m - y
  BY <1>4, <1>5, <1>6
<1>8. x \in Int /\ \A y \in T : y \in Int
  OBVIOUS
<1>9. \A y \in T : y <= x
  BY <1>7, <1>8
<1> QED BY <1>9

(* Max is an element, and no element is greater.                           *)
LEMMA MaxOfSet ==
  ASSUME NEW m \in Nat, NEW T, T \subseteq 1 .. m, T # {}
  PROVE  Max(T) \in T /\ \A y \in T : y <= Max(T)
<1>1. T \subseteq 0 .. m
  OBVIOUS
<1>2. PICK x \in T : \A y \in T : y <= x
  BY <1>1, GreatestNumber
<1>3. \A y \in T : x >= y
  BY <1>2
<1>4. Max(T) \in T /\ \A y \in T : Max(T) >= y
  BY <1>3 DEF Max
<1> QED BY <1>4

(* The equation of a fold over a sequence of n elements: step[i] is what   *)
(* the i-th element does.                                                  *)
FoldEquation(g, n, base, step) ==
  \A s \in SUBSET (1 .. n) :
     g[s] = IF s = {} THEN base ELSE step[Max(s)][g[s \ {Max(s)}]]

(* It has a solution.                                                      *)
LEMMA FoldExists ==
  ASSUME NEW n \in Nat, NEW A, NEW base \in A, NEW step \in [1 .. n -> [A -> A]]
  PROVE  \E g \in [SUBSET (1 .. n) -> A] : FoldEquation(g, n, base, step)
<1> USE DEF FoldEquation
<1> DEFINE Eq(g, m) == FoldEquation(g, m, base, step)
           Bad == { m \in 0 .. n : ~\E g \in [SUBSET (1 .. m) -> A] : Eq(g, m) }
<1>1. SUFFICES ASSUME Bad # {} PROVE FALSE
  <2>1. n \in 0 .. n
    OBVIOUS
  <2>2. Bad = {} => \E g \in [SUBSET (1 .. n) -> A] : Eq(g, n)
    BY <2>1
  <2> QED BY <2>2
<1>2. PICK m \in Bad : \A k \in Bad : m <= k
  <2>1. Bad \subseteq Nat
    OBVIOUS
  <2> HIDE DEF Bad
  <2> QED BY <1>1, <2>1, LeastNumber
<1>3. m # 0
  <2> SUFFICES ASSUME m = 0 PROVE FALSE
    OBVIOUS
  <2> DEFINE g == [s \in SUBSET (1 .. 0) |-> base]
  <2>1. g \in [SUBSET (1 .. m) -> A]
    OBVIOUS
  <2>2. \A s \in SUBSET (1 .. m) : s = {}
    OBVIOUS
  <2>3. Eq(g, m)
    BY <2>2
  <2> QED BY <1>2, <2>1, <2>3
<1>4. m \in Nat /\ m \in 1 .. n /\ m - 1 \in 0 .. n /\ m - 1 \notin Bad
  <2>1. m \in 0 .. n
    OBVIOUS
  <2> HIDE DEF Bad
  <2>2. m - 1 \in Int /\ ~(m <= m - 1)
    BY <2>1
  <2> QED BY <1>2, <1>3, <2>1, <2>2
<1>5. PICK h \in [SUBSET (1 .. (m - 1)) -> A] : Eq(h, m - 1)
  BY <1>4
<1> DEFINE g == [s \in SUBSET (1 .. m) |-> IF m \in s THEN step[m][h[s \ {m}]] ELSE h[s]]
<1>6. ASSUME NEW s \in SUBSET (1 .. m), m \notin s
      PROVE  s \in SUBSET (1 .. (m - 1))
  BY <1>4, <1>6
<1>7. g \in [SUBSET (1 .. m) -> A]
  <2> SUFFICES ASSUME NEW s \in SUBSET (1 .. m) PROVE g[s] \in A
    OBVIOUS
  <2>1. CASE m \in s
    <3>1. s \ {m} \in SUBSET (1 .. (m - 1))
      BY <1>6
    <3> QED BY <1>4, <1>5, <2>1, <3>1
  <2>2. CASE m \notin s
    BY <1>5, <1>6, <2>2
  <2> QED BY <2>1, <2>2
<1>8. Eq(g, m)
  <2> SUFFICES ASSUME NEW s \in SUBSET (1 .. m)
               PROVE  g[s] = IF s = {} THEN base ELSE step[Max(s)][g[s \ {Max(s)}]]
    OBVIOUS
  <2>1. CASE m \in s
    <3>1. Max(s) \in s /\ m <= Max(s)
      <4>1. s \subseteq 1 .. m /\ s # {} /\ m \in Nat
        BY <1>4, <2>1
      <4> HIDE DEF Bad, g
      <4> QED BY <2>1, <4>1, MaxOfSet
    <3>2. Max(s) = m
      <4>1. Max(s) \in 1 .. m
        BY <3>1
      <4> QED BY <1>4, <3>1, <4>1
    <3>3. s \ {m} \in SUBSET (1 .. (m - 1)) /\ s \ {m} \in SUBSET (1 .. m)
      BY <1>6
    <3>4. g[s \ {m}] = h[s \ {m}] /\ g[s] = step[m][h[s \ {m}]]
      BY <2>1, <3>3
    <3> QED BY <2>1, <3>2, <3>4
  <2>2. CASE m \notin s
    <3>1. s \in SUBSET (1 .. (m - 1)) /\ g[s] = h[s]
      BY <1>6, <2>2
    <3>2. h[s] = IF s = {} THEN base ELSE step[Max(s)][h[s \ {Max(s)}]]
      BY <1>5, <3>1
    <3>3. g[s \ {Max(s)}] = h[s \ {Max(s)}]
      BY <2>2, <3>1
    <3> QED BY <3>1, <3>2, <3>3
  <2> QED BY <2>1, <2>2
<1> QED BY <1>2, <1>7, <1>8

(* The equation, as long as the values are in a set A.                     *)
FoldWithin(g, n, A, base, step) ==
  /\ g[{}] = base
  /\ \A s \in SUBSET (1 .. n) :
        s # {} /\ g[s \ {Max(s)}] \in A => g[s] = step[Max(s)][g[s \ {Max(s)}]]

(* The values at the beginnings of the sequence.                           *)
StepByStep(h, n, base, step, result) ==
  /\ h[0] = base
  /\ \A k \in 1 .. n : h[k] = step[k][h[k - 1]]
  /\ h[n] = result

(* A solution is reached one step after the other.                         *)
LEMMA FoldSteps ==
  ASSUME NEW n \in Nat, NEW A, NEW base \in A, NEW step \in [1 .. n -> [A -> A]], NEW g,
         FoldWithin(g, n, A, base, step)
  PROVE  \E h \in [0 .. n -> A] : StepByStep(h, n, base, step, g[1 .. n])
<1> USE DEF FoldWithin, StepByStep
<1> DEFINE Bad == { k \in 0 .. n : g[1 .. k] \notin A }
<1>1. ASSUME NEW k \in 1 .. n, g[1 .. (k - 1)] \in A
      PROVE  g[1 .. k] = step[k][g[1 .. (k - 1)]] /\ g[1 .. k] \in A
  <2>0. k \in Nat /\ k \in 1 .. k /\ \A i \in 1 .. k : i \in 1 .. n
    OBVIOUS
  <2>1. 1 .. k \in SUBSET (1 .. n) /\ 1 .. k # {}
    BY <2>0
  <2>2. Max(1 .. k) \in 1 .. k /\ k <= Max(1 .. k)
    BY <2>0, <2>1, MaxOfSet
  <2>3. Max(1 .. k) = k
    BY <2>0, <2>2
  <2>4. (1 .. k) \ {k} = 1 .. (k - 1)
    BY <2>0
  <2>5. g[1 .. k] = step[k][g[1 .. (k - 1)]]
    BY <1>1, <2>1, <2>3, <2>4
  <2>6. step[k][g[1 .. (k - 1)]] \in A
    BY <1>1
  <2> QED BY <2>5, <2>6
<1>2. g[1 .. 0] = base
  <2>1. 1 .. 0 = {}
    OBVIOUS
  <2> QED BY <2>1
<1>3. Bad = {}
  <2> SUFFICES ASSUME Bad # {} PROVE FALSE
    OBVIOUS
  <2>1. Bad \subseteq Nat
    OBVIOUS
  <2>2. PICK m \in Bad : \A k \in Bad : m <= k
    <3> HIDE DEF Bad
    <3> QED BY <2>1, LeastNumber
  <2>3. m \in 0 .. n /\ m # 0
    BY <1>2
  <2>4. m \in 1 .. n /\ m - 1 \in 0 .. n /\ ~(m <= m - 1)
    BY <2>3
  <2>5. g[1 .. (m - 1)] \in A
    BY <2>2, <2>4
  <2> QED BY <1>1, <2>4, <2>5
<1>4. \A k \in 0 .. n : g[1 .. k] \in A
  BY <1>3
<1> DEFINE h == [k \in 0 .. n |-> g[1 .. k]]
<1>5. h \in [0 .. n -> A] /\ h[0] = base /\ g[1 .. n] = h[n]
  BY <1>2, <1>4
<1>6. ASSUME NEW k \in 1 .. n PROVE h[k] = step[k][h[k - 1]]
  <2>1. k \in 0 .. n /\ k - 1 \in 0 .. n
    OBVIOUS
  <2> QED BY <1>1, <1>4, <2>1
<1> QED BY <1>5, <1>6

(* A part of a sequence.                                                   *)
LEMMA PartOfSeq ==
  ASSUME NEW S, NEW s \in Seq(S), NEW a \in 1 .. (Len(s) + 1), NEW b \in (a - 1) .. Len(s)
  PROVE  /\ SubSeq(s, a, b) \in Seq(S)
         /\ Len(SubSeq(s, a, b)) = (b - a) + 1
         /\ \A i \in 1 .. ((b - a) + 1) : SubSeq(s, a, b)[i] = s[(a + i) - 1]
<1>1. Len(s) \in Nat /\ \A i \in 1 .. Len(s) : s[i] \in S
  BY LenProperties
<1>2. a \in Int /\ b \in Int /\ \A i \in a .. b : s[i] \in S
  BY <1>1
<1>3. /\ SubSeq(s, a, b) \in Seq(S)
      /\ Len(SubSeq(s, a, b)) = IF a <= b THEN (b - a) + 1 ELSE 0
      /\ \A i \in 1 .. ((b - a) + 1) : SubSeq(s, a, b)[i] = s[(a + i) - 1]
  BY <1>2, SubSeqProperties
<1>4. Len(SubSeq(s, a, b)) = (b - a) + 1
  BY <1>1, <1>3
<1> QED BY <1>3, <1>4

(* t is b with e at place k.                                               *)
Inserted(t, b, k, e) ==
  /\ DOMAIN t = 1 .. (Len(b) + 1)
  /\ \A i \in 1 .. (Len(b) + 1) :
        t[i] = IF i < k THEN b[i] ELSE IF i = k THEN e ELSE b[i - 1]

(* InsertAt puts e at place k and moves the rest by one.                   *)
LEMMA InsertAtProperties ==
  ASSUME NEW S, NEW s \in Seq(S), NEW e \in S, NEW k \in 1 .. (Len(s) + 1)
  PROVE  /\ InsertAt(s, k, e) \in Seq(S)
         /\ DOMAIN InsertAt(s, k, e) = 1 .. (Len(s) + 1)
         /\ Len(InsertAt(s, k, e)) = Len(s) + 1
         /\ \A i \in 1 .. (Len(s) + 1) :
               InsertAt(s, k, e)[i] = IF i < k THEN s[i] ELSE IF i = k THEN e ELSE s[i - 1]
<1> DEFINE n == Len(s)
           u == SubSeq(s, 1, k - 1)
           w == SubSeq(s, k, n)
           v == u \o <<e>>
<1>1. n \in Nat /\ k \in Int
  BY LenProperties
<1>2. u \in Seq(S) /\ Len(u) = k - 1 /\ \A i \in 1 .. (k - 1) : u[i] = s[i]
  <2>1. 1 \in 1 .. (Len(s) + 1) /\ k - 1 \in (1 - 1) .. Len(s)
    BY <1>1
  <2>2. /\ u \in Seq(S) /\ Len(u) = ((k - 1) - 1) + 1
        /\ \A i \in 1 .. (((k - 1) - 1) + 1) : u[i] = s[(1 + i) - 1]
    BY <2>1, PartOfSeq
  <2>3. ((k - 1) - 1) + 1 = k - 1 /\ \A i \in 1 .. (k - 1) : (1 + i) - 1 = i
    BY <1>1
  <2> HIDE DEF u
  <2> QED BY <2>2, <2>3
<1>3. w \in Seq(S) /\ Len(w) = (n - k) + 1 /\ \A i \in 1 .. ((n - k) + 1) : w[i] = s[(k + i) - 1]
  <2>1. k \in 1 .. (Len(s) + 1) /\ n \in (k - 1) .. Len(s)
    BY <1>1
  <2> QED BY <2>1, PartOfSeq
<1>4. <<e>> \in Seq(S) /\ Len(<<e>>) = 1 /\ <<e>>[1] = e
  OBVIOUS
<1> HIDE DEF u, w
<1>5. /\ v \in Seq(S) /\ Len(v) = k
      /\ \A i \in 1 .. k : v[i] = IF i < k THEN s[i] ELSE e
  <2>1. v \in Seq(S) /\ Len(v) = (k - 1) + 1
        /\ \A i \in 1 .. ((k - 1) + 1) : v[i] = IF i <= k - 1 THEN u[i] ELSE <<e>>[i - (k - 1)]
    BY <1>2, <1>4, ConcatProperties
  <2>2. (k - 1) + 1 = k
    BY <1>1
  <2> HIDE DEF v
  <2>3. ASSUME NEW i \in 1 .. k PROVE v[i] = IF i < k THEN s[i] ELSE e
    <3>1. CASE i < k
      <4>1. i <= k - 1 /\ i \in 1 .. (k - 1)
        BY <1>1, <3>1
      <4> QED BY <1>2, <2>1, <2>2, <3>1, <4>1
    <3>2. CASE ~(i < k)
      <4>1. i = k /\ ~(i <= k - 1) /\ i - (k - 1) = 1
        BY <1>1, <3>2
      <4> QED BY <1>4, <2>1, <2>2, <3>2, <4>1
    <3> QED BY <3>1, <3>2
  <2> QED BY <2>1, <2>2, <2>3
<1> HIDE DEF v
<1>6. /\ v \o w \in Seq(S) /\ Len(v \o w) = k + ((n - k) + 1)
      /\ \A i \in 1 .. (k + ((n - k) + 1)) : (v \o w)[i] = IF i <= k THEN v[i] ELSE w[i - k]
  BY <1>3, <1>5, ConcatProperties
<1>7. k + ((n - k) + 1) = n + 1
  BY <1>1
<1>8. ASSUME NEW i \in 1 .. (n + 1)
      PROVE  (v \o w)[i] = IF i < k THEN s[i] ELSE IF i = k THEN e ELSE s[i - 1]
  <2>1. CASE i <= k
    <3>1. i \in 1 .. k
      BY <1>1, <2>1
    <3>2. (v \o w)[i] = v[i]
      BY <1>6, <1>7, <2>1
    <3> QED BY <1>1, <1>5, <2>1, <3>1, <3>2
  <2>2. CASE ~(i <= k)
    <3>1. i - k \in 1 .. ((n - k) + 1) /\ (k + (i - k)) - 1 = i - 1 /\ ~(i < k) /\ i # k
      BY <1>1, <2>2
    <3>2. (v \o w)[i] = w[i - k]
      BY <1>6, <1>7, <2>2
    <3>3. w[i - k] = s[i - 1]
      BY <1>3, <3>1
    <3> QED BY <3>1, <3>2, <3>3
  <2> QED BY <2>1, <2>2
<1>9. InsertAt(s, k, e) = v \o w
  BY DEF InsertAt, u, v, w
<1>10. DOMAIN (v \o w) = 1 .. (n + 1)
  BY <1>6, <1>7, LenProperties
<1> QED BY <1>6, <1>7, <1>8, <1>9, <1>10

(* RemoveAt takes out the element at place k and moves the rest by one.    *)
LEMMA RemoveAtProperties ==
  ASSUME NEW S, NEW s \in Seq(S), NEW k \in 1 .. Len(s)
  PROVE  /\ RemoveAt(s, k) \in Seq(S)
         /\ DOMAIN RemoveAt(s, k) = 1 .. (Len(s) - 1)
         /\ Len(RemoveAt(s, k)) = Len(s) - 1
         /\ \A i \in 1 .. (Len(s) - 1) : RemoveAt(s, k)[i] = IF i < k THEN s[i] ELSE s[i + 1]
<1> DEFINE n == Len(s)
           u == SubSeq(s, 1, k - 1)
           w == SubSeq(s, k + 1, n)
<1>1. n \in Nat /\ k \in Int
  BY LenProperties
<1>2. u \in Seq(S) /\ Len(u) = k - 1 /\ \A i \in 1 .. (k - 1) : u[i] = s[i]
  <2>1. 1 \in 1 .. (Len(s) + 1) /\ k - 1 \in (1 - 1) .. Len(s)
    BY <1>1
  <2>2. /\ u \in Seq(S) /\ Len(u) = ((k - 1) - 1) + 1
        /\ \A i \in 1 .. (((k - 1) - 1) + 1) : u[i] = s[(1 + i) - 1]
    BY <2>1, PartOfSeq
  <2>3. ((k - 1) - 1) + 1 = k - 1 /\ \A i \in 1 .. (k - 1) : (1 + i) - 1 = i
    BY <1>1
  <2> HIDE DEF u
  <2> QED BY <2>2, <2>3
<1>3. w \in Seq(S) /\ Len(w) = n - k /\ \A i \in 1 .. (n - k) : w[i] = s[k + i]
  <2>1. k + 1 \in 1 .. (Len(s) + 1) /\ n \in ((k + 1) - 1) .. Len(s)
    BY <1>1
  <2>2. /\ w \in Seq(S) /\ Len(w) = (n - (k + 1)) + 1
        /\ \A i \in 1 .. ((n - (k + 1)) + 1) : w[i] = s[((k + 1) + i) - 1]
    BY <2>1, PartOfSeq
  <2>3. (n - (k + 1)) + 1 = n - k /\ \A i \in 1 .. (n - k) : ((k + 1) + i) - 1 = k + i
    BY <1>1
  <2> HIDE DEF w
  <2> QED BY <2>2, <2>3
<1> HIDE DEF u, w
<1>4. /\ u \o w \in Seq(S) /\ Len(u \o w) = (k - 1) + (n - k)
      /\ \A i \in 1 .. ((k - 1) + (n - k)) :
            (u \o w)[i] = IF i <= k - 1 THEN u[i] ELSE w[i - (k - 1)]
  <2>1. u \in Seq(S) /\ w \in Seq(S)
    BY <1>2, <1>3
  <2>2. /\ u \o w \in Seq(S) /\ Len(u \o w) = Len(u) + Len(w)
        /\ \A i \in 1 .. (Len(u) + Len(w)) :
              (u \o w)[i] = IF i <= Len(u) THEN u[i] ELSE w[i - Len(u)]
    BY <2>1, ConcatProperties
  <2>3. Len(u) = k - 1 /\ Len(w) = n - k
    BY <1>2, <1>3
  <2> QED BY <2>2, <2>3
<1>5. (k - 1) + (n - k) = n - 1
  BY <1>1
<1>6. ASSUME NEW i \in 1 .. (n - 1) PROVE (u \o w)[i] = IF i < k THEN s[i] ELSE s[i + 1]
  <2>1. CASE i < k
    <3>1. i <= k - 1 /\ i \in 1 .. (k - 1)
      BY <1>1, <2>1
    <3> QED BY <1>2, <1>4, <1>5, <2>1, <3>1
  <2>2. CASE ~(i < k)
    <3>1. ~(i <= k - 1) /\ i - (k - 1) \in 1 .. (n - k) /\ k + (i - (k - 1)) = i + 1
      BY <1>1, <2>2
    <3>2. (u \o w)[i] = w[i - (k - 1)]
      BY <1>4, <1>5, <3>1
    <3>3. w[i - (k - 1)] = s[i + 1]
      BY <1>3, <3>1
    <3> QED BY <2>2, <3>2, <3>3
  <2> QED BY <2>1, <2>2
<1>7. RemoveAt(s, k) = u \o w
  BY DEF RemoveAt, u, w
<1>8. DOMAIN (u \o w) = 1 .. (n - 1)
  BY <1>4, <1>5, LenProperties
<1> QED BY <1>4, <1>5, <1>6, <1>7, <1>8

-----------------------------------------------------------------------------
(* Block maps: what RetrievalPointers, Dump and Order make of a file's     *)
(* clusters.                                                               *)
Block == [lcn : Nat, length : Nat \ {0}]

(* What RetrievalPointers does with one more cluster.                      *)
ExtendedBy(runs, c) ==
  IF runs # <<>> /\ Last(runs).lcn + Last(runs).length = c
  THEN [runs EXCEPT ![Len(runs)].length = @ + 1]
  ELSE Append(runs, [lcn |-> c, length |-> 1])

(* The clusters of a list of blocks.                                       *)
CellsOf(runs) == UNION { runs[i].lcn .. (runs[i].lcn + runs[i].length - 1) : i \in DOMAIN runs }

(* One more cluster makes the last block longer or a new one.              *)
LEMMA ExtendBlocks ==
  ASSUME NEW runs \in Seq(Block), NEW c \in Nat
  PROVE  /\ ExtendedBy(runs, c) \in Seq(Block)
         /\ ExtendedBy(runs, c) # <<>>
         /\ CellsOf(ExtendedBy(runs, c)) = CellsOf(runs) \cup {c}
<1> DEFINE n == Len(runs)
<1>1. n \in Nat /\ DOMAIN runs = 1 .. n /\ \A i \in 1 .. n : runs[i] \in Block
  BY LenProperties
<1>2. CASE runs # <<>> /\ Last(runs).lcn + Last(runs).length = c
  <2> DEFINE e == [runs[n] EXCEPT !.length = @ + 1]
             t == [runs EXCEPT ![n] = e]
  <2>1. n \in 1 .. n /\ runs[n] \in Block /\ runs[n].lcn + runs[n].length = c
    <3>1. n # 0
      BY <1>2, EmptySeq
    <3> QED BY <1>1, <1>2, <3>1 DEF Last
  <2>2. ExtendedBy(runs, c) = t
    BY <1>2 DEF ExtendedBy
  <2>3. e \in Block /\ e.lcn = runs[n].lcn /\ e.length = runs[n].length + 1
    BY <2>1 DEF Block
  <2> HIDE DEF e
  <2>4. /\ t \in Seq(Block) /\ Len(t) = n /\ DOMAIN t = 1 .. n
        /\ \A j \in 1 .. n : t[j] = IF j = n THEN e ELSE runs[j]
    <3>1. /\ t \in Seq(Block) /\ Len(t) = n
          /\ \A j \in 1 .. n : t[j] = IF j = n THEN e ELSE runs[j]
      BY <2>1, <2>3, ExceptSeq
    <3> QED BY <1>1, <3>1
  <2> HIDE DEF t
  <2>5. e.lcn .. (e.lcn + e.length - 1)
          = (runs[n].lcn .. (runs[n].lcn + runs[n].length - 1)) \cup {c}
    <3>1. runs[n].lcn \in Nat /\ runs[n].length \in Nat \ {0}
      BY <2>1 DEF Block
    <3> QED BY <2>1, <2>3, <3>1
  <2>6. CellsOf(t) = CellsOf(runs) \cup {c}
    <3>1. ASSUME NEW x \in CellsOf(t) PROVE x \in CellsOf(runs) \cup {c}
      <4>1. PICK j \in 1 .. n : x \in t[j].lcn .. (t[j].lcn + t[j].length - 1)
        BY <2>4, <3>1 DEF CellsOf
      <4>2. CASE j = n
        BY <1>1, <2>1, <2>4, <2>5, <4>1, <4>2 DEF CellsOf
      <4>3. CASE j # n
        BY <1>1, <2>4, <4>1, <4>3 DEF CellsOf
      <4> QED BY <4>2, <4>3
    <3>2. ASSUME NEW x \in CellsOf(runs) PROVE x \in CellsOf(t)
      <4>1. PICK j \in 1 .. n : x \in runs[j].lcn .. (runs[j].lcn + runs[j].length - 1)
        BY <1>1, <3>2 DEF CellsOf
      <4>2. CASE j = n
        BY <2>1, <2>4, <2>5, <4>1, <4>2 DEF CellsOf
      <4>3. CASE j # n
        BY <2>4, <4>1, <4>3 DEF CellsOf
      <4> QED BY <4>2, <4>3
    <3>3. c \in CellsOf(t)
      BY <2>1, <2>4, <2>5 DEF CellsOf
    <3> QED BY <3>1, <3>2, <3>3
  <2>7. t # <<>>
    <3>1. n \in DOMAIN t
      BY <2>1, <2>4
    <3>2. DOMAIN <<>> = {}
      OBVIOUS
    <3> QED BY <3>1
  <2> QED BY <2>2, <2>4, <2>6, <2>7
<1>3. CASE ~(runs # <<>> /\ Last(runs).lcn + Last(runs).length = c)
  <2> DEFINE e == [lcn |-> c, length |-> 1]
             t == Append(runs, e)
  <2>1. ExtendedBy(runs, c) = t
    BY <1>3 DEF ExtendedBy
  <2>2. e \in Block /\ e.lcn .. (e.lcn + e.length - 1) = {c}
    BY DEF Block
  <2> HIDE DEF e
  <2>3. /\ t \in Seq(Block) /\ DOMAIN t = 1 .. (n + 1)
        /\ \A j \in 1 .. n : t[j] = runs[j]
        /\ t[n + 1] = e
    BY <2>2, AppendProperties, LenProperties
  <2> HIDE DEF t
  <2>4. DOMAIN t = DOMAIN runs \cup {n + 1} /\ n + 1 \in DOMAIN t
    BY <1>1, <2>3
  <2>5. CellsOf(t) = CellsOf(runs) \cup {c}
    BY <1>1, <2>2, <2>3, <2>4 DEF CellsOf
  <2>6. t # <<>>
    <3>1. DOMAIN t # {} /\ DOMAIN <<>> = {}
      BY <2>4
    <3> QED BY <3>1
  <2> QED BY <2>1, <2>3, <2>5, <2>6
<1> QED BY <1>2, <1>3

(* RetrievalPointers takes the clusters one after the other.               *)
LEMMA RetrievalSteps ==
  ASSUME NEW c \in Seq(Nat)
  PROVE  \E h \in [0 .. Len(c) -> Seq(Block)] :
            /\ h[0] = <<>>
            /\ \A k \in 1 .. Len(c) : h[k] = ExtendedBy(h[k - 1], c[k])
            /\ RetrievalPointers(c) = h[Len(c)]
<1> DEFINE n == Len(c)
           A == Seq(Block)
           base == <<>>
           step == [i \in 1 .. n |-> [b \in A |-> ExtendedBy(b, c[i])]]
           Sol(it) == [s \in SUBSET (1 .. n) |->
                         IF s = {} THEN base ELSE ExtendedBy(it[s \ {Max(s)}], c[Max(s)])]
           g == CHOOSE it : it = Sol(it)
<1>1. n \in Nat /\ DOMAIN c = 1 .. n /\ \A i \in 1 .. n : c[i] \in Nat
  BY LenProperties
<1>2. RetrievalPointers(c) = g[1 .. n]
  <2>1. RetrievalPointers(c) =
          (CHOOSE it : it = [s \in SUBSET DOMAIN c |->
                               IF s = {} THEN <<>>
                               ELSE ExtendedBy(it[s \ {Max(s)}], c[Max(s)])])[DOMAIN c]
    BY DEF RetrievalPointers, FoldLeft, MapThenFoldSet, ExtendedBy
  <2> QED BY <1>1, <2>1
<1>3. base \in A /\ step \in [1 .. n -> [A -> A]]
  BY <1>1, ExtendBlocks
<1>4. \A i \in 1 .. n, b \in A : step[i][b] = ExtendedBy(b, c[i])
  OBVIOUS
<1> HIDE DEF step
<1>5. \A s \in SUBSET (1 .. n) : s # {} => Max(s) \in 1 .. n
  BY <1>1, MaxOfSet
<1>6. \E it : it = Sol(it)
  <2>1. PICK h \in [SUBSET (1 .. n) -> A] : FoldEquation(h, n, base, step)
    <3>1. n \in Nat /\ base \in A /\ step \in [1 .. n -> [A -> A]]
      BY <1>1, <1>3
    <3> HIDE DEF n, A, base
    <3> QED BY <3>1, FoldExists
  <2>2. ASSUME NEW s \in SUBSET (1 .. n)
        PROVE  h[s] = IF s = {} THEN base ELSE ExtendedBy(h[s \ {Max(s)}], c[Max(s)])
    <3>1. CASE s = {}
      BY <2>1, <3>1 DEF FoldEquation
    <3>2. CASE s # {}
      <4>1. s \ {Max(s)} \in SUBSET (1 .. n) /\ h[s \ {Max(s)}] \in A
        BY <2>1
      <4> QED BY <1>4, <1>5, <2>1, <3>2, <4>1 DEF FoldEquation
    <3> QED BY <3>1, <3>2
  <2>3. h = Sol(h)
    BY <2>1, <2>2
  <2> QED BY <2>3
<1>7. g = Sol(g)
  <2> HIDE DEF Sol
  <2> QED BY <1>6
<1> HIDE DEF g
<1>8. FoldWithin(g, n, A, base, step)
  <2>1. g[{}] = base
    BY <1>7
  <2>2. ASSUME NEW s \in SUBSET (1 .. n), s # {}, g[s \ {Max(s)}] \in A
        PROVE  g[s] = step[Max(s)][g[s \ {Max(s)}]]
    <3>1. g[s] = ExtendedBy(g[s \ {Max(s)}], c[Max(s)])
      BY <1>7, <2>2
    <3> QED BY <1>4, <1>5, <2>2, <3>1
  <2> QED BY <2>1, <2>2 DEF FoldWithin
<1>9. PICK h \in [0 .. n -> A] : StepByStep(h, n, base, step, g[1 .. n])
  <2>1. n \in Nat /\ base \in A /\ step \in [1 .. n -> [A -> A]]
    BY <1>1, <1>3
  <2> HIDE DEF n, A, base
  <2> QED BY <1>8, <2>1, FoldSteps
<1>10. /\ h[0] = <<>> /\ h[n] = g[1 .. n]
       /\ \A k \in 1 .. n : h[k] = step[k][h[k - 1]]
  BY <1>9 DEF StepByStep
<1>11. \A k \in 1 .. n : k - 1 \in 0 .. n
  BY <1>1
<1>12. \A k \in 1 .. n : h[k] = ExtendedBy(h[k - 1], c[k])
  BY <1>4, <1>10, <1>11
<1> QED BY <1>2, <1>10, <1>12

(* The blocks of a file have exactly the file's clusters.                  *)
LEMMA RetrievalPointersExact ==
  ASSUME NEW c \in Seq(Nat)
  PROVE  /\ RetrievalPointers(c) \in Seq(Block)
         /\ c # <<>> => RetrievalPointers(c) # <<>>
         /\ CellsOf(RetrievalPointers(c)) = ToSet(c)
<1> DEFINE n == Len(c)
<1>1. n \in Nat /\ DOMAIN c = 1 .. n /\ \A i \in 1 .. n : c[i] \in Nat
  BY LenProperties
<1>2. PICK h \in [0 .. n -> Seq(Block)] :
         /\ h[0] = <<>>
         /\ \A k \in 1 .. n : h[k] = ExtendedBy(h[k - 1], c[k])
         /\ RetrievalPointers(c) = h[n]
  BY RetrievalSteps
<1> DEFINE Bad == { k \in 0 .. n : ~(/\ k > 0 => h[k] # <<>>
                                    /\ CellsOf(h[k]) = { c[i] : i \in 1 .. k }) }
<1>11. Bad = {}
  <2> SUFFICES ASSUME Bad # {} PROVE FALSE
    OBVIOUS
  <2>1. Bad \subseteq Nat
    BY <1>1
  <2>2. PICK m \in Bad : \A k \in Bad : m <= k
    <3> HIDE DEF Bad
    <3> QED BY <2>1, LeastNumber
  <2>3. m \in 0 .. n
    OBVIOUS
  <2>4. m # 0
    <3>1. CellsOf(<<>>) = {}
      BY DEF CellsOf
    <3>2. { c[i] : i \in 1 .. 0 } = {}
      OBVIOUS
    <3> QED BY <1>2, <3>1, <3>2
  <2>5. m \in Int /\ m \in 1 .. n /\ m - 1 \in 0 .. n /\ ~(m <= m - 1)
    BY <1>1, <2>3, <2>4
  <2>6. m - 1 \notin Bad
    <3> HIDE DEF Bad
    <3> QED BY <2>2, <2>5
  <2>7. CellsOf(h[m - 1]) = { c[i] : i \in 1 .. (m - 1) }
    BY <2>5, <2>6
  <2>8. h[m - 1] \in Seq(Block) /\ c[m] \in Nat /\ h[m] = ExtendedBy(h[m - 1], c[m])
    BY <1>1, <1>2, <2>5
  <2>9. h[m] # <<>> /\ CellsOf(h[m]) = CellsOf(h[m - 1]) \cup {c[m]}
    BY <2>8, ExtendBlocks
  <2>10. 1 .. m = (1 .. (m - 1)) \cup {m}
    BY <2>5
  <2>11. CellsOf(h[m]) = { c[i] : i \in 1 .. m }
    BY <2>7, <2>9, <2>10
  <2> QED BY <2>9, <2>11
<1>12. n \in 0 .. n /\ (c # <<>> => n > 0)
  BY <1>1, EmptySeq
<1>13. /\ n > 0 => h[n] # <<>>
       /\ CellsOf(h[n]) = { c[i] : i \in 1 .. n }
  BY <1>11, <1>12
<1>14. h[n] \in Seq(Block) /\ RetrievalPointers(c) = h[n]
  BY <1>2, <1>12
<1>15. ToSet(c) = { c[i] : i \in 1 .. n }
  BY <1>1 DEF ToSet
<1> QED BY <1>12, <1>13, <1>14, <1>15

(* A file in one piece has one block.                                      *)
LEMMA ContiguousIsOne ==
  ASSUME NEW c \in Seq(Nat), c # <<>>, NEW t \in Nat,
         \A i \in 1 .. Len(c) : c[i] = (t + i) - 1
  PROVE  RetrievalPointers(c) = <<[lcn |-> t, length |-> Len(c)]>>
<1> DEFINE n == Len(c)
           P(k) == <<[lcn |-> t, length |-> k]>>
<1>1. n \in Nat /\ n # 0
  BY LenProperties, EmptySeq
<1>2. PICK h \in [0 .. n -> Seq(Block)] :
         /\ h[0] = <<>>
         /\ \A k \in 1 .. n : h[k] = ExtendedBy(h[k - 1], c[k])
         /\ RetrievalPointers(c) = h[n]
  BY RetrievalSteps
<1> HIDE DEF n
<1> DEFINE Bad == { k \in 1 .. n : h[k] # P(k) }
<1>3. Bad = {}
  <2> SUFFICES ASSUME Bad # {} PROVE FALSE
    OBVIOUS
  <2>1. Bad \subseteq Nat
    OBVIOUS
  <2>2. PICK m \in Bad : \A k \in Bad : m <= k
    <3> HIDE DEF Bad
    <3> QED BY <2>1, LeastNumber
  <2>3. m \in 1 .. n /\ h[m] = ExtendedBy(h[m - 1], (t + m) - 1)
    BY <1>2 DEF n
  <2>4. CASE m = 1
    <3>1. h[1] = ExtendedBy(<<>>, t)
      <4>1. 1 - 1 = 0 /\ (t + 1) - 1 = t
        OBVIOUS
      <4> QED BY <1>2, <2>3, <2>4, <4>1
    <3>2. ExtendedBy(<<>>, t) = Append(<<>>, [lcn |-> t, length |-> 1])
      BY DEF ExtendedBy
    <3>3. Append(<<>>, [lcn |-> t, length |-> 1]) = P(1)
      OBVIOUS
    <3> QED BY <2>4, <3>1, <3>2, <3>3
  <2>5. CASE m # 1
    <3>1. m - 1 \in 1 .. n /\ ~(m <= m - 1) /\ m \in Int /\ (m - 1) + 1 = m
          /\ t + (m - 1) = (t + m) - 1
      BY <1>1, <2>3, <2>5
    <3>2. h[m - 1] = P(m - 1)
      <4>1. m - 1 \notin Bad
        <5> HIDE DEF Bad
        <5> QED BY <2>2, <3>1
      <4> QED BY <3>1, <4>1
    <3> DEFINE s == P(m - 1)
               e == [lcn |-> t, length |-> m - 1]
    <3>3. s # <<>> /\ Len(s) = 1 /\ Last(s) = e /\ s = <<e>>
      BY DEF Last
    <3>4. ExtendedBy(s, (t + m) - 1) = [s EXCEPT ![1] = [e EXCEPT !.length = @ + 1]]
      <4>1. Last(s).lcn + Last(s).length = (t + m) - 1
        BY <3>1, <3>3
      <4>2. ExtendedBy(s, (t + m) - 1) = [s EXCEPT ![Len(s)].length = @ + 1]
        BY <3>3, <4>1 DEF ExtendedBy
      <4>3. [s EXCEPT ![1].length = @ + 1] = [s EXCEPT ![1] = [e EXCEPT !.length = @ + 1]]
        BY <3>3
      <4> HIDE DEF s
      <4> QED BY <3>3, <4>2, <4>3
    <3>5. [e EXCEPT !.length = @ + 1] = [lcn |-> t, length |-> m]
      BY <3>1
    <3>6. \A x, y : [<<x>> EXCEPT ![1] = y] = <<y>>
      OBVIOUS
    <3>7. h[m] = P(m)
      <4> HIDE DEF e
      <4> QED BY <2>3, <3>2, <3>3, <3>4, <3>5, <3>6
    <3> QED BY <3>7
  <2> QED BY <2>4, <2>5
<1>4. n \in 1 .. n
  BY <1>1
<1>5. h[n] = P(n)
  BY <1>3, <1>4
<1> QED BY <1>2, <1>5 DEF n

(* The clusters of the i-th block.                                         *)
CellsAt(runs, i) == runs[i].lcn .. (runs[i].lcn + runs[i].length - 1)

(* No two blocks of a list share a cluster.                                *)
BlocksApart(runs) ==
  \A i, j \in DOMAIN runs : i # j => CellsAt(runs, i) \cap CellsAt(runs, j) = {}

(* One more cluster, which no block has, leaves the blocks apart.          *)
LEMMA ExtendApart ==
  ASSUME NEW runs \in Seq(Block), NEW c \in Nat, BlocksApart(runs), c \notin CellsOf(runs)
  PROVE  BlocksApart(ExtendedBy(runs, c))
<1> DEFINE n == Len(runs)
<1>1. n \in Nat /\ DOMAIN runs = 1 .. n /\ \A i \in 1 .. n : runs[i] \in Block
  BY LenProperties
<1>2. \A i \in 1 .. n : c \notin CellsAt(runs, i)
  BY <1>1 DEF CellsOf, CellsAt
<1>3. CASE runs # <<>> /\ Last(runs).lcn + Last(runs).length = c
  <2> DEFINE e == [runs[n] EXCEPT !.length = @ + 1]
             t == [runs EXCEPT ![n] = e]
  <2>1. n \in 1 .. n /\ runs[n] \in Block /\ runs[n].lcn + runs[n].length = c
    <3>1. n # 0
      BY <1>3, EmptySeq
    <3> QED BY <1>1, <1>3, <3>1 DEF Last
  <2>2. ExtendedBy(runs, c) = t
    BY <1>3 DEF ExtendedBy
  <2>3. e.lcn = runs[n].lcn /\ e.length = runs[n].length + 1
    BY <2>1 DEF Block
  <2> HIDE DEF e
  <2>4. DOMAIN t = 1 .. n /\ t[n] = e /\ \A j \in 1 .. n : j # n => t[j] = runs[j]
    BY <1>1, <2>1
  <2> HIDE DEF t
  <2>5. CellsAt(t, n) = CellsAt(runs, n) \cup {c}
    <3>1. runs[n].lcn \in Nat /\ runs[n].length \in Nat \ {0}
      BY <2>1 DEF Block
    <3> QED BY <2>1, <2>3, <2>4, <3>1 DEF CellsAt
  <2>6. \A j \in 1 .. n : j # n => CellsAt(t, j) = CellsAt(runs, j)
    BY <2>4 DEF CellsAt
  <2> HIDE DEF n
  <2> QED BY <1>1, <1>2, <2>1, <2>2, <2>4, <2>5, <2>6 DEF BlocksApart
<1>4. CASE ~(runs # <<>> /\ Last(runs).lcn + Last(runs).length = c)
  <2> DEFINE e == [lcn |-> c, length |-> 1]
             t == Append(runs, e)
  <2>1. ExtendedBy(runs, c) = t
    BY <1>4 DEF ExtendedBy
  <2>2. e \in Block /\ e.lcn .. (e.lcn + e.length - 1) = {c}
    BY DEF Block
  <2> HIDE DEF e
  <2>3. /\ DOMAIN t = 1 .. (n + 1)
        /\ \A j \in 1 .. n : t[j] = runs[j]
        /\ t[n + 1] = e
    BY <2>2, AppendProperties, LenProperties
  <2> HIDE DEF t
  <2>4. CellsAt(t, n + 1) = {c} /\ \A j \in 1 .. n : CellsAt(t, j) = CellsAt(runs, j)
    BY <2>2, <2>3 DEF CellsAt
  <2>5. 1 .. (n + 1) = (1 .. n) \cup {n + 1}
    BY <1>1
  <2> HIDE DEF n
  <2> QED BY <1>1, <1>2, <2>1, <2>3, <2>4, <2>5 DEF BlocksApart
<1> QED BY <1>3, <1>4

(* The blocks of a file that has no cluster twice are apart.               *)
LEMMA RetrievalApart ==
  ASSUME NEW c \in Seq(Nat), IsInjective(c)
  PROVE  BlocksApart(RetrievalPointers(c))
<1> DEFINE n == Len(c)
<1>1. n \in Nat /\ DOMAIN c = 1 .. n /\ \A i \in 1 .. n : c[i] \in Nat
  BY LenProperties
<1>2. PICK h \in [0 .. n -> Seq(Block)] :
         /\ h[0] = <<>>
         /\ \A k \in 1 .. n : h[k] = ExtendedBy(h[k - 1], c[k])
         /\ RetrievalPointers(c) = h[n]
  BY RetrievalSteps
<1>3. \A i, j \in 1 .. n : c[i] = c[j] => i = j
  BY <1>1 DEF IsInjective
<1> HIDE DEF n
<1> DEFINE Bad == { k \in 0 .. n : ~(/\ BlocksApart(h[k])
                                    /\ CellsOf(h[k]) = { c[i] : i \in 1 .. k }) }
<1>4. Bad = {}
  <2> SUFFICES ASSUME Bad # {} PROVE FALSE
    OBVIOUS
  <2>1. Bad \subseteq Nat
    BY <1>1
  <2>2. PICK m \in Bad : \A k \in Bad : m <= k
    <3> HIDE DEF Bad
    <3> QED BY <2>1, LeastNumber
  <2>3. m \in 0 .. n
    OBVIOUS
  <2>4. m # 0
    <3>1. CellsOf(<<>>) = {} /\ BlocksApart(<<>>)
      BY DEF CellsOf, BlocksApart
    <3>2. { c[i] : i \in 1 .. 0 } = {}
      OBVIOUS
    <3> QED BY <1>2, <3>1, <3>2
  <2>5. m \in Int /\ m \in 1 .. n /\ m - 1 \in 0 .. n /\ ~(m <= m - 1)
    BY <1>1, <2>3, <2>4
  <2>6. m - 1 \notin Bad
    <3> HIDE DEF Bad
    <3> QED BY <2>2, <2>5
  <2>7. BlocksApart(h[m - 1]) /\ CellsOf(h[m - 1]) = { c[i] : i \in 1 .. (m - 1) }
    BY <2>5, <2>6
  <2>8. h[m - 1] \in Seq(Block) /\ c[m] \in Nat /\ h[m] = ExtendedBy(h[m - 1], c[m])
    BY <1>1, <1>2, <2>5
  <2>9. CellsOf(h[m]) = CellsOf(h[m - 1]) \cup {c[m]}
    BY <2>8, ExtendBlocks
  <2>10. 1 .. m = (1 .. (m - 1)) \cup {m} /\ \A i \in 1 .. (m - 1) : i \in 1 .. n /\ i # m
    BY <1>1, <2>5
  <2>11. CellsOf(h[m]) = { c[i] : i \in 1 .. m }
    BY <2>7, <2>9, <2>10
  <2>12. c[m] \notin CellsOf(h[m - 1])
    BY <1>3, <2>5, <2>7, <2>10
  <2>13. BlocksApart(h[m])
    BY <2>7, <2>8, <2>12, ExtendApart
  <2> QED BY <2>11, <2>13
<1>5. n \in 0 .. n
  BY <1>1
<1> QED BY <1>2, <1>4, <1>5

(* The block with the lowest LCN.                                          *)
LEMMA LowestBlock ==
  ASSUME NEW bm \in Seq(Block), bm # <<>>
  PROVE  LET first == CHOOSE i \in DOMAIN bm : \A j \in DOMAIN bm : bm[i].lcn <= bm[j].lcn
         IN  first \in 1 .. Len(bm) /\ \A j \in 1 .. Len(bm) : bm[first].lcn <= bm[j].lcn
<1> DEFINE n == Len(bm)
           T == { bm[i].lcn : i \in DOMAIN bm }
<1>1. n \in Nat /\ DOMAIN bm = 1 .. n /\ \A i \in 1 .. n : bm[i] \in Block
  BY LenProperties
<1>2. n \in DOMAIN bm /\ \A i \in DOMAIN bm : bm[i].lcn \in Nat
  BY <1>1, EmptySeq DEF Block
<1>3. T \subseteq Nat /\ T # {}
  <2> HIDE DEF n
  <2> QED BY <1>2
<1>4. PICK x \in T : \A y \in T : x <= y
  <2> HIDE DEF T
  <2> QED BY <1>3, LeastNumber
<1>5. \E i \in DOMAIN bm : \A j \in DOMAIN bm : bm[i].lcn <= bm[j].lcn
  BY <1>4
<1> QED BY <1>1, <1>5

(* The list that starts at element number first.                           *)
Turned(s, first) == SubSeq(s, first, Len(s)) \o SubSeq(s, 1, first - 1)

(* t has the elements of s, each at the place p says.                      *)
Rearranges(p, s, t) ==
  /\ DOMAIN t = 1 .. Len(s)
  /\ p \in [1 .. Len(s) -> 1 .. Len(s)]
  /\ \A i \in 1 .. Len(s) : t[i] = s[p[i]]
  /\ \A i, j \in 1 .. Len(s) : p[i] = p[j] => i = j
  /\ \A j \in 1 .. Len(s) : \E i \in 1 .. Len(s) : p[i] = j

(* A list that starts somewhere else has the same elements, each at        *)
(* another place.                                                          *)
LEMMA TurnedAround ==
  ASSUME NEW S, NEW s \in Seq(S), NEW first \in 1 .. Len(s)
  PROVE  /\ Turned(s, first) \in Seq(S)
         /\ Turned(s, first)[1] = s[first]
         /\ \E p : Rearranges(p, s, Turned(s, first))
<1> DEFINE n == Len(s)
           m == (n - first) + 1
           u == SubSeq(s, first, n)
           w == SubSeq(s, 1, first - 1)
           t == u \o w
           p == [i \in 1 .. n |-> IF i <= m THEN (first + i) - 1 ELSE i - m]
<1>1. n \in Nat /\ DOMAIN s = 1 .. n /\ first \in 1 .. n
  BY LenProperties
<1>2. u \in Seq(S) /\ Len(u) = m /\ \A i \in 1 .. m : u[i] = s[(first + i) - 1]
  <2>1. first \in 1 .. (Len(s) + 1) /\ n \in (first - 1) .. Len(s)
    BY <1>1
  <2> QED BY <2>1, PartOfSeq
<1>3. w \in Seq(S) /\ Len(w) = first - 1 /\ \A i \in 1 .. (first - 1) : w[i] = s[i]
  <2>1. 1 \in 1 .. (Len(s) + 1) /\ first - 1 \in (1 - 1) .. Len(s)
    BY <1>1
  <2>2. /\ w \in Seq(S) /\ Len(w) = ((first - 1) - 1) + 1
        /\ \A i \in 1 .. (((first - 1) - 1) + 1) : w[i] = s[(1 + i) - 1]
    BY <2>1, PartOfSeq
  <2>3. first \in Int /\ ((first - 1) - 1) + 1 = first - 1 /\ \A i \in Int : (1 + i) - 1 = i
    BY <1>1
  <2> HIDE DEF w
  <2> QED BY <2>2, <2>3
<1> HIDE DEF u, w
<1>4. /\ t \in Seq(S) /\ Len(t) = m + (first - 1)
      /\ \A i \in 1 .. (m + (first - 1)) : t[i] = IF i <= m THEN u[i] ELSE w[i - m]
  <2>1. /\ t \in Seq(S) /\ Len(t) = Len(u) + Len(w)
        /\ \A i \in 1 .. (Len(u) + Len(w)) : t[i] = IF i <= Len(u) THEN u[i] ELSE w[i - Len(u)]
    BY <1>2, <1>3, ConcatProperties
  <2>2. Len(u) = m /\ Len(w) = first - 1
    BY <1>2, <1>3
  <2> HIDE DEF t, m
  <2> QED BY <2>1, <2>2
<1>5. m + (first - 1) = n /\ m \in 1 .. n
  BY <1>1
<1>6. /\ t \in Seq(S) /\ DOMAIN t = 1 .. n
      /\ \A i \in 1 .. n : t[i] = IF i <= m THEN u[i] ELSE w[i - m]
  <2> HIDE DEF t, m, n
  <2> QED BY <1>4, <1>5, LenProperties
<1>7. p \in [1 .. n -> 1 .. n]
  BY <1>1
<1>8. /\ \A i \in 1 .. n : i <= m => i \in 1 .. m
      /\ \A i \in 1 .. n : ~(i <= m) => i - m \in 1 .. (first - 1)
  BY <1>1
<1>9. \A i \in 1 .. n : p[i] = IF i <= m THEN (first + i) - 1 ELSE i - m
  OBVIOUS
<1>10. \A i \in 1 .. n : t[i] = s[p[i]]
  <2> HIDE DEF t, m, n, p
  <2> QED BY <1>2, <1>3, <1>6, <1>8, <1>9
<1>11. \A i, j \in 1 .. n : p[i] = p[j] => i = j
  BY <1>1
<1>12. \A j \in 1 .. n : \E i \in 1 .. n : p[i] = j
  <2> SUFFICES ASSUME NEW j \in 1 .. n PROVE \E i \in 1 .. n : p[i] = j
    OBVIOUS
  <2>1. CASE j >= first
    <3>1. (j - first) + 1 \in 1 .. n /\ p[(j - first) + 1] = j
      BY <1>1, <2>1
    <3> QED BY <3>1
  <2>2. CASE ~(j >= first)
    <3>1. j + m \in 1 .. n /\ p[j + m] = j
      BY <1>1, <2>2
    <3> QED BY <3>1
  <2> QED BY <2>1, <2>2
<1>13. t[1] = s[first]
  <2>1. 1 \in 1 .. n /\ 1 <= m /\ (first + 1) - 1 = first
    BY <1>1
  <2>2. p[1] = first
    BY <1>9, <2>1
  <2> HIDE DEF p, t, n
  <2> QED BY <1>10, <2>1, <2>2
<1> HIDE DEF p
<1>14. Turned(s, first) = t
  BY DEF Turned, u, w
<1>15. Rearranges(p, s, t)
  <2> HIDE DEF t, p
  <2> QED BY <1>6, <1>7, <1>10, <1>11, <1>12 DEF Rearranges
<1> HIDE DEF t, p
<1> QED BY <1>6, <1>13, <1>14, <1>15

-----------------------------------------------------------------------------
(* What a dump knows of a file.                                            *)
Disp == [clusters : Nat, fragments : Nat, blockmap : Seq(Block)]

(* Turning the list of blocks leaves the blocks as they are.               *)
LEMMA OrderKeepsBlocks ==
  ASSUME NEW d \in Disp
  PROVE  /\ Order(d) \in Disp
         /\ Order(d).clusters = d.clusters
         /\ CellsOf(Order(d).blockmap) = CellsOf(d.blockmap)
         /\ d.blockmap # <<>> => Order(d).blockmap # <<>>
<1> DEFINE bm == d.blockmap
           n == Len(bm)
           first == CHOOSE i \in DOMAIN bm : \A j \in DOMAIN bm : bm[i].lcn <= bm[j].lcn
           t == Turned(bm, first)
<1>1. bm \in Seq(Block) /\ n \in Nat /\ DOMAIN bm = 1 .. n
  BY LenProperties DEF Disp
<1>2. CASE bm = <<>>
  BY <1>2 DEF Order
<1>3. CASE bm # <<>>
  <2>1. first \in 1 .. n
    BY <1>1, <1>3, LowestBlock
  <2> HIDE DEF first
  <2>2. Order(d) = [d EXCEPT !.blockmap = t]
    BY <1>3 DEF Order, first, Turned
  <2>3. t \in Seq(Block) /\ \E p : Rearranges(p, bm, t)
    <3> HIDE DEF bm
    <3> QED BY <1>1, <2>1, TurnedAround
  <2>4. PICK p : Rearranges(p, bm, t)
    BY <2>3
  <2> HIDE DEF t
  <2>5. /\ Order(d) \in Disp /\ Order(d).clusters = d.clusters
        /\ Order(d).blockmap = t
    BY <2>2, <2>3 DEF Disp
  <2> HIDE DEF n, bm
  <2>6. /\ DOMAIN t = 1 .. n
        /\ \A i \in 1 .. n : p[i] \in 1 .. n /\ t[i] = bm[p[i]]
        /\ \A j \in 1 .. n : \E i \in 1 .. n : p[i] = j
    BY <2>4 DEF Rearranges, n
  <2>7. t # <<>>
    <3>1. DOMAIN t # {} /\ DOMAIN <<>> = {}
      BY <2>1, <2>6
    <3> QED BY <3>1
  <2>8. CellsOf(t) = CellsOf(bm)
    <3>1. /\ CellsOf(t) = UNION { CellsAt(t, i) : i \in 1 .. n }
          /\ CellsOf(bm) = UNION { CellsAt(bm, i) : i \in 1 .. n }
      BY <1>1, <2>6 DEF CellsOf, CellsAt
    <3>2. \A i \in 1 .. n : CellsAt(t, i) = CellsAt(bm, p[i])
      BY <2>6 DEF CellsAt
    <3>3. \A j \in 1 .. n : \E i \in 1 .. n : CellsAt(t, i) = CellsAt(bm, j)
      BY <2>6, <3>2
    <3>4. CellsOf(t) \subseteq CellsOf(bm)
      BY <2>6, <3>1, <3>2
    <3>5. CellsOf(bm) \subseteq CellsOf(t)
      BY <3>1, <3>3
    <3> QED BY <3>4, <3>5
  <2> QED BY <2>5, <2>7, <2>8 DEF bm
<1> QED BY <1>2, <1>3

(* Turning the list leaves them apart.                                     *)
LEMMA OrderApart ==
  ASSUME NEW d \in Disp, BlocksApart(d.blockmap)
  PROVE  BlocksApart(Order(d).blockmap)
<1> DEFINE bm == d.blockmap
           n == Len(bm)
           first == CHOOSE i \in DOMAIN bm : \A j \in DOMAIN bm : bm[i].lcn <= bm[j].lcn
           t == Turned(bm, first)
<1>1. bm \in Seq(Block) /\ n \in Nat /\ DOMAIN bm = 1 .. n /\ \A i \in 1 .. n : bm[i] \in Block
  BY LenProperties DEF Disp
<1>2. CASE bm = <<>>
  BY <1>2 DEF Order
<1>3. CASE bm # <<>>
  <2>1. first \in 1 .. n
    BY <1>1, <1>3, LowestBlock
  <2> HIDE DEF first
  <2>2. Order(d).blockmap = t
    BY <1>3 DEF Order, first, Disp, Turned
  <2>3. PICK p : Rearranges(p, bm, t)
    <3> HIDE DEF bm
    <3> QED BY <1>1, <2>1, TurnedAround
  <2> HIDE DEF t, n, bm
  <2>4. \A i \in 1 .. n : CellsAt(t, i) = CellsAt(bm, p[i])
    BY <2>3 DEF CellsAt, Rearranges, n
  <2>5. /\ DOMAIN t = 1 .. n /\ \A i \in 1 .. n : p[i] \in 1 .. n
        /\ \A i, j \in 1 .. n : p[i] = p[j] => i = j
    BY <2>3 DEF Rearranges, n
  <2>6. BlocksApart(bm)
    BY DEF bm
  <2>7. BlocksApart(t)
    BY <1>1, <2>4, <2>5, <2>6 DEF BlocksApart
  <2> QED BY <2>2, <2>7
<1> QED BY <1>2, <1>3

(* What is known of a file that has just been dumped, turned or not.       *)
LEMMA DumpFacts ==
  ASSUME NEW p \in Seq(Nat)
  PROVE  /\ Dump(p) \in Disp /\ Order(Dump(p)) \in Disp
         /\ Dump(p).clusters = Len(p) /\ Order(Dump(p)).clusters = Len(p)
         /\ CellsOf(Dump(p).blockmap) = ToSet(p)
         /\ CellsOf(Order(Dump(p)).blockmap) = ToSet(p)
<1> DEFINE d == Dump(p)
<1>1. /\ RetrievalPointers(p) \in Seq(Block)
      /\ CellsOf(RetrievalPointers(p)) = ToSet(p)
  BY RetrievalPointersExact
<1>2. d \in Disp /\ d.blockmap = RetrievalPointers(p) /\ d.clusters = Len(p)
  BY <1>1, LenProperties DEF Dump, Disp
<1> HIDE DEF d
<1>3. /\ Order(d) \in Disp /\ Order(d).clusters = d.clusters
      /\ CellsOf(Order(d).blockmap) = CellsOf(d.blockmap)
  BY <1>2, OrderKeepsBlocks
<1> QED BY <1>1, <1>2, <1>3 DEF d
=============================================================================
