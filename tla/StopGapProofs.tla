--------------------------- MODULE StopGapProofs ---------------------------
(***************************************************************************)
(* Proofs about StopGap, on volumes and with files of any size and number: *)
(* the file index under every interference that is modelled, what a move   *)
(* does to a file, and the gap table.                                      *)
(***************************************************************************)
EXTENDS StopGap, SequenceLemmas, FiniteSetTheorems

(* The operators that FileEnumeration takes from the libraries are the     *)
(* libraries' own.                                                         *)
LEMMA SameOperators ==
  /\ \A S : Enum!Cardinality(S) = Cardinality(S)
  /\ \A s, k, e : Enum!InsertAt(s, k, e) = InsertAt(s, k, e)
  /\ \A s, k : Enum!RemoveAt(s, k) = RemoveAt(s, k)
  /\ \A S : Enum!Max(S) = Max(S)
<1>1. ASSUME NEW S PROVE Enum!Cardinality(S) = Cardinality(S)
  BY DEF Enum!Cardinality, Cardinality, Enum!IsFiniteSet, IsFiniteSet
<1>2. ASSUME NEW s, NEW k, NEW e PROVE Enum!InsertAt(s, k, e) = InsertAt(s, k, e)
  BY DEF Enum!InsertAt, InsertAt
<1>3. ASSUME NEW s, NEW k PROVE Enum!RemoveAt(s, k) = RemoveAt(s, k)
  BY DEF Enum!RemoveAt, RemoveAt
<1>4. ASSUME NEW S PROVE Enum!Max(S) = Max(S)
  BY DEF Enum!Max, Max
<1> QED BY <1>1, <1>2, <1>3, <1>4

(* A finite list of elements of any kind.                                  *)
IsList(b) == \E S : b \in Seq(S)

IsElem(e) == e = [key |-> e.key, file |-> e.file]

(* A file is in the buckets at most once, and under the size that d has.   *)
Once(b, d) ==
  /\ IsList(b)
  /\ \A i \in DOMAIN b : IsElem(b[i])
  /\ \A i, j \in DOMAIN b : b[i].file \in Files /\ b[i].file = b[j].file => i = j
  /\ \A i \in DOMAIN b : b[i].file \in Files => b[i].key = d[b[i].file].clusters

NotIn(b, f) == \A i \in DOMAIN b : b[i].file # f

(* buckets_.insert puts the new element somewhere between the others.      *)
LEMMA InsertPlace ==
  ASSUME NEW S, NEW b \in Seq(S), NEW key, NEW f, [key |-> key, file |-> f] \in S
  PROVE  /\ Enum!BucketInsert(b, key, f) \in Seq(S)
         /\ \E k \in 1 .. (Len(b) + 1) :
               Inserted(Enum!BucketInsert(b, key, f), b, k, [key |-> key, file |-> f])
<1> DEFINE n == Len(b)
           T == { i \in DOMAIN b : b[i].key <= key }
           m == Cardinality(T)
           e == [key |-> key, file |-> f]
<1>1. n \in Nat /\ DOMAIN b = 1 .. n
  BY LenProperties
<1>2. Enum!BucketInsert(b, key, f) = InsertAt(b, 1 + m, e)
  BY SameOperators DEF Enum!BucketInsert
<1>3. T \in SUBSET (1 .. n)
  BY <1>1
<1> HIDE DEF T
<1>4. m \in 0 .. n
  <2>1. IsFiniteSet(1 .. n) /\ Cardinality(1 .. n) = n
    <3>1. IsFiniteSet(1 .. n) /\ Cardinality(1 .. n) = IF 1 > n THEN 0 ELSE (n - 1) + 1
      BY <1>1, FS_Interval
    <3> QED BY <1>1, <3>1
  <2>2. IsFiniteSet(T) /\ Cardinality(T) <= n
    <3> HIDE DEF n
    <3> QED BY <1>3, <2>1, FS_Subset
  <2>3. Cardinality(T) \in Nat
    BY <2>2, FS_CardinalityType
  <2> QED BY <1>1, <2>2, <2>3
<1>5. 1 + m \in 1 .. (n + 1) /\ e \in S
  BY <1>1, <1>4
<1> DEFINE k == 1 + m
<1> HIDE DEF m, e, k
<1>6. k \in 1 .. (n + 1) /\ Enum!BucketInsert(b, key, f) = InsertAt(b, k, e)
  BY <1>2, <1>5 DEF k
<1>7. InsertAt(b, k, e) \in Seq(S) /\ Inserted(InsertAt(b, k, e), b, k, e)
  <2>1. ASSUME NEW x \in S, NEW j \in 1 .. (Len(b) + 1)
        PROVE  InsertAt(b, j, x) \in Seq(S) /\ Inserted(InsertAt(b, j, x), b, j, x)
    BY InsertAtProperties DEF Inserted
  <2> QED BY <1>5, <1>6, <2>1
<1> QED BY <1>6, <1>7 DEF e

(* push, of a file that is not there.                                      *)
LEMMA PushOnce ==
  ASSUME NEW b, NEW d, Once(b, d), NEW f, f \in Files => NotIn(b, f)
  PROVE  Once(Enum!BucketInsert(b, d[f].clusters, f), d)
<1> DEFINE n == Len(b)
           e == [key |-> d[f].clusters, file |-> f]
           t == Enum!BucketInsert(b, d[f].clusters, f)
<1>1. PICK S : b \in Seq(S)
  BY DEF Once, IsList
<1> DEFINE U == S \cup {e}
<1>2. n \in Nat /\ DOMAIN b = 1 .. n
  BY <1>1, LenProperties
<1>3. b \in Seq(U) /\ e \in U
  <2>1. \A i \in 1 .. n : b[i] \in S
    BY <1>1, LenProperties
  <2> HIDE DEF e
  <2> QED BY <1>1, <2>1
<1>4. t \in Seq(U) /\ \E k \in 1 .. (n + 1) : Inserted(t, b, k, e)
  <2> HIDE DEF U
  <2> QED BY <1>3, InsertPlace
<1>5. PICK k \in 1 .. (n + 1) : Inserted(t, b, k, e)
  BY <1>4
<1>6. e.file = f /\ e.key = d[f].clusters /\ IsElem(e)
  BY DEF IsElem
<1> HIDE DEF t, e, U, n
<1> DEFINE old(i) == IF i < k THEN i ELSE i - 1
<1>7. DOMAIN t = 1 .. (n + 1) /\ k \in Int
  BY <1>5 DEF Inserted, n
<1>8. ASSUME NEW i \in DOMAIN t, i # k
      PROVE  old(i) \in DOMAIN b /\ t[i] = b[old(i)]
  <2>1. old(i) \in 1 .. n
    BY <1>2, <1>7, <1>8
  <2>2. t[i] = b[old(i)]
    BY <1>5, <1>7, <1>8 DEF Inserted, n
  <2> QED BY <1>2, <2>1, <2>2
<1>9. t[k] = e
  BY <1>5, <1>7 DEF Inserted, n
<1>10. \A i, j \in DOMAIN t : i # k /\ j # k /\ old(i) = old(j) => i = j
  BY <1>2, <1>7
<1> HIDE DEF old
<1>11. \A i \in DOMAIN b : IsElem(b[i]) /\ (b[i].file \in Files => b[i].key = d[b[i].file].clusters)
  BY DEF Once
<1>12. ASSUME NEW i \in DOMAIN t
       PROVE  IsElem(t[i]) /\ (t[i].file \in Files => t[i].key = d[t[i].file].clusters)
  <2>1. CASE i = k
    BY <1>6, <1>9, <2>1
  <2>2. CASE i # k
    BY <1>8, <1>11, <2>2
  <2> QED BY <2>1, <2>2
<1>13. ASSUME NEW i \in DOMAIN t, NEW j \in DOMAIN t, t[i].file \in Files, t[i].file = t[j].file
       PROVE  i = j
  <2>1. CASE i = k /\ j = k
    BY <2>1
  <2>2. CASE i = k /\ j # k
    BY <1>6, <1>8, <1>9, <1>13, <2>2 DEF NotIn
  <2>3. CASE i # k /\ j = k
    BY <1>6, <1>8, <1>9, <1>13, <2>3 DEF NotIn
  <2>4. CASE i # k /\ j # k
    <3>1. /\ old(i) \in DOMAIN b /\ t[i] = b[old(i)]
          /\ old(j) \in DOMAIN b /\ t[j] = b[old(j)]
      BY <1>8, <2>4
    <3>2. old(i) = old(j)
      BY <1>13, <3>1 DEF Once
    <3> QED BY <1>10, <2>4, <3>2
  <2> QED BY <2>1, <2>2, <2>3, <2>4
<1>14. IsList(t)
  BY <1>4 DEF IsList
<1> QED BY <1>12, <1>13, <1>14 DEF Once, t

(* pop, of a file that is there or not.                                    *)
LEMMA PopOnce ==
  ASSUME NEW e, NEW d, Once(e.buckets, d), NEW f
  PROVE  /\ Once(Enum!FePop(e, d, f).buckets, d)
         /\ f \in Files => NotIn(Enum!FePop(e, d, f).buckets, f)
         /\ DOMAIN Enum!FePop(e, d, f) = {"buckets", "lcns", "missed"}
<1> DEFINE b == e.buckets
           n == Len(b)
           x == [key |-> d[f].clusters, file |-> f]
           at == { i \in DOMAIN b : b[i] = x }
           k == CHOOSE i \in at : \A j \in at : i <= j
           p == Enum!FePop(e, d, f)
           t == RemoveAt(b, k)
<1>0. DOMAIN p = {"buckets", "lcns", "missed"}
  BY DEF Enum!FePop
<1>1. p.buckets = IF at = {} THEN b ELSE t
  BY SameOperators DEF Enum!FePop
<1>2. PICK S : b \in Seq(S)
  BY DEF Once, IsList
<1>3. n \in Nat /\ DOMAIN b = 1 .. n
  BY <1>2, LenProperties
<1>4. ASSUME f \in Files, NEW i \in DOMAIN b, b[i].file = f PROVE i \in at
  BY <1>4 DEF Once, IsElem
<1>5. CASE at = {}
  <2>1. p.buckets = b
    BY <1>1, <1>5
  <2>2. f \in Files => NotIn(b, f)
    BY <1>4, <1>5 DEF NotIn
  <2> HIDE DEF p, b
  <2> QED BY <1>0, <2>1, <2>2 DEF b, p
<1>6. CASE at # {}
  <2>1. at \subseteq Nat
    BY <1>3
  <2>2. \E i \in at : \A j \in at : i <= j
    <3> HIDE DEF at
    <3> QED BY <1>6, <2>1, LeastNumber
  <2>3. k \in at
    <3> HIDE DEF at
    <3> QED BY <2>2
  <2>4. k \in 1 .. n /\ b[k] = x
    BY <1>3, <2>3
  <2>5. x.file = f
    OBVIOUS
  <2>6. /\ t \in Seq(S)
        /\ DOMAIN t = 1 .. (n - 1)
        /\ \A i \in 1 .. (n - 1) : t[i] = IF i < k THEN b[i] ELSE b[i + 1]
    BY <1>2, <2>4, RemoveAtProperties
  <2>7. p.buckets = t
    BY <1>1, <1>6
  <2> HIDE DEF p, t, k, x, at, n
  <2> DEFINE old(i) == IF i < k THEN i ELSE i + 1
  <2>8. \A i \in DOMAIN t : old(i) \in 1 .. n /\ old(i) # k /\ t[i] = b[old(i)]
    BY <1>3, <2>4, <2>6
  <2>9. \A i, j \in DOMAIN t : old(i) = old(j) => i = j
    BY <1>3, <2>4, <2>6
  <2> HIDE DEF old
  <2>10. IsList(t)
    BY <2>6 DEF IsList
  <2>11. \A i \in DOMAIN t : IsElem(t[i]) /\ (t[i].file \in Files => t[i].key = d[t[i].file].clusters)
    BY <1>3, <2>8 DEF Once
  <2>12. \A i, j \in DOMAIN t : t[i].file \in Files /\ t[i].file = t[j].file => i = j
    BY <1>3, <2>8, <2>9 DEF Once
  <2>13. f \in Files => NotIn(t, f)
    BY <1>3, <2>4, <2>5, <2>8 DEF Once, NotIn
  <2>14. Once(t, d)
    BY <2>10, <2>11, <2>12 DEF Once
  <2> QED BY <1>0, <2>7, <2>13, <2>14 DEF p
<1> QED BY <1>5, <1>6

(* What is known of a file that is not in the buckets may change.          *)
LEMMA ChangeOnce ==
  ASSUME NEW b, NEW d, Once(b, d), NEW f, f \in Files => NotIn(b, f),
         NEW x, DOMAIN d = Files
  PROVE  Once(b, [d EXCEPT ![f] = x])
<1> DEFINE de == [d EXCEPT ![f] = x]
<1>1. \A g \in Files : g # f => de[g] = d[g]
  OBVIOUS
<1> HIDE DEF de
<1>2. \A i \in DOMAIN b : b[i].file \in Files => b[i].key = de[b[i].file].clusters
  BY <1>1 DEF Once, NotIn
<1> QED BY <1>2 DEF Once, de

-----------------------------------------------------------------------------
(* A file has no more clusters than the volume.                            *)
LEMMA FileFits ==
  ASSUME NEW c \in Seq(Cluster), IsInjective(c)
  PROVE  Len(c) \in 0 .. Clusters
<1> DEFINE n == Len(c)
<1>1. n \in Nat /\ DOMAIN c = 1 .. n /\ \A i \in 1 .. n : c[i] \in Cluster
  BY LenProperties
<1>2. IsFiniteSet(Cluster) /\ Cardinality(Cluster) = Clusters
  <2>1. /\ IsFiniteSet(0 .. (Clusters - 1))
        /\ Cardinality(0 .. (Clusters - 1))
             = IF 0 > Clusters - 1 THEN 0 ELSE ((Clusters - 1) - 0) + 1
    BY WordAssumption, FS_Interval
  <2> QED BY <2>1, WordAssumption DEF Cluster
<1>3. IsFiniteSet(1 .. n) /\ Cardinality(1 .. n) = n
  <2>1. IsFiniteSet(1 .. n) /\ Cardinality(1 .. n) = IF 1 > n THEN 0 ELSE (n - 1) + 1
    BY <1>1, FS_Interval
  <2> QED BY <1>1, <2>1
<1>4. c \in [1 .. n -> Cluster]
  BY <1>1
<1>5. ~(Clusters < n)
  <2> SUFFICES ASSUME Clusters < n PROVE FALSE
    OBVIOUS
  <2>1. \E x, y \in 1 .. n : x # y /\ c[x] = c[y]
    <3> HIDE DEF n
    <3> QED BY <1>2, <1>3, <1>4, FS_PigeonHole
  <2> QED BY <1>1, <2>1 DEF IsInjective
<1> QED BY <1>1, <1>5, WordAssumption

(* order leaves the size alone.                                            *)
LEMMA OrderKeepsSize ==
  ASSUME NEW d, "clusters" \in DOMAIN d
  PROVE  Order(d).clusters = d.clusters
  BY DEF Order

(* What a dump makes of the size.                                          *)
LEMMA DumpSize ==
  ASSUME NEW c \in Seq(Cluster), IsInjective(c)
  PROVE  /\ Dump(c).clusters \in 0 .. Clusters
         /\ Order(Dump(c)).clusters \in 0 .. Clusters
         /\ NoDump.clusters \in 0 .. Clusters
         /\ Order(NoDump).clusters \in 0 .. Clusters
<1>1. Dump(c).clusters = Len(c) /\ "clusters" \in DOMAIN Dump(c)
  BY DEF Dump
<1>2. NoDump.clusters = 0 /\ "clusters" \in DOMAIN NoDump
  BY DEF NoDump
<1>3. 0 \in 0 .. Clusters
  BY WordAssumption
<1> QED BY <1>1, <1>2, <1>3, FileFits, OrderKeepsSize

-----------------------------------------------------------------------------
(* What scan does with one file of the list.                               *)
Scan1(d, b, f) == IF d[f].blockmap = <<>> THEN b ELSE Enum!BucketInsert(b, d[f].clusters, f)

Elem == [key : 0 .. Clusters, file : Files]

(* scan files only files, and none twice.                                  *)
LEMMA ScanOnce ==
  ASSUME NEW d, \A f \in Files : d[f].clusters \in 0 .. Clusters
  PROVE  /\ Once(Enum!FeScanned(d, SetToSeq(Files)).buckets, d)
         /\ Enum!FeScanned(d, SetToSeq(Files)).buckets \in Seq(Elem)
         /\ DOMAIN Enum!FeScanned(d, SetToSeq(Files)) = {"buckets", "lcns", "missed"}
<1> DEFINE listed == SetToSeq(Files)
           n == Cardinality(Files)
           A == Seq(Elem)
           base == <<>>
           step == [i \in 1 .. n |-> [b \in A |-> Scan1(d, b, listed[i])]]
           Sol(it) == [s \in SUBSET (1 .. n) |->
                         IF s = {} THEN base ELSE Scan1(d, it[s \ {Max(s)}], listed[Max(s)])]
           g == CHOOSE it : it = Sol(it)
           N(b, k) == \A i \in DOMAIN b : \E j \in 1 .. k : b[i].file = listed[j]
<1>1. /\ n \in Nat /\ DOMAIN listed = 1 .. n
      /\ \A i \in 1 .. n : listed[i] \in Files
      /\ \A i, j \in 1 .. n : listed[i] = listed[j] => i = j
  <2>1. n \in Nat /\ ExistsBijection(1 .. n, Files)
    BY FilesAssumption, FS_CardinalityType
  <2>2. PICK f \in [1 .. n -> Files] : IsInjective(f)
    BY <2>1 DEF ExistsBijection, Bijection, Injection
  <2>3. listed \in [1 .. n -> Files] /\ IsInjective(listed)
    BY <2>2 DEF SetToSeq
  <2> HIDE DEF listed, n
  <2> QED BY <2>1, <2>3 DEF IsInjective
<1> HIDE DEF n, listed
<1>2. Enum!FeScanned(d, listed).buckets = g[1 .. n]
  <2>1. Enum!FeScanned(d, listed).buckets =
          (CHOOSE it : it = [s \in SUBSET DOMAIN listed |->
                               IF s = {} THEN <<>>
                               ELSE Scan1(d, it[s \ {Max(s)}], listed[Max(s)])])
            [DOMAIN listed]
    BY DEF Enum!FeScanned, Enum!FoldLeft, Enum!MapThenFoldSet, Scan1, Enum!Max, Max
  <2> QED BY <1>1, <2>1
<1>3. \A i \in 1 .. n, b \in A : Scan1(d, b, listed[i]) \in A
  <2> SUFFICES ASSUME NEW i \in 1 .. n, NEW b \in A PROVE Scan1(d, b, listed[i]) \in A
    OBVIOUS
  <2>1. [key |-> d[listed[i]].clusters, file |-> listed[i]] \in Elem
    BY <1>1 DEF Elem
  <2>2. Enum!BucketInsert(b, d[listed[i]].clusters, listed[i]) \in A
    BY <2>1, InsertPlace
  <2> QED BY <2>2 DEF Scan1
<1>4. base \in A /\ step \in [1 .. n -> [A -> A]]
  BY <1>3
<1>5. \A i \in 1 .. n, b \in A : step[i][b] = Scan1(d, b, listed[i])
  OBVIOUS
<1> HIDE DEF step
<1>6. \A s \in SUBSET (1 .. n) : s # {} => Max(s) \in 1 .. n
  BY <1>1, MaxOfSet
<1>7. \E it : it = Sol(it)
  <2>1. PICK h \in [SUBSET (1 .. n) -> A] : FoldEquation(h, n, base, step)
    <3> HIDE DEF A, base
    <3> QED BY <1>1, <1>4, FoldExists
  <2>2. ASSUME NEW s \in SUBSET (1 .. n)
        PROVE  h[s] = IF s = {} THEN base ELSE Scan1(d, h[s \ {Max(s)}], listed[Max(s)])
    <3>1. CASE s = {}
      BY <2>1, <3>1 DEF FoldEquation
    <3>2. CASE s # {}
      <4>1. s \ {Max(s)} \in SUBSET (1 .. n) /\ h[s \ {Max(s)}] \in A
        BY <2>1
      <4> QED BY <1>5, <1>6, <2>1, <3>2, <4>1 DEF FoldEquation
    <3> QED BY <3>1, <3>2
  <2>3. h = Sol(h)
    BY <2>1, <2>2
  <2> QED BY <2>3
<1>8. g = Sol(g)
  <2> HIDE DEF Sol
  <2> QED BY <1>7
<1> HIDE DEF g
<1>9. FoldWithin(g, n, A, base, step)
  <2>1. g[{}] = base
    BY <1>8
  <2>2. ASSUME NEW s \in SUBSET (1 .. n), s # {}, g[s \ {Max(s)}] \in A
        PROVE  g[s] = step[Max(s)][g[s \ {Max(s)}]]
    <3>1. g[s] = Scan1(d, g[s \ {Max(s)}], listed[Max(s)])
      BY <1>8, <2>2
    <3> QED BY <1>5, <1>6, <2>2, <3>1
  <2> QED BY <2>1, <2>2 DEF FoldWithin
<1>10. PICK h \in [0 .. n -> A] : StepByStep(h, n, base, step, g[1 .. n])
  <2> HIDE DEF A, base
  <2> QED BY <1>1, <1>4, <1>9, FoldSteps
<1>11. /\ h[0] = <<>> /\ h[n] = g[1 .. n]
       /\ \A k \in 1 .. n : h[k] = step[k][h[k - 1]]
  BY <1>10 DEF StepByStep
<1> DEFINE Bad == { k \in 0 .. n : ~(Once(h[k], d) /\ N(h[k], k)) }
<1>12. Bad = {}
  <2> SUFFICES ASSUME Bad # {} PROVE FALSE
    OBVIOUS
  <2>1. Bad \subseteq Nat
    BY <1>1
  <2>2. PICK m \in Bad : \A k \in Bad : m <= k
    <3> HIDE DEF Bad
    <3> QED BY <2>1, LeastNumber
  <2>3. m \in 0 .. n
    OBVIOUS
  <2>4. m # 0
    <3>1. <<>> \in Seq(Elem) /\ DOMAIN <<>> = {}
      OBVIOUS
    <3>2. Once(<<>>, d) /\ N(<<>>, 0)
      BY <3>1 DEF Once, IsList
    <3>3. 0 \notin Bad
      BY <1>11, <3>2
    <3> HIDE DEF Bad
    <3> QED BY <2>2, <3>3
  <2>5. m \in Int /\ m \in 1 .. n /\ m - 1 \in 0 .. n /\ ~(m <= m - 1)
    BY <1>1, <2>3, <2>4
  <2>6. m - 1 \notin Bad
    <3> HIDE DEF Bad
    <3> QED BY <2>2, <2>5
  <2> DEFINE b == h[m - 1]
             f == listed[m]
  <2>7. Once(b, d) /\ N(b, m - 1)
    BY <2>5, <2>6
  <2>8. f \in Files /\ h[m] = Scan1(d, b, f) /\ b \in A
    BY <1>1, <1>5, <1>11, <2>5
  <2>9. /\ m \notin 1 .. (m - 1) /\ 1 .. (m - 1) \subseteq 1 .. n
        /\ 1 .. (m - 1) \subseteq 1 .. m /\ m \in 1 .. m
    <3> HIDE DEF Bad
    <3> QED BY <1>1, <2>5
  <2>10. NotIn(b, f)
    BY <1>1, <2>5, <2>7, <2>9 DEF NotIn
  <2>11. Once(h[m], d) /\ N(h[m], m)
    <3>1. N(b, m)
      BY <2>7, <2>9
    <3>2. CASE d[f].blockmap = <<>>
      <4>1. h[m] = b
        BY <2>8, <3>2 DEF Scan1
      <4> HIDE DEF N, b, Bad
      <4> QED BY <2>7, <3>1, <4>1
    <3>3. CASE d[f].blockmap # <<>>
      <4> DEFINE t == Enum!BucketInsert(b, d[f].clusters, f)
                 e == [key |-> d[f].clusters, file |-> f]
      <4>1. h[m] = t
        BY <2>8, <3>3 DEF Scan1
      <4>2. e \in Elem /\ e.file = f
        BY <2>8 DEF Elem
      <4> HIDE DEF b, Bad, N
      <4>3. Once(t, d)
        BY <2>7, <2>8, <2>10, PushOnce
      <4>4. PICK k \in 1 .. (Len(b) + 1) : Inserted(t, b, k, e)
        BY <2>8, <4>2, InsertPlace
      <4> HIDE DEF t, e
      <4>5. Len(b) \in Nat /\ DOMAIN b = 1 .. Len(b)
        BY <2>8, LenProperties
      <4>6. ASSUME NEW i \in DOMAIN t PROVE \E j \in 1 .. m : t[i].file = listed[j]
        <5>1. i \in 1 .. (Len(b) + 1) /\ k \in Int
          BY <4>4 DEF Inserted
        <5>2. CASE i < k
          <6>1. i \in DOMAIN b
            BY <4>5, <5>1, <5>2
          <6>2. t[i] = b[i]
            BY <4>4, <5>1, <5>2 DEF Inserted
          <6> QED BY <3>1, <6>1, <6>2 DEF N
        <5>3. CASE i = k
          <6>1. t[i] = e
            BY <4>4, <5>1, <5>3 DEF Inserted
          <6> QED BY <2>9, <4>2, <6>1
        <5>4. CASE i > k
          <6>1. i - 1 \in DOMAIN b /\ ~(i < k) /\ i # k
            BY <4>5, <5>1, <5>4
          <6>2. t[i] = b[i - 1]
            BY <4>4, <5>1, <6>1 DEF Inserted
          <6> QED BY <3>1, <6>1, <6>2 DEF N
        <5> QED BY <5>1, <5>2, <5>3, <5>4
      <4>7. N(t, m)
        BY <4>6 DEF N
      <4> QED BY <4>1, <4>3, <4>7
    <3> QED BY <3>2, <3>3
  <2> QED BY <2>2, <2>11
<1>13. n \in 0 .. n
  BY <1>1
<1>14. Once(h[n], d)
  BY <1>12, <1>13
<1>15. DOMAIN Enum!FeScanned(d, listed) = {"buckets", "lcns", "missed"}
  BY DEF Enum!FeScanned
<1>16. h[n] \in Seq(Elem)
  BY <1>13
<1> QED BY <1>2, <1>11, <1>14, <1>15, <1>16 DEF listed

-----------------------------------------------------------------------------
Moving == {"open", "move", "dump"}

(* The volume: no file has a cluster twice.                                *)
DiskInv == /\ DOMAIN disk = Files
           /\ \A f \in Files : disk[f] \in Seq(Cluster) /\ IsInjective(disk[f])

(* What the program has in hand: move_file's local variables, and that the *)
(* file it moves is in no bucket.                                          *)
HandInv ==
  /\ DOMAIN mv = {"f", "target", "left", "status", "by"}
  /\ pc \in Moving \cup {"return", "throw"} =>
       mv.by \in {"defrag", "set", "widen", "widen into"}
  /\ pc = "dump" => mv.status \in {"success", "already committed", "error"}
  /\ pc \in Moving /\ mv.f \in Files =>
       /\ NotIn(fe.buckets, mv.f)
       /\ mv.left \in 0 .. Clusters

FiledInv ==
  /\ DiskInv
  /\ DOMAIN disp = Files
  /\ \A f \in Files : disp[f].clusters \in 0 .. Clusters
  /\ DOMAIN fe = {"buckets", "lcns", "missed"}
  /\ Once(fe.buckets, disp)
  /\ HandInv

(* After the first scan.                                                   *)
LEMMA InitFiled == Init => FiledInv
<1> SUFFICES ASSUME Init PROVE FiledInv
  OBVIOUS
<1>1. DiskInv
  <2>1. /\ disk \in [Files -> Seq(Cluster \ Fixed)]
        /\ \A f \in Files : IsInjective(disk[f])
    BY LayoutsAssumption DEF Init
  <2>2. \A f \in Files : disk[f] \in Seq(Cluster)
    <3> SUFFICES ASSUME NEW f \in Files PROVE disk[f] \in Seq(Cluster)
      OBVIOUS
    <3>1. disk[f] \in Seq(Cluster \ Fixed)
      BY <2>1
    <3> QED BY <3>1, LenProperties
  <2> QED BY <2>1, <2>2 DEF DiskInv
<1>2. DOMAIN disp = Files /\ \A f \in Files : disp[f].clusters \in 0 .. Clusters
  <2>1. disp = [f \in Files |-> Order(Dump(disk[f]))]
    BY DEF Init
  <2>2. \A f \in Files : Order(Dump(disk[f])).clusters \in 0 .. Clusters
    BY <1>1, DumpSize DEF DiskInv
  <2> QED BY <2>1, <2>2
<1>3. DOMAIN fe = {"buckets", "lcns", "missed"} /\ Once(fe.buckets, disp)
  BY <1>2, ScanOnce DEF Init
<1>4. HandInv
  BY DEF Init, HandInv, Moving
<1> QED BY <1>1, <1>2, <1>3, <1>4 DEF FiledInv

(* findAt leaves the buckets alone.                                        *)
LEMMA BuildOnce ==
  ASSUME NEW e, DOMAIN e = {"buckets", "lcns", "missed"}, NEW d
  PROVE  /\ Enum!FeBuilt(e, d).buckets = e.buckets
         /\ DOMAIN Enum!FeBuilt(e, d) = {"buckets", "lcns", "missed"}
<1>1. Enum!FeBuilt(e, d) = e \/ \E m : Enum!FeBuilt(e, d) = [e EXCEPT !.lcns = m]
  BY DEF Enum!FeBuilt
<1> QED BY <1>1

(* The start of move_file: from here to the push the file is in no bucket. *)
LEMMA MoveFileFiled ==
  ASSUME FiledInv, NEW e, DOMAIN e = {"buckets", "lcns", "missed"}, Once(e.buckets, disp),
         NEW f, NEW lcn, NEW by \in {"defrag", "set", "widen", "widen into"},
         MoveFile(e, f, lcn, by), disp' = disp, disk' = disk
  PROVE  FiledInv'
<1>1. /\ fe' = Enum!FePop(e, disp, f)
      /\ mv' = [f |-> f, target |-> lcn, left |-> disp[f].clusters,
                status |-> "none", by |-> by]
      /\ pc' \in {"return", "open"}
  BY DEF MoveFile
<1>2. /\ Once(fe'.buckets, disp)
      /\ f \in Files => NotIn(fe'.buckets, f)
      /\ DOMAIN fe' = {"buckets", "lcns", "missed"}
  BY <1>1, PopOnce
<1>3. HandInv'
  <2>1. DOMAIN mv' = {"f", "target", "left", "status", "by"} /\ mv'.by = by /\ mv'.f = f
        /\ mv'.left = disp[f].clusters
    BY <1>1
  <2>2. f \in Files => mv'.left \in 0 .. Clusters
    BY <2>1 DEF FiledInv
  <2> QED BY <1>1, <1>2, <2>1, <2>2 DEF HandInv, Moving
<1>4. DiskInv'
  BY DEF FiledInv, DiskInv
<1> QED BY <1>2, <1>3, <1>4 DEF FiledInv

(* Steps outside move_file that leave the buckets alone.                   *)
Elsewhere ==
  /\ disk' = disk /\ disp' = disp /\ mv' = mv
  /\ fe' = fe \/ fe' = Enum!FeBuilt(fe, disp)
  /\ pc' \notin Moving \cup {"return", "throw"}

(* Such a step keeps the files filed.                                      *)
LEMMA ElsewhereFiled == FiledInv /\ Elsewhere => FiledInv'
<1> SUFFICES ASSUME FiledInv, Elsewhere PROVE FiledInv'
  OBVIOUS
<1>1. fe'.buckets = fe.buckets /\ DOMAIN fe' = {"buckets", "lcns", "missed"}
  BY BuildOnce DEF FiledInv, Elsewhere
<1>2. HandInv'
  BY DEF FiledInv, HandInv, Elsewhere, Moving
<1>3. DiskInv'
  BY DEF FiledInv, DiskInv, Elsewhere
<1>4. Once(fe'.buckets, disp')
  BY <1>1 DEF FiledInv, Elsewhere
<1>5. DOMAIN disp' = Files /\ \A f \in Files : disp'[f].clusters \in 0 .. Clusters
  BY DEF FiledInv, Elsewhere
<1> QED BY <1>1, <1>2, <1>3, <1>4, <1>5 DEF FiledInv

(* The steps that scan.                                                    *)
LEMMA ScanningElsewhere ==
  ASSUME NEW F, Scanning(F), disk' = disk, FiledInv
  PROVE  Elsewhere
<1> USE DEF Elsewhere, Moving
<1>1. CASE Run(F)
  BY <1>1 DEF Run
<1>2. CASE DefragEnd(F)
  BY <1>2 DEF DefragEnd
<1>3. CASE GapsEnd(F)
  BY <1>3 DEF GapsEnd
<1>4. ASSUME NEW yes, Widened(yes, F) PROVE pc' \in {"gaps", "crash"}
  BY <1>4 DEF Widened, Goto
<1>5. CASE WidenEnd(F)
  BY <1>4, <1>5 DEF WidenEnd
<1>6. CASE ThrowToScan(F)
  BY <1>6 DEF ThrowToScan
<1>7. CASE ThrowToWiden(F)
  BY <1>4, <1>7 DEF ThrowToWiden
<1> QED BY <1>1, <1>2, <1>3, <1>5, <1>6, <1>7 DEF Scanning

(* The steps between two calls into the file system.                       *)
LEMMA InternalFiled ==
  ASSUME FiledInv, Internal, disk' = disk
  PROVE  FiledInv'
<1>1. CASE DefragFile
  <2> DEFINE f == Head(queue)
             e == IF f = last THEN Enum!FePop(fe, disp, f) ELSE fe
             found == Gaps!Best(ge, disp[f].clusters, -1)
  <2>1. /\ disp' = disp /\ pc = "defrag"
        /\ \/ fe' = e /\ mv' = mv /\ pc' = pc
           \/ \E b \in found : MoveFile(e, f, ge.list[b[2]].lcn, "defrag")
    BY <1>1 DEF DefragFile
  <2> HIDE DEF found
  <2>2. DOMAIN e = {"buckets", "lcns", "missed"} /\ Once(e.buckets, disp)
    BY PopOnce DEF FiledInv
  <2> HIDE DEF e, f
  <2>3. CASE fe' = e /\ mv' = mv /\ pc' = pc
    <3>1. HandInv'
      BY <2>1, <2>3 DEF FiledInv, HandInv, Moving
    <3>2. DiskInv'
      BY DEF FiledInv, DiskInv
    <3>3. DOMAIN disp' = Files /\ \A g \in Files : disp'[g].clusters \in 0 .. Clusters
      BY <2>1 DEF FiledInv
    <3>4. DOMAIN fe' = {"buckets", "lcns", "missed"} /\ Once(fe'.buckets, disp')
      BY <2>1, <2>2, <2>3
    <3> QED BY <3>1, <3>2, <3>3, <3>4 DEF FiledInv
  <2>4. ASSUME NEW lcn, MoveFile(e, f, lcn, "defrag") PROVE FiledInv'
    BY <2>1, <2>2, <2>4, MoveFileFiled
  <2> QED BY <2>1, <2>3, <2>4
<1>2. CASE SkipGap
  <2>1. Elsewhere
    BY <1>2 DEF SkipGap, Goto, Elsewhere, Moving
  <2> QED BY <2>1, ElsewhereFiled
<1>3. CASE FindBestCrashes
  <2>1. Elsewhere
    BY <1>3 DEF FindBestCrashes, Elsewhere, Moving
  <2> QED BY <2>1, ElsewhereFiled
<1>4. CASE FillGap
  <2>1. Elsewhere
    BY <1>4 DEF FillGap, Elsewhere, Moving
  <2> QED BY <2>1, ElsewhereFiled
<1>5. CASE SetFile
  <2>1. disp' = disp /\ MoveFile(fe, Head(files), r.lcn, "set")
    BY <1>5 DEF SetFile
  <2>2. DOMAIN fe = {"buckets", "lcns", "missed"} /\ Once(fe.buckets, disp)
    BY DEF FiledInv
  <2> QED BY <2>1, <2>2, MoveFileFiled
<1>6. CASE SetEnd
  <2>1. Elsewhere
    BY <1>6 DEF SetEnd, Elsewhere, Moving
  <2> QED BY <2>1, ElsewhereFiled
<1>7. CASE WidenFile
  <2>1. disp' = disp
    BY <1>7 DEF WidenFile
  <2>2. PICK t \in WidenTargets : MoveFile(Enum!FeBuilt(fe, disp), Behind, t.lcn, t.by)
    BY <1>7 DEF WidenFile
  <2>3. t.by \in {"widen", "widen into"}
    <3> DEFINE S1(found) == { [lcn |-> ge.list[b[2]].lcn, by |-> "widen"] : b \in found }
               S2 == { [lcn |-> r.lcn, by |-> "widen into"] }
               found == Gaps!Best(ge, disp[Behind].clusters, r.lcn)
    <3>1. t \in S1(found) \/ t \in S2
      BY <2>2 DEF WidenTargets
    <3> HIDE DEF found
    <3>2. CASE t \in S1(found)
      <4>1. PICK b \in found : t = [lcn |-> ge.list[b[2]].lcn, by |-> "widen"]
        BY <3>2
      <4>2. t.by = "widen"
        BY <4>1
      <4> QED BY <4>2
    <3>3. CASE t \in S2
      <4>1. t = [lcn |-> r.lcn, by |-> "widen into"]
        BY <3>3
      <4>2. t.by = "widen into"
        BY <4>1
      <4> QED BY <4>2
    <3> QED BY <3>1, <3>2, <3>3
  <2> DEFINE e == Enum!FeBuilt(fe, disp)
  <2>4. DOMAIN e = {"buckets", "lcns", "missed"} /\ Once(e.buckets, disp)
    BY BuildOnce DEF FiledInv
  <2> HIDE DEF e
  <2>5. MoveFile(e, Behind, t.lcn, t.by)
    BY <2>2 DEF e
  <2> QED BY <2>1, <2>3, <2>4, <2>5, MoveFileFiled
<1>8. CASE Return
  <2>1. mv.by \in {"defrag", "set", "widen", "widen into"}
    BY <1>8 DEF Return, FiledInv, HandInv
  <2>2. disp' = disp /\ fe' = fe /\ mv' = mv
    BY <1>8 DEF Return
  <2>3. pc' \in {"defrag", "set", "widen"}
    BY <1>8, <2>1 DEF Return
  <2>4. Elsewhere
    BY <2>2, <2>3 DEF Elsewhere, Moving
  <2> QED BY <2>4, ElsewhereFiled
<1> QED BY <1>1, <1>2, <1>3, <1>4, <1>5, <1>6, <1>7, <1>8 DEF Internal

(* The volume after a move: the targets were free, so that no cluster is   *)
(* in the file twice.                                                      *)
LEMMA MovedInjective ==
  ASSUME DiskInv, NEW f \in Files, Targets \subseteq Free, mv.target \in Int, Cur \in Int
  PROVE  Moved(f) \in Seq(Cluster) /\ IsInjective(Moved(f))
<1> DEFINE c == disk[f]
           n == Len(c)
           m == Moved(f)
<1>1. /\ n \in Nat /\ DOMAIN c = 1 .. n
      /\ \A i \in 1 .. n : c[i] \in Cluster
      /\ \A i, j \in 1 .. n : c[i] = c[j] => i = j
  <2>1. c \in Seq(Cluster) /\ IsInjective(c)
    BY DEF DiskInv
  <2>2. n \in Nat /\ DOMAIN c = 1 .. n /\ \A i \in 1 .. n : c[i] \in Cluster
    BY <2>1, LenProperties
  <2> HIDE DEF n
  <2> QED BY <2>1, <2>2 DEF IsInjective
<1>2. DOMAIN m = 1 .. n /\ \A i \in 1 .. n : m[i] = IF i <= Cur THEN (mv.target + i) - 1 ELSE c[i]
  BY <1>1 DEF Moved
<1>3. \A i \in 1 .. n : i <= Cur => (mv.target + i) - 1 \in Targets
  BY <1>1 DEF Targets
<1>4. \A x \in Targets : x \in Cluster /\ \A i \in 1 .. n : c[i] # x
  <2> SUFFICES ASSUME NEW x \in Targets, NEW i \in 1 .. n PROVE x \in Cluster /\ c[i] # x
    BY DEF Free
  <2>1. x \in Cluster /\ x \notin Used
    BY DEF Free
  <2>2. c[i] \in ToSet(c)
    BY <1>1 DEF ToSet
  <2>3. c[i] \in Used
    BY <2>2 DEF Used
  <2> QED BY <2>1, <2>3
<1>5. \A i \in 1 .. n : m[i] \in Cluster
  BY <1>1, <1>2, <1>3, <1>4
<1>6. ASSUME NEW i \in 1 .. n, NEW j \in 1 .. n, m[i] = m[j] PROVE i = j
  <2>1. CASE i <= Cur /\ j <= Cur
    <3>1. (mv.target + i) - 1 = (mv.target + j) - 1
      BY <1>2, <1>6, <2>1
    <3> QED BY <3>1
  <2>2. CASE i <= Cur /\ ~(j <= Cur)
    BY <1>2, <1>3, <1>4, <1>6, <2>2
  <2>3. CASE ~(i <= Cur) /\ j <= Cur
    BY <1>2, <1>3, <1>4, <1>6, <2>3
  <2>4. CASE ~(i <= Cur) /\ ~(j <= Cur)
    BY <1>1, <1>2, <1>6, <2>4
  <2> QED BY <2>1, <2>2, <2>3, <2>4
<1>7. m \in Seq(Cluster)
  <2>1. m = [i \in 1 .. n |-> m[i]]
    BY <1>1 DEF Moved
  <2> HIDE DEF m
  <2>2. [i \in 1 .. n |-> m[i]] \in Seq(Cluster)
    BY <1>1, <1>5
  <2> QED BY <2>1, <2>2
<1>8. IsInjective(m)
  BY <1>2, <1>6 DEF IsInjective
<1> QED BY <1>7, <1>8

(* Opening the file changes nothing but the place in the code.             *)
LEMMA OpenFiled == FiledInv /\ OpenFile => FiledInv'
<1> SUFFICES ASSUME FiledInv, OpenFile PROVE FiledInv'
  OBVIOUS
<1>1. /\ disk' = disk /\ disp' = disp /\ fe' = fe /\ mv' = mv
      /\ pc = "open" /\ pc' \in {"move", "throw"}
  BY DEF OpenFile
<1>2. HandInv'
  BY <1>1 DEF FiledInv, HandInv, Moving
<1> QED BY <1>1, <1>2 DEF FiledInv, DiskInv

(* The volume after the move, if it was made.                              *)
LEMMA MoveDisk ==
  ASSUME FiledInv, MoveClusters
  PROVE  DiskInv'
<1>1. DiskInv /\ HandInv /\ pc = "move"
  BY DEF FiledInv, MoveClusters
<1>2. CASE disk' = disk
  BY <1>1, <1>2 DEF DiskInv
<1>3. CASE /\ mv.target \in Cluster /\ Targets \subseteq Free
           /\ disk' = [disk EXCEPT ![mv.f] = Moved(mv.f)]
  <2>1. CASE mv.f \in Files
    <3>1. mv.left \in 0 .. Clusters
      BY <1>1, <2>1 DEF HandInv, Moving
    <3>2. mv.left \in Int
      BY <3>1, WordAssumption
    <3>3. Cur \in Int
      BY <3>2, ChunkAssumption DEF Cur
    <3>4. mv.target \in Cluster
      BY <1>3
    <3>5. mv.target \in Int
      BY <3>4, WordAssumption DEF Cluster
    <3>6. Moved(mv.f) \in Seq(Cluster) /\ IsInjective(Moved(mv.f))
      BY <1>1, <1>3, <2>1, <3>3, <3>5, MovedInjective
    <3>7. DOMAIN disk' = Files
      BY <1>1, <1>3 DEF DiskInv
    <3>8. \A f \in Files : disk'[f] = IF f = mv.f THEN Moved(mv.f) ELSE disk[f]
      BY <1>1, <1>3, <2>1 DEF DiskInv
    <3> QED BY <1>1, <3>6, <3>7, <3>8 DEF DiskInv
  <2>2. CASE mv.f \notin Files
    <3>1. DOMAIN disk' = Files /\ \A f \in Files : disk'[f] = disk[f]
      BY <1>1, <1>3, <2>2 DEF DiskInv
    <3> QED BY <1>1, <3>1 DEF DiskInv
  <2> QED BY <2>1, <2>2
<1> QED BY <1>2, <1>3 DEF MoveClusters

(* The move itself.                                                        *)
LEMMA MoveFiled == FiledInv /\ MoveClusters => FiledInv'
<1> SUFFICES ASSUME FiledInv, MoveClusters PROVE FiledInv'
  OBVIOUS
<1>1. /\ disp' = disp /\ fe' = fe /\ pc = "move" /\ pc' \in {"dump", "crash"}
  BY DEF MoveClusters, Goto
<1>2. PICK st \in {"success", "already committed", "error"} : mv' = [mv EXCEPT !.status = st]
  BY DEF MoveClusters
<1>3. DOMAIN mv = {"f", "target", "left", "status", "by"}
  BY DEF FiledInv, HandInv
<1>4. /\ DOMAIN mv' = DOMAIN mv /\ mv'.f = mv.f /\ mv'.left = mv.left /\ mv'.by = mv.by
      /\ mv'.status = st
  BY <1>2, <1>3
<1>5. HandInv'
  BY <1>1, <1>2, <1>4 DEF FiledInv, HandInv, Moving
<1> QED BY <1>1, <1>5, MoveDisk DEF FiledInv

(* The dump and the push after it.  The file goes back once: it is moved   *)
(* in one piece, so that move_file does not come here again with it.       *)
LEMMA DumpFiled ==
  ASSUME Clusters <= MaxChunk, FiledInv, DumpFile
  PROVE  FiledInv'
<1>1. /\ DiskInv /\ DOMAIN disp = Files
      /\ \A f \in Files : disp[f].clusters \in 0 .. Clusters
      /\ DOMAIN fe = {"buckets", "lcns", "missed"}
      /\ Once(fe.buckets, disp) /\ HandInv
      /\ pc = "dump" /\ disk' = disk
  BY DEF FiledInv, DumpFile
<1>2. mv.status \in {"success", "already committed", "error"}
  BY <1>1 DEF HandInv
<1>3. mv.f \in Files => NotIn(fe.buckets, mv.f) /\ mv.left \in 0 .. Clusters
  BY <1>1 DEF HandInv, Moving
<1>4. DOMAIN mv = {"f", "target", "left", "status", "by"}
      /\ mv.by \in {"defrag", "set", "widen", "widen into"}
  BY <1>1 DEF HandInv, Moving
<1> DEFINE Known == {Dump(disk[mv.f]), NoDump}
<1>5. /\ mv.status = "success" =>
           \E d \in Known :
              /\ disp' = [disp EXCEPT ![mv.f] = Order(d)]
              /\ fe' = Enum!FePush(fe, disp', mv.f)
              /\ mv' = [mv EXCEPT !.left = @ - Cur, !.target = @ + Cur]
              /\ pc' \in {IF mv.left = Cur THEN "return" ELSE "open", "crash"}
      /\ mv.status = "already committed" =>
           \E d \in Known :
              /\ disp' = [disp EXCEPT ![mv.f] = Order(d)]
              /\ fe' = Enum!FePush(fe, disp', mv.f)
              /\ pc' = "throw" /\ mv' = mv
      /\ mv.status = "error" =>
           \E d \in Known :
              /\ disp' = [disp EXCEPT ![mv.f] = d]
              /\ fe' = fe
              /\ pc' = "throw" /\ mv' = mv
  <2>1. PICK d \in Known, F \in {Free, {}} :
           CASE mv.status = "success" ->
                 /\ disp' = [disp EXCEPT ![mv.f] = Order(d)]
                 /\ ge' = PopFile(ge, d, F)
                 /\ gap' = [gap EXCEPT !.freed = @ \/ PopRescans(ge, d, F)]
                 /\ fe' = Enum!FePush(fe, disp', mv.f)
                 /\ mv' = [mv EXCEPT !.left = @ - Cur, !.target = @ + Cur]
                 /\ Goto(IF mv.left = Cur THEN "return" ELSE "open", ge')
            [] mv.status = "already committed" ->
                 /\ disp' = [disp EXCEPT ![mv.f] = Order(d)]
                 /\ fe' = Enum!FePush(fe, disp', mv.f)
                 /\ pc' = "throw"
                 /\ UNCHANGED <<ge, gap, mv>>
            [] mv.status = "error" ->
                 /\ disp' = [disp EXCEPT ![mv.f] = d]
                 /\ pc' = "throw"
                 /\ UNCHANGED <<fe, ge, gap, mv>>
    BY DEF DumpFile
  <2>2. CASE mv.status = "success"
    BY <2>1, <2>2 DEF Goto
  <2>3. CASE mv.status = "already committed"
    BY <2>1, <2>3
  <2>4. CASE mv.status = "error"
    BY <2>1, <2>4
  <2> QED BY <1>2, <2>2, <2>3, <2>4
<1>6. ASSUME NEW d \in Known, mv.f \in Files
      PROVE  d.clusters \in 0 .. Clusters /\ Order(d).clusters \in 0 .. Clusters
  BY <1>1, <1>6, DumpSize DEF DiskInv
<1> HIDE DEF Known
<1>7. DiskInv'
  BY <1>1 DEF DiskInv
<1>8. ASSUME NEW x, mv.f \in Files => x.clusters \in 0 .. Clusters,
             disp' = [disp EXCEPT ![mv.f] = x]
      PROVE  /\ DOMAIN disp' = Files
             /\ \A f \in Files : disp'[f].clusters \in 0 .. Clusters
             /\ Once(fe.buckets, disp')
  <2>1. DOMAIN disp' = Files
    BY <1>1, <1>8
  <2>2. ASSUME NEW f \in Files PROVE disp'[f].clusters \in 0 .. Clusters
    <3>1. CASE f = mv.f
      BY <1>1, <1>8, <3>1
    <3>2. CASE f # mv.f
      BY <1>1, <1>8, <3>2
    <3> QED BY <3>1, <3>2
  <2>3. Once(fe.buckets, disp')
    BY <1>1, <1>3, <1>8, ChangeOnce
  <2> QED BY <2>1, <2>2, <2>3
<1>9. ASSUME Once(fe.buckets, disp'), fe' = Enum!FePush(fe, disp', mv.f)
      PROVE  Once(fe'.buckets, disp') /\ DOMAIN fe' = {"buckets", "lcns", "missed"}
  <2> DEFINE b == Enum!BucketInsert(fe.buckets, disp'[mv.f].clusters, mv.f)
  <2>1. Once(b, disp')
    BY <1>3, <1>9, PushOnce
  <2>2. \E m : fe' = [fe EXCEPT !.buckets = b, !.lcns = m]
    BY <1>9 DEF Enum!FePush
  <2> HIDE DEF b
  <2>3. fe'.buckets = b /\ DOMAIN fe' = {"buckets", "lcns", "missed"}
    BY <1>1, <2>2
  <2> QED BY <2>1, <2>3
<1>10. CASE mv.status = "success"
  <2>1. PICK d \in Known :
              /\ disp' = [disp EXCEPT ![mv.f] = Order(d)]
              /\ fe' = Enum!FePush(fe, disp', mv.f)
              /\ mv' = [mv EXCEPT !.left = @ - Cur, !.target = @ + Cur]
              /\ pc' \in {IF mv.left = Cur THEN "return" ELSE "open", "crash"}
    BY <1>5, <1>10
  <2>2. /\ DOMAIN disp' = Files
        /\ \A f \in Files : disp'[f].clusters \in 0 .. Clusters
        /\ Once(fe.buckets, disp')
    BY <1>6, <1>8, <2>1
  <2>3. Once(fe'.buckets, disp') /\ DOMAIN fe' = {"buckets", "lcns", "missed"}
    BY <1>9, <2>1, <2>2
  <2>4. mv.f \in Files => pc' \in {"return", "crash"}
    <3> SUFFICES ASSUME mv.f \in Files PROVE mv.left = Cur
      BY <2>1
    <3>1. mv.left \in Int /\ mv.left <= MaxChunk /\ MaxChunk \in Int
      BY <1>3, ChunkAssumption, WordAssumption
    <3> QED BY <3>1 DEF Cur
  <2>5. /\ DOMAIN mv' = {"f", "target", "left", "status", "by"}
        /\ mv'.f = mv.f /\ mv'.by = mv.by
    BY <1>4, <2>1
  <2>6. pc' \in {"return", "open", "crash"}
    BY <2>1
  <2>7. HandInv'
    BY <1>4, <2>4, <2>5, <2>6 DEF HandInv, Moving
  <2> QED BY <1>7, <2>2, <2>3, <2>7 DEF FiledInv
<1>11. CASE mv.status = "already committed"
  <2>1. PICK d \in Known :
              /\ disp' = [disp EXCEPT ![mv.f] = Order(d)]
              /\ fe' = Enum!FePush(fe, disp', mv.f)
              /\ pc' = "throw" /\ mv' = mv
    BY <1>5, <1>11
  <2>2. /\ DOMAIN disp' = Files
        /\ \A f \in Files : disp'[f].clusters \in 0 .. Clusters
        /\ Once(fe.buckets, disp')
    BY <1>6, <1>8, <2>1
  <2>3. Once(fe'.buckets, disp') /\ DOMAIN fe' = {"buckets", "lcns", "missed"}
    BY <1>9, <2>1, <2>2
  <2>4. HandInv'
    BY <1>4, <2>1 DEF HandInv, Moving
  <2> QED BY <1>7, <2>2, <2>3, <2>4 DEF FiledInv
<1>12. CASE mv.status = "error"
  <2>1. PICK d \in Known :
              /\ disp' = [disp EXCEPT ![mv.f] = d]
              /\ fe' = fe
              /\ pc' = "throw" /\ mv' = mv
    BY <1>5, <1>12
  <2>2. /\ DOMAIN disp' = Files
        /\ \A f \in Files : disp'[f].clusters \in 0 .. Clusters
        /\ Once(fe.buckets, disp')
    BY <1>6, <1>8, <2>1
  <2>3. HandInv'
    BY <1>4, <2>1 DEF HandInv, Moving
  <2> QED BY <1>1, <1>7, <2>1, <2>2, <2>3 DEF FiledInv
<1> QED BY <1>2, <1>10, <1>11, <1>12

(* Other programs change the volume, and only that.                        *)
LEMMA MeddlingFiled ==
  ASSUME FiledInv, UNCHANGED program, DOMAIN disk' = Files,
         \A f \in Files : disk'[f] \in Seq(Cluster) /\ IsInjective(disk'[f])
  PROVE  FiledInv'
<1>1. disp' = disp /\ fe' = fe /\ mv' = mv /\ pc' = pc
  BY DEF program
<1>2. DiskInv'
  BY DEF DiskInv
<1>3. HandInv'
  BY <1>1 DEF FiledInv, HandInv
<1> QED BY <1>1, <1>2, <1>3 DEF FiledInv

(* A file that grows takes a free cluster.                                 *)
LEMMA GrowFiled ==
  ASSUME FiledInv, NEW f \in Files, NEW x \in Cluster, Grow(f, x)
  PROVE  FiledInv'
<1> DEFINE c == disk[f]
           n == Len(c)
           t == Append(c, x)
<1>1. disk' = [disk EXCEPT ![f] = t] /\ x \notin Used /\ UNCHANGED program
  BY DEF Grow, Free
<1>2. DOMAIN disk = Files /\ c \in Seq(Cluster) /\ IsInjective(c)
  BY DEF FiledInv, DiskInv
<1>3. n \in Nat /\ DOMAIN c = 1 .. n
  BY <1>2, LenProperties
<1>4. /\ t \in Seq(Cluster) /\ DOMAIN t = 1 .. (n + 1)
      /\ \A i \in 1 .. n : t[i] = c[i]
      /\ t[n + 1] = x
  BY <1>2, AppendProperties, LenProperties
<1>5. \A i \in 1 .. n : c[i] # x
  <2> SUFFICES ASSUME NEW i \in 1 .. n PROVE c[i] \in Used
    BY <1>1
  <2>1. c[i] \in ToSet(c)
    BY <1>3 DEF ToSet
  <2> QED BY <2>1 DEF Used
<1> HIDE DEF t
<1>6. IsInjective(t)
  <2> SUFFICES ASSUME NEW i \in 1 .. (n + 1), NEW j \in 1 .. (n + 1), t[i] = t[j] PROVE i = j
    BY <1>4 DEF IsInjective
  <2>1. (i \in 1 .. n \/ i = n + 1) /\ (j \in 1 .. n \/ j = n + 1)
    BY <1>3
  <2>2. \A a, b \in 1 .. n : c[a] = c[b] => a = b
    BY <1>2, <1>3 DEF IsInjective
  <2> HIDE DEF n, c
  <2> QED BY <1>4, <1>5, <2>1, <2>2
<1>7. DOMAIN disk' = Files /\ \A g \in Files : disk'[g] = IF g = f THEN t ELSE disk[g]
  BY <1>1, <1>2
<1>8. \A g \in Files : disk'[g] \in Seq(Cluster) /\ IsInjective(disk'[g])
  BY <1>4, <1>6, <1>7 DEF FiledInv, DiskInv
<1> QED BY <1>1, <1>7, <1>8, MeddlingFiled

(* A file that shrinks loses its last cluster.                             *)
LEMMA ShrinkFiled ==
  ASSUME FiledInv, NEW f \in Files, Shrink(f)
  PROVE  FiledInv'
<1> DEFINE c == disk[f]
           n == Len(c)
           t == Front(c)
<1>1. disk' = [disk EXCEPT ![f] = t] /\ c # <<>> /\ UNCHANGED program
  BY DEF Shrink
<1>2. DOMAIN disk = Files /\ c \in Seq(Cluster) /\ IsInjective(c)
  BY DEF FiledInv, DiskInv
<1>3. n \in Nat /\ DOMAIN c = 1 .. n /\ n # 0
  BY <1>1, <1>2, LenProperties, EmptySeq
<1>4. /\ t \in Seq(Cluster) /\ DOMAIN t = 1 .. (n - 1)
      /\ \A i \in 1 .. (n - 1) : t[i] = c[i]
  <2> DEFINE u == SubSeq(c, 1, n - 1)
  <2>1. 1 \in 1 .. (Len(c) + 1) /\ n - 1 \in (1 - 1) .. Len(c)
    BY <1>3
  <2>2. /\ u \in Seq(Cluster) /\ Len(u) = ((n - 1) - 1) + 1
        /\ \A i \in 1 .. (((n - 1) - 1) + 1) : u[i] = c[(1 + i) - 1]
    <3> HIDE DEF c
    <3> QED BY <1>2, <2>1, PartOfSeq
  <2>3. ((n - 1) - 1) + 1 = n - 1 /\ \A i \in Int : (1 + i) - 1 = i
    BY <1>3
  <2>4. t = u
    BY DEF Front
  <2> HIDE DEF u, c, n
  <2>5. DOMAIN u = 1 .. (n - 1)
    BY <2>2, <2>3, LenProperties
  <2> QED BY <2>2, <2>3, <2>4, <2>5
<1> HIDE DEF t
<1>6. IsInjective(t)
  <2> SUFFICES ASSUME NEW i \in 1 .. (n - 1), NEW j \in 1 .. (n - 1), t[i] = t[j] PROVE i = j
    BY <1>4 DEF IsInjective
  <2>1. i \in DOMAIN c /\ j \in DOMAIN c
    BY <1>3
  <2> QED BY <1>2, <1>4, <2>1 DEF IsInjective
<1>7. DOMAIN disk' = Files /\ \A g \in Files : disk'[g] = IF g = f THEN t ELSE disk[g]
  BY <1>1, <1>2
<1>8. \A g \in Files : disk'[g] \in Seq(Cluster) /\ IsInjective(disk'[g])
  BY <1>4, <1>6, <1>7 DEF FiledInv, DiskInv
<1> QED BY <1>1, <1>7, <1>8, MeddlingFiled

(* Every step of the program and of the others keeps the files filed.      *)
LEMMA NextFiled ==
  ASSUME Clusters <= MaxChunk, FiledInv, [Next]_vars
  PROVE  FiledInv'
<1>1. CASE Internal /\ UNCHANGED <<disk, term, bound>>
  BY <1>1, InternalFiled
<1>2. CASE \E F : Scanning(F) /\ disk' = disk
  BY <1>2, ScanningElsewhere, ElsewhereFiled
<1>3. CASE OpenFile
  BY <1>3, OpenFiled
<1>4. CASE MoveClusters
  BY <1>4, MoveFiled
<1>5. CASE DumpFile
  BY <1>5, DumpFiled
<1>6. CASE UNCHANGED <<disk, program>>
  <2>1. \A f \in Files : disk[f] \in Seq(Cluster) /\ IsInjective(disk[f])
    BY DEF FiledInv, DiskInv
  <2> QED BY <1>6, <2>1, MeddlingFiled DEF FiledInv, DiskInv
<1>7. CASE \E f \in Files : Shrink(f) \/ \E c \in Cluster : Grow(f, c)
  BY <1>7, GrowFiled, ShrinkFiled
<1>8. CASE Program
  BY <1>1, <1>2, <1>3, <1>4, <1>5, <1>8 DEF Program
<1> QED BY <1>6, <1>7, <1>8 DEF Next, CtrlC, Finished, vars

(* Whatever fails and whatever other programs do, no file is filed twice,  *)
(* and each is filed under the size that the program has for it, so that   *)
(* pop finds it.  This holds where one call moves a whole file, as it does *)
(* on every NTFS volume: it has fewer than 2^32 clusters.                  *)
THEOREM FilesFiledBySize ==
  ASSUME Clusters <= MaxChunk
  PROVE  Spec => []FiledBySize
<1>1. ASSUME FiledInv PROVE FiledBySize
  <2> SUFFICES ASSUME NEW f \in Files
               PROVE  /\ Cardinality(Filed(f)) <= 1
                      /\ \A i \in Filed(f) : fe.buckets[i].key = disp[f].clusters
    BY DEF FiledBySize
  <2>1. Once(fe.buckets, disp)
    BY <1>1 DEF FiledInv
  <2>2. \A i \in Filed(f) : fe.buckets[i].key = disp[f].clusters
    BY <2>1 DEF Once, Filed
  <2>3. \A i, j \in Filed(f) : i = j
    BY <2>1 DEF Once, Filed
  <2>4. Filed(f) = {} \/ \E i : Filed(f) = {i}
    BY <2>3
  <2>5. Cardinality(Filed(f)) \in {0, 1}
    BY <2>4, FS_EmptySet, FS_Singleton
  <2> QED BY <2>2, <2>5
<1>2. FiledInv /\ [Next]_vars => FiledInv'
  BY NextFiled
<1> QED BY <1>1, <1>2, InitFiled, PTL DEF Spec

-----------------------------------------------------------------------------
(* What the program knows of the volume, as long as no other program       *)
(* changes it (Meddling = 0).                                              *)

(* What the last dump of a file left in f->disp.                           *)
Views(f) == {Dump(disk[f]), Order(Dump(disk[f]))} \cup (IF Faults = 0 THEN {} ELSE {NoDump})

(* Where a file may have a new place that f->disp does not show: between a *)
(* move and the dump that follows, and where ge->push has broken off.      *)
Undumped == {"dump", "crash"}

(* Until the move, all of the file is to be moved.                         *)
KnownInv ==
  /\ FiledInv
  /\ DOMAIN bound = {"meddling", "faults", "scans"}
  /\ bound.meddling = 0
  /\ Faults = 0 => bound.faults = 0
  /\ \A f \in Files : (pc \in Undumped /\ f = mv.f) \/ disp[f] \in Views(f)
  /\ pc \in {"open", "move"} /\ mv.f \in Files => mv.left = Len(disk[mv.f]) /\ mv.left # 0

(* The volume's sequences are sequences of numbers.                        *)
LEMMA ClustersAreNat ==
  ASSUME DiskInv, NEW f \in Files
  PROVE  disk[f] \in Seq(Nat)
<1>1. disk[f] \in Seq(Cluster)
  BY DEF DiskInv
<1>2. \A x \in Cluster : x \in Nat
  BY WordAssumption DEF Cluster
<1> HIDE DEF Cluster
<1>3. PICK n \in Nat : disk[f] \in [1 .. n -> Cluster]
  BY <1>1, SeqDef
<1>4. disk[f] \in [1 .. n -> Nat]
  BY <1>2, <1>3
<1> QED BY <1>4, SeqDef

(* Sizes and clusters, as the program may know them.                       *)
LEMMA ViewFacts ==
  ASSUME DiskInv, NEW f \in Files, NEW d \in Views(f), d.clusters # 0
  PROVE  /\ d \in {Dump(disk[f]), Order(Dump(disk[f]))}
         /\ d.clusters = Len(disk[f])
<1>1. disk[f] \in Seq(Nat)
  BY ClustersAreNat
<1>2. NoDump.clusters = 0
  BY DEF NoDump
<1>3. d \in {Dump(disk[f]), Order(Dump(disk[f]))}
  BY <1>2 DEF Views
<1> QED BY <1>1, <1>3, DumpFacts

(* After the first scan.                                                   *)
LEMMA InitKnown == Meddling = 0 /\ Init => KnownInv
<1> SUFFICES ASSUME Meddling = 0, Init PROVE KnownInv
  OBVIOUS
<1>1. bound = [meddling |-> Meddling, faults |-> Faults, scans |-> BlindScans] /\ pc = "run"
  BY DEF Init
<1>2. \A f \in Files : disp[f] = Order(Dump(disk[f]))
  BY DEF Init
<1> QED BY <1>1, <1>2, InitFiled DEF KnownInv, Views

(* A step that changes neither the volume nor what is known of it.         *)
LEMMA SameKnown ==
  ASSUME KnownInv, FiledInv', disk' = disk, disp' = disp, pc \notin Undumped, pc' # "dump",
         DOMAIN bound' = DOMAIN bound,
         bound'.meddling = bound.meddling, bound'.faults = bound.faults,
         pc' \in {"open", "move"} /\ mv'.f \in Files =>
            mv'.left = Len(disk[mv'.f]) /\ mv'.left # 0
  PROVE  KnownInv'
BY DEF KnownInv, Views, Undumped

(* The start of move_file.                                                 *)
LEMMA MoveFileLeft ==
  ASSUME KnownInv, NEW e, NEW f, NEW lcn, NEW by, MoveFile(e, f, lcn, by), pc \notin Undumped
  PROVE  /\ pc' \in {"return", "open"}
         /\ pc' = "open" /\ mv'.f \in Files => mv'.left = Len(disk[mv'.f]) /\ mv'.left # 0
<1>1. /\ mv' = [f |-> f, target |-> lcn, left |-> disp[f].clusters,
                status |-> "none", by |-> by]
      /\ pc' = IF disp[f].clusters = 0 THEN "return" ELSE "open"
  BY DEF MoveFile
<1>2. mv'.f = f /\ mv'.left = disp[f].clusters
  BY <1>1
<1>3. ASSUME f \in Files, disp[f].clusters # 0 PROVE disp[f].clusters = Len(disk[f])
  <2>1. disp[f] \in Views(f) /\ DiskInv
    BY <1>3 DEF KnownInv, FiledInv
  <2> QED BY <1>3, <2>1, ViewFacts
<1> QED BY <1>1, <1>2, <1>3

(* The steps between two calls into the file system.                       *)
LEMMA InternalKnown ==
  ASSUME KnownInv, FiledInv', Internal, UNCHANGED <<disk, term, bound>>
  PROVE  KnownInv'
<1> USE DEF Undumped
<1>1. /\ pc \notin Undumped /\ pc' # "dump" /\ disp' = disp
      /\ pc' \in {"open", "move"} /\ mv'.f \in Files =>
            mv'.left = Len(disk[mv'.f]) /\ mv'.left # 0
  <2>1. CASE DefragFile
    <3> DEFINE f == Head(queue)
               e == IF f = last THEN Enum!FePop(fe, disp, f) ELSE fe
               found == Gaps!Best(ge, disp[f].clusters, -1)
    <3>1. /\ disp' = disp /\ pc = "defrag"
          /\ \/ pc' = pc
             \/ \E b \in found : MoveFile(e, f, ge.list[b[2]].lcn, "defrag")
      BY <2>1 DEF DefragFile
    <3> HIDE DEF found, e, f
    <3> QED BY <3>1, MoveFileLeft
  <2>2. CASE SkipGap
    BY <2>2 DEF SkipGap, AnotherGap, Goto
  <2>3. CASE FindBestCrashes
    BY <2>3 DEF FindBestCrashes, AnotherGap
  <2>4. CASE FillGap
    BY <2>4 DEF FillGap, AnotherGap
  <2>5. CASE SetFile
    <3>1. pc = "set" /\ disp' = disp /\ MoveFile(fe, Head(files), r.lcn, "set")
      BY <2>5 DEF SetFile
    <3> QED BY <3>1, MoveFileLeft
  <2>6. CASE SetEnd
    BY <2>6 DEF SetEnd
  <2>7. CASE WidenFile
    <3>1. /\ pc = "widen" /\ disp' = disp
          /\ \E t \in WidenTargets : MoveFile(Enum!FeBuilt(fe, disp), Behind, t.lcn, t.by)
      BY <2>7 DEF WidenFile
    <3> QED BY <3>1, MoveFileLeft
  <2>8. CASE Return
    <3>1. mv.by \in {"defrag", "set", "widen", "widen into"} /\ pc = "return"
      BY <2>8 DEF Return, KnownInv, FiledInv, HandInv
    <3>2. pc' \in {"defrag", "set", "widen"} /\ disp' = disp
      BY <2>8, <3>1 DEF Return
    <3> QED BY <3>1, <3>2
  <2> QED BY <2>1, <2>2, <2>3, <2>4, <2>5, <2>6, <2>7, <2>8 DEF Internal
<1> QED BY <1>1, SameKnown

(* The steps that scan.                                                    *)
LEMMA ScanningKnown ==
  ASSUME KnownInv, FiledInv', NEW F, Scanning(F), disk' = disk,
         DOMAIN bound' = DOMAIN bound,
         bound'.meddling = bound.meddling, bound'.faults = bound.faults
  PROVE  KnownInv'
<1>1. Elsewhere
  BY ScanningElsewhere DEF KnownInv
<1>2. pc \notin Undumped
  BY DEF Undumped, Scanning, Run, DefragEnd, GapsEnd, WidenEnd, ThrowToScan, ThrowToWiden
<1> QED BY <1>1, <1>2, SameKnown DEF Elsewhere, Moving

(* A call that fails.                                                      *)
LEMMA SpendKnown ==
  ASSUME KnownInv, bound' = bound \/ Spend("faults")
  PROVE  /\ DOMAIN bound' = {"meddling", "faults", "scans"}
         /\ bound'.meddling = 0
         /\ Faults = 0 => bound' = bound /\ bound'.faults = 0
<1>1. /\ DOMAIN bound = {"meddling", "faults", "scans"} /\ bound.meddling = 0
      /\ Faults = 0 => bound.faults = 0
  BY DEF KnownInv
<1>2. CASE bound' = bound
  BY <1>1, <1>2
<1>3. CASE Spend("faults")
  <2>1. bound.faults > 0 /\ bound' = [bound EXCEPT !.faults = @ - 1]
    BY <1>1, <1>3 DEF Spend
  <2>2. Faults # 0
    BY <1>1, <2>1
  <2> QED BY <1>1, <2>1, <2>2
<1> QED BY <1>2, <1>3

(* Opening the file changes nothing but the place in the code.             *)
LEMMA OpenKnown ==
  ASSUME KnownInv, FiledInv', OpenFile
  PROVE  KnownInv'
<1>1. /\ disk' = disk /\ disp' = disp /\ mv' = mv
      /\ pc = "open" /\ pc' \in {"move", "throw"}
      /\ (bound' = bound \/ Spend("faults"))
  BY DEF OpenFile
<1>2. /\ DOMAIN bound' = {"meddling", "faults", "scans"}
      /\ bound'.meddling = 0 /\ (Faults = 0 => bound'.faults = 0)
  BY <1>1, SpendKnown
<1>3. \A f \in Files : disp'[f] \in Views(f)'
  BY <1>1 DEF KnownInv, Views, Undumped
<1>4. pc' \in {"open", "move"} /\ mv'.f \in Files =>
         mv'.left = Len(disk'[mv'.f]) /\ mv'.left # 0
  BY <1>1 DEF KnownInv
<1> QED BY <1>2, <1>3, <1>4 DEF KnownInv

(* What a move that is made makes of the file: one block at the target.    *)
LEMMA MovedWhole ==
  ASSUME Clusters <= MaxChunk, KnownInv, pc = "move", mv.f \in Files, mv.target \in Cluster
  PROVE  /\ Cur = Len(disk[mv.f]) /\ mv.left = Cur
         /\ Moved(mv.f) \in Seq(Nat) /\ Moved(mv.f) # <<>>
         /\ Len(Moved(mv.f)) = Len(disk[mv.f])
         /\ RetrievalPointers(Moved(mv.f)) = <<[lcn |-> mv.target, length |-> Len(disk[mv.f])]>>
<1> DEFINE c == disk[mv.f]
           n == Len(c)
           m == Moved(mv.f)
<1>1. /\ c \in Seq(Cluster) /\ mv.left = n /\ mv.left # 0 /\ mv.left \in 0 .. Clusters
  BY DEF KnownInv, FiledInv, DiskInv, HandInv, Moving
<1>2. n \in Nat /\ DOMAIN c = 1 .. n /\ n # 0 /\ n <= MaxChunk /\ MaxChunk \in Nat
  BY <1>1, LenProperties, ChunkAssumption, WordAssumption
<1>3. Cur = n
  BY <1>1, <1>2 DEF Cur
<1>4. mv.target \in Nat
  BY WordAssumption DEF Cluster
<1>5. m = [i \in 1 .. n |-> mv.target + i - 1]
  BY <1>2, <1>3 DEF Moved
<1> HIDE DEF n, m
<1>6. \A i \in 1 .. n : mv.target + i - 1 \in Nat /\ mv.target + i - 1 = (mv.target + i) - 1
  BY <1>2, <1>4
<1>7. m \in Seq(Nat) /\ Len(m) = n /\ \A i \in 1 .. n : m[i] = (mv.target + i) - 1
  <2>1. [i \in 1 .. n |-> mv.target + i - 1] \in [1 .. n -> Nat]
    BY <1>6
  <2>2. m \in Seq(Nat) /\ DOMAIN m = 1 .. n
    <3>1. m \in [1 .. n -> Nat]
      BY <1>5, <2>1
    <3> QED BY <1>2, <3>1, SeqDef
  <2>3. Len(m) = n
    BY <1>2, <2>2, LenProperties
  <2>4. \A i \in 1 .. n : m[i] = mv.target + i - 1
    BY <1>5
  <2> QED BY <1>6, <2>2, <2>3, <2>4
<1>8. m # <<>>
  BY <1>2, <1>7
<1>9. RetrievalPointers(m) = <<[lcn |-> mv.target, length |-> Len(m)]>>
  BY <1>4, <1>7, <1>8, ContiguousIsOne
<1> QED BY <1>1, <1>3, <1>7, <1>8, <1>9 DEF n, m

(* The move.                                                               *)
LEMMA MoveKnown ==
  ASSUME KnownInv, FiledInv', MoveClusters
  PROVE  KnownInv'
<1>1. /\ disp' = disp /\ pc = "move" /\ pc' \in Undumped
      /\ (bound' = bound \/ Spend("faults"))
      /\ (disk' = disk \/ disk' = [disk EXCEPT ![mv.f] = Moved(mv.f)])
  BY DEF MoveClusters, Goto, Undumped
<1>2. PICK st \in {"success", "already committed", "error"} : mv' = [mv EXCEPT !.status = st]
  BY DEF MoveClusters
<1>3. mv'.f = mv.f
  BY <1>2 DEF KnownInv, FiledInv, HandInv
<1>4. /\ DOMAIN bound' = {"meddling", "faults", "scans"}
      /\ bound'.meddling = 0 /\ (Faults = 0 => bound'.faults = 0)
  BY <1>1, SpendKnown
<1>5. ASSUME NEW f \in Files, f # mv.f PROVE disp'[f] \in Views(f)'
  <2>1. DOMAIN disk = Files /\ disp[f] \in Views(f)
    BY <1>5 DEF KnownInv, FiledInv, DiskInv
  <2>2. disk'[f] = disk[f]
    <3>1. CASE disk' = disk
      BY <3>1
    <3>2. CASE disk' = [disk EXCEPT ![mv.f] = Moved(mv.f)]
      BY <1>5, <2>1, <3>2
    <3> QED BY <1>1, <3>1, <3>2
  <2> QED BY <1>1, <2>1, <2>2 DEF Views
<1>6. pc' \notin {"open", "move"}
  BY <1>1 DEF Undumped
<1>7. \A f \in Files : (pc' \in Undumped /\ f = mv'.f) \/ disp'[f] \in Views(f)'
  BY <1>1, <1>3, <1>5
<1> QED BY <1>4, <1>6, <1>7 DEF KnownInv

(* The dump.                                                               *)
LEMMA DumpKnown ==
  ASSUME Clusters <= MaxChunk, KnownInv, FiledInv', DumpFile
  PROVE  KnownInv'
<1>1. /\ disk' = disk /\ pc = "dump" /\ DOMAIN disp = Files
      /\ mv.status \in {"success", "already committed", "error"}
      /\ mv.f \in Files => mv.left \in 0 .. Clusters
  BY DEF DumpFile, KnownInv, FiledInv, HandInv, Moving
<1>2. PICK d, F :
        /\ \/ d = Dump(disk[mv.f]) /\ F = Free /\ UNCHANGED bound
           \/ d = NoDump /\ F = Free /\ Spend("faults")
           \/ /\ d = Dump(disk[mv.f]) /\ F # Free
              /\ mv.status = "success" /\ PopRescans(ge, d, F)
              /\ Spend("scans")
        /\ CASE mv.status = "success" ->
                 /\ disp' = [disp EXCEPT ![mv.f] = Order(d)]
                 /\ ge' = PopFile(ge, d, F)
                 /\ gap' = [gap EXCEPT !.freed = @ \/ PopRescans(ge, d, F)]
                 /\ fe' = Enum!FePush(fe, disp', mv.f)
                 /\ mv' = [mv EXCEPT !.left = @ - Cur, !.target = @ + Cur]
                 /\ Goto(IF mv.left = Cur THEN "return" ELSE "open", ge')
            [] mv.status = "already committed" ->
                 /\ disp' = [disp EXCEPT ![mv.f] = Order(d)]
                 /\ fe' = Enum!FePush(fe, disp', mv.f)
                 /\ pc' = "throw"
                 /\ UNCHANGED <<ge, gap, mv>>
            [] mv.status = "error" ->
                 /\ disp' = [disp EXCEPT ![mv.f] = d]
                 /\ pc' = "throw"
                 /\ UNCHANGED <<fe, ge, gap, mv>>
  BY DEF DumpFile
<1>3. /\ mv'.f = mv.f
      /\ (disp' = [disp EXCEPT ![mv.f] = Order(d)] \/ disp' = [disp EXCEPT ![mv.f] = d])
      /\ pc' \in {IF mv.left = Cur THEN "return" ELSE "open", "crash", "throw"}
  <2>1. DOMAIN mv = {"f", "target", "left", "status", "by"}
    BY DEF KnownInv, FiledInv, HandInv
  <2>2. CASE mv.status = "success"
    <3>1. /\ disp' = [disp EXCEPT ![mv.f] = Order(d)]
          /\ mv' = [mv EXCEPT !.left = @ - Cur, !.target = @ + Cur]
          /\ Goto(IF mv.left = Cur THEN "return" ELSE "open", ge')
      BY <1>2, <2>2
    <3> QED BY <2>1, <3>1 DEF Goto
  <2>3. CASE mv.status = "already committed"
    BY <1>2, <2>3
  <2>4. CASE mv.status = "error"
    BY <1>2, <2>4
  <2> QED BY <1>1, <2>2, <2>3, <2>4
<1>4. mv.f \in Files => pc' \notin {"open", "move"}
  <2> SUFFICES ASSUME mv.f \in Files PROVE mv.left = Cur
    BY <1>3
  <2>0. mv.left \in 0 .. Clusters
    BY <1>1
  <2>1. mv.left \in Int /\ mv.left <= MaxChunk /\ MaxChunk \in Int
    BY <2>0, ChunkAssumption, WordAssumption
  <2> QED BY <2>1 DEF Cur
<1>5. /\ DOMAIN bound' = {"meddling", "faults", "scans"} /\ bound'.meddling = 0
      /\ Faults = 0 => bound'.faults = 0
  <2>1. /\ DOMAIN bound = {"meddling", "faults", "scans"} /\ bound.meddling = 0
        /\ Faults = 0 => bound.faults = 0
    BY DEF KnownInv
  <2>2. bound' = bound \/ Spend("faults") \/ Spend("scans")
    BY <1>2
  <2>3. CASE Spend("scans")
    BY <2>1, <2>3 DEF Spend
  <2> QED BY <2>2, <2>3, SpendKnown
<1>6. d = Dump(disk[mv.f]) \/ (d = NoDump /\ Faults # 0)
  <2>1. ASSUME Spend("faults") PROVE Faults # 0
    BY <2>1 DEF Spend, KnownInv
  <2>2. d = Dump(disk[mv.f]) \/ (d = NoDump /\ Spend("faults"))
    BY <1>2
  <2> QED BY <2>1, <2>2
<1>7. Order(NoDump) = NoDump
  BY DEF Order, NoDump
<1>8. ASSUME NEW f \in Files PROVE disp'[f] \in Views(f)'
  <2>1. CASE f = mv.f
    <3>1. disp'[f] \in {d, Order(d)}
      BY <1>1, <1>3, <2>1
    <3>2. disp'[f] \in Views(f)
      BY <1>6, <1>7, <2>1, <3>1 DEF Views
    <3> QED BY <1>1, <3>2 DEF Views
  <2>2. CASE f # mv.f
    <3>1. disp'[f] = disp[f]
      BY <1>1, <1>3, <2>2
    <3> QED BY <1>1, <2>2, <3>1 DEF KnownInv, Views
  <2> QED BY <2>1, <2>2
<1> QED BY <1>3, <1>4, <1>5, <1>8 DEF KnownInv

(* Every step of the program, alone on the volume.                         *)
LEMMA NextKnown ==
  ASSUME Clusters <= MaxChunk, KnownInv, [Next]_vars
  PROVE  KnownInv'
<1>1. FiledInv'
  BY NextFiled DEF KnownInv
<1>2. CASE Internal /\ UNCHANGED <<disk, term, bound>>
  BY <1>1, <1>2, InternalKnown
<1>3. CASE Scanning(Free) /\ UNCHANGED <<disk, term, bound>>
  BY <1>1, <1>3, ScanningKnown
<1>4. CASE Spend("scans") /\ Scanning({}) /\ UNCHANGED <<disk, term>>
  <2>1. DOMAIN bound = {"meddling", "faults", "scans"}
    BY DEF KnownInv
  <2>2. /\ DOMAIN bound' = DOMAIN bound
        /\ bound'.meddling = bound.meddling /\ bound'.faults = bound.faults
    BY <1>4, <2>1 DEF Spend
  <2> QED BY <1>1, <1>4, <2>2, ScanningKnown
<1>5. CASE OpenFile
  BY <1>1, <1>5, OpenKnown
<1>6. CASE MoveClusters
  BY <1>1, <1>6, MoveKnown
<1>7. CASE DumpFile
  BY <1>1, <1>7, DumpKnown
<1>8. CASE UNCHANGED <<disk, bound, program>>
  BY <1>1, <1>8 DEF KnownInv, Views, program
<1>9. ASSUME NEW f \in Files, Shrink(f) \/ \E c \in Cluster : Grow(f, c)
      PROVE  FALSE
  <2>1. bound["meddling"] > 0
    BY <1>9 DEF Shrink, Grow, Spend
  <2> QED BY <2>1 DEF KnownInv
<1>10. CASE Program
  BY <1>2, <1>3, <1>4, <1>5, <1>6, <1>7, <1>10 DEF Program
<1> QED BY <1>8, <1>9, <1>10 DEF Next, CtrlC, Finished, vars

(* Alone on a volume, whatever calls fail, a move never leaves a file in   *)
(* more pieces than it was in (op.cpp 50): move_file moves it whole, to    *)
(* adjacent clusters, because it knows the file's size.  One call moves a  *)
(* whole file on every NTFS volume.                                        *)
THEOREM MovesNeverFragment ==
  ASSUME Clusters <= MaxChunk, Meddling = 0
  PROVE  Spec => FragmentsShrink
<1>1. Init => KnownInv
  BY InitKnown
<1>2. KnownInv /\ [Next]_vars => KnownInv'
  BY NextKnown
<1>3. KnownInv /\ [Next]_vars =>
        [\A f \in Files : Dump(disk[f])'.fragments <= Dump(disk[f]).fragments]_disk
  <2> SUFFICES ASSUME KnownInv, [Next]_vars, disk' # disk, NEW f \in Files
               PROVE  Dump(disk'[f]).fragments <= Dump(disk[f]).fragments
    OBVIOUS
  <2>1. MoveClusters
    <3>1. ~\E g \in Files : Shrink(g) \/ \E c \in Cluster : Grow(g, c)
      BY DEF Shrink, Grow, Spend, KnownInv
    <3> QED BY <3>1 DEF Next, Program, OpenFile, DumpFile, CtrlC, Finished, vars
  <2>2. /\ pc = "move" /\ mv.target \in Cluster
        /\ disk' = [disk EXCEPT ![mv.f] = Moved(mv.f)]
    BY <2>1 DEF MoveClusters
  <2>3. DiskInv /\ DOMAIN disk = Files
    BY DEF KnownInv, FiledInv, DiskInv
  <2>4. disk[f] \in Seq(Nat)
    BY <2>3, ClustersAreNat
  <2>5. /\ Dump(disk'[f]).fragments = Len(RetrievalPointers(disk'[f]))
        /\ Dump(disk[f]).fragments = Len(RetrievalPointers(disk[f]))
    BY DEF Dump
  <2>6. RetrievalPointers(disk[f]) \in Seq(Block)
    BY <2>4, RetrievalPointersExact
  <2>7. CASE f # mv.f
    <3>1. disk'[f] = disk[f]
      BY <2>2, <2>3, <2>7
    <3> QED BY <2>5, <2>6, <3>1, LenProperties
  <2>8. CASE f = mv.f
    <3>1. disk'[f] = Moved(f)
      BY <2>2, <2>3, <2>8
    <3>2. /\ Moved(f) # <<>> /\ Len(Moved(f)) = Len(disk[f])
          /\ RetrievalPointers(Moved(f)) = <<[lcn |-> mv.target, length |-> Len(disk[f])]>>
          /\ Moved(f) \in Seq(Nat)
      BY <2>2, <2>8, MovedWhole
    <3>3. Len(RetrievalPointers(disk'[f])) = 1
      BY <3>1, <3>2
    <3>4. disk[f] # <<>>
      BY <2>4, <3>2, EmptySeq
    <3>5. RetrievalPointers(disk[f]) # <<>>
      BY <2>4, <3>4, RetrievalPointersExact
    <3>6. Len(RetrievalPointers(disk[f])) \in Nat /\ Len(RetrievalPointers(disk[f])) # 0
      BY <2>6, <3>5, LenProperties, EmptySeq
    <3> QED BY <2>5, <3>3, <3>6
  <2> QED BY <2>7, <2>8
<1> QED BY <1>1, <1>2, <1>3, PTL DEF Spec, FragmentsShrink

-----------------------------------------------------------------------------
(* The gap table: what the program takes to be free, as long as no other   *)
(* program changes the volume and no call fails.  The facts about push,    *)
(* pop and scan come from GapEnumerationProofs.                            *)

GP == INSTANCE GapEnumerationProofs WITH free <- Free

(* What the proofs about the gap table assume of its constants.            *)
LEMMA GapConstants == GP!ClustersAssumption /\ GP!NodeAssumption /\ GP!SlackAssumption
BY WordAssumption, TableAssumption
   DEF GP!ClustersAssumption, GP!NodeAssumption, GP!SlackAssumption, Cluster

(* The operators in these proofs are the ones the program uses.            *)
LEMMA SameTable ==
  /\ \A s, F : GP!Scanned(s, F) = Gaps!Scanned(s, F)
  /\ \A s, b, F : GP!PushBlock(s, b, F) = Gaps!PushBlock(s, b, F)
  /\ \A s, b, F : GP!PopBlock(s, b, F) = Gaps!PopBlock(s, b, F)
  /\ \A s : GP!Covered(s) = Gaps!Covered(s)
  /\ \A s, k : GP!Region(s, k) = Gaps!Region(s, k)
  /\ \A b : GP!Cells(b) = Gaps!Cells(b)
  /\ GP!Cluster = Cluster
<1>1. ASSUME NEW s, NEW F PROVE GP!Scanned(s, F) = Gaps!Scanned(s, F)
  BY DEF GP!Scanned, Gaps!Scanned, GP!RunStarts, Gaps!RunStarts, GP!RunEnd, Gaps!RunEnd
<1>2. ASSUME NEW s, NEW b, NEW F PROVE GP!PushBlock(s, b, F) = Gaps!PushBlock(s, b, F)
  BY <1>1 DEF GP!PushBlock, Gaps!PushBlock, GP!Prev, Gaps!Prev, GP!Region, Gaps!Region,
              GP!MergePrev, Gaps!MergePrev, GP!HasPrev, Gaps!HasPrev,
              GP!MergeNext, Gaps!MergeNext, GP!Reindexed, Gaps!Reindexed,
              GP!SizesEntry, Gaps!SizesEntry, GP!FreshNode, Gaps!FreshNode
<1>3. ASSUME NEW s, NEW b, NEW F PROVE GP!PopBlock(s, b, F) = Gaps!PopBlock(s, b, F)
  BY DEF GP!PopBlock, Gaps!PopBlock, GP!Region, Gaps!Region,
         GP!Reindexed, Gaps!Reindexed, GP!SizesEntry, Gaps!SizesEntry,
         GP!Scanned, Gaps!Scanned, GP!RunStarts, Gaps!RunStarts, GP!RunEnd, Gaps!RunEnd
<1>4. ASSUME NEW s PROVE GP!Covered(s) = Gaps!Covered(s)
  BY DEF GP!Covered, Gaps!Covered, GP!Cells, Gaps!Cells, GP!Region, Gaps!Region
<1>5. ASSUME NEW s, NEW k PROVE GP!Region(s, k) = Gaps!Region(s, k)
  BY DEF GP!Region, Gaps!Region
<1>6. ASSUME NEW b PROVE GP!Cells(b) = Gaps!Cells(b)
  BY DEF GP!Cells, Gaps!Cells
<1>7. GP!Cluster = Cluster
  BY DEF GP!Cluster, Cluster
<1> QED BY <1>1, <1>2, <1>3, <1>4, <1>5, <1>6, <1>7

(* Memory for one more region can always be had.                           *)
Memory == \A S : IsFiniteSet(S) => Node \ S # {}

TableShape(s) == DOMAIN s = {"list", "regions", "sizes", "broke"}

(* A table in use.                                                         *)
TableGood(s) ==
  /\ GP!WellFormed(s)
  /\ s.broke = FALSE
  /\ IsFiniteSet(DOMAIN s.list)

(* A table in use has the fields of a table.                               *)
LEMMA GoodShape ==
  ASSUME NEW s, TableGood(s)
  PROVE  TableShape(s)
BY DEF TableGood, TableShape, GP!WellFormed, GP!TypeOKOf

(* A scan makes a table of exactly the free clusters.                      *)
LEMMA ScanTable ==
  ASSUME NEW s, s.broke = FALSE, NEW F, F \subseteq Cluster
  PROVE  TableGood(Gaps!Scanned(s, F)) /\ Gaps!Covered(Gaps!Scanned(s, F)) = F
<1> DEFINE t == Gaps!Scanned(s, F)
<1>1. /\ GP!WellFormed(t) /\ t.broke = FALSE /\ Gaps!Covered(t) = F
  <2>1. F \subseteq GP!Cluster /\ s.broke \in BOOLEAN
    BY SameTable
  <2>2. /\ GP!WellFormed(GP!Scanned(s, F))
        /\ GP!Covered(GP!Scanned(s, F)) = F
        /\ GP!Scanned(s, F).broke = s.broke
    BY <2>1, GapConstants, GP!ScannedIsExact DEF GP!ScannedIsExact
  <2>3. GP!Scanned(s, F) = t /\ GP!Covered(t) = Gaps!Covered(t)
    BY SameTable
  <2> HIDE DEF t
  <2> QED BY <2>2, <2>3
<1>2. DOMAIN t.list \subseteq Cluster
  BY DEF Gaps!Scanned, Gaps!RunStarts
<1>3. IsFiniteSet(Cluster)
  BY WordAssumption, FS_Interval DEF Cluster
<1>4. IsFiniteSet(DOMAIN t.list)
  BY <1>2, <1>3, FS_Subset
<1> HIDE DEF t
<1> QED BY <1>1, <1>4 DEF TableGood, t

(* A push of clusters that the table does not have, unless it breaks off.  *)
LEMMA PushTable ==
  ASSUME Memory, NEW s, TableGood(s), NEW b \in GP!Run, NEW F,
         Gaps!Cells(b) \cap Gaps!Covered(s) = {}
  PROVE  LET t == Gaps!PushBlock(s, b, F)
         IN  /\ TableShape(t)
             /\ \/ t.broke = TRUE
                \/ TableGood(t) /\ Gaps!Covered(t) = Gaps!Covered(s) \cup Gaps!Cells(b)
             /\ Gaps!Covered(s) # {} => t.broke = FALSE
<1> DEFINE t == Gaps!PushBlock(s, b, F)
<1>0. TableShape(s)
  BY GoodShape
<1>1. b.length # 0
  BY DEF GP!Run
<1>2. CASE DOMAIN s.regions = {}
  <2>1. ~Gaps!MergePrev(s, b) /\ ~Gaps!MergeNext(s, b)
    BY <1>2 DEF Gaps!MergePrev, Gaps!MergeNext, Gaps!HasPrev
  <2>2. t = [Gaps!Scanned(s, F) EXCEPT !.broke = TRUE] \/ t = [s EXCEPT !.broke = TRUE]
    BY <1>1, <1>2, <2>1 DEF Gaps!PushBlock
  <2>3. DOMAIN Gaps!Scanned(s, F) = {"list", "regions", "sizes", "broke"}
    BY DEF Gaps!Scanned
  <2> HIDE DEF t
  <2>4. TableShape(t) /\ t.broke = TRUE
    BY <1>0, <2>2, <2>3 DEF TableShape
  <2>5. Gaps!Covered(s) = {}
    BY <1>2 DEF Gaps!Covered
  <2> QED BY <2>4, <2>5 DEF t
<1>3. CASE DOMAIN s.regions # {}
  <2>1. /\ GP!WellFormed(t) /\ t.broke = s.broke
        /\ Gaps!Covered(t) = Gaps!Covered(s) \cup Gaps!Cells(b)
    <3>1. GP!WellFormed(s) /\ Node \ DOMAIN s.list # {}
      BY DEF TableGood, Memory
    <3>2. GP!Cells(b) \cap GP!Covered(s) = {}
      BY SameTable
    <3>3. /\ GP!WellFormed(GP!PushBlock(s, b, F))
          /\ GP!PushBlock(s, b, F).broke = s.broke
          /\ GP!Covered(GP!PushBlock(s, b, F)) = GP!Covered(s) \cup GP!Cells(b)
      BY <1>3, <3>1, <3>2, GapConstants, GP!PushFacts DEF GP!PushFacts
    <3>4. /\ GP!PushBlock(s, b, F) = t /\ GP!Covered(t) = Gaps!Covered(t)
          /\ GP!Covered(s) = Gaps!Covered(s) /\ GP!Cells(b) = Gaps!Cells(b)
      BY SameTable
    <3> HIDE DEF t
    <3> QED BY <3>3, <3>4
  <2>2. ASSUME NEW gone, NEW n, NEW x
        PROVE  DOMAIN Gaps!Reindexed(s, gone, n, x).list = DOMAIN s.list \cup {n}
    BY DEF Gaps!Reindexed
  <2>3. t.broke = FALSE
    BY <2>1 DEF TableGood
  <2>4. \E n : DOMAIN t.list = DOMAIN s.list \cup {n}
    <3> DEFINE p == Gaps!Prev(s, b.lcn)
               q == b.lcn + b.length
               prev == Gaps!Region(s, p)
               next == Gaps!Region(s, q)
    <3>1. CASE Gaps!MergePrev(s, b) /\ Gaps!MergeNext(s, b)
      <4>1. PICK gone, n, x : t = Gaps!Reindexed(s, gone, n, x)
        BY <1>1, <3>1 DEF Gaps!PushBlock
      <4> HIDE DEF t
      <4>2. DOMAIN t.list = DOMAIN s.list \cup {n}
        BY <2>2, <4>1
      <4> QED BY <4>2
    <3>2. CASE Gaps!MergePrev(s, b) /\ ~Gaps!MergeNext(s, b)
      <4>1. PICK gone, n, x : t = Gaps!Reindexed(s, gone, n, x)
        BY <1>1, <3>2 DEF Gaps!PushBlock
      <4> HIDE DEF t
      <4>2. DOMAIN t.list = DOMAIN s.list \cup {n}
        BY <2>2, <4>1
      <4> QED BY <4>2
    <3>3. CASE ~Gaps!MergePrev(s, b) /\ Gaps!MergeNext(s, b)
      <4>1. PICK gone, n, x : t = Gaps!Reindexed(s, gone, n, x)
        BY <1>1, <3>3 DEF Gaps!PushBlock
      <4> HIDE DEF t
      <4>2. DOMAIN t.list = DOMAIN s.list \cup {n}
        BY <2>2, <4>1
      <4> QED BY <4>2
    <3>4. CASE ~Gaps!MergePrev(s, b) /\ ~Gaps!MergeNext(s, b)
      <4>1. DOMAIN s.list # {}
        <5>1. \A k \in DOMAIN s.regions : s.regions[k] \in DOMAIN s.list
          BY DEF TableGood, GP!WellFormed, GP!TypeOKOf
        <5> QED BY <1>3, <5>1
      <4>2. t = Gaps!Reindexed(s, {}, Gaps!FreshNode(s), [lcn |-> b.lcn, length |-> b.length])
        BY <1>1, <1>3, <3>4, <4>1 DEF Gaps!PushBlock
      <4> HIDE DEF t
      <4> QED BY <2>2, <4>2
    <3> QED BY <3>1, <3>2, <3>3, <3>4
  <2>5. IsFiniteSet(DOMAIN t.list)
    <3> HIDE DEF t
    <3>1. IsFiniteSet(DOMAIN s.list)
      BY DEF TableGood
    <3> QED BY <2>4, <3>1, FS_AddElement
  <2> HIDE DEF t
  <2>6. TableGood(t)
    BY <2>1, <2>3, <2>5 DEF TableGood
  <2> QED BY <2>1, <2>3, <2>6, GoodShape DEF t
<1> QED BY <1>2, <1>3

(* A table that has broken off stays broken.                               *)
LEMMA PushBroken ==
  ASSUME NEW s, TableShape(s), s.broke = TRUE, NEW b, NEW F
  PROVE  LET t == Gaps!PushBlock(s, b, F) IN TableShape(t) /\ t.broke = TRUE
<1> DEFINE t == Gaps!PushBlock(s, b, F)
<1>1. ASSUME NEW gone, NEW n, NEW x
      PROVE  /\ DOMAIN Gaps!Reindexed(s, gone, n, x) = {"list", "regions", "sizes", "broke"}
             /\ Gaps!Reindexed(s, gone, n, x).broke = TRUE
  BY DEF Gaps!Reindexed
<1>2. DOMAIN Gaps!Scanned(s, F) = {"list", "regions", "sizes", "broke"}
  BY DEF Gaps!Scanned
<1>3. \/ t = s
      \/ t = [Gaps!Scanned(s, F) EXCEPT !.broke = TRUE]
      \/ t = [s EXCEPT !.broke = TRUE]
      \/ \E gone, n, x : t = Gaps!Reindexed(s, gone, n, x)
  <2>1. CASE b.length = 0
    BY <2>1 DEF Gaps!PushBlock
  <2>2. CASE b.length # 0 /\ Gaps!MergePrev(s, b) /\ Gaps!MergeNext(s, b)
    BY <2>2 DEF Gaps!PushBlock
  <2>3. CASE b.length # 0 /\ Gaps!MergePrev(s, b) /\ ~Gaps!MergeNext(s, b)
    BY <2>3 DEF Gaps!PushBlock
  <2>4. CASE b.length # 0 /\ ~Gaps!MergePrev(s, b) /\ Gaps!MergeNext(s, b)
    BY <2>4 DEF Gaps!PushBlock
  <2>5. CASE b.length # 0 /\ ~Gaps!MergePrev(s, b) /\ ~Gaps!MergeNext(s, b)
    BY <2>5 DEF Gaps!PushBlock
  <2> QED BY <2>1, <2>2, <2>3, <2>4, <2>5
<1> HIDE DEF t
<1>4. TableShape(t) /\ t.broke = TRUE
  BY <1>1, <1>2, <1>3 DEF TableShape
<1> QED BY <1>4 DEF t

(* A pop takes the block out, or scans, or breaks off.                     *)
LEMMA PopTable ==
  ASSUME NEW s, TableGood(s), NEW b \in GP!Run, NEW F, F \subseteq Cluster
  PROVE  LET t == Gaps!PopBlock(s, b, F)
         IN  \/ t.broke = TRUE
             \/ /\ TableGood(t)
                /\ Gaps!Covered(t) \in {F, Gaps!Covered(s) \ Gaps!Cells(b)}
<1> DEFINE t == Gaps!PopBlock(s, b, F)
           here == Gaps!Region(s, b.lcn)
<1>0. TableShape(s)
  BY GoodShape
<1>1. CASE b.lcn \in DOMAIN s.regions /\ here.length < b.length
  <2>1. here.length \in Int /\ b.length \in Int
    BY <1>1 DEF TableGood, GP!WellFormed, GP!TypeOKOf, GP!Run, Gaps!Region
  <2>2. ~(here.length > b.length) /\ here.length # b.length
    BY <1>1, <2>1
  <2>3. t = [s EXCEPT !.sizes = @ \ {Gaps!SizesEntry(s, b.lcn)}, !.broke = TRUE]
    BY <1>1, <2>2 DEF Gaps!PopBlock
  <2> HIDE DEF t
  <2> QED BY <1>0, <2>3 DEF TableShape, t
<1>2. CASE ~(b.lcn \in DOMAIN s.regions /\ here.length < b.length)
  <2>1. b.lcn \in DOMAIN s.regions => b.length <= GP!Region(s, b.lcn).length
    <3> SUFFICES ASSUME b.lcn \in DOMAIN s.regions PROVE b.length <= here.length
      BY SameTable
    <3>1. here.length \in Int /\ b.length \in Int
      BY DEF TableGood, GP!WellFormed, GP!TypeOKOf, GP!Run, Gaps!Region
    <3> QED BY <1>2, <3>1
  <2>2. F \subseteq GP!Cluster /\ GP!WellFormed(s)
    BY SameTable DEF TableGood
  <2>3. /\ GP!WellFormed(GP!PopBlock(s, b, F))
        /\ GP!PopBlock(s, b, F).broke = s.broke
        /\ b.lcn \in DOMAIN s.regions =>
             /\ GP!Covered(GP!PopBlock(s, b, F)) = GP!Covered(s) \ GP!Cells(b)
             /\ GP!Cells(b) \subseteq GP!Covered(s)
        /\ b.lcn \notin DOMAIN s.regions => GP!Covered(GP!PopBlock(s, b, F)) = F
    BY <2>1, <2>2, GapConstants, GP!PopFacts DEF GP!PopFacts
  <2>4. /\ GP!PopBlock(s, b, F) = t /\ GP!Covered(t) = Gaps!Covered(t)
        /\ GP!Covered(s) = Gaps!Covered(s) /\ GP!Cells(b) = Gaps!Cells(b)
    BY SameTable
  <2>5. IsFiniteSet(DOMAIN t.list)
    <3>1. CASE b.lcn \notin DOMAIN s.regions
      <4>1. t = Gaps!Scanned(s, F)
        BY <3>1 DEF Gaps!PopBlock
      <4>2. s.broke = FALSE
        BY DEF TableGood
      <4> HIDE DEF t
      <4> QED BY <4>1, <4>2, ScanTable DEF TableGood
    <3>2. CASE b.lcn \in DOMAIN s.regions
      <4>1. here.length \in Int /\ b.length \in Int /\ s.regions[b.lcn] \in DOMAIN s.list
        BY <3>2 DEF TableGood, GP!WellFormed, GP!TypeOKOf, GP!Run, Gaps!Region
      <4>2. ASSUME NEW n \in DOMAIN s.list, NEW gone, NEW x
            PROVE  DOMAIN Gaps!Reindexed(s, gone, n, x).list = DOMAIN s.list
        BY DEF Gaps!Reindexed
      <4>3. DOMAIN t.list = DOMAIN s.list
        <5>1. CASE here.length > b.length
          <6>0. ~(here.length < b.length) /\ here.length # b.length
            BY <4>1, <5>1
          <6>1. t = Gaps!Reindexed(s, {b.lcn}, s.regions[b.lcn],
                     [lcn |-> here.lcn + b.length, length |-> here.length - b.length])
            BY <3>2, <5>1, <6>0 DEF Gaps!PopBlock
          <6> HIDE DEF t
          <6> QED BY <4>1, <4>2, <6>1
        <5>2. CASE here.length = b.length
          <6>1. ~(here.length > b.length) /\ ~(here.length < b.length)
            BY <4>1, <5>2
          <6>2. \E x, y : t = [s EXCEPT !.sizes = x, !.regions = y]
            BY <3>2, <5>2, <6>1 DEF Gaps!PopBlock
          <6> HIDE DEF t
          <6> QED BY <1>0, <6>2 DEF TableShape
        <5> QED BY <1>2, <3>2, <4>1, <5>1, <5>2
      <4> HIDE DEF t
      <4> QED BY <4>3 DEF TableGood
    <3> QED BY <3>1, <3>2
  <2> HIDE DEF t
  <2>6. TableGood(t)
    BY <2>3, <2>4, <2>5 DEF TableGood
  <2>7. Gaps!Covered(t) \in {F, Gaps!Covered(s) \ Gaps!Cells(b)}
    BY <2>3, <2>4
  <2> QED BY <2>6, <2>7 DEF t
<1> QED BY <1>1, <1>2

(* The equation of the fold in push(f), over m blocks.                     *)
PushEquation(it, g, bm, F, m) ==
  it = [s \in SUBSET (1 .. m) |->
          IF s = {} THEN g ELSE Gaps!PushBlock(it[s \ {Max(s)}], bm[Max(s)], F)]

(* It has a solution.                                                      *)
LEMMA PushExists ==
  ASSUME NEW g, NEW bm, NEW F, NEW n \in Nat
  PROVE  \E it : PushEquation(it, g, bm, F, n)
<1> DEFINE Op(t, i) == Gaps!PushBlock(t, bm[i], F)
           Eq(it, m) == it = [s \in SUBSET (1 .. m) |->
                                IF s = {} THEN g ELSE Op(it[s \ {Max(s)}], Max(s))]
           Bad == { m \in 0 .. n : ~\E it : Eq(it, m) }
<1>0. \A it, m : Eq(it, m) <=> PushEquation(it, g, bm, F, m)
  BY DEF PushEquation
<1> HIDE DEF Op
<1>1. SUFFICES ASSUME Bad # {} PROVE FALSE
  <2>1. n \in 0 .. n
    OBVIOUS
  <2>2. Bad = {} => \E it : Eq(it, n)
    BY <2>1
  <2> HIDE DEF Eq, Bad
  <2> QED BY <1>0, <2>2
<1>2. PICK m \in Bad : \A k \in Bad : m <= k
  <2>1. Bad \subseteq Nat
    OBVIOUS
  <2> HIDE DEF Bad
  <2> QED BY <1>1, <2>1, LeastNumber
<1>3. m # 0
  <2> SUFFICES ASSUME m = 0 PROVE FALSE
    OBVIOUS
  <2> DEFINE it == [s \in SUBSET (1 .. 0) |-> g]
  <2>1. \A s \in SUBSET (1 .. 0) : s = {}
    OBVIOUS
  <2>2. Eq(it, 0)
    BY <2>1
  <2> QED BY <1>2, <2>2
<1>4. m \in Nat /\ m \in 1 .. n /\ m - 1 \in 0 .. n /\ m - 1 \notin Bad
  <2>1. m \in 0 .. n
    OBVIOUS
  <2> HIDE DEF Bad
  <2>2. m - 1 \in Int /\ ~(m <= m - 1)
    BY <2>1
  <2> QED BY <1>2, <1>3, <2>1, <2>2
<1>5. PICK h : Eq(h, m - 1)
  BY <1>4
<1> DEFINE it == [s \in SUBSET (1 .. m) |-> IF m \in s THEN Op(h[s \ {m}], m) ELSE h[s]]
<1>6. ASSUME NEW s \in SUBSET (1 .. m), m \notin s
      PROVE  s \in SUBSET (1 .. (m - 1))
  BY <1>4, <1>6
<1>7. ASSUME NEW s \in SUBSET (1 .. m)
      PROVE  it[s] = IF s = {} THEN g ELSE Op(it[s \ {Max(s)}], Max(s))
  <2>1. CASE m \in s
    <3>1. Max(s) \in s /\ m <= Max(s)
      <4>1. s \subseteq 1 .. m /\ s # {} /\ m \in Nat
        BY <1>4, <2>1
      <4> HIDE DEF Bad, it
      <4> QED BY <2>1, <4>1, MaxOfSet
    <3>2. Max(s) = m
      <4>1. Max(s) \in 1 .. m
        BY <3>1
      <4> QED BY <1>4, <3>1, <4>1
    <3>3. s \ {m} \in SUBSET (1 .. m)
      OBVIOUS
    <3>4. it[s \ {m}] = h[s \ {m}] /\ it[s] = Op(h[s \ {m}], m)
      BY <2>1, <3>3
    <3> QED BY <2>1, <3>2, <3>4
  <2>2. CASE m \notin s
    <3>1. s \in SUBSET (1 .. (m - 1)) /\ it[s] = h[s]
      BY <1>6, <2>2
    <3>2. h[s] = IF s = {} THEN g ELSE Op(h[s \ {Max(s)}], Max(s))
      BY <1>5, <3>1
    <3>3. it[s \ {Max(s)}] = h[s \ {Max(s)}]
      BY <2>2, <3>1
    <3> QED BY <3>1, <3>2, <3>3
  <2> QED BY <2>1, <2>2
<1>8. Eq(it, m)
  BY <1>7
<1> QED BY <1>2, <1>8

(* The tables on the way.                                                  *)
PushTrace(h, g, bm, F, result) ==
  /\ h[0] = g
  /\ \A k \in 1 .. Len(bm) : h[k] = Gaps!PushBlock(h[k - 1], bm[k], F)
  /\ h[Len(bm)] = result

(* push(f) takes up one block after the other.                             *)
LEMMA PushSteps ==
  ASSUME NEW g, NEW d, NEW S, d.blockmap \in Seq(S), NEW F
  PROVE  \E h : PushTrace(h, g, d.blockmap, F, PushFile(g, d, F))
<1> DEFINE bm == d.blockmap
           n == Len(bm)
           it == CHOOSE t : PushEquation(t, g, bm, F, n)
           h == [k \in 0 .. n |-> it[1 .. k]]
<1>1. n \in Nat /\ DOMAIN bm = 1 .. n
  BY LenProperties
<1>2. PushEquation(it, g, bm, F, n)
  <2>1. \E t : PushEquation(t, g, bm, F, n)
    <3> HIDE DEF bm, n
    <3> QED BY <1>1, PushExists
  <2> QED BY <2>1
<1>3. PushFile(g, d, F) = it[1 .. n]
  <2>1. PushFile(g, d, F) =
          (CHOOSE t : t = [s \in SUBSET DOMAIN bm |->
                             IF s = {} THEN g
                             ELSE Gaps!PushBlock(t[s \ {Max(s)}], bm[Max(s)], F)])[DOMAIN bm]
    BY DEF PushFile, FoldLeft, MapThenFoldSet
  <2> QED BY <1>1, <2>1 DEF PushEquation
<1> HIDE DEF it
<1>4. \A s \in SUBSET (1 .. n) :
         it[s] = IF s = {} THEN g ELSE Gaps!PushBlock(it[s \ {Max(s)}], bm[Max(s)], F)
  BY <1>2 DEF PushEquation
<1> HIDE DEF bm, n
<1>5. h[0] = g
  <2>1. 1 .. 0 = {} /\ 0 \in 0 .. n
    BY <1>1
  <2> QED BY <1>4, <2>1
<1>6. ASSUME NEW k \in 1 .. n PROVE h[k] = Gaps!PushBlock(h[k - 1], bm[k], F)
  <2>0. k \in Nat /\ k \in 1 .. k /\ (\A i \in 1 .. k : i \in 1 .. n)
        /\ k \in 0 .. n /\ k - 1 \in 0 .. n
    BY <1>1
  <2>1. 1 .. k \in SUBSET (1 .. n) /\ 1 .. k # {}
    BY <2>0
  <2>2. Max(1 .. k) \in 1 .. k /\ k <= Max(1 .. k)
    BY <2>0, <2>1, MaxOfSet
  <2>3. Max(1 .. k) = k
    BY <2>0, <2>2
  <2>4. (1 .. k) \ {k} = 1 .. (k - 1)
    BY <2>0
  <2>5. it[1 .. k] = Gaps!PushBlock(it[1 .. (k - 1)], bm[k], F)
    BY <1>4, <2>1, <2>3, <2>4
  <2> QED BY <2>0, <2>5
<1>7. h[n] = it[1 .. n]
  BY <1>1
<1> HIDE DEF h
<1>8. PushTrace(h, g, bm, F, PushFile(g, d, F))
  BY <1>3, <1>5, <1>6, <1>7 DEF PushTrace, n
<1> QED BY <1>8 DEF bm

(* The blocks of a list, inside the volume, are regions.                   *)
LEMMA BlocksAreRuns ==
  ASSUME NEW b \in Block, Gaps!Cells(b) \subseteq Cluster
  PROVE  b \in GP!Run
<1>1. b.lcn \in Nat /\ b.length \in Nat \ {0} /\ b = [lcn |-> b.lcn, length |-> b.length]
  BY DEF Block
<1>2. Clusters \in Nat
  BY WordAssumption
<1>3. b.lcn \in Gaps!Cells(b) /\ b.lcn + b.length - 1 \in Gaps!Cells(b)
  BY <1>1 DEF Gaps!Cells
<1>4. b.lcn \in 0 .. (Clusters - 1) /\ b.lcn + b.length - 1 \in 0 .. (Clusters - 1)
  BY <1>3 DEF Cluster
<1>5. b.lcn + b.length <= Clusters /\ b.length \in 1 .. Clusters
  BY <1>1, <1>2, <1>4
<1> QED BY <1>1, <1>4, <1>5 DEF GP!Run, GP!Cluster

(* push(f) of a file whose clusters the table does not have.               *)
LEMMA PushFileTable ==
  ASSUME Memory, NEW g, TableGood(g), NEW d \in Disp, NEW F,
         CellsOf(d.blockmap) \subseteq Cluster, BlocksApart(d.blockmap),
         CellsOf(d.blockmap) \cap Gaps!Covered(g) = {}
  PROVE  LET t == PushFile(g, d, F)
         IN  /\ \/ t.broke = TRUE
                \/ TableGood(t) /\ Gaps!Covered(t) = Gaps!Covered(g) \cup CellsOf(d.blockmap)
             /\ Gaps!Covered(g) # {} => t.broke = FALSE
<1> DEFINE bm == d.blockmap
           n == Len(bm)
<1>1. bm \in Seq(Block) /\ n \in Nat /\ DOMAIN bm = 1 .. n /\ \A i \in 1 .. n : bm[i] \in Block
  BY LenProperties DEF Disp
<1>0. PICK h : PushTrace(h, g, bm, F, PushFile(g, d, F))
  BY <1>1, PushSteps
<1>2. /\ h[0] = g
      /\ \A k \in 1 .. n : h[k] = Gaps!PushBlock(h[k - 1], bm[k], F)
      /\ PushFile(g, d, F) = h[n]
  BY <1>0 DEF PushTrace
<1>3. /\ \A i \in 1 .. n : Gaps!Cells(bm[i]) = CellsAt(bm, i)
      /\ CellsOf(bm) = UNION { CellsAt(bm, i) : i \in 1 .. n }
  BY <1>1 DEF CellsAt, CellsOf, Gaps!Cells
<1>4. \A i \in 1 .. n : bm[i] \in GP!Run
  <2> SUFFICES ASSUME NEW i \in 1 .. n PROVE bm[i] \in GP!Run
    OBVIOUS
  <2>1. Gaps!Cells(bm[i]) \subseteq Cluster
    BY <1>3
  <2> QED BY <1>1, <2>1, BlocksAreRuns
<1>5. /\ \A i, j \in 1 .. n : i # j => CellsAt(bm, i) \cap CellsAt(bm, j) = {}
      /\ CellsOf(bm) \cap Gaps!Covered(g) = {}
  BY <1>1 DEF BlocksApart
<1> HIDE DEF bm, n
<1> DEFINE Upto(k) == Gaps!Covered(g) \cup (UNION { CellsAt(bm, i) : i \in 1 .. k })
           Good(k) == /\ TableShape(h[k])
                      /\ h[k].broke = TRUE \/ (TableGood(h[k]) /\ Gaps!Covered(h[k]) = Upto(k))
                      /\ Gaps!Covered(g) # {} => h[k].broke = FALSE
           Bad == { k \in 0 .. n : ~Good(k) }
<1>6. Bad = {}
  <2> SUFFICES ASSUME Bad # {} PROVE FALSE
    OBVIOUS
  <2>1. Bad \subseteq Nat
    BY <1>1
  <2>2. PICK m \in Bad : \A k \in Bad : m <= k
    <3> HIDE DEF Bad
    <3> QED BY <2>1, LeastNumber
  <2>3. m \in 0 .. n /\ ~Good(m)
    OBVIOUS
  <2>4. m # 0
    <3>1. 1 .. 0 = {}
      OBVIOUS
    <3>2. Upto(0) = Gaps!Covered(g)
      BY <3>1
    <3> HIDE DEF Upto
    <3>3. Good(0)
      BY <1>2, <3>2, GoodShape DEF TableGood
    <3> HIDE DEF Good
    <3> QED BY <2>3, <3>3
  <2>5. m \in Int /\ m \in 1 .. n /\ m - 1 \in 0 .. n /\ ~(m <= m - 1)
    BY <1>1, <2>3, <2>4
  <2>6. Good(m - 1)
    <3>1. m - 1 \notin Bad
      <4> HIDE DEF Bad
      <4> QED BY <2>2, <2>5
    <3> HIDE DEF Good
    <3> QED BY <2>5, <3>1
  <2>7. h[m] = Gaps!PushBlock(h[m - 1], bm[m], F)
    BY <1>2, <2>5
  <2>8. CASE h[m - 1].broke = TRUE
    <3>1. TableShape(h[m - 1]) /\ Gaps!Covered(g) = {}
      BY <2>6, <2>8
    <3>2. TableShape(h[m]) /\ h[m].broke = TRUE
      BY <2>7, <2>8, <3>1, PushBroken
    <3> QED BY <2>3, <3>1, <3>2
  <2>9. CASE TableGood(h[m - 1]) /\ Gaps!Covered(h[m - 1]) = Upto(m - 1)
    <3>1. /\ 1 .. m = (1 .. (m - 1)) \cup {m}
          /\ \A i \in 1 .. (m - 1) : i \in 1 .. n /\ i # m
      BY <1>1, <2>5
    <3>2. bm[m] \in GP!Run /\ Gaps!Cells(bm[m]) = CellsAt(bm, m)
      BY <1>3, <1>4, <2>5
    <3>3. CellsAt(bm, m) \cap Upto(m - 1) = {}
      BY <1>3, <1>5, <2>5, <3>1
    <3>4. Upto(m) = Upto(m - 1) \cup CellsAt(bm, m)
      BY <3>1
    <3>8. Gaps!Covered(g) # {} => Gaps!Covered(h[m - 1]) # {}
      BY <2>9
    <3> HIDE DEF Upto
    <3>5. Gaps!Cells(bm[m]) \cap Gaps!Covered(h[m - 1]) = {}
      BY <2>9, <3>2, <3>3
    <3>6. /\ TableShape(h[m])
          /\ \/ h[m].broke = TRUE
             \/ /\ TableGood(h[m])
                /\ Gaps!Covered(h[m]) = Gaps!Covered(h[m - 1]) \cup Gaps!Cells(bm[m])
          /\ Gaps!Covered(h[m - 1]) # {} => h[m].broke = FALSE
      <4>1. PICK t : t = h[m - 1]
        OBVIOUS
      <4>2. /\ TableGood(t) /\ bm[m] \in GP!Run /\ Gaps!Cells(bm[m]) \cap Gaps!Covered(t) = {}
            /\ h[m] = Gaps!PushBlock(t, bm[m], F)
        BY <2>7, <2>9, <3>2, <3>5, <4>1
      <4>3. LET x == Gaps!PushBlock(t, bm[m], F)
            IN  /\ TableShape(x)
                /\ \/ x.broke = TRUE
                   \/ /\ TableGood(x)
                      /\ Gaps!Covered(x) = Gaps!Covered(t) \cup Gaps!Cells(bm[m])
                /\ Gaps!Covered(t) # {} => x.broke = FALSE
        BY <4>2, PushTable
      <4> QED BY <4>1, <4>2, <4>3
    <3>7. Good(m)
      BY <2>9, <3>2, <3>4, <3>6, <3>8
    <3> HIDE DEF Good
    <3> QED BY <2>3, <3>7
  <2> QED BY <2>6, <2>8, <2>9
<1>7. n \in 0 .. n
  BY <1>1
<1>8. Good(n)
  <2> HIDE DEF Good
  <2> QED BY <1>6, <1>7
<1>9. Upto(n) = Gaps!Covered(g) \cup CellsOf(bm)
  BY <1>3
<1> HIDE DEF Upto
<1> QED BY <1>2, <1>8, <1>9 DEF bm

(* pop(f) of a file in one piece.                                          *)
LEMMA PopFileOne ==
  ASSUME NEW g, NEW d, NEW b, d.blockmap = <<b>>, NEW F
  PROVE  PopFile(g, d, F) = Gaps!PopBlock(g, b, F)
<1> DEFINE Eq(t) == t = [s \in SUBSET {1} |->
                           IF s = {} THEN g
                           ELSE Gaps!PopBlock(t[s \ {Max(s)}], <<b>>[Max(s)], F)]
           it == CHOOSE t : Eq(t)
           u == [s \in SUBSET {1} |-> IF s = {} THEN g ELSE Gaps!PopBlock(g, b, F)]
<1>1. Max({1}) = 1
  <2>1. {1} \subseteq 1 .. 1 /\ {1} # {} /\ 1 \in Nat
    OBVIOUS
  <2>2. Max({1}) \in {1}
    BY <2>1, MaxOfSet
  <2> QED BY <2>2
<1>2. /\ \A s \in SUBSET {1} : s = {} \/ s = {1}
      /\ {} \in SUBSET {1} /\ {1} \in SUBSET {1} /\ {1} \ {1} = {} /\ {1} # {}
  OBVIOUS
<1>3. DOMAIN <<b>> = {1} /\ <<b>>[1] = b
  OBVIOUS
<1>4. Eq(u)
  <2>1. u[{}] = g
    BY <1>2
  <2>2. ASSUME NEW s \in SUBSET {1}
        PROVE  u[s] = IF s = {} THEN g ELSE Gaps!PopBlock(u[s \ {Max(s)}], <<b>>[Max(s)], F)
    BY <1>1, <1>2, <1>3, <2>1
  <2> QED BY <2>2
<1>5. Eq(it)
  <2> HIDE DEF Eq
  <2> QED BY <1>4
<1>6. PopFile(g, d, F) = it[{1}]
  <2>1. PopFile(g, d, F) =
          (CHOOSE t : t = [s \in SUBSET DOMAIN <<b>> |->
                             IF s = {} THEN g
                             ELSE Gaps!PopBlock(t[s \ {Max(s)}], <<b>>[Max(s)], F)])[DOMAIN <<b>>]
    BY DEF PopFile, FoldLeft, MapThenFoldSet
  <2> QED BY <1>3, <2>1
<1> HIDE DEF it
<1>7. it[{}] = g
  BY <1>2, <1>5
<1>8. it[{1}] = Gaps!PopBlock(it[{1} \ {Max({1})}], <<b>>[Max({1})], F)
  <2>1. \A s \in SUBSET {1} : it[s] = IF s = {} THEN g
           ELSE Gaps!PopBlock(it[s \ {Max(s)}], <<b>>[Max(s)], F)
    BY <1>5
  <2> QED BY <1>2, <2>1
<1> QED BY <1>1, <1>2, <1>3, <1>6, <1>7, <1>8

(* defrag's first loop, for one file.                                      *)
Fragmented1(q, e) == IF disp[e.file].fragments > 1 THEN Append(q, e.file) ELSE q

(* The queue as the loop fills it.                                         *)
FragmentedTrace(h, n) ==
  /\ h[0] = <<>> /\ h[n] = Fragmented
  /\ \A k \in 1 .. n : h[k] = Fragmented1(h[k - 1], fe.buckets[k])

(* defrag's queue, file after file.                                        *)
LEMMA FragmentedSteps ==
  ASSUME NEW S, fe.buckets \in Seq(S), \A i \in DOMAIN fe.buckets : fe.buckets[i].file \in Files
  PROVE  \E h \in [0 .. Len(fe.buckets) -> Seq(Files)] : FragmentedTrace(h, Len(fe.buckets))
<1> DEFINE n == Len(fe.buckets)
           A == Seq(Files)
           base == <<>>
           step == [i \in 1 .. n |-> [b \in A |-> Fragmented1(b, fe.buckets[i])]]
           Sol(it) == [s \in SUBSET (1 .. n) |->
                         IF s = {} THEN base ELSE Fragmented1(it[s \ {Max(s)}], fe.buckets[Max(s)])]
           g == CHOOSE it : it = Sol(it)
<1>1. n \in Nat /\ DOMAIN fe.buckets = 1 .. n /\ \A i \in 1 .. n : fe.buckets[i].file \in Files
  BY LenProperties
<1>2. Fragmented = g[1 .. n]
  <2>1. Fragmented =
          (CHOOSE it : it = [s \in SUBSET DOMAIN fe.buckets |->
                               IF s = {} THEN <<>>
                               ELSE Fragmented1(it[s \ {Max(s)}], fe.buckets[Max(s)])])
            [DOMAIN fe.buckets]
    BY DEF Fragmented, FoldLeft, MapThenFoldSet, Fragmented1
  <2> QED BY <1>1, <2>1
<1>3. base \in A /\ \A i \in 1 .. n, b \in A : Fragmented1(b, fe.buckets[i]) \in A
  BY <1>1 DEF Fragmented1
<1>4. base \in A /\ step \in [1 .. n -> [A -> A]]
  BY <1>3
<1>5. \A i \in 1 .. n, b \in A : step[i][b] = Fragmented1(b, fe.buckets[i])
  OBVIOUS
<1> HIDE DEF step
<1>6. \A s \in SUBSET (1 .. n) : s # {} => Max(s) \in 1 .. n
  BY <1>1, MaxOfSet
<1>7. \E it : it = Sol(it)
  <2>1. PICK h \in [SUBSET (1 .. n) -> A] : FoldEquation(h, n, base, step)
    <3> HIDE DEF A, base, n
    <3> QED BY <1>1, <1>4, FoldExists
  <2>2. ASSUME NEW s \in SUBSET (1 .. n)
        PROVE  h[s] = IF s = {} THEN base ELSE Fragmented1(h[s \ {Max(s)}], fe.buckets[Max(s)])
    <3>1. CASE s = {}
      BY <2>1, <3>1 DEF FoldEquation
    <3>2. CASE s # {}
      <4>1. s \ {Max(s)} \in SUBSET (1 .. n) /\ h[s \ {Max(s)}] \in A
        BY <2>1
      <4> QED BY <1>5, <1>6, <2>1, <3>2, <4>1 DEF FoldEquation
    <3> QED BY <3>1, <3>2
  <2>3. h = Sol(h)
    BY <2>1, <2>2
  <2> QED BY <2>3
<1>8. g = Sol(g)
  <2> HIDE DEF Sol
  <2> QED BY <1>7
<1> HIDE DEF g
<1>9. FoldWithin(g, n, A, base, step)
  <2>1. g[{}] = base
    BY <1>8
  <2>2. ASSUME NEW s \in SUBSET (1 .. n), s # {}, g[s \ {Max(s)}] \in A
        PROVE  g[s] = step[Max(s)][g[s \ {Max(s)}]]
    <3>1. g[s] = Fragmented1(g[s \ {Max(s)}], fe.buckets[Max(s)])
      BY <1>8, <2>2
    <3> QED BY <1>5, <1>6, <2>2, <3>1
  <2> QED BY <2>1, <2>2 DEF FoldWithin
<1>10. PICK h \in [0 .. n -> A] : StepByStep(h, n, base, step, g[1 .. n])
  <2>0. n \in Nat
    BY <1>1
  <2> HIDE DEF A, base, n
  <2> QED BY <1>4, <1>9, <2>0, FoldSteps
<1>11. /\ h[0] = base /\ h[n] = g[1 .. n]
       /\ \A k \in 1 .. n : h[k] = step[k][h[k - 1]]
  BY <1>10 DEF StepByStep
<1>12. ASSUME NEW k \in 1 .. n PROVE h[k] = Fragmented1(h[k - 1], fe.buckets[k])
  <2>1. k - 1 \in 0 .. n
    BY <1>1
  <2>2. h[k - 1] \in A
    BY <1>10, <2>1
  <2> HIDE DEF A, base, n
  <2> QED BY <1>5, <1>11, <2>2
<1> QED BY <1>2, <1>10, <1>11, <1>12 DEF FragmentedTrace

(* They are files.                                                         *)
LEMMA FragmentedFiles ==
  ASSUME NEW S, fe.buckets \in Seq(S), \A i \in DOMAIN fe.buckets : fe.buckets[i].file \in Files
  PROVE  Fragmented \in Seq(Files)
<1>1. PICK h \in [0 .. Len(fe.buckets) -> Seq(Files)] : FragmentedTrace(h, Len(fe.buckets))
  BY FragmentedSteps
<1>2. Len(fe.buckets) \in 0 .. Len(fe.buckets)
  BY LenProperties
<1> QED BY <1>1, <1>2 DEF FragmentedTrace

(* The operators that FindBest takes from the libraries.                   *)
LEMMA SameFill ==
  /\ \A S : Fill!Cardinality(S) = Cardinality(S)
  /\ \A s, k : Fill!RemoveAt(s, k) = RemoveAt(s, k)
  /\ \A S : Fill!Max(S) = Max(S)
  /\ \A s : Fill!Reverse(s) = Reverse(s)
<1>1. ASSUME NEW S PROVE Fill!Cardinality(S) = Cardinality(S)
  BY DEF Fill!Cardinality, Cardinality, Fill!IsFiniteSet, IsFiniteSet
<1>2. ASSUME NEW s, NEW k PROVE Fill!RemoveAt(s, k) = RemoveAt(s, k)
  BY DEF Fill!RemoveAt, RemoveAt
<1>3. ASSUME NEW S PROVE Fill!Max(S) = Max(S)
  BY DEF Fill!Max, Max
<1>4. ASSUME NEW s PROVE Fill!Reverse(s) = Reverse(s)
  BY DEF Fill!Reverse, Reverse
<1> QED BY <1>1, <1>2, <1>3, <1>4

(* Buckets of files.                                                       *)
OfFiles(b) == \A i \in DOMAIN b : b[i].file \in Files

(* Keeping a file in mind (known_).                                        *)
LEMMA KnownInsertType ==
  ASSUME NEW S, NEW known \in Seq(S), NEW d, NEW e \in S
  PROVE  Fill!KnownInsert(known, d, e) \in Seq(S) /\ Fill!KnownInsert(known, d, e) # <<>>
<1> DEFINE T == { i \in DOMAIN known : known[i].key = e.key }
           k == Fill!Cardinality(T)
           more == IF (e.key < 4 /\ k < 1) \/ k < 4 THEN Append(known, e) ELSE known
           worse == { i \in DOMAIN more : /\ more[i].key = e.key
                                          /\ Fill!HeadLcn(d[more[i].file]) < Fill!HeadLcn(d[e.file]) }
           first == CHOOSE i \in worse : \A j \in worse : i <= j
<1>0. Append(known, e) \in Seq(S) /\ Append(known, e) # <<>>
  BY AppendProperties
<1>1. more \in Seq(S) /\ more # <<>>
  <2>1. CASE known = <<>>
    <3>1. T = {}
      BY <2>1
    <3>2. k = 0
      BY <3>1, SameFill, FS_EmptySet
    <3> HIDE DEF k
    <3> QED BY <1>0, <3>2
  <2>2. CASE known # <<>>
    BY <1>0, <2>2
  <2> QED BY <2>1, <2>2
<1>2. Fill!KnownInsert(known, d, e) =
        IF worse = {} THEN more ELSE Append(Fill!RemoveAt(more, first), e)
  BY DEF Fill!KnownInsert
<1> HIDE DEF more
<1>3. ASSUME worse # {} PROVE first \in 1 .. Len(more)
  <2>1. worse \subseteq Nat /\ worse \subseteq 1 .. Len(more)
    BY <1>1, LenProperties
  <2> HIDE DEF worse
  <2>2. \E i \in worse : \A j \in worse : i <= j
    BY <1>3, <2>1, LeastNumber
  <2> QED BY <2>1, <2>2
<1> HIDE DEF worse, first
<1>4. ASSUME worse # {} PROVE Fill!RemoveAt(more, first) \in Seq(S)
  <2>1. RemoveAt(more, first) \in Seq(S)
    BY <1>1, <1>3, <1>4, RemoveAtProperties
  <2> QED BY <2>1, SameFill
<1> QED BY <1>1, <1>2, <1>4, AppendProperties

(* The state of the candidate loop.                                        *)
Search(S) == [rvs : Seq(Files), length : Int, known : Seq(S)]

(* One turn of the candidate loop.                                         *)
LEMMA ConsiderType ==
  ASSUME NEW d, \A f \in Files : d[f].clusters \in Int,
         NEW S, NEW st \in Search(S), NEW lcn, NEW e \in S, e.file \in Files
  PROVE  Fill!Consider(st, d, lcn, e) \in Search(S)
<1>1. /\ st.rvs \in Seq(Files) /\ st.length \in Int /\ st.known \in Seq(S)
  BY DEF Search
<1>2. Append(st.rvs, e.file) \in Seq(Files) /\ st.length - d[e.file].clusters \in Int
  BY <1>1, AppendProperties
<1>3. Fill!KnownInsert(st.known, d, e) \in Seq(S)
  BY <1>1, KnownInsertType
<1>4. \/ Fill!Consider(st, d, lcn, e) = st
      \/ Fill!Consider(st, d, lcn, e) = [st EXCEPT !.rvs = Append(@, e.file),
                                                  !.length = @ - d[e.file].clusters]
      \/ Fill!Consider(st, d, lcn, e) = [st EXCEPT !.known = Fill!KnownInsert(@, d, e)]
  BY DEF Fill!Consider
<1> QED BY <1>2, <1>3, <1>4 DEF Search

(* The files that are not too large.                                       *)
SmallOnes(b, length) == { i \in DOMAIN b : b[i].key <= length }

(* The candidates, from the largest down.                                  *)
Downwards(b, length) == Fill!Reverse(SubSeq(b, 1, Fill!Cardinality(SmallOnes(b, length))))

(* They are files of the index: its first ones, turned around.             *)
LEMMA DownwardsType ==
  ASSUME NEW S, NEW b \in Seq(S), OfFiles(b), NEW length
  PROVE  /\ Downwards(b, length) \in Seq(S) /\ OfFiles(Downwards(b, length))
         /\ Fill!Cardinality(SmallOnes(b, length)) \in 0 .. Len(b)
         /\ DOMAIN Downwards(b, length) = 1 .. Fill!Cardinality(SmallOnes(b, length))
         /\ \A i \in 1 .. Fill!Cardinality(SmallOnes(b, length)) :
               Downwards(b, length)[i] = b[(Fill!Cardinality(SmallOnes(b, length)) - i) + 1]
<1> DEFINE T == SmallOnes(b, length)
           small == Fill!Cardinality(T)
           n == Len(b)
           part == SubSeq(b, 1, small)
           down == Fill!Reverse(part)
<1>1. n \in Nat /\ DOMAIN b = 1 .. n
  BY LenProperties
<1>2. small \in 0 .. n
  <2>1. IsFiniteSet(1 .. n) /\ Cardinality(1 .. n) = n
    <3>1. IsFiniteSet(1 .. n) /\ Cardinality(1 .. n) = IF 1 > n THEN 0 ELSE (n - 1) + 1
      BY <1>1, FS_Interval
    <3> QED BY <1>1, <3>1
  <2>2. T \subseteq 1 .. n
    BY <1>1 DEF SmallOnes
  <2> HIDE DEF T, n
  <2>3. IsFiniteSet(T) /\ Cardinality(T) <= n
    BY <2>1, <2>2, FS_Subset
  <2>4. Cardinality(T) \in Nat
    BY <2>3, FS_CardinalityType
  <2>5. small = Cardinality(T)
    BY SameFill
  <2> QED BY <1>1, <2>3, <2>4, <2>5
<1> HIDE DEF small
<1>3. /\ part \in Seq(S) /\ Len(part) = small
      /\ \A i \in 1 .. small : part[i] = b[i]
  <2>1. 1 \in 1 .. (Len(b) + 1) /\ small \in (1 - 1) .. Len(b)
    BY <1>1, <1>2
  <2>2. /\ part \in Seq(S) /\ Len(part) = (small - 1) + 1
        /\ \A i \in 1 .. ((small - 1) + 1) : part[i] = b[(1 + i) - 1]
    BY <2>1, PartOfSeq
  <2>3. (small - 1) + 1 = small /\ \A i \in Int : (1 + i) - 1 = i
    BY <1>2
  <2> HIDE DEF part
  <2> QED BY <1>2, <2>2, <2>3
<1> HIDE DEF part
<1>4. down = [i \in 1 .. small |-> part[(small - i) + 1]]
  BY <1>3, SameFill DEF Reverse
<1>5. \A i \in 1 .. small : (small - i) + 1 \in 1 .. small /\ (small - i) + 1 \in 1 .. n
  BY <1>1, <1>2
<1>6. \A i \in 1 .. small : part[(small - i) + 1] \in S /\ part[(small - i) + 1].file \in Files
  BY <1>1, <1>3, <1>5, LenProperties DEF OfFiles
<1>7. down \in [1 .. small -> S] /\ small \in Nat
  BY <1>2, <1>4, <1>6
<1>8. down \in Seq(S)
  BY <1>7, SeqDef
<1>9. OfFiles(down)
  BY <1>4, <1>6 DEF OfFiles
<1>10. DOMAIN down = 1 .. small /\ \A i \in 1 .. small : down[i] = b[(small - i) + 1]
  BY <1>3, <1>4, <1>5
<1>11. down = Downwards(b, length)
  BY DEF Downwards, part, small
<1> HIDE DEF down
<1> QED BY <1>2, <1>8, <1>9, <1>10, <1>11 DEF small

(* The states of the candidate loop, one turn after the other.             *)
SearchTrace(h, b, d, lcn, length) ==
  /\ h[0] = [rvs |-> <<>>, length |-> length, known |-> <<>>]
  /\ \A k \in 1 .. Len(Downwards(b, length)) :
        h[k] = Fill!Consider(h[k - 1], d, lcn, Downwards(b, length)[k])
  /\ h[Len(Downwards(b, length))] = Fill!Candidates(b, d, lcn, length)

(* The candidate loop.                                                     *)
LEMMA CandidatesSteps ==
  ASSUME NEW d, \A f \in Files : d[f].clusters \in Int,
         NEW S, NEW b \in Seq(S), OfFiles(b), NEW lcn, NEW length \in Int
  PROVE  /\ \E h \in [0 .. Len(Downwards(b, length)) -> Search(S)] :
                SearchTrace(h, b, d, lcn, length)
         /\ Downwards(b, length) \in Seq(S) /\ OfFiles(Downwards(b, length))
<1> DEFINE down == Fill!Reverse(SubSeq(b, 1,
                       Fill!Cardinality({ i \in DOMAIN b : b[i].key <= length })))
           n == Len(down)
           A == Search(S)
           base == [rvs |-> <<>>, length |-> length, known |-> <<>>]
           step == [i \in 1 .. n |-> [x \in A |-> Fill!Consider(x, d, lcn, down[i])]]
           Sol(it) == [s \in SUBSET (1 .. n) |->
                         IF s = {} THEN base ELSE Fill!Consider(it[s \ {Max(s)}], d, lcn, down[Max(s)])]
           g == CHOOSE it : it = Sol(it)
<1>0. down \in Seq(S) /\ OfFiles(down)
  <2>1. down = Downwards(b, length)
    BY DEF Downwards, SmallOnes
  <2> QED BY <2>1, DownwardsType
<1> HIDE DEF down
<1>1. n \in Nat /\ DOMAIN down = 1 .. n /\ \A i \in 1 .. n : down[i] \in S /\ down[i].file \in Files
  BY <1>0, LenProperties DEF OfFiles
<1>2. Fill!Candidates(b, d, lcn, length) = g[1 .. n]
  <2>1. Fill!Candidates(b, d, lcn, length) =
          (CHOOSE it : it = [s \in SUBSET DOMAIN down |->
                               IF s = {} THEN base
                               ELSE Fill!Consider(it[s \ {Max(s)}], d, lcn, down[Max(s)])])
            [DOMAIN down]
    BY DEF Fill!Candidates, Fill!FoldLeft, Fill!MapThenFoldSet, Fill!Max, Max, down
  <2> QED BY <1>1, <2>1
<1>3. base \in A /\ \A i \in 1 .. n, x \in A : Fill!Consider(x, d, lcn, down[i]) \in A
  <2>1. base \in A
    BY DEF Search
  <2> HIDE DEF base
  <2> QED BY <1>1, <2>1, ConsiderType
<1>4. base \in A /\ step \in [1 .. n -> [A -> A]]
  BY <1>3
<1>5. \A i \in 1 .. n, x \in A : step[i][x] = Fill!Consider(x, d, lcn, down[i])
  OBVIOUS
<1> HIDE DEF step
<1>6. \A s \in SUBSET (1 .. n) : s # {} => Max(s) \in 1 .. n
  BY <1>1, MaxOfSet
<1>7. \E it : it = Sol(it)
  <2>1. PICK h \in [SUBSET (1 .. n) -> A] : FoldEquation(h, n, base, step)
    <3> HIDE DEF A, base, n
    <3> QED BY <1>1, <1>4, FoldExists
  <2>2. ASSUME NEW s \in SUBSET (1 .. n)
        PROVE  h[s] = IF s = {} THEN base ELSE Fill!Consider(h[s \ {Max(s)}], d, lcn, down[Max(s)])
    <3>1. CASE s = {}
      BY <2>1, <3>1 DEF FoldEquation
    <3>2. CASE s # {}
      <4>1. s \ {Max(s)} \in SUBSET (1 .. n) /\ h[s \ {Max(s)}] \in A
        BY <2>1
      <4> QED BY <1>5, <1>6, <2>1, <3>2, <4>1 DEF FoldEquation
    <3> QED BY <3>1, <3>2
  <2>3. h = Sol(h)
    BY <2>1, <2>2
  <2> QED BY <2>3
<1>8. g = Sol(g)
  <2> HIDE DEF Sol
  <2> QED BY <1>7
<1> HIDE DEF g
<1>9. FoldWithin(g, n, A, base, step)
  <2>1. g[{}] = base
    BY <1>8
  <2>2. ASSUME NEW s \in SUBSET (1 .. n), s # {}, g[s \ {Max(s)}] \in A
        PROVE  g[s] = step[Max(s)][g[s \ {Max(s)}]]
    <3>1. g[s] = Fill!Consider(g[s \ {Max(s)}], d, lcn, down[Max(s)])
      BY <1>8, <2>2
    <3> QED BY <1>5, <1>6, <2>2, <3>1
  <2> QED BY <2>1, <2>2 DEF FoldWithin
<1>10. \E h \in [0 .. n -> A] : StepByStep(h, n, base, step, g[1 .. n])
  <2>0. n \in Nat
    BY <1>1
  <2> HIDE DEF A, base, n
  <2> QED BY <1>4, <1>9, <2>0, FoldSteps
<1>11. PICK h \in [0 .. n -> A] : StepByStep(h, n, base, step, g[1 .. n])
  BY <1>10
<1>12. /\ h[0] = base /\ h[n] = g[1 .. n]
       /\ \A k \in 1 .. n : h[k] = step[k][h[k - 1]]
  BY <1>11 DEF StepByStep
<1>13. ASSUME NEW k \in 1 .. n PROVE h[k] = Fill!Consider(h[k - 1], d, lcn, down[k])
  <2>1. k - 1 \in 0 .. n
    BY <1>1
  <2>2. h[k - 1] \in A
    BY <1>11, <2>1
  <2> HIDE DEF A, base, n
  <2> QED BY <1>5, <1>12, <2>2
<1>14. down = Downwards(b, length)
  BY DEF down, Downwards, SmallOnes
<1> QED BY <1>0, <1>2, <1>11, <1>12, <1>13, <1>14 DEF SearchTrace

(* What the candidate loop ends with.                                      *)
LEMMA CandidatesType ==
  ASSUME NEW d, \A f \in Files : d[f].clusters \in Int,
         NEW S, NEW b \in Seq(S), OfFiles(b), NEW lcn, NEW length \in Int
  PROVE  Fill!Candidates(b, d, lcn, length) \in Search(S)
<1> DEFINE n == Len(Downwards(b, length))
<1>1. Downwards(b, length) \in Seq(S)
  BY CandidatesSteps
<1>2. PICK h \in [0 .. n -> Search(S)] : SearchTrace(h, b, d, lcn, length)
  BY CandidatesSteps
<1>3. n \in 0 .. n
  BY <1>1, LenProperties
<1> QED BY <1>2, <1>3 DEF SearchTrace

(* One candidate of the solution.                                          *)
Chosen1(q, cands, items, i) == IF i \in items THEN Append(q, cands[i]) ELSE q

(* The files of a solution, candidate after candidate.                     *)
ChosenTrace(h, rvs, cands, items) ==
  /\ h[0] = rvs
  /\ \A k \in 1 .. Len(cands) : h[k] = Chosen1(h[k - 1], cands, items, k)
  /\ h[Len(cands)] = Fill!Chosen(rvs, cands, items)

(* The loop that collects them.                                            *)
LEMMA ChosenSteps ==
  ASSUME NEW rvs \in Seq(Files), NEW cands \in Seq(Files), NEW items
  PROVE  \E h \in [0 .. Len(cands) -> Seq(Files)] : ChosenTrace(h, rvs, cands, items)
<1> DEFINE n == Len(cands)
           number == [i \in DOMAIN cands |-> i]
           A == Seq(Files)
           base == rvs
           step == [i \in 1 .. n |-> [b \in A |-> Chosen1(b, cands, items, number[i])]]
           Sol(it) == [s \in SUBSET (1 .. n) |->
                         IF s = {} THEN base
                         ELSE Chosen1(it[s \ {Max(s)}], cands, items, number[Max(s)])]
           g == CHOOSE it : it = Sol(it)
<1>1. n \in Nat /\ DOMAIN cands = 1 .. n /\ \A i \in 1 .. n : cands[i] \in Files
  BY LenProperties
<1>0. DOMAIN number = 1 .. n /\ \A i \in 1 .. n : number[i] = i
  BY <1>1
<1>2. Fill!Chosen(rvs, cands, items) = g[1 .. n]
  <2>1. Fill!Chosen(rvs, cands, items) =
          (CHOOSE it : it = [s \in SUBSET DOMAIN number |->
                               IF s = {} THEN rvs
                               ELSE Chosen1(it[s \ {Max(s)}], cands, items, number[Max(s)])])
            [DOMAIN number]
    BY DEF Fill!Chosen, Fill!FoldLeft, Fill!MapThenFoldSet, Fill!Max, Max, Chosen1
  <2> HIDE DEF number
  <2> QED BY <1>0, <2>1
<1> HIDE DEF number
<1>3. base \in A /\ \A i \in 1 .. n, b \in A : Chosen1(b, cands, items, number[i]) \in A
  BY <1>0, <1>1 DEF Chosen1
<1>4. base \in A /\ step \in [1 .. n -> [A -> A]]
  BY <1>3
<1>5. \A i \in 1 .. n, b \in A : step[i][b] = Chosen1(b, cands, items, number[i])
  OBVIOUS
<1> HIDE DEF step
<1>6. \A s \in SUBSET (1 .. n) : s # {} => Max(s) \in 1 .. n
  BY <1>1, MaxOfSet
<1>7. \E it : it = Sol(it)
  <2>1. PICK h \in [SUBSET (1 .. n) -> A] : FoldEquation(h, n, base, step)
    <3> HIDE DEF A, base, n
    <3> QED BY <1>1, <1>4, FoldExists
  <2>2. ASSUME NEW s \in SUBSET (1 .. n)
        PROVE  h[s] = IF s = {} THEN base
                      ELSE Chosen1(h[s \ {Max(s)}], cands, items, number[Max(s)])
    <3>1. CASE s = {}
      BY <2>1, <3>1 DEF FoldEquation
    <3>2. CASE s # {}
      <4>1. s \ {Max(s)} \in SUBSET (1 .. n) /\ h[s \ {Max(s)}] \in A
        BY <2>1
      <4> QED BY <1>5, <1>6, <2>1, <3>2, <4>1 DEF FoldEquation
    <3> QED BY <3>1, <3>2
  <2>3. h = Sol(h)
    BY <2>1, <2>2
  <2> QED BY <2>3
<1>8. g = Sol(g)
  <2> HIDE DEF Sol
  <2> QED BY <1>7
<1> HIDE DEF g
<1>9. FoldWithin(g, n, A, base, step)
  <2>1. g[{}] = base
    BY <1>8
  <2>2. ASSUME NEW s \in SUBSET (1 .. n), s # {}, g[s \ {Max(s)}] \in A
        PROVE  g[s] = step[Max(s)][g[s \ {Max(s)}]]
    <3>1. g[s] = Chosen1(g[s \ {Max(s)}], cands, items, number[Max(s)])
      BY <1>8, <2>2
    <3> QED BY <1>5, <1>6, <2>2, <3>1
  <2> QED BY <2>1, <2>2 DEF FoldWithin
<1>10. PICK h \in [0 .. n -> A] : StepByStep(h, n, base, step, g[1 .. n])
  <2>0. n \in Nat
    BY <1>1
  <2> HIDE DEF A, base, n
  <2> QED BY <1>4, <1>9, <2>0, FoldSteps
<1>11. /\ h[0] = base /\ h[n] = g[1 .. n]
       /\ \A k \in 1 .. n : h[k] = step[k][h[k - 1]]
  BY <1>10 DEF StepByStep
<1>12. ASSUME NEW k \in 1 .. n PROVE h[k] = Chosen1(h[k - 1], cands, items, k)
  <2>1. k - 1 \in 0 .. n
    BY <1>1
  <2>2. h[k - 1] \in A
    BY <1>10, <2>1
  <2> HIDE DEF A, base, n
  <2> QED BY <1>0, <1>5, <1>11, <2>2
<1> QED BY <1>2, <1>10, <1>11, <1>12 DEF ChosenTrace

(* They are files.                                                         *)
LEMMA ChosenType ==
  ASSUME NEW rvs \in Seq(Files), NEW cands \in Seq(Files), NEW items
  PROVE  Fill!Chosen(rvs, cands, items) \in Seq(Files)
<1>1. PICK h \in [0 .. Len(cands) -> Seq(Files)] : ChosenTrace(h, rvs, cands, items)
  BY ChosenSteps
<1>2. Len(cands) \in 0 .. Len(cands)
  BY LenProperties
<1> QED BY <1>1, <1>2 DEF ChosenTrace

(* The knapsack's part.                                                    *)
LEMMA RestFiles ==
  ASSUME NEW S, \A e \in S : e.file \in Files, NEW st \in Search(S), NEW d, NEW partialOK
  PROVE  Fill!FillRest(st, d, partialOK) \in Seq(Files)
<1> DEFINE cands == [i \in DOMAIN st.known |-> st.known[i].file]
           weights == [i \in DOMAIN cands |-> d[cands[i]].clusters]
           solution == Fill!Knapsack(weights, st.length)
           nothing == IF partialOK THEN st.rvs ELSE <<>>
<1>1. st.rvs \in Seq(Files) /\ st.known \in Seq(S)
  BY DEF Search
<1>2. cands \in Seq(Files)
  <2> DEFINE n == Len(st.known)
  <2>1. n \in Nat /\ DOMAIN st.known = 1 .. n /\ \A i \in 1 .. n : st.known[i] \in S
    BY <1>1, LenProperties
  <2>2. cands \in [1 .. n -> Files]
    BY <2>1
  <2> HIDE DEF cands, n
  <2> QED BY <2>1, <2>2, SeqDef
<1>3. nothing \in Seq(Files) /\ <<>> \in Seq(Files)
  BY <1>1
<1>4. ASSUME NEW items PROVE Fill!Chosen(st.rvs, cands, items) \in Seq(Files)
  <2> HIDE DEF cands
  <2> QED BY <1>1, <1>2, ChosenType
<1>5. Len(cands) \in Nat /\ (Len(cands) = 1 => Append(st.rvs, cands[1]) \in Seq(Files))
  <2> HIDE DEF cands
  <2>1. Len(cands) \in Nat /\ \A i \in 1 .. Len(cands) : cands[i] \in Files
    BY <1>2, LenProperties
  <2> QED BY <1>1, <2>1, AppendProperties
<1>6. Fill!FillRest(st, d, partialOK) =
        CASE Len(cands) = 0 -> nothing
          [] Len(cands) = 1 ->
               IF weights[1] = st.length \/ (partialOK /\ weights[1] <= st.length)
               THEN Append(st.rvs, cands[1])
               ELSE nothing
          [] Len(cands) > 1 ->
               IF ~partialOK /\ solution.value # st.length THEN <<>>
               ELSE Fill!Chosen(st.rvs, cands, solution.items)
  BY DEF Fill!FillRest
<1> HIDE DEF cands, weights, solution, nothing
<1>11. Len(cands) \in Nat
  BY <1>5
<1>7. \A k \in Nat : (k = 0 \/ k = 1 \/ k > 1) /\ (k > 1 => k # 0 /\ k # 1)
  OBVIOUS
<1>8. CASE Len(cands) = 0
  BY <1>3, <1>6, <1>8
<1>9. CASE Len(cands) = 1
  BY <1>3, <1>5, <1>6, <1>9
<1>10. CASE Len(cands) > 1
  <2>1. Len(cands) # 0 /\ Len(cands) # 1
    BY <1>7, <1>10, <1>11
  <2> QED BY <1>3, <1>4, <1>6, <1>10, <2>1
<1> QED BY <1>7, <1>8, <1>9, <1>10, <1>11

(* A perfect fit is found, if there is one.                                *)
LEMMA FarthestFound ==
  ASSUME NEW S, NEW b \in Seq(S), NEW d, NEW lcn, NEW length,
         \A i \in DOMAIN b : b[i].key = length => HeadLcn(d[b[i].file]) \in Cluster,
         Fill!PerfectFits(b, d, lcn, length) # {}
  PROVE  Fill!Farthest(b, d, Fill!PerfectFits(b, d, lcn, length))
            \in Fill!PerfectFits(b, d, lcn, length)
<1> DEFINE perfect == Fill!PerfectFits(b, d, lcn, length)
           far == Fill!Farthest(b, d, perfect)
<1> DEFINE h(i) == HeadLcn(d[b[i].file])
           T == { h(i) : i \in perfect }
<1>0. \A e : Fill!HeadLcn(e) = HeadLcn(e)
  BY DEF Fill!HeadLcn, HeadLcn
<1>1. perfect \subseteq DOMAIN b /\ \A i \in perfect : h(i) \in Cluster
  BY DEF Fill!PerfectFits
<1>2. T \subseteq Nat /\ T \subseteq 0 .. Clusters /\ T # {} /\ Clusters \in Nat
  BY <1>1, WordAssumption DEF Cluster
<1>3. PICK x \in T : \A y \in T : y <= x
  <2> HIDE DEF T
  <2> QED BY <1>2, GreatestNumber
<1> DEFINE U == { i \in perfect : h(i) = x }
<1>4. U # {} /\ U \subseteq perfect /\ DOMAIN b \subseteq Nat
  BY LenProperties
<1>5. PICK k \in U : \A j \in U : k <= j
  <2> HIDE DEF U
  <2>1. U \subseteq Nat
    BY <1>1, <1>4
  <2> QED BY <1>4, <2>1, LeastNumber
<1>6. ASSUME NEW j \in perfect PROVE h(j) < h(k) \/ (h(j) = h(k) /\ k <= j)
  <2>1. h(k) = x /\ h(j) \in T /\ x \in Nat /\ h(j) \in Nat /\ h(j) <= x
    BY <1>2, <1>3
  <2>2. h(j) = x => j \in U
    OBVIOUS
  <2> HIDE DEF U, T, h
  <2> QED BY <1>5, <2>1, <2>2
<1>7. far = CHOOSE i \in perfect : \A j \in perfect : h(j) < h(i) \/ (h(j) = h(i) /\ i <= j)
  BY <1>0 DEF Fill!Farthest
<1> HIDE DEF h, perfect, far
<1>8. k \in perfect
  OBVIOUS
<1> HIDE DEF U
<1>9. far \in perfect
  BY <1>6, <1>7, <1>8
<1> QED BY <1>9 DEF far, perfect

(* findBest names files of the buckets.                                    *)
LEMMA BestFiles ==
  ASSUME NEW d, \A f \in Files : d[f].clusters \in Int,
         NEW b, IsList(b), OfFiles(b), NEW lcn, NEW length \in Int, NEW partialOK,
         \A i \in DOMAIN b : b[i].key = length => HeadLcn(d[b[i].file]) \in Cluster
  PROVE  Fill!Best(b, d, lcn, length, partialOK) \in Seq(Files)
<1> DEFINE n == Len(b)
           S == { b[i] : i \in DOMAIN b }
           perfect == Fill!PerfectFits(b, d, lcn, length)
           st == Fill!Candidates(b, d, lcn, length)
           far == Fill!Farthest(b, d, perfect)
<1>1. b \in Seq(S) /\ \A e \in S : e.file \in Files
  <2>1. PICK U : b \in Seq(U)
    BY DEF IsList
  <2>2. n \in Nat /\ DOMAIN b = 1 .. n
    BY <2>1, LenProperties
  <2>3. b = [i \in 1 .. n |-> b[i]]
    BY <2>1
  <2>4. b \in [1 .. n -> S]
    BY <2>2, <2>3
  <2> HIDE DEF S, n
  <2>5. b \in Seq(S)
    BY <2>2, <2>4, SeqDef
  <2> QED BY <2>5 DEF OfFiles, S
<1>2. st \in Search(S)
  <2> HIDE DEF S
  <2> QED BY <1>1, CandidatesType
<1>3. Fill!Best(b, d, lcn, length, partialOK) =
        IF perfect # {} THEN <<b[far].file>>
        ELSE IF st.length = 0 THEN st.rvs ELSE Fill!FillRest(st, d, partialOK)
  BY DEF Fill!Best
<1> HIDE DEF S, st
<1>4. st.rvs \in Seq(Files) /\ Fill!FillRest(st, d, partialOK) \in Seq(Files)
  BY <1>1, <1>2, RestFiles DEF Search
<1>5. ASSUME perfect # {} PROVE <<b[far].file>> \in Seq(Files)
  <2>1. far \in perfect
    BY <1>1, <1>5, FarthestFound
  <2>2. far \in DOMAIN b
    BY <2>1 DEF Fill!PerfectFits
  <2> QED BY <2>2 DEF OfFiles
<1> HIDE DEF perfect, far
<1> QED BY <1>3, <1>4, <1>5

(* push files a file.                                                      *)
LEMMA PushFiles ==
  ASSUME NEW b, IsList(b), OfFiles(b), NEW key, NEW f \in Files
  PROVE  OfFiles(Enum!BucketInsert(b, key, f))
<1> DEFINE e == [key |-> key, file |-> f]
           t == Enum!BucketInsert(b, key, f)
<1>1. PICK U : b \in Seq(U)
  BY DEF IsList
<1> DEFINE S == U \cup {e}
<1>2. Len(b) \in Nat /\ DOMAIN b = 1 .. Len(b)
  BY <1>1, LenProperties
<1>3. b \in Seq(S) /\ e \in S
  <2>1. \A i \in 1 .. Len(b) : b[i] \in U
    BY <1>1, LenProperties
  <2> HIDE DEF e
  <2> QED BY <1>1, <2>1
<1>4. \E k \in 1 .. (Len(b) + 1) : Inserted(t, b, k, e)
  <2> HIDE DEF S
  <2> QED BY <1>3, InsertPlace
<1>5. PICK k \in 1 .. (Len(b) + 1) : Inserted(t, b, k, e)
  BY <1>4
<1>6. e.file = f
  OBVIOUS
<1> HIDE DEF t, e
<1> SUFFICES ASSUME NEW i \in DOMAIN t PROVE t[i].file \in Files
  BY DEF OfFiles, t
<1>7. i \in 1 .. (Len(b) + 1) /\ t[i] = IF i < k THEN b[i] ELSE IF i = k THEN e ELSE b[i - 1]
  BY <1>5 DEF Inserted
<1>8. (i < k => i \in DOMAIN b) /\ (~(i < k) /\ i # k => i - 1 \in DOMAIN b)
  BY <1>2, <1>7
<1> QED BY <1>6, <1>7, <1>8 DEF OfFiles

(* pop leaves files.                                                       *)
LEMMA PopFiles ==
  ASSUME NEW e, IsList(e.buckets), OfFiles(e.buckets), NEW d, NEW f
  PROVE  OfFiles(Enum!FePop(e, d, f).buckets)
<1> DEFINE b == e.buckets
           at == { i \in DOMAIN b : b[i] = [key |-> d[f].clusters, file |-> f] }
           k == CHOOSE i \in at : \A j \in at : i <= j
<1>1. Enum!FePop(e, d, f).buckets = IF at = {} THEN b ELSE RemoveAt(b, k)
  BY SameOperators DEF Enum!FePop
<1>2. PICK S : b \in Seq(S)
  BY DEF IsList
<1>3. Len(b) \in Nat /\ DOMAIN b = 1 .. Len(b)
  BY <1>2, LenProperties
<1>4. CASE at = {}
  BY <1>1, <1>4
<1>5. CASE at # {}
  <2>1. at \subseteq Nat /\ at \subseteq 1 .. Len(b)
    BY <1>3
  <2>2. \E i \in at : \A j \in at : i <= j
    <3> HIDE DEF at
    <3> QED BY <1>5, <2>1, LeastNumber
  <2>3. k \in 1 .. Len(b)
    <3> HIDE DEF at
    <3> QED BY <2>1, <2>2
  <2> DEFINE t == RemoveAt(b, k)
  <2>4. /\ DOMAIN t = 1 .. (Len(b) - 1)
        /\ \A i \in 1 .. (Len(b) - 1) : t[i] = IF i < k THEN b[i] ELSE b[i + 1]
    <3> HIDE DEF k
    <3> QED BY <1>2, <2>3, RemoveAtProperties
  <2>5. Enum!FePop(e, d, f).buckets = t
    BY <1>1, <1>5
  <2> HIDE DEF t, k, at
  <2>6. ASSUME NEW i \in DOMAIN t PROVE t[i].file \in Files
    <3>1. i \in DOMAIN b /\ i + 1 \in DOMAIN b
      BY <1>3, <2>4
    <3> QED BY <2>4, <3>1 DEF OfFiles
  <2> QED BY <2>5, <2>6 DEF OfFiles
<1> QED BY <1>4, <1>5

(* A cluster has one owner.                                                *)
OwnersApart ==
  /\ \A f \in Files : ToSet(disk[f]) \cap Fixed = {}
  /\ \A f, g \in Files : f # g => ToSet(disk[f]) \cap ToSet(disk[g]) = {}

(* The file's blocks are one.                                              *)
OneRun(c) == \E b \in GP!Run : RetrievalPointers(c) = <<b>>

(* Without --widen, what the program works through are files, move_file    *)
(* has a caller that scans when it fails, and g is a node of the table.    *)
WorkInv ==
  /\ OwnersApart
  /\ OfFiles(fe.buckets)
  /\ queue \in Seq(Files) /\ files \in Seq(Files)
  /\ DOMAIN gap = {"g", "partialOK", "freed"}
  /\ pc \in Moving \cup {"return", "throw"} =>
       /\ mv.f \in Files
       /\ mv.by \in {"defrag", "set"}
       /\ mv.by = "defrag" => queue # <<>>
       /\ mv.by = "set" => files # <<>>
  /\ pc = "widen" => gap.freed = FALSE /\ gap.g \in DOMAIN ge.list

(* The table is sound but for the file that has been pushed and is about   *)
(* to be dumped.                                                           *)
SoundInv ==
  pc # "crash" =>
    /\ TableGood(ge)
    /\ pc \notin {"dump", "throw"} => Gaps!Covered(ge) \subseteq Free
    /\ pc = "dump" =>
         /\ Gaps!Covered(ge) \subseteq Free \cup ToSet(disk[mv.f])
         /\ mv.status = "success" => OneRun(disk[mv.f])

(* After the first scan.                                                   *)
LEMMA InitSound == Init => WorkInv /\ SoundInv
<1> SUFFICES ASSUME Init PROVE WorkInv /\ SoundInv
  OBVIOUS
<1>1. OwnersApart
  <2>1. disk \in Layouts
    BY DEF Init
  <2>2. /\ disk \in [Files -> Seq(Cluster \ Fixed)]
        /\ \A f, g \in Files : f # g => ToSet(disk[f]) \cap ToSet(disk[g]) = {}
    BY <2>1, LayoutsAssumption
  <2>3. ASSUME NEW f \in Files PROVE ToSet(disk[f]) \cap Fixed = {}
    <3>1. disk[f] \in Seq(Cluster \ Fixed)
      BY <2>2
    <3>2. \A i \in DOMAIN disk[f] : disk[f][i] \notin Fixed
      BY <3>1, LenProperties
    <3> QED BY <3>2 DEF ToSet
  <2> QED BY <2>2, <2>3 DEF OwnersApart
<1>2. OfFiles(fe.buckets)
  <2>1. \A f \in Files : disp[f].clusters \in 0 .. Clusters
    BY InitFiled DEF FiledInv
  <2>2. fe.buckets \in Seq(Elem)
    BY <2>1, ScanOnce DEF Init
  <2>3. \A i \in DOMAIN fe.buckets : fe.buckets[i] \in Elem
    BY <2>2, LenProperties
  <2> QED BY <2>3 DEF OfFiles, Elem
<1>3. WorkInv
  BY <1>1, <1>2 DEF Init, WorkInv, Moving
<1>4. TableGood(ge) /\ Gaps!Covered(ge) = Free
  <2>1. Gaps!Empty.broke = FALSE
    BY DEF Gaps!Empty
  <2>2. ge = Gaps!Scanned(Gaps!Empty, Free) /\ Free \subseteq Cluster
    BY DEF Init, Free
  <2> QED BY <2>1, <2>2, ScanTable
<1>5. SoundInv
  BY <1>4 DEF SoundInv, Init
<1> QED BY <1>3, <1>5

(* What is free changes only with the volume.                              *)
LEMMA SameFree ==
  ASSUME disk' = disk
  PROVE  Free' = Free /\ (OwnersApart => OwnersApart')
BY DEF Free, Used, OwnersApart

(* A step to a place between two moves.                                    *)
LEMMA IdleSound ==
  ASSUME WorkInv, disk' = disk, OfFiles(fe'.buckets),
         queue' \in Seq(Files), files' \in Seq(Files),
         DOMAIN gap' = {"g", "partialOK", "freed"},
         pc' \notin Moving \cup {"return", "throw", "widen"},
         pc' = "crash" \/ (TableGood(ge') /\ Gaps!Covered(ge') \subseteq Free)
  PROVE  WorkInv' /\ SoundInv'
<1>1. Free' = Free /\ OwnersApart'
  BY SameFree DEF WorkInv
<1>2. WorkInv'
  BY <1>1 DEF WorkInv
<1>3. SoundInv'
  BY <1>1 DEF SoundInv, Moving
<1> QED BY <1>2, <1>3

(* A region taken out of the table (SkipGap, and the end of widen_behind). *)
LEMMA PopSound ==
  ASSUME TableGood(ge), Gaps!Covered(ge) \subseteq Free, NEW b \in GP!Run,
         NEW F, F \subseteq Free, ge' = Gaps!PopBlock(ge, b, F), Goto("gaps", ge')
  PROVE  /\ pc' \in {"gaps", "crash"}
         /\ pc' = "crash" \/ (TableGood(ge') /\ Gaps!Covered(ge') \subseteq Free)
<1>1. F \subseteq Cluster
  BY DEF Free
<1>2. \/ ge'.broke = TRUE
      \/ TableGood(ge') /\ Gaps!Covered(ge') \in {F, Gaps!Covered(ge) \ Gaps!Cells(b)}
  BY <1>1, PopTable
<1>3. pc' = IF ge'.broke THEN "crash" ELSE "gaps"
  BY DEF Goto
<1> QED BY <1>2, <1>3

(* The steps that scan.                                                    *)
LEMMA ScanningSound ==
  ASSUME KnownInv, WorkInv, SoundInv, ~opts.widen,
         NEW F, F \subseteq Free, Scanning(F), disk' = disk
  PROVE  WorkInv' /\ SoundInv'
<1>0. Elsewhere
  BY ScanningElsewhere DEF KnownInv
<1>1. OfFiles(fe'.buckets)
  <2>1. fe'.buckets = fe.buckets
    BY <1>0, BuildOnce DEF Elsewhere, KnownInv, FiledInv
  <2> QED BY <2>1 DEF WorkInv
<1>2. /\ queue \in Seq(Files) /\ files \in Seq(Files) /\ <<>> \in Seq(Files)
      /\ DOMAIN gap = {"g", "partialOK", "freed"}
      /\ DOMAIN [gap EXCEPT !.partialOK = FALSE] = DOMAIN gap
      /\ DOMAIN [gap EXCEPT !.partialOK = TRUE] = DOMAIN gap
  BY DEF WorkInv
<1>3. pc \notin {"crash", "dump"} /\ TableGood(ge) /\ (pc # "throw" => Gaps!Covered(ge) \subseteq Free)
  <2>1. pc \notin {"crash", "dump"}
    BY DEF Scanning, Run, DefragEnd, GapsEnd, WidenEnd, ThrowToScan, ThrowToWiden
  <2> QED BY <2>1 DEF SoundInv
<1>4. TableGood(Gaps!Scanned(ge, F)) /\ Gaps!Covered(Gaps!Scanned(ge, F)) \subseteq Free
  <2>1. ge.broke = FALSE /\ F \subseteq Cluster
    BY <1>3 DEF TableGood, Free
  <2> QED BY <2>1, ScanTable
<1>5. CASE Run(F)
  <2>1. /\ (ge' = Gaps!Scanned(ge, F) \/ ge' = ge)
        /\ queue' \in {queue, Fragmented, <<>>}
        /\ pc = "run" /\ pc' \in {"done", "defrag"} /\ files' = files /\ gap' = gap
    BY <1>5 DEF Run
  <2>2. Fragmented \in Seq(Files)
    <3>1. PICK S : fe.buckets \in Seq(S)
      BY DEF KnownInv, FiledInv, Once, IsList
    <3> QED BY <3>1, FragmentedFiles DEF WorkInv, OfFiles
  <2>3. queue' \in Seq(Files) /\ pc' \notin Moving \cup {"return", "throw", "widen"}
    BY <1>2, <2>1, <2>2 DEF Moving
  <2>4. TableGood(ge') /\ Gaps!Covered(ge') \subseteq Free
    BY <1>3, <1>4, <2>1
  <2> QED BY <1>1, <1>2, <2>1, <2>3, <2>4, IdleSound
<1>6. CASE DefragEnd(F)
  <2>1. /\ (ge' = Gaps!Scanned(ge, F) \/ ge' = ge)
        /\ queue' = <<>> /\ gap' = [gap EXCEPT !.partialOK = FALSE]
        /\ pc = "defrag" /\ pc' \in {"gaps", "run"} /\ files' = files
    BY <1>6 DEF DefragEnd
  <2>2. pc' \notin Moving \cup {"return", "throw", "widen"}
    BY <2>1 DEF Moving
  <2>3. TableGood(ge') /\ Gaps!Covered(ge') \subseteq Free
    BY <1>3, <1>4, <2>1
  <2> QED BY <1>1, <1>2, <2>1, <2>2, <2>3, IdleSound
<1>7. CASE GapsEnd(F)
  <2>1. /\ ge' = Gaps!Scanned(ge, F) /\ queue' = queue /\ gap' = gap /\ files' = files
        /\ pc' = "run"
    BY <1>7 DEF GapsEnd
  <2>2. pc' \notin Moving \cup {"return", "throw", "widen"}
    BY <2>1 DEF Moving
  <2> QED BY <1>1, <1>2, <1>4, <2>1, <2>2, IdleSound
<1>8. CASE WidenEnd(F)
  <2>1. pc = "widen" /\ Widened(widen.moved > 0, F) /\ queue' = queue /\ files' = files
    BY <1>8 DEF WidenEnd
  <2>2. AtGap = {ge.list[gap.g]} /\ ge.list[gap.g] \in GP!Run
    BY <1>3, <2>1 DEF WorkInv, AtGap, TableGood, GP!WellFormed, GP!TypeOKOf
  <2>3. /\ pc' \in {"gaps", "crash"} /\ DOMAIN gap' = DOMAIN gap
        /\ pc' = "crash" \/ (TableGood(ge') /\ Gaps!Covered(ge') \subseteq Free)
    <3>1. CASE ~(widen.moved > 0) /\ gap.partialOK
      <4>1. /\ ge' = Gaps!PopBlock(ge, ge.list[gap.g], F)
            /\ gap' = [gap EXCEPT !.partialOK = FALSE] /\ Goto("gaps", ge')
        BY <2>1, <2>2, <3>1 DEF Widened
      <4> QED BY <1>2, <1>3, <2>1, <2>2, <4>1, PopSound
    <3>2. CASE ~(~(widen.moved > 0) /\ gap.partialOK)
      <4>1. gap' = [gap EXCEPT !.partialOK = TRUE] /\ pc' = "gaps" /\ ge' = ge
        BY <2>1, <3>2 DEF Widened
      <4> QED BY <1>2, <1>3, <2>1, <4>1
    <3> QED BY <3>1, <3>2
  <2>4. pc' \notin Moving \cup {"return", "throw", "widen"}
    BY <2>3 DEF Moving
  <2> QED BY <1>1, <1>2, <2>1, <2>3, <2>4, IdleSound
<1>9. CASE ThrowToScan(F)
  <2>1. /\ pc = "throw" /\ ge' = Gaps!Scanned(ge, F) /\ gap' = gap /\ files' = <<>>
        /\ pc' \in {"defrag", "gaps"}
        /\ queue' = IF mv.by = "defrag" THEN Tail(queue) ELSE queue
    BY <1>9 DEF ThrowToScan
  <2>2. queue' \in Seq(Files)
    <3>1. mv.by = "defrag" => queue # <<>>
      BY <2>1 DEF WorkInv
    <3> QED BY <1>2, <2>1, <3>1, HeadTailProperties
  <2>3. pc' \notin Moving \cup {"return", "throw", "widen"}
    BY <2>1 DEF Moving
  <2> QED BY <1>1, <1>2, <1>4, <2>1, <2>2, <2>3, IdleSound
<1>10. CASE ThrowToWiden(F)
  BY <1>10 DEF ThrowToWiden, WorkInv
<1> QED BY <1>5, <1>6, <1>7, <1>8, <1>9, <1>10 DEF Scanning

(* The start of move_file.                                                 *)
LEMMA MoveFileSound ==
  ASSUME WorkInv, SoundInv, pc \in {"defrag", "set"}, disk' = disk,
         NEW e, IsList(e.buckets), OfFiles(e.buckets),
         NEW f \in Files, NEW lcn, NEW by \in {"defrag", "set"},
         by = "defrag" => queue # <<>>, by = "set" => files # <<>>,
         MoveFile(e, f, lcn, by),
         queue' = queue, files' = files, gap' = gap, ge' = ge
  PROVE  WorkInv' /\ SoundInv'
<1>1. Free' = Free /\ OwnersApart'
  BY SameFree DEF WorkInv
<1>2. OfFiles(fe'.buckets)
  BY PopFiles DEF MoveFile
<1>3. mv'.f = f /\ mv'.by = by /\ pc' \in {"return", "open"}
  BY DEF MoveFile
<1>4. WorkInv'
  BY <1>1, <1>2, <1>3 DEF WorkInv
<1>5. TableGood(ge) /\ Gaps!Covered(ge) \subseteq Free
  BY DEF SoundInv
<1>6. SoundInv'
  BY <1>1, <1>3, <1>5 DEF SoundInv
<1> QED BY <1>4, <1>6

(* The head of the block map of a file with clusters is a cluster.         *)
LEMMA HeadInVolume ==
  ASSUME KnownInv, Faults = 0, pc \notin Undumped, NEW f \in Files, disp[f].clusters # 0
  PROVE  HeadLcn(disp[f]) \in Cluster
<1> DEFINE bm == disp[f].blockmap
<1>1. /\ DiskInv /\ disp[f] \in {Dump(disk[f]), Order(Dump(disk[f]))}
      /\ disk[f] \in Seq(Nat) /\ disk[f] \in Seq(Cluster)
  BY ClustersAreNat DEF KnownInv, FiledInv, Views, DiskInv
<1>2. disp[f] \in Disp /\ disp[f].clusters = Len(disk[f]) /\ CellsOf(bm) = ToSet(disk[f])
  BY <1>1, DumpFacts
<1>3. Len(disk[f]) \in Nat \ {0} /\ ToSet(disk[f]) \subseteq Cluster /\ ToSet(disk[f]) # {}
  <2>1. /\ Len(disk[f]) \in Nat \ {0} /\ DOMAIN disk[f] = 1 .. Len(disk[f])
        /\ \A i \in 1 .. Len(disk[f]) : disk[f][i] \in Cluster
    BY <1>1, <1>2, LenProperties
  <2>2. 1 \in DOMAIN disk[f]
    BY <2>1
  <2> QED BY <2>1, <2>2 DEF ToSet
<1>4. bm \in Seq(Block)
  BY <1>2 DEF Disp
<1> HIDE DEF bm
<1>5. bm # <<>>
  BY <1>2, <1>3 DEF CellsOf
<1>6. 1 \in DOMAIN bm /\ bm[1] \in Block /\ Head(bm) = bm[1]
  BY <1>4, <1>5, LenProperties, EmptySeq
<1>7. bm[1].lcn \in bm[1].lcn .. (bm[1].lcn + bm[1].length - 1)
  BY <1>6 DEF Block
<1>8. bm[1].lcn \in CellsOf(bm)
  BY <1>6, <1>7 DEF CellsOf
<1> QED BY <1>2, <1>3, <1>6, <1>8 DEF HeadLcn, bm

(* The first region of the table.                                          *)
LEMMA FirstRegion ==
  ASSUME TableGood(ge), DOMAIN ge.regions # {}
  PROVE  /\ NextGap \in GP!Run /\ Head1 \in DOMAIN ge.regions
         /\ ge.regions[Head1] \in DOMAIN ge.list
<1> DEFINE D == DOMAIN ge.regions
<1>1. /\ D \subseteq Nat
      /\ \A k \in D : ge.regions[k] \in DOMAIN ge.list
      /\ \A n \in DOMAIN ge.list : ge.list[n] \in GP!Run
  BY WordAssumption DEF TableGood, GP!WellFormed, GP!TypeOKOf, GP!Cluster
<1>2. Head1 \in D
  <2>1. Head1 = CHOOSE k \in D : \A j \in D : k <= j
    BY DEF Head1, Gaps!First
  <2> HIDE DEF D
  <2>2. \E k \in D : \A j \in D : k <= j
    BY <1>1, LeastNumber DEF D
  <2> QED BY <2>1, <2>2
<1> QED BY <1>1, <1>2 DEF NextGap, Gaps!Region

(* findBest, on the volume as the program knows it.                        *)
LEMMA FillFiles ==
  ASSUME KnownInv, WorkInv, Faults = 0, pc \notin Undumped, NextGap \in GP!Run, NEW partialOK
  PROVE  Fill!Best(fe.buckets, disp, NextGap.lcn, NextGap.length, partialOK) \in Seq(Files)
<1>1. /\ Once(fe.buckets, disp) /\ OfFiles(fe.buckets)
      /\ \A f \in Files : disp[f].clusters \in 0 .. Clusters
  BY DEF KnownInv, FiledInv, WorkInv
<1>2. IsList(fe.buckets) /\ \A f \in Files : disp[f].clusters \in Int
  BY <1>1, WordAssumption DEF Once
<1>3. NextGap.length \in Int /\ NextGap.length # 0
  BY WordAssumption DEF GP!Run
<1>4. ASSUME NEW i \in DOMAIN fe.buckets, fe.buckets[i].key = NextGap.length
      PROVE  HeadLcn(disp[fe.buckets[i].file]) \in Cluster
  <2>1. fe.buckets[i].file \in Files /\ fe.buckets[i].key = disp[fe.buckets[i].file].clusters
    BY <1>1 DEF OfFiles, Once
  <2> QED BY <1>3, <1>4, <2>1, HeadInVolume
<1> QED BY <1>1, <1>2, <1>3, <1>4, BestFiles

(* The steps between two calls into the file system.                       *)
LEMMA InternalSound ==
  ASSUME KnownInv, WorkInv, SoundInv, ~opts.widen, Faults = 0, Internal, disk' = disk
  PROVE  WorkInv' /\ SoundInv'
<1>1. /\ queue \in Seq(Files) /\ files \in Seq(Files) /\ <<>> \in Seq(Files)
      /\ OfFiles(fe.buckets)
      /\ DOMAIN gap = {"g", "partialOK", "freed"}
  BY DEF WorkInv
<1>2. Once(fe.buckets, disp) /\ IsList(fe.buckets)
  BY DEF KnownInv, FiledInv, Once
<1>3. ASSUME pc \in {"defrag", "gaps", "set", "widen", "return"}
      PROVE  TableGood(ge) /\ Gaps!Covered(ge) \subseteq Free
  BY <1>3 DEF SoundInv
<1>4. CASE DefragFile
  <2> DEFINE f == Head(queue)
             e == IF f = last THEN Enum!FePop(fe, disp, f) ELSE fe
             found == Gaps!Best(ge, disp[f].clusters, -1)
  <2>1. /\ pc = "defrag" /\ queue # <<>>
        /\ ge' = ge /\ gap' = gap /\ files' = files
        /\ \/ fe' = e /\ queue' = Tail(queue) /\ pc' = pc
           \/ (\E b \in found : MoveFile(e, f, ge.list[b[2]].lcn, "defrag")) /\ queue' = queue
    BY <1>4 DEF DefragFile
  <2> HIDE DEF found
  <2>2. f \in Files /\ Tail(queue) \in Seq(Files)
    BY <1>1, <2>1, HeadTailProperties
  <2>3. IsList(e.buckets) /\ OfFiles(e.buckets)
    <3>1. OfFiles(Enum!FePop(fe, disp, f).buckets) /\ IsList(Enum!FePop(fe, disp, f).buckets)
      BY <1>1, <1>2, PopFiles, PopOnce DEF Once
    <3> QED BY <1>1, <1>2, <3>1
  <2> HIDE DEF e, f
  <2>4. CASE fe' = e /\ queue' = Tail(queue) /\ pc' = pc
    <3>1. pc' \notin Moving \cup {"return", "throw", "widen"}
      BY <2>1, <2>4 DEF Moving
    <3> QED BY <1>1, <1>3, <2>1, <2>2, <2>3, <2>4, <3>1, IdleSound
  <2>5. ASSUME NEW lcn, MoveFile(e, f, lcn, "defrag"), queue' = queue
        PROVE  WorkInv' /\ SoundInv'
    BY <2>1, <2>2, <2>3, <2>5, MoveFileSound
  <2> QED BY <2>1, <2>4, <2>5
<1>5. CASE SkipGap
  <2>1. /\ pc = "gaps" /\ DOMAIN ge.regions # {}
        /\ ge' = Gaps!PopBlock(ge, NextGap, Free) /\ Goto("gaps", ge')
        /\ fe' = fe /\ queue' = queue /\ files' = files /\ gap' = gap
    BY <1>5 DEF SkipGap, AnotherGap
  <2>2. TableGood(ge) /\ Gaps!Covered(ge) \subseteq Free /\ NextGap \in GP!Run
    BY <1>3, <2>1, FirstRegion
  <2>3. /\ pc' \in {"gaps", "crash"}
        /\ pc' = "crash" \/ (TableGood(ge') /\ Gaps!Covered(ge') \subseteq Free)
    BY <2>1, <2>2, PopSound
  <2>4. pc' \notin Moving \cup {"return", "throw", "widen"}
    BY <2>3 DEF Moving
  <2> QED BY <1>1, <2>1, <2>3, <2>4, IdleSound
<1>6. CASE FindBestCrashes
  <2>1. /\ pc' = "crash" /\ fe' = fe /\ queue' = queue /\ files' = files /\ gap' = gap
    BY <1>6 DEF FindBestCrashes
  <2>2. pc' \notin Moving \cup {"return", "throw", "widen"}
    BY <2>1 DEF Moving
  <2> QED BY <1>1, <2>1, <2>2, IdleSound
<1>7. CASE FillGap
  <2>1. /\ pc = "gaps" /\ DOMAIN ge.regions # {} /\ ge' = ge /\ fe' = fe /\ queue' = queue
        /\ files' = Fill!Best(fe.buckets, disp, NextGap.lcn, NextGap.length, gap.partialOK)
        /\ gap' = [gap EXCEPT !.g = ge.regions[Head1], !.freed = FALSE]
        /\ pc' \in {"set", "widen"}
    BY <1>7 DEF FillGap, AnotherGap
  <2>2. /\ TableGood(ge) /\ Gaps!Covered(ge) \subseteq Free /\ NextGap \in GP!Run
        /\ ge.regions[Head1] \in DOMAIN ge.list
    BY <1>3, <2>1, FirstRegion
  <2>3. files' \in Seq(Files)
    BY <2>1, <2>2, FillFiles DEF Undumped
  <2>4. DOMAIN gap' = DOMAIN gap /\ gap'.freed = FALSE /\ gap'.g = ge.regions[Head1]
    BY <1>1, <2>1
  <2>5. Free' = Free /\ OwnersApart'
    BY SameFree DEF WorkInv
  <2>6. WorkInv'
    BY <1>1, <2>1, <2>2, <2>3, <2>4, <2>5 DEF WorkInv, Moving
  <2>7. SoundInv'
    BY <2>1, <2>2, <2>5 DEF SoundInv
  <2> QED BY <2>6, <2>7
<1>8. CASE SetFile
  <2>1. /\ pc = "set" /\ files # <<>> /\ MoveFile(fe, Head(files), r.lcn, "set")
        /\ ge' = ge /\ gap' = gap /\ files' = files /\ queue' = queue
    BY <1>8 DEF SetFile
  <2>2. Head(files) \in Files
    BY <1>1, <2>1, HeadTailProperties
  <2> QED BY <1>1, <1>2, <2>1, <2>2, MoveFileSound
<1>9. CASE SetEnd
  <2>1. /\ pc = "set" /\ pc' = "gaps" /\ files' = <<>> /\ queue' = queue /\ ge' = ge /\ fe' = fe
        /\ gap' = [gap EXCEPT !.partialOK = FALSE]
    BY <1>9 DEF SetEnd
  <2>2. DOMAIN gap' = DOMAIN gap /\ pc' \notin Moving \cup {"return", "throw", "widen"}
    BY <2>1 DEF Moving
  <2> QED BY <1>1, <1>3, <2>1, <2>2, IdleSound
<1>10. CASE WidenFile
  BY <1>10 DEF WidenFile, WidenOn
<1>11. CASE Return
  <2>1. pc = "return" /\ ge' = ge /\ gap' = gap /\ fe' = fe
    BY <1>11 DEF Return
  <2>2. /\ mv.by \in {"defrag", "set"}
        /\ mv.by = "defrag" => queue # <<>>
        /\ mv.by = "set" => files # <<>>
    BY <2>1 DEF WorkInv
  <2>3. \/ pc' = "defrag" /\ queue # <<>> /\ queue' = Tail(queue) /\ files' = files
        \/ pc' = "set" /\ files # <<>> /\ files' = Tail(files) /\ queue' = queue
    <3>1. CASE mv.by = "defrag"
      BY <1>11, <2>2, <3>1 DEF Return
    <3>2. CASE mv.by = "set"
      BY <1>11, <2>2, <3>2 DEF Return
    <3> QED BY <2>2, <3>1, <3>2
  <2>4. queue' \in Seq(Files) /\ files' \in Seq(Files)
    BY <1>1, <2>3, HeadTailProperties
  <2>5. pc' \notin Moving \cup {"return", "throw", "widen"}
    BY <2>3 DEF Moving
  <2> QED BY <1>1, <1>3, <2>1, <2>4, <2>5, IdleSound
<1> QED BY <1>4, <1>5, <1>6, <1>7, <1>8, <1>9, <1>10, <1>11 DEF Internal

(* Opening the file changes nothing but the place in the code.             *)
LEMMA OpenSound ==
  ASSUME WorkInv, SoundInv, OpenFile
  PROVE  WorkInv' /\ SoundInv'
<1>1. /\ pc = "open" /\ pc' \in {"move", "throw"} /\ disk' = disk
      /\ fe' = fe /\ ge' = ge /\ queue' = queue /\ files' = files /\ gap' = gap /\ mv' = mv
  BY DEF OpenFile
<1>2. Free' = Free /\ OwnersApart'
  BY <1>1, SameFree DEF WorkInv
<1>3. WorkInv'
  BY <1>1, <1>2 DEF WorkInv, Moving
<1>4. SoundInv'
  BY <1>1, <1>2 DEF SoundInv
<1> QED BY <1>3, <1>4

(* The clusters of a list of one block.                                    *)
LEMMA OneBlock ==
  ASSUME NEW b
  PROVE  CellsOf(<<b>>) = Gaps!Cells(b)
<1> DEFINE s == <<b>>
<1>1. DOMAIN s = {1} /\ s[1] = b
  OBVIOUS
<1> HIDE DEF s
<1>2. CellsOf(s) = UNION { s[i].lcn .. (s[i].lcn + s[i].length - 1) : i \in {1} }
  BY <1>1 DEF CellsOf
<1>3. CellsOf(s) = s[1].lcn .. (s[1].lcn + s[1].length - 1)
  BY <1>2
<1>4. CellsOf(s) = Gaps!Cells(b)
  BY <1>1, <1>3 DEF Gaps!Cells
<1> QED BY <1>4 DEF s

(* A move that is made: each cluster still has one owner, the clusters the *)
(* file leaves are free, and its new ones are one run.                     *)
LEMMA MadeMove ==
  ASSUME Clusters <= MaxChunk, KnownInv, OwnersApart, pc = "move", mv.f \in Files, DiskInv',
         mv.target \in Cluster, Targets \subseteq Free,
         disk' = [disk EXCEPT ![mv.f] = Moved(mv.f)]
  PROVE  /\ OwnersApart'
         /\ Free \cup ToSet(disk[mv.f]) \subseteq Free' \cup ToSet(disk'[mv.f])
         /\ OneRun(disk'[mv.f])
<1> DEFINE f == mv.f
           n == Len(disk[f])
<1>1. /\ Cur = n /\ Moved(f) \in Seq(Nat) /\ Moved(f) # <<>> /\ Len(Moved(f)) = n
      /\ RetrievalPointers(Moved(f)) = <<[lcn |-> mv.target, length |-> n]>>
  BY MovedWhole
<1>2. /\ DOMAIN disk = Files /\ disk'[f] = Moved(f)
      /\ \A g \in Files : g # f => disk'[g] = disk[g]
      /\ \A g \in Files : disk[g] \in Seq(Cluster)
  BY DEF KnownInv, FiledInv, DiskInv
<1>3. n \in Nat /\ DOMAIN disk[f] = 1 .. n /\ mv.target \in Nat
  BY <1>2, LenProperties, WordAssumption DEF Cluster
<1>4. ToSet(Moved(f)) \subseteq Targets
  <2>1. \A i \in 1 .. n : Moved(f)[i] = mv.target + i - 1 /\ mv.target + i - 1 \in Targets
    BY <1>1, <1>3 DEF Moved, Targets
  <2>2. DOMAIN Moved(f) = 1 .. n
    BY <1>3 DEF Moved
  <2> QED BY <2>1, <2>2 DEF ToSet
<1>5. ToSet(disk'[f]) \subseteq Free
  BY <1>2, <1>4
<1>6. \A g \in Files : ToSet(disk[g]) \subseteq Used /\ ToSet(disk[g]) \subseteq Cluster
  <2> SUFFICES ASSUME NEW g \in Files PROVE ToSet(disk[g]) \subseteq Used /\ ToSet(disk[g]) \subseteq Cluster
    OBVIOUS
  <2>1. \A i \in DOMAIN disk[g] : disk[g][i] \in Cluster
    BY <1>2, LenProperties
  <2> QED BY <2>1 DEF ToSet, Used
<1>7. \A x \in Free : x \in Cluster /\ x \notin Fixed /\ x \notin Used
  BY DEF Free, Used
<1> HIDE DEF n, f
<1>8. f \in Files /\ f = mv.f
  BY DEF f
<1>9. OwnersApart'
  <2>1. ASSUME NEW g \in Files PROVE ToSet(disk'[g]) \cap Fixed = {}
    <3>1. CASE g = f
      BY <1>5, <1>7, <3>1
    <3>2. CASE g # f
      BY <1>2, <3>2 DEF OwnersApart
    <3> QED BY <3>1, <3>2
  <2>2. ASSUME NEW g \in Files, NEW h \in Files, g # h
        PROVE  ToSet(disk'[g]) \cap ToSet(disk'[h]) = {}
    <3>1. CASE g = f
      BY <1>2, <1>5, <1>6, <1>7, <2>2, <3>1
    <3>2. CASE h = f
      BY <1>2, <1>5, <1>6, <1>7, <2>2, <3>2
    <3>3. CASE g # f /\ h # f
      BY <1>2, <2>2, <3>3 DEF OwnersApart
    <3> QED BY <3>1, <3>2, <3>3
  <2> QED BY <2>1, <2>2 DEF OwnersApart
<1>10. Free \cup ToSet(disk[f]) \subseteq Free' \cup ToSet(disk'[f])
  <2> SUFFICES ASSUME NEW x \in Free \cup ToSet(disk[f]), x \notin ToSet(disk'[f])
               PROVE  x \in Free'
    OBVIOUS
  <2>1. x \in Cluster /\ x \notin Fixed
    BY <1>6, <1>7, <1>8 DEF OwnersApart
  <2>2. ASSUME NEW g \in Files PROVE x \notin ToSet(disk'[g])
    <3>1. CASE g # f
      <4>1. x \notin ToSet(disk[g])
        BY <1>6, <1>7, <1>8, <3>1 DEF OwnersApart
      <4> QED BY <1>2, <3>1, <4>1
    <3> QED BY <3>1
  <2>3. x \notin Used'
    BY <2>1, <2>2 DEF Used
  <2> QED BY <2>1, <2>3 DEF Free
<1>11. OneRun(disk'[f])
  <2> DEFINE b == [lcn |-> mv.target, length |-> n]
  <2>1. n # 0
    BY <1>1, EmptySeq
  <2>2. b \in Block
    BY <1>3, <2>1 DEF Block
  <2>3. Gaps!Cells(b) = CellsOf(<<b>>)
    BY OneBlock
  <2>4. CellsOf(<<b>>) = ToSet(Moved(f))
    <3>1. RetrievalPointers(Moved(f)) = <<b>>
      BY <1>1
    <3> HIDE DEF b
    <3> QED BY <1>1, <3>1, RetrievalPointersExact
  <2>5. Gaps!Cells(b) \subseteq Cluster
    BY <1>2, <1>5, <1>7, <2>3, <2>4
  <2> HIDE DEF b
  <2>6. b \in GP!Run
    BY <2>2, <2>5, BlocksAreRuns
  <2> QED BY <1>1, <1>2, <2>6 DEF OneRun, b
<1> QED BY <1>8, <1>9, <1>10, <1>11

(* The move and ge->push.                                                  *)
LEMMA MoveSound ==
  ASSUME Clusters <= MaxChunk, Memory, Faults = 0,
         KnownInv, KnownInv', WorkInv, SoundInv, MoveClusters
  PROVE  WorkInv' /\ SoundInv'
<1> DEFINE f == mv.f
           d == disp[f]
<1>1. /\ pc = "move" /\ fe' = fe /\ queue' = queue /\ files' = files /\ gap' = gap
      /\ ge' = PushFile(ge, disp[mv.f], Free') /\ pc' = IF ge'.broke THEN "crash" ELSE "dump"
  BY DEF MoveClusters, Goto
<1>2. /\ f \in Files /\ TableGood(ge) /\ Gaps!Covered(ge) \subseteq Free /\ OwnersApart
  BY <1>1 DEF WorkInv, SoundInv, Moving
<1>3. \/ /\ mv.target \in Cluster /\ Targets \subseteq Free
         /\ disk' = [disk EXCEPT ![mv.f] = Moved(mv.f)]
         /\ mv' = [mv EXCEPT !.status = "success"]
      \/ disk' = disk /\ mv' = [mv EXCEPT !.status = "already committed"]
      \/ disk' = disk /\ mv' = [mv EXCEPT !.status = "error"]
  BY DEF MoveClusters
<1>4. DOMAIN mv = {"f", "target", "left", "status", "by"} /\ DiskInv /\ DiskInv'
  BY DEF KnownInv, FiledInv, HandInv
<1>5. mv'.f = f /\ mv'.by = mv.by
  BY <1>3, <1>4
<1>6. /\ d \in Disp /\ CellsOf(d.blockmap) = ToSet(disk[f]) /\ BlocksApart(d.blockmap)
  <2>1. disk[f] \in Seq(Nat) /\ IsInjective(disk[f])
    BY <1>2, <1>4, ClustersAreNat DEF DiskInv
  <2>2. d \in {Dump(disk[f]), Order(Dump(disk[f]))}
    BY <1>1, <1>2 DEF KnownInv, Views, Undumped
  <2>3. BlocksApart(Dump(disk[f]).blockmap)
    BY <2>1, RetrievalApart DEF Dump
  <2>4. BlocksApart(Order(Dump(disk[f])).blockmap)
    BY <2>1, <2>3, DumpFacts, OrderApart
  <2> HIDE DEF d
  <2> QED BY <2>1, <2>2, <2>3, <2>4, DumpFacts
<1>7. ToSet(disk[f]) \subseteq Cluster /\ ToSet(disk[f]) \cap Free = {}
  <2>1. \A i \in DOMAIN disk[f] : disk[f][i] \in Cluster
    BY <1>2, <1>4, LenProperties DEF DiskInv
  <2> QED BY <1>2, <2>1 DEF ToSet, Free, Used
<1>8. \/ ge'.broke = TRUE
      \/ TableGood(ge') /\ Gaps!Covered(ge') = Gaps!Covered(ge) \cup ToSet(disk[f])
  <2>1. /\ CellsOf(d.blockmap) \subseteq Cluster
        /\ CellsOf(d.blockmap) \cap Gaps!Covered(ge) = {}
    BY <1>2, <1>6, <1>7
  <2> DEFINE t == PushFile(ge, d, Free')
  <2>2. ge' = t
    BY <1>1
  <2>3. \/ t.broke = TRUE
        \/ TableGood(t) /\ Gaps!Covered(t) = Gaps!Covered(ge) \cup CellsOf(d.blockmap)
    <3> HIDE DEF d, f
    <3> QED BY <1>2, <1>6, <2>1, PushFileTable
  <2> HIDE DEF t
  <2> QED BY <1>6, <2>2, <2>3
<1>9. /\ OwnersApart'
      /\ Free \cup ToSet(disk[f]) \subseteq Free' \cup ToSet(disk'[f])
      /\ mv'.status = "success" => OneRun(disk'[f])
  <2>1. CASE /\ mv.target \in Cluster /\ Targets \subseteq Free
             /\ disk' = [disk EXCEPT ![mv.f] = Moved(mv.f)]
    BY <1>1, <1>2, <1>4, <2>1, MadeMove
  <2>2. CASE disk' = disk /\ mv'.status # "success"
    <3>1. Free' = Free /\ OwnersApart'
      BY <1>2, <2>2, SameFree
    <3> QED BY <2>2, <3>1
  <2> QED BY <1>3, <1>4, <2>1, <2>2
<1>10. WorkInv'
  <2>1. /\ mv.f \in Files /\ mv.by \in {"defrag", "set"}
        /\ mv.by = "defrag" => queue # <<>>
        /\ mv.by = "set" => files # <<>>
    BY <1>1 DEF WorkInv, Moving
  <2> QED BY <1>1, <1>5, <1>9, <2>1 DEF WorkInv
<1>11. SoundInv'
  <2>1. CASE ge'.broke = TRUE
    BY <1>1, <2>1 DEF SoundInv
  <2>2. CASE TableGood(ge') /\ Gaps!Covered(ge') = Gaps!Covered(ge) \cup ToSet(disk[f])
    <3>1. Gaps!Covered(ge') \subseteq Free' \cup ToSet(disk'[mv'.f])
      BY <1>2, <1>5, <1>9, <2>2
    <3>2. mv'.status = "success" => OneRun(disk'[mv'.f])
      BY <1>5, <1>9
    <3>3. pc' \in {"crash", "dump"}
      BY <1>1
    <3> QED BY <2>2, <3>1, <3>2, <3>3 DEF SoundInv
  <2> QED BY <1>8, <2>1, <2>2
<1> QED BY <1>10, <1>11

(* The dump and ge->pop.                                                   *)
LEMMA DumpSound ==
  ASSUME Clusters <= MaxChunk, Faults = 0, KnownInv, KnownInv', WorkInv, SoundInv, DumpFile
  PROVE  WorkInv' /\ SoundInv'
<1> DEFINE c == disk[mv.f]
<1>1. pc = "dump" /\ disk' = disk /\ queue' = queue /\ files' = files
  BY DEF DumpFile
<1>2. /\ mv.f \in Files /\ TableGood(ge) /\ Gaps!Covered(ge) \subseteq Free \cup ToSet(c)
      /\ mv.status = "success" => OneRun(c)
      /\ mv.status \in {"success", "already committed", "error"}
      /\ DOMAIN mv = {"f", "target", "left", "status", "by"}
      /\ DOMAIN fe = {"buckets", "lcns", "missed"} /\ IsList(fe.buckets) /\ OfFiles(fe.buckets)
      /\ DOMAIN gap = {"g", "partialOK", "freed"} /\ c \in Seq(Nat)
  BY <1>1, ClustersAreNat
     DEF WorkInv, SoundInv, Moving, KnownInv, FiledInv, HandInv, Once
<1>3. PICK F \in {Free, {}} :
        LET d == Dump(disk[mv.f])
        IN  CASE mv.status = "success" ->
                 /\ disp' = [disp EXCEPT ![mv.f] = Order(d)]
                 /\ ge' = PopFile(ge, d, F)
                 /\ gap' = [gap EXCEPT !.freed = @ \/ PopRescans(ge, d, F)]
                 /\ fe' = Enum!FePush(fe, disp', mv.f)
                 /\ mv' = [mv EXCEPT !.left = @ - Cur, !.target = @ + Cur]
                 /\ Goto(IF mv.left = Cur THEN "return" ELSE "open", ge')
            [] mv.status = "already committed" ->
                 /\ disp' = [disp EXCEPT ![mv.f] = Order(d)]
                 /\ fe' = Enum!FePush(fe, disp', mv.f)
                 /\ pc' = "throw"
                 /\ UNCHANGED <<ge, gap, mv>>
            [] mv.status = "error" ->
                 /\ disp' = [disp EXCEPT ![mv.f] = d]
                 /\ pc' = "throw"
                 /\ UNCHANGED <<fe, ge, gap, mv>>
  <2>1. ~Spend("faults")
    BY DEF Spend, KnownInv
  <2> QED BY <2>1 DEF DumpFile
<1>4. /\ fe' = fe \/ fe' = Enum!FePush(fe, disp', mv.f)
      /\ mv'.f = mv.f /\ mv'.by = mv.by
      /\ DOMAIN gap' = DOMAIN gap
      /\ \/ mv.status = "success" /\ ge' = PopFile(ge, Dump(c), F)
            /\ pc' = IF ge'.broke THEN "crash" ELSE "return"
         \/ pc' = "throw" /\ ge' = ge
  <2>1. CASE mv.status = "success"
    <3>1. mv.left = Cur
      <4>1. mv.left \in 0 .. Clusters
        BY <1>1, <1>2 DEF KnownInv, FiledInv, HandInv, Moving
      <4>2. mv.left \in Int /\ mv.left <= MaxChunk /\ MaxChunk \in Int
        BY <4>1, ChunkAssumption, WordAssumption
      <4> QED BY <4>2 DEF Cur
    <3>2. /\ ge' = PopFile(ge, Dump(c), F)
          /\ gap' = [gap EXCEPT !.freed = @ \/ PopRescans(ge, Dump(c), F)]
          /\ fe' = Enum!FePush(fe, disp', mv.f)
          /\ mv' = [mv EXCEPT !.left = @ - Cur, !.target = @ + Cur]
          /\ Goto(IF mv.left = Cur THEN "return" ELSE "open", ge')
      BY <1>3, <2>1
    <3> QED BY <1>2, <2>1, <3>1, <3>2 DEF Goto
  <2>2. CASE mv.status = "already committed"
    BY <1>3, <2>2
  <2>3. CASE mv.status = "error"
    BY <1>3, <2>3
  <2> QED BY <1>2, <2>1, <2>2, <2>3
<1>5. OfFiles(fe'.buckets)
  <2>1. CASE fe' = fe
    BY <1>2, <2>1
  <2>2. CASE fe' = Enum!FePush(fe, disp', mv.f)
    <3> DEFINE b == Enum!BucketInsert(fe.buckets, disp'[mv.f].clusters, mv.f)
    <3>1. OfFiles(b)
      BY <1>2, PushFiles
    <3>2. \E m : fe' = [fe EXCEPT !.buckets = b, !.lcns = m]
      BY <2>2 DEF Enum!FePush
    <3> HIDE DEF b
    <3>3. fe'.buckets = b
      BY <1>2, <3>2
    <3> QED BY <3>1, <3>3
  <2> QED BY <1>4, <2>1, <2>2
<1>6. Free' = Free /\ OwnersApart'
  BY <1>1, SameFree DEF WorkInv
<1>7. pc' \in {"crash", "return", "throw"}
  BY <1>4
<1>8. WorkInv'
  <2>1. /\ queue \in Seq(Files) /\ files \in Seq(Files) /\ mv.by \in {"defrag", "set"}
        /\ mv.by = "defrag" => queue # <<>>
        /\ mv.by = "set" => files # <<>>
    BY <1>1 DEF WorkInv, Moving
  <2> QED BY <1>1, <1>2, <1>4, <1>5, <1>6, <1>7, <2>1 DEF WorkInv
<1>9. CASE pc' = "throw" /\ ge' = ge
  <2>1. SoundInv'
    BY <1>2, <1>9 DEF SoundInv
  <2> QED BY <1>8, <2>1
<1>10. CASE /\ mv.status = "success" /\ ge' = PopFile(ge, Dump(c), F)
            /\ pc' = IF ge'.broke THEN "crash" ELSE "return"
  <2>1. PICK b \in GP!Run : RetrievalPointers(c) = <<b>>
    BY <1>2, <1>10 DEF OneRun
  <2>2. Dump(c).blockmap = <<b>>
    BY <2>1 DEF Dump
  <2>3. ge' = Gaps!PopBlock(ge, b, F)
    BY <1>10, <2>2, PopFileOne
  <2>4. F \subseteq Free /\ F \subseteq Cluster
    BY DEF Free
  <2>5. \/ ge'.broke = TRUE
        \/ TableGood(ge') /\ Gaps!Covered(ge') \in {F, Gaps!Covered(ge) \ Gaps!Cells(b)}
    BY <1>2, <2>3, <2>4, PopTable
  <2>6. Gaps!Cells(b) = ToSet(c)
    <3>1. Gaps!Cells(b) = CellsOf(<<b>>)
      BY OneBlock
    <3> QED BY <1>2, <2>1, <3>1, RetrievalPointersExact
  <2>7. CASE ge'.broke = TRUE
    <3>1. SoundInv'
      BY <1>10, <2>7 DEF SoundInv
    <3> QED BY <1>8, <3>1
  <2>8. CASE TableGood(ge') /\ Gaps!Covered(ge') \in {F, Gaps!Covered(ge) \ Gaps!Cells(b)}
    <3>0. Gaps!Covered(ge) \ Gaps!Cells(b) \subseteq Free
      BY <1>2, <2>6
    <3>1. Gaps!Covered(ge') \subseteq Free
      BY <2>4, <2>8, <3>0
    <3>2. pc' \in {"crash", "return"}
      BY <1>10
    <3>3. SoundInv'
      BY <1>6, <2>8, <3>1, <3>2 DEF SoundInv
    <3> QED BY <1>8, <3>3
  <2> QED BY <2>5, <2>7, <2>8
<1> QED BY <1>4, <1>9, <1>10

(* Every step of the program, alone on the volume and without --widen.     *)
LEMMA NextSound ==
  ASSUME Clusters <= MaxChunk, Memory, Faults = 0,
         KnownInv, KnownInv', WorkInv, SoundInv, ~opts.widen, [Next]_vars
  PROVE  WorkInv' /\ SoundInv'
<1>1. CASE Internal /\ UNCHANGED <<disk, term, bound>>
  BY <1>1, InternalSound
<1>2. CASE \E F : F \subseteq Free /\ Scanning(F) /\ disk' = disk
  BY <1>2, ScanningSound
<1>3. CASE OpenFile
  BY <1>3, OpenSound
<1>4. CASE MoveClusters
  BY <1>4, MoveSound
<1>5. CASE DumpFile
  BY <1>5, DumpSound
<1>6. CASE UNCHANGED <<disk, program>>
  <2>1. Free' = Free /\ OwnersApart'
    BY <1>6, SameFree DEF WorkInv
  <2>2. /\ disk' = disk /\ fe' = fe /\ ge' = ge /\ pc' = pc /\ queue' = queue
        /\ gap' = gap /\ files' = files /\ mv' = mv
    BY <1>6 DEF program
  <2>3. WorkInv'
    BY <2>1, <2>2 DEF WorkInv
  <2>4. SoundInv'
    BY <2>1, <2>2 DEF SoundInv
  <2> QED BY <2>3, <2>4
<1>7. ASSUME NEW f \in Files, Shrink(f) \/ \E c \in Cluster : Grow(f, c)
      PROVE  FALSE
  <2>1. bound["meddling"] > 0
    BY <1>7 DEF Shrink, Grow, Spend
  <2> QED BY <2>1 DEF KnownInv
<1>8. CASE Program
  BY <1>1, <1>2, <1>3, <1>4, <1>5, <1>8 DEF Program
<1> QED BY <1>6, <1>7, <1>8 DEF Next, CtrlC, Finished, vars

(* The command line stays what it is.                                      *)
LEMMA SameOptions ==
  ASSUME [Next]_vars
  PROVE  opts' = opts
<1>1. ASSUME NEW F, Scanning(F) PROVE opts' = opts
  BY <1>1 DEF Scanning, Run, DefragEnd, GapsEnd, WidenEnd, ThrowToScan, ThrowToWiden
<1>2. CASE Internal
  BY <1>2 DEF Internal, DefragFile, SkipGap, FindBestCrashes, FillGap, SetFile, SetEnd,
              WidenFile, Return
<1>3. CASE Program
  BY <1>1, <1>2, <1>3 DEF Program, OpenFile, MoveClusters, DumpFile
<1> QED BY <1>3 DEF Next, CtrlC, Finished, Shrink, Grow, program, vars

(* Alone on a volume, and with calls that do not fail but for reads of the *)
(* bitmap, the program without --widen never takes a cluster for free that *)
(* is not, wherever it chooses a gap, whatever it moves and whether or not *)
(* the move is made: ge->push and ge->pop follow every move (op.cpp 60 and *)
(* 64), and a failed one leads to a scan.                                  *)
THEOREM SoundTable ==
  ASSUME Clusters <= MaxChunk, Meddling = 0, Faults = 0, Memory
  PROVE  Spec => []TableIsSound
<1> DEFINE Inv == KnownInv /\ (~opts.widen => WorkInv /\ SoundInv)
<1>1. Init => Inv
  BY InitKnown, InitSound
<1>2. Inv /\ [Next]_vars => Inv'
  <2> SUFFICES ASSUME KnownInv, ~opts.widen => WorkInv /\ SoundInv, [Next]_vars PROVE Inv'
    OBVIOUS
  <2>1. KnownInv' /\ opts' = opts
    BY NextKnown, SameOptions
  <2>2. CASE opts.widen
    BY <2>1, <2>2
  <2>3. CASE ~opts.widen
    <3>1. WorkInv' /\ SoundInv'
      BY <2>1, <2>3, NextSound
    <3> QED BY <2>1, <3>1
  <2> QED BY <2>2, <2>3
<1>3. Inv => TableIsSound
  BY DEF SoundInv, TableIsSound, Idle
<1> QED BY <1>1, <1>2, <1>3, PTL DEF Spec

(* The sizes of the files of fs, one after the other, add up to m.         *)
SumsTo(sz, fs, m) ==
  \E h \in [0 .. Len(fs) -> Int] :
     /\ h[0] = 0 /\ h[Len(fs)] = m
     /\ \A k \in 1 .. Len(fs) : h[k] = h[k - 1] + sz[fs[k]]

(* No files, no clusters.                                                  *)
LEMMA NoSum ==
  ASSUME NEW sz
  PROVE  SumsTo(sz, <<>>, 0)
<1> DEFINE h == [k \in {0} |-> 0]
<1>1. Len(<<>>) = 0 /\ 0 .. 0 = {0} /\ 1 .. 0 = {}
  OBVIOUS
<1>2. h \in [{0} -> Int] /\ h[0] = 0
  OBVIOUS
<1> HIDE DEF h
<1> QED BY <1>1, <1>2 DEF SumsTo

(* One more file.                                                          *)
LEMMA AppendSum ==
  ASSUME NEW sz \in [Files -> Nat], NEW fs \in Seq(Files), NEW m, SumsTo(sz, fs, m),
         NEW f \in Files
  PROVE  SumsTo(sz, Append(fs, f), m + sz[f])
<1> DEFINE n == Len(fs)
           t == Append(fs, f)
<1>1. PICK h \in [0 .. n -> Int] :
        /\ h[0] = 0 /\ h[n] = m
        /\ \A k \in 1 .. n : h[k] = h[k - 1] + sz[fs[k]]
  BY DEF SumsTo
<1>2. /\ n \in Nat /\ Len(t) = n + 1 /\ t[n + 1] = f /\ \A k \in 1 .. n : t[k] = fs[k]
      /\ sz[f] \in Int
  BY AppendProperties, LenProperties
<1> DEFINE g == [k \in 0 .. (n + 1) |-> IF k = n + 1 THEN m + sz[f] ELSE h[k]]
<1> HIDE DEF n, t
<1>3. m \in Int /\ 0 \in 0 .. (n + 1) /\ n + 1 \in 0 .. (n + 1) /\ 0 # n + 1
  BY <1>1, <1>2
<1>4. \A k \in 0 .. (n + 1) : k # n + 1 => k \in 0 .. n
  BY <1>2
<1>5. g \in [0 .. (n + 1) -> Int] /\ g[0] = 0 /\ g[n + 1] = m + sz[f]
  BY <1>1, <1>2, <1>3, <1>4
<1>6. ASSUME NEW k \in 1 .. (n + 1) PROVE g[k] = g[k - 1] + sz[t[k]]
  <2>1. k - 1 \in 0 .. n /\ k - 1 \in 0 .. (n + 1) /\ k - 1 # n + 1 /\ k \in 0 .. (n + 1)
    BY <1>2
  <2>2. g[k - 1] = h[k - 1]
    BY <2>1
  <2>3. CASE k = n + 1
    <3>1. g[k] = m + sz[f] /\ k - 1 = n /\ t[k] = f
      BY <1>2, <2>1, <2>3
    <3> QED BY <1>1, <2>2, <3>1
  <2>4. CASE k # n + 1
    <3>1. k \in 1 .. n /\ g[k] = h[k]
      BY <1>2, <2>1, <2>4
    <3> QED BY <1>1, <1>2, <2>2, <3>1
  <2> QED BY <2>3, <2>4
<1> HIDE DEF g
<1> QED BY <1>2, <1>5, <1>6 DEF SumsTo, t

(* Sums are not negative, and no file is larger than the sum.              *)
LEMMA SumNat ==
  ASSUME NEW sz \in [Files -> Nat], NEW fs \in Seq(Files), NEW m, SumsTo(sz, fs, m)
  PROVE  m \in Nat
<1> DEFINE n == Len(fs)
<1>1. PICK h \in [0 .. n -> Int] :
        /\ h[0] = 0 /\ h[n] = m
        /\ \A k \in 1 .. n : h[k] = h[k - 1] + sz[fs[k]]
  BY DEF SumsTo
<1>2. n \in Nat /\ \A k \in 1 .. n : sz[fs[k]] \in Nat
  BY LenProperties
<1> HIDE DEF n
<1> DEFINE Bad == { k \in 0 .. n : h[k] \notin Nat }
<1>3. Bad = {}
  <2> SUFFICES ASSUME Bad # {} PROVE FALSE
    OBVIOUS
  <2>1. Bad \subseteq Nat
    BY <1>2
  <2>2. PICK k \in Bad : \A j \in Bad : k <= j
    <3> HIDE DEF Bad
    <3> QED BY <2>1, LeastNumber
  <2>3. k \in 0 .. n /\ h[k] \notin Nat /\ k # 0
    BY <1>1
  <2>4. k \in 1 .. n /\ k - 1 \in 0 .. n /\ ~(k <= k - 1)
    BY <1>2, <2>3
  <2>5. h[k - 1] \in Nat
    BY <2>2, <2>4
  <2>6. h[k] = h[k - 1] + sz[fs[k]] /\ sz[fs[k]] \in Nat
    BY <1>1, <1>2, <2>4
  <2> QED BY <2>3, <2>5, <2>6
<1> QED BY <1>1, <1>2, <1>3

(* The rest of the files, when the first is done with.                     *)
LEMMA TailSum ==
  ASSUME NEW sz \in [Files -> Nat], NEW fs \in Seq(Files), fs # <<>>, NEW m, SumsTo(sz, fs, m)
  PROVE  /\ SumsTo(sz, Tail(fs), m - sz[Head(fs)])
         /\ sz[Head(fs)] <= m /\ m \in Nat
<1> DEFINE n == Len(fs)
           t == Tail(fs)
           f == Head(fs)
<1>1. PICK h \in [0 .. n -> Int] :
        /\ h[0] = 0 /\ h[n] = m
        /\ \A k \in 1 .. n : h[k] = h[k - 1] + sz[fs[k]]
  BY DEF SumsTo
<1>2. /\ n \in Nat \ {0} /\ f = fs[1] /\ t \in Seq(Files) /\ Len(t) = n - 1 /\ f \in Files
      /\ \A k \in 1 .. (n - 1) : t[k] = fs[k + 1]
  <2>1. n \in Nat /\ n # 0 /\ \A k \in 1 .. n : fs[k] \in Files
    BY LenProperties, EmptySeq
  <2>2. f = fs[1] /\ t \in Seq(Files) /\ Len(t) = n - 1 /\ \A k \in 1 .. Len(t) : t[k] = fs[k + 1]
    BY HeadTailProperties
  <2> QED BY <2>1, <2>2
<1>3. m \in Nat
  BY SumNat
<1> HIDE DEF n, t, f
<1> DEFINE g == [k \in 0 .. (n - 1) |-> h[k + 1] - sz[f]]
<1>4. sz[f] \in Nat /\ h[1] = sz[f]
  <2>1. 1 \in 1 .. n /\ 1 - 1 = 0 /\ sz[f] \in Nat
    BY <1>2
  <2> QED BY <1>1, <1>2, <2>1
<1>5. \A k \in 0 .. (n - 1) : k + 1 \in 0 .. n
  BY <1>2
<1>6. g \in [0 .. (n - 1) -> Int] /\ g[0] = 0 /\ g[n - 1] = m - sz[f]
  <2>1. 0 \in 0 .. (n - 1) /\ n - 1 \in 0 .. (n - 1) /\ 0 + 1 = 1 /\ (n - 1) + 1 = n
    BY <1>2
  <2>2. g \in [0 .. (n - 1) -> Int]
    BY <1>1, <1>4, <1>5
  <2>3. g[0] = h[1] - sz[f] /\ g[n - 1] = h[n] - sz[f]
    BY <2>1
  <2> QED BY <1>1, <1>4, <2>2, <2>3
<1>7. ASSUME NEW k \in 1 .. (n - 1) PROVE g[k] = g[k - 1] + sz[t[k]]
  <2>1. /\ k \in 0 .. (n - 1) /\ k - 1 \in 0 .. (n - 1) /\ k + 1 \in 1 .. n /\ (k - 1) + 1 = k
        /\ (k + 1) - 1 = k /\ k \in 0 .. n
    BY <1>2
  <2>2. g[k] = h[k + 1] - sz[f] /\ g[k - 1] = h[k] - sz[f]
    BY <2>1
  <2>3. h[k + 1] = h[k] + sz[fs[k + 1]] /\ h[k] \in Int
    <3>1. h[k + 1] = h[(k + 1) - 1] + sz[fs[k + 1]]
      BY <1>1, <2>1
    <3>2. h[k] \in Int
      BY <1>1, <2>1
    <3> QED BY <2>1, <3>1, <3>2
  <2>4. sz[fs[k + 1]] \in Int /\ t[k] = fs[k + 1]
    <3>1. t[k] = fs[k + 1] /\ t[k] \in Files
      BY <1>2, LenProperties
    <3>2. sz[t[k]] \in Int
      BY <3>1
    <3> QED BY <3>1, <3>2
  <2> QED BY <1>4, <2>2, <2>3, <2>4
<1> HIDE DEF g
<1>8. SumsTo(sz, t, m - sz[f])
  BY <1>2, <1>6, <1>7 DEF SumsTo
<1>9. m - sz[f] \in Nat
  BY <1>2, <1>8, SumNat
<1> QED BY <1>3, <1>4, <1>8, <1>9 DEF t, f

(* Over no two sums do the same files come out differently.                *)
LEMMA SumUnique ==
  ASSUME NEW sz \in [Files -> Nat], NEW fs \in Seq(Files), NEW m, SumsTo(sz, fs, m),
         NEW l, SumsTo(sz, fs, l)
  PROVE  l = m
<1> DEFINE n == Len(fs)
<1>1. PICK h \in [0 .. n -> Int] :
        /\ h[0] = 0 /\ h[n] = m
        /\ \A k \in 1 .. n : h[k] = h[k - 1] + sz[fs[k]]
  BY DEF SumsTo
<1>2. PICK g \in [0 .. n -> Int] :
        /\ g[0] = 0 /\ g[n] = l
        /\ \A k \in 1 .. n : g[k] = g[k - 1] + sz[fs[k]]
  BY DEF SumsTo
<1>3. n \in Nat
  BY LenProperties
<1> HIDE DEF n
<1> DEFINE Bad == { k \in 0 .. n : h[k] # g[k] }
<1>4. Bad = {}
  <2> SUFFICES ASSUME Bad # {} PROVE FALSE
    OBVIOUS
  <2>1. Bad \subseteq Nat
    BY <1>3
  <2>2. PICK k \in Bad : \A j \in Bad : k <= j
    <3> HIDE DEF Bad
    <3> QED BY <2>1, LeastNumber
  <2>3. k \in 0 .. n /\ h[k] # g[k] /\ k # 0
    BY <1>1, <1>2
  <2>4. k \in 1 .. n /\ k - 1 \in 0 .. n /\ ~(k <= k - 1)
    BY <1>3, <2>3
  <2>5. h[k - 1] = g[k - 1]
    BY <2>2, <2>4
  <2>6. h[k] = h[k - 1] + sz[fs[k]] /\ g[k] = g[k - 1] + sz[fs[k]]
    BY <1>1, <1>2, <2>4
  <2> QED BY <2>3, <2>5, <2>6
<1>5. n \in 0 .. n
  BY <1>3
<1>6. h[n] = g[n]
  BY <1>4, <1>5
<1> QED BY <1>1, <1>2, <1>6

(* The candidate loop keeps account of the gap: what it has taken and what *)
(* is left make up the gap, and every file in mind would fit.              *)
SearchSum(sz, S, length, st) ==
  /\ st.length \in Nat
  /\ SumsTo(sz, st.rvs, length - st.length)
  /\ st.known \in Seq({ e \in S : e.key <= st.length })
  /\ st.known # <<>> => st.length <= MaxLen

(* A size for every file, and every file under its size.                   *)
Sized(sz, d, S) ==
  /\ sz \in [Files -> Nat]
  /\ \A f \in Files : d[f].clusters = sz[f]
  /\ \A e \in S : e.file \in Files /\ e.key = sz[e.file]

(* One turn of the loop keeps the account.                                 *)
LEMMA ConsiderSum ==
  ASSUME NEW sz, NEW d, NEW S, Sized(sz, d, S), NEW length \in Nat,
         NEW st \in Search(S), SearchSum(sz, S, length, st), NEW lcn, NEW e \in S
  PROVE  SearchSum(sz, S, length, Fill!Consider(st, d, lcn, e))
<1> DEFINE c == Fill!Consider(st, d, lcn, e)
           f == e.file
           K == { x \in S : x.key <= st.length }
<1>1. /\ f \in Files /\ e.key = sz[f] /\ d[f].clusters = sz[f] /\ sz[f] \in Nat
      /\ sz \in [Files -> Nat]
  BY DEF Sized
<1>2. /\ st.rvs \in Seq(Files) /\ st.length \in Nat /\ SumsTo(sz, st.rvs, length - st.length)
      /\ st.known \in Seq(K) /\ (st.known # <<>> => st.length <= MaxLen)
      /\ DOMAIN st = {"rvs", "length", "known"}
  BY DEF Search, SearchSum
<1>3. MaxLen \in Int => TRUE
  OBVIOUS
<1>4. CASE st.length = 0 \/ e.key > st.length \/ Fill!InFront(d, f, lcn)
  BY <1>4 DEF Fill!Consider
<1>5. CASE ~(st.length = 0 \/ e.key > st.length \/ Fill!InFront(d, f, lcn))
  <2>1. e.key <= st.length
    BY <1>1, <1>2, <1>5
  <2>2. CASE st.length > MaxLen
    <3>1. st.known = <<>>
      BY <1>2, <2>2, BoundsAssumption
    <3>2. c = [st EXCEPT !.rvs = Append(@, f), !.length = @ - sz[f]]
      BY <1>1, <1>2, <1>5, <2>1, <2>2 DEF Fill!Consider
    <3> HIDE DEF c
    <3>3. /\ c.rvs = Append(st.rvs, f) /\ c.length = st.length - sz[f] /\ c.known = <<>>
      BY <1>2, <3>1, <3>2
    <3>4. c.length \in Nat /\ length - c.length = (length - st.length) + sz[f]
      <4>1. st.length \in Nat /\ sz[f] \in Nat /\ sz[f] <= st.length /\ c.length = st.length - sz[f]
        BY <1>1, <1>2, <2>1, <3>3
      <4> QED BY ONLY <4>1, length \in Nat
    <3>5. SumsTo(sz, c.rvs, length - c.length)
      BY <1>1, <1>2, <3>3, <3>4, AppendSum
    <3> QED BY <3>3, <3>4, <3>5 DEF SearchSum, c
  <2>3. CASE ~(st.length > MaxLen)
    <3>1. c = [st EXCEPT !.known = Fill!KnownInsert(@, d, e)]
      BY <1>5, <2>3 DEF Fill!Consider
    <3>2. e \in K
      BY <2>1
    <3>3. Fill!KnownInsert(st.known, d, e) \in Seq(K)
      <4> HIDE DEF K
      <4> QED BY <1>2, <3>2, KnownInsertType
    <3> HIDE DEF c
    <3>4. c.rvs = st.rvs /\ c.length = st.length /\ c.known \in Seq(K)
      BY <1>2, <3>1, <3>3
    <3>5. st.length <= MaxLen
      BY <1>2, <2>3, BoundsAssumption
    <3> QED BY <1>2, <3>4, <3>5 DEF SearchSum, c
  <2> QED BY <2>2, <2>3
<1> QED BY <1>4, <1>5

(* What findBest has at the end of the loop.                               *)
LEMMA CandidatesSum ==
  ASSUME NEW sz, NEW d, NEW S, Sized(sz, d, S), NEW length \in Nat,
         NEW b \in Seq(S), NEW lcn
  PROVE  /\ SearchSum(sz, S, length, Fill!Candidates(b, d, lcn, length))
         /\ Fill!Candidates(b, d, lcn, length) \in Search(S)
<1> DEFINE down == Downwards(b, length)
           n == Len(down)
<1>1. (\A f \in Files : d[f].clusters \in Int) /\ OfFiles(b) /\ length \in Int
  <2>1. \A i \in DOMAIN b : b[i] \in S
    BY LenProperties
  <2> QED BY <2>1 DEF Sized, OfFiles
<1>2. down \in Seq(S) /\ Fill!Candidates(b, d, lcn, length) \in Search(S)
  BY <1>1, CandidatesSteps, CandidatesType
<1>3. PICK h \in [0 .. n -> Search(S)] : SearchTrace(h, b, d, lcn, length)
  BY <1>1, CandidatesSteps
<1>4. n \in Nat /\ \A k \in 1 .. n : down[k] \in S
  BY <1>2, LenProperties
<1>5. /\ h[0] = [rvs |-> <<>>, length |-> length, known |-> <<>>]
      /\ \A k \in 1 .. n : h[k] = Fill!Consider(h[k - 1], d, lcn, down[k])
      /\ h[n] = Fill!Candidates(b, d, lcn, length)
  BY <1>3 DEF SearchTrace
<1> HIDE DEF n, down
<1> DEFINE Bad == { k \in 0 .. n : ~SearchSum(sz, S, length, h[k]) }
<1>6. Bad = {}
  <2> SUFFICES ASSUME Bad # {} PROVE FALSE
    OBVIOUS
  <2>1. Bad \subseteq Nat
    BY <1>4
  <2>2. PICK k \in Bad : \A j \in Bad : k <= j
    <3> HIDE DEF Bad
    <3> QED BY <2>1, LeastNumber
  <2>3. k \in 0 .. n /\ ~SearchSum(sz, S, length, h[k])
    OBVIOUS
  <2>4. k # 0
    <3>1. length - length = 0 /\ <<>> \in Seq({ e \in S : e.key <= length })
      OBVIOUS
    <3>2. h[0].rvs = <<>> /\ h[0].length = length /\ h[0].known = <<>>
      BY <1>5
    <3>3. SearchSum(sz, S, length, h[0])
      BY <3>1, <3>2, NoSum DEF SearchSum
    <3> HIDE DEF Bad
    <3> QED BY <2>3, <3>3
  <2>5. k \in 1 .. n /\ k - 1 \in 0 .. n /\ ~(k <= k - 1)
    <3> HIDE DEF Bad
    <3> QED BY <1>4, <2>3, <2>4
  <2>6. SearchSum(sz, S, length, h[k - 1])
    BY <2>2, <2>5
  <2>7. h[k] = Fill!Consider(h[k - 1], d, lcn, down[k]) /\ h[k - 1] \in Search(S) /\ down[k] \in S
    BY <1>3, <1>4, <1>5, <2>5
  <2> HIDE DEF Bad
  <2> QED BY <2>3, <2>6, <2>7, ConsiderSum
<1>7. SearchSum(sz, S, length, h[n])
  <2>1. n \in 0 .. n
    BY <1>4
  <2> QED BY <1>6, <2>1
<1> QED BY <1>2, <1>5, <1>7

(* solutions[i][w], from the row before.                                   *)
KStep(row, weights, i, w) ==
  IF i = 0 \/ w = 0 THEN [value |-> 0, items |-> {}]
  ELSE LET without == row[w]
       IN  IF weights[i] > w THEN without
           ELSE LET rest == row[w - weights[i]]
                    with == [value |-> rest.value + weights[i],
                             items |-> rest.items \cup {i}]
                IN  IF Fill!Worse(without, with) THEN with ELSE without

(* s is the table of solutions, up to row m.                               *)
Solutions(s, weights, length, m) ==
  s = [i \in 0 .. m |-> [w \in 0 .. length |-> KStep(s[i - 1], weights, i, w)]]

(* What findBest reads from its table of solutions.                        *)
LEMMA KnapsackIs ==
  ASSUME NEW weights, NEW length
  PROVE  Fill!Knapsack(weights, length) =
           (CHOOSE s : Solutions(s, weights, length, Len(weights)))[Len(weights)][length]
BY DEF Fill!Knapsack, KStep, Solutions

(* What one entry of the table is.                                         *)
LEMMA SolutionEntry ==
  ASSUME NEW s, NEW weights, NEW length, NEW m, Solutions(s, weights, length, m),
         NEW i \in 0 .. m, NEW w \in 0 .. length
  PROVE  s[i][w] = KStep(s[i - 1], weights, i, w)
<1>1. s[i] = [v \in 0 .. length |-> KStep(s[i - 1], weights, i, v)]
  BY DEF Solutions
<1> QED BY <1>1

(* There is a table.                                                       *)
LEMMA SolutionsExist ==
  ASSUME NEW weights, NEW length, NEW n \in Nat
  PROVE  \E s : Solutions(s, weights, length, n)
<1> DEFINE Bad == { m \in 0 .. n : ~\E s : Solutions(s, weights, length, m) }
<1>1. SUFFICES ASSUME Bad # {} PROVE FALSE
  <2>1. n \in 0 .. n
    OBVIOUS
  <2> QED BY <2>1
<1>2. PICK m \in Bad : \A k \in Bad : m <= k
  <2>1. Bad \subseteq Nat
    OBVIOUS
  <2> HIDE DEF Bad
  <2> QED BY <1>1, <2>1, LeastNumber
<1>3. m \in 0 .. n /\ ~\E s : Solutions(s, weights, length, m)
  OBVIOUS
<1>4. m # 0
  <2> SUFFICES ASSUME m = 0 PROVE FALSE
    OBVIOUS
  <2> DEFINE none == [value |-> 0, items |-> {}]
             s == [i \in 0 .. 0 |-> [w \in 0 .. length |-> none]]
  <2>1. \A x, i, w : i \in 0 .. 0 => KStep(x, weights, i, w) = none
    BY DEF KStep
  <2>2. s = [i \in 0 .. 0 |-> [w \in 0 .. length |-> KStep(s[i - 1], weights, i, w)]]
    <3> HIDE DEF none
    <3>1. \A i \in 0 .. 0 : [w \in 0 .. length |-> none] = [w \in 0 .. length |-> KStep(s[i - 1], weights, i, w)]
      BY <2>1
    <3> QED BY <3>1
  <2> QED BY <1>3, <2>2 DEF Solutions
<1>5. m \in 1 .. n /\ m - 1 \in 0 .. n /\ ~(m <= m - 1)
  <2> HIDE DEF Bad
  <2> QED BY <1>3, <1>4
<1>6. PICK s : Solutions(s, weights, length, m - 1)
  BY <1>2, <1>5
<1> DEFINE t == [i \in 0 .. m |->
                   IF i = m THEN [w \in 0 .. length |-> KStep(s[m - 1], weights, m, w)] ELSE s[i]]
<1>7. \A i \in 0 .. m : i # m => i \in 0 .. (m - 1)
  BY <1>5
<1>8. ASSUME NEW i \in 0 .. m
      PROVE  t[i] = [w \in 0 .. length |-> KStep(t[i - 1], weights, i, w)]
  <2>1. CASE i = 0
    <3>1. t[i] = s[0] /\ s[0] = [w \in 0 .. length |-> KStep(s[0 - 1], weights, 0, w)]
      BY <1>4, <1>5, <1>6, <1>7, <2>1 DEF Solutions
    <3>2. \A x, y, w : KStep(x, weights, 0, w) = KStep(y, weights, 0, w)
      BY DEF KStep
    <3> HIDE DEF t
    <3>3. [w \in 0 .. length |-> KStep(s[0 - 1], weights, 0, w)] = [w \in 0 .. length |-> KStep(t[i - 1], weights, 0, w)]
      BY <3>2
    <3> QED BY <2>1, <3>1, <3>3
  <2>2. CASE i = m
    <3>1. m - 1 \in 0 .. m /\ m - 1 # m /\ m \in 0 .. m
      BY <1>5
    <3>2. t[m - 1] = s[m - 1] /\ t[m] = [w \in 0 .. length |-> KStep(s[m - 1], weights, m, w)]
      BY <3>1
    <3> HIDE DEF t
    <3> QED BY <2>2, <3>2
  <2>3. CASE i # 0 /\ i # m
    <3>1. i \in 0 .. (m - 1) /\ i - 1 \in 0 .. m /\ i - 1 # m
      BY <1>5, <2>3
    <3>2. t[i] = s[i] /\ t[i - 1] = s[i - 1] 
      BY <2>3, <3>1
    <3>3. s[i] = [w \in 0 .. length |-> KStep(s[i - 1], weights, i, w)]
      BY <1>6, <3>1 DEF Solutions
    <3> HIDE DEF t
    <3> QED BY <3>2, <3>3
  <2> QED BY <2>1, <2>2, <2>3
<1>9. Solutions(t, weights, length, m)
  <2>1. t = [i \in 0 .. m |-> t[i]]
    OBVIOUS
  <2> HIDE DEF t
  <2> QED BY <1>8, <2>1 DEF Solutions
<1> QED BY <1>3, <1>9

(* What the items of a set weigh, of the first i.                          *)
ItemsSum(weights, items, i, v) ==
  \E h \in [0 .. i -> Int] :
     /\ h[0] = 0 /\ h[i] = v
     /\ \A k \in 1 .. i : h[k] = h[k - 1] + (IF k \in items THEN weights[k] ELSE 0)

(* A solution is what it says, fits, and is no worse than any one item.    *)
Solves(x, weights, i, w) ==
  /\ DOMAIN x = {"value", "items"}
  /\ x.value \in 0 .. w
  /\ x.items \subseteq 1 .. i
  /\ ItemsSum(weights, x.items, i, x.value)
  /\ x.items = {} => x.value = 0
  /\ \A j \in 1 .. i : weights[j] <= w => weights[j] <= x.value

(* One more item, taken or not.                                            *)
LEMMA MoreItems ==
  ASSUME NEW weights, NEW i \in Nat, NEW items, items \subseteq 1 .. i, NEW v,
         ItemsSum(weights, items, i, v), weights[i + 1] \in Int
  PROVE  /\ ItemsSum(weights, items, i + 1, v)
         /\ ItemsSum(weights, items \cup {i + 1}, i + 1, v + weights[i + 1])
<1>1. PICK h \in [0 .. i -> Int] :
        /\ h[0] = 0 /\ h[i] = v
        /\ \A k \in 1 .. i : h[k] = h[k - 1] + (IF k \in items THEN weights[k] ELSE 0)
  BY DEF ItemsSum
<1>2. i + 1 \notin items /\ v \in Int /\ i \in 0 .. i
  BY <1>1
<1>3. ASSUME NEW more, more \in {items, items \cup {i + 1}}
      PROVE  ItemsSum(weights, more, i + 1, v + (IF i + 1 \in more THEN weights[i + 1] ELSE 0))
  <2> DEFINE x == IF i + 1 \in more THEN weights[i + 1] ELSE 0
             g == [k \in 0 .. (i + 1) |-> IF k = i + 1 THEN v + x ELSE h[k]]
  <2>1. x \in Int
    OBVIOUS
  <2>2. \A k \in 0 .. (i + 1) : k # i + 1 => k \in 0 .. i
    OBVIOUS
  <2>3. 0 \in 0 .. (i + 1) /\ i + 1 \in 0 .. (i + 1) /\ 0 # i + 1
    OBVIOUS
  <2>4. \A k \in 1 .. i : k \in more <=> k \in items
    BY <1>2, <1>3
  <2>5. ASSUME NEW k \in 1 .. (i + 1)
        PROVE  g[k] = g[k - 1] + (IF k \in more THEN weights[k] ELSE 0)
    <3>1. k - 1 \in 0 .. i /\ k - 1 \in 0 .. (i + 1) /\ k - 1 # i + 1 /\ k \in 0 .. (i + 1)
      OBVIOUS
    <3>2. g[k - 1] = h[k - 1]
      BY <3>1
    <3>3. CASE k = i + 1
      <4>1. g[k] = v + x /\ k - 1 = i
        BY <3>1, <3>3
      <4> QED BY <1>1, <3>2, <3>3, <4>1
    <3>4. CASE k # i + 1
      <4>1. k \in 1 .. i /\ g[k] = h[k]
        BY <3>1, <3>4
      <4>2. h[k] = h[k - 1] + (IF k \in items THEN weights[k] ELSE 0)
        BY <1>1, <4>1
      <4> QED BY <2>4, <3>2, <4>1, <4>2
    <3> QED BY <3>3, <3>4
  <2> HIDE DEF x
  <2>6. g \in [0 .. (i + 1) -> Int] /\ g[0] = 0 /\ g[i + 1] = v + x
    BY <1>1, <1>2, <2>1, <2>2, <2>3
  <2> HIDE DEF g
  <2> QED BY <2>5, <2>6 DEF ItemsSum, x
<1>4. ItemsSum(weights, items, i + 1, v + 0)
  BY <1>2, <1>3
<1>5. ItemsSum(weights, items \cup {i + 1}, i + 1, v + weights[i + 1])
  BY <1>3
<1> QED BY <1>2, <1>4, <1>5

(* The empty solution.                                                     *)
LEMMA NoItems ==
  ASSUME NEW weights \in Seq(Nat), NEW i \in 0 .. Len(weights), NEW w \in Nat, i = 0 \/ w = 0
  PROVE  Solves([value |-> 0, items |-> {}], weights, i, w)
<1> DEFINE x == [value |-> 0, items |-> {}]
           h == [k \in 0 .. i |-> 0]
<1>0. Len(weights) \in Nat /\ \A j \in 1 .. Len(weights) : weights[j] \in Nat
  BY LenProperties
<1>1. i \in Nat /\ (\A k \in 1 .. i : k \in 0 .. i /\ k - 1 \in 0 .. i) /\ 0 \in 0 .. i /\ i \in 0 .. i
  BY <1>0
<1>2. h \in [0 .. i -> Int] /\ \A k \in 0 .. i : h[k] = 0
  OBVIOUS
<1> HIDE DEF h
<1>3. ItemsSum(weights, {}, i, 0)
  <2>1. \A k \in 1 .. i : h[k] = h[k - 1] + (IF k \in {} THEN weights[k] ELSE 0)
    BY <1>1, <1>2
  <2> QED BY <1>1, <1>2, <2>1 DEF ItemsSum
<1>4. ASSUME NEW j \in 1 .. i, weights[j] <= w PROVE weights[j] <= 0
  <2>1. i # 0 /\ w = 0
    BY <1>1
  <2>2. weights[j] \in Nat /\ weights[j] <= 0
    BY <1>0, <1>4, <2>1
  <2> QED BY <2>2
<1>5. x.value = 0 /\ x.items = {} /\ DOMAIN x = {"value", "items"} /\ 0 \in 0 .. w
  OBVIOUS
<1> HIDE DEF x
<1>6. Solves(x, weights, i, w)
  BY <1>3, <1>4, <1>5 DEF Solves
<1> QED BY <1>6 DEF x

(* A row of solutions makes the next.                                      *)
LEMMA NextRow ==
  ASSUME NEW weights \in Seq(Nat), NEW i \in 1 .. Len(weights), NEW length \in Nat, NEW row,
         \A w \in 0 .. length : Solves(row[w], weights, i - 1, w), NEW w \in 0 .. length
  PROVE  Solves(KStep(row, weights, i, w), weights, i, w)
<1>0. Len(weights) \in Nat /\ \A j \in 1 .. Len(weights) : weights[j] \in Nat
  BY LenProperties
<1>1. /\ i \in Nat /\ i - 1 \in Nat /\ (i - 1) + 1 = i /\ i # 0 /\ weights[i] \in Nat /\ w \in Nat
      /\ i \in 0 .. Len(weights) /\ (\A j \in 1 .. i : j # i => j \in 1 .. (i - 1))
      /\ 1 .. (i - 1) \subseteq 1 .. i /\ i \in 1 .. i
      /\ \A j \in 1 .. i : weights[j] \in Nat
  BY <1>0
<1>4. weights[(i - 1) + 1] \in Int
  BY <1>1
<1>2. CASE w = 0
  BY <1>1, <1>2, NoItems DEF KStep
<1>3. CASE w # 0
  <2> DEFINE without == row[w]
             a == without
  <2>1. Solves(a, weights, i - 1, w)
    OBVIOUS
  <2>2. /\ DOMAIN a = {"value", "items"} /\ a.value \in 0 .. w /\ a.items \subseteq 1 .. (i - 1)
        /\ ItemsSum(weights, a.items, i - 1, a.value) /\ (a.items = {} => a.value = 0)
        /\ \A j \in 1 .. (i - 1) : weights[j] <= w => weights[j] <= a.value
    BY <2>1 DEF Solves
  <2> HIDE DEF without
  <2>3. ItemsSum(weights, a.items, i, a.value) /\ a.items \subseteq 1 .. i
    <3>1. ItemsSum(weights, a.items, (i - 1) + 1, a.value)
      BY <1>1, <1>4, <2>2, MoreItems
    <3> QED BY <1>1, <2>2, <3>1
  <2>4. CASE weights[i] > w
    <3>1. KStep(row, weights, i, w) = a
      BY <1>1, <1>3, <2>4 DEF KStep, without
    <3>2. \A j \in 1 .. i : weights[j] <= w => weights[j] <= a.value
      BY <1>1, <2>2, <2>4
    <3> QED BY <2>2, <2>3, <3>1, <3>2 DEF Solves
  <2>5. CASE ~(weights[i] > w)
    <3> DEFINE v == w - weights[i]
               rest == row[v]
               b == [value |-> rest.value + weights[i], items |-> rest.items \cup {i}]
    <3>1. v \in 0 .. length /\ v \in Nat /\ weights[i] <= w
      BY <1>1, <2>5
    <3>2. Solves(rest, weights, i - 1, v)
      BY <3>1
    <3>3. /\ rest.value \in 0 .. v /\ rest.items \subseteq 1 .. (i - 1)
          /\ ItemsSum(weights, rest.items, i - 1, rest.value)
      BY <3>2 DEF Solves
    <3> HIDE DEF rest
    <3>4. /\ DOMAIN b = {"value", "items"} /\ b.value = rest.value + weights[i]
          /\ b.items = rest.items \cup {i}
      OBVIOUS
    <3>5. KStep(row, weights, i, w) = IF Fill!Worse(a, b) THEN b ELSE a
      BY <1>1, <1>3, <2>5 DEF KStep, without, rest
    <3> HIDE DEF b
    <3>6. ItemsSum(weights, b.items, i, b.value) /\ b.items \subseteq 1 .. i /\ b.items # {}
      <4>1. ItemsSum(weights, rest.items \cup {(i - 1) + 1}, (i - 1) + 1, rest.value + weights[(i - 1) + 1])
        BY <1>1, <1>4, <3>3, MoreItems
      <4>2. ItemsSum(weights, b.items, i, b.value)
        BY <1>1, <3>4, <4>1
      <4> QED BY <1>1, <3>3, <3>4, <4>2
    <3>7. b.value \in 0 .. w /\ weights[i] <= b.value
      BY <1>1, <3>1, <3>3, <3>4
    <3>8. (Fill!Worse(a, b) => a.value <= b.value) /\ (~Fill!Worse(a, b) => b.value <= a.value)
      BY <2>2, <3>7 DEF Fill!Worse
    <3>9. CASE Fill!Worse(a, b)
      <4>1. ASSUME NEW j \in 1 .. i, weights[j] <= w PROVE weights[j] <= b.value
        <5>1. CASE j = i
          BY <3>7, <5>1
        <5>2. CASE j # i
          <6>1. weights[j] <= a.value /\ a.value <= b.value /\ weights[j] \in Nat /\ a.value \in Nat /\ b.value \in Nat
            BY <1>1, <2>2, <3>7, <3>8, <3>9, <4>1, <5>2
          <6> QED BY <6>1
        <5> QED BY <5>1, <5>2
      <4> QED BY <3>4, <3>5, <3>6, <3>7, <3>9, <4>1 DEF Solves
    <3>10. CASE ~Fill!Worse(a, b)
      <4>1. ASSUME NEW j \in 1 .. i, weights[j] <= w PROVE weights[j] <= a.value
        <5>1. CASE j = i
          <6>1. weights[i] <= b.value /\ b.value <= a.value /\ weights[j] \in Nat /\ a.value \in Nat /\ b.value \in Nat
            BY <1>1, <2>2, <3>7, <3>8, <3>10
          <6> QED BY <5>1, <6>1
        <5>2. CASE j # i
          BY <1>1, <2>2, <4>1, <5>2
        <5> QED BY <5>1, <5>2
      <4> QED BY <2>2, <2>3, <3>5, <3>10, <4>1 DEF Solves
    <3> QED BY <3>9, <3>10
  <2> QED BY <2>4, <2>5
<1> QED BY <1>2, <1>3

(* The knapsack's result.                                                  *)
LEMMA KnapsackSolves ==
  ASSUME NEW weights \in Seq(Nat), NEW length \in Nat
  PROVE  Solves(Fill!Knapsack(weights, length), weights, Len(weights), length)
<1> DEFINE n == Len(weights)
           s == CHOOSE t : Solutions(t, weights, length, n)
<1>1. n \in Nat
  BY LenProperties
<1>2. Solutions(s, weights, length, n)
  BY <1>1, SolutionsExist
<1>3. Fill!Knapsack(weights, length) = s[n][length]
  BY KnapsackIs
<1> HIDE DEF s, n
<1> DEFINE Bad == { i \in 0 .. n : ~\A w \in 0 .. length : Solves(s[i][w], weights, i, w) }
<1>4. Bad = {}
  <2> SUFFICES ASSUME Bad # {} PROVE FALSE
    OBVIOUS
  <2>1. Bad \subseteq Nat
    BY <1>1
  <2>2. PICK i \in Bad : \A j \in Bad : i <= j
    <3> HIDE DEF Bad
    <3> QED BY <2>1, LeastNumber
  <2>3. i \in 0 .. n 
    OBVIOUS
  <2>4. PICK w \in 0 .. length : ~Solves(s[i][w], weights, i, w)
    OBVIOUS
  <2>5. s[i][w] = KStep(s[i - 1], weights, i, w) /\ w \in Nat
    BY <1>2, <2>3, SolutionEntry
  <2>6. CASE i = 0
    <3>1. s[i][w] = [value |-> 0, items |-> {}]
      BY <2>5, <2>6 DEF KStep
    <3>2. i \in 0 .. Len(weights)
      BY <2>3 DEF n
    <3> HIDE DEF Bad
    <3> QED BY <2>4, <2>5, <2>6, <3>1, <3>2, NoItems
  <2>7. CASE i # 0
    <3>1. i \in 1 .. n /\ i - 1 \in 0 .. n /\ ~(i <= i - 1)
      BY <1>1, <2>3, <2>7
    <3>2. \A x \in 0 .. length : Solves(s[i - 1][x], weights, i - 1, x)
      BY <2>2, <3>1
    <3>3. i \in 1 .. Len(weights)
      BY <3>1 DEF n
    <3> HIDE DEF Bad
    <3> QED BY <2>4, <2>5, <3>2, <3>3, NextRow
  <2> QED BY <2>6, <2>7
<1>5. n \in 0 .. n /\ length \in 0 .. length
  BY <1>1
<1>6. Solves(s[n][length], weights, n, length)
  BY <1>4, <1>5
<1> QED BY <1>3, <1>6 DEF n

(* The candidates' weights are their sizes.                                *)
Weighed(weights, cands, sz) == \A k \in 1 .. Len(cands) : weights[k] = sz[cands[k]]

(* What the files of a solution add up to.                                 *)
LEMMA ChosenSum ==
  ASSUME NEW sz \in [Files -> Nat], NEW rvs \in Seq(Files), NEW m, SumsTo(sz, rvs, m),
         NEW cands \in Seq(Files), NEW weights, Weighed(weights, cands, sz),
         NEW items, NEW v, ItemsSum(weights, items, Len(cands), v)
  PROVE  /\ SumsTo(sz, Fill!Chosen(rvs, cands, items), m + v)
         /\ Fill!Chosen(rvs, cands, items) = <<>> => rvs = <<>> /\ items \cap (1 .. Len(cands)) = {}
<1> DEFINE n == Len(cands)
<1>1. PICK h \in [0 .. n -> Seq(Files)] : ChosenTrace(h, rvs, cands, items)
  BY ChosenSteps
<1>2. PICK g \in [0 .. n -> Int] :
        /\ g[0] = 0 /\ g[n] = v
        /\ \A k \in 1 .. n : g[k] = g[k - 1] + (IF k \in items THEN weights[k] ELSE 0)
  BY DEF ItemsSum
<1>3. /\ h[0] = rvs /\ h[n] = Fill!Chosen(rvs, cands, items)
      /\ \A k \in 1 .. n : h[k] = Chosen1(h[k - 1], cands, items, k)
  BY <1>1 DEF ChosenTrace
<1>4. n \in Nat /\ \A k \in 1 .. n : cands[k] \in Files /\ weights[k] = sz[cands[k]]
  BY LenProperties DEF Weighed
<1>5. m \in Nat
  BY SumNat
<1> HIDE DEF n
<1> DEFINE Good(k) == /\ SumsTo(sz, h[k], m + g[k])
                      /\ h[k] = <<>> => rvs = <<>> /\ items \cap (1 .. k) = {}
           Bad == { k \in 0 .. n : ~Good(k) }
<1>6. Bad = {}
  <2> SUFFICES ASSUME Bad # {} PROVE FALSE
    OBVIOUS
  <2>1. Bad \subseteq Nat
    BY <1>4
  <2>2. PICK k \in Bad : \A j \in Bad : k <= j
    <3> HIDE DEF Bad
    <3> QED BY <2>1, LeastNumber
  <2>3. k \in 0 .. n /\ ~Good(k)
    OBVIOUS
  <2>4. k # 0
    <3>1. m + 0 = m /\ 1 .. 0 = {}
      BY <1>5
    <3>2. Good(0)
      BY <1>2, <1>3, <3>1
    <3> HIDE DEF Bad, Good
    <3> QED BY <2>3, <3>2
  <2>5. k \in 1 .. n /\ k - 1 \in 0 .. n /\ ~(k <= k - 1)
    <3> HIDE DEF Bad, Good
    <3> QED BY <1>4, <2>3, <2>4
  <2>6. Good(k - 1)
    BY <2>2, <2>5
  <2> HIDE DEF Bad
  <2>7. /\ h[k - 1] \in Seq(Files) /\ cands[k] \in Files /\ g[k - 1] \in Int
        /\ h[k] = Chosen1(h[k - 1], cands, items, k)
        /\ g[k] = g[k - 1] + (IF k \in items THEN weights[k] ELSE 0) /\ weights[k] = sz[cands[k]]
    BY <1>1, <1>2, <1>3, <1>4, <2>5
  <2>8. CASE k \in items
    <3>1. h[k] = Append(h[k - 1], cands[k]) /\ m + g[k] = (m + g[k - 1]) + sz[cands[k]]
      <4>1. g[k] = g[k - 1] + sz[cands[k]] /\ sz[cands[k]] \in Int
        BY <2>7, <2>8
      <4> QED BY <1>5, <2>7, <2>8, <4>1 DEF Chosen1
    <3>4. SumsTo(sz, h[k - 1], m + g[k - 1])
      BY <2>6
    <3> DEFINE a == m + g[k - 1]
               p == h[k - 1]
               c == cands[k]
    <3>2. SumsTo(sz, Append(p, c), a + sz[c])
      <4>1. p \in Seq(Files) /\ c \in Files /\ SumsTo(sz, p, a)
        BY <2>7, <3>4
      <4> HIDE DEF a, p, c, Good
      <4> QED BY <4>1, AppendSum
    <3>3. h[k] # <<>>
      <4>1. Append(p, c) # <<>>
        <5>1. p \in Seq(Files) /\ c \in Files
          BY <2>7
        <5> HIDE DEF p, c
        <5> QED BY <5>1, AppendProperties
      <4> QED BY <3>1, <4>1
    <3>5. SumsTo(sz, h[k], m + g[k])
      BY <3>1, <3>2
    <3> QED BY <2>3, <3>3, <3>5
  <2>9. CASE k \notin items
    <3>1. h[k] = h[k - 1] /\ g[k] = g[k - 1] /\ \A j \in 1 .. k : j # k => j \in 1 .. (k - 1)
      BY <2>5, <2>7, <2>9 DEF Chosen1
    <3> QED BY <2>3, <2>6, <2>9, <3>1
  <2> QED BY <2>8, <2>9
<1>7. n \in 0 .. n
  BY <1>4
<1>8. Good(n)
  BY <1>6, <1>7
<1> QED BY <1>2, <1>3, <1>8 DEF n

(* What findBest promises of its answer for a gap: it fits, and fills the  *)
(* gap unless a part will do.                                              *)
Fits(sz, fs, length, partialOK) ==
  \E m \in 0 .. length : SumsTo(sz, fs, m) /\ (partialOK \/ fs = <<>> \/ m = length)

(* The knapsack's part, and that a part is found if there is a candidate.  *)
LEMMA RestSum ==
  ASSUME NEW sz, NEW d, NEW S, Sized(sz, d, S), NEW length \in Nat,
         NEW st \in Search(S), SearchSum(sz, S, length, st), NEW partialOK \in BOOLEAN
  PROVE  /\ Fits(sz, Fill!FillRest(st, d, partialOK), length, partialOK)
         /\ partialOK /\ Fill!FillRest(st, d, partialOK) = <<>> =>
              st.rvs = <<>> /\ \A i \in DOMAIN st.known : st.known[i].key = 0
<1> DEFINE cands == [i \in DOMAIN st.known |-> st.known[i].file]
           weights == [i \in DOMAIN cands |-> d[cands[i]].clusters]
           solution == Fill!Knapsack(weights, st.length)
           nothing == IF partialOK THEN st.rvs ELSE <<>>
           fr == Fill!FillRest(st, d, partialOK)
           n == Len(st.known)
           K == { e \in S : e.key <= st.length }
           m == length - st.length
<1>1. /\ st.rvs \in Seq(Files) /\ st.known \in Seq(K) /\ st.length \in Nat
      /\ SumsTo(sz, st.rvs, m)
  BY DEF Search, SearchSum
<1>2. /\ sz \in [Files -> Nat] /\ \A f \in Files : d[f].clusters = sz[f]
      /\ \A e \in S : e.file \in Files /\ e.key = sz[e.file]
  BY DEF Sized
<1>3. m \in Nat /\ m <= length /\ m \in 0 .. length
  <2>1. m \in Nat
    <3> HIDE DEF m
    <3> QED BY <1>1, <1>2, SumNat
  <2> QED BY <1>1, <2>1
<1>4. n \in Nat /\ DOMAIN st.known = 1 .. n /\ \A i \in 1 .. n : st.known[i] \in K
  BY <1>1, LenProperties
<1>5. /\ cands \in Seq(Files) /\ Len(cands) = n /\ DOMAIN cands = 1 .. n
      /\ \A i \in 1 .. n : cands[i] = st.known[i].file /\ cands[i] \in Files
  <2>1. cands \in [1 .. n -> Files] /\ \A i \in 1 .. n : cands[i] = st.known[i].file
    BY <1>2, <1>4
  <2> HIDE DEF cands, n
  <2>2. cands \in Seq(Files)
    BY <1>4, <2>1, SeqDef
  <2> QED BY <1>4, <2>1, <2>2, LenProperties
<1>6. /\ weights \in Seq(Nat) /\ Len(weights) = n
      /\ \A i \in 1 .. n : weights[i] = sz[cands[i]] /\ weights[i] \in Nat /\ weights[i] <= st.length
                           /\ weights[i] = st.known[i].key
  <2>0. \A i \in 1 .. n : sz[cands[i]] \in Nat /\ sz[cands[i]] <= st.length /\ sz[cands[i]] = st.known[i].key
    BY <1>2, <1>4, <1>5
  <2> HIDE DEF cands, n, K
  <2>1. weights \in [1 .. n -> Nat] /\ \A i \in 1 .. n : weights[i] = sz[cands[i]]
    BY <1>2, <1>5, <2>0
  <2> HIDE DEF weights
  <2>2. weights \in Seq(Nat)
    BY <1>4, <2>1, SeqDef
  <2> QED BY <1>4, <2>0, <2>1, <2>2, LenProperties
<1>7. fr = CASE Len(cands) = 0 -> nothing
             [] Len(cands) = 1 ->
                  IF weights[1] = st.length \/ (partialOK /\ weights[1] <= st.length)
                  THEN Append(st.rvs, cands[1])
                  ELSE nothing
             [] Len(cands) > 1 ->
                  IF ~partialOK /\ solution.value # st.length THEN <<>>
                  ELSE Fill!Chosen(st.rvs, cands, solution.items)
  BY DEF Fill!FillRest
<1>8. Fits(sz, nothing, length, partialOK) /\ Fits(sz, <<>>, length, partialOK)
  <2>1. 0 \in 0 .. length
    OBVIOUS
  <2> HIDE DEF m
  <2>2. Fits(sz, <<>>, length, partialOK)
    BY <2>1, NoSum DEF Fits
  <2>3. CASE partialOK
    BY <1>1, <1>3, <2>2, <2>3 DEF Fits
  <2> QED BY <2>2, <2>3
<1>9. Solves(solution, weights, n, st.length)
  <2> HIDE DEF weights
  <2> QED BY <1>1, <1>6, KnapsackSolves
<1> HIDE DEF cands, weights, solution, nothing, fr, n, K
<1>10. CASE n = 0
  <2>1. fr = nothing
    BY <1>5, <1>7, <1>10
  <2>2. DOMAIN st.known = {}
    BY <1>4, <1>10
  <2> QED BY <1>8, <2>1, <2>2 DEF fr, nothing
<1>11. CASE n = 1
  <2>1. fr = IF weights[1] = st.length \/ (partialOK /\ weights[1] <= st.length)
             THEN Append(st.rvs, cands[1]) ELSE nothing
    BY <1>5, <1>7, <1>11
  <2>2. weights[1] = sz[cands[1]] /\ weights[1] \in Nat /\ weights[1] <= st.length /\ cands[1] \in Files
    BY <1>5, <1>6, <1>11
  <2>3. CASE fr = Append(st.rvs, cands[1])
    <3>1. SumsTo(sz, fr, m + sz[cands[1]])
      <4> HIDE DEF m
      <4> QED BY <1>1, <1>2, <2>2, <2>3, AppendSum
    <3>2. fr # <<>>
      BY <1>1, <2>2, <2>3
    <3>3. m + sz[cands[1]] \in 0 .. length /\ (weights[1] = st.length => m + sz[cands[1]] = length)
      BY <1>1, <1>3, <2>2
    <3>4. partialOK \/ m + sz[cands[1]] = length \/ fr = nothing
      BY <2>1, <3>3
    <3>5. Fits(sz, fr, length, partialOK)
      <4> HIDE DEF m
      <4> QED BY <1>8, <3>1, <3>3, <3>4 DEF Fits
    <3> QED BY <3>2, <3>5 DEF fr
  <2>4. CASE fr # Append(st.rvs, cands[1])
    <3>1. fr = nothing /\ ~partialOK
      BY <2>1, <2>2, <2>4
    <3> QED BY <1>8, <3>1 DEF fr
  <2> QED BY <2>3, <2>4
<1>12. CASE n > 1
  <2> DEFINE ch == Fill!Chosen(st.rvs, cands, solution.items)
  <2>1. fr = IF ~partialOK /\ solution.value # st.length THEN <<>> ELSE ch
    <3>1. n # 0 /\ n # 1
      BY <1>4, <1>12
    <3> QED BY <1>5, <1>7, <1>12, <3>1
  <2>2. /\ solution.value \in 0 .. st.length /\ solution.items \subseteq 1 .. n
        /\ ItemsSum(weights, solution.items, n, solution.value)
        /\ (solution.items = {} => solution.value = 0)
        /\ \A j \in 1 .. n : weights[j] <= st.length => weights[j] <= solution.value
    BY <1>9 DEF Solves
  <2>3. /\ SumsTo(sz, ch, m + solution.value)
        /\ ch = <<>> => st.rvs = <<>> /\ solution.items \cap (1 .. n) = {}
    <3>1. /\ \A k \in 1 .. Len(cands) : weights[k] = sz[cands[k]]
          /\ ItemsSum(weights, solution.items, Len(cands), solution.value)
          /\ st.rvs \in Seq(Files) /\ SumsTo(sz, st.rvs, m) /\ sz \in [Files -> Nat]
          /\ cands \in Seq(Files) /\ Len(cands) = n
      BY <1>1, <1>2, <1>5, <1>6, <2>2
    <3> DEFINE rv == st.rvs
               it == solution.items
               va == solution.value
    <3>2. /\ SumsTo(sz, Fill!Chosen(rv, cands, it), m + va)
          /\ Fill!Chosen(rv, cands, it) = <<>> => rv = <<>> /\ it \cap (1 .. Len(cands)) = {}
      <4>1. /\ Weighed(weights, cands, sz)
            /\ ItemsSum(weights, it, Len(cands), va)
            /\ rv \in Seq(Files) /\ SumsTo(sz, rv, m) /\ sz \in [Files -> Nat]
            /\ cands \in Seq(Files)
        BY <3>1 DEF Weighed
      <4> HIDE DEF m, rv, it, va, ch
      <4> QED BY <4>1, ChosenSum
    <3> QED BY <3>1, <3>2
  <2> HIDE DEF ch
  <2>4. m + solution.value \in 0 .. length /\ (solution.value = st.length => m + solution.value = length)
    BY <1>1, <1>3, <2>2
  <2>5. Fits(sz, fr, length, partialOK)
    <3> HIDE DEF m
    <3> QED BY <1>8, <2>1, <2>3, <2>4 DEF Fits
  <2>6. ASSUME partialOK, fr = <<>>
        PROVE  st.rvs = <<>> /\ \A i \in DOMAIN st.known : st.known[i].key = 0
    <3>1. st.rvs = <<>> /\ solution.items = {} /\ solution.value = 0
      BY <2>1, <2>2, <2>3, <2>6
    <3>2. ASSUME NEW i \in 1 .. n PROVE st.known[i].key = 0
      <4>1. weights[i] <= 0 /\ weights[i] \in Nat /\ weights[i] = st.known[i].key
        BY <1>6, <2>2, <3>1
      <4> QED BY <4>1
    <3> QED BY <1>4, <3>1, <3>2
  <2> QED BY <2>5, <2>6 DEF fr
<1> QED BY <1>4, <1>10, <1>11, <1>12

(* What findBest names fits into the gap, and fills it unless a part will  *)
(* do.                                                                     *)
LEMMA BestSum ==
  ASSUME NEW sz, NEW d, NEW S, Sized(sz, d, S), NEW length \in Nat,
         NEW b \in Seq(S), NEW lcn, NEW partialOK \in BOOLEAN,
         \A i \in DOMAIN b : b[i].key = length => HeadLcn(d[b[i].file]) \in Cluster
  PROVE  Fits(sz, Fill!Best(b, d, lcn, length, partialOK), length, partialOK)
<1> DEFINE perfect == Fill!PerfectFits(b, d, lcn, length)
           st == Fill!Candidates(b, d, lcn, length)
           far == Fill!Farthest(b, d, perfect)
<1>1. st \in Search(S) /\ SearchSum(sz, S, length, st)
  BY CandidatesSum
<1>2. Fill!Best(b, d, lcn, length, partialOK) =
        IF perfect # {} THEN <<b[far].file>>
        ELSE IF st.length = 0 THEN st.rvs ELSE Fill!FillRest(st, d, partialOK)
  BY DEF Fill!Best
<1> HIDE DEF st
<1>3. length \in 0 .. length
  OBVIOUS
<1>4. CASE perfect # {}
  <2>1. far \in perfect
    BY <1>4, FarthestFound
  <2>2. far \in DOMAIN b /\ b[far].key = length
    BY <2>1 DEF Fill!PerfectFits
  <2> DEFINE f == b[far].file
  <2>3. f \in Files /\ sz[f] = length /\ sz \in [Files -> Nat]
    <3>1. b[far] \in S
      BY <2>2, LenProperties
    <3> QED BY <2>2, <3>1 DEF Sized
  <2> HIDE DEF f
  <2>4. SumsTo(sz, Append(<<>>, f), 0 + sz[f])
    <3>1. <<>> \in Seq(Files)
      OBVIOUS
    <3> QED BY <2>3, <3>1, NoSum, AppendSum
  <2>5. SumsTo(sz, <<f>>, length)
    <3>1. Append(<<>>, f) = <<f>> /\ 0 + sz[f] = length
      BY <2>3
    <3> QED BY <2>4, <3>1
  <2> QED BY <1>2, <1>3, <1>4, <2>5 DEF Fits, f
<1>5. CASE perfect = {} /\ st.length = 0
  <2>1. SumsTo(sz, st.rvs, length)
    <3>1. SumsTo(sz, st.rvs, length - st.length) /\ length - 0 = length
      BY <1>1 DEF SearchSum
    <3> QED BY <1>5, <3>1
  <2> QED BY <1>2, <1>3, <1>5, <2>1 DEF Fits
<1>6. CASE perfect = {} /\ st.length # 0
  BY <1>1, <1>2, <1>6, RestSum
<1> QED BY <1>4, <1>5, <1>6

-----------------------------------------------------------------------------
(* In the program's own words: GapFilling's property of what findBest has  *)
(* chosen for r.                                                           *)
GF == INSTANCE GapFilling WITH gap <- r, partialOK <- gap.partialOK, chosen <- files,
                               Sizes <- {}, MaxGap <- 0

(* Nothing lies right behind a region of the table.                        *)
LEMMA BehindRegion ==
  ASSUME NEW s, TableGood(s), NEW k \in DOMAIN s.regions
  PROVE  /\ Gaps!Region(s, k) \in GP!Run /\ Gaps!Region(s, k).lcn = k
         /\ Gaps!Cells(Gaps!Region(s, k)) \subseteq Gaps!Covered(s)
         /\ k + Gaps!Region(s, k).length \notin Gaps!Covered(s)
<1> DEFINE n == Gaps!Region(s, k).length
<1>0. GP!WellFormed(s)
  BY DEF TableGood
<1>1. ASSUME NEW j \in DOMAIN s.regions
      PROVE  /\ Gaps!Region(s, j) \in GP!Run /\ Gaps!Region(s, j).lcn = j
             /\ j \in Nat /\ Gaps!Region(s, j).length \in Nat /\ Gaps!Region(s, j).length > 0
  <2>1. /\ GP!Region(s, j) \in GP!Run /\ GP!Region(s, j).lcn = j
        /\ j \in Nat /\ GP!Region(s, j).length \in Nat /\ GP!Region(s, j).length > 0
    BY <1>0, GapConstants, GP!RegionFacts DEF GP!RegionFacts
  <2>2. GP!Region(s, j) = Gaps!Region(s, j)
    BY SameTable
  <2> QED BY <2>1, <2>2
<1>2. ASSUME NEW i \in DOMAIN s.regions, NEW j \in DOMAIN s.regions, i < j
      PROVE  i + Gaps!Region(s, i).length < j
  <2>1. i + GP!Region(s, i).length < j
    BY <1>0, <1>2 DEF GP!WellFormed, GP!CoalescedOf
  <2>2. GP!Region(s, i) = Gaps!Region(s, i)
    BY SameTable
  <2> QED BY <2>1, <2>2
<1>3. ASSUME NEW j \in DOMAIN s.regions PROVE k + n \notin Gaps!Cells(Gaps!Region(s, j))
  <2> DEFINE m == Gaps!Region(s, j).length
  <2>1. j \in Nat /\ k \in Nat /\ m \in Nat /\ n \in Nat /\ n > 0 /\ m > 0
    BY <1>1
  <2>2. Gaps!Cells(Gaps!Region(s, j)) = j .. (j + m - 1)
    BY <1>1 DEF Gaps!Cells
  <2>3. /\ j < k => j + m < k
        /\ k < j => k + n < j
    BY <1>2
  <2>4. j = k => m = n
    OBVIOUS
  <2> HIDE DEF n, m
  <2>5. k + n \notin j .. (j + m - 1)
    BY <2>1, <2>3, <2>4
  <2> QED BY <2>2, <2>5
<1>4. Gaps!Cells(Gaps!Region(s, k)) \subseteq Gaps!Covered(s)
  BY DEF Gaps!Covered
<1> QED BY <1>1, <1>3, <1>4 DEF Gaps!Covered

(* pop of a block that the table knows as a whole, or not at all, goes     *)
(* through.                                                                *)
LEMMA PopSafe ==
  ASSUME NEW s, TableGood(s), NEW b \in GP!Run, NEW F, F \subseteq Cluster,
         Gaps!Cells(b) \subseteq Gaps!Covered(s) \/ Gaps!Cells(b) \cap Gaps!Covered(s) = {}
  PROVE  LET t == Gaps!PopBlock(s, b, F)
         IN  /\ t.broke = FALSE /\ TableGood(t)
             /\ b.lcn \in DOMAIN s.regions => Gaps!Covered(t) = Gaps!Covered(s) \ Gaps!Cells(b)
             /\ b.lcn \notin DOMAIN s.regions => Gaps!Covered(t) = F
             /\ Gaps!Covered(t) \in {F, Gaps!Covered(s) \ Gaps!Cells(b)}
<1> DEFINE t == Gaps!PopBlock(s, b, F)
<1>0. GP!WellFormed(s) /\ s.broke = FALSE
  BY DEF TableGood
<1>1. /\ b.lcn \in Nat /\ b.length \in Nat /\ b.length > 0
      /\ Gaps!Cells(b) = b.lcn .. (b.lcn + b.length - 1)
  BY WordAssumption DEF GP!Run, GP!Cluster, Gaps!Cells
<1>2. ASSUME b.lcn \in DOMAIN s.regions PROVE b.length <= Gaps!Region(s, b.lcn).length
  <2> DEFINE k == b.lcn
             n == Gaps!Region(s, k).length
  <2>1. /\ Gaps!Region(s, k) \in GP!Run /\ Gaps!Region(s, k).lcn = k
        /\ Gaps!Cells(Gaps!Region(s, k)) \subseteq Gaps!Covered(s)
        /\ k + n \notin Gaps!Covered(s)
    BY <1>2, BehindRegion
  <2>2. n \in Nat /\ n > 0 /\ k \in Nat
    BY <1>1, <2>1, WordAssumption DEF GP!Run
  <2>3. Gaps!Cells(Gaps!Region(s, k)) = k .. (k + n - 1)
    BY <2>1 DEF Gaps!Cells
  <2> HIDE DEF k, n
  <2>4. k \in Gaps!Covered(s) /\ k \in Gaps!Cells(b)
    BY <1>1, <2>1, <2>2, <2>3 DEF k
  <2>5. Gaps!Cells(b) \subseteq Gaps!Covered(s)
    BY <2>4
  <2>6. k + n \notin k .. (k + b.length - 1)
    BY <1>1, <2>1, <2>5 DEF k
  <2> QED BY <1>1, <2>2, <2>6 DEF n, k
<1>3. /\ GP!WellFormed(GP!PopBlock(s, b, F))
      /\ GP!PopBlock(s, b, F).broke = s.broke
      /\ b.lcn \in DOMAIN s.regions =>
           /\ GP!Covered(GP!PopBlock(s, b, F)) = GP!Covered(s) \ GP!Cells(b)
           /\ GP!Cells(b) \subseteq GP!Covered(s)
      /\ b.lcn \notin DOMAIN s.regions => GP!Covered(GP!PopBlock(s, b, F)) = F
  <2>1. b.lcn \in DOMAIN s.regions => b.length <= GP!Region(s, b.lcn).length
    BY <1>2, SameTable
  <2>2. F \subseteq GP!Cluster
    BY SameTable
  <2> QED BY <1>0, <2>1, <2>2, GapConstants, GP!PopFacts DEF GP!PopFacts
<1>4. /\ GP!PopBlock(s, b, F) = t /\ GP!Covered(t) = Gaps!Covered(t)
      /\ GP!Covered(s) = Gaps!Covered(s) /\ GP!Cells(b) = Gaps!Cells(b)
  BY SameTable
<1>5. t.broke = FALSE
  BY <1>0, <1>3, <1>4
<1>6. TableGood(t)
  BY <1>5, PopTable
<1> HIDE DEF t
<1> QED BY <1>3, <1>4, <1>5, <1>6 DEF t

(* best() answers with a region that is large enough, or there is none.    *)
LEMMA BestTable ==
  ASSUME TableGood(ge), NEW n \in 1 .. Clusters
  PROVE  /\ \A e \in Gaps!Best(ge, n, -1) :
              \E k \in DOMAIN ge.regions :
                 ge.list[e[2]].lcn = k /\ Gaps!Region(ge, k).length >= n
<1>0. GP!WellFormed(ge)
  BY DEF TableGood
<1>1. GP!Best(ge, n, -1) = Gaps!Best(ge, n, -1)
  BY DEF GP!Best, Gaps!Best
<1>2. -1 \in -1 .. (Clusters - 1)
  BY WordAssumption
<1>3. \A e \in GP!Best(ge, n, -1) :
         \E k \in DOMAIN ge.regions :
            /\ ge.regions[k] = e[2]
            /\ k > -1
            /\ GP!Region(ge, k).length >= n
  BY <1>0, <1>2, GapConstants, GP!BestFitsOf DEF GP!BestFitsOf
<1> SUFFICES ASSUME NEW e \in Gaps!Best(ge, n, -1)
             PROVE  \E k \in DOMAIN ge.regions :
                       ge.list[e[2]].lcn = k /\ Gaps!Region(ge, k).length >= n
  OBVIOUS
<1>4. PICK k \in DOMAIN ge.regions : ge.regions[k] = e[2] /\ GP!Region(ge, k).length >= n
  BY <1>1, <1>3
<1>5. Gaps!Region(ge, k).lcn = k /\ Gaps!Region(ge, k) = ge.list[e[2]]
  BY <1>4, BehindRegion DEF Gaps!Region
<1> QED BY <1>4, <1>5, SameTable

FP == INSTANCE FileEnumerationProofs WITH out <- NoFile, Placements <- {}

(* What FileEnumeration assumes of its constants.                          *)
LEMMA EnumConstants == FP!FilesAssumption /\ FP!PlacementsAssumption
BY FilesAssumption DEF FP!FilesAssumption, FP!PlacementsAssumption, FP!IsFiniteSet, IsFiniteSet

(* The index of the program is the index of FileEnumerationProofs.         *)
LEMMA SameIndex ==
  /\ FP!Disp = Disp
  /\ \A b, key, f : FP!BucketInsert(b, key, f) = Enum!BucketInsert(b, key, f)
  /\ \A e, d, f : FP!FePop(e, d, f) = Enum!FePop(e, d, f)
  /\ \A d, l : FP!FeScanned(d, l) = Enum!FeScanned(d, l)
<1>1. FP!Disp = Disp
  BY DEF FP!Disp, Disp, FP!Block, Block
<1>2. \A b, key, f : FP!BucketInsert(b, key, f) = Enum!BucketInsert(b, key, f)
  BY DEF FP!BucketInsert, Enum!BucketInsert, FP!InsertAt, Enum!InsertAt, FP!Cardinality, Enum!Cardinality
<1>3. \A e, d, f : FP!FePop(e, d, f) = Enum!FePop(e, d, f)
  BY DEF FP!FePop, Enum!FePop, FP!RemoveAt, Enum!RemoveAt, FP!BlockLcns, Enum!BlockLcns
<1>4. \A d, l : FP!FeScanned(d, l) = Enum!FeScanned(d, l)
  BY DEF FP!FeScanned, Enum!FeScanned, FP!FoldLeft, Enum!FoldLeft,
         FP!MapThenFoldSet, Enum!MapThenFoldSet, FP!Max, Enum!Max, FP!BucketInsert,
         Enum!BucketInsert, FP!InsertAt, Enum!InsertAt, FP!Cardinality, Enum!Cardinality
<1> QED BY <1>1, <1>2, <1>3, <1>4

(* Exactly the files F are filed: in order of size, each once and under    *)
(* its size.                                                               *)
Kept(b, d, F) == FP!Keeps(b, d, F)

(* What that says of the index.                                            *)
LEMMA KeptFacts ==
  ASSUME NEW b, NEW d, NEW F, Kept(b, d, F)
  PROVE  /\ b \in Seq([key : Nat, file : Files])
         /\ \A i, j \in DOMAIN b : i < j => b[i].key <= b[j].key
         /\ \A i \in DOMAIN b : b[i].file \in F /\ b[i].key = d[b[i].file].clusters
         /\ \A i, j \in DOMAIN b : b[i].file = b[j].file => i = j
         /\ \A f \in F : \E i \in DOMAIN b : b[i].file = f
BY DEF Kept, FP!Keeps, FP!Elem, FP!Sorted

(* push files a file that was not filed.                                   *)
LEMMA PushKept ==
  ASSUME NEW b, NEW d \in [Files -> Disp], NEW F \in SUBSET Files, Kept(b, d, F),
         NEW f \in Files, f \notin F
  PROVE  Kept(Enum!BucketInsert(b, d[f].clusters, f), d, F \cup {f})
<1>1. FP!Keeps(FP!BucketInsert(b, d[f].clusters, f), d, F \cup {f})
  BY SameIndex, EnumConstants, FP!PushKeeps DEF FP!PushKeeps, Kept
<1> QED BY <1>1, SameIndex DEF Kept

(* pop finds the file, and takes out nothing else.                         *)
LEMMA PopKept ==
  ASSUME NEW e, NEW d \in [Files -> Disp], NEW F \in SUBSET Files, Kept(e.buckets, d, F), NEW f \in F
  PROVE  /\ Kept(Enum!FePop(e, d, f).buckets, d, F \ {f})
         /\ e.missed = FALSE => Enum!FePop(e, d, f).missed = FALSE
<1> DEFINE b == e.buckets
           at == { i \in DOMAIN b : b[i] = [key |-> d[f].clusters, file |-> f] }
           k == CHOOSE x \in at : \A j \in at : x <= j
<1>1. at # {} /\ FP!Keeps(FP!RemoveAt(b, k), d, F \ {f})
  BY SameIndex, EnumConstants, FP!PopKeeps DEF FP!PopKeeps, Kept
<1>2. FP!RemoveAt(b, k) = Enum!RemoveAt(b, k)
  BY DEF FP!RemoveAt, Enum!RemoveAt
<1>3. /\ Enum!FePop(e, d, f).buckets = IF at = {} THEN b ELSE Enum!RemoveAt(b, k)
      /\ Enum!FePop(e, d, f).missed = (e.missed \/ at = {})
  BY DEF Enum!FePop
<1> HIDE DEF at, k, b
<1> QED BY <1>1, <1>2, <1>3 DEF Kept

(* The size of a file that is not filed may change.                        *)
LEMMA ChangeKept ==
  ASSUME NEW b, NEW d \in [Files -> Disp], NEW F \in SUBSET Files, Kept(b, d, F), NEW f, f \notin F, NEW x
  PROVE  Kept(b, [d EXCEPT ![f] = x], F)
BY SameIndex, EnumConstants, FP!DumpKeeps DEF FP!DumpKeeps, Kept

(* scan files every file.                                                  *)
LEMMA ScanKept ==
  ASSUME NEW d \in [Files -> Disp], \A f \in Files : d[f].blockmap # <<>>
  PROVE  Kept(Enum!FeScanned(d, SetToSeq(Files)).buckets, d, Files)
<1> DEFINE listed == SetToSeq(Files)
           n == Cardinality(Files)
<1>1. listed \in [1 .. n -> Files] /\ IsInjective(listed)
  <2>1. n \in Nat /\ ExistsBijection(1 .. n, Files)
    BY FilesAssumption, FS_CardinalityType
  <2>2. PICK f \in [1 .. n -> Files] : IsInjective(f)
    BY <2>1 DEF ExistsBijection, Bijection, Injection
  <2> QED BY <2>2 DEF SetToSeq
<1>2. listed \in FP!SetToSeqs(Files)
  <2> HIDE DEF listed
  <2>1. FP!Cardinality(Files) = n
    BY DEF FP!Cardinality, Cardinality
  <2>2. \A i, j \in 1 .. n : i # j => listed[i] # listed[j]
    BY <1>1 DEF IsInjective
  <2> HIDE DEF n
  <2> QED BY <1>1, <2>1, <2>2 DEF FP!SetToSeqs
<1> HIDE DEF listed
<1>3. FP!Keeps(FP!FeScanned(d, listed).buckets, d, { f \in Files : d[f].blockmap # <<>> })
  BY <1>2, SameIndex, EnumConstants, FP!ScanKeeps DEF FP!ScanKeeps
<1>4. { f \in Files : d[f].blockmap # <<>> } = Files
  OBVIOUS
<1> QED BY <1>3, <1>4, SameIndex DEF Kept, listed

(* The file that move_file has taken out of the index.                     *)
InHand == IF pc \in Moving THEN {mv.f} ELSE {}

(* The program knows where every file lies, but for the one it has just    *)
(* moved, and every file is filed, but for the one in its hand.            *)
FilesInv ==
  /\ \A f \in Files : disk[f] # <<>>
  /\ disp \in [Files -> Disp]
  /\ pc # "crash" =>
       /\ \A f \in Files : (pc = "dump" /\ f = mv.f) \/ disp[f] = Order(Dump(disk[f]))
       /\ Kept(fe.buckets, disp, Files \ InHand)
       /\ fe.missed = FALSE

(* What a file's disposition says when it is up to date.                   *)
LEMMA ExactDisp ==
  ASSUME DiskInv, NEW f \in Files, disk[f] # <<>>
  PROVE  LET d == Order(Dump(disk[f]))
         IN  /\ d \in Disp /\ d.clusters = Len(disk[f]) /\ d.clusters \in 1 .. Clusters
             /\ d.blockmap # <<>> /\ CellsOf(d.blockmap) = ToSet(disk[f])
             /\ d.fragments = Len(RetrievalPointers(disk[f]))
<1> DEFINE c == disk[f]
<1>1. c \in Seq(Nat) /\ c \in Seq(Cluster) /\ IsInjective(c)
  BY ClustersAreNat DEF DiskInv
<1>2. Len(c) \in 0 .. Clusters /\ Len(c) # 0
  <2> HIDE DEF c
  <2>1. c # <<>>
    BY DEF c
  <2> QED BY <1>1, <2>1, FileFits, EmptySeq
<1> HIDE DEF c
<1>3. /\ Dump(c) \in Disp /\ Order(Dump(c)) \in Disp
      /\ Order(Dump(c)).clusters = Len(c)
      /\ CellsOf(Order(Dump(c)).blockmap) = ToSet(c)
  BY <1>1, DumpFacts
<1>4. Dump(c).blockmap # <<>>
  BY <1>1, <1>2, RetrievalPointersExact, EmptySeq DEF Dump
<1>5. Order(Dump(c)).blockmap # <<>>
  BY <1>3, <1>4, OrderKeepsBlocks
<1>6. Order(Dump(c)).fragments = Len(RetrievalPointers(c))
  BY DEF Order, Dump
<1>7. Len(c) \in 1 .. Clusters
  BY <1>2, WordAssumption
<1> QED BY <1>3, <1>5, <1>6, <1>7 DEF c

(* After the first scan.                                                   *)
LEMMA InitFiles == Init => FilesInv
<1> SUFFICES ASSUME Init PROVE FilesInv
  OBVIOUS
<1>1. /\ disk \in Layouts /\ disp = [f \in Files |-> Order(Dump(disk[f]))]
      /\ fe = Enum!FeScanned(disp, SetToSeq(Files)) /\ pc = "run"
  BY DEF Init
<1>2. \A f \in Files : disk[f] # <<>>
  BY <1>1, LayoutsAssumption
<1>3. DiskInv
  BY InitFiled DEF FiledInv
<1>4. /\ disp \in [Files -> Disp] /\ \A f \in Files : disp[f].blockmap # <<>>
      /\ \A f \in Files : disp[f] = Order(Dump(disk[f]))
  BY <1>1, <1>2, <1>3, ExactDisp
<1>5. Kept(fe.buckets, disp, Files)
  <2> HIDE DEF Init
  <2> QED BY <1>1, <1>4, ScanKept
<1>6. fe.missed = FALSE
  BY <1>1 DEF Enum!FeScanned
<1>7. Files \ InHand = Files
  BY <1>1 DEF InHand, Moving
<1> QED BY <1>1, <1>2, <1>4, <1>5, <1>6, <1>7 DEF FilesInv

(* Outside move_file.                                                      *)
LEMMA OtherFiles ==
  ASSUME FilesInv, disk' = disk, disp' = disp, fe' = fe,
         pc \notin Moving \cup {"crash"}, pc' \notin Moving
  PROVE  FilesInv'
<1>1. InHand = {} /\ InHand' = {}
  BY DEF InHand
<1>2. /\ \A f \in Files : disp[f] = Order(Dump(disk[f]))
      /\ Kept(fe.buckets, disp, Files \ {}) /\ fe.missed = FALSE
      /\ \A f \in Files : disk[f] # <<>>
      /\ disp \in [Files -> Disp]
  BY <1>1 DEF FilesInv, Moving
<1> QED BY <1>1, <1>2 DEF FilesInv

(* move_file takes the file.                                               *)
LEMMA TakeFiles ==
  ASSUME FiledInv, FilesInv, disk' = disk, disp' = disp, pc \in {"defrag", "set"},
         NEW f \in Files, NEW lcn, NEW by, MoveFile(fe, f, lcn, by)
  PROVE  FilesInv' /\ pc' = "open"
<1>1. InHand = {} /\ pc # "crash" /\ pc # "dump"
  BY DEF InHand, Moving
<1>2. /\ \A g \in Files : disp[g] = Order(Dump(disk[g]))
      /\ Kept(fe.buckets, disp, Files \ {}) /\ fe.missed = FALSE
      /\ disk[f] # <<>> /\ DiskInv /\ disp \in [Files -> Disp]
      /\ \A g \in Files : disk[g] # <<>>
  BY <1>1 DEF FilesInv, FiledInv
<1>3. disp[f].clusters \in 1 .. Clusters
  BY <1>2, ExactDisp
<1>4. pc' = "open" /\ mv'.f = f /\ fe' = Enum!FePop(fe, disp, f)
  BY <1>3 DEF MoveFile
<1>5. /\ Kept(fe'.buckets, disp, Files \ {f}) /\ fe'.missed = FALSE
  <2>1. Files \ {} = Files
    OBVIOUS
  <2> QED BY <1>2, <1>4, <2>1, PopKept
<1>6. InHand' = {f}
  BY <1>4 DEF InHand, Moving
<1> QED BY <1>2, <1>4, <1>5, <1>6 DEF FilesInv

(* The file is opened, or moved.                                           *)
LEMMA HoldFiles ==
  ASSUME FilesInv, pc \in {"open", "move"}, pc' \in {"move", "dump", "crash"},
         disp' = disp, fe' = fe, mv'.f = mv.f,
         \A f \in Files : disk'[f] # <<>>,
         \A f \in Files : disk'[f] = disk[f] \/ (pc' \in Undumped /\ f = mv.f)
  PROVE  FilesInv'
<1>1. InHand = {mv.f} /\ (pc' # "crash" => InHand' = {mv.f})
  BY DEF InHand, Moving
<1>2. /\ \A f \in Files : disp[f] = Order(Dump(disk[f]))
      /\ Kept(fe.buckets, disp, Files \ {mv.f}) /\ fe.missed = FALSE
      /\ disp \in [Files -> Disp]
  BY <1>1 DEF FilesInv
<1>3. CASE pc' = "crash"
  BY <1>2, <1>3 DEF FilesInv
<1>4. CASE pc' # "crash"
  <2>1. \A f \in Files : (pc' = "dump" /\ f = mv.f) \/ disp[f] = Order(Dump(disk'[f]))
    BY <1>2, <1>4 DEF Undumped
  <2> QED BY <1>1, <1>2, <1>4, <2>1 DEF FilesInv
<1> QED BY <1>3, <1>4

(* DumpFile, after a move that was made.                                   *)
DumpStep(F) ==
  LET d == Dump(disk[mv.f])
  IN  /\ disp' = [disp EXCEPT ![mv.f] = Order(d)]
      /\ ge' = PopFile(ge, d, F)
      /\ gap' = [gap EXCEPT !.freed = @ \/ PopRescans(ge, d, F)]
      /\ fe' = Enum!FePush(fe, disp', mv.f)
      /\ mv' = [mv EXCEPT !.left = @ - Cur, !.target = @ + Cur]
      /\ Goto("return", ge')
      /\ UNCHANGED <<disk, term, last, replaced, opts, queue, r, files, widen>>

(* Without faults, the dump after a move is of the file as it lies, with a *)
(* table that pop may have read again, or failed to.                       *)
LEMMA DumpSteps ==
  ASSUME Clusters <= MaxChunk, Faults = 0, FiledInv, KnownInv, mv.f \in Files,
         DumpFile, mv.status = "success"
  PROVE  \/ DumpStep(Free) /\ bound' = bound
         \/ DumpStep({}) /\ Spend("scans")
<1>1. ~Spend("faults")
  BY DEF Spend, KnownInv
<1>2. mv.left = Cur
  <2>1. mv.left \in 0 .. Clusters
    BY DEF FiledInv, HandInv, Moving, DumpFile
  <2>2. mv.left \in Int /\ mv.left <= MaxChunk /\ MaxChunk \in Int
    BY <2>1, ChunkAssumption, WordAssumption
  <2> QED BY <2>2 DEF Cur
<1>3. PICK d \in {Dump(disk[mv.f]), NoDump}, F \in {Free, {}} :
       /\ \/ d = Dump(disk[mv.f]) /\ F = Free /\ UNCHANGED bound
          \/ d = NoDump /\ F = Free /\ Spend("faults")
          \/ /\ d = Dump(disk[mv.f]) /\ F # Free
             /\ mv.status = "success" /\ PopRescans(ge, d, F)
             /\ Spend("scans")
       /\ disp' = [disp EXCEPT ![mv.f] = Order(d)]
       /\ ge' = PopFile(ge, d, F)
       /\ gap' = [gap EXCEPT !.freed = @ \/ PopRescans(ge, d, F)]
       /\ fe' = Enum!FePush(fe, disp', mv.f)
       /\ mv' = [mv EXCEPT !.left = @ - Cur, !.target = @ + Cur]
       /\ Goto(IF mv.left = Cur THEN "return" ELSE "open", ge')
  BY DEF DumpFile
<1>6. d = Dump(disk[mv.f])
  BY <1>1, <1>3
<1>7. UNCHANGED <<disk, term, last, replaced, opts, queue, r, files, widen>>
  BY DEF DumpFile
<1>4. DumpStep(F)
  BY <1>2, <1>3, <1>6, <1>7 DEF DumpStep
<1>5. (F = Free /\ bound' = bound) \/ (F = {} /\ Spend("scans"))
  <2>1. (F = Free /\ bound' = bound) \/ (F # Free /\ Spend("scans"))
    BY <1>1, <1>3
  <2>2. F # Free => F = {}
    BY <1>3
  <2> QED BY <2>1, <2>2
<1> HIDE DEF DumpStep
<1> QED BY <1>4, <1>5

(* The file is dumped, and filed again.                                    *)
LEMMA DumpFiles ==
  ASSUME FiledInv, FilesInv, pc = "dump", mv.f \in Files, NEW F, DumpStep(F)
  PROVE  FilesInv' /\ pc' \in {"return", "crash"}
<1> DEFINE f == mv.f
           x == Order(Dump(disk[f]))
<1>1. /\ disk' = disk /\ disp' = [disp EXCEPT ![f] = x] /\ fe' = Enum!FePush(fe, disp', f)
      /\ pc' \in {"return", "crash"}
  BY DEF DumpStep, Goto
<1>2. /\ \A g \in Files : disk[g] # <<>>
      /\ \A g \in Files : g # f => disp[g] = Order(Dump(disk[g]))
      /\ Kept(fe.buckets, disp, Files \ {f}) /\ fe.missed = FALSE
      /\ disp \in [Files -> Disp] /\ DiskInv /\ DOMAIN fe = {"buckets", "lcns", "missed"}
  BY DEF FilesInv, FiledInv, InHand, Moving
<1>3. x \in Disp
  BY <1>2, ExactDisp
<1> HIDE DEF x
<1>4. disp' \in [Files -> Disp] /\ disp'[f] = x
  BY <1>1, <1>2, <1>3
<1>5. Kept(fe.buckets, disp', Files \ {f})
  BY <1>1, <1>2, ChangeKept
<1>6. Kept(Enum!BucketInsert(fe.buckets, disp'[f].clusters, f), disp', (Files \ {f}) \cup {f})
  BY <1>4, <1>5, PushKept
<1>7. (Files \ {f}) \cup {f} = Files
  OBVIOUS
<1>8. fe'.buckets = Enum!BucketInsert(fe.buckets, disp'[f].clusters, f) /\ fe'.missed = FALSE
  BY <1>1, <1>2 DEF Enum!FePush
<1>9. Files \ InHand' = Files
  BY <1>1 DEF InHand, Moving
<1>10. \A g \in Files : disp'[g] = Order(Dump(disk'[g]))
  BY <1>1, <1>2, <1>4 DEF x
<1>11. Kept(fe'.buckets, disp', Files \ InHand')
  BY <1>6, <1>7, <1>8, <1>9
<1> QED BY <1>1, <1>2, <1>4, <1>8, <1>10, <1>11 DEF FilesInv

(* A part of defrag's queue: fragmented files of the first k elements of   *)
(* the index, each once.                                                   *)
Picked(q, k) ==
  /\ q \in Seq(Files) /\ IsInjective(q)
  /\ \A i \in DOMAIN q : /\ disp[q[i]].fragments > 1
                         /\ \E j \in 1 .. k : fe.buckets[j].file = q[i]

(* No file is filed twice.                                                 *)
Distinct(b) == \A i, j \in DOMAIN b : b[i].file = b[j].file => i = j

(* One turn of defrag's first loop.                                        *)
LEMMA PickOne ==
  ASSUME OfFiles(fe.buckets), Distinct(fe.buckets), NEW S, fe.buckets \in Seq(S),
         NEW k \in 1 .. Len(fe.buckets), NEW q, Picked(q, k - 1)
  PROVE  Picked(Fragmented1(q, fe.buckets[k]), k)
<1> DEFINE b == fe.buckets
           f == b[k].file
           t == Append(q, f)
<1>1. DOMAIN b = 1 .. Len(b) /\ Len(b) \in Nat /\ f \in Files
  BY LenProperties DEF OfFiles
<1>2. /\ q \in Seq(Files) /\ IsInjective(q)
      /\ \A i \in DOMAIN q : disp[q[i]].fragments > 1
      /\ \A i \in DOMAIN q : \E j \in 1 .. (k - 1) : b[j].file = q[i]
  BY DEF Picked
<1>3. \A i \in DOMAIN q : \E j \in 1 .. k : b[j].file = q[i]
  BY <1>1, <1>2
<1>4. \A i \in DOMAIN q : q[i] # f
  <2> SUFFICES ASSUME NEW i \in DOMAIN q PROVE q[i] # f
    OBVIOUS
  <2>1. PICK j \in 1 .. (k - 1) : b[j].file = q[i]
    BY <1>2
  <2>2. j \in DOMAIN b /\ k \in DOMAIN b /\ j # k
    BY <1>1
  <2> QED BY <2>1, <2>2 DEF Distinct
<1>5. Fragmented1(q, b[k]) = IF disp[f].fragments > 1 THEN t ELSE q
  BY DEF Fragmented1
<1>6. CASE ~(disp[f].fragments > 1)
  BY <1>2, <1>3, <1>5, <1>6 DEF Picked
<1>7. CASE disp[f].fragments > 1
  <2>1. /\ t \in Seq(Files) /\ DOMAIN t = 1 .. (Len(q) + 1) /\ DOMAIN q = 1 .. Len(q)
        /\ Len(q) \in Nat /\ t[Len(q) + 1] = f /\ \A i \in 1 .. Len(q) : t[i] = q[i]
    <3> HIDE DEF f
    <3> QED BY <1>1, <1>2, AppendProperties, LenProperties
  <2> HIDE DEF t, f
  <2>2. \A i \in DOMAIN t : i = Len(q) + 1 \/ i \in DOMAIN q
    BY <2>1
  <2>3. IsInjective(t)
    <3> SUFFICES ASSUME NEW i \in DOMAIN t, NEW j \in DOMAIN t, t[i] = t[j] PROVE i = j
      BY DEF IsInjective
    <3> QED BY <1>2, <1>4, <2>1, <2>2 DEF IsInjective
  <2>4. k \in 1 .. k /\ b[k].file = f
    BY <1>1 DEF f
  <2>5. ASSUME NEW i \in DOMAIN t
        PROVE  disp[t[i]].fragments > 1 /\ \E j \in 1 .. k : b[j].file = t[i]
    BY <1>2, <1>3, <1>7, <2>1, <2>2, <2>4
  <2> QED BY <1>5, <1>7, <2>1, <2>3, <2>5 DEF Picked
<1> QED BY <1>6, <1>7

(* defrag's queue: fragmented files, each once.                            *)
LEMMA FragmentedQueue ==
  ASSUME OfFiles(fe.buckets), Distinct(fe.buckets), NEW S, fe.buckets \in Seq(S)
  PROVE  /\ Fragmented \in Seq(Files) /\ IsInjective(Fragmented)
         /\ \A i \in DOMAIN Fragmented : disp[Fragmented[i]].fragments > 1
<1> DEFINE n == Len(fe.buckets)
<1>0. n \in Nat
  BY LenProperties
<1>1. PICK h \in [0 .. n -> Seq(Files)] : FragmentedTrace(h, n)
  BY FragmentedSteps DEF OfFiles
<1>2. /\ h[0] = <<>> /\ h[n] = Fragmented
      /\ \A k \in 1 .. n : h[k] = Fragmented1(h[k - 1], fe.buckets[k])
  BY <1>1 DEF FragmentedTrace
<1> DEFINE Bad == { k \in 0 .. n : ~Picked(h[k], k) }
<1>3. 0 \notin Bad
  <2>1. Picked(<<>>, 0)
    <3> DEFINE e == <<>>
    <3>1. e \in Seq(Files) /\ DOMAIN e = {}
      OBVIOUS
    <3> HIDE DEF e
    <3>2. Picked(e, 0)
      BY <3>1 DEF Picked, IsInjective
    <3> QED BY <3>2 DEF e
  <2> QED BY <1>2, <2>1
<1>4. Bad = {}
  <2> SUFFICES ASSUME Bad # {} PROVE FALSE
    OBVIOUS
  <2>1. Bad \subseteq Nat
    BY <1>0
  <2>2. PICK k \in Bad : \A j \in Bad : k <= j
    <3> HIDE DEF Bad
    <3> QED BY <2>1, LeastNumber
  <2>3. k \in 1 .. n /\ k - 1 \in 0 .. n /\ k - 1 \notin Bad
    <3>1. k \in 0 .. n /\ k # 0
      BY <1>3, <2>2
    <3>2. k - 1 \notin Bad
      <4> HIDE DEF Bad
      <4> QED BY <2>2, <3>1, <1>0
    <3> QED BY <1>0, <3>1, <3>2
  <2>4. Picked(h[k - 1], k - 1)
    BY <2>3
  <2>5. Picked(Fragmented1(h[k - 1], fe.buckets[k]), k)
    BY <2>3, <2>4, PickOne
  <2> QED BY <1>2, <2>2, <2>3, <2>5
<1>5. Picked(h[n], n)
  <2>1. n \in 0 .. n
    BY <1>0
  <2> HIDE DEF n
  <2> QED BY <1>4, <2>1
<1> QED BY <1>2, <1>5 DEF Picked

(* The rest of an injective queue.                                         *)
LEMMA TailInjective ==
  ASSUME NEW q \in Seq(Files), q # <<>>, IsInjective(q)
  PROVE  /\ Tail(q) \in Seq(Files) /\ IsInjective(Tail(q))
         /\ \A i \in DOMAIN Tail(q) : i + 1 \in DOMAIN q /\ i + 1 # 1 /\ Tail(q)[i] = q[i + 1]
         /\ 1 \in DOMAIN q /\ Head(q) = q[1] /\ Head(q) \in Files
<1> DEFINE t == Tail(q)
<1>1. /\ t \in Seq(Files) /\ Len(t) = Len(q) - 1 /\ Len(q) \in Nat /\ Len(q) # 0
      /\ DOMAIN q = 1 .. Len(q) /\ DOMAIN t = 1 .. (Len(q) - 1)
      /\ \A i \in 1 .. (Len(q) - 1) : t[i] = q[i + 1]
      /\ Head(q) = q[1] /\ Head(q) \in Files
  BY HeadTailProperties, LenProperties, EmptySeq
<1> HIDE DEF t
<1>2. \A i \in DOMAIN t : i + 1 \in DOMAIN q /\ i + 1 # 1 /\ t[i] = q[i + 1]
  BY <1>1
<1>3. IsInjective(t)
  <2> SUFFICES ASSUME NEW i \in DOMAIN t, NEW j \in DOMAIN t, t[i] = t[j] PROVE i = j
    BY DEF IsInjective
  <2>1. i + 1 = j + 1
    BY <1>2 DEF IsInjective
  <2> QED BY <1>1, <2>1
<1> QED BY <1>1, <1>2, <1>3 DEF t

(* defrag works through fragmented files, each once, and the file that was *)
(* moved last is in one piece: it is none of those still to be handled, so *)
(* that `Skipping' (op.cpp 172) never takes a file out of the index.       *)
QueueInv ==
  pc # "crash" =>
    /\ IsInjective(queue)
    /\ pc = "defrag" => \A i \in DOMAIN queue : disp[queue[i]].fragments > 1
    /\ pc \in Moving \cup {"return"} /\ mv.by = "defrag" =>
         /\ mv.f = Head(queue)
         /\ \A i \in DOMAIN queue : i # 1 => disp[queue[i]].fragments > 1
    /\ last \in Files => disp[last].fragments = 1
    /\ pc = "return" => disp[mv.f].fragments = 1

(* An empty queue.                                                         *)
LEMMA NoQueue == IsInjective(<<>>) /\ DOMAIN <<>> = {}
<1> DEFINE e == <<>>
<1>1. DOMAIN e = {}
  OBVIOUS
<1> HIDE DEF e
<1>2. IsInjective(e)
  BY <1>1 DEF IsInjective
<1> QED BY <1>1, <1>2 DEF e

(* There is no queue at the start.                                         *)
LEMMA InitQueue == Init => QueueInv
<1> SUFFICES ASSUME Init PROVE QueueInv
  OBVIOUS
<1>1. pc = "run" /\ queue = <<>> /\ last = NoFile
  BY DEF Init
<1> QED BY <1>1, NoQueue, FilesAssumption DEF QueueInv, Moving

(* A step to a place outside defrag and move_file.                         *)
LEMMA OtherQueue ==
  ASSUME QueueInv, pc # "crash", disp' = disp, last' = last,
         queue' = queue \/ queue' = <<>>,
         pc' \notin Moving \cup {"return", "defrag"}
  PROVE  QueueInv'
BY NoQueue DEF QueueInv

(* defrag gets its queue.                                                  *)
LEMMA RunQueue ==
  ASSUME QueueInv, FilesInv, pc = "run", pc' = "defrag", disp' = disp, last' = last,
         queue' = Fragmented \/ queue' = <<>>
  PROVE  QueueInv'
<1>1. Kept(fe.buckets, disp, Files)
  <2>1. Files \ InHand = Files
    BY DEF InHand, Moving
  <2> QED BY <2>1 DEF FilesInv
<1>2. /\ fe.buckets \in Seq([key : Nat, file : Files]) /\ OfFiles(fe.buckets)
      /\ Distinct(fe.buckets)
  BY <1>1, KeptFacts DEF OfFiles, Distinct
<1>3. /\ IsInjective(Fragmented)
      /\ \A i \in DOMAIN Fragmented : disp[Fragmented[i]].fragments > 1
  BY <1>2, FragmentedQueue
<1>4. /\ IsInjective(queue')
      /\ \A i \in DOMAIN queue' : disp[queue'[i]].fragments > 1
  BY <1>3, NoQueue
<1> QED BY <1>4 DEF QueueInv, Moving

(* A file of the queue is none that was moved last.                        *)
LEMMA HeadFragmented ==
  ASSUME QueueInv, pc = "defrag", queue \in Seq(Files), queue # <<>>
  PROVE  Head(queue) \in Files /\ Head(queue) # last
<1>1. IsInjective(queue)
  BY DEF QueueInv
<1>2. 1 \in DOMAIN queue /\ Head(queue) = queue[1] /\ Head(queue) \in Files
  BY <1>1, TailInjective
<1>3. disp[queue[1]].fragments > 1
  BY <1>2 DEF QueueInv
<1>4. last \in Files => disp[last].fragments = 1
  BY DEF QueueInv
<1> QED BY <1>2, <1>3, <1>4

(* defrag goes on to the next file.                                        *)
LEMMA TailQueue ==
  ASSUME QueueInv, queue \in Seq(Files), queue # <<>>, queue' = Tail(queue), disp' = disp,
         pc' = "defrag",
         \/ pc = "defrag" /\ last' = last
         \/ pc = "return" /\ mv.by = "defrag" /\ last' = mv.f
  PROVE  QueueInv'
<1>1. pc # "crash" /\ IsInjective(queue)
  BY DEF QueueInv
<1>2. /\ IsInjective(queue') 
      /\ \A i \in DOMAIN queue' : i + 1 \in DOMAIN queue /\ i + 1 # 1 /\ queue'[i] = queue[i + 1]
  BY <1>1, TailInjective
<1>3. \A i \in DOMAIN queue : i # 1 => disp[queue[i]].fragments > 1
  BY DEF QueueInv
<1>4. \A i \in DOMAIN queue' : disp[queue'[i]].fragments > 1
  BY <1>2, <1>3
<1>5. last' \in Files => disp[last'].fragments = 1
  BY DEF QueueInv
<1> QED BY <1>2, <1>4, <1>5 DEF QueueInv, Moving

(* move_file takes the file.                                               *)
LEMMA TakeQueue ==
  ASSUME QueueInv, pc \in {"defrag", "set"}, pc' = "open", disp' = disp, last' = last,
         queue' = queue, mv'.by = pc, pc = "defrag" => mv'.f = Head(queue)
  PROVE  QueueInv'
BY DEF QueueInv, Moving

(* The file is opened, or moved.                                           *)
LEMMA HoldQueue ==
  ASSUME QueueInv, pc \in {"open", "move"}, pc' \in {"move", "dump", "crash"},
         disp' = disp, last' = last, queue' = queue, mv'.f = mv.f, mv'.by = mv.by
  PROVE  QueueInv'
BY DEF QueueInv, Moving

(* The file is dumped: it is in one piece.                                 *)
LEMMA DumpQueue ==
  ASSUME QueueInv, FilesInv, KnownInv, SoundInv, WorkInv, pc = "dump", mv.status = "success",
         NEW F, DumpStep(F)
  PROVE  QueueInv'
<1> DEFINE f == mv.f
           x == Order(Dump(disk[f]))
<1>1. /\ disp' = [disp EXCEPT ![f] = x] /\ queue' = queue /\ last' = last
      /\ mv' = [mv EXCEPT !.left = @ - Cur, !.target = @ + Cur]
      /\ pc' \in {"return", "crash"}
  BY DEF DumpStep, Goto
<1>2. /\ f \in Files /\ queue \in Seq(Files) /\ OneRun(disk[f]) /\ DOMAIN disp = Files
      /\ mv.by = "defrag" => queue # <<>>
      /\ DOMAIN mv = {"f", "target", "left", "status", "by"}
  BY DEF WorkInv, SoundInv, Moving, FilesInv, KnownInv, FiledInv, HandInv
<1>3. mv'.f = f /\ mv'.by = mv.by
  BY <1>1, <1>2
<1>4. x.fragments = 1
  <2>1. PICK b \in GP!Run : RetrievalPointers(disk[f]) = <<b>>
    BY <1>2 DEF OneRun
  <2>2. x.fragments = Len(<<b>>)
    BY <2>1 DEF Order, Dump
  <2> QED BY <2>2
<1> HIDE DEF x
<1>5. disp'[f].fragments = 1 /\ \A g \in Files : g # f => disp'[g] = disp[g]
  BY <1>1, <1>2, <1>4
<1>6. last' \in Files => disp'[last'].fragments = 1
  BY <1>1, <1>5 DEF QueueInv
<1>7. IsInjective(queue)
  BY DEF QueueInv
<1>8. ASSUME mv.by = "defrag", NEW i \in DOMAIN queue, i # 1
      PROVE  disp'[queue[i]].fragments > 1
  <2>1. f = Head(queue) /\ disp[queue[i]].fragments > 1
    BY <1>8 DEF QueueInv, Moving
  <2>2. 1 \in DOMAIN queue /\ Head(queue) = queue[1]
    BY <1>2, <1>7, <1>8, TailInjective
  <2>3. queue[i] # f /\ queue[i] \in Files
    BY <1>2, <1>7, <1>8, <2>1, <2>2, LenProperties DEF IsInjective
  <2> QED BY <1>5, <2>1, <2>3
<1>9. mv.by = "defrag" => f = Head(queue)
  BY DEF QueueInv, Moving
<1> QED BY <1>1, <1>3, <1>5, <1>6, <1>7, <1>8, <1>9 DEF QueueInv, Moving

(* move_set goes on to the next file.                                      *)
LEMMA SetQueue ==
  ASSUME QueueInv, pc = "return", pc' = "set", queue' = queue, disp' = disp, last' = mv.f
  PROVE  QueueInv'
BY DEF QueueInv, Moving

Span(l, n) == l .. (l + n - 1)

(* No read of the bitmap has failed so far.                                *)
Seeing == bound.scans = BlindScans

(* The table has all of X; once it was blind, it may have nothing of it.   *)
Together(X, C, see) == X \subseteq C \/ (~see /\ X \cap C = {})

(* n clusters from l on are free, and the table has them together.         *)
Room(l, n, F, C, see) ==
  /\ l \in Nat /\ n \in Nat /\ l + n <= Clusters
  /\ Span(l, n) \subseteq F
  /\ Together(Span(l, n), C, see)

LengthOf == [f \in Files |-> Len(disk[f])]

(* Files that fit into n clusters, and fill them unless a part will do.    *)
FitsIn(sz, fs, n, partialOK) == \E m \in 0 .. n : SumsTo(sz, fs, m) /\ (partialOK \/ m = n)

(* A part of a room, and what is left of it.                               *)
LEMMA RoomParts ==
  ASSUME NEW l, NEW n, NEW F, NEW C, NEW see, Room(l, n, F, C, see), NEW k \in 0 .. n
  PROVE  /\ Room(l, k, F, C, see) /\ Room(l + k, n - k, F, C, see)
         /\ Span(l, k) \cap Span(l + k, n - k) = {}
<1>1. l \in Nat /\ n \in Nat /\ l + n <= Clusters /\ Clusters \in Nat
  BY WordAssumption DEF Room
<1>2. /\ Span(l, k) \subseteq Span(l, n) /\ Span(l + k, n - k) \subseteq Span(l, n)
      /\ Span(l, k) \cap Span(l + k, n - k) = {}
  BY <1>1 DEF Span
<1>3. k \in Nat /\ l + k <= Clusters /\ l + k \in Nat /\ n - k \in Nat /\ (l + k) + (n - k) <= Clusters
  BY <1>1
<1>4. Span(l, n) \subseteq F /\ Together(Span(l, n), C, see)
  BY DEF Room
<1>5. Together(Span(l, k), C, see) /\ Together(Span(l + k, n - k), C, see)
  BY <1>2, <1>4 DEF Together
<1> QED BY <1>1, <1>2, <1>3, <1>4, <1>5 DEF Room

(* The first n clusters of a region of the table.                          *)
LEMMA RegionRoom ==
  ASSUME TableGood(ge), Gaps!Covered(ge) \subseteq Free, NEW k \in DOMAIN ge.regions,
         NEW n \in 0 .. Gaps!Region(ge, k).length, NEW see
  PROVE  Room(k, n, Free, Gaps!Covered(ge), see)
<1> DEFINE len == Gaps!Region(ge, k).length
<1>1. /\ Gaps!Region(ge, k) \in GP!Run /\ Gaps!Region(ge, k).lcn = k
      /\ Gaps!Cells(Gaps!Region(ge, k)) \subseteq Gaps!Covered(ge)
  BY BehindRegion
<1>2. k \in Nat /\ len \in Nat /\ k + len <= Clusters
  BY <1>1, WordAssumption DEF GP!Run, GP!Cluster
<1>3. Gaps!Cells(Gaps!Region(ge, k)) = Span(k, len)
  BY <1>1 DEF Gaps!Cells, Span
<1> HIDE DEF len
<1>4. Room(k, len, Free, Gaps!Covered(ge), see)
  BY <1>1, <1>2, <1>3 DEF Room, Together
<1> QED BY <1>4, RoomParts DEF len

(* The next file of a fitting list.                                        *)
LEMMA FitsTail ==
  ASSUME NEW sz \in [Files -> Nat], NEW fs \in Seq(Files), fs # <<>>, NEW n \in Nat,
         NEW partialOK, FitsIn(sz, fs, n, partialOK)
  PROVE  /\ sz[Head(fs)] \in 0 .. n
         /\ FitsIn(sz, Tail(fs), n - sz[Head(fs)], partialOK)
<1> DEFINE k == sz[Head(fs)]
<1>1. PICK m \in 0 .. n : SumsTo(sz, fs, m) /\ (partialOK \/ m = n)
  BY DEF FitsIn
<1>2. SumsTo(sz, Tail(fs), m - k) /\ k <= m
  BY <1>1, TailSum
<1>3. k \in Nat
  BY HeadTailProperties
<1> HIDE DEF k
<1>4. k \in 0 .. n /\ m - k \in 0 .. (n - k) /\ (m = n => m - k = n - k)
  BY <1>1, <1>2, <1>3
<1>5. FitsIn(sz, Tail(fs), n - k, partialOK)
  BY <1>1, <1>2, <1>4 DEF FitsIn
<1> QED BY <1>4, <1>5 DEF k

(* What the program asks for and what it fills.  Room is kept for all that *)
(* move_set has still to move; after the move of a file, r still begins    *)
(* with the clusters it has taken.                                         *)
Filling == pc = "set" \/ (pc \in Moving \cup {"return"} /\ mv.by = "set")

Ahead == IF pc \in {"dump", "return"} THEN Len(disk[mv.f]) ELSE 0

FillInv ==
  /\ r.lcn \in Nat /\ r.length \in Nat /\ Ahead \in 0 .. r.length
  /\ Room(r.lcn + Ahead, r.length - Ahead, Free, Gaps!Covered(ge), Seeing)
  /\ FitsIn(LengthOf, files, r.length, gap.partialOK)
  /\ pc # "set" => mv.f = Head(files)
  /\ pc \in {"open", "move"} => mv.target = r.lcn

SpaceInv ==
  /\ mv.status \in {"none", "success"}
  /\ gap.partialOK \in BOOLEAN
  /\ bound.scans \in 0 .. BlindScans
  /\ Seeing => pc # "crash"
  /\ pc # "crash" =>
       /\ pc # "throw"
       /\ pc \in {"open", "move"} =>
            /\ mv.status = "none"
            /\ Room(mv.target, Len(disk[mv.f]), Free, Gaps!Covered(ge), Seeing)
       /\ pc = "dump" =>
            /\ mv.status = "success"
            /\ Together(ToSet(disk[mv.f]), Gaps!Covered(ge), Seeing)
       /\ Filling => FillInv
       /\ pc = "widen" => DOMAIN ge.regions # {} /\ gap.g = ge.regions[Head1]

(* Nothing is asked for at the start.                                      *)
LEMMA InitSpace == Init => SpaceInv
<1> SUFFICES ASSUME Init PROVE SpaceInv
  OBVIOUS
<1>1. /\ pc = "run" /\ mv.status = "none" /\ gap.partialOK = FALSE /\ bound.scans = BlindScans
  BY DEF Init
<1>2. bound.scans \in 0 .. BlindScans
  BY <1>1, BoundsAssumption
<1>3. ~Filling
  BY <1>1 DEF Filling, Moving
<1> QED BY <1>1, <1>2, <1>3 DEF SpaceInv

(* A step to a place outside move_file and its callers' loops.             *)
LEMMA OtherSpace ==
  ASSUME SpaceInv, mv' = mv, gap'.partialOK \in BOOLEAN,
         bound'.scans \in 0 .. BlindScans,
         pc' \notin Moving \cup {"return", "throw", "crash", "set", "widen"}
  PROVE  SpaceInv'
BY DEF SpaceInv, Filling, Moving

(* The program alone on a volume, without --widen: it knows the volume,    *)
(* its queue is one of fragmented files, and all it asks for is there.     *)
SafeInv == FilesInv /\ QueueInv /\ SpaceInv

(* The gap at the head of the table is given up.                           *)
LEMMA PopFirst ==
  ASSUME TableGood(ge), DOMAIN ge.regions # {}, NEW F, F \subseteq Cluster
  PROVE  Gaps!PopBlock(ge, NextGap, F).broke = FALSE
<1>1. NextGap \in GP!Run
  BY FirstRegion
<1>2. Head1 \in DOMAIN ge.regions
  BY FirstRegion
<1>3. Gaps!Cells(NextGap) \subseteq Gaps!Covered(ge)
  BY <1>2, BehindRegion DEF NextGap
<1> QED BY <1>1, <1>3, PopSafe

(* The steps that scan.                                                    *)
LEMMA ScanningSafe ==
  ASSUME KnownInv, WorkInv, SoundInv, SafeInv, ~opts.widen,
         NEW F, F \subseteq Free, Scanning(F), disk' = disk,
         bound'.scans \in 0 .. BlindScans
  PROVE  SafeInv'
<1>0. /\ FilesInv /\ QueueInv /\ SpaceInv /\ F \subseteq Cluster
      /\ DOMAIN gap = {"g", "partialOK", "freed"} /\ gap.partialOK \in BOOLEAN
  BY DEF SafeInv, Free, SpaceInv, WorkInv
<1>1. CASE Run(F)
  <2>1. /\ pc = "run" /\ disp' = disp /\ fe' = fe /\ last' = last /\ mv' = mv /\ gap' = gap
        /\ \/ pc' = "done" /\ queue' = queue
           \/ pc' = "defrag" /\ (queue' = Fragmented \/ queue' = <<>>)
    BY <1>1 DEF Run
  <2>2. FilesInv'
    BY <1>0, <2>1, OtherFiles DEF Moving
  <2>3. SpaceInv'
    BY <1>0, <2>1, OtherSpace DEF Moving
  <2>4. QueueInv'
    <3>1. CASE pc' = "done" /\ queue' = queue
      BY <1>0, <2>1, <3>1, OtherQueue DEF Moving
    <3>2. CASE pc' = "defrag" /\ (queue' = Fragmented \/ queue' = <<>>)
      BY <1>0, <2>1, <3>2, RunQueue
    <3> QED BY <2>1, <3>1, <3>2
  <2> QED BY <2>2, <2>3, <2>4 DEF SafeInv
<1>2. CASE DefragEnd(F) \/ GapsEnd(F)
  <2>1. /\ pc \in {"defrag", "gaps"} /\ disp' = disp /\ fe' = fe /\ last' = last /\ mv' = mv
        /\ gap' = gap \/ gap' = [gap EXCEPT !.partialOK = FALSE]
        /\ pc' \in {"gaps", "run"} /\ (queue' = queue \/ queue' = <<>>)
    BY <1>2 DEF DefragEnd, GapsEnd
  <2>0. gap'.partialOK \in BOOLEAN
    BY <1>0, <2>1
  <2>2. FilesInv'
    BY <1>0, <2>1, OtherFiles DEF Moving
  <2>3. SpaceInv'
    BY <1>0, <2>0, <2>1, OtherSpace DEF Moving
  <2>4. QueueInv'
    BY <1>0, <2>1, OtherQueue DEF Moving
  <2> QED BY <2>2, <2>3, <2>4 DEF SafeInv
<1>3. CASE WidenEnd(F)
  <2>1. /\ pc = "widen" /\ disp' = disp /\ fe' = fe /\ last' = last /\ mv' = mv
        /\ queue' = queue /\ Widened(widen.moved > 0, F)
    BY <1>3 DEF WidenEnd, WidenOn
  <2>2. /\ TableGood(ge) /\ DOMAIN ge.regions # {} /\ gap.freed = FALSE
        /\ gap.g = ge.regions[Head1]
    BY <1>0, <2>1 DEF SpaceInv, SoundInv, WorkInv
  <2>3. AtGap = {NextGap}
    BY <2>2 DEF AtGap, NextGap, Gaps!Region
  <2>4. pc' = "gaps" /\ gap'.partialOK \in BOOLEAN
    <3>1. CASE gap' = [gap EXCEPT !.partialOK = TRUE] /\ pc' = "gaps"
      BY <1>0, <3>1
    <3>2. CASE /\ \E region \in AtGap : ge' = Gaps!PopBlock(ge, region, F)
               /\ gap' = [gap EXCEPT !.partialOK = FALSE]
               /\ Goto("gaps", ge')
      <4>1. ge' = Gaps!PopBlock(ge, NextGap, F)
        BY <2>3, <3>2
      <4>2. ge'.broke = FALSE
        BY <1>0, <2>2, <4>1, PopFirst
      <4> QED BY <1>0, <3>2, <4>2 DEF Goto
    <3> QED BY <2>1, <3>1, <3>2 DEF Widened
  <2>5. FilesInv'
    BY <1>0, <2>1, <2>4, OtherFiles DEF Moving
  <2>6. SpaceInv'
    BY <1>0, <2>1, <2>4, OtherSpace DEF Moving
  <2>7. QueueInv'
    BY <1>0, <2>1, <2>4, OtherQueue DEF Moving
  <2> QED BY <2>5, <2>6, <2>7 DEF SafeInv
<1>4. ~ThrowToScan(F) /\ ~ThrowToWiden(F)
  BY <1>0 DEF SpaceInv, ThrowToScan, ThrowToWiden
<1> QED BY <1>1, <1>2, <1>3, <1>4 DEF Scanning

(* No file is without a block map.                                         *)
LEMMA BlockMaps ==
  ASSUME KnownInv, FilesInv, pc \notin Moving \cup {"crash"}
  PROVE  /\ Kept(fe.buckets, disp, Files)
         /\ \A f \in Files : /\ disp[f].clusters = Len(disk[f]) /\ disp[f].blockmap # <<>>
                             /\ disp[f].clusters \in 1 .. Clusters
         /\ LengthOf \in [Files -> Nat]
<1>1. Files \ InHand = Files /\ pc # "dump"
  BY DEF InHand, Moving
<1>2. Kept(fe.buckets, disp, Files) /\ DiskInv
  BY <1>1 DEF FilesInv, KnownInv, FiledInv
<1>3. ASSUME NEW f \in Files
      PROVE /\ disp[f].clusters = Len(disk[f]) /\ disp[f].blockmap # <<>>
            /\ disp[f].clusters \in 1 .. Clusters
  <2>1. disk[f] # <<>> /\ disp[f] = Order(Dump(disk[f]))
    BY <1>1 DEF FilesInv
  <2> QED BY <1>2, <2>1, ExactDisp
<1>4. \A f \in Files : Len(disk[f]) \in Nat
  BY <1>2, LenProperties DEF DiskInv
<1>5. LengthOf \in [Files -> Nat]
  BY <1>4 DEF LengthOf
<1> QED BY <1>2, <1>3, <1>5

(* findBest never follows a null block map.                                *)
LEMMA NoNull ==
  ASSUME KnownInv, FilesInv, pc \notin Moving \cup {"crash"}, NEW lcn, NEW length
  PROVE  ~Fill!FollowsNull(fe.buckets, disp, lcn, length)
<1>1. \A i \in DOMAIN fe.buckets : disp[fe.buckets[i].file].blockmap # <<>>
  BY BlockMaps, KeptFacts
<1>2. { i \in DOMAIN fe.buckets : disp[fe.buckets[i].file].blockmap # <<>> } = DOMAIN fe.buckets
  BY <1>1
<1> QED BY <1>2 DEF Fill!FollowsNull

(* What findBest names fits into the gap.                                  *)
LEMMA FillFits ==
  ASSUME KnownInv, FilesInv, Faults = 0, pc = "gaps", NextGap \in GP!Run,
         gap.partialOK \in BOOLEAN
  PROVE  LET fs == Fill!Best(fe.buckets, disp, NextGap.lcn, NextGap.length, gap.partialOK)
         IN  fs # <<>> => FitsIn(LengthOf, fs, NextGap.length, gap.partialOK)
<1> DEFINE fs == Fill!Best(fe.buckets, disp, NextGap.lcn, NextGap.length, gap.partialOK)
           b == fe.buckets
           S == { e \in [key : Nat, file : Files] : e.key = LengthOf[e.file] }
<1>0. pc \notin Moving \cup {"crash"} /\ pc \notin Undumped
  BY DEF Moving, Undumped
<1>1. /\ Kept(b, disp, Files) /\ LengthOf \in [Files -> Nat]
      /\ \A f \in Files : disp[f].clusters = Len(disk[f]) /\ disp[f].clusters \in 1 .. Clusters
  BY <1>0, BlockMaps
<1>2. /\ b \in Seq([key : Nat, file : Files])
      /\ \A i \in DOMAIN b : b[i].file \in Files /\ b[i].key = disp[b[i].file].clusters
  <2> HIDE DEF b
  <2> QED BY <1>1, KeptFacts
<1>3. \A f \in Files : disp[f].clusters = LengthOf[f]
  BY <1>1 DEF LengthOf
<1>4. b \in Seq(S)
  <2>1. /\ Len(b) \in Nat /\ DOMAIN b = 1 .. Len(b) /\ b = [i \in 1 .. Len(b) |-> b[i]]
        /\ \A i \in 1 .. Len(b) : b[i] \in [key : Nat, file : Files]
    BY <1>2, LenProperties
  <2>2. \A i \in 1 .. Len(b) : b[i] \in S
    BY <1>2, <1>3, <2>1
  <2>3. b \in [1 .. Len(b) -> S]
    <3> HIDE DEF S, b
    <3> QED BY <2>1, <2>2
  <2> HIDE DEF S, b
  <2> QED BY <2>1, <2>3, SeqDef
<1>5. Sized(LengthOf, disp, S)
  BY <1>1, <1>3 DEF Sized
<1>6. NextGap.length \in Nat
  BY WordAssumption DEF GP!Run
<1>7. \A i \in DOMAIN b : HeadLcn(disp[b[i].file]) \in Cluster
  <2> SUFFICES ASSUME NEW i \in DOMAIN b PROVE HeadLcn(disp[b[i].file]) \in Cluster
    OBVIOUS
  <2>1. b[i].file \in Files /\ disp[b[i].file].clusters # 0
    BY <1>1, <1>2
  <2> QED BY <1>0, <2>1, HeadInVolume
<1> HIDE DEF S, b
<1>8. Fits(LengthOf, Fill!Best(b, disp, NextGap.lcn, NextGap.length, gap.partialOK), NextGap.length, gap.partialOK)
  BY <1>4, <1>5, <1>6, <1>7, BestSum
<1>9. Fits(LengthOf, fs, NextGap.length, gap.partialOK)
  BY <1>8 DEF b
<1> HIDE DEF fs
<1>10. fs # <<>> => FitsIn(LengthOf, fs, NextGap.length, gap.partialOK)
  BY <1>9 DEF Fits, FitsIn
<1> QED BY <1>10 DEF fs

(* move_file takes a file for which there is room.                         *)
LEMMA TakeSafe ==
  ASSUME KnownInv, WorkInv, SafeInv, disk' = disk, bound' = bound, ge' = ge, gap' = gap, r' = r,
         files' = files, queue' = queue, disp' = disp, last' = last,
         pc \in {"defrag", "set"}, NEW f \in Files, NEW lcn, MoveFile(fe, f, lcn, pc),
         Room(lcn, Len(disk[f]), Free, Gaps!Covered(ge), Seeing),
         pc = "defrag" => f = Head(queue),
         pc = "set" => f = Head(files) /\ lcn = r.lcn
  PROVE  SafeInv'
<1>0. FilesInv /\ QueueInv /\ SpaceInv /\ FiledInv
  BY DEF SafeInv, KnownInv
<1>1. FilesInv' /\ pc' = "open"
  BY <1>0, TakeFiles
<1>2. mv'.f = f /\ mv'.target = lcn /\ mv'.status = "none" /\ mv'.by = pc
  BY DEF MoveFile
<1>3. QueueInv'
  BY <1>0, <1>1, <1>2, TakeQueue
<1>4. Free' = Free /\ Seeing' = Seeing /\ LengthOf' = LengthOf
  BY SameFree DEF Seeing, LengthOf
<1>5. Filling' => FillInv'
  <2> SUFFICES ASSUME Filling' PROVE FillInv'
    OBVIOUS
  <2>1. pc = "set"
    BY <1>1, <1>2 DEF Filling, Moving
  <2>2. FillInv /\ Ahead = 0 /\ Ahead' = 0
    BY <1>0, <1>1, <2>1 DEF SpaceInv, Filling, Ahead
  <2> QED BY <1>1, <1>2, <1>4, <2>1, <2>2 DEF FillInv
<1>6. SpaceInv'
  <2>1. /\ gap.partialOK \in BOOLEAN /\ bound.scans \in 0 .. BlindScans
    BY <1>0 DEF SpaceInv
  <2>2. Room(mv'.target, Len(disk'[mv'.f]), Free', Gaps!Covered(ge'), Seeing')
    BY <1>2, <1>4
  <2> QED BY <1>1, <1>2, <1>5, <2>1, <2>2 DEF SpaceInv
<1> QED BY <1>1, <1>3, <1>6 DEF SafeInv

(* The end of move_file, for move_set: r is moved on.                      *)
LEMMA ReturnToSet ==
  ASSUME KnownInv, WorkInv, SafeInv, disk' = disk, bound' = bound, Return, mv.by = "set"
  PROVE  SafeInv'
<1>0. FilesInv /\ QueueInv /\ SpaceInv
  BY DEF SafeInv
<1> DEFINE n == disp[mv.f].clusters
           k == Len(disk[mv.f])
<1>1. /\ pc = "return" /\ pc' = "set" /\ r' = Filled(r, n) /\ files' = Tail(files)
      /\ queue' = queue /\ disp' = disp /\ fe' = fe /\ ge' = ge /\ gap' = gap /\ mv' = mv
      /\ last' = mv.f
  BY DEF Return
<1>2. mv.f \in Files /\ files # <<>> /\ files \in Seq(Files)
  BY <1>1 DEF WorkInv
<1>3. n = k /\ LengthOf \in [Files -> Nat] /\ LengthOf[mv.f] = k
  BY <1>0, <1>1, <1>2, BlockMaps DEF Moving, LengthOf
<1>4. FillInv /\ Ahead = k /\ Ahead' = 0
  BY <1>0, <1>1 DEF SpaceInv, Filling, Ahead
<1>5. /\ r.lcn \in Nat /\ r.length \in Nat /\ k \in 0 .. r.length
      /\ Room(r.lcn + k, r.length - k, Free, Gaps!Covered(ge), Seeing)
      /\ FitsIn(LengthOf, files, r.length, gap.partialOK)
      /\ mv.f = Head(files)
  BY <1>1, <1>4 DEF FillInv
<1>6. FitsIn(LengthOf, Tail(files), r.length - k, gap.partialOK)
  BY <1>2, <1>3, <1>5, FitsTail
<1>7. r'.lcn = r.lcn + k /\ r'.length = r.length - k
  <2>1. (r.lcn + k) + (r.length - k) <= Clusters
    BY <1>5 DEF Room
  <2>2. /\ r.lcn + k \in 0 .. (Word - 1) /\ r.length - k \in 0 .. (Word - 1)
        /\ Word \in Nat \ {0}
    <3> HIDE DEF k
    <3> QED BY <1>5, <2>1, WordAssumption
  <2>3. \A x \in 0 .. (Word - 1) : x % Word = x
    BY <2>2
  <2>4. r' = [lcn |-> (r.lcn + k) % Word, length |-> (r.length - k) % Word]
    BY <1>1, <1>3 DEF Filled, Wrap
  <2> HIDE DEF k
  <2> QED BY <2>2, <2>3, <2>4
<1>8. Free' = Free /\ Seeing' = Seeing /\ LengthOf' = LengthOf
  BY SameFree DEF Seeing, LengthOf
<1>9. FillInv'
  <2>1. /\ r'.lcn \in Nat /\ r'.length \in Nat /\ 0 \in 0 .. r'.length
        /\ r'.lcn + 0 = r.lcn + k /\ r'.length - 0 = r.length - k
    <3> HIDE DEF k
    <3> QED BY <1>5, <1>7
  <2>2. /\ Room(r'.lcn + Ahead', r'.length - Ahead', Free', Gaps!Covered(ge'), Seeing')
        /\ FitsIn(LengthOf', files', r'.length, gap'.partialOK)
    BY <1>1, <1>4, <1>5, <1>6, <1>7, <1>8, <2>1
  <2> QED BY <1>1, <1>4, <2>1, <2>2 DEF FillInv
<1>10. SpaceInv'
  BY <1>0, <1>1, <1>9 DEF SpaceInv, Seeing
<1>11. FilesInv'
  BY <1>0, <1>1, OtherFiles DEF Moving
<1>12. QueueInv'
  BY <1>0, <1>1, SetQueue
<1> QED BY <1>10, <1>11, <1>12 DEF SafeInv

(* The steps between two calls into the file system.                       *)
LEMMA InternalSafe ==
  ASSUME KnownInv, WorkInv, SoundInv, SafeInv, ~opts.widen, Faults = 0, Internal,
         disk' = disk, bound' = bound
  PROVE  SafeInv'
<1>0. /\ FilesInv /\ QueueInv /\ SpaceInv
      /\ DOMAIN gap = {"g", "partialOK", "freed"} /\ gap.partialOK \in BOOLEAN
      /\ bound'.scans \in 0 .. BlindScans
      /\ queue \in Seq(Files) /\ files \in Seq(Files)
  BY DEF SafeInv, SpaceInv, WorkInv
<1>1. ASSUME pc \in {"defrag", "gaps", "set", "return"}
      PROVE  TableGood(ge) /\ Gaps!Covered(ge) \subseteq Free
  BY <1>1 DEF SoundInv
<1>2. CASE DefragFile
  <2> DEFINE f == Head(queue)
             e == IF f = last THEN Enum!FePop(fe, disp, f) ELSE fe
             found == Gaps!Best(ge, disp[f].clusters, -1)
  <2>1. /\ pc = "defrag" /\ queue # <<>>
        /\ disp' = disp /\ ge' = ge /\ last' = last /\ gap' = gap /\ r' = r /\ files' = files
        /\ \/ fe' = e /\ queue' = Tail(queue) /\ mv' = mv /\ pc' = pc
           \/ (\E b \in found : MoveFile(e, f, ge.list[b[2]].lcn, "defrag")) /\ queue' = queue
    BY <1>2 DEF DefragFile
  <2>2. f \in Files /\ e = fe
    BY <1>0, <2>1, HeadFragmented
  <2>3. TableGood(ge) /\ Gaps!Covered(ge) \subseteq Free
    BY <1>1, <2>1
  <2>4. disp[f].clusters = Len(disk[f]) /\ disp[f].clusters \in 1 .. Clusters
    BY <1>0, <2>1, <2>2, BlockMaps DEF Moving
  <2>5. CASE fe' = e /\ queue' = Tail(queue) /\ mv' = mv /\ pc' = pc
    <3>1. FilesInv'
      BY <1>0, <2>1, <2>2, <2>5, OtherFiles DEF Moving
    <3>2. QueueInv'
      BY <1>0, <2>1, <2>5, TailQueue
    <3>3. SpaceInv'
      BY <1>0, <2>1, <2>5, OtherSpace DEF Moving
    <3> QED BY <3>1, <3>2, <3>3 DEF SafeInv
  <2>6. ASSUME NEW b \in found, MoveFile(e, f, ge.list[b[2]].lcn, "defrag"), queue' = queue
        PROVE  SafeInv'
    <3>1. PICK k \in DOMAIN ge.regions :
            ge.list[b[2]].lcn = k /\ Gaps!Region(ge, k).length >= disp[f].clusters
      BY <2>3, <2>4, BestTable
    <3>2. disp[f].clusters \in 0 .. Gaps!Region(ge, k).length
      <4>1. Gaps!Region(ge, k).length \in Nat
        BY <2>3, BehindRegion, WordAssumption DEF GP!Run
      <4> QED BY <2>4, <3>1, <4>1
    <3>3. Room(k, Len(disk[f]), Free, Gaps!Covered(ge), Seeing)
      BY <2>3, <2>4, <3>2, RegionRoom
    <3>4. MoveFile(fe, f, k, pc)
      BY <2>1, <2>2, <2>6, <3>1
    <3> HIDE DEF f
    <3> QED BY <2>1, <2>2, <2>6, <3>3, <3>4, TakeSafe DEF f
  <2> QED BY <2>1, <2>5, <2>6
<1>3. CASE SkipGap
  <2>1. /\ pc = "gaps" /\ DOMAIN ge.regions # {}
        /\ ge' = Gaps!PopBlock(ge, NextGap, Free) /\ Goto("gaps", ge')
        /\ fe' = fe /\ disp' = disp /\ last' = last /\ mv' = mv /\ queue' = queue /\ gap' = gap
    BY <1>3 DEF SkipGap, AnotherGap
  <2>2. pc' = "gaps"
    <3>1. Free \subseteq Cluster
      BY DEF Free
    <3>2. ge'.broke = FALSE
      BY <1>1, <2>1, <3>1, PopFirst
    <3> QED BY <2>1, <3>2 DEF Goto
  <2>3. FilesInv'
    BY <1>0, <2>1, <2>2, OtherFiles DEF Moving
  <2>4. SpaceInv'
    BY <1>0, <2>1, <2>2, OtherSpace DEF Moving
  <2>5. QueueInv'
    BY <1>0, <2>1, <2>2, OtherQueue DEF Moving
  <2> QED BY <2>3, <2>4, <2>5 DEF SafeInv
<1>4. ~FindBestCrashes
  <2>1. FindBestCrashes => pc \notin Moving \cup {"crash"}
    BY DEF FindBestCrashes, AnotherGap, Moving
  <2> QED BY <1>0, <2>1, NoNull DEF FindBestCrashes
<1>5. CASE FillGap
  <2>1. /\ pc = "gaps" /\ DOMAIN ge.regions # {} /\ r' = NextGap /\ ge' = ge
        /\ files' = Fill!Best(fe.buckets, disp, NextGap.lcn, NextGap.length, gap.partialOK)
        /\ gap' = [gap EXCEPT !.g = ge.regions[Head1], !.freed = FALSE]
        /\ fe' = fe /\ disp' = disp /\ last' = last /\ mv' = mv /\ queue' = queue
        /\ \/ files' # <<>> /\ pc' = "set"
           \/ pc' = "widen"
    BY <1>5 DEF FillGap, AnotherGap
  <2>2. TableGood(ge) /\ Gaps!Covered(ge) \subseteq Free
    BY <1>1, <2>1
  <2>3. NextGap \in GP!Run /\ Head1 \in DOMAIN ge.regions
    BY <2>1, <2>2, FirstRegion
  <2>4. /\ NextGap.lcn = Head1 /\ NextGap.lcn \in Nat /\ NextGap.length \in Nat
    BY <2>2, <2>3, BehindRegion, WordAssumption DEF NextGap, GP!Run, GP!Cluster
  <2>5. Room(NextGap.lcn, NextGap.length, Free, Gaps!Covered(ge), Seeing)
    <3>1. NextGap.length \in 0 .. Gaps!Region(ge, Head1).length
      BY <2>4 DEF NextGap
    <3> QED BY <2>2, <2>3, <2>4, <3>1, RegionRoom
  <2>6. gap'.partialOK = gap.partialOK /\ gap'.g = ge.regions[Head1]
    BY <1>0, <2>1
  <2>7. Free' = Free /\ Seeing' = Seeing /\ LengthOf' = LengthOf /\ Head1' = Head1
    BY <2>1, SameFree DEF Seeing, LengthOf, Head1
  <2>8. pc' = "set" => FillInv'
    <3> SUFFICES ASSUME pc' = "set" PROVE FillInv'
      OBVIOUS
    <3>1. FitsIn(LengthOf, files', NextGap.length, gap.partialOK)
      BY <1>0, <2>1, <2>3, FillFits
    <3>2. Ahead' = 0 /\ r'.lcn + 0 = r'.lcn /\ r'.length - 0 = r'.length /\ 0 \in 0 .. r'.length
      BY <2>1, <2>4 DEF Ahead
    <3> QED BY <2>1, <2>4, <2>5, <2>6, <2>7, <3>1, <3>2 DEF FillInv
  <2>9. SpaceInv'
    <3>1. Filling' => pc' = "set"
      BY <2>1 DEF Filling, Moving
    <3> QED BY <1>0, <2>1, <2>6, <2>7, <2>8, <3>1 DEF SpaceInv
  <2>10. FilesInv'
    BY <1>0, <2>1, OtherFiles DEF Moving
  <2>11. QueueInv'
    BY <1>0, <2>1, OtherQueue DEF Moving
  <2> QED BY <2>9, <2>10, <2>11 DEF SafeInv
<1>6. CASE SetFile
  <2>1. /\ pc = "set" /\ files # <<>> /\ MoveFile(fe, Head(files), r.lcn, pc)
        /\ disp' = disp /\ ge' = ge /\ last' = last /\ gap' = gap /\ r' = r /\ files' = files
        /\ queue' = queue
    BY <1>6 DEF SetFile
  <2> DEFINE f == Head(files)
  <2>2. f \in Files
    BY <1>0, <2>1, HeadTailProperties
  <2>3. LengthOf \in [Files -> Nat] /\ LengthOf[f] = Len(disk[f])
    BY <1>0, <2>1, <2>2, BlockMaps DEF Moving, LengthOf
  <2>4. /\ FillInv /\ Ahead = 0
    BY <1>0, <2>1 DEF SpaceInv, Filling, Ahead
  <2>5. /\ r.lcn \in Nat /\ r.length \in Nat
        /\ Room(r.lcn, r.length, Free, Gaps!Covered(ge), Seeing)
        /\ FitsIn(LengthOf, files, r.length, gap.partialOK)
    <3>1. /\ r.lcn \in Nat /\ r.length \in Nat
          /\ Room(r.lcn + 0, r.length - 0, Free, Gaps!Covered(ge), Seeing)
          /\ FitsIn(LengthOf, files, r.length, gap.partialOK)
      BY <2>4 DEF FillInv
    <3>2. r.lcn + 0 = r.lcn /\ r.length - 0 = r.length
      BY <3>1
    <3> QED BY <3>1, <3>2
  <2>6. Len(disk[f]) \in 0 .. r.length
    BY <1>0, <2>1, <2>3, <2>5, FitsTail
  <2>7. Room(r.lcn, Len(disk[f]), Free, Gaps!Covered(ge), Seeing)
    BY <2>5, <2>6, RoomParts
  <2> HIDE DEF f
  <2> QED BY <2>1, <2>2, <2>7, TakeSafe DEF f
<1>7. CASE SetEnd
  <2>1. /\ pc = "set" /\ pc' = "gaps" /\ queue' = queue /\ fe' = fe /\ disp' = disp
        /\ last' = last /\ mv' = mv /\ gap' = [gap EXCEPT !.partialOK = FALSE]
    BY <1>7 DEF SetEnd
  <2>2. FilesInv'
    BY <1>0, <2>1, OtherFiles DEF Moving
  <2>3. SpaceInv'
    <3>1. gap'.partialOK \in BOOLEAN
      BY <1>0, <2>1
    <3> QED BY <1>0, <2>1, <3>1, OtherSpace DEF Moving
  <2>4. QueueInv'
    BY <1>0, <2>1, OtherQueue DEF Moving
  <2> QED BY <2>2, <2>3, <2>4 DEF SafeInv
<1>8. ~WidenFile
  BY DEF WidenFile, WidenOn
<1>9. CASE Return
  <2>1. pc = "return" /\ mv.by \in {"defrag", "set"} /\ (mv.by = "defrag" => queue # <<>>)
    BY <1>9 DEF Return, WorkInv
  <2>2. CASE mv.by = "defrag"
    <3>1. /\ pc' = "defrag" /\ queue' = Tail(queue) /\ disp' = disp /\ fe' = fe /\ ge' = ge
          /\ gap' = gap /\ mv' = mv /\ last' = mv.f
      BY <1>9, <2>2 DEF Return
    <3>2. FilesInv'
      BY <1>0, <2>1, <3>1, OtherFiles DEF Moving
    <3>3. SpaceInv'
      BY <1>0, <3>1, OtherSpace DEF Moving
    <3>4. QueueInv'
      BY <1>0, <2>1, <2>2, <3>1, TailQueue
    <3> QED BY <3>2, <3>3, <3>4 DEF SafeInv
  <2> QED BY <1>9, <2>1, <2>2, ReturnToSet
<1> QED BY <1>2, <1>3, <1>4, <1>5, <1>6, <1>7, <1>8, <1>9 DEF Internal

(* Opening the file.                                                       *)
LEMMA OpenSafe ==
  ASSUME Faults = 0, KnownInv, SafeInv, OpenFile
  PROVE  SafeInv'
<1>0. FilesInv /\ QueueInv /\ SpaceInv
  BY DEF SafeInv
<1>1. /\ pc = "open" /\ pc' = "move" /\ bound' = bound /\ disk' = disk /\ disp' = disp
      /\ fe' = fe /\ ge' = ge /\ last' = last /\ queue' = queue /\ gap' = gap /\ r' = r
      /\ files' = files /\ mv' = mv
  <2>1. ~Spend("faults")
    BY DEF Spend, KnownInv
  <2> QED BY <2>1 DEF OpenFile
<1>2. FilesInv'
  <2>1. \A f \in Files : disk'[f] # <<>>
    BY <1>0, <1>1 DEF FilesInv
  <2> QED BY <1>0, <1>1, <2>1, HoldFiles
<1>3. QueueInv'
  BY <1>0, <1>1, HoldQueue
<1>4. Free' = Free /\ Seeing' = Seeing /\ LengthOf' = LengthOf
  BY <1>1, SameFree DEF Seeing, LengthOf
<1>5. Filling' => FillInv'
  <2> SUFFICES ASSUME Filling' PROVE FillInv'
    OBVIOUS
  <2>1. Filling /\ Ahead = 0 /\ Ahead' = 0
    BY <1>1 DEF Filling, Moving, Ahead
  <2>2. FillInv
    BY <1>0, <1>1, <2>1 DEF SpaceInv
  <2> QED BY <1>1, <1>4, <2>1, <2>2 DEF FillInv
<1>6. SpaceInv'
  BY <1>0, <1>1, <1>4, <1>5 DEF SpaceInv
<1> QED BY <1>2, <1>3, <1>6 DEF SafeInv

(* The move is made, and the file's old clusters are free.                 *)
LEMMA MoveMade ==
  ASSUME Clusters <= MaxChunk, Faults = 0, KnownInv, WorkInv, SafeInv, MoveClusters
  PROVE  /\ pc = "move" /\ mv.f \in Files /\ mv.target \in Cluster /\ Targets \subseteq Free
         /\ Targets = Span(mv.target, Len(disk[mv.f]))
         /\ disk' = [disk EXCEPT ![mv.f] = Moved(mv.f)]
         /\ mv' = [mv EXCEPT !.status = "success"] /\ bound' = bound
<1>0. ~Spend("faults")
  BY DEF Spend, KnownInv
<1>1. pc = "move"
  BY DEF MoveClusters
<1> DEFINE n == Len(disk[mv.f])
<1>2. mv.f \in Files /\ Room(mv.target, n, Free, Gaps!Covered(ge), Seeing)
  BY <1>1 DEF WorkInv, Moving, SafeInv, SpaceInv
<1>3. mv.left = n /\ n # 0 /\ mv.left \in 0 .. Clusters
  BY <1>1, <1>2 DEF KnownInv, FiledInv, HandInv, Moving
<1>4. Cur = n
  BY <1>3, ChunkAssumption, WordAssumption DEF Cur
<1>5. Targets = Span(mv.target, n)
  BY <1>4 DEF Targets, Span
<1>6. Targets \subseteq Free /\ Targets \subseteq Cluster
  BY <1>2, <1>5 DEF Room, Free
<1>7. mv.target \in Cluster
  <2>1. mv.target \in Nat /\ n \in Nat /\ mv.target \in Span(mv.target, n)
    BY <1>2, <1>3, WordAssumption DEF Room, Span
  <2> QED BY <1>5, <1>6, <2>1
<1> QED BY <1>0, <1>1, <1>2, <1>5, <1>6, <1>7 DEF MoveClusters

(* After the move and ge->push.                                            *)
LEMMA MoveSafe ==
  ASSUME Clusters <= MaxChunk, Memory, Faults = 0,
         KnownInv, KnownInv', WorkInv, SoundInv, SafeInv, MoveClusters
  PROVE  SafeInv'
<1> DEFINE f == mv.f
           n == Len(disk[f])
           new == Span(mv.target, n)
           old == ToSet(disk[f])
           C == Gaps!Covered(ge)
<1>0. FilesInv /\ QueueInv /\ SpaceInv
  BY DEF SafeInv
<1>1. /\ pc = "move" /\ f \in Files /\ mv.target \in Cluster /\ Targets \subseteq Free
      /\ Targets = new
      /\ disk' = [disk EXCEPT ![f] = Moved(f)]
      /\ mv' = [mv EXCEPT !.status = "success"] /\ bound' = bound
  BY MoveMade
<1>2. /\ disp' = disp /\ fe' = fe /\ last' = last /\ queue' = queue /\ gap' = gap /\ r' = r
      /\ files' = files /\ ge' = PushFile(ge, disp[f], Free')
      /\ pc' = IF ge'.broke THEN "crash" ELSE "dump"
  BY DEF MoveClusters, Goto
<1>3. /\ DOMAIN mv = {"f", "target", "left", "status", "by"} /\ DiskInv /\ DiskInv'
      /\ DOMAIN disk = Files
      /\ TableGood(ge) /\ C \subseteq Free /\ OwnersApart
  BY <1>1 DEF KnownInv, FiledInv, HandInv, DiskInv, SoundInv, WorkInv
<1>4. mv'.f = f /\ mv'.by = mv.by /\ mv'.status = "success"
  BY <1>1, <1>3
<1>5. /\ Moved(f) # <<>> /\ Len(Moved(f)) = n /\ Moved(f) \in Seq(Nat)
      /\ RetrievalPointers(Moved(f)) = <<[lcn |-> mv.target, length |-> n]>>
  BY <1>1, MovedWhole
<1>6. /\ disk'[f] = Moved(f) /\ \A g \in Files : g # f => disk'[g] = disk[g]
  BY <1>1, <1>3
<1>7. ToSet(disk'[f]) = new
  <2> DEFINE b == [lcn |-> mv.target, length |-> n]
  <2>1. Gaps!Cells(b) = CellsOf(<<b>>) /\ Gaps!Cells(b) = new
    BY OneBlock DEF Gaps!Cells, Span
  <2>2. CellsOf(<<b>>) = ToSet(Moved(f))
    <3>1. RetrievalPointers(Moved(f)) = <<b>>
      BY <1>5
    <3> HIDE DEF b
    <3> QED BY <1>5, <3>1, RetrievalPointersExact
  <2> HIDE DEF b
  <2> QED BY <1>6, <2>1, <2>2
<1>8. Free \cup old \subseteq Free' \cup new
  BY <1>1, <1>3, <1>7, MadeMove
<1>9. old \subseteq Cluster /\ old \cap Free = {}
  <2>1. \A i \in DOMAIN disk[f] : disk[f][i] \in Cluster
    BY <1>1, <1>3, LenProperties DEF DiskInv
  <2> QED BY <1>1, <2>1 DEF ToSet, Free, Used
<1>10. Room(mv.target, n, Free, C, Seeing)
  BY <1>0, <1>1 DEF SpaceInv
<1>11. n \in Nat /\ n # 0 /\ new # {}
  <2>1. n \in Nat /\ mv.target \in Nat
    BY <1>10 DEF Room
  <2>2. n # 0
    BY <1>1 DEF KnownInv
  <2> QED BY <2>1, <2>2 DEF Span
<1> DEFINE d == disp[f]
<1>12. /\ d \in Disp /\ CellsOf(d.blockmap) = old /\ BlocksApart(d.blockmap)
  <2>1. disk[f] \in Seq(Nat) /\ IsInjective(disk[f])
    BY <1>1, <1>3, ClustersAreNat DEF DiskInv
  <2>2. d = Order(Dump(disk[f]))
    BY <1>0, <1>1 DEF FilesInv
  <2>3. BlocksApart(Dump(disk[f]).blockmap)
    BY <2>1, RetrievalApart DEF Dump
  <2>4. BlocksApart(Order(Dump(disk[f])).blockmap)
    BY <2>1, <2>3, DumpFacts, OrderApart
  <2> HIDE DEF d
  <2> QED BY <2>1, <2>2, <2>3, <2>4, DumpFacts
<1>13. /\ ge'.broke # TRUE => Gaps!Covered(ge') = C \cup old
       /\ C # {} => ge'.broke = FALSE
  <2>1. CellsOf(d.blockmap) \subseteq Cluster /\ CellsOf(d.blockmap) \cap Gaps!Covered(ge) = {}
    BY <1>3, <1>9, <1>12
  <2> DEFINE t == PushFile(ge, d, Free')
  <2>2. ge' = t
    BY <1>2
  <2>3. /\ \/ t.broke = TRUE
           \/ TableGood(t) /\ Gaps!Covered(t) = Gaps!Covered(ge) \cup CellsOf(d.blockmap)
        /\ Gaps!Covered(ge) # {} => t.broke = FALSE
    <3> HIDE DEF d, f
    <3> QED BY <1>3, <1>12, <2>1, PushFileTable
  <2> HIDE DEF t
  <2> QED BY <1>12, <2>2, <2>3
<1>14. Seeing' = Seeing /\ (Seeing => pc' = "dump")
  <2>1. Seeing' = Seeing
    BY <1>1 DEF Seeing
  <2>2. ASSUME Seeing PROVE C # {}
    BY <1>10, <1>11, <2>2 DEF Room, Together
  <2> QED BY <1>2, <1>13, <2>1, <2>2
<1>15. FilesInv'
  <2>1. \A g \in Files : disk'[g] # <<>>
    BY <1>0, <1>5, <1>6 DEF FilesInv
  <2>2. pc' \in Undumped
    BY <1>2 DEF Undumped
  <2> QED BY <1>0, <1>1, <1>2, <1>4, <1>6, <2>1, <2>2, HoldFiles DEF Undumped
<1>16. QueueInv'
  BY <1>0, <1>1, <1>2, <1>4, HoldQueue
<1>17. ASSUME NEW X, X \subseteq Free, X \cap new = {} \/ X = new, Together(X, C, Seeing), pc' = "dump"
       PROVE  Together(X, Gaps!Covered(ge'), Seeing')
  <2>1. Gaps!Covered(ge') = C \cup old
    BY <1>2, <1>13, <1>17
  <2> HIDE DEF C, old, new
  <2> QED BY <1>9, <1>14, <1>17, <2>1 DEF Together
<1>18. pc' = "dump" => Together(ToSet(disk'[mv'.f]), Gaps!Covered(ge'), Seeing')
  <2>1. new \subseteq Free /\ Together(new, C, Seeing)
    BY <1>10 DEF Room
  <2> QED BY <1>4, <1>7, <1>17, <2>1
<1>19. LengthOf' = LengthOf
  <2>1. \A g \in Files : Len(disk'[g]) = Len(disk[g])
    BY <1>5, <1>6
  <2> QED BY <2>1 DEF LengthOf
<1>20. pc' = "dump" /\ Filling' => FillInv'
  <2> SUFFICES ASSUME pc' = "dump", Filling' PROVE FillInv'
    OBVIOUS
  <2>1. Filling /\ Ahead = 0 /\ Ahead' = n
    BY <1>1, <1>4, <1>5, <1>6 DEF Filling, Moving, Ahead
  <2>2. /\ r.lcn \in Nat /\ r.length \in Nat
        /\ Room(r.lcn + 0, r.length - 0, Free, C, Seeing)
        /\ FitsIn(LengthOf, files, r.length, gap.partialOK)
        /\ f = Head(files) /\ mv.target = r.lcn
    BY <1>0, <1>1, <2>1 DEF SpaceInv, FillInv
  <2>3. files \in Seq(Files) /\ files # <<>>
    BY <1>1, <1>4 DEF WorkInv, Moving, Filling
  <2>4. LengthOf \in [Files -> Nat] /\ LengthOf[f] = n
    <3>1. \A g \in Files : Len(disk[g]) \in Nat
      BY <1>3, LenProperties DEF DiskInv
    <3> QED BY <1>1, <3>1 DEF LengthOf
  <2>5. n \in 0 .. r.length
    BY <2>2, <2>3, <2>4, FitsTail
  <2> DEFINE rest == Span(r.lcn + n, r.length - n)
  <2>6. /\ Room(r.lcn + n, r.length - n, Free, C, Seeing)
        /\ new \cap rest = {}
    <3>1. r.lcn + 0 = r.lcn /\ r.length - 0 = r.length
      BY <2>2
    <3>2. Room(r.lcn, r.length, Free, C, Seeing)
      BY <2>2, <3>1
    <3> HIDE DEF C, n
    <3> QED BY <2>2, <2>5, <3>2, RoomParts
  <2>7. rest \subseteq Free /\ Together(rest, C, Seeing)
    BY <2>6 DEF Room
  <2> HIDE DEF rest
  <2>8. rest \subseteq Free' /\ Together(rest, Gaps!Covered(ge'), Seeing')
    BY <1>8, <1>17, <2>6, <2>7
  <2>9. Room(r.lcn + n, r.length - n, Free', Gaps!Covered(ge'), Seeing')
    BY <2>6, <2>8 DEF Room, rest
  <2> QED BY <1>2, <1>4, <1>19, <2>1, <2>2, <2>5, <2>9 DEF FillInv
<1>21. SpaceInv'
  <2>1. /\ gap.partialOK \in BOOLEAN /\ bound.scans \in 0 .. BlindScans
    BY <1>0 DEF SpaceInv
  <2>2. pc' \in {"crash", "dump"}
    BY <1>2
  <2> QED BY <1>1, <1>2, <1>4, <1>14, <1>18, <1>20, <2>1, <2>2 DEF SpaceInv
<1> QED BY <1>15, <1>16, <1>21 DEF SafeInv

(* The file is dumped, and ge->pop goes through.                           *)
LEMMA DumpSafe ==
  ASSUME Clusters <= MaxChunk, Faults = 0, KnownInv, WorkInv, SoundInv, SafeInv, DumpFile
  PROVE  SafeInv'
<1> DEFINE f == mv.f
           c == disk[f]
           C == Gaps!Covered(ge)
<1>0. FilesInv /\ QueueInv /\ SpaceInv
  BY DEF SafeInv
<1>1. /\ pc = "dump" /\ f \in Files /\ mv.status = "success"
      /\ TableGood(ge) /\ OneRun(c) /\ Together(ToSet(c), C, Seeing)
      /\ gap.partialOK \in BOOLEAN /\ bound.scans \in 0 .. BlindScans
      /\ DOMAIN mv = {"f", "target", "left", "status", "by"}
      /\ DOMAIN bound = {"meddling", "faults", "scans"}
      /\ DOMAIN gap = {"g", "partialOK", "freed"} /\ DiskInv /\ FiledInv
  BY DEF DumpFile, WorkInv, SoundInv, SafeInv, SpaceInv, Moving, KnownInv, FiledInv, HandInv
<1>2. PICK F \in {Free, {}} :
        DumpStep(F) /\ ((F = Free /\ bound' = bound) \/ (F = {} /\ Spend("scans")))
  <2>1. \/ DumpStep(Free) /\ bound' = bound
        \/ DumpStep({}) /\ Spend("scans")
    BY <1>1, DumpSteps
  <2> QED BY <2>1
<1>3. PICK b \in GP!Run : RetrievalPointers(c) = <<b>>
  BY <1>1 DEF OneRun
<1>4. Gaps!Cells(b) = ToSet(c)
  <2>1. c \in Seq(Nat)
    BY <1>1, ClustersAreNat
  <2>2. Gaps!Cells(b) = CellsOf(<<b>>)
    BY OneBlock
  <2> QED BY <1>3, <2>1, <2>2, RetrievalPointersExact
<1>5. /\ disk' = disk /\ queue' = queue /\ files' = files /\ r' = r /\ last' = last
      /\ ge' = Gaps!PopBlock(ge, b, F) /\ gap' = [gap EXCEPT !.freed = @ \/ PopRescans(ge, Dump(c), F)]
      /\ mv' = [mv EXCEPT !.left = @ - Cur, !.target = @ + Cur]
      /\ pc' = IF ge'.broke THEN "crash" ELSE "return"
  <2>1. Dump(c).blockmap = <<b>>
    BY <1>3 DEF Dump
  <2>2. ge' = PopFile(ge, Dump(c), F)
    BY <1>2 DEF DumpStep
  <2>3. ge' = Gaps!PopBlock(ge, b, F)
    BY <2>1, <2>2, PopFileOne
  <2> QED BY <1>2, <2>3 DEF DumpStep, Goto
<1>6. F \subseteq Cluster
  BY <1>2 DEF Free
<1>7. /\ ge'.broke = FALSE
      /\ Gaps!Covered(ge') \in {F, C \ ToSet(c)}
  <2>1. Gaps!Cells(b) \subseteq Gaps!Covered(ge) \/ Gaps!Cells(b) \cap Gaps!Covered(ge) = {}
    BY <1>1, <1>4 DEF Together
  <2> QED BY <1>1, <1>4, <1>5, <1>6, <2>1, PopSafe
<1>8. /\ pc' = "return" /\ mv'.f = f /\ mv'.by = mv.by /\ mv'.status = "success"
      /\ gap'.partialOK = gap.partialOK
  BY <1>1, <1>5, <1>7
<1>9. FilesInv'
  BY <1>0, <1>1, <1>2, DumpFiles
<1>10. QueueInv'
  BY <1>0, <1>1, <1>2, DumpQueue
<1>11. /\ bound'.scans \in 0 .. BlindScans
       /\ Seeing' => Seeing
       /\ F = {} => F = Free \/ ~Seeing'
  <2>1. CASE bound' = bound /\ F = Free
    BY <1>1, <2>1 DEF Seeing
  <2>2. CASE Spend("scans")
    <3>1. bound'.scans = bound.scans - 1 /\ bound.scans > 0
      BY <1>1, <2>2 DEF Spend
    <3>2. ~Seeing'
      BY <1>1, <3>1, BoundsAssumption DEF Seeing
    <3> QED BY <1>1, <3>1, <3>2, BoundsAssumption
  <2> QED BY <1>2, <2>1, <2>2
<1>12. Free' = Free /\ LengthOf' = LengthOf /\ Len(disk'[f]) = Len(c)
  BY <1>5, SameFree DEF LengthOf
<1>13. ASSUME NEW X, X \subseteq Free, Together(X, C, Seeing)
       PROVE  Together(X, Gaps!Covered(ge'), Seeing')
  <2>1. X \cap ToSet(c) = {}
    BY <1>1, <1>13 DEF Free, Used
  <2>2. CASE Gaps!Covered(ge') = C \ ToSet(c)
    <3> HIDE DEF C, c
    <3> QED BY <1>11, <1>13, <2>1, <2>2 DEF Together
  <2>3. CASE Gaps!Covered(ge') = F
    BY <1>2, <1>11, <1>13, <2>3 DEF Together
  <2> QED BY <1>7, <2>2, <2>3
<1>14. Filling' => FillInv'
  <2> SUFFICES ASSUME Filling' PROVE FillInv'
    OBVIOUS
  <2>1. Filling /\ Ahead = Len(c) /\ Ahead' = Len(c)
    BY <1>1, <1>8, <1>12 DEF Filling, Moving, Ahead
  <2>2. FillInv
    BY <1>0, <1>1, <2>1 DEF SpaceInv
  <2> DEFINE l == r.lcn + Ahead
             n == r.length - Ahead
  <2>3. Room(l, n, Free, C, Seeing)
    BY <2>2 DEF FillInv
  <2> HIDE DEF l, n
  <2>4. Span(l, n) \subseteq Free /\ Together(Span(l, n), C, Seeing)
    BY <2>3 DEF Room
  <2>5. Together(Span(l, n), Gaps!Covered(ge'), Seeing')
    <3> HIDE DEF C
    <3> QED BY <1>13, <2>4
  <2>6. Room(l, n, Free', Gaps!Covered(ge'), Seeing')
    BY <1>12, <2>3, <2>4, <2>5 DEF Room
  <2> QED BY <1>1, <1>5, <1>8, <1>12, <2>1, <2>2, <2>6 DEF FillInv, l, n
<1>15. SpaceInv'
  BY <1>1, <1>8, <1>11, <1>14 DEF SpaceInv
<1> QED BY <1>9, <1>10, <1>15 DEF SafeInv

(* Every step of the program, alone on the volume and without --widen.     *)
LEMMA NextSafe ==
  ASSUME Clusters <= MaxChunk, Memory, Faults = 0,
         KnownInv, KnownInv', WorkInv, SoundInv, SafeInv, ~opts.widen, [Next]_vars
  PROVE  SafeInv'
<1>0. /\ bound.scans \in 0 .. BlindScans
      /\ DOMAIN bound = {"meddling", "faults", "scans"}
  BY DEF SafeInv, SpaceInv, KnownInv
<1>1. CASE Internal /\ UNCHANGED <<disk, term, bound>>
  BY <1>1, InternalSafe
<1>2. CASE Scanning(Free) /\ UNCHANGED <<disk, term, bound>>
  <2>1. bound' = bound /\ disk' = disk /\ Free \subseteq Free
    BY <1>2
  <2> QED BY <1>0, <1>2, <2>1, ScanningSafe
<1>3. CASE Spend("scans") /\ Scanning({}) /\ UNCHANGED <<disk, term>>
  <2>1. bound'.scans = bound.scans - 1 /\ bound.scans > 0
    BY <1>0, <1>3 DEF Spend
  <2>2. bound'.scans \in 0 .. BlindScans
    BY <1>0, <2>1, BoundsAssumption
  <2>3. {} \subseteq Free /\ disk' = disk
    BY <1>3
  <2> QED BY <1>3, <2>2, <2>3, ScanningSafe
<1>4. CASE OpenFile
  BY <1>4, OpenSafe
<1>5. CASE MoveClusters
  BY <1>5, MoveSafe
<1>6. CASE DumpFile
  BY <1>6, DumpSafe
<1>7. CASE UNCHANGED <<disk, bound, program>>
  <2>1. /\ disk' = disk /\ bound' = bound /\ disp' = disp /\ fe' = fe /\ ge' = ge /\ pc' = pc
        /\ queue' = queue /\ gap' = gap /\ files' = files /\ mv' = mv /\ r' = r /\ last' = last
    BY <1>7 DEF program
  <2>2. Free' = Free /\ Seeing' = Seeing /\ LengthOf' = LengthOf /\ Ahead' = Ahead
        /\ Filling' = Filling /\ Head1' = Head1 /\ InHand' = InHand
    BY <2>1, SameFree DEF Seeing, LengthOf, Ahead, Filling, Head1, InHand
  <2>3. FilesInv'
    BY <2>1, <2>2 DEF FilesInv, SafeInv
  <2>4. QueueInv'
    BY <2>1 DEF QueueInv, SafeInv
  <2>5. Filling' => pc = "crash" \/ FillInv'
    <3>1. Filling => pc = "crash" \/ FillInv
      BY DEF SafeInv, SpaceInv
    <3>2. FillInv => FillInv'
      BY <2>1, <2>2 DEF FillInv
    <3> QED BY <2>2, <3>1, <3>2
  <2>6. SpaceInv'
    BY <2>1, <2>2, <2>5 DEF SpaceInv, SafeInv
  <2> QED BY <2>3, <2>4, <2>6 DEF SafeInv
<1>8. ASSUME NEW f \in Files, Shrink(f) \/ \E c \in Cluster : Grow(f, c)
      PROVE  FALSE
  <2>1. bound["meddling"] > 0
    BY <1>8 DEF Shrink, Grow, Spend
  <2> QED BY <2>1 DEF KnownInv
<1>9. CASE Program
  BY <1>1, <1>2, <1>3, <1>4, <1>5, <1>6, <1>9 DEF Program
<1> QED BY <1>7, <1>8, <1>9 DEF Next, CtrlC, Finished, vars

(* The list that order() has turned begins with the lowest cluster.        *)
LEMMA OrderHead ==
  ASSUME NEW d \in Disp, d.blockmap # <<>>
  PROVE  /\ HeadLcn(Order(d)) \in CellsOf(d.blockmap)
         /\ \A x \in CellsOf(d.blockmap) : HeadLcn(Order(d)) <= x
<1> DEFINE bm == d.blockmap
           n == Len(bm)
           first == CHOOSE i \in DOMAIN bm : \A j \in DOMAIN bm : bm[i].lcn <= bm[j].lcn
           t == Turned(bm, first)
<1>1. /\ bm \in Seq(Block) /\ n \in Nat /\ DOMAIN bm = 1 .. n
      /\ \A i \in 1 .. n : bm[i] \in Block
  BY LenProperties DEF Disp
<1>2. first \in 1 .. n /\ \A j \in 1 .. n : bm[first].lcn <= bm[j].lcn
  BY <1>1, LowestBlock
<1>3. Order(d).blockmap = t
  <2>1. Order(d) = [d EXCEPT !.blockmap = SubSeq(bm, first, Len(bm)) \o SubSeq(bm, 1, first - 1)]
    BY DEF Order
  <2>2. "blockmap" \in DOMAIN d
    BY DEF Disp
  <2> HIDE DEF first, bm
  <2> QED BY <2>1, <2>2 DEF Turned
<1> HIDE DEF first
<1>4. t \in Seq(Block) /\ t[1] = bm[first] /\ \E p : Rearranges(p, bm, t)
  BY <1>1, <1>2, TurnedAround
<1>5. t # <<>>
  <2>1. Len(t) = n
    BY <1>4 DEF Rearranges
  <2> HIDE DEF t
  <2> QED BY <1>1, <1>2, <2>1
<1> HIDE DEF t
<1>6. HeadLcn(Order(d)) = bm[first].lcn
  BY <1>3, <1>4, <1>5 DEF HeadLcn
<1>7. bm[first].lcn \in CellsOf(bm)
  <2>1. bm[first] \in Block
    BY <1>1, <1>2
  <2>2. bm[first].lcn \in bm[first].lcn .. (bm[first].lcn + bm[first].length - 1)
    BY <2>1 DEF Block
  <2> HIDE DEF bm
  <2> QED BY <1>1, <1>2, <2>2 DEF CellsOf
<1>8. ASSUME NEW x \in CellsOf(bm) PROVE bm[first].lcn <= x
  <2>1. PICK i \in 1 .. n : x \in bm[i].lcn .. (bm[i].lcn + bm[i].length - 1)
    <3> HIDE DEF bm
    <3> QED BY <1>1, <1>8 DEF CellsOf
  <2>2. bm[i] \in Block /\ bm[first] \in Block /\ bm[first].lcn <= bm[i].lcn
    BY <1>1, <1>2
  <2> QED BY <2>1, <2>2 DEF Block
<1> QED BY <1>6, <1>7, <1>8

(* Where a file begins.                                                    *)
LEMMA HeadIsLowest ==
  ASSUME DiskInv, NEW f \in Files, disk[f] # <<>>, disp[f] = Order(Dump(disk[f]))
  PROVE  /\ HeadLcn(disp[f]) = Lowest(f) /\ Lowest(f) \in ToSet(disk[f]) /\ Lowest(f) \in Nat
         /\ \A c \in ToSet(disk[f]) : Lowest(f) <= c
<1> DEFINE S == ToSet(disk[f])
           x == HeadLcn(disp[f])
<1>1. disk[f] \in Seq(Nat)
  BY ClustersAreNat
<1>2. Dump(disk[f]) \in Disp /\ Dump(disk[f]).blockmap # <<>> /\ CellsOf(Dump(disk[f]).blockmap) = S
  BY <1>1, RetrievalPointersExact, DumpFacts DEF Dump
<1>3. x \in S /\ \A c \in S : x <= c
  BY <1>2, OrderHead
<1>4. S \subseteq Nat
  <2>1. \A i \in DOMAIN disk[f] : disk[f][i] \in Nat
    BY <1>1, LenProperties
  <2> QED BY <2>1 DEF ToSet
<1> HIDE DEF S, x
<1>5. Lowest(f) = CHOOSE c \in S : \A d \in S : c <= d
  BY DEF Lowest, S
<1>6. Lowest(f) \in S /\ \A d \in S : Lowest(f) <= d
  BY <1>3, <1>5
<1>7. Lowest(f) = x
  <2>1. Lowest(f) <= x /\ x <= Lowest(f) /\ x \in Nat /\ Lowest(f) \in Nat
    BY <1>3, <1>4, <1>6
  <2> QED BY <2>1
<1> QED BY <1>4, <1>6, <1>7 DEF S, x

(* The places of a file in an index that has it once, or not at all.       *)
LEMMA FiledOnce ==
  ASSUME NEW F \in SUBSET Files, Kept(fe.buckets, disp, F), NEW f \in Files
  PROVE  Cardinality(Filed(f)) = IF f \in F THEN 1 ELSE 0
<1>1. /\ \A i \in DOMAIN fe.buckets : fe.buckets[i].file \in F
      /\ \A i, j \in DOMAIN fe.buckets : fe.buckets[i].file = fe.buckets[j].file => i = j
      /\ \A g \in F : \E i \in DOMAIN fe.buckets : fe.buckets[i].file = g
  BY KeptFacts
<1>2. CASE f \in F
  <2>1. PICK i \in DOMAIN fe.buckets : fe.buckets[i].file = f
    BY <1>1, <1>2
  <2>2. Filed(f) = {i}
    BY <1>1, <2>1 DEF Filed
  <2> QED BY <1>2, <2>2, FS_Singleton
<1>3. CASE f \notin F
  <2>1. Filed(f) = {}
    BY <1>1, <1>3 DEF Filed
  <2> QED BY <1>3, <2>1, FS_EmptySet
<1> QED BY <1>2, <1>3

-----------------------------------------------------------------------------
(* The program alone on a volume: the invariant of the theorems below.     *)
AloneInv == KnownInv /\ (~opts.widen => WorkInv /\ SoundInv /\ SafeInv)

(* It holds throughout.                                                    *)
LEMMA AloneInvariant ==
  ASSUME Clusters <= MaxChunk, Meddling = 0, Faults = 0, Memory
  PROVE  Spec => []AloneInv
<1>1. Init => AloneInv
  BY InitKnown, InitSound, InitFiles, InitQueue, InitSpace DEF AloneInv, SafeInv
<1>2. AloneInv /\ [Next]_vars => AloneInv'
  <2> SUFFICES ASSUME KnownInv, ~opts.widen => WorkInv /\ SoundInv /\ SafeInv, [Next]_vars
               PROVE  AloneInv'
    BY DEF AloneInv
  <2>1. KnownInv' /\ opts' = opts
    BY NextKnown, SameOptions
  <2>2. CASE opts.widen
    BY <2>1, <2>2 DEF AloneInv
  <2>3. CASE ~opts.widen
    <3>1. WorkInv' /\ SoundInv'
      BY <2>1, <2>3, NextSound
    <3>2. SafeInv'
      BY <2>1, <2>3, NextSafe
    <3> QED BY <2>1, <3>1, <3>2 DEF AloneInv
  <2> QED BY <2>2, <2>3
<1> QED BY <1>1, <1>2, PTL DEF Spec

(* MovesSucceed: alone on the volume and without --widen, every            *)
(* FSCTL_MOVE_FILE the program asks for (op.cpp 50) goes through, on a     *)
(* volume of any size with any number of files: the target is free at the  *)
(* call, because the gap table had it and every file before it in move_set *)
(* has been accounted for.                                                 *)
THEOREM EveryMoveIsMade ==
  ASSUME Clusters <= MaxChunk, Meddling = 0, Faults = 0, Memory
  PROVE  Spec => []MovesSucceed
<1>1. AloneInv => MovesSucceed
  BY DEF AloneInv, SafeInv, SpaceInv, MovesSucceed
<1> QED BY <1>1, AloneInvariant, PTL

(* KnowsTheVolume: between moves, every file's block map is what the       *)
(* volume has and begins at its lowest cluster, in whatever order          *)
(* move_file (op.cpp 24-67) has moved, pushed, dumped and popped files     *)
(* before.                                                                 *)
THEOREM VolumeIsKnown ==
  ASSUME Clusters <= MaxChunk, Meddling = 0, Faults = 0, Memory
  PROVE  Spec => [](~opts.widen => KnowsTheVolume)
<1>1. AloneInv => (~opts.widen => KnowsTheVolume)
  <2> SUFFICES ASSUME AloneInv, ~opts.widen, Idle, NEW f \in Files
               PROVE  /\ disp[f].clusters = Len(disk[f])
                      /\ UNION { Gaps!Cells(disp[f].blockmap[i]) : i \in DOMAIN disp[f].blockmap }
                           = ToSet(disk[f])
                      /\ HeadLcn(disp[f]) = Lowest(f)
    BY DEF KnowsTheVolume
  <2>1. /\ DiskInv /\ disk[f] # <<>> /\ disp[f] = Order(Dump(disk[f]))
    BY DEF AloneInv, SafeInv, FilesInv, Idle, KnownInv, FiledInv
  <2>2. /\ disp[f].clusters = Len(disk[f]) /\ CellsOf(disp[f].blockmap) = ToSet(disk[f])
    BY <2>1, ExactDisp
  <2>3. HeadLcn(disp[f]) = Lowest(f)
    BY <2>1, HeadIsLowest
  <2>4. UNION { Gaps!Cells(disp[f].blockmap[i]) : i \in DOMAIN disp[f].blockmap }
          = CellsOf(disp[f].blockmap)
    BY DEF Gaps!Cells, CellsOf
  <2> QED BY <2>2, <2>3, <2>4
<1> QED BY <1>1, AloneInvariant, PTL

(* Every file is in the index, but for the one in the program's hand.      *)
LEMMA AllFiled ==
  ASSUME AloneInv, ~opts.widen, pc # "crash"
  PROVE  KeepsFiles /\ ~fe.missed
<1>1. Kept(fe.buckets, disp, Files \ InHand) /\ fe.missed = FALSE
  BY DEF AloneInv, SafeInv, FilesInv
<1>2. ASSUME NEW f \in Files
      PROVE  Cardinality(Filed(f)) = IF f = mv.f /\ pc \in {"open", "move", "dump"} THEN 0 ELSE 1
  <2>1. Cardinality(Filed(f)) = IF f \in Files \ InHand THEN 1 ELSE 0
    BY <1>1, FiledOnce
  <2>2. f \in Files \ InHand <=> ~(f = mv.f /\ pc \in {"open", "move", "dump"})
    BY DEF InHand, Moving
  <2> QED BY <2>1, <2>2
<1> QED BY <1>1, <1>2 DEF KeepsFiles

(* Without a failed read of the bitmap, nothing breaks off.                *)
LEMMA NoCrash ==
  ASSUME BlindScans = 0, AloneInv, ~opts.widen
  PROVE  pc # "crash"
<1>1. bound.scans \in 0 .. BlindScans /\ (Seeing => pc # "crash")
  BY DEF AloneInv, SafeInv, SpaceInv
<1> QED BY <1>1 DEF Seeing

(* NeverDies: with a bitmap that can always be read, no DebugBreak of      *)
(* ge->push and ge->pop (zen.cpp 130, 213) and no null block map is        *)
(* reached, and fe->pop finds its file (zen.cpp 316).                      *)
THEOREM NothingBreaks ==
  ASSUME Clusters <= MaxChunk, Meddling = 0, Faults = 0, BlindScans = 0, Memory
  PROVE  Spec => [](~opts.widen => NeverDies)
<1>1. AloneInv => (~opts.widen => NeverDies)
  BY NoCrash, AllFiled DEF NeverDies
<1> QED BY <1>1, AloneInvariant, PTL

(* KeepsFiles: every file stays in the index, once, but for the one that   *)
(* move_file has taken out and will put back (op.cpp 26, 65).              *)
THEOREM NoFileIsLost ==
  ASSUME Clusters <= MaxChunk, Meddling = 0, Faults = 0, BlindScans = 0, Memory
  PROVE  Spec => [](~opts.widen => KeepsFiles)
<1>1. AloneInv => (~opts.widen => KeepsFiles)
  BY NoCrash, AllFiled
<1> QED BY <1>1, AloneInvariant, PTL

(* BlindIsHarmless: reads of the bitmap that fail (volume.c 523), however  *)
(* many and wherever, make the program miss gaps or break off, but not     *)
(* take a used cluster for free or lose a file.                            *)
THEOREM BlindnessIsHarmless ==
  ASSUME Clusters <= MaxChunk, Meddling = 0, Faults = 0, Memory
  PROVE  Spec => [](~opts.widen => BlindIsHarmless)
<1>1. AloneInv => (~opts.widen => BlindIsHarmless)
  <2> SUFFICES ASSUME AloneInv, ~opts.widen, pc # "crash"
               PROVE  TableIsSound /\ ~fe.missed /\ KeepsFiles
    BY DEF BlindIsHarmless
  <2>1. TableIsSound
    BY DEF AloneInv, SoundInv, TableIsSound, Idle
  <2> QED BY <2>1, AllFiled
<1> QED BY <1>1, AloneInvariant, PTL

(* Every file that is not too large comes up for consideration.            *)
LEMMA SmallConsidered ==
  ASSUME NEW S, NEW b \in Seq(S), OfFiles(b), NEW length \in Nat,
         \A i \in DOMAIN b : b[i].key \in Nat,
         \A i, j \in DOMAIN b : i < j => b[i].key <= b[j].key,
         NEW i \in DOMAIN b, b[i].key <= length
  PROVE  \E k \in 1 .. Len(Downwards(b, length)) : Downwards(b, length)[k] = b[i]
<1> DEFINE T == SmallOnes(b, length)
           small == Fill!Cardinality(T)
           down == Downwards(b, length)
<1>1. /\ down \in Seq(S) /\ small \in 0 .. Len(b) /\ DOMAIN down = 1 .. small
      /\ \A j \in 1 .. small : down[j] = b[(small - j) + 1]
  BY DownwardsType
<1>2. Len(b) \in Nat /\ DOMAIN b = 1 .. Len(b) /\ i \in 1 .. Len(b)
  BY LenProperties
<1>3. Len(down) = small
  <2>1. DOMAIN down = 1 .. Len(down) /\ Len(down) \in Nat
    BY <1>1, LenProperties
  <2> HIDE DEF down, small
  <2> QED BY <1>1, <1>2, <2>1
<1>4. 1 .. i \subseteq T
  <2> SUFFICES ASSUME NEW j \in 1 .. i PROVE j \in DOMAIN b /\ b[j].key <= length
    BY DEF SmallOnes
  <2>1. j \in DOMAIN b /\ (j < i \/ j = i)
    BY <1>2
  <2>2. b[j].key <= b[i].key /\ b[j].key \in Nat /\ b[i].key \in Nat
    BY <2>1
  <2> QED BY <2>1, <2>2
<1>5. i <= small
  <2>1. T \subseteq 1 .. Len(b)
    BY <1>2 DEF SmallOnes
  <2>2. IsFiniteSet(1 .. Len(b))
    BY <1>2, FS_Interval
  <2>3. Cardinality(1 .. i) = i
    <3>1. Cardinality(1 .. i) = IF 1 > i THEN 0 ELSE (i - 1) + 1
      BY <1>2, FS_Interval
    <3> QED BY <1>2, <3>1
  <2> HIDE DEF T
  <2>4. IsFiniteSet(T)
    BY <2>1, <2>2, FS_Subset
  <2>5. Cardinality(1 .. i) <= Cardinality(T)
    BY <1>4, <2>4, FS_Subset
  <2>6. small = Cardinality(T)
    BY SameFill
  <2> QED BY <2>3, <2>5, <2>6
<1> DEFINE k == (small - i) + 1
<1>6. k \in 1 .. small /\ (small - k) + 1 = i
  <2> HIDE DEF small
  <2> QED BY <1>1, <1>2, <1>5
<1>7. down[k] = b[i]
  <2>1. down[k] = b[(small - k) + 1]
    <3> HIDE DEF down, small, k
    <3> QED BY <1>1, <1>6
  <2> QED BY <1>6, <2>1
<1> HIDE DEF down, small, k
<1>8. \E x \in 1 .. Len(down) : down[x] = b[i]
  BY <1>3, <1>6, <1>7
<1> QED BY <1>8 DEF down

(* The candidate loop has found something.                                 *)
Some(st) == st.rvs # <<>> \/ st.known # <<>>

(* The candidate loop when nothing is found: no file so far will do.       *)
Nothing(st, d, lcn, length, down, k) ==
  /\ st = [rvs |-> <<>>, length |-> length, known |-> <<>>]
  /\ \A j \in 1 .. k : down[j].key > length \/ Fill!InFront(d, down[j].file, lcn)

(* The loop passes over no file that would do, and keeps what it finds.    *)
LEMMA ConsiderFinds ==
  ASSUME NEW sz, NEW d, NEW S, Sized(sz, d, S), NEW length \in Nat, length # 0,
         NEW st \in Search(S), SearchSum(sz, S, length, st), NEW lcn,
         NEW down \in Seq(S), NEW k \in 1 .. Len(down),
         Some(st) \/ Nothing(st, d, lcn, length, down, k - 1)
  PROVE  LET t == Fill!Consider(st, d, lcn, down[k])
         IN  Some(t) \/ Nothing(t, d, lcn, length, down, k)
<1> DEFINE e == down[k]
           t == Fill!Consider(st, d, lcn, e)
<1>0. e \in S /\ DOMAIN down = 1 .. Len(down) /\ Len(down) \in Nat
  BY LenProperties
<1>1. /\ e.file \in Files /\ e.key = sz[e.file] /\ d[e.file].clusters = sz[e.file]
      /\ sz[e.file] \in Nat
  BY <1>0 DEF Sized
<1> HIDE DEF e
<1>2. /\ st.rvs \in Seq(Files) /\ st.known \in Seq(S) /\ DOMAIN st = {"rvs", "length", "known"}
      /\ st.length \in Nat
  BY DEF Search, SearchSum
<1>3. Append(st.rvs, e.file) # <<>>
  <2> DEFINE rv == st.rvs
             f == e.file
  <2>1. rv \in Seq(Files) /\ f \in Files
    BY <1>1, <1>2
  <2> HIDE DEF rv, f
  <2>2. Append(rv, f) # <<>>
    BY <2>1, AppendProperties
  <2> QED BY <2>2 DEF rv, f
<1>4. Fill!KnownInsert(st.known, d, e) # <<>>
  BY <1>0, <1>2, KnownInsertType
<1> DEFINE taken == [st EXCEPT !.rvs = Append(@, e.file), !.length = @ - d[e.file].clusters]
           kept  == [st EXCEPT !.known = Fill!KnownInsert(@, d, e)]
<1>5. taken.rvs = Append(st.rvs, e.file) /\ kept.known = Fill!KnownInsert(st.known, d, e)
  BY <1>2
<1>6. \/ t = st /\ (st.length = 0 \/ e.key > st.length \/ Fill!InFront(d, e.file, lcn))
      \/ t = taken
      \/ t = kept
      \/ t = st /\ ~(st.length >= d[e.file].clusters) /\ ~(e.key > st.length)
  BY DEF Fill!Consider
<1>7. ~(~(st.length >= d[e.file].clusters) /\ ~(e.key > st.length))
  BY <1>1, <1>2
<1>8. CASE t = taken
  BY <1>3, <1>5, <1>8 DEF Some, e
<1>9. CASE t = kept
  BY <1>4, <1>5, <1>9 DEF Some, e
<1>10. CASE t = st /\ (st.length = 0 \/ e.key > st.length \/ Fill!InFront(d, e.file, lcn))
  <2>1. CASE Some(st)
    BY <1>10, <2>1 DEF e
  <2>2. CASE Nothing(st, d, lcn, length, down, k - 1)
    <3>1. st.length = length
      BY <2>2 DEF Nothing
    <3>2. e.key > length \/ Fill!InFront(d, e.file, lcn)
      BY <1>10, <3>1
    <3>3. \A j \in 1 .. k : j \in 1 .. (k - 1) \/ j = k
      BY <1>0
    <3> QED BY <1>10, <2>2, <3>2, <3>3 DEF Nothing, e
  <2> QED BY <2>1, <2>2
<1> QED BY <1>6, <1>7, <1>8, <1>9, <1>10

(* If the loop comes out empty, no file in the index would do.             *)
LEMMA CandidatesFind ==
  ASSUME NEW sz, NEW d, NEW S, Sized(sz, d, S), NEW length \in Nat, length # 0,
         NEW b \in Seq(S), NEW lcn
  PROVE  \/ Some(Fill!Candidates(b, d, lcn, length))
         \/ Nothing(Fill!Candidates(b, d, lcn, length), d, lcn, length,
                    Downwards(b, length), Len(Downwards(b, length)))
<1> DEFINE down == Downwards(b, length)
           n == Len(down)
<1>1. OfFiles(b) /\ (\A f \in Files : d[f].clusters \in Int) /\ length \in Int
  BY LenProperties DEF OfFiles, Sized
<1>2. PICK h \in [0 .. n -> Search(S)] : SearchTrace(h, b, d, lcn, length)
  BY <1>1, CandidatesSteps
<1>3. down \in Seq(S)
  BY <1>1, CandidatesSteps
<1>4. /\ h[0] = [rvs |-> <<>>, length |-> length, known |-> <<>>]
      /\ \A k \in 1 .. n : h[k] = Fill!Consider(h[k - 1], d, lcn, down[k])
      /\ h[n] = Fill!Candidates(b, d, lcn, length)
  BY <1>2 DEF SearchTrace
<1>5. n \in Nat
  BY <1>3, LenProperties
<1> HIDE DEF down, n
<1> DEFINE Good(k) == /\ SearchSum(sz, S, length, h[k])
                      /\ Some(h[k]) \/ Nothing(h[k], d, lcn, length, down, k)
           Bad == { k \in 0 .. n : ~Good(k) }
<1>6. Good(0)
  <2>1. SumsTo(sz, <<>>, 0)
    BY NoSum
  <2>2. length - length = 0
    OBVIOUS
  <2>3. h[0].rvs = <<>> /\ h[0].length = length /\ h[0].known = <<>>
    BY <1>4
  <2>4. SearchSum(sz, S, length, h[0])
    <3>1. <<>> \in Seq({ e \in S : e.key <= length })
      OBVIOUS
    <3> QED BY <2>1, <2>2, <2>3, <3>1 DEF SearchSum
  <2>5. Nothing(h[0], d, lcn, length, down, 0)
    BY <1>4 DEF Nothing
  <2> QED BY <2>4, <2>5
<1>7. ASSUME NEW k \in 1 .. n, Good(k - 1) PROVE Good(k)
  <2>1. k - 1 \in 0 .. n /\ k \in 0 .. n /\ k \in 1 .. Len(down)
    BY <1>5 DEF n
  <2>2. h[k - 1] \in Search(S) /\ down[k] \in S
    BY <1>2, <1>3, <2>1, LenProperties
  <2>3. h[k] = Fill!Consider(h[k - 1], d, lcn, down[k])
    BY <1>4
  <2>4. SearchSum(sz, S, length, h[k])
    BY <1>7, <2>2, <2>3, ConsiderSum
  <2>5. Some(h[k]) \/ Nothing(h[k], d, lcn, length, down, k)
    BY <1>3, <1>7, <2>1, <2>2, <2>3, ConsiderFinds
  <2> QED BY <2>4, <2>5
<1> HIDE DEF Good
<1>8. Bad = {}
  <2>1. SUFFICES ASSUME Bad # {} PROVE FALSE
    OBVIOUS
  <2>2. Bad \subseteq Nat
    BY <1>5
  <2>3. PICK k \in Bad : \A j \in Bad : k <= j
    <3> HIDE DEF Bad
    <3> QED BY <2>1, <2>2, LeastNumber
  <2>4. k \in 0 .. n /\ ~Good(k)
    OBVIOUS
  <2>5. k # 0
    BY <1>6, <2>4
  <2>6. k - 1 \in 0 .. n /\ k \in 1 .. n /\ ~(k <= k - 1)
    BY <1>5, <2>4, <2>5
  <2>7. Good(k - 1)
    BY <2>3, <2>6
  <2> QED BY <1>7, <2>4, <2>6, <2>7
<1>9. Good(n)
  BY <1>5, <1>8
<1> QED BY <1>4, <1>9 DEF Good, n, down

(* findBest that may fill a part of the gap comes back with nothing only   *)
(* if every file behind the gap is too large for it.                       *)
LEMMA NothingFits ==
  ASSUME NEW sz, NEW d, NEW S, Sized(sz, d, S), NEW length \in Nat, length # 0,
         NEW b \in Seq(S), NEW lcn, \A f \in Files : sz[f] # 0,
         \A i, j \in DOMAIN b : i < j => b[i].key <= b[j].key,
         Fill!Best(b, d, lcn, length, TRUE) = <<>>,
         NEW i \in DOMAIN b
  PROVE  b[i].key > length \/ Fill!InFront(d, b[i].file, lcn)
<1> DEFINE perfect == Fill!PerfectFits(b, d, lcn, length)
           st == Fill!Candidates(b, d, lcn, length)
           far == Fill!Farthest(b, d, perfect)
           down == Downwards(b, length)
<1>1. /\ SearchSum(sz, S, length, st) /\ st \in Search(S)
      /\ Some(st) \/ Nothing(st, d, lcn, length, down, Len(down))
  BY CandidatesSum, CandidatesFind
<1>2. Fill!Best(b, d, lcn, length, TRUE) =
        IF perfect # {} THEN <<b[far].file>>
        ELSE IF st.length = 0 THEN st.rvs ELSE Fill!FillRest(st, d, TRUE)
  BY DEF Fill!Best
<1> HIDE DEF perfect, far, st
<1>3. IF st.length = 0 THEN st.rvs = <<>> ELSE Fill!FillRest(st, d, TRUE) = <<>>
  <2>1. <<b[far].file>> # <<>>
    OBVIOUS
  <2> QED BY <1>2, <2>1
<1>4. st.length # 0
  <2> SUFFICES ASSUME st.length = 0 PROVE FALSE
    OBVIOUS
  <2>1. SumsTo(sz, <<>>, length) /\ sz \in [Files -> Nat]
    <3>1. SumsTo(sz, st.rvs, length - st.length)
      BY <1>1 DEF SearchSum
    <3>2. length - st.length = length
      OBVIOUS
    <3> QED BY <1>3, <3>1, <3>2 DEF Sized
  <2>2. <<>> \in Seq(Files) /\ SumsTo(sz, <<>>, 0)
    BY NoSum
  <2>3. length = 0
    BY <2>1, <2>2, SumUnique
  <2> QED BY <2>3
<1>5. st.rvs = <<>> /\ \A j \in DOMAIN st.known : st.known[j].key = 0
  BY <1>1, <1>3, <1>4, RestSum
<1>6. st.known = <<>>
  <2> SUFFICES ASSUME st.known # <<>> PROVE FALSE
    OBVIOUS
  <2>1. st.known \in Seq(S)
    BY <1>1 DEF Search
  <2>2. 1 \in DOMAIN st.known /\ st.known[1] \in S
    BY <2>1, LenProperties
  <2>3. st.known[1].key = 0
    BY <1>5, <2>2
  <2>4. st.known[1].file \in Files /\ st.known[1].key = sz[st.known[1].file]
    BY <2>2 DEF Sized
  <2> QED BY <2>3, <2>4
<1>7. \A j \in 1 .. Len(down) : down[j].key > length \/ Fill!InFront(d, down[j].file, lcn)
  BY <1>1, <1>5, <1>6 DEF Some, Nothing
<1>8. OfFiles(b) /\ \A j \in DOMAIN b : b[j].key \in Nat
  BY LenProperties DEF OfFiles, Sized
<1> SUFFICES ASSUME ~(b[i].key > length) PROVE Fill!InFront(d, b[i].file, lcn)
  OBVIOUS
<1>9. b[i].key <= length /\ b[i].key \in Nat
  BY <1>8
<1>10. \E k \in 1 .. Len(down) : down[k] = b[i]
  BY <1>8, <1>9, SmallConsidered
<1> QED BY <1>7, <1>9, <1>10

(* A gap of the volume that leaves close_gaps nothing to do: it is too     *)
(* large to be touched, or every file behind it is larger.                 *)
Handled(l) ==
  \A f \in Files :
     LET n == Gaps!RunEnd(Free, l) - l
     IN  (opts.aggressive \/ n <= opts.maxSize) /\ Lowest(f) > l => Len(disk[f]) > n

(* Every region of the table is a whole gap of the volume.                 *)
RunsOnly(s, F) ==
  \A k \in DOMAIN s.regions :
     /\ k \in Gaps!RunStarts(F)
     /\ Gaps!Region(s, k) = [lcn |-> k, length |-> Gaps!RunEnd(F, k) - k]

(* The table has every gap of the volume.                                  *)
Whole == RunsOnly(ge, Free) /\ DOMAIN ge.regions = Gaps!RunStarts(Free)

(* ... but for those that are dealt with.                                  *)
Accounted == RunsOnly(ge, Free) /\ \A l \in Gaps!RunStarts(Free) \ DOMAIN ge.regions : Handled(l)

AllHandled == \A l \in Gaps!RunStarts(Free) : Handled(l)

(* A round of close_gaps in which nothing has been moved yet: the gaps it  *)
(* has taken from the table are dealt with.                                *)
RoundInv ==
  term = 0 /\ opts.gaps =>
    /\ pc = "run" /\ replaced => Whole
    /\ pc = "defrag" => opts.defrag \/ (queue = <<>> /\ Whole)
    /\ pc \in Moving \cup {"return"} /\ mv.by = "defrag" => opts.defrag
    /\ pc \in {"gaps", "widen", "set"} /\ ~replaced => Accounted
    /\ pc = "set" /\ ~replaced => files # <<>>
    /\ pc = "widen" /\ gap.partialOK =>
         Fill!Best(fe.buckets, disp, NextGap.lcn, NextGap.length, TRUE) = <<>>
    /\ pc = "done" \/ (pc = "run" /\ ~replaced) => AllHandled

(* After a scan.                                                           *)
LEMMA ScanWhole ==
  ASSUME NEW s, NEW F
  PROVE  /\ RunsOnly(Gaps!Scanned(s, F), F)
         /\ DOMAIN Gaps!Scanned(s, F).regions = Gaps!RunStarts(F)
BY DEF RunsOnly, Gaps!Scanned, Gaps!Region

(* A scan finds every gap of the volume.                                   *)
LEMMA ScannedWhole ==
  ASSUME NEW s, ge' = Gaps!Scanned(s, Free), disk' = disk
  PROVE  Whole'
<1>1. Free' = Free
  BY SameFree
<1>2. RunsOnly(ge', Free) /\ DOMAIN ge'.regions = Gaps!RunStarts(Free)
  BY ScanWhole
<1>3. RunsOnly(ge', Free') /\ DOMAIN ge'.regions = Gaps!RunStarts(Free')
  BY <1>1, <1>2
<1> QED BY <1>3 DEF Whole

(* Where the volume stays as it is.                                        *)
LEMMA SameGaps ==
  ASSUME disk' = disk, opts' = opts
  PROVE  /\ AllHandled => AllHandled'
         /\ ge' = ge => (Whole => Whole') /\ (Accounted => Accounted')
<1>1. Free' = Free /\ \A f \in Files : Lowest(f)' = Lowest(f)
  BY SameFree DEF Lowest
<1>2. ASSUME NEW l, Handled(l) PROVE Handled(l)'
  BY <1>1, <1>2 DEF Handled
<1>3. AllHandled => AllHandled'
  BY <1>1, <1>2 DEF AllHandled
<1>4. ASSUME ge' = ge, Whole PROVE Whole'
  BY <1>1, <1>4 DEF Whole
<1>5. ASSUME ge' = ge, Accounted PROVE Accounted'
  BY <1>1, <1>2, <1>5 DEF Accounted
<1> QED BY <1>3, <1>4, <1>5

(* The gap at the head of the table is dealt with, and taken out.          *)
LEMMA PopAccounted ==
  ASSUME TableGood(ge), DOMAIN ge.regions # {}, Accounted, Handled(Head1), NEW F,
         ge' = Gaps!PopBlock(ge, NextGap, F), disk' = disk, opts' = opts
  PROVE  Accounted'
<1>1. Free' = Free /\ \A f \in Files : Lowest(f)' = Lowest(f)
  BY SameFree DEF Lowest
<1>2. \A l : Handled(l) => Handled(l)'
  BY <1>1 DEF Handled
<1>3. Head1 \in DOMAIN ge.regions /\ NextGap = Gaps!Region(ge, Head1)
  BY FirstRegion DEF NextGap
<1>4. NextGap.lcn = Head1 /\ TableShape(ge)
  BY <1>3, BehindRegion, GoodShape
<1> DEFINE t == [ge EXCEPT !.sizes = @ \ {Gaps!SizesEntry(ge, Head1)},
                           !.regions = [k \in DOMAIN @ \ {Head1} |-> @[k]]]
           n == NextGap.length
<1>5. n \in Nat
  BY <1>3, BehindRegion, WordAssumption DEF GP!Run
<1>6. ge' = t
  <2>1. Gaps!Region(ge, NextGap.lcn).length = n /\ ~(n > n) /\ ~(n < n)
    BY <1>3, <1>4, <1>5
  <2> QED BY <1>3, <1>4, <2>1 DEF Gaps!PopBlock
<1>7. /\ DOMAIN ge'.regions = DOMAIN ge.regions \ {Head1} /\ ge'.list = ge.list
      /\ \A k \in DOMAIN ge.regions \ {Head1} : ge'.regions[k] = ge.regions[k]
  BY <1>4, <1>6 DEF TableShape
<1>8. RunsOnly(ge', Free')
  BY <1>1, <1>7 DEF Accounted, RunsOnly, Gaps!Region
<1>9. ASSUME NEW l \in Gaps!RunStarts(Free') \ DOMAIN ge'.regions PROVE Handled(l)'
  <2>1. l \in Gaps!RunStarts(Free) /\ (l = Head1 \/ l \notin DOMAIN ge.regions)
    BY <1>1, <1>7
  <2>2. Handled(l)
    BY <2>1 DEF Accounted
  <2> QED BY <1>2, <2>2
<1> QED BY <1>8, <1>9 DEF Accounted

(* Why a gap is dealt with: it is too large, or findBest found nothing for *)
(* it, not even for a part.                                                *)
LEMMA GapHandled ==
  ASSUME KnownInv, FilesInv, pc \notin Moving \cup {"crash"},
         TableGood(ge), DOMAIN ge.regions # {}, RunsOnly(ge, Free), opts \in Options,
         TooLarge \/ Fill!Best(fe.buckets, disp, NextGap.lcn, NextGap.length, TRUE) = <<>>
  PROVE  Handled(Head1)
<1> DEFINE n == NextGap.length
           l == NextGap.lcn
           b == fe.buckets
           S == { e \in [key : Nat, file : Files] : e.key = LengthOf[e.file] }
<1>1. /\ NextGap \in GP!Run /\ Head1 \in DOMAIN ge.regions
  BY FirstRegion
<1>2. /\ NextGap = [lcn |-> Head1, length |-> Gaps!RunEnd(Free, Head1) - Head1]
  BY <1>1 DEF RunsOnly, NextGap
<1>3. /\ l = Head1 /\ n = Gaps!RunEnd(Free, Head1) - Head1
  BY <1>2
<1>4. l \in Nat /\ n \in Nat /\ n # 0
  BY <1>1, WordAssumption DEF GP!Run, GP!Cluster
<1> SUFFICES ASSUME NEW f \in Files, opts.aggressive \/ n <= opts.maxSize, Lowest(f) > l
             PROVE  Len(disk[f]) > n
  BY <1>3 DEF Handled
<1>5. /\ Kept(b, disp, Files) /\ LengthOf \in [Files -> Nat]
      /\ \A g \in Files : disp[g].clusters = Len(disk[g]) /\ disp[g].clusters \in 1 .. Clusters
  BY BlockMaps
<1>6. /\ b \in Seq([key : Nat, file : Files])
      /\ \A i, j \in DOMAIN b : i < j => b[i].key <= b[j].key
      /\ \A i \in DOMAIN b : b[i].file \in Files /\ b[i].key = disp[b[i].file].clusters
      /\ \A g \in Files : \E i \in DOMAIN b : b[i].file = g
  <2> HIDE DEF b
  <2> QED BY <1>5, KeptFacts
<1>7. \A g \in Files : disp[g].clusters = LengthOf[g] /\ LengthOf[g] # 0
  BY <1>5 DEF LengthOf
<1>8. b \in Seq(S)
  <2>1. /\ Len(b) \in Nat /\ DOMAIN b = 1 .. Len(b) /\ b = [i \in 1 .. Len(b) |-> b[i]]
        /\ \A i \in 1 .. Len(b) : b[i] \in [key : Nat, file : Files]
    <3>1. b \in Seq([key : Nat, file : Files])
      BY <1>6
    <3> HIDE DEF b
    <3> QED BY <3>1, LenProperties
  <2>2. \A i \in 1 .. Len(b) : b[i] \in S
    BY <1>6, <1>7, <2>1
  <2>3. b \in [1 .. Len(b) -> S]
    <3> HIDE DEF S, b
    <3> QED BY <2>1, <2>2
  <2> HIDE DEF S, b
  <2> QED BY <2>1, <2>3, SeqDef
<1>9. Sized(LengthOf, disp, S)
  BY <1>5, <1>7 DEF Sized
<1>10. PICK i \in DOMAIN b : b[i].file = f
  BY <1>6
<1>11. ~TooLarge
  <2>1. n <= opts.maxSize => ~(n > opts.maxSize)
    BY <1>4, OptionsAssumption
  <2> QED BY <2>1 DEF TooLarge
<1>12. Fill!Best(b, disp, l, n, TRUE) = <<>>
  BY <1>11
<1>13. \A g \in Files : LengthOf[g] # 0
  BY <1>7
<1> HIDE DEF S, b, n, l
<1>14. b[i].key > n \/ Fill!InFront(disp, b[i].file, l)
  BY <1>4, <1>6, <1>8, <1>9, <1>12, <1>13, NothingFits
<1>15. disp[f] = Order(Dump(disk[f])) /\ disk[f] # <<>> /\ DiskInv
  BY DEF FilesInv, KnownInv, FiledInv, Moving
<1>16. HeadLcn(disp[f]) = Lowest(f) /\ Lowest(f) \in Nat
  BY <1>15, HeadIsLowest
<1>17. ~Fill!InFront(disp, f, l)
  <2>1. ~(HeadLcn(disp[f]) <= l)
    BY <1>4, <1>16
  <2> QED BY <2>1 DEF Fill!InFront, Fill!HeadLcn, HeadLcn
<1>18. b[i].key = Len(disk[f])
  BY <1>5, <1>6, <1>10
<1> QED BY <1>10, <1>14, <1>17, <1>18

(* The steps that scan.                                                    *)
LEMMA ScanningRound ==
  ASSUME KnownInv, WorkInv, SoundInv, SafeInv, ~opts.widen, RoundInv, opts \in Options,
         Scanning(Free), disk' = disk, term' = term, opts' = opts
  PROVE  RoundInv'
<1>0. FilesInv /\ SpaceInv
  BY DEF SafeInv
<1> SUFFICES ASSUME term = 0, opts.gaps
             PROVE  RoundInv'
  BY DEF RoundInv
<1>1. CASE Run(Free)
  <2>1. pc = "run" /\ pc' \in {"done", "defrag"} /\ replaced' = replaced
    BY <1>1 DEF Run
  <2>2. CASE ~replaced
    <3>1. pc' = "done" /\ AllHandled
      BY <1>1, <2>1, <2>2 DEF Run, RoundInv
    <3>2. AllHandled'
      BY <3>1, SameGaps
    <3> QED BY <2>1, <2>2, <3>1, <3>2 DEF RoundInv, Moving
  <2>3. CASE replaced
    <3>1. /\ pc' = "defrag" /\ ge' = ge /\ Whole
          /\ queue' = IF opts.defrag THEN Fragmented ELSE <<>>
      BY <1>1, <2>1, <2>3 DEF Run, RoundInv
    <3>2. Whole'
      BY <3>1, SameGaps
    <3> QED BY <3>1, <3>2 DEF RoundInv, Moving
  <2> QED BY <2>2, <2>3
<1>2. CASE DefragEnd(Free)
  <2>1. /\ pc = "defrag" /\ replaced' = FALSE /\ pc' = "gaps"
        /\ ge' = IF opts.defrag THEN Gaps!Scanned(ge, Free) ELSE ge
    BY <1>2 DEF DefragEnd
  <2>2. Whole'
    <3>1. CASE opts.defrag
      BY <2>1, <3>1, ScannedWhole
    <3>2. CASE ~opts.defrag
      <4>1. Whole /\ ge' = ge
        BY <2>1, <3>2 DEF RoundInv
      <4> QED BY <4>1, SameGaps
    <3> QED BY <3>1, <3>2
  <2>3. Accounted'
    BY <2>2 DEF Whole, Accounted
  <2> QED BY <2>1, <2>3 DEF RoundInv, Moving
<1>3. CASE GapsEnd(Free)
  <2>1. /\ pc = "gaps" /\ DOMAIN ge.regions = {} /\ pc' = "run" /\ replaced' = replaced
        /\ ge' = Gaps!Scanned(ge, Free)
    BY <1>3 DEF GapsEnd
  <2>2. Whole'
    BY <2>1, ScannedWhole
  <2>3. ~replaced => AllHandled'
    <3>1. ~replaced => AllHandled
      BY <2>1 DEF RoundInv, Accounted, AllHandled
    <3> QED BY <3>1, SameGaps
  <2> QED BY <2>1, <2>2, <2>3 DEF RoundInv, Moving
<1>4. CASE WidenEnd(Free)
  <2>1. /\ pc = "widen" /\ replaced' = replaced /\ Widened(widen.moved > 0, Free)
    BY <1>4 DEF WidenEnd
  <2>2. /\ TableGood(ge) /\ DOMAIN ge.regions # {} /\ gap.freed = FALSE
        /\ gap.g = ge.regions[Head1]
    BY <1>0, <2>1 DEF SpaceInv, SoundInv, WorkInv
  <2>3. AtGap = {NextGap}
    BY <2>2 DEF AtGap, NextGap, Gaps!Region
  <2>4. CASE pc' = "gaps" /\ ge' = ge
    <3>1. ~replaced => Accounted'
      BY <2>1, <2>4, SameGaps DEF RoundInv
    <3> QED BY <2>1, <2>4, <3>1 DEF RoundInv, Moving
  <2>5. CASE /\ gap.partialOK
             /\ \E region \in AtGap : ge' = Gaps!PopBlock(ge, region, Free)
             /\ Goto("gaps", ge')
    <3>1. ge' = Gaps!PopBlock(ge, NextGap, Free)
      BY <2>3, <2>5
    <3>2. Fill!Best(fe.buckets, disp, NextGap.lcn, NextGap.length, TRUE) = <<>>
      BY <2>1, <2>5 DEF RoundInv
    <3>3. ~replaced => Accounted'
      <4> SUFFICES ASSUME ~replaced PROVE Accounted'
        OBVIOUS
      <4>1. Accounted /\ RunsOnly(ge, Free)
        BY <2>1 DEF RoundInv, Accounted
      <4>2. Handled(Head1)
        BY <1>0, <2>1, <2>2, <3>2, <4>1, GapHandled DEF Moving
      <4> QED BY <2>2, <3>1, <4>1, <4>2, PopAccounted
    <3>4. pc' \in {"gaps", "crash"}
      BY <2>5 DEF Goto
    <3> QED BY <2>1, <3>3, <3>4 DEF RoundInv, Moving
  <2> QED BY <2>1, <2>4, <2>5 DEF Widened
<1>5. ~ThrowToScan(Free) /\ ~ThrowToWiden(Free)
  BY <1>0 DEF SpaceInv, ThrowToScan, ThrowToWiden
<1> QED BY <1>1, <1>2, <1>3, <1>4, <1>5 DEF Scanning

(* The steps between two calls into the file system.                       *)
LEMMA InternalRound ==
  ASSUME KnownInv, WorkInv, SoundInv, SafeInv, ~opts.widen, RoundInv, opts \in Options,
         Internal, disk' = disk, term' = term, opts' = opts
  PROVE  RoundInv'
<1>0. FilesInv /\ SpaceInv /\ DOMAIN gap = {"g", "partialOK", "freed"} /\ gap.partialOK \in BOOLEAN
  BY DEF SafeInv, SpaceInv, WorkInv
<1> SUFFICES ASSUME term = 0, opts.gaps
             PROVE  RoundInv'
  BY DEF RoundInv
<1>1. CASE DefragFile
  <2>1. pc = "defrag" /\ queue # <<>> /\ opts.defrag
    BY <1>1 DEF DefragFile, RoundInv
  <2>2. pc' \in {"defrag", "open", "return"}
    BY <1>1, <2>1 DEF DefragFile, MoveFile
  <2> QED BY <2>1, <2>2 DEF RoundInv, Moving
<1>2. CASE SkipGap
  <2>1. /\ pc = "gaps" /\ DOMAIN ge.regions # {} /\ TooLarge /\ replaced' = replaced
        /\ ge' = Gaps!PopBlock(ge, NextGap, Free) /\ pc' \in {"gaps", "crash"}
    BY <1>2 DEF SkipGap, AnotherGap, Goto
  <2>2. TableGood(ge)
    BY <2>1 DEF SoundInv
  <2>3. ~replaced => Accounted'
    <3> SUFFICES ASSUME ~replaced PROVE Accounted'
      OBVIOUS
    <3>1. Accounted /\ RunsOnly(ge, Free)
      BY <2>1 DEF RoundInv, Accounted
    <3>2. Handled(Head1)
      BY <1>0, <2>1, <2>2, <3>1, GapHandled DEF Moving
    <3> QED BY <2>1, <2>2, <3>1, <3>2, PopAccounted
  <2> QED BY <2>1, <2>3 DEF RoundInv, Moving
<1>3. CASE FindBestCrashes
  BY <1>3 DEF FindBestCrashes, RoundInv, Moving
<1>4. CASE FillGap
  <2>1. /\ pc = "gaps" /\ ge' = ge /\ fe' = fe /\ disp' = disp /\ replaced' = replaced
        /\ files' = Fill!Best(fe.buckets, disp, NextGap.lcn, NextGap.length, gap.partialOK)
        /\ gap' = [gap EXCEPT !.g = ge.regions[Head1], !.freed = FALSE]
        /\ pc' = IF files' # <<>> THEN "set" ELSE "widen"
    BY <1>4 DEF FillGap, AnotherGap
  <2>2. gap'.partialOK = gap.partialOK /\ NextGap' = NextGap
    BY <1>0, <2>1 DEF NextGap, Head1
  <2>3. ~replaced => Accounted'
    BY <2>1, SameGaps DEF RoundInv
  <2>4. pc' = "widen" /\ gap'.partialOK =>
          Fill!Best(fe'.buckets, disp', NextGap'.lcn, NextGap'.length, TRUE) = <<>>
    <3> SUFFICES ASSUME pc' = "widen", gap.partialOK
                 PROVE  Fill!Best(fe.buckets, disp, NextGap.lcn, NextGap.length, TRUE) = <<>>
      BY <2>1, <2>2
    <3>1. gap.partialOK = TRUE /\ files' = <<>>
      BY <1>0, <2>1
    <3> QED BY <2>1, <3>1
  <2> QED BY <2>1, <2>3, <2>4 DEF RoundInv, Moving
<1>5. CASE SetFile
  <2>1. pc' \in {"open", "return"} /\ mv'.by = "set"
    BY <1>5 DEF SetFile, MoveFile
  <2> QED BY <2>1 DEF RoundInv, Moving
<1>6. CASE SetEnd
  <2>1. pc = "set" /\ files = <<>> /\ pc' = "gaps" /\ replaced' = replaced
    BY <1>6 DEF SetEnd
  <2>2. replaced
    BY <2>1 DEF RoundInv
  <2> QED BY <2>1, <2>2 DEF RoundInv, Moving
<1>7. ~WidenFile
  BY DEF WidenFile, WidenOn
<1>8. CASE Return
  <2>1. pc = "return" /\ mv.by \in {"defrag", "set"} /\ replaced' = TRUE
    BY <1>8 DEF Return, WorkInv
  <2>2. CASE mv.by = "defrag"
    <3>1. pc' = "defrag" /\ opts.defrag
      BY <1>8, <2>1, <2>2 DEF Return, RoundInv
    <3> QED BY <2>1, <3>1 DEF RoundInv, Moving
  <2>3. CASE mv.by = "set"
    <3>1. pc' = "set"
      BY <1>8, <2>3 DEF Return
    <3> QED BY <2>1, <3>1 DEF RoundInv, Moving
  <2> QED BY <2>1, <2>2, <2>3
<1> QED BY <1>1, <1>2, <1>3, <1>4, <1>5, <1>6, <1>7, <1>8 DEF Internal

(* Every step, with a bitmap that can always be read.                      *)
LEMMA NextRound ==
  ASSUME Clusters <= MaxChunk, Faults = 0, BlindScans = 0,
         KnownInv, WorkInv, SoundInv, SafeInv, SafeInv', ~opts.widen, RoundInv,
         opts \in Options, opts' = opts, [Next]_vars
  PROVE  RoundInv'
<1>0. /\ bound.scans \in 0 .. BlindScans /\ bound.meddling = 0
      /\ DOMAIN bound = {"meddling", "faults", "scans"}
      /\ DOMAIN mv = {"f", "target", "left", "status", "by"}
  BY DEF SafeInv, SpaceInv, KnownInv, FiledInv, HandInv
<1>1. ~Spend("scans") /\ ~Spend("meddling")
  BY <1>0 DEF Spend
<1>2. CASE Internal /\ UNCHANGED <<disk, term, bound>>
  BY <1>2, InternalRound
<1>3. CASE Scanning(Free) /\ UNCHANGED <<disk, term, bound>>
  BY <1>3, ScanningRound
<1>4. CASE OpenFile
  <2>1. pc = "open" /\ pc' \in {"move", "throw"} /\ mv' = mv /\ term' = term
    BY <1>4 DEF OpenFile
  <2> QED BY <2>1 DEF RoundInv, Moving
<1>5. CASE MoveClusters
  <2>1. pc = "move" /\ pc' \in {"dump", "crash"} /\ mv'.by = mv.by /\ term' = term
    BY <1>0, <1>5 DEF MoveClusters, Goto
  <2> QED BY <2>1 DEF RoundInv, Moving
<1>6. CASE DumpFile
  <2>1. pc = "dump" /\ term' = term /\ mv.f \in Files /\ mv.status = "success"
    BY <1>6 DEF DumpFile, WorkInv, SafeInv, SpaceInv, Moving
  <2>2. FiledInv /\ \E F \in {Free, {}} : DumpStep(F)
    BY <1>6, <2>1, DumpSteps DEF KnownInv
  <2>3. pc' \in {"return", "crash"} /\ mv'.by = mv.by
    BY <1>0, <2>2 DEF DumpStep, Goto
  <2> QED BY <2>1, <2>3 DEF RoundInv, Moving
<1>7. CASE UNCHANGED <<disk, bound, program>> /\ (term' = 0 => term = 0)
  <2>1. /\ disk' = disk /\ disp' = disp /\ fe' = fe /\ ge' = ge /\ pc' = pc
        /\ queue' = queue /\ gap' = gap /\ files' = files /\ mv' = mv /\ replaced' = replaced
    BY <1>7 DEF program
  <2>2. (AllHandled => AllHandled') /\ (Whole => Whole') /\ (Accounted => Accounted')
    BY <2>1, SameGaps
  <2>3. NextGap' = NextGap
    BY <2>1 DEF NextGap, Head1
  <2> QED BY <1>7, <2>1, <2>2, <2>3 DEF RoundInv
<1>8. ASSUME NEW f \in Files, Shrink(f) \/ \E c \in Cluster : Grow(f, c)
      PROVE  FALSE
  BY <1>1, <1>8 DEF Shrink, Grow
<1>9. CASE Program
  BY <1>1, <1>2, <1>3, <1>4, <1>5, <1>6, <1>9 DEF Program
<1> QED BY <1>7, <1>8, <1>9 DEF Next, CtrlC, Finished, vars

(* NothingLeft: alone on the volume, without --widen, and with a bitmap    *)
(* that can always be read, the program ends of its own accord only when   *)
(* every gap it may handle (op.cpp 251) has no file behind it that would   *)
(* fit, on a volume of any size and with any number of files.              *)
THEOREM EndsWhenNothingIsLeft ==
  ASSUME Clusters <= MaxChunk, Meddling = 0, Faults = 0, BlindScans = 0, Memory
  PROVE  Spec => [](~opts.widen => NothingLeft)
<1> DEFINE Inv == AloneInv /\ opts \in Options /\ (~opts.widen => RoundInv)
<1>1. Init => AloneInv
  BY InitKnown, InitSound, InitFiles, InitQueue, InitSpace DEF AloneInv, SafeInv
<1>2. Init => Inv
  <2> SUFFICES ASSUME Init PROVE Inv
    OBVIOUS
  <2>1. pc = "run" /\ replaced = TRUE /\ ge = Gaps!Scanned(Gaps!Empty, Free) /\ opts \in Options
    BY DEF Init
  <2>2. Whole
    <3>1. /\ RunsOnly(Gaps!Scanned(Gaps!Empty, Free), Free)
          /\ DOMAIN Gaps!Scanned(Gaps!Empty, Free).regions = Gaps!RunStarts(Free)
      BY ScanWhole
    <3> QED BY <2>1, <3>1 DEF Whole
  <2>3. RoundInv
    BY <2>1, <2>2 DEF RoundInv, Moving
  <2> QED BY <1>1, <2>1, <2>3
<1>3. Inv /\ AloneInv' /\ [Next]_vars => Inv'
  <2> SUFFICES ASSUME Inv, AloneInv', [Next]_vars PROVE Inv'
    OBVIOUS
  <2>1. opts' = opts
    BY SameOptions
  <2>2. CASE opts.widen
    BY <2>1, <2>2
  <2>3. CASE ~opts.widen
    <3>1. KnownInv /\ WorkInv /\ SoundInv /\ SafeInv /\ SafeInv' /\ RoundInv /\ opts \in Options
      BY <2>1, <2>3 DEF AloneInv
    <3>2. RoundInv'
      BY <2>1, <2>3, <3>1, NextRound
    <3> QED BY <2>1, <3>2
  <2> QED BY <2>2, <2>3
<1>4. Inv => (~opts.widen => NothingLeft)
  BY DEF RoundInv, AllHandled, Handled, NothingLeft
<1>5. Spec => []AloneInv
  BY AloneInvariant
<1> QED BY <1>2, <1>3, <1>4, <1>5, PTL DEF Spec

(* One file more.                                                          *)
Total1(sum, f) == sum + disp[f].clusters

(* GapFilling's total is the sum of the files' sizes.                      *)
LEMMA TotalSum ==
  ASSUME NEW sz \in [Files -> Nat], \A f \in Files : disp[f].clusters = sz[f],
         NEW fs \in Seq(Files)
  PROVE  SumsTo(sz, fs, GF!Total(fs))
<1> DEFINE n == Len(fs)
           A == Int
           base == 0
           step == [i \in 1 .. n |-> [b \in A |-> Total1(b, fs[i])]]
           Sol(it) == [s \in SUBSET (1 .. n) |->
                         IF s = {} THEN base ELSE Total1(it[s \ {Max(s)}], fs[Max(s)])]
           g == CHOOSE it : it = Sol(it)
<1>1. n \in Nat /\ DOMAIN fs = 1 .. n /\ \A i \in 1 .. n : fs[i] \in Files
  BY LenProperties
<1>2. GF!Total(fs) = g[1 .. n]
  <2>1. GF!Total(fs) =
          (CHOOSE it : it = [s \in SUBSET DOMAIN fs |->
                               IF s = {} THEN base ELSE Total1(it[s \ {Max(s)}], fs[Max(s)])])
            [DOMAIN fs]
    BY DEF GF!Total, GF!FoldLeft, GF!MapThenFoldSet, GF!Max, Max, Total1
  <2> QED BY <1>1, <2>1
<1>3. base \in A /\ \A i \in 1 .. n, b \in A : Total1(b, fs[i]) \in A
  BY <1>1 DEF Total1
<1>4. base \in A /\ step \in [1 .. n -> [A -> A]]
  BY <1>3
<1>5. \A i \in 1 .. n, b \in A : step[i][b] = Total1(b, fs[i])
  OBVIOUS
<1> HIDE DEF step
<1>6. \A s \in SUBSET (1 .. n) : s # {} => Max(s) \in 1 .. n
  BY <1>1, MaxOfSet
<1>7. \E it : it = Sol(it)
  <2>1. PICK h \in [SUBSET (1 .. n) -> A] : FoldEquation(h, n, base, step)
    <3> HIDE DEF A, base, n
    <3> QED BY <1>1, <1>4, FoldExists
  <2>2. ASSUME NEW s \in SUBSET (1 .. n)
        PROVE  h[s] = IF s = {} THEN base ELSE Total1(h[s \ {Max(s)}], fs[Max(s)])
    <3>1. CASE s = {}
      BY <2>1, <3>1 DEF FoldEquation
    <3>2. CASE s # {}
      <4>1. s \ {Max(s)} \in SUBSET (1 .. n) /\ h[s \ {Max(s)}] \in A
        BY <2>1
      <4> HIDE DEF A, base
      <4> QED BY <1>5, <1>6, <2>1, <3>2, <4>1 DEF FoldEquation
    <3> QED BY <3>1, <3>2
  <2>3. h = Sol(h)
    BY <2>1, <2>2
  <2> QED BY <2>3
<1>8. g = Sol(g)
  <2> HIDE DEF Sol
  <2> QED BY <1>7
<1> HIDE DEF g
<1>9. FoldWithin(g, n, A, base, step)
  <2>1. g[{}] = base
    BY <1>8
  <2>2. ASSUME NEW s \in SUBSET (1 .. n), s # {}, g[s \ {Max(s)}] \in A
        PROVE  g[s] = step[Max(s)][g[s \ {Max(s)}]]
    <3>1. g[s] = Total1(g[s \ {Max(s)}], fs[Max(s)])
      BY <1>8, <2>2
    <3> QED BY <1>5, <1>6, <2>2, <3>1
  <2> QED BY <2>1, <2>2 DEF FoldWithin
<1>10. PICK h \in [0 .. n -> A] : StepByStep(h, n, base, step, g[1 .. n])
  <2>0. n \in Nat
    BY <1>1
  <2> HIDE DEF A, base, n
  <2> QED BY <1>4, <1>9, <2>0, FoldSteps
<1>11. /\ h[0] = base /\ h[n] = g[1 .. n]
       /\ \A k \in 1 .. n : h[k] = step[k][h[k - 1]]
  BY <1>10 DEF StepByStep
<1>12. ASSUME NEW k \in 1 .. n PROVE h[k] = h[k - 1] + sz[fs[k]]
  <2>1. k - 1 \in 0 .. n
    BY <1>1
  <2>2. h[k - 1] \in A
    BY <1>10, <2>1
  <2>3. h[k] = Total1(h[k - 1], fs[k])
    <3> HIDE DEF A, base, n
    <3> QED BY <1>5, <1>11, <2>2
  <2> QED BY <1>1, <2>3 DEF Total1
<1> QED BY <1>2, <1>10, <1>11, <1>12 DEF SumsTo

(* NeverOverfills, for move_set: whenever it is about to move a file       *)
(* (op.cpp 119-133), the files it has still to move fit into what is left  *)
(* of the gap, and without partialOK fill it to the last cluster -         *)
(* whatever mix of greedy choice and knapsack has named them.  It checks   *)
(* neither itself.                                                         *)
THEOREM GapsAreNeverOverfilled ==
  ASSUME Clusters <= MaxChunk, Meddling = 0, Faults = 0, Memory
  PROVE  Spec => [](~opts.widen /\ pc = "set" => GF!NeverOverfills)
<1>1. AloneInv => (~opts.widen /\ pc = "set" => GF!NeverOverfills)
  <2> SUFFICES ASSUME AloneInv, ~opts.widen, pc = "set"
               PROVE  /\ GF!Total(files) <= r.length
                      /\ ~gap.partialOK /\ files # <<>> => GF!Total(files) = r.length
    BY DEF GF!NeverOverfills
  <2>1. /\ KnownInv /\ FilesInv /\ SpaceInv /\ files \in Seq(Files)
        /\ pc \notin Moving \cup {"crash"}
    BY DEF AloneInv, SafeInv, WorkInv, Moving
  <2>2. FillInv
    BY <2>1 DEF SpaceInv, Filling
  <2>3. r.length \in Nat
    BY <2>2 DEF FillInv
  <2>4. PICK m \in 0 .. r.length : SumsTo(LengthOf, files, m) /\ (gap.partialOK \/ m = r.length)
    BY <2>2 DEF FillInv, FitsIn
  <2>5. LengthOf \in [Files -> Nat] /\ \A f \in Files : disp[f].clusters = LengthOf[f]
    BY <2>1, BlockMaps DEF LengthOf
  <2>6. SumsTo(LengthOf, files, GF!Total(files))
    BY <2>1, <2>5, TotalSum
  <2>7. GF!Total(files) = m
    BY <2>1, <2>4, <2>5, <2>6, SumUnique
  <2> QED BY <2>3, <2>4, <2>7
<1> QED BY <1>1, AloneInvariant, PTL
=============================================================================
