----------------------- MODULE FileEnumerationProofs -----------------------
(***************************************************************************)
(* Proofs about FileEnumeration: for any number of files, wherever they    *)
(* lie and whatever they become.                                           *)
(***************************************************************************)
EXTENDS FileEnumeration, SequenceLemmas, FiniteSetTheorems

(* What the program knows of a file that has just been dumped.             *)
LEMMA DumpIsExact ==
  ASSUME NEW p \in Seq(Nat)
  PROVE  /\ Order(Dump(p)) \in Disp
         /\ BlockCells(Order(Dump(p))) = ClustersOf(p)
         /\ p # <<>> => Order(Dump(p)).blockmap # <<>>
<1> DEFINE d == Dump(p)
<1>1. /\ RetrievalPointers(p) \in Seq(Block)
      /\ p # <<>> => RetrievalPointers(p) # <<>>
      /\ CellsOf(RetrievalPointers(p)) = ClustersOf(p)
  BY RetrievalPointersExact DEF ToSet, ClustersOf
<1>2. d \in Disp /\ d.blockmap = RetrievalPointers(p)
  BY <1>1, LenProperties DEF Dump, Disp
<1>3. BlockCells(d) = ClustersOf(p)
  BY <1>1, <1>2 DEF BlockCells, CellsOf
<1> HIDE DEF d
<1>4. /\ Order(d) \in Disp
      /\ BlockCells(Order(d)) = BlockCells(d)
      /\ d.blockmap # <<>> => Order(d).blockmap # <<>>
  BY <1>2, OrderKeepsBlocks DEF BlockCells, CellsOf
<1> QED BY <1>1, <1>2, <1>3, <1>4 DEF d

(* A block's first cluster is one of its clusters.                         *)
LEMMA LcnsAreCells ==
  ASSUME NEW d \in Disp
  PROVE  BlockLcns(d) \subseteq BlockCells(d) /\ BlockLcns(d) \subseteq Nat
<1>1. d.blockmap \in Seq(Block) /\ \A i \in DOMAIN d.blockmap : d.blockmap[i] \in Block
  BY LenProperties DEF Disp
<1>2. \A b \in Block : b.lcn \in Nat /\ b.lcn \in b.lcn .. (b.lcn + b.length - 1)
  BY DEF Block
<1> QED BY <1>1, <1>2 DEF BlockLcns, BlockCells

-----------------------------------------------------------------------------
(* The buckets.                                                            *)
Elem == [key : Nat, file : Files]

Sorted(b) == \A i, j \in DOMAIN b : i < j => b[i].key <= b[j].key

(* A new element goes behind those with keys that are not greater.         *)
LEMMA InsertSorted ==
  ASSUME NEW b \in Seq(Elem), NEW key \in Nat, NEW f \in Files
  PROVE  /\ BucketInsert(b, key, f) \in Seq(Elem)
         /\ \E k \in 1 .. (Len(b) + 1) :
               Inserted(BucketInsert(b, key, f), b, k, [key |-> key, file |-> f])
         /\ Sorted(b) => Sorted(BucketInsert(b, key, f))
<1> DEFINE n == Len(b)
           T == { i \in DOMAIN b : b[i].key <= key }
           m == Cardinality(T)
           e == [key |-> key, file |-> f]
           t == InsertAt(b, 1 + m, e)
<1>1. n \in Nat /\ DOMAIN b = 1 .. n /\ (\A i \in 1 .. n : b[i] \in Elem)
  BY LenProperties
<1>2. BucketInsert(b, key, f) = t
  BY DEF BucketInsert
<1>3. e \in Elem /\ e.key = key
  BY DEF Elem
<1>4. m \in 0 .. n
  <2>1. IsFiniteSet(1 .. n) /\ Cardinality(1 .. n) = n
    <3>1. IsFiniteSet(1 .. n) /\ Cardinality(1 .. n) = IF 1 > n THEN 0 ELSE (n - 1) + 1
      BY <1>1, FS_Interval
    <3> QED BY <1>1, <3>1
  <2>2. T \subseteq 1 .. n
    BY <1>1
  <2>3. IsFiniteSet(T) /\ Cardinality(T) <= n
    <3> HIDE DEF T, n
    <3> QED BY <2>1, <2>2, FS_Subset
  <2>4. Cardinality(T) \in Nat
    <3> HIDE DEF T
    <3> QED BY <2>3, FS_CardinalityType
  <2> HIDE DEF T
  <2> QED BY <1>1, <2>3, <2>4
<1>5. m \in Int /\ 1 + m \in 1 .. (n + 1)
  BY <1>1, <1>4
<1>6. ASSUME Sorted(b), NEW i \in 1 .. n PROVE i <= m <=> b[i].key <= key
  <2>1. CASE T = {}
    <3>1. m = 0
      BY <2>1, FS_EmptySet
    <3>2. i \in Int /\ ~(i <= 0) /\ i \in DOMAIN b
      BY <1>1
    <3> QED BY <2>1, <3>1, <3>2
  <2>2. CASE T # {}
    <3>1. T \subseteq 0 .. n
      BY <1>1
    <3>2. PICK x \in T : \A y \in T : y <= x
      <4> HIDE DEF T, n
      <4> QED BY <1>1, <2>2, <3>1, GreatestNumber
    <3>3. x \in 1 .. n /\ b[x].key <= key
      BY <1>1
    <3>4. \A j \in 1 .. x : j \in T
      <4> SUFFICES ASSUME NEW j \in 1 .. x PROVE b[j].key <= key /\ j \in 1 .. n
        BY <1>1
      <4>1. j \in 1 .. n /\ (j < x \/ j = x)
        BY <1>1, <3>3
      <4>2. b[j].key \in Nat /\ b[x].key \in Nat
        BY <1>1, <3>3, <4>1 DEF Elem
      <4>3. CASE j < x
        <5>1. b[j].key <= b[x].key
          BY <1>1, <1>6, <3>3, <4>1, <4>3 DEF Sorted
        <5> QED BY <3>3, <4>1, <4>2, <5>1
      <4>4. CASE j = x
        BY <3>3, <4>4
      <4> QED BY <4>1, <4>3, <4>4
    <3>5. T = 1 .. x
      <4>1. \A y \in T : y \in 1 .. x
        BY <1>1, <3>2, <3>3
      <4> HIDE DEF T
      <4> QED BY <3>4, <4>1
    <3>6. m = x
      <4>1. Cardinality(1 .. x) = IF 1 > x THEN 0 ELSE (x - 1) + 1
        <5>1. x \in Int
          BY <3>3
        <5> QED BY <5>1, FS_Interval
      <4>2. ~(1 > x) /\ (x - 1) + 1 = x
        BY <3>3
      <4> HIDE DEF T
      <4>3. Cardinality(T) = x
        BY <3>5, <4>1, <4>2
      <4> QED BY <4>3
    <3>7. i <= x <=> i \in T
      <4>1. i \in Int /\ x \in Int /\ i >= 1
        BY <3>3
      <4> HIDE DEF T
      <4> QED BY <3>5, <4>1
    <3>8. i \in T <=> b[i].key <= key
      BY <1>1
    <3> HIDE DEF T, m
    <3> QED BY <3>6, <3>7, <3>8
  <2> QED BY <2>1, <2>2
<1> HIDE DEF m, e
<1>7. /\ t \in Seq(Elem)
      /\ DOMAIN t = 1 .. (n + 1)
      /\ \A i \in 1 .. (n + 1) :
            t[i] = IF i < 1 + m THEN b[i] ELSE IF i = 1 + m THEN e ELSE b[i - 1]
  BY <1>3, <1>5, InsertAtProperties
<1> HIDE DEF t
<1>8. ASSUME Sorted(b) PROVE Sorted(t)
  <2> SUFFICES ASSUME NEW i \in 1 .. (n + 1), NEW j \in 1 .. (n + 1), i < j
               PROVE  t[i].key <= t[j].key
    BY <1>7 DEF Sorted
  <2>1. i \in Int /\ j \in Int
    OBVIOUS
  <2>2. CASE j < 1 + m
    <3>1. i < 1 + m /\ i \in 1 .. n /\ j \in 1 .. n
      BY <1>1, <1>5, <2>1, <2>2, <1>4
    <3>2. t[i] = b[i] /\ t[j] = b[j]
      BY <1>7, <2>2, <3>1
    <3> QED BY <1>1, <1>8, <3>1, <3>2 DEF Sorted
  <2>3. CASE j = 1 + m
    <3>1. i < 1 + m /\ i \in 1 .. n /\ i <= m
      BY <1>1, <1>4, <1>5, <2>1, <2>3
    <3>2. t[i] = b[i] /\ t[j] = e
      BY <1>7, <2>3, <3>1
    <3>3. b[i].key <= key
      BY <1>6, <1>8, <3>1
    <3> QED BY <1>3, <3>2, <3>3
  <2>4. CASE j > 1 + m
    <3>1. j - 1 \in 1 .. n /\ ~(j < 1 + m) /\ j # 1 + m /\ ~(j - 1 <= m)
      BY <1>1, <1>4, <1>5, <2>1, <2>4
    <3>2. t[j] = b[j - 1] /\ b[j - 1].key \in Nat /\ ~(b[j - 1].key <= key)
      <4>1. t[j] = b[j - 1]
        BY <1>7, <3>1
      <4>2. b[j - 1].key \in Nat
        BY <1>1, <3>1 DEF Elem
      <4>3. ~(b[j - 1].key <= key)
        BY <1>6, <1>8, <3>1
      <4> QED BY <4>1, <4>2, <4>3
    <3>3. CASE i < 1 + m
      <4>1. i \in 1 .. n /\ i < j - 1 /\ t[i] = b[i]
        BY <1>1, <1>4, <1>5, <1>7, <2>1, <2>4, <3>3
      <4> QED BY <1>1, <1>8, <3>1, <3>2, <4>1 DEF Sorted
    <3>4. CASE i = 1 + m
      <4>1. t[i] = e
        BY <1>7, <3>4
      <4> QED BY <1>3, <3>2, <4>1
    <3>5. CASE i > 1 + m
      <4>1. i - 1 \in 1 .. n /\ i - 1 < j - 1 /\ ~(i < 1 + m) /\ i # 1 + m
        BY <1>1, <1>4, <1>5, <2>1, <3>5
      <4>2. t[i] = b[i - 1]
        BY <1>7, <4>1
      <4> QED BY <1>1, <1>8, <3>1, <3>2, <4>1, <4>2 DEF Sorted
    <3> QED BY <1>5, <2>1, <3>3, <3>4, <3>5
  <2> QED BY <1>5, <2>1, <2>2, <2>3, <2>4
<1>9. Inserted(t, b, 1 + m, e)
  BY <1>7 DEF Inserted
<1> QED BY <1>2, <1>5, <1>7, <1>8, <1>9 DEF e

(* The buckets hold the files F, each once and under its size, in order.   *)
Keeps(b, dd, F) ==
  /\ b \in Seq(Elem)
  /\ Sorted(b)
  /\ \A i \in DOMAIN b : b[i].file \in F /\ b[i].key = dd[b[i].file].clusters
  /\ \A i, j \in DOMAIN b : b[i].file = b[j].file => i = j
  /\ \A f \in F : \E i \in DOMAIN b : b[i].file = f

(* push puts in a file that is not there.                                  *)
LEMMA PushKeeps ==
  ASSUME NEW b, NEW dd \in [Files -> Disp], NEW F \in SUBSET Files, Keeps(b, dd, F),
         NEW f \in Files, f \notin F
  PROVE  Keeps(BucketInsert(b, dd[f].clusters, f), dd, F \cup {f})
<1> DEFINE n == Len(b)
           t == BucketInsert(b, dd[f].clusters, f)
           e == [key |-> dd[f].clusters, file |-> f]
<1>1. b \in Seq(Elem) /\ Sorted(b)
  BY DEF Keeps
<1>2. n \in Nat /\ DOMAIN b = 1 .. n
  BY <1>1, LenProperties
<1>3. dd[f].clusters \in Nat
  BY DEF Disp
<1>4. t \in Seq(Elem) /\ Sorted(t) /\ \E k \in 1 .. (n + 1) : Inserted(t, b, k, e)
  BY <1>1, <1>3, InsertSorted
<1>5. PICK k \in 1 .. (n + 1) : Inserted(t, b, k, e)
  BY <1>4
<1>6. e.file = f /\ e.key = dd[f].clusters
  OBVIOUS
<1> HIDE DEF t, e
<1> DEFINE old(i) == IF i < k THEN i ELSE i - 1
           new(j) == IF j < k THEN j ELSE j + 1
<1>7. DOMAIN t = 1 .. (n + 1) /\ k \in Int
  BY <1>5 DEF Inserted
<1>8. ASSUME NEW i \in 1 .. (n + 1), i # k
      PROVE  old(i) \in DOMAIN b /\ t[i] = b[old(i)]
  <2>1. old(i) \in 1 .. n
    BY <1>2, <1>8
  <2>2. t[i] = b[old(i)]
    BY <1>5, <1>8 DEF Inserted
  <2> QED BY <1>2, <2>1, <2>2
<1>9. t[k] = e
  BY <1>5, <1>7 DEF Inserted
<1>10. ASSUME NEW j \in 1 .. n
       PROVE  new(j) \in DOMAIN t /\ t[new(j)] = b[j]
  <2>1. new(j) \in 1 .. (n + 1) /\ new(j) # k /\ old(new(j)) = j
    BY <1>2, <1>7
  <2> HIDE DEF new, old
  <2> QED BY <1>7, <1>8, <2>1
<1>11. \A i, j \in 1 .. (n + 1) : i # k /\ j # k /\ old(i) = old(j) => i = j
  BY <1>2, <1>7
<1> HIDE DEF old, new
<1>12. \A i \in DOMAIN b : b[i].file \in F /\ b[i].key = dd[b[i].file].clusters
  BY DEF Keeps
<1>13. ASSUME NEW i \in DOMAIN t
       PROVE  t[i].file \in F \cup {f} /\ t[i].key = dd[t[i].file].clusters
  <2>1. CASE i = k
    BY <1>6, <1>9, <2>1
  <2>2. CASE i # k
    BY <1>7, <1>8, <1>12, <2>2
  <2> QED BY <2>1, <2>2
<1>14. ASSUME NEW i \in DOMAIN t, NEW j \in DOMAIN t, t[i].file = t[j].file
       PROVE  i = j
  <2>1. CASE i = k /\ j = k
    BY <2>1
  <2>2. CASE i = k /\ j # k
    BY <1>6, <1>7, <1>8, <1>9, <1>12, <1>14, <2>2
  <2>3. CASE i # k /\ j = k
    BY <1>6, <1>7, <1>8, <1>9, <1>12, <1>14, <2>3
  <2>4. CASE i # k /\ j # k
    <3>1. /\ old(i) \in DOMAIN b /\ t[i] = b[old(i)]
          /\ old(j) \in DOMAIN b /\ t[j] = b[old(j)]
      BY <1>7, <1>8, <2>4
    <3>2. old(i) = old(j)
      BY <1>14, <3>1 DEF Keeps
    <3> QED BY <1>7, <1>11, <2>4, <3>2
  <2> QED BY <2>1, <2>2, <2>3, <2>4
<1>15. ASSUME NEW x \in F \cup {f} PROVE \E i \in DOMAIN t : t[i].file = x
  <2>1. CASE x = f
    BY <1>6, <1>7, <1>9, <2>1
  <2>2. CASE x \in F
    <3>1. PICK j \in DOMAIN b : b[j].file = x
      BY <2>2 DEF Keeps
    <3> QED BY <1>2, <1>10, <3>1
  <2> QED BY <2>1, <2>2
<1> QED BY <1>4, <1>13, <1>14, <1>15 DEF Keeps, t

(* pop finds the file's only element and takes it out.                     *)
LEMMA PopKeeps ==
  ASSUME NEW b, NEW dd \in [Files -> Disp], NEW F \in SUBSET Files, Keeps(b, dd, F),
         NEW f \in F, NEW k,
         k = CHOOSE x \in { i \in DOMAIN b : b[i] = [key |-> dd[f].clusters, file |-> f] } :
                \A j \in { i \in DOMAIN b : b[i] = [key |-> dd[f].clusters, file |-> f] } :
                   x <= j
  PROVE  /\ { i \in DOMAIN b : b[i] = [key |-> dd[f].clusters, file |-> f] } # {}
         /\ Keeps(RemoveAt(b, k), dd, F \ {f})
<1> DEFINE n == Len(b)
           e == [key |-> dd[f].clusters, file |-> f]
           at == { i \in DOMAIN b : b[i] = e }
           t == RemoveAt(b, k)
<1>1. b \in Seq(Elem) /\ Sorted(b)
  BY DEF Keeps
<1>2. n \in Nat /\ DOMAIN b = 1 .. n /\ \A i \in DOMAIN b : b[i] \in Elem
  BY <1>1, LenProperties
<1>3. PICK i0 \in DOMAIN b : b[i0].file = f
  BY DEF Keeps
<1>4. b[i0] = e
  <2>1. b[i0].key = dd[f].clusters /\ b[i0] \in Elem
    BY <1>2, <1>3 DEF Keeps
  <2> QED BY <1>3, <2>1 DEF Elem
<1>5. i0 \in at /\ \A i \in at : i = i0
  BY <1>3, <1>4 DEF Keeps
<1>6. i0 \in Int
  BY <1>2, <1>3
<1>7. k \in at
  <2>1. k = CHOOSE i \in at : \A j \in at : i <= j
    OBVIOUS
  <2>2. \A j \in at : i0 <= j
    <3> HIDE DEF at
    <3> QED BY <1>5, <1>6
  <2> HIDE DEF at
  <2>3. \E i \in at : \A j \in at : i <= j
    BY <1>5, <2>2
  <2> QED BY <2>1, <2>3
<1>8. k \in 1 .. n /\ b[k].file = f
  BY <1>2, <1>7
<1>9. /\ t \in Seq(Elem)
      /\ DOMAIN t = 1 .. (n - 1)
      /\ \A i \in 1 .. (n - 1) : t[i] = IF i < k THEN b[i] ELSE b[i + 1]
  BY <1>1, <1>8, RemoveAtProperties
<1> DEFINE old(i) == IF i < k THEN i ELSE i + 1
           new(j) == IF j < k THEN j ELSE j - 1
<1> HIDE DEF t, at
<1>10. ASSUME NEW i \in DOMAIN t
       PROVE  old(i) \in DOMAIN b /\ old(i) # k /\ t[i] = b[old(i)]
  <2>0. k \in 1 .. n /\ i \in 1 .. (n - 1) /\ n \in Nat
    BY <1>2, <1>8, <1>9
  <2>1. old(i) \in 1 .. n /\ old(i) # k
    <3>1. \A m \in Nat : \A a \in 1 .. m, c \in 1 .. (m - 1) :
            /\ c < a => c \in 1 .. m /\ c # a
            /\ ~(c < a) => c + 1 \in 1 .. m /\ c + 1 # a
      OBVIOUS
    <3> HIDE DEF n
    <3>2. /\ i < k => i \in 1 .. n /\ i # k
          /\ ~(i < k) => i + 1 \in 1 .. n /\ i + 1 # k
      BY <2>0, <3>1
    <3> QED BY <3>2
  <2>2. t[i] = b[old(i)]
    BY <1>9
  <2> QED BY <1>2, <2>1, <2>2
<1>11. ASSUME NEW j \in DOMAIN b, j # k
       PROVE  new(j) \in DOMAIN t /\ t[new(j)] = b[j]
  <2>1. new(j) \in 1 .. (n - 1) /\ old(new(j)) = j
    BY <1>2, <1>8, <1>11
  <2> HIDE DEF new, old
  <2> QED BY <1>9, <1>10, <2>1
<1>12. \A i, j \in DOMAIN t : (i < j => old(i) < old(j)) /\ (old(i) = old(j) => i = j)
  BY <1>2, <1>8, <1>9
<1> HIDE DEF old, new
<1>13. ASSUME NEW i \in DOMAIN t
       PROVE  t[i].file \in F \ {f} /\ t[i].key = dd[t[i].file].clusters
  <2>1. b[old(i)].file \in F /\ b[old(i)].key = dd[b[old(i)].file].clusters
    BY <1>10 DEF Keeps
  <2>2. b[old(i)].file # f
    BY <1>2, <1>8, <1>10 DEF Keeps
  <2> QED BY <1>10, <2>1, <2>2
<1>14. ASSUME NEW i \in DOMAIN t, NEW j \in DOMAIN t, t[i].file = t[j].file
       PROVE  i = j
  BY <1>10, <1>12, <1>14 DEF Keeps
<1>15. Sorted(t)
  BY <1>1, <1>10, <1>12 DEF Sorted
<1>16. ASSUME NEW x \in F \ {f} PROVE \E i \in DOMAIN t : t[i].file = x
  <2>1. PICK j \in DOMAIN b : b[j].file = x
    BY DEF Keeps
  <2> QED BY <1>8, <1>11, <2>1
<1> QED BY <1>5, <1>9, <1>13, <1>14, <1>15, <1>16 DEF Keeps, t, at

(* What becomes of a file that is not in the buckets does not concern them.*)
LEMMA DumpKeeps ==
  ASSUME NEW b, NEW dd \in [Files -> Disp], NEW F \in SUBSET Files, Keeps(b, dd, F),
         NEW f, f \notin F, NEW d
  PROVE  Keeps(b, [dd EXCEPT ![f] = d], F)
<1> DEFINE de == [dd EXCEPT ![f] = d]
<1>1. \A g \in F : de[g] = dd[g]
  OBVIOUS
<1> HIDE DEF de
<1>2. \A i \in DOMAIN b : b[i].file \in F /\ b[i].key = de[b[i].file].clusters
  BY <1>1 DEF Keeps
<1> QED BY <1>2 DEF Keeps, de

(* An enumeration of the files has each of them.                           *)
LEMMA EveryFileListed ==
  ASSUME NEW listed \in SetToSeqs(Files)
  PROVE  /\ Cardinality(Files) \in Nat
         /\ listed \in [1 .. Cardinality(Files) -> Files]
         /\ \A i, j \in 1 .. Cardinality(Files) : listed[i] = listed[j] => i = j
         /\ \A f \in Files : \E i \in 1 .. Cardinality(Files) : listed[i] = f
<1> DEFINE n == Cardinality(Files)
<1>1. n \in Nat
  BY FilesAssumption, FS_CardinalityType
<1>2. listed \in [1 .. n -> Files] /\ \A i, j \in 1 .. n : listed[i] = listed[j] => i = j
  BY DEF SetToSeqs
<1>3. ASSUME NEW f \in Files, ~\E i \in 1 .. n : listed[i] = f PROVE FALSE
  <2>1. IsFiniteSet(Files \ {f}) /\ Cardinality(Files \ {f}) = n - 1
    BY FilesAssumption, FS_RemoveElement
  <2>2. IsFiniteSet(1 .. n) /\ Cardinality(1 .. n) = n
    <3>1. IsFiniteSet(1 .. n) /\ Cardinality(1 .. n) = IF 1 > n THEN 0 ELSE (n - 1) + 1
      BY <1>1, FS_Interval
    <3> QED BY <1>1, <3>1
  <2>3. listed \in [1 .. n -> Files \ {f}]
    BY <1>2, <1>3
  <2>4. Cardinality(Files \ {f}) < Cardinality(1 .. n)
    BY <1>1, <2>1, <2>2
  <2>5. \E x, y \in 1 .. n : x # y /\ listed[x] = listed[y]
    <3> HIDE DEF n
    <3> QED BY <2>1, <2>2, <2>3, <2>4, FS_PigeonHole
  <2> QED BY <1>2, <2>5
<1> QED BY <1>1, <1>2, <1>3

(* What scan does with one file of the list.                               *)
Scan1(dd, b, f) == IF dd[f].blockmap = <<>> THEN b ELSE BucketInsert(b, dd[f].clusters, f)

(* scan files every file that has a block map, once and under its size.    *)
LEMMA ScanKeeps ==
  ASSUME NEW dd \in [Files -> Disp], NEW listed \in SetToSeqs(Files)
  PROVE  Keeps(FeScanned(dd, listed).buckets, dd, { f \in Files : dd[f].blockmap # <<>> })
<1> DEFINE n == Cardinality(Files)
           A == Seq(Elem)
           base == <<>>
           step == [i \in 1 .. n |-> [b \in A |-> Scan1(dd, b, listed[i])]]
           Sol(it) == [s \in SUBSET (1 .. n) |->
                         IF s = {} THEN base ELSE Scan1(dd, it[s \ {Max(s)}], listed[Max(s)])]
           g == CHOOSE it : it = Sol(it)
           N(k) == { f \in { listed[i] : i \in 1 .. k } : dd[f].blockmap # <<>> }
<1>1. /\ n \in Nat /\ DOMAIN listed = 1 .. n
      /\ \A i \in 1 .. n : listed[i] \in Files
      /\ \A i, j \in 1 .. n : listed[i] = listed[j] => i = j
      /\ \A f \in Files : \E i \in 1 .. n : listed[i] = f
  BY EveryFileListed
<1> HIDE DEF n
<1>2. FeScanned(dd, listed).buckets = g[1 .. n]
  <2>1. FeScanned(dd, listed).buckets =
          (CHOOSE it : it = [s \in SUBSET DOMAIN listed |->
                               IF s = {} THEN <<>>
                               ELSE Scan1(dd, it[s \ {Max(s)}], listed[Max(s)])])[DOMAIN listed]
    BY DEF FeScanned, FoldLeft, MapThenFoldSet, Scan1
  <2> QED BY <1>1, <2>1
<1>3. \A i \in 1 .. n, b \in A : Scan1(dd, b, listed[i]) \in A
  <2> SUFFICES ASSUME NEW i \in 1 .. n, NEW b \in A PROVE Scan1(dd, b, listed[i]) \in A
    OBVIOUS
  <2>1. listed[i] \in Files /\ dd[listed[i]].clusters \in Nat
    BY <1>1 DEF Disp
  <2>2. BucketInsert(b, dd[listed[i]].clusters, listed[i]) \in A
    BY <2>1, InsertSorted
  <2> QED BY <2>2 DEF Scan1
<1>4. base \in A /\ step \in [1 .. n -> [A -> A]]
  BY <1>3
<1>5. \A i \in 1 .. n, b \in A : step[i][b] = Scan1(dd, b, listed[i])
  OBVIOUS
<1> HIDE DEF step
<1>6. \A s \in SUBSET (1 .. n) : s # {} => Max(s) \in 1 .. n
  BY <1>1, MaxOfSet
<1>7. \E it : it = Sol(it)
  <2>1. PICK h \in [SUBSET (1 .. n) -> A] : FoldEquation(h, n, base, step)
    <3> HIDE DEF A, base
    <3> QED BY <1>1, <1>4, FoldExists
  <2>2. ASSUME NEW s \in SUBSET (1 .. n)
        PROVE  h[s] = IF s = {} THEN base ELSE Scan1(dd, h[s \ {Max(s)}], listed[Max(s)])
    <3>1. CASE s = {}
      BY <2>1, <3>1 DEF FoldEquation
    <3>2. CASE s # {}
      <4>1. s \ {Max(s)} \in SUBSET (1 .. n) /\ h[s \ {Max(s)}] \in A
        BY <2>1
      <4> QED BY <1>5, <1>6, <2>1, <3>2, <4>1 DEF FoldEquation
    <3> QED BY <3>1, <3>2
  <2>3. h = Sol(h)
    BY <2>1, <2>2
  <2> QED BY <2>3
<1>8. g = Sol(g)
  <2> HIDE DEF Sol
  <2> QED BY <1>7
<1> HIDE DEF g
<1>9. FoldWithin(g, n, A, base, step)
  <2>1. g[{}] = base
    BY <1>8
  <2>2. ASSUME NEW s \in SUBSET (1 .. n), s # {}, g[s \ {Max(s)}] \in A
        PROVE  g[s] = step[Max(s)][g[s \ {Max(s)}]]
    <3>1. g[s] = Scan1(dd, g[s \ {Max(s)}], listed[Max(s)])
      BY <1>8, <2>2
    <3> QED BY <1>5, <1>6, <2>2, <3>1
  <2> QED BY <2>1, <2>2 DEF FoldWithin
<1>10. PICK h \in [0 .. n -> A] : StepByStep(h, n, base, step, g[1 .. n])
  <2> HIDE DEF A, base
  <2> QED BY <1>1, <1>4, <1>9, FoldSteps
<1>11. /\ h[0] = <<>> /\ h[n] = g[1 .. n]
       /\ \A k \in 1 .. n : h[k] = step[k][h[k - 1]]
  BY <1>10 DEF StepByStep
<1> DEFINE Bad == { k \in 0 .. n : ~Keeps(h[k], dd, N(k)) }
<1>12. Bad = {}
  <2> SUFFICES ASSUME Bad # {} PROVE FALSE
    OBVIOUS
  <2>1. Bad \subseteq Nat
    BY <1>1
  <2>2. PICK m \in Bad : \A k \in Bad : m <= k
    <3> HIDE DEF Bad
    <3> QED BY <2>1, LeastNumber
  <2>3. m \in 0 .. n
    OBVIOUS
  <2>4. m # 0
    <3>1. <<>> \in Seq(Elem) /\ DOMAIN <<>> = {}
      OBVIOUS
    <3>2. N(0) = {}
      OBVIOUS
    <3>3. Keeps(<<>>, dd, {})
      BY <3>1 DEF Keeps, Sorted
    <3>4. 0 \notin Bad
      BY <1>11, <3>2, <3>3
    <3> HIDE DEF Bad
    <3> QED BY <2>2, <3>4
  <2>5. m \in Int /\ m \in 1 .. n /\ m - 1 \in 0 .. n /\ ~(m <= m - 1)
    BY <1>1, <2>3, <2>4
  <2>6. m - 1 \notin Bad
    <3> HIDE DEF Bad
    <3> QED BY <2>2, <2>5
  <2>7. Keeps(h[m - 1], dd, N(m - 1))
    BY <2>5, <2>6
  <2>8. listed[m] \in Files /\ h[m] = Scan1(dd, h[m - 1], listed[m])
    BY <1>1, <1>5, <1>11, <2>5
  <2>9. 1 .. m = (1 .. (m - 1)) \cup {m} /\ m \notin 1 .. (m - 1)
        /\ 1 .. (m - 1) \subseteq 1 .. n
    <3> HIDE DEF Bad
    <3> QED BY <1>1, <2>5
  <2>10. N(m) = IF dd[listed[m]].blockmap = <<>> THEN N(m - 1) ELSE N(m - 1) \cup {listed[m]}
    <3>1. { listed[i] : i \in 1 .. m } = { listed[i] : i \in 1 .. (m - 1) } \cup {listed[m]}
      BY <2>9
    <3> QED BY <3>1
  <2>11. listed[m] \notin N(m - 1) /\ N(m - 1) \in SUBSET Files
    BY <1>1, <2>5, <2>9
  <2>12. Keeps(h[m], dd, N(m))
    <3> HIDE DEF N, Bad
    <3>1. CASE dd[listed[m]].blockmap = <<>>
      BY <2>7, <2>8, <2>10, <3>1 DEF Scan1
    <3>2. CASE dd[listed[m]].blockmap # <<>>
      <4>1. h[m] = BucketInsert(h[m - 1], dd[listed[m]].clusters, listed[m])
            /\ N(m) = N(m - 1) \cup {listed[m]}
        BY <2>8, <2>10, <3>2 DEF Scan1
      <4>2. Keeps(BucketInsert(h[m - 1], dd[listed[m]].clusters, listed[m]), dd,
                  N(m - 1) \cup {listed[m]})
        <5> DEFINE b == h[m - 1]
                   F == N(m - 1)
        <5>1. Keeps(b, dd, F) /\ F \in SUBSET Files /\ listed[m] \in Files /\ listed[m] \notin F
          BY <2>7, <2>8, <2>11
        <5> HIDE DEF b, F
        <5>2. Keeps(BucketInsert(b, dd[listed[m]].clusters, listed[m]), dd, F \cup {listed[m]})
          BY <5>1, PushKeeps
        <5> QED BY <5>2 DEF b, F
      <4> QED BY <4>1, <4>2
    <3> QED BY <3>1, <3>2
  <2> QED BY <2>2, <2>12
<1>13. n \in 0 .. n
  BY <1>1
<1>14. Keeps(h[n], dd, N(n))
  BY <1>12, <1>13
<1>15. N(n) = { f \in Files : dd[f].blockmap # <<>> }
  BY <1>1
<1> HIDE DEF N
<1> QED BY <1>2, <1>11, <1>14, <1>15

-----------------------------------------------------------------------------
(* The map of the blocks' first clusters.                                  *)
Maps == UNION { [D -> Files] : D \in SUBSET Nat }

Indexes == [buckets : Seq(Elem), lcns : Maps, missed : BOOLEAN]

(* It leads from each first cluster of the files F to its file.            *)
Exact(m, dd, F) ==
  /\ m \in Maps
  /\ DOMAIN m = UNION { BlockLcns(dd[f]) : f \in F }
  /\ \A f \in F : \A l \in BlockLcns(dd[f]) : m[l] = f

FilesApart(dd) ==
  \A f, g \in Files : f # g => BlockCells(dd[f]) \cap BlockCells(dd[g]) = {}

(* Two files have no first cluster in common.                              *)
LEMMA LcnsApart ==
  ASSUME NEW dd \in [Files -> Disp], FilesApart(dd), NEW f \in Files, NEW g \in Files,
         NEW l \in BlockLcns(dd[f]), l \in BlockLcns(dd[g])
  PROVE  f = g
<1>1. l \in BlockCells(dd[f]) /\ l \in BlockCells(dd[g])
  BY LcnsAreCells
<1> QED BY <1>1 DEF FilesApart

(* The insertion of a file's blocks is one of the maps, whatever was there.*)
LEMMA InsertIsMap ==
  ASSUME NEW dd \in [Files -> Disp], NEW m \in Maps, NEW f \in Files
  PROVE  LcnsInsert(m, dd[f], f) \in Maps
<1> DEFINE L == BlockLcns(dd[f])
<1>1. L \subseteq Nat
  BY LcnsAreCells
<1> HIDE DEF L
<1>2. PICK D \in SUBSET Nat : m \in [D -> Files]
  BY DEF Maps
<1>3. LcnsInsert(m, dd[f], f) = [l \in D \cup L |-> IF l \in D THEN m[l] ELSE f]
  BY <1>2 DEF LcnsInsert, L
<1>4. [l \in D \cup L |-> IF l \in D THEN m[l] ELSE f] \in [D \cup L -> Files]
  BY <1>2
<1> QED BY <1>1, <1>3, <1>4 DEF Maps

(* push's insertion of a file's blocks.                                    *)
LEMMA InsertExact ==
  ASSUME NEW dd \in [Files -> Disp], FilesApart(dd), NEW F \in SUBSET Files,
         NEW m, Exact(m, dd, F), NEW f \in Files, f \notin F
  PROVE  Exact(LcnsInsert(m, dd[f], f), dd, F \cup {f})
<1> DEFINE t == LcnsInsert(m, dd[f], f)
<1>1. t \in Maps
  BY InsertIsMap DEF Exact
<1>2. /\ DOMAIN t = DOMAIN m \cup BlockLcns(dd[f])
      /\ \A l \in DOMAIN t : t[l] = IF l \in DOMAIN m THEN m[l] ELSE f
  BY DEF LcnsInsert
<1> HIDE DEF t
<1>3. DOMAIN t = UNION { BlockLcns(dd[g]) : g \in F \cup {f} }
  BY <1>2 DEF Exact
<1>4. ASSUME NEW g \in F \cup {f}, NEW l \in BlockLcns(dd[g]) PROVE t[l] = g
  <2>1. CASE g = f
    <3>1. l \notin DOMAIN m
      <4> SUFFICES ASSUME l \in DOMAIN m PROVE FALSE
        OBVIOUS
      <4>1. PICK x \in F : l \in BlockLcns(dd[x])
        BY DEF Exact
      <4> QED BY <2>1, <4>1, LcnsApart
    <3> QED BY <1>2, <2>1, <3>1
  <2>2. CASE g # f
    <3>1. g \in F /\ l \in DOMAIN m /\ m[l] = g
      BY <2>2 DEF Exact
    <3> QED BY <1>2, <3>1
  <2> QED BY <2>1, <2>2
<1> QED BY <1>1, <1>3, <1>4 DEF Exact, t

(* pop's removal of a file's blocks.                                       *)
LEMMA RemoveExact ==
  ASSUME NEW dd \in [Files -> Disp], FilesApart(dd), NEW F \in SUBSET Files,
         NEW m, Exact(m, dd, F), NEW f \in F
  PROVE  Exact([l \in DOMAIN m \ BlockLcns(dd[f]) |-> m[l]], dd, F \ {f})
<1> DEFINE L == BlockLcns(dd[f])
           t == [l \in DOMAIN m \ L |-> m[l]]
<1>1. t \in Maps
  <2>1. PICK D \in SUBSET Nat : m \in [D -> Files]
    BY DEF Exact, Maps
  <2> HIDE DEF L
  <2>2. t \in [D \ L -> Files] /\ D \ L \in SUBSET Nat
    BY <2>1
  <2> HIDE DEF t
  <2> QED BY <2>2 DEF Maps
<1>2. ASSUME NEW g \in F \ {f}, NEW l \in BlockLcns(dd[g])
      PROVE  l \in DOMAIN m /\ l \notin L /\ m[l] = g
  <2>1. l \notin L
    BY LcnsApart
  <2> QED BY <2>1 DEF Exact
<1>3. DOMAIN t = UNION { BlockLcns(dd[g]) : g \in F \ {f} }
  <2>1. DOMAIN t = DOMAIN m \ L
    OBVIOUS
  <2>2. DOMAIN m = UNION { BlockLcns(dd[g]) : g \in F }
    BY DEF Exact
  <2>3. \A l \in DOMAIN m \ L : \E g \in F \ {f} : l \in BlockLcns(dd[g])
    BY <2>2
  <2> HIDE DEF t
  <2> QED BY <1>2, <2>1, <2>3
<1>4. \A g \in F \ {f} : \A l \in BlockLcns(dd[g]) : t[l] = g
  BY <1>2
<1> HIDE DEF t, L
<1>5. Exact(t, dd, F \ {f})
  BY <1>1, <1>3, <1>4 DEF Exact
<1> QED BY <1>5 DEF t, L

(* findAt builds the map from the buckets.                                 *)
LEMMA BuildExact ==
  ASSUME NEW dd \in [Files -> Disp], FilesApart(dd), NEW F \in SUBSET Files,
         NEW e \in Indexes, DOMAIN e.lcns = {}, Keeps(e.buckets, dd, F)
  PROVE  Exact(FeBuilt(e, dd).lcns, dd, F)
<1> DEFINE m == FeBuilt(e, dd).lcns
           b == e.buckets
           n == Len(b)
           A == Maps
           base == e.lcns
           Put(lcns, i) == LcnsInsert(lcns, dd[b[i].file], b[i].file)
           step == [i \in 1 .. n |-> [lcns \in A |-> Put(lcns, i)]]
           Sol(it) == [s \in SUBSET (1 .. n) |->
                         IF s = {} THEN base ELSE Put(it[s \ {Max(s)}], Max(s))]
           g == CHOOSE it : it = Sol(it)
           N(k) == { b[i].file : i \in 1 .. k }
<1>1. /\ n \in Nat /\ DOMAIN b = 1 .. n
      /\ \A i \in 1 .. n : b[i].file \in F
      /\ \A i, j \in 1 .. n : b[i].file = b[j].file => i = j
      /\ \A f \in F : \E i \in 1 .. n : b[i].file = f
  <2>1. b \in Seq(Elem)
    BY DEF Keeps
  <2>2. n \in Nat /\ DOMAIN b = 1 .. n
    BY <2>1, LenProperties
  <2> HIDE DEF n
  <2> QED BY <2>2 DEF Keeps
<1>2. m = g[1 .. n]
  <2>1. m = (CHOOSE it : it = [s \in SUBSET DOMAIN e.buckets |->
                                 IF s = {} THEN e.lcns
                                 ELSE LcnsInsert(it[s \ {Max(s)}],
                                                 dd[e.buckets[Max(s)].file],
                                                 e.buckets[Max(s)].file)])[DOMAIN e.buckets]
    <3>1. FeBuilt(e, dd) = [e EXCEPT !.lcns =
            (CHOOSE it : it = [s \in SUBSET DOMAIN e.buckets |->
                                 IF s = {} THEN e.lcns
                                 ELSE LcnsInsert(it[s \ {Max(s)}],
                                                 dd[e.buckets[Max(s)].file],
                                                 e.buckets[Max(s)].file)])[DOMAIN e.buckets]]
      BY DEF FeBuilt, FoldLeft, MapThenFoldSet
    <3> QED BY <3>1 DEF Indexes
  <2> QED BY <1>1, <2>1
<1>0. base \in Maps
  BY DEF Indexes
<1> HIDE DEF n, m
<1>3. \A i \in 1 .. n, lcns \in A : Put(lcns, i) \in A
  BY <1>1, InsertIsMap
<1> HIDE DEF Put
<1>4. base \in A /\ step \in [1 .. n -> [A -> A]]
  BY <1>0, <1>3
<1>5. \A i \in 1 .. n, lcns \in A : step[i][lcns] = Put(lcns, i)
  OBVIOUS
<1> HIDE DEF step
<1>6. \A s \in SUBSET (1 .. n) : s # {} => Max(s) \in 1 .. n
  BY <1>1, MaxOfSet
<1>7. \E it : it = Sol(it)
  <2>1. PICK h \in [SUBSET (1 .. n) -> A] : FoldEquation(h, n, base, step)
    <3> HIDE DEF A, base
    <3> QED BY <1>1, <1>4, FoldExists
  <2>2. ASSUME NEW s \in SUBSET (1 .. n)
        PROVE  h[s] = IF s = {} THEN base ELSE Put(h[s \ {Max(s)}], Max(s))
    <3>1. CASE s = {}
      BY <2>1, <3>1 DEF FoldEquation
    <3>2. CASE s # {}
      <4>1. s \ {Max(s)} \in SUBSET (1 .. n) /\ h[s \ {Max(s)}] \in A
        BY <2>1
      <4> QED BY <1>5, <1>6, <2>1, <3>2, <4>1 DEF FoldEquation
    <3> QED BY <3>1, <3>2
  <2>3. h = Sol(h)
    BY <2>1, <2>2
  <2> QED BY <2>3
<1>8. g = Sol(g)
  <2> HIDE DEF Sol
  <2> QED BY <1>7
<1> HIDE DEF g
<1>9. FoldWithin(g, n, A, base, step)
  <2>1. g[{}] = base
    BY <1>8
  <2>2. ASSUME NEW s \in SUBSET (1 .. n), s # {}, g[s \ {Max(s)}] \in A
        PROVE  g[s] = step[Max(s)][g[s \ {Max(s)}]]
    <3>1. g[s] = Put(g[s \ {Max(s)}], Max(s))
      BY <1>8, <2>2
    <3> QED BY <1>5, <1>6, <2>2, <3>1
  <2> QED BY <2>1, <2>2 DEF FoldWithin
<1>10. PICK h \in [0 .. n -> A] : StepByStep(h, n, base, step, g[1 .. n])
  <2> HIDE DEF A, base
  <2> QED BY <1>1, <1>4, <1>9, FoldSteps
<1>11. /\ h[0] = base /\ h[n] = g[1 .. n]
       /\ \A k \in 1 .. n : h[k] = step[k][h[k - 1]]
  BY <1>10 DEF StepByStep
<1> DEFINE Bad == { k \in 0 .. n : ~Exact(h[k], dd, N(k)) }
<1>12. Bad = {}
  <2> SUFFICES ASSUME Bad # {} PROVE FALSE
    OBVIOUS
  <2>1. Bad \subseteq Nat
    BY <1>1
  <2>2. PICK k \in Bad : \A j \in Bad : k <= j
    <3> HIDE DEF Bad
    <3> QED BY <2>1, LeastNumber
  <2>3. k \in 0 .. n
    OBVIOUS
  <2>4. k # 0
    <3>2. N(0) = {}
      OBVIOUS
    <3>3. Exact(base, dd, {})
      BY <1>0 DEF Exact
    <3>4. 0 \notin Bad
      BY <1>11, <3>2, <3>3
    <3> HIDE DEF Bad
    <3> QED BY <2>2, <3>4
  <2>5. k \in Int /\ k \in 1 .. n /\ k - 1 \in 0 .. n /\ ~(k <= k - 1)
    BY <1>1, <2>3, <2>4
  <2>6. k - 1 \notin Bad
    <3> HIDE DEF Bad
    <3> QED BY <2>2, <2>5
  <2>7. Exact(h[k - 1], dd, N(k - 1))
    BY <2>5, <2>6
  <2>8. b[k].file \in F /\ h[k] = Put(h[k - 1], k)
    BY <1>1, <1>5, <1>11, <2>5
  <2>9. 1 .. k = (1 .. (k - 1)) \cup {k} /\ k \notin 1 .. (k - 1)
        /\ 1 .. (k - 1) \subseteq 1 .. n
    <3> HIDE DEF Bad
    <3> QED BY <1>1, <2>5
  <2>10. N(k) = N(k - 1) \cup {b[k].file}
    BY <2>9
  <2>11. b[k].file \notin N(k - 1) /\ N(k - 1) \in SUBSET Files
    BY <1>1, <2>5, <2>9
  <2>12. Exact(h[k], dd, N(k))
    <3> DEFINE x == h[k - 1]
               Fi == N(k - 1)
               f == b[k].file
    <3>1. Exact(x, dd, Fi) /\ f \notin Fi /\ Fi \in SUBSET Files /\ f \in Files
      BY <2>7, <2>8, <2>11
    <3>2. h[k] = LcnsInsert(x, dd[f], f) /\ N(k) = Fi \cup {f}
      BY <2>8, <2>10 DEF Put
    <3> HIDE DEF x, Fi, f, N, Bad
    <3>3. Exact(LcnsInsert(x, dd[f], f), dd, Fi \cup {f})
      BY <3>1, InsertExact
    <3> QED BY <3>2, <3>3
  <2> QED BY <2>2, <2>12
<1>13. n \in 0 .. n
  BY <1>1
<1>14. Exact(h[n], dd, N(n))
  BY <1>12, <1>13
<1>15. N(n) = F
  BY <1>1
<1> HIDE DEF N
<1> QED BY <1>2, <1>11, <1>14, <1>15 DEF m

-----------------------------------------------------------------------------
(* The inductive invariant: the blocks of different files are apart, and   *)
(* both indexes are exact for the files that are not being moved, except   *)
(* that the map may still be to be built.                                  *)
IndexInv ==
  /\ disp \in [Files -> Disp]
  /\ FilesApart(disp)
  /\ out \in Files \cup {NoFile}
  /\ fe \in Indexes
  /\ Keeps(fe.buckets, disp, Files \ {out})
  /\ DOMAIN fe.lcns = {} \/ Exact(fe.lcns, disp, Files \ {out})
  /\ ~fe.missed

(* After scan.                                                             *)
LEMMA InitIndex == Init => IndexInv
<1> SUFFICES ASSUME Init PROVE IndexInv
  OBVIOUS
<1>1. PICK place \in [Files -> Placements \ {<<>>}] :
        /\ Apart(place)
        /\ disp = [f \in Files |-> Order(Dump(place[f]))]
        /\ \E listed \in SetToSeqs(Files) : fe = FeScanned(disp, listed)
        /\ out = NoFile
  BY DEF Init
<1>2. PICK listed \in SetToSeqs(Files) : fe = FeScanned(disp, listed)
  BY <1>1
<1>3. \A f \in Files : place[f] \in Seq(Nat) /\ place[f] # <<>>
  BY <1>1, PlacementsAssumption
<1>4. \A f \in Files : /\ disp[f] \in Disp
                       /\ BlockCells(disp[f]) = ClustersOf(place[f])
                       /\ disp[f].blockmap # <<>>
  <2> SUFFICES ASSUME NEW f \in Files
               PROVE  /\ disp[f] \in Disp
                      /\ BlockCells(disp[f]) = ClustersOf(place[f])
                      /\ disp[f].blockmap # <<>>
    OBVIOUS
  <2>1. disp[f] = Order(Dump(place[f]))
    BY <1>1
  <2> QED BY <1>3, <2>1, DumpIsExact
<1>5. disp \in [Files -> Disp]
  BY <1>1, <1>4
<1>6. FilesApart(disp)
  BY <1>1, <1>4 DEF FilesApart, Apart
<1>7. { f \in Files : disp[f].blockmap # <<>> } = Files \ {out}
  BY <1>1, <1>4, FilesAssumption
<1>8. Keeps(fe.buckets, disp, Files \ {out})
  BY <1>2, <1>5, <1>7, ScanKeeps
<1>9. fe.lcns = [l \in {} |-> NoFile] /\ fe.missed = FALSE
      /\ fe = [buckets |-> fe.buckets, lcns |-> fe.lcns, missed |-> fe.missed]
  BY <1>2 DEF FeScanned
<1>10. DOMAIN fe.lcns = {} /\ fe.lcns \in Maps
  <2>1. [l \in {} |-> NoFile] \in [{} -> Files]
    OBVIOUS
  <2>2. {} \in SUBSET Nat
    OBVIOUS
  <2> QED BY <1>9, <2>1, <2>2 DEF Maps
<1>11. fe \in Indexes
  <2>1. fe.buckets \in Seq(Elem) /\ fe.missed \in BOOLEAN
    BY <1>8, <1>9 DEF Keeps
  <2>2. [buckets |-> fe.buckets, lcns |-> fe.lcns, missed |-> fe.missed] \in Indexes
    BY <1>10, <2>1 DEF Indexes
  <2> QED BY <1>9, <2>2
<1> QED BY <1>1, <1>5, <1>6, <1>8, <1>9, <1>10, <1>11 DEF IndexInv

(* pop takes the file out of both.                                         *)
LEMMA PopIndex ==
  ASSUME IndexInv, NEW f \in Files, Pop(f)
  PROVE  IndexInv'
<1> DEFINE F == Files \ {out}
           e == [key |-> disp[f].clusters, file |-> f]
           at == { i \in DOMAIN fe.buckets : fe.buckets[i] = e }
           k == CHOOSE i \in at : \A j \in at : i <= j
           lc == [l \in DOMAIN fe.lcns \ BlockLcns(disp[f]) |-> fe.lcns[l]]
<1>1. /\ out = NoFile /\ f \in F /\ F \in SUBSET Files
      /\ Files \ {out'} = F \ {f}
      /\ disp' = disp /\ out' = f
  BY FilesAssumption DEF Pop
<1>2. fe' = [buckets |-> IF at = {} THEN fe.buckets ELSE RemoveAt(fe.buckets, k),
             lcns    |-> lc,
             missed  |-> fe.missed \/ at = {}]
  BY DEF Pop, FePop
<1>3. Keeps(fe.buckets, disp, F) /\ disp \in [Files -> Disp] /\ FilesApart(disp)
  BY DEF IndexInv
<1>4. at # {} /\ Keeps(RemoveAt(fe.buckets, k), disp, F \ {f})
  <2> HIDE DEF F
  <2> QED BY <1>1, <1>3, PopKeeps
<1>5. lc \in Maps /\ (DOMAIN lc = {} \/ Exact(lc, disp, F \ {f}))
  <2>1. CASE DOMAIN fe.lcns = {}
    <3>1. DOMAIN lc = {} /\ lc \in [{} -> Files]
      BY <2>1
    <3>2. {} \in SUBSET Nat
      OBVIOUS
    <3> HIDE DEF lc
    <3> QED BY <3>1, <3>2 DEF Maps
  <2>2. CASE Exact(fe.lcns, disp, F)
    <3>1. Exact(lc, disp, F \ {f})
      <4> HIDE DEF F
      <4> QED BY <1>1, <1>3, <2>2, RemoveExact
    <3> QED BY <3>1 DEF Exact
  <2> QED BY <2>1, <2>2 DEF IndexInv
<1> HIDE DEF F, at, k, lc
<1>6. fe' = [buckets |-> RemoveAt(fe.buckets, k), lcns |-> lc, missed |-> fe.missed \/ at = {}]
  BY <1>2, <1>4
<1>7. /\ fe'.buckets = RemoveAt(fe.buckets, k) /\ fe'.lcns = lc
      /\ fe'.missed = (fe.missed \/ at = {})
  BY <1>6
<1>8. ~fe'.missed
  <2>1. ~fe.missed
    BY DEF IndexInv
  <2> QED BY <1>4, <1>7, <2>1
<1>9. fe' \in Indexes
  <2>1. RemoveAt(fe.buckets, k) \in Seq(Elem)
    BY <1>4 DEF Keeps
  <2> QED BY <1>5, <1>6, <2>1 DEF Indexes
<1>10. out' \in Files \cup {NoFile}
  BY <1>1
<1> QED BY <1>1, <1>3, <1>4, <1>5, <1>7, <1>8, <1>9, <1>10 DEF IndexInv, FilesApart

(* A move touches what is known of the file that is out, and lands where   *)
(* no other file is.                                                       *)
LEMMA MoveIndex ==
  ASSUME IndexInv, NEW p \in Placements, Move(p)
  PROVE  IndexInv'
<1> DEFINE d == Order(Dump(p))
           F == Files \ {out}
<1>1. p \in Seq(Nat) /\ out \in Files /\ F \in SUBSET Files /\ out \notin F
  BY PlacementsAssumption DEF IndexInv, Move
<1>2. d \in Disp /\ BlockCells(d) = ClustersOf(p)
  BY <1>1, DumpIsExact
<1>3. /\ disp' = [disp EXCEPT ![out] = d] /\ fe' = fe /\ out' = out
      /\ \A g \in F : BlockCells(disp[g]) \cap ClustersOf(p) = {}
  BY DEF Move
<1>4. Keeps(fe.buckets, disp, F) /\ disp \in [Files -> Disp] /\ FilesApart(disp)
  BY DEF IndexInv
<1> HIDE DEF d
<1>5. disp' \in [Files -> Disp] /\ disp'[out] = d /\ \A g \in F : disp'[g] = disp[g]
  BY <1>1, <1>2, <1>3, <1>4
<1>6. Keeps(fe.buckets, disp', F)
  <2> HIDE DEF F
  <2> QED BY <1>1, <1>3, <1>4, DumpKeeps
<1>7. ASSUME NEW f \in Files, NEW g \in Files, f # g
      PROVE  BlockCells(disp'[f]) \cap BlockCells(disp'[g]) = {}
  <2>1. CASE f \in F /\ g \in F
    BY <1>4, <1>5, <1>7, <2>1 DEF FilesApart
  <2>2. CASE f = out
    BY <1>2, <1>3, <1>5, <1>7, <2>2
  <2>3. CASE g = out
    BY <1>2, <1>3, <1>5, <1>7, <2>3
  <2> QED BY <2>1, <2>2, <2>3
<1>8. ASSUME Exact(fe.lcns, disp, F) PROVE Exact(fe.lcns, disp', F)
  <2>1. \A g \in F : BlockLcns(disp'[g]) = BlockLcns(disp[g])
    BY <1>5
  <2>2. UNION { BlockLcns(disp'[g]) : g \in F } = UNION { BlockLcns(disp[g]) : g \in F }
    BY <2>1
  <2> HIDE DEF F
  <2> QED BY <1>8, <2>1, <2>2 DEF Exact
<1>9. FilesApart(disp')
  BY <1>7 DEF FilesApart
<1>10. /\ fe \in Indexes /\ ~fe.missed
       /\ DOMAIN fe.lcns = {} \/ Exact(fe.lcns, disp, F)
  BY DEF IndexInv
<1>11. FilesApart(disp)'
  BY <1>9 DEF FilesApart
<1>12. Keeps(fe.buckets, disp, Files \ {out})'
  BY <1>3, <1>6
<1>13. (DOMAIN fe.lcns = {} \/ Exact(fe.lcns, disp, Files \ {out}))'
  BY <1>3, <1>8, <1>10
<1> QED BY <1>1, <1>3, <1>5, <1>10, <1>11, <1>12, <1>13 DEF IndexInv

(* push puts it back into both.                                            *)
LEMMA PushIndex ==
  ASSUME IndexInv, Push
  PROVE  IndexInv'
<1> DEFINE F == Files \ {out}
           b == BucketInsert(fe.buckets, disp[out].clusters, out)
           lc == IF DOMAIN fe.lcns = {} THEN fe.lcns ELSE LcnsInsert(fe.lcns, disp[out], out)
<1>1. /\ out \in Files /\ F \in SUBSET Files /\ out \notin F
      /\ out' = NoFile /\ disp' = disp /\ Files \ {out'} = F \cup {out}
  BY FilesAssumption DEF IndexInv, Push
<1>2. fe' = [fe EXCEPT !.buckets = b, !.lcns = lc]
  BY DEF Push, FePush
<1>3. /\ Keeps(fe.buckets, disp, F) /\ disp \in [Files -> Disp] /\ FilesApart(disp)
      /\ fe \in Indexes /\ ~fe.missed /\ (DOMAIN fe.lcns = {} \/ Exact(fe.lcns, disp, F))
  BY DEF IndexInv
<1>4. Keeps(b, disp, F \cup {out})
  <2> HIDE DEF F
  <2> QED BY <1>1, <1>3, PushKeeps
<1>5. lc \in Maps /\ (DOMAIN lc = {} \/ Exact(lc, disp, F \cup {out}))
  <2>1. CASE DOMAIN fe.lcns = {}
    BY <1>3, <2>1 DEF Indexes
  <2>2. CASE DOMAIN fe.lcns # {}
    <3>1. Exact(LcnsInsert(fe.lcns, disp[out], out), disp, F \cup {out})
      <4> HIDE DEF F
      <4> QED BY <1>1, <1>3, <2>2, InsertExact
    <3>2. Exact(lc, disp, F \cup {out})
      BY <2>2, <3>1
    <3> HIDE DEF lc
    <3> QED BY <3>2 DEF Exact
  <2> QED BY <2>1, <2>2
<1>6. b \in Seq(Elem)
  BY <1>4 DEF Keeps
<1> HIDE DEF b, lc
<1>7. /\ fe' \in Indexes /\ fe'.buckets = b /\ fe'.lcns = lc /\ fe'.missed = fe.missed
  BY <1>2, <1>3, <1>5, <1>6 DEF Indexes
<1>8. Keeps(fe.buckets, disp, Files \ {out})'
  BY <1>1, <1>4, <1>7
<1>9. (DOMAIN fe.lcns = {} \/ Exact(fe.lcns, disp, Files \ {out}))'
  BY <1>1, <1>5, <1>7
<1>10. FilesApart(disp)'
  BY <1>1, <1>3 DEF FilesApart
<1>11. ~fe'.missed
  BY <1>3, <1>7
<1> QED BY <1>1, <1>3, <1>7, <1>8, <1>9, <1>10, <1>11 DEF IndexInv

(* After findAt the map is built.                                          *)
LEMMA BuiltIndex ==
  ASSUME IndexInv
  PROVE  /\ FeBuilt(fe, disp) \in Indexes
         /\ FeBuilt(fe, disp).buckets = fe.buckets
         /\ FeBuilt(fe, disp).missed = fe.missed
         /\ Exact(FeBuilt(fe, disp).lcns, disp, Files \ {out})
<1> DEFINE F == Files \ {out}
<1>1. /\ Keeps(fe.buckets, disp, F) /\ disp \in [Files -> Disp] /\ FilesApart(disp)
      /\ fe \in Indexes /\ F \in SUBSET Files
  BY DEF IndexInv
<1>2. CASE DOMAIN fe.lcns # {}
  <2>1. FeBuilt(fe, disp) = fe /\ Exact(fe.lcns, disp, F)
    BY <1>2 DEF FeBuilt, IndexInv
  <2> QED BY <1>1, <2>1
<1>3. CASE DOMAIN fe.lcns = {}
  <2>1. Exact(FeBuilt(fe, disp).lcns, disp, F)
    <3> HIDE DEF F
    <3> QED BY <1>1, <1>3, BuildExact
  <2>2. \E m : FeBuilt(fe, disp) = [fe EXCEPT !.lcns = m]
    BY <1>3 DEF FeBuilt
  <2>3. PICK m : FeBuilt(fe, disp) = [fe EXCEPT !.lcns = m]
    BY <2>2
  <2>4. /\ FeBuilt(fe, disp).buckets = fe.buckets /\ FeBuilt(fe, disp).missed = fe.missed
        /\ FeBuilt(fe, disp).lcns = m
    BY <1>1, <2>3 DEF Indexes
  <2>5. m \in Maps
    BY <2>1, <2>4 DEF Exact
  <2> QED BY <1>1, <2>1, <2>3, <2>4, <2>5 DEF Indexes
<1> QED BY <1>2, <1>3

(* Every step keeps the indexes exact.                                     *)
LEMMA NextIndex == IndexInv /\ [Next]_vars => IndexInv'
<1> SUFFICES ASSUME IndexInv, [Next]_vars PROVE IndexInv'
  OBVIOUS
<1>1. CASE \E f \in Files : Pop(f)
  BY <1>1, PopIndex
<1>2. CASE \E p \in Placements : Move(p)
  BY <1>2, MoveIndex
<1>3. CASE Push
  BY <1>3, PushIndex
<1>4. CASE Find
  <2>1. fe' = FeBuilt(fe, disp) /\ disp' = disp /\ out' = out
    BY <1>4 DEF Find
  <2>2. /\ fe' \in Indexes /\ fe'.buckets = fe.buckets /\ fe'.missed = fe.missed
        /\ Exact(fe'.lcns, disp, Files \ {out})
    BY <2>1, BuiltIndex
  <2>3. FilesApart(disp)' /\ ~fe'.missed
    BY <2>1, <2>2 DEF IndexInv, FilesApart
  <2>4. Keeps(fe.buckets, disp, Files \ {out})'
    BY <2>1, <2>2 DEF IndexInv
  <2>5. (DOMAIN fe.lcns = {} \/ Exact(fe.lcns, disp, Files \ {out}))'
    BY <2>1, <2>2
  <2> QED BY <2>1, <2>2, <2>3, <2>4, <2>5 DEF IndexInv
<1>5. CASE UNCHANGED vars
  BY <1>5 DEF vars, IndexInv, FilesApart, Keeps, Sorted, Exact
<1> QED BY <1>1, <1>2, <1>3, <1>4, <1>5 DEF Next

-----------------------------------------------------------------------------
(* The indexes hold what their declarations say.                           *)
THEOREM IndexTypes == Spec => []TypeOK
<1>1. ASSUME IndexInv PROVE TypeOK
  <2>1. fe.buckets \in Seq([key : Nat, file : Files])
    BY <1>1 DEF IndexInv, Keeps, Elem
  <2>2. fe.lcns \in Maps /\ out \in Files \cup {NoFile}
    BY <1>1 DEF IndexInv, Indexes
  <2>3. PICK D \in SUBSET Nat : fe.lcns \in [D -> Files]
    BY <2>2 DEF Maps
  <2> QED BY <2>1, <2>2, <2>3 DEF TypeOK
<1> QED BY <1>1, InitIndex, NextIndex, PTL DEF Spec

(* Every file that is not being moved is in the buckets once, under its    *)
(* present size, so that pop always finds it and its assertion holds.      *)
THEOREM EveryFileFiledOnce == Spec => []FiledOnce
<1>1. ASSUME IndexInv PROVE FiledOnce
  <2> SUFFICES ASSUME NEW f \in Files \ {out}
               PROVE  /\ Cardinality({ i \in DOMAIN fe.buckets : fe.buckets[i].file = f }) = 1
                      /\ \E i \in DOMAIN fe.buckets :
                            fe.buckets[i] = [key |-> disp[f].clusters, file |-> f]
    BY <1>1 DEF IndexInv, FiledOnce
  <2> DEFINE b == fe.buckets
  <2>1. Keeps(b, disp, Files \ {out})
    BY <1>1 DEF IndexInv
  <2>2. PICK i \in DOMAIN b : b[i].file = f
    BY <2>1 DEF Keeps
  <2>3. { j \in DOMAIN b : b[j].file = f } = {i}
    BY <2>1, <2>2 DEF Keeps
  <2>4. b[i] = [key |-> disp[f].clusters, file |-> f]
    <3>1. b[i] \in Elem /\ b[i].key = disp[f].clusters
      <4>1. b \in Seq(Elem)
        BY <2>1 DEF Keeps
      <4>2. b[i] \in Elem
        BY <2>2, <4>1, LenProperties
      <4> QED BY <2>1, <2>2, <4>2 DEF Keeps
    <3> QED BY <2>2, <3>1 DEF Elem
  <2> QED BY <2>2, <2>3, <2>4, FS_Singleton
<1> QED BY <1>1, InitIndex, NextIndex, PTL DEF Spec

(* findAt tells the truth in every state, whether the map has been built,  *)
(* is to be built, or has been emptied by pop.                             *)
THEOREM FindAtIsRight == Spec => []FindAtFinds
<1>1. ASSUME IndexInv PROVE FindAtFinds
  <2> DEFINE m == FeBuilt(fe, disp).lcns
             F == Files \ {out}
             In == InBuckets(fe)
  <2>1. Exact(m, disp, F)
    BY <1>1, BuiltIndex
  <2>2. In = F
    BY <1>1 DEF IndexInv, Keeps, InBuckets
  <2> SUFFICES ASSUME NEW l
               PROVE  FindAt(fe, disp, l) =
                        IF \E f \in In : l \in BlockLcns(disp[f])
                        THEN CHOOSE f \in In : l \in BlockLcns(disp[f])
                        ELSE NoFile
    BY DEF FindAtFinds
  <2>3. FindAt(fe, disp, l) = IF l \in DOMAIN m THEN m[l] ELSE NoFile
    BY DEF FindAt
  <2>4. l \in DOMAIN m <=> \E f \in F : l \in BlockLcns(disp[f])
    BY <2>1 DEF Exact
  <2>5. \A f \in F : l \in BlockLcns(disp[f]) => m[l] = f
    BY <2>1 DEF Exact
  <2> HIDE DEF m, F, In
  <2>6. CASE \E f \in F : l \in BlockLcns(disp[f])
    <3> DEFINE c == CHOOSE f \in F : l \in BlockLcns(disp[f])
    <3>1. c \in F /\ l \in BlockLcns(disp[c])
      BY <2>6
    <3>2. m[l] = c
      BY <2>5, <3>1
    <3> QED BY <2>2, <2>3, <2>4, <2>6, <3>2
  <2>7. CASE ~\E f \in F : l \in BlockLcns(disp[f])
    BY <2>2, <2>3, <2>4, <2>7
  <2> QED BY <2>6, <2>7
<1> QED BY <1>1, InitIndex, NextIndex, PTL DEF Spec
=============================================================================
