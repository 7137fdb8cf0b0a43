-------------------------- MODULE FileListProofs --------------------------
(***************************************************************************)
(* Proofs about FileList and the linked lists of LinkedList, for lists of  *)
(* any length: they implement ListSpec, the loops over them take out what  *)
(* they should, and every item is freed once.                              *)
(***************************************************************************)
EXTENDS FileList, SequenceLemmas, FiniteSetTheorems

(* The operators that the two instances take from the libraries are the    *)
(* libraries' own.                                                         *)
LEMMA SameOperators ==
  /\ \A S : List!Cardinality(S) = Cardinality(S)
  /\ \A s, k, e : Promise!InsertAt(s, k, e) = InsertAt(s, k, e)
  /\ \A s, k : Promise!RemoveAt(s, k) = RemoveAt(s, k)
  /\ \A s : Promise!ToSet(s) = ToSet(s)
<1>1. ASSUME NEW S PROVE List!Cardinality(S) = Cardinality(S)
  BY DEF List!Cardinality, Cardinality, List!IsFiniteSet, IsFiniteSet
<1>2. ASSUME NEW s, NEW k, NEW e PROVE Promise!InsertAt(s, k, e) = InsertAt(s, k, e)
  BY DEF Promise!InsertAt, InsertAt
<1>3. ASSUME NEW s, NEW k PROVE Promise!RemoveAt(s, k) = RemoveAt(s, k)
  BY DEF Promise!RemoveAt, RemoveAt
<1>4. ASSUME NEW s PROVE Promise!ToSet(s) = ToSet(s)
  BY DEF Promise!ToSet, ToSet
<1> QED BY <1>1, <1>2, <1>3, <1>4

-----------------------------------------------------------------------------
(* The stores of list.c.                                                   *)

Item == [prev : Address, next : Address]

Heap(head, node) == [head |-> head, node |-> node, wild |-> FALSE]

(* The nodes nd with a new one, a, between p and n.                        *)
Spliced(nd, a, p, n) ==
  [b \in DOMAIN nd \cup {a} |->
     [prev |-> IF b = a THEN p ELSE IF b = n THEN a ELSE nd[b].prev,
      next |-> IF b = a THEN n ELSE IF b = p THEN a ELSE nd[b].next]]

(* The nodes nd without a, which is between p and n.                       *)
Cut(nd, a, p, n) ==
  [b \in DOMAIN nd \ {a} |->
     [prev |-> IF b = n THEN p ELSE nd[b].prev,
      next |-> IF b = p THEN n ELSE nd[b].next]]

(* The fields of a heap in which nothing has been written wildly.          *)
LEMMA HeapFields ==
  ASSUME NEW hd, NEW nd, NEW x
  PROVE  /\ Heap(hd, nd).head = hd /\ Heap(hd, nd).node = nd
         /\ [Heap(hd, nd) EXCEPT !.node = x] = Heap(hd, x)
         /\ [Heap(hd, nd) EXCEPT !.head = x] = Heap(x, nd)
<1> DEFINE H(h, n, w) == [head |-> h, node |-> n, wild |-> w]
<1>1. ASSUME NEW w
      PROVE  /\ [H(hd, nd, w) EXCEPT !.node = x] = H(hd, x, w)
             /\ [H(hd, nd, w) EXCEPT !.head = x] = H(x, nd, w)
  OBVIOUS
<1>2. Heap(hd, nd).head = hd /\ Heap(hd, nd).node = nd
  BY DEF Heap
<1>3. Heap(hd, nd) = H(hd, nd, FALSE) /\ Heap(hd, x) = H(hd, x, FALSE)
      /\ Heap(x, nd) = H(x, nd, FALSE)
  BY DEF Heap
<1> HIDE DEF H
<1> QED BY <1>1, <1>2, <1>3, Zenon

(* The nodes nd and a new one, a; the nodes nd without a.                  *)
Allocated(nd, a, p, n) ==
  [b \in DOMAIN nd \cup {a} |-> IF b = a THEN [prev |-> p, next |-> n] ELSE nd[b]]

Freed(nd, a) == [b \in DOMAIN nd \ {a} |-> nd[b]]

(* winx_malloc and winx_free of an item.                                   *)
LEMMA AllocatesAndFrees ==
  ASSUME NEW hd, NEW nd, NEW a, NEW p, NEW n
  PROVE  /\ List!Malloc(Heap(hd, nd), a, p, n) = Heap(hd, Allocated(nd, a, p, n))
         /\ List!Free(Heap(hd, nd), a) = Heap(hd, Freed(nd, a))
<1> DEFINE h == Heap(hd, nd)
<1>1. h.node = nd
  BY HeapFields
<1>2. List!Malloc(h, a, p, n) = Heap(hd, Allocated(nd, a, p, n))
  <2>1. List!Malloc(h, a, p, n) = [h EXCEPT !.node = Allocated(h.node, a, p, n)]
    BY DEF List!Malloc, Allocated
  <2> QED BY <1>1, <2>1, HeapFields
<1>3. List!Free(h, a) = Heap(hd, Freed(nd, a))
  <2>1. List!Free(h, a) = [h EXCEPT !.node = Freed(h.node, a)]
    BY DEF List!Free, Freed
  <2> QED BY <1>1, <2>1, HeapFields
<1> QED BY <1>2, <1>3

(* winx_list_insert into a list that has items.                            *)
LEMMA InsertStores ==
  ASSUME NEW D \in SUBSET Address, NEW nd \in [D -> Item], NEW hd \in D,
         NEW prev \in D \cup {NULL}, NEW a \in Address, a \notin D,
         NEW p \in D, p = IF prev = NULL THEN nd[hd].prev ELSE prev,
         NEW n \in D, n = nd[p].next
  PROVE  List!Insert(Heap(hd, nd), prev, a) =
           Heap(IF prev = NULL THEN a ELSE hd, Spliced(nd, a, p, n))
<1> DEFINE h == Heap(hd, nd)
           new == [prev |-> p, next |-> n]
           n1 == Allocated(nd, a, p, n)
           m1 == List!Malloc(h, a, p, n)
           n2 == [n1 EXCEPT ![p].next = a]
           m2 == List!SetNext(m1, p, a)
           n3 == [n2 EXCEPT ![n].prev = a]
           m3 == List!SetPrev(m2, n, a)
<1>1. hd # NULL /\ DOMAIN nd = D /\ \A b \in D : nd[b] \in Item
  BY NullAssumption
<1>2. h.head = hd /\ h.node = nd
  BY DEF Heap
<1>3. List!Insert(h, prev, a) = [m3 EXCEPT !.head = IF prev = NULL THEN a ELSE @]
  BY <1>1, <1>2 DEF List!Insert
<1>4. m1 = Heap(hd, n1)
  BY AllocatesAndFrees
<1> HIDE DEF m1
<1>5. n1 \in [D \cup {a} -> Item] /\ n1[a] = new /\ \A b \in D : n1[b] = nd[b]
  BY <1>1 DEF Item, Allocated
<1> HIDE DEF n1
<1>6. m2 = Heap(hd, n2)
  BY <1>4, <1>5 DEF List!SetNext, Heap
<1> HIDE DEF m2
<1>7. n2 \in [D \cup {a} -> Item] /\ n2[p] = [n1[p] EXCEPT !.next = a]
      /\ \A b \in D \cup {a} : b # p => n2[b] = n1[b]
  BY <1>5 DEF Item
<1> HIDE DEF n2
<1>8. m3 = Heap(hd, n3)
  BY <1>6, <1>7 DEF List!SetPrev, Heap
<1> HIDE DEF m3
<1>9. n3 \in [D \cup {a} -> Item] /\ n3[n] = [n2[n] EXCEPT !.prev = a]
      /\ \A b \in D \cup {a} : b # n => n3[b] = n2[b]
  BY <1>7 DEF Item
<1> HIDE DEF n3
<1>10. n3 = Spliced(nd, a, p, n)
  <2> DEFINE S == Spliced(nd, a, p, n)
  <2>1. DOMAIN n3 = D \cup {a} /\ DOMAIN S = D \cup {a}
    BY <1>1, <1>9 DEF Spliced
  <2>2. ASSUME NEW b \in D \cup {a} PROVE n3[b] = S[b]
    <3>1. S[b] = [prev |-> IF b = a THEN p ELSE IF b = n THEN a ELSE nd[b].prev,
                  next |-> IF b = a THEN n ELSE IF b = p THEN a ELSE nd[b].next]
      BY <1>1 DEF Spliced
    <3>2. /\ n3[b] \in Item
          /\ n3[b].prev = IF b = n THEN a ELSE n2[b].prev
          /\ n3[b].next = n2[b].next
      BY <1>7, <1>9 DEF Item
    <3>3. /\ n2[b].next = IF b = p THEN a ELSE n1[b].next
          /\ n2[b].prev = n1[b].prev
      BY <1>5, <1>7 DEF Item
    <3>4. n1[b] = IF b = a THEN new ELSE nd[b]
      BY <1>5
    <3>5. n3[b] = [prev |-> n3[b].prev, next |-> n3[b].next]
      BY <3>2 DEF Item
    <3> QED BY <3>1, <3>2, <3>3, <3>4, <3>5
  <2>3. n3 = [b \in D \cup {a} |-> n3[b]] /\ S = [b \in D \cup {a} |-> S[b]]
    BY <1>1, <1>9 DEF Spliced
  <2> HIDE DEF S
  <2> QED BY <2>2, <2>3 DEF S
<1>11. List!Insert(h, prev, a) = Heap(IF prev = NULL THEN a ELSE hd, n3)
  BY <1>3, <1>8 DEF Heap
<1> QED BY <1>10, <1>11

(* The nodes of a list that has one item.                                  *)
Alone(a) == [b \in {a} |-> [prev |-> a, next |-> a]]

(* winx_list_insert into an empty list.                                    *)
LEMMA InsertFirst ==
  ASSUME NEW nd, DOMAIN nd = {}, NEW prev, NEW a \in Address
  PROVE  List!Insert(Heap(NULL, nd), prev, a) = Heap(a, Alone(a))
<1> DEFINE h == Heap(NULL, nd)
<1>1. h.head = NULL /\ h.node = nd
  BY HeapFields
<1>2. List!Insert(h, prev, a) = [List!Malloc(h, a, a, a) EXCEPT !.head = a]
  BY <1>1 DEF List!Insert
<1>3. List!Malloc(h, a, a, a) = Heap(NULL, Allocated(nd, a, a, a))
  BY AllocatesAndFrees
<1>4. Allocated(nd, a, a, a) = Alone(a)
  BY DEF Allocated, Alone
<1> QED BY <1>2, <1>3, <1>4, HeapFields

(* winx_list_remove of one of several items.                               *)
LEMMA RemoveStores ==
  ASSUME NEW D \in SUBSET Address, NEW nd \in [D -> Item], NEW hd \in D, NEW a \in D,
         NEW p \in D, p = nd[a].prev, NEW n \in D, n = nd[a].next, n # a, p # a
  PROVE  List!Remove(Heap(hd, nd), a) =
           Heap(IF a = hd THEN n ELSE hd, Cut(nd, a, p, n))
<1> DEFINE h == Heap(hd, nd)
           n2 == [nd EXCEPT ![p].next = n]
           m2 == List!SetNext(h, p, n)
           n3 == [n2 EXCEPT ![n].prev = p]
           m3 == List!SetPrev(m2, n, p)
           n4 == Freed(n3, a)
           m4 == List!Free(m3, a)
<1>1. hd # NULL /\ a # NULL /\ DOMAIN nd = D /\ \A b \in D : nd[b] \in Item
  BY NullAssumption
<1>2. h.head = hd /\ h.node = nd
  BY DEF Heap
<1>3. List!Remove(h, a) = [m4 EXCEPT !.head = IF a = hd THEN n ELSE @]
  BY <1>1, <1>2 DEF List!Remove
<1>4. m2 = Heap(hd, n2)
  BY <1>1 DEF List!SetNext, Heap
<1> HIDE DEF m2
<1>5. n2 \in [D -> Item] /\ n2[p] = [nd[p] EXCEPT !.next = n]
      /\ \A b \in D : b # p => n2[b] = nd[b]
  BY <1>1 DEF Item
<1> HIDE DEF n2
<1>6. m3 = Heap(hd, n3)
  BY <1>4, <1>5 DEF List!SetPrev, Heap
<1> HIDE DEF m3
<1>7. n3 \in [D -> Item] /\ n3[n] = [n2[n] EXCEPT !.prev = p]
      /\ \A b \in D : b # n => n3[b] = n2[b]
  BY <1>5 DEF Item
<1> HIDE DEF n3
<1>8. m4 = Heap(hd, n4)
  BY <1>6, AllocatesAndFrees
<1> HIDE DEF m4
<1>9. n4 = Cut(nd, a, p, n)
  <2> DEFINE S == Cut(nd, a, p, n)
  <2>1. ASSUME NEW b \in D \ {a} PROVE n3[b] = S[b]
    <3>1. S[b] = [prev |-> IF b = n THEN p ELSE nd[b].prev,
                  next |-> IF b = p THEN n ELSE nd[b].next]
      BY <1>1 DEF Cut
    <3>2. /\ n3[b] \in Item
          /\ n3[b].prev = IF b = n THEN p ELSE n2[b].prev
          /\ n3[b].next = n2[b].next
      BY <1>5, <1>7 DEF Item
    <3>3. /\ n2[b].next = IF b = p THEN n ELSE nd[b].next
          /\ n2[b].prev = nd[b].prev
      BY <1>1, <1>5 DEF Item
    <3>4. n3[b] = [prev |-> n3[b].prev, next |-> n3[b].next]
      BY <3>2 DEF Item
    <3> QED BY <3>1, <3>2, <3>3, <3>4
  <2>2. S = [b \in D \ {a} |-> S[b]]
    BY <1>1 DEF Cut
  <2>3. n4 = [b \in D \ {a} |-> n3[b]]
    BY <1>7 DEF Freed
  <2> HIDE DEF S, n4
  <2> QED BY <2>1, <2>2, <2>3 DEF S
<1> HIDE DEF n4
<1>10. List!Remove(h, a) = Heap(IF a = hd THEN n ELSE hd, n4)
  BY <1>3, <1>8 DEF Heap
<1> QED BY <1>9, <1>10

(* winx_list_remove of the only item.                                      *)
LEMMA RemoveLast ==
  ASSUME NEW a \in Address, NEW nd, DOMAIN nd = {a}, nd[a].next = a
  PROVE  \E n0 \in [{} -> Item] : List!Remove(Heap(a, nd), a) = Heap(NULL, n0)
<1> DEFINE h == Heap(a, nd)
           n0 == Freed(nd, a)
<1>1. h.head = a /\ h.node = nd /\ a # NULL
  BY NullAssumption DEF Heap
<1>2. List!Remove(h, a) = [List!Free(h, a) EXCEPT !.head = NULL]
  BY <1>1 DEF List!Remove
<1>3. List!Free(h, a) = Heap(a, n0)
  BY AllocatesAndFrees
<1>5. n0 \in [{} -> Item]
  BY DEF Freed
<1> HIDE DEF n0
<1>4. List!Remove(h, a) = Heap(NULL, n0)
  BY <1>2, <1>3, HeapFields
<1> QED BY <1>4, <1>5

-----------------------------------------------------------------------------
(* Lists as rings of items.                                                *)

OneToOne(s) == \A j, k \in 1 .. Len(s) : s[j] = s[k] => j = k

Behind(s, k) == IF k = Len(s) THEN s[1] ELSE s[k + 1]

Before(s, k) == IF k = 1 THEN s[Len(s)] ELSE s[k - 1]

(* The nodes nd are the items of s, linked in its order both ways round.   *)
Ring(nd, s) ==
  /\ s \in Seq(Address)
  /\ OneToOne(s)
  /\ nd \in [ToSet(s) -> Item]
  /\ \A k \in 1 .. Len(s) : nd[s[k]].next = Behind(s, k) /\ nd[s[k]].prev = Before(s, k)

(* What is said of the elements of a sequence is said of its places.       *)
LEMMA Places ==
  ASSUME NEW S, NEW s \in Seq(S)
  PROVE  /\ Len(s) \in Nat /\ DOMAIN s = 1 .. Len(s)
         /\ \A k \in 1 .. Len(s) : s[k] \in S /\ s[k] \in ToSet(s)
         /\ \A x \in ToSet(s) : \E k \in 1 .. Len(s) : x = s[k]
         /\ ToSet(s) \subseteq S
         /\ s = <<>> <=> Len(s) = 0
         /\ s = <<>> => ToSet(s) = {}
<1>1. Len(s) \in Nat /\ DOMAIN s = 1 .. Len(s)
  BY LenProperties
<1>2. \A k \in 1 .. Len(s) : s[k] \in S
  BY ElementOfSeq
<1>3. s = <<>> <=> Len(s) = 0
  BY EmptySeq
<1>4. s = <<>> => ToSet(s) = {}
  BY <1>1, <1>3 DEF ToSet
<1> QED BY <1>1, <1>2, <1>3, <1>4 DEF ToSet

(* Putting an item into a sequence puts it into its set.                   *)
LEMMA SetWith ==
  ASSUME NEW s \in Seq(Address), NEW a \in Address, NEW j \in 1 .. (Len(s) + 1)
  PROVE  ToSet(InsertAt(s, j, a)) = ToSet(s) \cup {a}
<1> DEFINE N == Len(s)
           t == InsertAt(s, j, a)
<1>1. /\ t \in Seq(Address) /\ Len(t) = N + 1
      /\ \A i \in 1 .. (N + 1) : t[i] = IF i < j THEN s[i] ELSE IF i = j THEN a ELSE s[i - 1]
  BY InsertAtProperties
<1>2. /\ N \in Nat /\ j \in Int /\ \A k \in 1 .. N : s[k] \in ToSet(s)
      /\ \A x \in ToSet(s) : \E k \in 1 .. N : x = s[k]
  BY Places
<1> HIDE DEF t
<1>3. ASSUME NEW x \in ToSet(t) PROVE x \in ToSet(s) \cup {a}
  <2>1. PICK k \in 1 .. (N + 1) : x = t[k]
    BY <1>1, Places
  <2>2. CASE k = j
    BY <1>1, <2>1, <2>2
  <2>3. CASE k # j
    <3> DEFINE i == IF k < j THEN k ELSE k - 1
    <3>1. i \in 1 .. N /\ x = s[i]
      BY <1>1, <1>2, <2>1, <2>3
    <3> QED BY <1>2, <3>1
  <2> QED BY <2>2, <2>3
<1>4. ASSUME NEW x \in ToSet(s) PROVE x \in ToSet(t)
  <2>1. PICK k \in 1 .. N : x = s[k]
    BY <1>2
  <2> DEFINE i == IF k < j THEN k ELSE k + 1
  <2>2. i \in 1 .. (N + 1) /\ t[i] = s[k]
    BY <1>1, <1>2
  <2> HIDE DEF i
  <2> QED BY <1>1, <2>1, <2>2, Places
<1>5. a \in ToSet(t)
  BY <1>1, <1>2, Places
<1> QED BY <1>3, <1>4, <1>5 DEF t

(* Taking out an item of a sequence takes it out of its set.               *)
LEMMA SetWithout ==
  ASSUME NEW s \in Seq(Address), OneToOne(s), NEW j \in 1 .. Len(s)
  PROVE  /\ RemoveAt(s, j) \in Seq(Address) /\ Len(RemoveAt(s, j)) = Len(s) - 1
         /\ \A i \in 1 .. (Len(s) - 1) : RemoveAt(s, j)[i] = IF i < j THEN s[i] ELSE s[i + 1]
         /\ ToSet(RemoveAt(s, j)) = ToSet(s) \ {s[j]}
<1> DEFINE N == Len(s)
           t == RemoveAt(s, j)
<1>1. /\ t \in Seq(Address) /\ Len(t) = N - 1
      /\ \A i \in 1 .. (N - 1) : t[i] = IF i < j THEN s[i] ELSE s[i + 1]
  BY RemoveAtProperties
<1>2. /\ N \in Nat /\ \A k \in 1 .. N : s[k] \in ToSet(s)
      /\ \A x \in ToSet(s) : \E k \in 1 .. N : x = s[k]
      /\ \A i, k \in 1 .. N : s[i] = s[k] => i = k
  BY Places DEF OneToOne
<1> HIDE DEF t
<1>3. ASSUME NEW x \in ToSet(t) PROVE x \in ToSet(s) \ {s[j]}
  <2>1. PICK k \in 1 .. (N - 1) : x = t[k]
    BY <1>1, Places
  <2> DEFINE i == IF k < j THEN k ELSE k + 1
  <2>2. i \in 1 .. N /\ i # j /\ x = s[i]
    BY <1>1, <1>2, <2>1
  <2> QED BY <1>2, <2>2
<1>4. ASSUME NEW x \in ToSet(s) \ {s[j]} PROVE x \in ToSet(t)
  <2>1. PICK k \in 1 .. N : x = s[k]
    BY <1>2
  <2>2. k # j
    BY <2>1
  <2> DEFINE i == IF k < j THEN k ELSE k - 1
  <2>3. i \in 1 .. (N - 1) /\ t[i] = s[k]
    BY <1>1, <1>2, <2>2
  <2> QED BY <1>1, <2>1, <2>3, Places
<1>5. ToSet(t) = ToSet(s) \ {s[j]}
  BY <1>3, <1>4
<1> QED BY <1>1, <1>5 DEF t

(* winx_list_insert keeps the ring: the new item comes behind place j.     *)
LEMMA RingInsert ==
  ASSUME NEW nd, NEW s, Ring(nd, s), s # <<>>, NEW a \in Address, a \notin ToSet(s),
         NEW j \in 0 .. Len(s)
  PROVE  Ring(Spliced(nd, a, IF j = 0 THEN s[Len(s)] ELSE s[j], IF j = Len(s) THEN s[1] ELSE s[j + 1]),
              InsertAt(s, j + 1, a))
<1> DEFINE N == Len(s)
           t == InsertAt(s, j + 1, a)
           p == IF j = 0 THEN s[N] ELSE s[j]
           n == IF j = N THEN s[1] ELSE s[j + 1]
           m == Spliced(nd, a, p, n)
<1>1. /\ s \in Seq(Address) /\ N \in Nat /\ N # 0 /\ j \in Int /\ DOMAIN nd = ToSet(s)
      /\ \A k \in 1 .. N : s[k] \in Address /\ s[k] \in ToSet(s) /\ s[k] # a
      /\ \A x \in ToSet(s) : \E k \in 1 .. N : x = s[k]
      /\ \A i, k \in 1 .. N : s[i] = s[k] => i = k
      /\ \A k \in 1 .. N : nd[s[k]].next = Behind(s, k) /\ nd[s[k]].prev = Before(s, k)
  BY Places DEF Ring, OneToOne
<1>2. j + 1 \in 1 .. (N + 1)
  BY <1>1
<1>3. /\ t \in Seq(Address) /\ Len(t) = N + 1
      /\ \A i \in 1 .. (N + 1) : t[i] = IF i < j + 1 THEN s[i] ELSE IF i = j + 1 THEN a ELSE s[i - 1]
  BY <1>1, <1>2, InsertAtProperties
<1> HIDE DEF t
<1>4. /\ \A i \in 1 .. j : t[i] = s[i] /\ i \in 1 .. N
      /\ t[j + 1] = a
      /\ \A i \in (j + 2) .. (N + 1) : t[i] = s[i - 1] /\ i - 1 \in 1 .. N
  BY <1>1, <1>2, <1>3
<1>5. \A i \in 1 .. (N + 1) : i \in 1 .. j \/ i = j + 1 \/ i \in (j + 2) .. (N + 1)
  BY <1>1
<1>6. OneToOne(t)
  <2> SUFFICES ASSUME NEW i \in 1 .. (N + 1), NEW k \in 1 .. (N + 1), t[i] = t[k] PROVE i = k
    BY <1>3 DEF OneToOne
  <2>0. ASSUME NEW l \in 1 .. (N + 1), l # j + 1 PROVE t[l] # a
    <3>1. \A x \in 1 .. N : s[x] # a
      BY <1>1 DEF ToSet
    <3>2. l \in 1 .. j \/ l \in (j + 2) .. (N + 1)
      BY <1>5, <2>0
    <3> QED BY <1>4, <3>1, <3>2
  <2>1. CASE i = j + 1 \/ k = j + 1
    BY <1>4, <2>0, <2>1
  <2>2. CASE i # j + 1 /\ k # j + 1
    <3> DEFINE x == IF i < j + 1 THEN i ELSE i - 1
               y == IF k < j + 1 THEN k ELSE k - 1
    <3>1. x \in 1 .. N /\ y \in 1 .. N /\ t[i] = s[x] /\ t[k] = s[y]
      BY <1>1, <1>3, <2>2
    <3>2. x = y
      BY <1>1, <3>1
    <3> QED BY <1>1, <2>2, <3>2
  <2> QED BY <2>1, <2>2
<1>7. ToSet(t) = ToSet(s) \cup {a}
  BY <1>1, <1>2, SetWith DEF t
<1>8. p \in ToSet(s) /\ n \in ToSet(s)
  BY <1>1
<1>9. /\ DOMAIN m = ToSet(t)
      /\ \A b \in ToSet(t) :
           m[b] = [prev |-> IF b = a THEN p ELSE IF b = n THEN a ELSE nd[b].prev,
                   next |-> IF b = a THEN n ELSE IF b = p THEN a ELSE nd[b].next]
      /\ m = [b \in ToSet(t) |-> m[b]]
  BY <1>1, <1>7 DEF Spliced
<1> HIDE DEF m
<1>10. m \in [ToSet(t) -> Item]
  <2> SUFFICES ASSUME NEW b \in ToSet(t) PROVE m[b] \in Item
    BY <1>9
  <2>1. p \in Address /\ n \in Address
    BY <1>1
  <2>2. b # a => nd[b] \in Item
    BY <1>7 DEF Ring
  <2>3. b # a => nd[b].prev \in Address /\ nd[b].next \in Address
    BY <2>2 DEF Item
  <2> HIDE DEF p, n
  <2> QED BY <1>9, <2>1, <2>3 DEF Item
<1>11. /\ \A b \in ToSet(t) : m[b].next = IF b = a THEN n ELSE IF b = p THEN a ELSE nd[b].next
       /\ \A b \in ToSet(t) : m[b].prev = IF b = a THEN p ELSE IF b = n THEN a ELSE nd[b].prev
  <2> HIDE DEF p, n
  <2> QED BY <1>9
<1>12. ASSUME NEW k \in 1 .. (N + 1) PROVE m[t[k]].next = Behind(t, k)
  <2>1. t[k] \in ToSet(t)
    BY <1>3, Places
  <2>2. CASE k = j + 1
    BY <1>1, <1>2, <1>3, <1>4, <1>11, <2>1, <2>2 DEF Behind
  <2>3. CASE k < j + 1
    <3>1. k \in 1 .. N /\ t[k] = s[k] /\ s[k] # a /\ nd[s[k]].next = Behind(s, k) /\ j # 0 /\ j \in 1 .. N
      BY <1>1, <1>3, <2>3
    <3>2. s[k] = p <=> k = j
      BY <1>1, <3>1
    <3>3. k # j => k + 1 < j + 1 /\ k + 1 \in 1 .. (N + 1) /\ k # N
      BY <1>1, <2>3
    <3>4. k = j => Behind(t, k) = a
      BY <1>1, <1>3, <1>4 DEF Behind
    <3>5. k # j => Behind(t, k) = Behind(s, k)
      BY <1>1, <1>3, <3>1, <3>3 DEF Behind
    <3> QED BY <1>11, <2>1, <3>1, <3>2, <3>4, <3>5
  <2>4. CASE k > j + 1
    <3>1. /\ k - 1 \in 1 .. N /\ t[k] = s[k - 1] /\ s[k - 1] # a
          /\ nd[s[k - 1]].next = Behind(s, k - 1)
      BY <1>1, <1>3, <2>4
    <3>2. s[k - 1] = p <=> (j = 0 /\ k = N + 1)
      BY <1>1, <2>4, <3>1
    <3>3. j = 0 /\ k = N + 1 => Behind(t, k) = a
      BY <1>3, <1>4 DEF Behind
    <3>4. ~(j = 0 /\ k = N + 1) => Behind(t, k) = Behind(s, k - 1)
      <4>1. CASE k = N + 1 /\ j # 0
        BY <1>1, <1>3, <4>1 DEF Behind
      <4>2. CASE k # N + 1
        <5>1. k + 1 \in 1 .. (N + 1) /\ ~(k + 1 < j + 1) /\ k + 1 # j + 1 /\ (k + 1) - 1 = k
              /\ k - 1 # N /\ (k - 1) + 1 = k
          BY <1>1, <2>4, <4>2
        <5> QED BY <1>3, <4>2, <5>1 DEF Behind
      <4> QED BY <4>1, <4>2
    <3> QED BY <1>11, <2>1, <3>1, <3>2, <3>3, <3>4
  <2> QED BY <1>1, <2>2, <2>3, <2>4
<1>13. ASSUME NEW k \in 1 .. (N + 1) PROVE m[t[k]].prev = Before(t, k)
  <2>1. t[k] \in ToSet(t)
    BY <1>3, Places
  <2>2. CASE k = j + 1
    BY <1>1, <1>2, <1>3, <1>4, <1>11, <2>1, <2>2 DEF Before
  <2>3. CASE k < j + 1
    <3>1. k \in 1 .. N /\ t[k] = s[k] /\ s[k] # a /\ nd[s[k]].prev = Before(s, k) /\ j \in 1 .. N
      BY <1>1, <1>3, <2>3
    <3>2. s[k] = n <=> (j = N /\ k = 1)
      BY <1>1, <2>3, <3>1
    <3>3. j = N /\ k = 1 => Before(t, k) = a
      BY <1>3, <1>4 DEF Before
    <3>4. ~(j = N /\ k = 1) => Before(t, k) = Before(s, k)
      <4>1. CASE k = 1 /\ j # N
        <5>1. N + 1 \in 1 .. (N + 1) /\ ~(N + 1 < j + 1) /\ N + 1 # j + 1 /\ (N + 1) - 1 = N
          BY <1>1, <4>1
        <5> QED BY <1>3, <4>1, <5>1 DEF Before
      <4>2. CASE k # 1
        <5>1. k - 1 \in 1 .. (N + 1) /\ k - 1 < j + 1
          BY <1>1, <2>3, <4>2
        <5> QED BY <1>3, <4>2, <5>1 DEF Before
      <4> QED BY <4>1, <4>2
    <3> QED BY <1>11, <2>1, <3>1, <3>2, <3>3, <3>4
  <2>4. CASE k > j + 1
    <3>1. /\ k - 1 \in 1 .. N /\ t[k] = s[k - 1] /\ s[k - 1] # a
          /\ nd[s[k - 1]].prev = Before(s, k - 1)
      BY <1>1, <1>3, <2>4
    <3>2. s[k - 1] = n <=> k = j + 2
      BY <1>1, <2>4, <3>1
    <3>3. k = j + 2 => Before(t, k) = a
      BY <1>1, <1>4 DEF Before
    <3>4. k # j + 2 => Before(t, k) = Before(s, k - 1)
      <4> SUFFICES ASSUME k # j + 2 PROVE Before(t, k) = Before(s, k - 1)
        OBVIOUS
      <4>1. k - 1 \in 1 .. (N + 1) /\ ~(k - 1 < j + 1) /\ k - 1 # j + 1 /\ k # 1 /\ k - 1 # 1
        BY <1>1, <2>4
      <4> QED BY <1>3, <4>1 DEF Before
    <3> QED BY <1>11, <2>1, <3>1, <3>2, <3>3, <3>4
  <2> QED BY <1>1, <2>2, <2>3, <2>4
<1> QED BY <1>3, <1>6, <1>10, <1>12, <1>13 DEF Ring, m, t

(* winx_list_remove of one of several items keeps the ring.                *)
LEMMA RingRemove ==
  ASSUME NEW nd, NEW s, Ring(nd, s), NEW j \in 1 .. Len(s), Len(s) # 1
  PROVE  Ring(Cut(nd, s[j], Before(s, j), Behind(s, j)), RemoveAt(s, j))
<1> DEFINE N == Len(s)
           t == RemoveAt(s, j)
           a == s[j]
           p == Before(s, j)
           n == Behind(s, j)
           m == Cut(nd, a, p, n)
<1>0. s \in Seq(Address) /\ N \in Nat
  BY Places DEF Ring
<1>1. /\ s \in Seq(Address) /\ N \in Nat /\ N >= 2 /\ j \in Int /\ DOMAIN nd = ToSet(s)
      /\ \A k \in 1 .. N : s[k] \in Address /\ s[k] \in ToSet(s)
      /\ \A x \in ToSet(s) : \E k \in 1 .. N : x = s[k]
      /\ \A i, k \in 1 .. N : s[i] = s[k] => i = k
      /\ \A k \in 1 .. N : nd[s[k]].next = Behind(s, k) /\ nd[s[k]].prev = Before(s, k)
  <2>1. \A i \in Nat : \A k \in 1 .. i : i # 1 => i >= 2 /\ k \in Int
    OBVIOUS
  <2>2. N >= 2 /\ j \in Int
    BY <1>0, <2>1
  <2> QED BY <1>0, <2>2, Places DEF Ring, OneToOne
<1>2. /\ t \in Seq(Address) /\ Len(t) = N - 1
      /\ \A i \in 1 .. (N - 1) : t[i] = IF i < j THEN s[i] ELSE s[i + 1]
  BY <1>1, RemoveAtProperties
<1> HIDE DEF t
<1>3. OneToOne(t)
  <2> SUFFICES ASSUME NEW i \in 1 .. (N - 1), NEW k \in 1 .. (N - 1), t[i] = t[k] PROVE i = k
    BY <1>2 DEF OneToOne
  <2> DEFINE x == IF i < j THEN i ELSE i + 1
             y == IF k < j THEN k ELSE k + 1
  <2>1. x \in 1 .. N /\ y \in 1 .. N /\ t[i] = s[x] /\ t[k] = s[y]
    BY <1>1, <1>2
  <2>2. x = y
    BY <1>1, <2>1
  <2> QED BY <1>1, <2>2
<1>4. ToSet(t) = ToSet(s) \ {a}
  BY <1>1, SetWithout DEF Ring, t
<1>5. p \in Address /\ n \in Address
  BY <1>1 DEF Before, Behind
<1>6. /\ DOMAIN m = ToSet(t)
      /\ \A b \in ToSet(t) : m[b] = [prev |-> IF b = n THEN p ELSE nd[b].prev,
                                     next |-> IF b = p THEN n ELSE nd[b].next]
      /\ m = [b \in ToSet(t) |-> m[b]]
  BY <1>1, <1>4 DEF Cut
<1> HIDE DEF m
<1>7. m \in [ToSet(t) -> Item]
  <2> SUFFICES ASSUME NEW b \in ToSet(t) PROVE m[b] \in Item
    BY <1>6
  <2>1. nd[b] \in Item
    BY <1>4 DEF Ring
  <2>2. nd[b].prev \in Address /\ nd[b].next \in Address
    BY <2>1 DEF Item
  <2> HIDE DEF p, n
  <2> QED BY <1>5, <1>6, <2>2 DEF Item
<1>8. /\ \A b \in ToSet(t) : m[b].next = IF b = p THEN n ELSE nd[b].next
      /\ \A b \in ToSet(t) : m[b].prev = IF b = n THEN p ELSE nd[b].prev
  <2> HIDE DEF p, n
  <2> QED BY <1>6
<1>9. /\ p = IF j = 1 THEN s[N] ELSE s[j - 1]
      /\ n = IF j = N THEN s[1] ELSE s[j + 1]
  BY DEF Before, Behind
<1> HIDE DEF p, n
<1>10. ASSUME NEW k \in 1 .. (N - 1) PROVE m[t[k]].next = Behind(t, k)
  <2>1. t[k] \in ToSet(t)
    BY <1>2, Places
  <2>2. Behind(t, k) = IF k = N - 1 THEN t[1] ELSE t[k + 1]
    BY <1>2 DEF Behind
  <2>3. CASE k < j
    <3>1. k \in 1 .. N /\ t[k] = s[k] /\ nd[s[k]].next = s[k + 1]
      BY <1>1, <1>2, <2>3 DEF Behind
    <3>2. s[k] = p <=> k = j - 1
      BY <1>1, <1>9, <2>3, <3>1
    <3>3. k = j - 1 => Behind(t, k) = n
      BY <1>1, <1>2, <1>9, <2>2
    <3>4. k # j - 1 => Behind(t, k) = s[k + 1]
      <4> SUFFICES ASSUME k # j - 1 PROVE Behind(t, k) = s[k + 1]
        OBVIOUS
      <4>1. k + 1 \in 1 .. (N - 1) /\ k + 1 < j /\ k # N - 1
        BY <1>1, <2>3
      <4> QED BY <1>2, <2>2, <4>1
    <3> QED BY <1>8, <2>1, <3>1, <3>2, <3>3, <3>4
  <2>4. CASE ~(k < j)
    <3>1. k + 1 \in 1 .. N /\ t[k] = s[k + 1] /\ nd[s[k + 1]].next = Behind(s, k + 1)
      BY <1>1, <1>2, <2>4
    <3>2. s[k + 1] = p <=> j = 1 /\ k + 1 = N
      BY <1>1, <1>9, <2>4, <3>1
    <3>3. j = 1 /\ k + 1 = N => Behind(t, k) = n
      BY <1>1, <1>2, <1>9, <2>2
    <3>4. ~(j = 1 /\ k + 1 = N) => Behind(t, k) = Behind(s, k + 1)
      <4>1. CASE k + 1 = N /\ j # 1
        BY <1>1, <1>2, <2>2, <4>1 DEF Behind
      <4>2. CASE k + 1 # N
        BY <1>1, <1>2, <2>2, <2>4, <4>2 DEF Behind
      <4> QED BY <4>1, <4>2
    <3> QED BY <1>8, <2>1, <3>1, <3>2, <3>3, <3>4
  <2> QED BY <2>3, <2>4
<1>11. ASSUME NEW k \in 1 .. (N - 1) PROVE m[t[k]].prev = Before(t, k)
  <2>1. t[k] \in ToSet(t)
    BY <1>2, Places
  <2>2. Before(t, k) = IF k = 1 THEN t[N - 1] ELSE t[k - 1]
    BY <1>2 DEF Before
  <2>3. CASE k < j
    <3>1. k \in 1 .. N /\ t[k] = s[k] /\ nd[s[k]].prev = Before(s, k)
      BY <1>1, <1>2, <2>3
    <3>2. s[k] = n <=> j = N /\ k = 1
      BY <1>1, <1>9, <2>3, <3>1
    <3>3. j = N /\ k = 1 => Before(t, k) = p
      BY <1>1, <1>2, <1>9, <2>2
    <3>4. ~(j = N /\ k = 1) => Before(t, k) = Before(s, k)
      <4>1. CASE k = 1 /\ j # N
        <5>1. N - 1 \in 1 .. (N - 1) /\ ~(N - 1 < j) /\ (N - 1) + 1 = N
          BY <1>1, <4>1
        <5> QED BY <1>2, <2>2, <4>1, <5>1 DEF Before
      <4>2. CASE k # 1
        BY <1>1, <1>2, <2>2, <2>3, <4>2 DEF Before
      <4> QED BY <4>1, <4>2
    <3> QED BY <1>8, <2>1, <3>1, <3>2, <3>3, <3>4
  <2>4. CASE ~(k < j)
    <3>1. k + 1 \in 1 .. N /\ t[k] = s[k + 1] /\ nd[s[k + 1]].prev = s[k]
      BY <1>1, <1>2, <2>4 DEF Before
    <3>2. s[k + 1] = n <=> k = j
      BY <1>1, <1>9, <2>4, <3>1
    <3>3. k = j => Before(t, k) = p
      <4>1. CASE j = 1
        <5>1. N - 1 \in 1 .. (N - 1) /\ ~(N - 1 < j) /\ (N - 1) + 1 = N
          BY <1>1, <4>1
        <5> QED BY <1>2, <1>9, <2>2, <4>1, <5>1
      <4>2. CASE j # 1
        BY <1>1, <1>2, <1>9, <2>2, <4>2
      <4> QED BY <4>1, <4>2
    <3>4. k # j => Before(t, k) = s[k]
      <4> SUFFICES ASSUME k # j PROVE Before(t, k) = s[k]
        OBVIOUS
      <4>1. k - 1 \in 1 .. (N - 1) /\ ~(k - 1 < j) /\ (k - 1) + 1 = k /\ k # 1
        BY <1>1, <2>4
      <4> QED BY <1>2, <2>2, <4>1
    <3> QED BY <1>8, <2>1, <3>1, <3>2, <3>3, <3>4
  <2> QED BY <2>3, <2>4
<1> QED BY <1>2, <1>3, <1>7, <1>10, <1>11 DEF Ring, m, t, p, n

(* ItemsFrom gives the items of a chain that begins at a.                  *)
LEMMA ItemsOfChain ==
  ASSUME NEW s \in Seq(Address), OneToOne(s), NEW h, DOMAIN h.node = ToSet(s),
         NEW a, s # <<>> => a = s[1],
         \A k \in 1 .. (Len(s) - 1) : h.node[s[k]].next = s[k + 1]
  PROVE  List!ItemsFrom(h, a) = s
<1> DEFINE n == Len(s)
           c == List!Cardinality(DOMAIN h.node)
           next(b) == h.node[b].next
           Solves(g) == g = [k \in 1 .. c |-> IF k = 1 THEN a ELSE next(g[k - 1])]
           at == CHOOSE g : Solves(g)
<1>1. n \in Nat /\ DOMAIN s = 1 .. n
  BY Places
<1>2. Cardinality(ToSet(s)) = n
  <2>1. s \in Bijection(1 .. n, ToSet(s))
    <3>1. s \in [1 .. n -> ToSet(s)]
      BY <1>1, SeqDef DEF ToSet
    <3>2. s \in Injection(1 .. n, ToSet(s))
      BY <1>1, <3>1 DEF Injection, IsInjective, OneToOne
    <3>3. s \in Surjection(1 .. n, ToSet(s))
      BY <1>1, <3>1 DEF Surjection, ToSet
    <3> QED BY <3>2, <3>3 DEF Bijection
  <2>2. ExistsBijection(1 .. n, ToSet(s))
    BY <2>1 DEF ExistsBijection
  <2> QED BY <1>1, <2>2, FS_CountingElements
<1>3. c = n
  BY <1>2, SameOperators
<1>4. List!ItemsFrom(h, a) = [k \in 1 .. c |-> at[k]]
  BY DEF List!ItemsFrom
<1> HIDE DEF c
<1>5. Solves(s)
  <2>1. s = [k \in 1 .. n |-> s[k]]
    BY <1>1
  <2>2. ASSUME NEW k \in 1 .. n PROVE s[k] = IF k = 1 THEN a ELSE next(s[k - 1])
    <3>1. CASE k = 1
      BY <1>1, <3>1, Places
    <3>2. CASE k # 1
      <4>1. k - 1 \in 1 .. (n - 1) /\ (k - 1) + 1 = k
        BY <1>1, <3>2
      <4> QED BY <3>2, <4>1
    <3> QED BY <3>1, <3>2
  <2> HIDE DEF next
  <2> QED BY <1>3, <2>1, <2>2
<1>6. Solves(at)
  BY <1>5
<1> HIDE DEF at
<1>7. ASSUME NEW k \in 1 .. n PROVE at[k] = s[k]
  <2> DEFINE Bad == {i \in 1 .. n : at[i] # s[i]}
  <2>1. SUFFICES ASSUME Bad # {} PROVE FALSE
    OBVIOUS
  <2>2. PICK i \in Bad : \A l \in Bad : i <= l
    <3>1. Bad \subseteq Nat
      OBVIOUS
    <3> HIDE DEF Bad
    <3> QED BY <2>1, <3>1, LeastNumber
  <2>3. \A l \in 1 .. n : /\ at[l] = IF l = 1 THEN a ELSE next(at[l - 1])
                          /\ s[l] = IF l = 1 THEN a ELSE next(s[l - 1])
    <3> HIDE DEF next
    <3> QED BY <1>3, <1>5, <1>6
  <2>4. i \in 1 .. n /\ at[i] # s[i] /\ i # 1
    BY <2>2, <2>3
  <2>5. i - 1 \in 1 .. n /\ i - 1 \notin Bad
    <3>1. i - 1 \in 1 .. n /\ ~(i <= i - 1)
      BY <1>1, <2>4
    <3> HIDE DEF Bad
    <3> QED BY <2>2, <3>1
  <2>6. at[i - 1] = s[i - 1]
    BY <2>5
  <2> HIDE DEF next, Bad
  <2> QED BY <2>3, <2>4, <2>6
<1>8. s = [k \in 1 .. n |-> s[k]]
  BY <1>1
<1> QED BY <1>3, <1>4, <1>7, <1>8

(* An item at the front of a sequence.                                     *)
LEMMA InsertAtFront ==
  ASSUME NEW s \in Seq(Address), NEW a \in Address
  PROVE  InsertAt(s, 1, a) = <<a>> \o s
<1> DEFINE t == InsertAt(s, 1, a)
           u == <<a>> \o s
<1>1. Len(s) \in Nat /\ 1 \in 1 .. (Len(s) + 1)
  BY Places
<1>2. /\ t \in Seq(Address) /\ Len(t) = Len(s) + 1
      /\ \A i \in 1 .. (Len(s) + 1) : t[i] = IF i < 1 THEN s[i] ELSE IF i = 1 THEN a ELSE s[i - 1]
  BY <1>1, InsertAtProperties
<1>3. <<a>> \in Seq(Address) /\ Len(<<a>>) = 1 /\ <<a>>[1] = a
  OBVIOUS
<1>4. /\ u \in Seq(Address) /\ Len(u) = 1 + Len(s)
      /\ \A i \in 1 .. (1 + Len(s)) : u[i] = IF i <= 1 THEN <<a>>[i] ELSE s[i - 1]
  BY <1>1, <1>3, ConcatProperties
<1> HIDE DEF t, u
<1>5. Len(t) = Len(u) /\ \A i \in 1 .. Len(t) : t[i] = u[i]
  BY <1>1, <1>2, <1>3, <1>4
<1>6. t = u
  BY <1>2, <1>4, <1>5, SeqEqual
<1> QED BY <1>6 DEF t, u

-----------------------------------------------------------------------------
(* What the operations of list.c do to the sequence of items.              *)

(* The heap h is a list of the items of s.                                 *)
IsList(h, s) == /\ Ring(h.node, s)
                /\ h = Heap(IF s = <<>> THEN NULL ELSE s[1], h.node)

(* A list reads as its sequence, and nothing has been written wildly.      *)
LEMMA ListReads ==
  ASSUME NEW h, NEW s, IsList(h, s)
  PROVE  /\ List!ItemsFrom(h, h.head) = s
         /\ s \in Seq(Address) /\ OneToOne(s) /\ DOMAIN h.node = ToSet(s)
         /\ h.head = IF s = <<>> THEN NULL ELSE s[1]
         /\ ~h.wild
         /\ \A k \in 1 .. Len(s) : h.node[s[k]].next = Behind(s, k)
<1>1. /\ s \in Seq(Address) /\ OneToOne(s) /\ DOMAIN h.node = ToSet(s)
      /\ \A k \in 1 .. Len(s) : h.node[s[k]].next = Behind(s, k)
  BY DEF IsList, Ring
<1>2. h.head = IF s = <<>> THEN NULL ELSE s[1]
  BY HeapFields DEF IsList
<1>3. ~h.wild
  <2>1. h = Heap(h.head, h.node)
    BY <1>2 DEF IsList
  <2>2. h.wild = FALSE
    BY <2>1 DEF Heap
  <2> QED BY <2>2
<1>4. \A k \in 1 .. (Len(s) - 1) : h.node[s[k]].next = s[k + 1]
  BY <1>1, Places DEF Behind
<1>5. List!ItemsFrom(h, h.head) = s
  BY <1>1, <1>2, <1>4, ItemsOfChain
<1> QED BY <1>1, <1>2, <1>3, <1>5

(* winx_list_insert puts the item at the front, or behind `prev'.          *)
LEMMA InsertIntoList ==
  ASSUME NEW h, NEW s, IsList(h, s), NEW a \in Address, a \notin ToSet(s),
         NEW prev \in ToSet(s) \cup {NULL}
  PROVE  \E j \in 0 .. Len(s) : IsList(List!Insert(h, prev, a), InsertAt(s, j + 1, a))
<1> DEFINE N == Len(s)
           nd == h.node
<1>1. /\ s \in Seq(Address) /\ N \in Nat /\ Ring(nd, s) /\ nd \in [ToSet(s) -> Item]
      /\ ToSet(s) \subseteq Address
      /\ \A k \in 1 .. N : s[k] \in ToSet(s)
      /\ \A k \in 1 .. N : nd[s[k]].next = Behind(s, k) /\ nd[s[k]].prev = Before(s, k)
      /\ s = <<>> <=> N = 0
      /\ s = <<>> => ToSet(s) = {}
  BY Places DEF IsList, Ring
<1>2. ASSUME NEW j \in 0 .. N
      PROVE  LET t == InsertAt(s, j + 1, a)
             IN  /\ t \in Seq(Address) /\ Len(t) = N + 1 /\ t # <<>>
                 /\ \A i \in 1 .. (N + 1) :
                       t[i] = IF i < j + 1 THEN s[i] ELSE IF i = j + 1 THEN a ELSE s[i - 1]
  <2> DEFINE t == InsertAt(s, j + 1, a)
  <2>1. j + 1 \in 1 .. (N + 1)
    BY <1>1
  <2>2. /\ t \in Seq(Address) /\ Len(t) = N + 1
        /\ \A i \in 1 .. (N + 1) :
              t[i] = IF i < j + 1 THEN s[i] ELSE IF i = j + 1 THEN a ELSE s[i - 1]
    BY <1>1, <2>1, InsertAtProperties
  <2> HIDE DEF t
  <2>3. t # <<>>
    <3>1. Len(t) # 0
      BY <1>1, <2>2
    <3> QED BY <2>2, <3>1, Places
  <2> QED BY <2>2, <2>3 DEF t
<1>3. CASE s = <<>>
  <2> DEFINE t == InsertAt(s, 0 + 1, a)
             m == Alone(a)
  <2>1. N = 0 /\ 0 \in 0 .. N /\ DOMAIN nd = {}
    BY <1>1, <1>3
  <2>2. /\ t \in Seq(Address) /\ Len(t) = 1 /\ t # <<>>
        /\ \A i \in 1 .. 1 : t[i] = IF i < 0 + 1 THEN s[i] ELSE IF i = 0 + 1 THEN a ELSE s[i - 1]
    BY <1>2, <2>1
  <2> HIDE DEF t
  <2>3. t[1] = a
    BY <2>2
  <2>4. h = Heap(NULL, nd)
    BY <1>3 DEF IsList
  <2>5. List!Insert(h, prev, a) = Heap(a, m)
    BY <2>1, <2>4, InsertFirst
  <2>6. ToSet(t) = {a}
    <3>1. \A k \in 1 .. 1 : k = 1
      OBVIOUS
    <3> QED BY <2>2, <2>3, <3>1, Places
  <2>7. m \in [ToSet(t) -> Item] /\ m[a].next = a /\ m[a].prev = a
    BY <2>6 DEF Item, Alone
  <2> HIDE DEF m
  <2>8. Ring(m, t)
    <3>1. \A k \in 1 .. 1 : k = 1
      OBVIOUS
    <3> QED BY <2>2, <2>3, <2>7, <3>1 DEF Ring, OneToOne, Behind, Before
  <2>9. IsList(Heap(a, m), t)
    BY <2>2, <2>3, <2>8, HeapFields DEF IsList
  <2> QED BY <2>1, <2>5, <2>9 DEF t
<1>4. ASSUME s # <<>>, NEW j \in 0 .. N,
             prev = IF j = 0 THEN NULL ELSE s[j]
      PROVE  IsList(List!Insert(h, prev, a), InsertAt(s, j + 1, a))
  <2> DEFINE t == InsertAt(s, j + 1, a)
             p == IF j = 0 THEN s[N] ELSE s[j]
             n == IF j = N THEN s[1] ELSE s[j + 1]
             m == Spliced(nd, a, p, n)
  <2>1. N # 0 /\ j \in Int /\ 1 \in 1 .. N /\ N \in 1 .. N
    BY <1>1, <1>4
  <2>2. h = Heap(s[1], nd)
    BY <1>4 DEF IsList
  <2>3. p \in ToSet(s) /\ n \in ToSet(s) /\ s[1] \in ToSet(s)
    BY <1>1, <2>1
  <2>4. j # 0 => s[j] # NULL
    BY <1>1, <2>1, NullAssumption
  <2>5. prev = NULL <=> j = 0
    BY <1>4, <2>4
  <2>6. p = IF prev = NULL THEN nd[s[1]].prev ELSE prev
    <3>1. nd[s[1]].prev = s[N]
      BY <1>1, <2>1 DEF Before
    <3> QED BY <1>4, <2>5, <3>1
  <2>7. n = nd[p].next
    <3>1. CASE j = 0
      BY <1>1, <2>1, <3>1 DEF Behind
    <3>2. CASE j # 0
      BY <1>1, <2>1, <3>2 DEF Behind
    <3> QED BY <3>1, <3>2
  <2>8. Ring(m, t)
    BY <1>1, <1>4, RingInsert
  <2>9. List!Insert(h, prev, a) = Heap(IF prev = NULL THEN a ELSE s[1], m)
    <3> HIDE DEF p, n
    <3> QED BY <1>1, <2>2, <2>3, <2>6, <2>7, InsertStores
  <2>10. t # <<>> /\ t[1] = IF prev = NULL THEN a ELSE s[1]
    <3>1. /\ t # <<>>
          /\ \A i \in 1 .. (N + 1) :
                t[i] = IF i < j + 1 THEN s[i] ELSE IF i = j + 1 THEN a ELSE s[i - 1]
      BY <1>2
    <3> HIDE DEF t
    <3>2. 1 \in 1 .. (N + 1) /\ (1 < j + 1 <=> j # 0) /\ (1 = j + 1 <=> j = 0)
      BY <1>1, <2>1
    <3> QED BY <2>5, <3>1, <3>2
  <2> HIDE DEF m, t
  <2>11. IsList(Heap(IF prev = NULL THEN a ELSE s[1], m), t)
    BY <2>8, <2>10, HeapFields DEF IsList
  <2> QED BY <2>9, <2>11 DEF t
<1>5. CASE s # <<>>
  <2>1. CASE prev = NULL
    <3>1. 0 \in 0 .. N
      BY <1>1
    <3> QED BY <1>4, <1>5, <2>1, <3>1
  <2>2. CASE prev # NULL
    <3>1. PICK j \in 1 .. N : prev = s[j]
      BY <1>1, <2>2, Places
    <3>2. j \in 0 .. N /\ j # 0
      BY <1>1
    <3> QED BY <1>4, <1>5, <3>1, <3>2
  <2> QED BY <2>1, <2>2
<1> QED BY <1>3, <1>5

(* winx_list_remove takes the item out.                                    *)
LEMMA RemoveFromList ==
  ASSUME NEW h, NEW s, IsList(h, s), NEW j \in 1 .. Len(s)
  PROVE  IsList(List!Remove(h, s[j]), RemoveAt(s, j))
<1> DEFINE N == Len(s)
           nd == h.node
           t == RemoveAt(s, j)
<1>1. /\ s \in Seq(Address) /\ N \in Nat /\ Ring(nd, s) /\ nd \in [ToSet(s) -> Item]
      /\ ToSet(s) \subseteq Address
      /\ \A k \in 1 .. N : s[k] \in ToSet(s)
      /\ \A i, k \in 1 .. N : s[i] = s[k] => i = k
      /\ \A k \in 1 .. N : nd[s[k]].next = Behind(s, k) /\ nd[s[k]].prev = Before(s, k)
  BY Places DEF IsList, Ring, OneToOne
<1>2. N # 0 /\ j \in Int /\ 1 \in 1 .. N /\ N \in 1 .. N /\ s # <<>>
  BY <1>1
<1>3. /\ t \in Seq(Address) /\ Len(t) = N - 1
      /\ \A i \in 1 .. (N - 1) : t[i] = IF i < j THEN s[i] ELSE s[i + 1]
  BY <1>1, RemoveAtProperties
<1> HIDE DEF t
<1>4. h = Heap(s[1], nd)
  BY <1>2 DEF IsList
<1>5. CASE N = 1
  <2>0. j = 1 /\ Len(t) = 0
    <3>1. \A k \in 1 .. 1 : k = 1
      OBVIOUS
    <3> QED BY <1>3, <1>5, <3>1
  <2>1. j = 1 /\ Len(t) = 0 /\ t = <<>> /\ ToSet(t) = {}
    BY <1>3, <2>0, Places
  <2>2. DOMAIN nd = {s[1]} /\ nd[s[1]].next = s[1] /\ s[1] \in Address
    <3>1. \A k \in 1 .. 1 : k = 1
      OBVIOUS
    <3>2. ToSet(s) = {s[1]}
      BY <1>1, <1>5, <3>1, Places
    <3> QED BY <1>1, <1>2, <1>5, <3>2 DEF Behind
  <2>3. PICK n0 \in [{} -> Item] : List!Remove(h, s[1]) = Heap(NULL, n0)
    BY <1>4, <2>2, RemoveLast
  <2>4. Ring(n0, t)
    <3>1. \A k \in 1 .. 0 : FALSE
      OBVIOUS
    <3> QED BY <1>3, <2>1, <2>3, <3>1 DEF Ring, OneToOne
  <2>5. IsList(Heap(NULL, n0), t)
    BY <2>1, <2>4, HeapFields DEF IsList
  <2> QED BY <2>1, <2>3, <2>5 DEF t
<1>6. CASE N # 1
  <2> DEFINE p == Before(s, j)
             n == Behind(s, j)
             m == Cut(nd, s[j], p, n)
  <2>1. p \in ToSet(s) /\ n \in ToSet(s) /\ s[1] \in ToSet(s) /\ s[j] \in ToSet(s)
    BY <1>1, <1>2 DEF Before, Behind
  <2>2. p # s[j] /\ n # s[j]
    <3>1. /\ j = 1 => N # j
          /\ j # 1 => j - 1 \in 1 .. N /\ j - 1 # j
          /\ j = N => 1 # j
          /\ j # N => j + 1 \in 1 .. N /\ j + 1 # j
      <4>1. \A M \in Nat : \A k \in 1 .. M : M # 1 =>
               /\ k = 1 => M # k
               /\ k # 1 => k - 1 \in 1 .. M /\ k - 1 # k
               /\ k = M => 1 # k
               /\ k # M => k + 1 \in 1 .. M /\ k + 1 # k
        OBVIOUS
      <4> HIDE DEF N
      <4> QED BY <1>1, <1>6, <4>1 DEF N
    <3>2. p # s[j]
      BY <1>1, <1>2, <3>1 DEF Before
    <3>3. n # s[j]
      BY <1>1, <1>2, <3>1 DEF Behind
    <3> QED BY <3>2, <3>3
  <2>3. p = nd[s[j]].prev /\ n = nd[s[j]].next
    BY <1>1
  <2>4. Ring(m, t)
    BY <1>1, <1>6, RingRemove DEF t
  <2>5. n = IF j = N THEN s[1] ELSE s[j + 1]
    BY DEF Behind
  <2> HIDE DEF p, n
  <2>6. List!Remove(h, s[j]) = Heap(IF s[j] = s[1] THEN n ELSE s[1], m)
    BY <1>1, <1>4, <2>1, <2>2, <2>3, RemoveStores
  <2>7. s[j] = s[1] <=> j = 1
    BY <1>1, <1>2
  <2>8. Len(t) # 0 /\ 1 \in 1 .. (N - 1) /\ (j = 1 => j # N) /\ (j # 1 => 1 < j) /\ ~(1 < 1)
    BY <1>1, <1>2, <1>3, <1>6
  <2>9. t # <<>>
    BY <1>3, <2>8, Places
  <2>10. t[1] = IF s[j] = s[1] THEN n ELSE s[1]
    BY <1>3, <2>5, <2>7, <2>8
  <2> HIDE DEF m
  <2>11. IsList(Heap(IF s[j] = s[1] THEN n ELSE s[1], m), t)
    BY <2>4, <2>9, <2>10, HeapFields DEF IsList
  <2> QED BY <2>6, <2>11 DEF t
<1> QED BY <1>5, <1>6

(* What is left of a part of l is a part of l.                             *)
LEMMA PartWithout ==
  ASSUME NEW s \in Seq(Address), NEW l \in Seq(Address), Within(s, l), NEW j \in 1 .. Len(s)
  PROVE  Within(RemoveAt(s, j), l)
<1> DEFINE N == Len(s)
           t == RemoveAt(s, j)
<1>1. /\ N \in Nat /\ j \in Int /\ DOMAIN s = 1 .. N
      /\ \A k \in 1 .. N : s[k] \in ToSet(s)
  BY Places
<1>2. /\ t \in Seq(Address) /\ Len(t) = N - 1 /\ DOMAIN t = 1 .. (N - 1)
      /\ \A i \in 1 .. (N - 1) : t[i] = IF i < j THEN s[i] ELSE s[i + 1]
  BY RemoveAtProperties
<1> HIDE DEF t
<1> DEFINE at(i) == IF i < j THEN i ELSE i + 1
<1>3. \A i \in 1 .. (N - 1) : at(i) \in 1 .. N /\ t[i] = s[at(i)]
  BY <1>1, <1>2
<1>4. \A i, k \in 1 .. (N - 1) : i < k => at(i) < at(k)
  BY <1>1
<1> HIDE DEF at
<1>5. ToSet(t) \subseteq ToSet(l)
  <2>1. ToSet(s) \subseteq ToSet(l)
    BY DEF Within
  <2>2. \A x \in ToSet(t) : \E i \in 1 .. (N - 1) : x = t[i]
    <3>1. \A x \in ToSet(t) : \E i \in DOMAIN t : x = t[i]
      BY DEF ToSet
    <3>2. DOMAIN t = 1 .. (N - 1)
      BY <1>2
    <3> QED BY <3>1, <3>2, Zenon
  <2> QED BY <1>1, <1>3, <2>1, <2>2
<1>6. ASSUME NEW i \in 1 .. (N - 1), NEW k \in 1 .. (N - 1), i < k
      PROVE  \E x, y \in DOMAIN l : x < y /\ l[x] = t[i] /\ l[y] = t[k]
  <2>1. \A u, v \in 1 .. N : u < v => \E x, y \in DOMAIN l : x < y /\ l[x] = s[u] /\ l[y] = s[v]
    <3>1. \A u, v \in DOMAIN s : u < v => \E x, y \in DOMAIN l : x < y /\ l[x] = s[u] /\ l[y] = s[v]
      BY Zenon DEF Within
    <3> SUFFICES ASSUME NEW u \in 1 .. N, NEW v \in 1 .. N, u < v
                 PROVE  \E x, y \in DOMAIN l : x < y /\ l[x] = s[u] /\ l[y] = s[v]
      BY Zenon
    <3>2. u \in DOMAIN s /\ v \in DOMAIN s
      BY <1>1
    <3> QED BY <3>1, <3>2, Zenon
  <2>2. at(i) \in 1 .. N /\ at(k) \in 1 .. N /\ at(i) < at(k) /\ t[i] = s[at(i)] /\ t[k] = s[at(k)]
    BY <1>3, <1>4, <1>6
  <2>3. PICK x \in DOMAIN l, y \in DOMAIN l : x < y /\ l[x] = s[at(i)] /\ l[y] = s[at(k)]
    BY <2>1, <2>2
  <2> QED BY <2>2, <2>3
<1>7. Within(t, l)
  <2>1. DOMAIN t = 1 .. (N - 1)
    BY <1>2
  <2>2. \A i, k \in DOMAIN t : i < k => \E x, y \in DOMAIN l : x < y /\ l[x] = t[i] /\ l[y] = t[k]
    <3> SUFFICES ASSUME NEW i \in DOMAIN t, NEW k \in DOMAIN t, i < k
                 PROVE  \E x, y \in DOMAIN l : x < y /\ l[x] = t[i] /\ l[y] = t[k]
      BY Zenon
    <3>1. i \in 1 .. (N - 1) /\ k \in 1 .. (N - 1)
      BY <2>1
    <3> QED BY <1>6, <3>1, Zenon
  <2> QED BY <1>5, <2>2, Zenon DEF Within
<1> QED BY <1>7 DEF t
-----------------------------------------------------------------------------
(* The inductive invariant.                                                *)

(* While winx_list_destroy runs, the items from f on are linked forward,   *)
(* and the last one leads to the old head, which is none of the others.    *)
Chain(s) ==
  /\ s \in Seq(Address) /\ OneToOne(s) /\ s # <<>>
  /\ heap = Heap(heap.head, heap.node)
  /\ DOMAIN heap.node = ToSet(s)
  /\ f = s[1]
  /\ \A k \in 1 .. Len(s) :
        heap.node[s[k]].next = IF k = Len(s) THEN heap.head ELSE s[k + 1]
  /\ \A k \in 2 .. Len(s) : s[k] # heap.head

(* The pointer f, and what is allocated besides the items of s: in a sweep *)
(* what is before f is clean, in a release it is freed.                    *)
Walk(s) ==
  /\ pc \in {"list", "resident", "invalid", "kept", "release", "destroy", "done"}
  /\ pc \in {"list", "kept"} => held = ToSet(s) /\ (f = NULL \/ f \in ToSet(s))
  /\ pc \in {"resident", "invalid"} =>
       /\ held = ToSet(s)
       /\ s = <<>> => f = NULL
       /\ s # <<>> => \E j \in 1 .. Len(s) :
                         f = s[j] /\ \A i \in 1 .. (j - 1) : what[s[i]] # pc
  /\ pc = "release" =>
       /\ s = <<>> => f = NULL /\ held = {}
       /\ s # <<>> => \E j \in 1 .. Len(s) : f = s[j] /\ held = {s[i] : i \in j .. Len(s)}
  /\ pc \in {"destroy", "done"} => held = {}
  /\ pc = "done" => s = <<>> /\ f = NULL

(* What has been swept out so far, and that it is nothing else.            *)
Swept(s) ==
  /\ pc \in {"resident", "invalid", "kept"} => Within(s, listed)
  /\ pc \in {"invalid", "kept"} => \A a \in ToSet(s) : what[a] # "resident"
  /\ pc = "kept" => \A a \in ToSet(s) : what[a] # "invalid"
  /\ pc = "resident" => \A a \in ToSet(listed) : what[a] # "resident" => a \in ToSet(s)
  /\ pc \in {"invalid", "kept"} =>
       \A a \in ToSet(listed) : what[a] \notin {"resident", "invalid"} => a \in ToSet(s)

Inv(s) == /\ listed \in Seq(Address) /\ ~twice
          /\ pc # "destroy" => IsList(heap, s)
          /\ pc = "destroy" => Chain(s)
          /\ Walk(s) /\ Swept(s)

(* What a step may do to the sequence of items.                            *)
Change(s, t) == \/ t = s
                \/ \E a \in Address, j \in 0 .. Len(s) :
                      a \notin ToSet(s) /\ t = InsertAt(s, j + 1, a)
                \/ \E j \in 1 .. Len(s) : t = RemoveAt(s, j)

(* The sequence that the refinement mapping reads is s.                    *)
LEMMA ItemsAre ==
  ASSUME NEW s, Inv(s)
  PROVE  List!ItemsFrom(heap, IF pc = "destroy" THEN f ELSE heap.head) = s
<1>1. CASE pc # "destroy"
  BY <1>1, ListReads DEF Inv
<1>2. CASE pc = "destroy"
  <2>1. Chain(s)
    BY <1>2 DEF Inv
  <2>2. \A k \in 1 .. (Len(s) - 1) : heap.node[s[k]].next = s[k + 1]
    BY <2>1, Places DEF Chain
  <2>3. /\ s \in Seq(Address) /\ OneToOne(s) /\ DOMAIN heap.node = ToSet(s)
        /\ f = s[1]
    BY <2>1 DEF Chain
  <2>4. List!ItemsFrom(heap, f) = s
    BY <2>2, <2>3, ItemsOfChain
  <2> QED BY <1>2, <2>4
<1> QED BY <1>1, <1>2

(* The empty list satisfies it.                                            *)
LEMMA InitInv == Init => Inv(<<>>)
<1> SUFFICES ASSUME Init PROVE Inv(<<>>)
  OBVIOUS
<1> DEFINE n0 == [a \in {} |-> a]
<1>1. n0 \in [{} -> Item] /\ ToSet(<<>>) = {} /\ <<>> \in Seq(Address) /\ Len(<<>>) = 0
  <2>1. n0 \in [{} -> Item] /\ <<>> \in Seq(Address) /\ Len(<<>>) = 0
    OBVIOUS
  <2> HIDE DEF n0
  <2>2. ToSet(<<>>) = {}
    BY <2>1, Places
  <2> QED BY <2>1, <2>2
<1>2. Ring(n0, <<>>)
  BY <1>1 DEF Ring, OneToOne
<1>3. heap = Heap(NULL, n0)
  BY DEF Init, List!EmptyHeap, Heap
<1> HIDE DEF n0
<1>4. IsList(heap, <<>>)
  BY <1>2, <1>3, HeapFields DEF IsList
<1>5. /\ pc = "list" /\ held = {} /\ f = NULL /\ listed = <<>> /\ ~twice
  BY DEF Init
<1> QED BY <1>1, <1>4, <1>5 DEF Inv, Walk, Swept

(* A primed list is a list of the primed heap.                             *)
LEMMA ListPrimed == \A t : IsList(heap, t)' <=> IsList(heap', t)
BY DEF IsList, Ring, OneToOne, Behind, Before, Heap, Item

-----------------------------------------------------------------------------
(* Every step keeps it.                                                    *)

(* ftw_add_entry_to_filelist and its kin insert an item.                   *)
LEMMA AddEntryInv ==
  ASSUME NEW s, Inv(s), NEW a \in Address, NEW kind, NEW prev \in {NULL, f}, AddEntry(a, kind, prev)
  PROVE  \E t : Inv(t)' /\ Change(s, t)
<1>1. /\ pc = "list" /\ pc' = "list" /\ listed' = listed /\ twice' = twice
      /\ heap' = List!Insert(heap, prev, a) /\ held' = held \cup {a} /\ f' = a
      /\ a \notin DOMAIN heap.node
  BY DEF AddEntry
<1>2. IsList(heap, s) /\ held = ToSet(s) /\ (f = NULL \/ f \in ToSet(s))
  BY <1>1 DEF Inv, Walk
<1>3. s \in Seq(Address) /\ DOMAIN heap.node = ToSet(s)
  BY <1>2, ListReads
<1>4. PICK j \in 0 .. Len(s) : IsList(heap', InsertAt(s, j + 1, a))
  BY <1>1, <1>2, <1>3, InsertIntoList
<1> DEFINE t == InsertAt(s, j + 1, a)
<1>5. ToSet(t) = ToSet(s) \cup {a}
  <2>1. Len(s) \in Nat
    BY <1>3, Places
  <2>2. j + 1 \in 1 .. (Len(s) + 1)
    BY <2>1
  <2> QED BY <1>3, <2>2, SetWith
<1>6. Change(s, t)
  BY <1>1, <1>3 DEF Change
<1> HIDE DEF t
<1>7. IsList(heap, t)'
  BY <1>4, ListPrimed DEF t
<1>8. Walk(t)'
  BY <1>1, <1>2, <1>5 DEF Walk
<1>9. Swept(t)'
  BY <1>1 DEF Swept
<1>10. (listed \in Seq(Address) /\ ~twice)'
  BY <1>1 DEF Inv
<1>11. Inv(t)'
  BY <1>1, <1>7, <1>8, <1>9, <1>10 DEF Inv
<1> QED BY <1>6, <1>11

(* The last item goes again.                                               *)
LEMMA DropEntryInv ==
  ASSUME NEW s, Inv(s), DropEntry
  PROVE  \E t : Inv(t)' /\ Change(s, t)
<1>1. /\ pc = "list" /\ pc' = "list" /\ listed' = listed /\ f # NULL /\ f' = NULL
      /\ heap' = List!Remove(heap, f) /\ held' = held \ {f} /\ twice' = (twice \/ f \notin held)
  BY DEF DropEntry, Free
<1>2. IsList(heap, s) /\ held = ToSet(s) /\ f \in ToSet(s)
  BY <1>1 DEF Inv, Walk
<1>3. s \in Seq(Address) /\ OneToOne(s)
  BY <1>2, ListReads
<1>4. PICK j \in 1 .. Len(s) : f = s[j]
  BY <1>2, <1>3, Places
<1> DEFINE t == RemoveAt(s, j)
<1>5. ToSet(t) = ToSet(s) \ {f}
  BY <1>3, <1>4, SetWithout
<1>6. Change(s, t)
  BY DEF Change
<1>7. IsList(heap, t)'
  BY <1>1, <1>2, <1>4, RemoveFromList, ListPrimed
<1> HIDE DEF t
<1>8. Walk(t)'
  BY <1>1, <1>2, <1>5 DEF Walk
<1>9. Swept(t)'
  BY <1>1 DEF Swept
<1>10. (listed \in Seq(Address) /\ ~twice)'
  BY <1>1, <1>2 DEF Inv
<1>11. Inv(t)'
  BY <1>1, <1>7, <1>8, <1>9, <1>10 DEF Inv
<1> QED BY <1>6, <1>11

(* The walk of the disk has ended, or the owner is done with the list.     *)
LEMMA ListEndInv ==
  ASSUME NEW s, Inv(s), ListEnd
  PROVE  Inv(s)'
<1>1. /\ pc = "list" /\ pc' = "resident" /\ heap' = heap /\ what' = what /\ held' = held
      /\ twice' = twice /\ f' = heap'.head /\ listed' = List!ItemsFrom(heap, heap.head)
  BY DEF ListEnd, Enter
<1>2. IsList(heap, s) /\ held = ToSet(s)
  BY <1>1 DEF Inv, Walk
<1>3. /\ s \in Seq(Address) /\ listed' = s /\ IsList(heap', s)
      /\ f' = IF s = <<>> THEN NULL ELSE s[1]
  BY <1>1, <1>2, ListReads
<1>4. s # <<>> => 1 \in 1 .. Len(s)
  BY <1>3, Places
<1>5. Walk(s)'
  <2>1. \A i \in 1 .. (1 - 1) : FALSE
    OBVIOUS
  <2> QED BY <1>1, <1>2, <1>3, <1>4, <2>1 DEF Walk
<1>6. Within(s, s)
  BY Zenon DEF Within
<1>7. Swept(s)'
  <2>1. Within(s, listed)'
    BY <1>3, <1>6 DEF Within
  <2> QED BY <1>1, <1>3, <2>1 DEF Swept
<1>8. (listed \in Seq(Address) /\ ~twice)'
  BY <1>1, <1>3 DEF Inv
<1> QED BY <1>1, <1>3, <1>5, <1>7, <1>8, ListPrimed DEF Inv

(* winx_ftw_release is called.                                             *)
LEMMA ReleaseInv ==
  ASSUME NEW s, Inv(s), Release
  PROVE  Inv(s)'
<1>1. /\ pc \in {"list", "kept"} /\ pc' = "release" /\ heap' = heap /\ held' = held
      /\ twice' = twice /\ f' = heap'.head /\ listed' = listed
  BY DEF Release, Enter
<1>2. IsList(heap, s) /\ held = ToSet(s)
  BY <1>1 DEF Inv, Walk
<1>3. s \in Seq(Address) /\ f' = IF s = <<>> THEN NULL ELSE s[1]
  BY <1>1, <1>2, ListReads
<1>4. /\ s # <<>> => 1 \in 1 .. Len(s)
      /\ s = <<>> => ToSet(s) = {}
      /\ ToSet(s) = {s[i] : i \in 1 .. Len(s)}
  BY <1>3, Places DEF ToSet
<1>5. Walk(s)'
  BY <1>1, <1>2, <1>3, <1>4 DEF Walk
<1>6. Swept(s)'
  BY <1>1 DEF Swept
<1>7. (listed \in Seq(Address) /\ ~twice)'
  BY <1>1 DEF Inv
<1>8. IsList(heap', s)
  BY <1>1, <1>2
<1> QED BY <1>1, <1>5, <1>6, <1>7, <1>8, ListPrimed DEF Inv
(* A loop is skipped: then the list is empty.                              *)
LEMMA SkipInv ==
  ASSUME NEW s, Inv(s), Skip
  PROVE  Inv(s)'
<1>1. /\ pc \in {"resident", "invalid", "release"} /\ f = NULL
      /\ heap' = heap /\ what' = what /\ held' = held /\ f' = f /\ listed' = listed
      /\ twice' = twice
      /\ pc = "release" => pc' = "done"
      /\ pc = "resident" => pc' = "invalid"
      /\ pc = "invalid" => pc' = "kept"
  BY DEF Skip, After
<1>2. IsList(heap, s)
  BY <1>1 DEF Inv
<1>3. s \in Seq(Address)
  BY <1>2, ListReads
<1>4. s = <<>> /\ ToSet(s) = {}
  <2>1. \A j \in 1 .. Len(s) : s[j] # NULL
    BY <1>3, Places, NullAssumption
  <2>2. s = <<>>
    BY <1>1, <2>1 DEF Inv, Walk
  <2> QED BY <1>3, <2>2, Places
<1>5. held = {}
  BY <1>1, <1>4 DEF Inv, Walk
<1>6. Walk(s)'
  BY <1>1, <1>4, <1>5 DEF Walk
<1>7. Swept(s)'
  <2>1. pc # "release" => Within(s, listed)'
    BY <1>1 DEF Inv, Swept, Within
  <2> QED BY <1>1, <1>4, <2>1 DEF Inv, Swept
<1>8. (listed \in Seq(Address) /\ ~twice)'
  BY <1>1 DEF Inv
<1>9. IsList(heap', s)
  BY <1>1, <1>2
<1> QED BY <1>1, <1>6, <1>7, <1>8, <1>9, ListPrimed DEF Inv

(* A turn of the sweeps, which may take out the item that they are at.     *)
LEMMA SweepStepInv ==
  ASSUME NEW s, Inv(s), SweepStep
  PROVE  \E t : Inv(t)' /\ Change(s, t)
<1> DEFINE N == Len(s)
           next == heap.node[f].next
<1>1. /\ pc \in {"resident", "invalid"} /\ f # NULL /\ what' = what /\ listed' = listed
      /\ After["resident"] = "invalid" /\ After["invalid"] = "kept"
  BY DEF SweepStep, After
<1>2. /\ what[f] = pc => /\ heap' = List!Remove(heap, f)
                         /\ held' = held \ {f} /\ twice' = (twice \/ f \notin held)
      /\ what[f] # pc => heap' = heap /\ held' = held /\ twice' = twice
      /\ IF heap'.head = NULL \/ next = heap.head
         THEN pc' = After[pc] /\ f' = heap'.head
         ELSE pc' = pc /\ f' = next
  BY DEF SweepStep, Free, Enter
<1>3. IsList(heap, s) /\ held = ToSet(s) /\ Within(s, listed) /\ listed \in Seq(Address) /\ ~twice
  BY <1>1 DEF Inv, Walk, Swept
<1>4. /\ s \in Seq(Address) /\ OneToOne(s) /\ N \in Nat
      /\ heap.head = IF s = <<>> THEN NULL ELSE s[1]
      /\ \A k \in 1 .. N : heap.node[s[k]].next = Behind(s, k)
      /\ \A k \in 1 .. N : s[k] \in ToSet(s) /\ s[k] # NULL
      /\ \A i, k \in 1 .. N : s[i] = s[k] => i = k
      /\ \A x \in ToSet(s) : \E k \in 1 .. N : x = s[k]
  BY <1>3, ListReads, Places, NullAssumption DEF OneToOne
<1>5. PICK j \in 1 .. N : f = s[j] /\ \A i \in 1 .. (j - 1) : what[s[i]] # pc
  BY <1>1 DEF Inv, Walk
<1>6. j \in Int /\ N # 0 /\ s # <<>> /\ 1 \in 1 .. N /\ f \in ToSet(s)
  <2>1. j \in Int /\ N # 0 /\ 1 \in 1 .. N
    BY <1>4
  <2> QED BY <1>4, <1>5, <2>1, Places
<1>7. next = (IF j = N THEN s[1] ELSE s[j + 1]) /\ (next = heap.head <=> j = N)
  <2>1. next = IF j = N THEN s[1] ELSE s[j + 1]
    BY <1>4, <1>5 DEF Behind
  <2>2. j # N => j + 1 \in 1 .. N /\ j + 1 # 1
    BY <1>4
  <2>3. heap.head = s[1]
    BY <1>4, <1>6
  <2> HIDE DEF next
  <2> QED BY <1>4, <1>6, <2>1, <2>2, <2>3
<1> HIDE DEF next
<1>0. PICK t : t = IF what[f] = pc THEN RemoveAt(s, j) ELSE s
  OBVIOUS
<1>8. Change(s, t)
  BY <1>0 DEF Change
<1>9. /\ IsList(heap', t) /\ held' = ToSet(t) /\ Within(t, listed)
      /\ ToSet(t) \subseteq ToSet(s) /\ \A a \in ToSet(s) : what[a] # pc => a \in ToSet(t)
  <2>1. CASE what[f] = pc
    <3>1. IsList(heap', t)
      BY <1>0, <1>2, <1>3, <1>5, <2>1, RemoveFromList
    <3>2. ToSet(t) = ToSet(s) \ {f}
      BY <1>0, <1>4, <1>5, <2>1, SetWithout
    <3>3. Within(t, listed)
      BY <1>0, <1>3, <1>4, <2>1, PartWithout
    <3> QED BY <1>2, <1>3, <2>1, <3>1, <3>2, <3>3
  <2>2. CASE what[f] # pc
    BY <1>0, <1>2, <1>3, <2>2
  <2> QED BY <2>1, <2>2
<1>10. ~twice'
  <2>1. CASE what[f] = pc
    <3>1. f \in held
      BY <1>3, <1>6
    <3>2. twice' = (twice \/ f \notin held)
      BY <1>2, <2>1
    <3> QED BY <1>3, <3>1, <3>2, Zenon
  <2>2. CASE what[f] # pc
    <3>1. twice' = twice
      BY <1>2, <2>2
    <3> QED BY <1>3, <3>1, Zenon
  <2> QED BY <2>1, <2>2
<1>11. /\ t \in Seq(Address)
       /\ heap'.head = IF t = <<>> THEN NULL ELSE t[1]
       /\ t = <<>> => ToSet(t) = {}
       /\ t # <<>> => 1 \in 1 .. Len(t) /\ t[1] # NULL
  <2>1. t \in Seq(Address) /\ heap'.head = IF t = <<>> THEN NULL ELSE t[1]
    BY <1>9, ListReads
  <2> QED BY <2>1, Places, NullAssumption
<1>12. \A i \in 1 .. (j - 1) : i \in 1 .. Len(t) /\ t[i] = s[i]
  <2>1. CASE what[f] = pc
    <3>1. /\ Len(RemoveAt(s, j)) = N - 1
          /\ \A i \in 1 .. (N - 1) : RemoveAt(s, j)[i] = IF i < j THEN s[i] ELSE s[i + 1]
      BY <1>4, SetWithout
    <3>2. \A i \in 1 .. (j - 1) : i \in 1 .. (N - 1) /\ i < j
      BY <1>4, <1>6
    <3>3. t = RemoveAt(s, j)
      BY <1>0, <2>1
    <3> QED BY <3>1, <3>2, <3>3
  <2>2. CASE what[f] # pc
    BY <1>0, <1>4, <1>6, <2>2
  <2> QED BY <2>1, <2>2
<1>13. CASE j = N
  <2>1. pc' = After[pc] /\ f' = heap'.head
    BY <1>2, <1>7, <1>13
  <2>2. \A a \in ToSet(t) : what[a] # pc
    <3> SUFFICES ASSUME NEW a \in ToSet(t), what[a] = pc PROVE FALSE
      OBVIOUS
    <3>1. PICK i \in 1 .. N : a = s[i]
      BY <1>4, <1>9
    <3>2. i = N
      <4>1. i \in 1 .. (N - 1) => FALSE
        BY <1>5, <1>13, <3>1
      <4> QED BY <1>4, <4>1
    <3>3. a = f
      BY <1>5, <1>13, <3>1, <3>2
    <3>4. a \notin ToSet(t)
      <4>1. t = RemoveAt(s, j)
        BY <1>0, <3>3
      <4> QED BY <1>4, <1>5, <3>3, <4>1, SetWithout
    <3> QED BY <3>4
  <2>3. Walk(t)'
    <3>1. \A i \in 1 .. (1 - 1) : FALSE
      OBVIOUS
    <3>2. pc' \in {"invalid", "kept"}
      BY <1>1, <2>1
    <3>3. f' = NULL \/ f' \in ToSet(t)
      BY <1>11, <2>1, Places
    <3> QED BY <1>9, <1>11, <2>1, <3>1, <3>2, <3>3 DEF Walk
  <2>4. Swept(t)'
    <3>1. Within(t, listed)'
      BY <1>1, <1>9 DEF Within
    <3>2. CASE pc = "resident"
      <4>1. pc' = "invalid"
        BY <1>1, <2>1, <3>2
      <4>2. \A a \in ToSet(listed) : what[a] # "resident" => a \in ToSet(s)
        BY <3>2 DEF Inv, Swept
      <4> QED BY <1>1, <1>9, <2>2, <3>1, <3>2, <4>1, <4>2 DEF Swept
    <3>3. CASE pc = "invalid"
      <4>1. pc' = "kept"
        BY <1>1, <2>1, <3>3
      <4>2. /\ \A a \in ToSet(listed) : what[a] \notin {"resident", "invalid"} => a \in ToSet(s)
            /\ \A a \in ToSet(s) : what[a] # "resident"
        BY <3>3 DEF Inv, Swept
      <4> QED BY <1>1, <1>9, <2>2, <3>1, <3>3, <4>1, <4>2 DEF Swept
    <3> QED BY <1>1, <3>2, <3>3
  <2>5. pc' # "destroy"
    BY <1>1, <2>1
  <2>6. Inv(t)'
    BY <1>1, <1>3, <1>9, <1>10, <2>3, <2>4, <2>5, ListPrimed DEF Inv
  <2> QED BY <1>8, <2>6
<1>14. CASE j # N
  <2>1. j \in 1 .. (N - 1) /\ j + 1 \in 1 .. N /\ j < N
    BY <1>4, <1>14
  <2>2. \E k \in 1 .. Len(t) : t[k] = s[j + 1] /\ \A i \in 1 .. (k - 1) : what[t[i]] # pc
    <3>1. CASE what[f] = pc
      <4>1. /\ Len(RemoveAt(s, j)) = N - 1
            /\ \A i \in 1 .. (N - 1) : RemoveAt(s, j)[i] = IF i < j THEN s[i] ELSE s[i + 1]
        BY <1>4, SetWithout
      <4>2. t = RemoveAt(s, j) /\ ~(j < j)
        BY <1>0, <1>6, <3>1
      <4>3. j \in 1 .. Len(t) /\ t[j] = s[j + 1]
        BY <2>1, <4>1, <4>2
      <4> QED BY <1>5, <1>12, <4>3
    <3>2. CASE what[f] # pc
      <4>1. t = s
        BY <1>0, <3>2
      <4>2. \A i \in 1 .. ((j + 1) - 1) : i \in 1 .. (j - 1) \/ i = j
        BY <1>6
      <4>3. \A i \in 1 .. ((j + 1) - 1) : what[s[i]] # pc
        BY <1>5, <3>2, <4>2
      <4> QED BY <2>1, <4>1, <4>3
    <3> QED BY <3>1, <3>2
  <2>3. t # <<>>
    <3>1. Len(t) # 0
      BY <1>11, <2>2
    <3> QED BY <3>1
  <2>4. pc' = pc /\ f' = s[j + 1]
    <3>1. heap'.head # NULL /\ next # heap.head
      BY <1>7, <1>11, <1>14, <2>3
    <3> QED BY <1>2, <1>7, <1>14, <3>1
  <2>5. Walk(t)'
    <3>1. \E k \in 1 .. Len(t) : f' = t[k] /\ \A i \in 1 .. (k - 1) : what'[t[i]] # pc'
      BY <1>1, <2>2, <2>4
    <3>2. pc' \in {"resident", "invalid"}
      BY <1>1, <2>4
    <3> QED BY <1>9, <2>3, <3>1, <3>2 DEF Walk
  <2>6. Swept(t)'
    <3>1. Within(t, listed)'
      BY <1>1, <1>9 DEF Within
    <3>2. Swept(s)
      BY DEF Inv
    <3> QED BY <1>1, <1>9, <2>4, <3>1, <3>2 DEF Swept
  <2>7. pc' # "destroy"
    BY <1>1, <2>4
  <2>8. Inv(t)'
    BY <1>1, <1>3, <1>9, <1>10, <2>5, <2>6, <2>7, ListPrimed DEF Inv
  <2> QED BY <1>8, <2>8
<1> QED BY <1>13, <1>14
(* A turn of winx_ftw_release's loop.                                      *)
LEMMA ReleaseStepInv ==
  ASSUME NEW s, Inv(s), ReleaseStep
  PROVE  Inv(s)'
<1> DEFINE N == Len(s)
           next == heap.node[f].next
<1>1. /\ pc = "release" /\ f # NULL /\ heap' = heap /\ what' = what /\ listed' = listed
      /\ held' = held \ {f} /\ twice' = (twice \/ f \notin held)
      /\ IF next = heap.head THEN pc' = "destroy" /\ f' = heap'.head ELSE pc' = pc /\ f' = next
  BY DEF ReleaseStep, Free, Enter
<1>2. IsList(heap, s) /\ ~twice /\ listed \in Seq(Address)
  BY <1>1 DEF Inv
<1>3. /\ s \in Seq(Address) /\ OneToOne(s) /\ N \in Nat /\ DOMAIN heap.node = ToSet(s)
      /\ heap.head = IF s = <<>> THEN NULL ELSE s[1]
      /\ \A k \in 1 .. N : heap.node[s[k]].next = Behind(s, k)
      /\ \A i, k \in 1 .. N : s[i] = s[k] => i = k
  BY <1>2, ListReads, Places DEF OneToOne
<1>4. s # <<>>
  BY <1>1 DEF Inv, Walk
<1>5. PICK j \in 1 .. N : f = s[j] /\ held = {s[i] : i \in j .. N}
  BY <1>1, <1>4 DEF Inv, Walk
<1>6. j \in Int /\ j \in j .. N /\ 1 \in 1 .. N /\ heap.head = s[1]
  BY <1>3, <1>4
<1>7. next = (IF j = N THEN s[1] ELSE s[j + 1]) /\ (next = heap.head <=> j = N)
  <2>1. next = IF j = N THEN s[1] ELSE s[j + 1]
    BY <1>3, <1>5 DEF Behind
  <2>2. j # N => j + 1 \in 1 .. N /\ j + 1 # 1
    BY <1>3
  <2> HIDE DEF next
  <2> QED BY <1>3, <1>6, <2>1, <2>2
<1> HIDE DEF next
<1>8. (listed \in Seq(Address) /\ ~twice)'
  <2>1. f \in held
    BY <1>5, <1>6
  <2>2. ~twice'
    BY <1>1, <1>2, <2>1, Zenon
  <2> QED BY <1>1, <1>2, <2>2
<1>9. held' = {s[i] : i \in (j + 1) .. N}
  <2>1. \A i \in j .. N : i \in 1 .. N /\ (s[i] # f <=> i \in (j + 1) .. N)
    <3>1. \A i \in j .. N : i \in 1 .. N /\ (i # j <=> i \in (j + 1) .. N)
      BY <1>3, <1>6
    <3> QED BY <1>3, <1>5, <3>1
  <2>2. \A i \in (j + 1) .. N : i \in j .. N
    BY <1>3, <1>6
  <2> QED BY <1>1, <1>5, <2>1, <2>2
<1>10. CASE j = N
  <2>1. pc' = "destroy" /\ f' = s[1]
    BY <1>1, <1>6, <1>7, <1>10
  <2>2. held' = {}
    <3>1. \A i \in (N + 1) .. N : FALSE
      BY <1>3
    <3> QED BY <1>9, <1>10, <3>1
  <2>3. Chain(s)'
    <3>1. \A k \in 1 .. N : heap.node[s[k]].next = IF k = N THEN heap.head ELSE s[k + 1]
      BY <1>3, <1>6 DEF Behind
    <3>2. \A k \in 2 .. N : s[k] # heap.head
      <4>1. \A k \in 2 .. N : k \in 1 .. N /\ k # 1
        BY <1>3
      <4> QED BY <1>3, <1>6, <4>1
    <3>3. heap = Heap(heap.head, heap.node)
      BY <1>2, <1>3 DEF IsList
    <3>4. heap' = Heap(heap'.head, heap'.node)
      BY <1>1, <3>3
    <3>5. /\ DOMAIN heap'.node = ToSet(s)
          /\ \A k \in 1 .. N : heap'.node[s[k]].next = IF k = N THEN heap'.head ELSE s[k + 1]
          /\ \A k \in 2 .. N : s[k] # heap'.head
      BY <1>1, <1>3, <3>1, <3>2
    <3>6. (heap = Heap(heap.head, heap.node))'
      BY <3>4 DEF Heap
    <3> QED BY <1>3, <1>4, <2>1, <3>5, <3>6 DEF Chain, OneToOne
  <2>4. Walk(s)'
    BY <2>1, <2>2 DEF Walk
  <2>5. Swept(s)'
    BY <2>1 DEF Swept
  <2> QED BY <1>8, <2>1, <2>3, <2>4, <2>5 DEF Inv
<1>11. CASE j # N
  <2>1. pc' = "release" /\ f' = s[j + 1] /\ j + 1 \in 1 .. N
    BY <1>1, <1>3, <1>7, <1>11
  <2>2. Walk(s)'
    BY <1>4, <1>9, <2>1 DEF Walk
  <2>3. Swept(s)'
    BY <2>1 DEF Swept
  <2>4. IsList(heap', s)
    BY <1>1, <1>2
  <2> QED BY <1>8, <2>1, <2>2, <2>3, <2>4, ListPrimed DEF Inv
<1> QED BY <1>10, <1>11

(* A turn of winx_list_destroy: the first item goes.                       *)
LEMMA DestroyStepInv ==
  ASSUME NEW s, Inv(s), DestroyStep
  PROVE  \E t : Inv(t)' /\ Change(s, t)
<1> DEFINE N == Len(s)
           hd == heap.head
           nd == heap.node
           next == nd[f].next
           t == RemoveAt(s, 1)
           m == Freed(nd, f)
<1>1. /\ pc = "destroy" /\ held' = held /\ listed' = listed /\ twice' = twice
      /\ next = hd => /\ heap' = [List!Free(heap, f) EXCEPT !.head = NULL]
                      /\ pc' = "done" /\ f' = NULL
      /\ next # hd => heap' = List!Free(heap, f) /\ pc' = "destroy" /\ f' = next
  BY DEF DestroyStep
<1>2. /\ s \in Seq(Address) /\ OneToOne(s) /\ s # <<>> /\ N \in Nat
      /\ heap = Heap(hd, nd) /\ DOMAIN nd = ToSet(s) /\ f = s[1]
      /\ \A k \in 1 .. N : nd[s[k]].next = IF k = N THEN hd ELSE s[k + 1]
      /\ \A k \in 2 .. N : s[k] # hd
      /\ \A i, k \in 1 .. N : s[i] = s[k] => i = k
  BY <1>1, Places DEF Inv, Chain, OneToOne
<1>3. N # 0 /\ 1 \in 1 .. N
  BY <1>2, Places
<1>4. next = (IF N = 1 THEN hd ELSE s[2]) /\ (next = hd <=> N = 1)
  <2>1. next = IF N = 1 THEN hd ELSE s[2]
    <3>1. nd[s[1]].next = IF 1 = N THEN hd ELSE s[1 + 1]
      BY <1>2, <1>3
    <3>2. 1 + 1 = 2
      OBVIOUS
    <3> QED BY <1>2, <3>1, <3>2
  <2>2. N # 1 => 2 \in 2 .. N
    <3>1. \A i \in Nat : i # 0 /\ i # 1 => 2 \in 2 .. i
      OBVIOUS
    <3> QED BY <1>2, <1>3, <3>1
  <2> HIDE DEF next
  <2> QED BY <1>2, <2>1, <2>2
<1> HIDE DEF next
<1>5. /\ t \in Seq(Address) /\ Len(t) = N - 1 /\ ToSet(t) = ToSet(s) \ {f}
      /\ \A i \in 1 .. (N - 1) : t[i] = s[i + 1]
  <2>1. /\ t \in Seq(Address) /\ Len(t) = N - 1 /\ ToSet(t) = ToSet(s) \ {s[1]}
        /\ \A i \in 1 .. (N - 1) : t[i] = IF i < 1 THEN s[i] ELSE s[i + 1]
    BY <1>2, <1>3, SetWithout
  <2> HIDE DEF t
  <2> QED BY <1>2, <2>1
<1>6. Change(s, t)
  BY <1>3 DEF Change
<1> HIDE DEF t
<1>7. List!Free(heap, f) = Heap(hd, m)
  <2>1. heap = Heap(hd, nd)
    BY <1>2
  <2>2. List!Free(Heap(hd, nd), f) = Heap(hd, Freed(nd, f))
    BY AllocatesAndFrees
  <2> QED BY <2>1, <2>2
<1>8. DOMAIN m = ToSet(t) /\ \A a \in ToSet(t) : m[a] = nd[a]
  BY <1>2, <1>5 DEF Freed
<1>9. held = {} /\ ~twice /\ listed \in Seq(Address)
  BY <1>1 DEF Inv, Walk
<1>10. (listed \in Seq(Address) /\ ~twice)'
  <2>1. ~twice'
    BY <1>1, <1>9, Zenon
  <2> QED BY <1>1, <1>9, <2>1
<1>11. CASE N = 1
  <2>1. pc' = "done" /\ f' = NULL /\ held' = {} /\ heap' = Heap(NULL, m)
    <3> HIDE DEF hd, m
    <3> QED BY <1>1, <1>4, <1>7, <1>9, <1>11, HeapFields
  <2>2. t = <<>> /\ Len(t) = 0 /\ ToSet(t) = {}
    <3>1. Len(t) = 0
      BY <1>5, <1>11
    <3> QED BY <1>5, <3>1, Places
  <2>3. m \in [{} -> Item]
    BY <1>8, <2>2 DEF Freed
  <2>4. Ring(m, t)
    <3>1. \A k \in 1 .. 0 : FALSE
      OBVIOUS
    <3> HIDE DEF m
    <3> QED BY <1>5, <2>2, <2>3, <3>1 DEF Ring, OneToOne
  <2>5. IsList(heap', t)
    <3> HIDE DEF m
    <3> QED BY <2>1, <2>2, <2>4, HeapFields DEF IsList
  <2>6. Walk(t)'
    BY <2>1, <2>2 DEF Walk
  <2>7. Swept(t)'
    BY <2>1 DEF Swept
  <2>8. Inv(t)'
    BY <1>10, <2>1, <2>5, <2>6, <2>7, ListPrimed DEF Inv
  <2> QED BY <1>6, <2>8
<1>12. CASE N # 1
  <2>1. pc' = "destroy" /\ f' = s[2] /\ held' = {} /\ heap' = Heap(hd, m)
    BY <1>1, <1>4, <1>7, <1>9, <1>12
  <2>2. heap'.head = hd /\ heap'.node = m
    <3> HIDE DEF hd, m
    <3> QED BY <2>1, HeapFields
  <2>3. t # <<>> /\ 1 \in 1 .. (N - 1) /\ t[1] = s[2]
    <3>1. 1 \in 1 .. (N - 1) /\ N - 1 # 0 /\ 1 + 1 = 2
      <4>1. \A i \in Nat : i # 0 /\ i # 1 => 1 \in 1 .. (i - 1) /\ i - 1 # 0 /\ 1 + 1 = 2
        OBVIOUS
      <4> QED BY <1>2, <1>3, <1>12, <4>1
    <3> QED BY <1>5, <3>1, Places
  <2>4. OneToOne(t)
    <3>1. \A i \in 1 .. (N - 1) : i + 1 \in 1 .. N
      BY <1>2
    <3>2. \A i, k \in 1 .. (N - 1) : i + 1 = k + 1 => i = k
      BY <1>2
    <3> QED BY <1>2, <1>5, <3>1, <3>2 DEF OneToOne
  <2>5. \A k \in 1 .. (N - 1) : m[t[k]].next = IF k = N - 1 THEN hd ELSE t[k + 1]
    <3> SUFFICES ASSUME NEW k \in 1 .. (N - 1)
                 PROVE  m[t[k]].next = IF k = N - 1 THEN hd ELSE t[k + 1]
      OBVIOUS
    <3>1. /\ k + 1 \in 1 .. N /\ (k + 1 = N <=> k = N - 1)
          /\ k # N - 1 => k + 1 \in 1 .. (N - 1)
      BY <1>2
    <3>2. t[k] = s[k + 1] /\ t[k] \in ToSet(t) /\ (k # N - 1 => t[k + 1] = s[(k + 1) + 1])
      BY <1>5, <3>1, Places
    <3>3. m[t[k]] = nd[s[k + 1]]
      BY <1>8, <3>2
    <3>4. nd[s[k + 1]].next = IF k + 1 = N THEN hd ELSE s[(k + 1) + 1]
      BY <1>2, <3>1
    <3> HIDE DEF m, hd, nd
    <3> QED BY <3>1, <3>2, <3>3, <3>4
  <2>6. \A k \in 2 .. (N - 1) : t[k] # hd
    <3>1. \A k \in 2 .. (N - 1) : k \in 1 .. (N - 1) /\ k + 1 \in 2 .. N
      BY <1>2
    <3> QED BY <1>2, <1>5, <3>1
  <2>7. (heap = Heap(heap.head, heap.node))'
    <3>1. heap' = Heap(heap'.head, heap'.node)
      BY <2>1, <2>2
    <3> QED BY <3>1 DEF Heap
  <2>8. Chain(t)'
    <3>1. /\ DOMAIN heap'.node = ToSet(t)
          /\ \A k \in 1 .. Len(t) : heap'.node[t[k]].next = IF k = Len(t) THEN heap'.head ELSE t[k + 1]
          /\ \A k \in 2 .. Len(t) : t[k] # heap'.head
      <4> HIDE DEF m, hd
      <4> QED BY <1>5, <1>8, <2>2, <2>5, <2>6
    <3>2. f' = t[1]
      BY <2>1, <2>3
    <3> QED BY <1>5, <2>3, <2>4, <2>7, <3>1, <3>2 DEF Chain, OneToOne
  <2>9. Walk(t)'
    BY <2>1 DEF Walk
  <2>10. Swept(t)'
    BY <2>1 DEF Swept
  <2>11. Inv(t)'
    BY <1>10, <2>1, <2>8, <2>9, <2>10 DEF Inv
  <2> QED BY <1>6, <2>11
<1> QED BY <1>11, <1>12

(* Nothing happens.                                                        *)
LEMMA StutterInv ==
  ASSUME NEW s, Inv(s), UNCHANGED vars
  PROVE  Inv(s)'
<1>1. /\ heap' = heap /\ what' = what /\ held' = held /\ pc' = pc /\ f' = f
      /\ listed' = listed /\ twice' = twice
  BY DEF vars
<1>2. (listed \in Seq(Address) /\ ~twice)'
  BY <1>1 DEF Inv
<1>3. pc' # "destroy" => IsList(heap', s)
  BY <1>1 DEF Inv
<1>4. pc' = "destroy" => Chain(s)'
  BY <1>1 DEF Inv, Chain, Heap
<1>5. Walk(s)'
  BY <1>1 DEF Inv, Walk
<1>6. Swept(s)'
  BY <1>1 DEF Inv, Swept, Within
<1> QED BY <1>2, <1>3, <1>4, <1>5, <1>6, ListPrimed DEF Inv

(* Every step keeps the invariant and puts in or takes out at most one.    *)
LEMMA NextInv ==
  ASSUME NEW s, Inv(s), [Next]_vars
  PROVE  \E t : Inv(t)' /\ Change(s, t)
<1>1. Change(s, s)
  BY DEF Change
<1>2. ASSUME NEW a \in Address, NEW kind \in {"good", "resident", "invalid"},
             NEW prev \in {NULL, f}, AddEntry(a, kind, prev)
      PROVE  \E t : Inv(t)' /\ Change(s, t)
  BY <1>2, AddEntryInv
<1>3. CASE DropEntry
  BY <1>3, DropEntryInv
<1>4. CASE ListEnd
  BY <1>1, <1>4, ListEndInv
<1>5. CASE Release
  BY <1>1, <1>5, ReleaseInv
<1>6. CASE Skip
  BY <1>1, <1>6, SkipInv
<1>7. CASE SweepStep
  BY <1>7, SweepStepInv
<1>8. CASE ReleaseStep
  BY <1>1, <1>8, ReleaseStepInv
<1>9. CASE DestroyStep
  BY <1>9, DestroyStepInv
<1>10. CASE UNCHANGED vars
  BY <1>1, <1>10, StutterInv
<1> QED BY <1>2, <1>3, <1>4, <1>5, <1>6, <1>7, <1>8, <1>9, <1>10 DEF Next, Loops, Done

IndInv == \E s : Inv(s)

(* The invariant holds in every state.                                     *)
LEMMA IndInvHolds == Spec => []IndInv
<1>1. Init => IndInv
  BY InitInv DEF IndInv
<1>2. IndInv /\ [Next]_vars => IndInv'
  BY NextInv DEF IndInv
<1> QED BY <1>1, <1>2, PTL DEF Spec

-----------------------------------------------------------------------------
(* The same in the next state.                                             *)
LEMMA ItemsAreNext ==
  \A t : Inv(t)' => (List!ItemsFrom(heap, IF pc = "destroy" THEN f ELSE heap.head))' = t
<1> DEFINE Items == List!ItemsFrom(heap, IF pc = "destroy" THEN f ELSE heap.head)
           Reads == \A s : Inv(s) => Items = s
<1>1. Reads
  BY ItemsAre
<1> HIDE DEF Reads
<1>2. Reads'
  BY <1>1, PTL
<1> QED BY <1>2 DEF Reads

(* winx_list_insert, winx_list_remove and winx_list_destroy, and the loops *)
(* over the list of files that use them, change the ring of items as       *)
(* ListSpec changes a sequence: for any number of items, inserts at the    *)
(* front or behind the last insert, and removals anywhere, the stores of   *)
(* list.c leave one cycle, in order, with the head at its first item.      *)
THEOREM ListIsASequence == Spec => ImplementsSequence
<1> DEFINE items == List!ItemsFrom(heap, IF pc = "destroy" THEN f ELSE heap.head)
<1>1. Init => Promise!Init
  <2> SUFFICES ASSUME Init PROVE items = <<>>
    BY DEF Promise!Init
  <2> QED BY InitInv, ItemsAre
<1>2. IndInv /\ [Next]_vars => [Promise!Next]_items
  <2> SUFFICES ASSUME IndInv, [Next]_vars PROVE Promise!Next \/ items' = items
    OBVIOUS
  <2>1. PICK s : Inv(s)
    BY DEF IndInv
  <2>2. PICK t : Inv(t)' /\ Change(s, t)
    BY <2>1, NextInv
  <2>3. items = s
    BY <2>1, ItemsAre
  <2>4. items' = t
    BY <2>2, ItemsAreNext
  <2>5. s \in Seq(Address)
    BY <2>1, ListReads DEF Inv, Chain
  <2>6. CASE t = s
    BY <2>3, <2>4, <2>6
  <2>7. ASSUME NEW a \in Address, NEW j \in 0 .. Len(s), a \notin ToSet(s), t = InsertAt(s, j + 1, a)
        PROVE  Promise!Next
    <3>1. a \notin Promise!ToSet(items) /\ items' = Promise!InsertAt(items, j + 1, a)
      <4> HIDE DEF items
      <4> QED BY <2>3, <2>4, <2>7, SameOperators
    <3>2. CASE j = 0
      <4>1. items' = <<a>> \o items
        <5> HIDE DEF items
        <5> QED BY <2>3, <2>4, <2>5, <2>7, <3>2, InsertAtFront
      <4>2. Promise!InsertHead(a)
        BY <3>1, <4>1 DEF Promise!InsertHead
      <4> QED BY <4>2 DEF Promise!Next
    <3>3. CASE j # 0
      <4>1. j \in 1 .. Len(s) /\ j \in DOMAIN s /\ s[j] \in Address
        <5>1. Len(s) \in Nat
          BY <2>5, Places
        <5>2. j \in 1 .. Len(s)
          BY <3>3, <5>1
        <5> QED BY <2>5, <5>2, Places
      <4>2. Promise!InsertAfter(s[j], a)
        <5>1. j \in DOMAIN items /\ items[j] = s[j]
          BY <2>3, <4>1
        <5> QED BY <3>1, <5>1 DEF Promise!InsertAfter
      <4> QED BY <4>1, <4>2 DEF Promise!Next
    <3> QED BY <3>2, <3>3
  <2>8. ASSUME NEW j \in 1 .. Len(s), t = RemoveAt(s, j) PROVE Promise!Next
    <3>1. j \in DOMAIN s /\ s[j] \in Address
      BY <2>5, Places
    <3>2. j \in DOMAIN items /\ items[j] = s[j]
      BY <2>3, <3>1
    <3>3. items' = Promise!RemoveAt(items, j)
      <4> HIDE DEF items
      <4> QED BY <2>3, <2>4, <2>8, SameOperators
    <3>4. Promise!TakeOut(s[j])
      BY <3>2, <3>3 DEF Promise!TakeOut
    <3> QED BY <3>1, <3>4 DEF Promise!Next
  <2> QED BY <2>2, <2>6, <2>7, <2>8 DEF Change
<1> QED BY <1>1, <1>2, IndInvHolds, PTL DEF Spec, ImplementsSequence, Promise!Spec

(* ftw_remove_resident_streams takes out the resident files and no others, *)
(* ftw_remove_invalid_streams the invalid ones and no others, in a list of *)
(* any length and with any files at its ends, and both leave the rest in   *)
(* the order in which they were listed; whatever hangs on an item is freed *)
(* exactly once, nothing is left in the end, and list.c writes to no item  *)
(* that has been freed.                                                    *)
THEOREM SweepsAreExact == Spec => []SweptExactly
<1>1. IndInv => SweptExactly
  <2> SUFFICES ASSUME IndInv PROVE SweptExactly
    OBVIOUS
  <2>1. PICK s : Inv(s)
    BY DEF IndInv
  <2> DEFINE items == List!ItemsFrom(heap, heap.head)
             gone == [resident |-> {}, invalid |-> {"resident"}, kept |-> {"resident", "invalid"}]
  <2>2. pc # "destroy" => items = s
    BY <2>1, ItemsAre
  <2>3. ~heap.wild
    <3>1. CASE pc # "destroy"
      BY <2>1, <3>1, ListReads DEF Inv
    <3>2. CASE pc = "destroy"
      <4>1. heap = Heap(heap.head, heap.node)
        BY <2>1, <3>2 DEF Inv, Chain
      <4>2. heap.wild = FALSE
        BY <4>1 DEF Heap
      <4> QED BY <4>2
    <3> QED BY <3>1, <3>2
  <2>4. ~twice /\ (pc = "done" => held = {})
    BY <2>1 DEF Inv, Walk
  <2>5. /\ DOMAIN gone = {"resident", "invalid", "kept"}
        /\ gone["resident"] = {} /\ gone["invalid"] = {"resident"}
        /\ gone["kept"] = {"resident", "invalid"}
    OBVIOUS
  <2> HIDE DEF items, gone
  <2>6. ASSUME pc \in DOMAIN gone
        PROVE  /\ Within(items, listed)
               /\ \A a \in ToSet(items) : what[a] \notin gone[pc]
               /\ \A a \in ToSet(listed) : what[a] \notin gone[pc] \cup {pc} => a \in ToSet(items)
    <3>1. Swept(s) /\ items = s
      BY <2>1, <2>2, <2>5, <2>6 DEF Inv
    <3>2. CASE pc = "resident"
      BY <2>5, <3>1, <3>2 DEF Swept
    <3>3. CASE pc = "invalid"
      BY <2>5, <3>1, <3>3 DEF Swept
    <3>4. CASE pc = "kept"
      BY <2>5, <3>1, <3>4 DEF Swept
    <3> QED BY <2>5, <2>6, <3>2, <3>3, <3>4
  <2> QED BY <2>3, <2>4, <2>6 DEF SweptExactly, items, gone
<1> QED BY <1>1, IndInvHolds, PTL

(* The pointer that the running function has is null or that of an item    *)
(* that is allocated, in every loop over a list that changes under it.     *)
THEOREM PointersAreGood == Spec => []TypeOK
<1>1. IndInv => TypeOK
  <2> SUFFICES ASSUME IndInv PROVE TypeOK
    OBVIOUS
  <2>1. PICK s : Inv(s)
    BY DEF IndInv
  <2>2. s \in Seq(Address) /\ DOMAIN heap.node = ToSet(s)
    BY <2>1, ListReads DEF Inv, Chain
  <2>3. /\ ToSet(s) \subseteq Address
        /\ \A k \in 1 .. Len(s) : s[k] \in ToSet(s)
        /\ Len(s) \in Nat /\ (s # <<>> => 1 \in 1 .. Len(s))
    BY <2>2, Places
  <2>4. held \subseteq Address
    <3>1. CASE pc = "release" /\ s # <<>>
      <4>1. PICK j \in 1 .. Len(s) : held = {s[i] : i \in j .. Len(s)}
        BY <2>1, <3>1 DEF Inv, Walk
      <4>2. \A i \in j .. Len(s) : i \in 1 .. Len(s)
        BY <2>3
      <4> QED BY <2>3, <4>1, <4>2
    <3>2. CASE ~(pc = "release" /\ s # <<>>)
      BY <2>1, <2>3, <3>2 DEF Inv, Walk
    <3> QED BY <3>1, <3>2
  <2>5. f # NULL => f \in ToSet(s)
    <3>1. CASE pc = "destroy"
      BY <2>1, <2>3, <3>1 DEF Inv, Chain
    <3>2. CASE pc # "destroy"
      BY <2>1, <2>3, <3>2 DEF Inv, Walk
    <3> QED BY <3>1, <3>2
  <2>6. pc \in {"list", "resident", "invalid", "kept", "release", "destroy", "done"}
    BY <2>1 DEF Inv, Walk
  <2> QED BY <2>2, <2>4, <2>5, <2>6 DEF TypeOK
<1> QED BY <1>1, IndInvHolds, PTL
=============================================================================
