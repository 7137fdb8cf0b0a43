--------------------------- MODULE ScanDiskProofs ---------------------------
(***************************************************************************)
(* Proofs about winx_scan_disk, which gets its list of files in one of two *)
(* ways: from the master file table (MftScan), and on other volumes by the *)
(* walk through the directories (FileTreeWalk).  The first part is for     *)
(* every table, of any size and with any attributes, every number of       *)
(* failures and every change other programs make; the second for every     *)
(* tree, however deep, and every filter.                                   *)
(***************************************************************************)
EXTENDS MftScan, SequenceLemmas

(* An entry of the list.                                                   *)
Entries == [id : Ids, name : Seq(Names), parent : Ids,
            path : Seq(Seq(Names \cup {"volume"})), fragments : Nat]

(* The numbers of the records go up.                                       *)
Ascending(l) == \A i, j \in DOMAIN l : i < j => l[i].id <= l[j].id

(* The least number of a set.                                              *)
LEMMA MinOfSet ==
  ASSUME NEW T, T \subseteq Nat, T # {}
  PROVE  Min(T) \in T /\ \A y \in T : Min(T) <= y
<1>1. PICK x \in T : \A y \in T : x <= y
  BY LeastNumber
<1> QED BY <1>1 DEF Min

(* What the search by halves finds at one place, from the rows before.     *)
HStep(h, l, id, lim, i) ==
  LET m == i + (lim \div 2)
  IN  IF lim = 0 THEN 0
      ELSE IF l[m + 1].id = id THEN m + 1
      ELSE IF id > l[m + 1].id THEN h[(lim - 1) \div 2][m + 1]
      ELSE h[lim \div 2][i]

(* The table h of what the search finds, in n rows: row lim is for lim     *)
(* places that are left.                                                   *)
Searches(h, l, id, n) ==
  h = [lim \in 0 .. n |-> [i \in 0 .. Len(l) |-> HStep(h, l, id, lim, i)]]

(* Halves is defined by such a table.                                      *)
LEMMA HalvesIs ==
  ASSUME NEW l, NEW id
  PROVE  Halves(l, id) = (CHOOSE h : Searches(h, l, id, Len(l)))[Len(l)][0]
BY DEF Halves, Searches, HStep

(* Halving.                                                                *)
LEMMA Halved ==
  ASSUME NEW lim \in Nat, lim # 0
  PROVE  /\ lim \div 2 \in 0 .. (lim - 1) /\ (lim - 1) \div 2 \in 0 .. (lim - 1)
         /\ (lim \div 2) + ((lim - 1) \div 2) + 1 = lim
OBVIOUS

(* A step looks at rows before its own only.                               *)
LEMMA RowsBefore ==
  ASSUME NEW h, NEW g, NEW l, NEW id, NEW lim \in Nat, NEW i,
         \A q \in 0 .. (lim - 1) : h[q] = g[q]
  PROVE  HStep(h, l, id, lim, i) = HStep(g, l, id, lim, i)
<1>1. CASE lim = 0
  BY <1>1 DEF HStep
<1>2. CASE lim # 0
  <2>1. h[lim \div 2] = g[lim \div 2] /\ h[(lim - 1) \div 2] = g[(lim - 1) \div 2]
    BY <1>2, Halved
  <2> DEFINE m == i + (lim \div 2)
             a == (lim - 1) \div 2
             b == lim \div 2
  <2>2. h[a] = g[a] /\ h[b] = g[b]
    BY <2>1
  <2>3. \A q : HStep(q, l, id, lim, i) = IF l[m + 1].id = id THEN m + 1
                                         ELSE IF id > l[m + 1].id THEN q[a][m + 1] ELSE q[b][i]
    BY <1>2 DEF HStep
  <2> HIDE DEF m, a, b
  <2> QED BY <2>2, <2>3
<1> QED BY <1>1, <1>2

(* There is a table.                                                       *)
LEMMA SearchExists ==
  ASSUME NEW l, NEW id, NEW n \in Nat
  PROVE  \E h : Searches(h, l, id, n)
<1> DEFINE Bad == { m \in 0 .. n : ~\E h : Searches(h, l, id, m) }
<1>1. SUFFICES ASSUME Bad # {} PROVE FALSE
  <2>1. n \in 0 .. n
    OBVIOUS
  <2> QED BY <2>1
<1>2. PICK m \in Bad : \A k1 \in Bad : m <= k1
  <2>1. Bad \subseteq Nat
    OBVIOUS
  <2> HIDE DEF Bad
  <2> QED BY <1>1, <2>1, LeastNumber
<1>3. m \in 0 .. n /\ ~\E h : Searches(h, l, id, m)
  OBVIOUS
<1> DEFINE Row(h, lim) == [i \in 0 .. Len(l) |-> HStep(h, l, id, lim, i)]
<1>4. \E s : \A lim \in 0 .. (m - 1) : s[lim] = Row(s, lim)
  <2>1. CASE m = 0
    BY <2>1
  <2>2. CASE m # 0
    <3>1. m - 1 \in 0 .. n /\ ~(m <= m - 1)
      <4> HIDE DEF Bad
      <4> QED BY <1>3, <2>2
    <3>2. PICK s : Searches(s, l, id, m - 1)
      BY <1>2, <3>1
    <3>3. \A lim \in 0 .. (m - 1) : s[lim] = Row(s, lim)
      BY <3>2 DEF Searches
    <3> QED BY <3>3
  <2> QED BY <2>1, <2>2
<1>5. PICK s : \A lim \in 0 .. (m - 1) : s[lim] = Row(s, lim)
  BY <1>4
<1> DEFINE t == [lim \in 0 .. m |-> IF lim = m THEN Row(s, m) ELSE s[lim]]
<1>6. ASSUME NEW lim \in 0 .. m PROVE t[lim] = Row(t, lim)
  <2>1. t[lim] = Row(s, lim)
    <3>1. CASE lim = m
      BY <3>1
    <3>2. CASE lim # m
      <4>1. lim \in 0 .. (m - 1)
        BY <1>3, <3>2
      <4>2. t[lim] = s[lim]
        BY <3>2
      <4> HIDE DEF Row, t
      <4> QED BY <1>5, <4>1, <4>2
    <3> QED BY <3>1, <3>2
  <2>2. \A q \in 0 .. (lim - 1) : s[q] = t[q]
    <3>1. \A q \in 0 .. (lim - 1) : q \in 0 .. m /\ q # m
      BY <1>3
    <3> HIDE DEF Row
    <3> QED BY <3>1
  <2>3. lim \in Nat
    BY <1>3
  <2> HIDE DEF t, Bad
  <2>4. \A i : HStep(s, l, id, lim, i) = HStep(t, l, id, lim, i)
    BY <2>2, <2>3, RowsBefore
  <2>5. Row(s, lim) = Row(t, lim)
    BY <2>4
  <2> QED BY <2>1, <2>5
<1>7. Searches(t, l, id, m)
  <2>1. t = [lim \in 0 .. m |-> t[lim]]
    <3> HIDE DEF Row
    <3> QED OBVIOUS
  <2> HIDE DEF t
  <2> QED BY <1>6, <2>1 DEF Searches
<1> QED BY <1>3, <1>7

(* What the search by halves finds between two places of the list.         *)
Finding(h, l, id, lim, i) ==
  /\ h[lim][i] \in 0 .. Len(l)
  /\ h[lim][i] # 0 => l[h[lim][i]].id = id
  /\ Ascending(l) /\ (\E j \in (i + 1) .. (i + lim) : l[j].id = id) => h[lim][i] # 0

(* One more halving finds what there is, if the searches through fewer     *)
(* places do.                                                              *)
LEMMA SearchStep ==
  ASSUME NEW l \in Seq(Entries), NEW id \in Ids, NEW h, Searches(h, l, id, Len(l)),
         NEW lim \in Nat, NEW i \in Nat, i + lim <= Len(l),
         \A q \in 0 .. (lim - 1), j \in Nat : j + q <= Len(l) => Finding(h, l, id, q, j)
  PROVE  Finding(h, l, id, lim, i)
<1> DEFINE n == Len(l)
           m == i + (lim \div 2)
<1>1. /\ n \in Nat /\ DOMAIN l = 1 .. n /\ \A j \in 1 .. n : l[j].id \in Int
  <2>1. \A j \in 1 .. n : l[j] \in Entries
    BY LenProperties
  <2>2. \A e \in Entries : e.id \in Int
    BY RecordsAssumption DEF Entries, Ids
  <2> QED BY <2>1, <2>2, LenProperties
<1>2. id \in Int
  BY RecordsAssumption DEF Ids
<1>3. h[lim][i] = HStep(h, l, id, lim, i)
  <2>1. lim \in 0 .. n /\ i \in 0 .. n
    BY <1>1
  <2>2. h[lim] = [j \in 0 .. n |-> HStep(h, l, id, lim, j)]
    BY <2>1 DEF Searches
  <2> QED BY <2>1, <2>2
<1>4. CASE lim = 0
  <2>1. h[lim][i] = 0
    BY <1>3, <1>4 DEF HStep
  <2>2. (i + 1) .. (i + lim) = {}
    BY <1>4
  <2> QED BY <1>1, <2>1, <2>2 DEF Finding
<1>5. CASE lim # 0
  <2>1. /\ lim \div 2 \in 0 .. (lim - 1) /\ (lim - 1) \div 2 \in 0 .. (lim - 1)
        /\ (lim \div 2) + ((lim - 1) \div 2) + 1 = lim
    BY <1>5, Halved
  <2> DEFINE a == (lim - 1) \div 2
             b == lim \div 2
  <2>2. /\ a \in 0 .. (lim - 1) /\ b \in 0 .. (lim - 1) /\ b + a + 1 = lim /\ m = i + b
        /\ h[lim][i] = IF l[m + 1].id = id THEN m + 1
                       ELSE IF id > l[m + 1].id THEN h[a][m + 1] ELSE h[b][i]
    BY <1>3, <1>5, <2>1 DEF HStep
  <2> HIDE DEF a, b, m, n
  <2>3. m + 1 \in 1 .. n /\ m + 1 \in Nat /\ (m + 1) + a <= n /\ i + b <= n
    BY <1>1, <2>2 DEF n
  <2>4. l[m + 1].id \in Int
    BY <1>1, <2>3
  <2>5. CASE l[m + 1].id = id
    <3>1. h[lim][i] = m + 1 /\ m + 1 # 0 /\ m + 1 \in 0 .. n
      BY <1>1, <2>2, <2>3, <2>5
    <3> QED BY <2>5, <3>1 DEF Finding, n
  <2>6. CASE l[m + 1].id # id /\ id > l[m + 1].id
    <3>1. h[lim][i] = h[a][m + 1] /\ Finding(h, l, id, a, m + 1)
      BY <2>2, <2>3, <2>6 DEF n
    <3>2. ASSUME Ascending(l), NEW j \in (i + 1) .. (i + lim), l[j].id = id
          PROVE  j \in ((m + 1) + 1) .. ((m + 1) + a)
      <4>1. j \in 1 .. n
        BY <1>1 DEF n
      <4>2. ~(j < m + 1)
        BY <1>1, <1>2, <2>3, <2>4, <2>6, <3>2, <4>1 DEF Ascending
      <4>3. j # m + 1
        BY <2>6, <3>2
      <4> QED BY <2>2, <4>2, <4>3
    <3> QED BY <3>1, <3>2 DEF Finding
  <2>7. CASE l[m + 1].id # id /\ ~(id > l[m + 1].id)
    <3>1. h[lim][i] = h[b][i] /\ Finding(h, l, id, b, i)
      BY <2>2, <2>3, <2>7 DEF n
    <3>2. ASSUME Ascending(l), NEW j \in (i + 1) .. (i + lim), l[j].id = id
          PROVE  j \in (i + 1) .. (i + b)
      <4>1. j \in 1 .. n
        BY <1>1 DEF n
      <4>2. m + 1 < j => l[m + 1].id <= id
        BY <1>1, <2>3, <3>2, <4>1 DEF Ascending
      <4>4. ~(m + 1 < j)
        BY <1>2, <2>4, <2>7, <4>2
      <4>3. j # m + 1
        BY <2>7, <3>2
      <4> QED BY <2>2, <4>3, <4>4
    <3> QED BY <3>1, <3>2 DEF Finding
  <2> QED BY <2>5, <2>6, <2>7
<1> QED BY <1>4, <1>5

(* The search by halves gives an entry of the number or none, and one if   *)
(* there is one and the list goes up.                                      *)
LEMMA HalvesFind ==
  ASSUME NEW l \in Seq(Entries), NEW id \in Ids
  PROVE  /\ Halves(l, id) \in 0 .. Len(l)
         /\ Halves(l, id) # 0 => l[Halves(l, id)].id = id
         /\ Ascending(l) /\ (\E j \in DOMAIN l : l[j].id = id) => Halves(l, id) # 0
<1> DEFINE n == Len(l)
           h == CHOOSE g : Searches(g, l, id, n)
<1>1. n \in Nat /\ DOMAIN l = 1 .. n
  BY LenProperties
<1>2. Searches(h, l, id, n)
  <2> HIDE DEF n
  <2>1. \E g : Searches(g, l, id, n)
    BY <1>1, SearchExists
  <2> QED BY <2>1
<1>3. Halves(l, id) = h[n][0]
  BY HalvesIs
<1> HIDE DEF h
<1> DEFINE Bad == { q \in 0 .. n : \E j \in Nat : j + q <= n /\ ~Finding(h, l, id, q, j) }
<1>4. Bad = {}
  <2> SUFFICES ASSUME Bad # {} PROVE FALSE
    OBVIOUS
  <2>1. PICK q \in Bad : \A x \in Bad : q <= x
    <3>1. Bad \subseteq Nat
      OBVIOUS
    <3> HIDE DEF Bad
    <3> QED BY <3>1, LeastNumber
  <2>2. q \in 0 .. n /\ q \in Nat
    BY <1>1
  <2>3. PICK j \in Nat : j + q <= n /\ ~Finding(h, l, id, q, j)
    OBVIOUS
  <2>4. ASSUME NEW x \in 0 .. (q - 1), NEW y \in Nat, y + x <= n PROVE Finding(h, l, id, x, y)
    <3>1. x \in 0 .. n /\ ~(q <= x)
      BY <1>1, <2>2
    <3>2. x \notin Bad
      <4> HIDE DEF Bad
      <4> QED BY <2>1, <3>1
    <3> QED BY <2>4, <3>1, <3>2
  <2> HIDE DEF Bad
  <2> QED BY <1>2, <2>2, <2>3, <2>4, SearchStep
<1>5. Finding(h, l, id, n, 0)
  <2>1. n \in 0 .. n /\ 0 + n <= n
    BY <1>1
  <2> QED BY <1>4, <2>1
<1>6. (0 + 1) .. (0 + n) = DOMAIN l
  BY <1>1
<1> QED BY <1>3, <1>5, <1>6 DEF Finding

(* The first of the entries of the number that lead up to the one found.   *)
LEMMA HitFirst ==
  ASSUME NEW l \in Seq(Entries), NEW id \in Ids, Halves(l, id) # 0
  PROVE  LET hit == Halves(l, id)
             first == Min({ i \in 1 .. hit : \A j \in i .. hit : l[j].id = id })
         IN  /\ first \in 1 .. hit
             /\ \A j \in first .. hit : l[j].id = id
             /\ Ascending(l) => \A j \in 1 .. hit : l[j].id = id => first <= j
<1> DEFINE n == Len(l)
           hit == Halves(l, id)
           T == { i \in 1 .. hit : \A j \in i .. hit : l[j].id = id }
<1>1. n \in Nat /\ DOMAIN l = 1 .. n /\ \A j \in 1 .. n : l[j].id \in Int
  <2>1. \A j \in 1 .. n : l[j] \in Entries
    BY LenProperties
  <2>2. \A e \in Entries : e.id \in Int
    BY RecordsAssumption DEF Entries, Ids
  <2> QED BY <2>1, <2>2, LenProperties
<1>2. hit \in 1 .. n /\ l[hit].id = id
  BY <1>1, HalvesFind
<1> HIDE DEF hit
<1>3. hit \in T
  <2>1. \A j \in hit .. hit : j = hit
    BY <1>1, <1>2
  <2> QED BY <1>1, <1>2, <2>1
<1>4. Min(T) \in T /\ \A y \in T : Min(T) <= y
  <2>1. T \subseteq Nat
    BY <1>1, <1>2
  <2> HIDE DEF T
  <2> QED BY <1>3, <2>1, MinOfSet
<1>5. ASSUME Ascending(l), NEW j \in 1 .. hit, l[j].id = id PROVE j \in T
  <2> SUFFICES ASSUME NEW q \in j .. hit PROVE l[q].id = id
    OBVIOUS
  <2>1. q \in 1 .. n /\ j \in 1 .. n /\ j <= q /\ q <= hit /\ q \in Int /\ j \in Int /\ hit \in Int
    BY <1>1, <1>2
  <2>2. l[j].id <= l[q].id /\ l[q].id <= l[hit].id
    BY <1>1, <1>2, <1>5, <2>1 DEF Ascending
  <2> QED BY <1>1, <1>2, <1>5, <2>1, <2>2
<1> QED BY <1>4, <1>5 DEF hit

(* find_directory_by_mft_id gives a place of the list, or none, ...        *)
LEMMA FindInList ==
  ASSUME NEW l \in Seq(Entries), NEW id \in Ids
  PROVE  /\ FindFast(l, id) = 0 \/ FindFast(l, id) \in DOMAIN l
         /\ FindSlow(l, id) = 0 \/ FindSlow(l, id) \in DOMAIN l
<1> DEFINE n == Len(l)
           hit == Halves(l, id)
           first == Min({ i \in 1 .. hit : \A j \in i .. hit : l[j].id = id })
           fast == { i \in first .. n : /\ \A j \in first .. i : l[j].id = id
                                        /\ ~IsHidden(l[i].name) }
           slow == { i \in DOMAIN l : l[i].id = id /\ ~IsHidden(l[i].name) }
<1>1. n \in Nat /\ DOMAIN l = 1 .. n
  BY LenProperties
<1>2. /\ FindFast(l, id) = IF hit = 0 \/ fast = {} THEN 0 ELSE Min(fast)
      /\ FindSlow(l, id) = IF slow = {} THEN 0 ELSE Min(slow)
  BY DEF FindFast, FindSlow
<1>3. slow # {} => Min(slow) \in DOMAIN l
  <2>1. slow \subseteq DOMAIN l /\ slow \subseteq Nat
    BY <1>1
  <2> HIDE DEF slow
  <2> QED BY <2>1, MinOfSet
<1>4. hit # 0 /\ fast # {} => Min(fast) \in DOMAIN l
  <2> SUFFICES ASSUME hit # 0, fast # {} PROVE Min(fast) \in DOMAIN l
    OBVIOUS
  <2>1. first \in 1 .. hit
    BY HitFirst
  <2>2. fast \subseteq DOMAIN l /\ fast \subseteq Nat
    <3> HIDE DEF first
    <3> QED BY <1>1, <2>1
  <2> HIDE DEF fast
  <2> QED BY <2>2, MinOfSet
<1> HIDE DEF hit, fast, slow
<1> QED BY <1>2, <1>3, <1>4

(* ... and if the list goes up, the same one both ways.                    *)
LEMMA FindTheSame ==
  ASSUME NEW l \in Seq(Entries), NEW id \in Ids, Ascending(l)
  PROVE  FindFast(l, id) = FindSlow(l, id)
<1> DEFINE n == Len(l)
           hit == Halves(l, id)
           first == Min({ i \in 1 .. hit : \A j \in i .. hit : l[j].id = id })
           fast == { i \in first .. n : /\ \A j \in first .. i : l[j].id = id
                                        /\ ~IsHidden(l[i].name) }
           slow == { i \in DOMAIN l : l[i].id = id /\ ~IsHidden(l[i].name) }
<1>1. n \in Nat /\ DOMAIN l = 1 .. n /\ \A j \in 1 .. n : l[j].id \in Int
  <2>1. \A j \in 1 .. n : l[j] \in Entries
    BY LenProperties
  <2>2. \A e \in Entries : e.id \in Int
    BY RecordsAssumption DEF Entries, Ids
  <2> QED BY <2>1, <2>2, LenProperties
<1>2. /\ FindFast(l, id) = IF hit = 0 \/ fast = {} THEN 0 ELSE Min(fast)
      /\ FindSlow(l, id) = IF slow = {} THEN 0 ELSE Min(slow)
  BY DEF FindFast, FindSlow
<1>3. hit \in 0 .. n /\ (hit # 0 => l[hit].id = id)
      /\ ((\E j \in DOMAIN l : l[j].id = id) => hit # 0)
  BY HalvesFind
<1>4. CASE hit = 0
  <2>1. slow = {}
    BY <1>3, <1>4
  <2> HIDE DEF hit, fast, slow
  <2> QED BY <1>2, <1>4, <2>1
<1>5. CASE hit # 0
  <2>1. /\ first \in 1 .. hit /\ \A j \in first .. hit : l[j].id = id
        /\ \A j \in 1 .. hit : l[j].id = id => first <= j
    BY <1>5, HitFirst
  <2> HIDE DEF first, hit
  <2>2. ASSUME NEW i \in slow PROVE i \in fast
    <3>1. i \in 1 .. n /\ l[i].id = id /\ ~IsHidden(l[i].name)
      BY <1>1
    <3>2. i \in first .. n
      BY <1>1, <1>3, <2>1, <3>1
    <3>3. ASSUME NEW j \in first .. i PROVE l[j].id = id
      <4>1. j \in 1 .. n /\ first \in 1 .. n
        BY <1>1, <1>3, <2>1, <3>1
      <4>2. l[first].id = id
        BY <1>3, <2>1
      <4>3. first <= j /\ j <= i /\ first \in Int /\ i \in Int /\ j \in Int
        BY <3>1, <4>1
      <4>4. l[first].id <= l[j].id /\ l[j].id <= l[i].id
        BY <1>1, <3>1, <4>1, <4>3 DEF Ascending
      <4> QED BY <1>1, <3>1, <4>1, <4>2, <4>4
    <3> QED BY <3>1, <3>2, <3>3
  <2>3. ASSUME NEW i \in fast PROVE i \in slow
    BY <1>1, <1>3, <2>1
  <2>4. fast = slow
    BY <2>2, <2>3
  <2> HIDE DEF fast, slow
  <2> QED BY <1>2, <1>5, <2>4
<1> QED BY <1>4, <1>5

-----------------------------------------------------------------------------
(* analyze_file_record: what is known of a file's name.                    *)
Infos == [parent : Ids, name : Names, type : Types]

(* The list while record id is looked at: its streams without a name are   *)
(* in front of all entries of larger numbers, and (b) the list goes up     *)
(* from id on.                                                             *)
Growing(l, id, b) ==
  /\ b => Ascending(l) /\ \A i \in DOMAIN l : l[i].id >= id
  /\ \A i \in DOMAIN l : l[i].path = <<>>
  /\ \A i \in DOMAIN l : l[i].name = <<>> => l[i].id = id /\ \A j \in 1 .. i : l[j].id <= id

(* The numbers are numbers.                                                *)
LEMMA EntryFacts ==
  ASSUME NEW l \in Seq(Entries)
  PROVE  /\ Len(l) \in Nat /\ DOMAIN l = 1 .. Len(l)
         /\ \A i \in 1 .. Len(l) : l[i] \in Entries /\ l[i].id \in Int
<1>1. \A e \in Entries : e.id \in Int
  BY RecordsAssumption DEF Entries, Ids
<1>2. Len(l) \in Nat /\ DOMAIN l = 1 .. Len(l) /\ \A i \in 1 .. Len(l) : l[i] \in Entries
  BY LenProperties
<1> QED BY <1>1, <1>2

(* Reach is as far as no number is larger.                                 *)
LEMMA ReachIs ==
  ASSUME NEW l \in Seq(Entries), NEW id \in Ids
  PROVE  /\ Reach(l, id) \in 0 .. Len(l)
         /\ \A i \in DOMAIN l : i <= Reach(l, id) <=> \A j \in 1 .. i : l[j].id <= id
<1> DEFINE n == Len(l)
           larger == { i \in DOMAIN l : l[i].id > id }
<1>1. n \in Nat /\ DOMAIN l = 1 .. n /\ \A i \in 1 .. n : l[i].id \in Int
  BY EntryFacts
<1>2. id \in Int
  BY RecordsAssumption DEF Ids
<1>3. Reach(l, id) = IF larger = {} THEN n ELSE Min(larger) - 1
  BY DEF Reach
<1>4. CASE larger = {}
  <2>1. \A j \in 1 .. n : ~(l[j].id > id)
    BY <1>1, <1>4
  <2>2. \A j \in 1 .. n : l[j].id <= id
    BY <1>1, <1>2, <2>1
  <2> HIDE DEF larger
  <2>3. Reach(l, id) = n
    BY <1>3, <1>4
  <2>4. \A i \in 1 .. n : i <= n /\ \A j \in 1 .. i : j \in 1 .. n
    BY <1>1
  <2>5. n \in 0 .. n
    BY <1>1
  <2> QED BY <1>1, <2>2, <2>3, <2>4, <2>5
<1>5. CASE larger # {}
  <2> DEFINE m == Min(larger)
  <2>1. m \in larger /\ \A y \in larger : m <= y
    <3>1. larger \subseteq Nat
      BY <1>1
    <3> HIDE DEF larger
    <3> QED BY <1>5, <3>1, MinOfSet
  <2>2. m \in 1 .. n /\ l[m].id > id
    BY <1>1, <2>1
  <2>3. ASSUME NEW j \in 1 .. n, j < m PROVE ~(l[j].id > id)
    <3>1. l[j].id > id => j \in larger
      BY <1>1
    <3>2. ~(m <= j)
      BY <1>1, <2>2, <2>3
    <3> HIDE DEF larger, m
    <3> QED BY <2>1, <3>1, <3>2
  <2>4. Reach(l, id) = m - 1
    BY <1>3, <1>5
  <2> HIDE DEF m, larger, n
  <2>5. m - 1 \in 0 .. n
    BY <1>1, <2>2
  <2>6. ASSUME NEW i \in 1 .. n, i <= m - 1, NEW j \in 1 .. i PROVE l[j].id <= id
    <3>1. j \in 1 .. n /\ j < m
      BY <1>1, <2>2, <2>6
    <3>2. l[j].id \in Int /\ ~(l[j].id > id)
      BY <1>1, <2>3, <3>1
    <3> QED BY <1>2, <3>2
  <2>7. ASSUME NEW i \in 1 .. n, \A j \in 1 .. i : l[j].id <= id PROVE i <= m - 1
    <3>1. m \notin 1 .. i
      BY <1>1, <1>2, <2>2, <2>7
    <3> QED BY <1>1, <2>2, <3>1
  <2> QED BY <1>1, <2>4, <2>5, <2>6, <2>7 DEF n
<1> QED BY <1>4, <1>5

(* A list whose entries keep number, name and path.                        *)
LEMMA StillGrowing ==
  ASSUME NEW l \in Seq(Entries), NEW m \in Seq(Entries), NEW id \in Ids, NEW b,
         Growing(l, id, b), DOMAIN m = DOMAIN l,
         \A i \in DOMAIN l : m[i].id = l[i].id /\ m[i].name = l[i].name /\ m[i].path = l[i].path
  PROVE  Growing(m, id, b)
<1>1. \A i \in DOMAIN l : \A j \in 1 .. i : j \in DOMAIN l
  BY EntryFacts
<1> QED BY <1>1 DEF Growing, Ascending

(* A new entry at the front.                                               *)
LEMMA EntryAdded ==
  ASSUME NEW l \in Seq(Entries), NEW id \in Ids, NEW b, Growing(l, id, b), NEW e \in Entries,
         e.id = id, e.path = <<>>
  PROVE  /\ <<e>> \o l \in Seq(Entries)
         /\ 1 \in DOMAIN (<<e>> \o l) /\ (<<e>> \o l)[1] = e
         /\ Growing(<<e>> \o l, id, b)
<1> DEFINE n == Len(l)
           m == <<e>> \o l
<1>1. n \in Nat /\ DOMAIN l = 1 .. n /\ \A i \in 1 .. n : l[i].id \in Int
  BY EntryFacts
<1>2. id \in Int
  BY RecordsAssumption DEF Ids
<1>3. /\ m \in Seq(Entries) /\ Len(m) = n + 1
      /\ \A i \in 1 .. (n + 1) : m[i] = IF i <= 1 THEN e ELSE l[i - 1]
  <2>1. <<e>> \in Seq(Entries) /\ Len(<<e>>) = 1 /\ <<e>>[1] = e
    OBVIOUS
  <2>2. /\ m \in Seq(Entries) /\ Len(m) = 1 + n
        /\ \A i \in 1 .. (1 + n) : m[i] = IF i <= 1 THEN <<e>>[i] ELSE l[i - 1]
    BY <2>1, ConcatProperties
  <2>3. \A i \in 1 .. (n + 1) : i <= 1 => i = 1
    BY <1>1
  <2> HIDE DEF m, n
  <2>4. 1 + n = n + 1
    BY <1>1
  <2> QED BY <2>1, <2>2, <2>3, <2>4
<1> HIDE DEF m, n
<1>4. DOMAIN m = 1 .. (n + 1)
  BY <1>3, LenProperties
<1>5. 1 \in 1 .. (n + 1) /\ m[1] = e
  BY <1>1, <1>3
<1>6. \A i \in 1 .. (n + 1) : i # 1 => i - 1 \in 1 .. n /\ m[i] = l[i - 1]
  BY <1>1, <1>3
<1>7. \A i \in 1 .. (n + 1) : m[i].id \in Int
  BY <1>1, <1>2, <1>5, <1>6
<1>8. ASSUME b PROVE Ascending(m) /\ \A i \in DOMAIN m : m[i].id >= id
  <2>1. Ascending(l) /\ \A i \in 1 .. n : l[i].id >= id
    BY <1>1, <1>8 DEF Growing
  <2>2. ASSUME NEW i \in 1 .. (n + 1) PROVE m[i].id >= id
    BY <1>2, <1>5, <1>6, <2>1
  <2>3. ASSUME NEW i \in 1 .. (n + 1), NEW j \in 1 .. (n + 1), i < j PROVE m[i].id <= m[j].id
    <3>1. j # 1
      BY <1>1, <2>3
    <3>2. CASE i = 1
      <4>1. m[i].id = id /\ m[j].id >= id /\ m[j].id \in Int
        BY <1>5, <1>7, <2>2, <3>2
      <4> QED BY <1>2, <4>1
    <3>3. CASE i # 1
      <4>1. i - 1 \in 1 .. n /\ j - 1 \in 1 .. n /\ i - 1 < j - 1 /\ m[i] = l[i - 1] /\ m[j] = l[j - 1]
        BY <1>1, <1>6, <2>3, <3>1, <3>3
      <4>2. l[i - 1].id <= l[j - 1].id
        BY <1>1, <2>1, <4>1 DEF Ascending
      <4> QED BY <4>1, <4>2
    <3> QED BY <3>2, <3>3
  <2> QED BY <1>4, <2>2, <2>3 DEF Ascending
<1>9. \A i \in DOMAIN m : m[i].path = <<>>
  BY <1>1, <1>4, <1>5, <1>6 DEF Growing
<1>10. ASSUME NEW i \in 1 .. (n + 1), m[i].name = <<>>
       PROVE  m[i].id = id /\ \A j \in 1 .. i : m[j].id <= id
  <2>1. CASE i = 1
    <3>1. \A j \in 1 .. i : j = 1
      BY <2>1
    <3> QED BY <1>2, <1>5, <2>1, <3>1
  <2>2. CASE i # 1
    <3>1. i - 1 \in 1 .. n /\ m[i] = l[i - 1]
      BY <1>6, <2>2
    <3>2. l[i - 1].id = id /\ \A j \in 1 .. (i - 1) : l[j].id <= id
      BY <1>1, <1>10, <3>1 DEF Growing
    <3>3. ASSUME NEW j \in 1 .. i PROVE m[j].id <= id
      <4>1. CASE j = 1
        BY <1>2, <1>5, <4>1
      <4>2. CASE j # 1
        <5>1. j \in 1 .. (n + 1) /\ j - 1 \in 1 .. (i - 1)
          BY <1>1, <4>2
        <5> QED BY <1>6, <3>2, <4>2, <5>1
      <4> QED BY <4>1, <4>2
    <3> QED BY <3>1, <3>2, <3>3
  <2> QED BY <2>1, <2>2
<1>11. Growing(m, id, b)
  BY <1>4, <1>8, <1>9, <1>10 DEF Growing
<1> QED BY <1>3, <1>4, <1>5, <1>11 DEF m

(* The runs of a stream.                                                   *)
LEMMA RunsAdded ==
  ASSUME NEW l \in Seq(Entries), NEW id \in Ids, NEW b, Growing(l, id, b), NEW a,
         a.name \in Seq(Names), a.fragments \in Nat
  PROVE  /\ AddRuns(l, id, a) \in Seq(Entries)
         /\ Growing(AddRuns(l, id, a), id, b)
<1> DEFINE found == FindEntry(l, id, a.name)
           new == [id |-> id, name |-> a.name, parent |-> Root, path |-> <<>>, fragments |-> 0]
           T == { j \in DOMAIN found : found[j].id = id /\ found[j].name = a.name }
           i == Min(T)
           m == [found EXCEPT ![i].fragments = @ + a.fragments]
<1>1. new \in Entries /\ new.id = id /\ new.path = <<>> /\ new.name = a.name
  BY RecordsAssumption DEF Entries, Ids
<1>2. found \in Seq(Entries) /\ Growing(found, id, b) /\ T # {}
  <2>1. CASE HasEntry(l, id, a.name)
    <3>1. found = l
      BY <2>1 DEF FindEntry
    <3>2. PICK q \in 1 .. Reach(l, id) : l[q].id = id /\ l[q].name = a.name
      BY <2>1 DEF HasEntry
    <3>3. Reach(l, id) \in 0 .. Len(l) /\ Len(l) \in Nat /\ DOMAIN l = 1 .. Len(l)
      BY ReachIs, EntryFacts
    <3>4. q \in DOMAIN l
      BY <3>3
    <3> HIDE DEF found
    <3> QED BY <3>1, <3>2, <3>4
  <2>2. CASE ~HasEntry(l, id, a.name)
    <3>1. found = <<new>> \o l
      BY <2>2 DEF FindEntry
    <3> HIDE DEF found, new
    <3>2. found \in Seq(Entries) /\ 1 \in DOMAIN found /\ found[1] = new /\ Growing(found, id, b)
      BY <1>1, <3>1, EntryAdded
    <3> QED BY <1>1, <3>2
  <2> QED BY <2>1, <2>2
<1>3. AddRuns(l, id, a) = m
  BY DEF AddRuns
<1> HIDE DEF found
<1>4. Len(found) \in Nat /\ DOMAIN found = 1 .. Len(found) /\ \A j \in 1 .. Len(found) : found[j] \in Entries
  BY <1>2, EntryFacts
<1>5. i \in DOMAIN found
  <2>1. T \subseteq Nat /\ T \subseteq DOMAIN found
    BY <1>4
  <2> HIDE DEF T
  <2> QED BY <1>2, <2>1, MinOfSet
<1> HIDE DEF i
<1> DEFINE e == [found[i] EXCEPT !.fragments = @ + a.fragments]
<1>6. /\ e \in Entries
      /\ e.id = found[i].id /\ e.name = found[i].name /\ e.path = found[i].path
  <2> DEFINE x == found[i]
             y == x.fragments + a.fragments
  <2>1. x \in Entries
    BY <1>4, <1>5
  <2>2. y \in Nat
    BY <2>1 DEF Entries
  <2>3. e = [x EXCEPT !.fragments = y]
    OBVIOUS
  <2> HIDE DEF x, y, e
  <2>4. e \in Entries /\ e.id = x.id /\ e.name = x.name /\ e.path = x.path
    BY <2>1, <2>2, <2>3 DEF Entries
  <2> QED BY <2>4 DEF x
<1>7. /\ m = [j \in DOMAIN found |-> IF j = i THEN e ELSE found[j]]
  BY <1>5
<1> HIDE DEF e, m
<1>8. \A j \in DOMAIN found : m[j] \in Entries
  BY <1>4, <1>6, <1>7
<1>9. m \in Seq(Entries) /\ DOMAIN m = DOMAIN found
  <2>1. m \in [1 .. Len(found) -> Entries]
    BY <1>4, <1>7, <1>8
  <2> QED BY <1>4, <2>1, SeqDef
<1>10. \A j \in DOMAIN found :
          m[j].id = found[j].id /\ m[j].name = found[j].name /\ m[j].path = found[j].path
  BY <1>6, <1>7
<1>11. Growing(m, id, b)
  BY <1>2, <1>9, <1>10, StillGrowing
<1> QED BY <1>3, <1>9, <1>11

(* What is known of a file after a $FILE_NAME.                             *)
LEMMA InfoUpdated ==
  ASSUME NEW mfi \in Infos, NEW a \in Attributes, a.kind = "name", NEW id
  PROVE  UpdateFileName(mfi, a, id) \in Infos
<1>1. a \in [kind : {"name"}, parent : Ids, name : Names, type : Types]
  BY DEF Attributes
<1>2. a.parent \in Ids /\ a.name \in Names /\ a.type \in Types
  BY <1>1
<1>3. ASSUME NEW better \in BOOLEAN
      PROVE  [mfi EXCEPT !.parent = a.parent, !.name = IF better THEN a.name ELSE @,
                         !.type = IF better THEN a.type ELSE @] \in Infos
  BY <1>2 DEF Infos
<1> DEFINE better == \/ mfi.name = NoName
                     \/ mfi.type = "dos"
                     \/ mfi.type = "win32" /\ a.type = "posix"
<1>4. UpdateFileName(mfi, a, id) =
        IF a.name = NoName \/ (a.parent = id /\ id # Root) THEN mfi
        ELSE [mfi EXCEPT !.parent = a.parent, !.name = IF better THEN a.name ELSE @,
                         !.type = IF better THEN a.type ELSE @]
  BY DEF UpdateFileName
<1>5. better \in BOOLEAN
  OBVIOUS
<1> HIDE DEF better
<1> QED BY <1>3, <1>4, <1>5

(* One attribute, of a base record or of a child.                          *)
LEMMA AttributeIs ==
  ASSUME NEW s, s.list \in Seq(Entries), s.mfi \in Infos, NEW id \in Ids, NEW b,
         Growing(s.list, id, b), NEW a \in Attributes
  PROVE  \/ \E x \in Infos : Attribute(s, a, id) = [s EXCEPT !.mfi = x]
         \/ \E x \in Seq(Entries) : Growing(x, id, b) /\ Attribute(s, a, id) = [s EXCEPT !.list = x]
<1>1. CASE a.kind = "name"
  <2> DEFINE x == UpdateFileName(s.mfi, a, id)
  <2>1. x \in Infos
    BY <1>1, InfoUpdated
  <2>2. Attribute(s, a, id) = [s EXCEPT !.mfi = x]
    BY <1>1 DEF Attribute
  <2> QED BY <2>1, <2>2
<1>2. CASE a.kind # "name"
  <2>1. a.name \in Seq(Names) /\ a.fragments \in Nat
    BY <1>2 DEF Attributes
  <2> DEFINE x == AddRuns(s.list, id, a)
  <2>2. x \in Seq(Entries) /\ Growing(x, id, b)
    BY <2>1, RunsAdded
  <2>3. Attribute(s, a, id) = [s EXCEPT !.list = x]
    BY <1>2 DEF Attribute
  <2> QED BY <2>2, <2>3
<1> QED BY <1>1, <1>2

(* What a fold has after its last step.                                    *)
LEMMA FoldStays ==
  ASSUME NEW n \in Nat, NEW A, NEW base \in A, NEW step \in [1 .. n -> [A -> A]], NEW g,
         FoldWithin(g, n, A, base, step)
  PROVE  g[1 .. n] \in A
<1>1. PICK h \in [0 .. n -> A] : StepByStep(h, n, base, step, g[1 .. n])
  BY FoldSteps
<1>2. n \in 0 .. n
  OBVIOUS
<1> QED BY <1>1, <1>2 DEF StepByStep

(* One attribute of a pass.                                                *)
Taken(is, kept, a) == IF (a.kind = "list") = is THEN Append(kept, a) ELSE kept

(* A pass makes no attributes.                                             *)
LEMMA PassStays ==
  ASSUME NEW S, NEW l \in Seq(S), NEW is
  PROVE  Pass(is, l) \in Seq(S)
<1> DEFINE n == Len(l)
           A == Seq(S)
           base == <<>>
           step == [i \in 1 .. n |-> [s \in A |-> Taken(is, s, l[i])]]
           Sol(it) == [s \in SUBSET (1 .. n) |->
                         IF s = {} THEN base ELSE Taken(is, it[s \ {Max(s)}], l[Max(s)])]
           g == CHOOSE it : it = Sol(it)
<1>1. n \in Nat /\ DOMAIN l = 1 .. n /\ \A i \in 1 .. n : l[i] \in S
  BY LenProperties
<1>2. Pass(is, l) = g[1 .. n]
  <2>1. Pass(is, l) =
          (CHOOSE it : it = [s \in SUBSET DOMAIN l |->
                               IF s = {} THEN base
                               ELSE Taken(is, it[s \ {Max(s)}], l[Max(s)])])[DOMAIN l]
    BY DEF Pass, FoldLeft, MapThenFoldSet, Taken
  <2> QED BY <1>1, <2>1
<1>3. base \in A /\ step \in [1 .. n -> [A -> A]]
  <2> HIDE DEF n
  <2>1. \A i \in 1 .. n, s \in A : Taken(is, s, l[i]) \in A
    BY <1>1, AppendProperties DEF A, Taken
  <2>2. base \in A
    OBVIOUS
  <2> QED BY <2>1, <2>2
<1>4. \A i \in 1 .. n, s \in A : step[i][s] = Taken(is, s, l[i])
  OBVIOUS
<1> HIDE DEF step
<1>5. \A s \in SUBSET (1 .. n) : s # {} => Max(s) \in 1 .. n
  BY <1>1, MaxOfSet
<1>6. \E it : it = Sol(it)
  <2>1. PICK h \in [SUBSET (1 .. n) -> A] : FoldEquation(h, n, base, step)
    <3>1. n \in Nat /\ base \in A /\ step \in [1 .. n -> [A -> A]]
      BY <1>1, <1>3
    <3> HIDE DEF n, A, base
    <3> QED BY <3>1, FoldExists
  <2>2. ASSUME NEW s \in SUBSET (1 .. n)
        PROVE  h[s] = IF s = {} THEN base ELSE Taken(is, h[s \ {Max(s)}], l[Max(s)])
    <3>1. CASE s = {}
      BY <2>1, <3>1 DEF FoldEquation
    <3>2. CASE s # {}
      <4>1. s \ {Max(s)} \in SUBSET (1 .. n) /\ h[s \ {Max(s)}] \in A
        BY <2>1
      <4> HIDE DEF A, n
      <4> QED BY <1>4, <1>5, <2>1, <3>2, <4>1 DEF FoldEquation
    <3> QED BY <3>1, <3>2
  <2>3. h = Sol(h)
    BY <2>1, <2>2
  <2> QED BY <2>3
<1>7. g = Sol(g)
  <2> HIDE DEF Sol
  <2> QED BY <1>6
<1> HIDE DEF g
<1>8. FoldWithin(g, n, A, base, step)
  <2>1. g[{}] = base
    BY <1>7
  <2>2. ASSUME NEW s \in SUBSET (1 .. n), s # {}, g[s \ {Max(s)}] \in A
        PROVE  g[s] = step[Max(s)][g[s \ {Max(s)}]]
    <3>1. g[s] = Taken(is, g[s \ {Max(s)}], l[Max(s)])
      BY <1>7, <2>2
    <3> HIDE DEF A, n
    <3> QED BY <1>4, <1>5, <2>2, <3>1
  <2> QED BY <2>1, <2>2 DEF FoldWithin
<1>9. g[1 .. n] \in A
  <2> HIDE DEF n, A, base
  <2> QED BY <1>1, <1>3, <1>8, FoldStays
<1> QED BY <1>2, <1>9

(* The attributes of both passes are those of the record.                  *)
LEMMA PassesStay ==
  ASSUME NEW attrs \in Seq(Attributes)
  PROVE  Passes(attrs) \in Seq(Attributes)
BY PassStays, ConcatProperties DEF Passes

(* winx_scan_disk's clean-up, one entry of it.                             *)
Tidied(kept, e) == IF e.fragments # 0 /\ e.path # <<>> THEN Append(kept, e) ELSE kept

(* The clean-up makes no entries: what is true of all entries of the list is *)
(* true of those that are left.                                            *)
LEMMA CleanupStays ==
  ASSUME NEW S, NEW l \in Seq(S)
  PROVE  Cleanup(l) \in Seq(S)
<1> DEFINE n == Len(l)
           A == Seq(S)
           base == <<>>
           step == [i \in 1 .. n |-> [s \in A |-> Tidied(s, l[i])]]
           Sol(it) == [s \in SUBSET (1 .. n) |->
                         IF s = {} THEN base ELSE Tidied(it[s \ {Max(s)}], l[Max(s)])]
           g == CHOOSE it : it = Sol(it)
<1>1. n \in Nat /\ DOMAIN l = 1 .. n /\ \A i \in 1 .. n : l[i] \in S
  BY LenProperties
<1>2. Cleanup(l) = g[1 .. n]
  <2>1. Cleanup(l) =
          (CHOOSE it : it = [s \in SUBSET DOMAIN l |->
                               IF s = {} THEN base
                               ELSE Tidied(it[s \ {Max(s)}], l[Max(s)])])[DOMAIN l]
    BY DEF Cleanup, FoldLeft, MapThenFoldSet, Tidied
  <2> QED BY <1>1, <2>1
<1>3. base \in A /\ step \in [1 .. n -> [A -> A]]
  <2> HIDE DEF n
  <2>1. \A i \in 1 .. n, s \in A : Tidied(s, l[i]) \in A
    BY <1>1, AppendProperties DEF A, Tidied
  <2>2. base \in A
    OBVIOUS
  <2> QED BY <2>1, <2>2
<1>4. \A i \in 1 .. n, s \in A : step[i][s] = Tidied(s, l[i])
  OBVIOUS
<1> HIDE DEF step
<1>5. \A s \in SUBSET (1 .. n) : s # {} => Max(s) \in 1 .. n
  BY <1>1, MaxOfSet
<1>6. \E it : it = Sol(it)
  <2>1. PICK h \in [SUBSET (1 .. n) -> A] : FoldEquation(h, n, base, step)
    <3>1. n \in Nat /\ base \in A /\ step \in [1 .. n -> [A -> A]]
      BY <1>1, <1>3
    <3> HIDE DEF n, A, base
    <3> QED BY <3>1, FoldExists
  <2>2. ASSUME NEW s \in SUBSET (1 .. n)
        PROVE  h[s] = IF s = {} THEN base ELSE Tidied(h[s \ {Max(s)}], l[Max(s)])
    <3>1. CASE s = {}
      BY <2>1, <3>1 DEF FoldEquation
    <3>2. CASE s # {}
      <4>1. s \ {Max(s)} \in SUBSET (1 .. n) /\ h[s \ {Max(s)}] \in A
        BY <2>1
      <4> HIDE DEF A, n
      <4> QED BY <1>4, <1>5, <2>1, <3>2, <4>1 DEF FoldEquation
    <3> QED BY <3>1, <3>2
  <2>3. h = Sol(h)
    BY <2>1, <2>2
  <2> QED BY <2>3
<1>7. g = Sol(g)
  <2> HIDE DEF Sol
  <2> QED BY <1>6
<1> HIDE DEF g
<1>8. FoldWithin(g, n, A, base, step)
  <2>1. g[{}] = base
    BY <1>7
  <2>2. ASSUME NEW s \in SUBSET (1 .. n), s # {}, g[s \ {Max(s)}] \in A
        PROVE  g[s] = step[Max(s)][g[s \ {Max(s)}]]
    <3>1. g[s] = Tidied(g[s \ {Max(s)}], l[Max(s)])
      BY <1>7, <2>2
    <3> HIDE DEF A, n
    <3> QED BY <1>4, <1>5, <2>2, <3>1
  <2> QED BY <2>1, <2>2 DEF FoldWithin
<1>9. g[1 .. n] \in A
  <2> HIDE DEF n, A, base
  <2> QED BY <1>1, <1>3, <1>8, FoldStays
<1> QED BY <1>2, <1>9

-----------------------------------------------------------------------------
(* Paths as they are built, one item for a name.                           *)
Paths == Seq(Seq(Names \cup {"volume"}))

(* No request has failed yet.                                              *)
Calm == bound.faults = Faults

(* No directory of the path is missing.                                    *)
Clear(p) == \A i \in DOMAIN p : p[i] # Nothing

(* The table of the volume, whatever other programs do to it.              *)
TableInv ==
  /\ mft \in Tables /\ OwnRecord(mft)
  /\ size \in 1 .. Records
  /\ bound \in [changes : 0 .. Changes, faults : 0 .. Faults]

(* The variables of the scan have the values they are meant for.           *)
Typed ==
  /\ list \in Seq(Entries) /\ mft_id \in Ids /\ errors \in Nat /\ k \in Nat
  /\ walk \in [child : Paths, parent : Ids, full : BOOLEAN, fast : BOOLEAN]
  /\ file \in [id : Ids, mfi : Infos, todo : Seq(Attributes),
           entries : Seq(ListEntries), raw : BOOLEAN]
  /\ pc \in {"layout", "scan", "file", "paths", "path", "done"}
  /\ result \in Seq(Entries)

(* Every entry is of a record that has been read, and goes in front of     *)
(* those read before, which have larger numbers.                           *)
ListInv ==
  /\ Typed
  /\ Calm => Ascending(list)
  /\ pc = "layout" => list = <<>>
  /\ pc \in {"layout", "scan"} => \A i \in DOMAIN list : list[i].path = <<>>
  /\ pc = "scan" /\ Calm => \A i \in DOMAIN list : list[i].id > mft_id
  /\ pc = "file" => Growing(list, file.id, Calm) /\ (Calm => file.id <= mft_id)
  /\ pc # "file" => \A i \in DOMAIN list : list[i].name # <<>>
  /\ pc = "paths" => k # 0
  /\ pc = "path" => k \in DOMAIN list /\ walk.child # <<>>

(* A directory that was not found has been counted as an error.            *)
PathInv ==
  /\ pc # "done" => result = <<>>
  /\ ~Partial /\ errors = 0 =>
       /\ \A i \in DOMAIN list : Clear(list[i].path)
       /\ pc = "path" => Clear(walk.child)
  /\ ~Partial => \A i \in DOMAIN result : Clear(result[i].path)

-----------------------------------------------------------------------------
(* Numbers of records.                                                     *)
LEMMA IdFacts == /\ \A i \in Ids : i \in Nat /\ i < Records
                 /\ \A i \in Nat : i < Records => i \in Ids
                 /\ 0 \in Ids /\ Root \in Ids /\ Records \in Nat
BY RecordsAssumption DEF Ids

(* The last record in use up to one.                                       *)
LEMMA LastInUse ==
  ASSUME TableInv, NEW upto \in Ids
  PROVE  InUse(upto) \in 0 .. upto /\ InUse(upto) \in Ids
<1> DEFINE T == { r \in 0 .. upto : mft[r].use # "free" }
<1>1. mft[0].use = "base"
  BY DEF TableInv, OwnRecord
<1>2. upto \in Nat /\ upto < Records /\ Records \in Nat
  BY IdFacts
<1>3. T \subseteq 0 .. upto /\ T # {}
  BY <1>1, <1>2
<1>4. InUse(upto) = Max(T)
  BY DEF InUse
<1> HIDE DEF T
<1>5. PICK x \in T : \A y \in T : y <= x
  BY <1>2, <1>3, GreatestNumber
<1>6. \A y \in T : x >= y
  <2>1. \A y \in T : y \in Int
    BY <1>3
  <2> QED BY <1>5, <2>1
<1>7. Max(T) \in T
  BY <1>6 DEF Max
<1>8. InUse(upto) \in 0 .. upto
  BY <1>3, <1>4, <1>7
<1>9. InUse(upto) \in Nat /\ InUse(upto) < Records
  BY <1>2, <1>8
<1> QED BY <1>8, <1>9, IdFacts

(* A request that fails is counted.                                        *)
LEMMA FaultSpent ==
  ASSUME TableInv, Spend("faults")
  PROVE  /\ bound' \in [changes : 0 .. Changes, faults : 0 .. Faults]
         /\ ~Calm'
<1>1. /\ bound.faults \in 0 .. Faults /\ bound.changes \in 0 .. Changes /\ bound.faults > 0
      /\ bound' = [bound EXCEPT !.faults = @ - 1]
      /\ bound \in [changes : 0 .. Changes, faults : 0 .. Faults]
  BY DEF TableInv, Spend
<1>2. bound'.faults = bound.faults - 1 /\ bound'.changes = bound.changes
  BY <1>1
<1>3. bound.faults - 1 \in 0 .. Faults /\ bound.faults - 1 # Faults
  BY <1>1, BoundsAssumption
<1> QED BY <1>1, <1>2, <1>3 DEF Calm

(* Cutting a path leaves its beginning.                                    *)
LEMMA CutFacts ==
  ASSUME NEW p \in Paths
  PROVE  /\ Cut(p) \in Paths
         /\ p # <<>> => Cut(p) # <<>>
         /\ Clear(p) => Clear(Cut(p))
         /\ Len(Cut(p)) <= MaxPath
<1> DEFINE S == Seq(Names \cup {"volume"})
           n == Len(p)
           T == {n, MaxPath}
           m == Min(T)
<1>1. p \in Seq(S) /\ n \in Nat /\ DOMAIN p = 1 .. n
  BY LenProperties DEF Paths
<1>2. MaxPath \in Nat /\ MaxPath # 0
  BY PathAssumption
<1>3. m \in {n, MaxPath} /\ m <= n /\ m <= MaxPath
  <2>1. T \subseteq Nat /\ T # {} /\ n \in T /\ MaxPath \in T
    BY <1>1, <1>2
  <2> HIDE DEF T, n
  <2>2. m \in T /\ m <= n /\ m <= MaxPath
    BY <2>1, MinOfSet
  <2> QED BY <2>2 DEF T
<1>4. Cut(p) = SubSeq(p, 1, m)
  BY DEF Cut
<1> HIDE DEF m, S, n
<1>5. m \in Nat /\ m \in 0 .. n /\ (n # 0 => m # 0)
  BY <1>1, <1>2, <1>3
<1> DEFINE c == SubSeq(p, 1, m)
<1>6. c \in Seq(S) /\ Len(c) = m /\ \A i \in 1 .. m : c[i] = p[i]
  <2>1. /\ 1 \in 1 .. (n + 1) /\ m \in (1 - 1) .. n /\ (m - 1) + 1 = m
        /\ \A i \in 1 .. m : (1 + i) - 1 = i
    BY <1>1, <1>5
  <2>2. /\ SubSeq(p, 1, m) \in Seq(S) /\ Len(SubSeq(p, 1, m)) = (m - 1) + 1
        /\ \A i \in 1 .. ((m - 1) + 1) : SubSeq(p, 1, m)[i] = p[(1 + i) - 1]
    BY <1>1, <2>1, PartOfSeq DEF n
  <2> QED BY <2>1, <2>2
<1> HIDE DEF c
<1>7. DOMAIN c = 1 .. m
  BY <1>6, LenProperties
<1>8. p # <<>> => c # <<>>
  <2>1. p # <<>> => n # 0
    BY <1>1, EmptySeq DEF n
  <2>2. c = <<>> => Len(c) = 0
    BY EmptySeq
  <2> QED BY <1>5, <1>6, <2>1, <2>2
<1>9. Clear(p) => Clear(c)
  <2>1. \A i \in 1 .. m : i \in 1 .. n
    BY <1>1, <1>5
  <2> QED BY <1>1, <1>6, <1>7, <2>1 DEF Clear
<1> QED BY <1>3, <1>4, <1>6, <1>8, <1>9 DEF c, S, Paths

(* A path in front of another.                                             *)
LEMMA JoinFacts ==
  ASSUME NEW p \in Paths, NEW q \in Paths, q # <<>>
  PROVE  /\ p \o q \in Paths /\ p \o q # <<>>
         /\ Clear(p) /\ Clear(q) => Clear(p \o q)
<1> DEFINE S == Seq(Names \cup {"volume"})
           a == Len(p)
           c == Len(q)
<1>1. /\ p \in Seq(S) /\ q \in Seq(S) /\ a \in Nat /\ c \in Nat /\ c # 0
      /\ DOMAIN p = 1 .. a /\ DOMAIN q = 1 .. c
  <2>1. c # 0
    BY EmptySeq DEF Paths
  <2> QED BY <2>1, LenProperties DEF Paths
<1>2. /\ p \o q \in Seq(S) /\ Len(p \o q) = a + c
      /\ \A i \in 1 .. (a + c) : (p \o q)[i] = IF i <= a THEN p[i] ELSE q[i - a]
  <2> HIDE DEF S
  <2> QED BY <1>1, ConcatProperties
<1>3. DOMAIN (p \o q) = 1 .. (a + c)
  BY <1>2, LenProperties
<1>4. p \o q # <<>>
  <2>1. a + c # 0
    BY <1>1
  <2> QED BY <1>2, <2>1, EmptySeq
<1>5. ASSUME Clear(p), Clear(q), NEW i \in 1 .. (a + c) PROVE (p \o q)[i] # Nothing
  <2>1. CASE i <= a
    <3>1. i \in 1 .. a
      BY <1>1, <2>1
    <3> QED BY <1>1, <1>2, <1>5, <2>1, <3>1 DEF Clear
  <2>2. CASE ~(i <= a)
    <3>1. i - a \in 1 .. c
      BY <1>1, <2>2
    <3> QED BY <1>1, <1>2, <1>5, <2>2, <3>1 DEF Clear
  <2> QED BY <2>1, <2>2
<1> QED BY <1>2, <1>3, <1>4, <1>5 DEF Clear, Paths

(* The names of files are names that a path can have.                      *)
LEMMA WiderNames ==
  ASSUME NEW q \in Seq(Names)
  PROVE  q \in Seq(Names \cup {"volume"})
<1>1. PICK n \in Nat : q \in [1 .. n -> Names]
  BY SeqDef
<1>2. q \in [1 .. n -> Names \cup {"volume"}]
  BY <1>1
<1> QED BY <1>2, SeqDef

(* A path of one name.                                                     *)
LEMMA OneName ==
  ASSUME NEW x \in Seq(Names \cup {"volume"})
  PROVE  <<x>> \in Paths /\ <<x>> # <<>> /\ (x # Nothing => Clear(<<x>>))
<1>1. DOMAIN <<x>> = {1} /\ <<x>>[1] = x
  OBVIOUS
<1> QED BY <1>1 DEF Paths, Clear

(* The file's name goes to all its streams.                                *)
LEMMA NamedFacts ==
  ASSUME Typed, NEW b, Growing(list, file.id, b)
  PROVE  /\ Named(list) \in Seq(Entries) /\ DOMAIN Named(list) = DOMAIN list
         /\ b => Ascending(Named(list)) /\ \A i \in DOMAIN list : Named(list)[i].id >= file.id
         /\ \A i \in DOMAIN list : Named(list)[i].path = <<>> /\ Named(list)[i].name # <<>>
<1> DEFINE m == Named(list)
           n == Len(list)
<1>1. n \in Nat /\ DOMAIN list = 1 .. n /\ \A i \in 1 .. n : list[i] \in Entries
  BY EntryFacts DEF Typed
<1>2. file.id \in Ids /\ file.mfi.name \in Names /\ file.mfi.parent \in Ids
  BY DEF Typed, Infos
<1>3. m = [i \in DOMAIN list |-> IF i <= Reach(list, file.id) /\ list[i].id = file.id
                                 THEN [list[i] EXCEPT !.name = <<file.mfi.name>> \o @,
                                                      !.parent = file.mfi.parent]
                                 ELSE list[i]]
  BY DEF Named
<1> HIDE DEF m, n
<1>4. ASSUME NEW i \in DOMAIN list
      PROVE  /\ m[i] \in Entries /\ m[i].id = list[i].id /\ m[i].path = list[i].path
             /\ m[i].name # <<>>
  <2> DEFINE e == list[i]
             x == <<file.mfi.name>> \o e.name
             y == file.mfi.parent
  <2>1. e \in Entries
    BY <1>1
  <2>2. CASE i <= Reach(list, file.id) /\ list[i].id = file.id
    <3>1. m[i] = [e EXCEPT !.name = x, !.parent = y]
      BY <1>3, <2>2
    <3>2. x \in Seq(Names) /\ x # <<>>
      <4>1. <<file.mfi.name>> \in Seq(Names) /\ e.name \in Seq(Names) /\ Len(<<file.mfi.name>>) = 1
        BY <1>2, <2>1 DEF Entries
      <4>2. x \in Seq(Names) /\ Len(x) = 1 + Len(e.name) /\ Len(e.name) \in Nat
        <5> DEFINE u == <<file.mfi.name>>
                   w == e.name
        <5> HIDE DEF u, w, e
        <5> QED BY <4>1, ConcatProperties, LenProperties DEF u, w
      <4>3. Len(x) # 0
        BY <4>2
      <4> QED BY <4>2, <4>3, EmptySeq
    <3> HIDE DEF e, x, y
    <3>3. y \in Ids
      BY <1>2 DEF y
    <3>4. m[i] \in Entries /\ m[i].id = e.id /\ m[i].path = e.path /\ m[i].name = x
      BY <2>1, <3>1, <3>2, <3>3 DEF Entries
    <3> QED BY <3>2, <3>4 DEF e
  <2>3. CASE ~(i <= Reach(list, file.id) /\ list[i].id = file.id)
    <3>1. m[i] = list[i]
      BY <1>3, <2>3
    <3>2. list[i].name # <<>>
      <4> SUFFICES ASSUME list[i].name = <<>> PROVE FALSE
        OBVIOUS
      <4>1. list[i].id = file.id /\ \A j \in 1 .. i : list[j].id <= file.id
        BY DEF Growing
      <4>2. i <= Reach(list, file.id)
        BY <1>2, <4>1, ReachIs DEF Typed
      <4> QED BY <2>3, <4>1, <4>2
    <3> QED BY <2>1, <3>1, <3>2
  <2> QED BY <2>2, <2>3
<1>5. DOMAIN m = DOMAIN list
  BY <1>3
<1>6. m \in Seq(Entries)
  <2>1. m \in [1 .. n -> Entries]
    BY <1>1, <1>3, <1>4
  <2> QED BY <1>1, <2>1, SeqDef
<1>7. b => Ascending(m) /\ \A i \in DOMAIN list : m[i].id >= file.id
  BY <1>4, <1>5 DEF Growing, Ascending
<1>8. \A i \in DOMAIN list : m[i].path = <<>>
  BY <1>4 DEF Growing
<1> QED BY <1>4, <1>5, <1>6, <1>7, <1>8 DEF m

(* Entries that keep their numbers.                                        *)
LEMMA SameNumbers ==
  ASSUME NEW l, NEW m, Ascending(l), DOMAIN m = DOMAIN l, \A i \in DOMAIN l : m[i].id = l[i].id
  PROVE  Ascending(m)
BY DEF Ascending

(* A table of the values it is meant for.                                  *)
LEMMA RecordFacts ==
  ASSUME TableInv, NEW r \in Ids
  PROVE  mft[r].attrs \in Seq(Attributes)
BY DEF TableInv, Tables

(* A base record: its attributes are still to be looked at.                *)
LEMMA AnalyzeStep ==
  ASSUME TableInv, Typed, NEW id \in Ids, NEW b, Analyze(id),
         b => Ascending(list) /\ \A i \in DOMAIN list : list[i].id >= id,
         \A i \in DOMAIN list : list[i].path = <<>> /\ list[i].name # <<>>
  PROVE  /\ list' \in Seq(Entries) /\ Growing(list', id, b) /\ pc' = "file"
         /\ file' \in [id : Ids, mfi : Infos, todo : Seq(Attributes),
                        entries : Seq(ListEntries), raw : BOOLEAN]
         /\ file'.id = id
<1> DEFINE attrs == Passes(mft[id].attrs)
<1>1. NoInfo \in Infos
  BY IdFacts, VolumesAssumption DEF NoInfo, Infos, Types
<1>2. Growing(list, id, b)
  BY DEF Growing
<1>3. attrs \in Seq(Attributes) /\ <<>> \in Seq(ListEntries)
  BY RecordFacts, PassesStay
<1>4. /\ list' = list /\ pc' = "file"
      /\ file' = [id |-> id, mfi |-> NoInfo, todo |-> attrs, entries |-> <<>>, raw |-> FALSE]
  BY DEF Analyze
<1> HIDE DEF attrs
<1> QED BY <1>1, <1>2, <1>3, <1>4 DEF Typed

(* On to the record before, or to the paths.                               *)
LEMMA GoOnStep ==
  ASSUME Typed, NEW ret \in Ids, GoOn(ret)
  PROVE  /\ mft_id' \in Ids /\ k' \in Nat
         /\ walk' \in [child : Paths, parent : Ids, full : BOOLEAN, fast : BOOLEAN]
         /\ \/ pc' = "paths" /\ k' = 1 /\ mft_id' = mft_id
            \/ pc' = "scan" /\ (ret <= mft_id => mft_id' = ret - 1)
<1>1. mft_id \in Nat /\ mft_id < Records /\ ret \in Nat /\ ret < Records /\ Records \in Nat
  BY IdFacts DEF Typed
<1>2. CASE ret = 0 \/ mft_id = 0
  <2>1. pc' = "paths" /\ k' = 1 /\ mft_id' = mft_id
    BY <1>2 DEF GoOn, StartPaths
  <2>2. PICK fast \in BOOLEAN : walk' = [walk EXCEPT !.fast = fast]
    BY <1>2 DEF GoOn, StartPaths
  <2>3. walk' \in [child : Paths, parent : Ids, full : BOOLEAN, fast : BOOLEAN]
    BY <2>2 DEF Typed
  <2> QED BY <2>1, <2>3 DEF Typed
<1>3. CASE ~(ret = 0 \/ mft_id = 0)
  <2>1. /\ mft_id' = IF ret > mft_id THEN mft_id - 1 ELSE ret - 1
        /\ pc' = "scan" /\ k' = k /\ walk' = walk
    BY <1>3 DEF GoOn
  <2>2. mft_id' \in Nat /\ mft_id' < Records /\ (ret <= mft_id => mft_id' = ret - 1)
    BY <1>1, <1>3, <2>1
  <2> QED BY <2>1, <2>2, IdFacts DEF Typed
<1> QED BY <1>2, <1>3

(* A record that was read.  One that is behind the one asked for is a fault. *)
LEMMA GotStep ==
  ASSUME TableInv, ListInv, PathInv, pc = "scan", NEW ret \in Ids, Got(ret),
         Calm' => Calm /\ ret <= mft_id, UNCHANGED <<errors, result>>
  PROVE  ListInv' /\ PathInv'
<1>1. /\ Typed /\ (Calm => Ascending(list) /\ \A i \in DOMAIN list : list[i].id > mft_id)
      /\ \A i \in DOMAIN list : list[i].path = <<>> /\ list[i].name # <<>>
  BY DEF ListInv
<1>2. /\ mft_id \in Int /\ ret \in Int /\ list \in Seq(Entries)
      /\ \A i \in DOMAIN list : list[i].id \in Int
  BY <1>1, IdFacts, EntryFacts DEF Typed
<1>3. Calm' => Ascending(list) /\ \A i \in DOMAIN list : list[i].id >= ret
  BY <1>1, <1>2
<1>4. CASE mft[ret].use = "base"
  <2>1. Analyze(ret) /\ UNCHANGED <<mft_id, k, walk>>
    BY <1>4 DEF Got
  <2>2. /\ list' \in Seq(Entries) /\ Growing(list', ret, Calm') /\ pc' = "file"
        /\ file' \in [id : Ids, mfi : Infos, todo : Seq(Attributes),
           entries : Seq(ListEntries), raw : BOOLEAN]
        /\ file'.id = ret
    <3> DEFINE b == Calm'
    <3>1. b => Ascending(list) /\ \A i \in DOMAIN list : list[i].id >= ret
      BY <1>3
    <3> HIDE DEF b
    <3>2. /\ list' \in Seq(Entries) /\ Growing(list', ret, b) /\ pc' = "file"
          /\ file' \in [id : Ids, mfi : Infos, todo : Seq(Attributes),
           entries : Seq(ListEntries), raw : BOOLEAN]
          /\ file'.id = ret
      BY <1>1, <2>1, <3>1, AnalyzeStep
    <3> QED BY <3>2 DEF b
  <2>3. Typed'
    BY <1>1, <2>1, <2>2 DEF Typed
  <2>4. /\ Growing(list', file'.id, Calm') /\ (Calm' => file'.id <= mft_id')
        /\ Calm' => Ascending(list')
    BY <2>1, <2>2 DEF Growing
  <2>5. ListInv'
    BY <2>2, <2>3, <2>4 DEF ListInv
  <2>6. \A i \in DOMAIN list' : Clear(list'[i].path)
    <3>1. Clear(<<>>)
      BY DEF Clear
    <3> QED BY <2>2, <3>1 DEF Growing
  <2> QED BY <2>2, <2>5, <2>6 DEF PathInv
<1>5. CASE mft[ret].use # "base"
  <2>1. GoOn(ret) /\ UNCHANGED <<list, file>>
    BY <1>5 DEF Got
  <2>2. /\ mft_id' \in Ids /\ k' \in Nat
        /\ walk' \in [child : Paths, parent : Ids, full : BOOLEAN, fast : BOOLEAN]
        /\ \/ pc' = "paths" /\ k' = 1 /\ mft_id' = mft_id
           \/ pc' = "scan" /\ (ret <= mft_id => mft_id' = ret - 1)
    BY <1>1, <2>1, GoOnStep
  <2>3. Typed'
    BY <1>1, <2>1, <2>2 DEF Typed
  <2>4. pc' = "scan" /\ Calm' => \A i \in DOMAIN list' : list'[i].id > mft_id'
    BY <1>2, <1>3, <2>1, <2>2
  <2>5. ListInv'
    BY <1>1, <1>3, <2>1, <2>2, <2>3, <2>4 DEF ListInv
  <2> QED BY <2>1, <2>2, <2>5 DEF PathInv
<1> QED BY <1>4, <1>5

(* The end of a record: the names are filled in.                           *)
LEMMA FileEndStep ==
  ASSUME ListInv, PathInv, FileEnd
  PROVE  ListInv' /\ PathInv'
<1>1. /\ Typed /\ pc = "file" /\ Growing(list, file.id, Calm) /\ (Calm => file.id <= mft_id)
      /\ list' = Named(list) /\ GoOn(file.id) /\ UNCHANGED <<file, errors, result, bound>>
  BY DEF FileEnd, ListInv
<1>2. file.id \in Ids /\ Calm' = Calm
  BY <1>1 DEF Typed, Calm
<1>3. /\ list' \in Seq(Entries) /\ DOMAIN list' = DOMAIN list
      /\ Calm => Ascending(list') /\ \A i \in DOMAIN list : list'[i].id >= file.id
      /\ \A i \in DOMAIN list : list'[i].path = <<>> /\ list'[i].name # <<>>
  BY <1>1, NamedFacts
<1>4. /\ mft_id' \in Ids /\ k' \in Nat
      /\ walk' \in [child : Paths, parent : Ids, full : BOOLEAN, fast : BOOLEAN]
      /\ \/ pc' = "paths" /\ k' = 1 /\ mft_id' = mft_id
         \/ pc' = "scan" /\ (file.id <= mft_id => mft_id' = file.id - 1)
  BY <1>1, <1>2, GoOnStep
<1>5. Typed'
  BY <1>1, <1>3, <1>4 DEF Typed
<1>6. pc' = "scan" /\ Calm => \A i \in DOMAIN list' : list'[i].id > mft_id'
  <2>1. file.id \in Int /\ \A i \in DOMAIN list' : list'[i].id \in Int
    BY <1>2, <1>3, IdFacts, EntryFacts
  <2> QED BY <1>1, <1>3, <1>4, <2>1
<1>7. ListInv'
  BY <1>2, <1>3, <1>4, <1>5, <1>6 DEF ListInv
<1>8. \A i \in DOMAIN list' : Clear(list'[i].path)
  <2>1. Clear(<<>>)
    BY DEF Clear
  <2> QED BY <1>3, <2>1
<1> QED BY <1>1, <1>4, <1>7, <1>8 DEF PathInv

(* An attribute of a record: the list and the name are at hand.            *)
LEMMA AttributeOfFile ==
  ASSUME NEW l \in Seq(Entries), NEW m \in Infos, NEW id \in Ids, NEW b, Growing(l, id, b),
         NEW a \in Attributes
  PROVE  LET s == Attribute([list |-> l, mfi |-> m], a, id)
         IN  s.list \in Seq(Entries) /\ s.mfi \in Infos /\ Growing(s.list, id, b)
<1> SUFFICES ASSUME NEW t \in [list : Seq(Entries), mfi : Infos], t = [list |-> l, mfi |-> m]
             PROVE  LET s == Attribute(t, a, id)
                    IN  s.list \in Seq(Entries) /\ s.mfi \in Infos /\ Growing(s.list, id, b)
  OBVIOUS
<1>1. t.list = l /\ t.mfi = m
  OBVIOUS
<1>2. \A x : /\ [t EXCEPT !.mfi = x].list = l /\ [t EXCEPT !.mfi = x].mfi = x
             /\ [t EXCEPT !.list = x].list = x /\ [t EXCEPT !.list = x].mfi = m
  OBVIOUS
<1>3. \/ \E x \in Infos : Attribute(t, a, id) = [t EXCEPT !.mfi = x]
      \/ \E x \in Seq(Entries) : Growing(x, id, b) /\ Attribute(t, a, id) = [t EXCEPT !.list = x]
  <2>1. ASSUME NEW s \in [list : Seq(Entries), mfi : Infos], Growing(s.list, id, b)
        PROVE  \/ \E x \in Infos : Attribute(s, a, id) = [s EXCEPT !.mfi = x]
               \/ \E x \in Seq(Entries) : Growing(x, id, b) /\ Attribute(s, a, id) = [s EXCEPT !.list = x]
    <3>1. s.list \in Seq(Entries) /\ s.mfi \in Infos
      OBVIOUS
    <3> QED BY <2>1, <3>1, AttributeIs
  <2>2. Growing(t.list, id, b)
    BY <1>1
  <2> QED BY <2>1, <2>2, Zenon
<1>4. ASSUME NEW x \in Infos, Attribute(t, a, id) = [t EXCEPT !.mfi = x]
      PROVE  LET s == Attribute(t, a, id)
             IN  s.list \in Seq(Entries) /\ s.mfi \in Infos /\ Growing(s.list, id, b)
  BY <1>2, <1>4
<1>5. ASSUME NEW x \in Seq(Entries), Growing(x, id, b), Attribute(t, a, id) = [t EXCEPT !.list = x]
      PROVE  LET s == Attribute(t, a, id)
             IN  s.list \in Seq(Entries) /\ s.mfi \in Infos /\ Growing(s.list, id, b)
  BY <1>2, <1>5
<1> QED BY <1>3, <1>4, <1>5, Zenon

(* An attribute of the base record, and the entries it may have.           *)
LEMMA NextAttribute ==
  ASSUME Typed, AtAttribute
  PROVE  /\ file \in [id : Ids, mfi : Infos, todo : Seq(Attributes),
                        entries : Seq(ListEntries), raw : BOOLEAN]
         /\ Head(file.todo) \in Attributes /\ Tail(file.todo) \in Seq(Attributes)
         /\ Head(file.todo).kind = "list" => /\ Head(file.todo).entries \in Seq(ListEntries)
                                             /\ Head(file.todo).fragments \in Nat
<1>1. /\ file \in [id : Ids, mfi : Infos, todo : Seq(Attributes),
                    entries : Seq(ListEntries), raw : BOOLEAN]
      /\ file.todo # <<>>
  BY DEF Typed, AtAttribute
<1>2. Head(file.todo) \in Attributes /\ Tail(file.todo) \in Seq(Attributes)
  BY <1>1, HeadTailProperties
<1> DEFINE a == Head(file.todo)
<1>3. a \in Attributes
  BY <1>2
<1> HIDE DEF a
<1>4. a.kind = "list" => a.entries \in Seq(ListEntries) /\ a.fragments \in Nat
  BY <1>3 DEF Attributes
<1> QED BY <1>1, <1>2, <1>4 DEF a

(* The list goes on growing, ...                                           *)
LEMMA ReadAttributeStep ==
  ASSUME ListInv, PathInv, ReadAttribute
  PROVE  ListInv' /\ PathInv'
<1> DEFINE a == Head(file.todo)
           old == [list |-> list, mfi |-> file.mfi]
           s == Attribute(old, a, file.id)
           isList == a.kind = "list"
           es == IF isList THEN a.entries ELSE <<>>
           raw == isList /\ a.fragments > 0
<1>1. /\ Typed /\ pc = "file" /\ Growing(list, file.id, Calm) /\ (Calm => file.id <= mft_id)
      /\ AtAttribute /\ list' = s.list
      /\ file' = [file EXCEPT !.mfi = s.mfi, !.todo = Tail(@), !.entries = es, !.raw = raw]
      /\ UNCHANGED <<bound, mft_id, errors, pc, k, walk, result>>
  BY DEF ReadAttribute, AtAttribute, ListInv
<1>2. /\ file \in [id : Ids, mfi : Infos, todo : Seq(Attributes),
                    entries : Seq(ListEntries), raw : BOOLEAN]
      /\ a \in Attributes /\ Tail(file.todo) \in Seq(Attributes)
      /\ isList => a.entries \in Seq(ListEntries) /\ a.fragments \in Nat
  BY <1>1, NextAttribute
<1>3. file.id \in Ids /\ file.mfi \in Infos /\ list \in Seq(Entries) /\ Calm' = Calm
  BY <1>1, <1>2 DEF Typed, Calm
<1>4. es \in Seq(ListEntries) /\ raw \in BOOLEAN
  BY <1>2
<1>5. s.list \in Seq(Entries) /\ s.mfi \in Infos /\ Growing(s.list, file.id, Calm)
  <2> DEFINE b == Calm
  <2> HIDE DEF a, b, s, old
  <2>1. Growing(list, file.id, b)
    BY <1>1 DEF b
  <2>2. LET t == Attribute(old, a, file.id)
        IN  t.list \in Seq(Entries) /\ t.mfi \in Infos /\ Growing(t.list, file.id, b)
    BY <1>2, <1>3, <2>1, AttributeOfFile DEF old
  <2> QED BY <2>2 DEF b, s
<1> HIDE DEF s, es, raw
<1>6. /\ file' \in [id : Ids, mfi : Infos, todo : Seq(Attributes),
                     entries : Seq(ListEntries), raw : BOOLEAN]
      /\ file'.id = file.id
  BY <1>1, <1>2, <1>4, <1>5
<1>7. Typed'
  BY <1>1, <1>5, <1>6 DEF Typed
<1>8. ListInv'
  BY <1>1, <1>3, <1>5, <1>6, <1>7 DEF ListInv, Growing
<1>9. \A i \in DOMAIN list' : Clear(list'[i].path)
  <2>1. Clear(<<>>)
    BY DEF Clear
  <2> QED BY <1>1, <1>5, <2>1 DEF Growing
<1> QED BY <1>1, <1>8, <1>9 DEF PathInv

(* ... also with a child record of whatever file.                          *)
LEMMA ReadChildStep ==
  ASSUME TableInv, ListInv, PathInv, ReadChild
  PROVE  ListInv' /\ PathInv'
<1> DEFINE e == Head(file.entries)
           attrs == mft[e.child].attrs
           there == e.child # file.id /\ mft[e.child].use = "child"
           found == { i \in DOMAIN attrs : there /\ IsTheOne(attrs, i, e) }
           old == [list |-> list, mfi |-> file.mfi]
           s == IF found = {} THEN old ELSE Attribute(old, attrs[Min(found)], file.id)
<1>1. /\ Typed /\ pc = "file" /\ Growing(list, file.id, Calm) /\ (Calm => file.id <= mft_id)
      /\ file.entries # <<>>
      /\ list' = s.list /\ file' = [file EXCEPT !.mfi = s.mfi, !.entries = Tail(@)]
      /\ UNCHANGED <<bound, mft_id, errors, pc, k, walk, result>>
  BY DEF ReadChild, ReadingChild, ListInv
<1>2. /\ file.id \in Ids /\ file.mfi \in Infos /\ list \in Seq(Entries) /\ Calm' = Calm
      /\ file.entries \in Seq(ListEntries)
      /\ file \in [id : Ids, mfi : Infos, todo : Seq(Attributes),
           entries : Seq(ListEntries), raw : BOOLEAN]
  BY <1>1 DEF Typed, Calm
<1>3. e \in ListEntries /\ Tail(file.entries) \in Seq(ListEntries)
  BY <1>1, <1>2, HeadTailProperties
<1>4. e.child \in Ids
  BY <1>3 DEF ListEntries
<1>5. attrs \in Seq(Attributes) /\ DOMAIN attrs = 1 .. Len(attrs) /\ Len(attrs) \in Nat
  BY <1>4, RecordFacts, LenProperties
<1> HIDE DEF e, attrs, there
<1>6. found # {} => attrs[Min(found)] \in Attributes
  <2> SUFFICES ASSUME found # {} PROVE attrs[Min(found)] \in Attributes
    OBVIOUS
  <2>1. found \subseteq Nat /\ found \subseteq 1 .. Len(attrs)
    BY <1>5
  <2> HIDE DEF found
  <2>2. Min(found) \in 1 .. Len(attrs)
    BY <2>1, MinOfSet
  <2> QED BY <1>5, <2>2, LenProperties
<1>7. s.list \in Seq(Entries) /\ s.mfi \in Infos /\ Growing(s.list, file.id, Calm)
  <2>1. CASE found = {}
    <3>1. s = old /\ old.list = list /\ old.mfi = file.mfi
      BY <2>1
    <3> HIDE DEF s, old
    <3> QED BY <1>1, <1>2, <3>1
  <2>2. CASE found # {}
    <3> DEFINE a == attrs[Min(found)]
               b == Calm
    <3>1. s = Attribute(old, a, file.id) /\ a \in Attributes
      BY <1>6, <2>2
    <3> HIDE DEF s, a, b, found
    <3>2. Growing(list, file.id, b)
      BY <1>1 DEF b
    <3>3. s.list \in Seq(Entries) /\ s.mfi \in Infos /\ Growing(s.list, file.id, b)
      <4> HIDE DEF old
      <4>1. LET t == Attribute(old, a, file.id)
            IN  t.list \in Seq(Entries) /\ t.mfi \in Infos /\ Growing(t.list, file.id, b)
        BY <1>2, <3>1, <3>2, AttributeOfFile DEF old
      <4> QED BY <3>1, <4>1
    <3> QED BY <3>3 DEF b
  <2> QED BY <2>1, <2>2
<1> HIDE DEF s
<1>8. /\ file' \in [id : Ids, mfi : Infos, todo : Seq(Attributes),
           entries : Seq(ListEntries), raw : BOOLEAN]
      /\ file'.id = file.id
  BY <1>1, <1>2, <1>3, <1>7
<1>9. Typed'
  BY <1>1, <1>7, <1>8 DEF Typed
<1>10. ListInv'
  BY <1>1, <1>2, <1>7, <1>8, <1>9 DEF ListInv, Growing
<1>11. \A i \in DOMAIN list' : Clear(list'[i].path)
  <2>1. Clear(<<>>)
    BY DEF Clear
  <2> QED BY <1>1, <1>7, <2>1 DEF Growing
<1> QED BY <1>1, <1>10, <1>11 DEF PathInv

(* One parent of build_file_path, found or not.                            *)
LEMMA ClimbStep ==
  ASSUME ListInv, PathInv, Climb
  PROVE  ListInv' /\ PathInv'
<1> DEFINE d == FindDirectory(walk.parent)
           p == IF list[d].path # <<>> THEN list[d].path ELSE <<list[d].name>>
           none == [walk EXCEPT !.child = Cut(<<Nothing>> \o @), !.parent = Root]
           up == [walk EXCEPT !.child = Cut(p \o @), !.parent = list[d].parent,
                              !.full = list[d].path # <<>>]
<1>1. /\ Typed /\ pc = "path" /\ k \in DOMAIN list /\ walk.child # <<>>
      /\ UNCHANGED <<bound, list, mft_id, file, pc, k, result>>
      /\ \/ d = 0 /\ walk' = none /\ errors' = errors + 1
         \/ d # 0 /\ walk' = up /\ errors' = errors
  BY DEF Climb, Climbing, ListInv
<1>2. /\ walk \in [child : Paths, parent : Ids, full : BOOLEAN, fast : BOOLEAN]
      /\ walk.child \in Paths /\ walk.parent \in Ids /\ list \in Seq(Entries) /\ errors \in Nat
      /\ Calm' = Calm
  BY <1>1 DEF Typed, Calm
<1>3. d = 0 \/ d \in DOMAIN list
  BY <1>2, FindInList DEF FindDirectory
<1> HIDE DEF d
<1>4. CASE d = 0
  <2> DEFINE x == Cut(<<Nothing>> \o walk.child)
  <2>1. x \in Paths /\ x # <<>>
    <3>1. Nothing \in Seq(Names \cup {"volume"})
      BY DEF Nothing
    <3>2. <<Nothing>> \o walk.child \in Paths /\ <<Nothing>> \o walk.child # <<>>
      BY <1>1, <1>2, <3>1, OneName, JoinFacts
    <3> QED BY <3>2, CutFacts
  <2>2. walk' = [walk EXCEPT !.child = x, !.parent = Root] /\ errors' = errors + 1
    BY <1>1, <1>4
  <2> HIDE DEF x
  <2>3. /\ walk' \in [child : Paths, parent : Ids, full : BOOLEAN, fast : BOOLEAN]
        /\ walk'.child = x
    BY <1>2, <2>1, <2>2, IdFacts
  <2>4. errors' \in Nat /\ errors' # 0
    BY <1>2, <2>2
  <2>5. Typed'
    BY <1>1, <2>3, <2>4 DEF Typed
  <2>6. ListInv'
    BY <1>1, <1>2, <2>1, <2>3, <2>5 DEF ListInv
  <2> QED BY <1>1, <2>4, <2>6 DEF PathInv
<1>5. CASE d # 0
  <2>1. d \in DOMAIN list /\ list[d] \in Entries /\ list[d].name # <<>>
    BY <1>1, <1>2, <1>3, <1>5, EntryFacts DEF ListInv
  <2>2. /\ list[d].path \in Paths /\ list[d].parent \in Ids
        /\ list[d].name \in Seq(Names \cup {"volume"})
    <3>1. /\ list[d].path \in Paths /\ list[d].parent \in Ids /\ list[d].name \in Seq(Names)
      BY <2>1 DEF Entries, Paths
    <3> QED BY <3>1, WiderNames
  <2>3. p \in Paths /\ (~Partial /\ errors = 0 => Clear(p))
    <3>1. <<list[d].name>> \in Paths /\ Clear(<<list[d].name>>)
      BY <2>1, <2>2, OneName DEF Nothing
    <3>2. ~Partial /\ errors = 0 => Clear(list[d].path)
      BY <2>1 DEF PathInv
    <3> QED BY <2>2, <3>1, <3>2
  <2> HIDE DEF p
  <2> DEFINE x == Cut(p \o walk.child)
             y == list[d].path # <<>>
             z == list[d].parent
  <2>4. x \in Paths /\ x # <<>> /\ (~Partial /\ errors = 0 => Clear(x))
    <3>1. p \o walk.child \in Paths /\ p \o walk.child # <<>>
      BY <1>1, <1>2, <2>3, JoinFacts
    <3>2. ~Partial /\ errors = 0 => Clear(p \o walk.child)
      BY <1>1, <1>2, <2>3, JoinFacts DEF PathInv
    <3> QED BY <3>1, <3>2, CutFacts
  <2>5. walk' = [walk EXCEPT !.child = x, !.parent = z, !.full = y] /\ errors' = errors
    BY <1>1, <1>5
  <2>6. y \in BOOLEAN /\ z \in Ids
    BY <2>2
  <2> HIDE DEF x, y, z
  <2>7. /\ walk' \in [child : Paths, parent : Ids, full : BOOLEAN, fast : BOOLEAN]
        /\ walk'.child = x
    BY <1>2, <2>4, <2>5, <2>6
  <2>8. Typed'
    BY <1>1, <2>5, <2>7 DEF Typed
  <2>9. ListInv'
    BY <1>1, <1>2, <2>4, <2>7, <2>8 DEF ListInv
  <2> QED BY <1>1, <2>4, <2>5, <2>7, <2>9 DEF PathInv
<1> QED BY <1>4, <1>5

(* The path that was built.                                                *)
LEMMA SetPathStep ==
  ASSUME ListInv, PathInv, SetPath
  PROVE  ListInv' /\ PathInv'
<1> DEFINE p == IF Head(walk.child) = Volume THEN walk.child ELSE Cut(<<Volume>> \o walk.child)
<1>1. /\ Typed /\ pc = "path" /\ k \in DOMAIN list /\ walk.child # <<>>
      /\ list' = [list EXCEPT ![k].path = p]
      /\ pc' = "paths" /\ k' = k + 1
      /\ UNCHANGED <<bound, mft_id, errors, file, walk, result>>
  BY DEF SetPath, ListInv
<1>2. /\ walk.child \in Paths /\ list \in Seq(Entries) /\ k \in Nat /\ Calm' = Calm
  BY <1>1 DEF Typed, Calm
<1>3. p \in Paths /\ (~Partial /\ errors = 0 => Clear(p))
  <2>1. ~Partial /\ errors = 0 => Clear(walk.child)
    BY <1>1 DEF PathInv
  <2>2. <<Volume>> \in Paths /\ Clear(<<Volume>>)
    <3>1. Volume \in Seq(Names \cup {"volume"}) /\ Volume # Nothing
      BY DEF Volume, Nothing
    <3> QED BY <3>1, OneName
  <2>3. /\ <<Volume>> \o walk.child \in Paths
        /\ ~Partial /\ errors = 0 => Clear(<<Volume>> \o walk.child)
    BY <1>1, <1>2, <2>1, <2>2, JoinFacts
  <2>4. /\ Cut(<<Volume>> \o walk.child) \in Paths
        /\ ~Partial /\ errors = 0 => Clear(Cut(<<Volume>> \o walk.child))
    BY <2>3, CutFacts
  <2> QED BY <1>2, <2>1, <2>4
<1> HIDE DEF p
<1> DEFINE n == Len(list)
           e == [list[k] EXCEPT !.path = p]
<1>4. n \in Nat /\ DOMAIN list = 1 .. n /\ \A i \in 1 .. n : list[i] \in Entries
  BY <1>2, EntryFacts
<1>5. e \in Entries /\ e.id = list[k].id /\ e.name = list[k].name /\ e.path = p
  <2> DEFINE x == list[k]
  <2>1. x \in Entries
    BY <1>1, <1>4
  <2> HIDE DEF x
  <2>2. LET y == [x EXCEPT !.path = p]
        IN  y \in Entries /\ y.id = x.id /\ y.name = x.name /\ y.path = p
    BY <1>3, <2>1 DEF Entries, Paths
  <2> QED BY <2>2 DEF x
<1>6. list' = [i \in DOMAIN list |-> IF i = k THEN e ELSE list[i]]
  BY <1>1
<1> HIDE DEF e, n
<1>7. list' \in Seq(Entries) /\ DOMAIN list' = DOMAIN list
  <2>1. list' \in [1 .. n -> Entries]
    BY <1>4, <1>5, <1>6
  <2> QED BY <1>4, <2>1, SeqDef
<1>8. \A i \in DOMAIN list : list'[i].id = list[i].id /\ list'[i].name = list[i].name
  BY <1>5, <1>6
<1>9. ~Partial /\ errors = 0 => \A i \in DOMAIN list : Clear(list'[i].path)
  BY <1>3, <1>5, <1>6 DEF PathInv
<1>10. k' \in Nat /\ k' # 0
  BY <1>1, <1>2
<1>11. Typed'
  BY <1>1, <1>7, <1>10 DEF Typed
<1>12. Calm => Ascending(list')
  BY <1>7, <1>8, SameNumbers DEF ListInv
<1>13. \A i \in DOMAIN list' : list'[i].name # <<>>
  BY <1>1, <1>7, <1>8 DEF ListInv
<1>14. ListInv'
  BY <1>1, <1>2, <1>10, <1>11, <1>12, <1>13 DEF ListInv
<1> QED BY <1>1, <1>7, <1>9, <1>14 DEF PathInv

-----------------------------------------------------------------------------
(* The other programs.  An attribute with another parent:                  *)
LEMMA AttributeMoved ==
  ASSUME NEW a \in Attributes, NEW d \in Ids
  PROVE  LET c == [a EXCEPT !.parent = d]
         IN  c \in Attributes /\ c.kind = a.kind /\ (a.kind = "list" => c.entries = a.entries)
<1>1. CASE a \in [kind : {"name"}, parent : Ids, name : Names, type : Types]
  BY <1>1 DEF Attributes
<1>2. CASE a \in [kind : {"stream"}, name : Seq(Names), fragments : Nat]
  <2>1. [a EXCEPT !.parent = d] = a
    BY <1>2
  <2> QED BY <2>1
<1>3. CASE a \in [kind : {"list"}, name : Seq(Names), fragments : Nat, entries : Seq(ListEntries)]
  <2>1. [a EXCEPT !.parent = d] = a
    BY <1>3
  <2> QED BY <2>1
<1> QED BY <1>1, <1>2, <1>3 DEF Attributes

(* The members of a sequence.                                              *)
LEMMA Members ==
  ASSUME NEW S, NEW s \in Seq(S)
  PROVE  /\ \A x \in ToSet(s) : x \in S /\ \E i \in DOMAIN s : x = s[i]
         /\ \A i \in DOMAIN s : s[i] \in ToSet(s)
BY LenProperties DEF ToSet

(* A file is moved.                                                        *)
LEMMA MoveKeepsTable ==
  ASSUME TableInv, NEW r \in Ids, NEW d \in Ids, MoveTo(r, d)
  PROVE  mft' \in Tables /\ OwnRecord(mft') /\ size' = size
<1> DEFINE old == mft[r].attrs
           i == NameAttr(r)
           new == [old EXCEPT ![i].parent = d]
<1>1. /\ mft \in Tables /\ OwnRecord(mft) /\ size' = size
      /\ mft' = [mft EXCEPT ![r].attrs = new] /\ r # 0
  BY DEF MoveTo, TableInv, Files
<1>2. old \in Seq(Attributes)
  BY RecordFacts
<1> HIDE DEF old, i
<1>3. \A x : x \in DOMAIN old => old[x] \in Attributes
  BY <1>2, LenProperties
<1>4. new = [x \in DOMAIN old |-> IF x = i THEN [old[x] EXCEPT !.parent = d] ELSE old[x]]
  OBVIOUS
<1> HIDE DEF new
<1>5. ASSUME NEW x \in DOMAIN old
      PROVE  /\ new[x] \in Attributes /\ new[x].kind = old[x].kind
             /\ old[x].kind = "list" => new[x].entries = old[x].entries
  <2>1. old[x] \in Attributes
    BY <1>3
  <2>2. CASE x = i
    <3>1. new[x] = [old[x] EXCEPT !.parent = d]
      BY <1>4, <2>2
    <3> QED BY <2>1, <3>1, AttributeMoved
  <2>3. CASE x # i
    BY <1>4, <2>1, <2>3
  <2> QED BY <2>2, <2>3
<1>6. new \in Seq(Attributes) /\ DOMAIN new = DOMAIN old
  <2>1. DOMAIN old = 1 .. Len(old) /\ Len(old) \in Nat
    BY <1>2, LenProperties
  <2>2. new \in [1 .. Len(old) -> Attributes]
    BY <1>4, <1>5, <2>1
  <2> QED BY <1>4, <2>1, <2>2, SeqDef
<1>7. mft' \in Tables
  BY <1>1, <1>6 DEF Tables
<1>8. /\ \A q \in Ids : mft'[q].use = mft[q].use
      /\ \A q \in Ids : q # r => mft'[q].attrs = mft[q].attrs
      /\ mft'[r].attrs = new
  BY <1>1 DEF Tables
<1>9. ASSUME NEW q \in Ids \ {0}, NEW a \in ToSet(mft'[q].attrs), a.kind = "list",
             NEW e \in ToSet(a.entries)
      PROVE  e.child # 0
  <2>1. CASE q # r
    BY <1>1, <1>8, <1>9, <2>1 DEF OwnRecord
  <2>2. CASE q = r
    <3>1. PICK x \in DOMAIN old : a = new[x]
      <4>1. a \in ToSet(new)
        BY <1>8, <1>9, <2>2
      <4> QED BY <1>6, <4>1, Members
    <3>2. old[x].kind = "list" /\ a.entries = old[x].entries
      BY <1>5, <1>9, <3>1
    <3>3. old[x] \in ToSet(mft[r].attrs)
      BY <1>2, Members DEF old
    <3> QED BY <1>1, <1>9, <3>2, <3>3 DEF OwnRecord
  <2> QED BY <2>1, <2>2
<1>10. mft'[0].use = "base"
  BY <1>1, <1>8, IdFacts DEF OwnRecord
<1> QED BY <1>1, <1>7, <1>9, <1>10 DEF OwnRecord

(* A file is made, with a name and one stream.                             *)
LEMMA CreateKeepsTable ==
  ASSUME TableInv, NEW r \in Ids, NEW d \in Ids, NEW dir \in BOOLEAN, Create(r, d, dir)
  PROVE  mft' \in Tables /\ OwnRecord(mft') /\ size' \in 1 .. Records
<1> DEFINE x == FileName(d, NewName, "win32")
           y == Stream(<<>>, 1)
           new == [use |-> "base", dir |-> dir, attrs |-> <<x, y>>]
<1>1. /\ mft \in Tables /\ OwnRecord(mft) /\ mft[r].use = "free"
      /\ mft' = [mft EXCEPT ![r] = new] /\ size' = Max({size, r + 1}) /\ size \in 1 .. Records
  BY DEF Create, TableInv
<1>2. x \in Attributes /\ y \in Attributes /\ x.kind = "name" /\ y.kind = "stream"
  <2>1. x \in Attributes /\ x.kind = "name"
    BY VolumesAssumption DEF Attributes, FileName, Types
  <2>2. y \in Attributes /\ y.kind = "stream"
    <3>1. <<>> \in Seq(Names)
      OBVIOUS
    <3> QED BY <3>1 DEF Attributes, Stream
  <2> QED BY <2>1, <2>2
<1> HIDE DEF x, y
<1>3. /\ new \in [use : {"free", "base", "child"}, dir : BOOLEAN, attrs : Seq(Attributes)]
      /\ new.attrs = <<x, y>>
  BY <1>2
<1>4. r # 0
  BY <1>1 DEF OwnRecord
<1> HIDE DEF new
<1>5. mft' \in Tables
  BY <1>1, <1>3 DEF Tables
<1>6. mft'[r] = new /\ \A q \in Ids : q # r => mft'[q] = mft[q]
  BY <1>1 DEF Tables
<1>7. ASSUME NEW q \in Ids \ {0}, NEW a \in ToSet(mft'[q].attrs), a.kind = "list",
             NEW e \in ToSet(a.entries)
      PROVE  e.child # 0
  <2>1. CASE q # r
    BY <1>1, <1>6, <1>7, <2>1 DEF OwnRecord
  <2>2. CASE q = r
    <3>1. a = x \/ a = y
      <4>1. a \in ToSet(<<x, y>>)
        BY <1>3, <1>6, <1>7, <2>2
      <4>2. DOMAIN <<x, y>> = {1, 2} /\ <<x, y>>[1] = x /\ <<x, y>>[2] = y
        OBVIOUS
      <4> QED BY <4>1, <4>2 DEF ToSet
    <3> QED BY <1>2, <1>7, <3>1
  <2> QED BY <2>1, <2>2
<1>8. mft'[0].use = "base"
  BY <1>1, <1>4, <1>6, IdFacts DEF OwnRecord
<1>9. size' \in 1 .. Records
  <2>1. r + 1 \in 1 .. Records /\ Records \in Nat /\ size \in Int /\ r + 1 \in Int
    BY <1>1, IdFacts
  <2>2. Max({size, r + 1}) \in {size, r + 1}
    <3>1. \E z \in {size, r + 1} : \A t \in {size, r + 1} : z >= t
      BY <2>1
    <3> QED BY <3>1 DEF Max
  <2> QED BY <1>1, <2>1, <2>2
<1> QED BY <1>5, <1>7, <1>8, <1>9 DEF OwnRecord

(* A file is deleted, with its child records.                              *)
LEMMA DeleteKeepsTable ==
  ASSUME TableInv, NEW r \in Ids, Delete(r)
  PROVE  mft' \in Tables /\ OwnRecord(mft') /\ size' = size
<1>1. /\ mft \in Tables /\ OwnRecord(mft) /\ size' = size /\ r # 0
      /\ mft' = [n \in Ids |-> IF n = r \/ n \in Children(r) THEN FreeRecord ELSE mft[n]]
  BY DEF Delete, TableInv, Files
<1>2. 0 \notin Children(r)
  BY <1>1 DEF OwnRecord, Children
<1>3. /\ FreeRecord \in [use : {"free", "base", "child"}, dir : BOOLEAN, attrs : Seq(Attributes)]
      /\ FreeRecord.attrs = <<>> /\ ToSet(<<>>) = {}
  <2>1. ToSet(<<>>) = {}
    BY DEF ToSet
  <2> QED BY <2>1 DEF FreeRecord
<1>4. mft' \in Tables
  BY <1>1, <1>3 DEF Tables
<1>5. mft'[0] = mft[0]
  BY <1>1, <1>2, IdFacts
<1>6. \A q \in Ids : mft'[q] = mft[q] \/ mft'[q].attrs = <<>>
  BY <1>1, <1>3
<1> QED BY <1>1, <1>3, <1>4, <1>5, <1>6 DEF OwnRecord

(* The table of a volume keeps what the scan relies on.                    *)
LEMMA TableStep ==
  ASSUME TableInv, [Next]_vars
  PROVE  TableInv'
<1> USE DEF TableInv
<1>1. CASE Change
  <2>1. bound' \in [changes : 0 .. Changes, faults : 0 .. Faults]
    <3>1. /\ bound \in [changes : 0 .. Changes, faults : 0 .. Faults] /\ bound.changes > 0
          /\ bound' = [bound EXCEPT !.changes = @ - 1]
      BY <1>1 DEF Change, Spend
    <3>2. bound.changes - 1 \in 0 .. Changes
      BY <3>1, BoundsAssumption
    <3> QED BY <3>1, <3>2
  <2>2. ASSUME NEW r \in Ids, NEW d \in Ids, MoveTo(r, d) PROVE TableInv'
    BY <2>1, <2>2, MoveKeepsTable
  <2>3. ASSUME NEW r \in Ids, NEW d \in Ids, NEW dir \in BOOLEAN, Create(r, d, dir)
        PROVE  TableInv'
    BY <2>1, <2>3, CreateKeepsTable
  <2>4. ASSUME NEW r \in Ids, Delete(r) PROVE TableInv'
    BY <2>1, <2>4, DeleteKeepsTable
  <2> QED BY <1>1, <2>2, <2>3, <2>4 DEF Change
<1>2. CASE UNCHANGED <<mft, size>> /\ Spend("faults")
  BY <1>2, FaultSpent
<1>3. CASE UNCHANGED <<mft, size, bound>>
  BY <1>3
<1>4. Scan => UNCHANGED <<mft, size>> /\ (Spend("faults") \/ UNCHANGED bound)
  BY DEF Scan, Layout, ReadRecord, ReadAttribute, ReadList, ReadChild, FileEnd, ScanStops, NextEntry, Climb,
         ClimbStops, SetPath, ScanEnd
<1>5. ReadOdd \/ ReadFails \/ EntryFails \/ ChildFails \/ PathFails =>
        UNCHANGED <<mft, size>> /\ Spend("faults")
  BY DEF ReadOdd, ReadFails, EntryFails, ChildFails, PathFails
<1>6. Stop \/ Finished \/ UNCHANGED vars => UNCHANGED <<mft, size, bound>>
  BY DEF Stop, Finished, vars
<1> QED BY <1>1, <1>2, <1>3, <1>4, <1>5, <1>6 DEF Next

(* Before the scan the list is empty.                                      *)
LEMMA InitiallyInv ==
  ASSUME Init
  PROVE  TableInv /\ ListInv /\ PathInv
<1> DEFINE T == { r \in Ids : mft[r].use # "free" }
<1>1. mft \in Tables /\ OwnRecord(mft)
  BY VolumesAssumption DEF Init
<1>2. size \in 1 .. Records
  <2>1. size = Max(T) + 1
    BY DEF Init
  <2>2. T # {} /\ T \subseteq Ids
    BY <1>1, IdFacts DEF OwnRecord
  <2> HIDE DEF T
  <2>3. T \subseteq 0 .. Records /\ Records \in Nat
    BY <2>2, IdFacts
  <2>4. PICK x \in T : \A y \in T : y <= x
    BY <2>2, <2>3, GreatestNumber
  <2>5. \A y \in T : x >= y
    <3>1. \A y \in T : y \in Int
      BY <2>3
    <3> QED BY <2>4, <3>1
  <2>6. Max(T) \in T
    BY <2>5 DEF Max
  <2>7. Max(T) \in Nat /\ Max(T) < Records
    BY <2>2, <2>6, IdFacts
  <2> QED BY <2>1, <2>3, <2>7
<1>3. TableInv
  BY <1>1, <1>2, BoundsAssumption DEF Init, TableInv
<1>4. <<>> \in Seq(Entries) /\ <<>> \in Seq(ListEntries) /\ <<>> \in Seq(Attributes) /\ <<>> \in Paths /\ DOMAIN <<>> = {}
  BY DEF Paths
<1>5. NoInfo \in Infos
  BY IdFacts, VolumesAssumption DEF NoInfo, Infos, Types
<1>6. Typed
  BY <1>4, <1>5, IdFacts DEF Init, Typed
<1>7. ListInv
  BY <1>4, <1>6 DEF Init, ListInv, Ascending
<1>8. PathInv
  BY <1>4 DEF Init, PathInv
<1> QED BY <1>3, <1>7, <1>8

(* The first steps of the scan, and those that read no record.             *)
LEMMA QuietSteps ==
  ASSUME TableInv, ListInv, PathInv,
         \/ Layout \/ ReadList \/ EntryFails \/ ChildFails \/ ReadFails \/ ScanStops
         \/ ClimbStops \/ PathFails
  PROVE  ListInv' /\ PathInv'
<1>1. Typed
  BY DEF ListInv
<1>2. CASE Layout
  <2>1. /\ pc = "layout" /\ list = <<>> /\ size \in 1 .. Records
        /\ UNCHANGED <<list, errors, file, k, walk, result>>
        /\ \/ mft_id' = size - 1 /\ pc' = "scan" /\ UNCHANGED bound
           \/ Spend("faults") /\ pc' = "done" /\ UNCHANGED mft_id
    BY <1>2 DEF Layout, ListInv, TableInv
  <2>2. mft_id' \in Ids
    <3>1. size - 1 \in Ids
      <4>1. size - 1 \in Nat /\ size - 1 < Records
        BY <2>1, IdFacts
      <4> QED BY <4>1, IdFacts
    <3> QED BY <1>1, <2>1, <3>1 DEF Typed
  <2>3. DOMAIN list' = {}
    BY <2>1
  <2>4. Typed'
    BY <1>1, <2>1, <2>2 DEF Typed
  <2>5. ListInv'
    BY <2>1, <2>3, <2>4 DEF ListInv, Ascending
  <2>6. result' = <<>>
    BY <2>1 DEF PathInv
  <2>7. DOMAIN result' = {}
    BY <2>6
  <2> QED BY <2>1, <2>3, <2>5, <2>6, <2>7 DEF PathInv
<1>3. CASE ReadList \/ EntryFails \/ ChildFails
  <2>1. /\ pc = "file" /\ UNCHANGED <<list, mft_id, pc, k, walk, result>>
        /\ UNCHANGED bound \/ Spend("faults")
    BY <1>3 DEF ReadList, EntryFails, AtAttribute, ChildFails, ReadingChild
  <2>2. errors' \in {errors, errors + 1} /\ errors \in Nat
    BY <1>1, <1>3 DEF ReadList, EntryFails, ChildFails, Typed
  <2>3. Calm' => Calm
    BY <2>1, FaultSpent DEF Calm
  <2>4. /\ file' \in [id : Ids, mfi : Infos, todo : Seq(Attributes),
           entries : Seq(ListEntries), raw : BOOLEAN]
        /\ file'.id = file.id
    <3>1. /\ file \in [id : Ids, mfi : Infos, todo : Seq(Attributes),
           entries : Seq(ListEntries), raw : BOOLEAN]
          /\ <<>> \in Seq(ListEntries)
      BY <1>1 DEF Typed
    <3>2. CASE ReadList
      BY <3>1, <3>2 DEF ReadList
    <3>3. CASE ChildFails
      <4>1. file' = [file EXCEPT !.entries = Tail(@)] /\ file.entries # <<>>
        BY <3>3 DEF ChildFails, ReadingChild
      <4>2. Tail(file.entries) \in Seq(ListEntries)
        BY <3>1, <4>1, HeadTailProperties
      <4> QED BY <3>1, <4>1, <4>2
    <3>4. CASE EntryFails
      <4> DEFINE a == Head(file.todo)
                 es == IF a.kind = "list" /\ a.fragments = 0 THEN a.entries ELSE <<>>
      <4>1. AtAttribute /\ file' = [file EXCEPT !.todo = Tail(@), !.entries = es]
        BY <3>4 DEF EntryFails
      <4>2. /\ Tail(file.todo) \in Seq(Attributes)
            /\ a.kind = "list" => a.entries \in Seq(ListEntries)
        BY <1>1, <4>1, NextAttribute
      <4>3. es \in Seq(ListEntries)
        BY <3>1, <4>2
      <4> HIDE DEF es
      <4> QED BY <3>1, <4>1, <4>2, <4>3
    <3> QED BY <1>3, <3>2, <3>3, <3>4
  <2>5. Typed'
    <3>1. errors' \in Nat
      BY <2>2
    <3> QED BY <1>1, <2>1, <2>4, <3>1 DEF Typed
  <2>6. ListInv'
    BY <2>1, <2>3, <2>4, <2>5 DEF ListInv, Growing
  <2>7. errors' = 0 => errors = 0
    BY <2>2
  <2> QED BY <2>1, <2>6, <2>7 DEF PathInv
<1>4. CASE ReadFails
  <2>1. /\ pc = "scan" /\ UNCHANGED <<list, errors, file, k, walk, result>> /\ Spend("faults")
        /\ \/ pc' = "done" /\ UNCHANGED mft_id
           \/ mft_id # 0 /\ mft_id' = mft_id - 1 /\ UNCHANGED pc
    BY <1>4 DEF ReadFails
  <2>2. ~Calm'
    BY <2>1, FaultSpent
  <2>3. mft_id' \in Ids
    <3>1. mft_id \in Ids /\ mft_id \in Nat /\ mft_id < Records /\ Records \in Nat
      BY <1>1, IdFacts DEF Typed
    <3>2. mft_id # 0 => mft_id - 1 \in Nat /\ mft_id - 1 < Records
      BY <3>1
    <3> QED BY <2>1, <3>1, <3>2, IdFacts
  <2>4. Typed'
    BY <1>1, <2>1, <2>3 DEF Typed
  <2>5. ListInv'
    BY <2>1, <2>2, <2>4 DEF ListInv
  <2> QED BY <2>1, <2>5 DEF PathInv
<1>5. CASE ScanStops
  <2>1. /\ pc = "scan" /\ pc' = "paths" /\ k' = 1
        /\ UNCHANGED <<bound, list, mft_id, errors, file, result>>
    BY <1>5 DEF ScanStops, StartPaths
  <2>2. PICK fast \in BOOLEAN : walk' = [walk EXCEPT !.fast = fast]
    BY <1>5 DEF ScanStops, StartPaths
  <2>3. walk' \in [child : Paths, parent : Ids, full : BOOLEAN, fast : BOOLEAN]
    BY <1>1, <2>2 DEF Typed
  <2>4. Typed'
    BY <1>1, <2>1, <2>3 DEF Typed
  <2>5. ListInv'
    BY <2>1, <2>4 DEF ListInv, Calm
  <2> QED BY <2>1, <2>5 DEF PathInv
<1>6. CASE ClimbStops
  <2>1. /\ pc = "path" /\ pc' = "paths" /\ k' = k + 1
        /\ UNCHANGED <<bound, list, mft_id, errors, file, walk, result>>
    BY <1>6 DEF ClimbStops, Climbing
  <2>2. k' \in Nat /\ k' # 0
    BY <1>1, <2>1 DEF Typed
  <2>3. Typed'
    BY <1>1, <2>1, <2>2 DEF Typed
  <2>4. ListInv'
    BY <2>1, <2>2, <2>3 DEF ListInv, Calm
  <2> QED BY <2>1, <2>4 DEF PathInv
<1>7. CASE PathFails
  <2>1. /\ pc = "path" /\ pc' = "paths" /\ k' = k + 1 /\ errors' = errors + 1 /\ Spend("faults")
        /\ UNCHANGED <<list, mft_id, file, walk, result>>
    BY <1>7 DEF PathFails
  <2>2. k' \in Nat /\ k' # 0 /\ errors' \in Nat /\ errors' # 0
    BY <1>1, <2>1 DEF Typed
  <2>3. Typed' /\ ~Calm'
    <3>1. ~Calm'
      BY <2>1, FaultSpent
    <3> QED BY <1>1, <2>1, <2>2, <3>1 DEF Typed
  <2>4. ListInv'
    BY <2>1, <2>2, <2>3 DEF ListInv
  <2> QED BY <2>1, <2>2, <2>4 DEF PathInv
<1> QED BY <1>2, <1>3, <1>4, <1>5, <1>6, <1>7

(* The next entry that wants a path.                                       *)
LEMMA NextEntryStep ==
  ASSUME ListInv, PathInv, NextEntry
  PROVE  ListInv' /\ PathInv'
<1> DEFINE x == <<list[k].name>>
           y == list[k].parent
<1>1. /\ Typed /\ pc = "paths" /\ pc' = "path" /\ k # 0 /\ k <= Len(list)
      /\ walk' = [walk EXCEPT !.child = x, !.parent = y, !.full = FALSE]
      /\ UNCHANGED <<bound, list, mft_id, errors, file, k, result>>
      /\ \A i \in DOMAIN list : list[i].name # <<>>
  BY DEF NextEntry, ListInv
<1>2. k \in DOMAIN list /\ list[k] \in Entries
  <2>1. list \in Seq(Entries) /\ k \in Nat
    BY <1>1 DEF Typed
  <2>2. Len(list) \in Nat /\ DOMAIN list = 1 .. Len(list)
    BY <2>1, EntryFacts
  <2>3. k \in 1 .. Len(list)
    BY <1>1, <2>1, <2>2
  <2> QED BY <2>1, <2>2, <2>3, EntryFacts
<1>3. x \in Paths /\ x # <<>> /\ Clear(x) /\ y \in Ids
  <2>1. list[k].name \in Seq(Names) /\ list[k].name # Nothing /\ y \in Ids
    BY <1>1, <1>2 DEF Entries, Nothing
  <2>2. list[k].name \in Seq(Names \cup {"volume"})
    BY <2>1, WiderNames
  <2> QED BY <2>1, <2>2, OneName
<1> HIDE DEF x, y
<1>4. walk' \in [child : Paths, parent : Ids, full : BOOLEAN, fast : BOOLEAN] /\ walk'.child = x
  BY <1>1, <1>3 DEF Typed
<1>5. Typed'
  BY <1>1, <1>4 DEF Typed
<1>6. ListInv'
  BY <1>1, <1>2, <1>3, <1>4, <1>5 DEF ListInv, Calm
<1> QED BY <1>1, <1>3, <1>4, <1>6 DEF PathInv

(* What the scan returns.                                                  *)
LEMMA ScanEndStep ==
  ASSUME ListInv, PathInv, ScanEnd
  PROVE  ListInv' /\ PathInv'
<1>1. /\ Typed /\ pc = "paths" /\ pc' = "done"
      /\ result' = IF ~Partial /\ errors > 0 THEN <<>> ELSE Cleanup(list)
      /\ UNCHANGED <<bound, list, mft_id, errors, file, k, walk>>
  BY DEF ScanEnd, ListInv
<1>2. list \in Seq(Entries) /\ errors \in Nat
  BY <1>1 DEF Typed
<1>3. result' \in Seq(Entries)
  <2>1. Cleanup(list) \in Seq(Entries) /\ <<>> \in Seq(Entries)
    BY <1>2, CleanupStays
  <2> QED BY <1>1, <2>1
<1>4. ~Partial => \A i \in DOMAIN result' : Clear(result'[i].path)
  <2> DEFINE C == { e \in Entries : Clear(e.path) }
  <2>1. CASE errors = 0 /\ ~Partial
    <3>1. \A i \in DOMAIN list : list[i] \in C
      BY <1>2, <2>1, EntryFacts DEF PathInv
    <3>2. list \in Seq(C)
      <4>1. Len(list) \in Nat /\ DOMAIN list = 1 .. Len(list) /\ list \in [1 .. Len(list) -> Entries]
        BY <1>2, EntryFacts, LenProperties
      <4>2. list \in [1 .. Len(list) -> C]
        BY <3>1, <4>1
      <4> QED BY <4>1, <4>2, SeqDef
    <3> HIDE DEF C
    <3>3. Cleanup(list) \in Seq(C)
      BY <3>2, CleanupStays
    <3>4. result' \in Seq(C)
      BY <1>1, <1>2, <2>1, <3>3
    <3>5. \A i \in DOMAIN result' : result'[i] \in C
      BY <3>4, LenProperties
    <3> QED BY <3>5 DEF C
  <2>2. CASE errors # 0 /\ ~Partial
    <3>1. result' = <<>>
      BY <1>1, <1>2, <2>2
    <3>2. DOMAIN result' = {}
      BY <3>1
    <3> QED BY <3>2
  <2> QED BY <2>1, <2>2
<1>5. Typed'
  BY <1>1, <1>3 DEF Typed
<1>6. ListInv'
  BY <1>1, <1>5 DEF ListInv, Calm
<1> QED BY <1>1, <1>4, <1>6 DEF PathInv

(* Every step keeps both invariants.                                       *)
LEMMA ScanStep ==
  ASSUME TableInv, ListInv, PathInv, [Next]_vars
  PROVE  ListInv' /\ PathInv'
<1>1. CASE \/ Layout \/ ReadList \/ EntryFails \/ ChildFails \/ ReadFails \/ ScanStops
           \/ ClimbStops \/ PathFails
  BY <1>1, QuietSteps
<1>2. CASE ReadRecord
  <2> DEFINE ret == InUse(mft_id)
  <2>1. /\ pc = "scan" /\ Got(ret) /\ UNCHANGED <<errors, result, bound>> /\ mft_id \in Ids
    BY <1>2 DEF ReadRecord, ListInv, Typed
  <2>2. ret \in Ids /\ ret <= mft_id
    <3>1. ret \in 0 .. mft_id /\ ret \in Ids
      BY <2>1, LastInUse
    <3> QED BY <3>1
  <2> HIDE DEF ret
  <2>3. Calm' => Calm
    BY <2>1 DEF Calm
  <2> QED BY <2>1, <2>2, <2>3, GotStep
<1>3. CASE ReadOdd
  <2>1. /\ pc = "scan" /\ UNCHANGED <<errors, result>> /\ Spend("faults") /\ mft_id \in Ids
    BY <1>3 DEF ReadOdd, ListInv, Typed
  <2>2. PICK ret \in (mft_id + 1) .. (size - 1) : Got(ret)
    BY <1>3 DEF ReadOdd
  <2>3. ret \in Ids
    <3>1. mft_id \in Nat /\ size \in 1 .. Records /\ Records \in Nat
      BY <2>1, IdFacts DEF TableInv
    <3>2. ret \in Nat /\ ret < Records
      BY <2>2, <3>1
    <3> QED BY <3>2, IdFacts
  <2>4. ~Calm'
    BY <2>1, FaultSpent
  <2> QED BY <2>1, <2>2, <2>3, <2>4, GotStep
<1>4. CASE ReadAttribute \/ ReadChild
  BY <1>4, ReadAttributeStep, ReadChildStep
<1>5. CASE FileEnd
  BY <1>5, FileEndStep
<1>6. CASE NextEntry
  BY <1>6, NextEntryStep
<1>7. CASE Climb
  BY <1>7, ClimbStep
<1>8. CASE SetPath
  BY <1>8, SetPathStep
<1>9. CASE ScanEnd
  BY <1>9, ScanEndStep
<1>10. CASE Stop \/ Change \/ Finished \/ UNCHANGED vars
  <2>1. UNCHANGED program
    BY <1>10 DEF Stop, Change, Finished, vars
  <2>2. Calm' => Calm
    <3>1. CASE Change
      <4>1. bound'.faults = bound.faults
        BY <3>1 DEF Change, Spend, TableInv
      <4> QED BY <4>1 DEF Calm
    <3>2. CASE UNCHANGED bound
      BY <3>2 DEF Calm
    <3>3. Stop \/ Finished \/ UNCHANGED vars => UNCHANGED bound
      BY DEF Stop, Finished, vars
    <3> QED BY <1>10, <3>1, <3>2, <3>3
  <2>3. Typed'
    BY <2>1 DEF program, ListInv, Typed
  <2>4. ListInv'
    BY <2>1, <2>2, <2>3 DEF program, ListInv, Growing
  <2> QED BY <2>1, <2>4 DEF program, PathInv
<1> QED
  BY <1>1, <1>2, <1>3, <1>4, <1>5, <1>6, <1>7, <1>8, <1>9, <1>10 DEF Next, Scan

(* The inductive invariant of the scan.                                    *)
ScanInv == TableInv /\ ListInv /\ PathInv

(* On every volume, whatever other programs make, move and delete, the     *)
(* list grows at its front, record by record, and a directory that was not *)
(* found has been counted (ftw_ntfs.c 1033-1072, 1461-1465, 1646-1674).    *)
THEOREM ScanKeepsInv == Spec => []ScanInv
<1>1. Init => ScanInv
  BY InitiallyInv DEF ScanInv
<1>2. ScanInv /\ [Next]_vars => ScanInv'
  BY TableStep, ScanStep DEF ScanInv
<1> QED BY <1>1, <1>2, PTL DEF Spec

(* While every request for a record is answered by that record or one before *)
(* it, the list goes up, and find_directory_by_mft_id by halves finds the  *)
(* entry that looking at all of them finds: for every volume, every length *)
(* of the list and every number.                                           *)
THEOREM SearchIsRight == Spec => []SearchFinds
<1>1. ScanInv => SearchFinds
  <2> SUFFICES ASSUME ScanInv, Calm PROVE SearchFinds
    BY DEF SearchFinds, Calm
  <2>1. Ascending(list) /\ list \in Seq(Entries)
    BY DEF ScanInv, ListInv, Typed
  <2>2. \A i, j \in DOMAIN list : i < j => list[i].id <= list[j].id
    BY <2>1 DEF Ascending
  <2>3. \A id \in Ids : FindFast(list, id) = FindSlow(list, id)
    BY <2>1, FindTheSame
  <2> QED BY <2>2, <2>3 DEF SearchFinds
<1> QED BY <1>1, ScanKeepsInv, PTL

(* Unless a partial scan was asked for, no path that winx_scan_disk returns *)
(* has a directory in it that was not found, however the records were moved *)
(* about while they were read: build_file_path counts an error, and the list *)
(* is destroyed.                                                           *)
THEOREM PathsAreFound == Spec => []NoMadeUpPaths
<1>1. ScanInv => NoMadeUpPaths
  <2> SUFFICES ASSUME ScanInv, ~Partial, NEW i \in DOMAIN result
               PROVE  Nothing \notin ToSet(result[i].path)
    BY DEF NoMadeUpPaths
  <2>1. Clear(result[i].path)
    BY DEF ScanInv, PathInv
  <2> QED BY <2>1 DEF Clear, ToSet
<1> QED BY <1>1, ScanKeepsInv, PTL

-----------------------------------------------------------------------------
(* No path is longer than its buffer, and f is an entry of the list or its *)
(* end.                                                                    *)
SizesInv ==
  /\ \A i \in DOMAIN list : Len(list[i].path) <= MaxPath
  /\ pc = "path" => Len(walk.child) <= MaxPath
  /\ pc \in {"layout", "scan", "file"} => k = 0
  /\ k <= Len(list) + 1

(* A list without paths, at its first entry.                               *)
LEMMA NoPathYet ==
  ASSUME NEW l \in Seq(Entries), \A i \in DOMAIN l : l[i].path = <<>>, NEW n \in {0, 1}
  PROVE  (\A i \in DOMAIN l : Len(l[i].path) <= MaxPath) /\ n <= Len(l) + 1
<1>1. Len(<<>>) = 0 /\ MaxPath \in Nat /\ Len(l) \in Nat
  BY PathAssumption, EmptySeq, LenProperties
<1> QED BY <1>1

(* Every step keeps to the buffers and to the list.                        *)
LEMMA SizesStep ==
  ASSUME TableInv, ListInv, SizesInv, ListInv', [Next]_vars
  PROVE  SizesInv'
<1> USE DEF SizesInv
<1>1. /\ list \in Seq(Entries) /\ list' \in Seq(Entries) /\ k \in Nat
      /\ walk \in [child : Paths, parent : Ids, full : BOOLEAN, fast : BOOLEAN]
      /\ pc = "file" => \A i \in DOMAIN list : list[i].path = <<>>
      /\ pc' = "file" => \A i \in DOMAIN list' : list'[i].path = <<>>
      /\ pc \in {"layout", "scan"} => \A i \in DOMAIN list : list[i].path = <<>>
      /\ pc' = "scan" => \A i \in DOMAIN list' : list'[i].path = <<>>
  BY DEF ListInv, Typed, Growing
<1>2. ASSUME UNCHANGED <<list, k>>, pc' # "path" \/ UNCHANGED <<walk, pc>>,
             pc \in {"layout", "scan", "file"} \/ pc' \notin {"layout", "scan", "file"}
      PROVE  SizesInv'
  BY <1>2
<1>3. ASSUME pc \in {"layout", "scan", "file"}, k' = k, pc' \in {"scan", "file"} PROVE SizesInv'
  <2>1. k' = 0 /\ \A i \in DOMAIN list' : list'[i].path = <<>>
    BY <1>1, <1>3
  <2> QED BY <1>1, <1>3, <2>1, NoPathYet
<1>4. ASSUME pc' = "paths", k' = 1, \A i \in DOMAIN list' : list'[i].path = <<>> PROVE SizesInv'
  BY <1>1, <1>4, NoPathYet
<1>5. CASE Layout \/ ReadList \/ EntryFails \/ ChildFails \/ ReadFails \/ ScanEnd
  BY <1>2, <1>5 DEF Layout, ReadList, EntryFails, AtAttribute, ChildFails, ReadFails, ScanEnd,
                    ReadingChild
<1>6. CASE ReadRecord \/ ReadOdd
  <2>1. PICK ret : Got(ret) /\ pc = "scan"
    BY <1>6 DEF ReadRecord, ReadOdd
  <2>2. CASE mft[ret].use = "base"
    <3>1. k' = k /\ pc' = "file"
      BY <2>1, <2>2 DEF Got, Analyze
    <3> QED BY <1>3, <2>1, <3>1
  <2>3. CASE mft[ret].use # "base"
    <3>1. list' = list /\ ((pc' = "paths" /\ k' = 1) \/ (pc' = "scan" /\ k' = k))
      BY <2>1, <2>3 DEF Got, GoOn, StartPaths
    <3> QED BY <1>1, <1>3, <1>4, <2>1, <3>1
  <2> QED BY <2>2, <2>3
<1>7. CASE ReadAttribute \/ ReadChild
  BY <1>3, <1>7 DEF ReadAttribute, AtAttribute, ReadChild, ReadingChild
<1>8. CASE FileEnd
  <2>1. /\ pc = "file" /\ list' = Named(list)
        /\ ((pc' = "paths" /\ k' = 1) \/ (pc' = "scan" /\ k' = k))
    BY <1>8 DEF FileEnd, GoOn, StartPaths
  <2>2. \A i \in DOMAIN list' : list'[i].path = <<>>
    BY <2>1, NamedFacts DEF ListInv
  <2> QED BY <1>3, <1>4, <2>1, <2>2
<1>9. CASE ScanStops
  BY <1>1, <1>4, <1>9 DEF ScanStops, StartPaths
<1>10. CASE NextEntry
  <2>1. /\ UNCHANGED <<list, k>> /\ pc' = "path"
        /\ walk'.child = <<list[k].name>>
    BY <1>1, <1>10 DEF NextEntry
  <2>2. Len(walk'.child) = 1 /\ MaxPath \in Nat /\ MaxPath # 0
    BY <2>1, PathAssumption
  <2> QED BY <2>1, <2>2
<1>11. CASE Climb
  <2> DEFINE d == FindDirectory(walk.parent)
             p == IF list[d].path # <<>> THEN list[d].path ELSE <<list[d].name>>
             q == IF d = 0 THEN <<Nothing>> ELSE p
  <2>1. pc = "path" /\ UNCHANGED <<list, k, pc>> /\ walk.child \in Paths /\ walk.child # <<>>
    BY <1>1, <1>11 DEF Climb, Climbing, ListInv
  <2>2. walk'.child = Cut(q \o walk.child)
    BY <1>1, <1>11 DEF Climb
  <2>3. q \in Paths
    <3>1. d = 0 \/ d \in DOMAIN list
      BY <1>1, FindInList DEF FindDirectory
    <3> HIDE DEF d
    <3>2. <<Nothing>> \in Paths
      <4>1. Nothing \in Seq(Names \cup {"volume"})
        BY DEF Nothing
      <4> QED BY <4>1, OneName
    <3>3. d # 0 => p \in Paths
      <4> SUFFICES ASSUME d # 0 PROVE p \in Paths
        OBVIOUS
      <4>1. list[d].path \in Paths /\ list[d].name \in Seq(Names)
        BY <1>1, <3>1, EntryFacts DEF Entries, Paths
      <4>2. <<list[d].name>> \in Paths
        BY <4>1, WiderNames, OneName
      <4> QED BY <4>1, <4>2
    <3> QED BY <3>2, <3>3
  <2> HIDE DEF q
  <2>4. Len(walk'.child) <= MaxPath
    <3>1. q \o walk.child \in Paths
      BY <2>1, <2>3, JoinFacts
    <3> QED BY <2>2, <3>1, CutFacts
  <2> QED BY <2>1, <2>4
<1>12. CASE ClimbStops \/ PathFails
  <2>1. pc = "path" /\ pc' = "paths" /\ k' = k + 1 /\ list' = list /\ k \in DOMAIN list
    BY <1>12 DEF ClimbStops, PathFails, Climbing, ListInv
  <2>2. k' <= Len(list) + 1
    BY <1>1, <2>1, EntryFacts
  <2> QED BY <2>1, <2>2
<1>13. CASE SetPath
  <2> DEFINE p == IF Head(walk.child) = Volume THEN walk.child ELSE Cut(<<Volume>> \o walk.child)
  <2>1. /\ pc = "path" /\ pc' = "paths" /\ k' = k + 1 /\ k \in DOMAIN list
        /\ walk.child \in Paths /\ walk.child # <<>>
        /\ list' = [list EXCEPT ![k].path = p]
    BY <1>1, <1>13 DEF SetPath, ListInv
  <2>2. Len(p) <= MaxPath
    <3>1. Volume \in Seq(Names \cup {"volume"})
      BY DEF Volume
    <3>2. <<Volume>> \o walk.child \in Paths
      BY <2>1, <3>1, OneName, JoinFacts
    <3>3. Len(Cut(<<Volume>> \o walk.child)) <= MaxPath
      BY <3>2, CutFacts
    <3> QED BY <2>1, <3>3
  <2> HIDE DEF p
  <2>3. DOMAIN list' = DOMAIN list /\ DOMAIN list = 1 .. Len(list) /\ Len(list) \in Nat
    BY <1>1, <2>1, EntryFacts
  <2>4. \A i \in DOMAIN list : Len(list'[i].path) <= MaxPath
    <3> SUFFICES ASSUME NEW i \in DOMAIN list PROVE Len(list'[i].path) <= MaxPath
      OBVIOUS
    <3>1. CASE i = k
      <4>1. list[k] \in Entries
        BY <1>1, <2>1, EntryFacts
      <4>2. list'[i] = [list[k] EXCEPT !.path = p]
        BY <2>1, <3>1
      <4>3. list'[i].path = p
        BY <4>1, <4>2 DEF Entries
      <4> QED BY <2>2, <4>3
    <3>2. CASE i # k
      <4>1. list'[i] = list[i]
        BY <2>1, <3>2
      <4> QED BY <4>1
    <3> QED BY <3>1, <3>2
  <2>5. Len(list') = Len(list)
    BY <1>1, <2>3, EntryFacts
  <2>6. k' <= Len(list') + 1
    BY <1>1, <2>1, <2>3, <2>5
  <2> QED BY <2>1, <2>3, <2>4, <2>6
<1>14. CASE Stop \/ Change \/ Finished \/ UNCHANGED vars
  <2>1. UNCHANGED program
    BY <1>14 DEF Stop, Change, Finished, vars
  <2> QED BY <2>1 DEF program
<1> QED
  BY <1>5, <1>6, <1>7, <1>8, <1>9, <1>10, <1>11, <1>12, <1>13, <1>14 DEF Next, Scan

(* The list is of records of the table, no path is longer than MAX_PATH, and *)
(* build_full_paths stays within the list.                                 *)
THEOREM ScanTyped == Spec => []TypeOK
<1>1. Init => SizesInv
  <2>1. DOMAIN <<>> = {} /\ Len(<<>>) = 0
    BY EmptySeq
  <2> QED BY <2>1 DEF Init, SizesInv
<1>2. ScanInv /\ ScanInv' /\ SizesInv /\ [Next]_vars => SizesInv'
  BY SizesStep DEF ScanInv
<1>3. ScanInv /\ SizesInv => TypeOK
  <2> SUFFICES ASSUME ScanInv, SizesInv PROVE TypeOK
    OBVIOUS
  <2>1. Typed
    BY DEF ScanInv, ListInv
  <2>2. \A i \in DOMAIN list : list[i].id \in Ids /\ list[i].parent \in Ids
    BY <2>1, EntryFacts DEF Typed, Entries
  <2>3. k \in 0 .. (Len(list) + 1)
    <3>1. Len(list) \in Nat /\ k \in Nat
      BY <2>1, EntryFacts DEF Typed
    <3> QED BY <3>1 DEF SizesInv
  <2> QED BY <2>1, <2>2, <2>3 DEF TypeOK, Typed, SizesInv
<1> QED BY <1>1, <1>2, <1>3, ScanKeepsInv, PTL DEF Spec

-----------------------------------------------------------------------------
(* The directory walk.  A scan goes one way or the other: the variables    *)
(* that winx_scan_disk has in both (list, pc, stop, result, bound, touched)*)
(* are the same, and those that only the walk has are declared here.       *)
CONSTANTS Nodes, TreeRoot, None, Dot, DotDot, Handles, Trees, Portion, Skipped

VARIABLES tree, stack, handles, f, ret, failed

Tree == INSTANCE FileTreeWalk WITH Root <- TreeRoot, Volumes <- Trees

(* A stack of ftw_helper's calls, with paths, places and listings of       *)
(* whatever kind.                                                          *)
Frames(P, C, L) == [path : P, hDir : Handles, cursor : C, listing : L]

IsStack(s) == \E P, C, L : s \in Seq(Frames(P, C, L))

(* The handles that are open are those of the calls, one for each.         *)
Owned(h, s) == /\ DOMAIN h = { s[i].hDir : i \in DOMAIN s }
               /\ \A i, j \in DOMAIN s : s[i].hDir = s[j].hDir => i = j

(* The walk is inside ftw_helper or not, as the place in the code says.    *)
Nested ==
  /\ IsStack(stack) /\ Owned(handles, stack)
  /\ pc \in {"root", "enter", "loop", "entry", "add", "check", "return", "cleanup", "done"}
  /\ pc \in {"root", "cleanup", "done"} => stack = <<>>
  /\ pc \in {"loop", "entry", "add", "check"} => stack # <<>>

(* After a failure there is only the way out, through all the calls.       *)
WayOut ==
  /\ ret \in {0, -1, -2}
  /\ pc # "done" => result = <<>>
  /\ failed /\ ~Partial => \/ pc \in {"return", "cleanup"} /\ ret = -1
                           \/ pc = "done" /\ result = <<>>

(* The part of Complete that is about failures: when a dump has failed, in *)
(* whatever depth, no file is listed, unless a partial scan is allowed.    *)
FailedListsNothing == pc = "done" /\ failed /\ ~Partial => result = <<>>

-----------------------------------------------------------------------------
(* Every call of ftw_helper that begins has a handle of its own.           *)
LEMMA CallOwned ==
  ASSUME IsStack(stack), Owned(handles, stack), NEW p, NEW c, NEW l, NEW d, NEW h \in Handles,
         Tree!Opened(d, h),
         stack' = Append(stack, [path |-> p, hDir |-> h, cursor |-> c, listing |-> l])
  PROVE  IsStack(stack') /\ Owned(handles', stack') /\ stack' # <<>>
<1>1. PICK P, C, L : stack \in Seq(Frames(P, C, L))
  BY DEF IsStack
<1> DEFINE n == Len(stack)
           r == [path |-> p, hDir |-> h, cursor |-> c, listing |-> l]
           F == Frames(P \cup {p}, C \cup {c}, L \cup {l})
<1>2. n \in Nat /\ DOMAIN stack = 1 .. n /\ \A i \in 1 .. n : stack[i] \in Frames(P, C, L)
  BY <1>1, LenProperties
<1>3. r \in F /\ r.hDir = h
  BY DEF Frames
<1>4. stack \in Seq(F)
  <2>1. Frames(P, C, L) \subseteq F
    BY DEF Frames
  <2> HIDE DEF F
  <2> QED BY <1>1, <2>1
<1> HIDE DEF r, F
<1>5. /\ stack' \in Seq(F) /\ Len(stack') = n + 1
      /\ \A i \in 1 .. n : stack'[i] = stack[i]
      /\ stack'[n + 1] = r
  <2>1. stack' = Append(stack, r)
    BY DEF r
  <2> QED BY <1>3, <1>4, <2>1, AppendProperties
<1>6. DOMAIN stack' = 1 .. (n + 1)
  BY <1>5, LenProperties
<1>7. h \notin DOMAIN handles /\ DOMAIN handles' = DOMAIN handles \cup {h}
  BY DEF Tree!Opened
<1>8. DOMAIN handles = { stack[i].hDir : i \in 1 .. n }
      /\ \A i, j \in 1 .. n : stack[i].hDir = stack[j].hDir => i = j
  BY <1>2 DEF Owned
<1>9. 1 .. (n + 1) = (1 .. n) \cup {n + 1}
  BY <1>2
<1> HIDE DEF n
<1>10. \A i \in 1 .. n : stack'[i].hDir = stack[i].hDir /\ stack'[i].hDir # h
  BY <1>5, <1>7, <1>8
<1>11. stack'[n + 1].hDir = h
  BY <1>3, <1>5
<1>12. DOMAIN handles' = { stack'[i].hDir : i \in 1 .. (n + 1) }
  BY <1>7, <1>8, <1>9, <1>10, <1>11
<1>13. \A i, j \in 1 .. (n + 1) : stack'[i].hDir = stack'[j].hDir => i = j
  BY <1>8, <1>9, <1>10, <1>11
<1>14. IsStack(stack')
  BY <1>5 DEF IsStack, F
<1>15. stack' # <<>>
  BY <1>2, <1>5, EmptySeq DEF n
<1> QED BY <1>6, <1>12, <1>13, <1>14, <1>15 DEF Owned

(* A call that closes its directory and returns leaves the others' open.   *)
LEMMA ReturnOwned ==
  ASSUME IsStack(stack), Owned(handles, stack), stack # <<>>,
         Tree!NtClose(Tree!Top.hDir), NEW code, Tree!Return(code)
  PROVE  IsStack(stack') /\ Owned(handles', stack')
<1>1. PICK P, C, L : stack \in Seq(Frames(P, C, L))
  BY DEF IsStack
<1> DEFINE n == Len(stack)
           h == Tree!Top.hDir
           F == Frames(P, C, L)
<1>2. n \in Nat /\ n # 0 /\ DOMAIN stack = 1 .. n /\ \A i \in 1 .. n : stack[i] \in F
  BY <1>1, LenProperties, EmptySeq
<1>3. stack' = SubSeq(stack, 1, n - 1)
  BY DEF Tree!Return, Tree!Front
<1>4. h = stack[n].hDir
  BY DEF Tree!Top, Tree!Last
<1>5. DOMAIN handles' = DOMAIN handles \ {h}
  BY DEF Tree!NtClose
<1>6. /\ stack' \in Seq(F) /\ Len(stack') = n - 1
      /\ \A i \in 1 .. (n - 1) : stack'[i] = stack[i]
  <2> DEFINE m == n - 1
  <2>1. m \in Int /\ m \in Nat /\ \A i \in 1 .. m : stack[i] \in F
    BY <1>2
  <2> HIDE DEF m, n, F
  <2>2. /\ SubSeq(stack, 1, m) \in Seq(F)
        /\ Len(SubSeq(stack, 1, m)) = IF 1 <= m THEN (m - 1) + 1 ELSE 0
        /\ \A i \in 1 .. (m - 1 + 1) : SubSeq(stack, 1, m)[i] = stack[1 + i - 1]
    BY <2>1, SubSeqProperties
  <2>3. \A i \in 1 .. m : i \in 1 .. (m - 1 + 1) /\ 1 + i - 1 = i
    BY <2>1
  <2>4. stack' = SubSeq(stack, 1, m)
    BY <1>3 DEF m
  <2>5. Len(stack') = m
    BY <2>1, <2>2, <2>4
  <2>6. \A i \in 1 .. m : stack'[i] = stack[i]
    BY <2>2, <2>3, <2>4
  <2> QED BY <2>2, <2>4, <2>5, <2>6 DEF m
<1>7. DOMAIN stack' = 1 .. (n - 1)
  BY <1>2, <1>6, LenProperties
<1>8. DOMAIN handles = { stack[i].hDir : i \in 1 .. n }
      /\ \A i, j \in 1 .. n : stack[i].hDir = stack[j].hDir => i = j
  BY <1>2 DEF Owned
<1>9. 1 .. n = (1 .. (n - 1)) \cup {n} /\ n \notin 1 .. (n - 1)
  BY <1>2
<1>10. IsStack(stack')
  BY <1>6 DEF IsStack
<1> HIDE DEF n, h, F
<1>11. \A i \in 1 .. (n - 1) : stack'[i].hDir = stack[i].hDir /\ stack[i].hDir # h
  BY <1>4, <1>6, <1>8, <1>9
<1>12. DOMAIN handles' = { stack'[i].hDir : i \in 1 .. (n - 1) }
  BY <1>4, <1>5, <1>8, <1>9, <1>11
<1>13. \A i, j \in 1 .. (n - 1) : stack'[i].hDir = stack'[j].hDir => i = j
  BY <1>8, <1>9, <1>11
<1> QED BY <1>7, <1>10, <1>12, <1>13 DEF Owned

(* A call that goes on in its directory keeps its handle.                  *)
LEMMA SameOwned ==
  ASSUME IsStack(stack), Owned(handles, stack), stack # <<>>, UNCHANGED handles,
         NEW c, NEW l,
         stack' = [stack EXCEPT ![Len(stack)].listing = l, ![Len(stack)].cursor = c]
           \/ stack' = [stack EXCEPT ![Len(stack)].listing = l]
  PROVE  IsStack(stack') /\ Owned(handles', stack') /\ stack' # <<>>
<1>1. PICK P, C, L : stack \in Seq(Frames(P, C, L))
  BY DEF IsStack
<1> DEFINE n == Len(stack)
           F == Frames(P, C \cup {c}, L \cup {l})
           r == stack'[n]
<1>2. n \in Nat /\ n # 0 /\ DOMAIN stack = 1 .. n /\ \A i \in 1 .. n : stack[i] \in Frames(P, C, L)
  BY <1>1, LenProperties, EmptySeq
<1>3. DOMAIN stack' = 1 .. n /\ \A i \in 1 .. n : i # n => stack'[i] = stack[i]
  BY <1>2
<1>4. n \in 1 .. n /\ stack[n] \in Frames(P, C, L)
  BY <1>2
<1>5. r = [stack[n] EXCEPT !.listing = l, !.cursor = c] \/ r = [stack[n] EXCEPT !.listing = l]
  BY <1>2, <1>4
<1> HIDE DEF r, n
<1>6. r \in F /\ r.hDir = stack[n].hDir
  BY <1>4, <1>5 DEF Frames
<1>7. Frames(P, C, L) \subseteq F
  BY DEF Frames
<1> HIDE DEF F
<1>8. \A i \in 1 .. n : stack'[i] \in F /\ stack'[i].hDir = stack[i].hDir
  <2> SUFFICES ASSUME NEW i \in 1 .. n PROVE stack'[i] \in F /\ stack'[i].hDir = stack[i].hDir
    OBVIOUS
  <2>1. CASE i = n
    BY <1>6, <2>1 DEF r
  <2>2. CASE i # n
    BY <1>2, <1>3, <1>7, <2>2
  <2> QED BY <2>1, <2>2
<1>9. stack' \in Seq(F)
  <2>1. stack' = [i \in 1 .. n |-> stack'[i]]
    BY <1>2, <1>3
  <2>2. stack' \in [1 .. n -> F]
    BY <1>8, <2>1
  <2> QED BY <1>2, <2>2, SeqDef
<1>10. stack' # <<>>
  BY <1>3, <1>4
<1>11. Owned(handles', stack')
  BY <1>2, <1>3, <1>8 DEF Owned
<1> QED BY <1>9, <1>10, <1>11 DEF IsStack, F

-----------------------------------------------------------------------------
(* At the start nothing is open.                                           *)
LEMMA InitNested == Tree!Init => Nested /\ WayOut
<1> SUFFICES ASSUME Tree!Init PROVE Nested /\ WayOut
  OBVIOUS
<1>1. IsStack(<<>>)
  BY DEF IsStack
<1>2. Owned(handles, <<>>)
  BY DEF Owned, Tree!Init
<1> QED BY <1>1, <1>2 DEF Tree!Init, Nested, WayOut

(* Each of the five ways out of ftw_helper.                                *)
LEMMA ReturnNested ==
  ASSUME Nested, stack # <<>>, Tree!NtClose(Tree!Top.hDir), NEW code, Tree!Return(code)
  PROVE  Nested'
<1>1. IsStack(stack') /\ Owned(handles', stack')
  BY ReturnOwned DEF Nested
<1> QED BY <1>1 DEF Nested, Tree!Return

(* Every step keeps calls and open directories together.                   *)
LEMMA NextNested == Nested /\ WayOut /\ [Tree!Next]_(Tree!vars) => Nested' /\ WayOut'
<1> SUFFICES ASSUME Nested, WayOut, [Tree!Next]_(Tree!vars) PROVE Nested' /\ WayOut'
  OBVIOUS
<1>1. CASE Tree!AddRoot
  BY <1>1 DEF Tree!AddRoot, Nested, WayOut
<1>2. CASE Tree!AddRootFails
  <2>1. pc' \in {"enter", "done"} /\ (~Partial => pc' = "done")
    BY <1>2, Zenon DEF Tree!AddRootFails
  <2> QED BY <1>2, <2>1 DEF Tree!AddRootFails, Nested, WayOut
<1>3. CASE Tree!Enter
  <2>1. ASSUME NEW d, NEW h \in Handles, Tree!Opened(d, h), pc' = "loop",
               stack' = Append(stack, [path |-> f.path, hDir |-> h, cursor |-> TreeRoot - 1,
                                       listing |-> <<>>])
        PROVE  Nested'
    <3>1. IsStack(stack') /\ Owned(handles', stack') /\ stack' # <<>>
      BY <2>1, CallOwned DEF Nested
    <3> QED BY <2>1, <3>1 DEF Nested
  <2>2. ASSUME UNCHANGED <<stack, handles>>, pc' = "return" PROVE Nested'
    BY <2>2 DEF Nested
  <2>3. Nested'
    BY <1>3, <2>1, <2>2, Zenon DEF Tree!Enter
  <2>4. WayOut'
    BY <1>3 DEF Tree!Enter, WayOut
  <2> QED BY <2>3, <2>4
<1>4. ASSUME NEW code \in {0, -2}, pc \in {"loop", "check"}, Tree!NtClose(Tree!Top.hDir),
             Tree!Return(code), UNCHANGED <<result, failed>>
      PROVE  Nested' /\ WayOut'
  <2>1. stack # <<>>
    BY <1>4 DEF Nested
  <2>2. Nested'
    BY <1>4, <2>1, ReturnNested
  <2> QED BY <1>4, <2>2 DEF Tree!Return, WayOut
<1>5. CASE Tree!Terminated \/ Tree!TerminatedAtFile
  BY <1>4, <1>5 DEF Tree!Terminated, Tree!TerminatedAtFile
<1>6. CASE Tree!NoMore
  BY <1>4, <1>6 DEF Tree!NoMore
<1>7. CASE Tree!Read \/ Tree!NextEntry
  <2>1. /\ stack # <<>> /\ UNCHANGED <<result, failed, handles, ret>>
        /\ pc \in {"loop", "entry"} /\ pc' \in {"loop", "entry", "add"}
    BY <1>7 DEF Tree!Read, Tree!NextEntry, Nested
  <2>2. \E c, l : \/ stack' = [stack EXCEPT ![Len(stack)].listing = l, ![Len(stack)].cursor = c]
                 \/ stack' = [stack EXCEPT ![Len(stack)].listing = l]
    <3>1. CASE Tree!Read
      BY <3>1 DEF Tree!Read
    <3>2. CASE Tree!NextEntry
      BY <3>2 DEF Tree!NextEntry
    <3> QED BY <1>7, <3>1, <3>2
  <2>3. IsStack(stack') /\ Owned(handles', stack') /\ stack' # <<>>
    BY <2>1, <2>2, SameOwned DEF Nested
  <2> QED BY <2>1, <2>3 DEF Nested, WayOut
<1>8. CASE Tree!AddEntry
  BY <1>8 DEF Tree!AddEntry, Nested, WayOut
<1>9. CASE Tree!AddEntryFails
  <2>1. /\ stack # <<>> /\ Tree!NtClose(Tree!Top.hDir) /\ Tree!Return(-1)
        /\ UNCHANGED result /\ pc = "add"
    BY <1>9 DEF Tree!AddEntryFails, Nested
  <2>2. Nested'
    BY <2>1, ReturnNested
  <2> QED BY <2>1, <2>2 DEF Tree!Return, WayOut
<1>10. CASE Tree!Callbacks
  <2>1. pc = "check" /\ pc' \in {"enter", "loop"}
    BY <1>10 DEF Tree!Callbacks
  <2> QED BY <1>10, <2>1 DEF Tree!Callbacks, Nested, WayOut
<1>11. CASE Tree!PassOn \/ Tree!Returned
  <2>1. pc = "return" /\ UNCHANGED <<result, failed>>
    BY <1>11 DEF Tree!PassOn, Tree!Returned
  <2>2. CASE Tree!PassOn
    <3>1. stack # <<>> /\ Tree!NtClose(Tree!Top.hDir) /\ Tree!Return(ret)
      BY <2>2 DEF Tree!PassOn
    <3>2. Nested'
      BY <3>1, ReturnNested
    <3> QED BY <2>1, <3>1, <3>2 DEF Tree!Return, WayOut
  <2>3. CASE Tree!Returned
    <3>1. /\ pc' = IF stack # <<>> THEN "loop" ELSE "cleanup"
          /\ ~(ret < 0 /\ stack # <<>>)
          /\ UNCHANGED <<stack, handles, ret>>
      BY <2>3 DEF Tree!Returned
    <3> QED BY <2>1, <3>1 DEF Nested, WayOut
  <2> QED BY <1>11, <2>2, <2>3
<1>12. CASE Tree!Cleanup
  <2>1. /\ pc = "cleanup" /\ pc' = "done" /\ UNCHANGED <<stack, handles, ret, failed>>
        /\ ret = -1 /\ ~Partial => result' = <<>>
    BY <1>12 DEF Tree!Cleanup
  <2> QED BY <2>1 DEF Nested, WayOut
<1>13. CASE Tree!Stop \/ Tree!Change \/ Tree!Finished \/ UNCHANGED Tree!vars
  <2>1. UNCHANGED Tree!program
    BY <1>13 DEF Tree!Stop, Tree!Change, Tree!Finished, Tree!vars
  <2> QED BY <2>1 DEF Tree!program, Nested, WayOut
<1> QED BY <1>1, <1>2, <1>3, <1>4, <1>5, <1>6, <1>7, <1>8, <1>9, <1>10, <1>11, <1>12, <1>13
        DEF Tree!Next, Tree!Walk, Tree!WalkFails

(* Through whatever depth of ftw_helper's calls, the open directories are  *)
(* those of the calls that have not returned, a handle for each, so that   *)
(* none is left open when the walk ends: each of the five returns (ftw.c   *)
(* 526-590) closes the handle of its own call and no other.                *)
THEOREM WalkClosesHandles == Tree!Spec => []Tree!HandlesClosed
<1>1. Nested => Tree!HandlesClosed
  <2>1. DOMAIN <<>> = {}
    BY EmptySeq
  <2> QED BY <2>1 DEF Nested, Owned, Tree!HandlesClosed
<1> QED BY <1>1, InitNested, NextNested, PTL DEF Tree!Spec

(* A failure is passed on through all the calls of ftw_helper and is not   *)
(* taken for the user's wish to stop, so that the list is destroyed.       *)
THEOREM FailureIsPassedOn == Tree!Spec => []FailedListsNothing
<1>1. WayOut => FailedListsNothing
  BY DEF WayOut, FailedListsNothing
<1> QED BY <1>1, InitNested, NextNested, PTL DEF Tree!Spec
=============================================================================
