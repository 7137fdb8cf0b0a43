----------------------- MODULE GapEnumerationProofs -----------------------
(***************************************************************************)
(* Proofs about GapEnumeration, for every number of clusters and every set *)
(* of node addresses.                                                      *)
(***************************************************************************)
EXTENDS GapEnumeration, WellFoundedInduction, TLAPS

(* Every non-empty set of natural numbers has a least element.             *)
LEMMA LeastNumber ==
  ASSUME NEW T, T \subseteq Nat, T # {}
  PROVE  \E x \in T : \A y \in T : x <= y
<1> DEFINE R == { ss \in Nat \X Nat : ss[1] < ss[2] }
<1>1. IsWellFoundedOn(R, Nat)
  BY NatLessThanWellFounded DEF OpToRel
<1>2. \A a, b \in Nat : a < b => <<a, b>> \in R
  OBVIOUS
<1> HIDE DEF R
<1>3. PICK x \in T : \A y \in T : ~(<<y, x>> \in R)
  BY <1>1, WFMin
<1>4. \A y \in T : ~(y < x)
  BY <1>2, <1>3
<1>5. \A y \in T : x <= y
  BY <1>4
<1> QED BY <1>5

(* Every non-empty bounded set of natural numbers has a greatest element.  *)
LEMMA GreatestNumber ==
  ASSUME NEW T, NEW m \in Nat, T \subseteq 0 .. m, T # {}
  PROVE  \E x \in T : \A y \in T : y <= x
<1> DEFINE U == { m - t : t \in T }
<1>1. U \subseteq Nat
  OBVIOUS
<1>2. PICK t \in T : TRUE
  OBVIOUS
<1>3. m - t \in U
  OBVIOUS
<1>4. PICK u \in U : \A y \in U : u <= y
  BY <1>1, <1>3, LeastNumber
<1>5. PICK x \in T : u = m - x
  BY <1>4
<1>6. \A y \in T : m - y \in U
  OBVIOUS
<1>7. \A y \in T : m - x <= m - y
  BY <1>4, <1>5, <1>6
<1>8. x \in Int /\ \A y \in T : y \in Int
  OBVIOUS
<1>9. \A y \in T : y <= x
  BY <1>7, <1>8
<1> QED BY <1>9

-----------------------------------------------------------------------------
(* The invariant, as a predicate of a state s of the object.               *)

TypeOKOf(s) ==
  /\ DOMAIN s = {"list", "regions", "sizes", "broke"}
  /\ DOMAIN s.list \subseteq Node
  /\ \A n \in DOMAIN s.list : s.list[n] \in Run
  /\ DOMAIN s.regions \subseteq Cluster
  /\ \A k \in DOMAIN s.regions : s.regions[k] \in DOMAIN s.list
  /\ s.sizes \subseteq (1 .. Clusters) \X Node
  /\ s.broke \in BOOLEAN

IndexesAgreeOf(s) ==
  /\ \A k \in DOMAIN s.regions : Region(s, k).lcn = k
  /\ s.sizes = { SizesEntry(s, k) : k \in DOMAIN s.regions }

CoalescedOf(s) ==
  \A k1, k2 \in DOMAIN s.regions :
     k1 < k2 => k1 + Region(s, k1).length < k2

WellFormed(s) == TypeOKOf(s) /\ IndexesAgreeOf(s) /\ CoalescedOf(s)

-----------------------------------------------------------------------------
(* Two runs of m and n clusters, one behind the other, make one of m + n.  *)
LEMMA JoinRuns ==
  ASSUME NEW i \in Nat, NEW m \in Nat, NEW n \in Nat, NEW j \in Nat, i + m = j
  PROVE  i .. (i + (m + n) - 1) = (i .. (i + m - 1)) \cup (j .. (j + n - 1))
OBVIOUS

(* A place and a length within the volume make a run of clusters.          *)
LEMMA RunIntro ==
  ASSUME NEW l \in Cluster, NEW n \in 1 .. Clusters, l + n <= Clusters
  PROVE  [lcn |-> l, length |-> n] \in Run
BY DEF Run

(* What a run of clusters is: a place and a length within the volume.      *)
LEMMA RunElim ==
  ASSUME NEW r \in Run
  PROVE  /\ r.lcn \in Cluster /\ r.length \in 1 .. Clusters
         /\ r.lcn \in Nat /\ r.length \in Nat /\ r.length > 0
         /\ r.lcn + r.length <= Clusters
         /\ r = [lcn |-> r.lcn, length |-> r.length]
BY ClustersAssumption DEF Run, Cluster

(* A free cluster has an end of its run: the scan of the bitmap meets a    *)
(* cluster in use, or the end of the volume.                               *)
LEMMA RunEndIsEnd ==
  ASSUME NEW F, F \subseteq Cluster, NEW l \in F
  PROVE  /\ RunEnd(F, l) \in (l + 1) .. Clusters
         /\ RunEnd(F, l) \notin F
         /\ \A c \in l .. (RunEnd(F, l) - 1) : c \in F
<1> USE ClustersAssumption DEF Cluster
<1> DEFINE T == { e \in (l + 1) .. Clusters : e \notin F }
<1>1. l \in Nat /\ l + 1 <= Clusters
  OBVIOUS
<1>2. Clusters \in T /\ T \subseteq Nat
  BY <1>1
<1>3. PICK e \in T : \A d \in T : e <= d
  BY <1>2, LeastNumber
<1>4. \A c \in l .. (e - 1) : c \in F
  <2> SUFFICES ASSUME NEW c \in l .. (e - 1), c \notin F PROVE FALSE
    OBVIOUS
  <2>1. c \in T
    BY <1>1, <1>3
  <2>2. e <= c
    BY <1>3, <2>1
  <2> QED BY <1>1, <1>3, <2>2
<1>5. \E d \in (l + 1) .. Clusters : d \notin F /\ \A c \in l .. (d - 1) : c \in F
  BY <1>3, <1>4
<1> QED BY <1>5 DEF RunEnd

(* A cluster that is free lies in the run of some start.                   *)
LEMMA RunStartExists ==
  ASSUME NEW F, F \subseteq Cluster, NEW c \in F
  PROVE  \E l \in RunStarts(F) : l <= c /\ c < RunEnd(F, l)
<1> USE ClustersAssumption DEF Cluster
<1> DEFINE T == { l \in 0 .. c : \A d \in l .. c : d \in F }
<1>1. c \in Nat
  OBVIOUS
<1>2. c \in T /\ T \subseteq Nat
  BY <1>1
<1>3. PICK l \in T : \A d \in T : l <= d
  BY <1>2, LeastNumber
<1>4. l \in F /\ l \in Nat /\ l <= c
  BY <1>1, <1>3
<1>5. l - 1 \notin F
  <2> SUFFICES ASSUME l - 1 \in F PROVE FALSE
    OBVIOUS
  <2>1. l - 1 \in T
    BY <1>1, <1>3, <1>4
  <2> QED BY <1>3, <1>4, <2>1
<1>6. l \in RunStarts(F)
  BY <1>4, <1>5 DEF RunStarts
<1>7. c < RunEnd(F, l)
  <2>1. RunEnd(F, l) \in (l + 1) .. Clusters /\ RunEnd(F, l) \notin F
    BY <1>4, RunEndIsEnd
  <2>2. ~(RunEnd(F, l) \in l .. c)
    BY <1>3, <2>1
  <2> QED BY <1>1, <1>4, <2>1, <2>2
<1> QED BY <1>4, <1>6, <1>7

(* A scan builds a well-formed table of exactly the bitmap's free clusters.*)
LEMMA ScannedIsExact ==
  ASSUME NEW s, s.broke \in BOOLEAN, NEW F, F \subseteq Cluster
  PROVE  /\ WellFormed(Scanned(s, F))
         /\ Covered(Scanned(s, F)) = F
         /\ Scanned(s, F).broke = s.broke
<1> USE ClustersAssumption, NodeAssumption
<1> DEFINE t == Scanned(s, F)
           K == RunStarts(F)
           len(l) == RunEnd(F, l) - l
<1>1. K \subseteq F /\ \A l \in K : l \in Cluster
  BY DEF RunStarts
<1>2. /\ DOMAIN t = {"list", "regions", "sizes", "broke"}
      /\ DOMAIN t.list = K
      /\ \A l \in K : t.list[l] = [lcn |-> l, length |-> len(l)]
      /\ DOMAIN t.regions = K
      /\ \A l \in K : t.regions[l] = l
      /\ t.sizes = { <<t.list[l].length, l>> : l \in K }
      /\ t.broke = s.broke
  BY DEF Scanned
<1> HIDE DEF t, K
<1>3. \A l \in K : /\ len(l) \in 1 .. Clusters /\ l + len(l) <= Clusters
                   /\ l + len(l) \notin F
                   /\ \A c \in l .. (l + len(l) - 1) : c \in F
  <2> SUFFICES ASSUME NEW l \in K
               PROVE  /\ len(l) \in 1 .. Clusters /\ l + len(l) <= Clusters
                      /\ l + len(l) \notin F
                      /\ \A c \in l .. (l + len(l) - 1) : c \in F
    OBVIOUS
  <2>1. /\ RunEnd(F, l) \in (l + 1) .. Clusters
        /\ RunEnd(F, l) \notin F
        /\ \A c \in l .. (RunEnd(F, l) - 1) : c \in F
    BY <1>1, RunEndIsEnd
  <2>2. l \in Nat /\ RunEnd(F, l) \in Nat
    BY <1>1, <2>1 DEF Cluster
  <2>3. l + len(l) = RunEnd(F, l)
    BY <2>2
  <2>4. len(l) \in 1 .. Clusters
    BY <2>1, <2>2
  <2> QED BY <2>1, <2>2, <2>3, <2>4
<1> HIDE DEF len
<1>4. \A l \in K : Region(t, l) = [lcn |-> l, length |-> len(l)]
  BY <1>2 DEF Region
<1>5. TypeOKOf(t)
  <2>1. \A n \in DOMAIN t.list : t.list[n] \in Run
    <3> SUFFICES ASSUME NEW n \in K PROVE t.list[n] \in Run
      BY <1>2
    <3>1. n \in Cluster /\ len(n) \in 1 .. Clusters /\ n + len(n) <= Clusters
      BY <1>1, <1>3
    <3>2. [lcn |-> n, length |-> len(n)] \in Run
      BY <3>1, RunIntro
    <3> QED BY <1>2, <3>2
  <2>2. DOMAIN t.list \subseteq Node /\ DOMAIN t.regions \subseteq Cluster
    BY <1>1, <1>2 DEF Cluster
  <2>3. \A l \in K : t.list[l].length \in 1 .. Clusters /\ l \in Node
    <3>1. \A l \in K : t.list[l].length = len(l)
      <4>1. ASSUME NEW l \in K PROVE t.list[l].length = len(l)
        <5> DEFINE r == t.list[l]
        <5>1. r = [lcn |-> l, length |-> len(l)]
          BY <1>2
        <5> HIDE DEF r
        <5>2. r.length = len(l)
          BY <5>1
        <5> QED BY <5>2 DEF r
      <4> QED BY <4>1
    <3>2. \A l \in K : len(l) \in 1 .. Clusters
      BY <1>3
    <3> QED BY <1>2, <2>2, <3>1, <3>2
  <2>4. t.sizes \subseteq (1 .. Clusters) \X Node
    BY <1>2, <2>3
  <2> QED BY <1>2, <2>1, <2>2, <2>4 DEF TypeOKOf
<1>6. IndexesAgreeOf(t)
  <2>1. \A k \in K : SizesEntry(t, k) = <<t.list[k].length, k>>
    BY <1>2 DEF SizesEntry, Region
  <2>2. t.sizes = { SizesEntry(t, k) : k \in K }
    BY <1>2, <2>1
  <2>3. \A k \in K : Region(t, k).lcn = k
    BY <1>4
  <2> QED BY <1>2, <2>2, <2>3 DEF IndexesAgreeOf
<1>7. CoalescedOf(t)
  <2> SUFFICES ASSUME NEW k1 \in K, NEW k2 \in K, k1 < k2
               PROVE  k1 + len(k1) < k2
    BY <1>2, <1>4 DEF CoalescedOf
  <2>1. k1 \in Nat /\ k2 \in Nat /\ len(k1) \in Nat
    BY <1>1, <1>3 DEF Cluster
  <2>2. k2 - 1 \notin F /\ k2 \in F
    BY DEF RunStarts, K
  <2>3. ~(k2 - 1 \in k1 .. (k1 + len(k1) - 1))
    BY <1>3, <2>2
  <2>4. k1 + len(k1) # k2
    BY <1>3, <2>2
  <2> QED BY <2>1, <2>3, <2>4
<1>8. Covered(t) = F
  <2>1. Covered(t) = UNION { Cells(Region(t, l)) : l \in K }
    BY <1>2 DEF Covered
  <2>2. \A l \in K : Cells(Region(t, l)) = l .. (l + len(l) - 1)
    BY <1>4 DEF Cells
  <2>3. \A c : c \in Covered(t) => c \in F
    BY <1>3, <2>1, <2>2
  <2>4. ASSUME NEW c \in F PROVE c \in Covered(t)
    <3>1. PICK l \in K : l <= c /\ c < RunEnd(F, l)
      BY RunStartExists DEF K
    <3>2. l \in Nat /\ c \in Nat
      BY <1>1 DEF Cluster
    <3>3. RunEnd(F, l) = l + len(l) /\ len(l) \in Nat
      <4>1. RunEnd(F, l) \in (l + 1) .. Clusters
        BY <1>1, RunEndIsEnd
      <4> QED BY <1>3, <3>2, <4>1 DEF len
    <3>4. c \in l .. (l + len(l) - 1)
      BY <3>1, <3>2, <3>3
    <3> QED BY <2>1, <2>2, <3>4
  <2> QED BY <2>3, <2>4
<1> QED BY <1>2, <1>5, <1>6, <1>7, <1>8 DEF WellFormed, t

-----------------------------------------------------------------------------
(* What a well-formed table gives about one of its regions.                *)
LEMMA RegionFacts ==
  ASSUME NEW s, WellFormed(s), NEW k \in DOMAIN s.regions
  PROVE  /\ Region(s, k) \in Run
         /\ Region(s, k).lcn = k
         /\ k \in Nat /\ k \in Cluster
         /\ Region(s, k).length \in Nat /\ Region(s, k).length > 0
         /\ k + Region(s, k).length <= Clusters
         /\ Region(s, k).length \in 1 .. Clusters
         /\ s.regions[k] \in DOMAIN s.list /\ s.regions[k] \in Node
<1>1. s.regions[k] \in DOMAIN s.list /\ s.regions[k] \in Node
  BY DEF WellFormed, TypeOKOf
<1>2. Region(s, k) \in Run
  BY <1>1 DEF WellFormed, TypeOKOf, Region
<1>3. Region(s, k).lcn = k
  BY DEF WellFormed, IndexesAgreeOf
<1>4. k \in Cluster
  BY DEF WellFormed, TypeOKOf
<1> HIDE DEF Region
<1> QED BY <1>1, <1>2, <1>3, <1>4, RunElim

(* No two keys of a well-formed table share a node.                        *)
LEMMA NodesDiffer ==
  ASSUME NEW s, WellFormed(s),
         NEW j \in DOMAIN s.regions, NEW k \in DOMAIN s.regions,
         s.regions[j] = s.regions[k]
  PROVE  j = k
<1>1. Region(s, j) = Region(s, k)
  BY DEF Region
<1> QED BY <1>1, RegionFacts

(* The step all pushes and pops share: a node gets new bounds that neither *)
(* overlap nor touch any region that stays.                                *)
LEMMA ReindexedFacts ==
  ASSUME NEW s, WellFormed(s),
         NEW gone, gone \subseteq DOMAIN s.regions,
         NEW n \in Node,
         n \notin DOMAIN s.list \/ \E g \in gone : s.regions[g] = n,
         NEW r \in Run,
         \A k \in DOMAIN s.regions \ gone :
            \/ k + Region(s, k).length < r.lcn
            \/ r.lcn + r.length < k
  PROVE  /\ WellFormed(Reindexed(s, gone, n, r))
         /\ Reindexed(s, gone, n, r).broke = s.broke
         /\ Covered(Reindexed(s, gone, n, r)) =
              Cells(r) \cup UNION { Cells(Region(s, k)) :
                                      k \in DOMAIN s.regions \ gone }
<1> DEFINE t == Reindexed(s, gone, n, r)
           kept == DOMAIN s.regions \ gone
<1>1. /\ DOMAIN t = {"list", "regions", "sizes", "broke"}
      /\ DOMAIN t.list = DOMAIN s.list \cup {n}
      /\ DOMAIN t.regions = kept \cup {r.lcn}
      /\ \A k \in kept : t.regions[k] = s.regions[k]
      /\ t.sizes = (s.sizes \ { SizesEntry(s, k) : k \in gone })
                      \cup { <<r.length, n>> }
      /\ t.broke = s.broke
  BY DEF Reindexed
<1>2. t.list[n] = r
  BY DEF Reindexed
<1>3. \A m \in DOMAIN s.list : m # n => t.list[m] = s.list[m]
  BY DEF Reindexed
<1>4. r.lcn \notin kept => t.regions[r.lcn] = n
  BY DEF Reindexed
<1> HIDE DEF t
<1>5. /\ r.lcn \in Nat /\ r.length \in Nat /\ r.length > 0 /\ r.lcn \in Cluster
      /\ r.length \in 1 .. Clusters
  BY RunElim
<1>6. r.lcn \notin kept
  BY <1>5, RegionFacts
<1>7. \A k \in kept : s.regions[k] # n /\ s.regions[k] \in DOMAIN s.list
  <2> SUFFICES ASSUME NEW k \in kept
               PROVE  s.regions[k] # n /\ s.regions[k] \in DOMAIN s.list
    OBVIOUS
  <2>1. s.regions[k] \in DOMAIN s.list
    BY RegionFacts
  <2>2. \A g \in gone : s.regions[g] # s.regions[k]
    BY NodesDiffer
  <2> QED BY <2>1, <2>2
<1>8. \A k \in kept : Region(t, k) = Region(s, k)
  BY <1>1, <1>3, <1>7 DEF Region
<1>9. Region(t, r.lcn) = r
  BY <1>2, <1>4, <1>6 DEF Region
<1>10. TypeOKOf(t)
  <2>1. DOMAIN t.list \subseteq Node /\ DOMAIN t.regions \subseteq Cluster
    BY <1>1, <1>5 DEF WellFormed, TypeOKOf
  <2>2. \A m \in DOMAIN t.list : t.list[m] \in Run
    <3> SUFFICES ASSUME NEW m \in DOMAIN t.list PROVE t.list[m] \in Run
      OBVIOUS
    <3>1. CASE m = n
      BY <1>2, <3>1
    <3>2. CASE m # n
      <4>1. m \in DOMAIN s.list
        BY <1>1, <3>2
      <4> QED BY <1>3, <3>2, <4>1 DEF WellFormed, TypeOKOf
    <3> QED BY <3>1, <3>2
  <2>3. \A k \in DOMAIN t.regions : t.regions[k] \in DOMAIN t.list
    BY <1>1, <1>4, <1>6, <1>7
  <2>4. t.sizes \subseteq (1 .. Clusters) \X Node
    BY <1>1, <1>5 DEF WellFormed, TypeOKOf
  <2> QED BY <1>1, <2>1, <2>2, <2>3, <2>4 DEF TypeOKOf, WellFormed
<1>11. IndexesAgreeOf(t)
  <2>1. \A k \in DOMAIN t.regions : Region(t, k).lcn = k
    BY <1>1, <1>8, <1>9, RegionFacts
  <2>2. \A k \in kept : SizesEntry(t, k) = SizesEntry(s, k)
    BY <1>1, <1>8 DEF SizesEntry
  <2>3. SizesEntry(t, r.lcn) = <<r.length, n>>
    BY <1>4, <1>6, <1>9 DEF SizesEntry
  <2>4. s.sizes = { SizesEntry(s, k) : k \in DOMAIN s.regions }
    BY DEF WellFormed, IndexesAgreeOf
  <2>5. \A j \in gone, k \in kept : SizesEntry(s, j) # SizesEntry(s, k)
    <3> SUFFICES ASSUME NEW j \in gone, NEW k \in kept,
                        SizesEntry(s, j) = SizesEntry(s, k)
                 PROVE  FALSE
      OBVIOUS
    <3>1. s.regions[j] = s.regions[k]
      BY DEF SizesEntry
    <3> QED BY <3>1, NodesDiffer
  <2>6. s.sizes \ { SizesEntry(s, k) : k \in gone }
          = { SizesEntry(s, k) : k \in kept }
    BY <2>4, <2>5
  <2>7. t.sizes = { SizesEntry(t, k) : k \in DOMAIN t.regions }
    BY <1>1, <2>2, <2>3, <2>6
  <2> QED BY <2>1, <2>7 DEF IndexesAgreeOf
<1>12. CoalescedOf(t)
  <2> SUFFICES ASSUME NEW k1 \in DOMAIN t.regions, NEW k2 \in DOMAIN t.regions,
                      k1 < k2
               PROVE  k1 + Region(t, k1).length < k2
    BY DEF CoalescedOf
  <2>1. CASE k1 \in kept /\ k2 \in kept
    BY <1>8, <2>1 DEF WellFormed, CoalescedOf
  <2>2. CASE k1 = r.lcn /\ k2 \in kept
    <3>1. k2 + Region(s, k2).length < k1 \/ k1 + r.length < k2
      BY <2>2
    <3> QED BY <1>5, <1>9, <2>2, <3>1, RegionFacts
  <2>3. CASE k1 \in kept /\ k2 = r.lcn
    <3>1. k1 + Region(s, k1).length < k2 \/ k2 + r.length < k1
      BY <2>3
    <3> QED BY <1>5, <1>8, <2>3, <3>1, RegionFacts
  <2>4. ~(k1 = r.lcn /\ k2 = r.lcn)
    BY <1>5
  <2> QED BY <1>1, <2>1, <2>2, <2>3, <2>4
<1>13. Covered(t) = Cells(r) \cup UNION { Cells(Region(s, k)) : k \in kept }
  <2>1. Covered(t) = UNION { Cells(Region(t, k)) : k \in kept \cup {r.lcn} }
    BY <1>1 DEF Covered
  <2> QED BY <1>8, <1>9, <2>1
<1> QED BY <1>1, <1>10, <1>11, <1>12, <1>13 DEF WellFormed, t

-----------------------------------------------------------------------------
(* std::prev(lower_bound(l)) is the last region in front of l.             *)
LEMMA PrevFacts ==
  ASSUME NEW s, WellFormed(s), NEW l \in Nat, HasPrev(s, l)
  PROVE  /\ Prev(s, l) \in DOMAIN s.regions
         /\ Prev(s, l) < l
         /\ \A j \in DOMAIN s.regions : j < l => j <= Prev(s, l)
<1> DEFINE T == { k \in DOMAIN s.regions : k < l }
<1>1. T \subseteq 0 .. l /\ T # {}
  BY RegionFacts DEF HasPrev
<1>2. PICK k \in T : \A j \in T : j <= k
  BY <1>1, GreatestNumber
<1>3. \E i \in DOMAIN s.regions :
         i < l /\ \A j \in DOMAIN s.regions : j < l => j <= i
  BY <1>2
<1> QED BY <1>3 DEF Prev

(* A block outside the table lies in front of or behind every region.      *)
LEMMA BlockApart ==
  ASSUME NEW s, WellFormed(s), NEW b \in Run, Cells(b) \cap Covered(s) = {},
         NEW k \in DOMAIN s.regions
  PROVE  k + Region(s, k).length <= b.lcn \/ b.lcn + b.length <= k
<1> DEFINE n == Region(s, k).length
<1>1. k \in Nat /\ n \in Nat /\ n > 0 /\ Region(s, k).lcn = k
  BY RegionFacts
<1>2. b.lcn \in Nat /\ b.length \in Nat /\ b.length > 0
  BY RunElim
<1>3. \A c \in k .. (k + n - 1) : c \in Covered(s)
  BY <1>1 DEF Covered, Cells
<1>4. \A c \in b.lcn .. (b.lcn + b.length - 1) : c \notin Covered(s)
  BY DEF Cells
<1> HIDE DEF n
<1>5. CASE k <= b.lcn
  <2>1. ~(b.lcn \in k .. (k + n - 1))
    BY <1>2, <1>3, <1>4
  <2> QED BY <1>1, <1>2, <1>5, <2>1 DEF n
<1>6. CASE b.lcn < k
  <2>1. ~(k \in b.lcn .. (b.lcn + b.length - 1))
    BY <1>1, <1>3, <1>4
  <2> QED BY <1>1, <1>2, <1>6, <2>1
<1> QED BY <1>1, <1>2, <1>5, <1>6

(* No region ends where the block starts unless push merges with it.       *)
LEMMA NoPrevNoTouch ==
  ASSUME NEW s, WellFormed(s), NEW b \in Run, ~MergePrev(s, b),
         NEW k \in DOMAIN s.regions
  PROVE  k + Region(s, k).length # b.lcn
<1> SUFFICES ASSUME k + Region(s, k).length = b.lcn PROVE FALSE
  OBVIOUS
<1>1. b.lcn \in Nat
  BY RunElim
<1>2. k \in Nat /\ Region(s, k).length \in Nat /\ Region(s, k).length > 0
  BY RegionFacts
<1>3. k < b.lcn /\ HasPrev(s, b.lcn)
  BY <1>1, <1>2 DEF HasPrev
<1> DEFINE p == Prev(s, b.lcn)
<1>4. p \in DOMAIN s.regions /\ p < b.lcn /\ k <= p
  BY <1>1, <1>3, PrevFacts
<1>5. p \in Nat
  BY <1>4, RegionFacts
<1> HIDE DEF p
<1>6. p = k
  <2>1. ~(k < p)
    BY <1>1, <1>2, <1>4, <1>5 DEF WellFormed, CoalescedOf
  <2> QED BY <1>2, <1>4, <1>5, <2>1
<1>7. Region(s, p).lcn + Region(s, p).length = b.lcn
  BY <1>6, RegionFacts
<1> QED BY <1>3, <1>7 DEF MergePrev, p

(* push takes up a block: the table stays well-formed and covers the       *)
(* block's clusters and those it covered before, no more.                  *)
LEMMA PushFacts ==
  ASSUME NEW s, WellFormed(s), NEW b \in Run, NEW F,
         Cells(b) \cap Covered(s) = {},
         DOMAIN s.regions # {},
         Node \ DOMAIN s.list # {}
  PROVE  /\ WellFormed(PushBlock(s, b, F))
         /\ PushBlock(s, b, F).broke = s.broke
         /\ Covered(PushBlock(s, b, F)) = Covered(s) \cup Cells(b)
<1> USE ClustersAssumption
<1> DEFINE t == PushBlock(s, b, F)
           p == Prev(s, b.lcn)
           q == b.lcn + b.length
           K == DOMAIN s.regions
           len(k) == Region(s, k).length
           cells(k) == k .. (k + len(k) - 1)
<1>1. /\ b.lcn \in Nat /\ b.length \in Nat /\ b.length > 0
      /\ b.lcn \in Cluster /\ b.length \in 1 .. Clusters /\ q <= Clusters
      /\ Cells(b) = b.lcn .. (q - 1)
      /\ q = b.lcn + b.length /\ q \in Nat
  BY RunElim DEF Cells
<1>n. /\ b.lcn \in Nat /\ b.length \in Nat /\ b.length > 0
      /\ q \in Nat /\ b.lcn + b.length = q /\ q <= Clusters /\ Clusters \in Nat
  BY <1>1
<1>2. \A k \in K : /\ k \in Nat /\ len(k) \in Nat /\ len(k) > 0
                   /\ k \in Cluster /\ k + len(k) <= Clusters
                   /\ Cells(Region(s, k)) = cells(k)
                   /\ Region(s, k) = [lcn |-> k, length |-> len(k)]
                   /\ s.regions[k] \in Node
  <2> SUFFICES ASSUME NEW k \in K
               PROVE /\ k \in Nat /\ len(k) \in Nat /\ len(k) > 0
                     /\ k \in Cluster /\ k + len(k) <= Clusters
                     /\ Cells(Region(s, k)) = cells(k)
                     /\ Region(s, k) = [lcn |-> k, length |-> len(k)]
                     /\ s.regions[k] \in Node
    OBVIOUS
  <2>1. Region(s, k) \in Run /\ Region(s, k).lcn = k /\ s.regions[k] \in Node
    BY RegionFacts
  <2>2. Region(s, k) = [lcn |-> k, length |-> len(k)]
    BY <2>1, RunElim
  <2> QED BY <2>1, <2>2, RegionFacts DEF Cells
<1>3. \A k \in K : k + len(k) <= b.lcn \/ q <= k
  BY BlockApart
<1>4. \A j, k \in K : j < k => j + len(j) < k
  BY DEF WellFormed, CoalescedOf
<1>5. MergePrev(s, b) => p \in K /\ p + len(p) = b.lcn
  <2> SUFFICES ASSUME MergePrev(s, b)
               PROVE  p \in K /\ p + len(p) = b.lcn
    OBVIOUS
  <2>1. HasPrev(s, b.lcn) /\ Region(s, p).lcn + Region(s, p).length = b.lcn
    BY DEF MergePrev
  <2>2. p \in K
    BY <1>1, <2>1, PrevFacts
  <2> QED BY <2>1, <2>2, RegionFacts
<1>6. ~MergePrev(s, b) => \A k \in K : k + len(k) # b.lcn
  BY NoPrevNoTouch
<1>7. Covered(s) = UNION { Cells(Region(s, k)) : k \in K }
  BY DEF Covered
<1> HIDE DEF K, len, p, q
<1>8. CASE MergePrev(s, b) /\ MergeNext(s, b)
  <2> DEFINE r == [lcn |-> p, length |-> len(p) + b.length + len(q)]
  <2>1. p \in K /\ q \in K /\ p + len(p) = b.lcn
    BY <1>5, <1>8 DEF MergeNext, K, q
  <2>2. [Region(s, p) EXCEPT !.length = @ + b.length + Region(s, q).length] = r
    BY <1>2, <2>1 DEF len
  <2>a. /\ p \in Nat /\ len(p) \in Nat /\ len(p) > 0 /\ p \in Cluster
        /\ len(q) \in Nat /\ len(q) > 0 /\ q + len(q) <= Clusters
        /\ p + (len(p) + b.length + len(q)) = q + len(q)
    <3>1. /\ p \in Nat /\ len(p) \in Nat /\ len(p) > 0 /\ p \in Cluster
          /\ len(q) \in Nat /\ len(q) > 0 /\ q + len(q) <= Clusters
      BY <1>2, <2>1
    <3> QED BY <1>1, <2>1, <3>1
  <2>3. t = Reindexed(s, {p, q}, s.regions[p], r)
    BY <1>1, <1>8, <2>2 DEF PushBlock, p, q
  <2> HIDE DEF r, t
  <2>4. r.lcn = p /\ r.length = len(p) + b.length + len(q)
    BY DEF r
  <2>5. r \in Run
    <3>0. /\ p \in Nat /\ len(p) \in Nat /\ len(p) > 0 /\ len(q) \in Nat
          /\ q + len(q) <= Clusters /\ p + (len(p) + b.length + len(q)) = q + len(q)
      BY <2>a
    <3>1. len(p) + b.length + len(q) \in 1 .. Clusters
      BY ONLY <1>n, <3>0
    <3>2. p \in Cluster /\ p + (len(p) + b.length + len(q)) <= Clusters
      BY <2>a
    <3> QED BY <3>1, <3>2, RunIntro DEF r
  <2>6. \A k \in K \ {p, q} : k + len(k) < r.lcn \/ r.lcn + r.length < k
    <3> SUFFICES ASSUME NEW k \in K \ {p, q}
                 PROVE  k + len(k) < p \/ p + (len(p) + b.length + len(q)) < k
      BY <2>4
    <3>1. CASE k < p
      BY <1>4, <2>1, <3>1
    <3>2. CASE p < k
      <4>1. b.lcn < k
        BY <1>4, <2>1, <3>2
      <4>2. q < k
        BY <1>1, <1>2, <1>3, <4>1
      <4>3. q + len(q) < k
        BY <1>4, <2>1, <4>2
      <4> QED BY <2>a, <4>3
    <3> QED BY <1>2, <2>1, <3>1, <3>2
  <2>7. /\ WellFormed(t) /\ t.broke = s.broke
        /\ Covered(t) = Cells(r) \cup UNION { Cells(Region(s, k)) : k \in K \ {p, q} }
    <3>1. /\ {p, q} \subseteq DOMAIN s.regions /\ s.regions[p] \in Node
          /\ \E g \in {p, q} : s.regions[g] = s.regions[p]
      BY <1>2, <2>1 DEF K
    <3>2. \A k \in DOMAIN s.regions \ {p, q} :
             k + Region(s, k).length < r.lcn \/ r.lcn + r.length < k
      BY <2>6 DEF K, len
    <3>3. /\ WellFormed(Reindexed(s, {p, q}, s.regions[p], r))
          /\ Reindexed(s, {p, q}, s.regions[p], r).broke = s.broke
          /\ Covered(Reindexed(s, {p, q}, s.regions[p], r)) =
               Cells(r) \cup UNION { Cells(Region(s, k)) :
                                       k \in DOMAIN s.regions \ {p, q} }
      BY <2>5, <3>1, <3>2, ReindexedFacts
    <3> QED BY ONLY <2>3, <3>3 DEF K
  <2>8. Cells(r) = Cells(Region(s, p)) \cup Cells(b) \cup Cells(Region(s, q))
    <3>1. Cells(r) = p .. (p + (len(p) + b.length + len(q)) - 1)
      BY <2>4 DEF Cells
    <3>2. p .. (p + (len(p) + b.length + len(q)) - 1)
            = cells(p) \cup (b.lcn .. (q - 1)) \cup cells(q)
      <4>0. /\ p \in Nat /\ len(p) \in Nat /\ p + len(p) = b.lcn /\ len(q) \in Nat
            /\ b.lcn \in Nat /\ b.length \in Nat /\ q \in Nat
        BY <1>1, <2>1, <2>a
      <4>1. p .. (p + (len(p) + b.length) - 1) = cells(p) \cup (b.lcn .. (b.lcn + b.length - 1))
        BY ONLY <4>0, JoinRuns
      <4>2. len(p) + b.length \in Nat /\ p + (len(p) + b.length) = q
        BY ONLY <1>n, <4>0
      <4>3. p .. (p + ((len(p) + b.length) + len(q)) - 1)
              = (p .. (p + (len(p) + b.length) - 1)) \cup cells(q)
        BY ONLY <4>0, <4>2, JoinRuns
      <4> QED BY <1>1, <4>1, <4>3
    <3> QED BY <1>1, <1>2, <2>1, <3>1, <3>2
  <2> QED BY <1>7, <2>1, <2>7, <2>8 DEF t
<1>9. CASE MergePrev(s, b) /\ ~MergeNext(s, b)
  <2> DEFINE r == [lcn |-> p, length |-> len(p) + b.length]
  <2>1. p \in K /\ q \notin K /\ p + len(p) = b.lcn
    BY <1>5, <1>9 DEF MergeNext, K, q
  <2>2. [Region(s, p) EXCEPT !.length = @ + b.length] = r
    BY <1>2, <2>1
  <2>3. t = Reindexed(s, {p}, s.regions[p], r)
    BY <1>1, <1>9, <2>2 DEF PushBlock, p, q
  <2> HIDE DEF r, t
  <2>4. r.lcn = p /\ r.length = len(p) + b.length
    BY DEF r
  <2>5. r \in Run
    <3>0. p \in Nat /\ p \in Cluster /\ len(p) \in Nat /\ p + len(p) = b.lcn
      BY <1>2, <2>1
    <3>1. len(p) + b.length \in 1 .. Clusters /\ p + (len(p) + b.length) <= Clusters
      BY ONLY <1>n, <3>0
    <3> QED BY <3>0, <3>1, RunIntro DEF r
  <2>6. \A k \in K \ {p} : k + len(k) < r.lcn \/ r.lcn + r.length < k
    <3> SUFFICES ASSUME NEW k \in K \ {p}
                 PROVE  k + len(k) < p \/ p + (len(p) + b.length) < k
      BY <2>4
    <3>1. CASE k < p
      BY <1>4, <2>1, <3>1
    <3>2. CASE p < k
      <4>1. b.lcn < k
        BY <1>4, <2>1, <3>2
      <4>2. q < k
        <5>1. ~(k + len(k) <= b.lcn)
          BY <1>1, <1>2, <4>1
        <5>2. q <= k /\ q # k
          BY <1>3, <2>1, <5>1
        <5>3. k \in Nat
          BY <1>2
        <5> QED BY ONLY <1>n, <5>2, <5>3
      <4>3. k \in Nat /\ p \in Nat /\ len(p) \in Nat /\ p + len(p) = b.lcn
        BY <1>2, <2>1
      <4> QED BY ONLY <1>n, <4>2, <4>3
    <3> QED BY <1>2, <2>1, <3>1, <3>2
  <2>7. /\ WellFormed(t) /\ t.broke = s.broke
        /\ Covered(t) = Cells(r) \cup UNION { Cells(Region(s, k)) : k \in K \ {p} }
    <3>1. /\ {p} \subseteq DOMAIN s.regions /\ s.regions[p] \in Node
          /\ \E g \in {p} : s.regions[g] = s.regions[p]
      BY <1>2, <2>1 DEF K
    <3>2. \A k \in DOMAIN s.regions \ {p} :
             k + Region(s, k).length < r.lcn \/ r.lcn + r.length < k
      BY <2>6 DEF K, len
    <3>3. /\ WellFormed(Reindexed(s, {p}, s.regions[p], r))
          /\ Reindexed(s, {p}, s.regions[p], r).broke = s.broke
          /\ Covered(Reindexed(s, {p}, s.regions[p], r)) =
               Cells(r) \cup UNION { Cells(Region(s, k)) :
                                       k \in DOMAIN s.regions \ {p} }
      BY <2>5, <3>1, <3>2, ReindexedFacts
    <3> QED BY ONLY <2>3, <3>3 DEF K
  <2>8. Cells(r) = Cells(Region(s, p)) \cup Cells(b)
    <3>1. Cells(r) = p .. (p + (len(p) + b.length) - 1)
      BY <2>4 DEF Cells
    <3>2. p .. (p + (len(p) + b.length) - 1) = cells(p) \cup (b.lcn .. (q - 1))
      <4>1. p \in Nat /\ len(p) \in Nat /\ p + len(p) = b.lcn
        BY <1>2, <2>1
      <4>2. p .. (p + (len(p) + b.length) - 1)
              = (p .. (p + len(p) - 1)) \cup (b.lcn .. (b.lcn + b.length - 1))
        BY ONLY <1>n, <4>1, JoinRuns
      <4> QED BY ONLY <1>n, <4>2
    <3> QED BY <1>1, <1>2, <2>1, <3>1, <3>2
  <2> QED BY <1>7, <2>1, <2>7, <2>8 DEF t
<1>10. CASE ~MergePrev(s, b) /\ MergeNext(s, b)
  <2> DEFINE r == [lcn |-> b.lcn, length |-> len(q) + b.length]
  <2>1. q \in K
    BY <1>10 DEF MergeNext, K, q
  <2>2. t = Reindexed(s, {q}, s.regions[q], r)
    BY <1>1, <1>10 DEF PushBlock, len, q
  <2> HIDE DEF r, t
  <2>3. r.lcn = b.lcn /\ r.length = len(q) + b.length
    BY DEF r
  <2>4. r \in Run
    <3>1. len(q) + b.length \in 1 .. Clusters /\ b.lcn + (len(q) + b.length) <= Clusters
      <4>1. len(q) \in Nat /\ q + len(q) <= Clusters
        BY <1>2, <2>1
      <4> QED BY ONLY <1>n, <4>1
    <3> QED BY <1>1, <3>1, RunIntro DEF r
  <2>5. \A k \in K \ {q} : k + len(k) < r.lcn \/ r.lcn + r.length < k
    <3> SUFFICES ASSUME NEW k \in K \ {q}
                 PROVE  k + len(k) < b.lcn \/ b.lcn + (len(q) + b.length) < k
      BY <2>3
    <3>1. CASE k + len(k) <= b.lcn
      BY <1>1, <1>2, <1>6, <1>10, <3>1
    <3>2. CASE q <= k
      <4>1. q + len(q) < k
        BY <1>1, <1>2, <1>4, <2>1, <3>2
      <4>2. k \in Nat /\ len(q) \in Nat
        BY <1>2, <2>1
      <4> QED BY ONLY <1>n, <4>1, <4>2
    <3> QED BY <1>3, <3>1, <3>2
  <2>6. /\ WellFormed(t) /\ t.broke = s.broke
        /\ Covered(t) = Cells(r) \cup UNION { Cells(Region(s, k)) : k \in K \ {q} }
    <3>1. /\ {q} \subseteq DOMAIN s.regions /\ s.regions[q] \in Node
          /\ \E g \in {q} : s.regions[g] = s.regions[q]
      BY <1>2, <2>1 DEF K
    <3>2. \A k \in DOMAIN s.regions \ {q} :
             k + Region(s, k).length < r.lcn \/ r.lcn + r.length < k
      BY <2>5 DEF K, len
    <3>3. /\ WellFormed(Reindexed(s, {q}, s.regions[q], r))
          /\ Reindexed(s, {q}, s.regions[q], r).broke = s.broke
          /\ Covered(Reindexed(s, {q}, s.regions[q], r)) =
               Cells(r) \cup UNION { Cells(Region(s, k)) :
                                       k \in DOMAIN s.regions \ {q} }
      BY <2>4, <3>1, <3>2, ReindexedFacts
    <3> QED BY ONLY <2>2, <3>3 DEF K
  <2>7. Cells(r) = Cells(b) \cup Cells(Region(s, q))
    <3>1. Cells(r) = b.lcn .. (b.lcn + (len(q) + b.length) - 1)
      BY <2>3 DEF Cells
    <3>2. b.lcn .. (b.lcn + (len(q) + b.length) - 1) = (b.lcn .. (q - 1)) \cup cells(q)
      <4>1. len(q) \in Nat
        BY <1>2, <2>1
      <4>2. b.lcn .. (b.lcn + (b.length + len(q)) - 1)
              = (b.lcn .. (b.lcn + b.length - 1)) \cup cells(q)
        BY ONLY <1>n, <4>1, JoinRuns
      <4>3. len(q) + b.length = b.length + len(q) /\ b.lcn + b.length - 1 = q - 1
        BY ONLY <1>n, <4>1
      <4> QED BY ONLY <4>2, <4>3
    <3> QED BY <1>1, <1>2, <2>1, <3>1, <3>2
  <2> QED BY <1>7, <2>1, <2>6, <2>7 DEF t
<1>11. CASE ~MergePrev(s, b) /\ ~MergeNext(s, b)
  <2> DEFINE r == [lcn |-> b.lcn, length |-> b.length]
             n == FreshNode(s)
  <2>1. q \notin K
    BY <1>11 DEF MergeNext, K, q
  <2>2. n \in Node /\ n \notin DOMAIN s.list
    BY DEF FreshNode
  <2>3. DOMAIN s.list # {}
    BY RegionFacts
  <2>4. t = Reindexed(s, {}, n, r)
    BY <1>1, <1>11, <2>3 DEF PushBlock
  <2>5. r = b
    BY RunElim
  <2> HIDE DEF r, t, n
  <2>6. \A k \in K \ {} : k + len(k) < b.lcn \/ b.lcn + b.length < k
    <3> SUFFICES ASSUME NEW k \in K
                 PROVE  k + len(k) < b.lcn \/ q < k
      BY <1>1
    <3>1. k + len(k) # b.lcn /\ q # k
      BY <1>6, <1>11, <2>1
    <3>2. k + len(k) <= b.lcn \/ q <= k
      BY <1>3
    <3>3. k \in Nat /\ len(k) \in Nat
      BY <1>2
    <3> QED BY ONLY <1>n, <3>1, <3>2, <3>3
  <2>7. /\ WellFormed(t) /\ t.broke = s.broke
        /\ Covered(t) = Cells(b) \cup UNION { Cells(Region(s, k)) : k \in K \ {} }
    <3>1. \A k \in DOMAIN s.regions \ {} :
             k + Region(s, k).length < b.lcn \/ b.lcn + b.length < k
      BY <2>6 DEF K, len
    <3>2. t = Reindexed(s, {}, n, b)
      BY <2>4, <2>5
    <3>3. /\ WellFormed(Reindexed(s, {}, n, b))
          /\ Reindexed(s, {}, n, b).broke = s.broke
          /\ Covered(Reindexed(s, {}, n, b)) =
               Cells(b) \cup UNION { Cells(Region(s, k)) : k \in DOMAIN s.regions \ {} }
      BY <2>2, <3>1, ReindexedFacts
    <3> QED BY ONLY <3>2, <3>3 DEF K
  <2> QED BY <1>7, <2>7 DEF t
<1> QED BY <1>8, <1>9, <1>10, <1>11

(* pop gives up a block at the front of a region, or rescans: the table    *)
(* stays well-formed, and covers what is left or what the volume shows.    *)
LEMMA PopFacts ==
  ASSUME NEW s, WellFormed(s), NEW b \in Run, NEW F, F \subseteq Cluster,
         b.lcn \in DOMAIN s.regions => b.length <= Region(s, b.lcn).length
  PROVE  /\ WellFormed(PopBlock(s, b, F))
         /\ PopBlock(s, b, F).broke = s.broke
         /\ b.lcn \in DOMAIN s.regions =>
              /\ Covered(PopBlock(s, b, F)) = Covered(s) \ Cells(b)
              /\ Cells(b) \subseteq Covered(s)
         /\ b.lcn \notin DOMAIN s.regions => Covered(PopBlock(s, b, F)) = F
<1> USE ClustersAssumption
<1>1. CASE b.lcn \notin DOMAIN s.regions
  <2>1. PopBlock(s, b, F) = Scanned(s, F)
    BY <1>1 DEF PopBlock
  <2>2. s.broke \in BOOLEAN
    BY DEF WellFormed, TypeOKOf
  <2> QED BY <1>1, <2>1, <2>2, ScannedIsExact
<1>2. CASE b.lcn \in DOMAIN s.regions
  <2> DEFINE t == PopBlock(s, b, F)
             K == DOMAIN s.regions
             l == b.lcn
             n == b.length
             m == Region(s, b.lcn).length
             rest == UNION { Cells(Region(s, k)) : k \in K \ {l} }
  <2>1. /\ l \in Nat /\ n \in Nat /\ n > 0 /\ l \in Cluster
        /\ Cells(b) = l .. (l + n - 1)
    BY RunElim DEF Cells
  <2>2. /\ m \in Nat /\ m > 0 /\ l + m <= Clusters /\ n <= m
        /\ Region(s, l).lcn = l /\ s.regions[l] \in Node
    BY <1>2, RegionFacts
  <2>n. /\ l \in Nat /\ n \in Nat /\ n > 0 /\ m \in Nat /\ m > 0
        /\ l + m <= Clusters /\ n <= m /\ Clusters \in Nat
    BY <2>1, <2>2, ClustersAssumption
  <2>3. Cells(Region(s, l)) = l .. (l + m - 1)
    BY <2>2 DEF Cells
  <2>4. Covered(s) = (l .. (l + m - 1)) \cup rest
    BY <1>2, <2>3 DEF Covered
  <2>5. \A k \in K \ {l} : /\ k \in Nat /\ Region(s, k).length \in Nat
                           /\ k + Region(s, k).length < l \/ l + m < k
    <3> SUFFICES ASSUME NEW k \in K \ {l}
                 PROVE /\ k \in Nat /\ Region(s, k).length \in Nat
                       /\ k + Region(s, k).length < l \/ l + m < k
      OBVIOUS
    <3>1. k \in Nat /\ Region(s, k).length \in Nat
      BY RegionFacts
    <3>2. k < l \/ l < k
      BY <2>1, <3>1
    <3> QED BY <1>2, <3>1, <3>2 DEF WellFormed, CoalescedOf
  <2>6. (l .. (l + m - 1)) \cap rest = {}
    <3> SUFFICES ASSUME NEW k \in K \ {l}, NEW c \in Cells(Region(s, k)),
                        c \in l .. (l + m - 1)
                 PROVE  FALSE
      OBVIOUS
    <3> DEFINE e == Region(s, k).length
    <3>1. c \in k .. (k + e - 1)
      BY RegionFacts DEF Cells
    <3>2. k \in Nat /\ e \in Nat /\ (k + e < l \/ l + m < k)
      BY <2>5
    <3> HIDE DEF e, m
    <3> QED BY <2>1, <2>2, <3>1, <3>2
  <2>7. l .. (l + n - 1) \subseteq l .. (l + m - 1)
    BY <2>1, <2>2
  <2> HIDE DEF K, m, rest
  <2>8. CASE m > n
    <3> DEFINE r == [lcn |-> l + n, length |-> m - n]
    <3>1. t = Reindexed(s, {l}, s.regions[l], r)
      <4>1. [lcn |-> Region(s, l).lcn + n, length |-> Region(s, l).length - n] = r
        BY <2>2 DEF m
      <4> HIDE DEF r
      <4> QED BY <1>2, <2>1, <2>2, <2>8, <4>1 DEF PopBlock, m
    <3>2. r \in Run
      <4>1. l + n \in Cluster /\ m - n \in 1 .. Clusters
        BY ONLY <2>n, <2>8 DEF Cluster
      <4>2. (l + n) + (m - n) <= Clusters
        BY ONLY <2>n
      <4> QED BY <4>1, <4>2, RunIntro
    <3>3. r.lcn = l + n /\ r.length = m - n /\ r.lcn + r.length = l + m
      BY ONLY <2>n
    <3> HIDE DEF r
    <3>4. Cells(r) = (l + n) .. (l + m - 1)
      <4>1. Cells(r) = r.lcn .. (r.lcn + r.length - 1)
        BY DEF Cells
      <4>2. r.lcn \in Nat /\ r.length \in Nat
        BY <3>2, RunElim
      <4>3. r.lcn + r.length - 1 = l + m - 1
        BY ONLY <2>n, <3>3, <4>2
      <4> QED BY ONLY <3>3, <4>1, <4>3
    <3>5. \A k \in DOMAIN s.regions \ {l} :
             k + Region(s, k).length < r.lcn \/ r.lcn + r.length < k
      BY ONLY <2>n, <2>5, <3>3 DEF K
    <3>6. {l} \subseteq DOMAIN s.regions /\ \E g \in {l} : s.regions[g] = s.regions[l]
      BY <1>2
    <3>7. /\ WellFormed(Reindexed(s, {l}, s.regions[l], r))
          /\ Reindexed(s, {l}, s.regions[l], r).broke = s.broke
          /\ Covered(Reindexed(s, {l}, s.regions[l], r)) =
               Cells(r) \cup UNION { Cells(Region(s, k)) :
                                       k \in DOMAIN s.regions \ {l} }
      <4>1. s.regions[l] \in Node
        BY <2>2
      <4> HIDE DEF l
      <4> QED BY <3>2, <3>5, <3>6, <4>1, ReindexedFacts
    <3>8. WellFormed(t) /\ t.broke = s.broke /\ Covered(t) = Cells(r) \cup rest
      BY ONLY <3>1, <3>7 DEF K, rest
    <3>9. (l + n) .. (l + m - 1) = (l .. (l + m - 1)) \ (l .. (l + n - 1))
      BY ONLY <2>n
    <3>10. Covered(t) = Covered(s) \ Cells(b)
      BY <2>1, <2>4, <2>6, <2>7, <3>4, <3>8, <3>9
    <3>11. Cells(b) \subseteq Covered(s)
      BY <2>1, <2>4, <2>7
    <3> QED BY <1>2, <3>8, <3>10, <3>11
  <2>9. CASE m = n
    <3>1. t = [s EXCEPT !.sizes   = @ \ {SizesEntry(s, l)},
                        !.regions = [k \in DOMAIN @ \ {l} |-> @[k]]]
      BY <1>2, <2>2, <2>9 DEF PopBlock, m
    <3> HIDE DEF t
    <3>2. DOMAIN s = {"list", "regions", "sizes", "broke"}
      BY DEF WellFormed, TypeOKOf
    <3>3. /\ DOMAIN t = {"list", "regions", "sizes", "broke"}
          /\ t.list = s.list /\ t.broke = s.broke
          /\ t.sizes = s.sizes \ {SizesEntry(s, l)}
          /\ DOMAIN t.regions = K \ {l}
          /\ \A k \in K \ {l} : t.regions[k] = s.regions[k]
      BY <3>1, <3>2 DEF K
    <3>4. \A k \in K \ {l} : /\ Region(t, k) = Region(s, k)
                             /\ SizesEntry(t, k) = SizesEntry(s, k)
      BY <3>3 DEF Region, SizesEntry
    <3>5. TypeOKOf(t)
      BY <3>3 DEF WellFormed, TypeOKOf, K
    <3>6. IndexesAgreeOf(t)
      <4>1. s.sizes = { SizesEntry(s, k) : k \in K }
        BY DEF WellFormed, IndexesAgreeOf, K
      <4>2. \A k \in K \ {l} : SizesEntry(s, k) # SizesEntry(s, l)
        <5> SUFFICES ASSUME NEW k \in K \ {l}, SizesEntry(s, k) = SizesEntry(s, l)
                     PROVE  FALSE
          OBVIOUS
        <5>1. s.regions[k] = s.regions[l]
          BY DEF SizesEntry
        <5> QED BY <1>2, <5>1, NodesDiffer DEF K
      <4>3. t.sizes = { SizesEntry(s, k) : k \in K \ {l} }
        BY <3>3, <4>1, <4>2
      <4>4. t.sizes = { SizesEntry(t, k) : k \in DOMAIN t.regions }
        BY <3>3, <3>4, <4>3
      <4>5. \A k \in DOMAIN t.regions : Region(t, k).lcn = k
        BY <3>3, <3>4, RegionFacts DEF K
      <4> QED BY <4>4, <4>5 DEF IndexesAgreeOf
    <3>7. CoalescedOf(t)
      BY <3>3, <3>4 DEF WellFormed, CoalescedOf, K
    <3>8. Covered(t) = rest
      <4>1. Covered(t) = UNION { Cells(Region(t, k)) : k \in K \ {l} }
        BY <3>3 DEF Covered
      <4> QED BY <3>4, <4>1 DEF rest
    <3>9. Covered(t) = Covered(s) \ Cells(b) /\ Cells(b) \subseteq Covered(s)
      BY <2>1, <2>4, <2>6, <2>9, <3>8
    <3> QED BY <1>2, <3>3, <3>5, <3>6, <3>7, <3>9 DEF t, WellFormed
  <2> QED BY <2>1, <2>2, <2>8, <2>9 DEF m
<1> QED BY <1>1, <1>2

-----------------------------------------------------------------------------
(* The inductive invariant: the named invariants of GapEnumeration make it *)
(* up among themselves.                                                    *)
Inv == TypeOK /\ IndexesAgree /\ Coalesced

(* The invariants of the specification, in terms of the table alone: list  *)
(* and indexes are well-formed.                                            *)
LEMMA InvIsWellFormed == Inv <=> /\ WellFormed(ge)
                                 /\ free \in SUBSET Cluster
BY DEF Inv, TypeOK, IndexesAgree, Coalesced,
       WellFormed, TypeOKOf, IndexesAgreeOf, CoalescedOf

(* The same after a step.                                                  *)
LEMMA InvPrimeIsWellFormed == Inv' <=> /\ WellFormed(ge')
                                       /\ free' \in SUBSET Cluster
BY DEF Inv, TypeOK, IndexesAgree, Coalesced,
       WellFormed, TypeOKOf, IndexesAgreeOf, CoalescedOf, Region, SizesEntry

(* GapEnumeration starts from a scan, which makes a well-formed table that *)
(* covers exactly the free clusters.                                       *)
LEMMA InitInv == Init => Inv /\ Covered(ge) = free
<1> SUFFICES ASSUME Init PROVE Inv /\ Covered(ge) = free
  OBVIOUS
<1>1. Empty.broke = FALSE
  BY DEF Empty
<1>2. ge = Scanned(Empty, free) /\ free \subseteq Cluster /\ free \in SUBSET Cluster
  BY DEF Init
<1>3. /\ WellFormed(Scanned(Empty, free)) /\ Covered(Scanned(Empty, free)) = free
      /\ Scanned(Empty, free).broke = Empty.broke
  <2>1. Empty.broke \in BOOLEAN
    BY <1>1
  <2> HIDE DEF Empty
  <2> QED BY <1>2, <2>1, ScannedIsExact
<1>4. WellFormed(ge) /\ Covered(ge) = free
  BY <1>2, <1>3
<1> QED BY <1>2, <1>4, InvIsWellFormed

(* push, pop, scan and a change of the volume keep the inductive invariant. *)
LEMMA NextInv == Inv /\ [Next]_vars => Inv'
<1> SUFFICES ASSUME Inv, [Next]_vars PROVE Inv'
  OBVIOUS
<1>1. WellFormed(ge) /\ free \in SUBSET Cluster /\ free \subseteq Cluster
  BY InvIsWellFormed
<1>2. ge.broke \in BOOLEAN
  BY DEF Inv, TypeOK
<1>3. ASSUME NEW b \in Run, Push(b) PROVE Inv'
  <2>1. WellFormed(ge') /\ free' = free
    BY <1>1, <1>3, PushFacts DEF Push
  <2> QED BY <1>1, <2>1, InvPrimeIsWellFormed
<1>4. ASSUME NEW b \in Run, Pop(b) PROVE Inv'
  <2>1. WellFormed(ge') /\ free' = free
    BY <1>1, <1>4, PopFacts DEF Pop
  <2> QED BY <1>1, <2>1, InvPrimeIsWellFormed
<1>5. CASE Scan
  <2>1. WellFormed(ge') /\ free' = free
    BY <1>1, <1>2, <1>5, ScannedIsExact DEF Scan
  <2> QED BY <1>1, <2>1, InvPrimeIsWellFormed
<1>6. CASE Drift
  BY <1>1, <1>6, InvPrimeIsWellFormed DEF Drift
<1>7. CASE UNCHANGED vars
  BY <1>1, <1>7, InvPrimeIsWellFormed DEF vars
<1> QED BY <1>3, <1>4, <1>5, <1>6, <1>7 DEF Next

(* The containers keep their types, the two indexes of GapEnumeration      *)
(* never go stale and its regions never overlap or touch, whatever         *)
(* sequence of pushes, pops and scans a client that keeps the contract     *)
(* makes.                                                                  *)
THEOREM TableInvariant == Spec => [](TypeOK /\ IndexesAgree /\ Coalesced)
<1>1. Inv => TypeOK /\ IndexesAgree /\ Coalesced
  BY DEF Inv
<1> QED BY <1>1, InitInv, NextInv, PTL DEF Spec

(* The regions of the table are maximal: no sequence of pushes, pops and   *)
(* scans leaves two that overlap or touch.                                 *)
THEOREM RegionsStayMaximal == Spec => []Coalesced
<1>1. Inv => Coalesced
  BY DEF Inv
<1> QED BY <1>1, InitInv, NextInv, PTL DEF Spec

(* The table implements the abstract tracker of free clusters: push takes  *)
(* up exactly the clusters of its block, pop gives up exactly the clusters *)
(* of its block or rescans, and a scan finds exactly the volume's free     *)
(* clusters.                                                               *)
THEOREM ImplementsFreeSpace == Spec => FreeSpaceSpec
<1>1. Init => Abstract!Init
  BY InitInv DEF Init, Abstract!Init, Abstract!Cluster, Cluster
<1>2. Inv /\ [Next]_vars => [Abstract!Next]_<<Covered(ge), free>>
  <2> SUFFICES ASSUME Inv, [Next]_vars
               PROVE  Abstract!Next \/ UNCHANGED <<Covered(ge), free>>
    OBVIOUS
  <2>1. /\ WellFormed(ge) /\ free \in SUBSET Cluster /\ free \subseteq Cluster
        /\ ge.broke \in BOOLEAN
    BY InvIsWellFormed DEF Inv, TypeOK
  <2>2. Abstract!Run = Run /\ Abstract!Cluster = Cluster
    BY DEF Abstract!Run, Run, Abstract!Cluster, Cluster
  <2>3. \A b : Abstract!Cells(b) = Cells(b)
    BY DEF Abstract!Cells, Cells
  <2>4. ASSUME NEW b \in Run, Push(b) PROVE Abstract!Next
    <3>1. /\ Cells(b) \cap Covered(ge) = {}
          /\ Covered(ge)' = Covered(ge) \cup Cells(b)
          /\ free' = free
      <4>1. Covered(PushBlock(ge, b, free)) = Covered(ge) \cup Cells(b)
        BY <2>1, <2>4, PushFacts DEF Push
      <4>2. Covered(ge)' = Covered(PushBlock(ge, b, free))
        BY <2>4 DEF Push, Covered, Region
      <4> QED BY <2>4, <4>1, <4>2 DEF Push
    <3>2. Abstract!Release(b)
      BY <2>3, <3>1 DEF Abstract!Release
    <3> QED BY <2>2, <3>2 DEF Abstract!Next
  <2>5. ASSUME NEW b \in Run, Pop(b) PROVE Abstract!Next
    <3>1. Covered(ge)' = Covered(PopBlock(ge, b, free)) /\ free' = free
      BY <2>5 DEF Pop, Covered, Region
    <3>2. CASE b.lcn \in DOMAIN ge.regions
      <4>1. /\ Covered(PopBlock(ge, b, free)) = Covered(ge) \ Cells(b)
            /\ Cells(b) \subseteq Covered(ge)
        BY <2>1, <2>5, <3>2, PopFacts DEF Pop
      <4>2. Abstract!Claim(b)
        BY <2>3, <3>1, <4>1 DEF Abstract!Claim
      <4> QED BY <2>2, <4>2 DEF Abstract!Next
    <3>3. CASE b.lcn \notin DOMAIN ge.regions
      <4>1. Covered(PopBlock(ge, b, free)) = free
        BY <2>1, <2>5, <3>3, PopFacts DEF Pop
      <4>2. Abstract!Rescan
        BY <3>1, <4>1 DEF Abstract!Rescan
      <4> QED BY <4>2 DEF Abstract!Next
    <3> QED BY <3>2, <3>3
  <2>6. CASE Scan
    <3>1. Covered(ge)' = Covered(Scanned(ge, free)) /\ free' = free
      BY <2>6 DEF Scan, Covered, Region
    <3>2. Covered(Scanned(ge, free)) = free
      BY <2>1, ScannedIsExact
    <3> QED BY <3>1, <3>2 DEF Abstract!Next, Abstract!Rescan
  <2>7. CASE Drift
    <3>1. Covered(ge)' = Covered(ge) /\ free' \in SUBSET Cluster
      BY <2>7 DEF Drift, Covered, Region
    <3> QED BY <2>2, <3>1 DEF Abstract!Next, Abstract!Drift
  <2>8. CASE UNCHANGED vars
    BY <2>8 DEF vars, Covered, Region
  <2> QED BY <2>4, <2>5, <2>6, <2>7, <2>8 DEF Next
<1> QED BY <1>1, <1>2, InitInv, NextInv, PTL DEF Spec, FreeSpaceSpec, Abstract!Spec

-----------------------------------------------------------------------------
(* A non-empty set of sizes_ entries has one with the least and one with   *)
(* the greatest key.                                                       *)
LEMMA ExtremeEntries ==
  ASSUME NEW E, E \subseteq (1 .. Clusters) \X Node, E # {}
  PROVE  /\ \E e \in E : \A d \in E : e[1] <= d[1]
         /\ \E e \in E : \A d \in E : d[1] <= e[1]
<1> USE ClustersAssumption
<1> DEFINE T == { e[1] : e \in E }
<1>1. T \subseteq 0 .. Clusters /\ T # {} /\ T \subseteq Nat
  OBVIOUS
<1>2. PICK x \in T : \A y \in T : x <= y
  BY <1>1, LeastNumber
<1>3. PICK z \in T : \A y \in T : y <= z
  BY <1>1, GreatestNumber
<1>4. PICK e \in E : e[1] = x
  BY <1>2
<1>5. PICK f \in E : f[1] = z
  BY <1>3
<1>6. \A d \in E : d[1] \in T
  OBVIOUS
<1> QED BY <1>2, <1>3, <1>4, <1>5, <1>6

(* best() returns null only if no region behind `after' is large enough,   *)
(* and otherwise one that is: its three searches together miss nothing.    *)
LEMMA BestFitsOf ==
  ASSUME WellFormed(ge), NEW clusters \in 1 .. Clusters,
         NEW after \in -1 .. (Clusters - 1)
  PROVE  /\ \A e \in Best(ge, clusters, after) :
              \E k \in DOMAIN ge.regions :
                 /\ ge.regions[k] = e[2]
                 /\ k > after
                 /\ Region(ge, k).length >= clusters
         /\ Best(ge, clusters, after) = {} =>
              \A k \in DOMAIN ge.regions :
                 k > after => Region(ge, k).length < clusters
<1> USE ClustersAssumption, SlackAssumption
<1> DEFINE usable == { e \in ge.sizes : ge.list[e[2]].lcn > after }
           bound  == IF clusters + Slack < (clusters * 3) \div 2
                     THEN (clusters * 3) \div 2 ELSE clusters + Slack
           exact  == { e \in usable : e[1] = clusters }
           roomy  == { e \in usable : e[1] > bound }
           fits   == { e \in usable : e[1] >= clusters }
           least  == { e \in roomy : \A d \in roomy : e[1] <= d[1] }
           most   == { e \in fits : \A d \in fits : d[1] <= e[1] }
           best   == Best(ge, clusters, after)
<1>1. ge.sizes \subseteq (1 .. Clusters) \X Node
  BY DEF WellFormed, TypeOKOf
<1>2. ge.sizes = { SizesEntry(ge, k) : k \in DOMAIN ge.regions }
  BY DEF WellFormed, IndexesAgreeOf
<1>3. bound \in Int /\ bound >= clusters
  <2>1. clusters \in Nat /\ (clusters * 3) \div 2 \in Nat
    OBVIOUS
  <2> QED BY <2>1
<1>4. \A e \in usable :
         \E k \in DOMAIN ge.regions :
            /\ ge.regions[k] = e[2]
            /\ k > after
            /\ Region(ge, k).length = e[1]
  <2> SUFFICES ASSUME NEW e \in usable
               PROVE  \E k \in DOMAIN ge.regions :
                         /\ ge.regions[k] = e[2]
                         /\ k > after
                         /\ Region(ge, k).length = e[1]
    OBVIOUS
  <2>1. PICK k \in DOMAIN ge.regions : e = SizesEntry(ge, k)
    BY <1>2
  <2>2. e[1] = Region(ge, k).length /\ e[2] = ge.regions[k]
    BY <2>1 DEF SizesEntry
  <2>3. Region(ge, k).lcn > after
    BY <2>2 DEF Region
  <2>4. k > after
    BY <2>3, RegionFacts
  <2> QED BY <2>2, <2>4
<1>5. \A k \in DOMAIN ge.regions : k > after => SizesEntry(ge, k) \in usable
  <2> SUFFICES ASSUME NEW k \in DOMAIN ge.regions, k > after
               PROVE  SizesEntry(ge, k) \in usable
    OBVIOUS
  <2>1. SizesEntry(ge, k)[2] = ge.regions[k]
    BY DEF SizesEntry
  <2>2. ge.list[ge.regions[k]].lcn = k
    BY RegionFacts DEF Region
  <2> QED BY <1>2, <2>1, <2>2
<1>6. best = IF exact # {} THEN exact ELSE IF roomy # {} THEN least ELSE most
  BY DEF Best
<1>7. usable \subseteq (1 .. Clusters) \X Node
  BY <1>1
<1>8. exact \subseteq usable /\ roomy \subseteq usable /\ fits \subseteq usable
  OBVIOUS
<1>9. \A e \in usable : e[1] \in Nat
  BY <1>7
<1>10. \A e \in exact \cup roomy \cup fits : e \in usable /\ e[1] >= clusters
  BY <1>3, <1>9
<1>11. roomy # {} => least # {}
  <2>1. roomy \subseteq (1 .. Clusters) \X Node
    BY <1>7
  <2> HIDE DEF roomy
  <2> QED BY <2>1, ExtremeEntries
<1>12. fits # {} => most # {}
  <2>1. fits \subseteq (1 .. Clusters) \X Node
    BY <1>7
  <2> HIDE DEF fits
  <2> QED BY <2>1, ExtremeEntries
<1>13. best \subseteq exact \cup roomy \cup fits
  BY <1>6
<1>14. best = {} => fits = {}
  <2> HIDE DEF least, most, exact, roomy, fits
  <2> QED BY <1>6, <1>11, <1>12
<1>15. \A e \in best : e \in usable /\ e[1] >= clusters
  BY <1>10, <1>13
<1>16. ASSUME best = {}, NEW k \in DOMAIN ge.regions, k > after
       PROVE  Region(ge, k).length < clusters
  <2>1. SizesEntry(ge, k) \in usable /\ SizesEntry(ge, k) \notin fits
    BY <1>5, <1>14, <1>16
  <2>2. SizesEntry(ge, k)[1] = Region(ge, k).length
    BY DEF SizesEntry
  <2>3. ~(Region(ge, k).length >= clusters)
    BY <2>1, <2>2
  <2> QED BY <2>3, RegionFacts
<1> HIDE DEF best, usable
<1>17. \A e \in best : \E k \in DOMAIN ge.regions :
                          /\ ge.regions[k] = e[2]
                          /\ k > after
                          /\ Region(ge, k).length >= clusters
  BY <1>4, <1>15
<1> QED BY <1>16, <1>17 DEF best

(* best() finds a region exactly if one is large enough.                   *)
THEOREM BestFindsARegion == Spec => []BestFits
<1>1. Inv => BestFits
  BY InvIsWellFormed, BestFitsOf DEF BestFits
<1> QED BY <1>1, InitInv, NextInv, PTL DEF Spec
=============================================================================
