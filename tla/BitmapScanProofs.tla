-------------------------- MODULE BitmapScanProofs --------------------------
(***************************************************************************)
(* Proofs about BitmapScan: for every volume, every size of the portions   *)
(* and every number of changes by other programs.                          *)
(***************************************************************************)
EXTENDS BitmapScan, SequenceTheorems, TLAPS

Region == [lcn : Cluster, length : 1 .. Clusters]

(* The clusters in front of Pos have been looked at.                       *)
Pos == IF pc = "visit" THEN next + i ELSE next

(* The regions of the list end in front of this cluster.                   *)
Frontier == IF free_rgn_start = LLINVALID THEN Pos ELSE free_rgn_start

(* The region under way.                                                   *)
Pending == IF free_rgn_start = LLINVALID THEN {} ELSE free_rgn_start .. (Pos - 1)

InOrder == \A k \in 1 .. (Len(rlist) - 1) :
             rlist[k].lcn + rlist[k].length < rlist[k + 1].lcn

(* While the scan runs, what it has seen is in the list or in the region   *)
(* under way, and there is a cluster between the two.                      *)
Progress ==
  /\ outcome = "none"
  /\ Pos \in 0 .. Clusters
  /\ free_rgn_start # LLINVALID => free_rgn_start < Pos
  /\ seen = Listed \cup Pending
  /\ \A k \in DOMAIN rlist : rlist[k].lcn + rlist[k].length < Frontier
  /\ pc = "visit" => /\ i <= Told
                     /\ last <=> next + Told = Clusters
                     /\ map \subseteq next .. (next + Told - 1)

Inv == /\ TypeOK
       /\ InOrder
       /\ pc # "done" => Progress
       /\ outcome = "complete" => Listed = seen

(* As long as nobody has changed the volume, what the scan has seen is     *)
(* what is free in front of Pos.                                           *)
Undisturbed ==
  /\ changes \in 0 .. Changes
  /\ changes = Changes =>
       /\ pc # "done" => seen = free \cap (0 .. (Pos - 1))
       /\ pc = "visit" => map = free \cap (next .. (next + Told - 1))
       /\ outcome = "complete" => seen = free

-----------------------------------------------------------------------------
(* Where a region ends is a number.                                        *)
LEMMA RegionEnds ==
  ASSUME NEW l \in Seq(Region)
  PROVE  \A k \in DOMAIN l : l[k].lcn + l[k].length \in Int
<1>1. \A k \in DOMAIN l : l[k] \in Region
  BY LenProperties
<1>2. \A g \in Region : g.lcn \in Int /\ g.length \in Int
  BY ScanClustersAssumption DEF Region, Cluster
<1> QED BY <1>1, <1>2

(* A region that is put at the end of a list adds its clusters, and keeps  *)
(* the order if it starts behind the others.                               *)
LEMMA AppendRegion ==
  ASSUME NEW l \in Seq(Region), NEW g \in Region,
         \A k \in 1 .. (Len(l) - 1) : l[k].lcn + l[k].length < l[k + 1].lcn,
         \A k \in DOMAIN l : l[k].lcn + l[k].length < g.lcn
  PROVE  LET m == Append(l, g)
         IN  /\ m \in Seq(Region)
             /\ DOMAIN m = DOMAIN l \cup {Len(l) + 1}
             /\ \A k \in DOMAIN l : m[k] = l[k]
             /\ m[Len(l) + 1] = g
             /\ \A k \in 1 .. (Len(m) - 1) : m[k].lcn + m[k].length < m[k + 1].lcn
             /\ UNION { Cells(m[k]) : k \in DOMAIN m }
                  = (UNION { Cells(l[k]) : k \in DOMAIN l }) \cup Cells(g)
<1> DEFINE m == Append(l, g)
<1>1. /\ m \in Seq(Region)
      /\ Len(l) \in Nat /\ Len(m) = Len(l) + 1
      /\ DOMAIN l = 1 .. Len(l) /\ DOMAIN m = 1 .. (Len(l) + 1)
      /\ \A k \in 1 .. Len(l) : m[k] = l[k]
      /\ m[Len(l) + 1] = g
  BY AppendProperties, LenProperties
<1> HIDE DEF m
<1>5. Len(l) \in Nat /\ Len(m) = Len(l) + 1
  BY <1>1
<1>2. DOMAIN m = DOMAIN l \cup {Len(l) + 1}
  BY <1>1
<1>3. \A k \in 1 .. (Len(m) - 1) : m[k].lcn + m[k].length < m[k + 1].lcn
  <2> SUFFICES ASSUME NEW k \in 1 .. (Len(m) - 1)
               PROVE  m[k].lcn + m[k].length < m[k + 1].lcn
    OBVIOUS
  <2>1. CASE k = Len(l)
    BY <1>1, <2>1
  <2>2. CASE k # Len(l)
    <3>1. k \in 1 .. (Len(l) - 1) /\ k \in 1 .. Len(l) /\ k + 1 \in 1 .. Len(l)
      BY <1>5, <2>2
    <3>2. m[k] = l[k] /\ m[k + 1] = l[k + 1]
      BY <1>1, <3>1
    <3> QED BY <3>1, <3>2
  <2> QED BY <2>1, <2>2
<1>4. UNION { Cells(m[k]) : k \in DOMAIN m }
        = (UNION { Cells(l[k]) : k \in DOMAIN l }) \cup Cells(g)
  BY <1>1, <1>2
<1> QED BY <1>1, <1>2, <1>3, <1>4 DEF m

(* Nothing is listed before the first portion is read.                     *)
LEMMA InitInv == Init => Inv
<1> SUFFICES ASSUME Init PROVE Inv
  OBVIOUS
<1> USE ScanClustersAssumption, CallbacksAssumption DEF Init, Cluster, LLINVALID
<1>1. rlist = <<>> /\ Len(rlist) = 0 /\ DOMAIN rlist = {}
  OBVIOUS
<1>2. TypeOK
  <2>1. rlist \in Seq([lcn : Cluster, length : 1 .. Clusters])
    BY <1>1
  <2>2. stopAt \in Nat /\ next \in 0 .. Clusters /\ i \in 0 .. Clusters
    OBVIOUS
  <2> QED BY <2>1, <2>2 DEF TypeOK
<1>3. InOrder
  BY <1>1 DEF InOrder
<1>4. Listed = {}
  BY <1>1 DEF Listed
<1>5. Progress
  BY <1>1, <1>4 DEF Progress, Pos, Pending, Frontier
<1> QED BY <1>2, <1>3, <1>4, <1>5 DEF Inv

(* Every turn of the loops of winx_get_free_volume_regions, its failures,  *)
(* and changes of the volume in between keep the list exact.               *)
LEMMA NextInv == Inv /\ [Next]_vars => Inv'
<1> SUFFICES ASSUME Inv, [Next]_vars PROVE Inv'
  OBVIOUS
<1> USE ScanClustersAssumption, PortionAssumption DEF Cluster, LLINVALID
<1>1. TypeOK /\ InOrder /\ (pc # "done" => Progress) /\ (outcome = "complete" => Listed = seen)
  BY DEF Inv
<1>2. ASSUME Open, UNCHANGED <<free, flags, stopAt, changes>> PROVE Inv'
  <2>1. TypeOK'
    BY <1>1, <1>2 DEF Open, TypeOK
  <2>2. Listed' = Listed /\ InOrder' /\ Pos' = Pos
    BY <1>1, <1>2 DEF Open, Listed, InOrder, Pos
  <2>3. pc' # "done" => Progress'
    BY <1>1, <1>2, <2>2 DEF Open, Progress, Pending, Frontier
  <2>4. outcome' # "complete"
    BY <1>1, <1>2 DEF Open, Progress
  <2> QED BY <2>1, <2>2, <2>3, <2>4 DEF Inv
<1>3. ASSUME Read, UNCHANGED <<free, flags, stopAt, changes>> PROVE Inv'
  <2>1. TypeOK'
    BY <1>1, <1>3 DEF Read, TypeOK
  <2>2. Listed' = Listed /\ InOrder' /\ Told' = Told /\ Progress
    BY <1>1, <1>3 DEF Read, Listed, InOrder, Told
  <2>3. next \in Nat /\ next <= Clusters /\ Pos' = Pos /\ Told \in Nat
    BY <1>1, <1>3, <2>2 DEF Read, Pos, TypeOK, Told, Progress
  <2>4. Pending' = Pending /\ Frontier' = Frontier
    BY <1>3, <2>3 DEF Read, Pending, Frontier
  <2>6. i' <= Told' /\ map' \subseteq next' .. (next' + Told' - 1)
    BY <1>3, <2>2, <2>3 DEF Read
  <2>8. last' <=> next' + Told' = Clusters
    <3>1. next' = next /\ last' = (next + Told = Clusters)
      BY <1>3 DEF Read
    <3> QED BY <2>2, <3>1, Zenon
  <2>7. Progress'
    BY <1>3, <2>2, <2>3, <2>4, <2>6, <2>8 DEF Read, Progress
  <2>5. outcome' # "complete"
    BY <1>3, <2>2 DEF Read, Progress
  <2> QED BY <2>1, <2>2, <2>5, <2>7 DEF Inv
<1>4. ASSUME ReadFails, UNCHANGED <<free, flags, stopAt, changes>> PROVE Inv'
  <2>1. TypeOK'
    BY <1>1, <1>4 DEF ReadFails, TypeOK
  <2>2. InOrder'
    BY <1>1, <1>4 DEF ReadFails, InOrder
  <2>3. pc' = "done" /\ outcome' # "complete"
    BY <1>4 DEF ReadFails
  <2> QED BY <2>1, <2>2, <2>3 DEF Inv
<1>5. ASSUME Visit, UNCHANGED <<free, flags, stopAt, changes>> PROVE Inv'
  <2>1. /\ pc = "visit" /\ i < Told /\ i' = i + 1
        /\ next' = next /\ map' = map /\ last' = last
        /\ Progress
    BY <1>1, <1>5 DEF Visit
  <2>2. /\ next \in Nat /\ i \in Nat /\ next + i \in Cluster /\ Pos = next + i
        /\ Told' = Told /\ Told \in Nat
    BY <1>1, <2>1 DEF TypeOK, Told, Pos, Progress
  <2>3. CASE next + i \in map
    <3>1. /\ free_rgn_start' = IF free_rgn_start = LLINVALID THEN next + i ELSE free_rgn_start
          /\ seen' = seen \cup {next + i}
          /\ pc' = pc /\ rlist' = rlist /\ outcome' = outcome
      BY <1>5, <2>3 DEF Visit
    <3>2. TypeOK'
      BY <1>1, <1>5, <2>1, <2>2, <3>1 DEF TypeOK, Told
    <3>3. Listed' = Listed /\ InOrder'
      BY <1>1, <3>1 DEF Listed, InOrder
    <3>4. Pos' = Pos + 1
      BY <2>1, <2>2, <3>1 DEF Pos
    <3>5. Pending' = Pending \cup {next + i}
      <4>1. CASE free_rgn_start = LLINVALID
        <5>1. Pending = {} /\ Pending' = (next + i) .. (Pos' - 1)
          BY <2>2, <3>1, <4>1 DEF Pending
        <5> QED BY <2>2, <3>4, <5>1
      <4>2. CASE free_rgn_start # LLINVALID
        <5>1. free_rgn_start \in Nat /\ free_rgn_start < next + i
          BY <1>1, <2>1, <2>2, <4>2 DEF TypeOK, Progress
        <5>2. /\ Pending = free_rgn_start .. (Pos - 1)
              /\ Pending' = free_rgn_start .. (Pos' - 1)
          BY <3>1, <4>2 DEF Pending
        <5> QED BY <2>2, <3>4, <5>1, <5>2
      <4> QED BY <4>1, <4>2
    <3>6. Frontier' = Frontier
      <4>1. CASE free_rgn_start = LLINVALID
        BY <2>2, <3>1, <4>1 DEF Frontier
      <4>2. CASE free_rgn_start # LLINVALID
        BY <3>1, <4>2 DEF Frontier
      <4> QED BY <4>1, <4>2
    <3>7. Progress'
      BY <1>1, <2>1, <2>2, <3>1, <3>3, <3>4, <3>5, <3>6 DEF Progress, TypeOK
    <3> QED BY <2>1, <3>1, <3>2, <3>3, <3>7 DEF Inv, Progress
  <2>4. CASE next + i \notin map /\ free_rgn_start = LLINVALID
    <3>1. UNCHANGED <<pc, free_rgn_start, rlist, outcome, seen>>
      BY <1>5, <2>4 DEF Visit
    <3>2. TypeOK'
      BY <1>1, <1>5, <2>1, <2>2, <3>1 DEF TypeOK, Told
    <3>3. Listed' = Listed /\ InOrder'
      BY <1>1, <3>1 DEF Listed, InOrder
    <3>4. Pos' = Pos + 1 /\ Frontier = Pos /\ Frontier' = Pos + 1
      BY <2>1, <2>2, <2>4, <3>1 DEF Pos, Frontier
    <3>5. Pending' = {} /\ Pending = {}
      BY <2>4, <3>1 DEF Pending
    <3>6. \A k \in DOMAIN rlist : rlist[k].lcn + rlist[k].length \in Int
      <4>1. rlist \in Seq(Region)
        BY <1>1 DEF TypeOK, Region
      <4> QED BY <4>1, RegionEnds
    <3>7. \A k \in DOMAIN rlist' : rlist'[k].lcn + rlist'[k].length < Frontier'
      BY <2>1, <2>2, <3>1, <3>4, <3>6 DEF Progress
    <3>8. Progress'
      BY <1>1, <2>1, <2>2, <2>4, <3>1, <3>3, <3>4, <3>5, <3>7 DEF Progress, TypeOK
    <3> QED BY <2>1, <3>1, <3>2, <3>3, <3>8 DEF Inv, Progress
  <2>5. CASE next + i \notin map /\ free_rgn_start # LLINVALID
    <3> DEFINE g == [lcn |-> free_rgn_start, length |-> (next + i) - free_rgn_start]
    <3>1. AddRegion(next + i) /\ seen' = seen
      BY <1>5, <2>5 DEF Visit
    <3>11. rlist' = Append(rlist, g)
      BY <3>1 DEF AddRegion
    <3>2. free_rgn_start \in Cluster /\ free_rgn_start < next + i
      BY <1>1, <2>1, <2>2, <2>5 DEF TypeOK, Progress
    <3>3. g \in Region /\ Cells(g) = Pending
      BY <2>2, <2>5, <3>2 DEF Region, Cells, Pending
    <3>4. rlist \in Seq(Region)
      BY <1>1 DEF TypeOK, Region
    <3>5. \A k \in DOMAIN rlist : rlist[k].lcn + rlist[k].length < g.lcn
      BY <2>1, <2>5 DEF Progress, Frontier
    <3>6. /\ rlist' \in Seq(Region)
          /\ DOMAIN rlist' = DOMAIN rlist \cup {Len(rlist) + 1}
          /\ \A k \in DOMAIN rlist : rlist'[k] = rlist[k]
          /\ rlist'[Len(rlist) + 1] = g
          /\ InOrder'
          /\ Listed' = Listed \cup Cells(g)
      <4> HIDE DEF g
      <4>1. \A k \in 1 .. (Len(rlist) - 1) :
               rlist[k].lcn + rlist[k].length < rlist[k + 1].lcn
        BY <1>1 DEF InOrder
      <4> QED BY <3>3, <3>4, <3>5, <3>11, <4>1, AppendRegion DEF InOrder, Listed
    <3>7. \/ pc' = "done" /\ outcome' = "stopped" /\ free_rgn_start' = free_rgn_start
          \/ pc' = pc /\ outcome' = outcome /\ free_rgn_start' = LLINVALID
      BY <3>1 DEF AddRegion
    <3>8. TypeOK'
      BY <1>1, <1>5, <2>1, <2>2, <3>1, <3>6, <3>7 DEF TypeOK, Region, Told
    <3>9. ASSUME pc' # "done" PROVE Progress'
      <4>1. pc' = pc /\ outcome' = outcome /\ free_rgn_start' = LLINVALID
        BY <3>7, <3>9
      <4>2. Pos' = next + i + 1 /\ Frontier' = next + i + 1 /\ Pending' = {}
        BY <2>1, <2>2, <4>1 DEF Pos, Frontier, Pending
      <4>3. seen' = Listed' \cup Pending'
        BY <2>1, <3>1, <3>3, <3>6, <4>2 DEF Progress
      <4>4. \A k \in DOMAIN rlist : rlist[k].lcn + rlist[k].length \in Int
        BY <3>4, RegionEnds
      <4>5. g.lcn + g.length = next + i
        BY <2>2, <3>2
      <4>6. \A k \in DOMAIN rlist : rlist[k].lcn + rlist[k].length < next + i + 1
        BY <2>2, <3>2, <3>5, <4>4
      <4>7. \A k \in DOMAIN rlist' : rlist'[k].lcn + rlist'[k].length < Frontier'
        <5> HIDE DEF g
        <5> QED BY <2>2, <3>6, <4>2, <4>5, <4>6
      <4> QED BY <1>1, <2>1, <2>2, <4>1, <4>2, <4>3, <4>7 DEF Progress, TypeOK
    <3>10. outcome' # "complete"
      BY <2>1, <3>7 DEF Progress
    <3> QED BY <3>6, <3>8, <3>9, <3>10 DEF Inv
  <2> QED BY <2>3, <2>4, <2>5
<1>6. ASSUME NextPortion, UNCHANGED <<free, flags, stopAt, changes>> PROVE Inv'
  <2>1. /\ pc = "visit" /\ i = Told /\ ~last /\ next' = next + i /\ pc' = "read"
        /\ UNCHANGED <<map, i, last, free_rgn_start, rlist, seen, outcome>>
        /\ Progress
    BY <1>1, <1>6 DEF NextPortion
  <2>2. Pos = next + i /\ Pos' = Pos /\ next + i \in 0 .. Clusters
    BY <1>1, <2>1 DEF Pos, TypeOK, Progress
  <2>3. TypeOK'
    BY <1>1, <1>6, <2>1, <2>2 DEF TypeOK
  <2>4. Listed' = Listed /\ InOrder' /\ Pending' = Pending /\ Frontier' = Frontier
    BY <1>1, <2>1, <2>2 DEF Listed, InOrder, Pending, Frontier
  <2>5. Progress'
    BY <2>1, <2>2, <2>4 DEF Progress
  <2> QED BY <2>1, <2>3, <2>4, <2>5 DEF Inv, Progress
<1>7. ASSUME Finish, UNCHANGED <<free, flags, stopAt, changes>> PROVE Inv'
  <2>1. /\ pc = "visit" /\ i = Told /\ last /\ pc' = "done" /\ outcome' = "complete"
        /\ UNCHANGED <<next, map, i, last, seen>>
        /\ Progress
    BY <1>1, <1>7 DEF Finish
  <2>2. Pos = next + i /\ next \in Nat /\ i \in Nat /\ next + i = Clusters
    BY <1>1, <2>1 DEF Pos, TypeOK, Progress
  <2>3. CASE free_rgn_start = LLINVALID
    <3>1. UNCHANGED <<free_rgn_start, rlist>>
      BY <1>7, <2>3 DEF Finish
    <3>2. TypeOK'
      BY <1>1, <1>7, <2>1, <3>1 DEF TypeOK
    <3>3. Listed' = Listed /\ InOrder' /\ Pending = {}
      BY <1>1, <2>3, <3>1 DEF Listed, InOrder, Pending
    <3> QED BY <2>1, <3>2, <3>3 DEF Inv, Progress
  <2>4. CASE free_rgn_start # LLINVALID
    <3> DEFINE g == [lcn |-> free_rgn_start, length |-> next + i - free_rgn_start]
    <3>1. rlist' = Append(rlist, g) /\ free_rgn_start' = LLINVALID
      BY <1>7, <2>4 DEF Finish
    <3>2. free_rgn_start \in Cluster /\ free_rgn_start < next + i
      BY <1>1, <2>1, <2>2, <2>4 DEF TypeOK, Progress
    <3>3. g \in Region /\ Cells(g) = Pending
      BY <2>2, <2>4, <3>2 DEF Region, Cells, Pending
    <3>4. rlist \in Seq(Region)
      BY <1>1 DEF TypeOK, Region
    <3>5. \A k \in DOMAIN rlist : rlist[k].lcn + rlist[k].length < g.lcn
      BY <2>1, <2>4 DEF Progress, Frontier
    <3>6. rlist' \in Seq(Region) /\ InOrder' /\ Listed' = Listed \cup Cells(g)
      <4> HIDE DEF g
      <4>1. \A k \in 1 .. (Len(rlist) - 1) :
               rlist[k].lcn + rlist[k].length < rlist[k + 1].lcn
        BY <1>1 DEF InOrder
      <4> QED BY <3>1, <3>3, <3>4, <3>5, <4>1, AppendRegion DEF InOrder, Listed
    <3>7. TypeOK'
      BY <1>1, <1>7, <2>1, <3>1, <3>6 DEF TypeOK, Region
    <3>8. Listed' = seen'
      BY <2>1, <3>3, <3>6 DEF Progress
    <3> QED BY <2>1, <3>6, <3>7, <3>8 DEF Inv
  <2> QED BY <2>3, <2>4
<1>8. ASSUME NEW c \in Cluster, Change(c) PROVE Inv'
  <2>1. UNCHANGED <<flags, stopAt, control>> /\ free' \subseteq Cluster
    BY <1>1, <1>8 DEF Change, TypeOK
  <2>2. TypeOK'
    BY <1>1, <2>1 DEF control, TypeOK
  <2>3. /\ Listed' = Listed /\ (InOrder' <=> InOrder) /\ Pos' = Pos
        /\ Pending' = Pending /\ Frontier' = Frontier /\ Told' = Told
    BY <2>1 DEF control, Listed, InOrder, Pos, Pending, Frontier, Told
  <2>4. Progress' <=> Progress
    BY <2>1, <2>3 DEF control, Progress
  <2> QED BY <1>1, <2>1, <2>2, <2>3, <2>4 DEF control, Inv
<1>9. CASE UNCHANGED vars
  <2>1. UNCHANGED <<free, flags, stopAt, control>>
    BY <1>9 DEF vars
  <2>2. TypeOK'
    BY <1>1, <2>1 DEF control, TypeOK
  <2>3. /\ Listed' = Listed /\ (InOrder' <=> InOrder) /\ Pos' = Pos
        /\ Pending' = Pending /\ Frontier' = Frontier /\ Told' = Told
    BY <2>1 DEF control, Listed, InOrder, Pos, Pending, Frontier, Told
  <2>4. Progress' <=> Progress
    BY <2>1, <2>3 DEF control, Progress
  <2> QED BY <1>1, <2>1, <2>2, <2>3, <2>4 DEF control, Inv
<1> QED BY <1>2, <1>3, <1>4, <1>5, <1>6, <1>7, <1>8, <1>9 DEF Next, Scan, Done


(* Before the scan nothing has been looked at.                             *)
LEMMA InitUndisturbed == Init => Undisturbed
BY ChangesAssumption DEF Init, Undisturbed, Pos

(* As long as nothing has changed, what was seen is what is free.          *)
LEMMA NextUndisturbed == Inv /\ Undisturbed /\ [Next]_vars => Undisturbed'
<1> SUFFICES ASSUME Inv, Undisturbed, [Next]_vars PROVE Undisturbed'
  OBVIOUS
<1> USE ScanClustersAssumption, PortionAssumption, ChangesAssumption DEF Cluster
<1>1. TypeOK /\ (pc # "done" => Progress)
  BY DEF Inv
<1>2. ASSUME Scan, UNCHANGED <<free, flags, stopAt, changes>>, changes = Changes
      PROVE  Undisturbed'
  <2>1. /\ changes' = changes /\ free' = free /\ changes \in 0 .. Changes
        /\ pc # "done" => seen = free \cap (0 .. (Pos - 1))
        /\ pc = "visit" => map = free \cap (next .. (next + Told - 1))
        /\ outcome = "complete" => seen = free
    BY <1>2 DEF Undisturbed
  <2>2. next \in Nat /\ i \in Nat /\ free \subseteq Cluster /\ next <= Clusters
    BY <1>1 DEF TypeOK
  <2>3. CASE Open
    BY <1>1, <2>1, <2>3 DEF Open, Pos, Undisturbed, Progress
  <2>4. CASE Read
    <3>1. /\ pc = "read" /\ pc' = "visit" /\ next' = next /\ i' = 0 /\ seen' = seen
          /\ outcome' = outcome /\ map' = free \cap (next .. (next + Told - 1))
      BY <2>4 DEF Read
    <3>2. Told' = Told /\ Pos' = next /\ Pos = next
      BY <2>2, <3>1 DEF Told, Pos
    <3> QED BY <1>1, <2>1, <3>1, <3>2 DEF Undisturbed, Progress
  <2>5. CASE ReadFails
    BY <2>1, <2>5 DEF ReadFails, Undisturbed
  <2>6. CASE Visit
    <3>1. /\ pc = "visit" /\ i < Told /\ next' = next /\ i' = i + 1 /\ map' = map
          /\ seen' = IF next + i \in map THEN seen \cup {next + i} ELSE seen
      BY <2>6 DEF Visit, AddRegion
    <3>2. Told' = Told /\ Told \in Int /\ Pos = next + i /\ outcome = "none"
      BY <1>1, <2>2, <3>1 DEF Told, Pos, Progress
    <3>3. pc' = "visit" => Pos' = (next + i) + 1
      BY <2>2, <3>1 DEF Pos
    <3>4. next + i \in map <=> next + i \in free
      BY <2>1, <2>2, <3>1, <3>2
    <3>5. seen' = free \cap (0 .. (next + i))
      BY <2>1, <2>2, <3>1, <3>2, <3>4
    <3>6. outcome' # "complete" /\ pc' \in {"visit", "done"}
      BY <2>6, <3>1, <3>2 DEF Visit, AddRegion
    <3> QED BY <2>1, <2>2, <3>1, <3>2, <3>3, <3>5, <3>6 DEF Undisturbed
  <2>7. CASE NextPortion
    <3>1. /\ pc = "visit" /\ pc' = "read" /\ next' = next + i /\ seen' = seen
          /\ outcome' = outcome /\ Pos' = Pos
      BY <2>7 DEF NextPortion, Pos
    <3> QED BY <1>1, <2>1, <3>1 DEF Undisturbed, Progress
  <2>8. CASE Finish
    <3>1. /\ pc = "visit" /\ pc' = "done" /\ i = Told /\ last /\ seen' = seen
      BY <2>8 DEF Finish
    <3>2. Pos = Clusters
      BY <1>1, <3>1 DEF Progress, Pos
    <3>3. seen = free
      BY <2>1, <2>2, <3>1, <3>2
    <3> QED BY <2>1, <3>1, <3>3 DEF Undisturbed
  <2> QED BY <1>2, <2>3, <2>4, <2>5, <2>6, <2>7, <2>8 DEF Scan
<1>3. ASSUME Scan, UNCHANGED <<free, flags, stopAt, changes>>, changes # Changes
      PROVE  Undisturbed'
  BY <1>3 DEF Undisturbed
<1>4. ASSUME NEW c \in Cluster, Change(c) PROVE Undisturbed'
  BY <1>4 DEF Undisturbed, Change
<1>5. CASE UNCHANGED vars
  BY <1>5 DEF vars, control, Undisturbed, Pos, Told
<1> QED BY <1>2, <1>3, <1>4, <1>5 DEF Next, Done

(* For any volume and any portions in which the bitmap arrives: the        *)
(* regions that winx_get_free_volume_regions lists are in order and apart  *)
(* from one another, a complete list has exactly the clusters that were    *)
(* free when they were looked at, also where a region crosses portions,    *)
(* and if nothing has changed meanwhile those are the free ones.           *)
THEOREM ScanIsExact == Spec => []ListsWhatItSaw
<1>1. Inv /\ Undisturbed => ListsWhatItSaw
  BY DEF Inv, Undisturbed, InOrder, ListsWhatItSaw
<1> QED BY <1>1, InitInv, NextInv, InitUndisturbed, NextUndisturbed, PTL DEF Spec
=============================================================================
