--------------------------- MODULE GapEnumeration ---------------------------
(***************************************************************************)
(* zen::GapEnumeration (zen.hpp, zen.cpp): stopgap's table of free regions.*)
(*                                                                         *)
(* The C++ object keeps a linked list of region nodes (info_) and two      *)
(* indexes that point into it: regions_, a map from a region's first       *)
(* cluster, and sizes_, a multimap from its length.  push and pop change   *)
(* the nodes in place, so both index keys of a node are copies of its      *)
(* fields that the code has to keep up to date by hand.                    *)
(*                                                                         *)
(* A state of the object is a record s:                                    *)
(*   s.list     node |-> [lcn, length]; the info_ list, {} when info_ is   *)
(*              null.  Its order is used by nothing but filter(), whose    *)
(*              result does not depend on it.                              *)
(*   s.regions  first cluster |-> node                                     *)
(*   s.sizes    {<<length, node>>}                                         *)
(*   s.broke    a DebugBreak() has been reached (it ends the process) or   *)
(*              an address that is no node has been dereferenced           *)
(* The operations are operators on such records, so that the modules that  *)
(* compose the object with its clients use the same definitions as the     *)
(* state machine at the end of this module.                                *)
(***************************************************************************)
EXTENDS Integers

CONSTANTS Clusters,   \* number of clusters of the volume
          Node,       \* addresses of region nodes
          Slack       \* the 512 clusters of best()

ASSUME ClustersAssumption == Clusters \in Nat \ {0}
ASSUME NodeAssumption     == 0 .. (Clusters - 1) \subseteq Node
ASSUME SlackAssumption    == Slack \in Nat

Cluster == 0 .. (Clusters - 1)

Run == { r \in [lcn : Cluster, length : 1 .. Clusters] :
           r.lcn + r.length <= Clusters }

Cells(r) == r.lcn .. (r.lcn + r.length - 1)

-----------------------------------------------------------------------------
(* The regions that winx_get_free_volume_regions finds in a bitmap whose   *)
(* free clusters are F: a region starts where the cluster before is in use *)
(* and ends in front of the next cluster in use, or at the volume's end.   *)

RunStarts(F) == { l \in F : l - 1 \notin F }

RunEnd(F, l) == CHOOSE e \in (l + 1) .. Clusters :
                   /\ e \notin F
                   /\ \A c \in l .. (e - 1) : c \in F

(* scan(), with free() and filter(): the list is thrown away, read from    *)
(* the volume again and both indexes are built from it.  The address of a  *)
(* new node is named after the region's first cluster.                     *)
Scanned(s, F) ==
  LET region == [l \in RunStarts(F) |->
                   [lcn |-> l, length |-> RunEnd(F, l) - l]]
  IN  [list    |-> region,
       regions |-> [l \in RunStarts(F) |-> l],
       sizes   |-> { <<region[l].length, l>> : l \in RunStarts(F) },
       broke   |-> s.broke]

-----------------------------------------------------------------------------
Region(s, k) == s.list[s.regions[k]]

SizesEntry(s, k) == <<Region(s, k).length, s.regions[k]>>

(* Mutant: the old entries of sizes_ stay.                                 *)
ReindexedStale(s, gone, n, r) ==
  LET kept == DOMAIN s.regions \ gone
  IN  [list    |-> [m \in DOMAIN s.list \cup {n} |->
                      IF m = n THEN r ELSE s.list[m]],
       regions |-> [k \in kept \cup {r.lcn} |->
                      IF k \in kept THEN s.regions[k] ELSE n],
       sizes   |-> s.sizes \cup { <<r.length, n>> },
       broke   |-> s.broke]

(* Node n becomes r; the keys in gone leave both indexes first.  A map     *)
(* that already has the key keeps its element: std::map::insert does       *)
(* nothing then, while the multimap takes the new one all the same.        *)
Reindexed(s, gone, n, r) ==
  LET kept == DOMAIN s.regions \ gone
  IN  [list    |-> [m \in DOMAIN s.list \cup {n} |->
                      IF m = n THEN r ELSE s.list[m]],
       regions |-> [k \in kept \cup {r.lcn} |->
                      IF k \in kept THEN s.regions[k] ELSE n],
       sizes   |-> (s.sizes \ { SizesEntry(s, k) : k \in gone })
                     \cup { <<r.length, n>> },
       broke   |-> s.broke]

(* std::prev(regions_.lower_bound(l)): the last key in front of l.  With   *)
(* no such key the decrement leaves begin(); the library the program is    *)
(* built with then yields end(), which the code reads as `no region'.      *)
HasPrev(s, l) == \E k \in DOMAIN s.regions : k < l

Prev(s, l) == CHOOSE k \in DOMAIN s.regions :
                 /\ k < l
                 /\ \A j \in DOMAIN s.regions : j < l => j <= k

(* Mutant: the previous region need not touch the block.                   *)
MergePrevLoose(s, b) == HasPrev(s, b.lcn)

MergePrev(s, b) == /\ HasPrev(s, b.lcn)
                   /\ LET p == Region(s, Prev(s, b.lcn))
                      IN  p.lcn + p.length = b.lcn

(* Mutant: the region behind is overlooked.                                *)
MergeNextNever(s, b) == FALSE

MergeNext(s, b) == b.lcn + b.length \in DOMAIN s.regions

FreshNode(s) == CHOOSE n \in Node : n \notin DOMAIN s.list

(* One turn of the loop in push(f): block b of a file is free now.         *)
PushBlock(s, b, F) ==
  LET p    == Prev(s, b.lcn)
      q    == b.lcn + b.length
      prev == Region(s, p)
      next == Region(s, q)
  IN  CASE b.length = 0 -> s
        [] b.length # 0 /\ MergePrev(s, b) /\ MergeNext(s, b) ->
             Reindexed(s, {p, q}, s.regions[p],
               [prev EXCEPT !.length = @ + b.length + next.length])
        [] b.length # 0 /\ MergePrev(s, b) /\ ~MergeNext(s, b) ->
             Reindexed(s, {p}, s.regions[p],
               [prev EXCEPT !.length = @ + b.length])
        [] b.length # 0 /\ ~MergePrev(s, b) /\ MergeNext(s, b) ->
             Reindexed(s, {q}, s.regions[q],
               [lcn |-> b.lcn, length |-> next.length + b.length])
        [] b.length # 0 /\ ~MergePrev(s, b) /\ ~MergeNext(s, b) ->
             IF DOMAIN s.list = {}
             THEN [Scanned(s, F) EXCEPT !.broke = TRUE]
             ELSE IF DOMAIN s.regions = {}
                  THEN [s EXCEPT !.broke = TRUE]
                  ELSE Reindexed(s, {}, FreshNode(s),
                                 [lcn |-> b.lcn, length |-> b.length])

(* pop(lcn, length): the clusters of a block are in use now.               *)
PopBlock(s, b, F) ==
  LET r == Region(s, b.lcn)
  IN  IF b.lcn \notin DOMAIN s.regions
      THEN Scanned(s, F)
      ELSE CASE r.length > b.length ->
                  Reindexed(s, {b.lcn}, s.regions[b.lcn],
                    [lcn |-> r.lcn + b.length, length |-> r.length - b.length])
             [] r.length < b.length ->
                  [s EXCEPT !.sizes = @ \ {SizesEntry(s, b.lcn)},
                            !.broke = TRUE]
             [] r.length = b.length ->
                  [s EXCEPT
                     !.sizes   = @ \ {SizesEntry(s, b.lcn)},
                     !.regions = [k \in DOMAIN @ \ {b.lcn} |-> @[k]]]

(* Mutant: the largest region is returned even if it is too small.         *)
BestAny(s, clusters, after) ==
  LET usable == { e \in s.sizes : s.list[e[2]].lcn > after }
  IN  { e \in usable : \A d \in usable : d[1] <= e[1] }

(* best(clusters, not, behindOnly).  after is not->lcn with behindOnly and *)
(* -1 without; `not' itself is never a node of the table, as its callers   *)
(* pass null or a copy.  The result is the set of sizes_ entries that can  *)
(* come first among equal keys, {} for null.                               *)
Best(s, clusters, after) ==
  LET usable == { e \in s.sizes : s.list[e[2]].lcn > after }
      bound  == IF clusters + Slack < (clusters * 3) \div 2
                THEN (clusters * 3) \div 2 ELSE clusters + Slack
      exact  == { e \in usable : e[1] = clusters }
      roomy  == { e \in usable : e[1] > bound }
      fits   == { e \in usable : e[1] >= clusters }
  IN  IF exact # {} THEN exact
      ELSE IF roomy # {}
           THEN { e \in roomy : \A d \in roomy : e[1] <= d[1] }
           ELSE { e \in fits : \A d \in fits : d[1] <= e[1] }

(* next(): the first key of regions_.                                      *)
First(s) == CHOOSE k \in DOMAIN s.regions : \A j \in DOMAIN s.regions : k <= j

(* The clusters the table takes to be free.                                *)
Covered(s) == UNION { Cells(Region(s, k)) : k \in DOMAIN s.regions }

-----------------------------------------------------------------------------
(* The object on its own, used the way op.cpp uses it as long as nothing   *)
(* goes wrong: a pushed block is not in the table, which has a region, and *)
(* a popped block lies at the front of a region or is not known at all.    *)
(* The DebugBreaks of zen.cpp 129 and 212 are outside of this contract;    *)
(* StopGap has the whole program, and NeverDies is about them.             *)

VARIABLES ge,    \* the object
          free   \* the clusters the volume's bitmap shows as free

vars == <<ge, free>>

Empty == [list |-> [n \in {} |-> n], regions |-> [n \in {} |-> n],
          sizes |-> {}, broke |-> FALSE]

(* The constructor scans.                                                  *)
Init == /\ free \in SUBSET Cluster
        /\ ge = Scanned(Empty, free)

Push(b) == /\ Cells(b) \cap Covered(ge) = {}
           /\ DOMAIN ge.regions # {}
           /\ Node \ DOMAIN ge.list # {}       \* memory is left
           /\ ge' = PushBlock(ge, b, free)
           /\ free' = free

Pop(b) == /\ b.lcn \in DOMAIN ge.regions => b.length <= Region(ge, b.lcn).length
          /\ ge' = PopBlock(ge, b, free)
          /\ free' = free

Scan == ge' = Scanned(ge, free) /\ free' = free

(* Other programs: the volume changes behind the object's back.            *)
Drift == free' \in SUBSET Cluster /\ ge' = ge

Next == \/ \E b \in Run : Push(b) \/ Pop(b)
        \/ Scan
        \/ Drift

Spec == Init /\ [][Next]_vars

-----------------------------------------------------------------------------
(* The three containers hold what they are declared to hold.               *)
TypeOK ==
  /\ free \in SUBSET Cluster
  /\ DOMAIN ge = {"list", "regions", "sizes", "broke"}
  /\ DOMAIN ge.list \subseteq Node
  /\ \A n \in DOMAIN ge.list : ge.list[n] \in Run
  /\ DOMAIN ge.regions \subseteq Cluster
  /\ \A k \in DOMAIN ge.regions : ge.regions[k] \in DOMAIN ge.list
  /\ ge.sizes \subseteq (1 .. Clusters) \X Node
  /\ ge.broke \in BOOLEAN

(* The indexes never go stale: after any sequence of pushes, pops and      *)
(* scans every region is found under its own first cluster, and sizes_     *)
(* holds exactly the regions of regions_, each under its own length        *)
(* (zen.cpp 101-228 updates the copies by hand in seven places).           *)
IndexesAgree ==
  /\ \A k \in DOMAIN ge.regions : Region(ge, k).lcn = k
  /\ ge.sizes = { SizesEntry(ge, k) : k \in DOMAIN ge.regions }

(* The regions are maximal: no two overlap or touch, so every region is    *)
(* a whole gap.  close_gaps and best() rely on it: a gap split in two      *)
(* would never be matched with a file of its real size.                    *)
Coalesced ==
  \A k1, k2 \in DOMAIN ge.regions :
     k1 < k2 => k1 + Region(ge, k1).length < k2

(* best() finds a region exactly if one is large enough, and what it finds *)
(* is a region of the table behind the one it must stay behind.            *)
BestFits ==
  \A clusters \in 1 .. Clusters, after \in -1 .. (Clusters - 1) :
     LET found == Best(ge, clusters, after)
     IN  /\ \A e \in found :
              \E k \in DOMAIN ge.regions :
                 /\ ge.regions[k] = e[2]
                 /\ k > after
                 /\ Region(ge, k).length >= clusters
         /\ found = {} =>
              \A k \in DOMAIN ge.regions :
                 k > after => Region(ge, k).length < clusters

(* The table implements the abstract tracker: push adds exactly the        *)
(* block's clusters to what is taken to be free, pop removes exactly them  *)
(* or rescans, and nothing else changes it.                                *)
Abstract == INSTANCE FreeSpace WITH known <- Covered(ge)

(* The table implements the tracker of free clusters (FreeSpace).          *)
FreeSpaceSpec == Abstract!Spec
=============================================================================
