----------------------------- MODULE BitmapScan -----------------------------
(***************************************************************************)
(* winx_get_free_volume_regions (zenwinx volume.c): the volume's bitmap is *)
(* read portion by portion, and every maximal run of free clusters becomes *)
(* an element of a list of regions.  A run may begin in one portion and    *)
(* end in another, or with the volume.  Other programs allocate and free   *)
(* clusters between two portions, a portion may be unreadable, and a       *)
(* callback may stop the scan at a region.                                 *)
(***************************************************************************)
EXTENDS Integers, Sequences

CONSTANTS Clusters,    \* number of clusters of the volume
          Portion,     \* 8 * BITMAPBYTES, the clusters that one call tells of
          Callbacks,   \* values of stopAt: the callback stops the scan at that
                       \* region; 0 is for no callback
          Changes      \* bound: changes other programs make during the scan

ASSUME ScanClustersAssumption == Clusters \in Nat \ {0}
ASSUME PortionAssumption      == Portion \in Nat \ {0}
ASSUME CallbacksAssumption    == Callbacks \subseteq Nat
ASSUME ChangesAssumption      == Changes \in Nat

LLINVALID == -1

Cluster == 0 .. (Clusters - 1)

VARIABLES free,      \* the clusters the volume's bitmap shows as free
          flags,     \* whether WINX_GVR_ALLOW_PARTIAL_SCAN is given
          stopAt,    \* the region at which the callback ends the scan
          pc,        \* "open", "read", "visit", "done"
          next,      \* where the next portion begins
          map,       \* the free clusters of the portion that has been read
          i,         \* the cluster of the portion that is looked at
          last,      \* status is STATUS_SUCCESS: this is the last portion
          free_rgn_start,
          rlist,     \* the regions, in the order of the list
          seen,      \* history: the clusters that were free when looked at
          outcome,   \* history: how the scan ended
          changes    \* what is left of Changes

control == <<pc, next, map, i, last, free_rgn_start, rlist, seen, outcome>>
vars == <<free, flags, stopAt, changes, control>>

Init == /\ free \in SUBSET Cluster
        /\ flags \in BOOLEAN
        /\ stopAt \in Callbacks
        /\ pc = "open"
        /\ next = 0 /\ map = {} /\ i = 0 /\ last = FALSE
        /\ free_rgn_start = LLINVALID
        /\ rlist = <<>>
        /\ seen = {} /\ outcome = "none"
        /\ changes = Changes

(* winx_vopen: a volume that cannot be opened has no regions.              *)
Open == /\ pc = "open"
        /\ \/ pc' = "read" /\ outcome' = outcome
           \/ pc' = "done" /\ outcome' = "failed"
        /\ UNCHANGED <<next, map, i, last, free_rgn_start, rlist, seen>>

(* Clusters that the portion at next tells of.                             *)
Told == IF Clusters - next < Portion THEN Clusters - next ELSE Portion

(* FSCTL_GET_VOLUME_BITMAP.  STATUS_BUFFER_OVERFLOW says that there is     *)
(* more to read.                                                           *)
Read == /\ pc = "read"
        /\ map' = free \cap (next .. (next + Told - 1))
        /\ i' = 0
        /\ last' = (next + Told = Clusters)
        /\ pc' = "visit"
        /\ UNCHANGED <<next, free_rgn_start, rlist, seen, outcome>>

ReadFails == /\ pc = "read"
             /\ rlist' = IF flags THEN rlist ELSE <<>>
             /\ pc' = "done" /\ outcome' = "failed"
             /\ UNCHANGED <<next, map, i, last, free_rgn_start, seen>>

(* A region that ends in front of cluster `end' is appended to the list.   *)
AddRegion(end) ==
  /\ rlist' = Append(rlist, [lcn |-> free_rgn_start, length |-> end - free_rgn_start])
  /\ IF Len(rlist) + 1 = stopAt
     THEN pc' = "done" /\ outcome' = "stopped" /\ UNCHANGED free_rgn_start
     ELSE UNCHANGED <<pc, outcome>> /\ free_rgn_start' = LLINVALID

(* One turn of the inner loop.                                             *)
Visit ==
  /\ pc = "visit" /\ i < Told
  /\ i' = i + 1
  /\ IF next + i \in map
     THEN /\ free_rgn_start' = IF free_rgn_start = LLINVALID THEN next + i ELSE free_rgn_start
          /\ seen' = seen \cup {next + i}
          /\ UNCHANGED <<pc, rlist, outcome>>
     ELSE /\ IF free_rgn_start = LLINVALID
             THEN UNCHANGED <<pc, free_rgn_start, rlist, outcome>>
             ELSE AddRegion(next + i)
          /\ UNCHANGED seen
  /\ UNCHANGED <<next, map, last>>

(* Mutant: a region ends with its portion.                                 *)
NextPortionCuts ==
  /\ pc = "visit" /\ i = Told /\ ~last
  /\ next' = next + i
  /\ pc' = "read"
  /\ rlist' = IF free_rgn_start = LLINVALID THEN rlist
              ELSE Append(rlist, [lcn |-> free_rgn_start,
                                  length |-> next + i - free_rgn_start])
  /\ free_rgn_start' = LLINVALID
  /\ UNCHANGED <<map, i, last, seen, outcome>>

(* Mutant: the same portion is read again.                                 *)
NextPortionStays == /\ pc = "visit" /\ i = Told /\ ~last
                    /\ pc' = "read"
                    /\ UNCHANGED <<next, map, i, last, free_rgn_start, rlist, seen, outcome>>

NextPortion == /\ pc = "visit" /\ i = Told /\ ~last
               /\ next' = next + i
               /\ pc' = "read"
               /\ UNCHANGED <<map, i, last, free_rgn_start, rlist, seen, outcome>>

(* The last portion is through: a region may end with the volume.          *)
Finish == /\ pc = "visit" /\ i = Told /\ last
          /\ IF free_rgn_start = LLINVALID
             THEN UNCHANGED <<free_rgn_start, rlist>>
             ELSE /\ rlist' = Append(rlist, [lcn |-> free_rgn_start,
                                            length |-> next + i - free_rgn_start])
                  /\ free_rgn_start' = LLINVALID
          /\ pc' = "done" /\ outcome' = "complete"
          /\ UNCHANGED <<next, map, i, last, seen>>

Scan == Open \/ Read \/ ReadFails \/ Visit \/ NextPortion \/ Finish

(* Another program allocates or frees a cluster.                           *)
Change(c) == /\ pc # "done" /\ changes > 0
             /\ free' = IF c \in free THEN free \ {c} ELSE free \cup {c}
             /\ changes' = changes - 1
             /\ UNCHANGED <<flags, stopAt, control>>

Done == pc = "done" /\ UNCHANGED vars

Next == \/ Scan /\ UNCHANGED <<free, flags, stopAt, changes>>
        \/ \E c \in Cluster : Change(c)
        \/ Done

Fairness == WF_vars(Scan /\ UNCHANGED <<free, flags, stopAt, changes>>)

Spec == Init /\ [][Next]_vars /\ Fairness

-----------------------------------------------------------------------------
Cells(g) == g.lcn .. (g.lcn + g.length - 1)

Listed == UNION { Cells(rlist[k]) : k \in DOMAIN rlist }

(* The scan stays on the volume, and its regions are not empty.            *)
TypeOK == /\ free \subseteq Cluster
          /\ flags \in BOOLEAN /\ last \in BOOLEAN
          /\ stopAt \in Nat
          /\ pc \in {"open", "read", "visit", "done"}
          /\ outcome \in {"none", "failed", "stopped", "complete"}
          /\ next \in 0 .. Clusters /\ i \in 0 .. Clusters
          /\ map \subseteq Cluster /\ seen \subseteq Cluster
          /\ free_rgn_start \in Cluster \cup {LLINVALID}
          /\ rlist \in Seq([lcn : Cluster, length : 1 .. Clusters])

(* The list tells exactly what the scan saw, even on a volume that changes *)
(* between two portions: a complete scan lists all clusters that were free *)
(* when looked at and no other (volume.c 535-571), in regions that are     *)
(* maximal and in the volume's order, wherever portions end; and on a      *)
(* volume that nobody changes these are the free clusters.  Indexes are    *)
(* built from the list on that understanding (filter, zen.cpp 90).         *)
ListsWhatItSaw ==
  /\ outcome = "complete" => Listed = seen
  /\ outcome = "complete" /\ changes = Changes => seen = free
  /\ \A k \in 1 .. (Len(rlist) - 1) :
       rlist[k].lcn + rlist[k].length < rlist[k + 1].lcn

(* The scan ends, however the portions fall and the volume changes: next   *)
(* moves on with each (volume.c 560).                                      *)
Ends == <>(pc = "done")
=============================================================================
