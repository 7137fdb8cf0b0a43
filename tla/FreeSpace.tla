----------------------------- MODULE FreeSpace -----------------------------
(***************************************************************************)
(* What a tracker of the free clusters of a volume promises, with nothing  *)
(* said about how it keeps them: `known' is the set of clusters it takes   *)
(* to be free, `free' the set that the volume's bitmap shows.  The two     *)
(* drift apart while other programs write to the volume; only a rescan     *)
(* brings them together.  GapEnumeration implements this.                  *)
(***************************************************************************)
EXTENDS Integers

CONSTANT Clusters    \* number of clusters of the volume, at least 1

Cluster == 0 .. (Clusters - 1)

(* A run of clusters: winx_volume_region, winx_blockmap without its VCN.   *)
Run == { r \in [lcn : Cluster, length : 1 .. Clusters] :
           r.lcn + r.length <= Clusters }

Cells(r) == r.lcn .. (r.lcn + r.length - 1)

VARIABLES known, free

Init == free \in SUBSET Cluster /\ known = free

(* The clusters of a block that is not in use any more are taken up.       *)
Release(b) == /\ Cells(b) \cap known = {}
              /\ known' = known \cup Cells(b)
              /\ free' = free

(* The clusters of a block that a file has been moved to are given up.     *)
Claim(b) == /\ Cells(b) \subseteq known
            /\ known' = known \ Cells(b)
            /\ free' = free

(* The volume's bitmap is read again.                                      *)
Rescan == known' = free /\ free' = free

(* Other programs allocate and release clusters.                           *)
Drift == free' \in SUBSET Cluster /\ known' = known

Next == \/ \E b \in Run : Release(b) \/ Claim(b)
        \/ Rescan
        \/ Drift

Spec == Init /\ [][Next]_<<known, free>>
=============================================================================
