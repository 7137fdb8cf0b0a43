------------------------- MODULE MCGapEnumeration -------------------------
(***************************************************************************)
(* GapEnumeration on a small volume, with more addresses than a scan can   *)
(* use, so that nodes which have left the indexes pile up in the list.     *)
(*                                                                         *)
(* What such a dead node holds is read by nobody: no operation reaches a   *)
(* node but through an index, and FreshNode looks at addresses only.  Two  *)
(* states that differ in dead nodes alone are explored once.               *)
(***************************************************************************)
EXTENDS GapEnumeration

LiveNodes == { ge.regions[k] : k \in DOMAIN ge.regions }
                \cup { e[2] : e \in ge.sizes }

LiveView == <<[ge EXCEPT !.list = [n \in LiveNodes |-> @[n]]],
              DOMAIN ge.list, free>>
=============================================================================
