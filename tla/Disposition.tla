---------------------------- MODULE Disposition ----------------------------
(***************************************************************************)
(* Where a file's data lies.  The volume knows a file as the sequence of   *)
(* its clusters (VCN order); the program knows it as f->disp, a record     *)
(* with the number of clusters, the number of fragments and the block map, *)
(* which winx_ftw_dump_file (zenwinx ftw.c) fills in.  The block map is a  *)
(* circular list; here it is the sequence that starts at the list's head,  *)
(* and the null pointer is <<>>.                                           *)
(***************************************************************************)
EXTENDS Integers, Sequences, SequencesExt

(* FSCTL_GET_RETRIEVAL_POINTERS: the runs of adjacent clusters.            *)
RetrievalPointers(clusters) ==
  LET Extend(runs, c) ==
        IF runs # <<>> /\ Last(runs).lcn + Last(runs).length = c
        THEN [runs EXCEPT ![Len(runs)].length = @ + 1]
        ELSE Append(runs, [lcn |-> c, length |-> 1])
  IN  FoldLeft(Extend, <<>>, clusters)

(* A dump that opened the file.  A file without clusters has no block map. *)
(* Runs that the volume reports are never adjacent, so each is a fragment. *)
Dump(clusters) == [clusters  |-> Len(clusters),
                   fragments |-> Len(RetrievalPointers(clusters)),
                   blockmap  |-> RetrievalPointers(clusters)]

(* A dump that could not open the file: it has reset the three fields by   *)
(* then, and returns zero all the same.                                    *)
NoDump == [clusters |-> 0, fragments |-> 0, blockmap |-> <<>>]

OrderNot(d) == d        \* mutant: the list stays as it was dumped

(* FileEnumeration::order: the list is turned so that it starts at the     *)
(* block with the lowest LCN; the order of the blocks stays the same.      *)
Order(d) ==
  LET bm    == d.blockmap
      first == CHOOSE i \in DOMAIN bm : \A j \in DOMAIN bm : bm[i].lcn <= bm[j].lcn
  IN  IF bm = <<>> THEN d
      ELSE [d EXCEPT !.blockmap = SubSeq(bm, first, Len(bm)) \o SubSeq(bm, 1, first - 1)]

HeadLcn(d) == Head(d.blockmap).lcn
=============================================================================
