------------------------------ MODULE BlockMap ------------------------------
(***************************************************************************)
(* The life of f->disp.  On NTFS the scan fills it in from the run lists   *)
(* of the master file table (RunList); after every attempt to move a part  *)
(* of the file winx_ftw_dump_file reads it anew from the file system       *)
(* (FileDump; op.cpp 61).  The program takes both for the same thing:      *)
(* files are filed, and gaps counted, by whichever came last.              *)
(***************************************************************************)
EXTENDS Integers, Sequences, SequencesExt

CONSTANTS Base, Nibble, Word, Clusters, Hole,   \* as in RunList
          Streams,         \* the streams: sequences of lists of [lcn, length]
          Contents,        \* what another program may make of the file
          Pairs, Changes   \* as in FileDump

ASSUME ByteAssumption == Base \in Nat \ {0, 1} /\ Base % 2 = 0 /\ Nibble \in Nat \ {0, 1}

ASSUME PairsAssumption == Pairs \in Nat \ {0}

VARIABLES stream, pad, list, run, lcn, vcn, disp, pc,
          file, startVcn, result, outcome, changes

decoding == <<stream, pad, list, run, lcn, vcn>>

dumping == <<file, startVcn, result, outcome, changes>>

vars == <<decoding, dumping, disp, pc>>

Table == INSTANCE RunList

Fsctl == INSTANCE FileDump

(* The extents of a stream with the VCNs they have, as FileDump has them.  *)
Placed(extents) ==
  LET at(i) == Table!Length(SubSeq(extents, 1, i - 1))
  IN  [i \in DOMAIN extents |-> [vcn |-> at(i), end |-> at(i + 1), lcn |-> extents[i].lcn]]

Init == /\ stream \in Streams
        /\ file = Placed(FlattenSeq(stream))
        /\ Table!Init /\ Fsctl!Init

(* winx_scan_disk is through, and move_file has tried to move the file; if *)
(* it was moved, that is a Change.  A damaged table is not followed on.    *)
Refresh == /\ pc = "scanned" /\ Table!Sound
           /\ pc' = "open"
           /\ UNCHANGED <<decoding, dumping, disp>>

Done == /\ pc = "done" \/ (pc = "scanned" /\ ~Table!Sound)
        /\ UNCHANGED vars

Next == \/ Table!Decode /\ UNCHANGED dumping
        \/ Refresh
        \/ (Fsctl!Program \/ Fsctl!Change) /\ UNCHANGED decoding
        \/ Done

Spec == Init /\ [][Next]_vars

-----------------------------------------------------------------------------
(* A disposition is one of a volume of 64-bit numbers: no block is empty.  *)
TypeOK == /\ pc \in {"runs", "scanned", "open", "dump", "done"}
          /\ lcn \in 0 .. (Word - 1) /\ vcn \in 0 .. (Word - 1)
          /\ disp.fragments \in 0 .. Len(disp.blockmap)

Program == INSTANCE Disposition

(* The clusters of some extents in their order.                            *)
Flat(extents) == FlattenSeq([k \in DOMAIN extents |->
                   [j \in 1 .. extents[k].length |-> extents[k].lcn + j - 1]])

(* Of a file that nobody touches both ways give the same disposition, and  *)
(* the true one: its extents in VCN order without the virtual runs, each   *)
(* once, whatever bytes the run list takes for them, in however many lists *)
(* they are, and however they fall into the calls' buffers; and as many    *)
(* fragments as it has runs of adjacent clusters.  This is the Dump that   *)
(* StopGap takes a scan and a dump to be.                                  *)
MapIsExact ==
  Table!Sound /\ changes = Changes /\ (pc = "scanned" \/ outcome = "complete") =>
    LET true == Program!Dump(Flat(Table!Extents))
    IN  /\ disp.blockmap = Table!Extents
        /\ disp.clusters = true.clusters
        /\ disp.fragments = true.fragments

(* Whatever ends a dump in between, nothing is left of the map that had    *)
(* been read, nor of the one before: move_file (op.cpp 61) looks at the    *)
(* fields, not at the result.                                              *)
AllOrNothing ==
  outcome \in {"locked", "empty", "stopped", "failed", "wrong"} => disp = Fsctl!Empty

(*------------------------- what the code says of itself ------------------*)

(* ftw_ntfs.c 1103: `run is inside volume bounds'.  It does not hold of a  *)
(* table whose length wraps the sum round (ftw_ntfs.c 1102).               *)
InBounds == \A b \in ToSet(disp.blockmap) : b.lcn + b.length <= Clusters

(* ftw.c 75: the map is destroyed `in case of errors found', that is, if   *)
(* `two blocks overlap' (ftw.c 88).  It does not hold: the file may change *)
(* between two calls, and the check looks at the first two blocks only.    *)
NoOverlap ==
  pc = "done" =>
    \A k, j \in DOMAIN disp.blockmap :
       k < j => disp.blockmap[k].vcn + disp.blockmap[k].length <= disp.blockmap[j].vcn
=============================================================================
