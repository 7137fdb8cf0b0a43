------------------------------ MODULE FileDump ------------------------------
(***************************************************************************)
(* winx_ftw_dump_file (zenwinx ftw.c): the block map of a file is put      *)
(* together from several calls of FSCTL_GET_RETRIEVAL_POINTERS, each of    *)
(* which tells of a few extents from a given VCN on.  Between two calls    *)
(* the file may be extended, cut or moved.                                 *)
(*                                                                         *)
(* The file (external) is the sequence of its extents in VCN order: runs   *)
(* of adjacent clusters, or holes of a sparse or compressed file.  An      *)
(* extent starts at vcn, counted from 0, and ends in front of end.         *)
(***************************************************************************)
EXTENDS Integers, FiniteSets, Sequences, SequencesExt

CONSTANTS Contents,   \* what another program may change the file into
          Hole,       \* LLINVALID, the LCN of a virtual run
          Pairs,      \* the extents that one call has room for
          Changes     \* bound: changes to the file during the dump

VARIABLES file,     \* the file as the volume has it
          pc,       \* "open", "dump", "done"
          startVcn,
          disp,     \* f->disp: [clusters, fragments, blockmap]
          result,   \* what is returned: 0 or -1
          outcome,  \* history: how the dump ended
          changes   \* what is left of Changes

vars == <<file, pc, startVcn, disp, result, outcome, changes>>

Empty == [clusters |-> 0, fragments |-> 0, blockmap |-> <<>>]

(* FSCTL_GET_RETRIEVAL_POINTERS from VCN v on: the extents that are left,  *)
(* beginning with the whole extent that v lies in.                         *)
Left(f, v) == SelectSeq(f, LAMBDA e : e.end > v)

Told(f, v) == LET left == Left(f, v)
              IN  SubSeq(left, 1, IF Len(left) < Pairs THEN Len(left) ELSE Pairs)

-----------------------------------------------------------------------------
Init == /\ startVcn = 0
        /\ result = 0 /\ outcome = "none"
        /\ changes = Changes

(* Mutant: the disposition is reset when the file is open.                 *)
OpenKeeps == /\ pc = "open"
             /\ \/ pc' = "dump" /\ outcome' = outcome /\ disp' = Empty
                \/ pc' = "done" /\ outcome' = "locked" /\ disp' = disp
             /\ UNCHANGED <<file, startVcn, result, changes>>

(* What was known of the file is given up first.  A file that cannot be    *)
(* opened counts as dumped.                                                *)
Open == /\ pc = "open"
        /\ disp' = Empty
        /\ \/ pc' = "dump" /\ outcome' = outcome
           \/ pc' = "done" /\ outcome' = "locked"
        /\ UNCHANGED <<file, startVcn, result, changes>>

(* The ways out of the loop that reset the disposition.                    *)
Reset(code, why) == /\ disp' = Empty
                    /\ result' = code /\ outcome' = why
                    /\ pc' = "done"
                    /\ UNCHANGED <<file, startVcn, changes>>

(* STATUS_END_OF_FILE: the file is resident, or ends before startVcn.      *)
EndOfFile == /\ pc = "dump"
             /\ Left(file, startVcn) = <<>>
             /\ Reset(0, "empty")

(* The call fails; the terminator asks to stop; a driver tells of nothing, *)
(* or of an extent that ends at 0, as FAT32 does for files of 3.99 GB.     *)
Failure == /\ pc = "dump"
           /\ \/ Reset(-1, "failed")
              \/ Left(file, startVcn) # <<>> /\ Reset(0, "stopped")
              \/ Left(file, startVcn) # <<>> /\ Reset(0, "empty")
              \/ Told(file, startVcn) # <<>>
                   /\ Last(Told(file, startVcn)).lcn # Hole /\ Reset(-1, "wrong")

(* One pair of the buffer.  A block that continues the one before it, as   *)
(* in a compressed file, is no fragment of its own.                        *)
AddBlock(d, e) ==
  LET last == Last(d.blockmap)
      new  == d.blockmap = <<>> \/ e.lcn # last.lcn + last.length
  IN  IF e.lcn = Hole THEN d
      ELSE [clusters  |-> d.clusters + (e.end - e.vcn),
            fragments |-> d.fragments + (IF new THEN 1 ELSE 0),
            blockmap  |-> Append(d.blockmap,
                            [vcn |-> e.vcn, lcn |-> e.lcn, length |-> e.end - e.vcn])]

(* validate_blockmap: the simplified version.                              *)
Validate(d) == IF Len(d.blockmap) > 1 /\ d.blockmap[1].vcn = d.blockmap[2].vcn
               THEN [d EXCEPT !.blockmap = <<>>] ELSE d

(* A call that succeeds: its pairs become blocks, and the next call starts *)
(* where the last of them ends.                                            *)
Dump ==
  /\ pc = "dump"
  /\ Left(file, startVcn) # <<>>
  /\ LET told == Told(file, startVcn)
         d    == FoldLeft(AddBlock, disp, told)
         over == told = Left(file, startVcn)
     IN  /\ startVcn' = Last(told).end
         /\ disp' = IF over THEN Validate(d) ELSE d
         /\ IF over THEN pc' = "done" /\ outcome' = "complete"
                    ELSE UNCHANGED <<pc, outcome>>
  /\ UNCHANGED <<file, result, changes>>

(* Another program extends, cuts or moves the file.                        *)
Change == /\ pc \in {"scanned", "dump"} /\ changes > 0
          /\ \E f \in Contents : f # file /\ file' = f
          /\ changes' = changes - 1
          /\ UNCHANGED <<pc, startVcn, disp, result, outcome>>

Program == Open \/ EndOfFile \/ Failure \/ Dump
=============================================================================
