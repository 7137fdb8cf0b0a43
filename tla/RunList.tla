------------------------------ MODULE RunList ------------------------------
(***************************************************************************)
(* The run lists of the master file table (process_run_list and its        *)
(* helpers, zenwinx/ftw_ntfs.c).  A stream's extents are written as runs:  *)
(* a header with the widths n1 and n2, n1 bytes of length, and n2 bytes of *)
(* the distance from the extent before it, signed; no distance means a     *)
(* virtual run; a header of 0 ends the list.  A long stream has several    *)
(* lists, one in each of the records that its attribute list names.        *)
(*                                                                         *)
(* Bytes are digits of a small Base, and a word has few of them.           *)
(***************************************************************************)
EXTENDS Integers, Sequences, SequencesExt

CONSTANTS Base,       \* 256: a byte is below it (even)
          Nibble,     \* 16: a header is n1 + Nibble * n2
          Word,       \* 2^64, the integers of lcn, vcn and length
          Clusters,   \* sp->ml.total_clusters
          Hole        \* the lcn of a virtual run

VARIABLES stream,   \* the stream, as the table has it: lists of [lcn, length]
          pad,      \* the file system uses a byte more than it needs
          list,     \* the number of the list that is read
          run,      \* the place in its bytes
          lcn, vcn,
          disp,     \* f->disp: [clusters, fragments, blockmap]
          pc        \* "runs", then "scanned"

vars == <<stream, pad, list, run, lcn, vcn, disp, pc>>

-----------------------------------------------------------------------------
(* External: how the file system writes a run list.                        *)

Digits(v, n) == [i \in 1 .. n |-> (v \div Base ^ (i - 1)) % Base]

Width(v) == CHOOSE n \in 1 .. Nibble : v < Base ^ n /\ (n > 1 => v >= Base ^ (n - 1))

Fits(d, n) == -(Base ^ n) <= 2 * d /\ 2 * d < Base ^ n

SignedWidth(d) == CHOOSE n \in 1 .. Nibble : Fits(d, n) /\ (n > 1 => ~Fits(d, n - 1))

Encode(length, d, virtual, wide) ==
  LET n1 == Width(length) + wide
      n2 == IF virtual THEN 0 ELSE SignedWidth(d) + wide
  IN  <<n1 + Nibble * n2>> \o Digits(length, n1) \o Digits(d % Base ^ n2, n2)

(* The distance is that from the last extent that is not virtual.          *)
Bytes(extents, wide) ==
  LET Before[i \in 0 .. Len(extents)] ==
        IF i = 0 THEN 0 ELSE IF extents[i].lcn = Hole THEN Before[i - 1] ELSE extents[i].lcn
      Runs[i \in 0 .. Len(extents)] ==
        IF i = 0 THEN <<>>
        ELSE Runs[i - 1] \o Encode(extents[i].length,
                                   IF extents[i].lcn = Hole THEN 0
                                   ELSE extents[i].lcn - Before[i - 1],
                                   extents[i].lcn = Hole, wide)
  IN  Append(Runs[Len(extents)], 0)

Length(extents) == FoldLeft(LAMBDA n, e : n + e.length, 0, extents)

(* The first VCN of list n.                                                *)
LowVcn(n) == Length(FlattenSeq(SubSeq(stream, 1, n - 1)))

-----------------------------------------------------------------------------
(* The helpers: the digits at place r of the bytes b.                      *)

N1(b, r) == b[r] % Nibble
N2(b, r) == b[r] \div Nibble

RunLength(b, r) == N1(b, r) + N2(b, r) + 1

Number(b, from, n) ==
  LET At[i \in 0 .. n] == IF i = 0 THEN 0 ELSE At[i - 1] + b[from + i] * Base ^ (i - 1)
  IN  At[n]

(* Mutant: the highest byte is not signed.                                 *)
RunLCNUnsigned(b, r) == Number(b, r + N1(b, r), N2(b, r))

(* The highest byte is signed.                                             *)
RunLCN(b, r) ==
  LET n2 == N2(b, r)
      v  == Number(b, r + N1(b, r), n2)
  IN  IF n2 # 0 /\ 2 * b[r + N1(b, r) + n2] >= Base THEN v - Base ^ n2 ELSE v

RunCount(b, r) == Number(b, r, N1(b, r)) % Word

CheckRun(l, length) == l < Clusters /\ (l + length) % Word <= Clusters

(* A block is added at the end.                                            *)
ProcessRun(d, v, l, length) ==
  LET apart == d.blockmap = <<>> \/ l # (Last(d.blockmap).lcn + Last(d.blockmap).length) % Word
  IN  [clusters |-> (d.clusters + length) % Word,
       fragments |-> IF apart THEN d.fragments + 1 ELSE d.fragments,
       blockmap |-> Append(d.blockmap, [vcn |-> v, lcn |-> l, length |-> length])]

Moved(l, d) == (l + d) % Word

-----------------------------------------------------------------------------
(* process_run_list, called for each list of the stream in turn.           *)

Init == /\ pad \in {0, 1}
        /\ list = 1 /\ run = 1
        /\ lcn = 0 /\ vcn = 0
        /\ disp = [clusters |-> 0, fragments |-> 0, blockmap |-> <<>>]
        /\ pc = "runs"

Memory == Bytes(stream[list], pad)

ListDone == IF list = Len(stream)
            THEN pc' = "scanned" /\ UNCHANGED <<list, run, vcn>>
            ELSE list' = list + 1 /\ run' = 1 /\ vcn' = LowVcn(list + 1) /\ UNCHANGED pc

EndOfList == /\ pc = "runs" /\ Memory[run] = 0
             /\ ListDone
             /\ lcn' = 0
             /\ UNCHANGED <<stream, pad, disp>>

Consistent(b) == RunLCN(b, run) # 0 => CheckRun(Moved(lcn, RunLCN(b, run)), RunCount(b, run))

(* An extent outside the volume ends the list.                             *)
WrongRun == /\ pc = "runs" /\ Memory[run] # 0 /\ ~Consistent(Memory)
            /\ ListDone
            /\ lcn' = 0
            /\ UNCHANGED <<stream, pad, disp>>

NextRun == /\ pc = "runs" /\ Memory[run] # 0 /\ Consistent(Memory)
           /\ LET d      == RunLCN(Memory, run)
                  length == RunCount(Memory, run)
              IN  /\ lcn' = Moved(lcn, d)
                  /\ disp' = IF d # 0 THEN ProcessRun(disp, vcn, lcn', length) ELSE disp
                  /\ vcn' = (vcn + length) % Word
           /\ run' = run + RunLength(Memory, run)
           /\ UNCHANGED <<stream, pad, list, pc>>

Decode == EndOfList \/ WrongRun \/ NextRun

-----------------------------------------------------------------------------
Real(extents) == SelectSeq(extents, LAMBDA e : e.lcn # Hole)

(* The runs lie on the volume.                                             *)
Sound == \A n \in DOMAIN stream : \A e \in ToSet(Real(stream[n])) :
            e.lcn >= 0 /\ e.lcn + e.length <= Clusters

(* The stream's real extents, with the VCNs they have.                     *)
Extents ==
  LET all == FlattenSeq(stream)
      At  == [i \in DOMAIN all |-> [lcn |-> all[i].lcn, length |-> all[i].length,
                                    vcn |-> Length(SubSeq(all, 1, i - 1))]]
  IN  Real(At)

=============================================================================
