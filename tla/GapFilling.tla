----------------------------- MODULE GapFilling -----------------------------
(***************************************************************************)
(* What findBest promises, over all small volumes: whole files at distinct *)
(* places, filed in the order of their names (the names are symmetric), a  *)
(* gap, and both values of partialOK, the way close_gaps asks for a gap    *)
(* first with FALSE and then with TRUE.                                    *)
(***************************************************************************)
EXTENDS FindBest, FiniteSetsExt

CONSTANTS Sizes,      \* sizes of the files, in the order they were filed
          MaxGap      \* largest gap asked for

VARIABLES disp,       \* the files' dispositions
          gap,        \* the gap: [lcn, length]
          partialOK,
          chosen      \* the result

vars == <<disp, gap, partialOK, chosen>>

Filed == DOMAIN disp

(* buckets_: sorted by size, equal sizes in the order they were filed.     *)
buckets ==
  LET Before(f, g) == \/ disp[f].clusters < disp[g].clusters
                      \/ disp[f].clusters = disp[g].clusters /\ f < g
      sorted == SetToSortSeq(Filed, Before)
  IN  [i \in DOMAIN sorted |-> [key |-> disp[sorted[i]].clusters, file |-> sorted[i]]]

WholeFile(lcn, size) ==
  [clusters |-> size, fragments |-> 1, blockmap |-> <<[lcn |-> lcn, length |-> size]>>]

(* Only the order of the places counts for findBest; place 10 * p leaves   *)
(* room for the file.  The gap is in front of all files or behind some.    *)
Init == /\ \E sizes \in Sizes : \E places \in SetToSeqs(DOMAIN sizes) :
             disp = [f \in DOMAIN sizes |-> WholeFile(10 * places[f], sizes[f])]
        /\ gap \in { [lcn |-> l, length |-> n] : l \in {0, 15}, n \in 1 .. MaxGap }
        /\ partialOK = FALSE
        /\ chosen = Best(buckets, disp, gap.lcn, gap.length, FALSE)

(* Nothing was found: close_gaps asks again.                               *)
AskAgain == /\ ~partialOK /\ chosen = <<>>
            /\ partialOK' = TRUE
            /\ chosen' = Best(buckets, disp, gap.lcn, gap.length, TRUE)
            /\ UNCHANGED <<disp, gap>>

Done == (partialOK \/ chosen # <<>>) /\ UNCHANGED vars

Next == AskAgain \/ Done

Spec == Init /\ [][Next]_vars

-----------------------------------------------------------------------------
(* What move_set adds up: a file that is named twice counts twice.         *)
Total(fs) == FoldLeft(LAMBDA sum, f : sum + disp[f].clusters, 0, fs)

(* What the files fill when they are moved: such a file fills its size     *)
(* once, as its second move leaves the place of the first.                 *)
Filled(fs) == MapThenSumSet(LAMBDA f : disp[f].clusters, ToSet(fs))

Behind == { f \in Filed : HeadLcn(disp[f]) > gap.lcn }

(* findBest chooses files that are filed.                                  *)
TypeOK == /\ chosen \in Seq(Filed)
          /\ partialOK \in BOOLEAN

(* Whatever mix of greedy choice and knapsack, a gap is never overfilled,  *)
(* and without partialOK it is filled exactly or not at all: move_set      *)
(* writes the files one behind the other with no check of its own.  This   *)
(* is about move_set's own sum, in which a file that is named twice counts *)
(* twice.                                                                  *)
NeverOverfills ==
  /\ Total(chosen) <= gap.length
  /\ ~partialOK /\ chosen # <<>> => Total(chosen) = gap.length

(* Each file of the result is there once, so that the gap is `closed using *)
(* n files' as move_set reports it (op.cpp 140).                           *)
NoFileTwice == IsInjective(chosen)

(* Files of one size lie on the volume in the order they were filed.       *)
InOrder == \A f, g \in Behind : disp[f].clusters = disp[g].clusters /\ f < g =>
                                  HeadLcn(disp[f]) < HeadLcn(disp[g])

(* The reference: for gaps the knapsack handles alone, the clusters that   *)
(* the files really fill are the most that any set of files behind the gap *)
(* can fill, and without partialOK a gap that can be closed is closed - as *)
(* long as no size has more than the four files that known_ keeps (zen.cpp *)
(* 394), and if no file is named twice.  When some is, they fill less; but *)
(* that takes two files of one size of which the one filed first is behind *)
(* the other (zen.cpp 399-405).                                            *)
FillsTheMost ==
  /\ gap.length <= MaxLen
  /\ \A n \in 1 .. MaxGap : Cardinality({ f \in Behind : disp[f].clusters = n }) <= 4
  => LET fillable == { MapThenSumSet(LAMBDA f : disp[f].clusters, S) : S \in SUBSET Behind }
         most     == Max({ n \in fillable : n <= gap.length })
     IN  /\ NoFileTwice => Filled(chosen) = IF partialOK \/ most = gap.length THEN most ELSE 0
         /\ InOrder => NoFileTwice
=============================================================================
