------------------------------ MODULE FindBest ------------------------------
(***************************************************************************)
(* FileEnumeration::findBest (zen.cpp 334-496): which files to move into a *)
(* gap.  A file of exactly the gap's size wins; otherwise large files are  *)
(* taken greedily until at most MaxLen clusters are left, and the rest is  *)
(* a 0/1 knapsack over a short list of candidates.                         *)
(*                                                                         *)
(* buckets is the multimap as a sorted sequence of [key, file], disp the   *)
(* dispositions (see FileEnumeration).                                     *)
(***************************************************************************)
EXTENDS Disposition, FiniteSets

CONSTANT MaxLen      \* maxlen, 256 in the code

ASSUME MaxLenAssumption == MaxLen \in Nat

(* filter: only files behind the gap qualify.                              *)
InFront(disp, f, lcn) == HeadLcn(disp[f]) <= lcn

(* The file of exactly this size that lies farthest back; the first one of *)
(* the multimap's order on a tie.                                          *)
PerfectFits(buckets, disp, lcn, length) ==
  { i \in DOMAIN buckets : /\ buckets[i].key = length
                           /\ ~InFront(disp, buckets[i].file, lcn) }

Farthest(buckets, disp, found) ==
  CHOOSE i \in found :
     \A j \in found :
        LET hi == HeadLcn(disp[buckets[i].file])
            hj == HeadLcn(disp[buckets[j].file])
        IN  hj < hi \/ (hj = hi /\ i <= j)

(* Mutant: one file per size is all that is kept.                          *)
KnownInsertOne(known, disp, e) ==
  IF \E i \in DOMAIN known : known[i].key = e.key THEN known ELSE Append(known, e)

(* known_, at most four files per size.  A file that is put in may replace *)
(* one that lies farther to the front, and is then put in a second time.   *)
(* Sizes only go down, so the multimap's order is the order of insertion.  *)
KnownInsert(known, disp, e) ==
  LET k      == Cardinality({ i \in DOMAIN known : known[i].key = e.key })
      more   == IF (e.key < 4 /\ k < 1) \/ k < 4 THEN Append(known, e) ELSE known
      worse  == { i \in DOMAIN more : /\ more[i].key = e.key
                                      /\ HeadLcn(disp[more[i].file]) < HeadLcn(disp[e.file]) }
  IN  IF worse = {} THEN more
      ELSE Append(RemoveAt(more, CHOOSE i \in worse : \A j \in worse : i <= j), e)

(* One turn of the candidate loop; st.length is what is left of the gap.   *)
Consider(st, disp, lcn, e) ==
  IF st.length = 0 \/ e.key > st.length \/ InFront(disp, e.file, lcn) THEN st
  ELSE IF st.length > MaxLen
       THEN IF st.length >= disp[e.file].clusters
            THEN [st EXCEPT !.rvs    = Append(@, e.file),
                            !.length = @ - disp[e.file].clusters]
            ELSE st
       ELSE [st EXCEPT !.known = KnownInsert(@, disp, e)]

(* From upper_bound(length) down.                                          *)
Candidates(buckets, disp, lcn, length) ==
  LET Step(st, e) == Consider(st, disp, lcn, e)
      small == Cardinality({ i \in DOMAIN buckets : buckets[i].key <= length })
  IN  FoldLeft(Step, [rvs |-> <<>>, length |-> length, known |-> <<>>],
               Reverse(SubSeq(buckets, 1, small)))

(* solutions[i][w]; a solution is worse if its value is smaller, or equal  *)
(* with more items.                                                        *)
Worse(a, b) == \/ a.value < b.value
               \/ a.value = b.value /\ Cardinality(a.items) > Cardinality(b.items)

Knapsack(weights, length) ==
  LET solutions[i \in 0 .. Len(weights)] ==
        [w \in 0 .. length |->
           IF i = 0 \/ w = 0 THEN [value |-> 0, items |-> {}]
           ELSE LET without == solutions[i - 1][w]
                IN  IF weights[i] > w THEN without
                    ELSE LET rest == solutions[i - 1][w - weights[i]]
                             with == [value |-> rest.value + weights[i],
                                      items |-> rest.items \cup {i}]
                         IN  IF Worse(without, with) THEN with ELSE without]
  IN  solutions[Len(weights)][length]

(* The candidates whose bits are set in the solution, behind rvs.          *)
Chosen(rvs, cands, items) ==
  LET Add(chosen, i) == IF i \in items THEN Append(chosen, cands[i]) ELSE chosen
  IN  FoldLeft(Add, rvs, [i \in DOMAIN cands |-> i])

(* Mutant: the best part is taken without partialOK.                       *)
FillRestPartial(st, disp, partialOK) ==
  LET cands    == [i \in DOMAIN st.known |-> st.known[i].file]
      weights  == [i \in DOMAIN cands |-> disp[cands[i]].clusters]
      solution == Knapsack(weights, st.length)
  IN  Chosen(st.rvs, cands, solution.items)

(* The knapsack's part of the result, and what the two shortcuts for no    *)
(* and for one candidate return instead.                                   *)
FillRest(st, disp, partialOK) ==
  LET cands    == [i \in DOMAIN st.known |-> st.known[i].file]
      weights  == [i \in DOMAIN cands |-> disp[cands[i]].clusters]
      solution == Knapsack(weights, st.length)
      nothing  == IF partialOK THEN st.rvs ELSE <<>>
  IN  CASE Len(cands) = 0 -> nothing
        [] Len(cands) = 1 ->
             IF weights[1] = st.length \/ (partialOK /\ weights[1] <= st.length)
             THEN Append(st.rvs, cands[1])
             ELSE nothing
        [] Len(cands) > 1 ->
             IF ~partialOK /\ solution.value # st.length THEN <<>>
             ELSE Chosen(st.rvs, cands, solution.items)

(* findBest looks at blockmap->lcn of every file it considers: null there  *)
(* for a file without a block map, whose size is 0 and which is reached by *)
(* every search that is not perfect and runs to the end of the buckets.    *)
FollowsNull(buckets, disp, lcn, length) ==
  LET whole == { i \in DOMAIN buckets : disp[buckets[i].file].blockmap # <<>> }
      sound == SelectSeq(buckets, LAMBDA e : disp[e.file].blockmap # <<>>)
  IN  /\ whole # DOMAIN buckets
      /\ PerfectFits(sound, disp, lcn, length) = {}
      /\ Candidates(sound, disp, lcn, length).length # 0

Best(buckets, disp, lcn, length, partialOK) ==
  LET perfect == PerfectFits(buckets, disp, lcn, length)
      st      == Candidates(buckets, disp, lcn, length)
  IN  IF perfect # {}
      THEN <<buckets[Farthest(buckets, disp, perfect)].file>>
      ELSE IF st.length = 0 THEN st.rvs
      ELSE FillRest(st, disp, partialOK)
=============================================================================
