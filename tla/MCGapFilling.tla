---------------------------- MODULE MCGapFilling ----------------------------
(* Four files of 1 to 3 clusters, and five of which more than four may be  *)
(* of one size; gaps of up to 6 clusters, the knapsack for up to 5 (256 in *)
(* the code) and the greedy choice above.                                  *)
EXTENDS GapFilling

MCSizes == [1 .. 4 -> 1 .. 3] \cup {<<1, 1, 1, 1, 1>>, <<1, 1, 1, 1, 2>>, <<1, 1, 2, 2, 2>>}
=============================================================================
