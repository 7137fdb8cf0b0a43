----------------------------- MODULE MCBlockMap -----------------------------
(***************************************************************************)
(* Streams of up to three runs (five of one cluster each) in one list or   *)
(* in two, with distances and lengths of one and of two digits, and a few  *)
(* files that they change to.                                              *)
(***************************************************************************)
EXTENDS BlockMap

Ext(lcns, lengths) == [lcn : lcns, length : lengths]

Apart(e) == \A i, j \in DOMAIN e :
  i # j /\ e[i].lcn # Hole /\ e[j].lcn # Hole =>
    \/ e[i].lcn + e[i].length <= e[j].lcn
    \/ e[j].lcn + e[j].length <= e[i].lcn

Split(e) == { <<e>> } \cup { <<SubSeq(e, 1, i), SubSeq(e, i + 1, Len(e))>> : i \in 1 .. (Len(e) - 1) }

Maps(lcns, lengths, n) ==
  { e \in BoundedSeq(Ext(lcns, lengths), n) : e # <<>> /\ Apart(e) }

(* Extents that lie on the volume, but not at LCN 0; extents some of which *)
(* begin or end outside it.                                                *)
Places == (1 .. (Clusters - 1)) \cup {Hole}

MCStreams ==
  UNION { Split(e) : e \in { f \in Maps(Places, {1, 2, 5}, 3) :
                               \A i \in DOMAIN f : f[i].lcn # Hole =>
                                  f[i].lcn + f[i].length <= Clusters } }
  \cup UNION { Split(e) : e \in Maps({1, 2, 4, Hole}, {1}, 5) }
  \cup UNION { Split(e) : e \in Maps({-3, 2, Clusters - 1, Clusters + 1}, {1, 5}, 2) }

(* Cut to nothing; in one piece; in pieces that begin where others end.    *)
MCContents == { <<>>,
                Placed(<<[lcn |-> 1, length |-> 3]>>),
                Placed(<<[lcn |-> 6, length |-> 1], [lcn |-> Hole, length |-> 1],
                         [lcn |-> 2, length |-> 1], [lcn |-> 4, length |-> 2]>>) }
=============================================================================
