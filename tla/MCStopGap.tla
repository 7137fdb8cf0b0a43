----------------------------- MODULE MCStopGap -----------------------------
(***************************************************************************)
(* StopGap on small volumes: every way to lay out files of the given sizes,*)
(* in one piece or in several, around the unmovable clusters.              *)
(***************************************************************************)
EXTENDS StopGap

CONSTANTS MCSizes,     \* the files' sizes, file after file: a sequence
          MCPieces,    \* the most fragments a file starts with
          MCMaxSize    \* values of --maxsize, in clusters

(* Sequences of n clusters in at most MCPieces runs.                       *)
PlacesFor(n) ==
  { p \in [1 .. n -> Cluster \ Fixed] :
      /\ IsInjective(p)
      /\ Len(RetrievalPointers(p)) <= MCPieces }

MCFiles == DOMAIN MCSizes

MCLayouts ==
  { l \in [MCFiles -> UNION { PlacesFor(MCSizes[f]) : f \in MCFiles }] :
      /\ \A f \in MCFiles : Len(l[f]) = MCSizes[f]
      /\ \A f, g \in MCFiles : f # g => ToSet(l[f]) \cap ToSet(l[g]) = {} }

(* Every command line, and the ones that do the most.                      *)
AllOptions == [defrag : BOOLEAN, gaps : BOOLEAN, widen : BOOLEAN, aggressive : BOOLEAN,
               maxSize : MCMaxSize]

GapOptions == [defrag : {TRUE}, gaps : {TRUE}, widen : {TRUE}, aggressive : BOOLEAN,
               maxSize : MCMaxSize]

(* No gap is too large, with widening and without.                         *)
AggressiveOptions == [defrag : {TRUE}, gaps : {TRUE}, widen : BOOLEAN, aggressive : {TRUE},
                      maxSize : MCMaxSize]

MCNode == 0 .. 3 * Clusters

MCWidenMoves == <<1, 3>>

OneTwo    == <<1, 2>>
OneOneTwo == <<1, 1, 2>>
=============================================================================
