------------------------- MODULE MCFileEnumeration -------------------------
(* FileEnumeration with three files on six clusters: whole, in two blocks, *)
(* in two blocks out of order, and resident (no cluster).                  *)
EXTENDS FileEnumeration

MCPlacements == { <<>>, <<0>>, <<1>>, <<2, 3>>, <<3>>, <<4, 1>>, <<0, 4>>, <<5, 2>>, <<4, 5>> }
=============================================================================
