--------------------------- MODULE MCFileTreeWalk ---------------------------
(***************************************************************************)
(* Volumes of up to five nodes: nested directories, a junction, an empty   *)
(* file, a filtered directory, places that are free.                       *)
(***************************************************************************)
EXTENDS FileTreeWalk

N(kind, parent) == [kind |-> kind, parent |-> parent]

Table(n1, n2, n3, n4) == [n \in Nodes |-> CASE n = 0 -> N("dir", 0) [] n = 1 -> n1
                                            [] n = 2 -> n2 [] n = 3 -> n3 [] OTHER -> n4]

MCVolumes ==
  { Table(N("dir", 0), N("dir", 1), N("file", 2), N("file", 0)),
    Table(N("file", 2), N("dir", 0), N("dir", 0), N("free", 0)),
    Table(N("file", 0), N("file", 0), N("dir", 0), N("file", 3)),
    Table(N("junction", 0), N("empty", 4), N("file", 4), N("dir", 0)) }
=============================================================================
