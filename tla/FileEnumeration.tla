-------------------------- MODULE FileEnumeration --------------------------
(***************************************************************************)
(* zen::FileEnumeration (zen.hpp, zen.cpp): the movable files, and two     *)
(* indexes over their dispositions.                                        *)
(*                                                                         *)
(*   fe.buckets  buckets_, a multimap from disp.clusters to the file: the  *)
(*               sequence of its elements.  A new element goes behind those*)
(*               with an equal key.                                        *)
(*   fe.lcns     lcns_, a map from the first cluster of every block to the *)
(*               file.  It is built by the first findAt; an empty map means*)
(*               `not built', and pop and push then leave it alone.        *)
(*   fe.missed   the assert(false) at the end of pop has been reached      *)
(*                                                                         *)
(* disp is not a part of the object: the files are shared with move_file,  *)
(* which dumps a file while it is out of the indexes.                      *)
(***************************************************************************)
EXTENDS Disposition, FiniteSets

CONSTANTS Files,       \* the movable files
          NoFile,      \* null
          Placements   \* sequences of clusters a file may occupy (TLC bound)

ASSUME FilesAssumption == NoFile \notin Files /\ IsFiniteSet(Files)
ASSUME PlacementsAssumption == Placements \subseteq Seq(Nat)

(* buckets_.insert                                                         *)
BucketInsert(buckets, key, f) ==
  LET upperBound == 1 + Cardinality({ i \in DOMAIN buckets : buckets[i].key <= key })
  IN  InsertAt(buckets, upperBound, [key |-> key, file |-> f])

BlockLcns(d) == { d.blockmap[i].lcn : i \in DOMAIN d.blockmap }

(* map::insert of every block of f: a key that is there keeps its file.    *)
LcnsInsert(lcns, d, f) ==
  [l \in DOMAIN lcns \cup BlockLcns(d) |-> IF l \in DOMAIN lcns THEN lcns[l] ELSE f]

(* scan(): every file that has a block map is ordered and goes into its    *)
(* bucket.  `listed' is the order of winx_scan_disk's list, without the    *)
(* files whose name excludes them.                                         *)
FeScanned(disp, listed) ==
  LET Add(buckets, f) == IF disp[f].blockmap = <<>> THEN buckets
                         ELSE BucketInsert(buckets, disp[f].clusters, f)
  IN  [buckets |-> FoldLeft(Add, <<>>, listed),
       lcns    |-> [l \in {} |-> NoFile],
       missed  |-> FALSE]

(* Mutants of pop: the first of the size is erased, whatever its file;     *)
(* lcns_ is left alone.                                                    *)
FePopFirst(fe, disp, f) ==
  LET at    == { i \in DOMAIN fe.buckets : fe.buckets[i].key = disp[f].clusters }
      first == CHOOSE i \in at : \A j \in at : i <= j
  IN  [buckets |-> IF at = {} THEN fe.buckets ELSE RemoveAt(fe.buckets, first),
       lcns    |-> [l \in DOMAIN fe.lcns \ BlockLcns(disp[f]) |-> fe.lcns[l]],
       missed  |-> fe.missed \/ at = {}]

FePopKeepsLcns(fe, disp, f) ==
  LET at == { i \in DOMAIN fe.buckets :
                fe.buckets[i] = [key |-> disp[f].clusters, file |-> f] }
  IN  [fe EXCEPT !.buckets = IF at = {} THEN @ ELSE RemoveAt(@, CHOOSE i \in at : TRUE),
                 !.missed  = @ \/ at = {}]

(* pop(f): without an element for f under its current size the release     *)
(* build runs past the assertion with the buckets as they were.            *)
FePop(fe, disp, f) ==
  LET at == { i \in DOMAIN fe.buckets :
                fe.buckets[i] = [key |-> disp[f].clusters, file |-> f] }
      first == CHOOSE i \in at : \A j \in at : i <= j
  IN  [buckets |-> IF at = {} THEN fe.buckets ELSE RemoveAt(fe.buckets, first),
       lcns    |-> [l \in DOMAIN fe.lcns \ BlockLcns(disp[f]) |-> fe.lcns[l]],
       missed  |-> fe.missed \/ at = {}]

(* push(f); disp has been ordered, which push does itself.                 *)
FePush(fe, disp, f) ==
  [fe EXCEPT !.buckets = BucketInsert(@, disp[f].clusters, f),
             !.lcns    = IF DOMAIN @ = {} THEN @ ELSE LcnsInsert(@, disp[f], f)]

(* findAt(lcn) builds the map if it is empty, then looks lcn up.           *)
FeBuilt(fe, disp) ==
  LET Add(lcns, e) == LcnsInsert(lcns, disp[e.file], e.file)
  IN  IF DOMAIN fe.lcns # {} THEN fe
      ELSE [fe EXCEPT !.lcns = FoldLeft(Add, @, fe.buckets)]

FindAt(fe, disp, lcn) ==
  LET built == FeBuilt(fe, disp).lcns
  IN  IF lcn \in DOMAIN built THEN built[lcn] ELSE NoFile

InBuckets(fe) == { fe.buckets[i].file : i \in DOMAIN fe.buckets }

-----------------------------------------------------------------------------
(* The object with a client that moves files the way move_file does: take  *)
(* a file out, dump it at its new place, put it back.                      *)

VARIABLES fe, disp,
          out     \* the file that is being moved, NoFile between moves

vars == <<fe, disp, out>>

ClustersOf(p) == { p[i] : i \in DOMAIN p }

Apart(place) == \A f, g \in Files :
                   f # g => ClustersOf(place[f]) \cap ClustersOf(place[g]) = {}

Init == \E place \in [Files -> Placements \ {<<>>}] :
          /\ Apart(place)
          /\ disp = [f \in Files |-> Order(Dump(place[f]))]
          /\ \E listed \in SetToSeqs(Files) : fe = FeScanned(disp, listed)
          /\ out = NoFile

Pop(f) == /\ out = NoFile
          /\ f \in InBuckets(fe)
          /\ fe' = FePop(fe, disp, f)
          /\ out' = f
          /\ UNCHANGED disp

BlockCells(d) == UNION { d.blockmap[i].lcn .. (d.blockmap[i].lcn + d.blockmap[i].length - 1)
                           : i \in DOMAIN d.blockmap }

(* winx_ftw_dump_file finds the file at another place, or resident.        *)
Move(p) == /\ out # NoFile
           /\ \A g \in Files \ {out} : BlockCells(disp[g]) \cap ClustersOf(p) = {}
           /\ disp' = [disp EXCEPT ![out] = Order(Dump(p))]
           /\ UNCHANGED <<fe, out>>

Push == /\ out # NoFile
        /\ fe' = FePush(fe, disp, out)
        /\ out' = NoFile
        /\ UNCHANGED disp

(* findAt, of any cluster: what it returns is FindAtFinds' concern.        *)
Find == /\ fe' = FeBuilt(fe, disp)
        /\ UNCHANGED <<disp, out>>

Next == \/ \E f \in Files : Pop(f)
        \/ \E p \in Placements : Move(p)
        \/ Push
        \/ Find

Spec == Init /\ [][Next]_vars

-----------------------------------------------------------------------------
(* Keys of the buckets are sizes, keys of the map clusters, and both lead  *)
(* to files.                                                               *)
TypeOK == /\ fe.buckets \in Seq([key : Nat, file : Files])
          /\ \A l \in DOMAIN fe.lcns : l \in Nat /\ fe.lcns[l] \in Files
          /\ out \in Files \cup {NoFile}

(* Every file but the one being moved is in the buckets exactly once,      *)
(* under its present size: a file filed under an old size could never be   *)
(* popped again (zen.cpp 298-317 looks under the present size only), and   *)
(* the assertion at the end of pop would fail.                             *)
FiledOnce ==
  /\ \A f \in Files \ {out} :
       /\ Cardinality({ i \in DOMAIN fe.buckets : fe.buckets[i].file = f }) = 1
       /\ \E i \in DOMAIN fe.buckets :
             fe.buckets[i] = [key |-> disp[f].clusters, file |-> f]
  /\ ~fe.missed

(* findAt tells the truth in every state: it finds the file whose block    *)
(* starts at a cluster, and null where no filed block starts.  The lazily  *)
(* built map is updated by hand in pop and push, and `empty' stands for    *)
(* `not built' even when pop has just emptied it.                          *)
FindAtFinds ==
  \A l \in UNION { ClustersOf(p) : p \in Placements } :
     FindAt(fe, disp, l) =
       IF \E f \in InBuckets(fe) : l \in BlockLcns(disp[f])
       THEN CHOOSE f \in InBuckets(fe) : l \in BlockLcns(disp[f])
       ELSE NoFile
=============================================================================
