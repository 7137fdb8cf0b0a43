------------------------------ MODULE StopGap ------------------------------
(***************************************************************************)
(* The program: Operation::run with defrag, close_gaps, move_set,          *)
(* widen_behind and move_file (op.cpp) over a GapEnumeration and a         *)
(* FileEnumeration, on an NTFS volume that other programs use as well.     *)
(*                                                                         *)
(* The program is one thread; pc is the place in its code, and a step runs *)
(* from one call into the file system to the next.  Between two steps the  *)
(* other programs may change the volume and the console's thread may set   *)
(* gTerminated.  The volume (disk) is external: it is what NTFS keeps,     *)
(* modelled from the calls op.cpp makes.                                   *)
(***************************************************************************)
EXTENDS Disposition, FiniteSets

CONSTANTS Clusters,    \* number of clusters of the volume
          Files,       \* the movable files
          NoFile,      \* null
          Layouts,     \* the volumes the program may start on: file |-> clusters
          Fixed,       \* clusters of unmovable files
          Options,     \* the command lines: [defrag, gaps, widen, aggressive, maxSize]
          Slack,       \* the 512 clusters of GapEnumeration::best
          MaxLen,      \* maxlen of findBest, 256
          MaxChunk,    \* MAXULONG32 - 10, the most clusters moved by one call
          WidenMoves,  \* the 3 and 100 files widen_behind may move: <<3, 100>>
          Word,        \* 2^64: the program's arithmetic wraps there
          Node,        \* addresses of region nodes
          Meddling,    \* bound: changes other programs make to the volume
          Faults,      \* bound: calls that fail for no reason seen here
          BlindScans   \* bound: reads of the volume's bitmap that fail

ASSUME FilesAssumption == NoFile \notin Files /\ IsFiniteSet(Files)
ASSUME ChunkAssumption == MaxChunk \in Nat \ {0}
ASSUME WordAssumption  == Clusters \in Nat /\ Word \in Nat /\ Word > 2 * Clusters

(* maxSize is a size_t (op.hpp 11).                                        *)
ASSUME OptionsAssumption == \A o \in Options : o.maxSize \in Nat

VARIABLES disk,    \* file |-> the sequence of its clusters, as the volume has it
          disp,    \* file |-> f->disp
          fe, ge,  \* op.fe, op.ge
          last,    \* op.last
          replaced,\* op.replaced
          opts,    \* op.opts
          term,    \* ConsoleHandler::gTerminated
          pc,      \* where the program is
          queue,   \* defrag: fragmented files still to handle
          gap,     \* close_gaps: g (a node), partialOK; g has been freed
          r,       \* move_set, widen_behind: r
          files,   \* move_set: files still to move
          widen,   \* widen_behind: moved, movedlen, maxMoves
          mv,      \* move_file: f, target.lcn, numlcns, status, caller
          bound    \* what is left of Meddling, Faults and BlindScans

program == <<disp, fe, ge, last, replaced, opts, pc, queue, gap, r, files, widen, mv>>
vars == <<disk, term, bound, program>>

Cluster == 0 .. (Clusters - 1)

(* No cluster belongs to two files, or twice to one; a file without a      *)
(* block map is not filed (zen.cpp 263) and is none of the program's.      *)
ASSUME LayoutsAssumption ==
  \A l \in Layouts :
     /\ l \in [Files -> Seq(Cluster \ Fixed)]
     /\ \A f \in Files : IsInjective(l[f]) /\ l[f] # <<>>
     /\ \A f, g \in Files : f # g => ToSet(l[f]) \cap ToSet(l[g]) = {}

ASSUME BoundsAssumption ==
  MaxLen \in Nat /\ Meddling \in Nat /\ Faults \in Nat /\ BlindScans \in Nat

(* There is a volume, and an address for every region of it.               *)
ASSUME TableAssumption == Clusters # 0 /\ Cluster \subseteq Node /\ Slack \in Nat

Used == Fixed \cup (UNION { ToSet(disk[f]) : f \in Files })

Free == Cluster \ Used

Gaps == INSTANCE GapEnumeration WITH free <- Free

Enum == INSTANCE FileEnumeration WITH out <- NoFile, Placements <- {}

Fill == INSTANCE FindBest

Wrap(n) == n % Word

-----------------------------------------------------------------------------
(* GapEnumeration::push(f) and pop(f): block after block.                  *)
PushFile(g, d, F) == FoldLeft(LAMBDA s, b : Gaps!PushBlock(s, b, F), g, d.blockmap)

(* Mutant: the clusters a file has moved to stay in the table.             *)
PopFileForgotten(g, d, F) == g

PopFile(g, d, F) == FoldLeft(LAMBDA s, b : Gaps!PopBlock(s, b, F), g, d.blockmap)

(* Whether pop(f) comes to a block it does not know, and scans.            *)
PopRescans(g, d, F) ==
  \E i \in DOMAIN d.blockmap :
     LET before == FoldLeft(LAMBDA s, b : Gaps!PopBlock(s, b, F), g,
                            SubSeq(d.blockmap, 1, i - 1))
     IN  d.blockmap[i].lcn \notin DOMAIN before.regions

(* A step that has run into a DebugBreak goes no further.                  *)
Goto(label, g) == pc' = IF g.broke THEN "crash" ELSE label

-----------------------------------------------------------------------------
Init == /\ opts \in Options
        /\ disk \in Layouts
        /\ disp = [f \in Files |-> Order(Dump(disk[f]))]
        /\ fe = Enum!FeScanned(disp, SetToSeq(Files))
        /\ ge = Gaps!Scanned(Gaps!Empty, Free)
        /\ last = NoFile
        /\ replaced = TRUE
        /\ term = 0
        /\ pc = "run"
        /\ queue = <<>>
        /\ gap = [g |-> 0, partialOK |-> FALSE, freed |-> FALSE]
        /\ r = [lcn |-> 0, length |-> 0]
        /\ files = <<>>
        /\ widen = [moved |-> 0, movedlen |-> 0, maxMoves |-> 0]
        /\ mv = [f |-> NoFile, target |-> 0, left |-> 0, status |-> "none", by |-> "none"]
        /\ bound = [meddling |-> Meddling, faults |-> Faults, scans |-> BlindScans]

(* In the steps that scan, F is what winx_get_free_volume_regions finds:   *)
(* the free clusters, or nothing where the bitmap cannot be read.          *)

(* defrag's first loop.                                                    *)
Fragmented ==
  LET Add(fragmented, e) == IF disp[e.file].fragments > 1 THEN Append(fragmented, e.file)
                            ELSE fragmented
  IN  FoldLeft(Add, <<>>, fe.buckets)

(* The head of the loop in Operation::run, up to defrag's second loop.     *)
Run(F) == /\ pc = "run"
          /\ IF term # 0 \/ ~replaced
             THEN /\ ge' = Gaps!Scanned(ge, F)
                  /\ pc' = "done"
                  /\ UNCHANGED queue
             ELSE /\ queue' = IF opts.defrag THEN Fragmented ELSE <<>>
                  /\ pc' = "defrag"
                  /\ UNCHANGED ge
          /\ UNCHANGED <<disp, fe, last, replaced, opts, gap, r, files, widen, mv>>

(* Mutant: replaced is not reset.                                          *)
DefragEndKeepsReplaced(F) ==
  /\ pc = "defrag"
  /\ queue = <<>> \/ term # 0
  /\ ge' = IF opts.defrag THEN Gaps!Scanned(ge, F) ELSE ge
  /\ gap' = [gap EXCEPT !.partialOK = FALSE]
  /\ pc' = IF opts.gaps THEN "gaps" ELSE "run"
  /\ queue' = <<>>
  /\ UNCHANGED <<disp, fe, last, replaced, opts, r, files, widen, mv>>

(* defrag is through: scan, then close_gaps or the next round.             *)
DefragEnd(F) ==
  /\ pc = "defrag"
  /\ queue = <<>> \/ term # 0
  /\ ge' = IF opts.defrag THEN Gaps!Scanned(ge, F) ELSE ge
  /\ replaced' = FALSE
  /\ gap' = [gap EXCEPT !.partialOK = FALSE]
  /\ pc' = IF opts.gaps THEN "gaps" ELSE "run"
  /\ queue' = <<>>
  /\ UNCHANGED <<disp, fe, last, opts, r, files, widen, mv>>

(* Mutants: the file stays in fe while it moves; its last cluster is left  *)
(* behind.                                                                 *)
MoveFileUnpopped(e, f, lcn, by) ==
  /\ fe' = e
  /\ mv' = [f |-> f, target |-> lcn, left |-> disp[f].clusters,
            status |-> "none", by |-> by]
  /\ pc' = IF disp[f].clusters = 0 THEN "return" ELSE "open"

MoveFileShort(e, f, lcn, by) ==
  /\ fe' = Enum!FePop(e, disp, f)
  /\ mv' = [f |-> f, target |-> lcn, left |-> disp[f].clusters - 1,
            status |-> "none", by |-> by]
  /\ pc' = IF disp[f].clusters = 1 THEN "return" ELSE "open"

(* move_file(f, g) up to its first call; e is the object fe before it.     *)
MoveFile(e, f, lcn, by) ==
  /\ fe' = Enum!FePop(e, disp, f)
  /\ mv' = [f |-> f, target |-> lcn, left |-> disp[f].clusters,
            status |-> "none", by |-> by]
  /\ pc' = IF disp[f].clusters = 0 THEN "return" ELSE "open"

(* Mutant: every fragmented file is taken out of fe, not the last alone.   *)
DefragFilePopsAll ==
  /\ pc = "defrag"
  /\ queue # <<>> /\ term = 0
  /\ LET f == Head(queue)
         e == Enum!FePop(fe, disp, f)
         found == Gaps!Best(ge, disp[f].clusters, -1)
     IN  \/ /\ found = {}
            /\ fe' = e
            /\ queue' = Tail(queue)
            /\ UNCHANGED <<mv, pc>>
         \/ /\ \E b \in found : MoveFile(e, f, ge.list[b[2]].lcn, "defrag")
            /\ UNCHANGED queue
  /\ UNCHANGED <<disp, ge, last, replaced, opts, gap, r, files, widen>>

(* One file of defrag.  The file that was moved last is taken out of fe    *)
(* (`Skipping'), and then handled like any other.                          *)
DefragFile ==
  /\ pc = "defrag"
  /\ queue # <<>> /\ term = 0
  /\ LET f == Head(queue)
         e == IF f = last THEN Enum!FePop(fe, disp, f) ELSE fe
         found == Gaps!Best(ge, disp[f].clusters, -1)
     IN  \/ /\ found = {}
            /\ fe' = e
            /\ queue' = Tail(queue)
            /\ UNCHANGED <<mv, pc>>
         \/ /\ \E b \in found : MoveFile(e, f, ge.list[b[2]].lcn, "defrag")
            /\ UNCHANGED queue
  /\ UNCHANGED <<disp, ge, last, replaced, opts, gap, r, files, widen>>

-----------------------------------------------------------------------------
(* close_gaps                                                              *)

Head1 == Gaps!First(ge)
NextGap == Gaps!Region(ge, Head1)

(* No gap left, or terminated: scan, and the next round of run.            *)
GapsEnd(F) == /\ pc = "gaps"
              /\ DOMAIN ge.regions = {} \/ term # 0
              /\ ge' = Gaps!Scanned(ge, F)
              /\ pc' = "run"
              /\ UNCHANGED <<disp, fe, last, replaced, opts, queue, gap, r, files, widen, mv>>

AnotherGap == pc = "gaps" /\ DOMAIN ge.regions # {} /\ term = 0

TooLarge == ~opts.aggressive /\ NextGap.length > opts.maxSize

SkipGap == /\ AnotherGap /\ TooLarge
           /\ ge' = Gaps!PopBlock(ge, NextGap, Free)
           /\ Goto("gaps", ge')
           /\ UNCHANGED <<disp, fe, last, replaced, opts, queue, gap, r, files, widen, mv>>

(* findBest follows a null block map.                                      *)
FindBestCrashes == /\ AnotherGap /\ ~TooLarge
                   /\ Fill!FollowsNull(fe.buckets, disp, NextGap.lcn, NextGap.length)
                   /\ pc' = "crash"
                   /\ UNCHANGED <<disp, fe, ge, last, replaced, opts, queue, gap, r,
                                  files, widen, mv>>

(* findBest, and the start of move_set or of widen_behind.                 *)
FillGap ==
  /\ AnotherGap /\ ~TooLarge
  /\ ~Fill!FollowsNull(fe.buckets, disp, NextGap.lcn, NextGap.length)
  /\ files' = Fill!Best(fe.buckets, disp, NextGap.lcn, NextGap.length, gap.partialOK)
  /\ r' = NextGap
  /\ gap' = [gap EXCEPT !.g = ge.regions[Head1], !.freed = FALSE]
  /\ widen' = [moved |-> 0, movedlen |-> 0,
               maxMoves |-> WidenMoves[IF gap.partialOK THEN 2 ELSE 1]]
  /\ pc' = IF files' # <<>> THEN "set" ELSE "widen"
  /\ UNCHANGED <<disp, fe, ge, last, replaced, opts, queue, mv>>

SetFile == /\ pc = "set"
           /\ files # <<>> /\ term = 0
           /\ MoveFile(fe, Head(files), r.lcn, "set")
           /\ UNCHANGED <<disp, ge, last, replaced, opts, queue, gap, r, files, widen>>

SetEnd == /\ pc = "set"
          /\ files = <<>> \/ term # 0
          /\ gap' = [gap EXCEPT !.partialOK = FALSE]
          /\ pc' = "gaps"
          /\ files' = <<>>
          /\ UNCHANGED <<disp, fe, ge, last, replaced, opts, queue, r, widen, mv>>

(* The file right behind the gap, and where widen_behind would put it: a   *)
(* region behind the gap, or the gap itself.                               *)
Behind == Enum!FindAt(fe, disp, Wrap(r.lcn + r.length))

WidenTargets ==
  LET n     == disp[Behind].clusters
      found == Gaps!Best(ge, n, r.lcn)
  IN  IF Behind = NoFile THEN {}
      ELSE IF found # {} THEN { [lcn |-> ge.list[b[2]].lcn, by |-> "widen"] : b \in found }
      ELSE IF n >= opts.maxSize /\ r.length >= n
           THEN { [lcn |-> r.lcn, by |-> "widen into"] }
           ELSE {}

WidenOn == /\ opts.widen /\ term = 0
           /\ widen.movedlen < opts.maxSize \div 2
           /\ widen.moved < widen.maxMoves

WidenFile == /\ pc = "widen" /\ WidenOn
             /\ \E t \in WidenTargets : MoveFile(Enum!FeBuilt(fe, disp), Behind, t.lcn, t.by)
             /\ UNCHANGED <<disp, ge, last, replaced, opts, queue, gap, r, files, widen>>

(* What g points to.  A scan inside widen_behind has freed the node: the   *)
(* memory is then whatever became of it, a node of the new list or not.    *)
AtGap == IF gap.freed
         THEN { ge.list[n] : n \in DOMAIN ge.list } \cup {[lcn |-> Clusters, length |-> 0]}
         ELSE {ge.list[gap.g]}

(* Mutant: a gap is given up without a try at filling it in part.          *)
WidenedNeverPartial(yes, F) ==
  IF ~yes
  THEN /\ \E region \in AtGap : ge' = Gaps!PopBlock(ge, region, F)
       /\ gap' = [gap EXCEPT !.partialOK = FALSE]
       /\ Goto("gaps", ge')
  ELSE gap' = [gap EXCEPT !.partialOK = TRUE] /\ pc' = "gaps" /\ UNCHANGED ge

(* Mutant: a gap that nothing fits into is not given up.                   *)
WidenedKeepsGap(yes, F) ==
  gap' = [gap EXCEPT !.partialOK = TRUE] /\ pc' = "gaps" /\ UNCHANGED ge

(* What close_gaps does with widen_behind's result.                        *)
Widened(yes, F) ==
  IF ~yes /\ gap.partialOK
  THEN /\ \E region \in AtGap : ge' = Gaps!PopBlock(ge, region, F)
       /\ gap' = [gap EXCEPT !.partialOK = FALSE]
       /\ Goto("gaps", ge')
  ELSE gap' = [gap EXCEPT !.partialOK = TRUE] /\ pc' = "gaps" /\ UNCHANGED ge

WidenEnd(F) == /\ pc = "widen"
               /\ \/ ~WidenOn /\ UNCHANGED fe
                  \/ /\ WidenOn
                     /\ WidenTargets = {}
                     /\ fe' = Enum!FeBuilt(fe, disp)
               /\ Widened(widen.moved > 0, F)
               /\ UNCHANGED <<disp, last, replaced, opts, queue, r, files, widen, mv>>

-----------------------------------------------------------------------------
(* move_file                                                               *)

Cur == IF mv.left < MaxChunk THEN mv.left ELSE MaxChunk

Spend(what) == bound[what] > 0 /\ bound' = [bound EXCEPT ![what] = @ - 1]

OpenFile == /\ pc = "open"
            /\ \/ pc' = "move" /\ UNCHANGED bound
               \/ pc' = "throw" /\ Spend("faults")
            /\ UNCHANGED <<disk, term, disp, fe, ge, last, replaced, opts, queue, gap, r,
                           files, widen, mv>>

Targets == mv.target .. (mv.target + Cur - 1)

(* FSCTL_MOVE_FILE: the file's first clusters go to the target.  StartVcn  *)
(* is 0 for every chunk.                                                   *)
Moved(f) == [i \in DOMAIN disk[f] |-> IF i <= Cur THEN mv.target + i - 1 ELSE disk[f][i]]

(* The move and ge->push(f), which comes before the file is dumped again   *)
(* and whether or not the move was made.                                   *)
MoveClusters ==
  /\ pc = "move"
  /\ \/ /\ mv.target \in Cluster /\ Targets \subseteq Free
        /\ disk' = [disk EXCEPT ![mv.f] = Moved(mv.f)]
        /\ mv' = [mv EXCEPT !.status = "success"]
        /\ UNCHANGED bound
     \/ /\ Targets \subseteq Cluster
        /\ ~(Targets \subseteq Free)
        /\ mv' = [mv EXCEPT !.status = "already committed"]
        /\ UNCHANGED <<disk, bound>>
     \/ /\ IF Targets \subseteq Cluster THEN Spend("faults") ELSE UNCHANGED bound
        /\ mv' = [mv EXCEPT !.status = "error"]
        /\ UNCHANGED disk
  /\ ge' = PushFile(ge, disp[mv.f], Free')
  /\ Goto("dump", ge')
  /\ UNCHANGED <<term, disp, fe, last, replaced, opts, queue, gap, r, files, widen>>

(* winx_ftw_dump_file and the rest of the loop's body.                     *)
DumpFile ==
  /\ pc = "dump"
  /\ \E d \in {Dump(disk[mv.f]), NoDump}, F \in {Free, {}} :
       /\ \/ d = Dump(disk[mv.f]) /\ F = Free /\ UNCHANGED bound
          \/ d = NoDump /\ F = Free /\ Spend("faults")
          \/ /\ d = Dump(disk[mv.f]) /\ F # Free
             /\ mv.status = "success" /\ PopRescans(ge, d, F)
             /\ Spend("scans")
       /\ CASE mv.status = "success" ->
                 /\ disp' = [disp EXCEPT ![mv.f] = Order(d)]
                 /\ ge' = PopFile(ge, d, F)
                 /\ gap' = [gap EXCEPT !.freed = @ \/ PopRescans(ge, d, F)]
                 /\ fe' = Enum!FePush(fe, disp', mv.f)
                 /\ mv' = [mv EXCEPT !.left = @ - Cur, !.target = @ + Cur]
                 /\ Goto(IF mv.left = Cur THEN "return" ELSE "open", ge')
            [] mv.status = "already committed" ->
                 /\ disp' = [disp EXCEPT ![mv.f] = Order(d)]
                 /\ fe' = Enum!FePush(fe, disp', mv.f)
                 /\ pc' = "throw"
                 /\ UNCHANGED <<ge, gap, mv>>
            [] mv.status = "error" ->
                 /\ disp' = [disp EXCEPT ![mv.f] = d]
                 /\ pc' = "throw"
                 /\ UNCHANGED <<fe, ge, gap, mv>>
  /\ UNCHANGED <<disk, term, last, replaced, opts, queue, r, files, widen>>

(* What move_set and widen_behind make of r after a move of n clusters.    *)
FilledNot(region, n) == region      \* mutant: r is not advanced

Filled(region, n) == [lcn |-> Wrap(region.lcn + n), length |-> Wrap(region.length - n)]

Extended(region, n, into) ==
  [lcn    |-> IF into THEN Wrap(region.lcn - n) ELSE region.lcn,
   length |-> Wrap(region.length + n)]

(* The end of move_file and what its caller does next.                     *)
Return ==
  /\ pc = "return"
  /\ replaced' = TRUE
  /\ last' = mv.f
  /\ LET n == disp[mv.f].clusters
     IN  CASE mv.by = "defrag" ->
                /\ pc' = "defrag"
                /\ queue' = Tail(queue)
                /\ UNCHANGED <<r, files, widen>>
           [] mv.by = "set" ->
                /\ pc' = "set"
                /\ r' = Filled(r, n)
                /\ files' = Tail(files)
                /\ UNCHANGED <<queue, widen>>
           [] mv.by \in {"widen", "widen into"} ->
                /\ pc' = "widen"
                /\ r' = Extended(r, n, mv.by = "widen into")
                /\ widen' = [widen EXCEPT !.moved = @ + 1, !.movedlen = @ + n]
                /\ UNCHANGED <<queue, files>>
  /\ UNCHANGED <<disp, fe, ge, opts, gap, mv>>

(* The exception of move_file in its three callers: defrag and close_gaps  *)
(* scan, widen_behind returns false.                                       *)
ThrowToScan(F) == /\ pc = "throw"
                  /\ mv.by \in {"defrag", "set"}
                  /\ ge' = Gaps!Scanned(ge, F)
                  /\ pc' = IF mv.by = "defrag" THEN "defrag" ELSE "gaps"
                  /\ queue' = IF mv.by = "defrag" THEN Tail(queue) ELSE queue
                  /\ files' = <<>>
                  /\ UNCHANGED <<disp, fe, last, replaced, opts, gap, r, widen, mv>>

ThrowToWiden(F) == /\ pc = "throw"
                   /\ mv.by \in {"widen", "widen into"}
                   /\ Widened(FALSE, F)
                   /\ UNCHANGED <<disp, fe, last, replaced, opts, queue, r, files, widen, mv>>

-----------------------------------------------------------------------------
Scanning(F) == \/ Run(F) \/ DefragEnd(F) \/ GapsEnd(F) \/ WidenEnd(F)
               \/ ThrowToScan(F) \/ ThrowToWiden(F)

Internal == \/ DefragFile
            \/ SkipGap \/ FindBestCrashes \/ FillGap
            \/ SetFile \/ SetEnd \/ WidenFile
            \/ Return

Program == \/ Internal /\ UNCHANGED <<disk, term, bound>>
           \/ Scanning(Free) /\ UNCHANGED <<disk, term, bound>>
           \/ Free # {} /\ Spend("scans") /\ Scanning({}) /\ UNCHANGED <<disk, term>>
           \/ OpenFile \/ MoveClusters \/ DumpFile

Running == pc \notin {"done", "crash"}

(* ConsoleHandler::HandlerRoutine, on a thread of its own.                 *)
CtrlC == /\ Running /\ term = 0
         /\ term' = 1
         /\ UNCHANGED <<disk, bound, program>>

(* Another program appends a cluster to a file, or cuts one off.           *)
Grow(f, c) == /\ Running /\ Spend("meddling")
              /\ c \in Free
              /\ disk' = [disk EXCEPT ![f] = Append(@, c)]
              /\ UNCHANGED <<term, program>>

Shrink(f) == /\ Running /\ Spend("meddling")
             /\ disk[f] # <<>>
             /\ disk' = [disk EXCEPT ![f] = Front(@)]
             /\ UNCHANGED <<term, program>>

Finished == ~Running /\ UNCHANGED vars

Next == \/ Program
        \/ CtrlC
        \/ \E f \in Files : Shrink(f) \/ \E c \in Cluster : Grow(f, c)
        \/ Finished

(* The program's thread is scheduled, and the file system answers: this is *)
(* WF_vars(Program), with Running for ENABLED <<Program>>_vars.            *)
Fairness == []<>(~Running) \/ []<><<Program>>_vars

Spec == Init /\ [][Next]_vars /\ Fairness

-----------------------------------------------------------------------------
Places == {"run", "defrag", "gaps", "set", "widen", "open", "move", "dump", "return",
           "throw", "done", "crash"}

Extents == [lcn : 0 .. (Word - 1), length : 0 .. (Word - 1)]

(* The variables hold what the code declares; r is unsigned.               *)
TypeOK == /\ \A f \in Files : disk[f] \in Seq(Cluster)
          /\ \A f \in Files : disp[f].clusters \in 0 .. Clusters
          /\ fe.buckets \in Seq([key : 0 .. Clusters, file : Files])
          /\ DOMAIN ge.regions \subseteq Cluster
          /\ last \in Files \cup {NoFile}
          /\ mv.f \in Files \cup {NoFile}
          /\ r \in Extents
          /\ replaced \in BOOLEAN /\ term \in {0, 1} /\ pc \in Places

(* Between two moves, as opposed to inside move_file.                      *)
Idle == pc \in {"run", "defrag", "gaps", "set", "widen", "done"}

(*-------------------------- on a volume to itself ------------------------*)

(* What the gap table takes to be free is free, at every place where the   *)
(* program chooses a gap (ge->next(), ge->best()), unless it was told to   *)
(* widen gaps: widen_behind counts more as free than it has freed (op.cpp  *)
(* 226-229), and on a volume with room for a second move into that it is   *)
(* refused and leaves a wrong table behind.                                *)
TableIsSound == ~opts.widen /\ Idle => Gaps!Covered(ge) \subseteq Free

(* The program never asks the file system for clusters that are in use:    *)
(* without --widen every FSCTL_MOVE_FILE (op.cpp 50) goes through.         *)
MovesSucceed == ~opts.widen => mv.status \in {"none", "success"}

(* No DebugBreak, no null block map, and pop's assert (zen.cpp 316) holds. *)
NeverDies == pc # "crash" /\ ~fe.missed

Filed(f) == { i \in DOMAIN fe.buckets : fe.buckets[i].file = f }

(* No file is lost: each is filed exactly once, but for the one on its way *)
(* through move_file between fe->pop and fe->push (op.cpp 26, 65).         *)
KeepsFiles ==
  \A f \in Files :
     Cardinality(Filed(f)) = IF f = mv.f /\ pc \in {"open", "move", "dump"} THEN 0 ELSE 1

Lowest(f) == CHOOSE c \in ToSet(disk[f]) : \A d \in ToSet(disk[f]) : c <= d

(* Between moves the program knows where every file lies: its block map is *)
(* what the volume has, and begins at the file's lowest cluster, which is  *)
(* all that findBest compares with a gap (zen.cpp 340).                    *)
KnowsTheVolume ==
  Idle => \A f \in Files :
            /\ disp[f].clusters = Len(disk[f])
            /\ UNION { Gaps!Cells(disp[f].blockmap[i]) : i \in DOMAIN disp[f].blockmap }
                 = ToSet(disk[f])
            /\ HeadLcn(disp[f]) = Lowest(f)

(* The program ends of its own accord only when it can do no more: no gap  *)
(* that it may handle has a file behind it that would fit.  It takes a     *)
(* whole round of close_gaps, with partialOK for each gap, to know.        *)
NothingLeft ==
  pc = "done" /\ term = 0 /\ opts.gaps =>
    \A l \in Gaps!RunStarts(Free), f \in Files :
       LET n == Gaps!RunEnd(Free, l) - l
       IN  (opts.aggressive \/ n <= opts.maxSize) /\ Lowest(f) > l => Len(disk[f]) > n

(* A move never leaves a file in more pieces than it was in.               *)
FragmentsShrink ==
  [][\A f \in Files : Dump(disk[f])'.fragments <= Dump(disk[f]).fragments]_disk

(* The rounds of Operation::run come to an end, interrupted or not: defrag *)
(* and widen_behind move files to the back, close_gaps to the front, and   *)
(* each of them asks for another round.                                    *)
Terminates == <>(pc = "done")

(*----------------------- with other programs about -----------------------*)

(* Whatever fails or changes, a file is never filed twice, and is filed    *)
(* under the size the program has for it: pop (zen.cpp 309) finds it by    *)
(* that size, and a second element would outlive the pop.                  *)
FiledBySize ==
  \A f \in Files :
     /\ Cardinality(Filed(f)) <= 1
     /\ \A i \in Filed(f) : fe.buckets[i].key = disp[f].clusters

(* A bitmap that cannot be read looks like a full disk (volume.c 523).  It *)
(* may make the program miss gaps and stop early, or break off where       *)
(* ge->push meets the empty table (zen.cpp 213), but up to there it never  *)
(* lets it take clusters for free that are not (without --widen, as above),*)
(* or lose a file.                                                         *)
BlindIsHarmless ==
  bound.meddling = Meddling /\ bound.faults = Faults /\ pc # "crash" =>
    TableIsSound /\ ~fe.missed /\ KeepsFiles

(* A failed move is not tried for ever: the program stops, if need be by a *)
(* DebugBreak, after any finite number of failures and changes.            *)
Stops == <>(~Running)

(*------------------------- what the code says of itself ------------------*)

(* zen.cpp 103: `we always move files to the beginning of a gap', so that  *)
(* pop finds the region without a scan (a DebugBreak in debug builds).     *)
MovesToTheFront ==
  pc = "dump" /\ mv.status = "success" => ~PopRescans(ge, Dump(disk[mv.f]), Free)

(* zen.cpp 316: assert(false) at the end of FileEnumeration::pop.          *)
PopFindsTheFile == ~fe.missed

(* zen.cpp 130: `Something went horribly wrong' is never reached.          *)
NeverBreaks == ~ge.broke

(* ftw.c 124: winx_ftw_dump_file returns `zero for success', so that a file*)
(* in the buckets has a block map (zen.cpp 263 files no other).            *)
FilesHaveBlocks ==
  \A i \in DOMAIN fe.buckets : disp[fe.buckets[i].file].blockmap # <<>>

(* op.cpp 470: `Final gap count' is the count of the volume's gaps.        *)
FinalGapCount ==
  pc = "done" /\ bound.meddling = Meddling => Gaps!Covered(ge) = Free

(* op.cpp 240: when widen_behind is through, the gap has been `widened to' *)
(* r.length, so r is free.                                                 *)
WidenedIsFree ==
  pc = "widen" /\ ~WidenOn /\ widen.moved > 0 => Gaps!Cells(r) \subseteq Free
=============================================================================
