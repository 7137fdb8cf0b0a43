---------------------------- MODULE FileTreeWalk ----------------------------
(***************************************************************************)
(* winx_scan_disk on a volume that is not NTFS (zenwinx ftw.c): the root   *)
(* is added to the list, and ftw_helper calls itself for every directory   *)
(* it meets.  A directory is read in portions through its handle; files    *)
(* and directories are opened by their paths, when other programs may have *)
(* moved, deleted or made some.                                            *)
(*                                                                         *)
(* A node of the volume (external) is its name and its place in its        *)
(* directory; a path is a sequence of names from the root.  What is        *)
(* between two calls of the system or of the terminator is one step, and a *)
(* dump (see FileDump) is one as well.                                     *)
(***************************************************************************)
EXTENDS Integers, Sequences, FiniteSets, SequencesExt, FiniteSetsExt

CONSTANTS Nodes,      \* bound: the nodes a volume can have
          Root,
          None,       \* nothing there
          Dot, DotDot,
          Handles,    \* the handles the system has
          Volumes,    \* the volumes a walk may start with
          Portion,    \* the entries one read of a directory has room for
          Skipped,    \* the names for which the filter returns nonzero
          Partial,    \* WINX_FTW_ALLOW_PARTIAL_SCAN
          Changes,    \* bound: changes other programs make
          Faults      \* bound: calls that fail

ASSUME NodesAssumption == /\ Nodes \subseteq Nat /\ IsFiniteSet(Nodes)
                          /\ Root \in Nodes /\ \A n \in Nodes : Root <= n
ASSUME HandlesAssumption == Handles \subseteq Nat
ASSUME PortionAssumption == Portion \in Nat \ {0}

VARIABLES tree,      \* node |-> [kind, parent]
          stack,     \* the calls of ftw_helper: [path, hDir, cursor, listing]
          handles,   \* external: handle that is open |-> directory
          list,      \* filelist, head first
          f,         \* file_entry, then f
          ret,       \* what the last call of ftw_helper returned
          pc,
          stop,      \* what the terminator returns
          result,
          failed,    \* history: a dump has failed
          touched,   \* history: nodes that other programs changed
          bound

program == <<stack, handles, list, f, ret, pc, result, failed>>
vars == <<tree, stop, touched, bound, program>>

Kinds == {"free", "file", "empty", "dir", "junction"}

(* External: what the path leads to; a junction leads to the root.         *)
Resolve(path) ==
  LET At[i \in 0 .. Len(path)] ==
        IF i = 0 THEN Root
        ELSE LET d == At[i - 1]
                 n == path[i]
             IN  IF d = None \/ n = Dot THEN d
                 ELSE IF tree[d].kind # "dir" THEN None
                 ELSE IF n = DotDot THEN tree[d].parent
                 ELSE IF tree[n].kind = "free" \/ tree[n].parent # d THEN None
                 ELSE IF tree[n].kind = "junction" /\ i < Len(path) THEN Root
                 ELSE n
  IN  At[Len(path)]

(* External, NtQueryDirectoryFile: the entries behind the cursor.          *)
Listing(d, cursor) ==
  LET here == { n \in Nodes \ {Root} : n > cursor /\ tree[n].kind # "free" /\ tree[n].parent = d }
      dots == IF d = Root \/ cursor >= Root THEN <<>> ELSE <<Dot, DotDot>>
      kind == [n \in Nodes |-> tree[n].kind]
      all  == dots \o SetToSortSeq(here, <)
  IN  [i \in 1 .. Min({Len(all), Len(dots) + Portion}) |->
         [name |-> all[i], kind |-> IF all[i] \in Nodes THEN kind[all[i]] ELSE "dir"]]

Entry(path, name, kind) == [path |-> path, name |-> name, kind |-> kind,
                            node |-> None, fragments |-> 0]

Init == /\ tree \in Volumes
        /\ stack = <<>> /\ handles = [h \in {} |-> Root] /\ list = <<>>
        /\ f = Entry(<<>>, Root, "dir")
        /\ ret = 0
        /\ pc = "root"
        /\ stop = FALSE
        /\ result = <<>>
        /\ failed = FALSE /\ touched = {}
        /\ bound = [changes |-> Changes, faults |-> Faults]

Spend(what) == bound[what] > 0 /\ bound' = [bound EXCEPT ![what] = @ - 1]

Top == Last(stack)

-----------------------------------------------------------------------------
(* What the dump leaves in f: nothing, if the file cannot be opened, has   *)
(* no blocks or the user has asked to stop.                                *)
Dumped(e) ==
  LET n == Resolve(e.path)
      has == n # None /\ ~stop /\ tree[n].kind \in {"file", "dir"}
  IN  [e EXCEPT !.node = n, !.fragments = IF has THEN 1 ELSE 0]

Locked(e) == [e EXCEPT !.node = Resolve(e.path)]

Added(e) == list' = <<e>> \o list /\ f' = e

(* ftw_add_root_directory, with its callback.                              *)
AddRoot == /\ pc = "root"
           /\ \/ Added(Dumped(f)) /\ UNCHANGED bound
              \/ Added(Locked(f)) /\ Spend("faults")
           /\ pc' = "enter"
           /\ UNCHANGED <<tree, stop, touched, stack, handles, ret, result, failed>>

AddRootFails == /\ pc = "root"
                /\ Spend("faults")
                /\ failed' = TRUE /\ ret' = -1
                /\ pc' = IF Partial THEN "enter" ELSE "done"
                /\ UNCHANGED <<tree, stop, touched, stack, handles, list, f, result>>

(* External, NtCreateFile: a directory gets a handle that is not in use.   *)
Opened(d, h) == /\ h \in Handles \ DOMAIN handles
                /\ \A x \in Handles \ DOMAIN handles : h <= x
                /\ handles' = [x \in DOMAIN handles \cup {h} |-> IF x = h THEN d ELSE handles[x]]

(* External, NtClose.                                                      *)
NtClose(h) == handles' = [x \in DOMAIN handles \ {h} |-> handles[x]]

(* ftw_open_directory; one that cannot be opened is skipped.               *)
Enter ==
  /\ pc = "enter"
  /\ LET d == Resolve(f.path)
         opens == d # None /\ tree[IF d = None THEN Root ELSE d].kind = "dir"
     IN  \/ /\ opens
            /\ \E h \in Handles :
                 /\ Opened(d, h)
                 /\ stack' = Append(stack, [path |-> f.path, hDir |-> h, cursor |-> Root - 1,
                                            listing |-> <<>>])
            /\ pc' = "loop"
            /\ UNCHANGED <<ret, bound>>
         \/ /\ ~opens \/ bound.faults > 0
            /\ bound' = IF opens THEN [bound EXCEPT !.faults = @ - 1] ELSE bound
            /\ ret' = 0
            /\ pc' = "return"
            /\ UNCHANGED <<stack, handles>>
  /\ UNCHANGED <<tree, stop, touched, list, f, result, failed>>

(* A return of ftw_helper, which closes nothing by itself.                 *)
Return(code) == /\ stack' = Front(stack)
                /\ ret' = code
                /\ pc' = "return"

(* The end of the loop, ...                                                *)
Terminated == /\ pc = "loop" /\ stop
              /\ NtClose(Top.hDir) /\ Return(-2)
              /\ UNCHANGED <<tree, stop, touched, bound, list, f, result, failed>>

(* ... and the check in its middle.                                        *)
TerminatedAtFile == /\ pc = "check" /\ stop
                    /\ NtClose(Top.hDir) /\ Return(-2)
                    /\ UNCHANGED <<tree, stop, touched, bound, list, f, result, failed>>

(* The next portion, ...                                                   *)
Read == /\ pc = "loop" /\ ~stop /\ Top.listing = <<>>
        /\ LET more == Listing(handles[Top.hDir], Top.cursor)
           IN  /\ more # <<>>
               /\ stack' = [stack EXCEPT ![Len(stack)].listing = more,
                              ![Len(stack)].cursor =
                                 Max({@, Root} \cup { e.name : e \in { m \in ToSet(more) :
                                                   m.name \in Nodes } })]
        /\ pc' = "entry"
        /\ UNCHANGED <<tree, stop, touched, bound, handles, list, f, ret, result, failed>>

(* ... or the end: a read that fails is taken for one.                     *)
NoMore == /\ pc = "loop" /\ ~stop /\ Top.listing = <<>>
          /\ \/ Listing(handles[Top.hDir], Top.cursor) = <<>> /\ UNCHANGED bound
             \/ Spend("faults")
          /\ NtClose(Top.hDir) /\ Return(0)
          /\ UNCHANGED <<tree, stop, touched, list, f, result, failed>>

(* Mutant: the first entry of a portion is passed over.                    *)
NextEntryPast ==
  /\ pc = "entry" \/ (pc = "loop" /\ ~stop /\ Top.listing # <<>>)
  /\ stack' = [stack EXCEPT ![Len(stack)].listing = Tail(@)]
  /\ LET e == Head(Top.listing)
     IN  IF pc = "entry" \/ e.name \in {Dot, DotDot} THEN pc' = "loop" /\ UNCHANGED f
         ELSE pc' = "add" /\ f' = Entry(Append(Top.path, e.name), e.name, e.kind)
  /\ UNCHANGED <<tree, stop, touched, bound, handles, list, ret, result, failed>>

(* The next entry of the portion; . and .. are passed over.                *)
NextEntry ==
  /\ pc = "entry" \/ (pc = "loop" /\ ~stop /\ Top.listing # <<>>)
  /\ stack' = [stack EXCEPT ![Len(stack)].listing = Tail(@)]
  /\ LET e == Head(Top.listing)
     IN  IF e.name \in {Dot, DotDot} THEN pc' = "loop" /\ UNCHANGED f
         ELSE pc' = "add" /\ f' = Entry(Append(Top.path, e.name), e.name, e.kind)
  /\ UNCHANGED <<tree, stop, touched, bound, handles, list, ret, result, failed>>

(* ftw_add_entry_to_filelist                                               *)
AddEntry == /\ pc = "add"
            /\ \/ Added(Dumped(f)) /\ UNCHANGED bound
               \/ Added(Locked(f)) /\ Spend("faults")
            /\ pc' = "check"
            /\ UNCHANGED <<tree, stop, touched, stack, handles, ret, result, failed>>

AddEntryFails == /\ pc = "add"
                 /\ Spend("faults")
                 /\ failed' = TRUE
                 /\ NtClose(Top.hDir) /\ Return(-1)
                 /\ UNCHANGED <<tree, stop, touched, list, f, result>>

(* The callbacks; then a directory is entered, unless the filter says no   *)
(* or it is a reparse point.                                               *)
Callbacks == /\ pc = "check" /\ ~stop
             /\ pc' = IF f.kind = "dir" /\ f.name \notin Skipped THEN "enter" ELSE "loop"
             /\ UNCHANGED <<tree, stop, touched, bound, stack, handles, list, f, ret, result,
                            failed>>

(* Mutant: the caller of a call that failed leaves its own directory open. *)
PassOnOpen == /\ pc = "return" /\ ret < 0 /\ stack # <<>>
              /\ Return(ret)
              /\ UNCHANGED <<tree, stop, touched, bound, handles, list, f, result, failed>>

(* Back in the caller: a negative result is passed on, ...                 *)
PassOn == /\ pc = "return" /\ ret < 0 /\ stack # <<>>
          /\ NtClose(Top.hDir) /\ Return(ret)
          /\ UNCHANGED <<tree, stop, touched, bound, list, f, result, failed>>

(* Mutant: after a directory its caller enters it again.                   *)
ReturnedAgain == /\ pc = "return" /\ ~(ret < 0 /\ stack # <<>>)
                 /\ pc' = IF stack # <<>> THEN "enter" ELSE "cleanup"
                 /\ UNCHANGED <<tree, stop, touched, bound, stack, handles, list, f, ret, result,
                                failed>>

(* ... else it goes on; winx_scan_disk is the caller of the first call.    *)
Returned == /\ pc = "return" /\ ~(ret < 0 /\ stack # <<>>)
            /\ pc' = IF stack # <<>> THEN "loop" ELSE "cleanup"
            /\ UNCHANGED <<tree, stop, touched, bound, stack, handles, list, f, ret, result, failed>>

(* The end of winx_scan_disk: the list is destroyed, or files without      *)
(* blocks are taken out of it.                                             *)
Cleanup == /\ pc = "cleanup"
           /\ result' = IF ret = -1 /\ ~Partial THEN <<>>
                        ELSE SelectSeq(list, LAMBDA e : e.fragments # 0)
           /\ pc' = "done"
           /\ UNCHANGED <<tree, stop, touched, bound, stack, handles, list, f, ret, failed>>

Walk == \/ AddRoot \/ Enter \/ Terminated \/ TerminatedAtFile \/ Read \/ NoMore \/ NextEntry
        \/ AddEntry \/ Callbacks \/ PassOn \/ Returned \/ Cleanup

WalkFails == AddRootFails \/ AddEntryFails

-----------------------------------------------------------------------------
(* The user, and the other programs.                                       *)

Stop == /\ pc # "done" /\ ~stop
        /\ stop' = TRUE
        /\ UNCHANGED <<tree, touched, bound, program>>

(* The directories above n, n included.                                    *)
Above(n) ==
  LET Up[i \in 0 .. Cardinality(Nodes)] ==
        IF i = 0 THEN {n} ELSE Up[i - 1] \cup { tree[d].parent : d \in Up[i - 1] }
  IN  Up[Cardinality(Nodes)]

(* Directories are opened without FILE_SHARE_DELETE.                       *)
Held == UNION { Above(handles[h]) : h \in DOMAIN handles }

Movable(n) == n \in Nodes \ ({Root} \cup Held) /\ tree[n].kind # "free"

Change ==
  /\ pc # "done" /\ Spend("changes")
  /\ \E n \in Nodes, d \in Nodes :
       /\ tree[d].kind = "dir"
       /\ \/ /\ Movable(n) /\ n \notin Above(d) /\ tree[n].parent # d
             /\ tree' = [tree EXCEPT ![n].parent = d]
          \/ /\ tree[n].kind = "free"
             /\ \E k \in {"file", "dir"} : tree' = [tree EXCEPT ![n] = [kind |-> k, parent |-> d]]
          \/ /\ Movable(n) /\ d = tree[n].parent
             /\ \A m \in Nodes : tree[m].kind # "free" => tree[m].parent # n
             /\ tree' = [tree EXCEPT ![n] = [kind |-> "free", parent |-> Root]]
       /\ touched' = touched \cup {n}
  /\ UNCHANGED <<stop, program>>

Finished == pc = "done" /\ UNCHANGED vars

Next == Walk \/ WalkFails \/ Stop \/ Change \/ Finished

(* The walking thread runs, and the system answers it.                     *)
Spec == Init /\ [][Next]_vars /\ WF_vars(Walk)

-----------------------------------------------------------------------------
(* The walk has a directory open wherever ftw_helper runs through one, and *)
(* an entry at hand wherever it looks at one.                              *)
TypeOK == /\ tree \in [Nodes -> [kind : Kinds, parent : Nodes]]
          /\ pc \in {"root", "enter", "loop", "entry", "add", "check", "return", "cleanup", "done"}
          /\ ret \in {0, -1, -2}
          /\ pc \in {"loop", "entry", "add", "check"} => stack # <<>>
          /\ pc = "entry" => Top.listing # <<>>

(* The nodes the walk has to come to, as the volume is now.        *)
Reachable ==
  LET Down[i \in 0 .. Cardinality(Nodes)] ==
        IF i = 0 THEN {Root}
        ELSE Down[i - 1] \cup { n \in Nodes : /\ tree[n].kind # "free"
                                              /\ tree[n].parent \in Down[i - 1] \ Skipped
                                              /\ tree[tree[n].parent].kind = "dir" }
  IN  Down[Cardinality(Nodes)]

Listed(n) == { i \in DOMAIN result : result[i].node = n }

(* A walk that nothing has failed lists every file with blocks that nobody *)
(* touched, nor a directory above it, exactly once, whatever else was      *)
(* moved, made or deleted meanwhile; one in which a dump has failed, in    *)
(* whatever depth, lists nothing unless a partial scan is allowed.         *)
Complete ==
  /\ pc = "done" /\ ~stop /\ bound.faults = Faults =>
       \A n \in Reachable : tree[n].kind \in {"file", "dir"} /\ Above(n) \cap touched = {} =>
                               Cardinality(Listed(n)) = 1
  /\ pc = "done" /\ failed /\ ~Partial => result = <<>>

(* The open directories are those of the calls of ftw_helper that have not *)
(* returned, one for each, through all of its five ways out: none is read  *)
(* after it is closed, and none is left open, so that others can move and  *)
(* delete it again.                                                        *)
HandlesClosed ==
  /\ DOMAIN handles = { stack[i].hDir : i \in DOMAIN stack }
  /\ \A i, j \in DOMAIN stack : stack[i].hDir = stack[j].hDir => i = j
  /\ pc = "done" => DOMAIN handles = {}

(* The walk comes to an end, though others move directories about.         *)
WalkEnds == <>(pc = "done")

(* zenwinx.h 159: WINX_FTW_ALLOW_PARTIAL_SCAN `allows information to be    *)
(* gathered partially'; without it a scan that returns files has them all. *)
NotPartial == pc = "done" /\ ~stop /\ ~Partial /\ result # <<>> =>
                \A n \in Reachable : tree[n].kind \in {"file", "dir"} /\ Above(n) \cap touched = {} =>
                                        Listed(n) # {}
=============================================================================
