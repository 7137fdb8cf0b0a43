------------------------------ MODULE MftScan ------------------------------
(***************************************************************************)
(* The scan of an NTFS volume (ntfs_scan_disk, zenwinx/ftw_ntfs.c) with    *)
(* the clean-up of winx_scan_disk (ftw.c): the records of the master file  *)
(* table are read one by one, from the last to the first, every attribute  *)
(* of a file's records is looked at, and when all are read the paths are   *)
(* built from the parents' numbers.  Other programs go on using the        *)
(* volume, so that the records are of different times.                     *)
(*                                                                         *)
(* A record is [use, dir, attrs].  A file whose attributes do not fit into *)
(* its base record has an attribute list there, which names the child      *)
(* records that hold the others; these are read one by one as well.  A     *)
(* name is a sequence: <<f>>, or <<f, s>> for `f:s'.  Fragments are counted*)
(* here; see RunList for what they are made of.                            *)
(***************************************************************************)
EXTENDS Integers, Sequences, FiniteSets, SequencesExt, FiniteSetsExt

CONSTANTS Records,     \* bound: the records the table can grow to
          Root,        \* FILE_root
          Volumes,     \* the tables a scan may start with
          Names,       \* the names that files and streams can have
          Hidden,      \* names of streams that begin with `$'
          NoName,      \* the empty name of a file
          NewName,     \* the name of a file that is made during the scan
          MaxPath,     \* MAX_PATH, in names
          Partial,     \* WINX_FTW_ALLOW_PARTIAL_SCAN
          Changes,     \* bound: changes other programs make
          Faults,      \* bound: requests that fail
          Troubles     \* bound: changes and failures together

ASSUME RecordsAssumption == Records \in Nat \ {0} /\ Root \in 0 .. (Records - 1)
ASSUME PathAssumption == MaxPath \in Nat \ {0, 1}

ASSUME BoundsAssumption == Changes \in Nat /\ Faults \in Nat /\ Troubles \in Nat

VARIABLES mft,       \* the table: number |-> record
          size,      \* the number of records it has
          list,      \* *sp->filelist, head first
          mft_id,    \* scan_mft: the record to read
          errors,    \* sp->errors
          stop,      \* what the terminator returns
          file,      \* analyze_file_record: BaseMftId, mfi, the attributes
                     \* that are left and the entries of an attribute list;
                     \* the list is not resident and not yet read
          pc, k,     \* build_full_paths: k is the place of f in the list
          walk,      \* build_file_path: child, parent, full; f_array is there
          result,    \* what winx_scan_disk returns
          bound, touched

program == <<list, mft_id, errors, file, pc, k, walk, result>>
vars == <<mft, size, stop, bound, touched, program>>

Ids == 0 .. (Records - 1)

Volume == <<"volume">>     \* \??\C:\
Nothing == <<>>            \* a parent that was not found

FreeRecord == [use |-> "free", dir |-> FALSE, attrs |-> <<>>]

FileName(parent, name, type) ==
  [kind |-> "name", parent |-> parent, name |-> name, type |-> type]

Stream(name, fragments) == [kind |-> "stream", name |-> name, fragments |-> fragments]

(* An attribute list, which has fragments if it is not resident.  An entry *)
(* names a record, an attribute's number in it (its place), type and name. *)
List(name, fragments, entries) ==
  [kind |-> "list", name |-> name, fragments |-> fragments, entries |-> entries]

ListEntry(child, number, kind, name) ==
  [child |-> child, number |-> number, kind |-> kind, name |-> name]

Types == {"posix", "win32", "dos"}

ListEntries == [child : Ids, number : Nat, kind : {"name", "stream"}, name : Seq(Names)]

Attributes ==
  [kind : {"name"}, parent : Ids, name : Names, type : Types]
    \cup [kind : {"stream"}, name : Seq(Names), fragments : Nat]
    \cup [kind : {"list"}, name : Seq(Names), fragments : Nat, entries : Seq(ListEntries)]

Tables == [Ids -> [use : {"free", "base", "child"}, dir : BOOLEAN, attrs : Seq(Attributes)]]

(* The table's own record is in use, and no child record of a file.        *)
OwnRecord(table) ==
  /\ table[0].use = "base"
  /\ \A r \in Ids \ {0} : \A a \in ToSet(table[r].attrs) :
       a.kind = "list" => \A e \in ToSet(a.entries) : e.child # 0

ASSUME VolumesAssumption ==
  /\ {NoName, NewName} \subseteq Names
  /\ \A v \in Volumes : v \in Tables /\ OwnRecord(v)

NoInfo == [parent |-> Root, name |-> NoName, type |-> "posix"]

Init == /\ mft \in Volumes
        /\ size = Max({ r \in Ids : mft[r].use # "free" }) + 1
        /\ list = <<>>
        /\ mft_id = 0 /\ errors = 0 /\ k = 0
        /\ file = [id |-> 0, mfi |-> NoInfo, todo |-> <<>>, entries |-> <<>>, raw |-> FALSE]
        /\ stop = FALSE
        /\ pc = "layout"
        /\ walk = [child |-> <<>>, parent |-> Root, full |-> FALSE, fast |-> TRUE]
        /\ result = <<>>
        /\ bound = [changes |-> Changes, faults |-> Faults]
        /\ touched = {}

Spend(what) == /\ bound[what] > 0
               /\ (Changes - bound.changes) + (Faults - bound.faults) < Troubles
               /\ bound' = [bound EXCEPT ![what] = @ - 1]

(* ftw_ntfs_check_for_termination                                          *)
Terminating == (~Partial /\ errors > 0) \/ stop

-----------------------------------------------------------------------------
(* analyze_file_record                                                     *)

(* The entries up to the first one of a larger number: the list goes up,   *)
(* because the table is read from its end and entries go to the front.     *)
Reach(l, id) ==
  LET larger == { i \in DOMAIN l : l[i].id > id }
  IN  IF larger = {} THEN Len(l) ELSE Min(larger) - 1

(* find_filelist_entry: the entry is there, or is put at the front.        *)
HasEntry(l, id, name) == \E i \in 1 .. Reach(l, id) : l[i].id = id /\ l[i].name = name

FindEntry(l, id, name) ==
  IF HasEntry(l, id, name) THEN l
  ELSE <<[id |-> id, name |-> name, parent |-> Root, path |-> <<>>, fragments |-> 0]>> \o l

(* The first entry of that number and name gets the runs.                  *)
AddRuns(l, id, a) ==
  LET found == FindEntry(l, id, a.name)
      i == Min({ j \in DOMAIN found : found[j].id = id /\ found[j].name = a.name })
  IN  [found EXCEPT ![i].fragments = @ + a.fragments]

(* Mutant: a DOS name stays.                                               *)
UpdateFileNameFirst(mfi, a, id) ==
  [mfi EXCEPT !.parent = a.parent,
              !.name = IF mfi.name = NoName THEN a.name ELSE @,
              !.type = IF mfi.name = NoName THEN a.type ELSE @]

(* update_file_name: an empty name, or that of a file which claims to be   *)
(* its own parent, is passed over; else the parent is always taken, the    *)
(* name if it is better.                                                   *)
UpdateFileName(mfi, a, id) ==
  LET better == \/ mfi.name = NoName
                \/ mfi.type = "dos"
                \/ mfi.type = "win32" /\ a.type = "posix"
  IN  IF a.name = NoName \/ (a.parent = id /\ id # Root) THEN mfi
      ELSE [mfi EXCEPT !.parent = a.parent,
                       !.name = IF better THEN a.name ELSE @,
                       !.type = IF better THEN a.type ELSE @]

Attribute(s, a, id) ==
  IF a.kind = "name" THEN [s EXCEPT !.mfi = UpdateFileName(@, a, id)]
                     ELSE [s EXCEPT !.list = AddRuns(@, id, a)]

(* The two passes over a base record: its attributes without the list, and *)
(* then its attribute list.                                                *)
Pass(isList, attrs) ==
  FoldLeft(LAMBDA kept, a : IF (a.kind = "list") = isList THEN Append(kept, a) ELSE kept,
           <<>>, attrs)

Passes(attrs) == Pass(FALSE, attrs) \o Pass(TRUE, attrs)

(* sp->mfi is set up; the record is a copy, of which the attributes are    *)
(* looked at one by one.                                                   *)
Analyze(id) == /\ file' = [id |-> id, mfi |-> NoInfo, todo |-> Passes(mft[id].attrs),
                           entries |-> <<>>, raw |-> FALSE]
               /\ pc' = "file"
               /\ UNCHANGED list

(* The name of an attribute: that of a stream.                             *)
AttrName(a) == IF a.kind = "stream" THEN a.name ELSE <<>>

(* analyze_single_attribute: whether attribute i of a record is the one.   *)
(* `name' keeps the name of an attribute of that type that came before.    *)
IsTheOne(attrs, i, e) ==
  LET named == { j \in 1 .. i : attrs[j].kind = e.kind /\ AttrName(attrs[j]) # <<>> }
  IN  /\ attrs[i].kind = e.kind /\ i = e.number
      /\ e.name = IF named = {} THEN <<>> ELSE AttrName(attrs[Max(named)])

(* The file's name and parent go to all its streams.                       *)
Named(l) ==
  [i \in DOMAIN l |-> IF i <= Reach(l, file.id) /\ l[i].id = file.id
                      THEN [l[i] EXCEPT !.name = <<file.mfi.name>> \o @,
                                        !.parent = file.mfi.parent]
                      ELSE l[i]]

-----------------------------------------------------------------------------
(* scan_mft                                                                *)

(* get_mft_layout; a scan that fails returns nothing.                      *)
Layout == /\ pc = "layout"
          /\ \/ /\ mft_id' = size - 1
                /\ pc' = "scan"
                /\ UNCHANGED bound
             \/ /\ Spend("faults")
                /\ pc' = "done"
                /\ UNCHANGED mft_id
          /\ UNCHANGED <<mft, size, stop, touched, list, errors, file, k, walk, result>>

(* External, FSCTL_GET_NTFS_FILE_RECORD: the record that is asked for, or  *)
(* the one before it that is in use.                                       *)
InUse(upto) == Max({ r \in 0 .. upto : mft[r].use # "free" })

StartPaths == pc' = "paths" /\ k' = 1 /\ \E fast \in BOOLEAN : walk' = [walk EXCEPT !.fast = fast]

GoOn(ret) ==
  IF ret = 0 \/ mft_id = 0 THEN StartPaths /\ UNCHANGED mft_id
  ELSE /\ mft_id' = IF ret > mft_id THEN mft_id - 1 ELSE ret - 1
       /\ pc' = "scan" /\ UNCHANGED <<k, walk>>

(* A child record is skipped: it is read when its base record is.          *)
Got(ret) == IF mft[ret].use = "base" THEN Analyze(ret) /\ UNCHANGED <<mft_id, k, walk>>
            ELSE GoOn(ret) /\ UNCHANGED <<list, file>>

ReadRecord == /\ pc = "scan" /\ ~Terminating
              /\ Got(InUse(mft_id))
              /\ UNCHANGED <<mft, size, stop, bound, touched, errors, result>>

(* The volume gives a record that is behind the one asked for.             *)
ReadOdd == /\ pc = "scan" /\ ~Terminating
           /\ Spend("faults")
           /\ \E ret \in { r \in (mft_id + 1) .. (size - 1) : mft[r].use # "free" } : Got(ret)
           /\ UNCHANGED <<mft, size, stop, touched, errors, result>>

AtAttribute == /\ pc = "file" /\ ~file.raw /\ file.entries = <<>> /\ file.todo # <<>>
               /\ ~Terminating

(* One turn of enumerate_attributes.  The entries of an attribute list are *)
(* looked at before the next attribute.                                    *)
ReadAttribute ==
  /\ AtAttribute
  /\ LET a      == Head(file.todo)
         s      == Attribute([list |-> list, mfi |-> file.mfi], a, file.id)
         isList == a.kind = "list"
     IN  /\ list' = s.list
         /\ file' = [file EXCEPT !.mfi = s.mfi, !.todo = Tail(@),
                                 !.entries = IF isList THEN a.entries ELSE <<>>,
                                 !.raw = isList /\ a.fragments > 0]
  /\ UNCHANGED <<mft, size, stop, bound, touched, mft_id, errors, pc, k, walk, result>>

(* No memory for the name of a new entry: it is taken off the list again   *)
(* and counted.  A list that is not resident is passed over then, one that *)
(* is resident is not.                                                     *)
EntryFails ==
  /\ AtAttribute /\ Spend("faults")
  /\ LET a == Head(file.todo)
     IN  /\ a.kind # "name" /\ ~HasEntry(list, file.id, a.name)
         /\ file' = [file EXCEPT !.todo = Tail(@),
                       !.entries = IF a.kind = "list" /\ a.fragments = 0 THEN a.entries ELSE <<>>]
  /\ errors' = errors + 1
  /\ UNCHANGED <<mft, size, stop, touched, list, mft_id, pc, k, walk, result>>

(* A list that is not resident is read from its clusters; it is passed     *)
(* over if that fails, which counts as an error only for want of memory.   *)
ReadList == /\ pc = "file" /\ file.raw
            /\ \/ file' = [file EXCEPT !.raw = FALSE] /\ UNCHANGED <<bound, errors>>
               \/ /\ Spend("faults")
                  /\ file' = [file EXCEPT !.raw = FALSE, !.entries = <<>>]
                  /\ errors' \in {errors, errors + 1}
            /\ UNCHANGED <<mft, size, stop, touched, list, mft_id, pc, k, walk, result>>

ReadingChild == pc = "file" /\ ~file.raw /\ file.entries # <<>> /\ ~Terminating

(* Mutant: a child record is read once, for its first attribute.           *)
ReadChildOnce ==
  /\ ReadingChild
  /\ LET e     == Head(file.entries)
         rest  == SelectSeq(Tail(file.entries), LAMBDA x : x.child # e.child)
         attrs == mft[e.child].attrs
         there == e.child # file.id /\ mft[e.child].use = "child"
         found == { i \in DOMAIN attrs : there /\ IsTheOne(attrs, i, e) }
         s     == IF found = {} THEN [list |-> list, mfi |-> file.mfi]
                  ELSE Attribute([list |-> list, mfi |-> file.mfi], attrs[Min(found)], file.id)
     IN  /\ list' = s.list
         /\ file' = [file EXCEPT !.mfi = s.mfi, !.entries = rest]
  /\ UNCHANGED <<mft, size, stop, bound, touched, mft_id, errors, pc, k, walk, result>>

(* One entry of the list: the attribute is looked for in the record that   *)
(* it names, if that is not the base record and still a child, of whatever *)
(* file.                                                                   *)
ReadChild ==
  /\ ReadingChild
  /\ LET e     == Head(file.entries)
         attrs == mft[e.child].attrs
         there == e.child # file.id /\ mft[e.child].use = "child"
         found == { i \in DOMAIN attrs : there /\ IsTheOne(attrs, i, e) }
         s     == IF found = {} THEN [list |-> list, mfi |-> file.mfi]
                  ELSE Attribute([list |-> list, mfi |-> file.mfi], attrs[Min(found)], file.id)
     IN  /\ list' = s.list
         /\ file' = [file EXCEPT !.mfi = s.mfi, !.entries = Tail(@)]
  /\ UNCHANGED <<mft, size, stop, bound, touched, mft_id, errors, pc, k, walk, result>>

(* A child that cannot be read is no error; a lack of memory for it, or    *)
(* for the name of a new entry, is.                                        *)
ChildFails == /\ ReadingChild /\ Spend("faults")
              /\ file' = [file EXCEPT !.entries = Tail(@)]
              /\ errors' \in {errors, errors + 1}
              /\ UNCHANGED <<mft, size, stop, touched, list, mft_id, pc, k, walk, result>>

FileEnd == /\ pc = "file" /\ ~file.raw
           /\ (file.todo = <<>> /\ file.entries = <<>>) \/ Terminating
           /\ list' = Named(list)
           /\ GoOn(file.id)
           /\ UNCHANGED <<mft, size, stop, bound, touched, errors, file, result>>

(* A record that cannot be read is passed over, but for the first.         *)
ReadFails == /\ pc = "scan" /\ ~Terminating
             /\ Spend("faults")
             /\ IF mft_id = 0 THEN pc' = "done" /\ UNCHANGED mft_id
                              ELSE mft_id' = mft_id - 1 /\ UNCHANGED pc
             /\ UNCHANGED <<mft, size, stop, touched, list, errors, file, k, walk, result>>

ScanStops == /\ pc = "scan" /\ Terminating
             /\ StartPaths
             /\ UNCHANGED <<mft, size, stop, bound, touched, list, mft_id, errors, file, result>>

-----------------------------------------------------------------------------
(* build_full_paths                                                        *)

(* A name with `:$' in it.                                                 *)
IsHidden(name) == \E i \in 2 .. Len(name) : name[i] \in Hidden

(* find_directory_by_mft_id: the place in the list, 0 for none, ...        *)
FindSlow(l, id) ==
  LET found == { i \in DOMAIN l : l[i].id = id /\ ~IsHidden(l[i].name) }
  IN  IF found = {} THEN 0 ELSE Min(found)

(* Mutant: the halves are those of a search that does not move right.      *)
HalvesKept(l, id) ==
  LET At[lim \in 0 .. Len(l), i \in 0 .. Len(l)] ==
        LET m == i + (lim \div 2)
        IN  IF lim = 0 \/ m >= Len(l) THEN 0
            ELSE IF l[m + 1].id = id THEN m + 1
            ELSE At[lim \div 2, IF id > l[m + 1].id THEN m + 1 ELSE i]
  IN  At[Len(l), 0]

(* ... by halving, f_array[m] being l[m + 1], ...                          *)
Halves(l, id) ==
  LET At[lim \in 0 .. Len(l)] ==
        [i \in 0 .. Len(l) |->
           LET m == i + (lim \div 2)
           IN  IF lim = 0 THEN 0
               ELSE IF l[m + 1].id = id THEN m + 1
               ELSE IF id > l[m + 1].id THEN At[(lim - 1) \div 2][m + 1]
               ELSE At[lim \div 2][i]]
  IN  At[Len(l)][0]

(* ... and then among the neighbours of the same number.                   *)
FindFast(l, id) ==
  LET hit   == Halves(l, id)
      first == Min({ i \in 1 .. hit : \A j \in i .. hit : l[j].id = id })
      found == { i \in first .. Len(l) : /\ \A j \in first .. i : l[j].id = id
                                         /\ ~IsHidden(l[i].name) }
  IN  IF hit = 0 \/ found = {} THEN 0 ELSE Min(found)

FindDirectory(id) == IF walk.fast THEN FindFast(list, id) ELSE FindSlow(list, id)

Cut(p) == SubSeq(p, 1, Min({Len(p), MaxPath}))

NextEntry == /\ pc = "paths"
             /\ k <= Len(list) /\ ~Terminating
             /\ walk' = [walk EXCEPT !.child = <<list[k].name>>, !.parent = list[k].parent,
                                     !.full = FALSE]
             /\ pc' = "path"
             /\ UNCHANGED <<mft, size, stop, bound, touched, list, mft_id, errors, file, k, result>>

Climbing == pc = "path" /\ walk.parent # Root /\ ~walk.full

(* Mutant: a parent that is not there is not counted.                      *)
ClimbQuietly ==
  /\ Climbing /\ ~Terminating
  /\ LET d == FindDirectory(walk.parent)
     IN  IF d = 0
         THEN /\ walk' = [walk EXCEPT !.child = Cut(<<Nothing>> \o @), !.parent = Root]
              /\ UNCHANGED errors
         ELSE /\ walk' = [walk EXCEPT
                   !.child = Cut((IF list[d].path # <<>> THEN list[d].path
                                  ELSE <<list[d].name>>) \o @),
                   !.parent = list[d].parent,
                   !.full = list[d].path # <<>>]
              /\ UNCHANGED errors
  /\ UNCHANGED <<mft, size, stop, bound, touched, list, mft_id, file, pc, k, result>>

(* Mutant: the terminator is not asked on the way up.                      *)
ClimbOn ==
  /\ Climbing
  /\ LET d == FindDirectory(walk.parent)
     IN  IF d = 0
         THEN /\ walk' = [walk EXCEPT !.child = Cut(<<Nothing>> \o @), !.parent = Root]
              /\ errors' = errors + 1
         ELSE /\ walk' = [walk EXCEPT
                   !.child = Cut((IF list[d].path # <<>> THEN list[d].path
                                  ELSE <<list[d].name>>) \o @),
                   !.parent = list[d].parent,
                   !.full = list[d].path # <<>>]
              /\ UNCHANGED errors
  /\ UNCHANGED <<mft, size, stop, bound, touched, list, mft_id, file, pc, k, result>>

(* One parent of build_file_path, with get_directory_information.          *)
Climb ==
  /\ Climbing /\ ~Terminating
  /\ LET d == FindDirectory(walk.parent)
     IN  IF d = 0
         THEN /\ walk' = [walk EXCEPT !.child = Cut(<<Nothing>> \o @), !.parent = Root]
              /\ errors' = errors + 1
         ELSE /\ walk' = [walk EXCEPT
                   !.child = Cut((IF list[d].path # <<>> THEN list[d].path
                                  ELSE <<list[d].name>>) \o @),
                   !.parent = list[d].parent,
                   !.full = list[d].path # <<>>]
              /\ UNCHANGED errors
  /\ UNCHANGED <<mft, size, stop, bound, touched, list, mft_id, file, pc, k, result>>

ClimbStops == /\ Climbing /\ Terminating
              /\ pc' = "paths" /\ k' = k + 1
              /\ UNCHANGED <<mft, size, stop, bound, touched, list, mft_id, errors, file, walk, result>>

SetPath == /\ pc = "path" /\ ~Climbing
           /\ list' = [list EXCEPT ![k].path =
                         IF Head(walk.child) = Volume THEN walk.child
                         ELSE Cut(<<Volume>> \o walk.child)]
           /\ pc' = "paths" /\ k' = k + 1
           /\ UNCHANGED <<mft, size, stop, bound, touched, mft_id, errors, file, walk, result>>

(* No memory for the path: it stays NULL, which is counted.                *)
PathFails == /\ pc = "path" /\ ~Climbing
             /\ Spend("faults")
             /\ errors' = errors + 1
             /\ pc' = "paths" /\ k' = k + 1
             /\ UNCHANGED <<mft, size, stop, touched, list, mft_id, file, walk, result>>

(* The return of ntfs_scan_disk, and winx_scan_disk's clean-up: streams    *)
(* without blocks and entries without a path are taken out.                *)
Cleanup(l) ==
  FoldLeft(LAMBDA kept, e : IF e.fragments # 0 /\ e.path # <<>> THEN Append(kept, e) ELSE kept,
           <<>>, l)

ScanEnd == /\ pc = "paths"
           /\ k > Len(list) \/ Terminating
           /\ result' = IF ~Partial /\ errors > 0 THEN <<>> ELSE Cleanup(list)
           /\ pc' = "done"
           /\ UNCHANGED <<mft, size, stop, bound, touched, list, mft_id, errors, file, k, walk>>

Scan == \/ Layout \/ ReadRecord \/ ReadAttribute \/ ReadList \/ ReadChild \/ FileEnd \/ ScanStops
        \/ NextEntry \/ Climb \/ ClimbStops \/ SetPath \/ ScanEnd

-----------------------------------------------------------------------------
(* The user, and the other programs.                                       *)

Stop == /\ pc # "done" /\ ~stop
        /\ stop' = TRUE
        /\ UNCHANGED <<mft, size, bound, touched, program>>

NameAttr(r) == CHOOSE i \in DOMAIN mft[r].attrs : mft[r].attrs[i].kind = "name"

ParentOf(r) == mft[r].attrs[NameAttr(r)].parent

Files == { r \in Ids : mft[r].use = "base" /\ r \notin {0, Root} }

Directories == { r \in Ids : r = Root \/ (r \in Files /\ mft[r].dir) }

(* The directories above r, r included.                                    *)
Above(r) ==
  LET Up[n \in 0 .. Records] ==
        IF n = 0 THEN {r}
        ELSE Up[n - 1] \cup { ParentOf(d) : d \in Up[n - 1] \ {Root} }
  IN  Up[Records]

Children(r) ==
  UNION { { e.child : e \in ToSet(a.entries) } :
            a \in { b \in ToSet(mft[r].attrs) : b.kind = "list" } } \ {r}

(* One call of another program: a file is moved to another directory,      *)
(* made, or deleted.                                                       *)
MoveTo(r, d) == /\ r \in Files /\ d \in Directories
                /\ r \notin Above(d) /\ d # ParentOf(r)
                /\ mft' = [mft EXCEPT ![r].attrs[NameAttr(r)].parent = d]
                /\ touched' = touched \cup {r}
                /\ UNCHANGED size

Create(r, d, dir) ==
  /\ mft[r].use = "free" /\ d \in Directories
  /\ mft' = [mft EXCEPT ![r] = [use |-> "base", dir |-> dir,
               attrs |-> <<FileName(d, NewName, "win32"), Stream(<<>>, 1)>>]]
  /\ size' = Max({size, r + 1})
  /\ touched' = touched \cup {r}

Delete(r) == /\ r \in Files
             /\ \A f \in Files : ParentOf(f) # r
             /\ mft' = [n \in Ids |-> IF n = r \/ n \in Children(r) THEN FreeRecord ELSE mft[n]]
             /\ touched' = touched \cup {r}
             /\ UNCHANGED size

Change == /\ pc # "done" /\ Spend("changes")
          /\ \/ \E r, d \in Ids : MoveTo(r, d)
             \/ \E r, d \in Ids, dir \in BOOLEAN : Create(r, d, dir)
             \/ \E r \in Ids : Delete(r)
          /\ UNCHANGED <<stop, program>>

Finished == pc = "done" /\ UNCHANGED vars

Next == Scan \/ ReadOdd \/ ReadFails \/ EntryFails \/ ChildFails \/ PathFails \/ Stop \/ Change \/ Finished

(* The scanning thread runs, and the volume answers it, if only with an    *)
(* error: weak fairness of its steps, of which one is enabled and changes  *)
(* program until the scan is done.                                         *)
Fairness == []<>(pc = "done") \/ []<><<Next>>_program

Spec == Init /\ [][Next]_vars /\ Fairness

-----------------------------------------------------------------------------
(* The list's entries are records of the table with paths that fit their   *)
(* buffer, and the scan's place stays within the list.                     *)
TypeOK == /\ mft_id \in Ids
          /\ \A i \in DOMAIN list : /\ list[i].id \in Ids /\ list[i].parent \in Ids
                                    /\ Len(list[i].path) <= MaxPath
          /\ errors \in Nat
          /\ k \in 0 .. (Len(list) + 1)
          /\ pc \in {"layout", "scan", "file", "paths", "path", "done"}

(* What both searches rely on: the list goes up, whatever becomes of the   *)
(* table meanwhile, unless the volume gives a record that is behind the    *)
(* one asked for; and the search by halves finds the entry that looking at *)
(* all of them would find.                                                 *)
SearchFinds ==
  bound.faults = Faults =>
    /\ \A i, j \in DOMAIN list : i < j => list[i].id <= list[j].id
    /\ pc \in {"paths", "path"} => \A id \in Ids : FindFast(list, id) = FindSlow(list, id)

(* The fragments of a stream in all records of its file.                   *)
Fragments(r, stream) ==
  LET child == SetToSeq(Children(r))
      all   == mft[r].attrs \o FlattenSeq([i \in DOMAIN child |-> mft[child[i]].attrs])
  IN  FoldLeft(LAMBDA n, a : IF a.kind = "stream" /\ a.name = stream THEN n + a.fragments ELSE n,
               0, all)

StreamNames == UNION { { a.name : a \in { b \in ToSet(mft[r].attrs) : b.kind = "stream" } } :
                         r \in Ids }

(* A scan that works lists every stream with blocks of every file that     *)
(* nobody touched, once and with all its fragments, in however many        *)
(* records they are and whatever was made, moved or deleted meanwhile.     *)
Complete ==
  pc = "done" /\ ~stop /\ bound.faults = Faults /\ (Partial \/ errors = 0) =>
    \A r \in Files \ touched, n \in StreamNames :
       Fragments(r, n) > 0 =>
         LET found == { j \in DOMAIN result : result[j].id = r /\ Tail(result[j].name) = n }
         IN  /\ Cardinality(found) = 1
             /\ \A j \in found : result[j].fragments = Fragments(r, n)

(* No path in the result of a scan that is not partial has a directory in  *)
(* it that was not found.                                                  *)
NoMadeUpPaths ==
  pc = "done" /\ ~Partial => \A i \in DOMAIN result : Nothing \notin ToSet(result[i].path)

(* The paths by which r can be opened: one for every name it has.          *)
Links(r) == { mft[r].attrs[i] : i \in { j \in DOMAIN mft[r].attrs : mft[r].attrs[j].kind = "name" } }

TruePath(l, stream) ==
  LET Up[n \in 0 .. Records, d \in Ids] ==
        IF d = Root \/ n = 0 THEN <<Volume>>
        ELSE LET up == CHOOSE x \in Links(d) : x.type # "dos"
             IN  Append(Up[n - 1, up.parent], <<up.name>>)
  IN  Append(Up[Records, l.parent], <<l.name>> \o stream)

(* A record with one name besides a DOS name, in another directory.        *)
OneLink(r) == \E l \in Links(r) : /\ l.name # NoName /\ l.parent # r
                                 /\ \A x \in Links(r) : x = l \/ x.type = "dos"

(* On a volume nobody changes, the path returned for a file is the one by  *)
(* which it is opened, if the file and the directories above it have one   *)
(* link each and the path fits its buffer: name and parent are of the same *)
(* link, DOS names give way wherever they are stored, and the names come   *)
(* in the right order, from the list or from a directory's own path.       *)
(* Without the condition it is false, whatever zenwinx.h 208 promises      *)
(* (`full native path'): see ftw_ntfs.c 827 and 1508.                      *)
PathIsALink ==
  pc = "done" /\ bound.changes = Changes /\ bound.faults = Faults =>
    \A i \in DOMAIN result :
       LET e    == result[i]
           path == TruePath(CHOOSE l \in Links(e.id) : l.type # "dos", Tail(e.name))
       IN  (\A r \in Above(e.id) \ {Root} : OneLink(r)) /\ Len(path) <= MaxPath =>
              e.path = path

(* Directories that are each other's parents in the list.                  *)
Circle == \E S \in SUBSET (Ids \ {Root}) :
            /\ S # {}
            /\ \A r \in S : LET d == FindSlow(list, r)
                             IN  d # 0 /\ list[d].parent \in S \ {r}

(* ftw_ntfs.c 33 wants a scanner that will `never hang/crash'.  What can   *)
(* keep the scan from its end is one thing only, two or more directories   *)
(* that were moved into one another while the table was read and that the  *)
(* list has as each other's parents; and then a stop by the user ends it.  *)
ScanEnds == <>(pc = "done") \/ <>[](pc = "path" /\ Circle /\ ~stop)
=============================================================================
