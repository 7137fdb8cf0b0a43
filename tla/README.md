# stopgap: a TLA+ verification project

[stopgap](../src/Readme.md) closes the gaps between the files of an NTFS volume:
it reads the volume's free regions and the files' block maps, defragments what it
can, and then goes through the gaps from the front of the volume to its back and
moves into each the files behind it that fill it best. It works on a live volume,
which other programs use, by means of `FSCTL_MOVE_FILE`.

The project models the program's own logic (`zen.cpp`, `zen.hpp`, `op.cpp`) and the
parts of its library zenwinx that this logic stands on (the scans of the volume's
bitmap, of the master file table and of the directory tree, the block maps, the lists,
the log) in full control and abstract data, checks them with TLC on small instances,
and proves with TLAPS, for instances of every size, what can be proved of them: the table of
free regions and the file index (each alone and inside the program), the bitmap scan, the lists, the
log, and that the directory walk closes what it opens.
All paths below are relative to `src/`; `zenwinx` is `zenwinx/src/zenwinx`.

## 1. Inventory

| component | state | operations | used by |
|---|---|---|---|
| gap table, `GapEnumeration` (zen.hpp, zen.cpp 20-237) | a linked list of region nodes, `regions_` (first cluster to node), `sizes_` (length to node) | `scan`, `filter`, `push`, `pop`, `best`, `next` | op.cpp |
| file index, `FileEnumeration` (zen.hpp, zen.cpp 239-320) | `buckets_` (size to file), `lcns_` (first cluster of a block to file; built when first needed) | `scan`, `findAt`, `pop`, `push`, `order` | op.cpp |
| gap filling, `findBest` (zen.cpp 322-455) | none kept | perfect fit, greedy choice, candidate list, knapsack | op.cpp |
| the operation (op.cpp 17-310, 440-470) | `last`, `replaced`, the current gap, the files still to move | `run`, `defrag`, `close_gaps`, `move_set`, `widen_behind`, `move_file` | main.cpp |
| Ctrl-C (util.hpp `ConsoleHandler`) | `gTerminated` | the console's handler thread sets it | op.cpp polls it |
| bitmap scan (zenwinx volume.c 483-581) | list of regions, the region under way | `winx_get_free_volume_regions` | `GapEnumeration::scan` |
| file dump (zenwinx ftw.c 77-256) | `disp`: clusters, fragments, block map | `winx_ftw_dump_file`, `validate_blockmap` | `move_file`, the directory walk |
| MFT scan (zenwinx ftw_ntfs.c) | list of files, `mfi`, the record number, the number of errors | `scan_mft`, `analyze_file_record`, attribute lists, `process_run_list`, `build_full_paths` | `winx_scan_disk` on NTFS |
| directory walk (zenwinx ftw.c 263-590, 760-830) | list of files, the recursion with its open directories | `ftw_add_root_directory`, `ftw_helper` | `winx_scan_disk` elsewhere |
| lists (zenwinx list.c; the loops of ftw.c 597-642, 839-851) | circular, doubly linked | insert, remove, destroy; the clean-up and the release of the list of files | everything above |
| log (zenwinx dbg.c) | list of messages, path, two events as locks, a flag | `winx_dbg_print`, `winx_flush_dbg_log`, `winx_set_dbg_log` | all of zenwinx, any thread |
| locks, memory, strings, files, keyboard, registry, ... (other zenwinx files) | per module | wrappers over NT and C run time; most are for boot-time programs | |
| command line, console, PATH (op.cpp 311-439, main.cpp, util) | options | parse, report, register | `wmain` |

**How they interact.** `wmain` calls `Operation::init`, which scans the volume and
the files, and `Operation::run`, which alternates `defrag` and `close_gaps` until
a round has moved nothing. Both end in `move_file`, which takes the file out of the
index, moves it, tells the gap table of the clusters given up and taken, dumps the
file again and puts it back. Table and index never see each other; that they
describe the *same* volume is the joint work of `move_file`'s dozen calls.
An exception thrown by `move_file` is caught in `defrag`, `move_set` and
`widen_behind`; the first two scan the volume again.

**What is hard here.**
- Three structures hold copies of one another's fields (node, `regions_` key, `sizes_`
  key; `disp`, `buckets_` key, `lcns_`) and are brought up to date by hand at each change.
- What the program has read of the volume is stale as soon as other programs write to it.
- Every call into the file system may fail, in the middle of a move or of a set of moves.
- Files are moved to the back (to defragment, to widen a gap) and to the front (to
  close gaps), each in the hope of progress: termination is not evident.
- Ctrl-C arrives on another thread at any step.
- Arithmetic on `ULONGLONG` at the edges of a gap that has changed meanwhile.
- A scan of the volume takes many calls, records and portions are of different times, and a
  file's records (base and children) and its directories are found again by number.
- Loops remove and free the nodes of the circular lists they walk.
- A bitmap that cannot be read looks like a full disk.
- Several threads log, with one flag outside the locks.

**What makes each part correct.** The table: list and indexes agree, adjacent
regions are merged, the clusters covered change by exactly the block pushed or
popped. The index: every file is filed once under its present size, `findAt` tells
the truth. Gap filling: never overfills, only takes files from behind, is optimal
where it says it is. The operation: no file is lost, the table stays sound, moves
go to free clusters, the program ends, and ends only when nothing is left to do.
The scans: they end; what nobody touched is in the result exactly once, with its true
block map and path, whatever happened to the rest; a failure is told. The lists are
sequences. The log: no message twice, none out of order, no deadlock.

`PROJECT.json` lists every component (also those left out), the hazards by line and
the map from definitions to source lines.

## 2. Modules

| module | models |
|---|---|
| `FreeSpace` | abstract specification: a tracker of free clusters (release, claim, rescan, drift) |
| `GapEnumeration` | the table; operations are operators on a record `[list, regions, sizes, broke]`, the state machine at the end drives them with every contract-keeping client |
| `Disposition` | the part of a file's `disp` used here: block maps of a sequence of clusters (`winx_ftw_dump_file`), `order` |
| `FileEnumeration` | the index, as operators and as a state machine in which one file at a time is out |
| `FindBest` | `findBest` as pure operators |
| `GapFilling` | asks `findBest` about a gap as `close_gaps` does (first exact, then `partialOK`) and compares with all subsets |
| `StopGap` | the program; composes all of the above through `INSTANCE` |
| `BitmapScan` | `winx_get_free_volume_regions`: portions, a region across them, failure, callback, changes between |
| `LinkedList` | list.c as operators on a heap of nodes |
| `ListSpec` | abstract specification: a sequence |
| `FileList` | a list's life: entries, clean-up loops, release, destruction; composes `LinkedList`, implements `ListSpec` |
| `RunList` | the decoding of run lists byte by byte |
| `FileDump` | `winx_ftw_dump_file` |
| `BlockMap` | composes the two: `disp` as the scan fills it in and as the dump after a move replaces it, against `Disposition`, which `StopGap` uses for both |
| `MftScan` | the scan of the master file table: records, attribute lists, names, paths, clean-up |
| `FileTreeWalk` | the recursive walk |
| `DebugLog` | the log, by several threads |
| `MC...` | values for the constants |
| `...Proofs` | the theorems about the module of that name and their proofs (section 4); `ScanDiskProofs` is about `MftScan` and `FileTreeWalk`, the two ways of `winx_scan_disk` |
| `SequenceLemmas` | lemmas about sequences, insertion, removal and folds that those share |

### Correspondence

*GapEnumeration.* A node's address is named after the cluster at which a scan
made it, or is any unused one for `push`. `DebugBreak()` and a dereference of a
non-node set `broke` and leave the rest as is; the clients of the state machine keep the contract
under which that does not happen, and whether the program keeps it is for `StopGap` to show
(`NeverDies`). `PushBlock` has the cases of
`push` (list empty; merge with the region in front; with the one behind; both;
neither), `PopBlock` those of `pop` (not found: scan; longer: break; equal: remove;
shorter: shift), each with the erase and insert of both indexes, in `Reindexed`.
`Best` returns the set of entries `best` may return: entries of equal size in a
multimap have no order worth modelling.

*FileEnumeration.* `buckets` is the multimap as a sequence sorted by key, because
`findBest` walks it and `insert` puts a file behind its equals. `lcns` is the lazily
built map; an empty one means "not built", as in the code. `missed` records the
`assert(false)` of `pop`.

*StopGap.* One thread, so one `pc`; a step runs from one call into the file system
to the next. `disk` is the volume (external): a file's clusters in order.

| pc | code |
|---|---|
| `run` | top of `Operation::run`'s loop |
| `defrag` | head of `defrag`'s loop over the fragmented files |
| `gaps` | head of `close_gaps`'s loop |
| `set` | head of `move_set`'s loop over the chosen files |
| `widen` | head of `widen_behind`'s loop |
| `open`, `move`, `dump`, `return`, `throw` | inside `move_file`: before the open, before each `FSCTL_MOVE_FILE`, before the dump, and the two ways out |
| `done`, `crash` | returned from `run`; `DebugBreak` or null block map |

`mv.by` is the caller `move_file` returns to. `g` in `close_gaps` is a pointer to a
node; `gap.freed` says that a scan has freed the node since, and what the code then
reads through `g` is left open (`AtGap`). Other programs append a cluster to a file or
cut one off (`Grow`, `Shrink`, at most `Meddling` times); calls fail for reasons
outside the model at most `Faults` times, besides failing whenever the target is in use.
The steps that scan take the clusters `F` that the scan finds: the free ones, or none at all
when the bitmap cannot be read (at most `BlindScans` times).

*BitmapScan.* `Visit` is one turn of the inner loop, `NextPortion` and `Finish` the end of the
outer one. `seen` is history: what was free when it was looked at.

*LinkedList, FileList.* A heap has a head and nodes; a store to a freed address sets `wild`.
`SweepStep` is one turn of `ftw_remove_resident_streams` or `ftw_remove_invalid_streams`, with
`head` and `next` read before the removal as in the code. The refinement mapping reads the
items off the circle, from the head, or from the loop's own pointer while the list is destroyed.

*RunList, FileDump, BlockMap.* A byte is a digit of base 4 and a word 64, so that lengths and
distances of one and two bytes, signs and wrap-around all occur. `FileDump`'s external file is
a sequence of extents, and one call tells of `Pairs` of them. `Refresh` is the move after
which op.cpp 61 dumps the file.

*MftScan.* `ReadRecord` is one turn of `scan_mft`; a base record leads to `Analyze`, which sets up
`mfi` and what there is to look at (`Passes`: the record's own attributes first, then the attribute
list). `ReadAttribute` is one turn of `enumerate_attributes`, with the terminator asked before
it; a list leads on to `ReadList` (one that is not resident) and `ReadChild` for each entry, and
`FileEnd` gives the name to all streams. `UpdateFileName` passes over an empty name and that of a
file which claims to be its own parent. `EntryFails` and `PathFails` are allocations that fail: the
entry is taken off the list again, the path stays NULL, and both are counted as errors. An
attribute's number is its place in its record. `NextEntry`, `Climb` and `SetPath` are
`build_full_paths`; `Halves` is the binary search with `f_array[m]` as `l[m + 1]`. A name is a
sequence of names, and `MaxPath` counts names. `fast` says whether there was memory for `f_array`.

*FileTreeWalk.* `stack` holds the calls of `ftw_helper`, each with its own `hDir`; `handles` is the
operating system's table of open directories, which only `Opened` (NtCreateFile) and `NtClose`
change. Each of the five returns of `ftw_helper` that come after the directory is open is an action
with its own `NtClose`: `Terminated`, `TerminatedAtFile`, `NoMore`, `AddEntryFails`, `PassOn`. A path is resolved when something is
opened, so that it may lead elsewhere than where it was listed. A directory that is open cannot
be moved or deleted, nor those above it (no `FILE_SHARE_DELETE`).

*DebugLog.* One step per lock operation and per file operation of each thread. A message is its
number among all that entered the list, so that order and loss can be told. `SetLog`, `CheckFlag`
and `SetPath` set and read the flag one after the other, so that each may meet the value of another
thread. NULL and an empty string are two arguments: the second is a path for the comparison with
`log_path` (dbg.c 778-780) and may become it. A null path at the lines that use it ends the
process (`Dead`), and nothing happens after that.

## 3. Runs

| run | states | shows |
|---|---|---|
| `gap_table` | 61,728 | every client that keeps the contract, on 5 clusters, with a volume that drifts: indexes agree, regions are merged, `best` is complete, and the table implements `FreeSpace` |
| `file_index` | 2,772 | 3 files that move, fragment, become resident, with `findAt` (and so the lazy build) at any moment |
| `gap_filling` | 32,184 | all files of sizes 1-3 (four of them) and three mixes of five, all orders on the volume, gaps up to 6, gap in front of all or behind some |
| `stopgap` | 312,922 | the program on a volume to itself: all command lines, all layouts of 3 files in up to 2 pieces on 6 clusters, Ctrl-C anywhere; 7 safety properties and termination |
| `stopgap_shared` | 2,049,554 | the program, with `--widen` and without, with one change by another program, one failing call and one unreadable bitmap, each at any place |
| `bitmap_scan` | 52,176 | 7 clusters in portions of 3, all bitmaps, one change during the scan, failure, a callback that stops it |
| `file_list` | 98,742 | lists of up to 4 entries of every kind, put at the front or behind the last, dropped again, cleaned, released and destroyed |
| `mft_scan` | 505,233 | 7 tables of 6 records (parents in front of and behind their files, DOS names, hard links, an empty name, a directory that is its own parent, streams, attribute lists resident or not), two changes or a change and a failing request or allocation, a stop at any step |
| `block_map` | 1,030,800 | all streams of up to 3 runs (5 short ones), in one list or two, minimal or padded bytes, also outside the volume; then the dump in calls of 2 extents with failures and one change |
| `debug_log` | 374,134 | 2 threads that both log, flush and set the path, 3 calls, 2 paths besides NULL and the empty string |
| `file_tree_walk` | 268,946 | 4 volumes of 5 nodes, portions of 2 entries, 2 changes, 1 failure, a stop at any step |
| `stopgap_front` | violation | section 6 |

**Bounds.** Five clusters give the table up to three regions, hence every way a block
touches two, one or no regions, at either end of the volume; six clusters with three
files give each file a place in front of, between and behind gaps, and room to
fragment. `Slack` is 1 for 512:
with it, regions at, below and above the slack bound all occur. `MaxLen` is 3 (5 in
`gap_filling`) for 256: sizes and gaps above and below it occur in both.
`WidenMoves` is `<<1, 3>>` for `<<3, 100>>`; with these values of `maxSize` `widen_behind` makes at most
one move per gap, so that the first limit is reached and the second is not. `MaxChunk` is 100 for
`MAXULONG32 - 10`: no file is moved in two calls, and none is by the program, as an NTFS
volume has fewer than 2^32 clusters. `Word` is 1000 for 2^64: nothing legitimate comes
near it, a wrapped difference does. `maxSize` in clusters is 0 (below one cluster) or 2 in
`stopgap`, and 2 in the other two runs of the program.

`gap_table` uses `VIEW LiveView`: nodes that are in no index and that nothing can
reach any more are left out of the fingerprint.
No symmetry is used where liveness is checked; files differ by size anyway.

In `bitmap_scan` a region can cross two portions, fill one, end with one or with the volume. In
`mft_scan` every relation of parent and child numbers occurs, the longest path fits its buffer in
some tables and not in others, and two changes are what two directories need to become each
other's parents. `Troubles` bounds changes and failures together. In `debug_log` three calls are
enough for a flush between the two halves of `winx_set_dbg_log`, whose traces are in the list, while
the other thread sets another path; with four, TLC needs more than five minutes. In
`stopgap_shared` no gap is too large (`--aggressive`); `stopgap` has all command lines.

**Fairness.** `StopGap` assumes weak fairness of `Program`, the program's own steps:
its thread is scheduled and the file system answers each call, with success or
failure. Nothing is assumed of Ctrl-C or of other programs. `Fairness` is written with
`Running` where `WF_vars` has `ENABLED`, which TLC evaluates too slowly inside a temporal
formula; deadlock checking and the one stuttering action, which needs `~Running`, show that the
two agree. `MftScan` does the same with the variables that only the scanning thread changes: it
takes steps for ever unless it is done, also where its steps go in a circle.
A file system that refuses clusters its own bitmap shows as free, for ever, would
keep `close_gaps` retrying; that is excluded by `Faults`. `BitmapScan`, `FileList` and
`FileTreeWalk` have `WF_vars` of the scanning thread's steps. `DebugLog` has weak fairness of
each thread's steps and strong fairness of its waits: NT events of this kind serve those
who wait in turn, and without that a thread could be passed over for ever.

## 4. Proofs

Each theorem holds for every value of the constants that satisfies the assumptions named; TLC
evaluates these on the instances above. None limits sizes or numbers, except where it says so.

**The gap table** (`GapEnumerationProofs`), for every number of clusters, every `Slack` and any
set of addresses that has at least one per cluster (`ClustersAssumption`,
`SlackAssumption`, `NodeAssumption`):

- `TableInvariant`: `Spec => [](TypeOK /\ IndexesAgree /\ Coalesced)`, with
  `RegionsStayMaximal` for the last by itself;
- `ImplementsFreeSpace`: `Spec => FreeSpaceSpec`, the refinement with
  `known <- Covered(ge)`;
- `BestFindsARegion`: `best` finds a region exactly if one is large enough, in every
  reachable state.

The inductive invariant is the conjunction of the three. None is inductive alone: a
merge removes a neighbour from `sizes` by its length, so `IndexesAgree` is needed to
know that the entry is there; `Coalesced` (which includes that regions do not
overlap) is needed for the region found in front of a block to be the only one that can
touch it, and for a block that is popped to lie in the region that starts with it. The invariant is stated a second time as `WellFormed(s)`, about a record
instead of the variable, so that lemmas about `PushBlock`, `PopBlock` and `Scanned` can
be chained as the operators are.
The argument: `ScannedIsExact` (a scan yields a well-formed table that covers exactly
the free clusters, for which `RunEndIsEnd` shows that each run ends), `PushFacts` and
`PopFacts` (well-formedness kept, the clusters covered change by exactly the block),
then `InitInv`, `NextInv`, and one step per action for each theorem.

**The bitmap scan** (`BitmapScanProofs`), for every volume, every size of the portions, any number
of changes meanwhile and any callback (`ScanClustersAssumption`, `PortionAssumption`,
`ChangesAssumption`, `CallbacksAssumption`): `ScanIsExact`, `Spec => []ListsWhatItSaw`. The
inductive invariant (`Inv`) says where the scan is: what it has seen is what the list holds and
the region under way (`Pending`), which may have begun portions ago; the list ends in front of
it with at least one cluster between; and `last` is set exactly in the last portion. A second
one, `Undisturbed`, is for the part of the property that is about a volume nobody changes.

**The file index** (`FileEnumerationProofs`), for any finite set of files and any block maps
(`FilesAssumption`, `PlacementsAssumption`): `EveryFileFiledOnce`
(`Spec => []FiledOnce`, which includes that `pop`'s assertion holds) and `FindAtIsRight`
(`Spec => []FindAtFinds`). The inductive invariant `IndexInv` has both indexes exact for the files
that are not being moved, or `lcns` still to be built, and the blocks of different files apart:
without the last a `push` could overwrite another file's entry in `lcns`. The lemmas
follow `scan` and the lazy build through their folds with a statement about every
prefix of the list (`SequenceLemmas`), and block maps through `Dump` and `Order` (the clusters
of the blocks are those of the file, `order` permutes the blocks).

**The index inside the program** (`StopGapProofs`): `FilesFiledBySize`,
`Spec => []FiledBySize` with failing calls, scans and other programs' changes without bound
(`FilesAssumption`, `ChunkAssumption`, `WordAssumption`, `LayoutsAssumption`). It assumes
`Clusters <= MaxChunk`, that is, that one call moves a whole file; NTFS numbers clusters with 32
bits and `MaxChunk` is ten less than what those hold, so no file comes near it. With files that
are moved in several calls it is false: `fe->push` is inside the loop over the calls (op.cpp
65), so such a file is filed once per call. The inductive invariant `FiledInv` adds to the property
that no cluster belongs to a file twice, so that a size is at most `Clusters`, and where the file
in `move_file`'s hand is: out of the buckets from `pop` to `push`.

On a volume the program has to itself (`Meddling = 0`), with calls and scans that fail without
bound, `MovesNeverFragment` is `Spec => FragmentsShrink`. Here `KnownInv` adds what the program
knows: `f->disp` is a dump of what the volume has, ordered or not, or empty after a dump that
could not open the file, but for the file between its move and its dump; and `move_file` has all
of the file's clusters to move. Other programs can make it false: a file that has grown since
the dump is moved in part, and is left in one more piece.

On such a volume, and without `--widen` (a condition that `TableIsSound` and `MovesSucceed` have in
themselves), the gap table is right as well: `SoundTable`, `Spec => []TableIsSound`. It assumes that no call but a read of the bitmap fails
(`Faults = 0`; those fail without bound), as a file that cannot be dumped after its move has no
blocks for `ge->pop` to take out, and the clusters it was moved to stay in the table (op.cpp 61-64);
and that there is always memory for one more region (`Memory`: no finite set exhausts `Node`; the
addresses of the instances are finite in number, but more than the table ever uses there), with
`TableAssumption` for the constants. `TableIsSound` says nothing of the states in which a file
is under way, so the invariant follows it through them. `WorkInv` says who called `move_file`:
`defrag` or `move_set`, both of which scan after a failed move; that the gap `close_gaps`
ends with is still a region of the table; and that no cluster has two owners.
`SoundInv` says how the table compares with the bitmap at each place: always well-formed, and without
clusters in use but for those of the file that has been pushed and not yet dumped, which are one run
if the move was made, and between a failed move and the scan that follows. There `ScannedIsExact`, `PushFacts`
and `PopFacts` of the gap table are used, for a table under `INSTANCE` (`SameTable`), with a push per
block of the old map (`PushFileTable`) and one pop for the new one (`PopFileOne`). What holds
of the files that `findBest` returns follows from the type of its folds alone (`BestFiles`). With
`--widen` it is not so: section 6.

Under the same assumptions, and again for `~opts.widen`:

- `EveryMoveIsMade` (`MovesSucceed`) and `VolumeIsKnown` (`KnowsTheVolume`);
- `GapsAreNeverOverfilled`: `NeverOverfills` of `GapFilling`, with the gap and the files that
  `move_set` has in hand for its variables;
- `BlindnessIsHarmless` (`BlindIsHarmless`), with reads of the bitmap that fail without bound;
- `NothingBreaks` (`NeverDies`), `NoFileIsLost` (`KeepsFiles`) and `EndsWhenNothingIsLeft`
  (`NothingLeft`), which need `BlindScans = 0`: a failed read can make `ge->push` break off (section 6), and
  makes the program end with gaps it has not seen.

The invariant of all but the last is `AloneInv`: `KnownInv`, and without `--widen` `WorkInv`, `SoundInv`
and `SafeInv`, which has three parts. `FilesInv` is `KnowsTheVolume` and `KeepsFiles` carried through
the states in which a file is under way: `f->disp` is up to date but for the file between its move and its dump, and
every file is filed but for the one in `move_file`'s hand. `QueueInv` says that
`defrag`'s queue has no file twice and only fragmented ones, and that the file moved last is in one piece;
so `defrag` never comes to that file, which it would pop and then hand to `move_file` to be popped once
more (op.cpp 172).
`SpaceInv` says that what is asked for is there: where a move is about to be made, the clusters
from the target on are free for the length of the file, and while `move_set` works, those from `r.lcn`
on for the length of `r`, into which the files still to be moved fit (`FillInv`). Its induction needs the
other two (the target is long enough for the file *as it is*, the sizes being those
`findBest` has added up) and `SoundInv` (a region of the table is free), and without it
neither of them is inductive, as a refused move leaves `disp` unordered and ends in `throw`.
A file that `findBest` has named twice is where this is delicate: its second move opens the clusters of
its first one, the table is scanned anew, and the space that counts is the bitmap's, no longer
the region's (`Room`, with or without `Seeing`, a table that no failed scan has emptied).

That what `findBest` names adds up to no more than the gap is shown along its two folds (`FitsIn`), and
for the knapsack by the least counterexample over its rows, in place of induction: whatever cell
of `solutions` is chosen, the weights of its items are its value, and that is at most the width
of the column. `NothingLeft` needs the converse, that `findBest` with `partialOK` returns nothing only if
every file behind the gap is too large for it (`NothingFits`). Its invariant, `RoundInv`, was
checked with TLC before it was proved: in a round that has moved nothing yet, the gaps
no longer in the table are dealt with (`Handled`: not eligible, or nothing behind them fits), and the
table has all others. A move spoils that, and sets `replaced`, with which the program
cannot end before another round, which begins with a scan.

**The lists** (`FileListProofs`), for lists of any length (`NullAssumption`):
`ListIsASequence`, `Spec => ImplementsSequence`, the refinement of `ListSpec`; `SweepsAreExact`,
`Spec => []SweptExactly`; and `PointersAreGood`, `Spec => []TypeOK` (no pointer but to an item).
The invariant is `\E s : Inv(s)`: a sequence of distinct addresses
along which the heap is linked in both directions, as a ring (`IsList`), or, while the list is
being destroyed and the head's item is already gone, forwards only (`Chain`); where the loop's
pointer is in it and which items it holds (`Walk`); what has been taken out so far (`Swept`); and
that nothing was freed twice or written after. Per operation of list.c a
lemma says what its stores do to such a ring; `ItemsOfChain` shows that the
refinement mapping, which follows the pointers, reads exactly that sequence.

**The log** (`DebugLogProofs`), for any number of threads, paths and calls (`LogAssumption`):
`LocksExclude` (`Spec => []Exclusive`), `FilesStayInOrder` (`Spec => []FilesInOrder`),
`MessagesKeptOnce` (`Spec => []EveryMessageOnce`). The invariant is mutual exclusion with where each
thread is, and `Order`: what a file has was logged before what a flush has taken out of the
list, and this before what is in the list. That order survives because a flush takes the
log's lock before the list's, so two flushes cannot overtake each other.

**The list of files** (`ScanDiskProofs`). `winx_scan_disk` makes it in one of two ways.

*From the master file table* (`MftScan`), for tables of any size whose records have any
attributes, with any number of failures, wherever they happen, and of changes by other programs
(`RecordsAssumption`, `PathAssumption`, `BoundsAssumption`; `VolumesAssumption`: the record of the
table itself is in use and no other file's child): `SearchIsRight` (`Spec => []SearchFinds`),
`PathsAreFound` (`Spec => []NoMadeUpPaths`) and `ScanTyped` (`Spec => []TypeOK`). The invariant,
`ScanInv`, has three parts. `TableInv` is what other programs leave true of the table; a record to
start from is always found because of it (`LastInUse`). `ListInv` says that the list goes up by
record number, because the table is read from its end and new entries go to the front.
`SearchFinds` alone is not inductive: the entry for the record in hand may have to stand in front
of others only because all of them are of larger numbers than `mft_id`, the record asked for.
Inside a record this is `Growing`, through both passes over the attributes and every child record,
together with where the entries without a name are: all in front of any larger number, where the
loop that fills the names in still comes (`NamedFacts`). A volume that answers with a record
behind the one asked for makes it false, so it is stated until the first failed request (`Calm`).
That the search by halves then finds what the search through all entries finds (`FindTheSame`) is
shown by the least counterexample over the number of places left, in place of induction
(`SearchStep`). `PathInv` says that a missing directory in a path has been counted: the error is
counted in the same step that puts the gap into the path, and from then on the result can only be
empty, unless partial scans are allowed.

*By the directory walk* (`FileTreeWalk`), for any tree, filter, number of failures and of changes
(`NodesAssumption`, `HandlesAssumption`, `PortionAssumption`): `WalkClosesHandles`
(`Tree!Spec => []Tree!HandlesClosed`) and `FailureIsPassedOn` (a failed dump, at whatever depth,
comes out of the recursion and leaves an empty list). The invariants are `Nested` and `WayOut`.
`Nested` has `Owned`, that the open directories are those of the calls on the stack and no two calls
have the same one: opening adds a handle nobody has (`CallOwned`), and each way out closes the one of
the call that returns, not another's (`ReturnOwned`); and that a call is on the stack wherever the
walk is inside `ftw_helper`. `WayOut` is that after a failure every place is on the way out.

**Only model-checked.** Liveness under fairness (`Terminates`, `Stops`, the ends of the scans and
loops, `CallsReturn`) is out of the prover's reach. So is most of what recursion over data
computes for every input: that the knapsack's choice is the best one (`FillsTheMost`), run lists
and retrieval buffers (`BlockMap`), what the scan of the table sums up and which names it chooses
(`Complete` and `PathIsALink` of `MftScan`), and which nodes the walk visits (`Complete`). The
theorems about the table in the program are for runs without `--widen`. `TableIsSound` and
`MovesSucceed` say so themselves, as they are false with it (section 6); the others of the run
`stopgap` TLC checks with it too.

## 5. Properties

*The program, on a volume to itself* (`stopgap`): without `--widen`, `TableIsSound` (what the table
takes to be free is free whenever a gap is chosen) and `MovesSucceed` (no move is ever refused); with
every command line
`NeverDies`, `KeepsFiles` (no file lost from the index), `KnowsTheVolume` (block maps
are current and ordered), `NothingLeft` (when the program ends by itself no file
behind an eligible gap would fit in it), `FragmentsShrink`, `Terminates`.

*With other programs about* (`stopgap_shared`) these cannot hold as they stand. What
remains: `FiledBySize` (a file is never filed twice, nor under a size the program does not have for it),
`BlindIsHarmless` (scans that fail make the program stop early or break off at worst, without taking a
cluster in use for free or losing a file before) and `Stops` (every retry comes to an end).

*What the program reads of the volume*: `ListsWhatItSaw` (regions are maximal, in order, and exactly
what was free when looked at), `MapIsExact` (both ways to a block map give the same, the true
one, and the `Dump` that `StopGap` relies on), `AllOrNothing` (no half map survives a failure),
`Complete` of `MftScan` (every stream of every untouched file once, with the
fragments of all its records), `SearchFinds`, `NoMadeUpPaths`, `PathIsALink` (the path of a file is
the one by which it is opened, if it and the directories above it have one link each and the
path fits the buffer), `Complete` of `FileTreeWalk` and `HandlesClosed` (each call of `ftw_helper`
closes the directory it has opened, whichever way it returns); and that the scans end.
For the scan of the table that is `ScanEnds`: nothing can keep it from its end but a circle of
directories, and a stop by the user ends it there too.

*What fills a gap*: `NeverOverfills`, and `FillsTheMost`, which counts a file once however often
it is named: the choice is the best one unless some file is named twice, and none is if the files of
each size are filed in the order in which they lie on the volume.

*What it is built on*: `ImplementsSequence`, `SweptExactly`, `LoopsEnd` for the lists;
`FilesInOrder`, `EveryMessageOnce`, `CallsReturn` for the log.

## 6. What the code says and does not do

The run `stopgap_front` is a finding: zen.cpp 103 says that files are always moved to the
beginning of a gap. `findBest` may name a file twice (zen.cpp 403; `NoFileTwice` in
`GapFilling`); its second move goes into the middle of the region that its first move has
opened, and the table falls back on a scan (a `DebugBreak` in debug builds).

Other statements of comments, assertions and messages are kept as definitions under "what the
code says of itself". Each is violated within a minute when it is put into the cfg named, in place
of the properties there:

| definition | cfg | what happens |
|---|---|---|
| `PopFindsTheFile` | `StopGapShared` | a "skipped" file is popped and handled all the same (op.cpp 172); if it has grown, the second pop reaches its `assert(false)` (zen.cpp 316) |
| `NeverBreaks` | `StopGapShared` | a file that grew right behind its target is longer than the region popped: `DebugBreak` in release builds too (zen.cpp 130) |
| `FilesHaveBlocks` | `StopGapShared` | a file that cannot be opened counts as dumped, with no blocks (ftw.c 157), and is filed; `findBest` follows its null block map |
| `WidenedIsFree` | `StopGapShared` | a file moved into the gap itself makes `r` cover clusters in use (op.cpp 227) |
| `FinalGapCount` | `StopGapShared` | after a scan that failed the final count (op.cpp 470) is 0 |
| `NoOverlap` | `BlockMap` | a file that changes between two calls gets a map whose blocks overlap; `validate_blockmap` (ftw.c 95) looks at the first two only |
| `SavedIfEnabled` | `DebugLog` | `winx_set_dbg_log` sets the flag before it has the lock (dbg.c 755); a flush in between has messages and no path and drops them |
| `PathIsThere` | `DebugLog` | a call that turns logging off sets the flag and reads it again; if another thread has turned it on in between, the null path comes to `wcsrchr(path,..)` or `&path[4]` (dbg.c 760, 790) |
| `NotPartial` | `FileTreeWalk` | a directory that cannot be opened or read to its end counts as read (ftw.c 521) |
| `NoFileTwice` | `GapFilling` | two files of one size, the one filed first behind the other: `findBest` may name one of them twice (zen.cpp 399-405), and the gap is filled by less than was added up |
| `InBounds` | `BlockMap`, with a run whose place and length add up to `Word` | the sum in `check_run` wraps around (ftw_ntfs.c 1102), and the run is taken to be inside the volume |

Of three properties the runs check the part that holds, on instances that have the other part too.
What a reader of the code would expect is the property without its condition:

| without | cfg | what happens |
|---|---|---|
| `ScanEnds`, second disjunct | `MftScan` | ftw_ntfs.c 33 wants to "never hang/crash". Directories moved into one another during the scan become each other's parents in the list, and the climb (ftw_ntfs.c 1499) has no end but the user's stop |
| `PathIsALink`, `OneLink` | `MftScan` | zenwinx.h 208: "full native path". With links in two directories the name of one goes with the parent of the other (ftw_ntfs.c 827) |
| `PathIsALink`, `Len(path) <= MaxPath` | `MftScan` | a path longer than the buffer is cut at its end (ftw_ntfs.c 1508) |
| `TableIsSound`, `MovesSucceed`, `~opts.widen` | `StopGap` on 16 clusters | clusters in use are taken to be free, see below |

That `TableIsSound` and `MovesSucceed` need `~opts.widen` was found in the attempt to prove them
without it. `widen_behind` lengthens `r` by all clusters of the file that
it has moved (op.cpp 226-229), although a file in several pieces frees only the first of them
behind the gap. The next file may then be sent into `r`, that is, to
clusters in use; the call is refused, after `move_file` has told the table that the
file's old clusters are free, and `widen_behind`'s handler, unlike the other two, does not
scan again: the table has clusters in use until the next scan. It takes files at `<<4, 13>>` and
`<<6, 7, 8, 9, 10, 11>>` and unmovable ones at 5 and 12, on 16 clusters, with `--widen`, without
`--defrag`, gaps up to 6 and `WidenMoves = <<3, 100>>`; six clusters
have no room for it. What is in use is not
overwritten, as the file system refuses the move. Without `--widen` this cannot happen
(`SoundTable`).

A second such attempt showed that a bitmap that cannot be read can end the program in a `DebugBreak`
that release builds have as well, on a volume to itself. On three files of one cluster each
(`BlindScans = 1`, `Meddling` and `Faults` 0) `findBest` names a file twice; its second move makes `pop` scan
(zen.cpp 103); the bitmap cannot be read, and the table is empty, without a list; the push
for the next file's old cluster finds no list to insert into (zen.cpp 212). The two files of the run
`stopgap_shared` are too few for it. `BlindIsHarmless` is about what comes before such an end.

Three limits of the checks come from the code as well: the instances of `BlockMap` have no extent at
cluster 0 (the run of `$Boot`, with a stored distance of 0, is taken for virtual,
ftw_ntfs.c 1179) and none whose place and length add up to a whole `Word` (the sum in
`check_run` wraps around, ftw_ntfs.c 1102); and `Complete` of `MftScan` is stated for scans
without failing requests, as an attribute list or a child record that cannot be read is passed
over without counting as an error (ftw_ntfs.c 653, 976).

## 7. Not modelled, and the plan

Left out of the modules above: a persistent `STATUS_ALREADY_COMMITTED`, the statistics and all
output; file flags, times and `$BadClus` in the MFT scan, its bounds checks inside a record's
bytes, and the loop over the list at its end (ftw_ntfs.c 1736-1741: stopgap passes no filter callback
there, zen.cpp 244-250, and `validate_blockmap` does not touch `fragments`, all that `MftScan` has of
`disp`; `FileDump` models it); reparse points other than junctions in the walk; the delivery of messages to a debugger.

Not modelled at all: `winx_add_volume_region`, `winx_sub_volume_region`, the keyboard, prompt,
boot-time registration and red-black trees of zenwinx (stopgap calls none of them), single NT calls
(files, volumes, locks, events, threads), console, version and PATH registration.

The map covers the program's own files and the parts of zenwinx it stands on. Measured against all
lines of the repository the share is small: gperftools (a vendored allocator) is about 43,000
lines and `case-tables.h` (generated) 16,000 of some 74,000; the NT headers hold declarations.
There is nothing in them to model.

What is left to do, in this order:

1. Proofs: `BlockMap` (`AllOrNothing` is inductive as it stands but for where the map is dropped;
   `MapIsExact` needs an induction along the run list), and `Complete` of `MftScan`, for which `ListInv` is the beginning.
2. A list that changes during the scan: a file that gets another child record, with the reuse of
   record numbers, in `MftScan`.
