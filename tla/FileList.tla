------------------------------ MODULE FileList ------------------------------
(***************************************************************************)
(* The life of a list of zenwinx, from its first item to its release.  It  *)
(* is told of the list of files (ftw.c): entries are put in at the front,  *)
(* and taken out again if their data cannot be had; the loops of           *)
(* ftw_remove_resident_streams and ftw_remove_invalid_streams take out     *)
(* items of the circle they walk, the first and the last included;         *)
(* winx_ftw_release frees what hangs on the items, and winx_list_destroy   *)
(* the items.  Block maps and free regions are made the same way, only     *)
(* that each item is put behind the one before.                            *)
(***************************************************************************)
EXTENDS Integers, FiniteSets, Sequences, SequencesExt

CONSTANTS Address,   \* the addresses an item may have
          NULL       \* the null pointer

ASSUME NullAssumption == NULL \notin Address

VARIABLES heap,      \* the list, as in LinkedList
          what,      \* address |-> what the file is: "good", "resident", "invalid"
          held,      \* the items whose name, path and block map are allocated
          pc,        \* "list", "resident", "invalid", "kept", "release", "destroy", "done"
          f,         \* the pointer that the running function has
          listed,    \* history: the items when all are listed
          twice      \* history: something was freed that had been freed

vars == <<heap, what, held, pc, f, listed, twice>>

List == INSTANCE LinkedList

Init == /\ heap = List!EmptyHeap
        /\ what = [a \in Address |-> "good"]
        /\ held = {} /\ listed = <<>>
        /\ pc = "list" /\ f = NULL
        /\ twice = FALSE

(* A function that walks the list starts at its head.                      *)
Enter(loop) == pc' = loop /\ f' = heap'.head

Free(a) == held' = held \ {a} /\ twice' = (twice \/ a \notin held)

(* A file is listed; the caller names no predecessor, or the item before.  *)
AddEntry(a, kind, prev) ==
  /\ pc = "list"
  /\ a \notin DOMAIN heap.node
  /\ heap' = List!Insert(heap, prev, a)
  /\ what' = [what EXCEPT ![a] = kind]
  /\ held' = held \cup {a} /\ f' = a
  /\ UNCHANGED <<pc, listed, twice>>

(* It has no name for want of memory, or its dump has failed.              *)
DropEntry == /\ pc = "list" /\ f # NULL
             /\ heap' = List!Remove(heap, f)
             /\ Free(f)
             /\ f' = NULL
             /\ UNCHANGED <<what, pc, listed>>

ListEnd == /\ pc = "list"
           /\ listed' = List!ItemsFrom(heap, heap.head)
           /\ UNCHANGED <<heap, what, held, twice>>
           /\ Enter("resident")

(* A walk that fails, or an owner that is done with the files.             *)
Release == /\ pc \in {"list", "kept"}
           /\ UNCHANGED <<heap, what, held, listed, twice>>
           /\ Enter("release")

After == [resident |-> "invalid", invalid |-> "kept"]

(* All loops skip an empty list.                                           *)
Skip == /\ pc \in {"resident", "invalid", "release"} /\ f = NULL
        /\ pc' = IF pc = "release" THEN "done" ELSE After[pc]
        /\ UNCHANGED <<heap, what, held, f, listed, twice>>

(* Mutant: the loop ends where it started, though that item may be gone.   *)
SweepStepOldHead ==
  /\ pc \in DOMAIN After /\ f # NULL
  /\ LET next == heap.node[f].next
         bad  == what[f] = pc
     IN  /\ heap' = IF bad THEN List!Remove(heap, f) ELSE heap
         /\ IF bad THEN Free(f) ELSE UNCHANGED <<held, twice>>
         /\ IF heap'.head = NULL \/ next = Head(listed)
            THEN Enter(After[pc])
            ELSE pc' = pc /\ f' = next
  /\ UNCHANGED <<what, listed>>

(* Mutant: the end is the new head, which is next when the first goes.     *)
SweepStepNewHead ==
  /\ pc \in DOMAIN After /\ f # NULL
  /\ LET next == heap.node[f].next
         bad  == what[f] = pc
     IN  /\ heap' = IF bad THEN List!Remove(heap, f) ELSE heap
         /\ IF bad THEN Free(f) ELSE UNCHANGED <<held, twice>>
         /\ IF heap'.head = NULL \/ next = heap'.head
            THEN Enter(After[pc])
            ELSE pc' = pc /\ f' = next
  /\ UNCHANGED <<what, listed>>

(* One turn of the two loops; head and next are read before the removal.   *)
SweepStep ==
  /\ pc \in DOMAIN After /\ f # NULL
  /\ LET next == heap.node[f].next
         bad  == what[f] = pc
     IN  /\ heap' = IF bad THEN List!Remove(heap, f) ELSE heap
         /\ IF bad THEN Free(f) ELSE UNCHANGED <<held, twice>>
         /\ IF heap'.head = NULL \/ next = heap.head
            THEN Enter(After[pc])
            ELSE pc' = pc /\ f' = next
  /\ UNCHANGED <<what, listed>>

(* One turn of winx_ftw_release's loop.                                    *)
ReleaseStep ==
  /\ pc = "release" /\ f # NULL
  /\ Free(f)
  /\ UNCHANGED <<heap, what, listed>>
  /\ IF heap.node[f].next = heap.head
     THEN Enter("destroy")
     ELSE pc' = pc /\ f' = heap.node[f].next

(* One turn of winx_list_destroy: next is read, then the item is freed.    *)
(* The loop ends when next is the head, an address of nothing by then.     *)
DestroyStep ==
  /\ pc = "destroy"
  /\ LET next  == heap.node[f].next
         freed == List!Free(heap, f)
     IN  IF next = heap.head
         THEN heap' = [freed EXCEPT !.head = NULL] /\ pc' = "done" /\ f' = NULL
         ELSE heap' = freed /\ pc' = pc /\ f' = next
  /\ UNCHANGED <<what, held, listed, twice>>

Loops == Skip \/ SweepStep \/ ReleaseStep \/ DestroyStep

Done == pc = "done" /\ UNCHANGED vars

Next == \/ \E a \in Address, kind \in {"good", "resident", "invalid"}, prev \in {NULL, f} :
             AddEntry(a, kind, prev)
        \/ DropEntry \/ ListEnd \/ Release
        \/ Loops \/ Done

(* A loop that is entered goes on; nothing in it waits.                    *)
Spec == Init /\ [][Next]_vars /\ WF_vars(Loops)

-----------------------------------------------------------------------------
(* The running function's pointer is null or that of an item.              *)
TypeOK == /\ pc \in {"list", "resident", "invalid", "kept", "release", "destroy", "done"}
          /\ held \subseteq Address
          /\ f # NULL => f \in DOMAIN heap.node

Promise == INSTANCE ListSpec
             WITH items <- List!ItemsFrom(heap, IF pc = "destroy" THEN f ELSE heap.head)

(* The list is a sequence all its life (ListSpec): it has one cycle, no    *)
(* item is lost to it or left in it when freed, an item is put where the   *)
(* caller wants it, and the head is the first also when the first is taken *)
(* out; winx_list_destroy takes out the items from the front, each once.   *)
(* The stores of list.c 61-71 and 96-107 depend on one another's order.    *)
ImplementsSequence == Promise!Spec

(* s has items of l, in the order of l.                                    *)
Within(s, l) ==
  /\ ToSet(s) \subseteq ToSet(l)
  /\ \A i, j \in DOMAIN s : i < j =>
        \E k, m \in DOMAIN l : k < m /\ l[k] = s[i] /\ l[m] = s[j]

(* Each loop takes out exactly the files it is for, whichever and how many *)
(* they are, and leaves the others in their order.  Whatever is taken out  *)
(* or released is freed once, in the end nothing is left, and no store     *)
(* goes to an item that has been freed.                                    *)
SweptExactly ==
  LET items == List!ItemsFrom(heap, heap.head)
      gone  == [resident |-> {}, invalid |-> {"resident"}, kept |-> {"resident", "invalid"}]
  IN  /\ pc \in DOMAIN gone =>
           /\ Within(items, listed)
           /\ \A a \in ToSet(items) : what[a] \notin gone[pc]
           /\ \A a \in ToSet(listed) : what[a] \notin gone[pc] \cup {pc} => a \in ToSet(items)
      /\ ~twice /\ ~heap.wild
      /\ pc = "done" => held = {}

(* The loops end, although the item they started with may be gone.         *)
LoopsEnd == pc \in {"resident", "invalid", "release", "destroy"} ~> pc \in {"kept", "done"}
=============================================================================
