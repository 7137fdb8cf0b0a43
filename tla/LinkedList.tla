----------------------------- MODULE LinkedList -----------------------------
(***************************************************************************)
(* list.c of zenwinx: circular doubly linked lists.  Every list of the     *)
(* program is one: free regions, files, block maps, log entries.           *)
(*                                                                         *)
(* A heap is a record h: h.head is the caller's pointer to the first item, *)
(* h.node the items that are allocated, address |-> [prev, next].  An      *)
(* address that has been freed is not in its domain; to read or write one  *)
(* is the mistake that the model is after, and sets h.wild.                *)
(* winx_list_destroy, a loop, is a part of FileList.                       *)
(***************************************************************************)
EXTENDS Integers, FiniteSets

CONSTANTS Address,   \* the addresses an item may have
          NULL       \* the null pointer

EmptyHeap == [head |-> NULL, node |-> [a \in {} |-> a], wild |-> FALSE]

(* The pointer p is stored in a field of the item at address a.            *)
SetNext(h, a, p) == IF a \in DOMAIN h.node THEN [h EXCEPT !.node[a].next = p]
                    ELSE [h EXCEPT !.wild = TRUE]

SetPrev(h, a, p) == IF a \in DOMAIN h.node THEN [h EXCEPT !.node[a].prev = p]
                    ELSE [h EXCEPT !.wild = TRUE]

(* The item at a exists from here on, and up to here.                      *)
Malloc(h, a, prev, next) ==
  [h EXCEPT !.node = [b \in DOMAIN @ \cup {a} |->
                        IF b = a THEN [prev |-> prev, next |-> next] ELSE @[b]]]

Free(h, a) == [h EXCEPT !.node = [b \in DOMAIN @ \ {a} |-> @[b]]]

(* Mutant: a new head is put behind the old one's successor.               *)
InsertHeadSecond(h, prev, new) ==
  IF h.head = NULL
  THEN [Malloc(h, new, new, new) EXCEPT !.head = new]
  ELSE LET p    == IF prev = NULL THEN h.head ELSE prev
           next == h.node[p].next
           m    == Malloc(h, new, p, next)
       IN  [SetPrev(SetNext(m, p, new), next, new) EXCEPT
              !.head = IF prev = NULL THEN new ELSE @]

(* winx_list_insert: `new' is the address that winx_malloc gave.           *)
Insert(h, prev, new) ==
  IF h.head = NULL
  THEN [Malloc(h, new, new, new) EXCEPT !.head = new]
  ELSE LET p    == IF prev = NULL THEN h.node[h.head].prev ELSE prev
           next == h.node[p].next
           m    == Malloc(h, new, p, next)
       IN  [SetPrev(SetNext(m, p, new), next, new) EXCEPT
              !.head = IF prev = NULL THEN new ELSE @]

(* winx_list_remove.                                                       *)
Remove(h, item) ==
  LET n == h.node[item]
  IN  CASE item = NULL \/ h.head = NULL -> h
        [] item # NULL /\ h.head # NULL /\ item = h.head /\ n.next = h.head ->
             [Free(h, item) EXCEPT !.head = NULL]
        [] OTHER ->
             [Free(SetPrev(SetNext(h, n.prev, n.next), n.next, n.prev), item)
                EXCEPT !.head = IF item = h.head THEN n.next ELSE @]

(* The items from address a on, in the order of next.                      *)
ItemsFrom(h, a) ==
  LET n == Cardinality(DOMAIN h.node)
      at[k \in 1 .. n] == IF k = 1 THEN a ELSE h.node[at[k - 1]].next
  IN  [k \in 1 .. n |-> at[k]]
=============================================================================
