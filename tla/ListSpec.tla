------------------------------ MODULE ListSpec ------------------------------
(***************************************************************************)
(* What the lists of zenwinx (list.c) promise: a sequence of items that    *)
(* items can be put into anywhere and taken out of.                        *)
(***************************************************************************)
EXTENDS Sequences, SequencesExt

CONSTANT Address    \* what an item may be

VARIABLE items

Init == items = <<>>

(* A new item at the front (no predecessor is given) or behind another.    *)
InsertHead(a) == a \notin ToSet(items) /\ items' = <<a>> \o items

InsertAfter(p, a) == /\ a \notin ToSet(items)
                     /\ \E k \in DOMAIN items :
                          items[k] = p /\ items' = InsertAt(items, k + 1, a)

TakeOut(a) == \E k \in DOMAIN items : items[k] = a /\ items' = RemoveAt(items, k)

Next == \/ \E a \in Address : InsertHead(a) \/ TakeOut(a)
        \/ \E p, a \in Address : InsertAfter(p, a)

Spec == Init /\ [][Next]_items
=============================================================================
