----------------------------- MODULE IndexedList -----------------------------
(***************************************************************************)
(* What a list shared by threads promises: an element is added in front,   *)
(* removed wherever it is, and found by its index, each at one instant.    *)
(***************************************************************************)
EXTENDS Integers, Sequences

CONSTANTS
  Values,    \* what the list holds
  Indices,   \* the indices it is asked for
  Threads,   \* the threads that use it
  Nothing    \* what the index of no element returns

VARIABLES
  items,     \* the elements
  got        \* what each thread asked for last, and what it was given

vars == <<items, got>>

Init ==
  /\ items = <<>>
  /\ got = [t \in Threads |-> <<0, Nothing>>]

AddElement(v) == items' = <<v>> \o items /\ UNCHANGED got

\* The first of the elements that are v.
RemoveElement(v) ==
  /\ \E k \in DOMAIN items :
       /\ items[k] = v
       /\ \A j \in DOMAIN items : items[j] = v => k <= j
       /\ items' = SubSeq(items, 1, k - 1) \o SubSeq(items, k + 1, Len(items))
  /\ UNCHANGED got

GetElement(t, n) ==
  /\ got' = [got EXCEPT ![t] =
               <<n, IF n + 1 \in DOMAIN items THEN items[n + 1] ELSE Nothing>>]
  /\ UNCHANGED items

FreeAll == items' = <<>> /\ UNCHANGED got

Next ==
  \/ \E v \in Values : AddElement(v) \/ RemoveElement(v)
  \/ \E t \in Threads, n \in Indices : GetElement(t, n)
  \/ FreeAll

Spec == Init /\ [][Next]_vars
=============================================================================
