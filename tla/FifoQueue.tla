------------------------------ MODULE FifoQueue ------------------------------
(***************************************************************************)
(* What a queue shared by threads promises: each value pushed is returned  *)
(* once, in the order of the pushes, and a pop that returns nothing found  *)
(* the queue empty.                                                        *)
(***************************************************************************)
EXTENDS Sequences

CONSTANTS
  Values,    \* what is pushed
  Poppers,   \* the threads that pop
  Nothing    \* what a pop of the empty queue returns

VARIABLES
  items,     \* the values in the queue, the oldest first
  got        \* the last answer each popper was given

vars == <<items, got>>

Init ==
  /\ items = <<>>
  /\ got = [t \in Poppers |-> Nothing]

Push(v) == items' = Append(items, v) /\ UNCHANGED got

Pop(t) ==
  /\ items # <<>>
  /\ got' = [got EXCEPT ![t] = Head(items)]
  /\ items' = Tail(items)

PopNothing(t) ==
  /\ items = <<>>
  /\ got' = [got EXCEPT ![t] = Nothing]
  /\ UNCHANGED items

Destroy == items' = <<>> /\ UNCHANGED got

Next ==
  \/ \E v \in Values : Push(v)
  \/ \E t \in Poppers : Pop(t) \/ PopNothing(t)
  \/ Destroy

Spec == Init /\ [][Next]_vars
=============================================================================
