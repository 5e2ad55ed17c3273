----------------------------- MODULE LinkedList ------------------------------
(***************************************************************************)
(* lib/linkedList.c: a linked list with a size and a lock.  The server     *)
(* keeps its books in one, the client its arguments.  get_nth_element      *)
(* looks at the size before it takes the lock, all the rest is done with   *)
(* the lock held; a step is the code between two accesses that another     *)
(* thread can see.                                                         *)
(***************************************************************************)
EXTENDS Integers, Sequences, FiniteSets, NodeChain

CONSTANTS
  Threads,    \* the threads that use the list
  Removers,   \* those that call remove_node: none in the two programs
  Nodes,      \* bound: the nodes calloc can give
  NULL,       \* the null pointer
  Garbage,    \* a field of memory that was not given or was freed
  None,       \* no owner of the lock
  MaxAdds     \* bound: additions of a behaviour; the element is their number

Values == 1 .. MaxAdds
Indices == -1 .. MaxAdds
Nothing == 0   \* the NULL that get_nth_element returns

ASSUME ListAssumption ==
  /\ Removers \subseteq Threads
  /\ None \notin Threads
  /\ NULL \notin Nodes
  /\ Garbage \notin Nodes \cup {NULL} \cup Nat
  /\ MaxAdds \in Nat
  /\ IsFiniteSet(Nodes) /\ IsFiniteSet(Threads)

VARIABLES
  head, size,   \* list->head and list->size
  next, data,   \* the fields of every node
  lock,         \* owner of list->lock
  pc,           \* where each thread is
  arg,          \* its argument: an index or an element
  node,         \* the node it adds
  ret,          \* the index its last get_nth_element asked for, and the answer
  added         \* additions so far

listVars == <<head, size, next, data>>
vars == <<listVars, lock, pc, arg, node, ret, added>>

States == {"idle", "add", "link", "grow", "get", "walk",
           "remove", "search", "shrink", "gone", "crashed"}

-----------------------------------------------------------------------------
Init ==
  /\ head = NULL
  /\ size = 0
  /\ next = [n \in Nodes |-> Garbage]
  /\ data = [n \in Nodes |-> Garbage]
  /\ lock = None
  /\ pc = [t \in Threads |-> "idle"]
  /\ arg = [t \in Threads |-> 0]
  /\ node = [t \in Threads |-> NULL]
  /\ ret = [t \in Threads |-> <<0, Nothing>>]
  /\ added = 0

To(t, s) == pc' = [pc EXCEPT ![t] = s]

\* The nodes from head on, in order.
Chain == ChainOf(Nodes, head, next)

\* Taking the lock, between a call and its critical section.
Lock(t) ==
  /\ pc[t] \in {"add", "get", "remove"}
  /\ lock = None
  /\ lock' = t
  /\ To(t, CASE pc[t] = "add" -> "link"
             [] pc[t] = "get" -> "walk"
             [] pc[t] = "remove" -> "search")
  /\ UNCHANGED <<listVars, arg, node, ret, added>>

AddCall(t) ==
  /\ pc[t] = "idle" /\ added < MaxAdds
  /\ \E n \in {x \in Nodes : data[x] = Garbage} :
       /\ node' = [node EXCEPT ![t] = n]
       /\ data' = [data EXCEPT ![n] = added + 1]
       /\ next' = [next EXCEPT ![n] = NULL]
  /\ added' = added + 1
  /\ To(t, "add")
  /\ UNCHANGED <<head, size, lock, arg, ret>>

MutantLosesRest(t) == UNCHANGED next

\* new_node->next = list->head
LinkBefore(t) == next' = [next EXCEPT ![node[t]] = head]

AddLink(t) ==
  /\ pc[t] = "link"
  /\ LinkBefore(t)
  /\ head' = node[t]
  /\ To(t, "grow")
  /\ UNCHANGED <<size, data, lock, arg, node, ret, added>>

AddSize(t) ==
  /\ pc[t] = "grow"
  /\ size' = size + 1
  /\ lock' = None
  /\ To(t, "idle")
  /\ UNCHANGED <<head, next, data, arg, node, ret, added>>

\* The index is compared with the size before the lock is taken.
GetCall(t) ==
  /\ pc[t] = "idle"
  /\ \E n \in Indices :
       /\ arg' = [arg EXCEPT ![t] = n]
       /\ IF n < 0 \/ n >= size
          THEN ret' = [ret EXCEPT ![t] = <<n, Nothing>>] /\ UNCHANGED pc
          ELSE To(t, "get") /\ UNCHANGED ret
  /\ UNCHANGED <<listVars, lock, node, added>>

MutantFromTail(t) == data[Chain[Len(Chain) - arg[t]]]

Nth(t) == data[Chain[arg[t] + 1]]

GetWalk(t) ==
  /\ pc[t] = "walk"
  /\ arg[t] < Len(Chain)
  /\ ret' = [ret EXCEPT ![t] = <<arg[t], Nth(t)>>]
  /\ lock' = None
  /\ To(t, "idle")
  /\ UNCHANGED <<listVars, arg, node, added>>

\* The walk runs off the end and follows the null pointer: the process dies.
GetPastEnd(t) ==
  /\ pc[t] = "walk"
  /\ arg[t] >= Len(Chain)
  /\ pc' = [u \in Threads |-> "crashed"]
  /\ UNCHANGED <<listVars, lock, arg, node, ret, added>>

RemoveCall(t) ==
  /\ pc[t] = "idle" /\ t \in Removers
  /\ \E v \in Values : arg' = [arg EXCEPT ![t] = v]
  /\ To(t, "remove")
  /\ UNCHANGED <<listVars, lock, node, ret, added>>

\* The first node that holds the element is unlinked and freed.
RemoveFound(t) ==
  /\ pc[t] = "search"
  /\ \E k \in DOMAIN Chain :
       /\ data[Chain[k]] = arg[t]
       /\ \A j \in DOMAIN Chain : data[Chain[j]] = arg[t] => k <= j
       /\ IF k = 1
          THEN /\ head' = next[head]
               /\ next' = [next EXCEPT ![Chain[k]] = Garbage]
          ELSE /\ next' = [next EXCEPT ![Chain[k - 1]] = next[Chain[k]],
                                       ![Chain[k]] = Garbage]
               /\ UNCHANGED head
       /\ data' = [data EXCEPT ![Chain[k]] = Garbage]
  /\ To(t, "shrink")
  /\ UNCHANGED <<size, lock, arg, node, ret, added>>

MutantKeepsSize == UNCHANGED size

Shrink == size' = size - 1

RemoveSize(t) ==
  /\ pc[t] = "shrink"
  /\ Shrink
  /\ lock' = None
  /\ To(t, "idle")
  /\ UNCHANGED <<head, next, data, arg, node, ret, added>>

MutantMissShrinks(t) ==
  /\ pc[t] = "search"
  /\ \A k \in DOMAIN Chain : data[Chain[k]] # arg[t]
  /\ size' = size - 1
  /\ lock' = None
  /\ To(t, "idle")
  /\ UNCHANGED <<head, next, data, arg, node, ret, added>>

RemoveMiss(t) ==
  /\ pc[t] = "search"
  /\ \A k \in DOMAIN Chain : data[Chain[k]] # arg[t]
  /\ lock' = None
  /\ To(t, "idle")
  /\ UNCHANGED <<listVars, arg, node, ret, added>>

\* free_list, when no other thread is left: it destroys the lock it holds.
FreeList ==
  /\ \A t \in Threads : pc[t] = "idle"
  /\ head' = NULL
  /\ size' = 0
  /\ next' = [n \in Nodes |-> Garbage]
  /\ data' = [n \in Nodes |-> Garbage]
  /\ pc' = [t \in Threads |-> "gone"]
  /\ UNCHANGED <<lock, arg, node, ret, added>>

\* The list is freed, or the process is dead.
Rest ==
  /\ \A t \in Threads : pc[t] \in {"gone", "crashed"}
  /\ UNCHANGED vars

Step(t) ==
  \/ Lock(t)
  \/ AddCall(t) \/ AddLink(t) \/ AddSize(t)
  \/ GetCall(t) \/ GetWalk(t) \/ GetPastEnd(t)
  \/ RemoveCall(t) \/ RemoveFound(t) \/ RemoveSize(t) \/ RemoveMiss(t)

Next == (\E t \in Threads : Step(t)) \/ FreeList \/ Rest

Spec == Init /\ [][Next]_vars

-----------------------------------------------------------------------------
(* Properties. *)

\* Type invariant of the list, its nodes and the threads.
TypeOK ==
  /\ head \in Nodes \cup {NULL}
  /\ size \in 0 .. MaxAdds
  /\ next \in [Nodes -> Nodes \cup {NULL, Garbage}]
  /\ data \in [Nodes -> Values \cup {Garbage}]
  /\ lock \in Threads \cup {None}
  /\ pc \in [Threads -> States]
  /\ arg \in [Threads -> Indices]
  /\ node \in [Threads -> Nodes \cup {NULL}]
  /\ ret \in [Threads -> Indices \X (Values \cup {Nothing})]
  /\ added \in 0 .. MaxAdds

\* Whenever the lock is free, size counts the nodes from head on: the loops
\* that run to list->size see the whole list.
SizeIsLength == lock = None => size = Len(Chain)

\* An element is in the list when the size counts it, and no longer once its
\* node is unlinked.
Contents ==
  LET linked == IF \E t \in Threads : pc[t] = "grow" THEN Tail(Chain) ELSE Chain
  IN [k \in DOMAIN linked |-> data[linked[k]]]

\* The list implements one whose operations take effect at one instant, the
\* test of the size outside the lock included.
Atomic == INSTANCE IndexedList WITH items <- Contents, got <- ret
ListKept == Atomic!Spec

\* get_nth_element follows a null pointer only once a node was removed: the
\* size it read outside the lock is harmless while the list only grows, as in
\* both programs.
CrashNeedsRemoval ==
  (\E t \in Threads : pc[t] = "crashed") =>
    added > Cardinality({n \in Nodes : data[n] # Garbage})
=============================================================================
