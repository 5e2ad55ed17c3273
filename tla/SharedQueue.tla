----------------------------- MODULE SharedQueue -----------------------------
(***************************************************************************)
(* lib/queue.c: a linked queue with a mutex and a condition variable.  The *)
(* nodes live in a heap: malloc takes a free node, whose fields hold       *)
(* garbage, and free makes garbage of them again.  A step is a statement   *)
(* or the statements between two that another thread can see.              *)
(*                                                                         *)
(* bibserver pushes from its main thread and takes with non_blocking_pop;  *)
(* pop, which waits, is part of the library all the same.                  *)
(***************************************************************************)
EXTENDS Naturals, Sequences, FiniteSets, NodeChain

CONSTANTS
  Pushers,    \* threads that call push
  Poppers,    \* threads that call pop and non_blocking_pop
  Nodes,      \* bound: the nodes malloc can give
  NULL,       \* the null pointer
  Garbage,    \* a field of memory that malloc has not given, or free has taken
  None,       \* no owner of the mutex
  MaxPushes   \* bound: pushes of a behaviour; the value pushed is their number

Threads == Pushers \cup Poppers
Values == 1 .. MaxPushes
Nothing == 0   \* the NULL that non_blocking_pop returns

ASSUME QueueAssumption ==
  /\ Pushers \cap Poppers = {}
  /\ None \notin Threads
  /\ NULL \notin Nodes
  /\ Garbage \notin Nodes \cup {NULL} \cup Nat
  /\ MaxPushes \in Nat
  /\ IsFiniteSet(Nodes) /\ IsFiniteSet(Poppers)

VARIABLES
  head, tail,   \* q->head and q->tail
  next, data,   \* the fields of every node
  mutex,        \* owner of q->mutex
  cond,         \* threads that wait on q->cond
  pc,           \* where each thread is
  call,         \* the function it is in
  node,         \* its local variable n
  ret,          \* what its last call returned
  pushed        \* pushes so far

heapVars == <<next, data>>
vars == <<head, tail, heapVars, mutex, cond, pc, call, node, ret, pushed>>

States == {"idle", "lock", "link", "tail", "signal", "unlock",
           "take", "wait", "relock", "untail", "data", "gone"}

-----------------------------------------------------------------------------
Init ==
  /\ head = NULL
  /\ tail = NULL
  /\ next = [n \in Nodes |-> Garbage]
  /\ data = [n \in Nodes |-> Garbage]
  /\ mutex = None
  /\ cond = {}
  /\ pc = [t \in Threads |-> "idle"]
  /\ call = [t \in Threads |-> "none"]
  /\ node = [t \in Threads |-> NULL]
  /\ ret = [t \in Threads |-> Nothing]
  /\ pushed = 0

To(t, s) == pc' = [pc EXCEPT ![t] = s]

Allocated == {n \in Nodes : data[n] # Garbage}

MutantNoNext(n) == UNCHANGED next

ClearNext(n) == next' = [next EXCEPT ![n] = NULL]

\* push: a new node with its data, before the mutex is taken.
PushCall(t) ==
  /\ pc[t] = "idle" /\ t \in Pushers
  /\ pushed < MaxPushes
  /\ \E n \in Nodes \ Allocated :
       /\ node' = [node EXCEPT ![t] = n]
       /\ data' = [data EXCEPT ![n] = pushed + 1]
       /\ ClearNext(n)
  /\ pushed' = pushed + 1
  /\ call' = [call EXCEPT ![t] = "push"]
  /\ To(t, "lock")
  /\ UNCHANGED <<head, tail, mutex, cond, ret>>

PopCall(t) ==
  /\ pc[t] = "idle" /\ t \in Poppers
  /\ \E c \in {"pop", "non_blocking_pop"} : call' = [call EXCEPT ![t] = c]
  /\ To(t, "lock")
  /\ UNCHANGED <<head, tail, heapVars, mutex, cond, node, ret, pushed>>

Lock(t) ==
  /\ pc[t] = "lock"
  /\ mutex = None
  /\ mutex' = t
  /\ To(t, IF call[t] = "push" THEN "link" ELSE "take")
  /\ UNCHANGED <<head, tail, heapVars, cond, call, node, ret, pushed>>

MutantLinkFirst(t) ==
  /\ pc[t] = "link"
  /\ head' = node[t]
  /\ next' = [next EXCEPT ![node[t]] = head]
  /\ To(t, "tail")
  /\ UNCHANGED <<tail, data, mutex, cond, call, node, ret, pushed>>

\* The node becomes the first one, or the one after the last.
PushLink(t) ==
  /\ pc[t] = "link"
  /\ IF tail = NULL
     THEN head' = node[t] /\ UNCHANGED next
     ELSE next' = [next EXCEPT ![tail] = node[t]] /\ UNCHANGED head
  /\ To(t, "tail")
  /\ UNCHANGED <<tail, data, mutex, cond, call, node, ret, pushed>>

PushTail(t) ==
  /\ pc[t] = "tail"
  /\ tail' = node[t]
  /\ To(t, "signal")
  /\ UNCHANGED <<head, heapVars, mutex, cond, call, node, ret, pushed>>

MutantWasEmpty == cond # {} /\ next[head] = NULL
MutantNever == FALSE

\* pthread_cond_signal wakes a waiter if there is one.
SignalWakes == cond # {}

PushSignal(t) ==
  /\ pc[t] = "signal"
  /\ \/ /\ SignalWakes
        /\ \E w \in cond :
             /\ cond' = cond \ {w}
             /\ pc' = [pc EXCEPT ![w] = "relock", ![t] = "unlock"]
     \/ /\ ~SignalWakes
        /\ To(t, "unlock")
        /\ UNCHANGED cond
  /\ UNCHANGED <<head, tail, heapVars, mutex, call, node, ret, pushed>>

PushUnlock(t) ==
  /\ pc[t] = "unlock"
  /\ mutex' = None
  /\ To(t, "idle")
  /\ UNCHANGED <<head, tail, heapVars, cond, call, node, ret, pushed>>

\* pop of an empty queue: pthread_cond_wait gives the mutex back ...
PopWait(t) ==
  /\ pc[t] = "take" /\ call[t] = "pop"
  /\ head = NULL
  /\ mutex' = None
  /\ cond' = cond \cup {t}
  /\ To(t, "wait")
  /\ UNCHANGED <<head, tail, heapVars, call, node, ret, pushed>>

\* ... may return without a signal ...
SpuriousWake(t) ==
  /\ pc[t] = "wait"
  /\ cond' = cond \ {t}
  /\ To(t, "relock")
  /\ UNCHANGED <<head, tail, heapVars, mutex, call, node, ret, pushed>>

\* ... and takes the mutex again before the loop looks at the head again.
Relock(t) ==
  /\ pc[t] = "relock"
  /\ mutex = None
  /\ mutex' = t
  /\ To(t, "take")
  /\ UNCHANGED <<head, tail, heapVars, cond, call, node, ret, pushed>>

\* non_blocking_pop of an empty queue.
PopNothing(t) ==
  /\ pc[t] = "take" /\ call[t] = "non_blocking_pop"
  /\ head = NULL
  /\ mutex' = None
  /\ ret' = [ret EXCEPT ![t] = Nothing]
  /\ To(t, "idle")
  /\ UNCHANGED <<head, tail, heapVars, cond, call, node, pushed>>

MutantKeepsHead == UNCHANGED head

Advance == head' = next[head]

\* Both pops take the first node off the queue ...
TakeHead(t) ==
  /\ pc[t] = "take"
  /\ head # NULL
  /\ node' = [node EXCEPT ![t] = head]
  /\ Advance
  /\ To(t, "untail")
  /\ UNCHANGED <<tail, heapVars, mutex, cond, call, ret, pushed>>

MutantKeepsTail == UNCHANGED tail

ResetTail == tail' = IF head = NULL THEN NULL ELSE tail

\* ... reset the tail with the last one, and leave the mutex ...
TakeTail(t) ==
  /\ pc[t] = "untail"
  /\ ResetTail
  /\ mutex' = None
  /\ To(t, "data")
  /\ UNCHANGED <<head, heapVars, cond, call, node, ret, pushed>>

\* ... before they read its data and free it.
TakeData(t) ==
  /\ pc[t] = "data"
  /\ ret' = [ret EXCEPT ![t] = data[node[t]]]
  /\ next' = [next EXCEPT ![node[t]] = Garbage]
  /\ data' = [data EXCEPT ![node[t]] = Garbage]
  /\ To(t, "idle")
  /\ UNCHANGED <<head, tail, mutex, cond, call, node, pushed>>

\* destroy, once the other threads are joined: the nodes left are not freed.
Destroy ==
  /\ \A t \in Threads : pc[t] = "idle"
  /\ head' = NULL
  /\ tail' = NULL
  /\ pc' = [t \in Threads |-> "gone"]
  /\ UNCHANGED <<heapVars, mutex, cond, call, node, ret, pushed>>

Step(t) ==
  \/ Lock(t)
  \/ PushLink(t) \/ PushTail(t) \/ PushSignal(t) \/ PushUnlock(t)
  \/ PopWait(t) \/ Relock(t) \/ PopNothing(t)
  \/ TakeHead(t) \/ TakeTail(t) \/ TakeData(t)

\* The queue is destroyed, or every popper waits for a push that never comes.
Rest ==
  /\ \/ \A t \in Threads : pc[t] = "gone"
     \/ head = NULL /\ \A t \in Poppers : pc[t] = "wait"
  /\ UNCHANGED vars

Next ==
  \/ \E t \in Threads : PushCall(t) \/ PopCall(t) \/ Step(t) \/ SpuriousWake(t)
  \/ Destroy
  \/ Rest

Spec == Init /\ [][Next]_vars

\* A thread inside a call is run again and again; nobody has to call.
FairSpec == Spec /\ \A t \in Threads : WF_vars(Step(t))

-----------------------------------------------------------------------------
(* Properties. *)

\* Type invariant of the queue, its nodes and the threads: no pointer of the
\* queue is garbage.
TypeOK ==
  /\ head \in Nodes \cup {NULL}
  /\ tail \in Nodes \cup {NULL}
  /\ next \in [Nodes -> Nodes \cup {NULL, Garbage}]
  /\ data \in [Nodes -> Values \cup {Garbage}]
  /\ mutex \in Threads \cup {None}
  /\ cond \in SUBSET Poppers
  /\ pc \in [Threads -> States]
  /\ call \in [Threads -> {"none", "push", "pop", "non_blocking_pop"}]
  /\ node \in [Threads -> Nodes \cup {NULL}]
  /\ ret \in [Threads -> Values \cup {Nothing}]
  /\ pushed \in 0 .. MaxPushes

\* The nodes from head on, in order.
Chain == ChainOf(Nodes, head, next)

Contents == [k \in DOMAIN Chain |-> data[Chain[k]]]

\* A popper has its answer from the moment it took the node.
Received ==
  [t \in Poppers |->
     IF pc[t] \in {"untail", "data"} THEN data[node[t]] ELSE ret[t]]

\* The nodes, the pointers and the two pops implement a queue: every value
\* is delivered once and in order, and the answer read after the mutex was
\* released is the one that was first in the queue.
Fifo == INSTANCE FifoQueue WITH items <- Contents, got <- Received
FifoKept == Fifo!Spec

\* A thread between malloc and the link, or between the unlink and free, is
\* the only one that can reach its node, so the accesses outside the mutex
\* touch no node of the queue or of another thread.
Owns(t) == pc[t] \in {"lock", "link", "untail", "data"} /\ node[t] # NULL
             /\ (pc[t] = "lock" => call[t] = "push")

PrivateNodes ==
  \A t \in Threads : Owns(t) =>
    /\ node[t] \in Allocated
    /\ \A k \in DOMAIN Chain : Chain[k] # node[t]
    /\ \A u \in Threads : u # t /\ Owns(u) => node[u] # node[t]

\* Whenever the mutex is free, tail is the last node of the queue, and NULL
\* with an empty one: the next push never writes to a node that was freed.
TailIsLast ==
  mutex = None =>
    tail = IF Chain = <<>> THEN NULL ELSE Chain[Len(Chain)]

\* One signal per push is enough: while threads wait, as many woken ones are
\* on their way as there are values, whoever takes them first.
NoLostWakeup ==
  mutex = None /\ cond # {} =>
    Len(Chain) <= Cardinality({t \in Poppers : pc[t] = "relock"})

\* A queue with values does not keep a thread waiting for ever.
ValuesReachWaiters ==
  head # NULL /\ cond # {} ~> head = NULL \/ cond = {}
=============================================================================
