-------------------------- MODULE SharedQueueProofs ---------------------------
(***************************************************************************)
(* Proofs about SharedQueue, for every set of pushers, finite set of       *)
(* poppers and finite heap, and any number of pushes.                      *)
(***************************************************************************)
EXTENDS SharedQueue, NodeChainProofs

\* The program points between taking the mutex and giving it back.
InMutex == {"link", "tail", "signal", "unlock", "take", "untail"}

MutexInv == \A t \in Threads : mutex = t <=> pc[t] \in InMutex

\* Which threads are where, and in which call.
CallInv ==
  \A t \in Threads :
    /\ pc[t] \in {"link", "tail", "signal", "unlock"} => t \in Pushers /\ call[t] = "push"
    /\ pc[t] \in {"take", "wait", "relock", "untail", "data"} => t \in Poppers
    /\ pc[t] = "lock" => (t \in Pushers <=> call[t] = "push")
    /\ pc[t] = "wait" <=> t \in cond

\* A node is given or free as a whole.
HeapInv == \A n \in Nodes : data[n] = Garbage <=> next[n] = Garbage

\* The queue is a chain of nodes that were given.
ChainInv ==
  /\ IsChain(Nodes, head, next, Chain)
  /\ \A n \in Nodes : On(Chain, n) => data[n] # Garbage

\* A thread that has a node of its own: before the link and after the unlink.
Holds(t) ==
  \/ pc[t] \in {"link", "untail", "data"}
  \/ pc[t] = "lock" /\ call[t] = "push"

HoldInv ==
  \A t \in Threads : Holds(t) =>
    /\ node[t] \in Nodes
    /\ data[node[t]] # Garbage
    /\ ~On(Chain, node[t])
    /\ pc[t] \in {"lock", "link"} => next[node[t]] = NULL
    /\ \A u \in Threads : u # t /\ Holds(u) => node[u] # node[t]

LastOf(q) == IF q = <<>> THEN NULL ELSE q[Len(q)]

\* The tail is right but between the two assignments of a push or of a pop.
TailInv ==
  /\ (\A t \in Threads : pc[t] \notin {"tail", "untail"}) => tail = LastOf(Chain)
  /\ \A t \in Threads :
       /\ pc[t] = "tail" => Chain # <<>> /\ node[t] = LastOf(Chain)
       /\ pc[t] = "untail" /\ Chain # <<>> => tail = LastOf(Chain)

IInv ==
  /\ TypeOK
  /\ MutexInv
  /\ CallInv
  /\ HeapInv
  /\ ChainInv
  /\ HoldInv
  /\ TailInv

-----------------------------------------------------------------------------
(* The chain, step by step. *)

\* The ends of the chain.
LEMMA Ends ==
  ASSUME TypeOK, ChainInv
  PROVE  /\ head = NULL <=> Chain = <<>>
         /\ head # NULL => head \in Nodes /\ On(Chain, head)
         /\ LastOf(Chain) = NULL <=> Chain = <<>>
         /\ Chain # <<>> => LastOf(Chain) \in Nodes /\ On(Chain, LastOf(Chain))
<1>1. /\ Chain = <<>> => head \notin Nodes
      /\ Chain # <<>> => head \in Nodes /\ On(Chain, head) /\ On(Chain, Chain[Len(Chain)])
      /\ Chain # <<>> => Chain[Len(Chain)] \in Nodes
  <2>1. /\ Chain = <<>> <=> Len(Chain) = 0
        /\ Len(Chain) \in Nat
        /\ \A k \in 1 .. Len(Chain) : Chain[k] \in Nodes
        /\ Chain = <<>> => head \notin Nodes
        /\ Chain # <<>> => head \in Nodes /\ On(Chain, head) /\ On(Chain, Chain[Len(Chain)])
    BY ChainFacts DEF ChainInv
  <2>2. Chain # <<>> => Len(Chain) \in 1 .. Len(Chain)
    BY <2>1
  <2> QED  BY <2>1, <2>2
<1> QED  BY <1>1, QueueAssumption DEF TypeOK, LastOf

\* A thread that is alone with the mutex finds the tail right.
LEMMA TailAtLink ==
  ASSUME MutexInv, TailInv, NEW t \in Threads, pc[t] \in {"link", "signal", "unlock", "take"}
  PROVE  tail = LastOf(Chain)
<1>1. \A u \in Threads : u # t => pc[u] \notin {"tail", "untail"}
  BY DEF MutexInv, InMutex
<1> QED  BY <1>1 DEF TailInv

LEMMA ChainStays ==
  ASSUME ChainInv, UNCHANGED <<head, next>>
  PROVE  Chain' = Chain /\ IsChain(Nodes, head', next', Chain')
BY DEF Chain, ChainInv

LEMMA ChainAtPushCall ==
  ASSUME TypeOK, ChainInv, NEW t \in Threads, PushCall(t)
  PROVE  /\ Chain' = Chain /\ IsChain(Nodes, head', next', Chain')
         /\ node'[t] \in Nodes \ Allocated /\ ~On(Chain, node'[t])
<1>1. PICK n \in Nodes \ Allocated : /\ node' = [node EXCEPT ![t] = n]
                                     /\ next' = [next EXCEPT ![n] = NULL]
  BY DEF PushCall, ClearNext
<1>2. ~On(Chain, n)
  BY <1>1 DEF ChainInv, Allocated
<1>3. \A m \in Nodes : On(Chain, m) => next'[m] = next[m]
  BY <1>1, <1>2 DEF TypeOK
<1>4. IsChain(Nodes, head, next', Chain)
  BY <1>3, ChainFrame DEF ChainInv
<1>5. Chain' = Chain
  BY <1>4, ChainIs, QueueAssumption DEF Chain, PushCall
<1> QED  BY <1>1, <1>2, <1>4, <1>5 DEF PushCall, TypeOK

LEMMA ChainAtLink ==
  ASSUME IInv, NEW t \in Threads, PushLink(t)
  PROVE  /\ Chain' = Append(Chain, node[t])
         /\ IsChain(Nodes, head', next', Chain')
         /\ \A n : On(Chain', n) <=> On(Chain, n) \/ n = node[t]
         /\ LastOf(Chain') = node[t] /\ Chain' # <<>>
<1> USE DEF PushLink
<1>1. /\ node[t] \in Nodes /\ ~On(Chain, node[t]) /\ next[node[t]] = NULL
      /\ tail = LastOf(Chain) /\ NULL \notin Nodes /\ IsFiniteSet(Nodes)
      /\ IsChain(Nodes, head, next, Chain)
  BY TailAtLink, QueueAssumption DEF IInv, HoldInv, Holds, ChainInv
<1>2. CASE tail = NULL
  <2>1. Chain = <<>> /\ head' = node[t] /\ next' = next
    BY <1>1, <1>2, Ends DEF IInv
  <2>2. IsChain(Nodes, head', next', <<node[t]>>) /\ \A n : On(<<node[t]>>, n) <=> n = node[t]
    BY <1>1, <2>1, ChainStart
  <2>3. Chain' = <<node[t]>> /\ Append(Chain, node[t]) = <<node[t]>>
    BY <1>1, <2>1, <2>2, ChainIs DEF Chain
  <2>4. \A n : ~On(Chain, n)
    BY <2>1 DEF On
  <2>5. LastOf(<<node[t]>>) = node[t] /\ <<node[t]>> # <<>>
    BY DEF LastOf
  <2> QED  BY <2>2, <2>3, <2>4, <2>5
<1>3. CASE tail # NULL
  <2>1. Chain # <<>> /\ Chain[Len(Chain)] = tail /\ tail \in Nodes
    BY <1>1, <1>3, Ends DEF IInv, LastOf
  <2>2. /\ head' = head /\ next'[tail] = node[t]
        /\ \A m \in Nodes : m # tail => next'[m] = next[m]
    BY <1>3, <2>1 DEF IInv, TypeOK
  <2>3. /\ IsChain(Nodes, head', next', Append(Chain, node[t]))
        /\ \A n : On(Append(Chain, node[t]), n) <=> On(Chain, n) \/ n = node[t]
        /\ Append(Chain, node[t])[Len(Chain) + 1] = node[t]
        /\ Len(Append(Chain, node[t])) = Len(Chain) + 1
    BY <1>1, <2>1, <2>2, ChainAppend
  <2>4. Chain' = Append(Chain, node[t])
    BY <1>1, <2>3, ChainIs DEF Chain
  <2>5. Append(Chain, node[t]) # <<>>
    BY <2>3 DEF On
  <2> QED  BY <2>3, <2>4, <2>5 DEF LastOf
<1> QED  BY <1>2, <1>3

LEMMA ChainAtTake ==
  ASSUME IInv, NEW t \in Threads, TakeHead(t)
  PROVE  /\ Chain # <<>> /\ Chain' = Tail(Chain) /\ head = Chain[1]
         /\ IsChain(Nodes, head', next', Chain')
         /\ \A n : On(Chain', n) <=> On(Chain, n) /\ n # head
         /\ head' \in Nodes \cup {NULL}
         /\ Chain' # <<>> => LastOf(Chain') = LastOf(Chain)
<1>a. head' = next[head] /\ next' = next /\ head # NULL
  BY DEF TakeHead, Advance, heapVars
<1>b. NULL \notin Nodes /\ IsFiniteSet(Nodes)
  BY QueueAssumption
<1>1. Chain # <<>> /\ head \in Nodes /\ On(Chain, head) /\ IsChain(Nodes, head, next, Chain)
  BY <1>a, Ends DEF IInv, ChainInv
<1>2. next[head] \in Nodes \cup {NULL}
  BY <1>1 DEF IInv, ChainInv, HeapInv, TypeOK
<1>3. /\ IsChain(Nodes, next[head], next, Tail(Chain))
      /\ Len(Tail(Chain)) = Len(Chain) - 1
      /\ Tail(Chain) # <<>> => Tail(Chain)[Len(Chain) - 1] = Chain[Len(Chain)]
      /\ \A n : On(Tail(Chain), n) <=> On(Chain, n) /\ n # head
  BY <1>1, ChainTail
<1>4. Chain' = Tail(Chain)
  <2>1. ChainOf(Nodes, next[head], next) = Tail(Chain)
    BY <1>3, <1>b, ChainIs
  <2> QED  BY <2>1, <1>a DEF Chain
<1>5. head = Chain[1]
  BY <1>1, ChainFacts
<1>6. Tail(Chain) # <<>> => LastOf(Tail(Chain)) = LastOf(Chain)
  BY <1>1, <1>3 DEF LastOf
<1>7. IsChain(Nodes, head', next', Tail(Chain))
  BY <1>a, <1>3
<1> QED  BY <1>a, <1>1, <1>2, <1>3, <1>4, <1>5, <1>6, <1>7

LEMMA ChainAtFree ==
  ASSUME IInv, NEW t \in Threads, TakeData(t)
  PROVE  Chain' = Chain /\ IsChain(Nodes, head', next', Chain')
<1> USE DEF TakeData
<1>1. node[t] \in Nodes /\ ~On(Chain, node[t])
  BY DEF IInv, HoldInv, Holds
<1>2. \A m \in Nodes : On(Chain, m) => next'[m] = next[m]
  BY <1>1 DEF IInv, TypeOK
<1>3. IsChain(Nodes, head, next', Chain)
  BY <1>2, ChainFrame DEF IInv, ChainInv
<1> QED  BY <1>3, ChainIs, QueueAssumption DEF Chain

LEMMA ChainAtDestroy ==
  ASSUME Destroy
  PROVE  Chain' = <<>> /\ IsChain(Nodes, head', next', Chain') /\ \A n : ~On(Chain', n)
<1>1. IsChain(Nodes, head', next', <<>>)
  BY QueueAssumption DEF Destroy, IsChain, Distinct, Follows
<1>2. Chain' = <<>>
  BY <1>1, ChainIs, QueueAssumption DEF Chain
<1> QED  BY <1>1, <1>2 DEF On

-----------------------------------------------------------------------------
(* One lemma per action: every conjunct is kept. *)

LEMMA PushCallKeeps ==
  ASSUME IInv, NEW t \in Threads, PushCall(t)
  PROVE  IInv'
<1> USE DEF PushCall, To, ClearNext
<1>n. PICK n \in Nodes \ Allocated :
        /\ node' = [node EXCEPT ![t] = n]
        /\ data' = [data EXCEPT ![n] = pushed + 1]
        /\ next' = [next EXCEPT ![n] = NULL]
  OBVIOUS
<1>p. /\ pushed + 1 \in Values /\ pushed + 1 \in 0 .. MaxPushes /\ pushed + 1 # Garbage
      /\ n \in Nodes /\ data[n] = Garbage /\ NULL # Garbage
  <2>1. pushed \in Nat /\ MaxPushes \in Nat /\ pushed < MaxPushes
    BY QueueAssumption DEF IInv, TypeOK
  <2>2. pushed + 1 \in Values /\ pushed + 1 \in 0 .. MaxPushes /\ pushed + 1 \in Nat
    BY <2>1 DEF Values
  <2> QED  BY <2>2, QueueAssumption DEF Allocated
<1>d. Chain' = Chain /\ IsChain(Nodes, head', next', Chain') /\ ~On(Chain, n)
  BY <1>n, ChainAtPushCall DEF IInv, TypeOK
<1>1. TypeOK'
  BY <1>n, <1>p DEF IInv, TypeOK, States, Threads
<1>2. MutexInv'
  BY QueueAssumption DEF IInv, TypeOK, MutexInv, InMutex
<1>3. CallInv'
  BY QueueAssumption DEF IInv, TypeOK, MutexInv, InMutex, CallInv, Threads
<1>4. HeapInv'
  BY <1>n, <1>p DEF IInv, TypeOK, HeapInv
<1>5. ChainInv'
  BY <1>n, <1>p, <1>d DEF IInv, TypeOK, ChainInv
<1>6. HoldInv'
  <2>1. \A u \in Threads : u # t /\ Holds(u)' =>
          /\ Holds(u) /\ node'[u] = node[u] /\ node[u] \in Nodes /\ data[node[u]] # Garbage
          /\ node[u] # n /\ ~On(Chain, node[u])
          /\ pc'[u] \in {"lock", "link"} => next[node[u]] = NULL
    BY <1>n, <1>p DEF IInv, TypeOK, HoldInv, Holds
  <2>2. \A u, v \in Threads : Holds(u) /\ Holds(v) /\ u # v => node[u] # node[v]
    BY DEF IInv, HoldInv
  <2>3. node'[t] = n /\ data'[n] # Garbage /\ next'[n] = NULL
        /\ \A m \in Nodes : m # n => data'[m] = data[m] /\ next'[m] = next[m]
    BY <1>n, <1>p DEF IInv, TypeOK
  <2> QED  BY <2>1, <2>2, <2>3, <1>p, <1>d DEF HoldInv
<1>7. TailInv'
  BY ChainAtPushCall, TailAtLink DEF IInv, TypeOK, TailInv, MutexInv, InMutex
<1> QED  BY <1>1, <1>2, <1>3, <1>4, <1>5, <1>6, <1>7 DEF IInv

LEMMA PopCallKeeps ==
  ASSUME IInv, NEW t \in Threads, PopCall(t)
  PROVE  IInv'
<1> USE DEF PopCall, To, heapVars
<1>c. Chain' = Chain /\ IsChain(Nodes, head', next', Chain')
  BY ChainStays DEF IInv
<1>1. TypeOK'
  BY DEF IInv, TypeOK, States, Threads
<1>2. MutexInv'
  BY QueueAssumption DEF IInv, TypeOK, MutexInv, InMutex
<1>3. CallInv'
  BY QueueAssumption DEF IInv, TypeOK, MutexInv, InMutex, CallInv, Threads
<1>4. HeapInv'
  BY QueueAssumption DEF IInv, TypeOK, HeapInv, HoldInv, Holds, Values
<1>5. ChainInv'
  BY <1>c DEF IInv, TypeOK, ChainInv, HoldInv, Holds
<1>6. HoldInv'
  BY <1>c DEF IInv, TypeOK, HoldInv, Holds, CallInv
<1>7. TailInv'
  BY <1>c, TailAtLink DEF IInv, TypeOK, TailInv, MutexInv, InMutex
<1> QED  BY <1>1, <1>2, <1>3, <1>4, <1>5, <1>6, <1>7 DEF IInv

LEMMA LockKeeps ==
  ASSUME IInv, NEW t \in Threads, Lock(t)
  PROVE  IInv'
<1> USE DEF Lock, To, heapVars
<1>c. Chain' = Chain /\ IsChain(Nodes, head', next', Chain')
  BY ChainStays DEF IInv
<1>1. TypeOK'
  BY DEF IInv, TypeOK, States, Threads
<1>2. MutexInv'
  BY QueueAssumption DEF IInv, TypeOK, MutexInv, InMutex
<1>3. CallInv'
  BY QueueAssumption DEF IInv, TypeOK, MutexInv, InMutex, CallInv, Threads
<1>4. HeapInv'
  BY QueueAssumption DEF IInv, TypeOK, HeapInv, HoldInv, Holds, Values
<1>5. ChainInv'
  BY <1>c DEF IInv, TypeOK, ChainInv, HoldInv, Holds
<1>6. HoldInv'
  BY <1>c DEF IInv, TypeOK, HoldInv, Holds, CallInv
<1>7. TailInv'
  BY <1>c, TailAtLink DEF IInv, TypeOK, TailInv, MutexInv, InMutex
<1> QED  BY <1>1, <1>2, <1>3, <1>4, <1>5, <1>6, <1>7 DEF IInv

LEMMA PushLinkKeeps ==
  ASSUME IInv, NEW t \in Threads, PushLink(t)
  PROVE  IInv'
<1> USE DEF PushLink, To
<1>t. /\ tail # NULL => tail \in Nodes /\ On(Chain, tail) /\ data[tail] # Garbage
      /\ node[t] \in Nodes /\ node[t] # Garbage
      /\ \A m \in Nodes : ~On(Chain, m) => next'[m] = next[m]
  <2>1. tail = LastOf(Chain) /\ node[t] \in Nodes
    BY TailAtLink DEF IInv, HoldInv, Holds
  <2>2. tail # NULL => tail \in Nodes /\ On(Chain, tail)
    BY <2>1, Ends DEF IInv
  <2> QED  BY <2>1, <2>2, QueueAssumption DEF IInv, TypeOK, ChainInv
<1>1. TypeOK'
  BY ChainAtLink DEF IInv, TypeOK, States, Threads
<1>2. MutexInv'
  BY QueueAssumption DEF IInv, TypeOK, MutexInv, InMutex
<1>3. CallInv'
  BY QueueAssumption DEF IInv, TypeOK, MutexInv, InMutex, CallInv, Threads
<1>4. HeapInv'
  BY <1>t DEF IInv, TypeOK, HeapInv
<1>5. ChainInv'
  BY ChainAtLink DEF IInv, TypeOK, ChainInv, HoldInv, Holds
<1>6. HoldInv'
  <2>1. \A u \in Threads : Holds(u)' =>
          /\ u # t /\ Holds(u) /\ node'[u] = node[u] /\ data' = data /\ node[u] \in Nodes
          /\ pc'[u] = pc[u] /\ ~On(Chain, node[u]) /\ node[u] # node[t]
    BY DEF IInv, TypeOK, HoldInv, Holds
  <2>2. \A n : On(Chain', n) <=> On(Chain, n) \/ n = node[t]
    BY ChainAtLink
  <2> QED  BY <2>1, <2>2, <1>t DEF IInv, HoldInv
<1>7. TailInv'
  BY ChainAtLink, TailAtLink DEF IInv, TypeOK, TailInv, MutexInv, InMutex
<1> QED  BY <1>1, <1>2, <1>3, <1>4, <1>5, <1>6, <1>7 DEF IInv

LEMMA PushTailKeeps ==
  ASSUME IInv, NEW t \in Threads, PushTail(t)
  PROVE  IInv'
<1> USE DEF PushTail, To, heapVars
<1>c. Chain' = Chain /\ IsChain(Nodes, head', next', Chain')
  BY ChainStays DEF IInv
<1>1. TypeOK'
  BY DEF IInv, TypeOK, States, Threads
<1>2. MutexInv'
  BY QueueAssumption DEF IInv, TypeOK, MutexInv, InMutex
<1>3. CallInv'
  BY QueueAssumption DEF IInv, TypeOK, MutexInv, InMutex, CallInv, Threads
<1>4. HeapInv'
  BY QueueAssumption DEF IInv, TypeOK, HeapInv, HoldInv, Holds, Values
<1>5. ChainInv'
  BY <1>c DEF IInv, TypeOK, ChainInv, HoldInv, Holds
<1>6. HoldInv'
  BY <1>c DEF IInv, TypeOK, HoldInv, Holds, CallInv
<1>7. TailInv'
  BY <1>c, TailAtLink DEF IInv, TypeOK, TailInv, MutexInv, InMutex
<1> QED  BY <1>1, <1>2, <1>3, <1>4, <1>5, <1>6, <1>7 DEF IInv

LEMMA PushSignalKeeps ==
  ASSUME IInv, NEW t \in Threads, PushSignal(t)
  PROVE  IInv'
<1> USE DEF PushSignal, To, SignalWakes, heapVars
<1>c. Chain' = Chain /\ IsChain(Nodes, head', next', Chain')
  BY ChainStays DEF IInv
<1>1. TypeOK'
  BY DEF IInv, TypeOK, States, Threads
<1>2. MutexInv'
  BY QueueAssumption DEF IInv, TypeOK, MutexInv, InMutex
<1>3. CallInv'
  BY QueueAssumption DEF IInv, TypeOK, MutexInv, InMutex, CallInv, Threads
<1>4. HeapInv'
  BY QueueAssumption DEF IInv, TypeOK, HeapInv, HoldInv, Holds, Values
<1>5. ChainInv'
  BY <1>c DEF IInv, TypeOK, ChainInv, HoldInv, Holds
<1>6. HoldInv'
  BY <1>c DEF IInv, TypeOK, HoldInv, Holds, CallInv
<1>7. TailInv'
  BY <1>c, TailAtLink DEF IInv, TypeOK, TailInv, MutexInv, InMutex
<1> QED  BY <1>1, <1>2, <1>3, <1>4, <1>5, <1>6, <1>7 DEF IInv

LEMMA PushUnlockKeeps ==
  ASSUME IInv, NEW t \in Threads, PushUnlock(t)
  PROVE  IInv'
<1> USE DEF PushUnlock, To, heapVars
<1>c. Chain' = Chain /\ IsChain(Nodes, head', next', Chain')
  BY ChainStays DEF IInv
<1>1. TypeOK'
  BY DEF IInv, TypeOK, States, Threads
<1>2. MutexInv'
  BY QueueAssumption DEF IInv, TypeOK, MutexInv, InMutex
<1>3. CallInv'
  BY QueueAssumption DEF IInv, TypeOK, MutexInv, InMutex, CallInv, Threads
<1>4. HeapInv'
  BY QueueAssumption DEF IInv, TypeOK, HeapInv, HoldInv, Holds, Values
<1>5. ChainInv'
  BY <1>c DEF IInv, TypeOK, ChainInv, HoldInv, Holds
<1>6. HoldInv'
  BY <1>c DEF IInv, TypeOK, HoldInv, Holds, CallInv
<1>7. TailInv'
  BY <1>c, TailAtLink DEF IInv, TypeOK, TailInv, MutexInv, InMutex
<1> QED  BY <1>1, <1>2, <1>3, <1>4, <1>5, <1>6, <1>7 DEF IInv

LEMMA PopWaitKeeps ==
  ASSUME IInv, NEW t \in Threads, PopWait(t)
  PROVE  IInv'
<1> USE DEF PopWait, To, heapVars
<1>c. Chain' = Chain /\ IsChain(Nodes, head', next', Chain')
  BY ChainStays DEF IInv
<1>1. TypeOK'
  BY DEF IInv, TypeOK, CallInv, States, Threads
<1>2. MutexInv'
  BY QueueAssumption DEF IInv, TypeOK, MutexInv, InMutex
<1>3. CallInv'
  BY QueueAssumption DEF IInv, TypeOK, MutexInv, InMutex, CallInv, Threads
<1>4. HeapInv'
  BY QueueAssumption DEF IInv, TypeOK, HeapInv, HoldInv, Holds, Values
<1>5. ChainInv'
  BY <1>c DEF IInv, TypeOK, ChainInv, HoldInv, Holds
<1>6. HoldInv'
  BY <1>c DEF IInv, TypeOK, HoldInv, Holds, CallInv
<1>7. TailInv'
  BY <1>c, TailAtLink DEF IInv, TypeOK, TailInv, MutexInv, InMutex
<1> QED  BY <1>1, <1>2, <1>3, <1>4, <1>5, <1>6, <1>7 DEF IInv

LEMMA RelockKeeps ==
  ASSUME IInv, NEW t \in Threads, Relock(t)
  PROVE  IInv'
<1> USE DEF Relock, To, heapVars
<1>c. Chain' = Chain /\ IsChain(Nodes, head', next', Chain')
  BY ChainStays DEF IInv
<1>1. TypeOK'
  BY DEF IInv, TypeOK, States, Threads
<1>2. MutexInv'
  BY QueueAssumption DEF IInv, TypeOK, MutexInv, InMutex
<1>3. CallInv'
  BY QueueAssumption DEF IInv, TypeOK, MutexInv, InMutex, CallInv, Threads
<1>4. HeapInv'
  BY QueueAssumption DEF IInv, TypeOK, HeapInv, HoldInv, Holds, Values
<1>5. ChainInv'
  BY <1>c DEF IInv, TypeOK, ChainInv, HoldInv, Holds
<1>6. HoldInv'
  BY <1>c DEF IInv, TypeOK, HoldInv, Holds, CallInv
<1>7. TailInv'
  BY <1>c, TailAtLink DEF IInv, TypeOK, TailInv, MutexInv, InMutex
<1> QED  BY <1>1, <1>2, <1>3, <1>4, <1>5, <1>6, <1>7 DEF IInv

LEMMA PopNothingKeeps ==
  ASSUME IInv, NEW t \in Threads, PopNothing(t)
  PROVE  IInv'
<1> USE DEF PopNothing, To, heapVars
<1>c. Chain' = Chain /\ IsChain(Nodes, head', next', Chain')
  BY ChainStays DEF IInv
<1>1. TypeOK'
  BY DEF IInv, TypeOK, States, Threads
<1>2. MutexInv'
  BY QueueAssumption DEF IInv, TypeOK, MutexInv, InMutex
<1>3. CallInv'
  BY QueueAssumption DEF IInv, TypeOK, MutexInv, InMutex, CallInv, Threads
<1>4. HeapInv'
  BY QueueAssumption DEF IInv, TypeOK, HeapInv, HoldInv, Holds, Values
<1>5. ChainInv'
  BY <1>c DEF IInv, TypeOK, ChainInv, HoldInv, Holds
<1>6. HoldInv'
  BY <1>c DEF IInv, TypeOK, HoldInv, Holds, CallInv
<1>7. TailInv'
  BY <1>c, TailAtLink DEF IInv, TypeOK, TailInv, MutexInv, InMutex
<1> QED  BY <1>1, <1>2, <1>3, <1>4, <1>5, <1>6, <1>7 DEF IInv

LEMMA TakeHeadKeeps ==
  ASSUME IInv, NEW t \in Threads, TakeHead(t)
  PROVE  IInv'
<1> USE DEF TakeHead, To, Advance, heapVars
<1>1. TypeOK'
  BY ChainAtTake DEF IInv, TypeOK, States, Threads
<1>2. MutexInv'
  BY QueueAssumption DEF IInv, TypeOK, MutexInv, InMutex
<1>3. CallInv'
  BY QueueAssumption DEF IInv, TypeOK, MutexInv, InMutex, CallInv, Threads
<1>4. HeapInv'
  BY QueueAssumption DEF IInv, TypeOK, HeapInv, HoldInv, Holds, Values
<1>5. ChainInv'
  BY ChainAtTake DEF IInv, TypeOK, ChainInv, HoldInv, Holds
<1>6. HoldInv'
  <2>1. /\ head \in Nodes /\ On(Chain, head) /\ data[head] # Garbage
        /\ \A n : On(Chain', n) <=> On(Chain, n) /\ n # head
    BY ChainAtTake, Ends DEF IInv, ChainInv
  <2>2. \A u \in Threads : u # t /\ Holds(u)' =>
          /\ Holds(u) /\ node'[u] = node[u] /\ node[u] # head /\ pc'[u] = pc[u]
    BY <2>1 DEF IInv, TypeOK, HoldInv, Holds
  <2>3. node'[t] = head /\ pc'[t] = "untail" /\ data' = data /\ next' = next
    BY DEF IInv, TypeOK, heapVars
  <2> QED  BY <2>1, <2>2, <2>3 DEF IInv, HoldInv
<1>7. TailInv'
  BY ChainAtTake, TailAtLink DEF IInv, TypeOK, TailInv, MutexInv, InMutex
<1> QED  BY <1>1, <1>2, <1>3, <1>4, <1>5, <1>6, <1>7 DEF IInv

LEMMA TakeTailKeeps ==
  ASSUME IInv, NEW t \in Threads, TakeTail(t)
  PROVE  IInv'
<1> USE DEF TakeTail, To, ResetTail, heapVars
<1>c. Chain' = Chain /\ IsChain(Nodes, head', next', Chain')
  BY ChainStays DEF IInv
<1>1. TypeOK'
  BY DEF IInv, TypeOK, States, Threads
<1>2. MutexInv'
  BY QueueAssumption DEF IInv, TypeOK, MutexInv, InMutex
<1>3. CallInv'
  BY QueueAssumption DEF IInv, TypeOK, MutexInv, InMutex, CallInv, Threads
<1>4. HeapInv'
  BY QueueAssumption DEF IInv, TypeOK, HeapInv, HoldInv, Holds, Values
<1>5. ChainInv'
  BY <1>c DEF IInv, TypeOK, ChainInv, HoldInv, Holds
<1>6. HoldInv'
  BY <1>c DEF IInv, TypeOK, HoldInv, Holds, CallInv
<1>7. TailInv'
  <2>1. \A u \in Threads : u # t => pc[u] \notin InMutex
    BY DEF IInv, MutexInv, InMutex
  <2>2. tail' = LastOf(Chain)
    BY Ends DEF IInv, TailInv, LastOf
  <2> QED  BY <1>c, <2>1, <2>2 DEF IInv, TypeOK, TailInv, InMutex
<1> QED  BY <1>1, <1>2, <1>3, <1>4, <1>5, <1>6, <1>7 DEF IInv

LEMMA TakeDataKeeps ==
  ASSUME IInv, NEW t \in Threads, TakeData(t)
  PROVE  IInv'
<1> USE DEF TakeData, To
<1>1. TypeOK'
  BY ChainAtFree DEF IInv, TypeOK, States, Threads, Values, HoldInv, Holds
<1>2. MutexInv'
  BY QueueAssumption DEF IInv, TypeOK, MutexInv, InMutex
<1>3. CallInv'
  BY QueueAssumption DEF IInv, TypeOK, MutexInv, InMutex, CallInv, Threads
<1>4. HeapInv'
  BY QueueAssumption DEF IInv, TypeOK, HeapInv, HoldInv, Holds, Values
<1>5. ChainInv'
  BY ChainAtFree DEF IInv, TypeOK, ChainInv, HoldInv, Holds
<1>6. HoldInv'
  BY ChainAtFree DEF IInv, TypeOK, HoldInv, Holds, CallInv
<1>7. TailInv'
  BY ChainAtFree, TailAtLink DEF IInv, TypeOK, TailInv, MutexInv, InMutex
<1> QED  BY <1>1, <1>2, <1>3, <1>4, <1>5, <1>6, <1>7 DEF IInv

LEMMA SpuriousWakeKeeps ==
  ASSUME IInv, NEW t \in Threads, SpuriousWake(t)
  PROVE  IInv'
<1> USE DEF SpuriousWake, To, heapVars
<1>c. Chain' = Chain /\ IsChain(Nodes, head', next', Chain')
  BY ChainStays DEF IInv
<1>1. TypeOK'
  BY DEF IInv, TypeOK, States, Threads
<1>2. MutexInv'
  BY QueueAssumption DEF IInv, TypeOK, MutexInv, InMutex
<1>3. CallInv'
  BY QueueAssumption DEF IInv, TypeOK, MutexInv, InMutex, CallInv, Threads
<1>4. HeapInv'
  BY QueueAssumption DEF IInv, TypeOK, HeapInv, HoldInv, Holds, Values
<1>5. ChainInv'
  BY <1>c DEF IInv, TypeOK, ChainInv, HoldInv, Holds
<1>6. HoldInv'
  BY <1>c DEF IInv, TypeOK, HoldInv, Holds, CallInv
<1>7. TailInv'
  BY <1>c, TailAtLink DEF IInv, TypeOK, TailInv, MutexInv, InMutex
<1> QED  BY <1>1, <1>2, <1>3, <1>4, <1>5, <1>6, <1>7 DEF IInv

LEMMA DestroyKeeps ==
  ASSUME IInv, Destroy
  PROVE  IInv'
<1> USE DEF Destroy, heapVars
<1>c. Chain' = <<>> /\ IsChain(Nodes, head', next', Chain') /\ \A n : ~On(Chain', n)
  BY ChainAtDestroy
<1>1. TypeOK'
  BY DEF IInv, TypeOK, States
<1>2. MutexInv' /\ CallInv' /\ HeapInv' /\ HoldInv'
  BY DEF IInv, MutexInv, CallInv, HeapInv, HoldInv, Holds, InMutex
<1>3. ChainInv' /\ TailInv'
  BY <1>c DEF ChainInv, TailInv, LastOf
<1> QED  BY <1>1, <1>2, <1>3 DEF IInv

LEMMA InitInv == Init => IInv
<1> SUFFICES ASSUME Init PROVE IInv
  OBVIOUS
<1> USE DEF Init
<1>1. IsChain(Nodes, head, next, <<>>) /\ \A n : ~On(<<>>, n)
  BY QueueAssumption DEF IsChain, Distinct, Follows, On
<1>2. Chain = <<>>
  BY <1>1, ChainIs, QueueAssumption DEF Chain
<1>3. TypeOK
  BY QueueAssumption DEF TypeOK, States
<1>4. MutexInv /\ CallInv /\ HeapInv /\ HoldInv
  BY QueueAssumption DEF MutexInv, CallInv, HeapInv, HoldInv, Holds, InMutex
<1>5. ChainInv /\ TailInv
  BY <1>1, <1>2 DEF ChainInv, TailInv, LastOf
<1> QED  BY <1>3, <1>4, <1>5 DEF IInv

LEMMA StepInv == IInv /\ [Next]_vars => IInv'
<1> SUFFICES ASSUME IInv, [Next]_vars PROVE IInv'
  OBVIOUS
<1>1. ASSUME NEW t \in Threads, PushCall(t) \/ PopCall(t) \/ Step(t) \/ SpuriousWake(t)
      PROVE  IInv'
  BY <1>1, PushCallKeeps, PopCallKeeps, LockKeeps, PushLinkKeeps, PushTailKeeps,
     PushSignalKeeps, PushUnlockKeeps, PopWaitKeeps, RelockKeeps, PopNothingKeeps,
     TakeHeadKeeps, TakeTailKeeps, TakeDataKeeps, SpuriousWakeKeeps DEF Step
<1>2. ASSUME UNCHANGED vars PROVE IInv'
  <2>1. UNCHANGED <<head, tail, next, data, mutex, cond, pc, call, node, ret, pushed>>
    BY <1>2 DEF vars, heapVars
  <2>2. Chain' = Chain
    BY <2>1, ChainStays DEF IInv
  <2> QED  BY <2>1, <2>2 DEF IInv, TypeOK, MutexInv, CallInv, HeapInv, ChainInv, HoldInv, Holds,
                           TailInv
<1> QED  BY <1>1, <1>2, DestroyKeeps DEF Next, Rest

\* The inductive invariant holds in every behaviour.
THEOREM Inductive == Spec => []IInv
BY InitInv, StepInv, PTL DEF Spec

\* No pointer of the queue is ever garbage, and every thread is at a known
\* statement: nothing that the queue follows was freed.
THEOREM TypeCorrect == Spec => []TypeOK
<1>1. IInv => TypeOK
  BY DEF IInv
<1> QED  BY <1>1, Inductive, PTL

\* The accesses outside the mutex (data and next of a new node, data and free
\* of an unlinked one) touch no node of the queue or of another thread.
THEOREM PrivateNodesHolds == Spec => []PrivateNodes
<1>1. IInv => PrivateNodes
  BY DEF IInv, HoldInv, Holds, PrivateNodes, Owns, Allocated, On
<1> QED  BY <1>1, Inductive, PTL

\* Whenever the mutex is free, the tail is the last node of the queue.
THEOREM TailIsLastHolds == Spec => []TailIsLast
<1>1. IInv => TailIsLast
  <2> SUFFICES ASSUME IInv, mutex = None PROVE tail = LastOf(Chain)
    BY DEF TailIsLast, LastOf
  <2>1. \A t \in Threads : pc[t] \notin {"tail", "untail"}
    BY QueueAssumption DEF IInv, MutexInv, InMutex
  <2> QED  BY <2>1 DEF IInv, TailInv
<1> QED  BY <1>1, Inductive, PTL

-----------------------------------------------------------------------------
(* No wake-up is lost. *)

Woken == {t \in Poppers : pc[t] = "relock"}

\* A value was linked and not yet signalled, or a thread is about to take one.
Late == IF \E t \in Threads : pc[t] \in {"tail", "signal", "take"} THEN 1 ELSE 0

\* While threads wait, each value has a woken thread on its way, but the one
\* of the thread inside the mutex.
WakeInv == cond # {} => Len(Chain) <= Cardinality(Woken) + Late

LEMMA Counts ==
  ASSUME IInv
  PROVE  /\ Len(Chain) \in Nat /\ (Chain = <<>> <=> Len(Chain) = 0)
         /\ IsFiniteSet(Woken) /\ Cardinality(Woken) \in Nat
         /\ Late \in {0, 1}
<1>1. Len(Chain) \in Nat /\ (Chain = <<>> <=> Len(Chain) = 0)
  BY ChainFacts DEF IInv, ChainInv
<1>2. IsFiniteSet(Woken) /\ Cardinality(Woken) \in Nat
  BY FS_Subset, FS_CardinalityType, QueueAssumption DEF Woken
<1> QED  BY <1>1, <1>2 DEF Late

\* A waiter that is woken, by a signal or not.
LEMMA WokenGrows ==
  ASSUME IInv, NEW w \in Poppers, pc[w] = "wait", Woken' = Woken \cup {w}
  PROVE  Cardinality(Woken') = Cardinality(Woken) + 1
BY Counts, FS_AddElement DEF Woken

\* A woken thread that takes the mutex.
LEMMA WokenShrinks ==
  ASSUME IInv, NEW w \in Woken, Woken' = Woken \ {w}
  PROVE  Cardinality(Woken') = Cardinality(Woken) - 1
BY Counts, FS_RemoveElement

LEMMA WakeAtStep ==
  ASSUME IInv, WakeInv, NEW t \in Threads,
         PushCall(t) \/ PopCall(t) \/ Step(t) \/ SpuriousWake(t)
  PROVE  WakeInv'
<1> SUFFICES ASSUME cond' # {} PROVE Len(Chain') <= Cardinality(Woken') + Late'
  BY DEF WakeInv
<1> DEFINE woken == Cardinality(Woken)
<1>i. /\ Len(Chain) \in Nat /\ (Chain = <<>> <=> Len(Chain) = 0)
      /\ woken \in Nat /\ Late \in {0, 1}
  BY Counts
<1>l. Late' \in {0, 1} /\ (Late' = 1 <=> \E u \in Threads : pc'[u] \in {"tail", "signal", "take"})
  BY DEF Late
<1>m. pc[t] \in InMutex => \A u \in Threads : u # t => pc[u] \notin InMutex
  BY DEF IInv, MutexInv
<1>k. pc \in [Threads -> States] /\ Poppers \subseteq Threads
  BY DEF IInv, TypeOK, Threads
<1> USE DEF To
\* Steps that keep the queue and the counts, or take a waiter's reason away.
<1>1. ASSUME PushCall(t) \/ PopCall(t) \/ Lock(t) \/ PushTail(t) \/ PushUnlock(t) \/ TakeTail(t) \/ TakeData(t)
      PROVE  Len(Chain') <= Cardinality(Woken') + Late'
  <2>1. Chain' = Chain /\ cond' = cond
    BY <1>1, ChainStays, ChainAtPushCall, ChainAtFree
       DEF IInv, PushCall, PopCall, Lock, PushTail, PushUnlock, TakeTail, TakeData, heapVars
  <2>2. Woken' = Woken
    BY <1>1, <1>k DEF Woken, PushCall, PopCall, Lock, PushTail, PushUnlock, TakeTail, TakeData
  <2>3. Late = 1 => Late' = 1
    BY <1>1, <1>k, <1>l, <1>m
       DEF Late, InMutex, PushCall, PopCall, Lock, PushTail, PushUnlock, TakeTail, TakeData
  <2> QED  BY <1>i, <1>l, <2>1, <2>2, <2>3 DEF WakeInv
<1>2. ASSUME PushLink(t) PROVE Len(Chain') <= Cardinality(Woken') + Late'
  <2>1. Chain' = Append(Chain, node[t]) /\ cond' = cond
    BY <1>2, ChainAtLink DEF PushLink
  <2>2. Len(Chain') = Len(Chain) + 1
    BY <2>1, ChainFacts, AppendProperties DEF IInv, ChainInv, HoldInv, Holds, PushLink, TypeOK
  <2>3. Woken' = Woken /\ Late = 0 /\ Late' = 1
    BY <1>2, <1>k, <1>l, <1>m DEF PushLink, Woken, Late, InMutex
  <2> QED  BY <1>i, <2>1, <2>2, <2>3 DEF WakeInv
<1>3. ASSUME PushSignal(t) PROVE Len(Chain') <= Cardinality(Woken') + Late'
  <2>1. Chain' = Chain
    BY <1>3, ChainStays DEF IInv, PushSignal, heapVars
  <2>2. PICK w \in cond : cond' = cond \ {w} /\ pc' = [pc EXCEPT ![w] = "relock", ![t] = "unlock"]
    BY <1>3 DEF PushSignal, SignalWakes
  <2>3. w \in Poppers /\ pc[w] = "wait" /\ w # t /\ pc[t] = "signal" /\ t \notin Poppers
    BY <1>3, <2>2, QueueAssumption DEF PushSignal, IInv, TypeOK, CallInv, Threads
  <2>4. Woken' = Woken \cup {w}
    BY <2>2, <2>3, <1>k DEF Woken
  <2>5. Cardinality(Woken') = woken + 1
    BY <2>3, <2>4, WokenGrows
  <2> QED  BY <1>i, <1>l, <2>1, <2>2, <2>5 DEF WakeInv
<1>4. ASSUME SpuriousWake(t) PROVE Len(Chain') <= Cardinality(Woken') + Late'
  <2>1. Chain' = Chain /\ cond # {} /\ t \in Poppers /\ pc[t] = "wait"
    BY <1>4, ChainStays DEF IInv, CallInv, SpuriousWake, heapVars
  <2>2. Woken' = Woken \cup {t}
    BY <1>4, <2>1, <1>k DEF Woken, SpuriousWake
  <2>3. Cardinality(Woken') = woken + 1
    BY <2>1, <2>2, WokenGrows
  <2>4. Late = 1 => Late' = 1
    BY <1>4, <1>k, <1>l DEF SpuriousWake, Late
  <2> QED  BY <1>i, <1>l, <2>1, <2>3, <2>4 DEF WakeInv
<1>5. ASSUME Relock(t) PROVE Len(Chain') <= Cardinality(Woken') + Late'
  <2>1. Chain' = Chain /\ cond' = cond /\ t \in Woken
    BY <1>5, ChainStays DEF IInv, CallInv, Relock, heapVars, Woken
  <2>2. Woken' = Woken \ {t}
    BY <1>5, <1>k DEF Woken, Relock
  <2>3. Cardinality(Woken') = woken - 1
    BY <2>1, <2>2, WokenShrinks
  <2>4. Late = 0
    BY <1>5, QueueAssumption DEF Relock, IInv, MutexInv, InMutex, Late
  <2>5. Late' = 1
    BY <1>5, <1>k, <1>l DEF Relock
  <2> QED  BY <1>i, <2>1, <2>3, <2>4, <2>5 DEF WakeInv
<1>6. ASSUME PopWait(t) \/ PopNothing(t) PROVE Len(Chain') <= Cardinality(Woken') + Late'
  <2>1. Chain' = Chain /\ Chain = <<>>
    BY <1>6, ChainStays, Ends DEF IInv, PopWait, PopNothing, heapVars
  <2>2. Cardinality(Woken') \in Nat
    BY FS_Subset, FS_CardinalityType, QueueAssumption DEF Woken
  <2> QED  BY <1>i, <1>l, <2>1, <2>2
<1>7. ASSUME TakeHead(t) PROVE Len(Chain') <= Cardinality(Woken') + Late'
  <2>1. Chain # <<>> /\ Chain' = Tail(Chain) /\ cond' = cond
    BY <1>7, ChainAtTake DEF TakeHead
  <2>2. Len(Chain') = Len(Chain) - 1
    BY <2>1, ChainFacts, HeadTailProperties DEF IInv, ChainInv
  <2>3. Woken' = Woken
    BY <1>7, <1>k DEF TakeHead, Woken
  <2> QED  BY <1>i, <1>l, <2>1, <2>2, <2>3 DEF WakeInv
<1> QED  BY <1>1, <1>2, <1>3, <1>4, <1>5, <1>6, <1>7 DEF Step

LEMMA WakeStep == IInv /\ WakeInv /\ [Next]_vars => WakeInv'
<1> SUFFICES ASSUME IInv, WakeInv, [Next]_vars PROVE WakeInv'
  OBVIOUS
<1>1. CASE UNCHANGED vars
  <2>1. Chain' = Chain
    BY <1>1, ChainStays DEF IInv, vars, heapVars
  <2> QED  BY <1>1, <2>1 DEF WakeInv, Woken, Late, vars
<1>2. CASE Destroy
  <2>1. cond' = {}
    BY <1>2 DEF Destroy, IInv, CallInv, TypeOK, Threads
  <2> QED  BY <2>1 DEF WakeInv
<1> QED  BY <1>1, <1>2, WakeAtStep DEF Next, Rest

\* No wake-up is lost: whenever the mutex is free and threads wait, as many
\* woken threads are on their way as there are values, so one signal per push
\* is enough for any number of pushers and poppers.
THEOREM NoLostWakeupHolds == Spec => []NoLostWakeup
<1>1. Init => WakeInv
  BY DEF Init, WakeInv
<1>2. IInv /\ WakeInv => NoLostWakeup
  <2> SUFFICES ASSUME IInv, WakeInv, mutex = None, cond # {}
               PROVE  Len(Chain) <= Cardinality(Woken)
    BY DEF NoLostWakeup, Woken
  <2>1. Late = 0
    BY QueueAssumption DEF IInv, MutexInv, InMutex, Late
  <2> QED  BY <2>1, Counts DEF WakeInv
<1> QED  BY <1>1, <1>2, WakeStep, Inductive, PTL DEF Spec

-----------------------------------------------------------------------------
(* The nodes implement a queue. *)

\* The contents follow the chain.
LEMMA ContentsAre ==
  ASSUME IInv
  PROVE  /\ Contents \in Seq(Values) /\ Len(Contents) = Len(Chain)
         /\ \A k \in 1 .. Len(Chain) : Contents[k] = data[Chain[k]]
<1>1. /\ Len(Chain) \in Nat /\ DOMAIN Chain = 1 .. Len(Chain)
      /\ \A k \in 1 .. Len(Chain) : Chain[k] \in Nodes /\ On(Chain, Chain[k])
  BY ChainFacts DEF IInv, ChainInv, On
<1>2. \A k \in 1 .. Len(Chain) : data[Chain[k]] \in Values
  BY <1>1 DEF IInv, ChainInv, TypeOK
<1> QED  BY <1>1, <1>2, IsASeq, LenProperties DEF Contents

\* Steps that neither link nor take change nothing of the queue.
LEMMA StutterFifo ==
  ASSUME IInv, Chain' = Chain, \A n \in Nodes : On(Chain, n) => data'[n] = data[n],
         \A t \in Poppers : Received'[t] = Received[t]
  PROVE  UNCHANGED <<Contents, Received>>
<1>1. \A k \in DOMAIN Chain : Chain[k] \in Nodes /\ On(Chain, Chain[k])
  BY ChainFacts DEF IInv, ChainInv, On
<1>2. Contents' = Contents
  BY <1>1 DEF Contents
<1>3. Received' = Received
  BY DEF Received
<1> QED  BY <1>2, <1>3

\* A push: the value of the new node comes last.
LEMMA PushFifo ==
  ASSUME IInv, NEW t \in Threads, PushLink(t)
  PROVE  \E v \in Values : Fifo!Push(v)
<1>1. /\ Chain' = Append(Chain, node[t]) /\ node[t] \in Nodes /\ data[node[t]] \in Values
      /\ data' = data /\ node' = node /\ ret' = ret
  BY ChainAtLink DEF PushLink, IInv, HoldInv, Holds, TypeOK
<1>2. /\ Chain \in Seq(Nodes) /\ Len(Chain) \in Nat
      /\ Len(Chain') = Len(Chain) + 1 /\ Chain'[Len(Chain) + 1] = node[t]
      /\ \A k \in 1 .. Len(Chain) : Chain'[k] = Chain[k]
  BY <1>1, ChainFacts, AppendProperties DEF IInv, ChainInv
<1>3. /\ Contents \in Seq(Values) /\ Len(Contents) = Len(Chain)
      /\ \A k \in 1 .. Len(Chain) : Contents[k] = data[Chain[k]]
  BY ContentsAre
<1>4. /\ Contents' \in Seq(Values) /\ Len(Contents') = Len(Chain')
      /\ \A k \in 1 .. Len(Chain') : Contents'[k] = data'[Chain'[k]]
  <2>1. IInv'
    BY PushLinkKeeps
  <2>2. /\ Len(Chain') \in Nat /\ DOMAIN Chain' = 1 .. Len(Chain')
        /\ \A k \in 1 .. Len(Chain') : Chain'[k] \in Nodes /\ On(Chain', Chain'[k])
    BY <2>1, ChainFacts DEF IInv, ChainInv, On
  <2>3. \A k \in 1 .. Len(Chain') : data'[Chain'[k]] \in Values
    BY <2>1, <2>2 DEF IInv, ChainInv, TypeOK
  <2> QED  BY <2>2, <2>3, IsASeq, LenProperties DEF Contents
<1> DEFINE q == Append(Contents, data[node[t]])
<1>5. /\ q \in Seq(Values) /\ Len(q) = Len(Chain) + 1 /\ q[Len(Chain) + 1] = data[node[t]]
      /\ \A k \in 1 .. Len(Chain) : q[k] = Contents[k]
  BY <1>1, <1>3, AppendProperties
<1> HIDE DEF q
<1>6. \A k \in 1 .. Len(Chain) + 1 : k \in 1 .. Len(Chain) \/ k = Len(Chain) + 1
  BY <1>2
<1>7. Contents' = q
  BY <1>1, <1>2, <1>3, <1>4, <1>5, <1>6, SeqEqual
<1>8. Received' = Received
  BY <1>1 DEF Received, PushLink, To, IInv, TypeOK, CallInv
<1> QED  BY <1>1, <1>7, <1>8 DEF Fifo!Push, q

\* A pop: the popper has the oldest value from the moment it takes the node.
LEMMA TakeFifo ==
  ASSUME IInv, NEW t \in Threads, TakeHead(t)
  PROVE  \E u \in Poppers : Fifo!Pop(u)
<1>1. /\ Chain # <<>> /\ Chain' = Tail(Chain) /\ head = Chain[1]
      /\ data' = data /\ ret' = ret /\ t \in Poppers
  BY ChainAtTake DEF TakeHead, IInv, CallInv, heapVars
<1>2. /\ Chain \in Seq(Nodes) /\ Len(Chain) \in Nat \ {0}
      /\ Len(Chain') = Len(Chain) - 1 /\ Chain' \in Seq(Nodes)
      /\ \A k \in 1 .. Len(Chain) - 1 : Chain'[k] = Chain[k + 1]
  BY <1>1, ChainFacts, HeadTailProperties DEF IInv, ChainInv
<1>3. /\ Contents \in Seq(Values) /\ Len(Contents) = Len(Chain)
      /\ \A k \in 1 .. Len(Chain) : Contents[k] = data[Chain[k]]
  BY ContentsAre
<1>4. Contents # <<>> /\ Head(Contents) = data[head]
  BY <1>1, <1>2, <1>3, HeadTailProperties
<1>5. /\ Tail(Contents) \in Seq(Values) /\ Len(Tail(Contents)) = Len(Chain) - 1
      /\ \A k \in 1 .. Len(Chain) - 1 : Tail(Contents)[k] = Contents[k + 1]
  BY <1>3, <1>4, HeadTailProperties
<1>6. \A k \in 1 .. Len(Chain) - 1 : k + 1 \in 1 .. Len(Chain)
  BY <1>2
<1>7. Contents' = [k \in 1 .. Len(Chain) - 1 |-> data[Chain[k + 1]]]
  BY <1>1, <1>2, LenProperties DEF Contents
<1>8. Contents' = Tail(Contents)
  <2>1. Tail(Contents) = [k \in 1 .. Len(Chain) - 1 |-> Tail(Contents)[k]]
    BY <1>5, LenProperties
  <2> QED  BY <2>1, <1>3, <1>5, <1>6, <1>7
<1>9. Received' = [Received EXCEPT ![t] = data[head]]
  BY <1>1 DEF Received, TakeHead, To, IInv, TypeOK, Threads
<1> QED  BY <1>1, <1>4, <1>8, <1>9 DEF Fifo!Pop

\* The steps that the queue's promise does not see.
LEMMA QuietFifo ==
  ASSUME IInv, NEW t \in Threads,
         \/ PushCall(t) \/ PopCall(t) \/ Lock(t) \/ PushTail(t) \/ PushSignal(t)
         \/ PushUnlock(t) \/ PopWait(t) \/ SpuriousWake(t) \/ Relock(t) \/ TakeTail(t)
         \/ TakeData(t)
  PROVE  UNCHANGED <<Contents, Received>>
<1> USE DEF To, Received
<1>1. CASE PushCall(t)
  <2>1. PICK n \in Nodes \ Allocated : /\ node' = [node EXCEPT ![t] = n]
                                       /\ data' = [data EXCEPT ![n] = pushed + 1]
    BY <1>1 DEF PushCall
  <2>2. Chain' = Chain /\ ~On(Chain, n)
    BY <1>1, <2>1, ChainAtPushCall DEF IInv, TypeOK
  <2>3. \A u \in Threads : Holds(u) => node[u] # n
    BY <2>1 DEF IInv, HoldInv, Allocated
  <2>4. t \notin Poppers
    BY <1>1, QueueAssumption DEF PushCall
  <2>5. \A u \in Poppers : Received'[u] = Received[u]
    BY <1>1, <2>1, <2>3, <2>4 DEF PushCall, IInv, TypeOK, Threads, Holds, HoldInv
  <2>6. \A m \in Nodes : On(Chain, m) => data'[m] = data[m]
    BY <2>1, <2>2 DEF IInv, TypeOK
  <2> QED  BY <2>2, <2>5, <2>6, StutterFifo
<1>2. CASE TakeData(t)
  <2>1. Chain' = Chain /\ node[t] \in Nodes /\ ~On(Chain, node[t])
    BY <1>2, ChainAtFree DEF TakeData, IInv, HoldInv, Holds
  <2>2. \A u \in Threads : u # t /\ Holds(u) => node[u] # node[t] /\ node[u] \in Nodes
    BY <1>2 DEF IInv, HoldInv, Holds, TakeData
  <2>3. \A u \in Poppers : Received'[u] = Received[u]
    BY <1>2, <2>1, <2>2 DEF TakeData, IInv, TypeOK, Threads, Holds
  <2>4. \A m \in Nodes : On(Chain, m) => data'[m] = data[m]
    BY <1>2, <2>1 DEF IInv, TypeOK, TakeData
  <2> QED  BY <2>1, <2>3, <2>4, StutterFifo
<1>3. CASE PopCall(t) \/ Lock(t) \/ PushTail(t) \/ PushUnlock(t) \/ PopWait(t) \/ SpuriousWake(t)
           \/ Relock(t) \/ TakeTail(t)
  <2>1. Chain' = Chain /\ data' = data /\ node' = node /\ ret' = ret
    BY <1>3, ChainStays
       DEF IInv, PopCall, Lock, PushTail, PushUnlock, PopWait, SpuriousWake, Relock, TakeTail,
           heapVars
  <2>2. \A u \in Poppers : pc'[u] \in {"untail", "data"} <=> pc[u] \in {"untail", "data"}
    BY <1>3 DEF IInv, TypeOK, Threads, PopCall, Lock, PushTail, PushUnlock, PopWait, SpuriousWake,
                Relock, TakeTail
  <2>3. \A u \in Poppers : Received'[u] = Received[u]
    BY <2>1, <2>2
  <2> QED  BY <2>1, <2>3, StutterFifo
<1>4. CASE PushSignal(t)
  <2>1. Chain' = Chain /\ data' = data /\ node' = node /\ ret' = ret
    BY <1>4, ChainStays DEF IInv, PushSignal, heapVars
  <2>2. \A u \in Poppers : pc'[u] \in {"untail", "data"} <=> pc[u] \in {"untail", "data"}
    BY <1>4 DEF IInv, CallInv, TypeOK, Threads, PushSignal
  <2>3. \A u \in Poppers : Received'[u] = Received[u]
    BY <2>1, <2>2
  <2> QED  BY <2>1, <2>3, StutterFifo
<1> QED  BY <1>1, <1>2, <1>3, <1>4

\* A pop that returns nothing found the queue empty.
LEMMA NothingFifo ==
  ASSUME IInv, NEW t \in Threads, PopNothing(t)
  PROVE  \E u \in Poppers : Fifo!PopNothing(u)
<1>1. /\ Chain' = Chain /\ Chain = <<>> /\ data' = data /\ node' = node /\ t \in Poppers
  BY ChainStays, Ends DEF IInv, CallInv, PopNothing, heapVars
<1>2. Contents = <<>> /\ Contents' = Contents
  BY <1>1, ContentsAre DEF Contents
<1>3. Received' = [Received EXCEPT ![t] = Nothing]
  BY <1>1 DEF Received, PopNothing, To, IInv, TypeOK, Threads
<1> QED  BY <1>1, <1>2, <1>3 DEF Fifo!PopNothing

LEMMA DestroyFifo ==
  ASSUME IInv, Destroy
  PROVE  Fifo!Destroy
<1>1. Chain' = <<>>
  BY ChainAtDestroy
<1>2. Contents' = <<>>
  BY <1>1 DEF Contents
<1>3. Received' = Received
  BY DEF Received, Destroy, Threads
<1> QED  BY <1>2, <1>3 DEF Fifo!Destroy

\* queue.c is a queue: every value pushed is returned once and in order, and
\* non_blocking_pop returns nothing only when the queue is empty, whatever the
\* threads and their interleaving.
THEOREM FifoKeptHolds == Spec => FifoKept
<1>1. Init => Fifo!Init
  <2> SUFFICES ASSUME Init PROVE Fifo!Init
    OBVIOUS
  <2>1. IInv /\ head = NULL
    BY InitInv DEF Init
  <2>2. Chain = <<>>
    BY <2>1, Ends DEF IInv
  <2>3. Contents = <<>> /\ Received = [t \in Poppers |-> Nothing]
    BY <2>2 DEF Contents, Received, Init, Threads
  <2> QED  BY <2>3 DEF Fifo!Init
<1>2. IInv /\ [Next]_vars => [Fifo!Next]_(Fifo!vars)
  <2> SUFFICES ASSUME IInv, [Next]_vars PROVE Fifo!Next \/ UNCHANGED <<Contents, Received>>
    BY DEF Fifo!vars
  <2>1. CASE UNCHANGED vars
    <3>1. Chain' = Chain
      BY <2>1, ChainStays DEF IInv, vars, heapVars
    <3> QED  BY <2>1, <3>1 DEF Contents, Received, vars, heapVars
  <2>2. ASSUME NEW t \in Threads, PushCall(t) \/ PopCall(t) \/ Step(t) \/ SpuriousWake(t)
        PROVE  Fifo!Next \/ UNCHANGED <<Contents, Received>>
    BY <2>2, QuietFifo, PushFifo, TakeFifo, NothingFifo DEF Step, Fifo!Next
  <2>3. CASE Destroy
    BY <2>3, DestroyFifo DEF Fifo!Next
  <2> QED  BY <2>1, <2>2, <2>3 DEF Next, Rest
<1> QED  BY <1>1, <1>2, Inductive, PTL DEF Spec, FifoKept, Fifo!Spec

=============================================================================
