-------------------------- MODULE LinkedListProofs ----------------------------
(***************************************************************************)
(* Proofs about LinkedList, for every finite set of threads and finite     *)
(* heap, and any number of additions.                                      *)
(***************************************************************************)
EXTENDS LinkedList, NodeChainProofs

\* The program points between taking the lock and giving it back.
InLock == {"link", "grow", "walk", "search", "shrink"}

\* A process that died keeps its lock.
LockInv ==
  \A t \in Threads :
    /\ pc[t] \in InLock => lock = t
    /\ lock = t => pc[t] \in InLock \cup {"crashed"}
    /\ pc[t] = "crashed" => \A u \in Threads : pc[u] = "crashed"

\* A node is given or free as a whole.
HeapInv == \A n \in Nodes : data[n] = Garbage <=> next[n] = Garbage

\* The list is a chain of nodes that were given.
ChainInv ==
  /\ IsChain(Nodes, head, next, Chain)
  /\ \A n \in Nodes : On(Chain, n) => data[n] # Garbage

\* A thread that has a node which is not in the list yet.
Holds(t) == pc[t] \in {"add", "link"}

HoldInv ==
  \A t \in Threads : Holds(t) =>
    /\ node[t] \in Nodes
    /\ data[node[t]] # Garbage
    /\ ~On(Chain, node[t])
    /\ \A u \in Threads : u # t /\ Holds(u) => node[u] # node[t]

\* The size is behind the chain between the two assignments of an addition or
\* a removal.
SizeInv ==
  /\ (\A t \in Threads : pc[t] \notin {"grow", "shrink"}) => size = Len(Chain)
  /\ \A t \in Threads :
       /\ pc[t] = "grow" => size = Len(Chain) - 1 /\ Chain # <<>>
       /\ pc[t] = "shrink" => size = Len(Chain) + 1

\* The additions that the size does not count yet.
Pending == {t \in Threads : pc[t] \in {"add", "link", "grow"}}

PendingInv == size + Cardinality(Pending) <= added

Allocated == {n \in Nodes : data[n] # Garbage}

\* Where an index is looked up, it was inside the list when it was tested, and
\* is still unless a node was removed.
IndexInv ==
  /\ Cardinality(Allocated) <= added
  /\ \A t \in Threads :
       /\ pc[t] \in {"get", "walk"} => arg[t] >= 0
       /\ Cardinality(Allocated) = added =>
            /\ pc[t] \in {"get", "walk"} => arg[t] < size
            /\ pc[t] \notin {"shrink", "crashed"}

IInv ==
  /\ TypeOK
  /\ LockInv
  /\ HeapInv
  /\ ChainInv
  /\ HoldInv
  /\ SizeInv
  /\ PendingInv
  /\ IndexInv

-----------------------------------------------------------------------------
(* The chain, step by step. *)

\* The first node and the size of the chain.
LEMMA ChainIsList ==
  ASSUME IInv
  PROVE  /\ Chain \in Seq(Nodes) /\ Len(Chain) \in Nat /\ DOMAIN Chain = 1 .. Len(Chain)
         /\ Chain = <<>> <=> Len(Chain) = 0
         /\ \A k \in 1 .. Len(Chain) :
              Chain[k] \in Nodes /\ On(Chain, Chain[k]) /\ data[Chain[k]] \in Values
         /\ \A j, k \in 1 .. Len(Chain) : j # k => Chain[j] # Chain[k]
         /\ Chain # <<>> => head = Chain[1]
<1>1. /\ Chain \in Seq(Nodes) /\ Len(Chain) \in Nat /\ DOMAIN Chain = 1 .. Len(Chain)
      /\ Chain = <<>> <=> Len(Chain) = 0
      /\ \A k \in 1 .. Len(Chain) : Chain[k] \in Nodes
      /\ \A j, k \in 1 .. Len(Chain) : j # k => Chain[j] # Chain[k]
      /\ Chain # <<>> => head = Chain[1]
  BY ChainFacts DEF IInv, ChainInv
<1>2. \A k \in 1 .. Len(Chain) : On(Chain, Chain[k])
  BY <1>1 DEF On
<1>3. \A k \in 1 .. Len(Chain) : data[Chain[k]] \in Values
  BY <1>1, <1>2 DEF IInv, ChainInv, TypeOK
<1> QED  BY <1>1, <1>2, <1>3

LEMMA ChainStays ==
  ASSUME ChainInv, UNCHANGED <<head, next>>
  PROVE  Chain' = Chain /\ IsChain(Nodes, head', next', Chain')
BY DEF Chain, ChainInv

LEMMA ChainAtAddCall ==
  ASSUME TypeOK, ChainInv, NEW t \in Threads, AddCall(t)
  PROVE  /\ Chain' = Chain /\ IsChain(Nodes, head', next', Chain')
         /\ node'[t] \in Nodes \ Allocated /\ ~On(Chain, node'[t])
<1>1. PICK n \in {x \in Nodes : data[x] = Garbage} : /\ node' = [node EXCEPT ![t] = n]
                                                    /\ next' = [next EXCEPT ![n] = NULL]
  BY DEF AddCall
<1>2. ~On(Chain, n)
  BY <1>1 DEF ChainInv
<1>3. \A m \in Nodes : On(Chain, m) => next'[m] = next[m]
  BY <1>1, <1>2 DEF TypeOK
<1>4. IsChain(Nodes, head, next', Chain)
  BY <1>3, ChainFrame DEF ChainInv
<1>5. Chain' = Chain
  BY <1>4, ChainIs, ListAssumption DEF Chain, AddCall
<1> QED  BY <1>1, <1>2, <1>4, <1>5 DEF AddCall, TypeOK, Allocated

LEMMA ChainAtAddLink ==
  ASSUME IInv, NEW t \in Threads, AddLink(t)
  PROVE  /\ Chain' = <<node[t]>> \o Chain
         /\ IsChain(Nodes, head', next', Chain')
         /\ Len(Chain') = Len(Chain) + 1 /\ Chain'[1] = node[t] /\ Chain' # <<>>
         /\ \A k \in 1 .. Len(Chain) : Chain'[k + 1] = Chain[k]
         /\ \A n : On(Chain', n) <=> On(Chain, n) \/ n = node[t]
<1>1. /\ node[t] \in Nodes /\ ~On(Chain, node[t])
      /\ head' = node[t] /\ next' = [next EXCEPT ![node[t]] = head]
      /\ IsChain(Nodes, head, next, Chain)
  BY DEF AddLink, LinkBefore, IInv, HoldInv, Holds, ChainInv
<1>2. /\ IsChain(Nodes, head, next, Chain) /\ node[t] \in Nodes /\ ~On(Chain, node[t])
      /\ next'[node[t]] = head /\ \A m \in Nodes : m # node[t] => next'[m] = next[m]
  BY <1>1 DEF IInv, TypeOK
<1>3. /\ IsChain(Nodes, node[t], next', <<node[t]>> \o Chain)
      /\ Len(<<node[t]>> \o Chain) = Len(Chain) + 1
      /\ (<<node[t]>> \o Chain)[1] = node[t]
      /\ \A k \in 1 .. Len(Chain) : (<<node[t]>> \o Chain)[k + 1] = Chain[k]
      /\ \A n : On(<<node[t]>> \o Chain, n) <=> On(Chain, n) \/ n = node[t]
  BY <1>2, ChainPrepend
<1>4. Chain' = <<node[t]>> \o Chain
  BY <1>1, <1>3, ChainIs, ListAssumption DEF Chain
<1>5. \E k \in DOMAIN (<<node[t]>> \o Chain) : TRUE
  BY <1>3 DEF On
<1>6. <<node[t]>> \o Chain # <<>>
  BY <1>5
<1> QED  BY <1>1, <1>3, <1>4, <1>6

\* The node that is removed, and what is left.
LEMMA ChainAtRemove ==
  ASSUME IInv, NEW t \in Threads, RemoveFound(t)
  PROVE  \E k \in 1 .. Len(Chain) :
           /\ data[Chain[k]] = arg[t]
           /\ \A j \in 1 .. Len(Chain) : data[Chain[j]] = arg[t] => k <= j
           /\ data' = [data EXCEPT ![Chain[k]] = Garbage]
           /\ next' \in [Nodes -> Nodes \cup {NULL, Garbage}] /\ head' \in Nodes \cup {NULL}
           /\ \A n \in Nodes : next'[n] = Garbage <=> next[n] = Garbage \/ n = Chain[k]
           /\ Chain' = Without(Chain, k)
           /\ IsChain(Nodes, head', next', Chain')
           /\ \A n : On(Chain', n) <=> On(Chain, n) /\ n # Chain[k]
<1>f. /\ Chain \in Seq(Nodes) /\ Len(Chain) \in Nat /\ DOMAIN Chain = 1 .. Len(Chain)
      /\ \A k \in 1 .. Len(Chain) : Chain[k] \in Nodes /\ On(Chain, Chain[k])
      /\ \A j, k \in 1 .. Len(Chain) : j # k => Chain[j] # Chain[k]
      /\ Chain # <<>> => head = Chain[1]
      /\ Chain = <<>> <=> Len(Chain) = 0
      /\ IsChain(Nodes, head, next, Chain) /\ IsFiniteSet(Nodes) /\ Garbage \notin Nodes \cup {NULL}
      /\ next \in [Nodes -> Nodes \cup {NULL, Garbage}]
      /\ head \in Nodes \cup {NULL}
  BY ChainIsList, ListAssumption DEF IInv, ChainInv, TypeOK
<1>1. PICK k \in 1 .. Len(Chain) :
        /\ data[Chain[k]] = arg[t]
        /\ \A j \in 1 .. Len(Chain) : data[Chain[j]] = arg[t] => k <= j
        /\ IF k = 1
           THEN head' = next[head] /\ next' = [next EXCEPT ![Chain[k]] = Garbage]
           ELSE /\ next' = [next EXCEPT ![Chain[k - 1]] = next[Chain[k]], ![Chain[k]] = Garbage]
                /\ head' = head
        /\ data' = [data EXCEPT ![Chain[k]] = Garbage]
  BY <1>f DEF RemoveFound
<1>2. next[Chain[k]] \in Nodes \cup {NULL}
  BY <1>f DEF IInv, ChainInv, HeapInv
<1>3. CASE k = 1
  <2>1. Chain # <<>> /\ head = Chain[1] /\ Chain[1] \in Nodes
    BY <1>3, <1>f
  <2>2. head' = next[head] /\ next' = [next EXCEPT ![head] = Garbage]
    BY <1>1, <1>3, <2>1
  <2>3. /\ IsChain(Nodes, next[head], next, Tail(Chain))
        /\ \A n : On(Tail(Chain), n) <=> On(Chain, n) /\ n # head
    BY <1>f, <2>1, ChainTail
  <2>4. \A n \in Nodes : On(Tail(Chain), n) => next'[n] = next[n]
    BY <1>f, <2>1, <2>2, <2>3
  <2>5. IsChain(Nodes, head', next', Tail(Chain))
    BY <2>2, <2>3, <2>4, ChainFrame
  <2>6. Chain' = Tail(Chain)
    BY <2>5, <1>f, ChainIs DEF Chain
  <2>7. Tail(Chain) = Without(Chain, k)
    BY <1>3, <1>f, <2>1, WithoutFirst
  <2>8. \A n \in Nodes : next'[n] = Garbage <=> next[n] = Garbage \/ n = Chain[k]
    BY <1>3, <1>f, <2>1, <2>2
  <2>9. next' \in [Nodes -> Nodes \cup {NULL, Garbage}] /\ head' \in Nodes \cup {NULL}
    BY <1>2, <1>3, <1>f, <2>1, <2>2
  <2> QED  BY <1>1, <1>3, <2>1, <2>3, <2>5, <2>6, <2>7, <2>8, <2>9
<1>4. CASE k # 1
  <2>1. /\ k \in 2 .. Len(Chain) /\ k - 1 \in 1 .. Len(Chain) /\ k - 1 # k
        /\ Chain[k - 1] \in Nodes /\ Chain[k] \in Nodes /\ Chain[k - 1] # Chain[k]
    BY <1>4, <1>f
  <2>2. head' = head
        /\ next' = [next EXCEPT ![Chain[k - 1]] = next[Chain[k]], ![Chain[k]] = Garbage]
    BY <1>1, <1>4
  <2>3. /\ IsChain(Nodes, head, next, Chain) /\ k \in 2 .. Len(Chain)
        /\ next'[Chain[k - 1]] = next[Chain[k]] /\ next'[Chain[k]] = Garbage
        /\ \A m \in Nodes : m # Chain[k - 1] /\ m # Chain[k] => next'[m] = next[m]
    BY <2>1, <2>2, <1>f
  <2>4. /\ IsChain(Nodes, head, next', Without(Chain, k))
        /\ \A n : On(Without(Chain, k), n) <=> On(Chain, n) /\ n # Chain[k]
    BY <2>3, ChainRemove
  <2>5. Chain' = Without(Chain, k)
    BY <2>2, <2>4, <1>f, ChainIs DEF Chain
  <2>6. next[Chain[k - 1]] # Garbage
    BY <1>f, <2>1 DEF IInv, ChainInv, HeapInv
  <2>7. \A n \in Nodes : next'[n] = Garbage <=> next[n] = Garbage \/ n = Chain[k]
    BY <1>2, <1>f, <2>1, <2>3, <2>6
  <2>8. next' \in [Nodes -> Nodes \cup {NULL, Garbage}] /\ head' \in Nodes \cup {NULL}
    BY <1>2, <1>f, <2>1, <2>2
  <2> QED  BY <1>1, <2>2, <2>4, <2>5, <2>7, <2>8
<1> QED  BY <1>3, <1>4

LEMMA ChainAtFree ==
  ASSUME FreeList
  PROVE  Chain' = <<>> /\ IsChain(Nodes, head', next', Chain') /\ \A n : ~On(Chain', n)
<1>1. IsChain(Nodes, head', next', <<>>)
  BY ListAssumption DEF FreeList, IsChain, Distinct, Follows
<1>2. Chain' = <<>>
  BY <1>1, ChainIs, ListAssumption DEF Chain
<1> QED  BY <1>1, <1>2 DEF On

-----------------------------------------------------------------------------
(* One lemma per action: every conjunct is kept. *)

\* The counts are numbers.
LEMMA Counts ==
  ASSUME IInv
  PROVE  /\ IsFiniteSet(Pending) /\ Cardinality(Pending) \in Nat
         /\ IsFiniteSet(Allocated) /\ Cardinality(Allocated) \in Nat
         /\ size \in Nat /\ added \in Nat /\ MaxAdds \in Nat /\ added <= MaxAdds
BY FS_Subset, FS_CardinalityType, ListAssumption DEF Pending, Allocated, IInv, TypeOK

\* A thread that has the lock is the only one in a critical section, and with
\* the lock free nobody is.
LEMMA Alone ==
  ASSUME IInv, NEW t \in Threads, pc[t] \in InLock \/ lock = None
  PROVE  \A u \in Threads : u # t \/ lock = None => pc[u] \notin InLock
BY ListAssumption DEF IInv, LockInv

LEMMA LockKeeps ==
  ASSUME IInv, NEW t \in Threads, Lock(t)
  PROVE  IInv'
<1> USE DEF Lock, To, listVars
<1>c. Chain' = Chain /\ IsChain(Nodes, head', next', Chain')
  BY ChainStays DEF IInv
<1>a. \A u \in Threads : u # t /\ pc[t] \in InLock => pc[u] \notin InLock
  BY Alone
<1>1. TypeOK'
  BY <1>c, Counts DEF IInv, TypeOK, States, Values
<1>2. LockInv'
  BY ListAssumption DEF IInv, TypeOK, LockInv, InLock
<1>3. HeapInv'
  BY <1>c DEF IInv, TypeOK, HeapInv
<1>4. ChainInv'
  BY <1>c DEF IInv, TypeOK, ChainInv
<1>5. HoldInv'
  BY <1>c DEF IInv, TypeOK, HoldInv, Holds
<1>6. SizeInv'
  BY <1>c, <1>a, Alone, ChainIsList DEF IInv, TypeOK, SizeInv, InLock
<1>7. PendingInv'
  <2>1. Pending' = Pending
    BY DEF Pending, IInv, TypeOK
  <2> QED  BY <2>1, Counts DEF IInv, PendingInv
<1>8. IndexInv'
  <2>1. Allocated' = Allocated
    BY DEF Allocated
  <2> QED  BY <1>c, <2>1, <1>a, Counts DEF IInv, TypeOK, IndexInv, InLock, Indices
<1> QED  BY <1>1, <1>2, <1>3, <1>4, <1>5, <1>6, <1>7, <1>8 DEF IInv

LEMMA AddCallKeeps ==
  ASSUME IInv, NEW t \in Threads, AddCall(t)
  PROVE  IInv'
<1> USE DEF AddCall, To
<1>n. PICK n \in Nodes :
        /\ data[n] = Garbage
        /\ node' = [node EXCEPT ![t] = n]
        /\ data' = [data EXCEPT ![n] = added + 1]
        /\ next' = [next EXCEPT ![n] = NULL]
  OBVIOUS
<1>p. /\ added + 1 \in Values /\ added + 1 \in 0 .. MaxAdds /\ added + 1 # Garbage /\ NULL # Garbage
  <2>1. added + 1 \in Values /\ added + 1 \in 0 .. MaxAdds /\ added + 1 \in Nat
    BY Counts DEF Values
  <2> QED  BY <2>1, ListAssumption
<1>c. Chain' = Chain /\ IsChain(Nodes, head', next', Chain') /\ ~On(Chain, n)
  BY <1>n, ChainAtAddCall DEF IInv, TypeOK
<1>a. \A u \in Threads : u # t /\ pc[t] \in InLock => pc[u] \notin InLock
  BY Alone
<1>1. TypeOK'
  BY <1>n, <1>p, <1>c, Counts DEF IInv, TypeOK, States, Values
<1>2. LockInv'
  BY ListAssumption DEF IInv, TypeOK, LockInv, InLock
<1>3. HeapInv'
  BY <1>n, <1>p, <1>c DEF IInv, TypeOK, HeapInv
<1>4. ChainInv'
  BY <1>n, <1>p, <1>c DEF IInv, TypeOK, ChainInv
<1>5. HoldInv'
  BY <1>n, <1>p, <1>c DEF IInv, TypeOK, HoldInv, Holds
<1>6. SizeInv'
  BY <1>n, <1>p, <1>c, <1>a, Alone, ChainIsList DEF IInv, TypeOK, SizeInv, InLock
<1>7. PendingInv'
  <2>1. Pending' = Pending \cup {t} /\ t \notin Pending
    BY DEF Pending, IInv, TypeOK
  <2>2. Cardinality(Pending') = Cardinality(Pending) + 1
    BY <2>1, Counts, FS_AddElement
  <2> QED  BY <2>2, Counts DEF IInv, PendingInv
<1>8. IndexInv'
  <2>1. Allocated' = Allocated \cup {n} /\ n \notin Allocated
    BY <1>n, <1>p, <1>c DEF Allocated, IInv, TypeOK
  <2>2. Cardinality(Allocated') = Cardinality(Allocated) + 1
    BY <2>1, Counts, FS_AddElement
  <2>3. /\ added' = added + 1 /\ size' = size /\ arg' = arg
        /\ \A u \in Threads : pc'[u] = IF u = t THEN "add" ELSE pc[u]
    BY DEF IInv, TypeOK
  <2>4. /\ Cardinality(Allocated) <= added
        /\ Cardinality(Allocated') = added' => Cardinality(Allocated) = added
        /\ Cardinality(Allocated') <= added'
    BY <2>2, <2>3, Counts DEF IInv, IndexInv
  <2> QED  BY <2>3, <2>4 DEF IInv, IndexInv
<1> QED  BY <1>1, <1>2, <1>3, <1>4, <1>5, <1>6, <1>7, <1>8 DEF IInv

LEMMA AddLinkKeeps ==
  ASSUME IInv, NEW t \in Threads, AddLink(t)
  PROVE  IInv'
<1> USE DEF AddLink, To, LinkBefore
<1>h. head' = node[t] /\ next' = [next EXCEPT ![node[t]] = head] /\ node[t] \in Nodes
      /\ data[node[t]] # Garbage /\ head # Garbage
  BY ListAssumption DEF IInv, HoldInv, Holds, TypeOK
<1>a. \A u \in Threads : u # t /\ pc[t] \in InLock => pc[u] \notin InLock
  BY Alone
<1>1. TypeOK'
  BY <1>h, ChainAtAddLink, Counts DEF IInv, TypeOK, States, Values
<1>2. LockInv'
  BY ListAssumption DEF IInv, TypeOK, LockInv, InLock
<1>3. HeapInv'
  BY <1>h, ChainAtAddLink DEF IInv, TypeOK, HeapInv
<1>4. ChainInv'
  BY <1>h, ChainAtAddLink DEF IInv, TypeOK, ChainInv
<1>5. HoldInv'
  BY <1>h, ChainAtAddLink DEF IInv, TypeOK, HoldInv, Holds
<1>6. SizeInv'
  <2>1. \A u \in Threads : u # t => pc[u] \notin {"grow", "shrink"}
    BY <1>a DEF InLock
  <2>2. size = Len(Chain)
    BY <2>1 DEF IInv, SizeInv
  <2>3. /\ pc'[t] = "grow" /\ size' = size
        /\ \A u \in Threads : u # t => pc'[u] \notin {"grow", "shrink"}
    BY <2>1 DEF IInv, TypeOK
  <2>4. Len(Chain') = Len(Chain) + 1 /\ Chain' # <<>>
    BY ChainAtAddLink
  <2>5. Len(Chain) \in Nat
    BY ChainIsList
  <2>6. size' = Len(Chain') - 1
    BY <2>2, <2>3, <2>4, <2>5
  <2> QED  BY <2>3, <2>4, <2>6 DEF SizeInv
<1>7. PendingInv'
  <2>1. Pending' = Pending
    BY DEF Pending, IInv, TypeOK
  <2> QED  BY <2>1, Counts DEF IInv, PendingInv
<1>8. IndexInv'
  <2>1. Allocated' = Allocated
    BY DEF Allocated
  <2> QED  BY <1>h, ChainAtAddLink, <2>1, <1>a, Counts DEF IInv, TypeOK, IndexInv, InLock, Indices
<1> QED  BY <1>1, <1>2, <1>3, <1>4, <1>5, <1>6, <1>7, <1>8 DEF IInv

LEMMA AddSizeKeeps ==
  ASSUME IInv, NEW t \in Threads, AddSize(t)
  PROVE  IInv'
<1> USE DEF AddSize, To
<1>c. Chain' = Chain /\ IsChain(Nodes, head', next', Chain')
  BY ChainStays DEF IInv
<1>a. \A u \in Threads : u # t /\ pc[t] \in InLock => pc[u] \notin InLock
  BY Alone
<1>1. TypeOK'
  <2>1. t \in Pending
    BY DEF Pending
  <2>2. Pending \ {t} = {u \in Pending : u # t} /\ Cardinality(Pending \ {t}) = Cardinality(Pending) - 1
        /\ IsFiniteSet(Pending \ {t}) /\ Cardinality(Pending \ {t}) \in Nat
    BY <2>1, Counts, FS_RemoveElement, FS_CardinalityType
  <2>3. size + 1 \in 0 .. MaxAdds
    BY <2>2, Counts DEF IInv, PendingInv
  <2> QED  BY <2>3 DEF IInv, TypeOK, States
<1>2. LockInv'
  BY ListAssumption DEF IInv, TypeOK, LockInv, InLock
<1>3. HeapInv'
  BY <1>c DEF IInv, TypeOK, HeapInv
<1>4. ChainInv'
  BY <1>c DEF IInv, TypeOK, ChainInv
<1>5. HoldInv'
  BY <1>c DEF IInv, TypeOK, HoldInv, Holds
<1>6. SizeInv'
  BY <1>c, <1>a, Alone, ChainIsList DEF IInv, TypeOK, SizeInv, InLock
<1>7. PendingInv'
  <2>1. Pending' = Pending \ {t} /\ t \in Pending
    BY DEF Pending, IInv, TypeOK
  <2>2. Cardinality(Pending') = Cardinality(Pending) - 1
    BY <2>1, Counts, FS_RemoveElement
  <2> QED  BY <2>2, Counts DEF IInv, PendingInv
<1>8. IndexInv'
  <2>1. Allocated' = Allocated
    BY DEF Allocated
  <2> QED  BY <1>c, <2>1, <1>a, Counts DEF IInv, TypeOK, IndexInv, InLock, Indices
<1> QED  BY <1>1, <1>2, <1>3, <1>4, <1>5, <1>6, <1>7, <1>8 DEF IInv

LEMMA GetCallKeeps ==
  ASSUME IInv, NEW t \in Threads, GetCall(t)
  PROVE  IInv'
<1> USE DEF GetCall, To, listVars
<1>c. Chain' = Chain /\ IsChain(Nodes, head', next', Chain')
  BY ChainStays DEF IInv
<1>a. \A u \in Threads : u # t /\ pc[t] \in InLock => pc[u] \notin InLock
  BY Alone
<1>1. TypeOK'
  BY <1>c, Counts DEF IInv, TypeOK, States, Values
<1>2. LockInv'
  BY ListAssumption DEF IInv, TypeOK, LockInv, InLock
<1>3. HeapInv'
  BY <1>c DEF IInv, TypeOK, HeapInv
<1>4. ChainInv'
  BY <1>c DEF IInv, TypeOK, ChainInv
<1>5. HoldInv'
  BY <1>c DEF IInv, TypeOK, HoldInv, Holds
<1>6. SizeInv'
  BY <1>c, <1>a, Alone, ChainIsList DEF IInv, TypeOK, SizeInv, InLock
<1>7. PendingInv'
  <2>1. Pending' = Pending
    BY DEF Pending, IInv, TypeOK
  <2> QED  BY <2>1, Counts DEF IInv, PendingInv
<1>8. IndexInv'
  <2>1. Allocated' = Allocated
    BY DEF Allocated
  <2> QED  BY <1>c, <2>1, <1>a, Counts DEF IInv, TypeOK, IndexInv, InLock, Indices
<1> QED  BY <1>1, <1>2, <1>3, <1>4, <1>5, <1>6, <1>7, <1>8 DEF IInv

LEMMA GetWalkKeeps ==
  ASSUME IInv, NEW t \in Threads, GetWalk(t)
  PROVE  IInv'
<1> USE DEF GetWalk, To, Nth, listVars
<1>c. Chain' = Chain /\ IsChain(Nodes, head', next', Chain')
  BY ChainStays DEF IInv
<1>a. \A u \in Threads : u # t /\ pc[t] \in InLock => pc[u] \notin InLock
  BY Alone
<1>1. TypeOK'
  <2>1. arg[t] + 1 \in 1 .. Len(Chain) /\ arg[t] \in Indices
    BY ChainIsList DEF IInv, IndexInv, TypeOK, Indices
  <2>2. <<arg[t], data[Chain[arg[t] + 1]]>> \in Indices \X (Values \cup {Nothing})
    BY <2>1, ChainIsList
  <2> QED  BY <2>2 DEF IInv, TypeOK, States
<1>2. LockInv'
  BY ListAssumption DEF IInv, TypeOK, LockInv, InLock
<1>3. HeapInv'
  BY <1>c DEF IInv, TypeOK, HeapInv
<1>4. ChainInv'
  BY <1>c DEF IInv, TypeOK, ChainInv
<1>5. HoldInv'
  BY <1>c DEF IInv, TypeOK, HoldInv, Holds
<1>6. SizeInv'
  BY <1>c, <1>a, Alone, ChainIsList DEF IInv, TypeOK, SizeInv, InLock
<1>7. PendingInv'
  <2>1. Pending' = Pending
    BY DEF Pending, IInv, TypeOK
  <2> QED  BY <2>1, Counts DEF IInv, PendingInv
<1>8. IndexInv'
  <2>1. Allocated' = Allocated
    BY DEF Allocated
  <2> QED  BY <1>c, <2>1, <1>a, Counts DEF IInv, TypeOK, IndexInv, InLock, Indices
<1> QED  BY <1>1, <1>2, <1>3, <1>4, <1>5, <1>6, <1>7, <1>8 DEF IInv

LEMMA RemoveCallKeeps ==
  ASSUME IInv, NEW t \in Threads, RemoveCall(t)
  PROVE  IInv'
<1> USE DEF RemoveCall, To, listVars
<1>c. Chain' = Chain /\ IsChain(Nodes, head', next', Chain')
  BY ChainStays DEF IInv
<1>a. \A u \in Threads : u # t /\ pc[t] \in InLock => pc[u] \notin InLock
  BY Alone
<1>1. TypeOK'
  <2>1. Values \subseteq Indices
    BY Counts DEF Values, Indices
  <2> QED  BY <2>1 DEF IInv, TypeOK, States
<1>2. LockInv'
  BY ListAssumption DEF IInv, TypeOK, LockInv, InLock
<1>3. HeapInv'
  BY <1>c DEF IInv, TypeOK, HeapInv
<1>4. ChainInv'
  BY <1>c DEF IInv, TypeOK, ChainInv
<1>5. HoldInv'
  BY <1>c DEF IInv, TypeOK, HoldInv, Holds
<1>6. SizeInv'
  BY <1>c, <1>a, Alone, ChainIsList DEF IInv, TypeOK, SizeInv, InLock
<1>7. PendingInv'
  <2>1. Pending' = Pending
    BY DEF Pending, IInv, TypeOK
  <2> QED  BY <2>1, Counts DEF IInv, PendingInv
<1>8. IndexInv'
  <2>1. Allocated' = Allocated
    BY DEF Allocated
  <2> QED  BY <1>c, <2>1, <1>a, Counts DEF IInv, TypeOK, IndexInv, InLock, Indices
<1> QED  BY <1>1, <1>2, <1>3, <1>4, <1>5, <1>6, <1>7, <1>8 DEF IInv

LEMMA RemoveFoundKeeps ==
  ASSUME IInv, NEW t \in Threads, RemoveFound(t)
  PROVE  IInv'
<1> USE DEF RemoveFound, To
<1>k. PICK k \in 1 .. Len(Chain) :
        /\ data' = [data EXCEPT ![Chain[k]] = Garbage]
        /\ next' \in [Nodes -> Nodes \cup {NULL, Garbage}] /\ head' \in Nodes \cup {NULL}
        /\ \A n \in Nodes : next'[n] = Garbage <=> next[n] = Garbage \/ n = Chain[k]
        /\ Chain' = Without(Chain, k)
        /\ IsChain(Nodes, head', next', Chain')
        /\ \A n : On(Chain', n) <=> On(Chain, n) /\ n # Chain[k]
  BY ChainAtRemove
<1>c. Chain[k] \in Nodes /\ On(Chain, Chain[k]) /\ data[Chain[k]] # Garbage /\ Len(Chain') = Len(Chain) - 1
  BY <1>k, ChainIsList, WithoutIs DEF IInv, ChainInv
<1>a. \A u \in Threads : u # t /\ pc[t] \in InLock => pc[u] \notin InLock
  BY Alone
<1>1. TypeOK'
  BY <1>k, <1>c, Counts DEF IInv, TypeOK, States, Values
<1>2. LockInv'
  BY ListAssumption DEF IInv, TypeOK, LockInv, InLock
<1>3. HeapInv'
  BY <1>k, <1>c DEF IInv, TypeOK, HeapInv
<1>4. ChainInv'
  BY <1>k, <1>c DEF IInv, TypeOK, ChainInv
<1>5. HoldInv'
  BY <1>k, <1>c DEF IInv, TypeOK, HoldInv, Holds
<1>6. SizeInv'
  BY <1>k, <1>c, <1>a, Alone, ChainIsList DEF IInv, TypeOK, SizeInv, InLock
<1>7. PendingInv'
  <2>1. Pending' = Pending
    BY DEF Pending, IInv, TypeOK
  <2> QED  BY <2>1, Counts DEF IInv, PendingInv
<1>8. IndexInv'
  <2>1. Allocated' = Allocated \ {Chain[k]} /\ Chain[k] \in Allocated
    BY <1>k, <1>c DEF Allocated, IInv, TypeOK
  <2>2. Cardinality(Allocated') = Cardinality(Allocated) - 1
    BY <2>1, Counts, FS_RemoveElement
  <2> QED  BY <2>2, Counts DEF IInv, TypeOK, IndexInv
<1> QED  BY <1>1, <1>2, <1>3, <1>4, <1>5, <1>6, <1>7, <1>8 DEF IInv

LEMMA RemoveSizeKeeps ==
  ASSUME IInv, NEW t \in Threads, RemoveSize(t)
  PROVE  IInv'
<1> USE DEF RemoveSize, To, Shrink
<1>c. Chain' = Chain /\ IsChain(Nodes, head', next', Chain')
  BY ChainStays DEF IInv
<1>a. \A u \in Threads : u # t /\ pc[t] \in InLock => pc[u] \notin InLock
  BY Alone
<1>1. TypeOK'
  <2>1. size - 1 = Len(Chain) /\ size - 1 \in 0 .. MaxAdds
    BY Counts, ChainIsList DEF IInv, SizeInv, TypeOK
  <2> QED  BY <2>1 DEF IInv, TypeOK, States
<1>2. LockInv'
  BY ListAssumption DEF IInv, TypeOK, LockInv, InLock
<1>3. HeapInv'
  BY <1>c DEF IInv, TypeOK, HeapInv
<1>4. ChainInv'
  BY <1>c DEF IInv, TypeOK, ChainInv
<1>5. HoldInv'
  BY <1>c DEF IInv, TypeOK, HoldInv, Holds
<1>6. SizeInv'
  BY <1>c, <1>a, Alone, ChainIsList DEF IInv, TypeOK, SizeInv, InLock
<1>7. PendingInv'
  <2>1. Pending' = Pending
    BY DEF Pending, IInv, TypeOK
  <2> QED  BY <2>1, Counts DEF IInv, PendingInv
<1>8. IndexInv'
  <2>1. Allocated' = Allocated
    BY DEF Allocated
  <2> QED  BY <1>c, <2>1, <1>a, Counts DEF IInv, TypeOK, IndexInv, InLock, Indices
<1> QED  BY <1>1, <1>2, <1>3, <1>4, <1>5, <1>6, <1>7, <1>8 DEF IInv

LEMMA RemoveMissKeeps ==
  ASSUME IInv, NEW t \in Threads, RemoveMiss(t)
  PROVE  IInv'
<1> USE DEF RemoveMiss, To, listVars
<1>c. Chain' = Chain /\ IsChain(Nodes, head', next', Chain')
  BY ChainStays DEF IInv
<1>a. \A u \in Threads : u # t /\ pc[t] \in InLock => pc[u] \notin InLock
  BY Alone
<1>1. TypeOK'
  BY <1>c, Counts DEF IInv, TypeOK, States, Values
<1>2. LockInv'
  BY ListAssumption DEF IInv, TypeOK, LockInv, InLock
<1>3. HeapInv'
  BY <1>c DEF IInv, TypeOK, HeapInv
<1>4. ChainInv'
  BY <1>c DEF IInv, TypeOK, ChainInv
<1>5. HoldInv'
  BY <1>c DEF IInv, TypeOK, HoldInv, Holds
<1>6. SizeInv'
  BY <1>c, <1>a, Alone, ChainIsList DEF IInv, TypeOK, SizeInv, InLock
<1>7. PendingInv'
  <2>1. Pending' = Pending
    BY DEF Pending, IInv, TypeOK
  <2> QED  BY <2>1, Counts DEF IInv, PendingInv
<1>8. IndexInv'
  <2>1. Allocated' = Allocated
    BY DEF Allocated
  <2> QED  BY <1>c, <2>1, <1>a, Counts DEF IInv, TypeOK, IndexInv, InLock, Indices
<1> QED  BY <1>1, <1>2, <1>3, <1>4, <1>5, <1>6, <1>7, <1>8 DEF IInv

LEMMA GetPastEndKeeps ==
  ASSUME IInv, NEW t \in Threads, GetPastEnd(t)
  PROVE  IInv'
<1> USE DEF GetPastEnd, listVars
<1>c. Chain' = Chain /\ IsChain(Nodes, head', next', Chain')
  BY ChainStays DEF IInv
<1>a. /\ \A u \in Threads : u # t => pc[u] \notin InLock
      /\ lock = t /\ size = Len(Chain)
      /\ Cardinality(Allocated) # added
  <2>1. /\ \A u \in Threads : u # t => pc[u] \notin InLock
        /\ lock = t
    BY Alone DEF IInv, LockInv, InLock
  <2>2. size = Len(Chain)
    BY <2>1 DEF IInv, SizeInv, InLock
  <2>3. Cardinality(Allocated) # added
    BY <2>2, ChainIsList, Counts DEF IInv, IndexInv, TypeOK, Indices
  <2> QED  BY <2>1, <2>2, <2>3
<1>1. TypeOK' /\ HeapInv' /\ LockInv'
  BY <1>a DEF IInv, TypeOK, States, HeapInv, LockInv, InLock
<1>2. ChainInv' /\ HoldInv' /\ SizeInv'
  BY <1>a, <1>c DEF IInv, ChainInv, HoldInv, Holds, SizeInv
<1>3. PendingInv'
  <2>1. Pending' = {}
    BY DEF Pending
  <2>2. Cardinality(Pending') = 0
    BY <2>1, FS_EmptySet
  <2> QED  BY <2>2, Counts DEF IInv, PendingInv
<1>4. IndexInv'
  <2>1. Allocated' = Allocated
    BY DEF Allocated
  <2> QED  BY <1>a, <2>1 DEF IInv, IndexInv
<1> QED  BY <1>1, <1>2, <1>3, <1>4 DEF IInv

\* A list with no node, no size and nobody inside: at the start and at the end.
LEMMA EmptyInv ==
  ASSUME TypeOK, IsChain(Nodes, head, next, Chain), Chain = <<>>, size = 0,
         \A n \in Nodes : data[n] = Garbage /\ next[n] = Garbage,
         \A t \in Threads : pc[t] \in {"idle", "gone"} /\ lock # t
  PROVE  IInv
<1>1. /\ Pending = {} /\ Allocated = {} /\ Cardinality({}) = 0
      /\ \A n : ~On(Chain, n)
  BY FS_EmptySet DEF Pending, Allocated, On
<1>2. Cardinality(Pending) = 0 /\ Cardinality(Allocated) = 0 /\ added \in Nat /\ Len(Chain) = 0
  BY <1>1, ListAssumption DEF TypeOK
<1>3. LockInv /\ HeapInv /\ ChainInv /\ HoldInv /\ SizeInv
  BY <1>1, <1>2 DEF LockInv, HeapInv, ChainInv, HoldInv, Holds, SizeInv, InLock
<1>4. PendingInv /\ IndexInv
  BY <1>2 DEF PendingInv, IndexInv
<1> QED  BY <1>3, <1>4 DEF IInv

LEMMA FreeListKeeps == IInv /\ FreeList => IInv'
<1>1. ASSUME IInv, FreeList
      PROVE  /\ TypeOK' /\ IsChain(Nodes, head', next', Chain') /\ Chain' = <<>> /\ size' = 0
             /\ \A n \in Nodes : data'[n] = Garbage /\ next'[n] = Garbage
             /\ \A t \in Threads : pc'[t] \in {"idle", "gone"} /\ lock' # t
  BY <1>1, ChainAtFree, ListAssumption DEF FreeList, IInv, TypeOK, States, LockInv, InLock
<1>2. (/\ TypeOK /\ IsChain(Nodes, head, next, Chain) /\ Chain = <<>> /\ size = 0
       /\ \A n \in Nodes : data[n] = Garbage /\ next[n] = Garbage
       /\ \A t \in Threads : pc[t] \in {"idle", "gone"} /\ lock # t)' => IInv'
  BY EmptyInv, PTL
<1> QED  BY <1>1, <1>2

LEMMA InitInv == Init => IInv
<1> SUFFICES ASSUME Init PROVE IInv
  OBVIOUS
<1> USE DEF Init
<1>1. IsChain(Nodes, head, next, <<>>)
  BY ListAssumption DEF IsChain, Distinct, Follows
<1>2. Chain = <<>>
  BY <1>1, ChainIs, ListAssumption DEF Chain
<1>3. TypeOK
  <2>1. 0 \in Indices /\ 0 \in 0 .. MaxAdds
    BY ListAssumption DEF Indices
  <2> QED  BY <2>1 DEF TypeOK, States
<1> QED  BY <1>1, <1>2, <1>3, EmptyInv, ListAssumption

LEMMA StepInv == IInv /\ [Next]_vars => IInv'
<1> SUFFICES ASSUME IInv, [Next]_vars PROVE IInv'
  OBVIOUS
<1>1. ASSUME NEW t \in Threads, Step(t) PROVE IInv'
  BY <1>1, LockKeeps, AddCallKeeps, AddLinkKeeps, AddSizeKeeps, GetCallKeeps, GetWalkKeeps,
     GetPastEndKeeps, RemoveCallKeeps, RemoveFoundKeeps, RemoveSizeKeeps, RemoveMissKeeps DEF Step
<1>2. ASSUME UNCHANGED vars PROVE IInv'
  <2>1. UNCHANGED <<head, size, next, data, lock, pc, arg, node, ret, added>>
    BY <1>2 DEF vars, listVars
  <2>2. Chain' = Chain
    BY <2>1, ChainStays DEF IInv
  <2> QED  BY <2>1, <2>2 DEF IInv, TypeOK, LockInv, HeapInv, ChainInv, HoldInv, Holds, SizeInv,
                           PendingInv, Pending, IndexInv, Allocated
<1> QED  BY <1>1, <1>2, FreeListKeeps DEF Next, Rest

\* The inductive invariant holds in every behaviour.
THEOREM Inductive == Spec => []IInv
BY InitInv, StepInv, PTL DEF Spec

\* No pointer that the list follows is garbage, and the size never leaves the
\* range of the additions made.
THEOREM TypeCorrect == Spec => []TypeOK
<1>1. IInv => TypeOK
  BY DEF IInv
<1> QED  BY <1>1, Inductive, PTL

\* Whenever the lock is free, the size counts the nodes from the head on.
THEOREM SizeIsLengthHolds == Spec => []SizeIsLength
<1>1. IInv => SizeIsLength
  <2> SUFFICES ASSUME IInv, lock = None PROVE size = Len(Chain)
    BY DEF SizeIsLength
  <2>1. \A t \in Threads : pc[t] \notin {"grow", "shrink"}
    BY ListAssumption DEF IInv, LockInv, InLock
  <2> QED  BY <2>1 DEF IInv, SizeInv
<1> QED  BY <1>1, Inductive, PTL

\* get_nth_element follows a null pointer only after a removal: as long as the
\* list only grows, the size it tests without the lock is never too great.
THEOREM CrashNeedsRemovalHolds == Spec => []CrashNeedsRemoval
<1>1. IInv => CrashNeedsRemoval
  BY Counts DEF IInv, IndexInv, CrashNeedsRemoval, Allocated
<1> QED  BY <1>1, Inductive, PTL

-----------------------------------------------------------------------------
(* The nodes implement a list whose operations take effect at one instant. *)

Growing == \E t \in Threads : pc[t] = "grow"

\* The nodes that the size counts, or will no longer count.
Linked == IF Growing THEN Tail(Chain) ELSE Chain

\* The contents follow them.
FollowsLinked ==
  /\ Linked \in Seq(Nodes) /\ Len(Linked) \in Nat /\ DOMAIN Linked = 1 .. Len(Linked)
  /\ Contents \in Seq(Values) /\ Len(Contents) = Len(Linked)
  /\ DOMAIN Contents = 1 .. Len(Linked)
  /\ \A k \in 1 .. Len(Linked) : Contents[k] = data[Linked[k]] /\ On(Chain, Linked[k])

LEMMA ContentsAre == IInv => FollowsLinked
<1> SUFFICES ASSUME IInv PROVE FollowsLinked
  OBVIOUS
<1>1. /\ Linked \in Seq(Nodes)
      /\ \A k \in 1 .. Len(Linked) : \E j \in 1 .. Len(Chain) : Linked[k] = Chain[j]
  <2>1. CASE Growing
    <3>1. Chain # <<>>
      BY <2>1 DEF Growing, IInv, SizeInv
    <3>2. /\ Tail(Chain) \in Seq(Nodes) /\ Len(Tail(Chain)) = Len(Chain) - 1
          /\ \A k \in 1 .. Len(Tail(Chain)) : Tail(Chain)[k] = Chain[k + 1]
      BY <3>1, ChainIsList, HeadTailProperties
    <3>3. \A k \in 1 .. Len(Chain) - 1 : k + 1 \in 1 .. Len(Chain)
      BY ChainIsList
    <3> QED  BY <2>1, <3>2, <3>3 DEF Linked
  <2>2. CASE ~Growing
    BY <2>2, ChainIsList DEF Linked
  <2> QED  BY <2>1, <2>2
<1>2. Len(Linked) \in Nat /\ DOMAIN Linked = 1 .. Len(Linked)
  BY <1>1, LenProperties
<1>3. \A k \in 1 .. Len(Linked) : data[Linked[k]] \in Values /\ On(Chain, Linked[k])
  BY <1>1, ChainIsList
<1>4. Contents = [k \in 1 .. Len(Linked) |-> data[Linked[k]]]
  BY <1>2 DEF Contents, Linked, Growing
<1> QED  BY <1>1, <1>2, <1>3, <1>4, IsASeq, LenProperties DEF FollowsLinked

LEMMA ContentsAreNext == IInv' => FollowsLinked'
BY ContentsAre, PTL

\* Where an element is in the list, and how long the list is at most.
LEMMA SizeOfContents ==
  ASSUME IInv
  PROVE  Len(Contents) <= size
<1>1. CASE Growing
  <2>1. Chain # <<>> /\ size = Len(Chain) - 1
    BY <1>1 DEF Growing, IInv, SizeInv
  <2>2. Len(Linked) = Len(Chain) - 1
    BY <1>1, <2>1, ChainIsList, HeadTailProperties DEF Linked
  <2> QED  BY <2>1, <2>2, ContentsAre, ChainIsList DEF FollowsLinked
<1>2. CASE ~Growing
  <2>1. Len(Linked) = Len(Chain)
    BY <1>2 DEF Linked
  <2>2. size = Len(Chain) \/ size = Len(Chain) + 1
    <3>1. CASE \E t \in Threads : pc[t] = "shrink"
      BY <3>1 DEF IInv, SizeInv
    <3>2. CASE ~\E t \in Threads : pc[t] = "shrink"
      BY <1>2, <3>2 DEF IInv, SizeInv, Growing
    <3> QED  BY <3>1, <3>2
  <2> QED  BY <2>1, <2>2, ContentsAre, ChainIsList DEF FollowsLinked
<1> QED  BY <1>1, <1>2

\* Steps that move neither what is linked nor its data.
LEMMA QuietContents ==
  ASSUME IInv, Chain' = Chain, Growing' <=> Growing,
         \A n \in Nodes : On(Chain, n) => data'[n] = data[n]
  PROVE  Contents' = Contents
<1>1. Linked' = Linked
  BY DEF Linked
<1>2. \A k \in DOMAIN Linked : Linked[k] \in Nodes /\ On(Chain, Linked[k])
  BY ContentsAre, ElementOfSeq DEF FollowsLinked
<1>3. /\ Contents = [k \in DOMAIN Linked |-> data[Linked[k]]]
      /\ Contents' = [k \in DOMAIN Linked' |-> data'[Linked'[k]]]
  BY DEF Contents, Linked, Growing
<1> QED  BY <1>1, <1>2, <1>3

LEMMA QuietList ==
  ASSUME IInv, NEW t \in Threads,
         Lock(t) \/ AddCall(t) \/ RemoveCall(t) \/ RemoveSize(t) \/ RemoveMiss(t) \/ GetPastEnd(t)
  PROVE  UNCHANGED <<Contents, ret>>
<1> USE DEF To
<1>r. ret' = ret
  BY DEF Lock, AddCall, RemoveCall, RemoveSize, RemoveMiss, GetPastEnd
<1>1. CASE AddCall(t)
  <2>1. PICK n \in Nodes : data[n] = Garbage /\ data' = [data EXCEPT ![n] = added + 1]
    BY <1>1 DEF AddCall
  <2>2. Chain' = Chain
    BY <1>1, ChainAtAddCall DEF IInv
  <2>3. \A m \in Nodes : On(Chain, m) => data'[m] = data[m]
    BY <2>1 DEF IInv, TypeOK, ChainInv
  <2>4. Growing' <=> Growing
    BY <1>1 DEF Growing, AddCall, IInv, TypeOK
  <2> QED  BY <1>r, <2>2, <2>3, <2>4, QuietContents
<1>2. CASE Lock(t) \/ RemoveCall(t) \/ RemoveSize(t) \/ RemoveMiss(t)
  <2>1. Chain' = Chain /\ data' = data
    BY <1>2, ChainStays DEF IInv, Lock, RemoveCall, RemoveSize, RemoveMiss, listVars
  <2>2. Growing' <=> Growing
    BY <1>2 DEF Growing, IInv, TypeOK, Lock, RemoveCall, RemoveSize, RemoveMiss
  <2> QED  BY <1>r, <2>1, <2>2, QuietContents
<1>3. CASE GetPastEnd(t)
  <2>1. Chain' = Chain /\ data' = data
    BY <1>3, ChainStays DEF IInv, GetPastEnd, listVars
  <2>2. ~Growing /\ ~Growing'
    BY <1>3, Alone DEF Growing, GetPastEnd, InLock
  <2> QED  BY <1>r, <2>1, <2>2, QuietContents
<1> QED  BY <1>1, <1>2, <1>3

\* The new node is in the chain, and not yet counted.
LEMMA LinkList ==
  ASSUME IInv, NEW t \in Threads, AddLink(t)
  PROVE  UNCHANGED <<Contents, ret>>
<1>1. /\ data' = data /\ ret' = ret /\ pc[t] = "link" /\ pc' = [pc EXCEPT ![t] = "grow"]
  BY DEF AddLink, To
<1>2. ~Growing /\ Growing'
  BY <1>1, Alone DEF Growing, InLock, IInv, TypeOK
<1>3. /\ IsChain(Nodes, head', next', Chain') /\ Chain' # <<>> /\ Len(Chain') = Len(Chain) + 1
      /\ \A k \in 1 .. Len(Chain) : Chain'[k + 1] = Chain[k]
      /\ Chain \in Seq(Nodes) /\ Len(Chain) \in Nat
  BY ChainAtAddLink, ChainIsList
<1>4. Tail(Chain') = Chain
  <2>1. Chain' \in Seq(Nodes)
    BY <1>3 DEF IsChain
  <2>2. /\ Tail(Chain') \in Seq(Nodes) /\ Len(Tail(Chain')) = Len(Chain') - 1
        /\ \A k \in 1 .. Len(Tail(Chain')) : Tail(Chain')[k] = Chain'[k + 1]
    BY <1>3, <2>1, HeadTailProperties
  <2>3. Len(Tail(Chain')) = Len(Chain)
    BY <1>3, <2>2
  <2> QED  BY <1>3, <2>2, <2>3, SeqEqual
<1>5. Linked' = Linked
  BY <1>2, <1>4 DEF Linked
<1>6. Contents' = Contents
  BY <1>1, <1>5 DEF Contents, Linked, Growing
<1> QED  BY <1>1, <1>6

\* The addition takes effect where the size is written.
LEMMA AddList ==
  ASSUME IInv, NEW t \in Threads, AddSize(t)
  PROVE  \E v \in Values : Atomic!AddElement(v)
<1>1. /\ data' = data /\ ret' = ret /\ pc[t] = "grow" /\ pc' = [pc EXCEPT ![t] = "idle"]
      /\ Chain' = Chain
  BY ChainStays DEF AddSize, To, IInv
<1>2. Growing /\ ~Growing'
  BY <1>1, Alone DEF Growing, InLock, IInv, TypeOK
<1>3. Chain # <<>>
  BY <1>1 DEF IInv, SizeInv
<1>4. Linked = Tail(Chain) /\ Linked' = Chain
  BY <1>1, <1>2 DEF Linked
<1>5. /\ Chain \in Seq(Nodes) /\ Len(Chain) \in Nat \ {0}
      /\ Len(Linked) = Len(Chain) - 1
      /\ \A k \in 1 .. Len(Chain) - 1 : Linked[k] = Chain[k + 1]
  BY <1>3, <1>4, ChainIsList, HeadTailProperties
<1> DEFINE v == data[Chain[1]]
           e == <<v>>
<1>6. v \in Values /\ e \in Seq(Values) /\ Len(e) = 1 /\ e[1] = v
  BY <1>5, ChainIsList
<1>7. /\ Contents \in Seq(Values) /\ Len(Contents) = Len(Chain) - 1
      /\ \A k \in 1 .. Len(Chain) - 1 : Contents[k] = data[Chain[k + 1]]
  BY <1>5, ContentsAre DEF FollowsLinked
<1>8. IInv'
  BY AddSizeKeeps
<1>9. /\ Contents' \in Seq(Values) /\ Len(Contents') = Len(Chain)
      /\ \A k \in 1 .. Len(Chain) : Contents'[k] = data[Chain[k]]
  BY <1>1, <1>4, <1>8, ContentsAreNext DEF FollowsLinked
<1> HIDE DEF e
<1>10. /\ e \o Contents \in Seq(Values) /\ Len(e \o Contents) = Len(e) + Len(Contents)
       /\ \A k \in 1 .. Len(e) + Len(Contents) :
            (e \o Contents)[k] = IF k <= Len(e) THEN e[k] ELSE Contents[k - Len(e)]
  BY <1>6, <1>7, ConcatProperties
<1>11. \A k \in 1 .. Len(Chain) : (e \o Contents)[k] = data[Chain[k]]
  <2> TAKE k \in 1 .. Len(Chain)
  <2>1. k \in 1 .. Len(e) + Len(Contents)
    BY <1>5, <1>6, <1>7
  <2>2. CASE k = 1
    BY <2>1, <2>2, <1>6, <1>10
  <2>3. CASE k # 1
    <3>1. ~(k <= Len(e)) /\ k - 1 \in 1 .. Len(Chain) - 1 /\ k - Len(e) = k - 1 /\ k - 1 + 1 = k
      BY <2>3, <1>5, <1>6
    <3>2. (e \o Contents)[k] = Contents[k - 1]
      BY <2>1, <3>1, <1>10
    <3> QED  BY <3>1, <3>2, <1>7
  <2> QED  BY <2>2, <2>3
<1>12. Len(e \o Contents) = Len(Chain)
  BY <1>5, <1>6, <1>7, <1>10
<1>13. Contents' = e \o Contents
  BY <1>9, <1>10, <1>11, <1>12, SeqEqual
<1> QED  BY <1>1, <1>6, <1>13 DEF Atomic!AddElement, e

\* An index out of range is answered where the size is read, another one in
\* the walk.
LEMMA GetList ==
  ASSUME IInv, NEW t \in Threads, GetCall(t) \/ GetWalk(t)
  PROVE  \/ UNCHANGED <<Contents, ret>>
         \/ \E u \in Threads, n \in Indices : Atomic!GetElement(u, n)
<1>c. Contents' = Contents
  <2>1. Chain' = Chain /\ data' = data /\ (Growing' <=> Growing)
    BY ChainStays DEF IInv, GetCall, GetWalk, listVars, Growing, To, TypeOK
  <2> QED  BY <2>1, QuietContents
<1>d. Len(Contents) \in Nat /\ DOMAIN Contents = 1 .. Len(Contents)
  BY ContentsAre DEF FollowsLinked
<1>1. CASE GetCall(t)
  <2>1. PICK n \in Indices :
          IF n < 0 \/ n >= size THEN ret' = [ret EXCEPT ![t] = <<n, Nothing>>]
          ELSE ret' = ret
    BY <1>1 DEF GetCall
  <2>2. CASE n < 0 \/ n >= size
    <3>1. n + 1 \notin DOMAIN Contents
      BY <2>2, <1>d, SizeOfContents, Counts DEF Indices
    <3>2. Atomic!GetElement(t, n)
      BY <1>c, <2>1, <2>2, <3>1 DEF Atomic!GetElement
    <3> QED  BY <3>2
  <2> QED  BY <1>c, <2>1, <2>2
<1>2. CASE GetWalk(t)
  <2>1. ~Growing
    BY <1>2, Alone DEF Growing, GetWalk, InLock
  <2>2. arg[t] \in Indices /\ arg[t] + 1 \in 1 .. Len(Chain)
    BY <1>2, ChainIsList DEF GetWalk, IInv, IndexInv, TypeOK, Indices
  <2>3. arg[t] + 1 \in DOMAIN Contents /\ Contents[arg[t] + 1] = data[Chain[arg[t] + 1]]
    BY <2>1, <2>2, ContentsAre DEF Linked, FollowsLinked
  <2>4. Atomic!GetElement(t, arg[t])
    BY <1>2, <1>c, <2>3 DEF GetWalk, Nth, Atomic!GetElement
  <2> QED  BY <2>2, <2>4
<1> QED  BY <1>1, <1>2

\* The removal takes effect where the node is unlinked.
LEMMA RemoveList ==
  ASSUME IInv, NEW t \in Threads, RemoveFound(t)
  PROVE  \E v \in Values : Atomic!RemoveElement(v)
<1>1. PICK k \in 1 .. Len(Chain) :
        /\ data[Chain[k]] = arg[t]
        /\ \A j \in 1 .. Len(Chain) : data[Chain[j]] = arg[t] => k <= j
        /\ data' = [data EXCEPT ![Chain[k]] = Garbage]
        /\ Chain' = Without(Chain, k)
  BY ChainAtRemove
<1>2. ret' = ret /\ ~Growing /\ ~Growing'
  BY Alone DEF RemoveFound, To, Growing, InLock, IInv, TypeOK
<1>3. Linked = Chain /\ Linked' = Chain'
  BY <1>2 DEF Linked
<1>4. /\ Contents \in Seq(Values) /\ Len(Contents) = Len(Chain) /\ Len(Chain) \in Nat
      /\ DOMAIN Contents = 1 .. Len(Chain)
      /\ \A j \in 1 .. Len(Chain) : Contents[j] = data[Chain[j]]
  BY <1>3, ContentsAre DEF FollowsLinked
<1>5. /\ Len(Chain') = Len(Chain) - 1
      /\ \A j \in 1 .. Len(Chain) - 1 : Chain'[j] = IF j < k THEN Chain[j] ELSE Chain[j + 1]
  <2>1. Chain \in Seq(Nodes) /\ k \in 1 .. Len(Chain)
    BY ChainIsList
  <2>2. /\ Len(Without(Chain, k)) = Len(Chain) - 1
        /\ \A j \in 1 .. Len(Chain) - 1 :
             Without(Chain, k)[j] = IF j < k THEN Chain[j] ELSE Chain[j + 1]
    BY <2>1, WithoutIs
  <2> QED  BY <1>1, <2>2
<1>6. /\ Without(Contents, k) \in Seq(Values) /\ Len(Without(Contents, k)) = Len(Chain) - 1
      /\ \A j \in 1 .. Len(Chain) - 1 :
           Without(Contents, k)[j] = IF j < k THEN Contents[j] ELSE Contents[j + 1]
  <2>1. Contents \in Seq(Values) /\ k \in 1 .. Len(Contents)
    BY <1>4
  <2>2. /\ Without(Contents, k) \in Seq(Values) /\ Len(Without(Contents, k)) = Len(Contents) - 1
        /\ \A j \in 1 .. Len(Contents) - 1 :
             Without(Contents, k)[j] = IF j < k THEN Contents[j] ELSE Contents[j + 1]
    BY <2>1, WithoutIs
  <2> QED  BY <1>4, <2>2
<1>7. IInv'
  BY RemoveFoundKeeps
<1>8. /\ Contents' \in Seq(Values) /\ Len(Contents') = Len(Chain) - 1
      /\ \A j \in 1 .. Len(Chain) - 1 : Contents'[j] = data'[Chain'[j]]
  BY <1>3, <1>5, <1>7, ContentsAreNext DEF FollowsLinked
<1>9. \A j \in 1 .. Len(Chain) - 1 : Contents'[j] = Without(Contents, k)[j]
  <2> TAKE j \in 1 .. Len(Chain) - 1
  <2>1. \A i \in 1 .. Len(Chain) : i # k => data'[Chain[i]] = data[Chain[i]]
    BY <1>1, ChainIsList DEF IInv, TypeOK
  <2>2. j \in 1 .. Len(Chain) /\ j + 1 \in 1 .. Len(Chain) /\ (j < k => j # k) /\ (~(j < k) => j + 1 # k)
    BY <1>4
  <2>3. CASE j < k
    <3>1. Contents'[j] = data'[Chain[j]] /\ Without(Contents, k)[j] = Contents[j]
      BY <2>3, <1>5, <1>6, <1>8
    <3> QED  BY <3>1, <2>1, <2>2, <2>3, <1>4
  <2>4. CASE ~(j < k)
    <3>1. Contents'[j] = data'[Chain[j + 1]] /\ Without(Contents, k)[j] = Contents[j + 1]
      BY <2>4, <1>5, <1>6, <1>8
    <3> QED  BY <3>1, <2>1, <2>2, <2>4, <1>4
  <2> QED  BY <2>3, <2>4
<1>10. Contents' = Without(Contents, k)
  BY <1>6, <1>8, <1>9, SeqEqual
<1>11. data[Chain[k]] \in Values
  BY ChainIsList
<1>12. Atomic!RemoveElement(data[Chain[k]])
  BY <1>1, <1>2, <1>4, <1>10 DEF Atomic!RemoveElement, Without
<1> QED  BY <1>11, <1>12

LEMMA FreeAllList ==
  ASSUME IInv, FreeList
  PROVE  Atomic!FreeAll
<1>1. Chain' = <<>> /\ ~Growing'
  BY ChainAtFree DEF FreeList, Growing
<1>2. Contents' = <<>>
  BY <1>1 DEF Contents, Growing
<1> QED  BY <1>2 DEF Atomic!FreeAll, FreeList

\* linkedList.c is a list: an element is added, found by its index and removed
\* as if at one instant, although the size is tested before the lock is taken.
THEOREM ListKeptHolds == Spec => ListKept
<1>1. Init => Atomic!Init
  <2> SUFFICES ASSUME Init PROVE Atomic!Init
    OBVIOUS
  <2>1. IInv /\ size = 0
    BY InitInv DEF Init
  <2>2. ~Growing /\ Chain = <<>>
    BY <2>1, ChainIsList DEF Growing, Init, IInv, SizeInv
  <2>3. Contents = <<>>
    BY <2>2 DEF Contents, Growing
  <2> QED  BY <2>3 DEF Init, Atomic!Init
<1>2. IInv /\ [Next]_vars => [Atomic!Next]_(Atomic!vars)
  <2> SUFFICES ASSUME IInv, [Next]_vars PROVE Atomic!Next \/ UNCHANGED <<Contents, ret>>
    BY DEF Atomic!vars
  <2>1. CASE UNCHANGED vars
    <3>1. Chain' = Chain /\ data' = data /\ ret' = ret /\ (Growing' <=> Growing)
      BY <2>1, ChainStays DEF IInv, vars, listVars, Growing
    <3> QED  BY <3>1, QuietContents
  <2>2. ASSUME NEW t \in Threads, Step(t)
        PROVE  Atomic!Next \/ UNCHANGED <<Contents, ret>>
    BY <2>2, QuietList, LinkList, AddList, GetList, RemoveList DEF Step, Atomic!Next
  <2>3. CASE FreeList
    BY <2>3, FreeAllList DEF Atomic!Next
  <2> QED  BY <2>1, <2>2, <2>3 DEF Next, Rest
<1> QED  BY <1>1, <1>2, Inductive, PTL DEF Spec, ListKept, Atomic!Spec

=============================================================================
