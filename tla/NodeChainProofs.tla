--------------------------- MODULE NodeChainProofs ----------------------------
(***************************************************************************)
(* Facts about chains of nodes, for any finite set of nodes: ChainOf finds *)
(* the sequence that runs along the links, and what one more link or one   *)
(* less makes of it.                                                       *)
(***************************************************************************)
EXTENDS NodeChain, InductionProofs, SequenceTheorems

-----------------------------------------------------------------------------
(* The recursion of ChainOf. *)

\* What ChainOf computes for k steps, from what it computes for k - 1.
From(nodes, link, f, k) ==
  [n \in nodes |->
     IF k = 0 THEN <<>>
     ELSE <<n>> \o (IF link[n] \in nodes THEN f[k - 1][link[n]] ELSE <<>>)]

\* The recursive function exists.
LEMMA FromExists ==
  ASSUME NEW nodes, NEW link, NEW bound \in Nat
  PROVE  \E f : f = [k \in 0 .. bound |-> From(nodes, link, f, k)]
<1> DEFINE S == {b \in 0 .. bound : \E f : f = [k \in 0 .. b |-> From(nodes, link, f, k)]}
<1>1. 0 \in S
  <2> DEFINE f == [k \in 0 .. 0 |-> [n \in nodes |-> <<>>]]
  <2>1. \A k \in 0 .. 0 : From(nodes, link, f, k) = [n \in nodes |-> <<>>]
    BY DEF From
  <2>2. f = [k \in 0 .. 0 |-> From(nodes, link, f, k)]
    BY <2>1
  <2> QED  BY <2>2
<1>2. ASSUME NEW b \in 0 .. bound - 1, b \in S
      PROVE  b + 1 \in S
  <2>1. PICK f : f = [k \in 0 .. b |-> From(nodes, link, f, k)]
    BY <1>2
  <2> DEFINE g == [k \in 0 .. b + 1 |->
                     IF k <= b THEN f[k] ELSE From(nodes, link, f, b + 1)]
  <2>2. \A k \in 0 .. b : g[k] = f[k]
    OBVIOUS
  <2>3. ASSUME NEW k \in 0 .. b + 1
        PROVE  From(nodes, link, f, k) = From(nodes, link, g, k)
    <3>1. k # 0 => g[k - 1] = f[k - 1]
      BY <2>2
    <3> HIDE DEF g
    <3> QED  BY <3>1 DEF From
  <2>4. ASSUME NEW k \in 0 .. b + 1
        PROVE  g[k] = From(nodes, link, g, k)
    <3>1. CASE k <= b
      <4>1. k \in 0 .. b  BY <3>1
      <4>2. f[k] = From(nodes, link, f, k)  BY <2>1, <4>1
      <4> HIDE DEF g
      <4> QED  BY <4>1, <4>2, <2>2, <2>3
    <3>2. CASE ~(k <= b)
      <4>1. k = b + 1 /\ g[k] = From(nodes, link, f, b + 1)  BY <3>2
      <4> HIDE DEF g
      <4> QED  BY <4>1, <2>3
    <3> QED  BY <3>1, <3>2
  <2>5. g = [k \in 0 .. b + 1 |-> g[k]]
    OBVIOUS
  <2> HIDE DEF g
  <2>6. g = [k \in 0 .. b + 1 |-> From(nodes, link, g, k)]
    BY <2>4, <2>5
  <2> QED  BY <2>6
<1>3. \A k \in 0 .. bound : k \in S
  <2> HIDE DEF S
  <2> QED  BY <1>1, <1>2, UpTo
<1> QED  BY <1>3
-----------------------------------------------------------------------------
(* Chains. *)

Distinct(q) == \A j, k \in DOMAIN q : j # k => q[j] # q[k]

\* q is the chain that starts at the first node.
IsChain(nodes, first, link, q) ==
  /\ q \in Seq(nodes)
  /\ Distinct(q)
  /\ Follows(nodes, first, link, q)

\* No chain is longer than there are nodes.
LEMMA ChainLength ==
  ASSUME NEW nodes, IsFiniteSet(nodes), NEW q \in Seq(nodes), Distinct(q)
  PROVE  Len(q) \in 0 .. Cardinality(nodes)
<1>1. Len(q) \in Nat /\ DOMAIN q = 1 .. Len(q) /\ q \in [1 .. Len(q) -> nodes]
  BY LenProperties
<1>2. q \in Injection(1 .. Len(q), nodes)
  BY <1>1 DEF Distinct, Injection, IsInjective
<1>3. Cardinality(1 .. Len(q)) = Len(q)
  BY <1>1, FS_Interval
<1>4. Cardinality(1 .. Len(q)) <= Cardinality(nodes)
  BY <1>2, FS_Injection
<1>5. Cardinality(nodes) \in Nat
  BY FS_CardinalityType
<1> QED  BY <1>1, <1>3, <1>4, <1>5

\* The end of a sequence from a position on.
LEMMA EndOf ==
  ASSUME NEW nodes, NEW q \in Seq(nodes), NEW i \in 1 .. Len(q)
  PROVE  /\ i = Len(q) => SubSeq(q, i, Len(q)) = <<q[i]>>
         /\ i < Len(q) => SubSeq(q, i, Len(q)) = <<q[i]>> \o SubSeq(q, i + 1, Len(q))
         /\ SubSeq(q, 1, Len(q)) = q
<1>1. Len(q) \in Nat /\ i \in Nat /\ \A k \in 1 .. Len(q) : q[k] \in nodes
  BY LenProperties, ElementOfSeq
<1>2. /\ SubSeq(q, i, Len(q)) \in Seq(nodes)
      /\ Len(SubSeq(q, i, Len(q))) = Len(q) - i + 1
      /\ \A k \in 1 .. Len(q) - i + 1 : SubSeq(q, i, Len(q))[k] = q[i + k - 1]
  BY <1>1, SubSeqProperties
<1>3. <<q[i]>> \in Seq(nodes) /\ Len(<<q[i]>>) = 1 /\ <<q[i]>>[1] = q[i]
  BY <1>1
<1>4. CASE i = Len(q)
  <2>1. SubSeq(q, i, Len(q))[1] = q[i] /\ Len(SubSeq(q, i, Len(q))) = 1
    BY <1>1, <1>2, <1>4
  <2> DEFINE r == SubSeq(q, i, Len(q))
             e == <<q[i]>>
  <2>2. r = e
    <3>1. r \in Seq(nodes) /\ e \in Seq(nodes) /\ Len(r) = 1 /\ Len(e) = 1 /\ r[1] = e[1]
      BY <1>2, <1>3, <2>1
    <3> HIDE DEF r, e
    <3>2. \A k \in 1 .. Len(r) : r[k] = e[k]
      BY <3>1
    <3> QED  BY <3>1, <3>2, SeqEqual
  <2> QED  BY <2>2, <1>4, SubSeqFull
<1>5. CASE i < Len(q)
  <2> DEFINE r == SubSeq(q, i + 1, Len(q))
  <2>1. /\ r \in Seq(nodes)
        /\ Len(r) = Len(q) - i
        /\ \A k \in 1 .. Len(q) - i : r[k] = q[i + k]
    BY <1>1, <1>5, SubSeqProperties
  <2> HIDE DEF r
  <2>2. /\ <<q[i]>> \o r \in Seq(nodes)
        /\ Len(<<q[i]>> \o r) = 1 + Len(r)
        /\ \A k \in 1 .. 1 + Len(r) : (<<q[i]>> \o r)[k] = IF k <= 1 THEN <<q[i]>>[k] ELSE r[k - 1]
    BY <1>3, <2>1, ConcatProperties
  <2>3. \A k \in 1 .. Len(q) - i + 1 : SubSeq(q, i, Len(q))[k] = (<<q[i]>> \o r)[k]
    <3> TAKE k \in 1 .. Len(q) - i + 1
    <3>1. CASE k = 1
      BY <3>1, <1>1, <1>2, <1>3, <2>1, <2>2
    <3>2. CASE k # 1
      <4>1. k - 1 \in 1 .. Len(q) - i /\ i + (k - 1) = i + k - 1 /\ ~(k <= 1)
        BY <3>2, <1>1
      <4> QED  BY <4>1, <1>1, <1>2, <2>1, <2>2
    <3> QED  BY <3>1, <3>2
  <2>4. Len(SubSeq(q, i, Len(q))) = Len(<<q[i]>> \o r)
    BY <1>1, <1>2, <2>1, <2>2
  <2>5. SubSeq(q, i, Len(q)) = <<q[i]>> \o r
    BY <1>2, <2>2, <2>3, <2>4, SeqEqual
  <2> QED  BY <2>5, <1>1, <1>5, SubSeqFull DEF r
<1> QED  BY <1>1, <1>4, <1>5

\* ChainOf finds the chain.
THEOREM ChainIs ==
  ASSUME NEW nodes, IsFiniteSet(nodes), NEW first, NEW link, NEW q,
         IsChain(nodes, first, link, q)
  PROVE  ChainOf(nodes, first, link) = q
<1> DEFINE bound == Cardinality(nodes)
           from == CHOOSE f : f = [k \in 0 .. bound |-> From(nodes, link, f, k)]
           S == {k \in 0 .. bound : \A i \in 1 .. Len(q) :
                   Len(q) - i + 1 <= k => from[k][q[i]] = SubSeq(q, i, Len(q))}
<1>1. /\ q \in Seq(nodes) /\ Len(q) \in 0 .. bound /\ bound \in Nat
      /\ \A i \in 1 .. Len(q) : q[i] \in nodes
  BY ChainLength, FS_CardinalityType, ElementOfSeq DEF IsChain
<1>2. from = [k \in 0 .. bound |-> From(nodes, link, from, k)]
  <2> HIDE DEF bound
  <2>1. \E f : f = [k \in 0 .. bound |-> From(nodes, link, f, k)]
    BY <1>1, FromExists
  <2> QED  BY <2>1
<1>3. ChainOf(nodes, first, link) =
        IF first \in nodes THEN from[bound][first] ELSE <<>>
  BY DEF ChainOf, From
<1> HIDE DEF from, bound
<1>4. 0 \in S
  BY <1>1
<1>5. ASSUME NEW k \in 0 .. bound - 1, k \in S
      PROVE  k + 1 \in S
  <2>1. k + 1 \in 0 .. bound /\ k + 1 # 0 /\ (k + 1) - 1 = k
    BY <1>1
  <2> SUFFICES ASSUME NEW i \in 1 .. Len(q), Len(q) - i + 1 <= k + 1
               PROVE  from[k + 1][q[i]] = SubSeq(q, i, Len(q))
    BY <2>1
  <2>2. from[k + 1][q[i]] =
          <<q[i]>> \o (IF link[q[i]] \in nodes THEN from[k][link[q[i]]] ELSE <<>>)
    <3>1. from[k + 1] = From(nodes, link, from, k + 1)
      BY <2>1, <1>2
    <3>2. q[i] \in nodes
      BY <1>1
    <3> QED  BY <2>1, <3>1, <3>2 DEF From
  <2>3. CASE i = Len(q)
    <3>1. link[q[i]] \notin nodes
      BY <2>3, <1>1 DEF IsChain, Follows
    <3>2. <<q[i]>> \o <<>> = <<q[i]>>
      BY <1>1, ConcatEmptySeq
    <3> QED  BY <2>2, <2>3, <3>1, <3>2, <1>1, EndOf
  <2>4. CASE i < Len(q)
    <3>1. i \in 1 .. Len(q) - 1 /\ i + 1 \in 1 .. Len(q) /\ Len(q) - (i + 1) + 1 <= k
      BY <2>4, <1>1
    <3>2. q[i + 1] = link[q[i]] /\ q[i + 1] \in nodes
      BY <3>1, <1>1 DEF IsChain, Follows
    <3>3. from[k][q[i + 1]] = SubSeq(q, i + 1, Len(q))
      BY <3>1, <1>5
    <3> QED  BY <2>2, <2>4, <3>2, <3>3, <1>1, EndOf
  <2> QED  BY <2>3, <2>4, <1>1
<1>6. bound \in S
  <2>1. \A k \in 0 .. bound : k \in S
    <3> HIDE DEF S
    <3> QED  BY <1>1, <1>4, <1>5, UpTo
  <2> QED  BY <2>1, <1>1
<1>7. CASE q = <<>>
  BY <1>3, <1>7 DEF IsChain, Follows
<1>8. CASE q # <<>>
  <2>1. 1 \in 1 .. Len(q) /\ first = q[1] /\ first \in nodes
    BY <1>1, <1>8, EmptySeq DEF IsChain, Follows
  <2>2. from[bound][q[1]] = SubSeq(q, 1, Len(q))
    BY <2>1, <1>1, <1>6
  <2> QED  BY <2>1, <2>2, <1>1, <1>3, EndOf
<1> QED  BY <1>7, <1>8
-----------------------------------------------------------------------------
(* What a statement makes of a chain. *)

On(q, n) == \E k \in DOMAIN q : q[k] = n

\* What IsChain says of each position.
LEMMA ChainFacts ==
  ASSUME NEW nodes, NEW first, NEW link, NEW q, IsChain(nodes, first, link, q)
  PROVE  /\ q \in Seq(nodes) /\ Len(q) \in Nat /\ DOMAIN q = 1 .. Len(q)
         /\ q = <<>> <=> Len(q) = 0
         /\ \A k \in 1 .. Len(q) : q[k] \in nodes
         /\ \A j, k \in 1 .. Len(q) : j # k => q[j] # q[k]
         /\ q = <<>> => first \notin nodes
         /\ q # <<>> => /\ first = q[1] /\ first \in nodes /\ On(q, first)
                       /\ link[q[Len(q)]] \notin nodes
                       /\ On(q, q[Len(q)])
         /\ \A k \in 1 .. Len(q) - 1 : q[k + 1] = link[q[k]]
<1>1. q \in Seq(nodes) /\ Len(q) \in Nat /\ DOMAIN q = 1 .. Len(q) /\ (q = <<>> <=> Len(q) = 0)
  BY LenProperties, EmptySeq DEF IsChain
<1>2. \A k \in 1 .. Len(q) : q[k] \in nodes
  BY <1>1, ElementOfSeq
<1>3. q # <<>> => 1 \in 1 .. Len(q) /\ Len(q) \in 1 .. Len(q)
  BY <1>1
<1> QED  BY <1>1, <1>2, <1>3 DEF IsChain, Distinct, Follows, On

\* A statement that writes no link of the chain leaves the chain.
LEMMA ChainFrame ==
  ASSUME NEW nodes, NEW first, NEW link, NEW q, IsChain(nodes, first, link, q),
         NEW newLink, \A n \in nodes : On(q, n) => newLink[n] = link[n]
  PROVE  IsChain(nodes, first, newLink, q)
<1>1. \A k \in 1 .. Len(q) : newLink[q[k]] = link[q[k]]
  BY ChainFacts DEF On
<1>2. q # <<>> => Len(q) \in 1 .. Len(q)
  BY ChainFacts
<1>3. \A k \in 1 .. Len(q) - 1 : k \in 1 .. Len(q)
  BY ChainFacts
<1> QED  BY <1>1, <1>2, <1>3 DEF IsChain, Follows

\* The first node of an empty chain.
LEMMA ChainStart ==
  ASSUME NEW nodes, NEW n \in nodes, NEW link, link[n] \notin nodes
  PROVE  IsChain(nodes, n, link, <<n>>) /\ \A m : On(<<n>>, m) <=> m = n
<1>1. <<n>> \in Seq(nodes) /\ Len(<<n>>) = 1 /\ <<n>>[1] = n /\ DOMAIN <<n>> = {1} /\ <<n>> # <<>>
  OBVIOUS
<1> DEFINE q == <<n>>
<1> HIDE DEF q
<1>2. Len(q) = 1 /\ q[1] = n /\ DOMAIN q = {1} /\ q # <<>> /\ q \in Seq(nodes)
  BY <1>1 DEF q
<1>3. IsChain(nodes, n, link, q) /\ \A m : On(q, m) <=> m = n
  BY <1>2 DEF IsChain, Distinct, Follows, On
<1> QED  BY <1>3 DEF q

\* A node linked after the last one.
LEMMA ChainAppend ==
  ASSUME NEW nodes, NEW first, NEW link, NEW q, IsChain(nodes, first, link, q), q # <<>>,
         NEW n \in nodes, ~On(q, n), link[n] \notin nodes,
         NEW newLink, newLink[q[Len(q)]] = n,
         \A m \in nodes : m # q[Len(q)] => newLink[m] = link[m]
  PROVE  /\ IsChain(nodes, first, newLink, Append(q, n))
         /\ \A m : On(Append(q, n), m) <=> On(q, m) \/ m = n
         /\ Append(q, n)[Len(q) + 1] = n /\ Len(Append(q, n)) = Len(q) + 1
<1> DEFINE r == Append(q, n)
<1>f. /\ q \in Seq(nodes) /\ Len(q) \in Nat \ {0} /\ DOMAIN q = 1 .. Len(q)
      /\ \A k \in 1 .. Len(q) : q[k] \in nodes
      /\ \A j, k \in 1 .. Len(q) : j # k => q[j] # q[k]
      /\ first = q[1]
      /\ \A k \in 1 .. Len(q) - 1 : q[k + 1] = link[q[k]]
  BY ChainFacts
<1>1. /\ r \in Seq(nodes) /\ Len(r) = Len(q) + 1 /\ r # <<>> /\ DOMAIN r = 1 .. Len(q) + 1
      /\ \A k \in 1 .. Len(q) : r[k] = q[k]
      /\ r[Len(q) + 1] = n
  BY <1>f, AppendProperties
<1> HIDE DEF r
<1>2. \A k \in 1 .. Len(q) : q[k] # n
  BY <1>f DEF On
<1>3. Distinct(r)
  BY <1>f, <1>1, <1>2 DEF Distinct
<1>4. newLink[n] \notin nodes
  <2>1. n # q[Len(q)]
    BY <1>f, <1>2
  <2> QED  BY <2>1
<1>5. \A k \in 1 .. Len(r) - 1 : r[k + 1] = newLink[r[k]]
  <2> SUFFICES ASSUME NEW k \in 1 .. Len(q) PROVE r[k + 1] = newLink[q[k]]
    BY <1>f, <1>1
  <2>1. CASE k = Len(q)
    BY <2>1, <1>1
  <2>2. CASE k # Len(q)
    <3>n. Len(q) \in Nat
      BY <1>f
    <3>1. k \in 1 .. Len(q) - 1 /\ k + 1 \in 1 .. Len(q) /\ Len(q) \in 1 .. Len(q)
      BY <2>2, <3>n
    <3>2. q[k] # q[Len(q)] /\ q[k] \in nodes
      BY <2>2, <3>1, <1>f
    <3> QED  BY <3>1, <3>2, <1>f, <1>1
  <2> QED  BY <2>1, <2>2
<1>6. Follows(nodes, first, newLink, r)
  <2>1. r[1] = first
    BY <1>f, <1>1
  <2> QED  BY <2>1, <1>1, <1>4, <1>5 DEF Follows
<1>7. \A m : On(r, m) <=> On(q, m) \/ m = n
  <2> TAKE m
  <2>1. On(q, m) => On(r, m)
    BY <1>f, <1>1 DEF On
  <2>2. m = n => On(r, m)
    <3>1. Len(q) + 1 \in DOMAIN r
      BY <1>f, <1>1
    <3> QED  BY <3>1, <1>1 DEF On
  <2>3. ASSUME NEW k \in DOMAIN r, r[k] = m
        PROVE  On(q, m) \/ m = n
    <3>1. CASE k = Len(q) + 1
      BY <3>1, <2>3, <1>1
    <3>2. CASE k # Len(q) + 1
      <4>1. k \in DOMAIN q /\ q[k] = m
        BY <3>2, <2>3, <1>f, <1>1
      <4> QED  BY <4>1 DEF On
    <3> QED  BY <3>1, <3>2
  <2> QED  BY <2>1, <2>2, <2>3 DEF On
<1> QED  BY <1>1, <1>3, <1>6, <1>7 DEF IsChain, r

\* A node linked before the first one.
LEMMA ChainPrepend ==
  ASSUME NEW nodes, NEW first, NEW link, NEW q, IsChain(nodes, first, link, q),
         NEW n \in nodes, ~On(q, n),
         NEW newLink, newLink[n] = first,
         \A m \in nodes : m # n => newLink[m] = link[m]
  PROVE  /\ IsChain(nodes, n, newLink, <<n>> \o q)
         /\ Len(<<n>> \o q) = Len(q) + 1
         /\ (<<n>> \o q)[1] = n
         /\ \A k \in 1 .. Len(q) : (<<n>> \o q)[k + 1] = q[k]
         /\ \A m : On(<<n>> \o q, m) <=> On(q, m) \/ m = n
<1> DEFINE e == <<n>>
           r == e \o q
<1>f. /\ q \in Seq(nodes) /\ Len(q) \in Nat /\ DOMAIN q = 1 .. Len(q)
      /\ q = <<>> <=> Len(q) = 0
      /\ \A k \in 1 .. Len(q) : q[k] \in nodes
      /\ \A j, k \in 1 .. Len(q) : j # k => q[j] # q[k]
      /\ q = <<>> => first \notin nodes
      /\ q # <<>> => first = q[1] /\ link[q[Len(q)]] \notin nodes
      /\ \A k \in 1 .. Len(q) - 1 : q[k + 1] = link[q[k]]
  BY ChainFacts
<1>e. e \in Seq(nodes) /\ Len(e) = 1 /\ e[1] = n
  OBVIOUS
<1> HIDE DEF e
<1>1. /\ r \in Seq(nodes) /\ Len(r) = Len(q) + 1 /\ r # <<>> /\ DOMAIN r = 1 .. Len(q) + 1
      /\ r[1] = n
      /\ \A k \in 1 .. Len(q) : r[k + 1] = q[k]
  <2>1. /\ r \in Seq(nodes) /\ Len(r) = Len(e) + Len(q)
        /\ \A k \in 1 .. Len(e) + Len(q) : r[k] = IF k <= Len(e) THEN e[k] ELSE q[k - Len(e)]
    <3>1. q \in Seq(nodes) /\ e \in Seq(nodes)
      BY <1>f, <1>e
    <3> QED  BY <3>1, ConcatProperties
  <2> HIDE DEF r
  <2>2. Len(r) = Len(q) + 1 /\ DOMAIN r = 1 .. Len(q) + 1 /\ r # <<>>
    BY <2>1, <1>f, <1>e, LenProperties, EmptySeq
  <2>3. r[1] = n
    BY <2>1, <1>f, <1>e
  <2>4. \A k \in 1 .. Len(q) : r[k + 1] = q[k]
    <3> TAKE k \in 1 .. Len(q)
    <3>1. k + 1 \in 1 .. 1 + Len(q) /\ ~(k + 1 <= 1) /\ (k + 1) - 1 = k
      BY <1>f
    <3> QED  BY <3>1, <2>1, <1>e
  <2> QED  BY <2>1, <2>2, <2>3, <2>4
<1> HIDE DEF r
<1>2. \A k \in 1 .. Len(q) : q[k] # n
  BY <1>f DEF On
<1>3. \A k \in 2 .. Len(q) + 1 : k - 1 \in 1 .. Len(q) /\ r[k] = q[k - 1]
  <2> TAKE k \in 2 .. Len(q) + 1
  <2>1. k - 1 \in 1 .. Len(q) /\ (k - 1) + 1 = k
    BY <1>f
  <2> QED  BY <2>1, <1>1
<1>4. Distinct(r)
  <2> SUFFICES ASSUME NEW j \in 1 .. Len(q) + 1, NEW k \in 1 .. Len(q) + 1, j # k
               PROVE  r[j] # r[k]
    BY <1>1 DEF Distinct
  <2>1. j = 1 \/ j \in 2 .. Len(q) + 1  BY <1>f
  <2>2. k = 1 \/ k \in 2 .. Len(q) + 1  BY <1>f
  <2>3. CASE j # 1 /\ k # 1
    <3>1. j - 1 # k - 1  BY <2>3, <1>f
    <3> QED  BY <2>1, <2>2, <2>3, <3>1, <1>3, <1>f
  <2> QED  BY <2>1, <2>2, <2>3, <1>1, <1>2, <1>3
<1>5. \A k \in 1 .. Len(r) - 1 : r[k + 1] = newLink[r[k]]
  <2> SUFFICES ASSUME NEW k \in 1 .. Len(q) PROVE q[k] = newLink[r[k]]
    BY <1>f, <1>1
  <2>1. CASE k = 1
    BY <2>1, <1>1, <1>f
  <2>2. CASE k # 1
    <3>1. k \in 2 .. Len(q) + 1 /\ k - 1 \in 1 .. Len(q) - 1 /\ (k - 1) + 1 = k /\ k - 1 \in 1 .. Len(q)
      BY <2>2, <1>f
    <3>2. r[k] = q[k - 1] /\ q[k - 1] # n /\ q[k - 1] \in nodes
      BY <3>1, <1>2, <1>3, <1>f
    <3>3. q[(k - 1) + 1] = link[q[k - 1]]
      BY <3>1, <1>f
    <3> QED  BY <3>1, <3>2, <3>3
  <2> QED  BY <2>1, <2>2
<1>6. newLink[r[Len(r)]] \notin nodes
  <2>1. CASE q = <<>>
    <3>1. Len(r) = 1  BY <2>1, <1>f, <1>1
    <3> QED  BY <2>1, <3>1, <1>f, <1>1
  <2>2. CASE q # <<>>
    <3>1. Len(q) \in 1 .. Len(q) /\ r[Len(r)] = q[Len(q)]
      BY <2>2, <1>f, <1>1
    <3> QED  BY <2>2, <3>1, <1>2, <1>f
  <2> QED  BY <2>1, <2>2
<1>7. Follows(nodes, n, newLink, r)
  BY <1>1, <1>5, <1>6 DEF Follows
<1>8. \A m : On(r, m) <=> On(q, m) \/ m = n
  <2> TAKE m
  <2>1. ASSUME NEW k \in DOMAIN q, q[k] = m PROVE On(r, m)
    <3>1. k + 1 \in DOMAIN r /\ r[k + 1] = m
      BY <2>1, <1>f, <1>1
    <3> QED  BY <3>1 DEF On
  <2>2. m = n => On(r, m)
    <3>1. 1 \in DOMAIN r
      BY <1>f, <1>1
    <3> QED  BY <3>1, <1>1 DEF On
  <2>3. ASSUME NEW k \in DOMAIN r, r[k] = m
        PROVE  On(q, m) \/ m = n
    <3>1. CASE k = 1
      BY <3>1, <2>3, <1>1
    <3>2. CASE k # 1
      <4>1. k \in 2 .. Len(q) + 1
        BY <3>2, <2>3, <1>f, <1>1
      <4>2. k - 1 \in DOMAIN q /\ q[k - 1] = m
        BY <4>1, <2>3, <1>f, <1>3
      <4> QED  BY <4>2 DEF On
    <3> QED  BY <3>1, <3>2
  <2> QED  BY <2>1, <2>2, <2>3 DEF On
<1> QED  BY <1>1, <1>4, <1>7, <1>8 DEF IsChain, r, e

\* The first node unlinked.
LEMMA ChainTail ==
  ASSUME NEW nodes, NEW first, NEW link, NEW q, IsChain(nodes, first, link, q), q # <<>>
  PROVE  /\ IsChain(nodes, link[first], link, Tail(q))
         /\ Len(Tail(q)) = Len(q) - 1
         /\ \A k \in 1 .. Len(q) - 1 : Tail(q)[k] = q[k + 1]
         /\ Tail(q) # <<>> => Tail(q)[Len(q) - 1] = q[Len(q)]
         /\ \A m : On(Tail(q), m) <=> On(q, m) /\ m # first
<1> DEFINE r == Tail(q)
<1>f. /\ q \in Seq(nodes) /\ Len(q) \in Nat \ {0} /\ DOMAIN q = 1 .. Len(q)
      /\ \A k \in 1 .. Len(q) : q[k] \in nodes
      /\ \A j, k \in 1 .. Len(q) : j # k => q[j] # q[k]
      /\ first = q[1] /\ link[q[Len(q)]] \notin nodes
      /\ \A k \in 1 .. Len(q) - 1 : q[k + 1] = link[q[k]]
  BY ChainFacts
<1>1. /\ r \in Seq(nodes) /\ Len(r) = Len(q) - 1 /\ DOMAIN r = 1 .. Len(q) - 1
      /\ r = <<>> <=> Len(r) = 0
      /\ \A k \in 1 .. Len(q) - 1 : r[k] = q[k + 1]
  BY <1>f, HeadTailProperties, LenProperties, EmptySeq
<1> HIDE DEF r
<1>2. \A k \in 1 .. Len(q) - 1 : k + 1 \in 1 .. Len(q)
  BY <1>f
<1>3. Distinct(r)
  <2> SUFFICES ASSUME NEW j \in 1 .. Len(q) - 1, NEW k \in 1 .. Len(q) - 1, j # k
               PROVE  r[j] # r[k]
    BY <1>1 DEF Distinct
  <2>1. j + 1 # k + 1 /\ j + 1 \in 1 .. Len(q) /\ k + 1 \in 1 .. Len(q)
    BY <1>f
  <2> QED  BY <2>1, <1>f, <1>1
<1>4. \A k \in 1 .. Len(r) - 1 : r[k + 1] = link[r[k]]
  <2> SUFFICES ASSUME NEW k \in 1 .. Len(q) - 2 PROVE r[k + 1] = link[r[k]]
    BY <1>f, <1>1
  <2>1. k \in 1 .. Len(q) - 1 /\ k + 1 \in 1 .. Len(q) - 1
    BY <1>f
  <2> QED  BY <2>1, <1>f, <1>1
<1>5. CASE Len(q) = 1
  <2>1. r = <<>> /\ link[first] \notin nodes
    BY <1>5, <1>f, <1>1
  <2>2. Follows(nodes, link[first], link, r)
    BY <2>1, <1>1, <1>4, <1>5 DEF Follows
  <2>3. \A m : ~On(r, m) /\ (On(q, m) => m = first)
    BY <1>5, <1>f, <1>1 DEF On
  <2> QED  BY <2>1, <2>2, <2>3, <1>1, <1>3 DEF IsChain, r
<1>6. CASE Len(q) # 1
  <2>1. 1 \in 1 .. Len(q) - 1 /\ Len(r) \in 1 .. Len(q) - 1 /\ Len(r) + 1 = Len(q) /\ r # <<>> /\ 1 + 1 = 2
    BY <1>6, <1>f, <1>1
  <2>2. r[1] = link[first] /\ r[Len(r)] = q[Len(q)]
    BY <2>1, <1>f, <1>1
  <2>3. Follows(nodes, link[first], link, r)
    BY <2>1, <2>2, <1>4, <1>f DEF Follows
  <2>4. \A m : On(r, m) <=> On(q, m) /\ m # first
    <3> TAKE m
    <3>1. ASSUME NEW k \in DOMAIN r, r[k] = m PROVE On(q, m) /\ m # first
      <4>1. k + 1 \in DOMAIN q /\ q[k + 1] = m /\ k + 1 # 1 /\ 1 \in 1 .. Len(q)
        BY <3>1, <1>f, <1>1, <1>2
      <4> QED  BY <4>1, <1>f DEF On
    <3>2. ASSUME NEW k \in DOMAIN q, q[k] = m, m # first PROVE On(r, m)
      <4>1. k # 1 /\ k - 1 \in 1 .. Len(q) - 1 /\ (k - 1) + 1 = k
        BY <3>2, <1>f
      <4>2. k - 1 \in DOMAIN r /\ r[k - 1] = m
        BY <4>1, <3>2, <1>1
      <4> QED  BY <4>2 DEF On
    <3> QED  BY <3>1, <3>2 DEF On
  <2> QED  BY <2>1, <2>2, <2>3, <2>4, <1>f, <1>1, <1>3 DEF IsChain, r
<1> QED  BY <1>5, <1>6

\* A sequence without its k-th element.
Without(q, k) == SubSeq(q, 1, k - 1) \o SubSeq(q, k + 1, Len(q))

LEMMA WithoutIs ==
  ASSUME NEW S, NEW q \in Seq(S), NEW k \in 1 .. Len(q)
  PROVE  /\ Without(q, k) \in Seq(S) /\ Len(Without(q, k)) = Len(q) - 1
         /\ \A i \in 1 .. Len(q) - 1 : Without(q, k)[i] = IF i < k THEN q[i] ELSE q[i + 1]
<1>1. Len(q) \in Nat /\ k \in Nat /\ 1 <= k /\ k <= Len(q) /\ \A i \in 1 .. Len(q) : q[i] \in S
  BY LenProperties, ElementOfSeq
<1> DEFINE a == SubSeq(q, 1, k - 1)
           b == SubSeq(q, k + 1, Len(q))
<1>2. a \in Seq(S) /\ Len(a) = k - 1 /\ \A i \in 1 .. k - 1 : a[i] = q[i]
  <2>1. 1 \in Int /\ k - 1 \in Int /\ \A i \in 1 .. k - 1 : q[i] \in S /\ 1 + i - 1 = i
    BY <1>1
  <2>2. /\ a \in Seq(S) /\ Len(a) = IF 1 <= k - 1 THEN k - 1 - 1 + 1 ELSE 0
        /\ \A i \in 1 .. k - 1 - 1 + 1 : a[i] = q[1 + i - 1]
    BY <2>1, SubSeqProperties
  <2> QED  BY <2>1, <2>2, <1>1
<1>3. /\ b \in Seq(S) /\ Len(b) = Len(q) - k
      /\ \A i \in 1 .. Len(q) - k : b[i] = q[k + i]
  <2>1. k + 1 \in Int /\ Len(q) \in Int /\ \A i \in k + 1 .. Len(q) : q[i] \in S
    BY <1>1
  <2>2. /\ b \in Seq(S) /\ Len(b) = IF k + 1 <= Len(q) THEN Len(q) - (k + 1) + 1 ELSE 0
        /\ \A i \in 1 .. Len(q) - (k + 1) + 1 : b[i] = q[k + 1 + i - 1]
    BY <2>1, SubSeqProperties
  <2>3. \A i \in 1 .. Len(q) - k : i \in 1 .. Len(q) - (k + 1) + 1 /\ k + 1 + i - 1 = k + i
    BY <1>1
  <2> QED  BY <2>2, <2>3, <1>1
<1> HIDE DEF a, b
<1>4. /\ a \o b \in Seq(S) /\ Len(a \o b) = Len(a) + Len(b)
      /\ \A i \in 1 .. Len(a) + Len(b) : (a \o b)[i] = IF i <= Len(a) THEN a[i] ELSE b[i - Len(a)]
  BY <1>2, <1>3, ConcatProperties
<1>5. \A i \in 1 .. Len(q) - 1 : (a \o b)[i] = IF i < k THEN q[i] ELSE q[i + 1]
  <2> TAKE i \in 1 .. Len(q) - 1
  <2>1. CASE i < k
    BY <2>1, <1>1, <1>2, <1>3, <1>4
  <2>2. CASE ~(i < k)
    <3>1. i - (k - 1) \in 1 .. Len(q) - k /\ k + (i - (k - 1)) = i + 1 /\ ~(i <= k - 1)
          /\ i \in 1 .. Len(a) + Len(b)
      BY <2>2, <1>1, <1>2, <1>3
    <3> QED  BY <3>1, <2>2, <1>2, <1>3, <1>4
  <2> QED  BY <2>1, <2>2
<1>6. Len(a) + Len(b) = Len(q) - 1
  BY <1>1, <1>2, <1>3
<1> QED  BY <1>4, <1>5, <1>6 DEF Without, a, b

LEMMA WithoutFirst ==
  ASSUME NEW S, NEW q \in Seq(S), q # <<>>
  PROVE  Without(q, 1) = Tail(q)
<1>1. Len(q) \in Nat \ {0} /\ 1 \in 1 .. Len(q)
  BY LenProperties, EmptySeq
<1>2. /\ Without(q, 1) \in Seq(S) /\ Len(Without(q, 1)) = Len(q) - 1
      /\ \A i \in 1 .. Len(q) - 1 : Without(q, 1)[i] = q[i + 1]
  BY <1>1, WithoutIs
<1>3. /\ Tail(q) \in Seq(S) /\ Len(Tail(q)) = Len(q) - 1
      /\ \A i \in 1 .. Len(q) - 1 : Tail(q)[i] = q[i + 1]
  BY HeadTailProperties
<1> QED  BY <1>2, <1>3, SeqEqual

\* A node unlinked that is not the first.
LEMMA ChainRemove ==
  ASSUME NEW nodes, NEW first, NEW link, NEW q, IsChain(nodes, first, link, q),
         NEW k \in 2 .. Len(q),
         NEW newLink, newLink[q[k - 1]] = link[q[k]],
         \A m \in nodes : m # q[k - 1] /\ m # q[k] => newLink[m] = link[m]
  PROVE  /\ IsChain(nodes, first, newLink, Without(q, k))
         /\ \A m : On(Without(q, k), m) <=> On(q, m) /\ m # q[k]
<1> DEFINE r == Without(q, k)
<1>f. /\ q \in Seq(nodes) /\ Len(q) \in Nat /\ DOMAIN q = 1 .. Len(q)
      /\ \A i \in 1 .. Len(q) : q[i] \in nodes
      /\ \A i, j \in 1 .. Len(q) : i # j => q[i] # q[j]
      /\ \A i \in 1 .. Len(q) - 1 : q[i + 1] = link[q[i]]
  BY ChainFacts
<1>k. k \in Nat /\ 2 <= k /\ k <= Len(q) /\ k \in 1 .. Len(q) /\ k - 1 \in 1 .. Len(q)
  BY <1>f
<1>l. q # <<>> /\ first = q[1] /\ link[q[Len(q)]] \notin nodes
  <2>1. q # <<>>
    BY <1>f, <1>k, EmptySeq
  <2> QED  BY <2>1, ChainFacts
<1>1. /\ r \in Seq(nodes) /\ Len(r) = Len(q) - 1 /\ DOMAIN r = 1 .. Len(q) - 1
      /\ \A i \in 1 .. Len(q) - 1 : r[i] = IF i < k THEN q[i] ELSE q[i + 1]
  <2>1. /\ r \in Seq(nodes) /\ Len(r) = Len(q) - 1
        /\ \A i \in 1 .. Len(q) - 1 : r[i] = IF i < k THEN q[i] ELSE q[i + 1]
    BY <1>f, <1>k, WithoutIs
  <2> QED  BY <2>1, LenProperties
<1> HIDE DEF r
<1>2. \A i \in 1 .. Len(q) - 1 : i \in 1 .. Len(q) /\ i + 1 \in 1 .. Len(q)
  BY <1>f
<1>3. Distinct(r)
  <2> SUFFICES ASSUME NEW i \in 1 .. Len(q) - 1, NEW j \in 1 .. Len(q) - 1, i # j
               PROVE  r[i] # r[j]
    BY <1>1 DEF Distinct
  <2>1. i + 1 # j + 1 /\ (i < k /\ ~(j < k) => i # j + 1) /\ (~(i < k) /\ j < k => i + 1 # j)
    BY <1>f, <1>k
  <2> QED  BY <2>1, <1>f, <1>1, <1>2
<1>4. \A i \in 1 .. Len(r) - 1 : r[i + 1] = newLink[r[i]]
  <2> SUFFICES ASSUME NEW i \in 1 .. Len(q) - 2 PROVE r[i + 1] = newLink[r[i]]
    BY <1>f, <1>1
  <2>0. i \in 1 .. Len(q) - 1 /\ i + 1 \in 1 .. Len(q) - 1 /\ i + 1 + 1 \in 1 .. Len(q)
    BY <1>f
  <2>1. CASE i + 1 < k
    <3>1. i < k /\ i # k - 1 /\ i # k
      BY <2>1, <1>k
    <3>2. r[i] = q[i] /\ r[i + 1] = q[i + 1] /\ q[i] # q[k - 1] /\ q[i] # q[k]
      BY <3>1, <2>0, <2>1, <1>f, <1>k, <1>1, <1>2
    <3> QED  BY <3>2, <2>0, <1>f, <1>2
  <2>2. CASE i = k - 1
    <3>1. i < k /\ ~(i + 1 < k) /\ i + 1 = k /\ k \in 1 .. Len(q) - 1
      BY <2>0, <2>2, <1>k
    <3> QED  BY <3>1, <2>0, <2>2, <1>f, <1>1
  <2>3. CASE ~(i < k)
    <3>1. ~(i + 1 < k) /\ i + 1 # k - 1 /\ i + 1 # k
      BY <2>3, <1>k
    <3>2. r[i] = q[i + 1] /\ r[i + 1] = q[i + 1 + 1] /\ q[i + 1] # q[k - 1] /\ q[i + 1] # q[k]
      BY <3>1, <2>0, <2>3, <1>f, <1>k, <1>1, <1>2
    <3> QED  BY <3>2, <2>0, <1>f, <1>2
  <2> QED  BY <2>1, <2>2, <2>3, <1>k
<1>5. newLink[r[Len(r)]] \notin nodes
  <2>1. CASE k = Len(q)
    <3>1. Len(q) - 1 < k /\ Len(q) - 1 \in 1 .. Len(q) - 1
      BY <2>1, <1>k
    <3> QED  BY <3>1, <2>1, <1>1, <1>l
  <2>2. CASE k # Len(q)
    <3>1. ~(Len(q) - 1 < k) /\ Len(q) - 1 \in 1 .. Len(q) - 1 /\ Len(q) - 1 + 1 = Len(q)
          /\ Len(q) # k - 1 /\ Len(q) \in 1 .. Len(q)
      BY <2>2, <1>k
    <3>2. r[Len(r)] = q[Len(q)] /\ q[Len(q)] # q[k - 1] /\ q[Len(q)] # q[k]
      BY <3>1, <2>2, <1>1, <1>f, <1>k
    <3> QED  BY <3>1, <3>2, <1>f, <1>l
  <2> QED  BY <2>1, <2>2
<1>6. r[1] = first /\ r # <<>>
  <2>1. 1 \in 1 .. Len(q) - 1 /\ 1 < k /\ Len(r) # 0
    BY <1>f, <1>k, <1>1
  <2> QED  BY <2>1, <1>1, <1>l, EmptySeq
<1>7. \A m : On(r, m) <=> On(q, m) /\ m # q[k]
  <2> TAKE m
  <2>1. ASSUME NEW i \in DOMAIN r, r[i] = m PROVE On(q, m) /\ m # q[k]
    <3>1. CASE i < k
      <4>1. i # k /\ i \in 1 .. Len(q) /\ r[i] = q[i]
        BY <3>1, <1>1, <1>2, <1>k
      <4> QED  BY <4>1, <2>1, <1>f, <1>k DEF On
    <3>2. CASE ~(i < k)
      <4>1. i + 1 # k /\ i + 1 \in 1 .. Len(q) /\ r[i] = q[i + 1]
        BY <3>2, <1>1, <1>2, <1>k
      <4> QED  BY <4>1, <2>1, <1>f, <1>k DEF On
    <3> QED  BY <3>1, <3>2
  <2>2. ASSUME NEW i \in DOMAIN q, q[i] = m, m # q[k] PROVE On(r, m)
    <3>1. CASE i < k
      <4>1. i \in DOMAIN r /\ r[i] = m
        BY <3>1, <2>2, <1>f, <1>1, <1>k
      <4> QED  BY <4>1 DEF On
    <3>2. CASE ~(i < k)
      <4>1. i - 1 \in 1 .. Len(q) - 1 /\ ~(i - 1 < k) /\ i - 1 + 1 = i
        BY <3>2, <2>2, <1>f, <1>k
      <4>2. i - 1 \in DOMAIN r /\ r[i - 1] = m
        BY <4>1, <2>2, <1>1
      <4> QED  BY <4>2 DEF On
    <3> QED  BY <3>1, <3>2
  <2> QED  BY <2>1, <2>2 DEF On
<1>8. Follows(nodes, first, newLink, r)
  BY <1>4, <1>5, <1>6 DEF Follows
<1> QED  BY <1>1, <1>3, <1>7, <1>8 DEF IsChain, r
=============================================================================
