--------------------------- MODULE MPSCQueueProofs ---------------------------
(***************************************************************************)
(* Proofs about MPSCQueue, for any producers and any finite memory: the     *)
(* lock-free queue implements FifoQueue, and nobody writes to a deleted     *)
(* element.                                                                 *)
(*                                                                         *)
(* The invariant says of a sequence of nodes that it is the chain from      *)
(* _tail to _head.  Every step has such a chain before and after it, the    *)
(* abstract queue is the chain without the dummy, and an induction over the *)
(* length of the walk shows that the operator Chain finds it.               *)
(***************************************************************************)
EXTENDS MPSCQueue, SequenceTheorems, FiniteSetTheorems, WellFoundedInduction, TLAPS

-----------------------------------------------------------------------------
(* The inductive invariant.                                                 *)

\* The node after n will be m: somebody is between the exchange of _head and
\* the store of the link.
Pending(n, m) ==
    \/ \E p \in Producers : ppc[p] = "link" /\ prevHead[p] = n /\ input[p] = m
    \/ cpc = "linkDummy" /\ cprev = n /\ m = Dummy

\* c is a sequence of different nodes.
Injective(c) ==
    /\ c \in Seq(Nodes) /\ c # <<>>
    /\ \A i, j \in 1..Len(c) : c[i] = c[j] => i = j

\* c goes from _tail to _head; neighbours are linked or about to be.
Linked(c) ==
    /\ c[1] = tail /\ c[Len(c)] = head
    /\ link[head] = Null
    /\ \A i \in 1..(Len(c) - 1) :
          link[c[i]] = c[i + 1] \/ (link[c[i]] = Null /\ Pending(c[i], c[i + 1]))

\* c[i] and c[i + 1] are the nodes somebody is going to link.
LinksNext(c, n, m) ==
    \E i \in 1..(Len(c) - 1) : c[i] = n /\ c[i + 1] = m /\ link[n] = Null

\* Every unfinished Enqueue() has its place in c, and the elements of c exist.
Placed(c) ==
    /\ \A p \in Producers : ppc[p] = "link" => LinksNext(c, prevHead[p], input[p])
    /\ cpc = "linkDummy" => LinksNext(c, cprev, Dummy)
    /\ \A i \in 1..Len(c) : c[i] \in allocated \cup {Dummy}

\* An element belongs to one Enqueue(), and is outside the chain, with its link
\* cleared, before the exchange.
ProducersOK(c) ==
    /\ \A p \in Producers : ppc[p] # "idle" => input[p] \in allocated
    /\ \A p \in Producers : ppc[p] \in {"clear", "exchange"} =>
          \A i \in 1..Len(c) : c[i] # input[p]
    /\ \A p \in Producers : ppc[p] = "exchange" => link[input[p]] = Null
    /\ \A p, q \in Producers :
          ppc[p] # "idle" /\ ppc[q] # "idle" /\ input[p] = input[q] => p = q

\* What Dequeue() has found out so far still holds, or an Enqueue() overlaps.
ConsumerOK(c) ==
    /\ cpc # "idle" /\ EnqueueUnfinished => disturbed
    /\ cpc = "skip" => tail = Dummy
    /\ cpc \in {"reload", "decide", "clearDummy", "exchangeDummy", "linkDummy", "last"} =>
          tail # Dummy
    /\ cpc \in {"skip", "decide"} /\ next # Null => next = link[tail]
    /\ cpc \in {"skip", "decide"} /\ next = Null => disturbed \/ head = tail
    /\ cpc \in {"clearDummy", "exchangeDummy"} => \A i \in 1..Len(c) : c[i] # Dummy
    /\ cpc = "exchangeDummy" => link[Dummy] = Null
    /\ cpc \in {"linkDummy", "last"} => \E i \in 1..Len(c) : c[i] = Dummy

IsChain(c) == Injective(c) /\ Linked(c) /\ Placed(c) /\ ProducersOK(c) /\ ConsumerOK(c)

IndInv == TypeOK /\ \E c \in Seq(Nodes) : IsChain(c)

-----------------------------------------------------------------------------
(* Chains as sequences.                                                     *)

\* A node more at the end.
LEMMA AppendChain ==
    ASSUME NEW c, Injective(c), NEW x \in Nodes, \A i \in 1..Len(c) : c[i] # x
    PROVE  /\ Injective(Append(c, x))
           /\ Len(Append(c, x)) = Len(c) + 1 /\ Len(c) \in Nat \ {0}
           /\ \A i \in 1..Len(c) : Append(c, x)[i] = c[i]
           /\ Append(c, x)[Len(c) + 1] = x
<1> DEFINE a == Append(c, x)
<1>1. c \in Seq(Nodes) /\ Len(c) \in Nat \ {0}
  BY EmptySeq DEF Injective
<1>2. /\ a \in Seq(Nodes) /\ a # <<>> /\ Len(a) = Len(c) + 1 /\ a[Len(c) + 1] = x
      /\ \A i \in 1..Len(c) : a[i] = c[i]
  BY <1>1, AppendProperties
<1> HIDE DEF a
<1>3. ASSUME NEW i \in 1..Len(a), NEW j \in 1..Len(a), a[i] = a[j] PROVE i = j
  <2>1. i \in 1..Len(c) \/ i = Len(c) + 1
    BY <1>1, <1>2
  <2>2. j \in 1..Len(c) \/ j = Len(c) + 1
    BY <1>1, <1>2
  <2> QED BY <1>2, <1>3, <2>1, <2>2 DEF Injective
<1> QED BY <1>1, <1>2, <1>3 DEF Injective, a

\* Without the first node.
LEMMA TailChain ==
    ASSUME NEW c, Injective(c), Len(c) # 1
    PROVE  /\ Injective(Tail(c))
           /\ Len(Tail(c)) = Len(c) - 1 /\ Len(c) \in Nat /\ Len(c) > 1
           /\ \A i \in 1..(Len(c) - 1) : Tail(c)[i] = c[i + 1]
<1> DEFINE t == Tail(c)
<1>1. c \in Seq(Nodes) /\ c # <<>> /\ Len(c) \in Nat /\ Len(c) > 1
  <2>1. c \in Seq(Nodes) /\ c # <<>>
    BY DEF Injective
  <2>2. Len(c) \in Nat \ {0}
    BY <2>1, EmptySeq
  <2>3. Len(c) \in Nat /\ Len(c) > 1
    BY <2>2
  <2> QED BY <2>1, <2>3
<1>2. /\ t \in Seq(Nodes) /\ Len(t) = Len(c) - 1 /\ \A i \in 1..(Len(c) - 1) : t[i] = c[i + 1]
  BY <1>1, HeadTailProperties
<1> HIDE DEF t
<1>3. t # <<>>
  <2>1. Len(t) # 0
    BY <1>1, <1>2
  <2> QED BY <2>1, EmptySeq
<1>4. ASSUME NEW i \in 1..Len(t), NEW j \in 1..Len(t), t[i] = t[j] PROVE i = j
  <2>1. i + 1 \in 1..Len(c) /\ j + 1 \in 1..Len(c) /\ i \in Nat /\ j \in Nat
    BY <1>1, <1>2
  <2>2. c[i + 1] = c[j + 1]
    BY <1>2, <1>4
  <2>3. i + 1 = j + 1
    BY <2>1, <2>2 DEF Injective
  <2> QED BY <2>1, <2>3
<1> QED BY <1>1, <1>2, <1>3, <1>4 DEF Injective, t

\* The elements of a sequence from which one was removed.
LEMMA RemoveAtFacts ==
    ASSUME NEW S, NEW q \in Seq(S), NEW d \in 1..Len(q)
    PROVE  /\ RemoveAt(q, d) \in Seq(S) /\ Len(RemoveAt(q, d)) = Len(q) - 1
           /\ \A i \in 1..(Len(q) - 1) :
                 RemoveAt(q, d)[i] = IF i < d THEN q[i] ELSE q[i + 1]
<1> DEFINE r == RemoveAt(q, d)
           n == Len(q)
           a == SubSeq(q, 1, d - 1)
           b == SubSeq(q, d + 1, n)
<1>0. n \in Nat /\ d \in 1..n
  OBVIOUS
<1>1. /\ a \in Seq(S) /\ Len(a) = d - 1 /\ \A i \in 1..(d - 1) : a[i] = q[i]
      /\ b \in Seq(S) /\ Len(b) = n - d /\ \A i \in 1..(n - d) : b[i] = q[i + d]
  <2>1. \A i \in 1..n : q[i] \in S
    BY <1>0
  <2>2. /\ a \in Seq(S) /\ Len(a) = IF 1 <= d - 1 THEN (d - 1) - 1 + 1 ELSE 0
        /\ \A i \in 1..((d - 1) - 1 + 1) : a[i] = q[1 + i - 1]
    BY <1>0, <2>1, SubSeqProperties
  <2>3. /\ b \in Seq(S) /\ Len(b) = IF d + 1 <= n THEN n - (d + 1) + 1 ELSE 0
        /\ \A i \in 1..(n - (d + 1) + 1) : b[i] = q[(d + 1) + i - 1]
    BY <1>0, <2>1, SubSeqProperties
  <2> HIDE DEF a, b, n
  <2> QED BY <1>0, <2>2, <2>3
<1>2. r = a \o b
  BY DEF RemoveAt
<1> HIDE DEF a, b, r, n
<1>3. /\ r \in Seq(S) /\ Len(r) = n - 1
      /\ \A i \in 1..(n - 1) : r[i] = IF i <= d - 1 THEN a[i] ELSE b[i - (d - 1)]
  <2>1. /\ r \in Seq(S) /\ Len(r) = Len(a) + Len(b)
        /\ \A i \in 1..(Len(a) + Len(b)) :
              r[i] = IF i <= Len(a) THEN a[i] ELSE b[i - Len(a)]
    BY <1>1, <1>2, ConcatProperties
  <2>2. Len(a) = d - 1 /\ Len(a) + Len(b) = n - 1
    BY <1>0, <1>1
  <2> QED BY <2>1, <2>2
<1>4. ASSUME NEW i \in 1..(n - 1) PROVE r[i] = IF i < d THEN q[i] ELSE q[i + 1]
  <2>1. CASE i < d
    BY <1>0, <1>1, <1>3, <2>1
  <2>2. CASE ~(i < d)
    <3>1. ~(i <= d - 1) /\ i - (d - 1) \in 1..(n - d) /\ (i - (d - 1)) + d = i + 1
      BY <1>0, <2>2
    <3> QED BY <1>1, <1>3, <2>2, <3>1
  <2> QED BY <2>1, <2>2
<1> QED BY <1>3, <1>4 DEF r, n

-----------------------------------------------------------------------------
(* The abstract queue: the chain without the dummy.                         *)

\* Without a dummy nothing is removed.
LEMMA StripNone ==
    ASSUME NEW c, Injective(c), \A i \in 1..Len(c) : c[i] # Dummy
    PROVE  WithoutDummy(c) = c
BY DEF WithoutDummy, Contains

\* The dummy is found where it is.
LEMMA StripAt ==
    ASSUME NEW c, Injective(c), NEW d \in 1..Len(c), c[d] = Dummy
    PROVE  /\ WithoutDummy(c) \in Seq(Nodes) /\ Len(WithoutDummy(c)) = Len(c) - 1
           /\ \A i \in 1..(Len(c) - 1) :
                 WithoutDummy(c)[i] = IF i < d THEN c[i] ELSE c[i + 1]
<1>1. c \in Seq(Nodes) /\ DOMAIN c = 1..Len(c)
  BY DEF Injective
<1>2. (CHOOSE i \in DOMAIN c : c[i] = Dummy) = d
  BY <1>1 DEF Injective
<1>3. WithoutDummy(c) = RemoveAt(c, d)
  BY <1>1, <1>2 DEF WithoutDummy, Contains
<1> QED BY <1>1, <1>3, RemoveAtFacts

\* The elements of the abstract queue are the elements of the chain.
LEMMA StripElements ==
    ASSUME NEW c, Injective(c)
    PROVE  /\ WithoutDummy(c) \in Seq(Nodes)
           /\ \A j \in 1..Len(WithoutDummy(c)) :
                 \E i \in 1..Len(c) : WithoutDummy(c)[j] = c[i]
<1>1. c \in Seq(Nodes) /\ Len(c) \in Nat
  BY DEF Injective
<1>2. CASE \A i \in 1..Len(c) : c[i] # Dummy
  BY <1>1, <1>2, StripNone
<1>3. ASSUME NEW d \in 1..Len(c), c[d] = Dummy
      PROVE  /\ WithoutDummy(c) \in Seq(Nodes)
             /\ \A j \in 1..Len(WithoutDummy(c)) :
                   \E i \in 1..Len(c) : WithoutDummy(c)[j] = c[i]
  <2>1. /\ WithoutDummy(c) \in Seq(Nodes) /\ Len(WithoutDummy(c)) = Len(c) - 1
        /\ \A i \in 1..(Len(c) - 1) :
              WithoutDummy(c)[i] = IF i < d THEN c[i] ELSE c[i + 1]
    BY <1>3, StripAt
  <2>2. ASSUME NEW j \in 1..(Len(c) - 1)
        PROVE  \E i \in 1..Len(c) : WithoutDummy(c)[j] = c[i]
    <3>1. j \in 1..Len(c) /\ j + 1 \in 1..Len(c)
      BY <1>1
    <3> QED BY <2>1, <3>1
  <2> QED BY <2>1, <2>2
<1> QED BY <1>2, <1>3

\* The dummy alone is the empty queue.
LEMMA StripSingle ==
    ASSUME NEW c, Injective(c), Len(c) = 1, c[1] = Dummy
    PROVE  WithoutDummy(c) = <<>>
<1>1. WithoutDummy(c) \in Seq(Nodes) /\ Len(WithoutDummy(c)) = 0
  BY StripAt
<1> QED BY <1>1, EmptySeq

\* An element more at the end of the chain is one more in the queue.
LEMMA StripAppend ==
    ASSUME NEW c, Injective(c), NEW x \in Items, \A i \in 1..Len(c) : c[i] # x
    PROVE  WithoutDummy(Append(c, x)) = Append(WithoutDummy(c), x)
<1> DEFINE a == Append(c, x)
           l == WithoutDummy(a)
           w == WithoutDummy(c)
           r == Append(w, x)
<1>0. x \in Nodes /\ x # Dummy
  BY MPSCQueueAssumption DEF Nodes
<1>1. /\ Injective(a) /\ Len(a) = Len(c) + 1 /\ Len(c) \in Nat \ {0}
      /\ \A i \in 1..Len(c) : a[i] = c[i]
      /\ a[Len(c) + 1] = x
  BY <1>0, AppendChain
<1> HIDE DEF a
<1>2. ASSUME \A i \in 1..Len(c) : c[i] # Dummy PROVE l = r
  <2>1. w = c
    BY <1>2, StripNone
  <2>2. ASSUME NEW i \in 1..Len(a) PROVE a[i] # Dummy
    <3>1. i \in 1..Len(c) \/ i = Len(c) + 1
      BY <1>1
    <3> QED BY <1>0, <1>1, <1>2, <3>1
  <2>3. l = a
    BY <1>1, <2>2, StripNone
  <2> QED BY <2>1, <2>3 DEF a
<1>3. ASSUME NEW d \in 1..Len(c), c[d] = Dummy PROVE l = r
  <2>0. d \in 1..Len(a) /\ a[d] = Dummy
    BY <1>1, <1>3
  <2>1. /\ l \in Seq(Nodes) /\ Len(l) = Len(a) - 1
        /\ \A i \in 1..(Len(a) - 1) : l[i] = IF i < d THEN a[i] ELSE a[i + 1]
    BY <1>1, <2>0, StripAt
  <2>2. /\ w \in Seq(Nodes) /\ Len(w) = Len(c) - 1
        /\ \A i \in 1..(Len(c) - 1) : w[i] = IF i < d THEN c[i] ELSE c[i + 1]
    BY <1>3, StripAt
  <2> HIDE DEF l, w
  <2>3. /\ r \in Seq(Nodes) /\ Len(r) = Len(w) + 1 /\ r[Len(w) + 1] = x
        /\ \A i \in 1..Len(w) : r[i] = w[i]
    BY <1>0, <2>2, AppendProperties
  <2> HIDE DEF r
  <2>4. Len(l) = Len(c) /\ Len(r) = Len(c)
    BY <1>1, <2>1, <2>2, <2>3
  <2>5. ASSUME NEW i \in 1..Len(c) PROVE l[i] = r[i]
    <3>0. d \in 1..Len(c) /\ i \in 1..(Len(a) - 1) /\ Len(w) + 1 = Len(c)
      BY <1>1, <2>2
    <3>1. CASE i = Len(c)
      <4>1. ~(i < d) /\ i + 1 = Len(c) + 1
        BY <1>1, <3>0, <3>1
      <4>2. l[i] = x
        BY <1>1, <2>1, <3>0, <4>1
      <4> QED BY <2>3, <3>0, <3>1, <4>2
    <3>2. CASE i # Len(c)
      <4>1. i \in 1..Len(w) /\ i \in 1..(Len(c) - 1) /\ i + 1 \in 1..Len(c)
        BY <1>1, <3>0, <3>2
      <4>2. l[i] = IF i < d THEN c[i] ELSE c[i + 1]
        BY <1>1, <2>1, <3>0, <4>1
      <4> QED BY <2>2, <2>3, <4>1, <4>2
    <3> QED BY <3>1, <3>2
  <2>6. l = r
    BY <2>1, <2>3, <2>4, <2>5, SeqEqual
  <2> QED BY <2>6
<1>4. l = r
  BY <1>2, <1>3
<1> QED BY <1>4 DEF a

\* The dummy at the end is not in the queue.
LEMMA StripAppendDummy ==
    ASSUME NEW c, Injective(c), \A i \in 1..Len(c) : c[i] # Dummy
    PROVE  WithoutDummy(Append(c, Dummy)) = WithoutDummy(c)
<1> DEFINE a == Append(c, Dummy)
           l == WithoutDummy(a)
<1>1. /\ Injective(a) /\ Len(a) = Len(c) + 1 /\ Len(c) \in Nat \ {0}
      /\ \A i \in 1..Len(c) : a[i] = c[i]
      /\ a[Len(c) + 1] = Dummy
  BY AppendChain DEF Nodes
<1> HIDE DEF a
<1>2. Len(c) + 1 \in 1..Len(a)
  BY <1>1
<1>3. /\ l \in Seq(Nodes) /\ Len(l) = Len(a) - 1
      /\ \A i \in 1..(Len(a) - 1) : l[i] = IF i < Len(c) + 1 THEN a[i] ELSE a[i + 1]
  BY <1>1, <1>2, StripAt
<1> HIDE DEF l
<1>4. Len(l) = Len(c) /\ c \in Seq(Nodes) /\ \A i \in 1..Len(c) : l[i] = c[i]
  BY <1>1, <1>3 DEF Injective
<1>5. l = c
  BY <1>3, <1>4, SeqEqual
<1>6. WithoutDummy(c) = c
  BY StripNone
<1> QED BY <1>5, <1>6 DEF l, a

\* Stepping over the dummy changes nothing.
LEMMA StripSkip ==
    ASSUME NEW c, Injective(c), Len(c) # 1, c[1] = Dummy
    PROVE  WithoutDummy(Tail(c)) = WithoutDummy(c)
<1> DEFINE t == Tail(c)
           w == WithoutDummy(c)
<1>1. /\ Injective(t) /\ Len(t) = Len(c) - 1 /\ Len(c) \in Nat /\ Len(c) > 1
      /\ \A i \in 1..(Len(c) - 1) : t[i] = c[i + 1]
  BY TailChain
<1> HIDE DEF t
<1>2. ASSUME NEW i \in 1..Len(t) PROVE t[i] # Dummy
  <2>1. i + 1 \in 1..Len(c) /\ 1 \in 1..Len(c) /\ i + 1 # 1 /\ t[i] = c[i + 1]
    BY <1>1
  <2> QED BY <2>1 DEF Injective
<1>3. WithoutDummy(t) = t
  BY <1>1, <1>2, StripNone
<1>4. /\ w \in Seq(Nodes) /\ Len(w) = Len(c) - 1
      /\ \A i \in 1..(Len(c) - 1) : w[i] = IF i < 1 THEN c[i] ELSE c[i + 1]
  <2>1. 1 \in 1..Len(c)
    BY <1>1
  <2> QED BY <2>1, StripAt
<1> HIDE DEF w
<1>5. t \in Seq(Nodes) /\ Len(t) = Len(w) /\ \A i \in 1..Len(t) : t[i] = w[i]
  BY <1>1, <1>4 DEF Injective
<1>6. t = w
  BY <1>4, <1>5, SeqEqual
<1> QED BY <1>3, <1>6 DEF t, w

\* The first element of the chain is the first of the queue.
LEMMA StripTail ==
    ASSUME NEW c, Injective(c), Len(c) # 1, c[1] # Dummy
    PROVE  /\ WithoutDummy(c) # <<>> /\ Head(WithoutDummy(c)) = c[1]
           /\ WithoutDummy(Tail(c)) = Tail(WithoutDummy(c))
<1> DEFINE t == Tail(c)
           w == WithoutDummy(c)
           l == WithoutDummy(t)
           r == Tail(w)
<1>1. /\ Injective(t) /\ Len(t) = Len(c) - 1 /\ Len(c) \in Nat /\ Len(c) > 1
      /\ \A i \in 1..(Len(c) - 1) : t[i] = c[i + 1]
  BY TailChain
<1>2. CASE \A i \in 1..Len(c) : c[i] # Dummy
  <2>1. w = c
    BY <1>2, StripNone
  <2>2. c \in Seq(Nodes) /\ c # <<>> /\ Head(c) = c[1]
    BY DEF Injective
  <2>3. l = t
    <3> HIDE DEF t
    <3>1. ASSUME NEW i \in 1..Len(t) PROVE t[i] # Dummy
      <4>1. i + 1 \in 1..Len(c) /\ t[i] = c[i + 1]
        BY <1>1
      <4> QED BY <1>2, <4>1
    <3> QED BY <1>1, <3>1, StripNone
  <2> QED BY <2>1, <2>2, <2>3
<1>3. ASSUME NEW d \in 1..Len(c), c[d] = Dummy
      PROVE  w # <<>> /\ Head(w) = c[1] /\ l = r
  <2>0. d \in Nat /\ d > 1 /\ d - 1 \in 1..Len(t) /\ d - 1 \in 1..(Len(c) - 1) /\ (d - 1) + 1 = d
    <3>1. d # 1
      BY <1>3
    <3> HIDE DEF t
    <3> QED BY <1>1, <3>1
  <2>1. /\ w \in Seq(Nodes) /\ Len(w) = Len(c) - 1
        /\ \A i \in 1..(Len(c) - 1) : w[i] = IF i < d THEN c[i] ELSE c[i + 1]
    BY <1>3, StripAt
  <2>2. /\ l \in Seq(Nodes) /\ Len(l) = Len(t) - 1
        /\ \A i \in 1..(Len(t) - 1) : l[i] = IF i < d - 1 THEN t[i] ELSE t[i + 1]
    <3> HIDE DEF t
    <3>1. t[d - 1] = Dummy
      BY <1>1, <1>3, <2>0
    <3> QED BY <1>1, <2>0, <3>1, StripAt
  <2> HIDE DEF t, w, l
  <2>3. w # <<>>
    <3>1. Len(w) # 0
      BY <1>1, <2>1
    <3> QED BY <3>1, EmptySeq
  <2>4. Head(w) = c[1]
    <3>1. Head(w) = w[1]
      BY <2>1, <2>3, HeadTailProperties
    <3> QED BY <1>1, <2>0, <2>1, <3>1
  <2>5. /\ r \in Seq(Nodes) /\ Len(r) = Len(w) - 1
        /\ \A i \in 1..(Len(w) - 1) : r[i] = w[i + 1]
    BY <2>1, <2>3, HeadTailProperties
  <2> HIDE DEF r
  <2>6. Len(l) = Len(c) - 2 /\ Len(r) = Len(c) - 2
    BY <1>1, <2>1, <2>2, <2>5
  <2>7. ASSUME NEW i \in 1..(Len(c) - 2) PROVE l[i] = r[i]
    <3>1. /\ i \in 1..(Len(t) - 1) /\ i \in 1..(Len(w) - 1) /\ i + 1 \in 1..(Len(c) - 1)
          /\ i \in 1..(Len(c) - 1) /\ (i < d - 1 <=> i + 1 < d)
      BY <1>1, <2>0, <2>1
    <3>2. r[i] = IF i + 1 < d THEN c[i + 1] ELSE c[(i + 1) + 1]
      BY <2>1, <2>5, <3>1
    <3>3. t[i] = c[i + 1] /\ t[i + 1] = c[(i + 1) + 1]
      BY <1>1, <3>1
    <3> QED BY <2>2, <3>1, <3>2, <3>3
  <2>8. l = r
    BY <2>2, <2>5, <2>6, <2>7, SeqEqual
  <2> QED BY <2>3, <2>4, <2>8
<1> QED BY <1>2, <1>3

-----------------------------------------------------------------------------
(* The walk from _tail finds the chain.                                     *)

Less == {p \in Nat \X Nat : p[1] < p[2]}

\* A set with 0 and, with every number, its successor contains them all.
LEMMA SetInduction ==
    ASSUME NEW S, 0 \in S, \A n \in Nat : n \in S => n + 1 \in S
    PROVE  Nat \subseteq S
<1> DEFINE T == Nat \ S
<1> SUFFICES ASSUME T # {} PROVE FALSE
  OBVIOUS
<1>1. IsWellFoundedOn(Less, Nat)
  <2>1. IsWellFoundedOn(OpToRel(<, Nat), Nat)
    BY NatLessThanWellFounded
  <2>2. Less = OpToRel(<, Nat)
    BY DEF Less, OpToRel
  <2> QED BY <2>1, <2>2
<1>2. PICK x \in T : \A y \in T : <<y, x>> \notin Less
  BY <1>1, WFMin
<1>3. x \in Nat /\ x # 0 /\ x - 1 \in Nat /\ x - 1 \in S
  <2>1. x \in Nat /\ x # 0 /\ x - 1 \in Nat
    BY <1>2
  <2>2. <<x - 1, x>> \in Less
    BY <2>1 DEF Less
  <2> QED BY <1>2, <2>1, <2>2
<1>4. (x - 1) + 1 = x
  BY <1>3
<1> QED BY <1>2, <1>3, <1>4

\* The recursive function of Chain: the nodes found in i steps.
Walks(f, n) ==
    f = [i \in 1..n |->
           IF i = 1 THEN <<tail>>
           ELSE IF Successor(Last(f[i - 1])) = Null THEN f[i - 1]
           ELSE Append(f[i - 1], Successor(Last(f[i - 1])))]

\* A solution of the recursion satisfies it at every index.
LEMMA WalksStep ==
    ASSUME NEW f, NEW n, Walks(f, n), NEW i \in 1..n
    PROVE  f[i] = IF i = 1 THEN <<tail>>
                  ELSE IF Successor(Last(f[i - 1])) = Null THEN f[i - 1]
                  ELSE Append(f[i - 1], Successor(Last(f[i - 1])))
<1> DEFINE g == [j \in 1..n |->
                   IF j = 1 THEN <<tail>>
                   ELSE IF Successor(Last(f[j - 1])) = Null THEN f[j - 1]
                   ELSE Append(f[j - 1], Successor(Last(f[j - 1])))]
<1>1. f = g
  BY Zenon DEF Walks
<1>2. g[i] = IF i = 1 THEN <<tail>>
             ELSE IF Successor(Last(f[i - 1])) = Null THEN f[i - 1]
             ELSE Append(f[i - 1], Successor(Last(f[i - 1])))
  OBVIOUS
<1> HIDE DEF g
<1>3. f[i] = g[i]
  BY <1>1
<1> QED BY <1>2, <1>3

\* There is a solution.
LEMMA WalksExist ==
    ASSUME NEW m \in Nat
    PROVE  \E f : Walks(f, m)
<1> DEFINE S == {n \in Nat : \E f : Walks(f, n)}
<1>1. 0 \in S
  <2>1. Walks([i \in 1..0 |-> <<>>], 0)
    BY DEF Walks
  <2> QED BY <2>1
<1>2. ASSUME NEW n \in Nat, n \in S PROVE n + 1 \in S
  <2>1. PICK f : Walks(f, n)
    BY <1>2
  <2> DEFINE Step(i, before) == IF i = 1 THEN <<tail>>
                                ELSE IF Successor(Last(before)) = Null THEN before
                                ELSE Append(before, Successor(Last(before)))
             g == [i \in 1..(n + 1) |-> IF i <= n THEN f[i] ELSE Step(i, f[i - 1])]
  <2>2. ASSUME NEW i \in 1..(n + 1) PROVE g[i] = Step(i, g[i - 1])
    <3>1. i # 1 => i - 1 \in 1..n /\ g[i - 1] = f[i - 1]
      OBVIOUS
    <3>2. i <= n => f[i] = Step(i, f[i - 1])
      BY <2>1, WalksStep
    <3>3. g[i] = Step(i, f[i - 1])
      BY <3>2
    <3>4. i = 1 => Step(i, g[i - 1]) = Step(i, f[i - 1])
      OBVIOUS
    <3> QED BY <3>1, <3>3, <3>4
  <2>3. g = [i \in 1..(n + 1) |-> Step(i, g[i - 1])]
    <3> HIDE DEF Step
    <3> QED BY <2>2
  <2>4. Walks(g, n + 1)
    BY <2>3 DEF Walks
  <2> QED BY <2>4
<1> HIDE DEF S
<1>3. Nat \subseteq S
  BY <1>1, <1>2, SetInduction
<1> QED BY <1>3 DEF S

\* A sequence of different nodes is no longer than there are nodes.
LEMMA ChainFits ==
    ASSUME NEW c, Injective(c)
    PROVE  Cardinality(Nodes) \in Nat /\ Len(c) \in Nat \ {0} /\ Len(c) <= Cardinality(Nodes)
<1>1. IsFiniteSet(Nodes)
  BY MPSCQueueAssumption, FS_AddElement DEF Nodes
<1>2. c \in Seq(Nodes) /\ Len(c) \in Nat \ {0}
  BY EmptySeq DEF Injective
<1>3. c \in Injection(1..Len(c), Nodes)
  <2>1. c \in [1..Len(c) -> Nodes]
    BY <1>2, LenProperties
  <2> QED BY <2>1 DEF Injective, Injection, IsInjective
<1>4. Cardinality(1..Len(c)) = Len(c) /\ IsFiniteSet(1..Len(c))
  BY <1>2, FS_Interval
<1>5. Cardinality(Nodes) \in Nat
  BY <1>1, FS_CardinalityType
<1>6. Cardinality(1..Len(c)) <= Cardinality(Nodes)
  BY <1>1, <1>3, FS_Injection
<1> QED BY <1>2, <1>4, <1>5, <1>6

\* The successor of a node of the chain is the next one, of the last one none.
LEMMA SuccessorIs ==
    ASSUME TypeOK, NEW c, IsChain(c)
    PROVE  /\ \A i \in 1..(Len(c) - 1) : Successor(c[i]) = c[i + 1] /\ c[i + 1] # Null
           /\ Successor(c[Len(c)]) = Null
<1>0. Injective(c) /\ Linked(c) /\ Placed(c) /\ Len(c) \in Nat \ {0} /\ c \in Seq(Nodes)
  BY ChainFits DEF IsChain, Injective
<1>1. ASSUME NEW i \in 1..(Len(c) - 1) PROVE Successor(c[i]) = c[i + 1] /\ c[i + 1] # Null
  <2>1. i \in 1..Len(c) /\ i + 1 \in 1..Len(c) /\ i # Len(c)
    BY <1>0
  <2>2. c[i + 1] \in Nodes /\ c[i + 1] # Null
    <3>1. c[i + 1] \in Nodes
      BY <1>0, <2>1
    <3> QED BY <3>1, MPSCQueueAssumption DEF Nodes
  <2>3. c[i] # head
    BY <1>0, <2>1 DEF Injective, Linked
  <2>4. CASE link[c[i]] = c[i + 1]
    BY <2>2, <2>3, <2>4 DEF Successor
  <2>5. CASE link[c[i]] = Null /\ Pending(c[i], c[i + 1])
    <3>1. ASSUME NEW m, LinksNext(c, c[i], m) PROVE m = c[i + 1]
      <4>1. PICK j \in 1..(Len(c) - 1) : c[j] = c[i] /\ c[j + 1] = m
        BY <3>1 DEF LinksNext
      <4>2. j \in 1..Len(c)
        BY <1>0
      <4> QED BY <1>0, <2>1, <4>1, <4>2 DEF Injective
    <3>2. \A m \in Unlinked(c[i]) : m = c[i + 1]
      BY <1>0, <3>1 DEF Unlinked, Placed
    <3>3. c[i + 1] \in Unlinked(c[i])
      BY <2>5 DEF Pending, Unlinked
    <3>4. (CHOOSE m \in Unlinked(c[i]) : TRUE) = c[i + 1]
      BY <3>2, <3>3
    <3> QED BY <2>2, <2>3, <2>5, <3>3, <3>4 DEF Successor
  <2> QED BY <1>0, <2>4, <2>5 DEF Linked
<1>2. Successor(c[Len(c)]) = Null
  BY <1>0 DEF Linked, Successor
<1> QED BY <1>1, <1>2

\* A prefix of a sequence of nodes is one.
LEMMA Prefix ==
    ASSUME NEW c, NEW n \in Nat, \A i \in 1..n : c[i] \in Nodes
    PROVE  SubSeq(c, 1, n) \in Seq(Nodes)
<1>1. n \in Int /\ 1 \in Int
  OBVIOUS
<1> QED BY <1>1, SubSeqProperties

\* Chain is the chain.
LEMMA ChainIs ==
    ASSUME TypeOK, NEW c, IsChain(c)
    PROVE  Chain = c
<1> DEFINE N == Cardinality(Nodes)
<1>0. /\ Injective(c) /\ c \in Seq(Nodes) /\ c[1] = tail
      /\ N \in Nat /\ Len(c) \in Nat \ {0} /\ Len(c) <= N
  BY ChainFits DEF IsChain, Injective, Linked
<1> HIDE DEF N
<1>1. PICK f : Walks(f, N) /\ Chain = f[N]
  <2>1. \E f : Walks(f, N)
    BY <1>0, WalksExist
  <2>2. Chain = (CHOOSE f : Walks(f, N))[N]
    BY DEF Chain, Walks, N
  <2> QED BY <2>1, <2>2
<1> DEFINE Part(n) == IF n <= Len(c) THEN SubSeq(c, 1, n) ELSE c
           T == {n \in Nat : n + 1 \in 1..N => f[n + 1] = Part(n + 1)}
<1>2. 0 \in T
  <2>1. 1 \in 1..N /\ 0 + 1 = 1 /\ 1 <= Len(c)
    BY <1>0
  <2>2. f[1] = <<tail>>
    BY <1>1, <2>1, WalksStep
  <2>3. SubSeq(c, 1, 1) = <<c[1]>>
    <3>1. c[1] \in Nodes /\ \A i \in 1..1 : c[i] \in Nodes
      BY <1>0, <2>1
    <3>2. PICK s \in Seq(Nodes) : s = SubSeq(c, 1, 1)
      <4>1. SubSeq(c, 1, 1) \in Seq(Nodes)
        BY <3>1, Prefix
      <4> QED BY <4>1
    <3>3. Len(s) = 1 /\ s[1] = c[1]
      BY <1>0, <2>1, <3>2
    <3>4. s = <<c[1]>>
      BY <3>3
    <3> QED BY <3>2, <3>4
  <2> QED BY <1>0, <2>1, <2>2, <2>3
<1>3. ASSUME NEW n \in Nat, n \in T PROVE n + 1 \in T
  <2> SUFFICES ASSUME n + 2 \in 1..N PROVE f[n + 2] = Part(n + 2)
    OBVIOUS
  <2>1. f[n + 1] = Part(n + 1) /\ n + 1 \in Nat
    BY <1>0, <1>3
  <2>2. f[n + 2] = IF Successor(Last(f[n + 1])) = Null THEN f[n + 1]
                   ELSE Append(f[n + 1], Successor(Last(f[n + 1])))
    <3>1. n + 2 # 1 /\ (n + 2) - 1 = n + 1
      OBVIOUS
    <3> HIDE DEF Part
    <3> QED BY <1>1, <3>1, WalksStep
  <2>3. CASE n + 2 <= Len(c)
    <3>1. PICK s \in Seq(Nodes) : s = SubSeq(c, 1, n + 1)
      <4>1. \A i \in 1..(n + 1) : c[i] \in Nodes
        BY <1>0, <2>3
      <4>2. SubSeq(c, 1, n + 1) \in Seq(Nodes)
        BY <4>1, Prefix
      <4> QED BY <4>2
    <3>2. Len(s) = n + 1 /\ s[n + 1] = c[n + 1]
      BY <1>0, <2>3, <3>1
    <3>3. f[n + 1] = s /\ Last(s) = c[n + 1]
      BY <1>0, <2>1, <2>3, <3>1, <3>2 DEF Last
    <3>4. Successor(c[n + 1]) = c[n + 2] /\ c[n + 2] # Null
      <4>1. n + 1 \in 1..(Len(c) - 1) /\ (n + 1) + 1 = n + 2
        BY <1>0, <2>3
      <4> QED BY <4>1, SuccessorIs
    <3>5. Append(s, c[n + 2]) = SubSeq(c, 1, n + 2)
      BY <1>0, <2>3, <3>1, <3>2
    <3> QED BY <2>2, <2>3, <3>3, <3>4, <3>5
  <2>4. CASE ~(n + 2 <= Len(c))
    <3>1. f[n + 1] = c
      <4>1. CASE n + 1 = Len(c)
        <5>1. SubSeq(c, 1, Len(c)) = c
          BY <1>0, SubSeqFull
        <5> QED BY <2>1, <4>1, <5>1
      <4>2. CASE n + 1 # Len(c)
        BY <1>0, <2>1, <2>4, <4>2
      <4> QED BY <4>1, <4>2
    <3>2. Successor(Last(c)) = Null
      BY SuccessorIs DEF Last
    <3> QED BY <2>2, <2>4, <3>1, <3>2
  <2> QED BY <2>3, <2>4
<1> HIDE DEF T
<1>4. Nat \subseteq T
  BY <1>2, <1>3, SetInduction
<1>5. f[N] = Part(N)
  <2>1. N - 1 \in Nat /\ (N - 1) + 1 = N /\ N \in 1..N
    BY <1>0
  <2>2. N - 1 \in T
    BY <1>4, <2>1
  <2> HIDE DEF Part
  <2> QED BY <2>1, <2>2 DEF T
<1>6. Part(N) = c
  <2>1. SubSeq(c, 1, Len(c)) = c
    BY <1>0, SubSeqFull
  <2>2. N <= Len(c) => N = Len(c)
    BY <1>0
  <2> QED BY <2>1, <2>2
<1> QED BY <1>1, <1>5, <1>6

ContentsFact == \A c \in Seq(Nodes) : IsChain(c) => Contents = WithoutDummy(c)

\* The abstract queue is the chain without the dummy.
LEMMA ContentsIs == IndInv => ContentsFact
BY ChainIs DEF IndInv, Contents, ContentsFact

-----------------------------------------------------------------------------
(* Facts about a chain in one state.                                        *)

\* Where the indices of a chain lie.
LEMMA Indices ==
    ASSUME NEW c, Injective(c)
    PROVE  /\ c \in Seq(Nodes) /\ Len(c) \in Nat \ {0}
           /\ 1 \in 1..Len(c) /\ Len(c) \in 1..Len(c)
           /\ \A i \in 1..Len(c) : c[i] \in Nodes /\ c[i] # Null
           /\ \A i \in 1..(Len(c) - 1) :
                 i \in 1..Len(c) /\ i + 1 \in 1..Len(c) /\ i + 1 # 1 /\ i # Len(c)
<1>1. c \in Seq(Nodes) /\ Len(c) \in Nat \ {0}
  BY EmptySeq DEF Injective
<1>2. \A i \in 1..Len(c) : c[i] \in Nodes
  BY <1>1
<1>3. Null \notin Nodes
  BY MPSCQueueAssumption DEF Nodes
<1>4. /\ 1 \in 1..Len(c) /\ Len(c) \in 1..Len(c)
      /\ \A i \in 1..(Len(c) - 1) :
            i \in 1..Len(c) /\ i + 1 \in 1..Len(c) /\ i + 1 # 1 /\ i # Len(c)
  BY <1>1
<1> QED BY <1>1, <1>2, <1>3, <1>4

\* _tail is _head in a chain of one node only, and then nothing is linked.
LEMMA SingleChain ==
    ASSUME NEW c, IsChain(c)
    PROVE  /\ tail = head <=> Len(c) = 1
           /\ link[tail] # Null => tail # head
<1>1. Injective(c) /\ Linked(c)
  BY DEF IsChain
<1>2. /\ 1 \in 1..Len(c) /\ Len(c) \in 1..Len(c)
  BY <1>1, Indices
<1> QED BY <1>1, <1>2 DEF Injective, Linked

\* In a longer chain an empty link of _tail means that an Enqueue() is between
\* its two writes.
LEMMA TailUnlinked ==
    ASSUME NEW c, IsChain(c), tail # head, link[tail] = Null, cpc # "linkDummy"
    PROVE  EnqueueUnfinished
<1>1. Linked(c) /\ Injective(c) /\ Len(c) # 1
  BY SingleChain DEF IsChain
<1>2. 1 \in 1..(Len(c) - 1)
  <2>1. Len(c) \in Nat \ {0}
    BY <1>1, Indices
  <2> QED BY SMTT(30), <1>1, <2>1
<1>3. c[1] = tail /\ c[1 + 1] # Null
  BY <1>1, <1>2, Indices DEF Linked
<1>4. Pending(c[1], c[1 + 1])
  BY <1>1, <1>2, <1>3 DEF Linked
<1> QED BY <1>4 DEF Pending, EnqueueUnfinished

\* An Enqueue() that has exchanged _head put its element behind another one.
LEMMA LinkPlaces ==
    ASSUME NEW c, IsChain(c), NEW p \in Producers, ppc[p] = "link"
    PROVE  \E i \in 1..(Len(c) - 1) :
              c[i] = prevHead[p] /\ c[i + 1] = input[p] /\ link[c[i]] = Null
BY DEF IsChain, Placed, LinksNext

-----------------------------------------------------------------------------
(* Steps on the memory, shared by several actions.                          *)

\* Dequeue() only moves on: the chain is what it was.
LEMMA LocalStep ==
    ASSUME NEW c, IsChain(c), UNCHANGED <<head, tail, link, allocated, producerVars>>,
           cpc # "linkDummy", cpc' # "linkDummy"
    PROVE  Injective(c)' /\ Linked(c)' /\ Placed(c)' /\ ProducersOK(c)'
<1>0. UNCHANGED <<head, tail, link, allocated, ppc, input, prevHead>>
  BY DEF producerVars
<1>1. Injective(c)'
  BY DEF IsChain, Injective
<1>2. Linked(c)'
  BY <1>0 DEF IsChain, Linked, Pending
<1>3. Placed(c)'
  BY <1>0 DEF IsChain, Placed, LinksNext
<1>4. ProducersOK(c)'
  BY <1>0 DEF IsChain, ProducersOK
<1> QED BY <1>1, <1>2, <1>3, <1>4

\* A link is cleared outside the chain.
LEMMA ClearStep ==
    ASSUME TypeOK, NEW c, IsChain(c), NEW n \in Nodes, \A i \in 1..Len(c) : c[i] # n,
           link' = [link EXCEPT ![n] = Null],
           UNCHANGED <<head, tail, allocated, input, prevHead, cprev>>,
           \A p \in Producers : ppc'[p] = "link" <=> ppc[p] = "link",
           cpc' = "linkDummy" <=> cpc = "linkDummy"
    PROVE  /\ Injective(c)' /\ Linked(c)' /\ Placed(c)'
           /\ \A i \in 1..Len(c) : link'[c[i]] = link[c[i]]
<1>0. Injective(c) /\ Linked(c) /\ Placed(c)
  BY DEF IsChain
<1>1. \A i \in 1..Len(c) : link'[c[i]] = link[c[i]]
  BY <1>0, Indices DEF TypeOK
<1>2. Injective(c)'
  BY <1>0 DEF Injective
<1>3. Linked(c)'
  <2>1. ASSUME NEW i \in 1..(Len(c) - 1)
        PROVE  link'[c[i]] = c[i + 1] \/ (link'[c[i]] = Null /\ Pending(c[i], c[i + 1])')
    <3>1. i \in 1..Len(c)
      BY <1>0, Indices
    <3>2. Pending(c[i], c[i + 1]) => Pending(c[i], c[i + 1])'
      BY DEF Pending
    <3> QED BY <1>0, <1>1, <3>1, <3>2 DEF Linked
  <2>2. link'[head'] = Null
    BY <1>0, <1>1, Indices DEF Linked
  <2> QED BY <1>0, <2>1, <2>2 DEF Linked
<1>4. Placed(c)'
  <2>1. ASSUME NEW a, NEW b, LinksNext(c, a, b) PROVE LinksNext(c, a, b)'
    BY <1>0, <1>1, <2>1, Indices DEF LinksNext
  <2> QED BY <1>0, <2>1 DEF Placed
<1> QED BY <1>1, <1>2, <1>3, <1>4

\* The consumer leaves the first node of the chain, and may delete it.
LEMMA TailStep ==
    ASSUME TypeOK, NEW c, IsChain(c), NEW d, d = Tail(c),
           link[tail] # Null, tail' = link[tail],
           UNCHANGED <<head, link, ppc, input, prevHead>>,
           \A n \in allocated : n # tail => n \in allocated',
           cpc # "linkDummy", cpc' # "linkDummy"
    PROVE  /\ Len(c) # 1 /\ tail' = c[2] /\ tail' # tail
           /\ Injective(d)' /\ Linked(d)' /\ Placed(d)' /\ ProducersOK(d)'
<1>0. Injective(c) /\ Linked(c) /\ Placed(c) /\ ProducersOK(c) /\ Len(c) # 1
  BY SingleChain DEF IsChain
<1>1. /\ Injective(d) /\ Len(d) = Len(c) - 1 /\ Len(c) \in Nat /\ Len(c) > 1
      /\ \A i \in 1..(Len(c) - 1) : d[i] = c[i + 1]
  BY <1>0, TailChain
<1>2. /\ 1 \in 1..(Len(c) - 1) /\ 1 + 1 = 2 /\ 2 \in 1..Len(c) /\ Len(d) \in 1..(Len(c) - 1)
      /\ Len(d) + 1 = Len(c) /\ \A i \in 1..Len(d) : i \in 1..(Len(c) - 1)
      /\ \A i \in 1..(Len(d) - 1) : i \in 1..(Len(c) - 1) /\ i + 1 \in 1..(Len(c) - 1)
      /\ \A i \in 1..(Len(c) - 1) : i # 1 => i - 1 \in 1..(Len(d) - 1) /\ (i - 1) + 1 = i
  BY <1>1
<1>3. tail = c[1] /\ tail' = c[2] /\ d[1] = tail' /\ tail' # tail
  <2>1. tail = c[1] /\ tail' = c[2]
    BY <1>0, <1>2 DEF Linked
  <2> QED BY <1>0, <1>1, <1>2, <2>1, Indices DEF Injective
<1>4. \A i \in 1..Len(d) : d[i] # c[1] /\ \E j \in 1..Len(c) : d[i] = c[j]
  <2> SUFFICES ASSUME NEW i \in 1..Len(d)
               PROVE  d[i] # c[1] /\ \E j \in 1..Len(c) : d[i] = c[j]
    OBVIOUS
  <2>1. i + 1 \in 1..Len(c) /\ i + 1 # 1 /\ 1 \in 1..Len(c) /\ d[i] = c[i + 1]
    BY <1>0, <1>1, <1>2, Indices
  <2> QED BY <1>0, <2>1 DEF Injective
<1>5. Injective(d)'
  BY <1>1 DEF Injective
<1>6. Linked(d)'
  <2>1. d[Len(d)] = head'
    BY <1>0, <1>1, <1>2 DEF Linked
  <2>2. ASSUME NEW i \in 1..(Len(d) - 1)
        PROVE  link'[d[i]] = d[i + 1] \/ (link'[d[i]] = Null /\ Pending(d[i], d[i + 1])')
    <3>1. d[i] = c[i + 1] /\ d[i + 1] = c[(i + 1) + 1] /\ i + 1 \in 1..(Len(c) - 1)
      BY <1>1, <1>2
    <3>2. Pending(d[i], d[i + 1]) => Pending(d[i], d[i + 1])'
      BY DEF Pending
    <3> QED BY <1>0, <3>1, <3>2 DEF Linked
  <2> QED BY <1>0, <1>3, <2>1, <2>2 DEF Linked
<1>7. Placed(d)'
  <2>1. ASSUME NEW p \in Producers, ppc'[p] = "link"
        PROVE  LinksNext(d, prevHead[p], input[p])'
    <3>1. PICK i \in 1..(Len(c) - 1) :
                 c[i] = prevHead[p] /\ c[i + 1] = input[p] /\ link[c[i]] = Null
      BY <2>1, LinkPlaces
    <3>2. i - 1 \in 1..(Len(d) - 1) /\ (i - 1) + 1 = i
      BY <1>2, <1>3, <3>1
    <3>3. i - 1 \in 1..(Len(c) - 1)
      BY <1>2, <3>2
    <3>4. d[i - 1] = c[i] /\ d[(i - 1) + 1] = c[i + 1]
      BY <1>1, <3>1, <3>2, <3>3
    <3> QED BY <3>1, <3>2, <3>4 DEF LinksNext
  <2>2. ASSUME NEW i \in 1..Len(d) PROVE d[i] \in allocated' \cup {Dummy}
    BY <1>0, <1>3, <1>4 DEF Placed
  <2> QED BY <2>1, <2>2 DEF Placed
<1>8. ProducersOK(d)'
  <2>1. ASSUME NEW p \in Producers, ppc'[p] # "idle" PROVE input'[p] \in allocated'
    <3>1. input[p] \in allocated
      BY <1>0, <2>1 DEF ProducersOK
    <3>2. input[p] # c[1]
      <4>1. CASE ppc[p] \in {"clear", "exchange"}
        BY <1>0, <4>1, Indices DEF ProducersOK
      <4>2. CASE ppc[p] = "link"
        <5>1. PICK i \in 1..(Len(c) - 1) : c[i + 1] = input[p]
          BY <4>2, LinkPlaces
        <5>2. i + 1 \in 1..Len(c) /\ 1 \in 1..Len(c) /\ i + 1 # 1
          BY <1>0, Indices
        <5> QED BY <1>0, <5>1, <5>2 DEF Injective
      <4> QED BY <2>1, <4>1, <4>2 DEF TypeOK
    <3> QED BY <1>3, <3>1, <3>2
  <2>2. ASSUME NEW p \in Producers, ppc'[p] \in {"clear", "exchange"}, NEW i \in 1..Len(d)
        PROVE  d[i] # input'[p]
    BY <1>0, <1>4, <2>2 DEF ProducersOK
  <2> QED BY <1>0, <2>1, <2>2 DEF ProducersOK
<1> QED BY <1>0, <1>3, <1>5, <1>6, <1>7, <1>8

-----------------------------------------------------------------------------
(* Enqueue().                                                               *)

\* A new element is in no chain and in no other Enqueue().
LEMMA StartEnqueueChain ==
    ASSUME TypeOK, NEW c, IsChain(c), NEW p \in Producers, NEW x \in Items, StartEnqueue(p, x)
    PROVE  IsChain(c)'
<1>0. /\ Injective(c) /\ Linked(c) /\ Placed(c) /\ ProducersOK(c) /\ ConsumerOK(c)
      /\ UNCHANGED <<head, tail, link, prevHead, cpc, next, cprev, disturbed>>
      /\ ppc[p] = "idle" /\ x \notin allocated /\ allocated' = allocated \cup {x}
      /\ x # Dummy
  BY MPSCQueueAssumption DEF IsChain, StartEnqueue, consumerVars
<1>1. /\ ppc'[p] = "clear" /\ input'[p] = x
      /\ \A q \in Producers : q # p => ppc'[q] = ppc[q] /\ input'[q] = input[q]
  BY DEF TypeOK, StartEnqueue
<1>2. Linked(c)'
  <2>1. \A n, m : Pending(n, m) => Pending(n, m)'
    BY <1>0, <1>1 DEF Pending
  <2> QED BY <1>0, <2>1 DEF Linked
<1>3. Placed(c)'
  BY <1>0, <1>1 DEF Placed, LinksNext
<1>4. ProducersOK(c)'
  <2>1. \A i \in 1..Len(c) : c[i] # x
    BY <1>0 DEF Placed
  <2>2. \A q \in Producers : ppc[q] # "idle" => q # p /\ input[q] # x
    BY <1>0 DEF ProducersOK
  <2>3. \A q \in Producers : ppc'[q] = "exchange" => link'[input'[q]] = Null
    BY <1>0, <1>1 DEF ProducersOK
  <2>4. \A q \in Producers : ppc'[q] # "idle" => input'[q] \in allocated'
    BY <1>0, <1>1 DEF ProducersOK
  <2>5. \A q \in Producers : ppc'[q] \in {"clear", "exchange"} =>
           \A i \in 1..Len(c) : c[i] # input'[q]
    BY <1>0, <1>1, <2>1 DEF ProducersOK
  <2>6. \A q, r \in Producers :
           ppc'[q] # "idle" /\ ppc'[r] # "idle" /\ input'[q] = input'[r] => q = r
    BY <1>0, <1>1, <2>2 DEF ProducersOK
  <2> QED BY <2>3, <2>4, <2>5, <2>6 DEF ProducersOK
<1>5. ConsumerOK(c)'
  <2>1. EnqueueUnfinished' => EnqueueUnfinished
    BY <1>0, <1>1 DEF EnqueueUnfinished
  <2> QED BY <1>0, <2>1 DEF ConsumerOK
<1>6. Injective(c)'
  BY <1>0 DEF Injective
<1> QED BY <1>2, <1>3, <1>4, <1>5, <1>6 DEF IsChain

\* The link of the new element is cleared before it is in the chain.
LEMMA StoreNullChain ==
    ASSUME TypeOK, NEW c, IsChain(c), NEW p \in Producers, StoreNull(p)
    PROVE  IsChain(c)'
<1>0. /\ Injective(c) /\ Linked(c) /\ ProducersOK(c) /\ ConsumerOK(c)
      /\ UNCHANGED <<head, tail, allocated, input, prevHead, cpc, next, cprev, disturbed>>
      /\ ppc[p] = "clear" /\ link' = [link EXCEPT ![input[p]] = Null]
  BY DEF IsChain, StoreNull, ClearLink, consumerVars
<1>1. /\ ppc'[p] = "exchange"
      /\ \A q \in Producers : q # p => ppc'[q] = ppc[q]
  BY DEF TypeOK, StoreNull
<1>2. input[p] \in Nodes /\ \A i \in 1..Len(c) : c[i] # input[p]
  BY <1>0 DEF ProducersOK, TypeOK, Nodes
<1>3. \A q \in Producers : ppc'[q] = "link" <=> ppc[q] = "link"
  BY <1>0, <1>1
<1>4. Injective(c)' /\ Linked(c)' /\ Placed(c)' /\ \A i \in 1..Len(c) : link'[c[i]] = link[c[i]]
  BY <1>0, <1>2, <1>3, ClearStep
<1>5. ProducersOK(c)'
  <2>1. \A q \in Producers : ppc'[q] = "exchange" => link'[input'[q]] = Null
    <3> SUFFICES ASSUME NEW q \in Producers, ppc'[q] = "exchange" PROVE link'[input[q]] = Null
      BY <1>0
    <3>1. CASE q = p
      BY <1>0, <1>2, <3>1 DEF TypeOK
    <3>2. CASE q # p
      <4>1. ppc[q] = "exchange"
        BY <1>1, <3>2
      <4>2. input[q] \in Nodes /\ link[input[q]] = Null
        BY <1>0, <4>1 DEF ProducersOK, TypeOK, Nodes
      <4> QED BY <1>0, <4>2 DEF TypeOK
    <3> QED BY <3>1, <3>2
  <2>2. \A q \in Producers : ppc'[q] # "idle" => ppc[q] # "idle"
    BY <1>0, <1>1
  <2>3. \A q \in Producers : ppc'[q] \in {"clear", "exchange"} => ppc[q] \in {"clear", "exchange"}
    BY <1>0, <1>1
  <2> QED BY <1>0, <2>1, <2>2, <2>3 DEF ProducersOK
<1>6. ConsumerOK(c)'
  <2>1. EnqueueUnfinished' => EnqueueUnfinished
    BY <1>3 DEF EnqueueUnfinished
  <2>2. link'[tail] = link[tail]
    BY <1>0, <1>4, Indices DEF Linked
  <2>3. link[Dummy] = Null => link'[Dummy] = Null
    BY <1>0, <1>2 DEF TypeOK, Nodes
  <2> QED BY <1>0, <2>1, <2>2, <2>3 DEF ConsumerOK
<1> QED BY <1>4, <1>5, <1>6 DEF IsChain

\* The exchange of _head puts the element at the end of the chain.
LEMMA ExchangeChain ==
    ASSUME TypeOK, NEW c, IsChain(c), NEW p \in Producers, Exchange(p),
           NEW d, d = Append(c, input[p])
    PROVE  /\ IsChain(d)' /\ input[p] \in Items
           /\ \A i \in 1..Len(c) : c[i] # input[p]
<1>0. /\ Injective(c) /\ Linked(c) /\ Placed(c) /\ ProducersOK(c) /\ ConsumerOK(c)
      /\ UNCHANGED <<tail, link, allocated, input, cpc, next, cprev>>
      /\ ppc[p] = "exchange" /\ head' = input[p] /\ disturbed' = (cpc # "idle")
  BY DEF IsChain, Exchange
<1>1. /\ ppc'[p] = "link" /\ prevHead'[p] = head
      /\ \A q \in Producers : q # p => ppc'[q] = ppc[q] /\ prevHead'[q] = prevHead[q]
  BY DEF TypeOK, Exchange
<1>2. /\ input[p] \in allocated /\ input[p] \in Items /\ input[p] \in Nodes
      /\ \A i \in 1..Len(c) : c[i] # input[p]
  BY <1>0 DEF ProducersOK, TypeOK, Nodes
<1>3. /\ Injective(d)
      /\ Len(d) = Len(c) + 1 /\ Len(c) \in Nat \ {0}
      /\ \A i \in 1..Len(c) : d[i] = c[i]
      /\ d[Len(c) + 1] = input[p]
  BY <1>0, <1>2, AppendChain
<1>4. /\ 1 \in 1..Len(c) /\ Len(c) \in 1..(Len(d) - 1) /\ Len(d) = Len(c) + 1
      /\ \A i \in 1..Len(d) : i \in 1..Len(c) \/ i = Len(c) + 1
      /\ \A i \in 1..(Len(d) - 1) : i = Len(c) \/ i \in 1..(Len(c) - 1)
      /\ \A i \in 1..(Len(c) - 1) :
            i \in 1..(Len(d) - 1) /\ i \in 1..Len(c) /\ i + 1 \in 1..Len(c)
  BY <1>3
<1>5. Linked(d)'
  <2>1. d[1] = tail' /\ d[Len(d)] = head'
    BY <1>0, <1>3, <1>4 DEF Linked
  <2>2. link'[head'] = Null
    BY <1>0 DEF ProducersOK
  <2>3. ASSUME NEW i \in 1..(Len(d) - 1)
        PROVE  link'[d[i]] = d[i + 1] \/ (link'[d[i]] = Null /\ Pending(d[i], d[i + 1])')
    <3>1. CASE i = Len(c)
      <4>1. d[i] = head /\ d[i + 1] = input[p] /\ link[head] = Null
        BY <1>0, <1>3, <1>4, <3>1, Indices DEF Linked
      <4> QED BY <1>0, <1>1, <4>1 DEF Pending
    <3>2. CASE i \in 1..(Len(c) - 1)
      <4>1. d[i] = c[i] /\ d[i + 1] = c[i + 1]
        BY <1>3, <1>4, <3>2
      <4>2. Pending(c[i], c[i + 1]) => Pending(c[i], c[i + 1])'
        BY <1>0, <1>1 DEF Pending
      <4> QED BY <1>0, <3>2, <4>1, <4>2 DEF Linked
    <3> QED BY <1>4, <3>1, <3>2
  <2> QED BY <2>1, <2>2, <2>3 DEF Linked
<1>6. Placed(d)'
  <2>3. ASSUME NEW q \in Producers, ppc'[q] = "link" PROVE LinksNext(d, prevHead[q], input[q])'
    <3>1. CASE q = p
      <4>1. d[Len(c)] = head /\ link'[head] = Null
        BY <1>0, <1>3, Indices DEF Linked
      <4> QED BY <1>0, <1>1, <1>3, <1>4, <3>1, <4>1 DEF LinksNext
    <3>2. CASE q # p
      <4>1. LinksNext(c, prevHead[q], input[q])
        BY <1>0, <1>1, <2>3, <3>2 DEF Placed
      <4>2. LinksNext(d, prevHead[q], input[q])' <=>
               \E i \in 1..(Len(d) - 1) :
                  d[i] = prevHead[q] /\ d[i + 1] = input[q] /\ link[prevHead[q]] = Null
        BY <1>0, <1>1, <3>2 DEF LinksNext
      <4>3. PICK i \in 1..(Len(c) - 1) :
                 c[i] = prevHead[q] /\ c[i + 1] = input[q] /\ link[prevHead[q]] = Null
        BY <4>1 DEF LinksNext
      <4>4. d[i] = c[i] /\ d[i + 1] = c[i + 1] /\ i \in 1..(Len(d) - 1)
        BY <1>3, <1>4, <4>3
      <4> QED BY <4>2, <4>3, <4>4
    <3> QED BY <3>1, <3>2
  <2>4. ASSUME cpc' = "linkDummy" PROVE LinksNext(d, cprev, Dummy)'
    <3>1. PICK i \in 1..(Len(c) - 1) : c[i] = cprev /\ c[i + 1] = Dummy /\ link[cprev] = Null
      BY <1>0, <2>4 DEF Placed, LinksNext
    <3>2. d[i] = cprev /\ d[i + 1] = Dummy /\ i \in 1..(Len(d) - 1)
      BY <1>3, <1>4, <3>1
    <3> QED BY <1>0, <3>1, <3>2 DEF LinksNext
  <2>5. \A i \in 1..Len(d) : d[i] \in allocated' \cup {Dummy}
    BY <1>0, <1>2, <1>3, <1>4 DEF Placed
  <2> QED BY <2>3, <2>4, <2>5 DEF Placed
<1>7. ProducersOK(d)'
  <2>1. \A q \in Producers : (ppc'[q] # "idle" => ppc[q] # "idle") /\ (ppc'[q] # "link" => q # p)
    BY <1>0, <1>1
  <2>2. ASSUME NEW q \in Producers, ppc'[q] \in {"clear", "exchange"}, NEW i \in 1..Len(d)
        PROVE  d[i] # input'[q]
    <3>1. q # p /\ ppc[q] = ppc'[q] /\ input'[q] = input[q]
      BY <1>0, <1>1, <2>2
    <3>2. input[q] # input[p]
      BY <1>0, <2>2, <3>1 DEF ProducersOK
    <3> QED BY <1>0, <1>3, <1>4, <2>2, <3>1, <3>2 DEF ProducersOK
  <2>3. \A q \in Producers : ppc'[q] = "exchange" => link'[input'[q]] = Null
    BY <1>0, <1>1 DEF ProducersOK
  <2> QED BY <1>0, <2>1, <2>2, <2>3 DEF ProducersOK
<1>8. ConsumerOK(d)'
  <2>1. \A i \in 1..Len(d) : d[i] = Dummy => i \in 1..Len(c) /\ c[i] = Dummy
    <3>1. input[p] # Dummy
      BY <1>2, MPSCQueueAssumption
    <3> QED BY <1>3, <1>4, <3>1
  <2>2. \A i \in 1..Len(c) : c[i] = Dummy => i \in 1..Len(d) /\ d[i] = Dummy
    BY <1>3
  <2> QED BY <1>0, <2>1, <2>2 DEF ConsumerOK
<1>9. Injective(d)'
  BY <1>3 DEF Injective
<1> QED BY <1>2, <1>5, <1>6, <1>7, <1>8, <1>9 DEF IsChain

\* The store of the link changes nothing but the link.
LEMMA LinkPreviousChain ==
    ASSUME TypeOK, NEW c, IsChain(c), NEW p \in Producers, LinkPrevious(p)
    PROVE  IsChain(c)'
<1>0. /\ Injective(c) /\ Linked(c) /\ Placed(c) /\ ProducersOK(c) /\ ConsumerOK(c)
      /\ UNCHANGED <<head, tail, allocated, cpc, next, cprev, disturbed>>
      /\ ppc[p] = "link" /\ link' = [link EXCEPT ![prevHead[p]] = input[p]]
  BY DEF IsChain, LinkPrevious, consumerVars
<1>1. /\ ppc'[p] = "idle"
      /\ \A q \in Producers : q # p =>
            ppc'[q] = ppc[q] /\ prevHead'[q] = prevHead[q] /\ input'[q] = input[q]
  BY DEF TypeOK, LinkPrevious
<1>2. PICK k \in 1..(Len(c) - 1) :
             c[k] = prevHead[p] /\ c[k + 1] = input[p] /\ link[c[k]] = Null
  BY <1>0, LinkPlaces
<1>3. /\ k \in 1..Len(c) /\ k + 1 \in 1..Len(c) /\ k # Len(c) /\ c[k] \in Nodes
      /\ input[p] \in Items
      /\ \A i \in 1..(Len(c) - 1) : i \in 1..Len(c) /\ i + 1 \in 1..Len(c)
      /\ Len(c) \in 1..Len(c) /\ 1 \in 1..Len(c)
  BY <1>0, Indices DEF ProducersOK, TypeOK
<1>4. /\ link'[c[k]] = c[k + 1]
      /\ \A n \in Nodes : n # c[k] => link'[n] = link[n]
      /\ \A i \in 1..Len(c) : i # k => link'[c[i]] = link[c[i]]
  <2>1. link'[c[k]] = c[k + 1] /\ \A n \in Nodes : n # c[k] => link'[n] = link[n]
    BY <1>0, <1>2, <1>3 DEF TypeOK
  <2>2. \A i \in 1..Len(c) : i # k => c[i] \in Nodes /\ c[i] # c[k]
    BY <1>0, <1>3, Indices DEF Injective
  <2> QED BY <2>1, <2>2
<1>5. Linked(c)'
  <2>1. link'[head'] = Null
    BY <1>0, <1>3, <1>4 DEF Linked
  <2>2. ASSUME NEW i \in 1..(Len(c) - 1)
        PROVE  link'[c[i]] = c[i + 1] \/ (link'[c[i]] = Null /\ Pending(c[i], c[i + 1])')
    <3>1. CASE i = k
      BY <1>4, <3>1
    <3>2. CASE i # k
      <4>1. link'[c[i]] = link[c[i]] /\ c[i] # prevHead[p]
        BY <1>0, <1>2, <1>3, <1>4, <3>2 DEF Injective
      <4>2. Pending(c[i], c[i + 1]) => Pending(c[i], c[i + 1])'
        BY <1>0, <1>1, <4>1 DEF Pending
      <4> QED BY <1>0, <4>1, <4>2 DEF Linked
    <3> QED BY <3>1, <3>2
  <2> QED BY <1>0, <2>1, <2>2 DEF Linked
<1>6. Placed(c)'
  <2>1. ASSUME NEW q \in Producers, ppc'[q] = "link" PROVE LinksNext(c, prevHead[q], input[q])'
    <3>1. q # p /\ ppc[q] = "link" /\ prevHead'[q] = prevHead[q] /\ input'[q] = input[q]
      BY <1>1, <2>1
    <3>2. PICK i \in 1..(Len(c) - 1) :
                 c[i] = prevHead[q] /\ c[i + 1] = input[q] /\ link[c[i]] = Null
      BY <3>1, LinkPlaces
    <3>3. input[q] # input[p]
      BY <1>0, <3>1 DEF ProducersOK
    <3>4. i # k
      BY <1>2, <3>2, <3>3
    <3>5. link'[c[i]] = Null
      BY <1>3, <1>4, <3>2, <3>4
    <3> QED BY <3>1, <3>2, <3>5 DEF LinksNext
  <2>2. ASSUME cpc' = "linkDummy" PROVE LinksNext(c, cprev, Dummy)'
    <3>1. PICK i \in 1..(Len(c) - 1) : c[i] = cprev /\ c[i + 1] = Dummy /\ link[cprev] = Null
      BY <1>0, <2>2 DEF Placed, LinksNext
    <3>2. i # k
      BY <1>2, <1>3, <3>1, MPSCQueueAssumption
    <3>3. link'[c[i]] = Null
      BY <1>3, <1>4, <3>1, <3>2
    <3> QED BY <1>0, <3>1, <3>3 DEF LinksNext
  <2> QED BY <1>0, <2>1, <2>2 DEF Placed
<1>7. ProducersOK(c)'
  <2>1. \A q \in Producers : ppc'[q] # "idle" => q # p
    BY <1>1
  <2>2. \A q \in Producers : ppc'[q] = "exchange" => link'[input'[q]] = Null
    <3> SUFFICES ASSUME NEW q \in Producers, ppc'[q] = "exchange" PROVE link'[input'[q]] = Null
      OBVIOUS
    <3>1. ppc[q] = "exchange" /\ input'[q] = input[q]
      BY <1>1, <2>1
    <3>2. link[input[q]] = Null /\ input[q] # c[k] /\ input[q] \in Nodes
      BY <1>0, <1>3, <3>1 DEF ProducersOK, TypeOK, Nodes
    <3> QED BY <1>4, <3>1, <3>2
  <2>3. \A q \in Producers : ppc'[q] # "idle" => input'[q] \in allocated'
    BY <1>0, <1>1 DEF ProducersOK
  <2>4. \A q \in Producers : ppc'[q] \in {"clear", "exchange"} =>
           \A i \in 1..Len(c) : c[i] # input'[q]
    BY <1>0, <1>1 DEF ProducersOK
  <2>5. \A q, r \in Producers :
           ppc'[q] # "idle" /\ ppc'[r] # "idle" /\ input'[q] = input'[r] => q = r
    BY <1>0, <1>1 DEF ProducersOK
  <2> QED BY <2>2, <2>3, <2>4, <2>5 DEF ProducersOK
<1>8. ConsumerOK(c)'
  <2>1. EnqueueUnfinished' => EnqueueUnfinished
    BY <1>0 DEF EnqueueUnfinished
  <2>2. link[tail] # Null => link'[tail] = link[tail]
    BY <1>0, <1>2, <1>3, <1>4, Indices DEF Linked
  <2>3. cpc = "exchangeDummy" => link'[Dummy] = Null
    <3>1. cpc = "exchangeDummy" => Dummy # c[k] /\ link[Dummy] = Null /\ Dummy \in Nodes
      BY <1>0, <1>3 DEF ConsumerOK, Nodes
    <3> QED BY <1>4, <3>1
  <2>4. cpc \in {"skip", "decide"} /\ next # Null => next = link'[tail]
    BY <1>0, <2>2 DEF ConsumerOK
  <2> QED BY <1>0, <2>1, <2>3, <2>4 DEF ConsumerOK
<1>9. Injective(c)'
  BY <1>0 DEF Injective
<1> QED BY <1>5, <1>6, <1>7, <1>8, <1>9 DEF IsChain

-----------------------------------------------------------------------------
(* Dequeue().                                                               *)

\* A call of Dequeue() that returns leaves nothing behind.
LEMMA ReturnsOK ==
    ASSUME NEW d, cpc' = "idle"
    PROVE  ConsumerOK(d)'
BY DEF ConsumerOK

\* Dequeue() begins, and knows whether an Enqueue() overlaps.
LEMMA StartDequeueChain ==
    ASSUME TypeOK, NEW c, IsChain(c), StartDequeue
    PROVE  IsChain(c)'
<1>1. /\ UNCHANGED <<head, tail, link, allocated, producerVars, next>>
      /\ cpc = "idle" /\ cpc' = "load" /\ disturbed' = EnqueueUnfinished
      /\ UNCHANGED ppc
  BY DEF StartDequeue, producerVars
<1>2. Injective(c)' /\ Linked(c)' /\ Placed(c)' /\ ProducersOK(c)'
  BY <1>1, LocalStep
<1>3. ConsumerOK(c)'
  <2>1. EnqueueUnfinished' => EnqueueUnfinished
    BY <1>1 DEF EnqueueUnfinished
  <2> QED BY <1>1, <2>1 DEF ConsumerOK
<1> QED BY <1>2, <1>3 DEF IsChain

\* The successor that was read is the one in memory; none was there because the
\* queue is at its end, or because an Enqueue() overlaps.
LEMMA LoadChain ==
    ASSUME TypeOK, NEW c, IsChain(c), LoadNext \/ ReloadNext
    PROVE  IsChain(c)'
<1>1. /\ UNCHANGED <<head, tail, link, allocated, producerVars, disturbed>>
      /\ cpc \in {"load", "reload"} /\ next' = link[tail]
      /\ cpc' = (IF tail = Dummy THEN "skip" ELSE "decide")
      /\ UNCHANGED ppc
  BY DEF LoadNext, ReloadNext, Goto, producerVars, IsChain, ConsumerOK
<1>2. Injective(c)' /\ Linked(c)' /\ Placed(c)' /\ ProducersOK(c)'
  BY <1>1, LocalStep
<1>3. ConsumerOK(c)'
  <2>1. EnqueueUnfinished' => EnqueueUnfinished
    BY <1>1 DEF EnqueueUnfinished
  <2>2. EnqueueUnfinished => disturbed
    BY <1>1 DEF IsChain, ConsumerOK
  <2>3. link[tail] = Null => disturbed \/ head = tail
    BY <1>1, <2>2, TailUnlinked
  <2> QED BY <1>1, <2>1, <2>2, <2>3 DEF ConsumerOK
<1> QED BY <1>2, <1>3 DEF IsChain

\* Dequeue() reports an empty queue.
LEMMA ReturnNullChain ==
    ASSUME TypeOK, NEW c, IsChain(c), Return(Null), UNCHANGED <<head, tail, link, producerVars>>,
           cpc # "linkDummy"
    PROVE  IsChain(c)'
<1>1. cpc' = "idle" /\ allocated' = allocated
  BY MPSCQueueAssumption DEF Return, TypeOK
<1>2. Injective(c)' /\ Linked(c)' /\ Placed(c)' /\ ProducersOK(c)'
  BY <1>1, LocalStep
<1> QED BY <1>1, <1>2, ReturnsOK DEF IsChain

\* Dequeue() steps over the dummy.
LEMMA SkipChain ==
    ASSUME TypeOK, NEW c, IsChain(c), SkipDummy, next # Null, NEW d, d = Tail(c)
    PROVE  IsChain(d)' /\ Len(c) # 1 /\ c[1] = Dummy
<1>1. /\ cpc = "skip" /\ cpc' = "reload" /\ tail' = next
      /\ UNCHANGED <<head, link, ppc, input, prevHead, allocated, disturbed, next>>
  BY DEF SkipDummy, Goto, producerVars
<1>2. tail = Dummy /\ next = link[tail] /\ ConsumerOK(c)
  BY <1>1 DEF IsChain, ConsumerOK
<1>3. /\ Len(c) # 1 /\ tail' # tail
      /\ Injective(d)' /\ Linked(d)' /\ Placed(d)' /\ ProducersOK(d)'
  BY <1>1, <1>2, TailStep
<1>4. ConsumerOK(d)'
  <2>1. EnqueueUnfinished' => disturbed
    BY <1>1, <1>2 DEF EnqueueUnfinished, ConsumerOK
  <2> QED BY <1>1, <1>2, <1>3, <2>1 DEF ConsumerOK
<1> QED BY <1>2, <1>3, <1>4 DEF IsChain, Linked

\* Dequeue() delivers the first element.
LEMMA TakeChain ==
    ASSUME TypeOK, NEW c, IsChain(c), cpc \in {"decide", "last"}, Return(tail),
           link[tail] # Null, tail' = link[tail],
           UNCHANGED <<head, link, producerVars>>, NEW d, d = Tail(c)
    PROVE  /\ IsChain(d)' /\ Len(c) # 1 /\ c[1] = tail /\ tail # Dummy
<1>1. /\ cpc' = "idle" /\ UNCHANGED <<ppc, input, prevHead>>
      /\ \A n \in allocated : n # tail => n \in allocated'
  BY DEF Return, producerVars
<1>2. /\ Len(c) # 1
      /\ Injective(d)' /\ Linked(d)' /\ Placed(d)' /\ ProducersOK(d)'
  BY <1>1, TailStep
<1>3. c[1] = tail /\ tail # Dummy
  BY DEF IsChain, ConsumerOK, Linked
<1> QED BY <1>1, <1>2, <1>3, ReturnsOK DEF IsChain

\* _tail is _head: only one element is left, which is not the dummy.
LEMMA LoadHeadChain ==
    ASSUME TypeOK, NEW c, IsChain(c), LoadHead, tail = head
    PROVE  IsChain(c)'
<1>1. /\ UNCHANGED <<head, tail, link, allocated, producerVars, disturbed, ppc>>
      /\ cpc = "decide" /\ cpc' = "clearDummy"
  BY DEF LoadHead, Goto, producerVars
<1>2. Injective(c)' /\ Linked(c)' /\ Placed(c)' /\ ProducersOK(c)'
  BY <1>1, LocalStep
<1>3. ConsumerOK(c)'
  <2>1. EnqueueUnfinished' => disturbed
    BY <1>1 DEF EnqueueUnfinished, IsChain, ConsumerOK
  <2>2. tail # Dummy /\ c[1] = tail /\ Len(c) = 1
    BY <1>1, SingleChain DEF IsChain, ConsumerOK, Linked
  <2>3. \A i \in 1..Len(c) : c[i] # Dummy
    BY <2>2
  <2> QED BY <1>1, <2>1, <2>2, <2>3 DEF ConsumerOK
<1> QED BY <1>2, <1>3 DEF IsChain

\* The dummy's link is cleared while the dummy is outside the chain.
LEMMA StoreNullDummyChain ==
    ASSUME TypeOK, NEW c, IsChain(c), StoreNullDummy
    PROVE  IsChain(c)'
<1>0. /\ Linked(c) /\ Injective(c) /\ ProducersOK(c) /\ ConsumerOK(c)
      /\ UNCHANGED <<head, tail, allocated, ppc, input, prevHead, next, cprev, disturbed>>
      /\ cpc = "clearDummy" /\ cpc' = "exchangeDummy"
      /\ link' = [link EXCEPT ![Dummy] = Null]
  BY DEF IsChain, StoreNullDummy, Goto, producerVars
<1>1. Dummy \in Nodes /\ \A i \in 1..Len(c) : c[i] # Dummy
  BY <1>0 DEF ConsumerOK, Nodes
<1>2. /\ Injective(c)' /\ Linked(c)' /\ Placed(c)'
  BY <1>0, <1>1, ClearStep
<1>3. ProducersOK(c)'
  <2>1. \A q \in Producers : ppc[q] = "exchange" => link'[input[q]] = Null
    <3> SUFFICES ASSUME NEW q \in Producers, ppc[q] = "exchange" PROVE link'[input[q]] = Null
      OBVIOUS
    <3>1. link[input[q]] = Null /\ input[q] \in Nodes
      BY <1>0 DEF ProducersOK, TypeOK, Nodes
    <3> QED BY <1>0, <3>1 DEF TypeOK
  <2> QED BY <1>0, <2>1 DEF ProducersOK
<1>4. ConsumerOK(c)'
  <2>1. EnqueueUnfinished' => disturbed
    BY <1>0 DEF EnqueueUnfinished, ConsumerOK
  <2>2. link'[Dummy] = Null
    BY <1>0, <1>1 DEF TypeOK
  <2> QED BY <1>0, <1>1, <2>1, <2>2 DEF ConsumerOK
<1> QED BY <1>2, <1>3, <1>4 DEF IsChain

\* The consumer's exchange of _head puts the dummy at the end of the chain.
LEMMA ExchangeDummyChain ==
    ASSUME TypeOK, NEW c, IsChain(c), ExchangeDummy, NEW d, d = Append(c, Dummy)
    PROVE  IsChain(d)' /\ \A i \in 1..Len(c) : c[i] # Dummy
<1>0. /\ Injective(c) /\ Linked(c) /\ Placed(c) /\ ProducersOK(c) /\ ConsumerOK(c)
      /\ UNCHANGED <<tail, link, allocated, ppc, input, prevHead, next, disturbed>>
      /\ cpc = "exchangeDummy" /\ cpc' = "linkDummy" /\ head' = Dummy /\ cprev' = head
  BY DEF IsChain, ExchangeDummy, Goto, producerVars
<1>2. Dummy \in Nodes /\ (\A i \in 1..Len(c) : c[i] # Dummy) /\ link[Dummy] = Null /\ tail # Dummy
  BY <1>0 DEF ConsumerOK, Nodes
<1>3. /\ Injective(d)
      /\ Len(d) = Len(c) + 1 /\ Len(c) \in Nat \ {0}
      /\ \A i \in 1..Len(c) : d[i] = c[i]
      /\ d[Len(c) + 1] = Dummy
  BY <1>0, <1>2, AppendChain
<1>4. /\ 1 \in 1..Len(c) /\ Len(c) \in 1..(Len(d) - 1) /\ Len(d) = Len(c) + 1
      /\ Len(c) + 1 \in 1..Len(d)
      /\ \A i \in 1..Len(d) : i \in 1..Len(c) \/ i = Len(c) + 1
      /\ \A i \in 1..(Len(d) - 1) : i = Len(c) \/ i \in 1..(Len(c) - 1)
      /\ \A i \in 1..(Len(c) - 1) :
            i \in 1..(Len(d) - 1) /\ i \in 1..Len(c) /\ i + 1 \in 1..Len(c)
  BY <1>3
<1>5. Linked(d)'
  <2>1. d[1] = tail' /\ d[Len(d)] = head'
    BY <1>0, <1>3, <1>4 DEF Linked
  <2>2. link'[head'] = Null
    BY <1>0, <1>2
  <2>3. ASSUME NEW i \in 1..(Len(d) - 1)
        PROVE  link'[d[i]] = d[i + 1] \/ (link'[d[i]] = Null /\ Pending(d[i], d[i + 1])')
    <3>1. CASE i = Len(c)
      <4>1. d[i] = head /\ d[i + 1] = Dummy /\ link[head] = Null
        BY <1>0, <1>3, <1>4, <3>1, Indices DEF Linked
      <4> QED BY <1>0, <4>1 DEF Pending
    <3>2. CASE i \in 1..(Len(c) - 1)
      <4>1. d[i] = c[i] /\ d[i + 1] = c[i + 1]
        BY <1>3, <1>4, <3>2
      <4>2. Pending(c[i], c[i + 1]) => Pending(c[i], c[i + 1])'
        BY <1>0 DEF Pending
      <4> QED BY <1>0, <3>2, <4>1, <4>2 DEF Linked
    <3> QED BY <1>4, <3>1, <3>2
  <2> QED BY <2>1, <2>2, <2>3 DEF Linked
<1>6. Placed(d)'
  <2>1. ASSUME NEW q \in Producers, ppc'[q] = "link" PROVE LinksNext(d, prevHead[q], input[q])'
    <3>1. PICK i \in 1..(Len(c) - 1) :
                 c[i] = prevHead[q] /\ c[i + 1] = input[q] /\ link[c[i]] = Null
      BY <1>0, <2>1, LinkPlaces
    <3>2. d[i] = c[i] /\ d[i + 1] = c[i + 1] /\ i \in 1..(Len(d) - 1)
      BY <1>3, <1>4, <3>1
    <3> QED BY <1>0, <3>1, <3>2 DEF LinksNext
  <2>2. LinksNext(d, cprev, Dummy)'
    <3>1. d[Len(c)] = head /\ link'[head] = Null
      BY <1>0, <1>3, Indices DEF Linked
    <3> QED BY <1>0, <1>3, <1>4, <3>1 DEF LinksNext
  <2>3. \A i \in 1..Len(d) : d[i] \in allocated' \cup {Dummy}
    BY <1>0, <1>3, <1>4 DEF Placed
  <2> QED BY <2>1, <2>2, <2>3 DEF Placed
<1>7. ProducersOK(d)'
  <2>1. ASSUME NEW q \in Producers, ppc'[q] \in {"clear", "exchange"}, NEW i \in 1..Len(d)
        PROVE  d[i] # input'[q]
    <3>1. input[q] \in Items
      BY <1>0, <2>1 DEF ProducersOK, TypeOK
    <3>2. input[q] # Dummy
      BY <3>1, MPSCQueueAssumption
    <3> QED BY <1>0, <1>3, <1>4, <2>1, <3>2 DEF ProducersOK
  <2> QED BY <1>0, <2>1 DEF ProducersOK
<1>8. ConsumerOK(d)'
  <2>1. EnqueueUnfinished' => disturbed
    BY <1>0 DEF EnqueueUnfinished, ConsumerOK
  <2> QED BY <1>0, <1>2, <1>3, <1>4, <2>1 DEF ConsumerOK
<1>9. Injective(d)'
  BY <1>3 DEF Injective
<1> QED BY <1>2, <1>5, <1>6, <1>7, <1>8, <1>9 DEF IsChain

\* The consumer's store of the link to the dummy.
LEMMA LinkDummyChain ==
    ASSUME TypeOK, NEW c, IsChain(c), LinkDummy
    PROVE  IsChain(c)'
<1>0. /\ Injective(c) /\ Linked(c) /\ Placed(c) /\ ProducersOK(c) /\ ConsumerOK(c)
      /\ UNCHANGED <<head, tail, allocated, ppc, input, prevHead, next, cprev, disturbed>>
      /\ cpc = "linkDummy" /\ cpc' = "last" /\ link' = [link EXCEPT ![cprev] = Dummy]
  BY DEF IsChain, LinkDummy, Goto, producerVars
<1>2. PICK k \in 1..(Len(c) - 1) : c[k] = cprev /\ c[k + 1] = Dummy /\ link[cprev] = Null
  BY <1>0 DEF Placed, LinksNext
<1>3. /\ k \in 1..Len(c) /\ k + 1 \in 1..Len(c) /\ k # Len(c) /\ c[k] \in Nodes
      /\ \A i \in 1..(Len(c) - 1) : i \in 1..Len(c) /\ i + 1 \in 1..Len(c)
      /\ Len(c) \in 1..Len(c) /\ 1 \in 1..Len(c)
  BY <1>0, Indices
<1>4. /\ link'[c[k]] = c[k + 1]
      /\ \A n \in Nodes : n # c[k] => link'[n] = link[n]
      /\ \A i \in 1..Len(c) : i # k => link'[c[i]] = link[c[i]]
  <2>1. link'[c[k]] = c[k + 1] /\ \A n \in Nodes : n # c[k] => link'[n] = link[n]
    BY <1>0, <1>2, <1>3 DEF TypeOK
  <2>2. \A i \in 1..Len(c) : i # k => c[i] \in Nodes /\ c[i] # c[k]
    BY <1>0, <1>3, Indices DEF Injective
  <2> QED BY <2>1, <2>2
<1>5. Linked(c)'
  <2>1. link'[head'] = Null
    BY <1>0, <1>3, <1>4 DEF Linked
  <2>2. ASSUME NEW i \in 1..(Len(c) - 1)
        PROVE  link'[c[i]] = c[i + 1] \/ (link'[c[i]] = Null /\ Pending(c[i], c[i + 1])')
    <3>1. CASE i = k
      BY <1>4, <3>1
    <3>2. CASE i # k
      <4>1. link'[c[i]] = link[c[i]] /\ c[i] # cprev
        BY <1>0, <1>2, <1>3, <1>4, <3>2 DEF Injective
      <4>2. Pending(c[i], c[i + 1]) => Pending(c[i], c[i + 1])'
        BY <1>0, <4>1 DEF Pending
      <4> QED BY <1>0, <4>1, <4>2 DEF Linked
    <3> QED BY <3>1, <3>2
  <2> QED BY <1>0, <2>1, <2>2 DEF Linked
<1>6. Placed(c)'
  <2>1. ASSUME NEW q \in Producers, ppc'[q] = "link" PROVE LinksNext(c, prevHead[q], input[q])'
    <3>1. PICK i \in 1..(Len(c) - 1) :
                 c[i] = prevHead[q] /\ c[i + 1] = input[q] /\ link[c[i]] = Null
      BY <1>0, <2>1, LinkPlaces
    <3>2. input[q] \in Items
      BY <1>0, <2>1 DEF ProducersOK, TypeOK
    <3>3. i # k
      BY <1>2, <3>1, <3>2, MPSCQueueAssumption
    <3>4. link'[c[i]] = Null
      BY <1>3, <1>4, <3>1, <3>3
    <3> QED BY <1>0, <3>1, <3>4 DEF LinksNext
  <2> QED BY <1>0, <2>1 DEF Placed
<1>7. ProducersOK(c)'
  <2>1. \A q \in Producers : ppc[q] = "exchange" => link'[input[q]] = Null
    <3> SUFFICES ASSUME NEW q \in Producers, ppc[q] = "exchange" PROVE link'[input[q]] = Null
      OBVIOUS
    <3>1. link[input[q]] = Null /\ input[q] # c[k] /\ input[q] \in Nodes
      BY <1>0, <1>3 DEF ProducersOK, TypeOK, Nodes
    <3> QED BY <1>4, <3>1
  <2> QED BY <1>0, <2>1 DEF ProducersOK
<1>8. ConsumerOK(c)'
  <2>1. EnqueueUnfinished' => disturbed
    BY <1>0 DEF EnqueueUnfinished, ConsumerOK
  <2> QED BY <1>0, <2>1 DEF ConsumerOK
<1>9. Injective(c)'
  BY <1>0 DEF Injective
<1> QED BY <1>5, <1>6, <1>7, <1>8, <1>9 DEF IsChain

-----------------------------------------------------------------------------
(* Every step has a chain before and after it, and is a step of FifoQueue.  *)

\* The elements whose Enqueue() has not returned.
Unfinished == {input[p] : p \in {q \in Producers : ppc[q] = "link"}}

\* With c and d the chains before and after it, a step is one of FifoQueue.
Simulates(c, d) ==
    Contents = WithoutDummy(c) /\ Contents' = WithoutDummy(d) =>
        [Fifo!Next]_(Fifo!fifoVars)

\* Steps inside Enqueue() and Dequeue() that the abstract queue does not show.
LEMMA Stutters ==
    ASSUME NEW c, NEW d, WithoutDummy(d) = WithoutDummy(c), Unfinished' = Unfinished,
           (cpc # "idle")' = (cpc # "idle"), UNCHANGED <<disturbed, result>>
    PROVE  Simulates(c, d)
BY DEF Simulates, Fifo!fifoVars, Unfinished

\* The steps of producers that have not exchanged _head.
LEMMA BeforeExchangeSimulates ==
    ASSUME TypeOK, NEW c, NEW p \in Producers,
           StoreNull(p) \/ \E x \in Items : StartEnqueue(p, x)
    PROVE  Simulates(c, c)
<1>1. UNCHANGED <<cpc, disturbed, result>>
  BY DEF StartEnqueue, StoreNull, consumerVars
<1>2. \A q \in Producers : /\ ppc'[q] = "link" <=> ppc[q] = "link"
                           /\ ppc[q] = "link" => input'[q] = input[q]
  BY DEF StartEnqueue, StoreNull, TypeOK
<1>3. Unfinished' = Unfinished
  BY <1>2 DEF Unfinished
<1> QED BY <1>1, <1>3, Stutters

\* The exchange of _head is where an element enters the queue.
LEMMA ExchangeSimulates ==
    ASSUME TypeOK, NEW c, IsChain(c), NEW p \in Producers, Exchange(p),
           NEW d, d = Append(c, input[p])
    PROVE  Simulates(c, d)
<1>0. PICK x \in Items : x = input[p] /\ (\A i \in 1..Len(c) : c[i] # x) /\ Injective(c)
  BY ExchangeChain DEF IsChain
<1>1. WithoutDummy(d) = Append(WithoutDummy(c), x)
  BY <1>0, StripAppend
<1>2. ~Contains(WithoutDummy(c), x)
  <2>1. WithoutDummy(c) \in Seq(Nodes)
    BY <1>0, StripElements
  <2>2. \A j \in 1..Len(WithoutDummy(c)) : WithoutDummy(c)[j] # x
    BY <1>0, StripElements
  <2> QED BY <2>1, <2>2 DEF Contains
<1>3. /\ disturbed' = (cpc # "idle") /\ UNCHANGED <<cpc, result>>
      /\ ppc[p] = "exchange" /\ ppc'[p] = "link" /\ UNCHANGED input
      /\ \A q \in Producers : q # p => ppc'[q] = ppc[q]
  BY DEF Exchange, TypeOK
<1>4. Unfinished' = Unfinished \cup {x}
  BY <1>0, <1>3 DEF Unfinished
<1>5. ASSUME Contents = WithoutDummy(c), Contents' = WithoutDummy(d) PROVE Fifo!BeginEnqueue(x)
  BY <1>1, <1>2, <1>3, <1>4, <1>5 DEF Fifo!BeginEnqueue, Unfinished, Contains, Fifo!Contains
<1>6. Fifo!BeginEnqueue(x) => Fifo!Next
  BY <1>0 DEF Fifo!Next
<1> QED BY <1>5, <1>6 DEF Simulates

\* The store of the link ends Enqueue().
LEMMA LinkPreviousSimulates ==
    ASSUME TypeOK, NEW c, IsChain(c), NEW p \in Producers, LinkPrevious(p)
    PROVE  Simulates(c, c)
<1>0. PICK x \in Items \cup {Null} : x = input[p]
  BY DEF TypeOK
<1>1. /\ UNCHANGED <<cpc, disturbed, result>>
      /\ ppc[p] = "link" /\ ppc'[p] = "idle"
      /\ \A q \in Producers : q # p => ppc'[q] = ppc[q] /\ input'[q] = input[q]
  BY DEF LinkPrevious, consumerVars, TypeOK
<1>2. x \in Items /\ \A q \in Producers : ppc[q] = "link" /\ input[q] = x => q = p
  BY <1>0, <1>1 DEF IsChain, ProducersOK, TypeOK
<1>3. x \in Unfinished /\ Unfinished' = Unfinished \ {x}
  BY <1>0, <1>1, <1>2 DEF Unfinished
<1>4. ASSUME Contents = WithoutDummy(c), Contents' = WithoutDummy(c) PROVE Fifo!EndEnqueue(x)
  BY <1>1, <1>3, <1>4 DEF Fifo!EndEnqueue, Unfinished
<1>5. Fifo!EndEnqueue(x) => Fifo!Next
  BY <1>2 DEF Fifo!Next
<1> QED BY <1>4, <1>5 DEF Simulates

\* Dequeue() begins.
LEMMA StartDequeueSimulates ==
    ASSUME TypeOK, NEW c, StartDequeue
    PROVE  Simulates(c, c)
<1>1. /\ UNCHANGED <<ppc, input>> /\ cpc = "idle" /\ cpc' = "load" /\ result' = Null
      /\ disturbed' = EnqueueUnfinished
  BY DEF StartDequeue, producerVars
<1>2. Unfinished' = Unfinished /\ (EnqueueUnfinished <=> Unfinished # {})
  BY <1>1 DEF Unfinished, EnqueueUnfinished
<1>3. disturbed' = (Unfinished # {})
  BY <1>1, <1>2 DEF EnqueueUnfinished
<1>4. ASSUME Contents = WithoutDummy(c), Contents' = WithoutDummy(c) PROVE Fifo!BeginDequeue
  BY <1>1, <1>2, <1>3, <1>4 DEF Fifo!BeginDequeue, Unfinished
<1> QED BY <1>4 DEF Simulates, Fifo!Next

\* Dequeue() reports an empty queue: it is empty, or an Enqueue() overlaps.
LEMMA ReturnNullSimulates ==
    ASSUME NEW c, Return(Null), UNCHANGED producerVars, cpc # "idle",
           WithoutDummy(c) = <<>> \/ disturbed
    PROVE  Simulates(c, c)
<1>1. UNCHANGED <<ppc, input>> /\ cpc' = "idle" /\ result' = Null /\ disturbed' = FALSE
  BY DEF Return, producerVars
<1>2. Unfinished' = Unfinished
  BY <1>1 DEF Unfinished
<1>3. ASSUME Contents = WithoutDummy(c), Contents' = WithoutDummy(c) PROVE Fifo!ReportEmpty
  BY <1>1, <1>2, <1>3 DEF Fifo!ReportEmpty, Fifo!Return, Unfinished
<1> QED BY <1>3 DEF Simulates, Fifo!Next

\* Dequeue() delivers the oldest element, whose Enqueue() has returned.
LEMMA TakeSimulates ==
    ASSUME TypeOK, NEW c, IsChain(c), cpc \in {"decide", "last"}, Return(tail),
           link[tail] # Null, tail' = link[tail],
           UNCHANGED <<head, link, producerVars>>, NEW d, d = Tail(c)
    PROVE  Simulates(c, d)
<1>0. Injective(c) /\ Len(c) # 1 /\ c[1] = tail /\ tail # Dummy
  BY TakeChain DEF IsChain
<1>1. /\ WithoutDummy(c) # <<>> /\ Head(WithoutDummy(c)) = tail
      /\ WithoutDummy(d) = Tail(WithoutDummy(c))
  BY <1>0, StripTail
<1>2. /\ UNCHANGED <<ppc, input>> /\ cpc # "idle" /\ cpc' = "idle" /\ result' = tail
      /\ disturbed' = FALSE
  BY DEF Return, producerVars
<1>3. Unfinished' = Unfinished
  BY <1>2 DEF Unfinished
<1>4. tail \notin Unfinished
  <2> SUFFICES ASSUME NEW p \in Producers, ppc[p] = "link" PROVE input[p] # tail
    BY DEF Unfinished
  <2>1. PICK i \in 1..(Len(c) - 1) : c[i + 1] = input[p]
    BY LinkPlaces
  <2>2. i + 1 \in 1..Len(c) /\ 1 \in 1..Len(c) /\ i + 1 # 1
    BY <1>0, Indices
  <2> QED BY <1>0, <2>1, <2>2 DEF Injective
<1>5. ASSUME Contents = WithoutDummy(c), Contents' = WithoutDummy(d) PROVE Fifo!Deliver
  BY <1>1, <1>2, <1>3, <1>4, <1>5 DEF Fifo!Deliver, Fifo!Return, Unfinished
<1> QED BY <1>5 DEF Simulates, Fifo!Next

\* The other steps of Dequeue().
LEMMA LocalSimulates ==
    ASSUME TypeOK, NEW c, NEW d, WithoutDummy(d) = WithoutDummy(c),
           UNCHANGED <<ppc, input, disturbed, result>>, cpc # "idle", cpc' # "idle"
    PROVE  Simulates(c, d)
<1>1. Unfinished' = Unfinished /\ (cpc # "idle")' = (cpc # "idle")
  BY DEF Unfinished
<1> QED BY <1>1, Stutters

-----------------------------------------------------------------------------
(* Putting the steps together.                                              *)

\* A chain exists after every step of a producer, and the abstract queue takes
\* a step or none.
LEMMA ProducerStepChain ==
    ASSUME TypeOK, NEW c \in Seq(Nodes), IsChain(c), NEW p \in Producers,
           ProducerStep(p) \/ \E x \in Items : StartEnqueue(p, x)
    PROVE  \E d \in Seq(Nodes) : IsChain(d)' /\ Simulates(c, d)
<1>1. ASSUME NEW x \in Items, StartEnqueue(p, x) PROVE IsChain(c)' /\ Simulates(c, c)
  BY <1>1, StartEnqueueChain, BeforeExchangeSimulates
<1>2. CASE StoreNull(p)
  BY <1>2, StoreNullChain, BeforeExchangeSimulates
<1>3. CASE Exchange(p)
  <2>1. PICK d : d = Append(c, input[p])
    OBVIOUS
  <2>2. IsChain(d)' /\ Simulates(c, d) /\ input[p] \in Nodes
    BY <1>3, <2>1, ExchangeChain, ExchangeSimulates DEF Nodes
  <2>3. d \in Seq(Nodes)
    BY <2>1, <2>2, AppendProperties
  <2> QED BY <2>2, <2>3
<1>4. CASE LinkPrevious(p)
  BY <1>4, LinkPreviousChain, LinkPreviousSimulates
<1> QED BY <1>1, <1>2, <1>3, <1>4 DEF ProducerStep

\* The same for the consumer.
LEMMA ConsumerStepChain ==
    ASSUME TypeOK, NEW c \in Seq(Nodes), IsChain(c), ConsumerStep
    PROVE  \E d \in Seq(Nodes) : IsChain(d)' /\ Simulates(c, d)
<1>0. Injective(c) /\ Linked(c) /\ ConsumerOK(c) /\ c # <<>>
  BY DEF IsChain, Injective
<1>t. PICK t \in Seq(Nodes) : t = Tail(c)
  BY <1>0, HeadTailProperties
<1>1. CASE StartDequeue
  BY <1>1, StartDequeueChain, StartDequeueSimulates
<1>2. CASE LoadNext \/ ReloadNext
  <2>1. UNCHANGED <<ppc, input, disturbed, result>> /\ cpc # "idle" /\ cpc' # "idle"
    BY <1>2 DEF LoadNext, ReloadNext, Goto, producerVars
  <2> QED BY <1>2, <2>1, LoadChain, LocalSimulates
<1>3. CASE SkipDummy /\ next = Null
  <2>1. /\ Return(Null) /\ UNCHANGED <<head, tail, link, producerVars>> /\ cpc = "skip"
        /\ UNCHANGED producerVars
    BY <1>3 DEF SkipDummy
  <2>2. tail = Dummy /\ (disturbed \/ head = tail)
    BY <1>0, <1>3, <2>1 DEF ConsumerOK
  <2>3. WithoutDummy(c) = <<>> \/ disturbed
    <3>1. CASE head = tail
      <4>1. Len(c) = 1 /\ c[1] = Dummy
        BY <1>0, <2>2, <3>1, SingleChain DEF Linked
      <4> QED BY <1>0, <4>1, StripSingle
    <3> QED BY <2>2, <3>1
  <2> QED BY <2>1, <2>3, ReturnNullChain, ReturnNullSimulates
<1>4. CASE SkipDummy /\ next # Null
  <2>1. IsChain(t)' /\ Len(c) # 1 /\ c[1] = Dummy
    BY <1>4, <1>t, SkipChain
  <2>2. WithoutDummy(t) = WithoutDummy(c)
    BY <1>0, <1>t, <2>1, StripSkip
  <2>3. UNCHANGED <<ppc, input, disturbed, result>> /\ cpc # "idle" /\ cpc' # "idle"
    BY <1>4 DEF SkipDummy, Goto, producerVars
  <2> QED BY <2>1, <2>2, <2>3, LocalSimulates
<1>5. CASE TakeWithSuccessor
  <2>1. /\ cpc = "decide" /\ next # Null /\ tail' = next /\ Return(tail)
        /\ UNCHANGED <<head, link, producerVars>>
    BY <1>5 DEF TakeWithSuccessor, TakeTail
  <2>2. next = link[tail]
    BY <1>0, <2>1 DEF ConsumerOK
  <2> QED BY <1>t, <2>1, <2>2, TakeChain, TakeSimulates
<1>6. CASE LoadHead /\ tail # head
  <2>1. /\ Return(Null) /\ UNCHANGED <<head, tail, link, producerVars>> /\ cpc = "decide"
        /\ next = Null /\ UNCHANGED producerVars
    BY <1>6 DEF LoadHead
  <2>2. disturbed
    BY <1>0, <1>6, <2>1 DEF ConsumerOK
  <2> QED BY <2>1, <2>2, ReturnNullChain, ReturnNullSimulates
<1>7. CASE LoadHead /\ tail = head
  <2>1. UNCHANGED <<ppc, input, disturbed, result>> /\ cpc # "idle" /\ cpc' # "idle"
    BY <1>7 DEF LoadHead, Goto, producerVars
  <2> QED BY <1>7, <2>1, LoadHeadChain, LocalSimulates
<1>8. CASE StoreNullDummy \/ LinkDummy
  <2>1. UNCHANGED <<ppc, input, disturbed, result>> /\ cpc # "idle" /\ cpc' # "idle"
    BY <1>8 DEF StoreNullDummy, LinkDummy, Goto, producerVars
  <2> QED BY <1>8, <2>1, StoreNullDummyChain, LinkDummyChain, LocalSimulates
<1>9. CASE ExchangeDummy
  <2>1. PICK d : d = Append(c, Dummy)
    OBVIOUS
  <2>2. IsChain(d)' /\ \A i \in 1..Len(c) : c[i] # Dummy
    BY <1>9, <2>1, ExchangeDummyChain
  <2>3. WithoutDummy(d) = WithoutDummy(c)
    BY <1>0, <2>1, <2>2, StripAppendDummy
  <2>4. UNCHANGED <<ppc, input, disturbed, result>> /\ cpc # "idle" /\ cpc' # "idle"
    BY <1>9 DEF ExchangeDummy, Goto, producerVars
  <2>5. d \in Seq(Nodes)
    BY <2>1, AppendProperties DEF Nodes
  <2> QED BY <2>2, <2>3, <2>4, <2>5, LocalSimulates
<1>10. CASE LastLoad /\ link[tail] # Null
  <2>1. /\ cpc = "last" /\ tail' = link[tail] /\ Return(tail)
        /\ UNCHANGED <<head, link, producerVars>>
    BY <1>10 DEF LastLoad
  <2> QED BY <1>10, <1>t, <2>1, TakeChain, TakeSimulates
<1>11. CASE LastLoad /\ link[tail] = Null
  <2>1. /\ Return(Null) /\ UNCHANGED <<head, tail, link, producerVars>> /\ cpc = "last"
        /\ UNCHANGED producerVars
    BY <1>11 DEF LastLoad
  <2>2. tail # Dummy /\ c[1] = tail /\ \E i \in 1..Len(c) : c[i] = Dummy
    BY <1>0, <2>1 DEF ConsumerOK, Linked
  <2>3. Len(c) # 1
    BY <2>2
  <2>4. EnqueueUnfinished
    BY <1>11, <2>1, <2>3, SingleChain, TailUnlinked
  <2>5. disturbed
    BY <1>0, <2>1, <2>4 DEF ConsumerOK
  <2> QED BY <2>1, <2>5, ReturnNullChain, ReturnNullSimulates
<1> QED BY <1>1, <1>2, <1>3, <1>4, <1>5, <1>6, <1>7, <1>8, <1>9, <1>10, <1>11
        DEF ConsumerStep

\* The types, which need to know that _tail is not the dummy when an element is
\* delivered.
LEMMA TypeNext ==
    ASSUME TypeOK, NEW c, IsChain(c), Next
    PROVE  TypeOK'
<1>0. Null \notin Nodes /\ Dummy \in Nodes /\ Items \subseteq Nodes
  BY MPSCQueueAssumption DEF Nodes
<1>1. ASSUME NEW p \in Producers, NEW x \in Items, StartEnqueue(p, x) PROVE TypeOK'
  BY <1>1 DEF StartEnqueue, TypeOK, consumerVars
<1>2. ASSUME NEW p \in Producers, StoreNull(p) PROVE TypeOK'
  BY <1>2 DEF StoreNull, ClearLink, TypeOK, consumerVars, Pointers
<1>3. ASSUME NEW p \in Producers, Exchange(p) PROVE TypeOK'
  <2>1. input[p] \in Nodes
    BY <1>0, <1>3 DEF Exchange, TypeOK, IsChain, ProducersOK
  <2> QED BY <1>3, <2>1 DEF Exchange, TypeOK, Pointers
<1>4. ASSUME NEW p \in Producers, LinkPrevious(p) PROVE TypeOK'
  BY <1>0, <1>4 DEF LinkPrevious, TypeOK, consumerVars, Pointers
<1>5. CASE StartDequeue
  BY <1>5 DEF StartDequeue, TypeOK, producerVars, EnqueueUnfinished
<1>6. CASE LoadNext \/ ReloadNext
  BY <1>6 DEF LoadNext, ReloadNext, Goto, TypeOK, producerVars
<1>7. CASE SkipDummy
  BY <1>0, <1>7 DEF SkipDummy, Goto, Return, TypeOK, producerVars, Pointers
<1>8. CASE TakeWithSuccessor
  <2>1. tail \in Items
    BY <1>8 DEF TakeWithSuccessor, IsChain, ConsumerOK, TypeOK, Nodes
  <2> QED BY <1>0, <1>8, <2>1
          DEF TakeWithSuccessor, TakeTail, Return, TypeOK, producerVars, Pointers
<1>9. CASE LoadHead
  BY <1>9 DEF LoadHead, Goto, Return, TypeOK, producerVars, Pointers
<1>10. CASE StoreNullDummy \/ ExchangeDummy \/ LinkDummy
  BY <1>0, <1>10
     DEF StoreNullDummy, ExchangeDummy, LinkDummy, Goto, TypeOK, producerVars, Pointers
<1>11. CASE LastLoad
  <2>1. tail \in Items
    BY <1>11 DEF LastLoad, IsChain, ConsumerOK, TypeOK, Nodes
  <2> QED BY <1>0, <1>11, <2>1 DEF LastLoad, Return, TypeOK, producerVars, Pointers
<1> QED BY <1>1, <1>2, <1>3, <1>4, <1>5, <1>6, <1>7, <1>8, <1>9, <1>10, <1>11
        DEF Next, ProducerStep, ConsumerStep

\* A new queue is the chain of the dummy alone.
LEMMA InitChain ==
    ASSUME Init
    PROVE  TypeOK /\ IsChain(<<Dummy>>) /\ WithoutDummy(<<Dummy>>) = <<>>
<1> DEFINE c == <<Dummy>>
<1>1. TypeOK
  BY DEF Init, TypeOK, Nodes, Pointers
<1>2. Len(c) = 1 /\ c[1] = Dummy /\ c \in Seq(Nodes) /\ c # <<>>
  BY DEF Nodes
<1> HIDE DEF c
<1>3. \A i \in 1..Len(c) : i = 1
  BY <1>2
<1>4. Injective(c)
  BY <1>2, <1>3 DEF Injective
<1>5. Linked(c)
  <2>1. ~\E i \in 1..(Len(c) - 1) : TRUE
    BY <1>2
  <2>2. link[Dummy] = Null
    BY DEF Init, Nodes
  <2> QED BY <1>2, <2>1, <2>2 DEF Init, Linked
<1>6. Placed(c) /\ ProducersOK(c) /\ ConsumerOK(c)
  BY <1>2, <1>3 DEF Init, Placed, ProducersOK, ConsumerOK
<1>7. WithoutDummy(c) = <<>>
  BY <1>2, <1>4, StripSingle
<1> QED BY <1>1, <1>4, <1>5, <1>6, <1>7 DEF IsChain, c

\* Steps that change no variable.
LEMMA StutterStep ==
    ASSUME TypeOK, NEW c, IsChain(c), UNCHANGED vars
    PROVE  TypeOK' /\ IsChain(c)' /\ Simulates(c, c)
<1>1. UNCHANGED <<head, tail, link, allocated, ppc, input, prevHead, cpc, next, cprev, result, disturbed>>
  BY DEF vars, producerVars, consumerVars
<1>2. TypeOK'
  BY <1>1 DEF TypeOK
<1>3. Injective(c)' /\ Linked(c)'
  BY <1>1 DEF IsChain, Injective, Linked, Pending
<1>4. Placed(c)' /\ ProducersOK(c)'
  BY <1>1 DEF IsChain, Placed, LinksNext, ProducersOK
<1>5. ConsumerOK(c)'
  BY <1>1 DEF IsChain, ConsumerOK, EnqueueUnfinished
<1>6. Unfinished' = Unfinished /\ (cpc # "idle")' = (cpc # "idle")
  BY <1>1 DEF Unfinished
<1> QED BY <1>1, <1>2, <1>3, <1>4, <1>5, <1>6, Stutters DEF IsChain

\* Whatever a step of the system is, the types and a chain are there after it.
LEMMA StepChain ==
    ASSUME TypeOK, NEW c \in Seq(Nodes), IsChain(c), [Next]_vars
    PROVE  TypeOK' /\ \E d \in Seq(Nodes) : IsChain(d)' /\ Simulates(c, d)
<1>1. CASE UNCHANGED vars
  BY <1>1, StutterStep
<1>2. CASE Next
  <2>1. TypeOK'
    BY <1>2, TypeNext
  <2>2. ASSUME NEW p \in Producers, NEW x \in Items, StartEnqueue(p, x)
        PROVE  \E d \in Seq(Nodes) : IsChain(d)' /\ Simulates(c, d)
    BY <2>2, ProducerStepChain
  <2>3. ASSUME NEW p \in Producers, ProducerStep(p)
        PROVE  \E d \in Seq(Nodes) : IsChain(d)' /\ Simulates(c, d)
    BY <2>3, ProducerStepChain
  <2>4. ASSUME ConsumerStep
        PROVE  \E d \in Seq(Nodes) : IsChain(d)' /\ Simulates(c, d)
    BY <2>4, ConsumerStepChain
  <2> QED BY <1>2, <2>1, <2>2, <2>3, <2>4 DEF Next
<1> QED BY <1>1, <1>2

\* The inductive invariant holds: at every memory access, the nodes from _tail
\* to _head are one chain, whose missing links somebody is about to store, and
\* what Dequeue() has read is true or excused by an overlapping Enqueue().
THEOREM QueueConsistent == Spec => []IndInv
<1>1. Init => IndInv
  BY InitChain DEF IndInv, IsChain, Injective
<1>2. IndInv /\ [Next]_vars => IndInv'
  BY StepChain DEF IndInv
<1> QED BY <1>1, <1>2, PTL DEF Spec

\* Every pointer stays a pointer to a node or null, and Dequeue() never hands
\* the dummy out.
THEOREM QueueTypeOK == Spec => []TypeOK
<1>1. IndInv => TypeOK
  BY DEF IndInv
<1> QED BY <1>1, QueueConsistent, PTL

\* A producer's last store (prevHead->*IntrusiveLink), the consumer's own and
\* its reads of _tail go to elements that are still allocated.
THEOREM WritesBeforeDelete == Spec => []NoWriteAfterDelete
<1>1. IndInv => NoWriteAfterDelete
  <2> SUFFICES ASSUME TypeOK, NEW c \in Seq(Nodes), IsChain(c) PROVE NoWriteAfterDelete
    BY DEF IndInv
  <2>1. Injective(c) /\ Linked(c) /\ Placed(c)
    BY DEF IsChain
  <2>2. \A i \in 1..(Len(c) - 1) : i \in 1..Len(c)
    BY <2>1, Indices
  <2>3. 1 \in 1..Len(c)
    BY <2>1, Indices
  <2>4. \A n, m : LinksNext(c, n, m) => n \in allocated \cup {Dummy}
    BY <2>1, <2>2 DEF LinksNext, Placed
  <2> QED BY <2>1, <2>3, <2>4 DEF NoWriteAfterDelete, Placed, Linked
<1> QED BY <1>1, QueueConsistent, PTL

\* MPSCQueueIntrusive is a FIFO queue: with the chain without the dummy as its
\* contents, every memory access is a step of FifoQueue or none.
THEOREM QueueIsFifo == Spec => ImplementsFifo
<1>1. Init => Fifo!Init
  <2> SUFFICES ASSUME Init PROVE Fifo!Init
    OBVIOUS
  <2>1. TypeOK /\ IsChain(<<Dummy>>) /\ WithoutDummy(<<Dummy>>) = <<>> /\ <<Dummy>> \in Seq(Nodes)
    BY InitChain DEF IsChain, Injective
  <2>2. IndInv
    BY <2>1 DEF IndInv
  <2>3. Contents = <<>>
    BY <2>1, <2>2, ContentsIs DEF ContentsFact
  <2> QED BY <2>3 DEF Init, Fifo!Init
<1>2. IndInv /\ ContentsFact /\ ContentsFact' /\ [Next]_vars => [Fifo!Next]_(Fifo!fifoVars)
  <2> SUFFICES ASSUME IndInv, ContentsFact, ContentsFact', [Next]_vars
               PROVE  [Fifo!Next]_(Fifo!fifoVars)
    OBVIOUS
  <2>1. PICK c \in Seq(Nodes) : IsChain(c)
    BY DEF IndInv
  <2>2. PICK d \in Seq(Nodes) : IsChain(d)' /\ Simulates(c, d)
    BY <2>1, StepChain DEF IndInv
  <2>3. Contents = WithoutDummy(c)
    BY <2>1 DEF ContentsFact
  <2>4. Contents' = WithoutDummy(d)
    BY <2>2 DEF ContentsFact
  <2> QED BY <2>2, <2>3, <2>4 DEF Simulates
<1> QED BY <1>1, <1>2, ContentsIs, QueueConsistent, PTL DEF Spec, ImplementsFifo, Fifo!Spec
=============================================================================
