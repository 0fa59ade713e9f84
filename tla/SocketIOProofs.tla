--------------------------- MODULE SocketIOProofs ---------------------------
(***************************************************************************)
(* Proofs about SocketIO, for any packets and sizes, any number of senders  *)
(* and any size of the send buffer: the byte stream, the single OnClose()   *)
(* and the marked socket that still has something to write.                 *)
(*                                                                         *)
(* The stream needs induction over data: FlattenSeq is a recursive          *)
(* function.  SetInduction gets it from the well-foundedness of < on Nat,   *)
(* and the lemmas on Joined say what FlattenSeq does with one element more  *)
(* at either end.                                                           *)
(***************************************************************************)
EXTENDS SocketIO, SequenceTheorems, WellFoundedInduction, TLAPS

-----------------------------------------------------------------------------
(* Induction over the natural numbers, for a set instead of a predicate.    *)

Less == {p \in Nat \X Nat : p[1] < p[2]}

\* A set with 0 and, with every number, its successor contains them all.
LEMMA SetInduction ==
    ASSUME NEW S, 0 \in S, \A n \in Nat : n \in S => n + 1 \in S
    PROVE  Nat \subseteq S
<1> DEFINE T == Nat \ S
<1> SUFFICES ASSUME T # {} PROVE FALSE
  OBVIOUS
<1>1. IsWellFoundedOn(Less, Nat)
  <2>1. IsWellFoundedOn(OpToRel(<, Nat), Nat)
    BY NatLessThanWellFounded
  <2>2. Less = OpToRel(<, Nat)
    BY DEF Less, OpToRel
  <2> QED BY <2>1, <2>2
<1>2. PICK x \in T : \A y \in T : <<y, x>> \notin Less
  BY <1>1, WFMin
<1>3. x \in Nat /\ x # 0 /\ x - 1 \in Nat /\ x - 1 \in S
  <2>1. x \in Nat /\ x # 0 /\ x - 1 \in Nat
    BY <1>2
  <2>2. <<x - 1, x>> \in Less
    BY <2>1 DEF Less
  <2> QED BY <1>2, <2>1, <2>2
<1>4. (x - 1) + 1 = x
  BY <1>3
<1> QED BY <1>2, <1>3, <1>4
-----------------------------------------------------------------------------
(* FlattenSeq.                                                              *)

\* The recursive function of FlattenSeq: the concatenation of the first i.
Joins(f, q, n) == f = [i \in 1..n |-> IF i = 1 THEN q[i] ELSE f[i - 1] \o q[i]]
Joined(q) == CHOOSE f : Joins(f, q, Len(q))

\* FlattenSeq is the last of the partial concatenations.
LEMMA FlattenDef ==
    ASSUME NEW q
    PROVE  FlattenSeq(q) = IF Len(q) = 0 THEN q ELSE Joined(q)[Len(q)]
BY DEF FlattenSeq, Joined, Joins

\* A function that satisfies the recursion satisfies it at every index.
LEMMA JoinsStep ==
    ASSUME NEW f, NEW q, NEW n, Joins(f, q, n), NEW i \in 1..n
    PROVE  f[i] = IF i = 1 THEN q[i] ELSE f[i - 1] \o q[i]
<1> DEFINE g == [j \in 1..n |-> IF j = 1 THEN q[j] ELSE f[j - 1] \o q[j]]
<1>1. f = g
  BY Zenon DEF Joins
<1>2. g[i] = IF i = 1 THEN q[i] ELSE f[i - 1] \o q[i]
  OBVIOUS
<1> HIDE DEF g
<1>3. f[i] = g[i]
  BY <1>1
<1> QED BY <1>2, <1>3

\* The recursion has a solution, so CHOOSE finds one.
LEMMA JoinsExist ==
    ASSUME NEW q, Len(q) \in Nat
    PROVE  Joins(Joined(q), q, Len(q))
<1> DEFINE S == {n \in Nat : \E f : Joins(f, q, n)}
<1>1. 0 \in S
  <2>1. Joins([i \in 1..0 |-> q[i]], q, 0)
    BY DEF Joins
  <2> QED BY <2>1
<1>2. ASSUME NEW n \in Nat, n \in S PROVE n + 1 \in S
  <2>1. PICK f : Joins(f, q, n)
    BY <1>2
  <2> DEFINE g == [i \in 1..(n + 1) |->
                     IF i <= n THEN f[i] ELSE IF i = 1 THEN q[i] ELSE f[i - 1] \o q[i]]
  <2>2. ASSUME NEW i \in 1..(n + 1)
        PROVE  g[i] = IF i = 1 THEN q[i] ELSE g[i - 1] \o q[i]
    <3>1. i # 1 => i - 1 \in 1..n /\ g[i - 1] = f[i - 1]
      OBVIOUS
    <3>2. i <= n => f[i] = IF i = 1 THEN q[i] ELSE f[i - 1] \o q[i]
      BY <2>1, JoinsStep
    <3> QED BY <3>1, <3>2
  <2>3. Joins(g, q, n + 1)
    BY <2>2 DEF Joins
  <2> QED BY <2>3
<1> HIDE DEF S
<1>3. Nat \subseteq S
  BY <1>1, <1>2, SetInduction
<1>4. \E f : Joins(f, q, Len(q))
  BY <1>3 DEF S
<1> QED BY <1>4 DEF Joined

\* The first partial concatenation is the first element.
LEMMA JoinedFirst ==
    ASSUME NEW q, Len(q) \in Nat, Len(q) > 0
    PROVE  Joined(q)[1] = q[1]
<1>1. 1 \in 1..Len(q)
  OBVIOUS
<1> QED BY <1>1, JoinsExist, JoinsStep

\* Every further one adds an element at its end.
LEMMA JoinedNext ==
    ASSUME NEW q, Len(q) \in Nat, NEW i \in Nat \ {0}, NEW j, j = i + 1, j \in 1..Len(q)
    PROVE  Joined(q)[j] = Joined(q)[i] \o q[j]
<1>1. Joined(q)[j] = IF j = 1 THEN q[j] ELSE Joined(q)[j - 1] \o q[j]
  BY JoinsExist, JoinsStep
<1>2. j # 1 /\ j - 1 = i
  OBVIOUS
<1> QED BY <1>1, <1>2

\* The partial concatenations are sequences.
LEMMA JoinedType ==
    ASSUME NEW S, NEW q \in Seq(Seq(S))
    PROVE  \A i \in 1..Len(q) : Joined(q)[i] \in Seq(S)
<1> DEFINE T == {n \in Nat : n + 1 \in 1..Len(q) => Joined(q)[n + 1] \in Seq(S)}
<1>0. Len(q) \in Nat /\ \A i \in 1..Len(q) : q[i] \in Seq(S)
  OBVIOUS
<1>1. 0 \in T
  <2>1. Len(q) > 0 => Joined(q)[1] = q[1] /\ q[1] \in Seq(S)
    BY <1>0, JoinedFirst, JoinedNext
  <2>2. 0 + 1 = 1 /\ 0 \in Nat /\ (1 \in 1..Len(q) => Len(q) > 0)
    BY <1>0
  <2> QED BY <2>1, <2>2
<1>2. ASSUME NEW n \in Nat, n \in T PROVE n + 1 \in T
  <2> SUFFICES ASSUME n + 2 \in 1..Len(q) PROVE Joined(q)[n + 2] \in Seq(S)
    OBVIOUS
  <2>1. Joined(q)[n + 1] \in Seq(S) /\ q[n + 2] \in Seq(S)
    BY <1>0, <1>2
  <2>2. Joined(q)[n + 2] = Joined(q)[n + 1] \o q[n + 2]
    <3>1. (n + 1) + 1 = n + 2 /\ n + 1 # 0 /\ n + 1 \in Nat
      OBVIOUS
    <3> QED BY ZenonT(40), <1>0, <3>1, JoinedFirst, JoinedNext
  <2> QED BY <2>1, <2>2, ConcatProperties
<1> HIDE DEF T
<1>3. Nat \subseteq T
  BY <1>1, <1>2, SetInduction
<1>4. ASSUME NEW i \in 1..Len(q) PROVE Joined(q)[i] \in Seq(S)
  <2>1. i - 1 \in T /\ (i - 1) + 1 = i
    BY <1>0, <1>3
  <2> QED BY <2>1 DEF T
<1> QED BY <1>4

\* An element appended leaves the earlier partial concatenations alone.
LEMMA JoinedAppend ==
    ASSUME NEW S, NEW q \in Seq(Seq(S)), NEW x \in Seq(S)
    PROVE  \A i \in 1..Len(q) : Joined(Append(q, x))[i] = Joined(q)[i]
<1> DEFINE a == Append(q, x)
           T == {n \in Nat : n + 1 \in 1..Len(q) => Joined(a)[n + 1] = Joined(q)[n + 1]}
<1>0. /\ Len(q) \in Nat /\ Len(a) = Len(q) + 1
      /\ \A i \in 1..Len(q) : a[i] = q[i]
  BY AppendProperties
<1>1. 0 \in T
  <2> HIDE DEF a
  <2> SUFFICES ASSUME 1 \in 1..Len(q) PROVE Joined(a)[1] = Joined(q)[1]
    OBVIOUS
  <2>0. Len(q) > 0 /\ Len(a) > 0 /\ Len(a) \in Nat
    BY <1>0
  <2>1. Joined(a)[1] = a[1] /\ Joined(q)[1] = q[1]
    BY <1>0, <2>0, JoinedFirst, JoinedNext
  <2> QED BY <1>0, <2>1
<1>2. ASSUME NEW n \in Nat, n \in T PROVE n + 1 \in T
  <2> HIDE DEF a
  <2> SUFFICES ASSUME n + 2 \in 1..Len(q) PROVE Joined(a)[n + 2] = Joined(q)[n + 2]
    OBVIOUS
  <2>1. /\ n + 2 = (n + 1) + 1 /\ n + 1 \in Nat \ {0} /\ n + 2 \in 1..Len(q)
        /\ n + 2 \in 1..Len(a) /\ n + 1 \in 1..Len(q) /\ Len(a) \in Nat
    BY <1>0
  <2>2. /\ Joined(a)[n + 2] = Joined(a)[n + 1] \o a[n + 2]
        /\ Joined(q)[n + 2] = Joined(q)[n + 1] \o q[n + 2]
    <3>1. Joined(a)[n + 2] = Joined(a)[n + 1] \o a[n + 2]
      BY <2>1, JoinedNext
    <3>2. Joined(q)[n + 2] = Joined(q)[n + 1] \o q[n + 2]
      BY <1>0, <2>1, JoinedNext, Zenon
    <3> QED BY <3>1, <3>2
  <2>3. Joined(a)[n + 1] = Joined(q)[n + 1] /\ a[n + 2] = q[n + 2]
    BY <1>0, <1>2, <2>1
  <2> QED BY <2>2, <2>3
<1> HIDE DEF T
<1>3. Nat \subseteq T
  BY <1>1, <1>2, SetInduction
<1>4. ASSUME NEW i \in 1..Len(q) PROVE Joined(a)[i] = Joined(q)[i]
  <2>1. i - 1 \in T /\ (i - 1) + 1 = i
    BY <1>0, <1>3
  <2> QED BY <2>1 DEF T
<1> QED BY <1>4

\* Without its first element, every partial concatenation lacks that element.
LEMMA JoinedTail ==
    ASSUME NEW S, NEW q \in Seq(Seq(S)), q # <<>>
    PROVE  \A i \in 1..Len(Tail(q)) : Joined(q)[i + 1] = Head(q) \o Joined(Tail(q))[i]
<1> DEFINE t == Tail(q)
           h == Head(q)
           T == {n \in Nat : n + 1 \in 1..Len(t) => Joined(q)[n + 2] = h \o Joined(t)[n + 1]}
<1>0. /\ Len(q) \in Nat /\ Len(t) = Len(q) - 1 /\ t \in Seq(Seq(S))
      /\ \A i \in 1..Len(t) : t[i] = q[i + 1]
      /\ h = q[1] /\ h \in Seq(S)
  BY HeadTailProperties
<1> HIDE DEF t, h
<1>1. 0 \in T
  <2> SUFFICES ASSUME 1 \in 1..Len(t) PROVE Joined(q)[2] = h \o Joined(t)[1]
    OBVIOUS
  <2>1. Joined(q)[2] = Joined(q)[1] \o q[2] /\ Joined(q)[1] = q[1] /\ Joined(t)[1] = t[1]
    <3>1. Len(q) \in Nat /\ Len(t) \in Nat /\ Len(q) > 0 /\ Len(t) > 0 /\ 2 \in 1..Len(q) /\ 2 = 1 + 1 /\ 1 \in Nat \ {0}
      BY <1>0
    <3>2. Joined(q)[2] = Joined(q)[1] \o q[2]
      BY <3>1, JoinedNext, Zenon
    <3>3. Joined(q)[1] = q[1]
      BY <3>1, JoinedFirst
    <3>4. Joined(t)[1] = t[1]
      BY <3>1, JoinedFirst
    <3> QED BY <3>2, <3>3, <3>4
  <2>2. t[1] = q[2]
    BY <1>0
  <2> QED BY <1>0, <2>1, <2>2
<1>2. ASSUME NEW n \in Nat, n \in T PROVE n + 1 \in T
  <2> SUFFICES ASSUME n + 2 \in 1..Len(t) PROVE Joined(q)[n + 3] = h \o Joined(t)[n + 2]
    OBVIOUS
  <2>1. /\ n + 2 = (n + 1) + 1 /\ n + 3 = (n + 2) + 1 /\ n + 1 \in Nat \ {0} /\ n + 2 \in Nat \ {0}
        /\ n + 1 \in Nat /\ n + 2 \in Nat
        /\ n + 3 \in 1..Len(q) /\ n + 1 \in 1..Len(t) /\ t[n + 2] = q[n + 3]
        /\ Len(t) \in Nat
    BY SMTT(30), <1>0
  <2>2. /\ Joined(q)[n + 3] = Joined(q)[n + 2] \o q[n + 3]
        /\ Joined(t)[n + 2] = Joined(t)[n + 1] \o t[n + 2]
    <3>1. Joined(q)[n + 3] = Joined(q)[n + 2] \o q[n + 3]
      BY <1>0, <2>1, JoinedNext, Zenon
    <3>2. Joined(t)[n + 2] = Joined(t)[n + 1] \o t[n + 2]
      BY <2>1, JoinedNext
    <3> QED BY <3>1, <3>2
  <2>3. Joined(q)[n + 2] = h \o Joined(t)[n + 1]
    BY <1>2, <2>1
  <2>4. Joined(t)[n + 1] \in Seq(S) /\ t[n + 2] \in Seq(S)
    BY <1>0, <2>1, JoinedType
  <2>5. (h \o Joined(t)[n + 1]) \o t[n + 2] = h \o (Joined(t)[n + 1] \o t[n + 2])
    <3>1. PICK u \in Seq(S) : u = Joined(t)[n + 1]
      BY <2>4
    <3>2. PICK v \in Seq(S) : v = t[n + 2]
      BY <2>4
    <3>3. PICK w \in Seq(S) : w = h
      BY <1>0
    <3>4. (w \o u) \o v = w \o (u \o v)
      BY SMTT(30)
    <3> QED BY <3>1, <3>2, <3>3, <3>4
  <2> QED BY <2>1, <2>2, <2>3, <2>5
<1> HIDE DEF T
<1>3. Nat \subseteq T
  BY <1>1, <1>2, SetInduction
<1>4. ASSUME NEW i \in 1..Len(t) PROVE Joined(q)[i + 1] = h \o Joined(t)[i]
  <2>1. i - 1 \in T /\ (i - 1) + 1 = i /\ (i - 1) + 2 = i + 1
    BY <1>0, <1>3
  <2> QED BY <2>1 DEF T
<1> QED BY <1>4 DEF t, h

\* FlattenSeq of sequences is a sequence.
LEMMA FlattenType ==
    ASSUME NEW S, NEW q \in Seq(Seq(S))
    PROVE  FlattenSeq(q) \in Seq(S)
<1>1. CASE Len(q) = 0
  <2>1. q = <<>> /\ <<>> \in Seq(S)
    BY <1>1, EmptySeq
  <2> QED BY <1>1, <2>1, FlattenDef
<1>2. CASE Len(q) # 0
  <2>1. Len(q) \in 1..Len(q)
    BY <1>2
  <2> QED BY <1>2, <2>1, FlattenDef, JoinedType
<1> QED BY <1>1, <1>2

\* An element appended is an element concatenated.
LEMMA FlattenAppend ==
    ASSUME NEW S, NEW q \in Seq(Seq(S)), NEW x \in Seq(S)
    PROVE  FlattenSeq(Append(q, x)) = FlattenSeq(q) \o x
<1> DEFINE a == Append(q, x)
           n == Len(q)
<1>0. n \in Nat /\ Len(a) = n + 1 /\ a[n + 1] = x
  BY AppendProperties
<1>1. FlattenSeq(a) = Joined(a)[n + 1]
  <2> HIDE DEF a
  <2> QED BY <1>0, FlattenDef
<1>2. Joined(a)[n + 1] = IF n = 0 THEN x ELSE Joined(a)[n] \o x
  <2> HIDE DEF a, n
  <2>1. Len(a) \in Nat /\ Len(a) > 0 /\ n + 1 \in 1..Len(a)
    BY <1>0
  <2>2. n # 0 => Joined(a)[n + 1] = Joined(a)[n] \o a[n + 1]
    BY ZenonT(40), <1>0, <2>1, JoinedFirst, JoinedNext
  <2>3. n = 0 => Joined(a)[n + 1] = a[n + 1]
    BY <1>0, <2>1, JoinedFirst, JoinedNext
  <2> QED BY <1>0, <2>2, <2>3
<1>3. CASE n = 0
  <2>1. FlattenSeq(q) = <<>>
    BY <1>3, FlattenDef
  <2> QED BY <1>1, <1>2, <1>3, <2>1, ConcatEmptySeq
<1>4. CASE n # 0
  <2>1. FlattenSeq(q) = Joined(q)[n] /\ n \in 1..n
    BY <1>0, <1>4, FlattenDef
  <2>2. Joined(a)[n] = Joined(q)[n]
    BY <2>1, JoinedAppend
  <2> QED BY <1>1, <1>2, <1>4, <2>1, <2>2
<1> QED BY <1>3, <1>4

\* The first element, then the rest.
LEMMA FlattenHead ==
    ASSUME NEW S, NEW q \in Seq(Seq(S)), q # <<>>
    PROVE  FlattenSeq(q) = Head(q) \o FlattenSeq(Tail(q))
<1> DEFINE t == Tail(q)
           h == Head(q)
           n == Len(t)
<1>0. /\ n \in Nat /\ Len(q) = n + 1 /\ h = q[1] /\ h \in Seq(S)
      /\ t \in Seq(Seq(S))
  BY HeadTailProperties
<1> SUFFICES FlattenSeq(q) = h \o FlattenSeq(t)
  OBVIOUS
<1> HIDE DEF t, h
<1>1. FlattenSeq(q) = Joined(q)[n + 1]
  BY <1>0, FlattenDef
<1>2. CASE n = 0
  <2>1. t = <<>> /\ FlattenSeq(t) = <<>>
    BY <1>0, <1>2, FlattenDef
  <2>2. Joined(q)[1] = q[1]
    <3>1. Len(q) \in Nat /\ Len(q) > 0
      BY <1>0
    <3> QED BY <3>1, JoinedFirst, JoinedNext
  <2>3. FlattenSeq(q) = h
    BY <1>0, <1>1, <1>2, <2>2
  <2> QED BY <1>0, <2>1, <2>3, ConcatEmptySeq
<1>3. CASE n # 0
  <2>1. n \in 1..Len(t) /\ FlattenSeq(t) = Joined(t)[n]
    BY <1>0, <1>3, FlattenDef
  <2>2. Joined(q)[n + 1] = h \o Joined(t)[n]
    BY <2>1, JoinedTail DEF t, h
  <2> QED BY <1>1, <2>1, <2>2
<1> QED BY <1>2, <1>3
-----------------------------------------------------------------------------
(* The bytes of the packets.                                                *)

BytesOf(packets) == [i \in DOMAIN packets |-> Bytes(packets[i])]

\* A packet's bytes are as many as its size.
LEMMA BytesType ==
    ASSUME NEW p \in Packets
    PROVE  Bytes(p) \in BufferType /\ Len(Bytes(p)) = Size[p] /\ Size[p] \in Nat \ {0}
<1>1. Size[p] \in Nat \ {0}
  BY SocketIOAssumption
<1>2. \A i \in 1..Size[p] : <<p, i>> \in Packets \X Nat
  BY <1>1
<1> QED BY SMTT(30), <1>1, <1>2, IsASeq DEF Bytes, BufferType

\* The packets' bytes are sequences.
LEMMA BytesOfType ==
    ASSUME NEW ps \in Seq(Packets)
    PROVE  /\ BytesOf(ps) \in Seq(BufferType) /\ Len(BytesOf(ps)) = Len(ps)
           /\ \A i \in 1..Len(ps) : BytesOf(ps)[i] = Bytes(ps[i])
<1>1. DOMAIN ps = 1..Len(ps) /\ Len(ps) \in Nat /\ \A i \in 1..Len(ps) : ps[i] \in Packets
  OBVIOUS
<1>2. \A i \in 1..Len(ps) : Bytes(ps[i]) \in BufferType
  BY <1>1, BytesType
<1> QED BY <1>1, <1>2, IsASeq DEF BytesOf

\* The bytes of one packet more.
LEMMA BytesOfAppend ==
    ASSUME NEW ps \in Seq(Packets), NEW p \in Packets
    PROVE  BytesOf(Append(ps, p)) = Append(BytesOf(ps), Bytes(p))
<1> DEFINE l == BytesOf(Append(ps, p))
           r == Append(BytesOf(ps), Bytes(p))
<1>1. /\ Append(ps, p) \in Seq(Packets) /\ Len(Append(ps, p)) = Len(ps) + 1
      /\ Append(ps, p)[Len(ps) + 1] = p
      /\ \A i \in 1..Len(ps) : Append(ps, p)[i] = ps[i]
  BY AppendProperties
<1>2. /\ l \in Seq(BufferType) /\ Len(l) = Len(ps) + 1
      /\ \A i \in 1..(Len(ps) + 1) : l[i] = Bytes(Append(ps, p)[i])
  BY <1>1, BytesOfType
<1>3. /\ BytesOf(ps) \in Seq(BufferType) /\ Len(BytesOf(ps)) = Len(ps) /\ Bytes(p) \in BufferType
      /\ \A i \in 1..Len(ps) : BytesOf(ps)[i] = Bytes(ps[i])
  BY BytesOfType, BytesType
<1>4. /\ r \in Seq(BufferType) /\ Len(r) = Len(ps) + 1 /\ r[Len(ps) + 1] = Bytes(p)
      /\ \A i \in 1..Len(ps) : r[i] = BytesOf(ps)[i]
  BY <1>3, AppendProperties
<1>5. Len(ps) \in Nat
  OBVIOUS
<1> HIDE DEF l, r
<1>6. ASSUME NEW i \in 1..(Len(ps) + 1) PROVE l[i] = r[i]
  <2>1. CASE i = Len(ps) + 1
    BY <2>1, <1>1, <1>2, <1>4
  <2>2. CASE i \in 1..Len(ps)
    BY <2>2, <1>1, <1>2, <1>3, <1>4
  <2> QED BY <1>5, <2>1, <2>2
<1>7. l = r
  BY <1>2, <1>4, <1>6, SeqEqual
<1> QED BY <1>7 DEF l, r

\* The bytes of the packets after the first.
LEMMA BytesOfTail ==
    ASSUME NEW ps \in Seq(Packets), ps # <<>>
    PROVE  /\ BytesOf(ps) # <<>> /\ Head(BytesOf(ps)) = Bytes(Head(ps))
           /\ Tail(BytesOf(ps)) = BytesOf(Tail(ps))
<1> DEFINE l == Tail(BytesOf(ps))
           r == BytesOf(Tail(ps))
<1>1. /\ Len(ps) \in Nat /\ Len(ps) > 0 /\ Head(ps) = ps[1] /\ Tail(ps) \in Seq(Packets)
      /\ Len(Tail(ps)) = Len(ps) - 1 /\ \A i \in 1..Len(Tail(ps)) : Tail(ps)[i] = ps[i + 1]
  BY HeadTailProperties
<1>2. /\ BytesOf(ps) \in Seq(BufferType) /\ Len(BytesOf(ps)) = Len(ps)
      /\ \A i \in 1..Len(ps) : BytesOf(ps)[i] = Bytes(ps[i])
  BY BytesOfType
<1>3. BytesOf(ps) # <<>>
  BY <1>1, <1>2
<1>4. /\ Head(BytesOf(ps)) = BytesOf(ps)[1] /\ l \in Seq(BufferType)
      /\ Len(l) = Len(ps) - 1 /\ \A i \in 1..(Len(ps) - 1) : l[i] = BytesOf(ps)[i + 1]
  BY <1>2, <1>3, HeadTailProperties
<1>5. /\ r \in Seq(BufferType) /\ Len(r) = Len(ps) - 1
      /\ \A i \in 1..(Len(ps) - 1) : r[i] = Bytes(Tail(ps)[i])
  BY <1>1, BytesOfType
<1> HIDE DEF l, r
<1>6. ASSUME NEW i \in 1..(Len(ps) - 1) PROVE l[i] = r[i]
  <2>1. i + 1 \in 1..Len(ps) /\ i \in 1..Len(Tail(ps))
    BY <1>1
  <2> QED BY <1>1, <1>2, <1>4, <1>5, <2>1
<1>7. l = r
  BY <1>4, <1>5, <1>6, SeqEqual
<1>8. Head(BytesOf(ps)) = Bytes(Head(ps))
  BY <1>1, <1>2, <1>4
<1> QED BY <1>3, <1>7, <1>8 DEF l, r

\* All bytes of a sequence of packets are a byte sequence.
LEMMA AllBytesType ==
    ASSUME NEW ps \in Seq(Packets)
    PROVE  AllBytes(ps) \in BufferType
<1>1. AllBytes(ps) = FlattenSeq(BytesOf(ps))
  BY DEF AllBytes, BytesOf
<1> QED BY <1>1, BytesOfType, FlattenType DEF BufferType

\* A packet more at the end of the queue is its bytes at the end.
LEMMA AllBytesAppend ==
    ASSUME NEW ps \in Seq(Packets), NEW p \in Packets
    PROVE  AllBytes(Append(ps, p)) = AllBytes(ps) \o Bytes(p)
<1>1. /\ AllBytes(ps) = FlattenSeq(BytesOf(ps))
      /\ AllBytes(Append(ps, p)) = FlattenSeq(BytesOf(Append(ps, p)))
  BY DEF AllBytes, BytesOf
<1>2. BytesOf(ps) \in Seq(Seq(Packets \X Nat)) /\ Bytes(p) \in Seq(Packets \X Nat)
  BY BytesOfType, BytesType DEF BufferType
<1> QED BY <1>1, <1>2, BytesOfAppend, FlattenAppend

\* The first packet's bytes are the first.
LEMMA AllBytesHead ==
    ASSUME NEW ps \in Seq(Packets), ps # <<>>
    PROVE  AllBytes(ps) = Bytes(Head(ps)) \o AllBytes(Tail(ps))
<1>1. /\ AllBytes(ps) = FlattenSeq(BytesOf(ps))
      /\ AllBytes(Tail(ps)) = FlattenSeq(BytesOf(Tail(ps)))
  BY DEF AllBytes, BytesOf
<1>2. BytesOf(ps) \in Seq(Seq(Packets \X Nat))
  BY BytesOfType DEF BufferType
<1> QED BY ZenonT(40), <1>1, <1>2, BytesOfTail, FlattenHead

-----------------------------------------------------------------------------
(* What was enqueued is on the wire, in _writeQueue, in the send buffer or  *)
(* in _bufferQueue, in that order.                                          *)

Carries(all, sent, written, buffered, queued) ==
    all = sent \o (written \o (buffered \o queued))

\* Concatenation as an operator of its own, known by its laws only.
Cat(x, y) == x \o y

\* It keeps the type, is associative, and has the empty sequence for its unit.
LEMMA CatLaws ==
    ASSUME NEW S
    PROVE  /\ \A x, y \in Seq(S) : Cat(x, y) \in Seq(S)
           /\ \A x, y, z \in Seq(S) : Cat(Cat(x, y), z) = Cat(x, Cat(y, z))
           /\ \A x \in Seq(S) : Cat(<<>>, x) = x
<1>1. ASSUME NEW x \in Seq(S), NEW y \in Seq(S) PROVE Cat(x, y) \in Seq(S)
  BY DEF Cat
<1>2. ASSUME NEW x \in Seq(S), NEW y \in Seq(S), NEW z \in Seq(S)
      PROVE  Cat(Cat(x, y), z) = Cat(x, Cat(y, z))
  BY DEF Cat
<1>3. ASSUME NEW x \in Seq(S) PROVE Cat(<<>>, x) = x
  BY DEF Cat
<1> QED BY <1>1, <1>2, <1>3

\* Carries in terms of Cat.
LEMMA CarriesCat ==
    ASSUME NEW all, NEW w, NEW f, NEW b, NEW q
    PROVE  Carries(all, w, f, b, q) <=> all = Cat(w, Cat(f, Cat(b, q)))
BY DEF Carries, Cat

\* SendPacket adds at the end of _bufferQueue.
LEMMA CarriesEnqueue ==
    ASSUME NEW S, NEW all, NEW w \in Seq(S), NEW f \in Seq(S), NEW b \in Seq(S),
           NEW q \in Seq(S), NEW x \in Seq(S), Carries(all, w, f, b, q)
    PROVE  Carries(all \o x, w, f, b, q \o x)
<1>1. all = Cat(w, Cat(f, Cat(b, q)))
  BY CarriesCat
<1>2. Cat(all, x) = Cat(w, Cat(f, Cat(b, Cat(q, x))))
  BY <1>1, CatLaws
<1> QED BY <1>2, CarriesCat DEF Cat

\* A packet moves from _bufferQueue into the send buffer.
LEMMA CarriesBuffered ==
    ASSUME NEW S, NEW all, NEW w, NEW f, NEW b \in Seq(S), NEW q \in Seq(S), NEW x \in Seq(S),
           Carries(all, w, f, b, x \o q)
    PROVE  Carries(all, w, f, b \o x, q)
<1>1. all = Cat(w, Cat(f, Cat(b, Cat(x, q))))
  BY CarriesCat DEF Cat
<1>2. all = Cat(w, Cat(f, Cat(Cat(b, x), q)))
  BY <1>1, CatLaws
<1> QED BY <1>2, CarriesCat DEF Cat

\* The send buffer moves to the end of _writeQueue.
LEMMA CarriesFlushed ==
    ASSUME NEW S, NEW all, NEW w, NEW f \in Seq(S), NEW b \in Seq(S), NEW q \in Seq(S),
           Carries(all, w, f, b, q)
    PROVE  Carries(all, w, f \o b, <<>>, q)
<1>1. all = Cat(w, Cat(f, Cat(b, q)))
  BY CarriesCat
<1>2. all = Cat(w, Cat(Cat(f, b), Cat(<<>>, q)))
  BY <1>1, CatLaws
<1> QED BY <1>2, CarriesCat DEF Cat

\* The front of _writeQueue goes onto the wire.
LEMMA CarriesWritten ==
    ASSUME NEW S, NEW all, NEW w \in Seq(S), NEW f \in Seq(S), NEW b \in Seq(S),
           NEW q \in Seq(S), NEW x \in Seq(S), Carries(all, w, x \o f, b, q)
    PROVE  Carries(all, w \o x, f, b, q)
<1>1. all = Cat(w, Cat(Cat(x, f), Cat(b, q)))
  BY CarriesCat DEF Cat
<1>2. all = Cat(Cat(w, x), Cat(f, Cat(b, q)))
  BY <1>1, CatLaws
<1> QED BY <1>2, CarriesCat DEF Cat

\* What is on the wire is then the beginning of what was enqueued.
Begins(sent, all) == \E rest \in BufferType : all = sent \o rest

\* A stream in which all bytes are carried on begins with what was written.
LEMMA CarriesBegins ==
    ASSUME NEW all, NEW w, NEW f \in BufferType, NEW b \in BufferType, NEW q \in BufferType,
           Carries(all, w, f, b, q)
    PROVE  Begins(w, all)
<1>1. PICK u \in BufferType : u = b \o q
  BY ConcatProperties DEF BufferType
<1>2. f \o u \in BufferType
  BY DEF BufferType
<1> QED BY <1>1, <1>2 DEF Carries, Begins

\* ... which is what IsPrefix says.
LEMMA BeginsPrefix ==
    ASSUME NEW w \in BufferType, NEW all, Begins(w, all)
    PROVE  IsPrefix(w, all)
<1>1. PICK rest \in BufferType : all = w \o rest
  BY DEF Begins
<1>2. Len(w) <= Len(w \o rest)
  BY DEF BufferType
<1>3. SubSeq(w, 1, Len(w)) = SubSeq(w \o rest, 1, Len(w))
  BY DEF BufferType
<1> QED BY <1>1, <1>2, <1>3 DEF IsPrefix

-----------------------------------------------------------------------------
(* The inductive invariant.                                                 *)

StreamInv ==
    /\ Begins(wire, AllBytes(enqueued))
    /\ Writable => Carries(AllBytes(enqueued), wire, FlattenSeq(writeQueue), buffer,
                           AllBytes(bufferQueue))

CloseInv == OnCloseOnce /\ ClosingNotStranded

IndInv == TypeOK /\ CloseInv /\ StreamInv

-----------------------------------------------------------------------------
(* Types.                                                                   *)

CloseTypes ==
    /\ openState \in {"Open", "Closing", "Closed"}
    /\ onClose \in Nat
    /\ closedBy \in {"nobody", "close", "delayed"}

\* CloseSocket() keeps the types, whatever state it found.
LEMMA CloseSocketTypes ==
    ASSUME CloseTypes, NEW state, NEW who \in {"close", "delayed"}, CloseSocket(state, who)
    PROVE  CloseTypes'
BY DEF CloseTypes, CloseSocket

\* So does the test at the end of a write.
LEMMA CloseWhenDrainedTypes ==
    ASSUME CloseTypes, NEW rest, CloseWhenDrained(rest)
    PROVE  CloseTypes'
BY CloseSocketTypes DEF CloseWhenDrained, CloseTypes

\* One call of write_some() and what follows it.
WriteStep == (\E more \in BOOLEAN : WriteAll(more)) \/ WritePart \/ WriteNothing \/ WriteFails

WriteTypes ==
    /\ writeQueue \in Seq(BufferType)
    /\ wire \in BufferType
    /\ isWritingAsync \in BOOLEAN

\* The first buffer and the others.
LEMMA QueueParts ==
    ASSUME NEW q \in Seq(BufferType), q # <<>>
    PROVE  /\ Head(q) \in BufferType /\ Tail(q) \in Seq(BufferType)
           /\ Head(q) \in Seq(Packets \X Nat) /\ Len(Head(q)) \in Nat
           /\ Len(q) > 1 => Tail(q) # <<>>
<1>1. Head(q) \in BufferType /\ Tail(q) \in Seq(BufferType) /\ Len(Tail(q)) = Len(q) - 1
  BY HeadTailProperties
<1>2. PICK t \in Seq(BufferType) : t = Tail(q)
  BY <1>1
<1>3. Len(q) > 1 => t # <<>>
  <2>1. Len(t) = Len(q) - 1 /\ Len(q) \in Nat
    BY <1>1, <1>2
  <2>2. Len(t) = 0 <=> t = <<>>
    BY EmptySeq
  <2>3. Len(q) > 1 => Len(t) # 0
    BY <2>1
  <2> QED BY <2>2, <2>3
<1> QED BY <1>1, <1>2, <1>3 DEF BufferType

\* The parts of a buffer that was written up to some byte.
LEMMA PartTypes ==
    ASSUME NEW h \in BufferType, NEW n \in 1..(Len(h) - 1)
    PROVE  /\ SubSeq(h, 1, n) \in BufferType /\ SubSeq(h, n + 1, Len(h)) \in BufferType
           /\ h = SubSeq(h, 1, n) \o SubSeq(h, n + 1, Len(h))
<1>1. h \in Seq(Packets \X Nat) /\ Len(h) \in Nat /\ n \in Nat
  BY DEF BufferType
<1>2. SubSeq(h, 1, n) \in Seq(Packets \X Nat) /\ SubSeq(h, n + 1, Len(h)) \in Seq(Packets \X Nat)
  BY <1>1
<1>3. SubSeq(h, 1, n) \o SubSeq(h, n + 1, Len(h)) = SubSeq(h, 1, Len(h))
  BY <1>1, ConcatAdjacentSubSeq
<1>4. SubSeq(h, 1, Len(h)) = h
  BY <1>1, SubSeqFull
<1> QED BY <1>2, <1>3, <1>4 DEF BufferType

\* A write keeps the types.
LEMMA WriteStepTypes ==
    ASSUME WriteTypes, CloseTypes, writeQueue # <<>>, WriteStep
    PROVE  WriteTypes' /\ CloseTypes'
<1> DEFINE h == Head(writeQueue)
           t == Tail(writeQueue)
<1>0. h \in BufferType /\ t \in Seq(BufferType)
  BY QueueParts DEF WriteTypes
<1>1. CASE \E more \in BOOLEAN : WriteAll(more)
  <2>1. wire' = wire \o h /\ writeQueue' = t /\ isWritingAsync' = FALSE
    BY <1>1 DEF WriteAll, BufferDone
  <2>2. wire \o h \in BufferType
    BY <1>0, ConcatProperties DEF WriteTypes, BufferType
  <2>3. CloseTypes'
    BY <1>1, CloseWhenDrainedTypes DEF WriteAll, BufferDone
  <2> QED BY <1>0, <2>1, <2>2, <2>3 DEF WriteTypes
<1>2. CASE WritePart
  <2>1. PICK n \in 1..(Len(h) - 1) : /\ wire' = wire \o SubSeq(h, 1, n)
                                     /\ writeQueue' = <<SubSeq(h, n + 1, Len(h))>> \o t
    BY <1>2 DEF WritePart, ReadCompleted
  <2>2. SubSeq(h, 1, n) \in BufferType /\ SubSeq(h, n + 1, Len(h)) \in BufferType
    BY <1>0, PartTypes
  <2>3. wire \o SubSeq(h, 1, n) \in BufferType
    BY <2>2, ConcatProperties DEF WriteTypes, BufferType
  <2>4. <<SubSeq(h, n + 1, Len(h))>> \o t \in Seq(BufferType)
    <3> HIDE DEF h, t
    <3>1. <<SubSeq(h, n + 1, Len(h))>> \in Seq(BufferType)
      BY <2>2
    <3> QED BY <1>0, <3>1, ConcatProperties
  <2>5. isWritingAsync' = TRUE /\ CloseTypes'
    BY <1>2 DEF WritePart, WaitWritable, CloseTypes
  <2> QED BY <2>1, <2>3, <2>4, <2>5 DEF WriteTypes
<1>3. CASE WriteNothing
  BY <1>3 DEF WriteNothing, WaitWritable, WriteTypes, CloseTypes
<1>4. CASE WriteFails
  <2>1. wire' = wire /\ writeQueue' = t /\ isWritingAsync' = FALSE
    BY <1>4 DEF WriteFails, BufferDone
  <2>2. CloseTypes'
    BY <1>4, CloseWhenDrainedTypes DEF WriteFails, BufferDone
  <2> QED BY <1>0, <2>1, <2>2 DEF WriteTypes
<1> QED BY <1>1, <1>2, <1>3, <1>4 DEF WriteStep

\* The three ways a packet leaves _bufferQueue: into the send buffer, into a
\* new one, or past it.
DrainOutcome(p) ==
    \/ /\ Len(buffer) + Size[p] <= SendBufferSize
       /\ writeQueue' = writeQueue /\ buffer' = buffer \o Bytes(p)
    \/ /\ Size[p] <= SendBufferSize
       /\ writeQueue' = Append(writeQueue, buffer) /\ buffer' = <<>> \o Bytes(p)
    \/ writeQueue' = Append(Append(writeQueue, buffer), Bytes(p)) /\ buffer' = <<>>

\* DrainPacket has one of them: a packet with room left fits into a buffer.
LEMMA DrainOutcomes ==
    ASSUME TypeOK, DrainPacket
    PROVE  Head(bufferQueue) \in Packets /\ DrainOutcome(Head(bufferQueue))
<1> DEFINE p == Head(bufferQueue)
<1>1. p \in Packets
  BY HeadTailProperties DEF TypeOK, DrainPacket
<1>2. Size[p] \in Nat /\ Len(buffer) \in Nat /\ SendBufferSize \in Nat
  BY <1>1, SocketIOAssumption DEF TypeOK, BufferType
<1>3. HasRoom(p) => Size[p] <= SendBufferSize
  BY <1>2 DEF HasRoom
<1> QED BY <1>1, <1>3 DEF DrainPacket, DrainOutcome, Flush, HasRoom

\* DrainPacket keeps the types and never overfills the send buffer.
LEMMA DrainTypes ==
    ASSUME TypeOK, DrainPacket
    PROVE  /\ bufferQueue' \in Seq(Packets)
           /\ writeQueue' \in Seq(BufferType)
           /\ buffer' \in BufferType /\ Len(buffer') <= SendBufferSize
<1> DEFINE p == Head(bufferQueue)
<1>1. p \in Packets /\ DrainOutcome(p)
  BY DrainOutcomes
<1>2. /\ Bytes(p) \in BufferType /\ Len(Bytes(p)) = Size[p] /\ Size[p] \in Nat
      /\ Bytes(p) \in Seq(Packets \X Nat) /\ buffer \in Seq(Packets \X Nat)
      /\ writeQueue \in Seq(BufferType) /\ buffer \in BufferType
      /\ SendBufferSize \in Nat
  BY <1>1, BytesType, SocketIOAssumption DEF TypeOK, BufferType
<1>3. bufferQueue' \in Seq(Packets)
  BY HeadTailProperties DEF TypeOK, DrainPacket
<1>4. <<>> \o Bytes(p) = Bytes(p)
  BY <1>2, ConcatEmptySeq
<1>5. Append(writeQueue, buffer) \in Seq(BufferType)
  BY <1>2, AppendProperties
<1>6. Append(Append(writeQueue, buffer), Bytes(p)) \in Seq(BufferType)
  BY <1>2, <1>5, AppendProperties
<1>7. buffer \o Bytes(p) \in BufferType /\ Len(buffer \o Bytes(p)) = Len(buffer) + Size[p]
  BY SMTT(30), <1>2, ConcatProperties DEF BufferType
<1>8. <<>> \in BufferType /\ Len(<<>>) = 0
  BY EmptySeq DEF BufferType
<1>9. CASE Len(buffer) + Size[p] <= SendBufferSize /\ writeQueue' = writeQueue
           /\ buffer' = buffer \o Bytes(p)
  <2> HIDE DEF p
  <2> QED BY <1>2, <1>3, <1>7, <1>9
<1>10. CASE Size[p] <= SendBufferSize /\ writeQueue' = Append(writeQueue, buffer)
            /\ buffer' = <<>> \o Bytes(p)
  <2> HIDE DEF p
  <2> QED BY <1>2, <1>3, <1>4, <1>5, <1>10
<1>11. CASE writeQueue' = Append(Append(writeQueue, buffer), Bytes(p)) /\ buffer' = <<>>
  <2> HIDE DEF p
  <2> QED BY <1>2, <1>3, <1>6, <1>8, <1>11
<1> QED BY <1>1, <1>9, <1>10, <1>11 DEF DrainOutcome

\* EndDrain keeps the types.
LEMMA EndDrainTypes ==
    ASSUME TypeOK, EndDrain
    PROVE  /\ writeQueue' \in Seq(BufferType)
           /\ buffer' \in BufferType /\ Len(buffer') <= SendBufferSize
<1>1. writeQueue \in Seq(BufferType) /\ buffer \in BufferType /\ SendBufferSize \in Nat
  BY SocketIOAssumption DEF TypeOK
<1>2. Append(writeQueue, buffer) \in Seq(BufferType)
  BY <1>1, AppendProperties
<1>3. <<>> \in BufferType /\ Len(<<>>) = 0
  BY EmptySeq DEF BufferType
<1> QED BY <1>1, <1>2, <1>3 DEF EndDrain, QueueRest

\* The initial state has the types.
LEMMA TypeInit ==
    Init => TypeOK
<1> SUFFICES ASSUME Init PROVE TypeOK
  OBVIOUS
<1>1. <<>> \in BufferType /\ <<>> \in Seq(BufferType) /\ <<>> \in Seq(Packets) /\ Len(<<>>) = 0
  BY EmptySeq DEF BufferType
<1>2. SendBufferSize \in Nat
  BY SocketIOAssumption
<1>3. sending \in [Senders -> Packets \cup {NoPacket}]
  BY DEF Init
<1>4. buffer \in BufferType /\ Len(buffer) <= SendBufferSize
  BY <1>1, <1>2 DEF Init
<1>5. wire \in BufferType /\ writeQueue \in Seq(BufferType)
  BY <1>1 DEF Init
<1>6. bufferQueue \in Seq(Packets) /\ enqueued \in Seq(Packets) /\ owed \subseteq Packets
  BY <1>1 DEF Init
<1> QED BY <1>3, <1>4, <1>5, <1>6 DEF Init, TypeOK

\* Every step keeps them.
LEMMA TypeNext ==
    TypeOK /\ [Next]_vars => TypeOK'
<1> SUFFICES ASSUME TypeOK, [Next]_vars PROVE TypeOK'
  OBVIOUS
<1>0. CloseTypes /\ WriteTypes
  BY DEF TypeOK, CloseTypes, WriteTypes
<1>1. ASSUME NEW s \in Senders, Enqueue(s) PROVE TypeOK'
  <2>1. sending[s] \in Packets
    BY <1>1 DEF TypeOK, Enqueue
  <2>2. bufferQueue' \in Seq(Packets) /\ enqueued' \in Seq(Packets)
    BY <1>1, <2>1, AppendProperties DEF TypeOK, Enqueue
  <2>3. sending' \in [Senders -> Packets \cup {NoPacket}]
    BY <1>1 DEF TypeOK, Enqueue
  <2> QED BY <1>1, <2>2, <2>3 DEF TypeOK, Enqueue, closeVars
<1>2. ASSUME NEW s \in Senders, NEW p \in Packets, TestOpen(s, p) PROVE TypeOK'
  <2>1. sending' \in [Senders -> Packets \cup {NoPacket}] /\ unsent' \subseteq Packets
    BY <1>2 DEF TypeOK, TestOpen
  <2> QED BY <1>2, <2>1 DEF TypeOK, TestOpen, closeVars
<1>3. CASE Close
  <2>1. CloseTypes'
    BY <1>0, <1>3, CloseSocketTypes DEF Close
  <2> QED BY <1>3, <2>1 DEF TypeOK, CloseTypes, Close, sendVars
<1>4. CASE DelayedClose
  <2>1. CloseTypes'
    <3>1. CASE writeQueue = <<>>
      BY <1>0, <1>4, <3>1, CloseSocketTypes DEF DelayedClose
    <3>2. CASE writeQueue # <<>>
      BY <1>0, <1>4, <3>2 DEF DelayedClose, CloseTypes
    <3> QED BY <3>1, <3>2
  <2>2. owed' \subseteq Packets
    BY <1>4, RangeOfSeq DEF DelayedClose, TypeOK, ToSet, Range
  <2> QED BY <1>4, <2>1, <2>2 DEF TypeOK, CloseTypes, DelayedClose, sendVars
<1>5. CASE MarkClosing
  <2>1. owed' \subseteq Packets
    BY <1>5 DEF MarkClosing, TypeOK, ToSet
  <2> QED BY <1>5, <2>1 DEF TypeOK, MarkClosing, sendVars
<1>6. CASE TestWriteQueue
  <2>1. PICK empty : /\ misread' = (misread \/ empty # (writeQueue = <<>>))
                     /\ IF empty THEN CloseSocket(openState, "delayed")
                                 ELSE UNCHANGED <<openState, onClose, closedBy>>
    BY <1>6, Zenon DEF TestWriteQueue
  <2>2. misread' \in BOOLEAN
    BY <2>1, Zenon
  <2>3. CloseTypes'
    <3>1. CASE empty
      BY <1>0, <2>1, <3>1, CloseSocketTypes
    <3>2. CASE ~empty
      BY <1>0, <2>1, <3>2 DEF CloseTypes
    <3> QED BY <3>1, <3>2
  <2> QED BY <1>6, <2>2, <2>3 DEF TypeOK, CloseTypes, TestWriteQueue, sendVars
<1>7. CASE AddNewSockets
  BY <1>7 DEF TypeOK, AddNewSockets, sendVars, closeVars
<1>8. CASE BeginUpdate
  BY <1>8 DEF TypeOK, BeginUpdate, sendVars, closeVars
<1>9. CASE DrainPacket
  BY ZenonT(40), <1>9, DrainTypes DEF TypeOK, DrainPacket, closeVars
<1>10. CASE EndDrain
  BY <1>10, EndDrainTypes DEF TypeOK, EndDrain, sendVars, closeVars
<1>11. CASE BaseUpdate
  BY <1>11 DEF TypeOK, BaseUpdate, DropClosed, sendVars, closeVars
<1>12. CASE HandleQueue
  <2>1. writeQueue # <<>> /\ ~isWritingAsync
    BY <1>12 DEF HandleQueue, TypeOK
  <2>2. WriteStep
    BY <1>12 DEF HandleQueue, WriteStep
  <2>3. WriteTypes' /\ CloseTypes'
    BY <1>0, <2>1, <2>2, WriteStepTypes
  <2>4. ntpc' \in {"idle", "write"} /\ (ntpc' = "write" => writeQueue' # <<>> /\ ~isWritingAsync')
    <3>1. CASE \E more \in BOOLEAN : WriteAll(more) /\ ntpc' = IF more THEN "write" ELSE "idle"
      <4>1. PICK more \in BOOLEAN : WriteAll(more) /\ ntpc' = IF more THEN "write" ELSE "idle"
        BY <3>1
      <4>2. more = (Len(writeQueue) > 1) /\ writeQueue' = Tail(writeQueue) /\ isWritingAsync' = FALSE
        BY <4>1 DEF WriteAll, BufferDone
      <4>3. Len(writeQueue) > 1 => Tail(writeQueue) # <<>>
        BY <2>1, QueueParts DEF TypeOK
      <4> QED BY <4>1, <4>2, <4>3
    <3>2. CASE ntpc' = "idle"
      BY <3>2
    <3> QED BY <1>12, <3>1, <3>2 DEF HandleQueue
  <2> QED BY <1>12, <2>3, <2>4 DEF TypeOK, WriteTypes, CloseTypes, HandleQueue, sendVars
<1>13. CASE WriteHandlerWrapper
  <2>1. WriteTypes' /\ CloseTypes'
    <3>1. CASE writeQueue = <<>>
      BY <1>0, <1>13, <3>1 DEF WriteHandlerWrapper, WriteTypes, CloseTypes
    <3>2. CASE writeQueue # <<>>
      BY <1>0, <1>13, <3>2, WriteStepTypes DEF WriteHandlerWrapper, WriteStep
    <3> QED BY <3>1, <3>2
  <2> QED BY <1>13, <2>1 DEF TypeOK, WriteTypes, CloseTypes, WriteHandlerWrapper, sendVars
<1>14. CASE Break
  BY <1>14 DEF TypeOK, Break, sendVars, closeVars
<1>15. CASE UNCHANGED vars
  BY <1>15 DEF TypeOK, vars
<1> QED BY <1>1, <1>2, <1>3, <1>4, <1>5, <1>6, <1>7, <1>8, <1>9, <1>10, <1>11, <1>12, <1>13,
           <1>14, <1>15 DEF Next, NetworkStep, SenderStep

-----------------------------------------------------------------------------
(* Closing.                                                                 *)

\* A write keeps CloseInv: popping the last buffer of a marked socket closes it.
LEMMA WriteStepClose ==
    ASSUME TypeOK, CloseInv, writeQueue # <<>>, WriteStep, UNCHANGED <<marking, misread>>
    PROVE  CloseInv'
<1>1. CASE BufferDone
  <2>1. writeQueue' = Tail(writeQueue) /\ CloseWhenDrained(Tail(writeQueue))
    BY <1>1 DEF BufferDone
  <2>2. CASE openState = "Closing" /\ Tail(writeQueue) = <<>>
    BY <2>1, <2>2 DEF CloseWhenDrained, CloseSocket, CloseInv, OnCloseOnce, ClosingNotStranded
  <2>3. CASE ~(openState = "Closing" /\ Tail(writeQueue) = <<>>)
    <3>1. UNCHANGED <<openState, onClose, closedBy>>
      BY <2>1, <2>3 DEF CloseWhenDrained
    <3> QED BY <2>1, <2>3, <3>1 DEF CloseInv, OnCloseOnce, ClosingNotStranded
  <2> QED BY <2>2, <2>3
<1>2. CASE WaitWritable /\ writeQueue' # <<>>
  BY <1>2 DEF WaitWritable, CloseInv, OnCloseOnce, ClosingNotStranded
<1>3. CASE WritePart
  <2>1. PICK n \in 1..(Len(Head(writeQueue)) - 1) :
             writeQueue' = <<ReadCompleted(n)>> \o Tail(writeQueue)
    BY <1>3 DEF WritePart
  <2>2. PICK t \in Seq(BufferType) : t = Tail(writeQueue)
    BY QueueParts DEF TypeOK
  <2>3. PICK h \in BufferType : h = ReadCompleted(n)
    BY QueueParts, PartTypes DEF TypeOK, ReadCompleted
  <2>4. <<h>> \o t # <<>>
    OBVIOUS
  <2>5. writeQueue' # <<>>
    BY <2>1, <2>2, <2>3, <2>4
  <2> QED BY <1>2, <1>3, <2>5 DEF WritePart
<1>4. CASE WriteNothing
  BY <1>2, <1>4 DEF WriteNothing
<1> QED BY <1>1, <1>3, <1>4 DEF WriteStep, WriteAll, WriteFails

\* Every step keeps it.
LEMMA CloseNext ==
    TypeOK /\ CloseInv /\ [Next]_vars => CloseInv'
<1> SUFFICES ASSUME TypeOK, CloseInv, [Next]_vars PROVE CloseInv'
  OBVIOUS
<1> USE DEF CloseInv, OnCloseOnce, ClosingNotStranded
<1>1. ASSUME NEW s \in Senders, Enqueue(s) PROVE CloseInv'
  BY <1>1 DEF Enqueue, closeVars
<1>2. ASSUME NEW s \in Senders, NEW p \in Packets, TestOpen(s, p) PROVE CloseInv'
  BY <1>2 DEF TestOpen, closeVars
<1>3. CASE Close
  BY <1>3 DEF Close, CloseSocket, sendVars
<1>4. CASE DelayedClose
  BY <1>4 DEF DelayedClose, CloseSocket, sendVars
<1>5. CASE MarkClosing
  BY <1>5 DEF MarkClosing, sendVars
<1>6. CASE TestWriteQueue
  <2>1. PICK empty : /\ misread' = (misread \/ empty # (writeQueue = <<>>))
                     /\ IF empty THEN CloseSocket(openState, "delayed")
                                 ELSE UNCHANGED <<openState, onClose, closedBy>>
    BY <1>6, Zenon DEF TestWriteQueue
  <2>2. writeQueue' = writeQueue
    BY <1>6 DEF TestWriteQueue
  <2>3. CASE empty
    BY <2>1, <2>2, <2>3 DEF CloseSocket
  <2>4. CASE ~empty
    <3>1. ~misread' => writeQueue # <<>>
      BY <2>1, <2>4, Zenon
    <3> QED BY <2>1, <2>2, <2>4, <3>1
  <2> QED BY <2>3, <2>4
<1>7. CASE AddNewSockets \/ BeginUpdate \/ BaseUpdate
  BY <1>7 DEF AddNewSockets, BeginUpdate, BaseUpdate, sendVars, closeVars
<1>8. CASE DrainPacket
  <2>1. writeQueue \in Seq(BufferType) /\ buffer \in BufferType
    BY DEF TypeOK
  <2>2. Head(bufferQueue) \in Packets /\ DrainOutcome(Head(bufferQueue))
    BY <1>8, DrainOutcomes
  <2>3. Bytes(Head(bufferQueue)) \in BufferType
    BY <2>2, BytesType
  <2>4. /\ Append(writeQueue, buffer) # <<>>
        /\ Append(writeQueue, buffer) \in Seq(BufferType)
    BY <2>1, AppendProperties
  <2>5. Append(Append(writeQueue, buffer), Bytes(Head(bufferQueue))) # <<>>
    BY <2>3, <2>4, AppendProperties
  <2>6. writeQueue' = writeQueue \/ writeQueue' # <<>>
    BY <2>2, <2>4, <2>5 DEF DrainOutcome
  <2> QED BY <1>8, <2>6 DEF DrainPacket, closeVars
<1>9. CASE EndDrain
  <2>1. Append(writeQueue, buffer) # <<>>
    BY AppendProperties DEF TypeOK
  <2>2. writeQueue' = writeQueue \/ writeQueue' # <<>>
    BY <1>9, <2>1 DEF EndDrain, QueueRest
  <2> QED BY <1>9, <2>2 DEF EndDrain, sendVars, closeVars
<1>10. CASE HandleQueue
  <2>1. writeQueue # <<>> /\ WriteStep /\ UNCHANGED <<marking, misread>>
    BY <1>10 DEF HandleQueue, WriteStep, TypeOK
  <2> QED BY <2>1, WriteStepClose
<1>11. CASE WriteHandlerWrapper
  <2>1. CASE writeQueue = <<>>
    BY <1>11, <2>1 DEF WriteHandlerWrapper, sendVars
  <2>2. CASE writeQueue # <<>>
    BY <1>11, <2>2, WriteStepClose DEF WriteHandlerWrapper, WriteStep
  <2> QED BY <2>1, <2>2
<1>12. CASE Break
  BY <1>12 DEF Break, sendVars, closeVars
<1>13. CASE UNCHANGED vars
  BY <1>13 DEF vars
<1> QED BY <1>1, <1>2, <1>3, <1>4, <1>5, <1>6, <1>7, <1>8, <1>9, <1>10, <1>11, <1>12, <1>13
        DEF Next, NetworkStep, SenderStep

-----------------------------------------------------------------------------
(* The stream.                                                              *)

ByteType == Packets \X Nat

\* The sequences the stream is made of.
LEMMA StreamTypes ==
    ASSUME TypeOK
    PROVE  /\ AllBytes(enqueued) \in Seq(ByteType) /\ AllBytes(bufferQueue) \in Seq(ByteType)
           /\ FlattenSeq(writeQueue) \in Seq(ByteType)
           /\ wire \in Seq(ByteType) /\ buffer \in Seq(ByteType)
           /\ writeQueue \in Seq(Seq(ByteType))
<1>1. /\ wire \in Seq(ByteType) /\ buffer \in Seq(ByteType)
      /\ writeQueue \in Seq(Seq(ByteType))
  BY DEF TypeOK, BufferType, ByteType
<1>2. AllBytes(enqueued) \in Seq(ByteType) /\ AllBytes(bufferQueue) \in Seq(ByteType)
  BY AllBytesType DEF TypeOK, BufferType, ByteType
<1>3. FlattenSeq(writeQueue) \in Seq(ByteType)
  BY <1>1, FlattenType
<1> QED BY <1>1, <1>2, <1>3

\* One packet more behind a stream that has begun is still its beginning.
LEMMA BeginsAppend ==
    ASSUME NEW w \in BufferType, NEW all, NEW x \in BufferType, Begins(w, all)
    PROVE  Begins(w, all \o x)
<1>1. PICK rest \in BufferType : all = w \o rest
  BY DEF Begins
<1>2. (w \o rest) \o x = w \o (rest \o x) /\ rest \o x \in BufferType
  <2>1. (w \o rest) \o x = w \o (rest \o x)
    BY SMTT(30) DEF BufferType
  <2>2. rest \o x \in BufferType
    BY DEF BufferType
  <2> QED BY <2>1, <2>2
<1> QED BY <1>1, <1>2 DEF Begins

\* SendPacket.
LEMMA EnqueueStream ==
    ASSUME TypeOK, StreamInv, NEW s \in Senders, Enqueue(s)
    PROVE  StreamInv'
<1> DEFINE p == sending[s]
<1>1. p \in Packets /\ Bytes(p) \in BufferType /\ Bytes(p) \in Seq(ByteType)
  <2>1. p \in Packets
    BY DEF Enqueue, TypeOK
  <2> QED BY <2>1, BytesType DEF BufferType, ByteType
<1>2. /\ AllBytes(enqueued') = AllBytes(enqueued) \o Bytes(p)
      /\ AllBytes(bufferQueue') = AllBytes(bufferQueue) \o Bytes(p)
  BY <1>1, AllBytesAppend DEF Enqueue, TypeOK
<1>3. UNCHANGED <<wire, writeQueue, buffer, broken, openState>>
  BY DEF Enqueue, closeVars
<1>4. Begins(wire, AllBytes(enqueued) \o Bytes(p))
  BY <1>1, BeginsAppend DEF StreamInv, TypeOK
<1>5. Writable => Carries(AllBytes(enqueued) \o Bytes(p), wire, FlattenSeq(writeQueue), buffer,
                          AllBytes(bufferQueue) \o Bytes(p))
  BY <1>1, StreamTypes, CarriesEnqueue DEF StreamInv
<1> QED BY <1>2, <1>3, <1>4, <1>5 DEF StreamInv, Writable

\* WorldSocket::Update moves a packet from _bufferQueue on.
LEMMA DrainStream ==
    ASSUME TypeOK, StreamInv, DrainPacket
    PROVE  StreamInv'
<1> DEFINE p    == Head(bufferQueue)
           all  == AllBytes(enqueued)
           f    == FlattenSeq(writeQueue)
           rest == AllBytes(Tail(bufferQueue))
           x    == Bytes(p)
<1>1. p \in Packets /\ DrainOutcome(p)
  BY DrainOutcomes
<1>2. x \in Seq(ByteType)
  BY <1>1, BytesType DEF BufferType, ByteType
<1>3. rest \in Seq(ByteType)
  <2>1. Tail(bufferQueue) \in Seq(Packets)
    BY HeadTailProperties DEF DrainPacket, TypeOK
  <2> QED BY <2>1, AllBytesType DEF BufferType, ByteType
<1>4. /\ all \in Seq(ByteType) /\ f \in Seq(ByteType) /\ buffer \in Seq(ByteType)
      /\ writeQueue \in Seq(Seq(ByteType))
  BY StreamTypes
<1>5. AllBytes(bufferQueue) = x \o rest
  BY AllBytesHead DEF DrainPacket, TypeOK
<1>6. /\ UNCHANGED <<wire, enqueued, broken, openState>>
      /\ bufferQueue' = Tail(bufferQueue)
  BY DEF DrainPacket, closeVars
<1>7. Begins(wire, all)
  BY DEF StreamInv
<1>8. Writable => Carries(all, wire, f, buffer, x \o rest)
  BY <1>5 DEF StreamInv
<1>9. ASSUME Writable PROVE Carries(all, wire, FlattenSeq(writeQueue'), buffer', rest)
  <2> HIDE DEF all, f, rest, x
  <2>1. CASE writeQueue' = writeQueue /\ buffer' = buffer \o Bytes(p)
    <3>1. Carries(all, wire, f, buffer \o x, rest)
      BY <1>2, <1>3, <1>4, <1>8, <1>9, CarriesBuffered
    <3> QED BY <2>1, <3>1 DEF f, x
  <2>2. Carries(all, wire, f \o buffer, <<>> \o x, rest)
    <3>1. x \o rest \in Seq(ByteType) /\ <<>> \in Seq(ByteType)
      BY <1>2, <1>3, ConcatProperties, EmptySeq
    <3>2. Carries(all, wire, f \o buffer, <<>>, x \o rest)
      BY <1>4, <1>8, <1>9, <3>1, CarriesFlushed
    <3> QED BY <1>2, <1>3, <3>1, <3>2, CarriesBuffered
  <2>3. /\ FlattenSeq(Append(writeQueue, buffer)) = f \o buffer
        /\ Append(writeQueue, buffer) \in Seq(Seq(ByteType))
        /\ f \o buffer \in Seq(ByteType)
    BY <1>4, FlattenAppend, AppendProperties, ConcatProperties DEF f
  <2>4. CASE writeQueue' = Append(writeQueue, buffer) /\ buffer' = <<>> \o Bytes(p)
    BY <2>2, <2>3, <2>4 DEF x
  <2>5. CASE writeQueue' = Append(Append(writeQueue, buffer), Bytes(p)) /\ buffer' = <<>>
    <3>1. FlattenSeq(Append(Append(writeQueue, buffer), x)) = (f \o buffer) \o x
      BY <1>2, <2>3, FlattenAppend
    <3>2. <<>> \o x = x
      BY <1>2, ConcatEmptySeq
    <3>3. Carries(all, wire, (f \o buffer) \o x, <<>>, rest)
      BY <1>2, <1>3, <2>2, <2>3, <3>2, CarriesFlushed
    <3> QED BY <2>5, <3>1, <3>3 DEF x
  <2> QED BY <1>1, <2>1, <2>4, <2>5 DEF DrainOutcome
<1> QED BY <1>6, <1>7, <1>9 DEF StreamInv, Writable

\* WorldSocket::Update queues what is left in the send buffer.
LEMMA EndDrainStream ==
    ASSUME TypeOK, StreamInv, EndDrain
    PROVE  StreamInv'
<1> DEFINE all == AllBytes(enqueued)
           f   == FlattenSeq(writeQueue)
           q   == AllBytes(bufferQueue)
<1>1. /\ all \in Seq(ByteType) /\ f \in Seq(ByteType) /\ buffer \in Seq(ByteType)
      /\ q \in Seq(ByteType) /\ writeQueue \in Seq(Seq(ByteType))
  BY StreamTypes
<1>2. UNCHANGED <<wire, enqueued, bufferQueue, broken, openState>> /\ buffer' = <<>>
  BY DEF EndDrain, sendVars, closeVars
<1>3. Begins(wire, all) /\ (Writable => Carries(all, wire, f, buffer, q))
  BY DEF StreamInv
<1>4. ASSUME Writable PROVE Carries(all, wire, FlattenSeq(writeQueue'), <<>>, q)
  <2>1. CASE buffer = <<>>
    BY <1>3, <1>4, <2>1 DEF EndDrain, QueueRest
  <2>2. CASE buffer # <<>>
    <3>1. FlattenSeq(writeQueue') = f \o buffer
      BY <1>1, <2>2, FlattenAppend DEF EndDrain, QueueRest
    <3> HIDE DEF all, f, q
    <3>2. Carries(all, wire, f \o buffer, <<>>, q)
      BY <1>1, <1>3, <1>4, CarriesFlushed
    <3> QED BY <3>1, <3>2
  <2> QED BY <2>1, <2>2
<1> QED BY <1>2, <1>3, <1>4 DEF StreamInv, Writable

\* write_some(): all of the front buffer, a part, nothing, or the buffer is
\* given up: an empty one, or one nobody will read.
LEMMA WriteStream ==
    ASSUME TypeOK, StreamInv, writeQueue # <<>>, WriteStep,
           UNCHANGED <<enqueued, bufferQueue, buffer, broken>>
    PROVE  StreamInv'
<1> DEFINE all == AllBytes(enqueued)
           h   == Head(writeQueue)
           t   == Tail(writeQueue)
           q   == AllBytes(bufferQueue)
<1>1. /\ all \in Seq(ByteType) /\ wire \in Seq(ByteType) /\ buffer \in Seq(ByteType)
      /\ q \in Seq(ByteType) /\ writeQueue \in Seq(Seq(ByteType))
      /\ FlattenSeq(writeQueue) \in Seq(ByteType)
  BY StreamTypes
<1>2. h \in Seq(ByteType) /\ t \in Seq(Seq(ByteType)) /\ FlattenSeq(t) \in Seq(ByteType)
  BY <1>1, HeadTailProperties, FlattenType
<1>3. FlattenSeq(writeQueue) = h \o FlattenSeq(t)
  BY <1>1, FlattenHead
<1>4. Begins(wire, all) /\ (Writable => Carries(all, wire, h \o FlattenSeq(t), buffer, q))
  BY <1>3 DEF StreamInv
<1>5. Writable' => Writable
  BY DEF Writable, WriteStep, WriteAll, WritePart, WriteNothing, WriteFails, BufferDone,
         CloseWhenDrained, CloseSocket, WaitWritable
<1>6. SUFFICES /\ Begins(wire', all)
               /\ Writable => Carries(all, wire', FlattenSeq(writeQueue'), buffer, q)
  BY <1>5 DEF StreamInv
<1>7. ASSUME Writable, Carries(all, wire', FlattenSeq(writeQueue'), buffer, q),
             FlattenSeq(writeQueue') \in Seq(ByteType)
      PROVE  Begins(wire', all)
  <2> HIDE DEF all, q
  <2> QED BY <1>1, <1>7, CarriesBegins DEF BufferType, ByteType
<1>8. CASE \E more \in BOOLEAN : WriteAll(more)
  <2>1. Writable /\ wire' = wire \o h /\ writeQueue' = t
    BY <1>8 DEF WriteAll, BufferDone
  <2>2. Carries(all, wire \o h, FlattenSeq(t), buffer, q)
    <3> HIDE DEF all, h, t, q
    <3> QED BY <1>1, <1>2, <1>4, <2>1, CarriesWritten
  <2> QED BY <1>2, <1>7, <2>1, <2>2
<1>9. CASE WritePart
  <2>1. PICK n \in 1..(Len(h) - 1) : /\ wire' = wire \o SubSeq(h, 1, n)
                                     /\ writeQueue' = <<SubSeq(h, n + 1, Len(h))>> \o t
    BY <1>9 DEF WritePart, ReadCompleted
  <2>2. Writable
    BY <1>9 DEF WritePart
  <2>3. PICK a \in Seq(ByteType) : a = SubSeq(h, 1, n)
    BY <1>2, PartTypes DEF BufferType, ByteType
  <2>4. PICK b \in Seq(ByteType) : b = SubSeq(h, n + 1, Len(h))
    BY <1>2, PartTypes DEF BufferType, ByteType
  <2>5. h = a \o b
    BY <1>2, <2>3, <2>4, PartTypes DEF BufferType, ByteType
  <2>6. PICK u \in Seq(Seq(ByteType)) : u = t
    BY <1>2
  <2>7. FlattenSeq(<<b>> \o t) = b \o FlattenSeq(t) /\ b \o FlattenSeq(t) \in Seq(ByteType)
    <3>1. <<b>> \o u \in Seq(Seq(ByteType)) /\ <<b>> \o u # <<>>
      OBVIOUS
    <3>2. Head(<<b>> \o u) = b /\ Tail(<<b>> \o u) = u
      OBVIOUS
    <3>3. FlattenSeq(<<b>> \o u) = b \o FlattenSeq(u)
      BY <3>1, <3>2, FlattenHead
    <3>4. b \o FlattenSeq(u) \in Seq(ByteType)
      BY FlattenType, ConcatProperties
    <3> QED BY <2>6, <3>3, <3>4
  <2>8. Carries(all, wire \o a, b \o FlattenSeq(t), buffer, q)
    <3>1. PICK v \in Seq(ByteType) : v = FlattenSeq(t)
      BY <1>2
    <3>2. (a \o b) \o v = a \o (b \o v)
      BY SMTT(30)
    <3>3. b \o v \in Seq(ByteType)
      OBVIOUS
    <3> HIDE DEF all, q
    <3>4. Carries(all, wire, a \o (b \o v), buffer, q)
      BY <1>4, <2>2, <2>5, <3>1, <3>2
    <3>5. Carries(all, wire \o a, b \o v, buffer, q)
      BY <1>1, <3>3, <3>4, CarriesWritten
    <3> QED BY <3>1, <3>5
  <2> QED BY <1>7, <2>1, <2>2, <2>3, <2>4, <2>7, <2>8
<1>10. CASE WriteNothing
  BY <1>3, <1>4, <1>10 DEF WriteNothing
<1>11. CASE WriteFails
  <2>1. wire' = wire /\ writeQueue' = t /\ (~Writable \/ h = <<>>)
    BY <1>11 DEF WriteFails, BufferDone
  <2>2. h = <<>> => h \o FlattenSeq(t) = FlattenSeq(t)
    BY <1>2, ConcatEmptySeq
  <2> QED BY <1>4, <2>1, <2>2
<1> QED BY <1>8, <1>9, <1>10, <1>11 DEF WriteStep

\* Every step keeps the stream.
LEMMA StreamNext ==
    TypeOK /\ StreamInv /\ [Next]_vars => StreamInv'
<1> SUFFICES ASSUME TypeOK, StreamInv, [Next]_vars PROVE StreamInv'
  OBVIOUS
<1>0. ASSUME UNCHANGED <<enqueued, wire, writeQueue, buffer, bufferQueue>>, Writable' => Writable
      PROVE  StreamInv'
  BY <1>0 DEF StreamInv
<1>1. ASSUME NEW s \in Senders, Enqueue(s) PROVE StreamInv'
  BY <1>1, EnqueueStream
<1>2. ASSUME NEW s \in Senders, NEW p \in Packets, TestOpen(s, p) PROVE StreamInv'
  BY <1>0, <1>2 DEF TestOpen, closeVars, Writable
<1>3. CASE Close
  BY <1>0, <1>3 DEF Close, CloseSocket, sendVars, Writable
<1>4. CASE DelayedClose
  BY <1>0, <1>4 DEF DelayedClose, CloseSocket, sendVars, Writable
<1>5. CASE MarkClosing
  BY <1>0, <1>5 DEF MarkClosing, sendVars, Writable
<1>6. CASE TestWriteQueue
  <2>1. openState' \in {"Closed", openState}
    BY <1>6 DEF TestWriteQueue, CloseSocket
  <2> QED BY <1>0, <1>6, <2>1 DEF TestWriteQueue, sendVars, Writable
<1>7. CASE AddNewSockets \/ BeginUpdate \/ BaseUpdate
  BY <1>0, <1>7 DEF AddNewSockets, BeginUpdate, BaseUpdate, sendVars, closeVars, Writable
<1>8. CASE DrainPacket
  BY <1>8, DrainStream
<1>9. CASE EndDrain
  BY <1>9, EndDrainStream
<1>10. CASE HandleQueue
  <2>1. writeQueue # <<>> /\ WriteStep /\ UNCHANGED <<enqueued, bufferQueue, buffer, broken>>
    BY <1>10 DEF HandleQueue, WriteStep, TypeOK, sendVars
  <2> QED BY <2>1, WriteStream
<1>11. CASE WriteHandlerWrapper
  <2>1. CASE writeQueue = <<>>
    BY <1>0, <1>11, <2>1 DEF WriteHandlerWrapper, sendVars, Writable
  <2>2. CASE writeQueue # <<>>
    <3>1. WriteStep /\ UNCHANGED <<enqueued, bufferQueue, buffer, broken>>
      BY <1>11, <2>2 DEF WriteHandlerWrapper, WriteStep, sendVars
    <3> QED BY <2>2, <3>1, WriteStream
  <2> QED BY <2>1, <2>2
<1>12. CASE Break
  BY <1>0, <1>12 DEF Break, sendVars, closeVars, Writable
<1>13. CASE UNCHANGED vars
  BY <1>0, <1>13 DEF vars, Writable
<1> QED BY <1>1, <1>2, <1>3, <1>4, <1>5, <1>6, <1>7, <1>8, <1>9, <1>10, <1>11, <1>12, <1>13
        DEF Next, NetworkStep, SenderStep

\* A new socket: nothing was enqueued and nothing sent.
LEMMA IndInit ==
    Init => IndInv
<1> SUFFICES ASSUME Init PROVE IndInv
  OBVIOUS
<1>1. TypeOK
  BY TypeInit
<1>2. CloseInv
  BY DEF Init, CloseInv, OnCloseOnce, ClosingNotStranded
<1>3. AllBytes(<<>>) = <<>> /\ FlattenSeq(<<>>) = <<>>
  <2>1. FlattenSeq(<<>>) = <<>>
    BY FlattenDef
  <2>2. BytesOf(<<>>) = <<>>
    BY DEF BytesOf
  <2> QED BY <2>1, <2>2 DEF AllBytes, BytesOf
<1>4. <<>> \in BufferType /\ <<>> \o <<>> = <<>>
  BY EmptySeq, ConcatEmptySeq DEF BufferType
<1>5. StreamInv
  BY <1>3, <1>4 DEF Init, StreamInv, Begins, Carries
<1> QED BY <1>1, <1>2, <1>5 DEF IndInv

-----------------------------------------------------------------------------
(* The theorems.                                                            *)

\* The inductive invariant holds in every reachable state.
THEOREM SocketConsistent ==
    Spec => []IndInv
<1>1. IndInv /\ [Next]_vars => IndInv'
  BY TypeNext, CloseNext, StreamNext DEF IndInv
<1> QED BY IndInit, <1>1, PTL DEF Spec

\* Types; the network thread writes only while there is something to write
\* and no handler is pending; the send buffer never exceeds _sendBufferSize.
THEOREM SocketTypeOK ==
    Spec => []TypeOK
<1>1. IndInv => TypeOK
  BY DEF IndInv
<1> QED BY SocketConsistent, <1>1, PTL

\* The peer receives a beginning of the packets in the order they were
\* enqueued, for packets of any size, whatever the buffer cuts them into.
THEOREM StreamNeverDamaged ==
    Spec => []StreamIntact
<1>1. IndInv => StreamIntact
  BY BeginsPrefix DEF IndInv, TypeOK, StreamInv, StreamIntact
<1> QED BY SocketConsistent, <1>1, PTL

\* OnClose() is called exactly once for a closed socket.
THEOREM ClosedOnce ==
    Spec => []OnCloseOnce
<1>1. IndInv => OnCloseOnce
  BY DEF IndInv, CloseInv
<1> QED BY SocketConsistent, <1>1, PTL

\* A socket marked for closing is stranded only by the unsynchronised read.
THEOREM MarkedStillWrites ==
    Spec => []ClosingNotStranded
<1>1. IndInv => ClosingNotStranded
  BY DEF IndInv, CloseInv
<1> QED BY SocketConsistent, <1>1, PTL
=============================================================================
