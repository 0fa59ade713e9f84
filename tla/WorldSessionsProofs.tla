------------------------ MODULE WorldSessionsProofs -------------------------
(***************************************************************************)
(* What WorldSessions guarantees for any sessions, accounts, limits and     *)
(* tolerance, proved by induction over the steps of the specification.      *)
(***************************************************************************)
EXTENDS WorldSessions, FiniteSetTheorems, SequenceTheorems, TLAPS

Injective(q) == \A i, j \in DOMAIN q : q[i] = q[j] => i = j

\* The sessions of a queue wait: told their position, their packets refused,
\* their initialization not begun.
Waiting(queue, sessions) == \A i \in DOMAIN queue :
    /\ sessions[queue[i]].told = i /\ sessions[queue[i]].inQueue
    /\ sessions[queue[i]].player = "none" /\ ~sessions[queue[i]].initializing

\* A session is handed over once, and has a character only while registered.
HandedOverOnce ==
    /\ Injective(addSessQueue)
    /\ \A s \in Sessions : s \notin Registered => ws[s].player = "none"

\* A session is registered under its own account only.
OwnAccount == \A a \in Accounts : m_sessions[a] # NoSession => Account(m_sessions[a]) = a

RegisterInv ==
    NoDanglingSession /\ OwnAccount /\ HandedOverOnce /\ Waiting(m_QueuedPlayer, ws)

IndInv == TypeOK /\ RegisterInv

-----------------------------------------------------------------------------
(* Sequences.                                                               *)

\* The elements of a sequence, and what an append and a pop do to them.
LEMMA SeqFacts ==
    ASSUME NEW S, NEW q \in Seq(S)
    PROVE  /\ DOMAIN q = 1..Len(q) /\ Len(q) \in Nat
           /\ ToSet(q) \subseteq S
           /\ \A x : x \in ToSet(q) <=> \E i \in DOMAIN q : q[i] = x
           /\ q = <<>> <=> Len(q) = 0
           /\ q = <<>> <=> ToSet(q) = {}
BY DEF ToSet

\* push_back of a new element.
LEMMA AppendFacts ==
    ASSUME NEW S, NEW q \in Seq(S), NEW x \in S
    PROVE  /\ Append(q, x) \in Seq(S) /\ Len(Append(q, x)) = Len(q) + 1
           /\ \A i \in DOMAIN q : i \in DOMAIN Append(q, x) /\ Append(q, x)[i] = q[i]
           /\ Append(q, x)[Len(q) + 1] = x
           /\ \A i \in DOMAIN Append(q, x) : i \in DOMAIN q \/ i = Len(q) + 1
           /\ ToSet(Append(q, x)) = ToSet(q) \cup {x}
           /\ Injective(q) /\ x \notin ToSet(q) => Injective(Append(q, x))
<1>1. /\ Append(q, x) \in Seq(S) /\ Len(Append(q, x)) = Len(q) + 1
      /\ \A i \in DOMAIN q : i \in DOMAIN Append(q, x) /\ Append(q, x)[i] = q[i]
      /\ Append(q, x)[Len(q) + 1] = x /\ Len(q) + 1 \in DOMAIN Append(q, x)
      /\ \A i \in DOMAIN Append(q, x) : i \in DOMAIN q \/ i = Len(q) + 1
  OBVIOUS
<1>2. ToSet(Append(q, x)) = ToSet(q) \cup {x}
  BY <1>1 DEF ToSet
<1>3. Injective(q) /\ x \notin ToSet(q) => Injective(Append(q, x))
  BY <1>1 DEF Injective, ToSet
<1> QED BY <1>1, <1>2, <1>3

\* pop_front.
LEMMA TailFacts ==
    ASSUME NEW S, NEW q \in Seq(S), q # <<>>
    PROVE  /\ Tail(q) \in Seq(S) /\ Len(Tail(q)) = Len(q) - 1
           /\ Head(q) = q[1] /\ Head(q) \in S /\ 1 \in DOMAIN q
           /\ \A i \in DOMAIN Tail(q) : i + 1 \in DOMAIN q /\ Tail(q)[i] = q[i + 1]
           /\ ToSet(q) = ToSet(Tail(q)) \cup {Head(q)}
           /\ Injective(q) => Injective(Tail(q)) /\ Head(q) \notin ToSet(Tail(q))
<1>1. /\ Tail(q) \in Seq(S) /\ Len(Tail(q)) = Len(q) - 1
      /\ Head(q) = q[1] /\ Head(q) \in S /\ 1 \in DOMAIN q
      /\ \A i \in DOMAIN Tail(q) : i + 1 \in DOMAIN q /\ Tail(q)[i] = q[i + 1]
  OBVIOUS
<1>2. \A i \in DOMAIN q : i # 1 => i - 1 \in DOMAIN Tail(q) /\ q[i] = Tail(q)[i - 1]
  BY HeadTailProperties, LenProperties, EmptySeq
<1>3. ToSet(q) = ToSet(Tail(q)) \cup {Head(q)}
  <2>1. ASSUME NEW x \in ToSet(q) PROVE x \in ToSet(Tail(q)) \cup {Head(q)}
    <3>1. PICK i \in DOMAIN q : q[i] = x
      BY DEF ToSet
    <3>2. i # 1 => x \in {Tail(q)[j] : j \in DOMAIN Tail(q)}
      BY <1>2, <3>1
    <3> QED BY <1>1, <3>1, <3>2 DEF ToSet
  <2>2. ASSUME NEW x \in ToSet(Tail(q)) PROVE x \in ToSet(q)
    <3>1. PICK i \in DOMAIN Tail(q) : Tail(q)[i] = x
      BY DEF ToSet
    <3>2. i + 1 \in DOMAIN q /\ q[i + 1] = x
      BY <1>1, <3>1
    <3> QED BY <3>2 DEF ToSet
  <2>3. Head(q) \in ToSet(q)
    BY <1>1 DEF ToSet
  <2> QED BY <2>1, <2>2, <2>3
<1>4. Injective(q) => Injective(Tail(q))
  <2> SUFFICES ASSUME Injective(q), NEW i \in DOMAIN Tail(q), NEW j \in DOMAIN Tail(q),
                      Tail(q)[i] = Tail(q)[j]
               PROVE  i = j
    BY DEF Injective
  <2>1. i + 1 = j + 1 /\ i \in Nat /\ j \in Nat
    BY <1>1 DEF Injective
  <2> QED BY <2>1
<1>5. Injective(q) => Head(q) \notin ToSet(Tail(q))
  <2>1. \A i \in DOMAIN Tail(q) : i + 1 # 1
    BY <1>1
  <2> QED BY <1>1, <2>1 DEF Injective, ToSet
<1> QED BY <1>1, <1>3, <1>4, <1>5

\* erase at a position: the elements behind it move up by one.
LEMMA RemoveAtFacts ==
    ASSUME NEW S, NEW q \in Seq(S), NEW p \in DOMAIN q
    PROVE  /\ RemoveAt(q, p) \in Seq(S) /\ Len(RemoveAt(q, p)) = Len(q) - 1
           /\ \A i \in DOMAIN RemoveAt(q, p) :
                 /\ i < p => i \in DOMAIN q /\ RemoveAt(q, p)[i] = q[i]
                 /\ i >= p => i + 1 \in DOMAIN q /\ RemoveAt(q, p)[i] = q[i + 1]
           /\ Injective(q) =>
                 /\ Injective(RemoveAt(q, p))
                 /\ ToSet(RemoveAt(q, p)) = ToSet(q) \ {q[p]}
<1> DEFINE r == RemoveAt(q, p)
           n == Len(q)
           a == SubSeq(q, 1, p - 1)
           b == SubSeq(q, p + 1, n)
<1>0. n \in Nat /\ p \in 1..n /\ DOMAIN q = 1..n
  OBVIOUS
<1>1. /\ a \in Seq(S) /\ Len(a) = p - 1 /\ \A i \in 1..(p - 1) : a[i] = q[i]
      /\ b \in Seq(S) /\ Len(b) = n - p /\ \A i \in 1..(n - p) : b[i] = q[i + p]
  <2>1. \A i \in 1..n : q[i] \in S
    BY <1>0
  <2>2. /\ a \in Seq(S) /\ Len(a) = IF 1 <= p - 1 THEN (p - 1) - 1 + 1 ELSE 0
        /\ \A i \in 1..((p - 1) - 1 + 1) : a[i] = q[1 + i - 1]
    BY <1>0, <2>1, SubSeqProperties
  <2>3. /\ b \in Seq(S) /\ Len(b) = IF p + 1 <= n THEN n - (p + 1) + 1 ELSE 0
        /\ \A i \in 1..(n - (p + 1) + 1) : b[i] = q[(p + 1) + i - 1]
    BY <1>0, <2>1, SubSeqProperties
  <2> HIDE DEF a, b, n
  <2>4. Len(a) = p - 1 /\ \A i \in 1..(p - 1) : a[i] = q[i]
    BY <1>0, <2>2
  <2>5. Len(b) = n - p
    BY <1>0, <2>3
  <2>6. ASSUME NEW i \in 1..(n - p) PROVE b[i] = q[i + p]
    <3>1. i \in 1..(n - (p + 1) + 1) /\ (p + 1) + i - 1 = i + p
      BY <1>0
    <3> QED BY <2>3, <3>1
  <2> QED BY <2>2, <2>3, <2>4, <2>5, <2>6
<1>2. r = a \o b
  BY DEF RemoveAt
<1>3. /\ r \in Seq(S) /\ Len(r) = n - 1 /\ DOMAIN r = 1..(n - 1)
      /\ \A i \in 1..(n - 1) : r[i] = IF i < p THEN q[i] ELSE q[i + 1]
  <2> HIDE DEF a, b, r, n
  <2>0. /\ r \in Seq(S) /\ Len(r) = Len(a) + Len(b)
        /\ \A i \in 1..(Len(a) + Len(b)) :
              r[i] = IF i <= Len(a) THEN a[i] ELSE b[i - Len(a)]
    BY <1>1, <1>2, ConcatProperties
  <2>1. r \in Seq(S) /\ Len(r) = n - 1
    BY <1>0, <1>1, <2>0
  <2>2. ASSUME NEW i \in 1..(n - 1) PROVE r[i] = IF i < p THEN q[i] ELSE q[i + 1]
    <3>1. CASE i < p
      BY <1>0, <1>1, <2>0, <3>1
    <3>2. CASE ~(i < p)
      <4>1. r[i] = b[i - (p - 1)] /\ i - (p - 1) \in 1..(n - p)
        BY SMTT(30), <1>0, <1>1, <2>0, <3>2
      <4>2. b[i - (p - 1)] = q[(i - (p - 1)) + p] /\ (i - (p - 1)) + p = i + 1
        BY <1>0, <1>1, <4>1
      <4> QED BY <3>2, <4>1, <4>2
    <3> QED BY <3>1, <3>2
  <2> QED BY <2>1, <2>2
<1> HIDE DEF a, b, r
<1>4. \A i \in DOMAIN r :
         /\ i < p => i \in DOMAIN q /\ r[i] = q[i]
         /\ i >= p => i + 1 \in DOMAIN q /\ r[i] = q[i + 1]
  BY <1>0, <1>3
<1>5. \A i \in DOMAIN q : i # p => \E j \in DOMAIN r : r[j] = q[i]
  <2> SUFFICES ASSUME NEW i \in DOMAIN q, i # p PROVE \E j \in DOMAIN r : r[j] = q[i]
    OBVIOUS
  <2>1. CASE i < p
    BY <1>0, <1>3, <2>1
  <2>2. CASE i > p
    <3>1. i - 1 \in DOMAIN r /\ ~(i - 1 < p) /\ (i - 1) + 1 = i
      BY <1>0, <1>3, <2>2
    <3> QED BY <1>3, <3>1
  <2> QED BY <1>0, <2>1, <2>2
<1>6. ASSUME Injective(q) PROVE Injective(r) /\ ToSet(r) = ToSet(q) \ {q[p]}
  <2>1. \A i \in DOMAIN r : \E k \in DOMAIN q :
           r[i] = q[k] /\ k # p /\ k = IF i < p THEN i ELSE i + 1
    BY <1>0, <1>3, <1>4
  <2>2. Injective(r)
    <3> SUFFICES ASSUME NEW i \in DOMAIN r, NEW j \in DOMAIN r, r[i] = r[j] PROVE i = j
      BY DEF Injective
    <3>1. (IF i < p THEN i ELSE i + 1) = (IF j < p THEN j ELSE j + 1)
      BY <1>6, <2>1 DEF Injective
    <3> QED BY <1>0, <1>3, <3>1
  <2>3. ToSet(r) = ToSet(q) \ {q[p]}
    BY <1>5, <1>6, <2>1 DEF Injective, ToSet
  <2> QED BY <2>2, <2>3
<1> QED BY <1>3, <1>4, <1>6 DEF r

-----------------------------------------------------------------------------
(* World::RemoveQueuedPlayer.                                               *)

\* What a removal from an injective queue leaves behind: everybody but s waits
\* as before or is the one admitted, and who is not told a position keeps his.
RemovalResult(r) ==
    r.queue \in Seq(Sessions) /\ Injective(r.queue) /\ r.from \in Nat \ {0}

RemovalSound(queue, s, r) ==
    /\ RemovalResult(r)
    /\ r.popped \subseteq ToSet(queue)
    /\ ToSet(queue) \ {s} = ToSet(r.queue) \cup r.popped
    /\ s \notin ToSet(r.queue) /\ r.popped \cap ToSet(r.queue) = {}
    /\ s \notin r.popped
    /\ \A i \in DOMAIN r.queue : i < r.from => i \in DOMAIN queue /\ r.queue[i] = queue[i]

\* Who is admitted, and whether there was room for him.
RemovalAdmits(queue, s, size, r) ==
    LET room == HasRoom(OthersActive(r.found, size - Len(queue)))
        left == Len(queue) - (IF r.found THEN 1 ELSE 0) IN
    /\ r.found \in BOOLEAN /\ (r.found <=> s \in ToSet(queue))
    /\ room /\ left > 0 => /\ r.popped # {} /\ \E p \in Sessions : r.popped = {p}
                           /\ Len(r.queue) = left - 1
    /\ ~(room /\ left > 0) => r.popped = {} /\ Len(r.queue) = left

\* RemoveQueuedPlayer on any queue without duplicates.
LEMMA Removal ==
    ASSUME NEW queue \in Seq(Sessions), Injective(queue), NEW s, NEW size \in Int,
           NEW r, r = RemoveQueuedPlayer(queue, s, size)
    PROVE  RemovalSound(queue, s, r) /\ RemovalAdmits(queue, s, size, r)
<1> DEFINE found    == s \in ToSet(queue)
           position == IF found THEN CHOOSE i \in DOMAIN queue : queue[i] = s
                                ELSE Len(queue) + 1
           rest     == IF found THEN RemoveAt(queue, position) ELSE queue
           room     == HasRoom(OthersActive(found, size - Len(queue)))
           pop      == room /\ rest # <<>>
<1>1. /\ r.found = found
      /\ r.popped = IF pop THEN {Head(rest)} ELSE {}
      /\ r.queue = IF pop THEN Tail(rest) ELSE rest
      /\ r.from = IF pop THEN 1 ELSE position
  BY DEF RemoveQueuedPlayer, WithoutQueued, RetellFrom
<1>2. /\ Len(queue) \in Nat /\ DOMAIN queue = 1..Len(queue)
      /\ found => position \in DOMAIN queue /\ queue[position] = s
      /\ ~found => position = Len(queue) + 1
  BY DEF ToSet
<1>3. position \in Nat \ {0}
  BY <1>2
<1>4. /\ rest \in Seq(Sessions) /\ Injective(rest) /\ ToSet(rest) = ToSet(queue) \ {s}
      /\ Len(rest) = Len(queue) - (IF found THEN 1 ELSE 0)
      /\ \A i \in DOMAIN rest : i < position => i \in DOMAIN queue /\ rest[i] = queue[i]
  <2>1. CASE found
    <3>1. position \in DOMAIN queue /\ queue[position] = s /\ rest = RemoveAt(queue, position)
      BY <1>2, <2>1
    <3> HIDE DEF position, rest, found
    <3>2. /\ rest \in Seq(Sessions) /\ Len(rest) = Len(queue) - 1
          /\ \A i \in DOMAIN rest : i < position => i \in DOMAIN queue /\ rest[i] = queue[i]
          /\ Injective(rest) /\ ToSet(rest) = ToSet(queue) \ {queue[position]}
      BY <3>1, RemoveAtFacts
    <3> QED BY <2>1, <3>1, <3>2
  <2>2. CASE ~found
    BY <1>2, <2>2
  <2> QED BY <2>1, <2>2
<1>5. rest # <<>> <=> Len(rest) > 0
  BY <1>4
<1>8. /\ r.found \in BOOLEAN /\ (r.found <=> s \in ToSet(queue)) /\ (r.found <=> found)
      /\ HasRoom(OthersActive(r.found, size - Len(queue))) <=> room
  <2>1. r.found = found /\ found \in BOOLEAN
    BY <1>1
  <2>2. HasRoom(OthersActive(r.found, size - Len(queue))) <=> room
    BY <2>1 DEF HasRoom, OthersActive
  <2>3. r.found \in BOOLEAN
    BY <2>1, Zenon
  <2> QED BY <2>1, <2>2, <2>3
<1> HIDE DEF found, position, rest, room
<1>6. CASE pop
  <2>1. /\ Tail(rest) \in Seq(Sessions) /\ Len(Tail(rest)) = Len(rest) - 1
        /\ Head(rest) \in Sessions /\ ToSet(rest) = ToSet(Tail(rest)) \cup {Head(rest)}
        /\ Injective(Tail(rest)) /\ Head(rest) \notin ToSet(Tail(rest))
    BY <1>4, <1>6, TailFacts
  <2>2. RemovalSound(queue, s, r)
    BY <1>1, <1>4, <1>6, <2>1 DEF RemovalSound, RemovalResult
  <2>3. r.popped = {Head(rest)} /\ Len(r.queue) = Len(rest) - 1 /\ room /\ Len(rest) > 0
    BY <1>1, <1>5, <1>6, <2>1
  <2>4. RemovalAdmits(queue, s, size, r)
    BY <1>8, <1>4, <2>1, <2>3 DEF RemovalAdmits
  <2> QED BY <2>2, <2>4
<1>7. CASE ~pop
  <2>1. RemovalSound(queue, s, r)
    BY <1>1, <1>3, <1>4, <1>7 DEF RemovalSound, RemovalResult
  <2>2. r.popped = {} /\ Len(r.queue) = Len(rest) /\ ~(room /\ Len(rest) > 0)
    BY <1>1, <1>5, <1>7
  <2>3. RemovalAdmits(queue, s, size, r)
    BY <1>4, <1>8, <2>2 DEF RemovalAdmits
  <2> QED BY <2>1, <2>3
<1> QED BY <1>6, <1>7

\* What RemoveQueuedPlayer does to a session t, which becomes n.
RemovalEffect(r, session, t, n) ==
    /\ n \in SessionType
    /\ n.life = session.life /\ n.player = session.player
    /\ n.inQueue = session.inQueue
    /\ n.socketOpen = session.socketOpen /\ n.forceExit = session.forceExit
    /\ t \notin r.popped => n.initializing = session.initializing
    /\ \A i \in DOMAIN r.queue : r.queue[i] = t =>
          n.told = IF i >= r.from THEN i ELSE session.told

\* It admits it, tells it its position, or leaves it alone.
LEMMA AfterRemovalFacts ==
    ASSUME NEW r, RemovalResult(r), NEW session \in SessionType, NEW t \in Sessions
    PROVE  RemovalEffect(r, session, t, AfterRemoval(r, session, t))
<1> DEFINE T == {i \in r.from..Len(r.queue) : r.queue[i] = t}
           told == IF T # {} THEN CHOOSE i \in T : TRUE ELSE session.told
           initializing == session.initializing \/ t \in r.popped
           n == AfterRemoval(r, session, t)
<1>1. n = [session EXCEPT !.initializing = initializing, !.told = told]
  BY DEF AfterRemoval
<1>2. /\ DOMAIN r.queue = 1..Len(r.queue) /\ Len(r.queue) \in Nat
      /\ r.from \in Nat \ {0} /\ Injective(r.queue)
  BY DEF RemovalResult
<1>3. T # {} => told \in T /\ told \in Nat
  BY <1>2
<1>4. told \in Nat /\ initializing \in BOOLEAN
  <2>1. session.told \in Nat
    BY DEF SessionType
  <2>2. told \in Nat
    BY <1>3, <2>1
  <2>3. initializing \in BOOLEAN
    OBVIOUS
  <2> QED BY <2>2, <2>3
<1>5. ASSUME NEW i \in DOMAIN r.queue, r.queue[i] = t
      PROVE  told = IF i >= r.from THEN i ELSE session.told
  <2>1. \A j \in T : j = i
    BY <1>2, <1>5 DEF Injective
  <2>2. i >= r.from <=> i \in T
    BY <1>2, <1>5
  <2>3. i \in T <=> T # {}
    BY <2>1
  <2> QED BY <2>1, <2>2, <2>3, <1>3
<1> HIDE DEF T, told, initializing, n
<1>6. n \in SessionType
  BY <1>1, <1>4, Zenon DEF SessionType
<1>7. /\ n.life = session.life /\ n.player = session.player
      /\ n.inQueue = session.inQueue
      /\ n.socketOpen = session.socketOpen /\ n.forceExit = session.forceExit
      /\ n.initializing = initializing /\ n.told = told
  BY <1>1 DEF SessionType
<1>8. t \notin r.popped => initializing = session.initializing
  <2>1. session.initializing \in BOOLEAN
    BY Zenon DEF SessionType
  <2> QED BY <2>1 DEF initializing
<1>9. RemovalEffect(r, session, t, n)
  BY <1>5, <1>6, <1>7, <1>8 DEF RemovalEffect
<1> QED BY <1>9 DEF n

\* Who still waits after a removal knows the position he has.
LEMMA WaitingKept ==
    ASSUME NEW queue \in Seq(Sessions), NEW s, NEW r, RemovalSound(queue, s, r),
           NEW f \in [Sessions -> SessionType], NEW g,
           \A t \in ToSet(r.queue) : g[t] = AfterRemoval(r, f[t], t),
           Waiting(queue, f)
    PROVE  Waiting(r.queue, g)
<1> SUFFICES ASSUME NEW i \in DOMAIN r.queue
             PROVE  /\ g[r.queue[i]].told = i /\ g[r.queue[i]].inQueue
                    /\ g[r.queue[i]].player = "none" /\ ~g[r.queue[i]].initializing
  BY DEF Waiting
<1> DEFINE t == r.queue[i]
<1>0. /\ r.queue \in Seq(Sessions) /\ r.from \in Nat
      /\ ToSet(r.queue) \cap r.popped = {} /\ ToSet(r.queue) \subseteq ToSet(queue)
      /\ i < r.from => i \in DOMAIN queue /\ queue[i] = t
  BY DEF RemovalSound, RemovalResult
<1>1. /\ t \in Sessions /\ t \in ToSet(r.queue) /\ i \in Nat
  BY <1>0 DEF ToSet
<1> HIDE DEF t
<1>7. t \notin r.popped /\ t \in ToSet(queue) /\ f[t] \in SessionType /\ RemovalResult(r)
  BY <1>0, <1>1 DEF RemovalSound
<1>2. PICK j \in DOMAIN queue : queue[j] = t
  BY <1>7 DEF ToSet
<1>3. f[t].inQueue /\ f[t].player = "none" /\ ~f[t].initializing
  BY <1>2 DEF Waiting
<1>4. i < r.from => f[t].told = i
  BY <1>0 DEF Waiting
<1>5. /\ g[t].player = f[t].player /\ g[t].inQueue = f[t].inQueue
      /\ g[t].initializing = f[t].initializing
      /\ g[t].told = IF i >= r.from THEN i ELSE f[t].told
  <2>1. g[t] = AfterRemoval(r, f[t], t) /\ r.queue[i] = t
    BY <1>1 DEF t
  <2>2. RemovalEffect(r, f[t], t, g[t])
    BY <1>1, <1>7, <2>1, AfterRemovalFacts
  <2> QED BY <1>7, <2>1, <2>2 DEF RemovalEffect
<1>6. g[t].told = i
  BY <1>0, <1>1, <1>4, <1>5
<1> QED BY <1>3, <1>5, <1>6 DEF t

-----------------------------------------------------------------------------
(* The register.                                                            *)

\* m_sessions and the sessions in it.
LEMMA RegisterFacts ==
    ASSUME TypeOK
    PROVE  /\ Registered \subseteq Sessions /\ NoSession \notin Registered
           /\ \A a \in Accounts : m_sessions[a] # NoSession => m_sessions[a] \in Registered
           /\ \A t \in Registered : \E a \in Accounts : m_sessions[a] = t
           /\ \A t \in Sessions : Account(t) \in Accounts
           /\ IsFiniteSet(Registered) /\ Cardinality(Registered) \in Nat
<1>1. Registered \subseteq Sessions
  BY DEF Registered, TypeOK
<1>2. IsFiniteSet(Registered) /\ Cardinality(Registered) \in Nat
  BY <1>1, WorldSessionsAssumption, FS_Subset, FS_CardinalityType
<1> QED BY <1>1, <1>2, WorldSessionsAssumption DEF Registered, Account, TypeOK

\* Session s takes the place of its account, and whoever had it loses it.
LEMMA RegisteredAdd ==
    ASSUME TypeOK, OwnAccount, NEW s \in Sessions,
           m_sessions' = [m_sessions EXCEPT ![Account(s)] = s]
    PROVE  Registered' = (Registered \ {m_sessions[Account(s)]}) \cup {s}
<1> DEFINE a == Account(s)
<1>0. a \in Accounts /\ m_sessions \in [Accounts -> Sessions \cup {NoSession}]
      /\ s # NoSession
  BY RegisterFacts, WorldSessionsAssumption DEF TypeOK
<1>1. m_sessions'[a] = s /\ \A b \in Accounts \ {a} : m_sessions'[b] = m_sessions[b]
  BY <1>0
<1>2. \A b \in Accounts \ {a} : m_sessions[b] # NoSession => m_sessions[b] # m_sessions[a]
  BY <1>0 DEF OwnAccount
<1> HIDE DEF a
<1>3. ASSUME NEW t \in Registered' PROVE t \in (Registered \ {m_sessions[a]}) \cup {s}
  BY <1>0, <1>1, <1>2 DEF Registered
<1>4. ASSUME NEW t \in Registered \ {m_sessions[a]} PROVE t \in Registered'
  BY <1>0, <1>1 DEF Registered
<1>5. s \in Registered'
  BY <1>0, <1>1 DEF Registered
<1> QED BY <1>3, <1>4, <1>5 DEF a

\* The account of s has no session any more.
LEMMA RegisteredRemove ==
    ASSUME TypeOK, OwnAccount, NEW s \in Registered,
           m_sessions' = [m_sessions EXCEPT ![Account(s)] = NoSession]
    PROVE  Registered' = Registered \ {s}
<1> DEFINE a == Account(s)
<1>0. /\ a \in Accounts /\ m_sessions \in [Accounts -> Sessions \cup {NoSession}]
      /\ m_sessions[a] = s /\ s \in Sessions
  BY RegisterFacts DEF TypeOK, OwnAccount
<1>1. m_sessions'[a] = NoSession /\ \A b \in Accounts \ {a} : m_sessions'[b] = m_sessions[b]
  BY <1>0
<1>2. \A b \in Accounts \ {a} : m_sessions[b] # s
  BY <1>0, WorldSessionsAssumption DEF OwnAccount
<1> HIDE DEF a
<1>3. ASSUME NEW t \in Registered' PROVE t \in Registered \ {s}
  BY <1>0, <1>1, <1>2 DEF Registered
<1>4. ASSUME NEW t \in Registered \ {s} PROVE t \in Registered'
  BY <1>0, <1>1 DEF Registered
<1> QED BY <1>3, <1>4

-----------------------------------------------------------------------------
(* The steps of one session.                                                *)

\* A step that touches only session s, and of a session that waits nothing
\* that matters to the queue.
LEMMA OnlyNext ==
    ASSUME IndInv, NEW s \in Sessions, NEW f \in SessionType, Only(s, f),
           f.life = ws[s].life,
           s \notin Registered => f.player = "none",
           s \in Queued => /\ f.told = ws[s].told /\ f.inQueue = ws[s].inQueue
                           /\ f.player = "none" /\ ~f.initializing
    PROVE  IndInv'
<1> USE DEF IndInv, RegisterInv
<1>1. /\ ws'[s] = f /\ \A t \in Sessions \ {s} : ws'[t] = ws[t]
      /\ ws' \in [Sessions -> SessionType]
      /\ UNCHANGED <<addSessQueue, m_sessions, m_sessionsByBnetGuid, m_QueuedPlayer,
                     m_disconnects, m_playerLimit, now, limitRaised>>
  BY DEF Only, TypeOK, registerVars
<1>2. TypeOK'
  BY <1>1 DEF TypeOK
<1>3. Registered' = Registered /\ Registered \subseteq Sessions
  BY <1>1, RegisterFacts DEF Registered
<1>4. \A t \in Sessions : ws'[t].life = ws[t].life
  BY <1>1
<1>5. ToSet(addSessQueue) \subseteq Sessions /\ Queued' = Queued
  BY <1>1, SeqFacts DEF TypeOK, Queued
<1>6. NoDanglingSession'
  BY <1>1, <1>3, <1>4, <1>5 DEF NoDanglingSession
<1>7. OwnAccount' /\ HandedOverOnce'
  BY <1>1, <1>3 DEF OwnAccount, HandedOverOnce
<1>8. Waiting(m_QueuedPlayer, ws)'
  <2>1. \A i \in DOMAIN m_QueuedPlayer : m_QueuedPlayer[i] \in Sessions
                                         /\ m_QueuedPlayer[i] \in Queued
    BY DEF TypeOK, Queued, ToSet
  <2>2. \A t \in Queued : t \in Sessions =>
           /\ ws'[t].told = ws[t].told /\ ws'[t].inQueue = ws[t].inQueue
           /\ (ws[t].player = "none" => ws'[t].player = "none")
           /\ (~ws[t].initializing => ~ws'[t].initializing)
    BY <1>1
  <2> QED BY <1>1, <2>1, <2>2 DEF Waiting
<1> QED BY <1>2, <1>6, <1>7, <1>8

\* The fields of a session.
LEMMA SessionFields ==
    ASSUME TypeOK, NEW s \in Sessions
    PROVE  /\ ws[s] \in SessionType
           /\ ws[s].life \in {"new", "live", "deleted"}
           /\ ws[s].player \in {"none", "loading", "world"}
           /\ ws[s].expireTime \in 0..ExpireTime
           /\ ws[s].told \in Nat
BY DEF TypeOK, SessionType

\* A waiting session is registered and has not begun to initialize.
LEMMA QueuedFacts ==
    ASSUME IndInv, NEW s \in Queued
    PROVE  /\ s \in Registered /\ s \in Sessions
           /\ ws[s].inQueue /\ ws[s].player = "none" /\ ~ws[s].initializing
<1>1. s \in Registered /\ s \in Sessions
  BY RegisterFacts DEF IndInv, RegisterInv, NoDanglingSession
<1>2. PICK i \in DOMAIN m_QueuedPlayer : m_QueuedPlayer[i] = s
  BY DEF Queued, ToSet
<1> QED BY <1>1, <1>2 DEF IndInv, RegisterInv, Waiting

\* The steps of a session's own turn.
LEMMA SelfNext ==
    ASSUME IndInv, NEW s \in Sessions,
           \/ LoseConnection(s) \/ InitializeSessionCallback(s) \/ Linger(s)
           \/ BeginLogin(s) \/ HandlePlayerLogin(s) \/ AbortLogin(s) \/ LogoutPlayer(s)
           \/ KickPlayer(s) \/ LoadFromDBFailed(s)
    PROVE  IndInv'
<1>0. /\ TypeOK /\ ws[s] \in SessionType /\ ws[s].expireTime \in 0..ExpireTime
      /\ s \notin Registered => ws[s].player = "none"
      /\ FALSE \in BOOLEAN /\ TRUE \in BOOLEAN /\ 0 \in Nat
  BY SessionFields DEF IndInv, RegisterInv, HandedOverOnce
<1>1. CASE LoseConnection(s)
  <2> DEFINE f == [ws[s] EXCEPT !.socketOpen = FALSE]
  <2>1. f \in SessionType
    BY <1>0, Zenon DEF SessionType
  <2>2. /\ f.life = ws[s].life /\ f.player = ws[s].player /\ f.told = ws[s].told
        /\ f.inQueue = ws[s].inQueue /\ f.initializing = ws[s].initializing
    BY <1>0 DEF SessionType
  <2>3. Only(s, f)
    BY <1>1 DEF LoseConnection
  <2> HIDE DEF f
  <2> QED BY <1>0, <2>1, <2>2, <2>3, OnlyNext, QueuedFacts
<1>2. CASE InitializeSessionCallback(s)
  <2> DEFINE f == [ws[s] EXCEPT !.initializing = FALSE, !.inQueue = FALSE, !.told = 0]
  <2>1. f \in SessionType
    BY <1>0, Zenon DEF SessionType
  <2>2. f.life = ws[s].life /\ f.player = ws[s].player
    BY <1>0 DEF SessionType
  <2>3. Only(s, f) /\ s \notin Queued
    BY <1>2, QueuedFacts DEF InitializeSessionCallback
  <2> HIDE DEF f
  <2> QED BY <1>0, <2>1, <2>2, <2>3, OnlyNext
<1>3. CASE Linger(s)
  <2> DEFINE f == [ws[s] EXCEPT !.expireTime = Elapse(ws[s].expireTime)]
  <2>0. Elapse(ws[s].expireTime) \in 0..ExpireTime
    BY <1>0, WorldSessionsAssumption DEF Elapse
  <2>1. f \in SessionType
    BY <1>0, <2>0, Zenon DEF SessionType
  <2>2. /\ f.life = ws[s].life /\ f.player = ws[s].player /\ f.told = ws[s].told
        /\ f.inQueue = ws[s].inQueue /\ f.initializing = ws[s].initializing
    BY <1>0 DEF SessionType
  <2>3. Only(s, f)
    BY <1>3 DEF Linger
  <2> HIDE DEF f
  <2> QED BY <1>0, <2>1, <2>2, <2>3, OnlyNext, QueuedFacts
<1>4. ASSUME NEW to \in {"none", "loading", "world"}, s \in Registered, s \notin Queued,
             Only(s, [ws[s] EXCEPT !.player = to])
      PROVE  IndInv'
  <2> DEFINE f == [ws[s] EXCEPT !.player = to]
  <2>1. f \in SessionType
    BY <1>0, Zenon DEF SessionType
  <2>2. f.life = ws[s].life
    BY <1>0 DEF SessionType
  <2>3. Only(s, f)
    BY <1>4
  <2> HIDE DEF f
  <2> QED BY <1>4, <2>1, <2>2, <2>3, OnlyNext
<1>5. CASE BeginLogin(s) \/ HandlePlayerLogin(s) \/ AbortLogin(s) \/ LogoutPlayer(s)
  <2>1. s \notin Queued /\ s \in Registered
    BY <1>5, QueuedFacts DEF BeginLogin, HandlePlayerLogin, AbortLogin, LogoutPlayer,
       SetCharacter
  <2>2. PICK to \in {"none", "loading", "world"} : Only(s, [ws[s] EXCEPT !.player = to])
    BY <1>5, Zenon DEF BeginLogin, HandlePlayerLogin, AbortLogin, LogoutPlayer, SetCharacter
  <2> QED BY <1>4, <2>1, <2>2
<1>6. CASE KickPlayer(s)
  <2> DEFINE f == [ws[s] EXCEPT !.socketOpen = FALSE, !.forceExit = TRUE]
  <2>1. f \in SessionType
    BY <1>0, Zenon DEF SessionType
  <2>2. /\ f.life = ws[s].life /\ f.player = ws[s].player /\ f.told = ws[s].told
        /\ f.inQueue = ws[s].inQueue /\ f.initializing = ws[s].initializing
    BY <1>0 DEF SessionType
  <2>3. Only(s, f)
    BY <1>6 DEF KickPlayer, Kicked
  <2> HIDE DEF f
  <2> QED BY <1>0, <2>1, <2>2, <2>3, OnlyNext, QueuedFacts
<1>7. CASE LoadFromDBFailed(s)
  <2> DEFINE k == [ws[s] EXCEPT !.socketOpen = FALSE, !.forceExit = TRUE]
             f == [k EXCEPT !.player = "none"]
  <2>0. k \in SessionType
    BY <1>0, Zenon DEF SessionType
  <2>1. k.life = ws[s].life
    BY <1>0 DEF SessionType
  <2>2. Only(s, f)
    BY <1>7 DEF LoadFromDBFailed, Kicked
  <2> HIDE DEF k
  <2>3. f \in SessionType
    BY <2>0, Zenon DEF SessionType
  <2>4. f.life = k.life /\ f.player = "none"
    BY <2>0 DEF SessionType
  <2>5. s \notin Queued /\ s \in Registered
    BY <1>7, QueuedFacts DEF LoadFromDBFailed
  <2> HIDE DEF f
  <2> QED BY <2>1, <2>2, <2>3, <2>4, <2>5, OnlyNext
<1> QED BY <1>1, <1>2, <1>3, <1>5, <1>6, <1>7

-----------------------------------------------------------------------------
(* The steps of the register.                                               *)

\* A deleted session.
LEMMA DeletedType ==
    /\ NewSession \in SessionType /\ DeletedSession \in SessionType
    /\ DeletedSession.life = "deleted" /\ DeletedSession.player = "none"
<1>1. NewSession \in SessionType
  BY WorldSessionsAssumption DEF NewSession, SessionType
<1>2. DeletedSession \in SessionType
  BY <1>1, Zenon DEF DeletedSession, SessionType
<1>3. DeletedSession.life = "deleted" /\ DeletedSession.player = "none"
  BY DEF DeletedSession, NewSession
<1> QED BY <1>1, <1>2, <1>3

\* A network thread hands a new session over.
LEMMA AddSessionNext ==
    ASSUME IndInv, NEW s \in Sessions, AddSession(s)
    PROVE  IndInv'
<1> USE DEF IndInv, RegisterInv
<1> DEFINE f == [ws[s] EXCEPT !.life = "live", !.socketOpen = TRUE]
<1>0. ws[s] \in SessionType /\ ws[s].life = "new" /\ addSessQueue \in Seq(Sessions)
  BY SessionFields DEF AddSession, TypeOK
<1>1. f \in SessionType
  BY <1>0, Zenon DEF SessionType
<1>2. /\ f.life = "live" /\ f.player = ws[s].player /\ f.told = ws[s].told
      /\ f.inQueue = ws[s].inQueue /\ f.initializing = ws[s].initializing
  BY <1>0 DEF SessionType
<1>3. /\ ws' = [ws EXCEPT ![s] = f] /\ addSessQueue' = Append(addSessQueue, s)
      /\ UNCHANGED <<m_sessions, m_sessionsByBnetGuid, m_QueuedPlayer,
                     m_disconnects, m_playerLimit, now, limitRaised>>
  BY DEF AddSession, registerVars
<1> HIDE DEF f
<1>4. /\ ws'[s] = f /\ \A t \in Sessions \ {s} : ws'[t] = ws[t]
      /\ ws' \in [Sessions -> SessionType]
  BY <1>1, <1>3 DEF TypeOK
<1>5. /\ addSessQueue' \in Seq(Sessions)
      /\ ToSet(addSessQueue') = ToSet(addSessQueue) \cup {s}
      /\ Injective(addSessQueue) /\ s \notin ToSet(addSessQueue) => Injective(addSessQueue')
      /\ ToSet(addSessQueue) \subseteq Sessions
  BY <1>0, <1>3, AppendFacts, SeqFacts
<1>6. TypeOK'
  BY <1>3, <1>4, <1>5 DEF TypeOK
<1>7. Registered' = Registered /\ Registered \subseteq Sessions /\ Queued' = Queued
  BY <1>3, RegisterFacts DEF Registered, Queued
<1>8. s \notin Registered /\ s \notin ToSet(addSessQueue)
  BY <1>0 DEF NoDanglingSession
<1>9. NoDanglingSession'
  BY <1>2, <1>3, <1>4, <1>5, <1>7, <1>8 DEF NoDanglingSession
<1>10. OwnAccount' /\ HandedOverOnce'
  BY <1>2, <1>3, <1>4, <1>5, <1>7, <1>8 DEF OwnAccount, HandedOverOnce
<1>11. Waiting(m_QueuedPlayer, ws)'
  <2>1. \A i \in DOMAIN m_QueuedPlayer : m_QueuedPlayer[i] \in Sessions \ {s}
    <3>1. \A i \in DOMAIN m_QueuedPlayer : m_QueuedPlayer[i] \in Queued
      BY DEF Queued, ToSet
    <3> QED BY <1>8, <3>1, QueuedFacts
  <2> QED BY <1>3, <1>4, <2>1 DEF Waiting
<1> QED BY <1>6, <1>9, <1>10, <1>11

\* The account's session loads a character: the newcomer is deleted.
LEMMA RefuseNext ==
    ASSUME IndInv, AddSession_, RefuseSession(Head(addSessQueue))
    PROVE  IndInv'
<1> USE DEF IndInv, RegisterInv
<1> DEFINE s == Head(addSessQueue)
<1>1. /\ addSessQueue \in Seq(Sessions) /\ addSessQueue # <<>>
      /\ addSessQueue' = Tail(addSessQueue)
  BY DEF AddSession_, TypeOK
<1>2. /\ addSessQueue' \in Seq(Sessions) /\ s \in Sessions
      /\ ToSet(addSessQueue) = ToSet(addSessQueue') \cup {s}
      /\ Injective(addSessQueue') /\ s \notin ToSet(addSessQueue')
      /\ ToSet(addSessQueue') \subseteq Sessions
  BY <1>1, TailFacts, SeqFacts DEF HandedOverOnce
<1>3. /\ ws' = [ws EXCEPT ![s] = DeletedSession]
      /\ UNCHANGED <<m_sessions, m_sessionsByBnetGuid, m_QueuedPlayer, m_disconnects,
                     m_playerLimit, now>>
      /\ limitRaised' \in BOOLEAN
  BY DEF AddSession_, RefuseSession, registerVars
<1> HIDE DEF s
<1>4. /\ ws'[s] = DeletedSession /\ \A t \in Sessions \ {s} : ws'[t] = ws[t]
      /\ ws' \in [Sessions -> SessionType]
  BY <1>2, <1>3, DeletedType DEF TypeOK
<1>5. TypeOK'
  BY <1>2, <1>3, <1>4 DEF TypeOK
<1>6. Registered' = Registered /\ Registered \subseteq Sessions /\ Queued' = Queued
  BY <1>3, RegisterFacts DEF Registered, Queued
<1>7. s \notin Registered
  BY <1>2 DEF NoDanglingSession
<1>8. NoDanglingSession'
  BY <1>2, <1>3, <1>4, <1>6, <1>7 DEF NoDanglingSession
<1>9. OwnAccount' /\ HandedOverOnce'
  BY <1>2, <1>3, <1>4, <1>6, DeletedType DEF OwnAccount, HandedOverOnce
<1>10. Waiting(m_QueuedPlayer, ws)'
  <2>1. \A i \in DOMAIN m_QueuedPlayer : m_QueuedPlayer[i] \in Sessions \ {s}
    <3>1. \A i \in DOMAIN m_QueuedPlayer : m_QueuedPlayer[i] \in Queued
      BY DEF Queued, ToSet
    <3> QED BY <1>7, <3>1, QueuedFacts
  <2> QED BY <1>3, <1>4, <2>1 DEF Waiting
<1> QED BY <1>5, <1>8, <1>9, <1>10

\* World::KickAll.
LEMMA KickAllNext ==
    ASSUME IndInv, KickAll
    PROVE  IndInv'
<1> USE DEF IndInv, RegisterInv
<1>1. /\ m_QueuedPlayer' = <<>> /\ limitRaised' = FALSE
      /\ UNCHANGED <<addSessQueue, m_sessions, m_sessionsByBnetGuid, m_disconnects,
                     m_playerLimit, now>>
      /\ \A t \in Sessions : ws'[t] = Kicked(ws[t]) \/ ws'[t] = ws[t]
      /\ ws' = [t \in Sessions |-> IF t \in Registered THEN Kicked(ws[t]) ELSE ws[t]]
  BY DEF KickAll
<1>2. ASSUME NEW t \in Sessions
      PROVE  /\ Kicked(ws[t]) \in SessionType
             /\ Kicked(ws[t]).life = ws[t].life /\ Kicked(ws[t]).player = ws[t].player
  <2>1. ws[t] \in SessionType
    BY SessionFields
  <2>2. Kicked(ws[t]) \in SessionType
    BY <2>1, Zenon DEF Kicked, SessionType
  <2>3. Kicked(ws[t]).life = ws[t].life /\ Kicked(ws[t]).player = ws[t].player
    BY <2>1 DEF Kicked, SessionType
  <2> QED BY <2>2, <2>3
<1>3. /\ ws' \in [Sessions -> SessionType]
      /\ \A t \in Sessions : ws'[t].life = ws[t].life /\ ws'[t].player = ws[t].player
  BY <1>1, <1>2 DEF TypeOK
<1>4. TypeOK'
  BY <1>1, <1>3, EmptySeq DEF TypeOK
<1>5. Registered' = Registered /\ Registered \subseteq Sessions
  BY <1>1, RegisterFacts DEF Registered
<1>6. ToSet(<<>>) = {} /\ ToSet(addSessQueue) \subseteq Sessions
  BY SeqFacts DEF ToSet, TypeOK
<1>7. NoDanglingSession'
  BY <1>1, <1>3, <1>5, <1>6 DEF NoDanglingSession, Queued
<1>8. OwnAccount' /\ HandedOverOnce' /\ Waiting(m_QueuedPlayer, ws)'
  BY <1>1, <1>3, <1>5 DEF OwnAccount, HandedOverOnce, Waiting
<1> QED BY <1>4, <1>7, <1>8

\* The queue, and the sessions waiting in it.
LEMMA QueueFacts ==
    ASSUME IndInv
    PROVE  /\ m_QueuedPlayer \in Seq(Sessions) /\ Injective(m_QueuedPlayer)
           /\ Queued \subseteq Registered /\ Queued = ToSet(m_QueuedPlayer)
           /\ Waiting(m_QueuedPlayer, ws) /\ ws \in [Sessions -> SessionType]
BY DEF IndInv, TypeOK, RegisterInv, NoDanglingSession, Injective, Queued

\* Two removals of s in a row.
LEMMA RemoveTwice ==
    ASSUME IndInv, NEW s \in Registered, NEW r1, NEW r2,
           r1 = RemoveQueuedPlayer(m_QueuedPlayer, s, Cardinality(Registered)),
           r2 = RemoveQueuedPlayer(r1.queue, s, Cardinality(Registered))
    PROVE  /\ RemovalSound(m_QueuedPlayer, s, r1) /\ RemovalSound(r1.queue, s, r2)
           /\ RemovalAdmits(m_QueuedPlayer, s, Cardinality(Registered), r1)
           /\ RemovalAdmits(r1.queue, s, Cardinality(Registered), r2)
<1>0. Cardinality(Registered) \in Int
  BY RegisterFacts DEF IndInv
<1>1. /\ RemovalSound(m_QueuedPlayer, s, r1)
      /\ RemovalAdmits(m_QueuedPlayer, s, Cardinality(Registered), r1)
  BY <1>0, QueueFacts, Removal
<1>2. r1.queue \in Seq(Sessions) /\ Injective(r1.queue)
  BY <1>1 DEF RemovalSound, RemovalResult
<1>3. /\ RemovalSound(r1.queue, s, r2)
      /\ RemovalAdmits(r1.queue, s, Cardinality(Registered), r2)
  BY <1>0, <1>2, Removal
<1> QED BY <1>1, <1>3

\* The session is erased and deleted; no pointer to it stays behind, and those
\* behind it in the queue move up and are told.
LEMMA RemoveNext ==
    ASSUME IndInv, NEW s \in Sessions, RemoveFromWorld(s)
    PROVE  IndInv'
<1> USE DEF IndInv, RegisterInv
<1>0. s \in Registered /\ TypeOK /\ OwnAccount
  BY DEF RemoveFromWorld
<1>1. PICK r1, r2 :
         /\ r1 = RemoveQueuedPlayer(m_QueuedPlayer, s, Cardinality(Registered))
         /\ r2 = RemoveQueuedPlayer(r1.queue, s, Cardinality(Registered))
         /\ m_QueuedPlayer' = r2.queue
         /\ m_disconnects' = IF ~r1.found /\ Tolerance # 0
                             THEN [m_disconnects EXCEPT ![Account(s)] = DisconnectTime]
                             ELSE m_disconnects
         /\ ws' = [t \in Sessions |->
                     IF t = s THEN DeletedSession
                     ELSE AfterRemoval(r2, AfterRemoval(r1, ws[t], t), t)]
         /\ limitRaised' = (limitRaised /\ r2.queue # <<>>)
  BY DEF RemoveFromWorld
<1>2. /\ m_sessions' = [m_sessions EXCEPT ![Account(s)] = NoSession]
      /\ m_sessionsByBnetGuid' = m_sessionsByBnetGuid \ {s}
      /\ UNCHANGED <<addSessQueue, m_playerLimit, now>>
  BY DEF RemoveFromWorld
<1>3. /\ RemovalSound(m_QueuedPlayer, s, r1) /\ RemovalSound(r1.queue, s, r2)
      /\ RemovalResult(r1) /\ RemovalResult(r2)
  <2>1. RemovalSound(m_QueuedPlayer, s, r1) /\ RemovalSound(r1.queue, s, r2)
    BY <1>0, <1>1, RemoveTwice
  <2> QED BY <2>1 DEF RemovalSound
<1> DEFINE f == [t \in Sessions |-> AfterRemoval(r1, ws[t], t)]
<1>4. ASSUME NEW t \in Sessions
      PROVE  RemovalEffect(r1, ws[t], t, f[t]) /\ RemovalEffect(r2, f[t], t, AfterRemoval(r2, f[t], t))
  <2>1. ws[t] \in SessionType
    BY SessionFields
  <2>2. RemovalEffect(r1, ws[t], t, AfterRemoval(r1, ws[t], t))
    BY <1>3, <2>1, AfterRemovalFacts
  <2>3. f[t] \in SessionType
    BY <2>2 DEF RemovalEffect
  <2> QED BY <1>3, <2>2, <2>3, AfterRemovalFacts
<1>5. /\ f \in [Sessions -> SessionType]
      /\ ws' \in [Sessions -> SessionType]
      /\ ws'[s] = DeletedSession
      /\ \A t \in Sessions \ {s} : /\ ws'[t] = AfterRemoval(r2, f[t], t)
                                   /\ ws'[t].life = ws[t].life /\ ws'[t].player = ws[t].player
  <2>1. ASSUME NEW t \in Sessions \ {s}
        PROVE  /\ ws'[t] = AfterRemoval(r2, f[t], t) /\ ws'[t] \in SessionType
               /\ ws'[t].life = ws[t].life /\ ws'[t].player = ws[t].player
    <3>1. ws'[t] = AfterRemoval(r2, f[t], t)
      BY <1>1
    <3> HIDE DEF f
    <3> QED BY <1>4, <3>1 DEF RemovalEffect
  <2>2. ws'[s] = DeletedSession
    BY <1>1
  <2>3. ws' \in [Sessions -> SessionType]
    BY <1>1, <2>1, <2>2, DeletedType
  <2>4. f \in [Sessions -> SessionType]
    BY <1>4 DEF RemovalEffect
  <2> QED BY <2>1, <2>2, <2>3, <2>4
<1> HIDE DEF f
<1>6. /\ m_QueuedPlayer' \in Seq(Sessions) /\ Injective(m_QueuedPlayer')
      /\ ToSet(m_QueuedPlayer') \subseteq Queued \ {s}
  <2>1. r2.queue \in Seq(Sessions) /\ Injective(r2.queue)
    BY <1>3 DEF RemovalResult
  <2>2. ToSet(r1.queue) \subseteq ToSet(m_QueuedPlayer)
    BY <1>3 DEF RemovalSound
  <2>3. ToSet(r2.queue) \subseteq ToSet(r1.queue) \ {s}
    BY <1>3 DEF RemovalSound
  <2> QED BY <1>1, <2>1, <2>2, <2>3 DEF Queued
<1>7. Registered' = Registered \ {s} /\ Registered \subseteq Sessions
  BY <1>0, <1>2, RegisteredRemove, RegisterFacts
<1>8. TypeOK'
  <2>1. m_disconnects' \in [Accounts -> 0..MaxTime \cup {NoTime}]
    BY <1>1, WorldSessionsAssumption DEF TypeOK, DisconnectTime
  <2>2. m_sessions' \in [Accounts -> Sessions \cup {NoSession}]
    BY <1>2 DEF TypeOK
  <2>3. limitRaised' \in BOOLEAN
    BY <1>1
  <2> QED BY <1>2, <1>5, <1>6, <2>1, <2>2, <2>3 DEF TypeOK
<1>9. NoDanglingSession'
  <2>1. ToSet(addSessQueue) \subseteq Sessions /\ s \notin ToSet(addSessQueue)
    BY <1>0, SeqFacts DEF TypeOK, NoDanglingSession
  <2>2. \A t \in Registered \ {s} : m_sessions'[Account(t)] = t
    <3>1. \A t \in Registered \ {s} : /\ m_sessions[Account(t)] = t /\ Account(t) \in Accounts
                                      /\ Account(t) # Account(s)
      BY <1>0, <1>7, RegisterFacts DEF NoDanglingSession
    <3> QED BY <1>2, <3>1 DEF TypeOK
  <2>3. \A i, j \in DOMAIN m_QueuedPlayer' : m_QueuedPlayer'[i] = m_QueuedPlayer'[j] => i = j
    BY <1>6 DEF Injective
  <2>4. Queued' \subseteq Registered'
    BY <1>6, <1>7, QueueFacts DEF Queued
  <2>5. m_sessionsByBnetGuid' = Registered'
    BY <1>2, <1>7 DEF NoDanglingSession
  <2> QED BY <1>2, <1>5, <1>7, <2>1, <2>2, <2>3, <2>4, <2>5 DEF NoDanglingSession
<1>10. OwnAccount' /\ HandedOverOnce'
  <2>1. OwnAccount'
    BY <1>2 DEF OwnAccount, TypeOK
  <2>2. HandedOverOnce'
    BY <1>2, <1>5, <1>7, DeletedType DEF HandedOverOnce
  <2> QED BY <2>1, <2>2
<1>11. Waiting(m_QueuedPlayer, ws)'
  <2>1. Waiting(r1.queue, f)
    <3>1. \A t \in ToSet(r1.queue) : f[t] = AfterRemoval(r1, ws[t], t)
      BY <1>3, SeqFacts DEF RemovalResult, f
    <3> QED BY <1>3, <3>1, QueueFacts, WaitingKept
  <2>2. \A t \in ToSet(r2.queue) : ws'[t] = AfterRemoval(r2, f[t], t)
    BY <1>1, <1>5, <1>6, QueueFacts, <1>7
  <2>3. r1.queue \in Seq(Sessions)
    BY <1>3 DEF RemovalResult
  <2>4. Waiting(r2.queue, ws')
    BY <1>3, <1>5, <2>1, <2>2, <2>3, WaitingKept
  <2>5. m_QueuedPlayer' = r2.queue
    BY <1>1
  <2> QED BY <2>4, <2>5 DEF Waiting
<1> QED BY <1>8, <1>9, <1>10, <1>11

\* Without an older session nothing is removed, which is a removal as well.
LEMMA ReplacedSound ==
    ASSUME IndInv, NEW s \in Sessions
    PROVE  /\ RemovalSound(m_QueuedPlayer, m_sessions[Account(s)], RemoveOld(s))
           /\ m_sessions[Account(s)] # NoSession =>
                 RemovalAdmits(m_QueuedPlayer, m_sessions[Account(s)], Cardinality(Registered),
                               RemoveOld(s))
           /\ m_sessions[Account(s)] = NoSession => RemoveOld(s) = NothingRemoved
<1> DEFINE old == m_sessions[Account(s)]
<1>0. /\ Cardinality(Registered) \in Int
      /\ m_QueuedPlayer \in Seq(Sessions) /\ Injective(m_QueuedPlayer)
  BY RegisterFacts, QueueFacts DEF IndInv
<1>1. CASE old = NoSession
  <2>1. RemoveOld(s) = NothingRemoved
    BY <1>1 DEF RemoveOld, Olds
  <2>2. ToSet(m_QueuedPlayer) \subseteq Sessions /\ NoSession \notin Sessions
        /\ Len(m_QueuedPlayer) \in Nat
    BY <1>0, SeqFacts, WorldSessionsAssumption
  <2>3. RemovalSound(m_QueuedPlayer, NoSession, NothingRemoved)
    BY <1>0, <2>2 DEF RemovalSound, RemovalResult, NothingRemoved
  <2> QED BY <1>1, <2>1, <2>3
<1>2. CASE old # NoSession
  <2>1. RemoveOld(s) = RemoveQueuedPlayer(m_QueuedPlayer, old, Cardinality(Registered))
    BY <1>2 DEF RemoveOld, Olds
  <2> HIDE DEF old
  <2>2. /\ RemovalSound(m_QueuedPlayer, old, RemoveOld(s))
        /\ RemovalAdmits(m_QueuedPlayer, old, Cardinality(Registered), RemoveOld(s))
    BY <1>0, <2>1, Removal
  <2> QED BY <1>2, <2>2 DEF old
<1> QED BY <1>1, <1>2

\* Whether the newcomer has to wait after the removal r.
MustWait(s, r) == IsFull(s, r) /\ ~HasRecentlyDisconnected(s)

\* A newcomer replaces an older session of its account.
LEMMA RegisterNext ==
    ASSUME IndInv, AddSession_, RegisterSession(Head(addSessQueue))
    PROVE  IndInv'
<1> USE DEF IndInv, RegisterInv
<1> DEFINE s == Head(addSessQueue)
           old == m_sessions[Account(s)]
           r == RemoveOld(s)
           wait == MustWait(s, r)
           queue == IF wait THEN Append(r.queue, s) ELSE r.queue
           told == IF wait THEN Len(queue) ELSE 0
           new == [ws[s] EXCEPT !.inQueue = wait, !.initializing = ~wait, !.told = told]
<1>1. /\ addSessQueue \in Seq(Sessions) /\ addSessQueue # <<>>
      /\ addSessQueue' = Tail(addSessQueue) /\ TypeOK /\ OwnAccount
  BY DEF AddSession_, TypeOK
<1>2. /\ addSessQueue' \in Seq(Sessions) /\ s \in Sessions
      /\ ToSet(addSessQueue) = ToSet(addSessQueue') \cup {s}
      /\ Injective(addSessQueue') /\ s \notin ToSet(addSessQueue')
      /\ ToSet(addSessQueue') \subseteq Sessions
  BY <1>1, TailFacts, SeqFacts DEF HandedOverOnce
<1>3. /\ m_sessions' = [m_sessions EXCEPT ![Account(s)] = s]
      /\ m_sessionsByBnetGuid' = (m_sessionsByBnetGuid \ Olds(s)) \cup {s}
      /\ EnterOrWait(s, r)
      /\ UNCHANGED <<m_playerLimit, now>> /\ limitRaised' \in BOOLEAN
  BY DEF AddSession_, RegisterSession
<1>4. /\ m_QueuedPlayer' = queue
      /\ \E scanned : m_disconnects' = PruneDisconnects(scanned)
      /\ ws' = [t \in Sessions |-> IF t \in Olds(s) THEN DeletedSession
                                   ELSE IF t = s THEN new ELSE AfterRemoval(r, ws[t], t)]
  BY <1>3 DEF EnterOrWait, MustWait
<1> HIDE DEF s, r, wait, told, new
<1>5. s \notin Registered /\ Registered \subseteq Sessions /\ Account(s) \in Accounts
      /\ Olds(s) \subseteq Registered /\ s \notin Olds(s) /\ s \notin Queued
  BY <1>1, <1>2, RegisterFacts, QueueFacts DEF NoDanglingSession, Olds
<1>6. /\ RemovalSound(m_QueuedPlayer, old, r) /\ RemovalResult(r)
      /\ r.queue \in Seq(Sessions) /\ Injective(r.queue)
      /\ ToSet(r.queue) \subseteq Queued \ {old}
  <2>1. RemovalSound(m_QueuedPlayer, old, r)
    BY <1>2, ReplacedSound DEF r
  <2> QED BY <2>1 DEF RemovalSound, RemovalResult, Queued
<1>7. /\ queue \in Seq(Sessions) /\ Injective(queue)
      /\ ToSet(queue) \subseteq (Queued \ {old}) \cup {s}
  BY <1>2, <1>5, <1>6, AppendFacts
<1>8. wait \in BOOLEAN /\ told \in Nat /\ (wait => told = Len(r.queue) + 1)
  BY <1>2, <1>6, AppendFacts DEF wait, told, MustWait
<1> HIDE DEF queue
<1>9. new \in SessionType
  <2>1. ws[s] \in SessionType /\ (~wait) \in BOOLEAN
    BY <1>2, SessionFields
  <2> QED BY <1>8, <2>1, Zenon DEF new, SessionType
<1>10. /\ new.life = "live" /\ new.player = "none" /\ new.inQueue = wait
       /\ new.initializing = ~wait /\ new.told = told
  <2>1. ws[s] \in SessionType /\ ws[s].life = "live" /\ ws[s].player = "none"
    BY <1>2, <1>5, SessionFields DEF NoDanglingSession, HandedOverOnce
  <2> QED BY <2>1 DEF new, SessionType
<1>11. /\ ws' \in [Sessions -> SessionType]
       /\ ws'[s] = new /\ \A t \in Olds(s) : ws'[t] = DeletedSession
       /\ \A t \in Sessions \ (Olds(s) \cup {s}) :
             /\ ws'[t] = AfterRemoval(r, ws[t], t)
             /\ ws'[t].life = ws[t].life /\ ws'[t].player = ws[t].player
  <2>1. \A t \in Sessions : RemovalEffect(r, ws[t], t, AfterRemoval(r, ws[t], t))
    BY <1>6, SessionFields, AfterRemovalFacts
  <2>2. \A t \in Sessions : /\ AfterRemoval(r, ws[t], t) \in SessionType
                            /\ AfterRemoval(r, ws[t], t).life = ws[t].life
                            /\ AfterRemoval(r, ws[t], t).player = ws[t].player
    BY <2>1 DEF RemovalEffect
  <2>3. ws' \in [Sessions -> SessionType]
    BY <1>4, <1>9, <2>2, DeletedType
  <2> QED BY <1>2, <1>4, <1>5, <2>2, <2>3
<1>12. Registered' = (Registered \ Olds(s)) \cup {s}
  <2>1. Registered' = (Registered \ {m_sessions[Account(s)]}) \cup {s}
    BY <1>1, <1>2, <1>3, RegisteredAdd
  <2>2. NoSession \notin Registered
    BY <1>1, RegisterFacts
  <2> QED BY <2>1, <2>2 DEF Olds
<1>13. TypeOK'
  <2>1. m_disconnects' \in [Accounts -> 0..MaxTime \cup {NoTime}]
    BY <1>4 DEF PruneDisconnects, TypeOK
  <2>2. m_sessions' \in [Accounts -> Sessions \cup {NoSession}]
    BY <1>2, <1>3 DEF TypeOK
  <2>3. m_sessionsByBnetGuid' \subseteq Sessions
    BY <1>2, <1>3 DEF TypeOK
  <2> QED BY <1>2, <1>3, <1>4, <1>7, <1>11, <2>1, <2>2, <2>3 DEF TypeOK
<1>14. OwnAccount'
  BY <1>2, <1>3, <1>5 DEF OwnAccount, TypeOK
<1>15. NoDanglingSession'
  <2>1. \A t \in Registered' : ws'[t].life = "live" /\ t \in Sessions
    BY <1>2, <1>5, <1>10, <1>11, <1>12 DEF NoDanglingSession
  <2>2. \A t \in Registered' : m_sessions'[Account(t)] = t
    <3>1. \A t \in Registered \ Olds(s) : Account(t) # Account(s) /\ Account(t) \in Accounts
      BY <1>5, RegisterFacts DEF NoDanglingSession, Olds
    <3> QED BY <1>2, <1>3, <1>5, <1>12, <3>1 DEF NoDanglingSession, TypeOK
  <2>3. m_sessionsByBnetGuid' = Registered'
    BY <1>3, <1>12 DEF NoDanglingSession
  <2>4. Queued' \subseteq Registered'
    BY <1>4, <1>7, <1>12, QueueFacts DEF Queued, Olds
  <2>5. \A i, j \in DOMAIN m_QueuedPlayer' : m_QueuedPlayer'[i] = m_QueuedPlayer'[j] => i = j
    BY <1>4, <1>7 DEF Injective
  <2>6. \A t \in ToSet(addSessQueue') : ws'[t].life = "live" /\ t \notin Registered'
    BY <1>2, <1>5, <1>11, <1>12 DEF NoDanglingSession
  <2> QED BY <2>1, <2>2, <2>3, <2>4, <2>5, <2>6 DEF NoDanglingSession
<1>16. HandedOverOnce'
  BY <1>2, <1>5, <1>10, <1>11, <1>12, DeletedType DEF HandedOverOnce
<1>17. Waiting(m_QueuedPlayer, ws)'
  <2>1. \A t \in ToSet(r.queue) : ws'[t] = AfterRemoval(r, ws[t], t)
    BY <1>5, <1>6, <1>11, QueueFacts DEF Olds
  <2>2. Waiting(r.queue, ws')
    BY <1>6, <2>1, QueueFacts, WaitingKept
  <2>3. CASE wait
    <3>1. /\ queue = Append(r.queue, s)
          /\ \A i \in DOMAIN r.queue : i \in DOMAIN queue /\ queue[i] = r.queue[i]
          /\ queue[Len(r.queue) + 1] = s
          /\ \A i \in DOMAIN queue : i \in DOMAIN r.queue \/ i = Len(r.queue) + 1
      BY <1>2, <1>6, <2>3, AppendFacts DEF queue
    <3>2. /\ ws'[s].told = Len(r.queue) + 1 /\ ws'[s].inQueue
          /\ ws'[s].player = "none" /\ ~ws'[s].initializing
      BY <1>8, <1>10, <1>11, <2>3
    <3>3. ASSUME NEW i \in DOMAIN queue
          PROVE  /\ ws'[queue[i]].told = i /\ ws'[queue[i]].inQueue
                 /\ ws'[queue[i]].player = "none" /\ ~ws'[queue[i]].initializing
      <4>1. CASE i \in DOMAIN r.queue
        BY <2>2, <3>1, <4>1 DEF Waiting
      <4>2. CASE i = Len(r.queue) + 1
        <5>1. queue[i] = s
          BY <3>1, <4>2
        <5> QED BY <3>2, <4>2, <5>1
      <4> QED BY <3>1, <4>1, <4>2
    <3> QED BY <1>4, <3>3 DEF Waiting
  <2>4. CASE ~wait
    BY <1>4, <2>2, <2>4 DEF Waiting, queue
  <2> QED BY <2>3, <2>4
<1> QED BY <1>13, <1>14, <1>15, <1>16, <1>17

\* Steps that leave the sessions and the register alone.
LEMMA ClockNext ==
    ASSUME IndInv, UNCHANGED <<addSessQueue, registerVars, ws>>,
           m_playerLimit' \in Limits, now' \in 0..MaxTime, limitRaised' \in BOOLEAN
    PROVE  IndInv'
<1> USE DEF IndInv, RegisterInv, registerVars
<1>1. TypeOK'
  BY DEF TypeOK
<1>2. Registered' = Registered /\ Queued' = Queued
  BY DEF Registered, Queued
<1>3. NoDanglingSession' /\ OwnAccount' /\ HandedOverOnce'
  BY <1>2 DEF NoDanglingSession, OwnAccount, HandedOverOnce
<1>4. Waiting(m_QueuedPlayer, ws)'
  BY DEF Waiting
<1> QED BY <1>1, <1>3, <1>4

\* Every step keeps the invariant.
LEMMA IndInvNext == IndInv /\ [Next]_vars => IndInv'
<1> SUFFICES ASSUME IndInv, [Next]_vars PROVE IndInv'
  OBVIOUS
<1>0. m_playerLimit \in Limits /\ now \in 0..MaxTime /\ limitRaised \in BOOLEAN
  BY DEF IndInv, TypeOK
<1>1. CASE AddSession_
  BY <1>1, RefuseNext, RegisterNext DEF AddSession_
<1>2. ASSUME NEW limit \in Limits, SetPlayerAmountLimit(limit) PROVE IndInv'
  BY <1>0, <1>2, ClockNext DEF SetPlayerAmountLimit, registerVars
<1>3. CASE Tick
  BY <1>0, <1>3, ClockNext, WorldSessionsAssumption DEF Tick, registerVars
<1>4. CASE UNCHANGED vars
  BY <1>0, <1>4, ClockNext DEF vars, registerVars
<1> QED
  BY <1>1, <1>2, <1>3, <1>4, AddSessionNext, SelfNext, RemoveNext, KickAllNext DEF Next

\* An empty register satisfies it.
LEMMA IndInvInit == Init => IndInv
<1> SUFFICES ASSUME Init PROVE IndInv
  OBVIOUS
<1>1. TypeOK
  <2>1. <<>> \in Seq(Sessions)
    BY EmptySeq
  <2>2. ws \in [Sessions -> SessionType]
    BY DeletedType DEF Init
  <2>3. now \in 0..MaxTime
    BY WorldSessionsAssumption DEF Init
  <2>5. m_playerLimit \in Limits /\ limitRaised \in BOOLEAN
    BY Zenon DEF Init
  <2>4. /\ m_sessions \in [Accounts -> Sessions \cup {NoSession}]
        /\ m_disconnects \in [Accounts -> 0..MaxTime \cup {NoTime}]
    BY DEF Init
  <2> QED BY <2>1, <2>2, <2>3, <2>4, <2>5 DEF Init, TypeOK
<1>2. Registered = {} /\ Queued = {} /\ ToSet(addSessQueue) = {}
  BY DEF Init, Registered, Queued, ToSet
<1>3. NoDanglingSession /\ OwnAccount /\ HandedOverOnce
  <2>1. NoDanglingSession
    BY <1>2 DEF Init, NoDanglingSession
  <2>2. OwnAccount
    BY DEF Init, OwnAccount
  <2>3. HandedOverOnce
    BY DEF Init, HandedOverOnce, Injective, NewSession
  <2> QED BY <2>1, <2>2, <2>3
<1>4. Waiting(m_QueuedPlayer, ws)
  BY DEF Init, Waiting
<1> QED BY <1>1, <1>3, <1>4 DEF IndInv, RegisterInv

\* The inductive invariant holds whatever the network threads, the world thread
\* and the administrators do.
THEOREM RegisterConsistent == Spec => []IndInv
BY IndInvInit, IndInvNext, PTL DEF Spec

\* The types of the register's state.
THEOREM SessionsTypeOK == Spec => []TypeOK
<1>1. IndInv => TypeOK
  BY DEF IndInv
<1> QED BY <1>1, RegisterConsistent, PTL

\* AddSession_, RemoveSession, UpdateSessions and KickAll never leave a pointer
\* to a deleted WorldSession in m_sessions, m_sessionsByBnetGuid, m_QueuedPlayer
\* or addSessQueue, and nobody waits twice or without being registered.
THEOREM NoSessionDangles == Spec => []NoDanglingSession
<1>1. IndInv => NoDanglingSession
  BY DEF IndInv, RegisterInv
<1> QED BY <1>1, RegisterConsistent, PTL

\* RemoveQueuedPlayer tells its new position to everybody whose position has
\* changed, for a queue of any length and removals anywhere in it.
THEOREM QueuePositionsTold == Spec => []PositionsTold
<1>1. IndInv => PositionsTold
  BY DEF IndInv, RegisterInv, Waiting, PositionsTold
<1> QED BY <1>1, RegisterConsistent, PTL

-----------------------------------------------------------------------------
(* The login queue and the player limit.                                    *)

\* A sequence without repetitions has as many elements as positions.
LEMMA InjectiveCount ==
    ASSUME NEW R, IsFiniteSet(R), NEW q \in Seq(R), Injective(q)
    PROVE  /\ Cardinality(R \ ToSet(q)) = Cardinality(R) - Len(q)
           /\ Cardinality(R) \in Nat /\ Len(q) \in Nat /\ Len(q) <= Cardinality(R)
           /\ \A x \in R : x \notin ToSet(q) => Len(q) < Cardinality(R)
<1> DEFINE Q == ToSet(q)
<1>1. DOMAIN q = 1..Len(q) /\ Len(q) \in Nat /\ Q \subseteq R
  BY SeqFacts
<1>2. q \in Bijection(1..Len(q), Q)
  <2>1. q \in [1..Len(q) -> Q] /\ \A t \in Q : \E i \in 1..Len(q) : q[i] = t
    BY <1>1 DEF ToSet
  <2>2. \A i, j \in 1..Len(q) : q[i] = q[j] => i = j
    BY <1>1 DEF Injective
  <2>3. q \in Injection(1..Len(q), Q)
    BY <1>1, <2>1, <2>2 DEF Injection, IsInjective
  <2>4. q \in Surjection(1..Len(q), Q)
    BY <2>1 DEF Surjection
  <2> QED BY <2>3, <2>4 DEF Bijection
<1>3. IsFiniteSet(1..Len(q)) /\ Cardinality(1..Len(q)) = Len(q)
  BY SMTT(30), <1>1, FS_Interval
<1>4. Cardinality(Q) = Len(q)
  BY <1>2, <1>3, FS_Bijection DEF ExistsBijection
<1>5. R \cap Q = Q
  BY <1>1
<1> HIDE DEF Q
<1>6. Cardinality(R \ Q) = Cardinality(R) - Cardinality(Q) /\ IsFiniteSet(R \ Q)
  BY <1>5, FS_Difference
<1>7. Cardinality(R) \in Nat /\ Cardinality(R \ Q) \in Nat
  BY <1>6, FS_CardinalityType
<1>8. \A x \in R : x \notin Q => Cardinality(R \ Q) # 0
  BY <1>6, FS_EmptySet
<1>9. Cardinality(R \ Q) = Cardinality(R) - Len(q) /\ Len(q) <= Cardinality(R)
  BY <1>1, <1>4, <1>6, <1>7
<1>10. \A x \in R : x \notin Q => Len(q) < Cardinality(R)
  <2> SUFFICES ASSUME NEW x \in R, x \notin Q PROVE Len(q) < Cardinality(R)
    OBVIOUS
  <2> DEFINE m == Cardinality(R \ Q)
             n == Cardinality(R)
  <2>1. m # 0 /\ m \in Nat /\ n \in Nat /\ m = n - Len(q) /\ Len(q) \in Nat
    BY <1>1, <1>7, <1>8, <1>9
  <2> HIDE DEF m, n
  <2>2. Len(q) < n
    BY <2>1
  <2> QED BY <2>2 DEF n
<1> QED BY <1>1, <1>7, <1>9, <1>10 DEF Q

\* Players beyond the waiting ones: "size - Len(queue)" of RemoveQueuedPlayer.
Filled(size, waiting) == m_playerLimit # 0 /\ size - waiting >= m_playerLimit

SlotsFilled == m_QueuedPlayer # <<>> /\ ~limitRaised =>
                  Filled(Cardinality(Registered), Len(m_QueuedPlayer))

\* The players and the waiting, in the numbers the code computes with.
LEMMA IdleSlotCount ==
    ASSUME IndInv
    PROVE  /\ NoIdleSlot <=> SlotsFilled
           /\ m_playerLimit \in Nat
           /\ Cardinality(Registered) \in Nat /\ Len(m_QueuedPlayer) \in Nat
           /\ Len(m_QueuedPlayer) <= Cardinality(Registered)
           /\ m_QueuedPlayer = <<>> <=> Len(m_QueuedPlayer) = 0
           /\ \A x \in Registered : x \notin ToSet(m_QueuedPlayer) =>
                 Len(m_QueuedPlayer) < Cardinality(Registered)
           /\ \A x \in ToSet(m_QueuedPlayer) : Len(m_QueuedPlayer) > 0
<1>0. /\ m_QueuedPlayer \in Seq(Sessions) /\ Injective(m_QueuedPlayer)
      /\ ToSet(m_QueuedPlayer) \subseteq Registered /\ IsFiniteSet(Registered)
      /\ m_playerLimit \in Nat
  BY QueueFacts, RegisterFacts, WorldSessionsAssumption DEF IndInv, TypeOK
<1>1. m_QueuedPlayer \in Seq(Registered)
  BY <1>0 DEF ToSet
<1>2. /\ Cardinality(Registered \ ToSet(m_QueuedPlayer))
             = Cardinality(Registered) - Len(m_QueuedPlayer)
      /\ Cardinality(Registered) \in Nat /\ Len(m_QueuedPlayer) \in Nat
      /\ Len(m_QueuedPlayer) <= Cardinality(Registered)
      /\ \A x \in Registered : x \notin ToSet(m_QueuedPlayer) =>
            Len(m_QueuedPlayer) < Cardinality(Registered)
  BY <1>0, <1>1, InjectiveCount
<1>3. NoIdleSlot <=> SlotsFilled
  BY <1>2 DEF NoIdleSlot, SlotsFilled, Filled, Active, Queued
<1>4. /\ m_QueuedPlayer = <<>> <=> Len(m_QueuedPlayer) = 0
      /\ \A x \in ToSet(m_QueuedPlayer) : Len(m_QueuedPlayer) > 0
  BY <1>0, SeqFacts
<1> QED BY <1>0, <1>2, <1>3, <1>4

\* NoIdleSlot says that the slots are filled, in every state.
LEMMA IdleSlotMeans == IndInv => (NoIdleSlot <=> SlotsFilled)
BY IdleSlotCount

\* A step that changes neither the register nor the queue nor the limit.
LEMMA IdleSlotKept ==
    ASSUME NoIdleSlot, UNCHANGED <<m_sessions, m_QueuedPlayer, m_playerLimit, limitRaised>>
    PROVE  NoIdleSlot'
BY DEF NoIdleSlot, Active, Registered, Queued

\* The newcomer takes the place of an older session, which passes its slot on,
\* or waits because the world is full.
LEMMA RegisterNoIdle ==
    ASSUME IndInv, IndInv', NoIdleSlot, AddSession_, RegisterSession(Head(addSessQueue))
    PROVE  NoIdleSlot'
<1> DEFINE s == Head(addSessQueue)
           old == m_sessions[Account(s)]
           r == RemoveOld(s)
           wait == MustWait(s, r)
           N == Cardinality(Registered)
           L == Len(m_QueuedPlayer)
           K == Len(r.queue)
<1>1. /\ s \in Sessions /\ s \notin Registered /\ TypeOK /\ OwnAccount
      /\ addSessQueue \in Seq(Sessions) /\ addSessQueue # <<>>
  <2>1. addSessQueue \in Seq(Sessions) /\ addSessQueue # <<>> /\ TypeOK /\ OwnAccount
    BY DEF IndInv, RegisterInv, TypeOK, AddSession_
  <2>2. s \in Sessions /\ s \in ToSet(addSessQueue)
    BY <2>1, TailFacts
  <2> QED BY <2>1, <2>2 DEF IndInv, RegisterInv, NoDanglingSession
<1>2. /\ m_sessions' = [m_sessions EXCEPT ![Account(s)] = s]
      /\ m_QueuedPlayer' = IF wait THEN Append(r.queue, s) ELSE r.queue
      /\ m_playerLimit' = m_playerLimit
      /\ limitRaised' = (limitRaised /\ m_QueuedPlayer' # <<>>)
  BY DEF AddSession_, RegisterSession, EnterOrWait, MustWait
<1>3. /\ NoSession \notin Registered /\ (old # NoSession => old \in Registered)
      /\ IsFiniteSet(Registered) /\ N \in Nat
  BY <1>1, RegisterFacts
<1>4. Registered' = (Registered \ Olds(s)) \cup {s}
  BY <1>1, <1>2, <1>3, RegisteredAdd DEF Olds
<1>5. r.queue \in Seq(Sessions)
  BY <1>1, ReplacedSound DEF RemovalSound, RemovalResult
<1>6. K \in Nat /\ Len(m_QueuedPlayer') = IF wait THEN K + 1 ELSE K
  BY <1>1, <1>2, <1>5, AppendFacts
<1>7. Cardinality(Registered') = IF old = NoSession THEN N + 1 ELSE N
  <2>1. IsFiniteSet(Registered \ Olds(s)) /\ s \notin Registered \ Olds(s)
        /\ Cardinality(Registered \ Olds(s)) = IF old = NoSession THEN N ELSE N - 1
    <3>1. old = NoSession => Olds(s) = {} /\ Registered \ Olds(s) = Registered
      BY DEF Olds
    <3>2. old # NoSession => Olds(s) = {old} /\ old \in Registered
      BY <1>3 DEF Olds
    <3>3. /\ IsFiniteSet(Registered \ {old})
          /\ old \in Registered => Cardinality(Registered \ {old}) = N - 1
      BY <1>3, FS_RemoveElement
    <3> HIDE DEF old, s
    <3> QED BY <1>1, <1>3, <3>1, <3>2, <3>3
  <2>2. Cardinality((Registered \ Olds(s)) \cup {s}) = Cardinality(Registered \ Olds(s)) + 1
    BY <2>1, FS_AddElement
  <2> QED BY <1>3, <1>4, <2>1, <2>2
<1>8. wait => /\ m_playerLimit > 0
              /\ r.found => Cardinality(Registered') >= m_playerLimit
              /\ ~r.found => Cardinality(Registered') - 1 >= m_playerLimit
  BY <1>4 DEF MustWait, IsFull
<1>9. /\ m_QueuedPlayer # <<>> /\ ~limitRaised => m_playerLimit # 0 /\ N - L >= m_playerLimit
      /\ m_playerLimit \in Nat /\ L \in Nat
      /\ (m_QueuedPlayer = <<>> <=> L = 0)
      /\ \A x \in Registered : x \notin ToSet(m_QueuedPlayer) => L < N
      /\ \A x \in ToSet(m_QueuedPlayer) : L > 0
  BY IdleSlotCount DEF SlotsFilled, Filled
<1>10. NoIdleSlot' <=> (m_QueuedPlayer' # <<>> /\ ~limitRaised' =>
                          /\ m_playerLimit # 0
                          /\ Cardinality(Registered') - Len(m_QueuedPlayer') >= m_playerLimit)
  <2>1. NoIdleSlot' <=> SlotsFilled'
    BY IdleSlotMeans, PTL
  <2> QED BY <1>2, <2>1 DEF SlotsFilled, Filled
<1>11. (m_QueuedPlayer' = <<>> <=> Len(m_QueuedPlayer') = 0)
  <2>1. m_QueuedPlayer' \in Seq(Sessions)
    BY DEF IndInv, TypeOK
  <2> QED BY <2>1, SeqFacts
<1> SUFFICES ASSUME m_QueuedPlayer' # <<>>, ~limitRaised'
             PROVE  /\ m_playerLimit # 0
                    /\ Cardinality(Registered') - Len(m_QueuedPlayer') >= m_playerLimit
  BY <1>10
<1>12. L > 0 => m_playerLimit # 0 /\ N - L >= m_playerLimit
  <2>1. ~limitRaised
    BY <1>2
  <2> QED BY <1>9, <2>1
<1>13. old = NoSession => r.found = FALSE /\ K = L
  BY <1>1, ReplacedSound DEF NothingRemoved
<1>14. old # NoSession =>
          /\ r.found <=> old \in ToSet(m_QueuedPlayer)
          /\ LET room == HasRoom(OthersActive(r.found, N - L))
                 left == L - (IF r.found THEN 1 ELSE 0) IN
             K = IF room /\ left > 0 THEN left - 1 ELSE left
  BY <1>1, ReplacedSound DEF RemovalAdmits
<1> HIDE DEF s, old, r, wait, N, L, K
<1>15. CASE old = NoSession
  BY <1>3, <1>6, <1>7, <1>8, <1>9, <1>11, <1>12, <1>13, <1>15
<1>16. CASE old # NoSession /\ r.found
  <2>1. L > 0 /\ m_playerLimit # 0 /\ N - L >= m_playerLimit
    BY <1>9, <1>12, <1>14, <1>16
  <2>2. ~HasRoom(OthersActive(r.found, N - L))
    BY <1>3, <1>9, <1>16, <2>1 DEF HasRoom, OthersActive
  <2>3. K = L - 1
    BY <1>14, <1>16, <2>2
  <2> QED BY <1>3, <1>6, <1>7, <1>9, <1>16, <2>1, <2>3
<1>17. CASE old # NoSession /\ ~r.found
  <2>1. L < N
    BY <1>3, <1>9, <1>14, <1>17
  <2>2. HasRoom(OthersActive(r.found, N - L)) <=> (m_playerLimit = 0 \/ N - L - 1 < m_playerLimit)
    BY <1>3, <1>9, <1>17, <2>1 DEF HasRoom, OthersActive
  <2>3. K = IF (m_playerLimit = 0 \/ N - L - 1 < m_playerLimit) /\ L > 0 THEN L - 1 ELSE L
    BY <1>9, <1>14, <1>17, <2>2
  <2> QED BY <1>3, <1>6, <1>7, <1>8, <1>9, <1>11, <1>12, <1>17, <2>1, <2>3
<1> QED BY <1>15, <1>16, <1>17

\* A session that leaves passes its slot on, exactly once although
\* RemoveQueuedPlayer runs twice.
LEMMA RemoveNoIdle ==
    ASSUME IndInv, IndInv', NoIdleSlot, NEW s \in Sessions, RemoveFromWorld(s)
    PROVE  NoIdleSlot'
<1> DEFINE N == Cardinality(Registered)
           L == Len(m_QueuedPlayer)
<1>0. s \in Registered /\ TypeOK /\ OwnAccount
  BY DEF RemoveFromWorld, IndInv, RegisterInv
<1>1. PICK r1, r2 :
         /\ r1 = RemoveQueuedPlayer(m_QueuedPlayer, s, N)
         /\ r2 = RemoveQueuedPlayer(r1.queue, s, N)
         /\ m_QueuedPlayer' = r2.queue
         /\ limitRaised' = (limitRaised /\ r2.queue # <<>>)
  BY DEF RemoveFromWorld
<1>2. m_sessions' = [m_sessions EXCEPT ![Account(s)] = NoSession] /\ m_playerLimit' = m_playerLimit
  BY DEF RemoveFromWorld
<1>3. Registered' = Registered \ {s} /\ Cardinality(Registered') = N - 1 /\ N \in Nat
  BY <1>0, <1>2, RegisteredRemove, RegisterFacts, FS_RemoveElement
<1>4. /\ RemovalSound(m_QueuedPlayer, s, r1) /\ RemovalSound(r1.queue, s, r2)
      /\ RemovalAdmits(m_QueuedPlayer, s, N, r1)
      /\ RemovalAdmits(r1.queue, s, N, r2)
  BY <1>0, <1>1, RemoveTwice
<1>5. /\ m_QueuedPlayer # <<>> /\ ~limitRaised => m_playerLimit # 0 /\ N - L >= m_playerLimit
      /\ m_playerLimit \in Nat /\ L \in Nat
      /\ (m_QueuedPlayer = <<>> <=> L = 0)
      /\ (s \notin ToSet(m_QueuedPlayer) => L < N) /\ L <= N
      /\ \A x \in ToSet(m_QueuedPlayer) : L > 0
  BY <1>0, IdleSlotCount DEF SlotsFilled, Filled
<1>6. NoIdleSlot' <=> (m_QueuedPlayer' # <<>> /\ ~limitRaised' =>
                          /\ m_playerLimit # 0
                          /\ Cardinality(Registered') - Len(m_QueuedPlayer') >= m_playerLimit)
  <2>1. NoIdleSlot' <=> SlotsFilled'
    BY IdleSlotMeans, PTL
  <2> QED BY <1>2, <2>1 DEF SlotsFilled, Filled
<1> SUFFICES ASSUME m_QueuedPlayer' # <<>>, ~limitRaised'
             PROVE  /\ m_playerLimit # 0
                    /\ Cardinality(Registered') - Len(m_QueuedPlayer') >= m_playerLimit
  BY <1>6
<1>7. r2.queue \in Seq(Sessions) /\ r2.queue # <<>> /\ ~limitRaised /\ ~r2.found
  BY <1>1, <1>4 DEF RemovalSound, RemovalResult, RemovalAdmits
<1>8. Len(r2.queue) \in Nat /\ Len(r2.queue) > 0
  BY <1>7, SeqFacts
<1> DEFINE A == Len(r1.queue)
           B == Len(r2.queue)
<1>9. /\ (r1.found <=> s \in ToSet(m_QueuedPlayer))
      /\ A \in Nat /\ B \in Nat
      /\ LET room == HasRoom(OthersActive(r1.found, N - L))
             left == L - (IF r1.found THEN 1 ELSE 0) IN
         A = IF room /\ left > 0 THEN left - 1 ELSE left
      /\ B = IF HasRoom(OthersActive(r2.found, N - A)) /\ A > 0 THEN A - 1 ELSE A
  <2>1. r1.queue \in Seq(Sessions)
    BY <1>4 DEF RemovalSound, RemovalResult
  <2>2. A \in Nat
    BY <2>1, SeqFacts
  <2>3. /\ (r1.found <=> s \in ToSet(m_QueuedPlayer))
        /\ LET room == HasRoom(OthersActive(r1.found, N - L))
               left == L - (IF r1.found THEN 1 ELSE 0) IN
           A = IF room /\ left > 0 THEN left - 1 ELSE left
    BY <1>4 DEF RemovalAdmits
  <2>4. LET room == HasRoom(OthersActive(r2.found, N - A))
            left == A - (IF r2.found THEN 1 ELSE 0) IN
        B = IF room /\ left > 0 THEN left - 1 ELSE left
    BY <1>4 DEF RemovalAdmits
  <2> HIDE DEF N, L, A
  <2>5. B = IF HasRoom(OthersActive(r2.found, N - A)) /\ A > 0 THEN A - 1 ELSE A
    BY <1>7, <2>2, <2>4
  <2> QED BY <1>8, <2>2, <2>3, <2>5
<1> HIDE DEF N, L, A, B
<1>10. L > 0 /\ m_playerLimit # 0 /\ N - L >= m_playerLimit
  <2>1. L > 0
    BY <1>5, <1>7, <1>8, <1>9 DEF B
  <2> QED BY <1>5, <1>7, <2>1
<1>11. HasRoom(OthersActive(r2.found, N - A)) <=>
          IF N - A > 0 THEN N - A - 1 < m_playerLimit ELSE N - A < m_playerLimit
  BY <1>3, <1>7, <1>9, <1>10 DEF HasRoom, OthersActive
<1>12. CASE r1.found
  <2>1. ~HasRoom(OthersActive(r1.found, N - L))
    BY <1>3, <1>5, <1>10, <1>12 DEF HasRoom, OthersActive
  <2>2. A = L - 1
    BY <1>9, <1>12, <2>1
  <2>3. B = L - 1
    BY <1>3, <1>5, <1>9, <1>10, <1>11, <2>2
  <2> QED BY <1>1, <1>3, <1>5, <1>10, <2>3 DEF B
<1>13. CASE ~r1.found
  <2>1. HasRoom(OthersActive(r1.found, N - L)) <=> N - L - 1 < m_playerLimit
    BY <1>3, <1>5, <1>9, <1>10, <1>13 DEF HasRoom, OthersActive
  <2>2. A = IF N - L - 1 < m_playerLimit THEN L - 1 ELSE L
    BY <1>9, <1>5, <1>10, <1>13, <2>1
  <2>3. B = A
    BY <1>3, <1>5, <1>9, <1>10, <1>11, <2>2
  <2> QED BY <1>1, <1>3, <1>5, <1>10, <2>2, <2>3 DEF B
<1> QED BY <1>12, <1>13

\* Every step keeps the slots taken while somebody waits.
LEMMA NoIdleNext == IndInv /\ IndInv' /\ NoIdleSlot /\ [Next]_vars => NoIdleSlot'
<1> SUFFICES ASSUME IndInv, IndInv', NoIdleSlot, [Next]_vars PROVE NoIdleSlot'
  OBVIOUS
<1>1. CASE AddSession_
  <2>1. CASE RefuseSession(Head(addSessQueue))
    <3>1. /\ UNCHANGED <<m_sessions, m_QueuedPlayer, m_playerLimit>>
          /\ limitRaised' = (limitRaised /\ m_QueuedPlayer' # <<>>)
      BY <1>1, <2>1 DEF AddSession_, RefuseSession, registerVars
    <3> QED BY <3>1 DEF NoIdleSlot, Active, Registered, Queued
  <2> QED BY <1>1, <2>1, RegisterNoIdle DEF AddSession_
<1>2. ASSUME NEW limit \in Limits, SetPlayerAmountLimit(limit) PROVE NoIdleSlot'
  <2>1. /\ UNCHANGED <<m_sessions, m_QueuedPlayer>> /\ m_playerLimit' = limit
        /\ limitRaised' = (limitRaised
              \/ (m_QueuedPlayer # <<>> /\ (limit = 0 \/ limit > m_playerLimit)))
    BY <1>2 DEF SetPlayerAmountLimit, registerVars
  <2>2. m_playerLimit \in Nat /\ limit \in Nat
    BY WorldSessionsAssumption DEF IndInv, TypeOK
  <2>5. Active' = Active
    BY <2>1 DEF Active, Registered, Queued
  <2>3. IsFiniteSet(Active)
    BY RegisterFacts, FS_Difference DEF Active, IndInv
  <2>4. Cardinality(Active) \in Nat
    BY <2>3, FS_CardinalityType
  <2> SUFFICES ASSUME m_QueuedPlayer' # <<>>, ~limitRaised'
               PROVE  m_playerLimit' # 0 /\ Cardinality(Active') >= m_playerLimit'
    BY DEF NoIdleSlot
  <2>6. ~limitRaised /\ m_QueuedPlayer # <<>> /\ limit # 0 /\ ~(limit > m_playerLimit)
    BY <2>1
  <2>7. m_playerLimit # 0 /\ Cardinality(Active) >= m_playerLimit
    BY <2>6 DEF NoIdleSlot
  <2> QED BY <2>1, <2>2, <2>4, <2>5, <2>6, <2>7
<1>3. CASE KickAll
  BY <1>3 DEF KickAll, NoIdleSlot
<1>4. ASSUME NEW s \in Sessions,
             \/ AddSession(s) \/ LoseConnection(s)
             \/ InitializeSessionCallback(s) \/ Linger(s)
             \/ BeginLogin(s) \/ HandlePlayerLogin(s) \/ AbortLogin(s) \/ LogoutPlayer(s)
             \/ KickPlayer(s) \/ LoadFromDBFailed(s)
      PROVE  NoIdleSlot'
  <2>1. UNCHANGED <<m_sessions, m_QueuedPlayer, m_playerLimit, limitRaised>>
    BY <1>4 DEF AddSession, LoseConnection, InitializeSessionCallback, Linger, BeginLogin,
                HandlePlayerLogin, AbortLogin, LogoutPlayer, SetCharacter, KickPlayer,
                LoadFromDBFailed, Only, registerVars
  <2> QED BY <2>1, IdleSlotKept
<1>5. CASE Tick \/ UNCHANGED vars
  BY <1>5, IdleSlotKept DEF Tick, vars, registerVars
<1> QED BY <1>1, <1>2, <1>3, <1>4, <1>5, RemoveNoIdle DEF Next

\* Nobody waits while a slot is free: every session that leaves, is replaced or
\* gives up passes its slot to the first one waiting, for any limit, any number
\* of sessions and any order of the steps.
THEOREM SlotsPassedOn == Spec => []NoIdleSlot
<1>1. Init => NoIdleSlot
  BY DEF Init, NoIdleSlot
<1> QED BY <1>1, NoIdleNext, RegisterConsistent, PTL DEF Spec

-----------------------------------------------------------------------------
(* Who is let in.                                                           *)

Admitted == {s \in Active' \ Active : ws'[s].initializing}
Ordinary == {s \in Admitted : s \in Queued \/ ~Privileged(s)}

\* The action of AdmittedWithinLimit.
AdmitsWithinLimit ==
    Ordinary # {} /\ m_playerLimit # 0 =>
        Cardinality(Active' \ (Admitted \ Ordinary)) <= m_playerLimit

\* The active sessions in the numbers the code computes with.
ActiveCounted ==
    /\ Cardinality(Active) = Cardinality(Registered) - Len(m_QueuedPlayer)
    /\ IsFiniteSet(Registered) /\ Cardinality(Registered) \in Nat
    /\ Active \subseteq Registered

\* They are the registered ones less the queue, which has no duplicates.
LEMMA ActiveCount == IndInv => ActiveCounted
<1> SUFFICES ASSUME IndInv PROVE ActiveCounted
  OBVIOUS
<1>1. /\ Queued \subseteq Registered /\ Queued = ToSet(m_QueuedPlayer)
      /\ m_QueuedPlayer \in Seq(Sessions) /\ Injective(m_QueuedPlayer)
      /\ IsFiniteSet(Registered) /\ Cardinality(Registered) \in Nat
  BY QueueFacts, RegisterFacts DEF IndInv
<1>2. m_QueuedPlayer \in Seq(Registered)
  BY <1>1 DEF ToSet
<1>3. Cardinality(Active) = Cardinality(Registered) - Len(m_QueuedPlayer)
  BY <1>1, <1>2, InjectiveCount DEF Active
<1> QED BY <1>1, <1>3 DEF ActiveCounted, Active

\* A step after which the same sessions are registered, and those waiting before
\* wait, or are not being initialized, admits nobody.
LEMMA NobodyAdmitted ==
    ASSUME Registered' \subseteq Registered,
           \A s \in Registered' : s \in Queued => s \in Queued' \/ ~ws'[s].initializing
    PROVE  AdmitsWithinLimit
BY DEF AdmitsWithinLimit, Admitted, Ordinary, Active

\* The session that leaves makes room for as many as are let in, although
\* RemoveQueuedPlayer runs twice.
LEMMA RemoveAdmits ==
    ASSUME IndInv, IndInv', NEW s \in Sessions, RemoveFromWorld(s)
    PROVE  AdmitsWithinLimit
<1> DEFINE N == Cardinality(Registered)
           L == Len(m_QueuedPlayer)
<1>0. s \in Registered /\ TypeOK /\ OwnAccount
  BY DEF RemoveFromWorld, IndInv, RegisterInv
<1>1. PICK r1, r2 :
         /\ r1 = RemoveQueuedPlayer(m_QueuedPlayer, s, N)
         /\ r2 = RemoveQueuedPlayer(r1.queue, s, N)
         /\ m_QueuedPlayer' = r2.queue
  BY DEF RemoveFromWorld
<1>2. m_sessions' = [m_sessions EXCEPT ![Account(s)] = NoSession] /\ m_playerLimit' = m_playerLimit
  BY DEF RemoveFromWorld
<1>3. Registered' = Registered \ {s} /\ Cardinality(Registered') = N - 1 /\ N \in Nat
  BY <1>0, <1>2, RegisteredRemove, RegisterFacts, FS_RemoveElement
<1>4. /\ RemovalSound(m_QueuedPlayer, s, r1) /\ RemovalSound(r1.queue, s, r2)
      /\ RemovalAdmits(m_QueuedPlayer, s, N, r1)
      /\ RemovalAdmits(r1.queue, s, N, r2)
  BY <1>0, <1>1, RemoveTwice
<1> SUFFICES ASSUME Ordinary # {}, m_playerLimit # 0
             PROVE  Cardinality(Active' \ (Admitted \ Ordinary)) <= m_playerLimit
  BY DEF AdmitsWithinLimit
<1>5. Admitted \subseteq Queued /\ Admitted \ Ordinary = {}
  BY <1>3 DEF Admitted, Ordinary, Active
<1>6. r1.popped # {} \/ r2.popped # {}
  <2>1. PICK x \in Ordinary : TRUE
    OBVIOUS
  <2>2. x \in Registered' /\ x \notin Queued' /\ x \in Queued
    BY <1>5, <2>1 DEF Ordinary, Admitted, Active
  <2>3. x \in ToSet(m_QueuedPlayer) /\ x # s /\ x \notin ToSet(r2.queue)
    BY <1>1, <1>3, <2>2 DEF Queued
  <2> QED BY <1>4, <2>3 DEF RemovalSound
<1>7. Cardinality(Active') = N - 1 - Len(r2.queue)
  <2>1. Cardinality(Active') = Cardinality(Registered') - Len(m_QueuedPlayer')
    <3>1. ActiveCounted'
      BY ActiveCount, PTL
    <3> QED BY <3>1 DEF ActiveCounted
  <2> QED BY <1>1, <1>3, <2>1
<1>8. /\ m_playerLimit \in Nat /\ L \in Nat /\ L <= N
      /\ s \notin ToSet(m_QueuedPlayer) => L < N
  BY <1>0, IdleSlotCount
<1>9. s \in ToSet(m_QueuedPlayer) => L > 0
  BY IdleSlotCount
<1> DEFINE A == Len(r1.queue)
           B == Len(r2.queue)
<1>10. A \in Nat /\ B \in Nat /\ ~r2.found
  <2>1. r1.queue \in Seq(Sessions) /\ r2.queue \in Seq(Sessions) /\ ~r2.found
    BY <1>4 DEF RemovalSound, RemovalResult, RemovalAdmits
  <2> QED BY <2>1, SeqFacts
<1>11. /\ (r1.found <=> s \in ToSet(m_QueuedPlayer))
       /\ LET room == HasRoom(OthersActive(r1.found, N - L))
              left == L - (IF r1.found THEN 1 ELSE 0) IN
          /\ A = IF room /\ left > 0 THEN left - 1 ELSE left
          /\ r1.popped # {} <=> (room /\ left > 0)
  BY <1>4 DEF RemovalAdmits
<1>12. LET room == HasRoom(OthersActive(r2.found, N - A))
           left == A - (IF r2.found THEN 1 ELSE 0) IN
       /\ B = IF room /\ left > 0 THEN left - 1 ELSE left
       /\ r2.popped # {} <=> (room /\ left > 0)
  BY <1>4 DEF RemovalAdmits
<1> HIDE DEF N, L, A, B
<1>13. /\ B = IF HasRoom(OthersActive(r2.found, N - A)) /\ A > 0 THEN A - 1 ELSE A
       /\ r2.popped # {} <=> (HasRoom(OthersActive(r2.found, N - A)) /\ A > 0)
  BY <1>10, <1>12
<1>14. A < N
  BY <1>3, <1>8, <1>9, <1>11
<1>15. HasRoom(OthersActive(r2.found, N - A)) <=> N - A - 1 < m_playerLimit
  BY <1>3, <1>10, <1>14, <1>8 DEF HasRoom, OthersActive
<1>16. N - 1 - B <= m_playerLimit
  <2>1. CASE r1.found
    <3>1. HasRoom(OthersActive(r1.found, N - L)) <=> N - L < m_playerLimit
      BY <1>3, <1>8, <2>1 DEF HasRoom, OthersActive
    <3>2. /\ A = IF N - L < m_playerLimit /\ L - 1 > 0 THEN L - 2 ELSE L - 1
          /\ r1.popped # {} <=> (N - L < m_playerLimit /\ L - 1 > 0)
      <4>1. L - (IF r1.found THEN 1 ELSE 0) = L - 1 /\ (L - 1) - 1 = L - 2
        BY <1>8, <2>1
      <4> QED BY <1>11, <3>1, <4>1
    <3>3. /\ B = IF N - A - 1 < m_playerLimit /\ A > 0 THEN A - 1 ELSE A
          /\ r2.popped # {} <=> (N - A - 1 < m_playerLimit /\ A > 0)
      BY <1>13, <1>15
    <3>4. CASE r2.popped # {}
      BY <1>3, <1>8, <1>10, <3>3, <3>4
    <3>5. CASE r2.popped = {}
      BY <1>3, <1>6, <1>8, <1>10, <3>2, <3>3, <3>5
    <3> QED BY <3>4, <3>5
  <2>2. CASE ~r1.found
    <3>1. HasRoom(OthersActive(r1.found, N - L)) <=> N - L - 1 < m_playerLimit
      BY <1>3, <1>8, <1>11, <2>2 DEF HasRoom, OthersActive
    <3> QED BY <1>3, <1>6, <1>8, <1>10, <1>11, <1>13, <1>15, <2>2, <3>1
  <2> QED BY <2>1, <2>2
<1>17. Active' \ (Admitted \ Ordinary) = Active'
  BY <1>5
<1> QED BY <1>7, <1>16, <1>17 DEF B

\* A newcomer enters when all the registered sessions with it are within the
\* limit; whoever an older session makes room for is within it without the
\* newcomer.
LEMMA RegisterAdmits ==
    ASSUME IndInv, IndInv', AddSession_, RegisterSession(Head(addSessQueue))
    PROVE  AdmitsWithinLimit
<1> DEFINE s == Head(addSessQueue)
           old == m_sessions[Account(s)]
           r == RemoveOld(s)
           wait == MustWait(s, r)
           N == Cardinality(Registered)
           L == Len(m_QueuedPlayer)
           K == Len(r.queue)
<1>1. /\ s \in Sessions /\ s \notin Registered /\ TypeOK /\ OwnAccount
      /\ addSessQueue \in Seq(Sessions) /\ addSessQueue # <<>>
  <2>1. addSessQueue \in Seq(Sessions) /\ addSessQueue # <<>> /\ TypeOK /\ OwnAccount
    BY DEF IndInv, RegisterInv, TypeOK, AddSession_
  <2>2. s \in Sessions /\ s \in ToSet(addSessQueue)
    BY <2>1, TailFacts
  <2> QED BY <2>1, <2>2 DEF IndInv, RegisterInv, NoDanglingSession
<1>2. /\ m_sessions' = [m_sessions EXCEPT ![Account(s)] = s]
      /\ m_QueuedPlayer' = IF wait THEN Append(r.queue, s) ELSE r.queue
  BY DEF AddSession_, RegisterSession, EnterOrWait, MustWait
<1>3. /\ NoSession \notin Registered /\ (old # NoSession => old \in Registered)
      /\ IsFiniteSet(Registered) /\ N \in Nat
  BY <1>1, RegisterFacts
<1>4. Registered' = (Registered \ Olds(s)) \cup {s}
  BY <1>1, <1>2, <1>3, RegisteredAdd DEF Olds
<1>5. r.queue \in Seq(Sessions) /\ Injective(r.queue) /\ K \in Nat
      /\ RemovalSound(m_QueuedPlayer, old, r)
  BY <1>1, ReplacedSound, SeqFacts DEF RemovalSound, RemovalResult
<1>6. wait => s \in Queued'
  BY <1>1, <1>2, <1>5, AppendFacts DEF Queued
<1>7. ~wait => ws'[s].initializing
  <2>1. s \notin Olds(s)
    BY <1>1, <1>3 DEF Olds
  <2>2. PICK told : ws'[s] = [ws[s] EXCEPT !.inQueue = wait, !.initializing = ~wait, !.told = told]
    BY <1>1, <2>1 DEF RegisterSession, EnterOrWait, MustWait
  <2>3. ws[s] \in SessionType
    BY <1>1 DEF TypeOK
  <2>4. ws'[s].initializing = ~wait
    BY <2>2, <2>3, Zenon DEF SessionType
  <2> QED BY <2>4
<1> SUFFICES ASSUME Ordinary # {}, m_playerLimit # 0
             PROVE  Cardinality(Active' \ (Admitted \ Ordinary)) <= m_playerLimit
  BY DEF AdmitsWithinLimit
<1> DEFINE Kept == Active' \ (Admitted \ Ordinary)
<1>8. /\ IsFiniteSet(Registered') /\ Cardinality(Registered') \in Nat
      /\ Active' \subseteq Registered' /\ m_playerLimit \in Nat
  <2>1. /\ IsFiniteSet(Registered') /\ Cardinality(Registered') \in Nat
        /\ Active' \subseteq Registered'
    <3>1. ActiveCounted'
      BY ActiveCount, PTL
    <3> QED BY <3>1 DEF ActiveCounted
  <2> QED BY <2>1, IdleSlotCount
<1>9. CASE s \in Ordinary
  <2>1. ~wait /\ ~Privileged(s)
    BY <1>1, <1>6, <1>9, QueueFacts DEF Ordinary, Admitted, Active
  <2>2. ~IsFull(s, r) /\ Account(s) \notin Staff
    BY <2>1 DEF MustWait, Privileged
  <2> DEFINE size == Cardinality(Registered')
  <2>3. ~((IF r.found THEN size ELSE size - 1) >= m_playerLimit) /\ size \in Nat
    BY <1>4, <1>8, <2>2 DEF IsFull
  <2> HIDE DEF size
  <2>4. size <= m_playerLimit
    BY <1>8, <2>3
  <2>5. Kept \subseteq Registered'
    BY <1>8
  <2>6. IsFiniteSet(Kept) /\ Cardinality(Kept) <= size
    BY <1>8, <2>5, FS_Subset DEF size
  <2>7. Cardinality(Kept) \in Nat
    BY <2>6, FS_CardinalityType
  <2> HIDE DEF Kept
  <2>8. Cardinality(Kept) <= m_playerLimit
    BY <1>8, <2>3, <2>4, <2>6, <2>7
  <2> QED BY <2>8 DEF Kept
<1>10. CASE s \notin Ordinary
  <2>1. s \notin Kept
    BY <1>6, <1>7, <1>10, <1>1 DEF Admitted, Active
  <2>2. PICK x \in Ordinary : x # s
    BY <1>10
  <2>3. x \in Registered /\ x \in Queued /\ x # old /\ x \notin ToSet(m_QueuedPlayer')
    <3>1. x \in Registered' /\ x \notin Active /\ x \notin ToSet(m_QueuedPlayer')
      BY <2>2 DEF Ordinary, Admitted, Active, Queued
    <3>2. x \in Registered /\ x \notin Olds(s)
      BY <1>4, <2>2, <3>1
    <3> QED BY <1>3, <3>1, <3>2 DEF Active, Olds
  <2>4. x \notin ToSet(r.queue)
    BY <1>1, <1>2, <1>5, <2>3, AppendFacts
  <2>5. r.popped # {}
    BY <1>5, <2>3, <2>4 DEF RemovalSound, Queued
  <2>6. old # NoSession /\ old \in Registered
    <3>1. NothingRemoved.popped = {}
      BY DEF NothingRemoved
    <3> QED BY <1>1, <1>3, <2>5, <3>1, ReplacedSound
  <2> DEFINE R == Registered \ {old}
  <2>7. IsFiniteSet(R) /\ Cardinality(R) = N - 1
    BY <1>3, <2>6, FS_RemoveElement
  <2>8. r.queue \in Seq(R)
    <3>1. ToSet(r.queue) \subseteq R
      BY <1>5, QueueFacts DEF RemovalSound
    <3> QED BY <1>5, <3>1 DEF ToSet
  <2>9. Kept \subseteq R \ ToSet(r.queue)
    <3> SUFFICES ASSUME NEW y \in Kept PROVE y \in R \ ToSet(r.queue)
      OBVIOUS
    <3>1. y # s /\ y \in Registered' /\ y \notin ToSet(m_QueuedPlayer')
      BY <2>1 DEF Active, Queued
    <3>2. y \in R
      BY <1>4, <2>6, <3>1 DEF Olds
    <3>3. y \notin ToSet(r.queue)
      BY <1>1, <1>2, <1>5, <3>1, AppendFacts
    <3> QED BY <3>2, <3>3
  <2>10. /\ Cardinality(R \ ToSet(r.queue)) = N - 1 - K
         /\ IsFiniteSet(R \ ToSet(r.queue))
    <3>1. Cardinality(R \ ToSet(r.queue)) = Cardinality(R) - Len(r.queue)
      BY <1>5, <2>7, <2>8, InjectiveCount
    <3>2. IsFiniteSet(R \ ToSet(r.queue))
      BY <2>7, FS_Difference
    <3> QED BY <2>7, <3>1, <3>2
  <2>11. Cardinality(Kept) <= N - 1 - K
    BY <2>9, <2>10, FS_Subset
  <2>12. /\ L \in Nat /\ L <= N /\ (old \notin ToSet(m_QueuedPlayer) => L < N)
    BY <2>6, IdleSlotCount
  <2>13. LET room == HasRoom(OthersActive(r.found, N - L))
             left == L - (IF r.found THEN 1 ELSE 0) IN
         /\ r.found <=> old \in ToSet(m_QueuedPlayer)
         /\ room /\ K = left - 1
    BY <1>1, <2>5, <2>6, ReplacedSound DEF RemovalAdmits
  <2>14. Cardinality(Kept) \in Nat
    BY <2>9, <2>10, FS_Subset, FS_CardinalityType
  <2> HIDE DEF Kept, N, L, K, r, old, s, wait
  <2>15. N - 1 - K <= m_playerLimit
    BY <1>3, <1>8, <2>12, <2>13 DEF HasRoom, OthersActive
  <2>16. Cardinality(Kept) <= m_playerLimit
    BY <1>3, <1>5, <1>8, <2>11, <2>14, <2>15
  <2> QED BY <2>16 DEF Kept
<1> QED BY <1>9, <1>10

\* Every step lets in only whom the limit allows.
LEMMA AdmitsNext == IndInv /\ IndInv' /\ [Next]_vars => AdmitsWithinLimit
<1> SUFFICES ASSUME IndInv, IndInv', [Next]_vars PROVE AdmitsWithinLimit
  OBVIOUS
<1>1. CASE AddSession_
  <2>1. CASE RefuseSession(Head(addSessQueue))
    <3>1. UNCHANGED <<m_sessions, m_QueuedPlayer>>
      BY <1>1, <2>1 DEF AddSession_, RefuseSession, registerVars
    <3> QED BY <3>1, NobodyAdmitted DEF Registered, Queued
  <2> QED BY <1>1, <2>1, RegisterAdmits DEF AddSession_
<1>2. CASE KickAll
  <2>1. m_sessions' = m_sessions /\ Registered' = Registered
    BY <1>2 DEF KickAll, Registered
  <2>2. ASSUME NEW s \in Registered, s \in Queued PROVE ~ws'[s].initializing
    <3>1. s \in Sessions /\ ws[s] \in SessionType
      BY RegisterFacts DEF IndInv, TypeOK
    <3>2. ~ws[s].initializing
      BY <2>2, QueueFacts DEF Waiting, ToSet
    <3>3. ws'[s] = Kicked(ws[s])
      BY <1>2, <3>1 DEF KickAll
    <3>4. ws'[s].initializing = ws[s].initializing
      BY <3>1, <3>3, Zenon DEF Kicked, SessionType
    <3> QED BY <3>2, <3>4
  <2> QED BY <2>1, <2>2, NobodyAdmitted
<1>3. ASSUME NEW s \in Sessions,
             \/ AddSession(s) \/ LoseConnection(s)
             \/ InitializeSessionCallback(s) \/ Linger(s)
             \/ BeginLogin(s) \/ HandlePlayerLogin(s) \/ AbortLogin(s) \/ LogoutPlayer(s)
             \/ KickPlayer(s) \/ LoadFromDBFailed(s)
      PROVE  AdmitsWithinLimit
  <2>1. UNCHANGED <<m_sessions, m_QueuedPlayer>>
    BY <1>3 DEF AddSession, LoseConnection, InitializeSessionCallback, Linger, BeginLogin,
                HandlePlayerLogin, AbortLogin, LogoutPlayer, SetCharacter, KickPlayer,
                LoadFromDBFailed, Only, registerVars
  <2> QED BY <2>1, NobodyAdmitted DEF Registered, Queued
<1>4. ASSUME \/ \E limit \in Limits : SetPlayerAmountLimit(limit)
             \/ Tick \/ UNCHANGED vars
      PROVE  AdmitsWithinLimit
  <2>1. UNCHANGED <<m_sessions, m_QueuedPlayer>>
    BY <1>4 DEF SetPlayerAmountLimit, Tick, vars, registerVars
  <2> QED BY <2>1, NobodyAdmitted DEF Registered, Queued
<1> QED BY <1>1, <1>2, <1>3, <1>4, RemoveAdmits DEF Next

\* AddSession_ and RemoveQueuedPlayer let an ordinary session in only when, with
\* it, the world is within m_playerLimit, whatever leaves and arrives in one
\* step and although the two count the players differently.
THEOREM LimitRespected == Spec => AdmittedWithinLimit
<1>1. [Next]_vars /\ IndInv /\ IndInv' => [AdmitsWithinLimit]_vars
  BY AdmitsNext
<1>2. Spec => [][AdmitsWithinLimit]_vars
  BY <1>1, RegisterConsistent, PTL DEF Spec
<1> QED BY <1>2, PTL DEF AdmittedWithinLimit, AdmitsWithinLimit, Admitted, Ordinary
=============================================================================
