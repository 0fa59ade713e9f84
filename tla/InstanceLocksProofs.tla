------------------------ MODULE InstanceLocksProofs -------------------------
(***************************************************************************)
(* Proofs about InstanceLocks, for any players, dungeons and encounters and *)
(* any range of instance ids.                                               *)
(***************************************************************************)
EXTENDS InstanceLocks, FiniteSetTheorems, WellFoundedInduction, TLAPS

-----------------------------------------------------------------------------
(* Induction over the natural numbers, for a set instead of a predicate.    *)

Less == {p \in Nat \X Nat : p[1] < p[2]}

\* A nonempty set of natural numbers has a least element.
LEMMA LeastExists ==
    ASSUME NEW S \in SUBSET Nat, S # {}
    PROVE  \E x \in S : \A y \in S : x <= y
<1>1. IsWellFoundedOn(Less, Nat)
  <2>1. IsWellFoundedOn(OpToRel(<, Nat), Nat)
    BY NatLessThanWellFounded
  <2>2. Less = OpToRel(<, Nat)
    BY DEF Less, OpToRel
  <2> QED BY <2>1, <2>2
<1>2. PICK x \in S : \A y \in S : <<y, x>> \notin Less
  BY <1>1, WFMin
<1>3. \A y \in S : ~(y < x)
  BY <1>2 DEF Less
<1> QED BY <1>2, <1>3

\* A set with 0 and, with every number, its successor contains them all.
LEMMA SetInduction ==
    ASSUME NEW S, 0 \in S, \A n \in Nat : n \in S => n + 1 \in S
    PROVE  Nat \subseteq S
<1> DEFINE T == Nat \ S
<1> SUFFICES ASSUME T # {} PROVE FALSE
  OBVIOUS
<1>1. PICK x \in T : \A y \in T : x <= y
  BY LeastExists
<1>2. x \in Nat /\ x # 0 /\ x - 1 \in Nat /\ ~(x <= x - 1) /\ (x - 1) + 1 = x
  BY <1>1
<1>3. x - 1 \in S
  BY <1>1, <1>2
<1> QED BY <1>1, <1>2, <1>3

\* The least element, as the model picks it.
LEMMA LowestIs ==
    ASSUME NEW S \in SUBSET Nat, S # {}
    PROVE  Lowest(S) \in S /\ \A y \in S : Lowest(S) <= y
BY LeastExists DEF Lowest

\* A nonempty set of numbers up to n has a greatest element.
LEMMA MaxIs ==
    ASSUME NEW n \in Nat, NEW S \in SUBSET 1..n, S # {}
    PROVE  Max(S) \in S /\ \A y \in S : Max(S) >= y
<1> DEFINE U == {k \in Nat : \A y \in S : k >= y}
<1>1. n \in U /\ U \subseteq Nat
  OBVIOUS
<1>2. PICK x \in U : \A y \in U : x <= y
  BY <1>1, LeastExists
<1>3. x \in S
  <2> SUFFICES ASSUME x \notin S PROVE FALSE
    OBVIOUS
  <2>1. PICK z \in S : TRUE
    OBVIOUS
  <2>2. x \in Nat /\ x # 0
    BY <1>2, <2>1
  <2>3. x - 1 \in U
    <3>1. x - 1 \in Nat
      BY <2>2
    <3>2. \A y \in S : y \in Nat /\ x >= y /\ x # y
      BY <1>2
    <3> QED BY <2>2, <3>1, <3>2
  <2> QED BY <1>2, <2>2, <2>3
<1>4. \E y \in S : \A z \in S : y >= z
  BY <1>2, <1>3
<1> QED BY <1>4 DEF Max

\* There is an address that is not used yet.
LEMMA UnusedExists ==
    ASSUME NEW used, IsFiniteSet(used)
    PROVE  FirstUnused(used) \in Addresses \ used
<1> DEFINE n == Cardinality(used)
           S == (1..(n + 1)) \ used
<1>1. n \in Nat
  BY FS_CardinalityType
<1>2. S # {}
  <2> SUFFICES ASSUME 1..(n + 1) \subseteq used PROVE FALSE
    OBVIOUS
  <2>1. IsFiniteSet(1..(n + 1)) /\ Cardinality(1..(n + 1)) = n + 1
    <3>1. n + 1 \in Nat /\ 1 \in Int /\ n + 1 \in Int /\ ~(1 > n + 1) /\ (n + 1) - 1 + 1 = n + 1
      BY <1>1
    <3> HIDE DEF n
    <3> QED BY <3>1, FS_Interval
  <2>2. n + 1 <= n
    BY <2>1, FS_Subset
  <2> QED BY <1>1, <2>2
<1>3. S \subseteq Nat \ {0}
  BY <1>1
<1>4. Lowest(S) \in S
  BY <1>2, <1>3, LowestIs
<1> QED BY <1>3, <1>4 DEF FirstUnused, Addresses

-----------------------------------------------------------------------------
(* The fold of UpdateInstanceLock over the players inside.                  *)

SavedStep(i, done, p, t) ==
    UpdateInstanceLockForPlayer(t, p, i[1], i[2], done, mgr.locks[maps[i].lock].mask \cup done)
SavedBase(i, done) ==
    IF IsInstanceIdBound(i[1]) THEN UpdateSharedInstanceLock(Begin, i[2], done) ELSE Begin

Pick(s) == CHOOSE x \in s : TRUE

\* The recursion, on the sets that are in D.
SavedRec(f, D, i, done) ==
    f = [s \in D |-> IF s = {} THEN SavedBase(i, done)
                     ELSE SavedStep(i, done, Pick(s), f[s \ {Pick(s)}])]

\* A solution of the recursion satisfies it at every set.
LEMMA SavedAt ==
    ASSUME NEW f, NEW D, NEW i, NEW done, SavedRec(f, D, i, done), NEW s \in D
    PROVE  f[s] = IF s = {} THEN SavedBase(i, done)
                  ELSE SavedStep(i, done, Pick(s), f[s \ {Pick(s)}])
<1> DEFINE g == [u \in D |-> IF u = {} THEN SavedBase(i, done)
                             ELSE SavedStep(i, done, Pick(u), f[u \ {Pick(u)}])]
<1>1. f = g
  BY Zenon DEF SavedRec
<1>2. g[s] = IF s = {} THEN SavedBase(i, done) ELSE SavedStep(i, done, Pick(s), f[s \ {Pick(s)}])
  OBVIOUS
<1> HIDE DEF g
<1> QED BY <1>1, <1>2

UpTo(S, n) == {s \in SUBSET S : Cardinality(s) <= n}

\* Taking an element out of a set.
LEMMA Smaller ==
    ASSUME NEW S, IsFiniteSet(S), NEW n \in Nat, NEW s \in UpTo(S, n + 1), NEW x \in s
    PROVE  s \ {x} \in UpTo(S, n)
<1>1. IsFiniteSet(s) /\ Cardinality(s) \in Nat /\ Cardinality(s) <= n + 1
  BY FS_Subset, FS_CardinalityType DEF UpTo
<1>2. Cardinality(s \ {x}) = Cardinality(s) - 1
  BY <1>1, FS_RemoveElement
<1>3. Cardinality(s) - 1 <= n
  BY <1>1
<1> QED BY <1>2, <1>3 DEF UpTo

\* The recursion has a solution.
LEMMA SavedSolution ==
    ASSUME NEW i, NEW done, NEW S, IsFiniteSet(S)
    PROVE  \E f : SavedRec(f, SUBSET S, i, done)
<1> DEFINE N == {n \in Nat : \E f : SavedRec(f, UpTo(S, n), i, done)}
<1>1. 0 \in N
  <2> DEFINE f == [s \in UpTo(S, 0) |-> SavedBase(i, done)]
  <2>1. \A s \in UpTo(S, 0) : s = {}
    <3> SUFFICES ASSUME NEW s \in UpTo(S, 0) PROVE s = {}
      OBVIOUS
    <3>1. IsFiniteSet(s) /\ Cardinality(s) \in Nat /\ Cardinality(s) <= 0
      BY FS_Subset, FS_CardinalityType DEF UpTo
    <3> QED BY <3>1, FS_EmptySet
  <2>2. SavedRec(f, UpTo(S, 0), i, done)
    <3> DEFINE g == [s \in UpTo(S, 0) |-> IF s = {} THEN SavedBase(i, done)
                                          ELSE SavedStep(i, done, Pick(s), f[s \ {Pick(s)}])]
    <3>1. \A s \in UpTo(S, 0) : f[s] = g[s]
      BY <2>1
    <3>2. f = g
      BY <3>1, Zenon
    <3> QED BY <3>2, Zenon DEF SavedRec
  <2> QED BY <2>2
<1>2. ASSUME NEW n \in Nat, n \in N PROVE n + 1 \in N
  <2>1. PICK f : SavedRec(f, UpTo(S, n), i, done)
    BY <1>2
  <2> DEFINE g == [s \in UpTo(S, n + 1) |->
                     IF s = {} THEN SavedBase(i, done)
                     ELSE SavedStep(i, done, Pick(s), f[s \ {Pick(s)}])]
             h == [s \in UpTo(S, n + 1) |->
                     IF s = {} THEN SavedBase(i, done)
                     ELSE SavedStep(i, done, Pick(s), g[s \ {Pick(s)}])]
  <2>2. ASSUME NEW s \in UpTo(S, n + 1), s # {} PROVE g[s \ {Pick(s)}] = f[s \ {Pick(s)}]
    <3>1. Pick(s) \in s
      BY <2>2 DEF Pick
    <3>2. s \ {Pick(s)} \in UpTo(S, n)
      BY <3>1, Smaller
    <3> DEFINE r == s \ {Pick(s)}
    <3>3. r \in UpTo(S, n + 1)
      <4>1. Cardinality(r) \in Nat
        BY <3>2, FS_Subset, FS_CardinalityType DEF UpTo
      <4> HIDE DEF r
      <4> QED BY <3>2, <4>1 DEF UpTo, r
    <3>6. r \in UpTo(S, n)
      BY <3>2
    <3> HIDE DEF r
    <3>4. f[r] = IF r = {} THEN SavedBase(i, done) ELSE SavedStep(i, done, Pick(r), f[r \ {Pick(r)}])
      BY <2>1, <3>6, SavedAt
    <3>5. g[r] = IF r = {} THEN SavedBase(i, done) ELSE SavedStep(i, done, Pick(r), f[r \ {Pick(r)}])
      BY <3>3
    <3> QED BY <3>4, <3>5 DEF r
  <2>3. \A s \in UpTo(S, n + 1) : g[s] = h[s]
    <3> SUFFICES ASSUME NEW s \in UpTo(S, n + 1) PROVE g[s] = h[s]
      OBVIOUS
    <3>1. h[s] = IF s = {} THEN SavedBase(i, done) ELSE SavedStep(i, done, Pick(s), g[s \ {Pick(s)}])
      BY Zenon
    <3>2. g[s] = IF s = {} THEN SavedBase(i, done) ELSE SavedStep(i, done, Pick(s), f[s \ {Pick(s)}])
      BY Zenon
    <3> HIDE DEF g, h
    <3> QED BY <2>2, <3>1, <3>2
  <2>4. g = h
    BY <2>3, Zenon
  <2>5. SavedRec(g, UpTo(S, n + 1), i, done)
    BY <2>4, Zenon DEF SavedRec
  <2> QED BY <2>5
<1> HIDE DEF N
<1>3. Nat \subseteq N
  BY <1>1, <1>2, SetInduction
<1>4. Cardinality(S) \in N
  BY <1>3, FS_CardinalityType
<1>5. UpTo(S, Cardinality(S)) = SUBSET S
  BY FS_Subset DEF UpTo
<1> QED BY <1>4, <1>5 DEF N

SavedFun(i, done) == CHOOSE f : SavedRec(f, SUBSET Inside(i), i, done)

\* The fold is the solution at the set of all players inside.
LEMMA SavedIs ==
    ASSUME NEW i, NEW done
    PROVE  Saved(i, done) = SavedFun(i, done)[Inside(i)]
BY DEF Saved, SavedFun, SavedRec, FoldSet, MapThenFoldSet, SavedStep, SavedBase, Pick

\* All that is met on the way.
Results(i, done) == {SavedFun(i, done)[s] : s \in SUBSET Inside(i)}

\* What every step preserves holds of the fold.
LEMMA SavedInduction ==
    ASSUME NEW i, NEW done, NEW G,
           SavedBase(i, done) \in Results(i, done) => SavedBase(i, done) \in G,
           \A p \in Inside(i) : \A t \in G :
              SavedStep(i, done, p, t) \in Results(i, done) => SavedStep(i, done, p, t) \in G
    PROVE  Saved(i, done) \in G
<1> DEFINE S == Inside(i)
           f == SavedFun(i, done)
<1>1. IsFiniteSet(S)
  BY InstanceLocksAssumption, FS_Subset DEF Inside
<1>2. SavedRec(f, SUBSET S, i, done)
  BY <1>1, SavedSolution DEF SavedFun
<1> HIDE DEF f
<1> DEFINE N == {n \in Nat : \A s \in UpTo(S, n) : f[s] \in G}
<1>3. 0 \in N
  <2> SUFFICES ASSUME NEW s \in UpTo(S, 0) PROVE f[s] \in G
    OBVIOUS
  <2>1. IsFiniteSet(s) /\ Cardinality(s) \in Nat /\ Cardinality(s) <= 0 /\ s \in SUBSET S
    BY <1>1, FS_Subset, FS_CardinalityType DEF UpTo
  <2>2. s = {}
    BY <2>1, FS_EmptySet
  <2>5. f[s] = IF s = {} THEN SavedBase(i, done) ELSE SavedStep(i, done, Pick(s), f[s \ {Pick(s)}])
    BY <1>2, <2>1, SavedAt
  <2>3. f[s] = SavedBase(i, done)
    BY <2>2, <2>5
  <2>4. f[s] \in Results(i, done)
    BY <2>1 DEF Results, f
  <2> QED BY <2>3, <2>4
<1>4. ASSUME NEW n \in Nat, n \in N PROVE n + 1 \in N
  <2> SUFFICES ASSUME NEW s \in UpTo(S, n + 1) PROVE f[s] \in G
    OBVIOUS
  <2>1. s \in SUBSET S
    BY DEF UpTo
  <2>2. CASE s = {}
    <3>1. f[s] = SavedBase(i, done)
      BY <1>2, <2>1, <2>2, SavedAt
    <3>2. f[s] \in Results(i, done)
      BY <2>1 DEF Results, f
    <3> QED BY <3>1, <3>2
  <2>3. CASE s # {}
    <3>1. Pick(s) \in s
      BY <2>3 DEF Pick
    <3>2. f[s \ {Pick(s)}] \in G
      BY <1>1, <1>4, <3>1, Smaller
    <3>3. f[s] = SavedStep(i, done, Pick(s), f[s \ {Pick(s)}])
      BY <1>2, <2>1, <2>3, SavedAt
    <3>4. f[s] \in Results(i, done)
      BY <2>1 DEF Results, f
    <3> QED BY <2>1, <3>1, <3>2, <3>3, <3>4
  <2> QED BY <2>2, <2>3
<1> HIDE DEF N
<1>5. Nat \subseteq N
  BY <1>3, <1>4, SetInduction
<1>6. S \in UpTo(S, Cardinality(S)) /\ Cardinality(S) \in Nat
  BY <1>1, FS_CardinalityType DEF UpTo
<1>7. f[S] \in G
  BY <1>5, <1>6 DEF N
<1> QED BY <1>7, SavedIs DEF f

-----------------------------------------------------------------------------
(* The fold of Load over the rows.                                          *)

LoadBase ==
    LET stored == DOMAIN db.instance \cup {db.lock[k].id : k \in DOMAIN db.lock}
    IN  [ids |-> InitInstanceIds(IF stored = {} THEN 0 ELSE Max(stored)),
         mgr |-> EmptyMgr, missing |-> {}]

LoadRec(f, D) ==
    f = [s \in D |-> IF s = {} THEN LoadBase ELSE LoadRow(f[s \ {Max(s)}], RowOrder[Max(s)])]

\* A solution of the recursion satisfies it at every set.
LEMMA LoadAt ==
    ASSUME NEW f, NEW D, LoadRec(f, D), NEW s \in D
    PROVE  f[s] = IF s = {} THEN LoadBase ELSE LoadRow(f[s \ {Max(s)}], RowOrder[Max(s)])
<1> DEFINE g == [u \in D |-> IF u = {} THEN LoadBase ELSE LoadRow(f[u \ {Max(u)}], RowOrder[Max(u)])]
<1>1. f = g
  BY Zenon DEF LoadRec
<1>2. g[s] = IF s = {} THEN LoadBase ELSE LoadRow(f[s \ {Max(s)}], RowOrder[Max(s)])
  OBVIOUS
<1> HIDE DEF g
<1> QED BY <1>1, <1>2

\* The recursion has a solution.
LEMMA LoadSolution ==
    ASSUME NEW m \in Nat
    PROVE  \E f : LoadRec(f, SUBSET (1..m))
<1> DEFINE S == 1..m
           N == {n \in Nat : \E f : LoadRec(f, UpTo(S, n))}
<1>0. IsFiniteSet(S)
  BY FS_Interval
<1>1. 0 \in N
  <2> DEFINE f == [s \in UpTo(S, 0) |-> LoadBase]
  <2>1. \A s \in UpTo(S, 0) : s = {}
    <3> SUFFICES ASSUME NEW s \in UpTo(S, 0) PROVE s = {}
      OBVIOUS
    <3>1. IsFiniteSet(s) /\ Cardinality(s) \in Nat /\ Cardinality(s) <= 0
      BY <1>0, FS_Subset, FS_CardinalityType DEF UpTo
    <3> QED BY <3>1, FS_EmptySet
  <2>2. LoadRec(f, UpTo(S, 0))
    <3> DEFINE g == [s \in UpTo(S, 0) |-> IF s = {} THEN LoadBase
                                          ELSE LoadRow(f[s \ {Max(s)}], RowOrder[Max(s)])]
    <3>1. \A s \in UpTo(S, 0) : f[s] = g[s]
      BY <2>1
    <3>2. f = g
      BY <3>1, Zenon
    <3> QED BY <3>2, Zenon DEF LoadRec
  <2> QED BY <2>2
<1>2. ASSUME NEW n \in Nat, n \in N PROVE n + 1 \in N
  <2>1. PICK f : LoadRec(f, UpTo(S, n))
    BY <1>2
  <2> DEFINE g == [s \in UpTo(S, n + 1) |->
                     IF s = {} THEN LoadBase ELSE LoadRow(f[s \ {Max(s)}], RowOrder[Max(s)])]
             h == [s \in UpTo(S, n + 1) |->
                     IF s = {} THEN LoadBase ELSE LoadRow(g[s \ {Max(s)}], RowOrder[Max(s)])]
  <2>2. ASSUME NEW s \in UpTo(S, n + 1), s # {} PROVE g[s \ {Max(s)}] = f[s \ {Max(s)}]
    <3>1. Max(s) \in s
      BY <2>2, MaxIs DEF UpTo
    <3>2. s \ {Max(s)} \in UpTo(S, n)
      BY <1>0, <3>1, Smaller
    <3> DEFINE r == s \ {Max(s)}
    <3>3. r \in UpTo(S, n + 1)
      <4>1. Cardinality(r) \in Nat
        BY <1>0, <3>2, FS_Subset, FS_CardinalityType DEF UpTo
      <4> HIDE DEF r
      <4> QED BY <3>2, <4>1 DEF UpTo, r
    <3>6. r \in UpTo(S, n)
      BY <3>2
    <3> HIDE DEF r
    <3>4. f[r] = IF r = {} THEN LoadBase ELSE LoadRow(f[r \ {Max(r)}], RowOrder[Max(r)])
      BY <2>1, <3>6, LoadAt
    <3>5. g[r] = IF r = {} THEN LoadBase ELSE LoadRow(f[r \ {Max(r)}], RowOrder[Max(r)])
      BY <3>3
    <3> QED BY <3>4, <3>5 DEF r
  <2>3. \A s \in UpTo(S, n + 1) : g[s] = h[s]
    <3> SUFFICES ASSUME NEW s \in UpTo(S, n + 1) PROVE g[s] = h[s]
      OBVIOUS
    <3>1. h[s] = IF s = {} THEN LoadBase ELSE LoadRow(g[s \ {Max(s)}], RowOrder[Max(s)])
      BY Zenon
    <3>2. g[s] = IF s = {} THEN LoadBase ELSE LoadRow(f[s \ {Max(s)}], RowOrder[Max(s)])
      BY Zenon
    <3> HIDE DEF g, h
    <3> QED BY <2>2, <3>1, <3>2
  <2>4. g = h
    BY <2>3, Zenon
  <2>5. LoadRec(g, UpTo(S, n + 1))
    BY <2>4, Zenon DEF LoadRec
  <2> QED BY <2>5
<1> HIDE DEF N
<1>3. Nat \subseteq N
  BY <1>1, <1>2, SetInduction
<1>4. Cardinality(S) \in N
  BY <1>0, <1>3, FS_CardinalityType
<1>5. UpTo(S, Cardinality(S)) = SUBSET S
  BY <1>0, FS_Subset DEF UpTo
<1> QED BY <1>4, <1>5 DEF N

LoadFun == CHOOSE f : LoadRec(f, SUBSET (1..Len(RowOrder)))

\* What has been loaded after the first n rows.
Loaded(n) == LoadFun[1..n]

\* Rows are loaded one after the other.
LEMMA LoadedIs ==
    /\ Load = Loaded(Len(RowOrder))
    /\ Loaded(0) = LoadBase
    /\ \A n \in 1..Len(RowOrder) : Loaded(n) = LoadRow(Loaded(n - 1), RowOrder[n])
<1> DEFINE L == Len(RowOrder)
<1>0. L \in Nat /\ DOMAIN RowOrder = 1..L
  BY InstanceLocksAssumption
<1>1. LoadRec(LoadFun, SUBSET (1..L))
  BY <1>0, LoadSolution DEF LoadFun
<1>2. Load = LoadFun[DOMAIN RowOrder]
  BY <1>0 DEF Load, LoadFun, LoadRec, FoldLeft, MapThenFoldSet, LoadBase
<1>3. Loaded(0) = LoadBase
  <2>1. 1..0 = {} /\ {} \in SUBSET (1..L)
    OBVIOUS
  <2>2. LoadFun[{}] = LoadBase
    BY <1>1, <2>1, LoadAt
  <2> QED BY <2>1, <2>2 DEF Loaded
<1>4. ASSUME NEW n \in 1..L PROVE Loaded(n) = LoadRow(Loaded(n - 1), RowOrder[n])
  <2>1. n \in Nat /\ 1..n # {} /\ 1..n \in SUBSET (1..L)
    BY <1>0
  <2>2. Max(1..n) = n
    <3>1. Max(1..n) \in 1..n /\ \A y \in 1..n : Max(1..n) >= y
      BY <2>1, MaxIs
    <3> QED BY <2>1, <3>1
  <2>3. (1..n) \ {n} = 1..(n - 1)
    BY <2>1
  <2>4. LoadFun[1..n] = IF 1..n = {} THEN LoadBase
                        ELSE LoadRow(LoadFun[(1..n) \ {Max(1..n)}], RowOrder[Max(1..n)])
    BY <1>1, <2>1, LoadAt
  <2> QED BY <2>1, <2>2, <2>3, <2>4 DEF Loaded
<1> QED BY <1>0, <1>2, <1>3, <1>4 DEF Loaded

-----------------------------------------------------------------------------
(* Maps.                                                                    *)

IsMap(f, S, T) == f \in [DOMAIN f -> T] /\ DOMAIN f \subseteq S

\* insert_or_assign.
LEMMA PutIs ==
    ASSUME NEW f, NEW x, NEW y
    PROVE  /\ DOMAIN Put(f, x, y) = DOMAIN f \cup {x}
           /\ Put(f, x, y)[x] = y
           /\ \A z \in DOMAIN f : z # x => Put(f, x, y)[z] = f[z]
BY DEF Put

\* insert_or_assign keeps the keys and values in their ranges.
LEMMA PutMap ==
    ASSUME NEW f, NEW S, NEW T, IsMap(f, S, T), NEW x \in S, NEW y \in T
    PROVE  IsMap(Put(f, x, y), S, T)
BY DEF Put, IsMap

\* erase.
LEMMA RestrictMap ==
    ASSUME NEW f, NEW S, NEW T, IsMap(f, S, T), NEW D \in SUBSET DOMAIN f
    PROVE  IsMap(Restrict(f, D), S, T) /\ DOMAIN Restrict(f, D) = D
BY DEF Restrict, IsMap

\* ... and so does the union.
LEMMA OverlayMap ==
    ASSUME NEW f, NEW g, NEW S, NEW T, IsMap(f, S, T), IsMap(g, S, T)
    PROVE  IsMap(Overlay(f, g), S, T) /\ DOMAIN Overlay(f, g) = DOMAIN f \cup DOMAIN g
BY DEF Overlay, IsMap

\* The empty map is a map of any range.
LEMMA EmptyMap ==
    ASSUME NEW S, NEW T
    PROVE  IsMap(Empty, S, T) /\ DOMAIN Empty = {}
BY DEF Empty, IsMap

-----------------------------------------------------------------------------
(* The invariant of every state, those with a defect too.                   *)

Keys == Players \X Dungeons
SharedType == [instanceId: Ids \cup {0}, mask: SUBSET Encounters]
MapType == [lock: Addresses \cup {NoLock}, owned: BOOLEAN, due: BOOLEAN]

IsMgr(m) ==
    m \in [locks: {m.locks}, shared: {m.shared}, perm: {m.perm}, temp: {m.temp}, byId: {m.byId}]

\* A lock is the permanent or the temporary lock of the key k.
HasLock(m, k, l) ==
    \/ k \in DOMAIN m.perm /\ m.perm[k] = l
    \/ k \in DOMAIN m.temp /\ m.temp[k] = l

\* No lock belongs to two keys or is both permanent and temporary.
OneOwner(m) ==
    /\ \A k, j \in DOMAIN m.perm : m.perm[k] = m.perm[j] => k = j
    /\ \A k, j \in DOMAIN m.temp : m.temp[k] = m.temp[j] => k = j
    /\ \A k \in DOMAIN m.perm, j \in DOMAIN m.temp : m.perm[k] # m.temp[j]

\* Only dungeons with a reset schedule have locks.
LocksScheduled(m) == \A k \in DOMAIN m.perm \cup DOMAIN m.temp : HasResetSchedule(k[2])

MgrOK(m) ==
    /\ IsMgr(m)
    /\ IsMap(m.locks, Addresses, LockType) /\ IsFiniteSet(DOMAIN m.locks)
    /\ IsMap(m.shared, Addresses, SharedType) /\ IsFiniteSet(DOMAIN m.shared)
    /\ IsMap(m.perm, Keys, DOMAIN m.locks)
    /\ IsMap(m.temp, Keys, DOMAIN m.locks)
    /\ IsMap(m.byId, Ids, Addresses)
    /\ OneOwner(m)
    /\ LocksScheduled(m)

\* The bitmap ends before OverflowId, or with it, still free.
AllocOK(a) ==
    /\ HintSound(a)
    /\ a.size <= OverflowId + 1
    /\ a.size = OverflowId + 1 => OverflowId \in a.free

DbOK(tables) ==
    /\ tables \in [lock: {tables.lock}, instance: {tables.instance}]
    /\ IsMap(tables.lock, Keys, RowType)
    /\ IsMap(tables.instance, Ids, SUBSET Encounters)
    /\ \A k \in DOMAIN tables.lock : tables.lock[k].id < OverflowId /\ HasResetSchedule(k[2])
    /\ \A id \in DOMAIN tables.instance : id < OverflowId

MapsOK(is, places) ==
    /\ IsMap(is, Dungeons \X Ids, MapType) /\ IsFiniteSet(DOMAIN is)
    /\ \A i \in DOMAIN is : is[i].lock # NoLock <=> HasResetSchedule(i[1])
    /\ places \in [Players -> DOMAIN is \cup {Outside}]

RecentOK(ofPlayers, ofGroup) ==
    /\ IsMap(ofPlayers, Keys, Ids)
    /\ IsMap(ofGroup, Dungeons, [owner: Players, id: Ids])

\* Every id the server knows is in the bitmap.
Known(a, id) == id < a.size /\ id < OverflowId
LocksKnown(m, a) == \A l \in DOMAIN m.locks : Known(a, m.locks[l].id)
MapsKnown(is, a) == \A i \in DOMAIN is : Known(a, i[2])
RecentKnown(ofPlayers, ofGroup, a) ==
    /\ \A k \in DOMAIN ofPlayers : Known(a, ofPlayers[k])
    /\ \A d \in DOMAIN ofGroup : Known(a, ofGroup[d].id)
RowsKnown(tables, a) == \A k \in DOMAIN tables.lock : Known(a, tables.lock[k].id)
IdsKnown ==
    Running => /\ LocksKnown(mgr, ids) /\ MapsKnown(maps, ids)
               /\ RecentKnown(recent, groupRecent, ids) /\ RowsKnown(db, ids)

\* Nothing is left in memory when the process is gone.
Gone ==
    up \in {"aborted", "down"} =>
        /\ mgr = EmptyMgr /\ maps = Empty /\ recent = Empty /\ groupRecent = Empty

Scalars ==
    /\ kind \in {c.kind : c \in Cases}
    /\ up \in {"running", "stopping", "aborted", "down"}
    /\ pending \in [Players -> Ids \cup {0}]
    /\ grouped \in BOOLEAN
    /\ entries \in Nat /\ events \in Nat
    /\ defect \in {"none", "foreignId", "unordered", "dangling"}

Shape ==
    /\ Scalars
    /\ AllocOK(ids)
    /\ MgrOK(mgr)
    /\ MapsOK(maps, at)
    /\ RecentOK(recent, groupRecent)
    /\ DbOK(db)
    /\ IdsKnown
    /\ Gone

\* The invariant implies the type invariant and the one of the allocator.
LEMMA ShapeImplies ==
    ASSUME Shape
    PROVE  TypeOK /\ AllocatorSound
<1>1. \A l \in DOMAIN mgr.locks : l \in Addresses /\ mgr.locks[l] \in LockType
  BY DEF Shape, MgrOK, IsMap
<1>2. \A x \in DOMAIN mgr.shared : mgr.shared[x] \in [instanceId: Ids \cup {0}, mask: SUBSET Encounters]
  BY DEF Shape, MgrOK, IsMap, SharedType
<1>3. \A store \in {mgr.perm, mgr.temp} : \A k \in DOMAIN store :
          k \in Players \X Dungeons /\ store[k] \in DOMAIN mgr.locks
  BY DEF Shape, MgrOK, IsMap, Keys
<1>4. \A id \in DOMAIN mgr.byId : id \in Ids /\ mgr.byId[id] \in Addresses
  BY DEF Shape, MgrOK, IsMap
<1>5. \A i \in DOMAIN maps : /\ i \in Dungeons \X Ids
                              /\ maps[i] \in [lock: Addresses \cup {NoLock}, owned: BOOLEAN,
                                              due: BOOLEAN]
  BY DEF Shape, MapsOK, IsMap, MapType
<1>6. \A k \in DOMAIN recent : k \in Players \X Dungeons /\ recent[k] \in Ids
  BY DEF Shape, RecentOK, IsMap, Keys
<1>7. \A d \in DOMAIN groupRecent : d \in Dungeons /\ groupRecent[d] \in [owner: Players, id: Ids]
  BY DEF Shape, RecentOK, IsMap
<1>8. \A k \in DOMAIN db.lock : k \in Players \X Dungeons /\ db.lock[k] \in RowType
  BY DEF Shape, DbOK, IsMap, Keys
<1>9. \A id \in DOMAIN db.instance : id \in Ids /\ db.instance[id] \in SUBSET Encounters
  BY DEF Shape, DbOK, IsMap
<1>10. at \in [Players -> DOMAIN maps \cup {Outside}]
  BY DEF Shape, MapsOK
<1>11. ids \in Allocators /\ AllocatorSound
  BY DEF Shape, AllocOK, HintSound, AllocatorSound
<1> QED
  BY <1>1, <1>2, <1>3, <1>4, <1>5, <1>6, <1>7, <1>8, <1>9, <1>10, <1>11
  DEF TypeOK, Shape, Scalars

\* The invariant of the next state, from facts about the new values.
LEMMA ShapeNext ==
    ASSUME kind' = kind, Scalars', AllocOK(ids'), MgrOK(mgr'), MapsOK(maps', at'),
           RecentOK(recent', groupRecent'), DbOK(db'), Gone',
           up' = "running" => /\ LocksKnown(mgr', ids') /\ MapsKnown(maps', ids')
                              /\ RecentKnown(recent', groupRecent', ids') /\ RowsKnown(db', ids')
    PROVE  Shape'
<1>1. MgrOK(mgr)'
  BY DEF MgrOK, IsMgr, LocksScheduled, HasResetSchedule, OneOwner
<1>2. MapsOK(maps, at)'
  BY DEF MapsOK, HasResetSchedule
<1>3. DbOK(db)'
  BY DEF DbOK, HasResetSchedule
<1>4. AllocOK(ids)' /\ RecentOK(recent, groupRecent)'
  BY DEF AllocOK, RecentOK
<1>5. IdsKnown'
  BY DEF IdsKnown, Running, LocksKnown, MapsKnown, RecentKnown, RowsKnown
<1> QED BY <1>1, <1>2, <1>3, <1>4, <1>5 DEF Shape

-----------------------------------------------------------------------------
(* The allocator.                                                           *)

\* The allocator of an empty server, or of one about to load its rows.
LEMMA InitIdsOK ==
    ASSUME NEW n \in 0..(OverflowId - 1)
    PROVE  /\ AllocOK(InitInstanceIds(n)) /\ HintFree(InitInstanceIds(n))
           /\ InitInstanceIds(n).size = n + 2
BY OverflowIdAssumption DEF AllocOK, HintSound, Allocators, InitInstanceIds, HintFree

\* Registering the id of a row keeps the allocator well formed.
LEMMA RegisterOK ==
    ASSUME NEW a, AllocOK(a), NEW id \in 1..(a.size - 2)
    PROVE  LET b == RegisterInstanceId(a, id) IN
           AllocOK(b) /\ b.size = a.size /\ b.free = a.free \ {id}
<1> DEFINE b == RegisterInstanceId(a, id)
<1>1. /\ a \in Allocators /\ a.size \in Nat /\ a.next \in Nat /\ a.free \in SUBSET Nat
      /\ a.free \subseteq 1..(a.size - 1) /\ a.next \in 1..(a.size - 1)
      /\ \A i \in a.free : a.next <= i
      /\ a.size <= OverflowId + 1 /\ (a.size = OverflowId + 1 => OverflowId \in a.free)
  BY DEF AllocOK, HintSound, Allocators
<1>2. b.size = a.size /\ b.free = a.free \ {id} /\ b.next = (IF a.next = id THEN a.next + 1 ELSE a.next)
  BY <1>1 DEF RegisterInstanceId, Allocators
<1>3. b \in Allocators
  <2> DEFINE free == a.free \ {id}
             next == IF a.next = id THEN a.next + 1 ELSE a.next
  <2>1. free \in SUBSET Nat /\ next \in Nat
    BY <1>1
  <2>2. b = [a EXCEPT !.free = free, !.next = next]
    BY DEF RegisterInstanceId
  <2> HIDE DEF free, next
  <2> QED BY <1>1, <2>1, <2>2 DEF Allocators
<1> HIDE DEF b
<1>4. b.next \in 1..(b.size - 1)
  BY <1>1, <1>2
<1>5. \A i \in b.free : b.next <= i
  BY <1>1, <1>2
<1>6. b.size = OverflowId + 1 => OverflowId \in b.free
  BY <1>1, <1>2, OverflowIdAssumption
<1>7. AllocOK(b)
  BY <1>1, <1>2, <1>3, <1>4, <1>5, <1>6 DEF AllocOK, HintSound
<1> QED BY <1>2, <1>7 DEF b

\* Generating an id: what is taken, what the bitmap grows by, what the next hint is.
LEMMA GenerateOK ==
    ASSUME NEW a, AllocOK(a)
    PROVE  LET b == GenerateInstanceId(a) IN
           /\ AllocOK(b)
           /\ a.next \in Ids /\ a.next < a.size /\ a.size <= b.size /\ a.size \in Nat /\ b.size \in Nat
           /\ a.next # OverflowId => a.next < OverflowId
           /\ a.next # OverflowId => a.next \notin b.free
           /\ b.free \subseteq a.free \cup {a.size}
           /\ HintFree(a) => HintFree(b)
<1> DEFINE b == GenerateInstanceId(a)
<1>1. /\ a \in Allocators /\ a.size \in Nat /\ a.next \in Nat /\ a.free \in SUBSET Nat
      /\ a.free \subseteq 1..(a.size - 1) /\ a.next \in 1..(a.size - 1)
      /\ \A i \in a.free : a.next <= i
      /\ a.size <= OverflowId + 1 /\ (a.size = OverflowId + 1 => OverflowId \in a.free)
  BY DEF AllocOK, HintSound, Allocators
<1>2. a.next \in Ids /\ a.next < a.size /\ (a.next # OverflowId => a.next < OverflowId)
  BY <1>1, OverflowIdAssumption DEF Ids
<1>3. CASE a.next = OverflowId
  BY <1>1, <1>2, <1>3 DEF GenerateInstanceId, IsExhausted
<1>4. CASE a.next # OverflowId
  <2> DEFINE free == a.free \ {a.next}
             later == {i \in free : i > a.next}
             grown == [size |-> a.size + 1, free |-> free \cup {a.size}, next |-> a.size]
             kept  == [a EXCEPT !.free = free, !.next = Lowest(later)]
  <2>1. b = IF later = {} THEN grown ELSE kept
    BY <1>1, <1>4 DEF GenerateInstanceId, IsExhausted, FreeAfter, Allocators
  <2>2. CASE later = {}
    <3>1. b.size = a.size + 1 /\ b.free = free \cup {a.size} /\ b.next = a.size
      BY <2>1, <2>2
    <3>2. b \in Allocators
      <4>1. b = [size |-> b.size, free |-> b.free, next |-> b.next]
        BY <2>1, <2>2
      <4> HIDE DEF b
      <4>2. b.size \in Nat /\ b.free \in SUBSET Nat /\ b.next \in Nat
        BY <1>1, <3>1
      <4> QED BY <4>1, <4>2 DEF Allocators
    <3>3. free = {} /\ a.size # OverflowId + 1
      <4>1. free = {}
        BY <1>1, <2>2
      <4>2. a.size # OverflowId + 1
        BY <1>1, <1>4, <4>1
      <4> QED BY <4>1, <4>2
    <3> HIDE DEF b, free
    <3>4. AllocOK(b)
      BY <1>1, <1>2, <3>1, <3>2, <3>3, OverflowIdAssumption DEF AllocOK, HintSound
    <3>5. HintFree(b) /\ a.next \notin b.free /\ b.free \subseteq a.free \cup {a.size}
      BY <1>1, <1>2, <3>1, <3>3 DEF HintFree
    <3> QED BY <1>1, <1>2, <3>1, <3>4, <3>5 DEF b
  <2>3. CASE later # {}
    <3>1. b.size = a.size /\ b.free = free /\ b.next = Lowest(later)
      BY <1>1, <2>1, <2>3 DEF Allocators
    <3>2. Lowest(later) \in later /\ \A j \in later : Lowest(later) <= j
      BY <1>1, <2>3, LowestIs
    <3>3. b \in Allocators
      <4> HIDE DEF later
      <4>1. Lowest(later) \in Nat
        BY <1>1, <3>2 DEF later
      <4> QED BY <1>1, <2>1, <2>3, <4>1 DEF Allocators
    <3>4. \A i \in free : i > a.next
      BY <1>1
    <3>5. \A i \in free : i \in later
      BY <3>4
    <3>6. Lowest(later) \in free /\ Lowest(later) > a.next
      BY <3>2
    <3> HIDE DEF b, later
    <3>7. AllocOK(b)
      BY <1>1, <1>2, <1>4, <3>1, <3>2, <3>3, <3>5, <3>6, OverflowIdAssumption DEF AllocOK, HintSound
    <3>8. HintFree(b) /\ a.next \notin b.free /\ b.free \subseteq a.free \cup {a.size}
      BY <1>1, <1>2, <3>1, <3>6 DEF HintFree
    <3> QED BY <1>1, <1>2, <3>1, <3>7, <3>8 DEF b
  <2> QED BY <2>2, <2>3
<1> QED BY <1>3, <1>4

\* Freeing the id of an unloaded map keeps the allocator well formed.
LEMMA FreeOK ==
    ASSUME NEW a, AllocOK(a), NEW id \in 1..(a.size - 1)
    PROVE  LET b == FreeInstanceId(a, id) IN
           AllocOK(b) /\ b.size = a.size /\ b.free = a.free \cup {id} /\ (HintFree(a) => HintFree(b))
<1> DEFINE b == FreeInstanceId(a, id)
<1>1. /\ a \in Allocators /\ a.size \in Nat /\ a.next \in Nat /\ a.free \in SUBSET Nat
      /\ a.free \subseteq 1..(a.size - 1) /\ a.next \in 1..(a.size - 1)
      /\ \A i \in a.free : a.next <= i
      /\ a.size <= OverflowId + 1 /\ (a.size = OverflowId + 1 => OverflowId \in a.free)
  BY DEF AllocOK, HintSound, Allocators
<1>2. b.size = a.size /\ b.free = a.free \cup {id} /\ b.next = (IF id < a.next THEN id ELSE a.next)
  BY <1>1 DEF FreeInstanceId, Allocators
<1>3. b \in Allocators
  <2> DEFINE free == a.free \cup {id}
             next == IF id < a.next THEN id ELSE a.next
  <2>1. free \in SUBSET Nat /\ next \in Nat
    BY <1>1
  <2>2. b = [a EXCEPT !.free = free, !.next = next]
    BY DEF FreeInstanceId
  <2> HIDE DEF free, next
  <2> QED BY <1>1, <2>1, <2>2 DEF Allocators
<1> HIDE DEF b
<1>4. AllocOK(b)
  BY <1>1, <1>2, <1>3, OverflowIdAssumption DEF AllocOK, HintSound
<1>5. HintFree(a) => HintFree(b)
  BY <1>1, <1>2 DEF HintFree
<1> QED BY <1>2, <1>4, <1>5 DEF b

-----------------------------------------------------------------------------
(* Transactions.                                                            *)

IsTrans(t) ==
    t \in [mgr: {t.mgr}, erased: {t.erased}, lock: {t.lock}, instance: {t.instance}, ok: BOOLEAN]

TransOK(t) ==
    /\ IsTrans(t)
    /\ MgrOK(t.mgr) /\ LocksKnown(t.mgr, ids)
    /\ IsMap(t.lock, Keys, RowType)
    /\ \A k \in DOMAIN t.lock : Known(ids, t.lock[k].id) /\ HasResetSchedule(k[2])
    /\ IsMap(t.instance, Ids, SUBSET Encounters)
    /\ \A id \in DOMAIN t.instance : Known(ids, id)

\* The lock of a player before and after the update.
Refreshed(old, new, id, gain) ==
    /\ new \in LockType
    /\ new.id = id /\ new.shared = old.shared /\ new.mask = old.mask \cup gain
    /\ new.expired = FALSE
    /\ new.extended = (old.extended /\ ~old.expired)

\* The lock that is replaced.
Dead(m, k, l) == IF k \in DOMAIN m.perm THEN {m.perm[k]} \ {l} ELSE {}

\* Which lock it is, l, and what the lock was before: the active permanent one,
\* the temporary one, or a new one.
Kept(m, r, k, l, old) ==
    /\ k \in DOMAIN m.perm /\ l = m.perm[k] /\ old = m.locks[l] /\ IsActive(old)
    /\ r.temp = m.temp
Replaces(m, k) == k \in DOMAIN m.perm => ~IsActive(m.locks[m.perm[k]])
Promoted(m, r, k, l, old) ==
    /\ k \in DOMAIN m.temp /\ l = m.temp[k] /\ old = m.locks[l]
    /\ r.temp = Without(m.temp, k)
    /\ Replaces(m, k)
Created(m, r, k, id, l, old) ==
    /\ l \notin DOMAIN m.locks /\ l \notin DOMAIN m.shared
    /\ \A i \in DOMAIN maps : maps[i].lock # l
    /\ old = NewLock(id, IF IsInstanceIdBound(k[2]) THEN m.byId[id] ELSE NoLock)
    /\ r.temp = m.temp
    /\ Replaces(m, k)
    /\ IsInstanceIdBound(k[2]) =>
          id \in DOMAIN m.byId /\ m.byId[id] \in DOMAIN m.shared /\ m.shared[m.byId[id]].instanceId = id

\* What DeleteLocks does to a manager m.
Deleted(m, r, dead, erased) ==
    /\ DOMAIN r.locks = DOMAIN m.locks \ dead
    /\ \A z \in DOMAIN r.locks : r.locks[z] = m.locks[z]
    /\ DOMAIN r.shared \subseteq DOMAIN m.shared
    /\ \A x \in DOMAIN r.shared : r.shared[x] = m.shared[x]
    /\ \A x \in DOMAIN m.shared \ DOMAIN r.shared : \E z \in dead : x = m.locks[z].shared
    /\ \A z \in DOMAIN r.locks : m.locks[z].shared \in DOMAIN m.shared => m.locks[z].shared \in DOMAIN r.shared
    /\ DOMAIN r.byId = DOMAIN m.byId \ erased
    /\ \A id \in DOMAIN r.byId : r.byId[id] = m.byId[id]
    /\ \A id \in erased : id \in DOMAIN m.byId /\ m.byId[id] \notin DOMAIN r.shared
    /\ r.perm = m.perm /\ r.temp = m.temp

Maplike(f) == f = [x \in DOMAIN f |-> f[x]]

\* DeleteLocks is that deletion, and leaves maps behind.
LEMMA DeleteLocksIs ==
    ASSUME NEW m, NEW dead, IsMgr(m)
    PROVE  LET r == DeleteLocks(m, dead).mgr IN
           /\ IsMgr(r)
           /\ Deleted(m, r, dead, DeleteLocks(m, dead).erased)
           /\ Maplike(r.locks) /\ Maplike(r.shared) /\ Maplike(r.byId)
<1> DEFINE r == DeleteLocks(m, dead).mgr
           gone == SharedDeleted(m, dead)
           er == DeleteLocks(m, dead).erased
<1>1. /\ IsMgr(r)
      /\ r.locks = Restrict(m.locks, DOMAIN m.locks \ dead)
      /\ r.shared = Restrict(m.shared, DOMAIN m.shared \ gone)
      /\ r.perm = m.perm /\ r.temp = m.temp
      /\ r.byId = Restrict(m.byId, DOMAIN m.byId \ er)
      /\ er = {id \in DOMAIN m.byId :
                      /\ \E x \in gone : m.shared[x].instanceId = id
                      /\ m.byId[id] \notin DOMAIN m.shared \ gone}
  BY DEF DeleteLocks, IsMgr, IsExpiredWeak, Restrict
<1>2. \A x \in gone : \E z \in dead : x = m.locks[z].shared
  BY DEF SharedDeleted
<1>3. \A z \in DOMAIN m.locks \ dead : m.locks[z].shared \notin gone
  BY DEF SharedDeleted
<1> HIDE DEF gone, er, r
<1>4. /\ DOMAIN r.locks = DOMAIN m.locks \ dead /\ \A z \in DOMAIN r.locks : r.locks[z] = m.locks[z]
      /\ Maplike(r.locks)
  BY <1>1 DEF Restrict, Maplike
<1>5. /\ DOMAIN r.shared = DOMAIN m.shared \ gone /\ \A x \in DOMAIN r.shared : r.shared[x] = m.shared[x]
      /\ Maplike(r.shared)
  BY <1>1 DEF Restrict, Maplike
<1>6. /\ DOMAIN r.byId = DOMAIN m.byId \ er /\ \A x \in DOMAIN r.byId : r.byId[x] = m.byId[x]
      /\ Maplike(r.byId)
  BY <1>1 DEF Restrict, Maplike
<1>7. \A x \in DOMAIN m.shared \ DOMAIN r.shared : \E z \in dead : x = m.locks[z].shared
  BY <1>2, <1>5
<1>8. \A z \in DOMAIN r.locks : m.locks[z].shared \in DOMAIN m.shared => m.locks[z].shared \in DOMAIN r.shared
  BY <1>3, <1>4, <1>5
<1>9. \A id \in er : id \in DOMAIN m.byId /\ m.byId[id] \notin DOMAIN r.shared
  BY <1>1, <1>5
<1> QED BY <1>1, <1>4, <1>5, <1>6, <1>7, <1>8, <1>9 DEF Deleted, r, er

\* UpdateInstanceLockForPlayer, when it does not give up: from t to r.
Moves(t, r, k, id, gain, l, old, new) ==
    LET m == t.mgr
        n == r.mgr
        dead == Dead(m, k, l)
    IN  /\ l \in Addresses /\ Refreshed(old, new, id, gain)
        /\ Kept(m, n, k, l, old) \/ Promoted(m, n, k, l, old) \/ Created(m, n, k, id, l, old)
        /\ IsMgr(n) /\ Maplike(n.locks) /\ Maplike(n.shared) /\ Maplike(n.byId)
        /\ n.perm = Put(m.perm, k, l)
        /\ DOMAIN n.locks = (DOMAIN m.locks \cup {l}) \ dead
        /\ n.locks[l] = new
        /\ \A z \in DOMAIN n.locks : z # l => n.locks[z] = m.locks[z]
        /\ DOMAIN n.shared \subseteq DOMAIN m.shared
        /\ \A x \in DOMAIN n.shared : n.shared[x] = m.shared[x]
        /\ \A x \in DOMAIN m.shared \ DOMAIN n.shared : \E z \in dead : x = m.locks[z].shared
        /\ \A z \in DOMAIN n.locks : n.locks[z].shared \in DOMAIN m.shared => n.locks[z].shared \in DOMAIN n.shared
        /\ DOMAIN n.byId \subseteq DOMAIN m.byId
        /\ \A x \in DOMAIN n.byId : n.byId[x] = m.byId[x]
        /\ \A x \in DOMAIN m.byId \ DOMAIN n.byId : m.byId[x] \notin DOMAIN n.shared
        /\ IsTrans(r) /\ r.erased = t.erased \cup (DOMAIN m.byId \ DOMAIN n.byId)
        /\ r.lock = Put(t.lock, k, Row(new)) /\ r.instance = t.instance
        /\ t.ok /\ r.ok \in BOOLEAN
        /\ r.ok /\ IsInstanceIdBound(k[2]) =>
              id \in DOMAIN m.byId /\ m.byId[id] = old.shared /\ old.id = id

\* The locks nobody has yet.
LEMMA FreshAddressIs ==
    ASSUME NEW m, IsFiniteSet(DOMAIN m.locks), IsFiniteSet(DOMAIN m.shared), IsFiniteSet(DOMAIN maps)
    PROVE  LET l == FreshAddress(m) IN
           /\ l \in Addresses /\ l \notin DOMAIN m.locks /\ l \notin DOMAIN m.shared
           /\ \A i \in DOMAIN maps : maps[i].lock # l
<1> DEFINE held == {maps[i].lock : i \in DOMAIN maps}
<1>1. IsFiniteSet(held)
  <2> DEFINE f == [i \in DOMAIN maps |-> maps[i].lock]
  <2>1. f \in Surjection(DOMAIN maps, held)
    BY DEF Surjection
  <2> QED BY <2>1, FS_Surjection
<1>2. IsFiniteSet(DOMAIN m.locks \cup DOMAIN m.shared \cup held)
  BY <1>1, FS_Union
<1>3. FreshAddress(m) \in Addresses \ (DOMAIN m.locks \cup DOMAIN m.shared \cup held)
  BY <1>2, UnusedExists DEF FreshAddress
<1> QED BY <1>3

\* UpdateInstanceLockForPlayer gives up or updates one lock.
LEMMA UpdateIs ==
    ASSUME NEW t, TransOK(t), IsFiniteSet(DOMAIN maps),
           NEW p \in Players, NEW d \in Dungeons, NEW id \in Ids,
           NEW done \in SUBSET Encounters, NEW instanceMask \in SUBSET Encounters
    PROVE  LET r == UpdateInstanceLockForPlayer(t, p, d, id, done, instanceMask) IN
           \/ r = [t EXCEPT !.ok = FALSE]
           \/ \E l, old, new : Moves(t, r, <<p, d>>, id, GainedEncounters(d, done, instanceMask), l, old, new)
<1> DEFINE m      == t.mgr
           key    == <<p, d>>
           active == FindActiveInstanceLock(m, p, d, TRUE)
           promote == active = NoLock /\ key \in DOMAIN m.temp
           create == active = NoLock /\ ~promote
           l      == CASE active # NoLock -> active
                       [] promote -> m.temp[key]
                       [] create  -> FreshAddress(m)
           assert == IsInstanceIdBound(d) =>
                       /\ id \in DOMAIN m.byId
                       /\ create => /\ ~IsExpiredWeak(m, id)
                                    /\ m.shared[m.byId[id]].instanceId = id
                       /\ ~create => /\ m.locks[l].id = id
                                     /\ m.byId[id] = m.locks[l].shared
           old    == IF create THEN NewLock(id, IF IsInstanceIdBound(d) THEN m.byId[id] ELSE NoLock)
                     ELSE m.locks[l]
           gain   == GainedEncounters(d, done, instanceMask)
           lock   == [old EXCEPT !.id = id, !.isNew = FALSE, !.mask = @ \cup gain,
                                 !.extended = @ /\ ~old.expired, !.expired = FALSE]
           moved  == [locks |-> Put(m.locks, l, lock), shared |-> m.shared,
                      perm  |-> Put(m.perm, key, l),
                      temp  |-> IF promote THEN Without(m.temp, key) ELSE m.temp,
                      byId  |-> m.byId]
           dead   == {FindInstanceLock(m.perm, p, d)} \ {NoLock, l}
           left   == DeleteLocks(moved, dead)
           r      == UpdateInstanceLockForPlayer(t, p, d, id, done, instanceMask)
           res    == [mgr |-> left.mgr, erased |-> t.erased \cup left.erased,
                      lock |-> Put(t.lock, key, Row(lock)), instance |-> t.instance, ok |-> assert]
<1>1. r = IF ~t.ok \/ (create /\ ~assert) THEN [t EXCEPT !.ok = FALSE] ELSE res
  BY DEF UpdateInstanceLockForPlayer
<1>2. SUFFICES ASSUME t.ok, create => assert
               PROVE  \E l1, old1, new1 : Moves(t, res, key, id, gain, l1, old1, new1)
  <2>1. CASE ~t.ok \/ (create /\ ~assert)
    BY <1>1, <2>1
  <2>2. CASE ~(~t.ok \/ (create /\ ~assert))
    <3>1. r = res
      BY <1>1, <2>2
    <3>2. t.ok /\ (create => assert)
      BY <2>2
    <3> HIDE DEF res, r, assert, create, gain
    <3> QED BY <1>2, <3>1, <3>2 DEF r, gain
  <2> QED BY <2>1, <2>2
<1>m. /\ MgrOK(m) /\ IsMgr(m) /\ key \in Keys /\ NoLock \notin Addresses
      /\ m.locks \in [DOMAIN m.locks -> LockType] /\ DOMAIN m.locks \subseteq Addresses
      /\ m.perm \in [DOMAIN m.perm -> DOMAIN m.locks] /\ m.temp \in [DOMAIN m.temp -> DOMAIN m.locks]
      /\ m.byId \in [DOMAIN m.byId -> Addresses]
  BY InstanceLocksAssumption DEF TransOK, MgrOK, IsMap, Keys
<1>f. /\ FreshAddress(m) \in Addresses /\ FreshAddress(m) \notin DOMAIN m.locks
      /\ FreshAddress(m) \notin DOMAIN m.shared
      /\ \A i \in DOMAIN maps : maps[i].lock # FreshAddress(m)
  BY FreshAddressIs DEF TransOK, MgrOK
<1>a. active = IF key \in DOMAIN m.perm /\ IsActive(m.locks[m.perm[key]]) THEN m.perm[key] ELSE NoLock
  BY <1>m DEF FindActiveInstanceLock, FindInstanceLock
<1>b. active # NoLock => key \in DOMAIN m.perm /\ active = m.perm[key] /\ IsActive(m.locks[active])
  BY <1>a
<1>c. active = NoLock => Replaces(m, key)
  BY <1>a, <1>m DEF Replaces
<1> HIDE DEF active
<1>d. /\ active # NoLock => l = active
      /\ promote => l = m.temp[key]
      /\ create => l = FreshAddress(m)
      /\ active # NoLock \/ promote \/ create
  BY Zenon
<1>e. l \in Addresses
  BY <1>b, <1>d, <1>f, <1>m
<1>g. dead = Dead(m, key, l)
  BY <1>m DEF FindInstanceLock, Dead
<1> HIDE DEF l, dead
<1>3. old \in LockType
  <2>1. CASE create
    <3>1. IsInstanceIdBound(d) => m.byId[id] \in Addresses
      BY <1>2, <2>1, <1>m
    <3> QED BY <2>1, <3>1 DEF NewLock, LockType
  <2>2. CASE ~create
    BY <2>2, <1>b, <1>d, <1>m
  <2> QED BY <2>1, <2>2
<1>4. gain \in SUBSET Encounters
  BY DEF GainedEncounters
<1> HIDE DEF gain, old
<1>5. Refreshed(old, lock, id, gain)
  <2>1. old.extended \in BOOLEAN /\ old.expired \in BOOLEAN /\ old.mask \cup gain \in SUBSET Encounters
    BY <1>3, <1>4 DEF LockType
  <2>2. lock \in LockType
    <3> DEFINE ext == old.extended /\ ~old.expired
               mask == old.mask \cup gain
    <3>1. ext \in BOOLEAN /\ mask \in SUBSET Encounters
      BY <2>1
    <3>2. lock = [old EXCEPT !.id = id, !.isNew = FALSE, !.mask = mask, !.extended = ext, !.expired = FALSE]
      OBVIOUS
    <3> HIDE DEF ext, mask, lock
    <3> QED BY <1>3, <3>1, <3>2 DEF LockType
  <2>3. /\ lock.id = id /\ lock.shared = old.shared /\ lock.mask = old.mask \cup gain
        /\ lock.expired = FALSE /\ lock.extended = (old.extended /\ ~old.expired)
    BY <1>3 DEF LockType
  <2> QED BY <2>2, <2>3 DEF Refreshed
<1> HIDE DEF lock
<1> DEFINE n == left.mgr
<1>6. IsMgr(moved)
  BY DEF IsMgr
<1>7. /\ IsMgr(n) /\ Deleted(moved, n, dead, left.erased)
      /\ Maplike(n.locks) /\ Maplike(n.shared) /\ Maplike(n.byId)
  BY <1>6, DeleteLocksIs
<1>8. /\ moved.locks = Put(m.locks, l, lock) /\ moved.shared = m.shared /\ moved.byId = m.byId
      /\ moved.perm = Put(m.perm, key, l)
      /\ moved.temp = IF promote THEN Without(m.temp, key) ELSE m.temp
  OBVIOUS
<1>9. /\ DOMAIN moved.locks = DOMAIN m.locks \cup {l} /\ moved.locks[l] = lock
      /\ \A z \in DOMAIN m.locks : z # l => moved.locks[z] = m.locks[z]
  <2> HIDE DEF moved
  <2>1. moved.locks = Put(m.locks, l, lock)
    BY <1>8
  <2> QED BY <2>1 DEF Put
<1>10. /\ l \notin dead /\ dead \subseteq DOMAIN m.locks
  BY <1>g, <1>m DEF Dead
<1>11. /\ res.mgr = n /\ res.erased = t.erased \cup left.erased /\ res.lock = Put(t.lock, key, Row(lock))
       /\ res.instance = t.instance /\ res.ok = assert
  OBVIOUS
<1>12. assert \in BOOLEAN /\ IsTrans(res)
  <2>1. assert \in BOOLEAN
    OBVIOUS
  <2> HIDE DEF assert
  <2> QED BY <2>1 DEF IsTrans
<1>13. assert /\ IsInstanceIdBound(d) => id \in DOMAIN m.byId /\ m.byId[id] = old.shared /\ old.id = id
  <2>1. CASE create
    BY <2>1 DEF old, NewLock
  <2>2. CASE ~create
    BY <2>2 DEF old
  <2> QED BY <2>1, <2>2
<1>14. Kept(m, n, key, l, old) \/ Promoted(m, n, key, l, old) \/ Created(m, n, key, id, l, old)
  <2>0. n.temp = moved.temp
    BY <1>7 DEF Deleted
  <2>1. CASE active # NoLock
    BY <2>0, <2>1, <1>8, <1>b, <1>d DEF Kept, old
  <2>2. CASE promote
    BY <2>0, <2>2, <1>8, <1>c, <1>d DEF Promoted, old
  <2>3. CASE create
    <3>1. key[2] = d
      OBVIOUS
    <3>2. assert
      BY <1>2, <2>3
    <3>3. IsInstanceIdBound(d) =>
            id \in DOMAIN m.byId /\ m.byId[id] \in DOMAIN m.shared /\ m.shared[m.byId[id]].instanceId = id
      BY <2>3, <3>2 DEF IsExpiredWeak
    <3>4. n.temp = m.temp /\ Replaces(m, key) /\ l = FreshAddress(m)
      BY <2>0, <2>3, <1>8, <1>c, <1>d
    <3>5. old = NewLock(id, IF IsInstanceIdBound(key[2]) THEN m.byId[id] ELSE NoLock)
      BY <2>3, <3>1 DEF old
    <3> HIDE DEF create, assert, promote, left, moved, key
    <3> QED BY <1>f, <3>1, <3>3, <3>4, <3>5 DEF Created
  <2> QED BY <1>d, <2>1, <2>2, <2>3
<1>15. key[2] = d
  OBVIOUS
<1> HIDE DEF assert, create, promote, left, moved, key, m
<1>16. /\ DOMAIN n.locks = (DOMAIN m.locks \cup {l}) \ dead
       /\ n.locks[l] = lock
       /\ \A z \in DOMAIN n.locks : z # l => n.locks[z] = m.locks[z]
  BY <1>7, <1>9, <1>10 DEF Deleted
<1>17. /\ DOMAIN n.shared \subseteq DOMAIN m.shared
       /\ \A x \in DOMAIN n.shared : n.shared[x] = m.shared[x]
       /\ \A x \in DOMAIN m.shared \ DOMAIN n.shared : \E z \in dead : x = m.locks[z].shared
  <2>1. \A z \in dead : moved.locks[z] = m.locks[z]
    BY <1>9, <1>10
  <2> QED BY <2>1, <1>7, <1>8 DEF Deleted
<1>18. \A z \in DOMAIN n.locks : n.locks[z].shared \in DOMAIN m.shared => n.locks[z].shared \in DOMAIN n.shared
  BY <1>7, <1>8 DEF Deleted
<1>19. /\ DOMAIN n.byId \subseteq DOMAIN m.byId
       /\ \A x \in DOMAIN n.byId : n.byId[x] = m.byId[x]
       /\ \A x \in DOMAIN m.byId \ DOMAIN n.byId : m.byId[x] \notin DOMAIN n.shared
       /\ left.erased = DOMAIN m.byId \ DOMAIN n.byId
  BY <1>7, <1>8 DEF Deleted
<1>20. n.perm = Put(m.perm, key, l)
  BY <1>7, <1>8 DEF Deleted
<1>21. Moves(t, res, key, id, gain, l, old, lock)
  <2> HIDE DEF res, n
  <2>1. res.erased = t.erased \cup (DOMAIN m.byId \ DOMAIN n.byId)
    BY <1>11, <1>19
  <2>2. t.ok /\ res.ok \in BOOLEAN /\ IsTrans(res)
    BY <1>2, <1>11, <1>12
  <2> QED BY <2>1, <2>2, <1>5, <1>7, <1>11, <1>13, <1>14, <1>15, <1>16, <1>17, <1>18, <1>19, <1>20, <1>e, <1>g
          DEF Moves, m
<1> QED BY <1>21

\* A map with values of a type.
LEMMA IsMapIf ==
    ASSUME NEW f, NEW S, NEW T, Maplike(f), DOMAIN f \subseteq S, \A x \in DOMAIN f : f[x] \in T
    PROVE  IsMap(f, S, T)
BY DEF Maplike, IsMap

\* The owners of the locks after the update.
LEMMA MovesOwner ==
    ASSUME NEW t, NEW r, NEW k, NEW id, NEW gain, NEW l, NEW old, NEW new,
           MgrOK(t.mgr), Moves(t, r, k, id, gain, l, old, new)
    PROVE  /\ r.mgr.perm[k] = l /\ DOMAIN r.mgr.perm = DOMAIN t.mgr.perm \cup {k}
           /\ \A j \in DOMAIN t.mgr.perm : j # k => r.mgr.perm[j] = t.mgr.perm[j] /\ t.mgr.perm[j] # l
           /\ DOMAIN r.mgr.temp \subseteq DOMAIN t.mgr.temp
           /\ \A j \in DOMAIN r.mgr.temp : r.mgr.temp[j] = t.mgr.temp[j] /\ r.mgr.temp[j] # l
           /\ \A j \in DOMAIN r.mgr.perm : r.mgr.perm[j] \in DOMAIN r.mgr.locks
           /\ \A j \in DOMAIN r.mgr.temp : r.mgr.temp[j] \in DOMAIN r.mgr.locks
           /\ Maplike(r.mgr.temp)
<1> DEFINE m == t.mgr
           n == r.mgr
<1>1. /\ m.perm \in [DOMAIN m.perm -> DOMAIN m.locks] /\ m.temp \in [DOMAIN m.temp -> DOMAIN m.locks]
      /\ OneOwner(m)
  BY DEF MgrOK, IsMap
<1>2. /\ n.perm = Put(m.perm, k, l)
      /\ Kept(m, n, k, l, old) \/ Promoted(m, n, k, l, old) \/ Created(m, n, k, id, l, old)
      /\ DOMAIN n.locks = (DOMAIN m.locks \cup {l}) \ Dead(m, k, l)
  BY DEF Moves
<1> HIDE DEF m, n
<1>3. /\ n.perm[k] = l /\ DOMAIN n.perm = DOMAIN m.perm \cup {k}
      /\ \A j \in DOMAIN m.perm : j # k => n.perm[j] = m.perm[j]
  BY <1>2 DEF Put
<1>4. \A j \in DOMAIN m.perm : j # k => m.perm[j] # l
  BY <1>1, <1>2 DEF Kept, Promoted, Created, OneOwner
<1>5. /\ DOMAIN n.temp \subseteq DOMAIN m.temp
      /\ \A j \in DOMAIN n.temp : n.temp[j] = m.temp[j]
      /\ Maplike(n.temp)
  BY <1>1, <1>2 DEF Kept, Promoted, Created, Without, Restrict, Maplike
<1>6. \A j \in DOMAIN n.temp : n.temp[j] # l
  <2>1. CASE Kept(m, n, k, l, old)
    BY <2>1, <1>1, <1>5 DEF Kept, OneOwner
  <2>2. CASE Promoted(m, n, k, l, old)
    <3>1. k \notin DOMAIN n.temp
      BY <2>2 DEF Promoted, Without, Restrict
    <3> QED BY <2>2, <3>1, <1>1, <1>5 DEF Promoted, OneOwner
  <2>3. CASE Created(m, n, k, id, l, old)
    BY <2>3, <1>1, <1>5 DEF Created
  <2> QED BY <1>2, <2>1, <2>2, <2>3
<1>7. \A j \in DOMAIN n.perm : n.perm[j] \in DOMAIN n.locks
  BY <1>1, <1>2, <1>3, <1>4 DEF Dead, OneOwner
<1>8. \A j \in DOMAIN n.temp : n.temp[j] \in DOMAIN n.locks
  BY <1>1, <1>2, <1>5 DEF Dead, OneOwner
<1> QED BY <1>3, <1>4, <1>5, <1>6, <1>7, <1>8 DEF m, n

\* The update keeps a transaction well formed.
LEMMA MovesOK ==
    ASSUME NEW t, NEW r, NEW k \in Keys, NEW id \in Ids, NEW gain, NEW l, NEW old, NEW new,
           TransOK(t), Moves(t, r, k, id, gain, l, old, new), Known(ids, id), HasResetSchedule(k[2])
    PROVE  TransOK(r)
<1> DEFINE m == t.mgr
           n == r.mgr
<1>1. /\ MgrOK(m)
      /\ m.locks \in [DOMAIN m.locks -> LockType] /\ DOMAIN m.locks \subseteq Addresses
      /\ IsFiniteSet(DOMAIN m.locks) /\ IsFiniteSet(DOMAIN m.shared)
      /\ m.shared \in [DOMAIN m.shared -> SharedType] /\ DOMAIN m.shared \subseteq Addresses
      /\ DOMAIN m.perm \subseteq Keys /\ DOMAIN m.temp \subseteq Keys
      /\ m.byId \in [DOMAIN m.byId -> Addresses] /\ DOMAIN m.byId \subseteq Ids
      /\ OneOwner(m) /\ LocksScheduled(m) /\ LocksKnown(m, ids)
  BY DEF TransOK, MgrOK, IsMap
<1>2. /\ l \in Addresses /\ new \in LockType /\ new.id = id
      /\ IsMgr(n) /\ Maplike(n.locks) /\ Maplike(n.shared) /\ Maplike(n.byId)
      /\ n.perm = Put(m.perm, k, l)
      /\ DOMAIN n.locks = (DOMAIN m.locks \cup {l}) \ Dead(m, k, l)
      /\ n.locks[l] = new
      /\ \A z \in DOMAIN n.locks : z # l => n.locks[z] = m.locks[z]
      /\ DOMAIN n.shared \subseteq DOMAIN m.shared
      /\ \A x \in DOMAIN n.shared : n.shared[x] = m.shared[x]
      /\ DOMAIN n.byId \subseteq DOMAIN m.byId
      /\ \A x \in DOMAIN n.byId : n.byId[x] = m.byId[x]
      /\ r.ok \in BOOLEAN
  BY DEF Moves, Refreshed
<1>3. /\ IsTrans(r)
      /\ r.lock = Put(t.lock, k, Row(new)) /\ r.instance = t.instance
  BY DEF Moves
<1>4. /\ n.perm[k] = l /\ DOMAIN n.perm = DOMAIN m.perm \cup {k}
      /\ \A j \in DOMAIN m.perm : j # k => n.perm[j] = m.perm[j] /\ m.perm[j] # l
      /\ DOMAIN n.temp \subseteq DOMAIN m.temp
      /\ \A j \in DOMAIN n.temp : n.temp[j] = m.temp[j] /\ n.temp[j] # l
      /\ \A j \in DOMAIN n.perm : n.perm[j] \in DOMAIN n.locks
      /\ \A j \in DOMAIN n.temp : n.temp[j] \in DOMAIN n.locks
      /\ Maplike(n.temp)
  BY <1>1, MovesOwner
<1> HIDE DEF m, n
<1>5. IsMap(n.locks, Addresses, LockType) /\ IsFiniteSet(DOMAIN n.locks)
  <2>1. IsFiniteSet(DOMAIN m.locks \cup {l})
    BY <1>1, FS_AddElement
  <2>2. IsFiniteSet(DOMAIN n.locks)
    BY <1>2, <2>1, FS_Subset
  <2>3. DOMAIN n.locks \subseteq Addresses /\ \A z \in DOMAIN n.locks : n.locks[z] \in LockType
    BY <1>1, <1>2
  <2> QED BY <1>2, <2>2, <2>3, IsMapIf
<1>6. IsMap(n.shared, Addresses, SharedType) /\ IsFiniteSet(DOMAIN n.shared)
  <2>1. IsFiniteSet(DOMAIN n.shared)
    BY <1>1, <1>2, FS_Subset
  <2>2. DOMAIN n.shared \subseteq Addresses /\ \A z \in DOMAIN n.shared : n.shared[z] \in SharedType
    BY <1>1, <1>2
  <2> QED BY <1>2, <2>1, <2>2, IsMapIf
<1>7. IsMap(n.perm, Keys, DOMAIN n.locks)
  <2>1. Maplike(n.perm)
    BY <1>2 DEF Put, Maplike
  <2>2. DOMAIN n.perm \subseteq Keys
    BY <1>1, <1>4
  <2> QED BY <1>4, <2>1, <2>2, IsMapIf
<1>8. IsMap(n.temp, Keys, DOMAIN n.locks)
  <2>1. DOMAIN n.temp \subseteq Keys
    BY <1>1, <1>4
  <2> QED BY <1>4, <2>1, IsMapIf
<1>9. IsMap(n.byId, Ids, Addresses)
  <2>1. DOMAIN n.byId \subseteq Ids /\ \A z \in DOMAIN n.byId : n.byId[z] \in Addresses
    BY <1>1, <1>2
  <2> QED BY <1>2, <2>1, IsMapIf
<1>10. OneOwner(n)
  BY <1>1, <1>4 DEF OneOwner
<1>11. LocksScheduled(n)
  BY <1>1, <1>4 DEF LocksScheduled
<1>12. LocksKnown(n, ids)
  BY <1>1, <1>2 DEF LocksKnown
<1>13. MgrOK(n)
  BY <1>2, <1>5, <1>6, <1>7, <1>8, <1>9, <1>10, <1>11 DEF MgrOK
<1>14. IsMap(r.lock, Keys, RowType) /\ \A j \in DOMAIN r.lock : Known(ids, r.lock[j].id) /\ HasResetSchedule(j[2])
  <2>1. Row(new) \in RowType /\ Row(new).id = id
    BY <1>2 DEF Row, RowType, LockType
  <2>2. IsMap(t.lock, Keys, RowType) /\ \A j \in DOMAIN t.lock : Known(ids, t.lock[j].id) /\ HasResetSchedule(j[2])
    BY DEF TransOK
  <2>3. IsMap(r.lock, Keys, RowType)
    BY <1>3, <2>1, <2>2, PutMap
  <2>4. /\ DOMAIN r.lock = DOMAIN t.lock \cup {k} /\ r.lock[k] = Row(new)
        /\ \A j \in DOMAIN t.lock : j # k => r.lock[j] = t.lock[j]
    BY <1>3 DEF Put
  <2> QED BY <2>1, <2>2, <2>3, <2>4
<1>15. IsMap(r.instance, Ids, SUBSET Encounters) /\ \A x \in DOMAIN r.instance : Known(ids, x)
  BY <1>3 DEF TransOK
<1> QED BY <1>2, <1>3, <1>12, <1>13, <1>14, <1>15 DEF TransOK, n

\* Giving up keeps it well formed, too.
LEMMA GivesUpOK ==
    ASSUME NEW t, TransOK(t)
    PROVE  LET r == [t EXCEPT !.ok = FALSE] IN
           /\ TransOK(r) /\ r.mgr = t.mgr /\ r.erased = t.erased /\ r.lock = t.lock
           /\ r.instance = t.instance /\ ~r.ok
<1> DEFINE r == [t EXCEPT !.ok = FALSE]
<1>1. /\ r.mgr = t.mgr /\ r.erased = t.erased /\ r.lock = t.lock
      /\ r.instance = t.instance /\ r.ok = FALSE
  BY DEF TransOK, IsTrans
<1>2. r \in [mgr: {t.mgr}, erased: {t.erased}, lock: {t.lock}, instance: {t.instance}, ok: BOOLEAN]
  BY DEF TransOK, IsTrans
<1> HIDE DEF r
<1>3. TransOK(r)
  BY <1>1, <1>2 DEF TransOK, IsTrans
<1> QED BY <1>1, <1>3 DEF r

\* An empty transaction.
LEMMA BeginOK ==
    ASSUME MgrOK(mgr), LocksKnown(mgr, ids)
    PROVE  /\ TransOK(Begin) /\ Begin.mgr = mgr /\ Begin.erased = {} /\ Begin.lock = Empty
           /\ Begin.instance = Empty /\ Begin.ok
<1>1. IsTrans(Begin)
  BY DEF IsTrans, Begin
<1>2. /\ Begin.mgr = mgr /\ Begin.erased = {} /\ Begin.lock = Empty
      /\ Begin.instance = Empty /\ Begin.ok
  BY DEF Begin
<1>3. IsMap(Begin.lock, Keys, RowType) /\ IsMap(Begin.instance, Ids, SUBSET Encounters)
  BY <1>2, EmptyMap
<1>4. DOMAIN Begin.lock = {} /\ DOMAIN Begin.instance = {}
  BY <1>2 DEF Empty
<1> QED BY <1>1, <1>2, <1>3, <1>4 DEF TransOK

\* UpdateSharedInstanceLock gives up or updates the data of the instance.
Shares(t, r, id, done) ==
    LET m == t.mgr
        n == r.mgr
        x == m.byId[id]
    IN  /\ id \in DOMAIN m.byId /\ x \in DOMAIN m.shared /\ m.shared[x].instanceId \in {0, id}
        /\ n.locks = m.locks /\ n.perm = m.perm /\ n.temp = m.temp /\ n.byId = m.byId
        /\ DOMAIN n.shared = DOMAIN m.shared
        /\ n.shared[x] = [instanceId |-> id, mask |-> m.shared[x].mask \cup done]
        /\ \A y \in DOMAIN m.shared : y # x => n.shared[y] = m.shared[y]
        /\ r.lock = t.lock /\ r.erased = t.erased /\ r.ok = t.ok
        /\ r.instance = Put(t.instance, id, m.shared[x].mask \cup done)

\* UpdateSharedInstanceLock gives up or is that update.
LEMMA UpdateSharedIs ==
    ASSUME NEW t, TransOK(t), NEW id \in Ids, Known(ids, id), NEW done \in SUBSET Encounters
    PROVE  LET r == UpdateSharedInstanceLock(t, id, done) IN
           /\ TransOK(r)
           /\ r = [t EXCEPT !.ok = FALSE] \/ Shares(t, r, id, done)
<1> DEFINE m == t.mgr
           x == m.byId[id]
           data == [instanceId |-> id, mask |-> m.shared[x].mask \cup done]
           n == [m EXCEPT !.shared[x] = data]
           r == UpdateSharedInstanceLock(t, id, done)
           shares == /\ id \in DOMAIN m.byId /\ x \in DOMAIN m.shared
                     /\ m.shared[x].instanceId \in {0, id}
<1>1. CASE ~shares
  <2>1. r = [t EXCEPT !.ok = FALSE]
    BY <1>1 DEF UpdateSharedInstanceLock
  <2>2. TransOK([t EXCEPT !.ok = FALSE])
    BY GivesUpOK
  <2> HIDE DEF r
  <2> QED BY <2>1, <2>2 DEF r
<1>2. CASE shares
  <2>1. r = [t EXCEPT !.mgr = n, !.instance = Put(@, id, data.mask)]
    BY <1>2 DEF UpdateSharedInstanceLock
  <2>2. /\ MgrOK(m) /\ IsMgr(m) /\ IsTrans(t)
        /\ m.shared \in [DOMAIN m.shared -> SharedType] /\ DOMAIN m.shared \subseteq Addresses
        /\ IsFiniteSet(DOMAIN m.shared)
    BY DEF TransOK, MgrOK, IsMap
  <2>3. data \in SharedType
    <3>1. m.shared[x] \in SharedType
      BY <1>2, <2>2
    <3>2. m.shared[x].mask \cup done \in SUBSET Encounters
      BY <3>1 DEF SharedType
    <3> QED BY <3>2 DEF SharedType
  <2>d. data.mask = m.shared[x].mask \cup done
    OBVIOUS
  <2> HIDE DEF data, m, x
  <2>4. /\ n.locks = m.locks /\ n.perm = m.perm /\ n.temp = m.temp /\ n.byId = m.byId
        /\ n.shared = [m.shared EXCEPT ![x] = data]
        /\ n \in [locks: {n.locks}, shared: {n.shared}, perm: {n.perm}, temp: {n.temp}, byId: {n.byId}]
    BY <2>2 DEF IsMgr
  <2> HIDE DEF n
  <2>5. /\ DOMAIN n.shared = DOMAIN m.shared /\ n.shared[x] = data
        /\ \A y \in DOMAIN m.shared : y # x => n.shared[y] = m.shared[y]
        /\ n.shared \in [DOMAIN n.shared -> SharedType]
    BY <1>2, <2>2, <2>3, <2>4
  <2>6. MgrOK(n)
    BY <2>2, <2>4, <2>5 DEF MgrOK, IsMgr, IsMap, OneOwner, LocksScheduled
  <2>7. /\ r.mgr = n /\ r.erased = t.erased /\ r.lock = t.lock /\ r.ok = t.ok
        /\ r.instance = Put(t.instance, id, data.mask)
    BY <2>1, <2>2 DEF IsTrans
  <2>8. IsTrans(r)
    <3>1. r \in [mgr: {n}, erased: {t.erased}, lock: {t.lock},
                 instance: {Put(t.instance, id, data.mask)}, ok: BOOLEAN]
      BY <2>1, <2>2 DEF IsTrans
    <3> HIDE DEF r
    <3> QED BY <2>7, <3>1 DEF IsTrans
  <2> HIDE DEF r
  <2>9. IsMap(r.instance, Ids, SUBSET Encounters) /\ \A y \in DOMAIN r.instance : Known(ids, y)
    <3>1. IsMap(t.instance, Ids, SUBSET Encounters) /\ \A y \in DOMAIN t.instance : Known(ids, y)
      BY DEF TransOK
    <3>2. data.mask \in SUBSET Encounters
      BY <2>3 DEF SharedType
    <3>3. IsMap(r.instance, Ids, SUBSET Encounters)
      BY <2>7, <3>1, <3>2, PutMap
    <3>4. DOMAIN r.instance = DOMAIN t.instance \cup {id}
      BY <2>7 DEF Put
    <3> QED BY <3>1, <3>3, <3>4
  <2>10. LocksKnown(n, ids)
    BY <2>4 DEF TransOK, LocksKnown, m
  <2>11. TransOK(r)
    BY <2>6, <2>7, <2>8, <2>9, <2>10 DEF TransOK
  <2>12. Shares(t, r, id, done)
    BY <1>2, <2>4, <2>5, <2>7, <2>d DEF Shares, data, m, x
  <2> QED BY <2>11, <2>12 DEF r
<1> QED BY <1>1, <1>2

\* Every transaction of UpdateInstanceLock is well formed.
LEMMA SavedOK ==
    ASSUME MgrOK(mgr), LocksKnown(mgr, ids), MapsOK(maps, at), MapsKnown(maps, ids),
           NEW i \in DOMAIN maps, HasResetSchedule(i[1]), maps[i].lock \in DOMAIN mgr.locks,
           NEW done \in SUBSET Encounters
    PROVE  TransOK(Saved(i, done))
<1> DEFINE G == {t \in Results(i, done) : TransOK(t)}
           mask == mgr.locks[maps[i].lock].mask \cup done
<1>1. i[1] \in Dungeons /\ i[2] \in Ids /\ Known(ids, i[2]) /\ IsFiniteSet(DOMAIN maps)
  BY DEF MapsOK, IsMap, MapsKnown
<1>2. mask \in SUBSET Encounters
  BY DEF MgrOK, IsMap, LockType
<1>3. TransOK(SavedBase(i, done))
  BY <1>1, BeginOK, UpdateSharedIs DEF SavedBase
<1>4. ASSUME NEW p \in Inside(i), NEW t \in G PROVE TransOK(SavedStep(i, done, p, t))
  <2> DEFINE r == SavedStep(i, done, p, t)
  <2>0. TransOK(t) /\ p \in Players /\ <<p, i[1]>> \in Keys
    BY <1>1 DEF Inside, Keys
  <2> HIDE DEF mask, G
  <2>1. \/ r = [t EXCEPT !.ok = FALSE]
        \/ \E l, old, new : Moves(t, r, <<p, i[1]>>, i[2], GainedEncounters(i[1], done, mask), l, old, new)
    BY <1>1, <1>2, <2>0, UpdateIs DEF SavedStep, mask
  <2> HIDE DEF r
  <2>2. ASSUME r = [t EXCEPT !.ok = FALSE] PROVE TransOK(r)
    BY <2>0, <2>2, GivesUpOK
  <2>3. ASSUME NEW l, NEW old, NEW new,
               Moves(t, r, <<p, i[1]>>, i[2], GainedEncounters(i[1], done, mask), l, old, new)
        PROVE  TransOK(r)
    BY <1>1, <2>0, <2>3, MovesOK
  <2> QED BY <2>1, <2>2, <2>3 DEF r
<1>5. Saved(i, done) \in G
  <2>1. SavedBase(i, done) \in Results(i, done) => SavedBase(i, done) \in G
    BY <1>3
  <2>2. \A p \in Inside(i) : \A t \in G :
              SavedStep(i, done, p, t) \in Results(i, done) => SavedStep(i, done, p, t) \in G
    BY <1>4
  <2> HIDE DEF G
  <2> QED BY <2>1, <2>2, SavedInduction
<1> QED BY <1>5

\* ... and so is the one of ConfirmPendingBind.
LEMMA BoundOK ==
    ASSUME MgrOK(mgr), LocksKnown(mgr, ids), MapsOK(maps, at), MapsKnown(maps, ids),
           NEW p \in Players, at[p] # Outside, maps[at[p]].lock # NoLock, ~Dangling(at[p])
    PROVE  /\ TransOK(Bound(p))
           /\ at[p] \in DOMAIN maps /\ <<p, at[p][1]>> \in Keys /\ at[p][2] \in Ids
           /\ maps[at[p]].lock \in DOMAIN mgr.locks /\ HasResetSchedule(at[p][1])
           /\ LET gain == GainedEncounters(at[p][1], {}, mgr.locks[maps[at[p]].lock].mask) IN
              \/ Bound(p) = [Begin EXCEPT !.ok = FALSE]
              \/ \E l, old, new : Moves(Begin, Bound(p), <<p, at[p][1]>>, at[p][2], gain, l, old, new)
<1> DEFINE i == at[p]
           mask == mgr.locks[maps[i].lock].mask
           gain == GainedEncounters(i[1], {}, mask)
<1>1. i \in DOMAIN maps /\ HasResetSchedule(i[1]) /\ maps[i].lock \in DOMAIN mgr.locks
  BY DEF MapsOK, Dangling
<1>2. /\ i[1] \in Dungeons /\ i[2] \in Ids /\ Known(ids, i[2]) /\ IsFiniteSet(DOMAIN maps)
      /\ <<p, i[1]>> \in Keys
  BY <1>1 DEF MapsOK, IsMap, MapsKnown, Keys
<1>3. mask \in SUBSET Encounters
  BY <1>1 DEF MgrOK, IsMap, LockType
<1>4. TransOK(Begin)
  BY BeginOK
<1>5. Bound(p) = UpdateInstanceLockForPlayer(Begin, p, i[1], i[2], {}, mask)
  BY DEF Bound
<1> HIDE DEF mask, i
<1>6. \/ Bound(p) = [Begin EXCEPT !.ok = FALSE]
      \/ \E l, old, new : Moves(Begin, Bound(p), <<p, i[1]>>, i[2], gain, l, old, new)
  <2>1. {} \in SUBSET Encounters
    OBVIOUS
  <2> DEFINE r == UpdateInstanceLockForPlayer(Begin, p, i[1], i[2], {}, mask)
  <2>2. \/ r = [Begin EXCEPT !.ok = FALSE]
        \/ \E l, old, new : Moves(Begin, r, <<p, i[1]>>, i[2], gain, l, old, new)
    BY <1>2, <1>3, <1>4, <2>1, UpdateIs
  <2> QED BY <1>5, <2>2
<1> HIDE DEF gain
<1>7. CASE Bound(p) = [Begin EXCEPT !.ok = FALSE]
  BY <1>1, <1>2, <1>4, <1>6, <1>7, GivesUpOK DEF i, gain, mask
<1>8. CASE \E l, old, new : Moves(Begin, Bound(p), <<p, i[1]>>, i[2], gain, l, old, new)
  <2>1. TransOK(Bound(p))
    BY <1>1, <1>2, <1>4, <1>8, MovesOK
  <2> QED BY <1>1, <1>2, <1>6, <2>1 DEF i, gain, mask
<1> QED BY <1>6, <1>7, <1>8

\* Rows of instance are deleted.
LEMMA EraseOK ==
    ASSUME DbOK(db), NEW erased
    PROVE  LET tables == EraseInstances(db, erased) IN
           /\ DbOK(tables) /\ tables.lock = db.lock
           /\ DOMAIN tables.instance = DOMAIN db.instance \ erased
           /\ \A id \in DOMAIN tables.instance : tables.instance[id] = db.instance[id]
<1> DEFINE tables == EraseInstances(db, erased)
<1>1. tables.lock = db.lock /\ tables.instance = Restrict(db.instance, DOMAIN db.instance \ erased)
  BY DEF DbOK, EraseInstances
<1>2. tables \in [lock: {tables.lock}, instance: {tables.instance}]
  BY DEF DbOK, EraseInstances
<1> HIDE DEF tables
<1>3. /\ IsMap(tables.instance, Ids, SUBSET Encounters)
      /\ DOMAIN tables.instance = DOMAIN db.instance \ erased
  BY <1>1, RestrictMap DEF DbOK
<1>4. \A id \in DOMAIN tables.instance : tables.instance[id] = db.instance[id]
  BY <1>1 DEF Restrict
<1>5. DbOK(tables)
  BY <1>1, <1>2, <1>3 DEF DbOK
<1> QED BY <1>1, <1>3, <1>4, <1>5 DEF tables

\* The tables after a commit.
LEMMA CommitTablesOK ==
    ASSUME DbOK(db), RowsKnown(db, ids), NEW t, TransOK(t)
    PROVE  DbOK(CommitTransaction(t)) /\ RowsKnown(CommitTransaction(t), ids)
<1> DEFINE lock == Overlay(t.lock, db.lock)
           kept == EraseInstances(db, t.erased)
           instance == Overlay(t.instance, kept.instance)
<1>1. DbOK(kept) /\ kept.lock = db.lock
  BY EraseOK
<1>2. CASE HasDuplicate(lock)
  BY <1>1, <1>2 DEF CommitTransaction, RowsKnown
<1>3. CASE ~HasDuplicate(lock)
  <2>1. CommitTransaction(t) = [lock |-> lock, instance |-> instance]
    BY <1>3 DEF CommitTransaction
  <2>2. IsMap(lock, Keys, RowType)
    BY OverlayMap DEF TransOK, DbOK
  <2>3. \A k \in DOMAIN lock : Known(ids, lock[k].id) /\ HasResetSchedule(k[2])
    BY DEF Overlay, TransOK, DbOK, RowsKnown
  <2>4. IsMap(instance, Ids, SUBSET Encounters)
    BY <1>1, OverlayMap DEF TransOK, DbOK
  <2>5. \A id \in DOMAIN instance : id < OverflowId
    BY <1>1 DEF Overlay, TransOK, DbOK, Known
  <2> HIDE DEF lock, instance
  <2> QED BY <2>1, <2>2, <2>3, <2>4, <2>5 DEF DbOK, RowsKnown, Known
<1> QED BY <1>2, <1>3

-----------------------------------------------------------------------------
(* CreateMap.                                                               *)

\* What FindActiveInstanceLock finds.
LEMMA FindActiveIs ==
    ASSUME NEW m, MgrOK(m), NEW p, NEW d
    PROVE  LET l == FindActiveInstanceLock(m, p, d, FALSE)
               k == <<p, d>>
           IN  /\ l # NoLock => HasLock(m, k, l) /\ l \in DOMAIN m.locks /\ HasResetSchedule(d)
               /\ l = NoLock => /\ k \notin DOMAIN m.temp
                                /\ k \in DOMAIN m.perm => ~IsActive(m.locks[m.perm[k]])
<1>1. /\ m.perm \in [DOMAIN m.perm -> DOMAIN m.locks] /\ m.temp \in [DOMAIN m.temp -> DOMAIN m.locks]
      /\ NoLock \notin DOMAIN m.locks
  BY InstanceLocksAssumption DEF MgrOK, IsMap
<1>2. <<p, d>> \in DOMAIN m.perm \cup DOMAIN m.temp => HasResetSchedule(d)
  BY DEF MgrOK, LocksScheduled
<1> QED BY <1>1, <1>2 DEF FindActiveInstanceLock, FindInstanceLock, HasLock

\* A new temporary lock l of the key k.
NewTemporary(n, l, k, id) ==
    LET data == IF IsInstanceIdBound(k[2]) THEN l ELSE NoLock IN
    /\ l \in Addresses /\ l \notin DOMAIN mgr.locks /\ l \notin DOMAIN mgr.shared
    /\ \A i \in DOMAIN maps : maps[i].lock # l
    /\ IsMgr(n)
    /\ n.locks = Put(mgr.locks, l, n.locks[l]) /\ n.locks[l] \in LockType
    /\ n.locks[l].id = id /\ n.locks[l].shared = data /\ n.locks[l].mask = {}
    /\ n.shared = IF IsInstanceIdBound(k[2]) THEN Put(mgr.shared, l, [instanceId |-> 0, mask |-> {}])
                  ELSE mgr.shared
    /\ n.perm = mgr.perm /\ n.temp = Put(mgr.temp, k, l)
    /\ n.byId = IF IsInstanceIdBound(k[2]) THEN Put(mgr.byId, id, l) ELSE mgr.byId

\* The lock l gets another id.
Renamed(m, n, l, id) ==
    /\ l \in DOMAIN m.locks
    /\ DOMAIN n.locks = DOMAIN m.locks /\ Maplike(n.locks)
    /\ n.locks[l] \in LockType /\ n.locks[l].id = id
    /\ n.locks[l].shared = m.locks[l].shared /\ n.locks[l].mask = m.locks[l].mask
    /\ n.locks[l].expired = m.locks[l].expired /\ n.locks[l].extended = m.locks[l].extended
    /\ \A z \in DOMAIN m.locks : z # l => n.locks[z] = m.locks[z]
    /\ IsMgr(n) /\ n.shared = m.shared /\ n.perm = m.perm /\ n.temp = m.temp /\ n.byId = m.byId

\* Assigning an id to a lock is that renaming.
LEMMA RenameIs ==
    ASSUME NEW m, IsMgr(m), m.locks \in [DOMAIN m.locks -> LockType],
           NEW l \in DOMAIN m.locks, NEW id \in Ids
    PROVE  Renamed(m, [m EXCEPT !.locks[l].id = id], l, id)
<1> DEFINE n == [m EXCEPT !.locks[l].id = id]
           lock == [m.locks[l] EXCEPT !.id = id]
<1>1. m.locks[l] \in LockType
  OBVIOUS
<1>2. /\ lock \in LockType /\ lock.id = id
      /\ lock.shared = m.locks[l].shared /\ lock.mask = m.locks[l].mask
      /\ lock.expired = m.locks[l].expired /\ lock.extended = m.locks[l].extended
  BY <1>1 DEF LockType
<1>3. n = [m EXCEPT !.locks = [m.locks EXCEPT ![l] = lock]]
  BY DEF IsMgr
<1> HIDE DEF lock, n
<1>4. /\ n.locks = [m.locks EXCEPT ![l] = lock]
      /\ n.shared = m.shared /\ n.perm = m.perm /\ n.temp = m.temp /\ n.byId = m.byId
  BY <1>3 DEF IsMgr
<1>5. n \in [locks: {n.locks}, shared: {m.shared}, perm: {m.perm}, temp: {m.temp}, byId: {m.byId}]
  BY <1>3 DEF IsMgr
<1>6. /\ DOMAIN n.locks = DOMAIN m.locks /\ Maplike(n.locks) /\ n.locks[l] = lock
      /\ \A z \in DOMAIN m.locks : z # l => n.locks[z] = m.locks[z]
  BY <1>4 DEF Maplike
<1> QED BY <1>2, <1>4, <1>5, <1>6 DEF Renamed, IsMgr, n

\* CreateInstanceLockForNewInstance makes that lock.
LEMMA CreateLockIs ==
    ASSUME MgrOK(mgr), IsFiniteSet(DOMAIN maps), NEW p, NEW d, NEW id \in Ids
    PROVE  NewTemporary(CreateInstanceLockForNewInstance(mgr, p, d, id), FreshAddress(mgr), <<p, d>>, id)
<1> DEFINE l == FreshAddress(mgr)
           n == CreateInstanceLockForNewInstance(mgr, p, d, id)
           data == IF IsInstanceIdBound(d) THEN l ELSE NoLock
           lock == [NewLock(id, data) EXCEPT !.isNew = TRUE]
           k == <<p, d>>
<1>1. /\ l \in Addresses /\ l \notin DOMAIN mgr.locks /\ l \notin DOMAIN mgr.shared
      /\ \A i \in DOMAIN maps : maps[i].lock # l
  BY FreshAddressIs DEF MgrOK
<1>2. l # NoLock /\ (data = NoLock <=> ~IsInstanceIdBound(d)) /\ data \in Addresses \cup {NoLock}
  BY <1>1, InstanceLocksAssumption
<1> HIDE DEF l
<1>3. /\ IsMgr(n)
      /\ n.locks = Put(mgr.locks, l, lock)
      /\ n.shared = IF data = NoLock THEN mgr.shared ELSE Put(mgr.shared, l, [instanceId |-> 0, mask |-> {}])
      /\ n.perm = mgr.perm /\ n.temp = Put(mgr.temp, k, l)
      /\ n.byId = IF data = NoLock THEN mgr.byId ELSE Put(mgr.byId, id, l)
  BY DEF CreateInstanceLockForNewInstance, IsMgr, l
<1>4. k[2] = d
  OBVIOUS
<1> HIDE DEF n, k
<1>5. lock \in LockType /\ lock.id = id /\ lock.shared = data /\ lock.mask = {}
  BY <1>2 DEF LockType, NewLock
<1> HIDE DEF lock
<1>6. n.locks[l] = lock
  BY <1>3 DEF Put
<1>7. data = IF IsInstanceIdBound(k[2]) THEN l ELSE NoLock
  BY <1>4
<1> HIDE DEF data
<1> QED BY <1>1, <1>2, <1>3, <1>4, <1>5, <1>6, <1>7 DEF NewTemporary, n, k, l

\* The cases of CreateMap: a lock is found, its id may be used for the map or
\* is given up for a new one; no lock is needed, and the id is a remembered one
\* or new; a lock is made.
UsesFound(c, k, d) ==
    /\ c.lock = FindActiveInstanceLock(mgr, k[1], d, FALSE) /\ c.lock # NoLock
    /\ c.id = mgr.locks[c.lock].id /\ c.mgr = mgr /\ c.ids = ids /\ c.generated = {}
    /\ ~IsInstanceIdBound(d) /\ <<d, c.id>> \in DOMAIN maps => maps[<<d, c.id>>].lock = c.lock
RenamesFound(c, k, d) ==
    /\ c.lock = FindActiveInstanceLock(mgr, k[1], d, FALSE) /\ c.lock # NoLock
    /\ ~IsInstanceIdBound(d)
    /\ c.id = ids.next /\ Renamed(mgr, c.mgr, c.lock, c.id)
    /\ c.ids = GenerateInstanceId(ids) /\ c.generated = {ids.next}
NeedsNoLock(c, k, d) ==
    /\ c.lock = NoLock /\ ~HasResetSchedule(d)
    /\ c.mgr = mgr
    /\ \/ /\ c.generated = {} /\ c.ids = ids /\ c.id # 0
          /\ \/ d \in DOMAIN groupRecent /\ c.id = groupRecent[d].id
             \/ \E j \in DOMAIN recent : c.id = recent[j]
       \/ c.generated = {ids.next} /\ c.ids = GenerateInstanceId(ids) /\ c.id = ids.next
MakesLock(c, k, d) ==
    /\ FindActiveInstanceLock(mgr, k[1], d, FALSE) = NoLock /\ HasResetSchedule(d)
    /\ NewTemporary(c.mgr, c.lock, k, c.id)
    /\ \/ c.id = ids.next /\ c.ids = GenerateInstanceId(ids) /\ c.generated = {ids.next}
       \/ /\ <<d, ids.next>> \in DOMAIN maps
          /\ c.id = GenerateInstanceId(ids).next
          /\ c.ids = GenerateInstanceId(GenerateInstanceId(ids))
          /\ c.generated = {ids.next, c.id}

\* Whoever's lock counts is a player.
LEMMA OwnerIs ==
    ASSUME Shape, NEW p \in Players, NEW d
    PROVE  OwnerOf(p, d) \in Players
<1>1. Leader \in Players
  BY InstanceLocksAssumption
<1>2. d \in DOMAIN groupRecent => groupRecent[d].owner \in Players
  BY DEF Shape, RecentOK, IsMap
<1> QED BY <1>1, <1>2 DEF OwnerOf, Value

\* CreateMap is one of these cases.
LEMMA CreateMapIs ==
    ASSUME Shape, NEW p \in Players, NEW d \in Dungeons
    PROVE  LET c == CreateMap(p, d)
               k == <<OwnerOf(p, d), d>>
           IN  /\ k \in Keys
               /\ UsesFound(c, k, d) \/ RenamesFound(c, k, d) \/ NeedsNoLock(c, k, d) \/ MakesLock(c, k, d)
<1> DEFINE owner == OwnerOf(p, d)
           k     == <<owner, d>>
           found == FindActiveInstanceLock(mgr, owner, d, FALSE)
           known == IF found # NoLock THEN mgr.locks[found].id
                    ELSE IF HasResetSchedule(d) THEN 0 ELSE RecentInstanceId(p, d)
           id    == IF known # 0 THEN known ELSE ids.next
           new   == found = NoLock /\ HasResetSchedule(d)
           m     == IF new THEN CreateInstanceLockForNewInstance(mgr, owner, d, id) ELSE mgr
           f     == FindOrCreateLock(p, d)
           clash == /\ ~IsInstanceIdBound(d) /\ f.lock # NoLock
                    /\ <<d, f.id>> \in DOMAIN maps
                    /\ maps[<<d, f.id>>].lock # f.lock
           c     == CreateMap(p, d)
<1>1. f = [id |-> id, lock |-> IF new THEN m.temp[<<owner, d>>] ELSE found, mgr |-> m,
           ids |-> IF known # 0 THEN ids ELSE GenerateInstanceId(ids),
           generated |-> IF known # 0 THEN {} ELSE {id}]
  BY DEF FindOrCreateLock
<1>2. c = IF ~clash THEN f
          ELSE [id |-> f.ids.next, lock |-> f.lock,
                mgr |-> [f.mgr EXCEPT !.locks[f.lock].id = f.ids.next],
                ids |-> GenerateInstanceId(f.ids), generated |-> f.generated \cup {f.ids.next}]
  BY DEF CreateMap
<1>3. /\ owner \in Players /\ k \in Keys /\ k[1] = owner /\ k[2] = d
  BY OwnerIs DEF Keys
<1>4. /\ MgrOK(mgr) /\ IsMgr(mgr) /\ IsFiniteSet(DOMAIN maps) /\ AllocOK(ids)
      /\ mgr.locks \in [DOMAIN mgr.locks -> LockType]
  BY DEF Shape, MgrOK, IsMap, MapsOK
<1>5. /\ found # NoLock => HasLock(mgr, k, found) /\ found \in DOMAIN mgr.locks /\ HasResetSchedule(d)
  BY <1>4, FindActiveIs
<1>6. found # NoLock => mgr.locks[found].id \in Ids
  BY <1>4, <1>5 DEF LockType
<1>7. 0 \notin Ids /\ ids.next \in Ids
  BY <1>4, GenerateOK DEF Ids
<1>8. AllocOK(GenerateInstanceId(ids)) /\ GenerateInstanceId(ids).next \in Ids
  BY <1>4, GenerateOK
<1>9. c.id = (IF ~clash THEN f.id ELSE f.ids.next) /\ c.lock = f.lock
  BY <1>2
<1>10. /\ f.id = id /\ f.lock = (IF new THEN m.temp[<<owner, d>>] ELSE found) /\ f.mgr = m
       /\ f.ids = (IF known # 0 THEN ids ELSE GenerateInstanceId(ids))
       /\ f.generated = IF known # 0 THEN {} ELSE {id}
  BY <1>1
<1> HIDE DEF f, owner, k, found
<1>11. CASE found # NoLock
  <2>1. f.id = mgr.locks[found].id /\ f.lock = found /\ f.mgr = mgr /\ f.ids = ids /\ f.generated = {}
    BY <1>6, <1>7, <1>10, <1>11
  <2>2. CASE ~clash
    <3>1. c = f
      BY <1>2, <2>2
    <3>2. ~IsInstanceIdBound(d) /\ <<d, f.id>> \in DOMAIN maps => maps[<<d, f.id>>].lock = f.lock
      BY <2>1, <2>2, <1>11
    <3> HIDE DEF clash, c
    <3>3. UsesFound(c, k, d)
      BY <1>3, <1>11, <2>1, <3>1, <3>2 DEF UsesFound, found
    <3> QED BY <1>3, <3>3 DEF c, k, owner
  <2>3. CASE clash
    <3>1. /\ c.id = ids.next /\ c.lock = found /\ c.mgr = [mgr EXCEPT !.locks[found].id = ids.next]
          /\ c.ids = GenerateInstanceId(ids) /\ c.generated = {ids.next}
      BY <1>2, <2>1, <2>3
    <3>2. Renamed(mgr, [mgr EXCEPT !.locks[found].id = ids.next], found, ids.next)
      BY <1>4, <1>5, <1>7, <1>11, RenameIs
    <3>3. ~IsInstanceIdBound(d)
      BY <2>3
    <3> HIDE DEF clash, c
    <3>4. RenamesFound(c, k, d)
      BY <1>3, <1>11, <3>1, <3>2, <3>3 DEF RenamesFound, found
    <3> QED BY <1>3, <3>4 DEF c, k, owner
  <2> QED BY <2>2, <2>3
<1>12. CASE found = NoLock /\ ~HasResetSchedule(d)
  <2>1. f.lock = NoLock /\ f.mgr = mgr /\ known = RecentInstanceId(p, d)
    BY <1>10, <1>12
  <2>2. c = f
    BY <1>2, <2>1
  <2>3. RecentInstanceId(p, d) # 0 =>
          \/ d \in DOMAIN groupRecent /\ RecentInstanceId(p, d) = groupRecent[d].id
          \/ \E j \in DOMAIN recent : RecentInstanceId(p, d) = recent[j]
    BY DEF RecentInstanceId, Value
  <2>4. \/ f.generated = {} /\ f.ids = ids /\ f.id # 0 /\ f.id = RecentInstanceId(p, d)
        \/ f.generated = {ids.next} /\ f.ids = GenerateInstanceId(ids) /\ f.id = ids.next
    BY <1>10, <2>1
  <2> HIDE DEF clash, c
  <2>5. NeedsNoLock(c, k, d)
    BY <1>12, <2>1, <2>2, <2>3, <2>4 DEF NeedsNoLock
  <2> QED BY <1>3, <2>5 DEF c, k, owner
<1>13. CASE found = NoLock /\ HasResetSchedule(d)
  <2> DEFINE l == FreshAddress(mgr)
             n == CreateInstanceLockForNewInstance(mgr, owner, d, ids.next)
  <2>1. /\ f.id = ids.next /\ f.mgr = n /\ f.lock = n.temp[<<owner, d>>]
        /\ f.ids = GenerateInstanceId(ids) /\ f.generated = {ids.next}
    BY <1>10, <1>13
  <2>2. NewTemporary(n, l, <<owner, d>>, ids.next)
    BY <1>4, <1>7, CreateLockIs
  <2> HIDE DEF n, l
  <2>3. n.temp[<<owner, d>>] = l
    BY <2>2 DEF NewTemporary, Put
  <2>4. CASE ~clash
    <3>1. c = f
      BY <1>2, <2>4
    <3> HIDE DEF clash, c
    <3>2. MakesLock(c, k, d)
      BY <1>3, <1>13, <2>1, <2>2, <2>3, <3>1 DEF MakesLock, found, k
    <3> QED BY <1>3, <3>2 DEF c, k, owner
  <2>5. CASE clash
    <3> DEFINE next == GenerateInstanceId(ids).next
               r == [n EXCEPT !.locks[l].id = next]
    <3>1. /\ c.id = next /\ c.lock = l /\ c.mgr = r
          /\ c.ids = GenerateInstanceId(GenerateInstanceId(ids)) /\ c.generated = {ids.next, next}
      BY <1>2, <2>1, <2>3, <2>5
    <3>2. ~IsInstanceIdBound(d) /\ <<d, ids.next>> \in DOMAIN maps
      BY <2>1, <2>5
    <3>3. /\ IsMgr(n) /\ l \in DOMAIN n.locks /\ n.locks \in [DOMAIN n.locks -> LockType]
          /\ n.locks = Put(mgr.locks, l, n.locks[l])
      BY <1>4, <2>2 DEF NewTemporary, Put
    <3>4. Renamed(n, r, l, next)
      BY <1>8, <3>3, RenameIs
    <3> HIDE DEF clash, c, r, next
    <3>5. r.locks = Put(mgr.locks, l, r.locks[l])
      <4>1. DOMAIN r.locks = DOMAIN mgr.locks \cup {l} /\ \A z \in DOMAIN mgr.locks : z # l => r.locks[z] = mgr.locks[z]
        BY <3>3, <3>4 DEF Renamed, Put
      <4>2. r.locks = [z \in DOMAIN r.locks |-> r.locks[z]]
        BY <3>4 DEF Renamed, Maplike
      <4> QED BY <4>1, <4>2 DEF Put
    <3>6. NewTemporary(r, l, <<owner, d>>, next)
      BY <2>2, <3>2, <3>4, <3>5 DEF NewTemporary, Renamed
    <3>7. MakesLock(c, k, d)
      BY <1>3, <1>13, <3>1, <3>2, <3>6 DEF MakesLock, found, k, next
    <3> QED BY <1>3, <3>7 DEF c, k, owner
  <2> QED BY <2>4, <2>5
<1> QED BY <1>11, <1>12, <1>13

\* Only fields of locks change.
Touched(m, n) ==
    /\ IsMgr(n) /\ Maplike(n.locks) /\ DOMAIN n.locks = DOMAIN m.locks
    /\ \A l \in DOMAIN m.locks : n.locks[l] \in LockType
    /\ n.shared = m.shared /\ n.perm = m.perm /\ n.temp = m.temp /\ n.byId = m.byId

\* Changing fields of locks keeps the manager well formed.
LEMMA TouchedOK ==
    ASSUME NEW m, NEW n, MgrOK(m), Touched(m, n)
    PROVE  MgrOK(n)
<1>1. IsMap(n.locks, Addresses, LockType) /\ IsFiniteSet(DOMAIN n.locks)
  BY DEF Touched, Maplike, IsMap, MgrOK
<1>2. OneOwner(n) /\ LocksScheduled(n)
  BY DEF Touched, MgrOK, OneOwner, LocksScheduled
<1> QED BY <1>1, <1>2 DEF Touched, MgrOK, IsMap

\* Renaming a lock is such a change.
LEMMA RenamedTouches ==
    ASSUME NEW m, NEW n, NEW l, NEW id, MgrOK(m), Renamed(m, n, l, id)
    PROVE  Touched(m, n)
<1>1. \A z \in DOMAIN m.locks : m.locks[z] \in LockType
  BY DEF MgrOK, IsMap
<1> QED BY <1>1 DEF Renamed, Touched

\* A lock is marked as used, or unused, by a map.
Flagged(m, n) ==
    /\ Touched(m, n)
    /\ \A z \in DOMAIN m.locks :
          /\ n.locks[z].id = m.locks[z].id /\ n.locks[z].shared = m.locks[z].shared
          /\ n.locks[z].mask = m.locks[z].mask /\ n.locks[z].expired = m.locks[z].expired
          /\ n.locks[z].extended = m.locks[z].extended

\* SetInUse is such a change.
LEMMA FlagIs ==
    ASSUME NEW m, MgrOK(m), NEW l \in DOMAIN m.locks, NEW b \in BOOLEAN
    PROVE  Flagged(m, [m EXCEPT !.locks[l].inUse = b])
<1> DEFINE n == [m EXCEPT !.locks[l].inUse = b]
           lock == [m.locks[l] EXCEPT !.inUse = b]
<1>0. IsMgr(m) /\ m.locks \in [DOMAIN m.locks -> LockType]
  BY DEF MgrOK, IsMap
<1>1. m.locks[l] \in LockType
  BY <1>0
<1>2. /\ lock \in LockType /\ lock.id = m.locks[l].id
      /\ lock.shared = m.locks[l].shared /\ lock.mask = m.locks[l].mask
      /\ lock.expired = m.locks[l].expired /\ lock.extended = m.locks[l].extended
  BY <1>1 DEF LockType
<1>3. n = [m EXCEPT !.locks = [m.locks EXCEPT ![l] = lock]]
  BY <1>0 DEF IsMgr
<1> HIDE DEF lock, n
<1>4. /\ n.locks = [m.locks EXCEPT ![l] = lock]
      /\ n.shared = m.shared /\ n.perm = m.perm /\ n.temp = m.temp /\ n.byId = m.byId
  BY <1>0, <1>3 DEF IsMgr
<1>5. n \in [locks: {n.locks}, shared: {m.shared}, perm: {m.perm}, temp: {m.temp}, byId: {m.byId}]
  BY <1>0, <1>3 DEF IsMgr
<1>6. /\ DOMAIN n.locks = DOMAIN m.locks /\ Maplike(n.locks) /\ n.locks[l] = lock
      /\ \A z \in DOMAIN m.locks : z # l => n.locks[z] = m.locks[z]
  BY <1>0, <1>4 DEF Maplike
<1>7. Touched(m, n)
  BY <1>0, <1>2, <1>4, <1>5, <1>6 DEF Touched, IsMgr
<1> QED BY <1>2, <1>6, <1>7 DEF Flagged, n

\* A new temporary lock leaves the manager well formed.
LEMMA NewTemporaryOK ==
    ASSUME MgrOK(mgr), NEW n, NEW l, NEW k \in Keys, NEW id \in Ids, NewTemporary(n, l, k, id),
           HasResetSchedule(k[2]), k \notin DOMAIN mgr.temp
    PROVE  /\ MgrOK(n)
           /\ DOMAIN n.locks = DOMAIN mgr.locks \cup {l}
           /\ \A z \in DOMAIN mgr.locks : n.locks[z] = mgr.locks[z]
           /\ DOMAIN n.temp = DOMAIN mgr.temp \cup {k} /\ n.temp[k] = l
           /\ \A j \in DOMAIN mgr.temp : n.temp[j] = mgr.temp[j]
<1>1. /\ l \in Addresses /\ l \notin DOMAIN mgr.locks /\ l \notin DOMAIN mgr.shared
      /\ IsMgr(n)
      /\ n.locks = Put(mgr.locks, l, n.locks[l]) /\ n.locks[l] \in LockType
      /\ n.shared = IF IsInstanceIdBound(k[2]) THEN Put(mgr.shared, l, [instanceId |-> 0, mask |-> {}])
                    ELSE mgr.shared
      /\ n.perm = mgr.perm /\ n.temp = Put(mgr.temp, k, l)
      /\ n.byId = IF IsInstanceIdBound(k[2]) THEN Put(mgr.byId, id, l) ELSE mgr.byId
  BY DEF NewTemporary
<1>2. /\ DOMAIN n.locks = DOMAIN mgr.locks \cup {l}
      /\ \A z \in DOMAIN mgr.locks : n.locks[z] = mgr.locks[z]
  BY <1>1 DEF Put
<1>3. /\ DOMAIN n.temp = DOMAIN mgr.temp \cup {k} /\ n.temp[k] = l
      /\ \A j \in DOMAIN mgr.temp : n.temp[j] = mgr.temp[j]
  BY <1>1 DEF Put
<1>4. /\ IsMap(mgr.locks, Addresses, LockType) /\ IsFiniteSet(DOMAIN mgr.locks)
      /\ IsMap(mgr.shared, Addresses, SharedType) /\ IsFiniteSet(DOMAIN mgr.shared)
      /\ IsMap(mgr.perm, Keys, DOMAIN mgr.locks)
      /\ IsMap(mgr.temp, Keys, DOMAIN mgr.locks)
      /\ IsMap(mgr.byId, Ids, Addresses)
      /\ OneOwner(mgr) /\ LocksScheduled(mgr)
  BY DEF MgrOK
<1>5. IsMap(n.locks, Addresses, LockType)
  BY <1>1, <1>4, PutMap
<1>6. IsFiniteSet(DOMAIN n.locks)
  BY <1>2, <1>4, FS_AddElement
<1>7. IsMap(n.shared, Addresses, SharedType) /\ IsFiniteSet(DOMAIN n.shared)
  <2>1. [instanceId |-> 0, mask |-> {}] \in SharedType
    BY DEF SharedType
  <2>2. CASE IsInstanceIdBound(k[2])
    <3>1. IsMap(n.shared, Addresses, SharedType)
      BY <1>1, <1>4, <2>1, <2>2, PutMap
    <3>2. DOMAIN n.shared = DOMAIN mgr.shared \cup {l}
      BY <1>1, <2>2 DEF Put
    <3> QED BY <1>4, <3>1, <3>2, FS_AddElement
  <2>3. CASE ~IsInstanceIdBound(k[2])
    BY <1>1, <1>4, <2>3
  <2> QED BY <2>2, <2>3
<1>8. IsMap(n.perm, Keys, DOMAIN n.locks)
  BY <1>1, <1>2, <1>4 DEF IsMap
<1>9. IsMap(n.temp, Keys, DOMAIN n.locks)
  <2>1. IsMap(mgr.temp, Keys, DOMAIN n.locks)
    BY <1>2, <1>4 DEF IsMap
  <2>2. l \in DOMAIN n.locks
    BY <1>2
  <2> QED BY <1>1, <2>1, <2>2, PutMap
<1>10. IsMap(n.byId, Ids, Addresses)
  BY <1>1, <1>4, PutMap
<1>11. OneOwner(n)
  <2>1. /\ \A j \in DOMAIN mgr.perm : mgr.perm[j] # l
        /\ \A j \in DOMAIN mgr.temp : mgr.temp[j] # l
    BY <1>1, <1>4 DEF IsMap
  <2> QED BY <1>1, <1>3, <1>4, <2>1 DEF OneOwner
<1>12. LocksScheduled(n)
  BY <1>1, <1>3, <1>4 DEF LocksScheduled
<1>13. MgrOK(n)
  BY <1>1, <1>5, <1>6, <1>7, <1>8, <1>9, <1>10, <1>11, <1>12 DEF MgrOK
<1> QED BY <1>2, <1>3, <1>13

\* The map and the lock that CreateMap returns.
CreateOK(c, d) ==
    /\ c.id \in Ids /\ AllocOK(c.ids) /\ ids.size <= c.ids.size
    /\ MgrOK(c.mgr)
    /\ c.lock # NoLock <=> HasResetSchedule(d)
    /\ c.lock # NoLock => c.lock \in DOMAIN c.mgr.locks /\ c.lock \in Addresses
    /\ OverflowId \notin c.generated => Known(c.ids, c.id) /\ LocksKnown(c.mgr, c.ids)

\* The bitmap never shrinks when an id is generated: what was known stays known.
LEMMA KnownGrows ==
    ASSUME NEW a, NEW b, a.size \in Nat, b.size \in Nat, a.size <= b.size, NEW id \in Ids, Known(a, id)
    PROVE  Known(b, id)
BY OverflowIdAssumption DEF Known, Ids

\* What CreateMap leaves behind is well formed.
LEMMA CreateMapOK ==
    ASSUME Shape, Running, NEW p \in Players, NEW d \in Dungeons
    PROVE  CreateOK(CreateMap(p, d), d)
<1> DEFINE c == CreateMap(p, d)
           k == <<OwnerOf(p, d), d>>
           b == GenerateInstanceId(ids)
<1>1. /\ k \in Keys /\ k[2] = d
      /\ UsesFound(c, k, d) \/ RenamesFound(c, k, d) \/ NeedsNoLock(c, k, d) \/ MakesLock(c, k, d)
  BY CreateMapIs
<1>2. /\ AllocOK(ids) /\ MgrOK(mgr) /\ LocksKnown(mgr, ids) /\ RecentKnown(recent, groupRecent, ids)
      /\ RecentOK(recent, groupRecent)
      /\ mgr.locks \in [DOMAIN mgr.locks -> LockType] /\ DOMAIN mgr.locks \subseteq Addresses
  BY DEF Shape, IdsKnown, MgrOK, IsMap
<1>3. /\ AllocOK(b)
      /\ ids.next \in Ids /\ ids.next < ids.size /\ ids.size <= b.size
      /\ ids.size \in Nat /\ b.size \in Nat
      /\ ids.next # OverflowId => ids.next < OverflowId
  BY <1>2, GenerateOK
<1>4. /\ AllocOK(GenerateInstanceId(b))
      /\ b.next \in Ids /\ b.next < b.size /\ b.size <= GenerateInstanceId(b).size
      /\ GenerateInstanceId(b).size \in Nat
      /\ b.next # OverflowId => b.next < OverflowId
  BY <1>3, GenerateOK
<1>5. NoLock \notin Addresses
  BY InstanceLocksAssumption
<1>6. \A l \in DOMAIN mgr.locks : mgr.locks[l].id \in Ids /\ Known(ids, mgr.locks[l].id)
  BY <1>2 DEF LocksKnown, LockType
<1>7. LocksKnown(mgr, b)
  BY <1>3, <1>6, KnownGrows DEF LocksKnown
<1>8. LocksKnown(mgr, GenerateInstanceId(b))
  BY <1>3, <1>4, <1>6, <1>7, KnownGrows DEF LocksKnown
<1> HIDE DEF c, k, b
<1>9. CASE UsesFound(c, k, d)
  <2>1. c.lock \in DOMAIN mgr.locks /\ HasResetSchedule(d)
    BY <1>2, <1>9, FindActiveIs DEF UsesFound
  <2>2. c.id \in Ids /\ Known(ids, c.id)
    BY <1>6, <1>9, <2>1 DEF UsesFound
  <2>3. /\ c.ids = ids /\ c.mgr = mgr /\ c.lock # NoLock
    BY <1>9 DEF UsesFound
  <2> QED BY <1>2, <1>3, <2>1, <2>2, <2>3 DEF CreateOK, c
<1>10. CASE RenamesFound(c, k, d)
  <2>1. c.lock \in DOMAIN mgr.locks /\ HasResetSchedule(d)
    <3>1. c.lock = FindActiveInstanceLock(mgr, k[1], d, FALSE) /\ c.lock # NoLock
      BY <1>10 DEF RenamesFound
    <3> QED BY <1>2, <3>1, FindActiveIs
  <2>2. /\ c.id = ids.next /\ c.ids = b /\ Renamed(mgr, c.mgr, c.lock, c.id) /\ c.lock # NoLock
        /\ c.generated = {ids.next}
    BY <1>10 DEF RenamesFound, b
  <2>3. MgrOK(c.mgr)
    BY <1>2, <2>2, RenamedTouches, TouchedOK
  <2>4. OverflowId \notin c.generated => Known(b, c.id)
    BY <1>3, <2>2 DEF Known, Ids
  <2>5. OverflowId \notin c.generated => LocksKnown(c.mgr, b)
    BY <1>7, <2>2, <2>4 DEF LocksKnown, Renamed
  <2>6. DOMAIN c.mgr.locks = DOMAIN mgr.locks
    BY <2>2 DEF Renamed
  <2> QED BY <1>2, <1>3, <2>1, <2>2, <2>3, <2>4, <2>5, <2>6 DEF CreateOK, c
<1>11. CASE NeedsNoLock(c, k, d)
  <2>1. /\ c.lock = NoLock /\ ~HasResetSchedule(d) /\ c.mgr = mgr
    BY <1>11 DEF NeedsNoLock
  <2>2. CASE /\ c.generated = {} /\ c.ids = ids /\ c.id # 0
             /\ \/ d \in DOMAIN groupRecent /\ c.id = groupRecent[d].id
                \/ \E j \in DOMAIN recent : c.id = recent[j]
    <3>1. c.id \in Ids /\ Known(ids, c.id)
      BY <1>2, <2>2 DEF RecentKnown, RecentOK, IsMap
    <3> QED BY <1>2, <1>3, <2>1, <2>2, <3>1 DEF CreateOK, c
  <2>3. CASE c.generated = {ids.next} /\ c.ids = b /\ c.id = ids.next
    <3>1. OverflowId \notin c.generated => Known(b, c.id)
      BY <1>3, <2>3 DEF Known, Ids
    <3> QED BY <1>2, <1>3, <1>7, <2>1, <2>3, <3>1 DEF CreateOK, c
  <2> QED BY <1>11, <2>2, <2>3 DEF NeedsNoLock, b
<1>12. CASE MakesLock(c, k, d)
  <2>1. /\ k \notin DOMAIN mgr.temp
    <3>1. FindActiveInstanceLock(mgr, k[1], d, FALSE) = NoLock
      BY <1>12 DEF MakesLock
    <3>2. k = <<k[1], d>>
      BY DEF k
    <3> QED BY <1>2, <3>1, <3>2, FindActiveIs
  <2>2. NewTemporary(c.mgr, c.lock, k, c.id) /\ HasResetSchedule(d)
    BY <1>12 DEF MakesLock
  <2>3. \/ c.id = ids.next /\ c.ids = b /\ c.generated = {ids.next}
        \/ c.id = b.next /\ c.ids = GenerateInstanceId(b) /\ c.generated = {ids.next, c.id}
    BY <1>12 DEF MakesLock, b
  <2>4. c.id \in Ids /\ AllocOK(c.ids) /\ ids.size <= c.ids.size
    BY <1>3, <1>4, <2>3
  <2>5. /\ MgrOK(c.mgr) /\ DOMAIN c.mgr.locks = DOMAIN mgr.locks \cup {c.lock}
        /\ \A z \in DOMAIN mgr.locks : c.mgr.locks[z] = mgr.locks[z]
    BY <1>1, <1>2, <2>1, <2>2, <2>4, NewTemporaryOK
  <2>6. OverflowId \notin c.generated => Known(c.ids, c.id)
    BY <1>3, <1>4, <2>3 DEF Known, Ids
  <2>7. LocksKnown(mgr, c.ids)
    BY <1>7, <1>8, <2>3
  <2>8. c.lock \in Addresses /\ c.mgr.locks[c.lock].id = c.id
    BY <2>2 DEF NewTemporary
  <2>9. OverflowId \notin c.generated => LocksKnown(c.mgr, c.ids)
    BY <2>5, <2>6, <2>7, <2>8 DEF LocksKnown
  <2> QED BY <1>5, <2>2, <2>4, <2>5, <2>6, <2>8, <2>9 DEF CreateOK, c
<1> QED BY <1>1, <1>9, <1>10, <1>11, <1>12

\* A manager in which nothing changes.
LEMMA FlaggedSame ==
    ASSUME NEW m, MgrOK(m)
    PROVE  Flagged(m, m)
BY DEF MgrOK, IsMap, Flagged, Touched, Maplike

\* What Enter does, c being what CreateMap returns.
Entered(p, d, c) ==
    LET i == <<d, c.id>> IN
    /\ CreateOK(c, d)
    /\ ids' = c.ids
    /\ Flagged(c.mgr, mgr')
    /\ DOMAIN maps' = DOMAIN maps \cup {i} /\ Maplike(maps')
    /\ \A j \in DOMAIN maps : maps'[j] = maps[j]
    /\ i \notin DOMAIN maps => maps'[i].lock = c.lock
    /\ i \in DOMAIN maps => ~Dangling(i)
    /\ at' = at \/ at' = [at EXCEPT ![p] = i]
    /\ at[p] = Outside
    /\ up' = IF OverflowId \in c.generated THEN "stopping" ELSE up
    /\ defect' = IF TakesForeignId(c, i \notin DOMAIN maps) THEN "foreignId" ELSE defect
    /\ db' = db /\ kind' = kind

\* Entering a dungeon keeps the invariant.
LEMMA EnterOK ==
    ASSUME Shape, NEW p \in Players, NEW d \in Dungeons, Enter(p, d)
    PROVE  Shape' /\ Entered(p, d, CreateMap(p, d))
<1> DEFINE c == CreateMap(p, d)
           i == <<d, c.id>>
           isNew == i \notin DOMAIN maps
           map == IF isNew THEN [lock |-> c.lock, owned |-> grouped,
                                 due |-> c.lock # NoLock /\ c.mgr.locks[c.lock].expired]
                  ELSE maps[i]
<1>1. /\ Running /\ at[p] = Outside
      /\ entries' = entries - 1 /\ entries > 0
      /\ ~isNew => ~Dangling(i)
      /\ ids' = c.ids
      /\ mgr' = IF isNew /\ c.lock # NoLock THEN [c.mgr EXCEPT !.locks[c.lock].inUse = TRUE] ELSE c.mgr
      /\ maps' = Put(maps, i, map)
      /\ recent' = IF isNew /\ ~grouped /\ ~HasResetSchedule(d) THEN Put(recent, <<p, d>>, c.id) ELSE recent
      /\ groupRecent' = IF isNew /\ grouped
                        THEN Put(groupRecent, d, [owner |-> OwnerOf(p, d), id |-> c.id])
                        ELSE groupRecent
      /\ \/ at' = at /\ pending' = pending
         \/ /\ at' = [at EXCEPT ![p] = i]
            /\ pending' = pending \/ pending' = [pending EXCEPT ![p] = c.id]
      /\ up' = IF OverflowId \in c.generated THEN "stopping" ELSE up
      /\ defect' = IF TakesForeignId(c, isNew) THEN "foreignId" ELSE defect
      /\ grouped' = grouped /\ db' = db /\ kind' = kind /\ events' = events
  BY DEF Enter
<1>2. CreateOK(c, d)
  BY <1>1, CreateMapOK
<1>3. /\ AllocOK(ids) /\ MapsOK(maps, at) /\ RecentOK(recent, groupRecent) /\ DbOK(db) /\ Scalars
      /\ MapsKnown(maps, ids) /\ RecentKnown(recent, groupRecent, ids) /\ RowsKnown(db, ids)
      /\ OwnerOf(p, d) \in Players
  BY <1>1, OwnerIs DEF Shape, IdsKnown
<1> HIDE DEF c
<1>4. Flagged(c.mgr, mgr')
  <2>1. CASE isNew /\ c.lock # NoLock
    BY <1>1, <1>2, <2>1, FlagIs DEF CreateOK
  <2>2. CASE ~(isNew /\ c.lock # NoLock)
    BY <1>1, <1>2, <2>2, FlaggedSame DEF CreateOK
  <2> QED BY <2>1, <2>2
<1>5. MgrOK(mgr')
  BY <1>2, <1>4, TouchedOK DEF Flagged, CreateOK
<1>6. i \in Dungeons \X Ids /\ i[1] = d /\ i[2] = c.id
  BY <1>2 DEF CreateOK
<1>7. map \in MapType /\ (map.lock # NoLock <=> HasResetSchedule(d))
  <2>1. CASE isNew
    <3>1. c.mgr.locks \in [DOMAIN c.mgr.locks -> LockType]
      BY <1>2 DEF CreateOK, MgrOK, IsMap
    <3>2. c.lock # NoLock => c.mgr.locks[c.lock].expired \in BOOLEAN
      BY <1>2, <3>1 DEF CreateOK, LockType
    <3> DEFINE due == c.lock # NoLock /\ c.mgr.locks[c.lock].expired
    <3>3. due \in BOOLEAN
      BY <3>2
    <3>4. map = [lock |-> c.lock, owned |-> grouped, due |-> due]
      BY <2>1
    <3> HIDE DEF due, map
    <3> QED BY <1>2, <1>3, <3>3, <3>4 DEF MapType, CreateOK, Scalars
  <2>2. CASE ~isNew
    BY <1>3, <1>6, <2>2 DEF MapsOK, IsMap
  <2> QED BY <2>1, <2>2
<1>8. isNew => map.lock = c.lock
  OBVIOUS
<1>9. ~isNew => map = maps[i]
  OBVIOUS
<1> HIDE DEF map, i
<1>10. /\ DOMAIN maps' = DOMAIN maps \cup {i} /\ Maplike(maps') /\ maps'[i] = map
       /\ \A j \in DOMAIN maps : maps'[j] = maps[j]
  BY <1>1, <1>9 DEF Put, Maplike
<1>11. MapsOK(maps', at')
  <2>1. IsMap(maps', Dungeons \X Ids, MapType)
    BY <1>1, <1>3, <1>6, <1>7, PutMap DEF MapsOK
  <2>2. IsFiniteSet(DOMAIN maps')
    BY <1>3, <1>10, FS_AddElement DEF MapsOK
  <2>3. \A j \in DOMAIN maps' : maps'[j].lock # NoLock <=> HasResetSchedule(j[1])
    BY <1>3, <1>6, <1>7, <1>10 DEF MapsOK
  <2>4. at' \in [Players -> DOMAIN maps' \cup {Outside}]
    BY <1>1, <1>3, <1>10 DEF MapsOK
  <2> QED BY <2>1, <2>2, <2>3, <2>4 DEF MapsOK
<1>12. RecentOK(recent', groupRecent')
  <2>1. IsMap(recent', Keys, Ids)
    <3>1. <<p, d>> \in Keys /\ c.id \in Ids /\ IsMap(recent, Keys, Ids)
      BY <1>2, <1>3 DEF Keys, CreateOK, RecentOK
    <3> QED BY <1>1, <3>1, PutMap
  <2>2. IsMap(groupRecent', Dungeons, [owner: Players, id: Ids])
    <3>1. [owner |-> OwnerOf(p, d), id |-> c.id] \in [owner: Players, id: Ids]
      BY <1>2, <1>3 DEF CreateOK
    <3>2. IsMap(groupRecent, Dungeons, [owner: Players, id: Ids])
      BY <1>3 DEF RecentOK
    <3> QED BY <1>1, <3>1, <3>2, PutMap
  <2> QED BY <2>1, <2>2 DEF RecentOK
<1>13. Scalars'
  <2>1. pending' \in [Players -> Ids \cup {0}]
    BY <1>1, <1>2, <1>3 DEF Scalars, CreateOK
  <2>2. entries' \in Nat
    BY <1>1, <1>3 DEF Scalars
  <2> QED BY <1>1, <1>3, <2>1, <2>2 DEF Scalars
<1>14. Gone'
  BY <1>1 DEF Gone, Running
<1>15. AllocOK(ids')
  BY <1>1, <1>2 DEF CreateOK
<1>16. ASSUME up' = "running"
       PROVE  /\ LocksKnown(mgr', ids') /\ MapsKnown(maps', ids')
              /\ RecentKnown(recent', groupRecent', ids') /\ RowsKnown(db', ids')
  <2>1. Known(c.ids, c.id) /\ LocksKnown(c.mgr, c.ids)
    BY <1>1, <1>2, <1>16 DEF CreateOK
  <2>2. LocksKnown(mgr', ids')
    BY <1>1, <1>4, <2>1 DEF LocksKnown, Flagged, Touched
  <2>3. ids.size \in Nat /\ c.ids.size \in Nat /\ ids.size <= c.ids.size
    BY <1>2, <1>3 DEF CreateOK, AllocOK, HintSound, Allocators
  <2>4. \A id \in Ids : Known(ids, id) => Known(c.ids, id)
    BY <2>3, KnownGrows
  <2>5. \A j \in DOMAIN maps : Known(c.ids, j[2])
    BY <1>3, <2>4 DEF MapsKnown, MapsOK, IsMap
  <2>6. MapsKnown(maps', ids')
    BY <1>1, <1>6, <1>10, <2>1, <2>5 DEF MapsKnown
  <2>7. RecentKnown(recent, groupRecent, c.ids)
    BY <1>3, <2>4 DEF RecentKnown, RecentOK, IsMap
  <2>8. RecentKnown(recent', groupRecent', ids')
    BY <1>1, <2>1, <2>7 DEF RecentKnown, Put
  <2>9. RowsKnown(db', ids')
    BY <1>1, <1>3, <2>4 DEF RowsKnown, DbOK, IsMap, RowType
  <2> QED BY <2>2, <2>6, <2>8, <2>9
<1>17. Shape'
  BY <1>1, <1>3, <1>5, <1>11, <1>12, <1>13, <1>14, <1>15, <1>16, ShapeNext
<1>18. Entered(p, d, c)
  BY <1>1, <1>2, <1>4, <1>8, <1>10 DEF Entered, i
<1> QED BY <1>17, <1>18 DEF c

-----------------------------------------------------------------------------
(* The other actions keep the invariant.                                    *)

\* The parts of the invariant of a running server.
LEMMA ShapeParts ==
    ASSUME Shape
    PROVE  /\ AllocOK(ids) /\ MgrOK(mgr) /\ MapsOK(maps, at) /\ RecentOK(recent, groupRecent)
           /\ DbOK(db) /\ Scalars
           /\ Running => /\ LocksKnown(mgr, ids) /\ MapsKnown(maps, ids)
                         /\ RecentKnown(recent, groupRecent, ids) /\ RowsKnown(db, ids)
BY DEF Shape, IdsKnown

\* Actions that leave the locks, the ids and the tables alone, and of the maps
\* change flags only.
Quiet ==
    /\ up' = up /\ kind' = kind /\ ids' = ids /\ mgr' = mgr /\ db' = db
    /\ defect' \in {defect, "dangling"}
    /\ DOMAIN maps' = DOMAIN maps
    /\ \A i \in DOMAIN maps : maps'[i].lock = maps[i].lock
    /\ \A p \in Players : at'[p] \in {at[p], Outside}

\* A quiet step keeps the invariant.
LEMMA QuietOK ==
    ASSUME Shape, Running, Quiet,
           IsMap(maps', Dungeons \X Ids, MapType), at' \in [Players -> DOMAIN maps' \cup {Outside}],
           pending' \in [Players -> Ids \cup {0}], entries' \in Nat, events' \in Nat, grouped' \in BOOLEAN,
           IsMap(recent', Keys, Ids), \A k \in DOMAIN recent' : k \in DOMAIN recent /\ recent'[k] = recent[k],
           IsMap(groupRecent', Dungeons, [owner: Players, id: Ids]),
           \A d \in DOMAIN groupRecent' : d \in DOMAIN groupRecent /\ groupRecent'[d] = groupRecent[d]
    PROVE  Shape'
<1>1. MapsOK(maps', at')
  BY ShapeParts DEF MapsOK, Quiet
<1>2. Scalars'
  BY ShapeParts DEF Scalars, Quiet
<1>3. Gone'
  BY DEF Gone, Quiet, Running
<1>4. /\ LocksKnown(mgr', ids') /\ MapsKnown(maps', ids')
      /\ RecentKnown(recent', groupRecent', ids') /\ RowsKnown(db', ids')
  BY ShapeParts DEF Quiet, MapsKnown, RecentKnown
<1>5. AllocOK(ids') /\ MgrOK(mgr') /\ DbOK(db') /\ kind' = kind /\ RecentOK(recent', groupRecent')
  BY ShapeParts DEF Quiet, RecentOK
<1> QED BY <1>1, <1>2, <1>3, <1>4, <1>5, ShapeNext

QuietStep ==
    \/ \E p \in Players : LeaveInstance(p) \/ DeclinePendingBind(p)
                          \/ ResetInstances(p, TRUE) \/ ResetInstances(p, FALSE)
    \/ \E i \in DOMAIN maps : ExpireInstance(i) \/ UseDeletedLock(i)
    \/ GroupResetInstances(TRUE) \/ GroupResetInstances(FALSE)
    \/ FormGroup \/ DisbandGroup

\* Leaving, declining, resets asked for by players, groups: quiet steps.
LEMMA QuietStepOK ==
    ASSUME Shape, QuietStep
    PROVE  Shape' /\ Quiet /\ Running
<1>0. /\ IsMap(maps, Dungeons \X Ids, MapType) /\ at \in [Players -> DOMAIN maps \cup {Outside}]
      /\ \A i \in DOMAIN maps : i \in Dungeons \X Ids /\ maps[i] \in MapType
      /\ pending \in [Players -> Ids \cup {0}] /\ entries \in Nat /\ events \in Nat /\ grouped \in BOOLEAN
      /\ IsMap(recent, Keys, Ids) /\ IsMap(groupRecent, Dungeons, [owner: Players, id: Ids])
      /\ maps \in [DOMAIN maps -> MapType]
  BY ShapeParts DEF MapsOK, RecentOK, Scalars, IsMap
<1>1. ASSUME NEW p \in Players, LeaveInstance(p) PROVE Shape' /\ Quiet /\ Running
  <2>1. /\ Running /\ at' = [at EXCEPT ![p] = Outside]
        /\ UNCHANGED <<up, ids, mgr, maps, pending, recent, grouped, groupRecent, db, bounds, defect>>
    BY <1>1 DEF LeaveInstance
  <2>2. Quiet
    BY <1>0, <2>1 DEF Quiet, bounds
  <2> QED BY <1>0, <2>1, <2>2, QuietOK DEF bounds
<1>2. ASSUME NEW p \in Players, DeclinePendingBind(p) PROVE Shape' /\ Quiet /\ Running
  <2>1. /\ Running /\ at' = [at EXCEPT ![p] = Outside] /\ pending' = [pending EXCEPT ![p] = 0]
        /\ UNCHANGED <<up, ids, mgr, maps, recent, grouped, groupRecent, db, bounds, defect>>
    BY <1>2 DEF DeclinePendingBind
  <2>2. Quiet
    BY <1>0, <2>1 DEF Quiet, bounds
  <2> QED BY <1>0, <2>1, <2>2, QuietOK DEF bounds
<1>3. ASSUME NEW p \in Players, NEW b \in BOOLEAN, ResetInstances(p, b) PROVE Shape' /\ Quiet /\ Running
  <2> DEFINE of == {k \in DOMAIN recent : k[1] = p /\ <<k[2], recent[k]>> \in DOMAIN maps}
             keys == DOMAIN recent \ {k \in of : Forgets(<<k[2], recent[k]>>, b)}
  <2>1. /\ Running /\ events > 0 /\ events' = events - 1 /\ recent' = Restrict(recent, keys)
        /\ UNCHANGED <<up, ids, mgr, maps, at, pending, grouped, groupRecent, db, defect, kind, entries>>
    BY <1>3 DEF ResetInstances, Event
  <2>2. Quiet
    BY <1>0, <2>1 DEF Quiet
  <2>3. keys \in SUBSET DOMAIN recent
    OBVIOUS
  <2> HIDE DEF keys
  <2>4. IsMap(recent', Keys, Ids) /\ \A k \in DOMAIN recent' : k \in DOMAIN recent /\ recent'[k] = recent[k]
    BY <1>0, <2>1, <2>3, RestrictMap DEF Restrict
  <2>5. events' \in Nat
    BY <1>0, <2>1
  <2> QED BY <1>0, <2>1, <2>2, <2>4, <2>5, QuietOK
<1>4. ASSUME NEW i \in DOMAIN maps, ExpireInstance(i) PROVE Shape' /\ Quiet /\ Running
  <2>1. /\ Running /\ maps' = [maps EXCEPT ![i].due = FALSE]
        /\ pending' = IF IsFlexLocking(i[1]) THEN pending
                      ELSE [p \in Players |-> IF p \in Inside(i) THEN i[2] ELSE pending[p]]
        /\ UNCHANGED <<up, ids, mgr, at, recent, grouped, groupRecent, db, bounds, defect>>
    BY <1>4 DEF ExpireInstance
  <2> DEFINE map == [maps[i] EXCEPT !.due = FALSE]
  <2>2. map \in MapType /\ map.lock = maps[i].lock
    BY <1>0 DEF MapType
  <2>3. maps' = [maps EXCEPT ![i] = map]
    BY <2>1
  <2> HIDE DEF map
  <2>4. /\ DOMAIN maps' = DOMAIN maps /\ \A j \in DOMAIN maps : maps'[j].lock = maps[j].lock
        /\ IsMap(maps', Dungeons \X Ids, MapType)
    BY <1>0, <2>2, <2>3 DEF IsMap
  <2>5. Quiet
    BY <1>0, <2>1, <2>4 DEF Quiet, bounds
  <2>6. pending' \in [Players -> Ids \cup {0}]
    BY <1>0, <2>1
  <2> QED BY <1>0, <2>1, <2>4, <2>5, <2>6, QuietOK DEF bounds
<1>5. ASSUME NEW i \in DOMAIN maps, UseDeletedLock(i) PROVE Shape' /\ Quiet /\ Running
  <2>1. /\ Running /\ defect' = "dangling" /\ UNCHANGED <<up, memory, db, bounds>>
    BY <1>5 DEF UseDeletedLock
  <2>2. Quiet
    BY <1>0, <2>1 DEF Quiet, bounds, memory
  <2> QED BY <1>0, <2>1, <2>2, QuietOK DEF bounds, memory
<1>6. ASSUME NEW b \in BOOLEAN, GroupResetInstances(b) PROVE Shape' /\ Quiet /\ Running
  <2> DEFINE of == {i \in DOMAIN maps : maps[i].owned}
             keys == DOMAIN groupRecent \
                       {i[1] : i \in {j \in of : Forgets(j, b) \/ ResetResult(j) = "CannotReset"}}
  <2>1. /\ Running /\ events > 0 /\ events' = events - 1 /\ groupRecent' = Restrict(groupRecent, keys)
        /\ UNCHANGED <<up, ids, mgr, maps, at, pending, recent, grouped, db, defect, kind, entries>>
    BY <1>6 DEF GroupResetInstances, Event
  <2>2. Quiet
    BY <1>0, <2>1 DEF Quiet
  <2>3. keys \in SUBSET DOMAIN groupRecent
    OBVIOUS
  <2> HIDE DEF keys
  <2>4. /\ IsMap(groupRecent', Dungeons, [owner: Players, id: Ids])
        /\ \A d \in DOMAIN groupRecent' : d \in DOMAIN groupRecent /\ groupRecent'[d] = groupRecent[d]
    BY <1>0, <2>1, <2>3, RestrictMap DEF Restrict
  <2>5. events' \in Nat
    BY <1>0, <2>1
  <2> QED BY <1>0, <2>1, <2>2, <2>4, <2>5, QuietOK
<1>7. ASSUME FormGroup PROVE Shape' /\ Quiet /\ Running
  <2>1. /\ Running /\ events > 0 /\ events' = events - 1 /\ grouped' = TRUE
        /\ UNCHANGED <<up, ids, mgr, maps, at, pending, recent, groupRecent, db, defect, kind, entries>>
    BY <1>7 DEF FormGroup, Event
  <2>2. Quiet /\ events' \in Nat
    BY <1>0, <2>1 DEF Quiet
  <2> QED BY <1>0, <2>1, <2>2, QuietOK
<1>8. ASSUME DisbandGroup PROVE Shape' /\ Quiet /\ Running
  <2>1. /\ Running /\ events > 0 /\ events' = events - 1 /\ grouped' = FALSE /\ groupRecent' = Empty
        /\ maps' = [i \in DOMAIN maps |-> [maps[i] EXCEPT !.owned = FALSE]]
        /\ UNCHANGED <<up, ids, mgr, at, pending, recent, db, defect, kind, entries>>
    BY <1>8 DEF DisbandGroup, Event
  <2>2. \A i \in DOMAIN maps : /\ [maps[i] EXCEPT !.owned = FALSE] \in MapType
                               /\ [maps[i] EXCEPT !.owned = FALSE].lock = maps[i].lock
    BY <1>0 DEF MapType
  <2>3. /\ DOMAIN maps' = DOMAIN maps /\ \A j \in DOMAIN maps : maps'[j].lock = maps[j].lock
        /\ IsMap(maps', Dungeons \X Ids, MapType)
    BY <1>0, <2>1, <2>2 DEF IsMap
  <2>4. Quiet /\ events' \in Nat
    BY <1>0, <2>1, <2>3 DEF Quiet
  <2>5. IsMap(groupRecent', Dungeons, [owner: Players, id: Ids]) /\ DOMAIN groupRecent' = {}
    BY <2>1, EmptyMap
  <2> QED BY <1>0, <2>1, <2>3, <2>4, <2>5, QuietOK
<1> QED BY <1>1, <1>2, <1>3, <1>4, <1>5, <1>6, <1>7, <1>8 DEF QuietStep

\* A map is unloaded.
Unloaded(i) ==
    /\ Running /\ i \in DOMAIN maps /\ ~Dangling(i) /\ Inside(i) = {}
    /\ DOMAIN maps' = DOMAIN maps \ {i} /\ \A j \in DOMAIN maps' : maps'[j] = maps[j]
    /\ Flagged(mgr, mgr')
    /\ ids' = IF HasResetSchedule(i[1]) THEN ids ELSE FreeInstanceId(ids, i[2])
    /\ up' = up /\ at' = at /\ db' = db /\ kind' = kind /\ defect' = defect

\* DestroyMap keeps the invariant and is such a step.
LEMMA UnloadOK ==
    ASSUME Shape, NEW i \in DOMAIN maps, UnloadMap(i)
    PROVE  Shape' /\ Unloaded(i)
<1>1. /\ Running /\ ~Dangling(i) /\ Inside(i) = {}
      /\ maps' = Without(maps, i)
      /\ mgr' = IF maps[i].lock = NoLock THEN mgr ELSE [mgr EXCEPT !.locks[maps[i].lock].inUse = FALSE]
      /\ ids' = IF HasResetSchedule(i[1]) THEN ids ELSE FreeInstanceId(ids, i[2])
      /\ UNCHANGED <<up, at, pending, recent, grouped, groupRecent, db, kind, entries, events, defect>>
  BY DEF UnloadMap, CanUnload, bounds
<1>2. /\ AllocOK(ids) /\ MgrOK(mgr) /\ MapsOK(maps, at) /\ RecentOK(recent, groupRecent)
      /\ DbOK(db) /\ Scalars /\ LocksKnown(mgr, ids) /\ MapsKnown(maps, ids)
      /\ RecentKnown(recent, groupRecent, ids) /\ RowsKnown(db, ids)
  BY <1>1, ShapeParts
<1>3. Flagged(mgr, mgr')
  <2>1. maps[i].lock # NoLock => maps[i].lock \in DOMAIN mgr.locks
    BY <1>1 DEF Dangling
  <2> QED BY <1>1, <1>2, <2>1, FlagIs, FlaggedSame
<1>4. MgrOK(mgr') /\ LocksKnown(mgr', ids)
  <2>1. MgrOK(mgr')
    BY <1>2, <1>3, TouchedOK DEF Flagged
  <2> QED BY <1>2, <1>3, <2>1 DEF Flagged, Touched, LocksKnown
<1>5. /\ DOMAIN maps' = DOMAIN maps \ {i} /\ \A j \in DOMAIN maps' : maps'[j] = maps[j]
      /\ Maplike(maps')
  BY <1>1 DEF Without, Restrict, Maplike
<1>6. MapsOK(maps', at')
  <2>1. IsMap(maps', Dungeons \X Ids, MapType)
    <3>1. \A j \in DOMAIN maps' : maps'[j] \in MapType
      BY <1>2, <1>5 DEF MapsOK, IsMap
    <3>2. DOMAIN maps' \subseteq Dungeons \X Ids
      BY <1>2, <1>5 DEF MapsOK, IsMap
    <3> QED BY <1>5, <3>1, <3>2, IsMapIf
  <2>2. IsFiniteSet(DOMAIN maps')
    BY <1>2, <1>5, FS_Subset DEF MapsOK
  <2>3. at' \in [Players -> DOMAIN maps' \cup {Outside}]
    BY <1>1, <1>2, <1>5 DEF MapsOK, Inside
  <2> QED BY <1>2, <1>5, <2>1, <2>2, <2>3 DEF MapsOK
<1>7. AllocOK(ids') /\ ids'.size = ids.size
  <2>1. i[2] \in 1..(ids.size - 1)
    <3>1. i[2] \in Ids /\ i[2] < ids.size /\ ids.size \in Nat
      BY <1>2 DEF MapsOK, IsMap, MapsKnown, Known, AllocOK, HintSound, Allocators
    <3> QED BY <3>1, OverflowIdAssumption DEF Ids
  <2> QED BY <1>1, <1>2, <2>1, FreeOK
<1>8. /\ LocksKnown(mgr', ids') /\ MapsKnown(maps', ids')
      /\ RecentKnown(recent', groupRecent', ids') /\ RowsKnown(db', ids')
  <2>1. \A id : Known(ids, id) => Known(ids', id)
    BY <1>7 DEF Known
  <2> QED BY <1>1, <1>2, <1>4, <1>5, <2>1 DEF LocksKnown, MapsKnown, RecentKnown, RowsKnown
<1>9. Scalars' /\ Gone'
  BY <1>1, <1>2 DEF Scalars, Gone, Running
<1>10. RecentOK(recent', groupRecent') /\ DbOK(db') /\ kind' = kind
  BY <1>1, <1>2
<1>11. Shape'
  BY <1>4, <1>6, <1>7, <1>8, <1>9, <1>10, ShapeNext
<1>12. Unloaded(i)
  BY <1>1, <1>3, <1>5 DEF Unloaded
<1> QED BY <1>11, <1>12

\* The row that mirrors a lock.
SameRow(row, lock) ==
    /\ row.id = lock.id /\ row.mask = lock.mask
    /\ row.expired = lock.expired /\ row.extended = lock.extended

\* Locks and their rows expire, or are extended, or not any more.
Reflagged ==
    /\ Running /\ up' = up /\ kind' = kind /\ ids' = ids /\ defect' = defect /\ at' = at
    /\ DOMAIN maps' = DOMAIN maps /\ \A i \in DOMAIN maps : maps'[i].lock = maps[i].lock
    /\ Touched(mgr, mgr')
    /\ \A l \in DOMAIN mgr.locks :
          /\ mgr'.locks[l].id = mgr.locks[l].id /\ mgr'.locks[l].shared = mgr.locks[l].shared
          /\ mgr'.locks[l].mask = mgr.locks[l].mask
    /\ db'.instance = db.instance
    /\ DOMAIN db'.lock = DOMAIN db.lock
    /\ \A k \in DOMAIN db.lock :
          /\ db'.lock[k].id = db.lock[k].id
          /\ k \in DOMAIN mgr.perm /\ SameRow(db.lock[k], mgr.locks[mgr.perm[k]])
             => SameRow(db'.lock[k], mgr'.locks[mgr.perm[k]])

\* A change of flags keeps the invariant.
LEMMA ReflaggedOK ==
    ASSUME Shape, Reflagged, IsMap(maps', Dungeons \X Ids, MapType), DbOK(db'),
           UNCHANGED <<pending, recent, grouped, groupRecent, entries>>, events' \in Nat
    PROVE  Shape'
<1>2. /\ AllocOK(ids) /\ MgrOK(mgr) /\ MapsOK(maps, at) /\ RecentOK(recent, groupRecent)
      /\ DbOK(db) /\ Scalars /\ LocksKnown(mgr, ids) /\ MapsKnown(maps, ids)
      /\ RecentKnown(recent, groupRecent, ids) /\ RowsKnown(db, ids)
  BY ShapeParts DEF Reflagged
<1>3. MgrOK(mgr')
  BY <1>2, TouchedOK DEF Reflagged
<1>4. MapsOK(maps', at')
  BY <1>2 DEF MapsOK, Reflagged
<1>5. /\ LocksKnown(mgr', ids') /\ MapsKnown(maps', ids')
      /\ RecentKnown(recent', groupRecent', ids') /\ RowsKnown(db', ids')
  BY <1>2 DEF Reflagged, LocksKnown, MapsKnown, RecentKnown, RowsKnown, Touched
<1>6. Scalars' /\ Gone'
  BY <1>2 DEF Scalars, Gone, Running, Reflagged
<1>7. RecentOK(recent', groupRecent') /\ AllocOK(ids') /\ kind' = kind
  BY <1>2 DEF Reflagged
<1> QED BY <1>3, <1>4, <1>5, <1>6, <1>7, ShapeNext

\* The scheduled reset is a change of flags.
LEMMA ScheduledResetOK ==
    ASSUME Shape, ScheduledReset
    PROVE  Shape' /\ Reflagged
<1>1. /\ Running /\ events > 0 /\ events' = events - 1
      /\ mgr' = [mgr EXCEPT !.locks = [l \in DOMAIN @ |-> [@[l] EXCEPT !.expired = TRUE]]]
      /\ maps' = [i \in DOMAIN maps |-> [maps[i] EXCEPT !.due = maps[i].lock # NoLock]]
      /\ db' = [db EXCEPT !.lock = [k \in DOMAIN @ |-> [@[k] EXCEPT !.expired = TRUE]]]
      /\ UNCHANGED <<up, ids, at, pending, recent, grouped, groupRecent, defect, kind, entries>>
  BY DEF ScheduledReset, Event
<1>2. /\ MgrOK(mgr) /\ MapsOK(maps, at) /\ DbOK(db) /\ Scalars
      /\ mgr.locks \in [DOMAIN mgr.locks -> LockType] /\ IsMgr(mgr)
      /\ maps \in [DOMAIN maps -> MapType] /\ DOMAIN maps \subseteq Dungeons \X Ids
      /\ db.lock \in [DOMAIN db.lock -> RowType] /\ DOMAIN db.lock \subseteq Keys
  BY ShapeParts DEF MgrOK, MapsOK, DbOK, IsMap
<1> DEFINE locks == [l \in DOMAIN mgr.locks |-> [mgr.locks[l] EXCEPT !.expired = TRUE]]
           rows == [k \in DOMAIN db.lock |-> [db.lock[k] EXCEPT !.expired = TRUE]]
<1>3. \A l \in DOMAIN mgr.locks :
         /\ locks[l] \in LockType /\ locks[l].id = mgr.locks[l].id /\ locks[l].shared = mgr.locks[l].shared
         /\ locks[l].mask = mgr.locks[l].mask /\ locks[l].expired = TRUE
         /\ locks[l].extended = mgr.locks[l].extended
  BY <1>2 DEF LockType
<1>4. \A k \in DOMAIN db.lock :
         /\ rows[k] \in RowType /\ rows[k].id = db.lock[k].id
         /\ rows[k].mask = db.lock[k].mask /\ rows[k].expired = TRUE
         /\ rows[k].extended = db.lock[k].extended
  BY <1>2 DEF RowType
<1>5. mgr' = [mgr EXCEPT !.locks = locks] /\ db' = [db EXCEPT !.lock = rows]
  BY <1>1
<1>6. DOMAIN locks = DOMAIN mgr.locks /\ Maplike(locks) /\ DOMAIN rows = DOMAIN db.lock /\ Maplike(rows)
  BY DEF Maplike
<1> HIDE DEF locks, rows
<1>7. /\ mgr'.locks = locks /\ mgr'.shared = mgr.shared /\ mgr'.perm = mgr.perm
      /\ mgr'.temp = mgr.temp /\ mgr'.byId = mgr.byId
  BY <1>2, <1>5 DEF IsMgr
<1>8. IsMgr(mgr')
  <2>1. mgr' \in [locks: {locks}, shared: {mgr.shared}, perm: {mgr.perm}, temp: {mgr.temp}, byId: {mgr.byId}]
    BY <1>2, <1>5 DEF IsMgr
  <2> QED BY <1>7, <2>1 DEF IsMgr
<1>9. Touched(mgr, mgr')
  BY <1>3, <1>6, <1>7, <1>8 DEF Touched
<1>10. db'.lock = rows /\ db'.instance = db.instance
  BY <1>2, <1>5 DEF DbOK
<1>11. DbOK(db')
  <2>1. db' \in [lock: {rows}, instance: {db.instance}]
    BY <1>2, <1>5 DEF DbOK
  <2>2. IsMap(rows, Keys, RowType)
    BY <1>2, <1>4, <1>6, IsMapIf
  <2>3. \A k \in DOMAIN rows : rows[k].id < OverflowId /\ HasResetSchedule(k[2])
    BY <1>2, <1>4, <1>6 DEF DbOK
  <2> QED BY <1>2, <1>10, <2>1, <2>2, <2>3 DEF DbOK
<1>12. /\ DOMAIN maps' = DOMAIN maps /\ \A i \in DOMAIN maps : maps'[i].lock = maps[i].lock
       /\ IsMap(maps', Dungeons \X Ids, MapType)
  <2>1. \A i \in DOMAIN maps : /\ [maps[i] EXCEPT !.due = maps[i].lock # NoLock] \in MapType
                               /\ [maps[i] EXCEPT !.due = maps[i].lock # NoLock].lock = maps[i].lock
    BY <1>2 DEF MapType
  <2>2. /\ DOMAIN maps' = DOMAIN maps /\ \A i \in DOMAIN maps : maps'[i].lock = maps[i].lock
        /\ maps' \in [DOMAIN maps -> MapType]
    BY <1>1, <2>1
  <2> QED BY <1>2, <2>2 DEF IsMap
<1>13. \A k \in DOMAIN db.lock :
          /\ db'.lock[k].id = db.lock[k].id
          /\ k \in DOMAIN mgr.perm /\ SameRow(db.lock[k], mgr.locks[mgr.perm[k]])
             => SameRow(db'.lock[k], mgr'.locks[mgr.perm[k]])
  <2>1. \A k \in DOMAIN mgr.perm : mgr.perm[k] \in DOMAIN mgr.locks
    BY <1>2 DEF MgrOK, IsMap
  <2> SUFFICES ASSUME NEW k \in DOMAIN db.lock
               PROVE  /\ db'.lock[k].id = db.lock[k].id
                      /\ k \in DOMAIN mgr.perm /\ SameRow(db.lock[k], mgr.locks[mgr.perm[k]])
                         => SameRow(db'.lock[k], mgr'.locks[mgr.perm[k]])
    OBVIOUS
  <2>2. /\ db'.lock[k].id = db.lock[k].id /\ db'.lock[k].mask = db.lock[k].mask
        /\ db'.lock[k].expired = TRUE /\ db'.lock[k].extended = db.lock[k].extended
    BY <1>4, <1>10
  <2>3. ASSUME k \in DOMAIN mgr.perm
        PROVE  LET l == mgr.perm[k] IN
               /\ mgr'.locks[l].id = mgr.locks[l].id /\ mgr'.locks[l].mask = mgr.locks[l].mask
               /\ mgr'.locks[l].expired = TRUE /\ mgr'.locks[l].extended = mgr.locks[l].extended
    BY <1>3, <1>7, <2>1, <2>3
  <2> QED BY <2>2, <2>3 DEF SameRow
<1>14. Reflagged
  BY <1>1, <1>3, <1>6, <1>7, <1>9, <1>10, <1>12, <1>13 DEF Reflagged
<1>15. events' \in Nat
  BY <1>1, <1>2 DEF Scalars
<1> QED BY <1>1, <1>11, <1>12, <1>14, <1>15, ReflaggedOK

\* Permanent locks are extended, or expired by hand.
LEMMA SetLocksOK ==
    ASSUME Shape, Running, Event, NEW keys \in SUBSET DOMAIN mgr.perm,
           NEW expired \in BOOLEAN, NEW extended \in BOOLEAN,
           SetLocks(keys, expired, extended)
    PROVE  Shape' /\ Reflagged
<1> DEFINE of == {mgr.perm[k] : k \in keys}
           NewFlags(x) == SetFlags(x, expired, extended)
           locks == [l \in DOMAIN mgr.locks |-> IF l \in of THEN NewFlags(mgr.locks[l]) ELSE mgr.locks[l]]
           rows == [k \in DOMAIN db.lock |-> IF k \in keys THEN NewFlags(db.lock[k]) ELSE db.lock[k]]
<1>1. /\ events > 0 /\ events' = events - 1 /\ mgr' = [mgr EXCEPT !.locks = locks]
      /\ db' = [db EXCEPT !.lock = rows]
      /\ UNCHANGED <<up, ids, maps, at, pending, recent, grouped, groupRecent, defect, kind, entries>>
  <2>1. mgr' = [mgr EXCEPT !.locks = locks]
    BY DEF SetLocks
  <2>2. db' = [db EXCEPT !.lock = rows]
    BY DEF SetLocks
  <2>3. /\ events > 0 /\ events' = events - 1
        /\ UNCHANGED <<up, ids, maps, at, pending, recent, grouped, groupRecent, defect, kind, entries>>
    BY DEF SetLocks, Event
  <2> QED BY <2>1, <2>2, <2>3
<1>2. /\ MgrOK(mgr) /\ MapsOK(maps, at) /\ DbOK(db) /\ Scalars /\ OneOwner(mgr)
      /\ mgr.locks \in [DOMAIN mgr.locks -> LockType] /\ IsMgr(mgr)
      /\ db.lock \in [DOMAIN db.lock -> RowType] /\ DOMAIN db.lock \subseteq Keys
  BY ShapeParts DEF MgrOK, MapsOK, DbOK, IsMap
<1>3. ASSUME NEW l \in DOMAIN mgr.locks
      PROVE  /\ NewFlags(mgr.locks[l]) \in LockType /\ NewFlags(mgr.locks[l]).id = mgr.locks[l].id
             /\ NewFlags(mgr.locks[l]).shared = mgr.locks[l].shared
             /\ NewFlags(mgr.locks[l]).mask = mgr.locks[l].mask
             /\ NewFlags(mgr.locks[l]).expired = (mgr.locks[l].expired \/ expired)
             /\ NewFlags(mgr.locks[l]).extended = extended
  <2> DEFINE lock == mgr.locks[l]
             due == lock.expired \/ expired
  <2>1. lock \in LockType
    BY <1>2
  <2>2. due \in BOOLEAN
    OBVIOUS
  <2> HIDE DEF lock, due
  <2>3. LET new == [lock EXCEPT !.expired = due, !.extended = extended] IN
        /\ new \in LockType /\ new.id = lock.id /\ new.shared = lock.shared /\ new.mask = lock.mask
        /\ new.expired = due /\ new.extended = extended
    BY <2>1, <2>2 DEF LockType
  <2> QED BY <2>3 DEF lock, due, SetFlags
<1>4. ASSUME NEW k \in DOMAIN db.lock
      PROVE  /\ NewFlags(db.lock[k]) \in RowType /\ NewFlags(db.lock[k]).id = db.lock[k].id
             /\ NewFlags(db.lock[k]).mask = db.lock[k].mask
             /\ NewFlags(db.lock[k]).expired = (db.lock[k].expired \/ expired)
             /\ NewFlags(db.lock[k]).extended = extended
  <2> DEFINE row == db.lock[k]
             due == row.expired \/ expired
  <2>1. row \in RowType
    BY <1>2
  <2>2. due \in BOOLEAN
    OBVIOUS
  <2> HIDE DEF row, due
  <2>3. LET new == [row EXCEPT !.expired = due, !.extended = extended] IN
        /\ new \in RowType /\ new.id = row.id /\ new.mask = row.mask
        /\ new.expired = due /\ new.extended = extended
    BY <2>1, <2>2 DEF RowType
  <2> QED BY <2>3 DEF row, due, SetFlags
<1> HIDE DEF NewFlags
<1>5. \A l \in DOMAIN mgr.locks :
         /\ locks[l] \in LockType /\ locks[l].id = mgr.locks[l].id /\ locks[l].shared = mgr.locks[l].shared
         /\ locks[l].mask = mgr.locks[l].mask
  BY <1>2, <1>3
<1>6. \A k \in DOMAIN db.lock : rows[k] \in RowType /\ rows[k].id = db.lock[k].id
  BY <1>2, <1>4
<1>7. DOMAIN locks = DOMAIN mgr.locks /\ Maplike(locks) /\ DOMAIN rows = DOMAIN db.lock /\ Maplike(rows)
  BY DEF Maplike
<1>8. \A k \in DOMAIN db.lock :
          k \in DOMAIN mgr.perm /\ SameRow(db.lock[k], mgr.locks[mgr.perm[k]])
             => SameRow(rows[k], locks[mgr.perm[k]])
  <2> SUFFICES ASSUME NEW k \in DOMAIN db.lock, k \in DOMAIN mgr.perm,
                      SameRow(db.lock[k], mgr.locks[mgr.perm[k]])
               PROVE  SameRow(rows[k], locks[mgr.perm[k]])
    OBVIOUS
  <2>1. mgr.perm[k] \in DOMAIN mgr.locks
    BY <1>2 DEF MgrOK, IsMap
  <2>2. mgr.perm[k] \in of <=> k \in keys
    BY <1>2 DEF OneOwner
  <2>3. CASE k \in keys
    <3>1. rows[k] = NewFlags(db.lock[k]) /\ locks[mgr.perm[k]] = NewFlags(mgr.locks[mgr.perm[k]])
      BY <2>1, <2>2, <2>3
    <3> HIDE DEF rows, locks
    <3> QED BY <3>1, <2>1, <1>3, <1>4, SMTT(30) DEF SameRow
  <2>4. CASE k \notin keys
    BY <2>1, <2>2, <2>4
  <2> QED BY <2>3, <2>4
<1> HIDE DEF locks, rows
<1>9. /\ mgr'.locks = locks /\ mgr'.shared = mgr.shared /\ mgr'.perm = mgr.perm
      /\ mgr'.temp = mgr.temp /\ mgr'.byId = mgr.byId
  BY <1>1, <1>2 DEF IsMgr
<1>10. IsMgr(mgr')
  <2>1. mgr' \in [locks: {locks}, shared: {mgr.shared}, perm: {mgr.perm}, temp: {mgr.temp}, byId: {mgr.byId}]
    BY <1>1, <1>2 DEF IsMgr
  <2> QED BY <1>9, <2>1 DEF IsMgr
<1>11. Touched(mgr, mgr')
  BY <1>5, <1>7, <1>9, <1>10 DEF Touched
<1>12. db'.lock = rows /\ db'.instance = db.instance
  BY <1>1, <1>2 DEF DbOK
<1>13. DbOK(db')
  <2>1. db' \in [lock: {rows}, instance: {db.instance}]
    BY <1>1, <1>2 DEF DbOK
  <2>2. IsMap(rows, Keys, RowType)
    BY <1>2, <1>6, <1>7, IsMapIf
  <2>3. \A k \in DOMAIN rows : rows[k].id < OverflowId /\ HasResetSchedule(k[2])
    BY <1>2, <1>6, <1>7 DEF DbOK
  <2> QED BY <1>2, <1>12, <2>1, <2>2, <2>3 DEF DbOK
<1>14. Reflagged
  <2>1. \A k \in DOMAIN db.lock :
          /\ db'.lock[k].id = db.lock[k].id
          /\ k \in DOMAIN mgr.perm /\ SameRow(db.lock[k], mgr.locks[mgr.perm[k]])
             => SameRow(db'.lock[k], mgr'.locks[mgr.perm[k]])
    BY <1>6, <1>8, <1>9, <1>12
  <2> QED BY <1>1, <1>5, <1>7, <1>9, <1>11, <1>12, <2>1 DEF Reflagged
<1>15. events' \in Nat /\ IsMap(maps', Dungeons \X Ids, MapType)
  BY <1>1, <1>2 DEF Scalars, MapsOK
<1> QED BY <1>1, <1>13, <1>14, <1>15, ReflaggedOK

\* Nothing in memory.
LEMMA EmptyMgrOK ==
    /\ MgrOK(EmptyMgr)
    /\ DOMAIN EmptyMgr.locks = {} /\ DOMAIN EmptyMgr.shared = {} /\ DOMAIN EmptyMgr.perm = {}
    /\ DOMAIN EmptyMgr.temp = {} /\ DOMAIN EmptyMgr.byId = {}
<1>1. /\ EmptyMgr.locks = Empty /\ EmptyMgr.shared = Empty /\ EmptyMgr.perm = Empty
      /\ EmptyMgr.temp = Empty /\ EmptyMgr.byId = Empty /\ IsMgr(EmptyMgr)
  BY DEF EmptyMgr, IsMgr
<1>2. DOMAIN Empty = {} /\ IsFiniteSet(DOMAIN Empty)
  BY EmptyMap, FS_EmptySet
<1> HIDE DEF Empty, EmptyMgr
<1>3. OneOwner(EmptyMgr) /\ LocksScheduled(EmptyMgr)
  BY <1>1, <1>2 DEF OneOwner, LocksScheduled
<1> QED BY <1>1, <1>2, <1>3, EmptyMap DEF MgrOK

\* The process ends.
LEMMA DieOK ==
    ASSUME Shape, NEW state \in {"aborted", "down"}, NEW tables, DbOK(tables), Die(state, tables)
    PROVE  Shape'
<1>1. /\ events > 0 /\ events' = events - 1 /\ kind' = kind /\ entries' = entries
      /\ up' = state /\ ids' = InitInstanceIds(0) /\ mgr' = EmptyMgr /\ maps' = Empty
      /\ at' = [p \in Players |-> Outside] /\ pending' = [p \in Players |-> 0]
      /\ recent' = Empty /\ groupRecent' = Empty /\ db' = tables
      /\ grouped' = grouped /\ defect' = defect
  BY DEF Die, Event
<1>2. Scalars
  BY ShapeParts
<1>3. Scalars'
  BY <1>1, <1>2 DEF Scalars
<1>4. AllocOK(ids')
  BY <1>1, InitIdsOK, OverflowIdAssumption
<1>5. MapsOK(maps', at')
  <2>1. IsMap(maps', Dungeons \X Ids, MapType) /\ DOMAIN maps' = {}
    BY <1>1, EmptyMap
  <2>2. IsFiniteSet(DOMAIN maps')
    BY <2>1, FS_EmptySet
  <2> QED BY <1>1, <2>1, <2>2 DEF MapsOK
<1>6. RecentOK(recent', groupRecent')
  BY <1>1, EmptyMap DEF RecentOK
<1>7. Gone' /\ up' # "running" /\ MgrOK(mgr') /\ DbOK(db')
  BY <1>1, EmptyMgrOK DEF Gone
<1> QED BY <1>1, <1>3, <1>4, <1>5, <1>6, <1>7, ShapeNext

\* Died with the rows "erased" of instance already deleted.
DiedWith(erased) ==
    /\ up' \in {"aborted", "down"} /\ mgr' = EmptyMgr /\ maps' = Empty
    /\ at' = [p \in Players |-> Outside]
    /\ db' = EraseInstances(db, erased) /\ kind' = kind /\ defect' = defect

\* A crash or a failed ASSERT within a transaction.
LEMMA InterruptedOK ==
    ASSUME Shape, NEW t, Interrupted(t)
    PROVE  Shape' /\ (DiedWith({}) \/ DiedWith(t.erased))
<1>1. PICK state \in {"aborted", "down"}, erased \in {{}, t.erased} : Die(state, EraseInstances(db, erased))
  BY DEF Interrupted
<1>2. DbOK(EraseInstances(db, erased))
  BY ShapeParts, EraseOK
<1>3. DiedWith(erased)
  BY <1>1 DEF Die, DiedWith, Event
<1> QED BY <1>1, <1>2, <1>3, DieOK

\* A crash, or the shutdown, between two operations.
LEMMA StopOK ==
    ASSUME Shape, Stop
    PROVE  /\ Shape' /\ db' = db /\ mgr' = EmptyMgr /\ maps' = Empty /\ up' = "down"
           /\ kind' = kind /\ defect' = defect /\ at' = [p \in Players |-> Outside]
<1>1. Die("down", db)
  BY DEF Stop
<1>2. Shape'
  BY <1>1, ShapeParts, DieOK
<1> QED BY <1>1, <1>2 DEF Die, Event

\* A transaction is committed.
Committed(t) ==
    /\ Running /\ TransOK(t) /\ t.ok /\ mgr' = t.mgr /\ db' = CommitTransaction(t)
    /\ UNCHANGED <<up, ids, maps, at, recent, grouped, groupRecent, bounds, defect>>

\* A committed transaction keeps the invariant.
LEMMA CommittedOK ==
    ASSUME Shape, NEW t, Committed(t), pending' \in [Players -> Ids \cup {0}]
    PROVE  Shape'
<1>1. /\ UNCHANGED <<up, ids, maps, at, recent, grouped, groupRecent, kind, entries, events, defect>>
      /\ Running /\ TransOK(t) /\ mgr' = t.mgr /\ db' = CommitTransaction(t)
  BY DEF Committed, bounds
<1>2. /\ AllocOK(ids) /\ MapsOK(maps, at) /\ RecentOK(recent, groupRecent)
      /\ DbOK(db) /\ Scalars /\ MapsKnown(maps, ids)
      /\ RecentKnown(recent, groupRecent, ids) /\ RowsKnown(db, ids)
  BY <1>1, ShapeParts
<1>3. DbOK(db') /\ RowsKnown(db', ids')
  BY <1>1, <1>2, CommitTablesOK
<1>4. MgrOK(mgr') /\ LocksKnown(mgr', ids')
  BY <1>1 DEF TransOK
<1>5. Scalars' /\ Gone'
  BY <1>1, <1>2 DEF Scalars, Gone, Running
<1>6. /\ AllocOK(ids') /\ MapsOK(maps', at') /\ RecentOK(recent', groupRecent')
      /\ MapsKnown(maps', ids') /\ RecentKnown(recent', groupRecent', ids') /\ kind' = kind
  BY <1>1, <1>2
<1> QED BY <1>3, <1>4, <1>5, <1>6, ShapeNext

\* InstanceMap::UpdateInstanceLock keeps the invariant and commits or dies.
LEMMA UpdateInstanceLockOK ==
    ASSUME Shape, NEW i \in DOMAIN maps, NEW done \in SUBSET Encounters, UpdateInstanceLock(i, done)
    PROVE  /\ Shape' /\ Running /\ HasResetSchedule(i[1]) /\ maps[i].lock \in DOMAIN mgr.locks
           /\ \/ DiedWith({}) \/ DiedWith(Saved(i, done).erased)
              \/ Committed(Saved(i, done))
<1> DEFINE t == Saved(i, done)
<1>1. /\ Running /\ maps[i].lock # NoLock /\ ~Dangling(i)
      /\ \/ Interrupted(t)
         \/ /\ Commit(t)
            /\ UNCHANGED <<up, ids, maps, at, pending, recent, grouped, groupRecent, bounds, defect>>
  BY DEF UpdateInstanceLock
<1>2. HasResetSchedule(i[1]) /\ maps[i].lock \in DOMAIN mgr.locks
  BY <1>1, ShapeParts DEF MapsOK, Dangling
<1>3. TransOK(t)
  BY <1>1, <1>2, ShapeParts, SavedOK
<1> HIDE DEF t
<1>4. CASE Interrupted(t)
  <2>1. Shape' /\ (DiedWith({}) \/ DiedWith(t.erased))
    BY <1>4, InterruptedOK
  <2> QED BY <1>1, <1>2, <2>1 DEF t
<1>5. CASE /\ Commit(t)
           /\ UNCHANGED <<up, ids, maps, at, pending, recent, grouped, groupRecent, bounds, defect>>
  <2>1. Committed(t)
    BY <1>1, <1>3, <1>5 DEF Committed, Commit
  <2>2. pending' \in [Players -> Ids \cup {0}]
    BY <1>5, ShapeParts DEF Scalars
  <2>3. Shape'
    BY <2>1, <2>2, CommittedOK
  <2> QED BY <1>1, <1>2, <2>1, <2>3 DEF t
<1> QED BY <1>1, <1>4, <1>5

\* The player whose bind is confirmed is in an instance with a lock.
Binds(p) == at[p] # Outside /\ maps[at[p]].lock # NoLock /\ ~Dangling(at[p])

\* Player::ConfirmPendingBind keeps the invariant; it commits or finds nothing to do.
LEMMA ConfirmOK ==
    ASSUME Shape, NEW p \in Players, ConfirmPendingBind(p)
    PROVE  /\ Shape' /\ Running
           /\ \/ Quiet
              \/ Binds(p) /\ Committed(Bound(p))
<1>1. /\ Running /\ pending' = [pending EXCEPT ![p] = 0]
      /\ UNCHANGED <<ids, maps, at, recent, grouped, groupRecent, kind, entries, events, defect>>
  BY DEF ConfirmPendingBind, bounds
<1>2. /\ AllocOK(ids) /\ MgrOK(mgr) /\ MapsOK(maps, at) /\ RecentOK(recent, groupRecent)
      /\ DbOK(db) /\ Scalars /\ LocksKnown(mgr, ids) /\ MapsKnown(maps, ids)
  BY <1>1, ShapeParts
<1>3. pending' \in [Players -> Ids \cup {0}]
  BY <1>1, <1>2 DEF Scalars
<1>4. CASE at[p] = Outside \/ at[p][2] # pending[p]
  <2>1. UNCHANGED <<up, mgr, db>>
    BY <1>4 DEF ConfirmPendingBind
  <2>2. Quiet
    BY <1>1, <1>2, <2>1 DEF Quiet
  <2>3. Shape'
    BY <1>1, <1>2, <1>3, <2>2, QuietOK DEF MapsOK, RecentOK, Scalars
  <2> QED BY <1>1, <2>2, <2>3
<1>5. CASE ~(at[p] = Outside \/ at[p][2] # pending[p])
  <2>1. Binds(p) /\ Commit(Bound(p)) /\ up' = up
    BY <1>5 DEF ConfirmPendingBind, Binds
  <2>2. TransOK(Bound(p))
    BY <1>2, <2>1, BoundOK DEF Binds
  <2>3. Committed(Bound(p))
    BY <1>1, <2>1, <2>2 DEF Committed, Commit, bounds
  <2> QED BY <1>1, <1>3, <2>1, <2>3, CommittedOK
<1> QED BY <1>4, <1>5

\* ... or dies.
LEMMA BindAbortsOK ==
    ASSUME Shape, NEW p \in Players, BindAborts(p)
    PROVE  /\ Shape' /\ Running /\ Binds(p)
           /\ DiedWith({}) \/ DiedWith(Bound(p).erased)
<1>1. Running /\ Binds(p) /\ Interrupted(Bound(p))
  BY DEF BindAborts, Binds
<1> QED BY <1>1, InterruptedOK

-----------------------------------------------------------------------------
(* Load.                                                                    *)

\* The allocator and the locks after the first n rows: the locks are the ones
\* of the rows, and those bound to an id share the data of its row of instance.
LoadIds(n, acc) ==
    /\ AllocOK(acc.ids) /\ acc.ids.size = LoadBase.ids.size
    /\ \A j \in 1..n : RowOrder[j] \in DOMAIN db.lock => db.lock[RowOrder[j]].id \notin acc.ids.free
LoadRows(n, acc) ==
    \A j \in 1..n : RowOrder[j] \in DOMAIN db.lock =>
        RowOrder[j] \in DOMAIN acc.mgr.perm \/ db.lock[RowOrder[j]].id \in acc.missing
LoadLocks(m) ==
    /\ MgrOK(m) /\ DOMAIN m.temp = {}
    /\ \A l \in DOMAIN m.locks : \E k \in DOMAIN db.lock : m.locks[l].id = db.lock[k].id
    /\ \A k \in DOMAIN m.perm : k \in DOMAIN db.lock /\ SameRow(db.lock[k], m.locks[m.perm[k]])
LoadData(m) ==
    /\ DOMAIN m.shared \subseteq DOMAIN m.locks
    /\ \A id \in DOMAIN m.byId :
          /\ m.byId[id] \in DOMAIN m.shared /\ id \in DOMAIN db.instance
          /\ m.shared[m.byId[id]].instanceId = id /\ m.shared[m.byId[id]].mask = db.instance[id]
    /\ \A k \in DOMAIN m.perm : IsInstanceIdBound(k[2]) =>
          db.lock[k].id \in DOMAIN m.byId /\ m.locks[m.perm[k]].shared = m.byId[db.lock[k].id]
LoadInv(n, acc) == LoadIds(n, acc) /\ LoadRows(n, acc) /\ LoadLocks(acc.mgr) /\ LoadData(acc.mgr)

\* The bitmap has room for every id of the tables and one more.
LEMMA LoadBaseOK ==
    ASSUME DbOK(db)
    PROVE  /\ AllocOK(LoadBase.ids) /\ HintFree(LoadBase.ids) /\ LoadBase.mgr = EmptyMgr
           /\ \A k \in DOMAIN db.lock : db.lock[k].id \in 1..(LoadBase.ids.size - 2)
<1> DEFINE stored == DOMAIN db.instance \cup {db.lock[k].id : k \in DOMAIN db.lock}
           n == IF stored = {} THEN 0 ELSE Max(stored)
<1>1. LoadBase.ids = InitInstanceIds(n) /\ LoadBase.mgr = EmptyMgr
  BY DEF LoadBase
<1>2. stored \subseteq 1..(OverflowId - 1) /\ OverflowId - 1 \in Nat
  BY OverflowIdAssumption DEF DbOK, IsMap, Ids, RowType
<1>3. n \in 0..(OverflowId - 1) /\ \A id \in stored : id \in Nat /\ 1 <= id /\ id <= n
  <2> DEFINE b == OverflowId - 1
  <2> HIDE DEF stored, b
  <2>1. b \in Nat /\ stored \in SUBSET 1..b
    BY <1>2 DEF b
  <2>2. CASE stored = {}
    BY <2>1, <2>2 DEF b
  <2>3. CASE stored # {}
    <3>1. Max(stored) \in stored /\ \A y \in stored : Max(stored) >= y
      BY <2>1, <2>3, MaxIs
    <3>2. n = Max(stored) /\ n \in 1..b
      BY <2>1, <2>3, <3>1
    <3>3. n \in stored /\ \A y \in stored : n >= y
      BY <3>1, <3>2
    <3> HIDE DEF n
    <3> QED BY <2>1, <3>2, <3>3 DEF b
  <2> QED BY <2>2, <2>3
<1>4. \A k \in DOMAIN db.lock : db.lock[k].id \in stored
  OBVIOUS
<1> HIDE DEF stored, n
<1>5. AllocOK(LoadBase.ids) /\ HintFree(LoadBase.ids) /\ LoadBase.ids.size = n + 2
  BY <1>1, <1>3, InitIdsOK
<1>6. \A k \in DOMAIN db.lock : db.lock[k].id \in 1..n
  <2> SUFFICES ASSUME NEW k \in DOMAIN db.lock PROVE db.lock[k].id \in 1..n
    OBVIOUS
  <2> DEFINE id == db.lock[k].id
  <2>1. n \in Nat /\ id \in Nat /\ 1 <= id /\ id <= n
    BY <1>3, <1>4, OverflowIdAssumption
  <2> HIDE DEF id
  <2>2. id \in 1..n
    BY <2>1
  <2> QED BY <2>2 DEF id
<1>7. (n + 2) - 2 = n
  BY <1>3
<1> QED BY <1>1, <1>5, <1>6, <1>7

\* One row.
LEMMA LoadRowOK ==
    ASSUME DbOK(db), NEW n \in 1..Len(RowOrder), NEW acc, LoadInv(n - 1, acc)
    PROVE  LoadInv(n, LoadRow(acc, RowOrder[n]))
<1> DEFINE key == RowOrder[n]
           new == LoadRow(acc, key)
           m   == acc.mgr
           row == db.lock[key]
           l   == FirstUnused(DOMAIN m.locks)
           bound == IsInstanceIdBound(key[2])
           data == IF ~bound THEN NoLock ELSE Value(m.byId, row.id, l)
           lock == [NewLock(row.id, data) EXCEPT !.mask = row.mask, !.expired = row.expired,
                                                 !.extended = row.extended]
           ids1 == RegisterInstanceId(acc.ids, row.id)
           next == [locks  |-> Put(m.locks, l, lock),
                    shared |-> IF data # l THEN m.shared
                               ELSE Put(m.shared, l, [instanceId |-> row.id, mask |-> db.instance[row.id]]),
                    perm   |-> Put(m.perm, key, l),
                    temp   |-> m.temp,
                    byId   |-> IF bound THEN Put(m.byId, row.id, data) ELSE m.byId]
<1>1. new = IF key \notin DOMAIN db.lock THEN acc
            ELSE IF bound /\ row.id \notin DOMAIN db.instance
            THEN [ids |-> ids1, mgr |-> m, missing |-> acc.missing \cup {row.id}]
            ELSE [ids |-> ids1, mgr |-> next, missing |-> acc.missing]
  BY DEF LoadRow
<1>2. key \in Keys /\ Len(RowOrder) \in Nat
  BY InstanceLocksAssumption DEF Keys
<1>3. \A j \in 1..n : j = n \/ j \in 1..(n - 1)
  BY <1>2
<1>4. /\ AllocOK(acc.ids) /\ acc.ids.size = LoadBase.ids.size
      /\ \A j \in 1..(n - 1) : RowOrder[j] \in DOMAIN db.lock => db.lock[RowOrder[j]].id \notin acc.ids.free
      /\ LoadRows(n - 1, acc) /\ LoadLocks(m) /\ LoadData(m)
  BY DEF LoadInv, LoadIds
<1>5. CASE key \notin DOMAIN db.lock
  <2>1. new = acc
    BY <1>1, <1>5
  <2> HIDE DEF new
  <2>2. LoadIds(n, new) /\ LoadRows(n, new)
    BY <1>3, <1>4, <1>5, <2>1 DEF LoadIds, LoadRows
  <2> QED BY <1>4, <2>1, <2>2 DEF LoadInv, new
<1>6. CASE key \in DOMAIN db.lock
  <2>1. /\ AllocOK(ids1) /\ ids1.size = LoadBase.ids.size /\ ids1.free = acc.ids.free \ {row.id}
    <3>1. row.id \in 1..(acc.ids.size - 2)
      BY <1>4, <1>6, LoadBaseOK
    <3> QED BY <1>4, <3>1, RegisterOK
  <2> HIDE DEF ids1, row
  <2>2. \A j \in 1..n : RowOrder[j] \in DOMAIN db.lock => db.lock[RowOrder[j]].id \notin ids1.free
    BY <1>3, <1>4, <2>1 DEF row
  <2>3. CASE bound /\ row.id \notin DOMAIN db.instance
    <3>1. new.ids = ids1 /\ new.mgr = m /\ new.missing = acc.missing \cup {row.id}
      BY <1>1, <1>6, <2>3
    <3> HIDE DEF new, bound
    <3>2. LoadIds(n, new)
      BY <2>1, <2>2, <3>1 DEF LoadIds
    <3>3. LoadRows(n, new)
      BY <1>3, <1>4, <3>1 DEF LoadRows, row
    <3> QED BY <1>4, <3>1, <3>2, <3>3 DEF LoadInv, new
  <2>4. CASE ~(bound /\ row.id \notin DOMAIN db.instance)
    <3>1. new.ids = ids1 /\ new.mgr = next /\ new.missing = acc.missing
      BY <1>1, <1>6, <2>4
    <3>2. /\ next.locks = Put(m.locks, l, lock) /\ next.perm = Put(m.perm, key, l) /\ next.temp = m.temp
          /\ next.shared = (IF data # l THEN m.shared
                            ELSE Put(m.shared, l, [instanceId |-> row.id, mask |-> db.instance[row.id]]))
          /\ next.byId = (IF bound THEN Put(m.byId, row.id, data) ELSE m.byId)
          /\ IsMgr(next)
      BY DEF IsMgr
    <3>3. bound => row.id \in DOMAIN db.instance
      BY <2>4
    <3>4. /\ IsMap(m.locks, Addresses, LockType) /\ IsFiniteSet(DOMAIN m.locks)
          /\ IsMap(m.shared, Addresses, SharedType) /\ IsFiniteSet(DOMAIN m.shared)
          /\ IsMap(m.perm, Keys, DOMAIN m.locks)
          /\ IsMap(m.temp, Keys, DOMAIN m.locks)
          /\ IsMap(m.byId, Ids, Addresses)
          /\ OneOwner(m) /\ LocksScheduled(m) /\ DOMAIN m.temp = {}
      BY <1>4 DEF LoadLocks, MgrOK
    <3>5. l \in Addresses /\ l \notin DOMAIN m.locks /\ l # NoLock
      BY <3>4, UnusedExists, InstanceLocksAssumption
    <3>6. DOMAIN m.shared \subseteq DOMAIN m.locks
      BY <1>4 DEF LoadData
    <3>7. row \in RowType /\ HasResetSchedule(key[2])
      BY <1>6 DEF DbOK, IsMap, row
    <3>8. row.id \in Ids
      BY <3>7 DEF RowType
    <3> HIDE DEF l
    <3>9. /\ ~bound => data = NoLock
          /\ bound /\ row.id \in DOMAIN m.byId => data = m.byId[row.id] /\ data \in DOMAIN m.shared
          /\ bound /\ row.id \notin DOMAIN m.byId => data = l
      BY <1>4 DEF Value, LoadData
    <3>10. data \in Addresses \cup {NoLock} /\ (bound => data \in Addresses)
      BY <3>4, <3>5, <3>9 DEF IsMap
    <3> HIDE DEF data
    <3>11. /\ lock \in LockType /\ lock.id = row.id /\ lock.shared = data
           /\ SameRow(row, lock)
      <4>1. NewLock(row.id, data) \in LockType /\ NewLock(row.id, data).id = row.id
            /\ NewLock(row.id, data).shared = data
        BY <3>8, <3>10 DEF NewLock, LockType
      <4>2. row.mask \in SUBSET Encounters /\ row.expired \in BOOLEAN /\ row.extended \in BOOLEAN
        BY <3>7 DEF RowType
      <4> DEFINE fresh == NewLock(row.id, data)
      <4> HIDE DEF fresh
      <4>3. LET x == [fresh EXCEPT !.mask = row.mask, !.expired = row.expired, !.extended = row.extended] IN
            /\ x \in LockType /\ x.id = fresh.id /\ x.shared = fresh.shared
            /\ x.mask = row.mask /\ x.expired = row.expired /\ x.extended = row.extended
        BY <4>1, <4>2 DEF LockType, fresh
      <4> QED BY <4>1, <4>3 DEF fresh, SameRow
    <3> HIDE DEF lock, next, new
    <3>12. /\ DOMAIN next.locks = DOMAIN m.locks \cup {l} /\ next.locks[l] = lock
           /\ \A z \in DOMAIN m.locks : next.locks[z] = m.locks[z]
      BY <3>2, <3>5 DEF Put
    <3>13. /\ DOMAIN next.perm = DOMAIN m.perm \cup {key} /\ next.perm[key] = l
           /\ \A k \in DOMAIN m.perm : k # key => next.perm[k] = m.perm[k]
           /\ \A k \in DOMAIN m.perm : m.perm[k] # l /\ m.perm[k] \in DOMAIN m.locks
      BY <3>2, <3>4, <3>5 DEF Put, IsMap
    <3>14. IsMap(next.locks, Addresses, LockType) /\ IsFiniteSet(DOMAIN next.locks)
      <4>1. IsMap(next.locks, Addresses, LockType)
        BY <3>2, <3>4, <3>5, <3>11, PutMap
      <4> QED BY <3>4, <3>12, <4>1, FS_AddElement
    <3>15. data = l => [instanceId |-> row.id, mask |-> db.instance[row.id]] \in SharedType
      <4>1. data = l => bound
        BY <3>5, <3>9
      <4>2. bound => db.instance[row.id] \in SUBSET Encounters
        BY <3>3 DEF DbOK, IsMap
      <4> QED BY <4>1, <4>2, <3>8 DEF SharedType
    <3>16. IsMap(next.shared, Addresses, SharedType) /\ IsFiniteSet(DOMAIN next.shared)
      <4>1. CASE data # l
        BY <3>2, <3>4, <4>1
      <4>2. CASE data = l
        <5>1. IsMap(next.shared, Addresses, SharedType)
          BY <3>2, <3>4, <3>5, <3>15, <4>2, PutMap
        <5>2. DOMAIN next.shared = DOMAIN m.shared \cup {l}
          BY <3>2, <4>2 DEF Put
        <5> QED BY <3>4, <5>1, <5>2, FS_AddElement
      <4> QED BY <4>1, <4>2
    <3>17. IsMap(next.perm, Keys, DOMAIN next.locks)
      <4>1. IsMap(m.perm, Keys, DOMAIN next.locks)
        BY <3>4, <3>12 DEF IsMap
      <4> QED BY <1>2, <3>2, <3>12, <4>1, PutMap
    <3>18. IsMap(next.temp, Keys, DOMAIN next.locks)
      BY <3>2, <3>4, <3>12 DEF IsMap
    <3>19. IsMap(next.byId, Ids, Addresses)
      BY <3>2, <3>4, <3>8, <3>10, PutMap
    <3>20. OneOwner(next) /\ LocksScheduled(next)
      BY <3>2, <3>4, <3>7, <3>13 DEF OneOwner, LocksScheduled
    <3>21. MgrOK(next)
      BY <3>2, <3>14, <3>16, <3>17, <3>18, <3>19, <3>20 DEF MgrOK
    <3>22. LoadLocks(next)
      <4>1. \A z \in DOMAIN next.locks : \E k \in DOMAIN db.lock : next.locks[z].id = db.lock[k].id
        BY <1>4, <1>6, <3>11, <3>12 DEF LoadLocks, row
      <4>2. \A k \in DOMAIN next.perm : k \in DOMAIN db.lock /\ SameRow(db.lock[k], next.locks[next.perm[k]])
        BY <1>4, <1>6, <3>11, <3>12, <3>13 DEF LoadLocks, row
      <4> QED BY <3>2, <3>4, <3>21, <4>1, <4>2 DEF LoadLocks
    <3>23. LoadData(next)
      <4>1. /\ DOMAIN next.shared \subseteq DOMAIN next.locks /\ DOMAIN m.shared \subseteq DOMAIN next.shared
            /\ \A x \in DOMAIN m.shared : next.shared[x] = m.shared[x]
            /\ data = l => l \in DOMAIN next.shared /\ next.shared[l].instanceId = row.id
                           /\ next.shared[l].mask = db.instance[row.id]
        BY <3>2, <3>5, <3>6, <3>12 DEF Put
      <4>2. /\ bound => DOMAIN next.byId = DOMAIN m.byId \cup {row.id} /\ next.byId[row.id] = data
            /\ ~bound => DOMAIN next.byId = DOMAIN m.byId
            /\ \A x \in DOMAIN m.byId : next.byId[x] = m.byId[x]
        BY <3>2, <3>9 DEF Put
      <4>3. ASSUME NEW id \in DOMAIN next.byId
            PROVE  /\ next.byId[id] \in DOMAIN next.shared /\ id \in DOMAIN db.instance
                   /\ next.shared[next.byId[id]].instanceId = id
                   /\ next.shared[next.byId[id]].mask = db.instance[id]
        <5>1. CASE id \in DOMAIN m.byId
          BY <1>4, <4>1, <4>2, <5>1 DEF LoadData
        <5>2. CASE id \notin DOMAIN m.byId
          BY <3>3, <3>9, <4>1, <4>2, <5>2
        <5> QED BY <5>1, <5>2
      <4>4. ASSUME NEW k \in DOMAIN next.perm, IsInstanceIdBound(k[2])
            PROVE  db.lock[k].id \in DOMAIN next.byId /\ next.locks[next.perm[k]].shared = next.byId[db.lock[k].id]
        <5>1. CASE k = key
          BY <3>11, <3>12, <3>13, <4>2, <4>4, <5>1 DEF row
        <5>2. CASE k # key
          <6>1. k \in DOMAIN m.perm /\ next.perm[k] = m.perm[k] /\ next.locks[m.perm[k]] = m.locks[m.perm[k]]
            BY <3>12, <3>13, <5>2
          <6>2. db.lock[k].id \in DOMAIN m.byId /\ m.locks[m.perm[k]].shared = m.byId[db.lock[k].id]
            BY <1>4, <4>4, <6>1 DEF LoadData
          <6> QED BY <4>2, <6>1, <6>2
        <5> QED BY <5>1, <5>2
      <4> QED BY <4>1, <4>3, <4>4 DEF LoadData
    <3>24. LoadIds(n, new)
      BY <2>1, <2>2, <3>1 DEF LoadIds
    <3>25. LoadRows(n, new)
      BY <1>3, <1>4, <3>1, <3>13 DEF LoadRows
    <3> QED BY <3>1, <3>22, <3>23, <3>24, <3>25 DEF LoadInv, new
  <2> QED BY <2>3, <2>4
<1> QED BY <1>5, <1>6

\* All rows.
LEMMA LoadOK ==
    ASSUME DbOK(db)
    PROVE  LoadInv(Len(RowOrder), Load)
<1> DEFINE N == {n \in Nat : n <= Len(RowOrder) => LoadInv(n, Loaded(n))}
<1>0. Len(RowOrder) \in Nat
  BY InstanceLocksAssumption
<1>1. 0 \in N
  <2>1. Loaded(0) = LoadBase /\ 1..0 = {}
    BY LoadedIs
  <2>2. LoadIds(0, LoadBase) /\ LoadRows(0, LoadBase)
    BY <2>1, LoadBaseOK DEF LoadIds, LoadRows
  <2>3. LoadLocks(EmptyMgr) /\ LoadData(EmptyMgr)
    BY EmptyMgrOK DEF LoadLocks, LoadData
  <2> QED BY <2>1, <2>2, <2>3, LoadBaseOK DEF LoadInv
<1>2. ASSUME NEW n \in Nat, n \in N PROVE n + 1 \in N
  <2> SUFFICES ASSUME n + 1 <= Len(RowOrder) PROVE LoadInv(n + 1, Loaded(n + 1))
    OBVIOUS
  <2>1. n + 1 \in 1..Len(RowOrder) /\ (n + 1) - 1 = n /\ n <= Len(RowOrder)
    BY <1>0
  <2>2. LoadInv(n, Loaded(n))
    BY <1>2, <2>1
  <2>3. Loaded(n + 1) = LoadRow(Loaded(n), RowOrder[n + 1])
    BY <2>1, LoadedIs
  <2> DEFINE q == n + 1
  <2>4. q \in 1..Len(RowOrder) /\ LoadInv(q - 1, Loaded(n))
    BY <2>1, <2>2
  <2>5. LoadInv(q, LoadRow(Loaded(n), RowOrder[q]))
    <3> HIDE DEF q
    <3> QED BY <2>4, LoadRowOK
  <2> QED BY <2>3, <2>5
<1> HIDE DEF N
<1>3. Nat \subseteq N
  BY <1>1, <1>2, SetInduction
<1>4. LoadInv(Len(RowOrder), Loaded(Len(RowOrder)))
  BY <1>0, <1>3 DEF N
<1> QED BY <1>4, LoadedIs

-----------------------------------------------------------------------------
(* The next start, and the first theorems.                                  *)

\* The server has loaded its locks; rows without their row of instance are gone.
Restarted ==
    /\ ~Running /\ up' = "running" /\ kind' = kind /\ ids' = Load.ids /\ mgr' = Load.mgr
    /\ maps = Empty /\ maps' = Empty /\ at' = at
    /\ defect' = (IF HintFree(Load.ids) THEN defect ELSE "unordered")
    /\ db'.instance = db.instance
    /\ DOMAIN db'.lock = {k \in DOMAIN db.lock : db.lock[k].id \notin Load.missing}
    /\ \A k \in DOMAIN db'.lock : db'.lock[k] = db.lock[k]

\* Restart keeps the invariant.
LEMMA RestartOK ==
    ASSUME Shape, Restart
    PROVE  Shape' /\ Restarted
<1>1. /\ up \in {"down", "aborted"} /\ up' = "running" /\ ids' = Load.ids /\ mgr' = Load.mgr
      /\ db' = [db EXCEPT !.lock = RestrictValues(@, LAMBDA row : row.id \notin Load.missing)]
      /\ defect' = (IF HintFree(Load.ids) THEN defect ELSE "unordered")
      /\ UNCHANGED <<maps, at, pending, recent, grouped, groupRecent, kind, entries, events>>
  BY DEF Restart, bounds
<1>2. /\ DbOK(db) /\ MapsOK(maps, at) /\ RecentOK(recent, groupRecent) /\ Scalars
      /\ maps = Empty /\ recent = Empty /\ groupRecent = Empty
  BY <1>1 DEF Shape, Gone
<1>3. LoadInv(Len(RowOrder), Load)
  BY <1>2, LoadOK
<1> DEFINE miss == Load.missing
           kept == {k \in DOMAIN db.lock : db.lock[k].id \notin miss}
<1>4. db' = [db EXCEPT !.lock = Restrict(db.lock, kept)]
  BY <1>1 DEF RestrictValues
<1> HIDE DEF kept
<1>5. db'.lock = Restrict(db.lock, kept) /\ db'.instance = db.instance
      /\ db' \in [lock: {db'.lock}, instance: {db'.instance}]
  BY <1>2, <1>4 DEF DbOK
<1>6. kept \in SUBSET DOMAIN db.lock
  BY DEF kept
<1>7. /\ DOMAIN db'.lock = kept /\ \A k \in DOMAIN db'.lock : db'.lock[k] = db.lock[k]
      /\ IsMap(db'.lock, Keys, RowType)
  BY <1>2, <1>5, <1>6 DEF Restrict, IsMap, DbOK
<1>8. DbOK(db')
  BY <1>2, <1>5, <1>6, <1>7 DEF DbOK
<1>9. Restarted
  BY <1>1, <1>2, <1>5, <1>7 DEF Restarted, kept, Running
<1>10. AllocOK(ids') /\ MgrOK(mgr') /\ ids'.size = LoadBase.ids.size
       /\ \A l \in DOMAIN mgr'.locks : \E k \in DOMAIN db.lock : mgr'.locks[l].id = db.lock[k].id
  BY <1>1, <1>3 DEF LoadInv, LoadIds, LoadLocks
<1>11. ids'.size \in Nat
  BY <1>10 DEF AllocOK, HintSound, Allocators
<1>12. \A k \in DOMAIN db.lock : Known(ids', db.lock[k].id)
  <2> SUFFICES ASSUME NEW k \in DOMAIN db.lock PROVE Known(ids', db.lock[k].id)
    OBVIOUS
  <2>1. db.lock[k].id \in 1..(ids'.size - 2) /\ db.lock[k].id < OverflowId
    BY <1>2, <1>10, LoadBaseOK DEF DbOK
  <2> QED BY <1>11, <2>1 DEF Known
<1>13. LocksKnown(mgr', ids') /\ RowsKnown(db', ids')
  BY <1>6, <1>7, <1>10, <1>12 DEF LocksKnown, RowsKnown
<1>14. MapsKnown(maps', ids') /\ RecentKnown(recent', groupRecent', ids')
  BY <1>1, <1>2, EmptyMap DEF MapsKnown, RecentKnown
<1>15. Scalars'
  BY <1>1, <1>2 DEF Scalars
<1>16. MapsOK(maps', at') /\ RecentOK(recent', groupRecent') /\ Gone'
  BY <1>1, <1>2 DEF Gone
<1>17. Shape'
  BY <1>1, <1>8, <1>10, <1>13, <1>14, <1>15, <1>16, ShapeNext
<1> QED BY <1>9, <1>17

\* A server that starts with empty tables.
LEMMA InitShape == Init => Shape
<1> SUFFICES ASSUME Init PROVE Shape
  OBVIOUS
<1>1. /\ up = "running" /\ ids = InitInstanceIds(0) /\ mgr = EmptyMgr /\ maps = Empty
      /\ at = [p \in Players |-> Outside] /\ pending = [p \in Players |-> 0]
      /\ recent = Empty /\ grouped = FALSE /\ groupRecent = Empty
      /\ db = [lock |-> Empty, instance |-> Empty] /\ defect = "none"
  BY DEF Init
<1>2. PICK c \in Cases : kind = c.kind /\ entries = c.entries /\ events = c.events
  BY DEF Init
<1>3. c.entries \in Nat /\ c.events \in Nat
  BY InstanceLocksAssumption
<1>4. Scalars
  <2>1. kind \in {b.kind : b \in Cases}
    BY <1>2
  <2> QED BY <1>1, <1>2, <1>3, <2>1 DEF Scalars
<1>5. AllocOK(ids)
  BY <1>1, InitIdsOK, OverflowIdAssumption
<1>6. MapsOK(maps, at)
  <2>1. IsMap(maps, Dungeons \X Ids, MapType) /\ DOMAIN maps = {}
    BY <1>1, EmptyMap
  <2>2. IsFiniteSet(DOMAIN maps)
    BY <2>1, FS_EmptySet
  <2> QED BY <1>1, <2>1, <2>2 DEF MapsOK
<1>7. RecentOK(recent, groupRecent)
  BY <1>1, EmptyMap DEF RecentOK
<1>8. db.lock = Empty /\ db.instance = Empty
      /\ db \in [lock: {db.lock}, instance: {db.instance}]
  BY <1>1
<1>9. DbOK(db)
  BY <1>8, EmptyMap DEF DbOK
<1>10. IdsKnown
  BY <1>1, <1>8, EmptyMap, EmptyMgrOK DEF IdsKnown, LocksKnown, MapsKnown, RecentKnown, RowsKnown
<1>11. MgrOK(mgr) /\ Gone
  BY <1>1, EmptyMgrOK DEF Gone
<1> QED BY <1>4, <1>5, <1>6, <1>7, <1>9, <1>10, <1>11 DEF Shape

\* What a step may be.
Saves(i, done) ==
    /\ Running /\ HasResetSchedule(i[1]) /\ maps[i].lock \in DOMAIN mgr.locks
    /\ \/ DiedWith({}) \/ DiedWith(Saved(i, done).erased)
       \/ Committed(Saved(i, done))
Confirms(p) ==
    /\ Running /\ Binds(p)
    /\ \/ DiedWith({}) \/ DiedWith(Bound(p).erased)
       \/ Committed(Bound(p))
Step ==
    \/ \E p \in Players, d \in Dungeons : Enter(p, d) /\ Entered(p, d, CreateMap(p, d))
    \/ Quiet /\ Running
    \/ \E i \in DOMAIN maps : Unloaded(i)
    \/ Reflagged
    \/ \E i \in DOMAIN maps, done \in SUBSET Encounters : Saves(i, done)
    \/ \E p \in Players : Confirms(p)
    \/ DiedWith({})
    \/ Restarted

\* Every step keeps the invariant, and is one of these.
LEMMA StepOK ==
    ASSUME Shape, Next
    PROVE  Shape' /\ Step
<1>1. ASSUME NEW p \in Players, NEW d \in Dungeons, Enter(p, d) PROVE Shape' /\ Step
  BY <1>1, EnterOK DEF Step
<1>2. ASSUME NEW p \in Players, NEW d \in Dungeons, NEW extended \in BOOLEAN, ExtendLock(p, d, extended)
      PROVE  Shape' /\ Step
  <2>1. Running /\ Event /\ {<<p, d>>} \in SUBSET DOMAIN mgr.perm /\ SetLocks({<<p, d>>}, FALSE, extended)
    BY <1>2 DEF ExtendLock
  <2> QED BY <2>1, SetLocksOK DEF Step
<1>3. ASSUME NEW p \in Players, UnbindLocks(p) PROVE Shape' /\ Step
  <2> DEFINE keys == {k \in DOMAIN mgr.perm :
                        LET lock == mgr.locks[mgr.perm[k]] IN k[1] = p /\ ~lock.inUse /\ ~lock.expired}
  <2>1. Running /\ Event /\ keys \in SUBSET DOMAIN mgr.perm /\ SetLocks(keys, TRUE, FALSE)
    BY <1>3 DEF UnbindLocks
  <2> HIDE DEF keys
  <2> QED BY <2>1, SetLocksOK DEF Step
<1>4. ASSUME NEW p \in Players, ConfirmPendingBind(p) PROVE Shape' /\ Step
  <2>1. Shape' /\ Running /\ (Quiet \/ (Binds(p) /\ Committed(Bound(p))))
    BY <1>4, ConfirmOK
  <2> QED BY <2>1 DEF Step, Confirms
<1>5. ASSUME NEW p \in Players, BindAborts(p) PROVE Shape' /\ Step
  <2>1. Shape' /\ Running /\ Binds(p) /\ (DiedWith({}) \/ DiedWith(Bound(p).erased))
    BY <1>5, BindAbortsOK
  <2> QED BY <2>1 DEF Step, Confirms
<1>6. ASSUME NEW i \in DOMAIN maps, NEW done \in SUBSET Encounters, UpdateInstanceLock(i, done)
      PROVE  Shape' /\ Step
  <2>1. Shape' /\ Saves(i, done)
    BY <1>6, UpdateInstanceLockOK DEF Saves
  <2> QED BY <2>1 DEF Step
<1>7. ASSUME NEW i \in DOMAIN maps, UnloadMap(i) PROVE Shape' /\ Step
  BY <1>7, UnloadOK DEF Step
<1>8. CASE QuietStep
  BY <1>8, QuietStepOK DEF Step
<1>9. CASE ScheduledReset
  BY <1>9, ScheduledResetOK DEF Step
<1>10. CASE Stop
  <2>1. Shape'
    BY <1>10, StopOK
  <2>2. DiedWith({})
    <3>1. DbOK(db)
      BY ShapeParts
    <3>2. db = EraseInstances(db, {})
      <4>1. Restrict(db.instance, DOMAIN db.instance \ {}) = db.instance
        BY <3>1 DEF Restrict, DbOK, IsMap
      <4>2. EraseInstances(db, {}) = [db EXCEPT !.instance = db.instance]
        BY <4>1 DEF EraseInstances
      <4> QED BY <3>1, <4>2 DEF DbOK
    <3> QED BY <1>10, <3>2, StopOK DEF DiedWith
  <2> QED BY <2>1, <2>2 DEF Step
<1>11. CASE Restart
  BY <1>11, RestartOK DEF Step
<1>12. {} \in SUBSET Encounters /\ \A e \in Encounters : {e} \in SUBSET Encounters
  OBVIOUS
<1> QED
  BY <1>1, <1>2, <1>3, <1>4, <1>5, <1>6, <1>7, <1>8, <1>9, <1>10, <1>11, <1>12, Zenon
  DEF Next, QuietStep

\* Stuttering.
LEMMA ShapeStep == Shape /\ [Next]_vars => Shape'
<1>1. ASSUME Shape, UNCHANGED vars PROVE Shape'
  <2>1. UNCHANGED <<up, ids, mgr, maps, at, pending, recent, grouped, groupRecent, db, kind,
                    entries, events, defect>>
    BY <1>1 DEF vars, memory, bounds
  <2>2. Scalars' /\ Gone'
    BY <1>1, <2>1 DEF Shape, Scalars, Gone
  <2>3. Running => LocksKnown(mgr, ids) /\ MapsKnown(maps, ids)
                   /\ RecentKnown(recent, groupRecent, ids) /\ RowsKnown(db, ids)
    BY <1>1 DEF Shape, IdsKnown
  <2> QED BY <1>1, <2>1, <2>2, <2>3, ShapeNext DEF Shape, Running
<1> QED BY <1>1, StepOK

\* The invariant holds in every reachable state, those with a defect too.
THEOREM ShapeHolds == Spec => []Shape
BY InitShape, ShapeStep, PTL DEF Spec

\* Every variable has its type in every reachable state: addresses, ids, keys and
\* rows stay in their ranges through entering, saving, deleting, dying and loading.
THEOREM TypeCorrect == Spec => []TypeOK
<1>1. Shape => TypeOK
  BY ShapeImplies
<1> QED BY <1>1, ShapeHolds, PTL

\* The hint of MapManager's allocator stays inside the bitmap and below every
\* free id (the ASSERT of GenerateInstanceId).
THEOREM AllocatorIsSound == Spec => []AllocatorSound
<1>1. Shape => AllocatorSound
  BY ShapeImplies
<1> QED BY <1>1, ShapeHolds, PTL
-----------------------------------------------------------------------------
(* The invariant of the states without a defect.                            *)

\* x is the shared data of the instance id: what it says is what the table says.
DataOf(m, inst, id, x) ==
    /\ id \in DOMAIN m.byId /\ m.byId[id] = x /\ x \in DOMAIN m.shared
    /\ m.shared[x].instanceId \in {0, id}
    /\ m.shared[x].instanceId = 0 => m.shared[x].mask = {}
    /\ m.shared[x].instanceId = id => id \in DOMAIN inst /\ inst[id] = m.shared[x].mask

BoundLock(m, k, l) == HasLock(m, k, l) /\ IsInstanceIdBound(k[2])

\* Locks bound to an id share the data of that id, which is ahead of them.
DataSound(m, inst) ==
    \A k \in Keys, l \in DOMAIN m.locks : BoundLock(m, k, l) =>
        /\ DataOf(m, inst, m.locks[l].id, m.locks[l].shared)
        /\ m.locks[l].mask \subseteq m.shared[m.locks[l].shared].mask

\* ... and data is shared by the locks of one id only.
OneId(m) ==
    \A k, j \in Keys, l, z \in DOMAIN m.locks :
        BoundLock(m, k, l) /\ BoundLock(m, j, z) /\ m.locks[l].shared = m.locks[z].shared
        => m.locks[l].id = m.locks[z].id

\* A map, a lock or a row of the dungeon d has the id.
Used(is, m, rows, d, id) ==
    \/ <<d, id>> \in DOMAIN is
    \/ \E k \in Keys, l \in DOMAIN m.locks : HasLock(m, k, l) /\ k[2] = d /\ m.locks[l].id = id
    \/ \E k \in DOMAIN rows : k[2] = d /\ rows[k].id = id

Distinct(is, m, rows) ==
    \A d, e \in Dungeons, id \in Ids : Used(is, m, rows, d, id) /\ Used(is, m, rows, e, id) => d = e

Taken(a, is, m, rows) ==
    \A d \in Dungeons, id \in Ids : Used(is, m, rows, d, id) => id \notin a.free

\* The lock of a map that is not dangling belongs to a key of the dungeon, and
\* where ids bind it has the id of the map.
MapLocks(is, m) ==
    \A i \in DOMAIN is : is[i].lock \in DOMAIN m.locks =>
        \E k \in Keys : k[2] = i[1] /\ HasLock(m, k, is[i].lock)
MapsBound(is, m) ==
    \A i \in DOMAIN is : is[i].lock \in DOMAIN m.locks /\ IsInstanceIdBound(i[1]) =>
        m.locks[is[i].lock].id = i[2]

\* A row of a lock bound to an id says what the lock says.
Mirror(m, rows) ==
    \A k \in DOMAIN rows : IsInstanceIdBound(k[2]) =>
        k \in DOMAIN m.perm /\ SameRow(rows[k], m.locks[m.perm[k]])

Ledger(a, is, m, rows) ==
    /\ HintFree(a) /\ Distinct(is, m, rows) /\ Taken(a, is, m, rows)
    /\ OneId(m) /\ MapLocks(is, m) /\ MapsBound(is, m) /\ Mirror(m, rows)

\* The tables alone: what the next start relies on.
RowActive(row) == ~row.expired \/ row.extended
Tables(rows, inst) ==
    /\ \A k, j \in DOMAIN rows : rows[k].id = rows[j].id => k[2] = j[2]
    /\ \A k \in DOMAIN rows : IsInstanceIdBound(k[2]) /\ rows[k].id \in DOMAIN inst =>
          rows[k].mask \subseteq inst[rows[k].id]
    /\ \A k \in DOMAIN rows : IsInstanceIdBound(k[2]) /\ rows[k].mask # {} /\ RowActive(rows[k]) =>
          rows[k].id \in DOMAIN inst

Good ==
    defect = "none" =>
        /\ DataSound(mgr, db.instance) /\ Tables(db.lock, db.instance)
        /\ Running => Ledger(ids, maps, mgr, db.lock)

\* The invariant of the next state, from facts about the new values.
LEMMA GoodNext ==
    ASSUME kind' = kind,
           defect' = "none" => /\ DataSound(mgr', db'.instance) /\ Tables(db'.lock, db'.instance)
                               /\ up' = "running" => Ledger(ids', maps', mgr', db'.lock)
    PROVE  Good'
<1>0. \A d : IsInstanceIdBound(d)' <=> IsInstanceIdBound(d)
  BY DEF IsInstanceIdBound, IsFlexLocking, IsUsingEncounterLocks
<1>1. DataSound(mgr', db'.instance) => DataSound(mgr, db.instance)'
  BY <1>0 DEF DataSound, BoundLock, DataOf, HasLock
<1>2. Tables(db'.lock, db'.instance) => Tables(db.lock, db.instance)'
  BY <1>0 DEF Tables, RowActive
<1>3. Ledger(ids', maps', mgr', db'.lock) => Ledger(ids, maps, mgr, db.lock)'
  <2>1. Distinct(maps', mgr', db'.lock) => Distinct(maps, mgr, db.lock)'
    BY DEF Distinct, Used, HasLock
  <2>2. Taken(ids', maps', mgr', db'.lock) => Taken(ids, maps, mgr, db.lock)'
    BY DEF Taken, Used, HasLock
  <2>3. OneId(mgr') => OneId(mgr)'
    BY <1>0 DEF OneId, BoundLock, HasLock
  <2>4. MapLocks(maps', mgr') => MapLocks(maps, mgr)'
    BY DEF MapLocks, HasLock
  <2>5. MapsBound(maps', mgr') => MapsBound(maps, mgr)'
    BY <1>0 DEF MapsBound
  <2>6. Mirror(mgr', db'.lock) => Mirror(mgr, db.lock)'
    BY <1>0 DEF Mirror, SameRow
  <2>7. HintFree(ids') => HintFree(ids)'
    BY DEF HintFree
  <2> QED BY <2>1, <2>2, <2>3, <2>4, <2>5, <2>6, <2>7 DEF Ledger
<1> QED BY <1>1, <1>2, <1>3 DEF Good, Running

\* While the server runs the tables follow from what is in memory.
LEMMA TablesFollow ==
    ASSUME NEW is, NEW m, NEW rows, NEW inst, MgrOK(m), IsMap(rows, Keys, RowType),
           DataSound(m, inst), Mirror(m, rows), Distinct(is, m, rows)
    PROVE  Tables(rows, inst)
<1>0. /\ \A k \in DOMAIN rows : k \in Keys /\ k[2] \in Dungeons /\ rows[k].id \in Ids
      /\ \A k \in DOMAIN m.perm : m.perm[k] \in DOMAIN m.locks
  BY DEF MgrOK, IsMap, RowType, Keys
<1>1. \A k, j \in DOMAIN rows : rows[k].id = rows[j].id => k[2] = j[2]
  <2> SUFFICES ASSUME NEW k \in DOMAIN rows, NEW j \in DOMAIN rows, rows[k].id = rows[j].id
               PROVE  k[2] = j[2]
    OBVIOUS
  <2>1. Used(is, m, rows, k[2], rows[k].id) /\ Used(is, m, rows, j[2], rows[k].id)
    BY DEF Used
  <2> QED BY <1>0, <2>1 DEF Distinct
<1>2. ASSUME NEW k \in DOMAIN rows, IsInstanceIdBound(k[2])
      PROVE  /\ rows[k].id \in DOMAIN inst => rows[k].mask \subseteq inst[rows[k].id]
             /\ rows[k].mask # {} => rows[k].id \in DOMAIN inst
  <2> DEFINE l == m.perm[k]
             x == m.locks[l].shared
             id == rows[k].id
  <2>1. k \in DOMAIN m.perm /\ l \in DOMAIN m.locks /\ id = m.locks[l].id /\ rows[k].mask = m.locks[l].mask
    BY <1>0, <1>2 DEF Mirror, SameRow
  <2>2. k \in Keys /\ BoundLock(m, k, l)
    BY <1>0, <1>2, <2>1 DEF BoundLock, HasLock
  <2>3. DataOf(m, inst, id, x) /\ rows[k].mask \subseteq m.shared[x].mask
    BY <2>1, <2>2 DEF DataSound
  <2> HIDE DEF id, x
  <2>4. \/ m.shared[x].mask = {}
        \/ id \in DOMAIN inst /\ inst[id] = m.shared[x].mask
    BY <2>3 DEF DataOf
  <2> QED BY <2>3, <2>4 DEF id
<1> QED BY <1>1, <1>2 DEF Tables

\* The manager n has the locks of m, up to their flags.
Alike(m, n) ==
    /\ DOMAIN n.locks = DOMAIN m.locks
    /\ n.shared = m.shared /\ n.perm = m.perm /\ n.temp = m.temp /\ n.byId = m.byId
    /\ \A l \in DOMAIN m.locks : /\ n.locks[l].id = m.locks[l].id /\ n.locks[l].mask = m.locks[l].mask
                                 /\ n.locks[l].shared = m.locks[l].shared

\* What the invariant says of the locks does not depend on their flags.
LEMMA AlikeKeeps ==
    ASSUME NEW m, NEW n, Alike(m, n)
    PROVE  /\ \A inst : DataSound(m, inst) => DataSound(n, inst)
           /\ OneId(m) => OneId(n)
           /\ \A is, rows, d, id : Used(is, n, rows, d, id) => Used(is, m, rows, d, id)
           /\ \A is : MapLocks(is, m) => MapLocks(is, n)
           /\ \A is : MapsBound(is, m) => MapsBound(is, n)
<1>1. \A k, l : HasLock(n, k, l) <=> HasLock(m, k, l)
  BY DEF Alike, HasLock
<1>2. \A inst : DataSound(m, inst) => DataSound(n, inst)
  BY <1>1, SMTT(30) DEF Alike, DataSound, BoundLock, DataOf
<1>3. OneId(m) => OneId(n)
  BY <1>1 DEF Alike, OneId, BoundLock
<1>4. \A is, rows, d, id : Used(is, n, rows, d, id) => Used(is, m, rows, d, id)
  BY <1>1 DEF Alike, Used
<1>5. \A is : MapLocks(is, m) => MapLocks(is, n)
  BY <1>1 DEF Alike, MapLocks
<1>6. \A is : MapsBound(is, m) => MapsBound(is, n)
  BY <1>1 DEF Alike, MapsBound
<1> QED BY <1>2, <1>3, <1>4, <1>5, <1>6

\* Nothing but the id of one more thing of the same instance, or a new id, comes
\* into use.
LEMMA UsesKeep ==
    ASSUME NEW a, NEW is, NEW m, NEW rows, NEW b, NEW js, NEW n, NEW new,
           Distinct(is, m, rows), Taken(a, is, m, rows),
           \A d, id : Used(js, n, new, d, id) => Used(is, m, rows, d, id),
           \A d \in Dungeons, id \in Ids : Used(js, n, new, d, id) /\ id \in b.free => id \in a.free
    PROVE  Distinct(js, n, new) /\ Taken(b, js, n, new)
BY DEF Distinct, Taken

\* ... or a new id that was free and is taken now.
LEMMA UsesGrow ==
    ASSUME NEW a, NEW is, NEW m, NEW rows, NEW b, NEW js, NEW n, NEW new, NEW e, NEW next,
           Distinct(is, m, rows), Taken(a, is, m, rows),
           \A d, id : Used(js, n, new, d, id) => Used(is, m, rows, d, id) \/ (d = e /\ id = next),
           next \in a.free, next \notin b.free,
           \A d \in Dungeons, id \in Ids : Used(is, m, rows, d, id) /\ id \in b.free => id \in a.free
    PROVE  Distinct(js, n, new) /\ Taken(b, js, n, new)
<1>1. \A d \in Dungeons, id \in Ids : Used(is, m, rows, d, id) => id # next
  BY DEF Taken
<1> QED BY <1>1 DEF Distinct, Taken
-----------------------------------------------------------------------------
(* The steps that are not Enter, UpdateInstanceLock or ConfirmPendingBind.  *)

\* Only the domain of the maps and their locks matter.
LEMMA SameMaps ==
    ASSUME NEW is, NEW js, DOMAIN js \subseteq DOMAIN is,
           \A i \in DOMAIN js : js[i].lock = is[i].lock
    PROVE  /\ \A m, rows, d, id : Used(js, m, rows, d, id) => Used(is, m, rows, d, id)
           /\ \A m : MapLocks(is, m) => MapLocks(js, m)
           /\ \A m : MapsBound(is, m) => MapsBound(js, m)
<1>1. \A m, rows, d, id : Used(js, m, rows, d, id) => Used(is, m, rows, d, id)
  BY DEF Used
<1>2. \A m : MapLocks(is, m) => MapLocks(js, m)
  BY DEF MapLocks
<1>3. \A m : MapsBound(is, m) => MapsBound(js, m)
  BY DEF MapsBound
<1> QED BY <1>1, <1>2, <1>3

\* Leaving, declining, resetting, grouping.
LEMMA QuietGood ==
    ASSUME Good, Quiet, Running
    PROVE  Good'
<1>1. /\ up' = up /\ kind' = kind /\ ids' = ids /\ mgr' = mgr /\ db' = db
      /\ defect' \in {defect, "dangling"} /\ DOMAIN maps' \subseteq DOMAIN maps
      /\ \A i \in DOMAIN maps' : maps'[i].lock = maps[i].lock
  BY DEF Quiet
<1> SUFFICES ASSUME defect' = "none"
             PROVE  /\ DataSound(mgr', db'.instance) /\ Tables(db'.lock, db'.instance)
                    /\ Ledger(ids', maps', mgr', db'.lock)
  BY <1>1, GoodNext
<1>2. DataSound(mgr, db.instance) /\ Tables(db.lock, db.instance) /\ Ledger(ids, maps, mgr, db.lock)
  BY <1>1 DEF Good
<1>3. Distinct(maps', mgr, db.lock) /\ Taken(ids, maps', mgr, db.lock)
  <2>1. \A d, id : Used(maps', mgr, db.lock, d, id) => Used(maps, mgr, db.lock, d, id)
    BY <1>1, SameMaps
  <2> QED BY <1>2, <2>1, UsesKeep DEF Ledger
<1>4. MapLocks(maps', mgr) /\ MapsBound(maps', mgr)
  BY <1>1, <1>2, SameMaps DEF Ledger
<1> QED BY <1>1, <1>2, <1>3, <1>4 DEF Ledger

\* Locks and their rows expire or are extended.
LEMMA ReflaggedGood ==
    ASSUME Shape, Shape', Good, Reflagged
    PROVE  Good'
<1>1. /\ Running /\ up' = up /\ kind' = kind /\ ids' = ids /\ defect' = defect
      /\ DOMAIN maps' \subseteq DOMAIN maps /\ \A i \in DOMAIN maps' : maps'[i].lock = maps[i].lock
      /\ db'.instance = db.instance /\ DOMAIN db'.lock = DOMAIN db.lock
      /\ \A k \in DOMAIN db.lock : db'.lock[k].id = db.lock[k].id
  BY DEF Reflagged
<1> SUFFICES ASSUME defect' = "none"
             PROVE  /\ DataSound(mgr', db'.instance) /\ Tables(db'.lock, db'.instance)
                    /\ Ledger(ids', maps', mgr', db'.lock)
  BY <1>1, GoodNext
<1>2. DataSound(mgr, db.instance) /\ Ledger(ids, maps, mgr, db.lock)
  BY <1>1 DEF Good
<1>3. Alike(mgr, mgr')
  BY DEF Reflagged, Touched, Alike
<1>4. /\ DataSound(mgr', db'.instance) /\ OneId(mgr') /\ MapLocks(maps, mgr') /\ MapsBound(maps, mgr')
      /\ \A is, rows, d, id : Used(is, mgr', rows, d, id) => Used(is, mgr, rows, d, id)
  BY <1>1, <1>2, <1>3, AlikeKeeps DEF Ledger
<1>5. MapLocks(maps', mgr') /\ MapsBound(maps', mgr')
  BY <1>1, <1>4, SameMaps
<1>6. \A d, id : Used(maps', mgr', db'.lock, d, id) => Used(maps, mgr, db.lock, d, id)
  <2>1. \A d, id : Used(maps', mgr', db'.lock, d, id) => Used(maps', mgr', db.lock, d, id)
    BY <1>1 DEF Used
  <2>2. \A d, id : Used(maps', mgr', db.lock, d, id) => Used(maps, mgr', db.lock, d, id)
    BY <1>1, SameMaps
  <2> QED BY <1>4, <2>1, <2>2
<1>7. Distinct(maps', mgr', db'.lock) /\ Taken(ids', maps', mgr', db'.lock)
  BY <1>1, <1>2, <1>6, UsesKeep DEF Ledger
<1>8. Mirror(mgr', db'.lock)
  <2>1. mgr'.perm = mgr.perm
    BY <1>3 DEF Alike
  <2>2. Mirror(mgr, db.lock)
    BY <1>2 DEF Ledger
  <2> QED BY <1>1, <2>1, <2>2 DEF Mirror, Reflagged
<1>9. IsMap(db'.lock, Keys, RowType) /\ MgrOK(mgr)' /\ MgrOK(mgr')
  <2>1. MgrOK(mgr) /\ Touched(mgr, mgr')
    BY ShapeParts DEF Reflagged
  <2>2. DbOK(db)' /\ MgrOK(mgr)'
    BY DEF Shape
  <2> QED BY <2>1, <2>2, TouchedOK DEF DbOK, IsMap
<1>10. Tables(db'.lock, db'.instance)
  BY <1>4, <1>7, <1>8, <1>9, TablesFollow
<1> QED BY <1>1, <1>2, <1>4, <1>5, <1>7, <1>8, <1>10 DEF Ledger

\* A map is unloaded: an id that is freed belonged to it alone.
LEMMA UnloadedGood ==
    ASSUME Shape, Good, NEW i \in DOMAIN maps, Unloaded(i)
    PROVE  Good'
<1>1. /\ Running /\ up' = up /\ kind' = kind /\ db' = db /\ defect' = defect
      /\ DOMAIN maps' = DOMAIN maps \ {i} /\ \A j \in DOMAIN maps' : maps'[j] = maps[j]
      /\ ids' = IF HasResetSchedule(i[1]) THEN ids ELSE FreeInstanceId(ids, i[2])
      /\ Flagged(mgr, mgr')
  BY DEF Unloaded
<1>2. /\ AllocOK(ids) /\ MgrOK(mgr) /\ MapsOK(maps, at) /\ DbOK(db) /\ MapsKnown(maps, ids)
  BY <1>1, ShapeParts
<1> SUFFICES ASSUME defect' = "none"
             PROVE  /\ DataSound(mgr', db'.instance) /\ Tables(db'.lock, db'.instance)
                    /\ Ledger(ids', maps', mgr', db'.lock)
  BY <1>1, GoodNext
<1>3. DataSound(mgr, db.instance) /\ Tables(db.lock, db.instance) /\ Ledger(ids, maps, mgr, db.lock)
  BY <1>1 DEF Good
<1>4. Alike(mgr, mgr')
  BY <1>1 DEF Flagged, Touched, Alike
<1>5. /\ DataSound(mgr', db'.instance) /\ OneId(mgr') /\ MapLocks(maps, mgr') /\ MapsBound(maps, mgr')
      /\ \A is, rows, d, id : Used(is, mgr', rows, d, id) => Used(is, mgr, rows, d, id)
  BY <1>1, <1>3, <1>4, AlikeKeeps DEF Ledger
<1>6. MapLocks(maps', mgr') /\ MapsBound(maps', mgr')
  BY <1>1, <1>5, SameMaps
<1>7. \A d, id : Used(maps', mgr', db.lock, d, id) => Used(maps, mgr, db.lock, d, id)
  <2>1. \A d, id : Used(maps', mgr', db.lock, d, id) => Used(maps, mgr', db.lock, d, id)
    BY <1>1, SameMaps
  <2> QED BY <1>5, <2>1
<1>8. i \in Dungeons \X Ids /\ i[1] \in Dungeons /\ i[2] \in Ids /\ Known(ids, i[2])
  BY <1>2 DEF MapsOK, IsMap, MapsKnown
<1>9. ~HasResetSchedule(i[1]) =>
         /\ HintFree(ids') /\ ids'.free = ids.free \cup {i[2]}
         /\ \A d \in Dungeons : ~Used(maps', mgr', db.lock, d, i[2])
  <2> SUFFICES ASSUME ~HasResetSchedule(i[1])
               PROVE  /\ HintFree(ids') /\ ids'.free = ids.free \cup {i[2]}
                      /\ \A d \in Dungeons : ~Used(maps', mgr', db.lock, d, i[2])
    OBVIOUS
  <2>1. i[2] \in 1..(ids.size - 1)
    BY <1>2, <1>8 DEF Known, AllocOK, HintSound, Allocators, Ids
  <2>2. HintFree(ids') /\ ids'.free = ids.free \cup {i[2]}
    BY <1>1, <1>2, <1>3, <2>1, FreeOK DEF Ledger
  <2>3. ASSUME NEW d \in Dungeons, Used(maps', mgr', db.lock, d, i[2]) PROVE FALSE
    <3>1. Used(maps, mgr, db.lock, d, i[2]) /\ Used(maps, mgr, db.lock, i[1], i[2])
      <4>1. i = <<i[1], i[2]>>
        BY <1>8
      <4> QED BY <1>7, <2>3, <4>1 DEF Used
    <3>2. d = i[1]
      BY <1>3, <1>8, <3>1 DEF Ledger, Distinct
    <3>3. <<d, i[2]>> \notin DOMAIN maps'
      BY <1>1, <1>8, <3>2
    <3>4. \A k \in Keys, l \in DOMAIN mgr'.locks : HasLock(mgr', k, l) => HasResetSchedule(k[2])
      BY <1>2, <1>4 DEF Alike, HasLock, MgrOK, LocksScheduled
    <3>5. \A k \in DOMAIN db.lock : HasResetSchedule(k[2])
      BY <1>2 DEF DbOK
    <3> QED BY <2>3, <3>2, <3>3, <3>4, <3>5 DEF Used
  <2> QED BY <2>2, <2>3
<1>10. HintFree(ids') /\ Distinct(maps', mgr', db.lock) /\ Taken(ids', maps', mgr', db.lock)
  <2>1. \A d \in Dungeons, id \in Ids : Used(maps', mgr', db.lock, d, id) /\ id \in ids'.free => id \in ids.free
    BY <1>1, <1>9
  <2>2. HintFree(ids')
    BY <1>1, <1>3, <1>9 DEF Ledger
  <2> QED BY <1>3, <1>7, <2>1, <2>2, UsesKeep DEF Ledger
<1>11. Mirror(mgr', db.lock)
  <2>1. \A k \in DOMAIN mgr.perm : mgr.perm[k] \in DOMAIN mgr.locks
    BY <1>2 DEF MgrOK, IsMap
  <2> QED BY <1>1, <1>3, <2>1 DEF Ledger, Mirror, Flagged, Touched, SameRow
<1> QED BY <1>1, <1>3, <1>5, <1>6, <1>10, <1>11 DEF Ledger

\* The process ends; rows of instance that were deleted on their own belonged to
\* locks that do not count any more.
LEMMA DiedGood ==
    ASSUME Shape, Good, NEW erased, DiedWith(erased),
           defect = "none" =>
              \A k \in DOMAIN db.lock : IsInstanceIdBound(k[2]) /\ db.lock[k].id \in erased =>
                                           ~RowActive(db.lock[k])
    PROVE  Good'
<1>1. /\ up' # "running" /\ mgr' = EmptyMgr /\ kind' = kind /\ defect' = defect
      /\ db' = EraseInstances(db, erased)
  BY DEF DiedWith
<1> SUFFICES ASSUME defect' = "none"
             PROVE  DataSound(mgr', db'.instance) /\ Tables(db'.lock, db'.instance)
  BY <1>1, GoodNext
<1>2. Tables(db.lock, db.instance)
  BY <1>1 DEF Good
<1>3. /\ db'.lock = db.lock /\ DOMAIN db'.instance = DOMAIN db.instance \ erased
      /\ \A id \in DOMAIN db'.instance : db'.instance[id] = db.instance[id]
  <2>1. DbOK(db)
    BY ShapeParts
  <2> QED BY <1>1, <2>1, EraseOK
<1>4. Tables(db'.lock, db'.instance)
  <2>1. \A k \in DOMAIN db.lock : IsInstanceIdBound(k[2]) /\ db.lock[k].id \in DOMAIN db'.instance =>
          db.lock[k].mask \subseteq db'.instance[db.lock[k].id]
    BY <1>2, <1>3 DEF Tables
  <2>2. \A k \in DOMAIN db.lock : IsInstanceIdBound(k[2]) /\ db.lock[k].mask # {} /\ RowActive(db.lock[k]) =>
          db.lock[k].id \in DOMAIN db'.instance
    BY <1>1, <1>2, <1>3 DEF Tables
  <2> QED BY <1>2, <1>3, <2>1, <2>2 DEF Tables
<1>5. DataSound(mgr', db'.instance)
  BY <1>1, EmptyMgrOK DEF DataSound
<1> QED BY <1>4, <1>5

\* The next start: every row that is kept has its lock and its data.
LEMMA RestartedGood ==
    ASSUME Shape, Shape', Good, Restarted
    PROVE  Good'
<1>1. /\ up' = "running" /\ kind' = kind /\ ids' = Load.ids /\ mgr' = Load.mgr /\ maps' = Empty
      /\ defect' = (IF HintFree(Load.ids) THEN defect ELSE "unordered")
      /\ db'.instance = db.instance
      /\ DOMAIN db'.lock = {k \in DOMAIN db.lock : db.lock[k].id \notin Load.missing}
      /\ \A k \in DOMAIN db'.lock : db'.lock[k] = db.lock[k]
  BY DEF Restarted
<1> SUFFICES ASSUME defect' = "none"
             PROVE  /\ DataSound(mgr', db'.instance) /\ Tables(db'.lock, db'.instance)
                    /\ Ledger(ids', maps', mgr', db'.lock)
  BY <1>1, GoodNext
<1>2. Tables(db.lock, db.instance) /\ HintFree(ids')
  BY <1>1 DEF Good
<1>3. DbOK(db) /\ DOMAIN db.lock \subseteq Keys
  BY ShapeParts DEF DbOK, IsMap
<1> DEFINE m == mgr'
<1>4. LoadInv(Len(RowOrder), Load)
  BY <1>3, LoadOK
<1>5. /\ LoadLocks(m) /\ LoadData(m) /\ LoadIds(Len(RowOrder), Load) /\ LoadRows(Len(RowOrder), Load)
  BY <1>1, <1>4 DEF LoadInv
<1> HIDE DEF m
<1>6. /\ MgrOK(m) /\ DOMAIN m.temp = {}
      /\ \A k \in DOMAIN m.perm : k \in DOMAIN db.lock /\ SameRow(db.lock[k], m.locks[m.perm[k]])
  BY <1>5 DEF LoadLocks
<1>7. \A k, l : HasLock(m, k, l) => k \in DOMAIN m.perm /\ l = m.perm[k]
  BY <1>6 DEF HasLock
<1>8. ASSUME NEW k \in Keys, NEW l \in DOMAIN m.locks, BoundLock(m, k, l)
      PROVE  /\ DataOf(m, db.instance, m.locks[l].id, m.locks[l].shared)
             /\ m.locks[l].mask \subseteq m.shared[m.locks[l].shared].mask
             /\ m.shared[m.locks[l].shared].instanceId = m.locks[l].id
  <2> DEFINE id == db.lock[k].id
             x == m.locks[l].shared
  <2>1. k \in DOMAIN m.perm /\ l = m.perm[k] /\ k \in DOMAIN db.lock /\ IsInstanceIdBound(k[2])
        /\ m.locks[l].id = id /\ m.locks[l].mask = db.lock[k].mask
    BY <1>6, <1>7, <1>8 DEF BoundLock, SameRow
  <2>2. /\ id \in DOMAIN m.byId /\ x = m.byId[id] /\ x \in DOMAIN m.shared /\ id \in DOMAIN db.instance
        /\ m.shared[x].instanceId = id /\ m.shared[x].mask = db.instance[id]
    BY <1>5, <2>1 DEF LoadData
  <2>3. db.lock[k].mask \subseteq db.instance[id]
    BY <1>2, <2>1, <2>2 DEF Tables
  <2>4. id # 0
    BY <1>3, <2>1 DEF DbOK, IsMap, RowType, Ids
  <2> HIDE DEF id, x
  <2>5. DataOf(m, db.instance, id, x)
    BY <2>2, <2>4 DEF DataOf
  <2> QED BY <2>1, <2>2, <2>3, <2>5 DEF x
<1>9. DataSound(m, db'.instance) /\ OneId(m)
  <2>1. DataSound(m, db.instance)
    BY <1>8 DEF DataSound
  <2>2. OneId(m)
    BY <1>8 DEF OneId
  <2> QED BY <1>1, <2>1, <2>2
<1>10. DOMAIN maps' = {}
  BY <1>1, EmptyMap
<1>11. MapLocks(maps', m) /\ MapsBound(maps', m)
  BY <1>10 DEF MapLocks, MapsBound
<1>12. Mirror(m, db'.lock)
  <2> SUFFICES ASSUME NEW k \in DOMAIN db'.lock PROVE k \in DOMAIN m.perm /\ SameRow(db'.lock[k], m.locks[m.perm[k]])
    BY DEF Mirror
  <2>1. k \in DOMAIN db.lock /\ db.lock[k].id \notin Load.missing /\ db'.lock[k] = db.lock[k] /\ k \in Keys
    BY <1>1, <1>3
  <2>2. PICK j \in 1..Len(RowOrder) : RowOrder[j] = k
    BY <2>1, InstanceLocksAssumption DEF ToSet, Keys
  <2>3. k \in DOMAIN m.perm
    BY <1>1, <1>5, <2>1, <2>2 DEF LoadRows, m
  <2> QED BY <1>6, <2>1, <2>3
<1>13. ASSUME NEW d \in Dungeons, NEW id \in Ids, Used(maps', m, db'.lock, d, id)
       PROVE  \E k \in DOMAIN db.lock : k[2] = d /\ db.lock[k].id = id
  <2>1. <<d, id>> \notin DOMAIN maps'
    BY <1>10
  <2>2. \A k \in Keys, l \in DOMAIN m.locks : HasLock(m, k, l) => k \in DOMAIN db.lock /\ m.locks[l].id = db.lock[k].id
    BY <1>6, <1>7 DEF SameRow
  <2>3. \A k \in DOMAIN db'.lock : k \in DOMAIN db.lock /\ db'.lock[k] = db.lock[k]
    BY <1>1
  <2> QED BY <1>13, <2>1, <2>2, <2>3 DEF Used
<1>14. Distinct(maps', m, db'.lock)
  BY <1>2, <1>13 DEF Distinct, Tables
<1>15. Taken(ids', maps', m, db'.lock)
  <2> SUFFICES ASSUME NEW d \in Dungeons, NEW id \in Ids, Used(maps', m, db'.lock, d, id)
               PROVE  id \notin ids'.free
    BY DEF Taken
  <2>1. PICK k \in DOMAIN db.lock : k[2] = d /\ db.lock[k].id = id
    BY <1>13
  <2>2. PICK j \in 1..Len(RowOrder) : RowOrder[j] = k
    BY <1>3, <2>1, InstanceLocksAssumption DEF ToSet, Keys
  <2> QED BY <1>1, <1>5, <2>1, <2>2 DEF LoadIds
<1>16. Tables(db'.lock, db'.instance)
  BY <1>1, <1>2 DEF Tables
<1> QED BY <1>2, <1>9, <1>11, <1>12, <1>14, <1>15, <1>16 DEF Ledger, m

\* A new server.
LEMMA InitGood == Init => Good
<1> SUFFICES ASSUME Init PROVE Good
  OBVIOUS
<1>1. /\ ids = InitInstanceIds(0) /\ mgr = EmptyMgr /\ maps = Empty
      /\ db.lock = Empty /\ db.instance = Empty
  BY DEF Init
<1>2. HintFree(ids)
  BY <1>1, InitIdsOK, OverflowIdAssumption
<1>3. /\ DOMAIN maps = {} /\ DOMAIN db.lock = {} /\ DOMAIN mgr.locks = {}
  BY <1>1, EmptyMap, EmptyMgrOK
<1>4. \A d, id : ~Used(maps, mgr, db.lock, d, id)
  BY <1>3 DEF Used
<1>5. Distinct(maps, mgr, db.lock) /\ Taken(ids, maps, mgr, db.lock)
  BY <1>4 DEF Distinct, Taken
<1>6. OneId(mgr) /\ DataSound(mgr, db.instance) /\ MapLocks(maps, mgr) /\ MapsBound(maps, mgr)
      /\ Mirror(mgr, db.lock) /\ Tables(db.lock, db.instance)
  BY <1>3 DEF OneId, DataSound, MapLocks, MapsBound, Mirror, Tables
<1> QED BY <1>2, <1>5, <1>6 DEF Good, Ledger
-----------------------------------------------------------------------------
(* Entering.                                                                *)

\* A free id is nobody's, and generating it leaves it taken.
LEMMA NextIsFree ==
    ASSUME Shape, Running, Ledger(ids, maps, mgr, db.lock)
    PROVE  LET b == GenerateInstanceId(ids) IN
           /\ ids.next \in Ids /\ ids.next \in ids.free
           /\ \A d \in Dungeons : ~Used(maps, mgr, db.lock, d, ids.next)
           /\ HintFree(b)
           /\ ids.next # OverflowId => ids.next \notin b.free
           /\ \A d \in Dungeons, id \in Ids :
                 Used(maps, mgr, db.lock, d, id) /\ id \in b.free => id \in ids.free
<1> DEFINE b == GenerateInstanceId(ids)
<1>1. /\ AllocOK(ids) /\ LocksKnown(mgr, ids) /\ MapsKnown(maps, ids) /\ RowsKnown(db, ids)
  BY ShapeParts
<1>2. /\ HintFree(b) /\ ids.next \in Ids /\ ids.size \in Nat
      /\ ids.next # OverflowId => ids.next \notin b.free
      /\ b.free \subseteq ids.free \cup {ids.size}
  BY <1>1, GenerateOK DEF Ledger
<1> HIDE DEF b
<1>3. ids.next \in ids.free
  BY DEF Ledger, HintFree
<1>4. \A d \in Dungeons : ~Used(maps, mgr, db.lock, d, ids.next)
  BY <1>2, <1>3 DEF Ledger, Taken
<1>5. \A d \in Dungeons, id \in Ids : Used(maps, mgr, db.lock, d, id) => id # ids.size
  <2> SUFFICES ASSUME NEW d \in Dungeons, NEW id \in Ids, Used(maps, mgr, db.lock, d, id) PROVE id # ids.size
    OBVIOUS
  <2>1. id < ids.size
    BY <1>1 DEF Used, LocksKnown, MapsKnown, RowsKnown, Known
  <2> QED BY <1>2, <2>1 DEF Ids
<1> QED BY <1>2, <1>3, <1>4, <1>5 DEF b

\* What CreateMap leaves behind: sound locks, of which the one for the map has
\* the id of the map, and one more use of that id.
Prepared(c, d) ==
    LET i == <<d, c.id>> IN
    /\ DataSound(c.mgr, db.instance)
    /\ OneId(c.mgr) /\ MapLocks(maps, c.mgr) /\ MapsBound(maps, c.mgr) /\ Mirror(c.mgr, db.lock)
    /\ c.lock # NoLock => /\ c.mgr.locks[c.lock].id = c.id
                          /\ \E k \in Keys : k[2] = d /\ HasLock(c.mgr, k, c.lock)
    /\ \A e, id : Used(maps, c.mgr, db.lock, e, id) =>
                     Used(maps, mgr, db.lock, e, id) \/ (e = d /\ id = c.id)
    /\ \/ /\ c.ids = ids
          /\ Used(maps, mgr, db.lock, d, c.id)
       \/ /\ c.ids = GenerateInstanceId(ids) /\ c.id = ids.next /\ c.generated = {ids.next}

\* No lock is made or renamed.
LEMMA FoundPrepared ==
    ASSUME Shape, Running, DataSound(mgr, db.instance), Ledger(ids, maps, mgr, db.lock),
           NEW c, NEW k \in Keys, NEW d \in Dungeons, k[2] = d,
           \/ UsesFound(c, k, d)
           \/ NeedsNoLock(c, k, d) /\ (c.generated = {} => <<d, c.id>> \in DOMAIN maps)
    PROVE  Prepared(c, d)
<1>1. c.mgr = mgr
  BY DEF UsesFound, NeedsNoLock
<1>2. MgrOK(mgr) /\ k = <<k[1], d>>
  BY ShapeParts DEF Keys
<1>3. c.lock # NoLock => /\ UsesFound(c, k, d) /\ mgr.locks[c.lock].id = c.id
                         /\ HasLock(mgr, k, c.lock) /\ c.lock \in DOMAIN mgr.locks
  BY <1>2, FindActiveIs DEF UsesFound, NeedsNoLock
<1>4. \/ c.ids = ids /\ Used(maps, mgr, db.lock, d, c.id)
      \/ c.ids = GenerateInstanceId(ids) /\ c.id = ids.next /\ c.generated = {ids.next}
  <2>1. CASE UsesFound(c, k, d)
    <3>1. c.lock # NoLock /\ c.ids = ids
      BY <2>1 DEF UsesFound
    <3> QED BY <1>3, <3>1 DEF Used
  <2>2. CASE NeedsNoLock(c, k, d) /\ (c.generated = {} => <<d, c.id>> \in DOMAIN maps)
    BY <2>2 DEF NeedsNoLock, Used
  <2> QED BY <2>1, <2>2
<1> QED BY <1>1, <1>3, <1>4 DEF Prepared, Ledger

\* The lock of an instance whose id is used by another lock gets a new id.
LEMMA RenamedPrepared ==
    ASSUME Shape, Running, DataSound(mgr, db.instance), Ledger(ids, maps, mgr, db.lock),
           NEW c, NEW k \in Keys, NEW d \in Dungeons, k[2] = d, RenamesFound(c, k, d)
    PROVE  Prepared(c, d)
<1> DEFINE n == c.mgr
           l == c.lock
<1>1. MgrOK(mgr) /\ k = <<k[1], d>> /\ OneOwner(mgr)
  BY ShapeParts DEF Keys, MgrOK
<1>2. HasLock(mgr, k, l) /\ l \in DOMAIN mgr.locks /\ ~IsInstanceIdBound(k[2])
  <2>1. LET z == FindActiveInstanceLock(mgr, k[1], d, FALSE) IN
        z # NoLock => HasLock(mgr, <<k[1], d>>, z) /\ z \in DOMAIN mgr.locks
    BY <1>1, FindActiveIs
  <2>2. /\ l = FindActiveInstanceLock(mgr, k[1], d, FALSE) /\ l # NoLock
        /\ ~IsInstanceIdBound(d)
    BY DEF RenamesFound
  <2> HIDE DEF l
  <2> QED BY <1>1, <2>1, <2>2
<1>3. /\ DOMAIN n.locks = DOMAIN mgr.locks /\ n.locks[l].id = c.id
      /\ n.shared = mgr.shared /\ n.perm = mgr.perm /\ n.temp = mgr.temp /\ n.byId = mgr.byId
      /\ \A z \in DOMAIN mgr.locks : z # l => n.locks[z] = mgr.locks[z]
      /\ c.id = ids.next /\ c.ids = GenerateInstanceId(ids) /\ c.generated = {ids.next}
  BY DEF RenamesFound, Renamed
<1> HIDE DEF n, l
<1>4. \A j, z : HasLock(n, j, z) <=> HasLock(mgr, j, z)
  BY <1>3 DEF HasLock
<1>5. \A j : HasLock(mgr, j, l) => j = k
  BY <1>1, <1>2 DEF HasLock, OneOwner
<1>6. \A j, z : BoundLock(n, j, z) => BoundLock(mgr, j, z) /\ z # l
  BY <1>2, <1>4, <1>5 DEF BoundLock
<1>7. DataSound(n, db.instance)
  <2> SUFFICES ASSUME NEW j \in Keys, NEW z \in DOMAIN n.locks, BoundLock(n, j, z)
               PROVE  /\ DataOf(n, db.instance, n.locks[z].id, n.locks[z].shared)
                      /\ n.locks[z].mask \subseteq n.shared[n.locks[z].shared].mask
    BY DEF DataSound
  <2>1. BoundLock(mgr, j, z) /\ n.locks[z] = mgr.locks[z] /\ z \in DOMAIN mgr.locks
    BY <1>3, <1>6
  <2>2. /\ DataOf(mgr, db.instance, mgr.locks[z].id, mgr.locks[z].shared)
        /\ mgr.locks[z].mask \subseteq mgr.shared[mgr.locks[z].shared].mask
    BY <2>1 DEF DataSound
  <2> QED BY <1>3, <2>1, <2>2 DEF DataOf
<1>8. OneId(n)
  BY <1>3, <1>6 DEF OneId, Ledger
<1>9. MapLocks(maps, n)
  BY <1>3, <1>4 DEF MapLocks, Ledger
<1>10. MapsBound(maps, n)
  <2> SUFFICES ASSUME NEW i \in DOMAIN maps, maps[i].lock \in DOMAIN n.locks, IsInstanceIdBound(i[1])
               PROVE  n.locks[maps[i].lock].id = i[2]
    BY DEF MapsBound
  <2>1. maps[i].lock # l
    BY <1>2, <1>3, <1>5 DEF MapLocks, Ledger
  <2> QED BY <1>3, <2>1 DEF MapsBound, Ledger
<1>11. Mirror(n, db.lock)
  <2> SUFFICES ASSUME NEW j \in DOMAIN db.lock, IsInstanceIdBound(j[2])
               PROVE  j \in DOMAIN n.perm /\ SameRow(db.lock[j], n.locks[n.perm[j]])
    BY DEF Mirror
  <2>1. j \in DOMAIN mgr.perm /\ SameRow(db.lock[j], mgr.locks[mgr.perm[j]])
    BY DEF Mirror, Ledger
  <2>2. mgr.perm[j] \in DOMAIN mgr.locks /\ mgr.perm[j] # l
    BY <1>1, <1>2, <1>5, <2>1 DEF HasLock, MgrOK, IsMap
  <2> QED BY <1>3, <2>1, <2>2
<1>12. \A e, id : Used(maps, n, db.lock, e, id) => Used(maps, mgr, db.lock, e, id) \/ (e = d /\ id = c.id)
  BY <1>3, <1>4, <1>5 DEF Used
<1>13. \E j \in Keys : j[2] = d /\ HasLock(n, j, l)
  BY <1>2, <1>4
<1> QED BY <1>3, <1>7, <1>8, <1>9, <1>10, <1>11, <1>12, <1>13 DEF Prepared, n, l

\* A temporary lock is made, with data of its own.
LEMMA MadePrepared ==
    ASSUME Shape, Running, DataSound(mgr, db.instance), Ledger(ids, maps, mgr, db.lock),
           NEW c, NEW k \in Keys, NEW d \in Dungeons, k[2] = d, MakesLock(c, k, d)
    PROVE  Prepared(c, d)
<1> DEFINE n == c.mgr
           l == c.lock
           id == c.id
<1>0. k = <<k[1], d>>
  BY DEF Keys
<1>1. /\ MgrOK(mgr) /\ OneOwner(mgr) /\ DbOK(db)
      /\ \A j \in DOMAIN mgr.perm : mgr.perm[j] \in DOMAIN mgr.locks
      /\ \A j \in DOMAIN mgr.temp : mgr.temp[j] \in DOMAIN mgr.locks
  BY ShapeParts DEF MgrOK, IsMap
<1>2. /\ ids.next \in Ids /\ \A e \in Dungeons : ~Used(maps, mgr, db.lock, e, ids.next)
  BY NextIsFree
<1>3. id = ids.next /\ c.ids = GenerateInstanceId(ids) /\ c.generated = {ids.next}
  <2>1. <<d, ids.next>> \notin DOMAIN maps
    BY <1>2 DEF Used
  <2> QED BY <2>1 DEF MakesLock
<1>4. NewTemporary(n, l, k, id) /\ HasResetSchedule(k[2]) /\ k \notin DOMAIN mgr.temp
  <2>1. FindActiveInstanceLock(mgr, k[1], d, FALSE) = NoLock => <<k[1], d>> \notin DOMAIN mgr.temp
    BY <1>1, FindActiveIs
  <2> QED BY <1>0, <2>1 DEF MakesLock
<1> HIDE DEF n, l, id
<1>5. /\ DOMAIN n.locks = DOMAIN mgr.locks \cup {l}
      /\ \A z \in DOMAIN mgr.locks : n.locks[z] = mgr.locks[z]
      /\ DOMAIN n.temp = DOMAIN mgr.temp \cup {k} /\ n.temp[k] = l
      /\ \A j \in DOMAIN mgr.temp : n.temp[j] = mgr.temp[j]
  <2>1. id \in Ids
    BY <1>2, <1>3
  <2>2. MgrOK(mgr)
    BY <1>1
  <2>3. NewTemporary(n, l, k, id) /\ HasResetSchedule(k[2]) /\ k \notin DOMAIN mgr.temp
    BY <1>4
  <2>4. DOMAIN n.locks = DOMAIN mgr.locks \cup {l}
    BY <2>1, <2>2, <2>3, NewTemporaryOK
  <2>5. \A z \in DOMAIN mgr.locks : n.locks[z] = mgr.locks[z]
    BY <2>1, <2>2, <2>3, NewTemporaryOK
  <2>6. DOMAIN n.temp = DOMAIN mgr.temp \cup {k} /\ n.temp[k] = l
    BY <2>3 DEF NewTemporary, Put
  <2>7. \A j \in DOMAIN mgr.temp : n.temp[j] = mgr.temp[j]
    BY <2>1, <2>2, <2>3, NewTemporaryOK
  <2> QED BY <2>4, <2>5, <2>6, <2>7
<1>6. /\ l \notin DOMAIN mgr.locks /\ l \notin DOMAIN mgr.shared
      /\ \A i \in DOMAIN maps : maps[i].lock # l
      /\ n.locks[l].id = id /\ n.locks[l].mask = {} /\ n.perm = mgr.perm
      /\ n.locks[l].shared = (IF IsInstanceIdBound(k[2]) THEN l ELSE NoLock)
      /\ n.shared = IF IsInstanceIdBound(k[2]) THEN Put(mgr.shared, l, [instanceId |-> 0, mask |-> {}])
                    ELSE mgr.shared
      /\ n.byId = IF IsInstanceIdBound(k[2]) THEN Put(mgr.byId, id, l) ELSE mgr.byId
  BY <1>4 DEF NewTemporary
<1>7. /\ \A x \in DOMAIN mgr.shared : x \in DOMAIN n.shared /\ n.shared[x] = mgr.shared[x]
      /\ \A e \in DOMAIN mgr.byId : e # id => e \in DOMAIN n.byId /\ n.byId[e] = mgr.byId[e]
      /\ IsInstanceIdBound(k[2]) => /\ l \in DOMAIN n.shared /\ n.shared[l] = [instanceId |-> 0, mask |-> {}]
                                    /\ id \in DOMAIN n.byId /\ n.byId[id] = l
  BY <1>6 DEF Put
<1>8. /\ \A j, z : HasLock(n, j, z) => (j = k /\ z = l) \/ HasLock(mgr, j, z)
      /\ \A j, z : HasLock(mgr, j, z) => HasLock(n, j, z) /\ z # l /\ z \in DOMAIN mgr.locks
      /\ HasLock(n, k, l)
  <2>1. n.perm = mgr.perm /\ k \notin DOMAIN mgr.temp
    BY <1>4, <1>6
  <2>2. ASSUME NEW j, NEW z, HasLock(n, j, z) PROVE (j = k /\ z = l) \/ HasLock(mgr, j, z)
    BY <1>5, <2>1, <2>2 DEF HasLock
  <2>3. ASSUME NEW j, NEW z, HasLock(mgr, j, z)
        PROVE  HasLock(n, j, z) /\ z # l /\ z \in DOMAIN mgr.locks
    <3>1. z \in DOMAIN mgr.locks
      BY <1>1, <2>3 DEF HasLock
    <3> QED BY <1>5, <1>6, <2>1, <2>3, <3>1 DEF HasLock
  <2>4. HasLock(n, k, l)
    BY <1>5 DEF HasLock
  <2> QED BY <2>2, <2>3, <2>4
<1>9. ASSUME NEW j \in Keys, NEW z \in DOMAIN mgr.locks, BoundLock(mgr, j, z)
      PROVE  /\ DataOf(n, db.instance, n.locks[z].id, n.locks[z].shared)
             /\ n.locks[z].mask \subseteq n.shared[n.locks[z].shared].mask
             /\ n.locks[z].shared # l
  <2> DEFINE x == mgr.locks[z].shared
             e == mgr.locks[z].id
  <2>1. DataOf(mgr, db.instance, e, x) /\ mgr.locks[z].mask \subseteq mgr.shared[x].mask
    BY <1>9 DEF DataSound
  <2>2. e # id
    <3>1. Used(maps, mgr, db.lock, j[2], e) /\ j[2] \in Dungeons
      BY <1>9 DEF Used, BoundLock, Keys
    <3> QED BY <1>2, <1>3, <3>1
  <2>3. n.locks[z] = mgr.locks[z]
    BY <1>5
  <2> HIDE DEF x, e
  <2>4. DataOf(n, db.instance, e, x) /\ x # l /\ n.shared[x] = mgr.shared[x]
    BY <1>6, <1>7, <2>1, <2>2 DEF DataOf
  <2> QED BY <2>1, <2>3, <2>4 DEF x, e
<1>10. IsInstanceIdBound(k[2]) =>
         /\ DataOf(n, db.instance, n.locks[l].id, n.locks[l].shared)
         /\ n.locks[l].mask \subseteq n.shared[n.locks[l].shared].mask
         /\ n.locks[l].shared = l
  <2>1. id # 0
    BY <1>2, <1>3 DEF Ids
  <2> QED BY <1>6, <1>7, <2>1 DEF DataOf
<1>11. \A j \in Keys : \A z : BoundLock(n, j, z) => (j = k /\ z = l) \/ (BoundLock(mgr, j, z) /\ z \in DOMAIN mgr.locks)
  BY <1>8 DEF BoundLock
<1>12. DataSound(n, db.instance)
  <2> SUFFICES ASSUME NEW j \in Keys, NEW z \in DOMAIN n.locks, BoundLock(n, j, z)
               PROVE  /\ DataOf(n, db.instance, n.locks[z].id, n.locks[z].shared)
                      /\ n.locks[z].mask \subseteq n.shared[n.locks[z].shared].mask
    BY DEF DataSound
  <2>1. CASE j = k /\ z = l
    BY <1>10, <2>1 DEF BoundLock
  <2>2. CASE BoundLock(mgr, j, z) /\ z \in DOMAIN mgr.locks
    BY <1>9, <2>2
  <2> QED BY <1>11, <2>1, <2>2
<1>13. OneId(n)
  <2> SUFFICES ASSUME NEW a \in Keys, NEW b \in Keys, NEW y \in DOMAIN n.locks, NEW z \in DOMAIN n.locks,
                      BoundLock(n, a, y), BoundLock(n, b, z), n.locks[y].shared = n.locks[z].shared
               PROVE  n.locks[y].id = n.locks[z].id
    BY DEF OneId
  <2>1. /\ y # l => BoundLock(mgr, a, y) /\ y \in DOMAIN mgr.locks /\ n.locks[y].shared # l
        /\ z # l => BoundLock(mgr, b, z) /\ z \in DOMAIN mgr.locks /\ n.locks[z].shared # l
    BY <1>9, <1>11
  <2>2. y = l => n.locks[y].shared = l
    BY <1>8, <1>10, <1>11, <1>6 DEF BoundLock
  <2>3. z = l => n.locks[z].shared = l
    BY <1>8, <1>10, <1>11, <1>6 DEF BoundLock
  <2> QED BY <1>5, <2>1, <2>2, <2>3 DEF OneId, Ledger
<1>14. MapLocks(maps, n)
  <2> SUFFICES ASSUME NEW i \in DOMAIN maps, maps[i].lock \in DOMAIN n.locks
               PROVE  \E j \in Keys : j[2] = i[1] /\ HasLock(n, j, maps[i].lock)
    BY DEF MapLocks
  <2>1. maps[i].lock \in DOMAIN mgr.locks
    BY <1>5, <1>6
  <2> QED BY <1>8, <2>1 DEF MapLocks, Ledger
<1>15. MapsBound(maps, n)
  BY <1>5, <1>6 DEF MapsBound, Ledger
<1>16. Mirror(n, db.lock)
  BY <1>1, <1>5, <1>6 DEF Mirror, Ledger
<1>17. \A e, h : Used(maps, n, db.lock, e, h) => Used(maps, mgr, db.lock, e, h) \/ (e = d /\ h = id)
  BY <1>5, <1>6, <1>8 DEF Used
<1> QED BY <1>3, <1>6, <1>8, <1>12, <1>13, <1>14, <1>15, <1>16, <1>17 DEF Prepared, n, l, id

\* A player enters.
LEMMA EnteredGood ==
    ASSUME Shape, Shape', Good, NEW p \in Players, NEW d \in Dungeons, Running,
           Entered(p, d, CreateMap(p, d))
    PROVE  Good'
<1> DEFINE c == CreateMap(p, d)
           k == <<OwnerOf(p, d), d>>
           i == <<d, c.id>>
<1>1. /\ k \in Keys /\ k[2] = d
      /\ UsesFound(c, k, d) \/ RenamesFound(c, k, d) \/ NeedsNoLock(c, k, d) \/ MakesLock(c, k, d)
  BY CreateMapIs
<1> HIDE DEF c, k
<1>2. Entered(p, d, c)
  BY DEF c
<1>3. /\ ids' = c.ids /\ db' = db /\ kind' = kind /\ Flagged(c.mgr, mgr')
      /\ DOMAIN maps' = DOMAIN maps \cup {i} /\ \A j \in DOMAIN maps : maps'[j] = maps[j]
      /\ i \notin DOMAIN maps => maps'[i].lock = c.lock
      /\ up' = IF OverflowId \in c.generated THEN "stopping" ELSE up
      /\ defect' = IF TakesForeignId(c, i \notin DOMAIN maps) THEN "foreignId" ELSE defect
      /\ c.lock # NoLock => c.lock \in DOMAIN c.mgr.locks
      /\ c.id \in Ids /\ MgrOK(c.mgr)
  BY <1>2 DEF Entered, CreateOK
<1> SUFFICES ASSUME defect' = "none"
             PROVE  /\ DataSound(mgr', db'.instance) /\ Tables(db'.lock, db'.instance)
                    /\ up' = "running" => Ledger(ids', maps', mgr', db'.lock)
  BY <1>3, GoodNext
<1>4. /\ defect = "none" /\ ~TakesForeignId(c, i \notin DOMAIN maps)
      /\ DataSound(mgr, db.instance) /\ Tables(db.lock, db.instance) /\ Ledger(ids, maps, mgr, db.lock)
  BY <1>3 DEF Good
<1>5. Prepared(c, d)
  <2>1. c.generated = {} /\ c.lock = NoLock => i \in DOMAIN maps
    BY <1>4 DEF TakesForeignId
  <2>2. NeedsNoLock(c, k, d) => c.lock = NoLock
    BY DEF NeedsNoLock
  <2> QED BY <1>1, <1>4, <2>1, <2>2, FoundPrepared, RenamedPrepared, MadePrepared
<1>6. Alike(c.mgr, mgr')
  BY <1>3 DEF Flagged, Touched, Alike
<1>7. /\ DataSound(mgr', db.instance) /\ OneId(mgr') /\ MapLocks(maps, mgr') /\ MapsBound(maps, mgr')
      /\ \A is, rows, e, id : Used(is, mgr', rows, e, id) => Used(is, c.mgr, rows, e, id)
  BY <1>5, <1>6, AlikeKeeps DEF Prepared
<1>8. Mirror(mgr', db.lock)
  <2>1. \A j \in DOMAIN c.mgr.perm : c.mgr.perm[j] \in DOMAIN c.mgr.locks
    BY <1>3 DEF MgrOK, IsMap
  <2>2. /\ mgr'.perm = c.mgr.perm
        /\ \A l \in DOMAIN c.mgr.locks :
              /\ mgr'.locks[l].id = c.mgr.locks[l].id /\ mgr'.locks[l].mask = c.mgr.locks[l].mask
              /\ mgr'.locks[l].expired = c.mgr.locks[l].expired
              /\ mgr'.locks[l].extended = c.mgr.locks[l].extended
    BY <1>3 DEF Flagged, Touched
  <2>3. Mirror(c.mgr, db.lock)
    BY <1>5 DEF Prepared
  <2> QED BY <2>1, <2>2, <2>3 DEF Mirror, SameRow
<1>9. \A e, id : Used(maps', mgr', db.lock, e, id) =>
                    Used(maps, mgr, db.lock, e, id) \/ (e = d /\ id = c.id)
  <2>1. \A e, id : Used(maps', mgr', db.lock, e, id) =>
                      Used(maps, mgr', db.lock, e, id) \/ (e = d /\ id = c.id)
    BY <1>3 DEF Used
  <2> QED BY <1>5, <1>7, <2>1 DEF Prepared
<1>10. MapLocks(maps', mgr') /\ MapsBound(maps', mgr')
  <2>1. c.lock # NoLock => /\ mgr'.locks[c.lock].id = c.id
                           /\ \E j \in Keys : j[2] = d /\ HasLock(mgr', j, c.lock)
    BY <1>3, <1>5, <1>6 DEF Prepared, Alike, HasLock
  <2>2. NoLock \notin DOMAIN mgr'.locks
    BY <1>3, <1>6, InstanceLocksAssumption DEF Alike, MgrOK, IsMap
  <2>3. i[1] = d /\ i[2] = c.id
    OBVIOUS
  <2> HIDE DEF i
  <2>4. MapLocks(maps', mgr')
    BY <1>3, <1>7, <2>1, <2>2, <2>3 DEF MapLocks
  <2>5. MapsBound(maps', mgr')
    BY <1>3, <1>7, <2>1, <2>2, <2>3 DEF MapsBound
  <2> QED BY <2>4, <2>5
<1>11. ASSUME up' = "running"
       PROVE  HintFree(ids') /\ Distinct(maps', mgr', db.lock) /\ Taken(ids', maps', mgr', db.lock)
  <2>1. CASE c.ids = ids /\ Used(maps, mgr, db.lock, d, c.id)
    <3>1. \A e, id : Used(maps', mgr', db.lock, e, id) => Used(maps, mgr, db.lock, e, id)
      BY <1>9, <2>1
    <3> QED BY <1>3, <1>4, <2>1, <3>1, UsesKeep DEF Ledger
  <2>2. CASE c.ids = GenerateInstanceId(ids) /\ c.id = ids.next /\ c.generated = {ids.next}
    <3>1. ids.next # OverflowId
      BY <1>3, <1>11, <2>2
    <3>2. /\ HintFree(ids') /\ ids.next \in ids.free /\ ids.next \notin ids'.free
          /\ \A e \in Dungeons, id \in Ids : Used(maps, mgr, db.lock, e, id) /\ id \in ids'.free => id \in ids.free
      BY <1>3, <1>4, <2>2, <3>1, NextIsFree
    <3>3. \A e, id : Used(maps', mgr', db.lock, e, id) => Used(maps, mgr, db.lock, e, id) \/ (e = d /\ id = ids.next)
      BY <1>9, <2>2
    <3>4. Distinct(maps, mgr, db.lock) /\ Taken(ids, maps, mgr, db.lock)
      BY <1>4 DEF Ledger
    <3> DEFINE x == ids.next
    <3> HIDE DEF x, i
    <3>5. Distinct(maps', mgr', db.lock) /\ Taken(ids', maps', mgr', db.lock)
      <4>1. \A e, id : Used(maps', mgr', db.lock, e, id) => Used(maps, mgr, db.lock, e, id) \/ (e = d /\ id = x)
        BY <3>3 DEF x
      <4>2. x \in ids.free /\ x \notin ids'.free
        BY <3>2 DEF x
      <4> QED BY <3>2, <3>4, <4>1, <4>2, UsesGrow
    <3> QED BY <3>2, <3>5
  <2> QED BY <1>5, <2>1, <2>2 DEF Prepared
<1> QED BY <1>3, <1>4, <1>7, <1>8, <1>10, <1>11 DEF Ledger
-----------------------------------------------------------------------------
(* Transactions.                                                            *)

\* What the tables become when the transaction is committed.
TransRows(t) == Overlay(t.lock, db.lock)
TransInst(t) == Overlay(t.instance, EraseInstances(db, t.erased).instance)

\* An active row bound to an id still has its lock.
RowsCounted(m) ==
    \A k \in DOMAIN db.lock : IsInstanceIdBound(k[2]) /\ RowActive(db.lock[k]) =>
        /\ k \in DOMAIN m.perm
        /\ m.locks[m.perm[k]].id = db.lock[k].id
        /\ IsActive(m.locks[m.perm[k]])

\* A transaction in which the ASSERTs held so far: the ledger of the server in the
\* making, and the data of the id it is about, which has what players may gain.
TransGood(t, d, id, gain) ==
    /\ DataSound(t.mgr, TransInst(t))
    /\ OneId(t.mgr) /\ MapLocks(maps, t.mgr) /\ MapsBound(maps, t.mgr)
    /\ Mirror(t.mgr, TransRows(t))
    /\ \A e, h : Used(maps, t.mgr, TransRows(t), e, h) => Used(maps, mgr, db.lock, e, h)
    /\ IsInstanceIdBound(d) => /\ DataOf(t.mgr, TransInst(t), id, t.mgr.byId[id])
                               /\ gain \subseteq t.mgr.shared[t.mgr.byId[id]].mask
    /\ RowsCounted(t.mgr)

\* Rows of instance already deleted on their own belong to stale locks only.
ErasedStale(t) ==
    \A k \in DOMAIN db.lock : IsInstanceIdBound(k[2]) /\ db.lock[k].id \in t.erased =>
        ~RowActive(db.lock[k])

\* The rows of instance the commit leaves.
LEMMA TransInstIs ==
    ASSUME NEW t, DbOK(db)
    PROVE  /\ DOMAIN TransInst(t) = DOMAIN t.instance \cup (DOMAIN db.instance \ t.erased)
           /\ \A h \in DOMAIN t.instance : TransInst(t)[h] = t.instance[h]
           /\ \A h \in DOMAIN db.instance \ t.erased :
                 h \notin DOMAIN t.instance => TransInst(t)[h] = db.instance[h]
<1> DEFINE kept == EraseInstances(db, t.erased).instance
<1>1. /\ DOMAIN kept = DOMAIN db.instance \ t.erased
      /\ \A h \in DOMAIN kept : kept[h] = db.instance[h]
  BY EraseOK
<1>2. TransInst(t) = Overlay(t.instance, kept)
  BY DEF TransInst
<1> HIDE DEF kept
<1> QED BY <1>1, <1>2 DEF Overlay

\* Nothing has happened yet.
LEMMA BeginGood ==
    ASSUME Shape, DataSound(mgr, db.instance), Ledger(ids, maps, mgr, db.lock),
           NEW d, NEW id, NEW gain,
           IsInstanceIdBound(d) => /\ DataOf(mgr, db.instance, id, mgr.byId[id])
                                   /\ gain \subseteq mgr.shared[mgr.byId[id]].mask
    PROVE  TransGood(Begin, d, id, gain) /\ ErasedStale(Begin)
<1>1. MgrOK(mgr) /\ DbOK(db) /\ IsMap(db.lock, Keys, RowType) /\ IsMap(db.instance, Ids, SUBSET Encounters)
  BY ShapeParts DEF DbOK
<1>2. Begin.mgr = mgr /\ Begin.erased = {} /\ Begin.lock = Empty /\ Begin.instance = Empty
  BY DEF Begin
<1>3. DOMAIN Empty = {}
  BY DEF Empty
<1>4. TransRows(Begin) = db.lock
  BY <1>1, <1>2, <1>3 DEF TransRows, Overlay, IsMap
<1>5. TransInst(Begin) = db.instance
  <2>1. DOMAIN TransInst(Begin) = DOMAIN db.instance
        /\ \A h \in DOMAIN db.instance : TransInst(Begin)[h] = db.instance[h]
    BY <1>1, <1>2, <1>3, TransInstIs
  <2>2. TransInst(Begin) = [h \in DOMAIN TransInst(Begin) |-> TransInst(Begin)[h]]
    BY DEF TransInst, Overlay
  <2>3. db.instance = [h \in DOMAIN db.instance |-> db.instance[h]]
    BY <1>1 DEF IsMap
  <2> QED BY <2>1, <2>2, <2>3
<1>6. RowsCounted(mgr)
  BY DEF RowsCounted, RowActive, IsActive, Ledger, Mirror, SameRow
<1>7. ErasedStale(Begin)
  BY <1>2 DEF ErasedStale
<1> QED BY <1>2, <1>4, <1>5, <1>6, <1>7 DEF TransGood, Ledger

\* UpdateSharedInstanceLock: the data of the id gains the encounters, and its row
\* with it.
LEMMA SharesGood ==
    ASSUME DbOK(db), NEW t, NEW r, NEW d, NEW id \in Ids, NEW gain, NEW done, NEW more,
           TransGood(t, d, id, gain), ErasedStale(t), Shares(t, r, id, done),
           IsInstanceIdBound(d), more = gain \cup done,
           \E k \in Keys, l \in DOMAIN t.mgr.locks : BoundLock(t.mgr, k, l) /\ t.mgr.locks[l].id = id
    PROVE  TransGood(r, d, id, more) /\ ErasedStale(r)
<1> DEFINE m == t.mgr
           n == r.mgr
           x == m.byId[id]
           mask == m.shared[x].mask \cup done
<1>1. /\ id \in DOMAIN m.byId /\ x \in DOMAIN m.shared
      /\ n.locks = m.locks /\ n.perm = m.perm /\ n.temp = m.temp /\ n.byId = m.byId
      /\ DOMAIN n.shared = DOMAIN m.shared
      /\ n.shared[x] = [instanceId |-> id, mask |-> mask]
      /\ \A y \in DOMAIN m.shared : y # x => n.shared[y] = m.shared[y]
      /\ r.lock = t.lock /\ r.erased = t.erased /\ r.ok = t.ok
      /\ r.instance = Put(t.instance, id, mask)
  BY DEF Shares
<1>2. /\ DataSound(m, TransInst(t)) /\ OneId(m) /\ MapLocks(maps, m) /\ MapsBound(maps, m)
      /\ Mirror(m, TransRows(t)) /\ RowsCounted(m)
      /\ \A e, h : Used(maps, m, TransRows(t), e, h) => Used(maps, mgr, db.lock, e, h)
      /\ gain \subseteq m.shared[x].mask
  BY DEF TransGood
<1>3. PICK k0 \in Keys, l0 \in DOMAIN m.locks : BoundLock(m, k0, l0) /\ m.locks[l0].id = id
  OBVIOUS
<1>4. m.locks[l0].shared = x
  BY <1>2, <1>3 DEF DataSound, DataOf
<1> HIDE DEF m, n, x, mask
<1>5. /\ DOMAIN TransInst(r) = DOMAIN TransInst(t) \cup {id} /\ TransInst(r)[id] = mask
      /\ \A h \in DOMAIN TransInst(t) : h # id => TransInst(r)[h] = TransInst(t)[h]
  <2>1. /\ DOMAIN r.instance = DOMAIN t.instance \cup {id} /\ r.instance[id] = mask
        /\ \A h \in DOMAIN t.instance : h # id => r.instance[h] = t.instance[h]
    BY <1>1 DEF Put
  <2>2. /\ DOMAIN TransInst(r) = DOMAIN r.instance \cup (DOMAIN db.instance \ r.erased)
        /\ \A h \in DOMAIN r.instance : TransInst(r)[h] = r.instance[h]
        /\ \A h \in DOMAIN db.instance \ r.erased : h \notin DOMAIN r.instance => TransInst(r)[h] = db.instance[h]
    BY TransInstIs
  <2>3. /\ DOMAIN TransInst(t) = DOMAIN t.instance \cup (DOMAIN db.instance \ t.erased)
        /\ \A h \in DOMAIN t.instance : TransInst(t)[h] = t.instance[h]
        /\ \A h \in DOMAIN db.instance \ t.erased : h \notin DOMAIN t.instance => TransInst(t)[h] = db.instance[h]
    BY TransInstIs
  <2> QED BY <1>1, <2>1, <2>2, <2>3
<1>6. \A j, z : /\ HasLock(n, j, z) <=> HasLock(m, j, z)
                /\ BoundLock(n, j, z) <=> BoundLock(m, j, z)
  BY <1>1 DEF HasLock, BoundLock
<1>7. TransRows(r) = TransRows(t)
  BY <1>1 DEF TransRows
<1>8. id # 0
  BY DEF Ids
<1>9. DataOf(n, TransInst(r), id, n.byId[id]) /\ more \subseteq n.shared[n.byId[id]].mask
  <2>1. n.byId[id] = x /\ n.shared[x].instanceId = id /\ n.shared[x].mask = mask
    BY <1>1 DEF x
  <2>2. more \subseteq mask
    BY <1>2 DEF mask
  <2> QED BY <1>1, <1>5, <1>8, <2>1, <2>2 DEF DataOf
<1>10. ASSUME NEW j \in Keys, NEW z \in DOMAIN n.locks, BoundLock(n, j, z)
       PROVE  /\ DataOf(n, TransInst(r), n.locks[z].id, n.locks[z].shared)
              /\ n.locks[z].mask \subseteq n.shared[n.locks[z].shared].mask
  <2> DEFINE y == m.locks[z].shared
             h == m.locks[z].id
  <2>1. BoundLock(m, j, z) /\ z \in DOMAIN m.locks
    BY <1>1, <1>6, <1>10
  <2>2. DataOf(m, TransInst(t), h, y) /\ m.locks[z].mask \subseteq m.shared[y].mask
    BY <1>2, <2>1 DEF DataSound
  <2>3. CASE y = x
    <3>1. h = id
      BY <1>2, <1>3, <1>4, <2>1, <2>3 DEF OneId
    <3>2. n.shared[x].mask = mask /\ m.shared[x].mask \subseteq mask
      BY <1>1 DEF mask
    <3>3. n.byId[id] = x
      BY <1>1 DEF x
    <3> QED BY <1>1, <1>9, <2>2, <2>3, <3>1, <3>2, <3>3
  <2>4. CASE y # x
    <3>1. h # id
      BY <2>2, <2>4 DEF DataOf, x
    <3> HIDE DEF y, h
    <3>2. DataOf(n, TransInst(r), h, y) /\ n.shared[y] = m.shared[y]
      BY <1>1, <1>5, <2>2, <2>4, <3>1 DEF DataOf
    <3> QED BY <1>1, <2>2, <3>2 DEF y, h
  <2> QED BY <2>3, <2>4
<1>11. DataSound(n, TransInst(r))
  BY <1>10 DEF DataSound
<1>12. OneId(n)
  BY <1>1, <1>2, <1>6 DEF OneId
<1>13. MapLocks(maps, n) /\ MapsBound(maps, n)
  BY <1>1, <1>2, <1>6 DEF MapLocks, MapsBound
<1>14. Mirror(n, TransRows(r)) /\ RowsCounted(n)
  BY <1>1, <1>2, <1>7 DEF Mirror, RowsCounted
<1>15. \A e, h : Used(maps, n, TransRows(r), e, h) => Used(maps, mgr, db.lock, e, h)
  <2>1. \A e, h : Used(maps, n, TransRows(r), e, h) => Used(maps, m, TransRows(t), e, h)
    BY <1>1, <1>6, <1>7 DEF Used
  <2> QED BY <1>2, <2>1
<1>16. ErasedStale(r)
  BY <1>1 DEF ErasedStale
<1> QED BY <1>9, <1>11, <1>12, <1>13, <1>14, <1>15, <1>16 DEF TransGood, n

\* Whose the locks are after the update of a player's lock.
LEMMA MovesHas ==
    ASSUME NEW t, NEW r, NEW k, NEW id, NEW gain, NEW l, NEW old, NEW new,
           MgrOK(t.mgr), Moves(t, r, k, id, gain, l, old, new)
    PROVE  /\ HasLock(r.mgr, k, l)
           /\ \A j, z : HasLock(r.mgr, j, z) => (j = k /\ z = l) \/ (z # l /\ HasLock(t.mgr, j, z))
           /\ \A j, z : HasLock(t.mgr, j, z) /\ z # l /\ z \in DOMAIN r.mgr.locks => HasLock(r.mgr, j, z)
           /\ \A j : HasLock(t.mgr, j, l) => j = k /\ old = t.mgr.locks[l]
           /\ l \in DOMAIN t.mgr.locks => HasLock(t.mgr, k, l)
           /\ l \in DOMAIN r.mgr.locks /\ r.mgr.locks[l] = new
           /\ \A z \in DOMAIN r.mgr.locks : z # l => z \in DOMAIN t.mgr.locks /\ r.mgr.locks[z] = t.mgr.locks[z]
           /\ l \notin DOMAIN t.mgr.locks => \A i \in DOMAIN maps : maps[i].lock # l
<1> DEFINE m == t.mgr
           n == r.mgr
<1>1. /\ \A j \in DOMAIN m.perm : m.perm[j] \in DOMAIN m.locks
      /\ \A j \in DOMAIN m.temp : m.temp[j] \in DOMAIN m.locks
      /\ OneOwner(m)
  BY DEF MgrOK, IsMap
<1>2. /\ DOMAIN n.locks = (DOMAIN m.locks \cup {l}) \ Dead(m, k, l)
      /\ n.locks[l] = new
      /\ \A z \in DOMAIN n.locks : z # l => n.locks[z] = m.locks[z]
      /\ Kept(m, n, k, l, old) \/ Promoted(m, n, k, l, old) \/ Created(m, n, k, id, l, old)
  BY DEF Moves
<1>3. /\ n.perm[k] = l /\ DOMAIN n.perm = DOMAIN m.perm \cup {k}
      /\ \A j \in DOMAIN m.perm : j # k => n.perm[j] = m.perm[j] /\ m.perm[j] # l
      /\ DOMAIN n.temp \subseteq DOMAIN m.temp
      /\ \A j \in DOMAIN n.temp : n.temp[j] = m.temp[j] /\ n.temp[j] # l
  BY MovesOwner
<1> HIDE DEF m, n
<1>4. HasLock(n, k, l)
  BY <1>3 DEF HasLock
<1>5. \A j, z : HasLock(n, j, z) => (j = k /\ z = l) \/ (z # l /\ HasLock(m, j, z))
  BY <1>3 DEF HasLock
<1>6. \A j : HasLock(m, j, l) => j = k /\ old = m.locks[l]
  BY <1>1, <1>2 DEF HasLock, OneOwner, Kept, Promoted, Created
<1>7. l \in DOMAIN m.locks => HasLock(m, k, l)
  BY <1>2 DEF HasLock, Kept, Promoted, Created
<1>8. ASSUME NEW j, NEW z, HasLock(m, j, z), z # l, z \in DOMAIN n.locks PROVE HasLock(n, j, z)
  <2>1. CASE j \in DOMAIN m.perm /\ m.perm[j] = z
    <3>1. j # k
      BY <1>2, <1>8, <2>1 DEF Dead
    <3> QED BY <1>3, <2>1, <3>1 DEF HasLock
  <2>2. CASE j \in DOMAIN m.temp /\ m.temp[j] = z
    <3>1. n.temp = m.temp \/ (n.temp = Without(m.temp, k) /\ m.temp[k] = l)
      BY <1>2 DEF Kept, Promoted, Created
    <3>2. n.temp = m.temp \/ j # k
      BY <1>8, <2>2, <3>1
    <3>3. j \in DOMAIN n.temp
      BY <2>2, <3>1, <3>2 DEF Without, Restrict
    <3> QED BY <1>3, <2>2, <3>3 DEF HasLock
  <2> QED BY <1>8, <2>1, <2>2 DEF HasLock
<1>9. l \in DOMAIN n.locks
  BY <1>2 DEF Dead
<1>10. \A z \in DOMAIN n.locks : z # l => z \in DOMAIN m.locks
  BY <1>2
<1>11. l \notin DOMAIN m.locks => \A i \in DOMAIN maps : maps[i].lock # l
  BY <1>1, <1>2 DEF Kept, Promoted, Created
<1> QED BY <1>2, <1>4, <1>5, <1>6, <1>7, <1>8, <1>9, <1>10, <1>11 DEF m, n

\* What is known of live data is still known of it.
LEMMA MovesData ==
    ASSUME DbOK(db), NEW t, NEW r, NEW k, NEW id, NEW gain, NEW l, NEW old, NEW new,
           Moves(t, r, k, id, gain, l, old, new),
           NEW h, NEW x, DataOf(t.mgr, TransInst(t), h, x), x \in DOMAIN r.mgr.shared
    PROVE  DataOf(r.mgr, TransInst(r), h, x) /\ r.mgr.shared[x] = t.mgr.shared[x]
<1> DEFINE m == t.mgr
           n == r.mgr
<1>1. /\ \A y \in DOMAIN n.shared : n.shared[y] = m.shared[y]
      /\ \A e \in DOMAIN n.byId : n.byId[e] = m.byId[e]
      /\ \A e \in DOMAIN m.byId \ DOMAIN n.byId : m.byId[e] \notin DOMAIN n.shared
      /\ r.erased = t.erased \cup (DOMAIN m.byId \ DOMAIN n.byId) /\ r.instance = t.instance
  BY DEF Moves
<1>2. h \in DOMAIN n.byId
  BY <1>1 DEF DataOf
<1>3. h \in DOMAIN TransInst(t) => h \in DOMAIN TransInst(r) /\ TransInst(r)[h] = TransInst(t)[h]
  <2>1. /\ DOMAIN TransInst(r) = DOMAIN r.instance \cup (DOMAIN db.instance \ r.erased)
        /\ \A e \in DOMAIN r.instance : TransInst(r)[e] = r.instance[e]
        /\ \A e \in DOMAIN db.instance \ r.erased : e \notin DOMAIN r.instance => TransInst(r)[e] = db.instance[e]
    BY TransInstIs
  <2>2. /\ DOMAIN TransInst(t) = DOMAIN t.instance \cup (DOMAIN db.instance \ t.erased)
        /\ \A e \in DOMAIN t.instance : TransInst(t)[e] = t.instance[e]
        /\ \A e \in DOMAIN db.instance \ t.erased : e \notin DOMAIN t.instance => TransInst(t)[e] = db.instance[e]
    BY TransInstIs
  <2> QED BY <1>1, <1>2, <2>1, <2>2
<1> QED BY <1>1, <1>2, <1>3 DEF DataOf

\* The ledger in the making survives the update of a player's lock for an instance
\* that has a map; what the update deletes was stale.
LEMMA MovesGood ==
    ASSUME DbOK(db), NEW t, NEW r, NEW k \in Keys, NEW id \in Ids, NEW gain, NEW l, NEW old, NEW new,
           TransOK(t), TransGood(t, k[2], id, gain), ErasedStale(t),
           Moves(t, r, k, id, gain, l, old, new), <<k[2], id>> \in DOMAIN maps
    PROVE  ErasedStale(r) /\ (r.ok => TransGood(r, k[2], id, gain))
<1> DEFINE m == t.mgr
           n == r.mgr
<1>1. /\ MgrOK(m) /\ OneOwner(m)
      /\ \A j \in DOMAIN m.perm : m.perm[j] \in DOMAIN m.locks
  BY DEF TransOK, MgrOK, IsMap
<1>2. /\ DataSound(m, TransInst(t)) /\ OneId(m) /\ MapLocks(maps, m) /\ MapsBound(maps, m)
      /\ Mirror(m, TransRows(t)) /\ RowsCounted(m)
      /\ \A e, h : Used(maps, m, TransRows(t), e, h) => Used(maps, mgr, db.lock, e, h)
      /\ IsInstanceIdBound(k[2]) => /\ DataOf(m, TransInst(t), id, m.byId[id])
                                    /\ gain \subseteq m.shared[m.byId[id]].mask
  BY DEF TransGood
<1>3. /\ HasLock(n, k, l)
      /\ \A j, z : HasLock(n, j, z) => (j = k /\ z = l) \/ (z # l /\ HasLock(m, j, z))
      /\ \A j, z : HasLock(m, j, z) /\ z # l /\ z \in DOMAIN n.locks => HasLock(n, j, z)
      /\ \A j : HasLock(m, j, l) => j = k /\ old = m.locks[l]
      /\ l \in DOMAIN m.locks => HasLock(m, k, l)
      /\ l \in DOMAIN n.locks /\ n.locks[l] = new
      /\ \A z \in DOMAIN n.locks : z # l => z \in DOMAIN m.locks /\ n.locks[z] = m.locks[z]
      /\ l \notin DOMAIN m.locks => \A i \in DOMAIN maps : maps[i].lock # l
  BY <1>1, MovesHas
<1>4. /\ new.id = id /\ new.shared = old.shared /\ new.mask = old.mask \cup gain /\ new.expired = FALSE
      /\ Kept(m, n, k, l, old) \/ Promoted(m, n, k, l, old) \/ Created(m, n, k, id, l, old)
      /\ n.perm = Put(m.perm, k, l)
      /\ DOMAIN n.locks = (DOMAIN m.locks \cup {l}) \ Dead(m, k, l)
      /\ \A z \in DOMAIN n.locks : n.locks[z].shared \in DOMAIN m.shared => n.locks[z].shared \in DOMAIN n.shared
      /\ \A e \in DOMAIN m.byId \ DOMAIN n.byId : m.byId[e] \notin DOMAIN n.shared
      /\ r.erased = t.erased \cup (DOMAIN m.byId \ DOMAIN n.byId)
      /\ r.lock = Put(t.lock, k, Row(new)) /\ r.instance = t.instance
      /\ r.ok /\ IsInstanceIdBound(k[2]) =>
              id \in DOMAIN m.byId /\ m.byId[id] = old.shared /\ old.id = id
  BY DEF Moves, Refreshed
<1>5. \A h, x : DataOf(m, TransInst(t), h, x) /\ x \in DOMAIN n.shared =>
                   DataOf(n, TransInst(r), h, x) /\ n.shared[x] = m.shared[x]
  BY MovesData
<1> HIDE DEF m, n
<1>6. /\ n.perm[k] = l /\ DOMAIN n.perm = DOMAIN m.perm \cup {k}
      /\ \A j \in DOMAIN m.perm : j # k => n.perm[j] = m.perm[j] /\ m.perm[j] # l
  <2>1. n.perm[k] = l /\ DOMAIN n.perm = DOMAIN m.perm \cup {k}
        /\ \A j \in DOMAIN m.perm : j # k => n.perm[j] = m.perm[j]
    BY <1>4 DEF Put
  <2>2. \A j \in DOMAIN m.perm : j # k => m.perm[j] # l
    BY <1>3 DEF HasLock
  <2> QED BY <2>1, <2>2
\* The active permanent locks survive.
<1>7. ASSUME NEW j \in DOMAIN m.perm, IsActive(m.locks[m.perm[j]])
      PROVE  /\ m.perm[j] \in DOMAIN n.locks
             /\ n.perm[j] = m.perm[j]
             /\ j = k => m.perm[j] = l /\ old = m.locks[l]
  <2>1. CASE j = k
    <3>1. l = m.perm[k] /\ old = m.locks[l]
      BY <1>4, <1>7, <2>1 DEF Kept, Promoted, Created, Replaces
    <3> QED BY <1>3, <1>6, <2>1, <3>1
  <2>2. CASE j # k
    <3>1. m.perm[j] \notin Dead(m, k, l)
      BY <1>1, <2>2 DEF Dead, OneOwner
    <3> QED BY <1>1, <1>4, <1>6, <2>2, <3>1
  <2> QED BY <2>1, <2>2
<1>8. ErasedStale(r)
  <2> SUFFICES ASSUME NEW j \in DOMAIN db.lock, IsInstanceIdBound(j[2]), db.lock[j].id \in r.erased,
                      RowActive(db.lock[j])
               PROVE  FALSE
    BY DEF ErasedStale
  <2> DEFINE z == m.perm[j]
             x == m.locks[z].shared
             h == db.lock[j].id
  <2>1. j \in DOMAIN m.perm /\ m.locks[z].id = h /\ IsActive(m.locks[z]) /\ z \in DOMAIN m.locks
    BY <1>1, <1>2 DEF RowsCounted
  <2>2. j \in Keys /\ BoundLock(m, j, z)
    BY <2>1, DbOK(db) DEF BoundLock, HasLock, DbOK, IsMap
  <2>3. h \in DOMAIN m.byId /\ m.byId[h] = x /\ x \in DOMAIN m.shared
    BY <1>2, <2>1, <2>2, SMTT(30) DEF DataSound, DataOf
  <2>4. z \in DOMAIN n.locks /\ n.locks[z].shared = x
    <3>1. z \in DOMAIN n.locks /\ (j = k => z = l /\ old = m.locks[l])
      BY <1>7, <2>1
    <3>2. j # k => z # l
      BY <1>6, <2>1
    <3> QED BY <1>3, <1>4, <3>1, <3>2
  <2>5. x \in DOMAIN n.shared
    BY <1>4, <2>3, <2>4
  <2>6. h \notin t.erased
    BY DEF ErasedStale
  <2> QED BY <1>4, <2>3, <2>5, <2>6
<1>9. ASSUME r.ok PROVE TransGood(r, k[2], id, gain)
  <2>1. IsInstanceIdBound(k[2]) =>
           LET x == m.byId[id] IN
           /\ x = new.shared /\ x \in DOMAIN n.shared /\ n.byId[id] = x
           /\ DataOf(n, TransInst(r), id, x) /\ n.shared[x] = m.shared[x]
           /\ gain \subseteq n.shared[x].mask
    <3> SUFFICES ASSUME IsInstanceIdBound(k[2])
                 PROVE  LET x == m.byId[id] IN
                        /\ x = new.shared /\ x \in DOMAIN n.shared /\ n.byId[id] = x
                        /\ DataOf(n, TransInst(r), id, x) /\ n.shared[x] = m.shared[x]
                        /\ gain \subseteq n.shared[x].mask
      OBVIOUS
    <3> DEFINE x == m.byId[id]
    <3>1. DataOf(m, TransInst(t), id, x) /\ gain \subseteq m.shared[x].mask /\ x = new.shared
      BY <1>2, <1>4, <1>9
    <3> HIDE DEF x
    <3>2. x \in DOMAIN n.shared
      BY <1>3, <1>4, <3>1 DEF DataOf
    <3>3. DataOf(n, TransInst(r), id, x) /\ n.shared[x] = m.shared[x]
      BY <1>5, <3>1, <3>2
    <3> QED BY <3>1, <3>2, <3>3 DEF DataOf, x
  <2>2. ASSUME IsInstanceIdBound(k[2])
        PROVE  /\ old.mask \subseteq m.shared[new.shared].mask /\ old.id = id
               /\ l \notin DOMAIN m.locks => m.shared[new.shared].instanceId = id
               /\ l \in DOMAIN m.locks => old = m.locks[l] /\ BoundLock(m, k, l)
    <3>1. old.id = id
      BY <1>4, <1>9, <2>2
    <3>2. CASE l \in DOMAIN m.locks
      <4>1. old = m.locks[l] /\ BoundLock(m, k, l)
        BY <1>3, <2>2, <3>2 DEF BoundLock
      <4> QED BY <1>2, <1>4, <3>1, <3>2, <4>1 DEF DataSound
    <3>3. CASE l \notin DOMAIN m.locks
      <4>1. Created(m, n, k, id, l, old)
        <5>1. k \in DOMAIN m.temp => m.temp[k] \in DOMAIN m.locks
          BY <1>1 DEF MgrOK, IsMap
        <5> QED BY <1>1, <1>4, <3>3, <5>1 DEF Kept, Promoted
      <4>2. old.mask = {} /\ old.shared = m.byId[id] /\ m.shared[m.byId[id]].instanceId = id
        BY <2>2, <4>1 DEF Created, NewLock
      <4> QED BY <1>4, <3>1, <3>3, <4>2
    <3> QED BY <3>2, <3>3
  <2>3. \A j, z : BoundLock(n, j, z) => \/ j = k /\ z = l /\ IsInstanceIdBound(k[2])
                                        \/ z # l /\ BoundLock(m, j, z)
    BY <1>3 DEF BoundLock
  <2>4. DataSound(n, TransInst(r))
    <3> SUFFICES ASSUME NEW j \in Keys, NEW z \in DOMAIN n.locks, BoundLock(n, j, z)
                 PROVE  /\ DataOf(n, TransInst(r), n.locks[z].id, n.locks[z].shared)
                        /\ n.locks[z].mask \subseteq n.shared[n.locks[z].shared].mask
      BY DEF DataSound
    <3>1. CASE j = k /\ z = l /\ IsInstanceIdBound(k[2])
      <4>1. n.locks[z] = new /\ old.mask \subseteq m.shared[new.shared].mask
        BY <1>3, <2>2, <3>1
      <4>2. DataOf(n, TransInst(r), id, new.shared) /\ n.shared[new.shared] = m.shared[new.shared]
            /\ gain \subseteq n.shared[new.shared].mask
        BY <2>1, <3>1
      <4> QED BY <1>4, <4>1, <4>2
    <3>2. CASE z # l /\ BoundLock(m, j, z)
      <4> DEFINE x == m.locks[z].shared
                 h == m.locks[z].id
      <4>1. z \in DOMAIN m.locks /\ n.locks[z] = m.locks[z]
        BY <1>3, <3>2
      <4>2. DataOf(m, TransInst(t), h, x) /\ m.locks[z].mask \subseteq m.shared[x].mask
        BY <1>2, <3>2, <4>1 DEF DataSound
      <4>3. x \in DOMAIN m.shared /\ n.locks[z].shared = x
        BY <4>1, <4>2 DEF DataOf
      <4> HIDE DEF x, h
      <4>4. x \in DOMAIN n.shared
        BY <1>4, <4>3
      <4>5. DataOf(n, TransInst(r), h, x) /\ n.shared[x] = m.shared[x]
        BY <1>5, <4>2, <4>4
      <4> QED BY <4>1, <4>2, <4>5 DEF x, h
    <3> QED BY <2>3, <3>1, <3>2
  <2>5. OneId(n)
    <3>1. ASSUME NEW j \in Keys, NEW z \in DOMAIN m.locks, IsInstanceIdBound(k[2]), BoundLock(m, j, z),
                 m.locks[z].shared = new.shared
          PROVE  m.locks[z].id = id
      <4>1. CASE l \in DOMAIN m.locks
        <5>1. old = m.locks[l] /\ BoundLock(m, k, l) /\ old.id = id
          BY <2>2, <3>1, <4>1
        <5> QED BY <1>2, <1>4, <3>1, <4>1, <5>1 DEF OneId
      <4>2. CASE l \notin DOMAIN m.locks
        <5>1. m.shared[new.shared].instanceId = id
          BY <2>2, <3>1, <4>2
        <5>2. DataOf(m, TransInst(t), m.locks[z].id, new.shared)
          BY <1>2, <3>1 DEF DataSound
        <5> QED BY <5>1, <5>2 DEF DataOf, Ids
      <4> QED BY <4>1, <4>2
    <3> SUFFICES ASSUME NEW a \in Keys, NEW b \in Keys, NEW y \in DOMAIN n.locks, NEW z \in DOMAIN n.locks,
                        BoundLock(n, a, y), BoundLock(n, b, z), n.locks[y].shared = n.locks[z].shared
                 PROVE  n.locks[y].id = n.locks[z].id
      BY DEF OneId
    <3>2. y = l => a = k /\ IsInstanceIdBound(k[2])
      BY <2>3
    <3>3. z = l => b = k /\ IsInstanceIdBound(k[2])
      BY <2>3
    <3>4. y # l => BoundLock(m, a, y) /\ y \in DOMAIN m.locks /\ n.locks[y] = m.locks[y]
      BY <1>3, <2>3
    <3>5. z # l => BoundLock(m, b, z) /\ z \in DOMAIN m.locks /\ n.locks[z] = m.locks[z]
      BY <1>3, <2>3
    <3>6. n.locks[l].id = id /\ n.locks[l].shared = new.shared
      BY <1>3, <1>4
    <3>7. CASE y = l /\ z = l
      BY <3>7
    <3>8. CASE y = l /\ z # l
      BY <3>1, <3>2, <3>5, <3>6, <3>8
    <3>9. CASE y # l /\ z = l
      BY <3>1, <3>3, <3>4, <3>6, <3>9
    <3>10. CASE y # l /\ z # l
      BY <1>2, <3>4, <3>5, <3>10 DEF OneId
    <3> QED BY <3>7, <3>8, <3>9, <3>10
  <2>6. MapLocks(maps, n)
    <3> SUFFICES ASSUME NEW i \in DOMAIN maps, maps[i].lock \in DOMAIN n.locks
                 PROVE  \E j \in Keys : j[2] = i[1] /\ HasLock(n, j, maps[i].lock)
      BY DEF MapLocks
    <3> DEFINE z == maps[i].lock
    <3>1. z \in DOMAIN m.locks
      BY <1>3
    <3>2. PICK j \in Keys : j[2] = i[1] /\ HasLock(m, j, z)
      BY <1>2, <3>1 DEF MapLocks
    <3>3. CASE z = l
      <4>1. j = k
        BY <1>3, <3>2, <3>3
      <4> QED BY <1>3, <3>2, <3>3, <4>1
    <3>4. CASE z # l
      BY <1>3, <3>2, <3>4
    <3> QED BY <3>3, <3>4
  <2>7. MapsBound(maps, n)
    <3> SUFFICES ASSUME NEW i \in DOMAIN maps, maps[i].lock \in DOMAIN n.locks, IsInstanceIdBound(i[1])
                 PROVE  n.locks[maps[i].lock].id = i[2]
      BY DEF MapsBound
    <3> DEFINE z == maps[i].lock
    <3>1. z \in DOMAIN m.locks /\ m.locks[z].id = i[2]
      BY <1>2, <1>3 DEF MapsBound
    <3>2. CASE z = l
      <4>1. PICK j \in Keys : j[2] = i[1] /\ HasLock(m, j, z)
        BY <1>2, <3>1 DEF MapLocks
      <4>2. j = k /\ old = m.locks[l]
        BY <1>3, <3>2, <4>1
      <4>3. old.id = id
        BY <2>2, <4>1, <4>2
      <4> QED BY <1>3, <1>4, <3>1, <3>2, <4>2, <4>3
    <3>3. CASE z # l
      BY <1>3, <3>1, <3>3
    <3> QED BY <3>2, <3>3
  <2>8. /\ DOMAIN TransRows(r) = DOMAIN TransRows(t) \cup {k} /\ TransRows(r)[k] = Row(new)
        /\ \A j \in DOMAIN TransRows(t) : j # k => TransRows(r)[j] = TransRows(t)[j]
    BY <1>4 DEF TransRows, Overlay, Put
  <2>9. Mirror(n, TransRows(r))
    <3> SUFFICES ASSUME NEW j \in DOMAIN TransRows(r), IsInstanceIdBound(j[2])
                 PROVE  j \in DOMAIN n.perm /\ SameRow(TransRows(r)[j], n.locks[n.perm[j]])
      BY DEF Mirror
    <3>1. CASE j = k
      <4>1. SameRow(Row(new), new)
        BY DEF SameRow, Row
      <4> QED BY <1>3, <1>6, <2>8, <3>1, <4>1
    <3>2. CASE j # k
      <4>1. j \in DOMAIN m.perm /\ SameRow(TransRows(t)[j], m.locks[m.perm[j]])
        BY <1>2, <2>8, <3>2 DEF Mirror
      <4>2. m.perm[j] \in DOMAIN n.locks
        <5>1. m.perm[j] \notin Dead(m, k, l)
          BY <1>1, <3>2, <4>1 DEF Dead, OneOwner
        <5> QED BY <1>1, <1>4, <4>1, <5>1
      <4> QED BY <1>3, <1>6, <2>8, <3>2, <4>1, <4>2
    <3> QED BY <3>1, <3>2
  <2>10. \A e, h : Used(maps, n, TransRows(r), e, h) => Used(maps, mgr, db.lock, e, h)
    <3> SUFFICES ASSUME NEW e, NEW h, Used(maps, n, TransRows(r), e, h)
                 PROVE  Used(maps, mgr, db.lock, e, h)
      OBVIOUS
    <3>1. CASE e = k[2] /\ h = id
      BY <3>1 DEF Used
    <3>2. CASE ~(e = k[2] /\ h = id)
      <4>1. Row(new).id = id /\ new.id = id
        BY <1>4 DEF Row
      <4>2. Used(maps, m, TransRows(t), e, h)
        <5>1. CASE <<e, h>> \in DOMAIN maps
          BY <5>1 DEF Used
        <5>2. ASSUME NEW j \in Keys, NEW z \in DOMAIN n.locks, HasLock(n, j, z), j[2] = e, n.locks[z].id = h
              PROVE  Used(maps, m, TransRows(t), e, h)
          <6>1. z # l /\ HasLock(m, j, z) /\ z \in DOMAIN m.locks /\ m.locks[z].id = h
            BY <1>3, <3>2, <4>1, <5>2
          <6> QED BY <5>2, <6>1 DEF Used
        <5>3. ASSUME NEW j \in DOMAIN TransRows(r), j[2] = e, TransRows(r)[j].id = h
              PROVE  Used(maps, m, TransRows(t), e, h)
          <6>1. j # k
            BY <2>8, <3>2, <4>1, <5>3
          <6> QED BY <2>8, <5>3, <6>1 DEF Used
        <5> QED BY <5>1, <5>2, <5>3 DEF Used
      <4> QED BY <1>2, <4>2
    <3> QED BY <3>1, <3>2
  <2>11. RowsCounted(n)
    <3> SUFFICES ASSUME NEW j \in DOMAIN db.lock, IsInstanceIdBound(j[2]), RowActive(db.lock[j])
                 PROVE  /\ j \in DOMAIN n.perm /\ n.locks[n.perm[j]].id = db.lock[j].id
                        /\ IsActive(n.locks[n.perm[j]])
      BY DEF RowsCounted
    <3> DEFINE z == m.perm[j]
    <3>1. j \in DOMAIN m.perm /\ m.locks[z].id = db.lock[j].id /\ IsActive(m.locks[z])
      BY <1>2 DEF RowsCounted
    <3>2. z \in DOMAIN n.locks /\ n.perm[j] = z /\ (j = k => z = l /\ old = m.locks[l])
      BY <1>7, <3>1
    <3>3. CASE j = k
      <4>1. old.id = id /\ n.locks[z] = new /\ ~new.expired
        BY <1>3, <1>4, <2>2, <3>2, <3>3
      <4> QED BY <1>4, <1>6, <3>1, <3>2, <3>3, <4>1 DEF IsActive
    <3>4. CASE j # k
      BY <1>3, <1>6, <3>1, <3>2, <3>4
    <3> QED BY <3>3, <3>4
  <2>12. IsInstanceIdBound(k[2]) => /\ DataOf(n, TransInst(r), id, n.byId[id])
                                    /\ gain \subseteq n.shared[n.byId[id]].mask
    BY <2>1
  <2> QED BY <2>4, <2>5, <2>6, <2>7, <2>9, <2>10, <2>11, <2>12 DEF TransGood, n
<1> QED BY <1>8, <1>9

\* A transaction whose invariant holds, put together for the map of an instance.
TransInv(t, d, id, gain) == TransOK(t) /\ ErasedStale(t) /\ (t.ok => TransGood(t, d, id, gain))

\* The update of one player's lock.
LEMMA UpdateGood ==
    ASSUME Shape, Running, NEW t, NEW p \in Players, NEW d \in Dungeons, NEW id \in Ids,
           NEW done \in SUBSET Encounters, NEW mask \in SUBSET Encounters,
           TransInv(t, d, id, GainedEncounters(d, done, mask)), <<d, id>> \in DOMAIN maps,
           HasResetSchedule(d), Known(ids, id)
    PROVE  TransInv(UpdateInstanceLockForPlayer(t, p, d, id, done, mask), d, id,
                    GainedEncounters(d, done, mask))
<1> DEFINE r == UpdateInstanceLockForPlayer(t, p, d, id, done, mask)
           gain == GainedEncounters(d, done, mask)
           k == <<p, d>>
<1>1. TransOK(t) /\ ErasedStale(t) /\ DbOK(db) /\ IsFiniteSet(DOMAIN maps) /\ k \in Keys /\ k[2] = d
  BY ShapeParts DEF TransInv, MapsOK, Keys
<1>2. r = [t EXCEPT !.ok = FALSE] \/ \E l, old, new : Moves(t, r, k, id, gain, l, old, new)
  BY <1>1, UpdateIs
<1>3. TransInv(t, d, id, gain)
  OBVIOUS
<1> HIDE DEF r, gain, k
<1>4. ASSUME r = [t EXCEPT !.ok = FALSE] PROVE TransInv(r, d, id, gain)
  <2>1. TransOK(r)
    BY <1>1, <1>4, GivesUpOK
  <2>2. r.ok = FALSE /\ r.erased = t.erased
    BY <1>1, <1>4 DEF TransOK, IsTrans
  <2> QED BY <1>1, <2>1, <2>2 DEF TransInv, ErasedStale
<1>5. ASSUME NEW l, NEW old, NEW new, Moves(t, r, k, id, gain, l, old, new) PROVE TransInv(r, d, id, gain)
  <2>1. TransOK(r)
    BY <1>1, <1>5, MovesOK
  <2>2. t.ok
    BY <1>5 DEF Moves
  <2>3. TransGood(t, k[2], id, gain) /\ <<k[2], id>> \in DOMAIN maps
    BY <1>1, <1>3, <2>2 DEF TransInv
  <2>4. ErasedStale(r) /\ (r.ok => TransGood(r, k[2], id, gain))
    BY <1>1, <1>5, <2>3, MovesGood
  <2> QED BY <1>1, <2>1, <2>4 DEF TransInv
<1> QED BY <1>2, <1>4, <1>5 DEF r, gain

\* The lock of a map: what the map is about, and the data it relies on.
LEMMA MapData ==
    ASSUME Shape, DataSound(mgr, db.instance), Ledger(ids, maps, mgr, db.lock),
           NEW i \in DOMAIN maps, maps[i].lock \in DOMAIN mgr.locks, IsInstanceIdBound(i[1])
    PROVE  /\ \E k \in Keys : BoundLock(mgr, k, maps[i].lock)
           /\ mgr.locks[maps[i].lock].id = i[2]
           /\ DataOf(mgr, db.instance, i[2], mgr.byId[i[2]])
           /\ mgr.locks[maps[i].lock].mask \subseteq mgr.shared[mgr.byId[i[2]]].mask
<1> DEFINE l == maps[i].lock
<1>1. PICK k \in Keys : k[2] = i[1] /\ HasLock(mgr, k, l)
  BY DEF Ledger, MapLocks
<1>2. BoundLock(mgr, k, l) /\ mgr.locks[l].id = i[2]
  BY <1>1 DEF BoundLock, Ledger, MapsBound
<1>3. DataOf(mgr, db.instance, i[2], mgr.locks[l].shared) /\ mgr.locks[l].mask \subseteq mgr.shared[mgr.locks[l].shared].mask
  BY <1>2 DEF DataSound
<1>4. mgr.locks[l].shared = mgr.byId[i[2]]
  BY <1>3 DEF DataOf
<1> QED BY <1>2, <1>3, <1>4

\* The transaction of UpdateInstanceLock.
LEMMA SavedGood ==
    ASSUME Shape, Running, DataSound(mgr, db.instance), Ledger(ids, maps, mgr, db.lock),
           NEW i \in DOMAIN maps, HasResetSchedule(i[1]), maps[i].lock \in DOMAIN mgr.locks,
           NEW done \in SUBSET Encounters
    PROVE  \E gain : TransInv(Saved(i, done), i[1], i[2], gain)
<1> DEFINE d == i[1]
           id == i[2]
           had == mgr.locks[maps[i].lock].mask
           mask == had \cup done
           gain == GainedEncounters(d, done, mask)
           G == {t \in Results(i, done) : TransInv(t, d, id, gain)}
<1>1. /\ i = <<d, id>> /\ d \in Dungeons /\ id \in Ids /\ Known(ids, id) /\ DbOK(db)
      /\ MgrOK(mgr) /\ LocksKnown(mgr, ids)
  BY ShapeParts DEF MapsOK, IsMap, MapsKnown
<1>2. mask \in SUBSET Encounters
  BY <1>1 DEF MgrOK, IsMap, LockType
<1>3. IsInstanceIdBound(d) => gain = had \cup done
  BY DEF GainedEncounters, IsInstanceIdBound
<1> HIDE DEF gain
<1>4. TransInv(SavedBase(i, done), d, id, gain)
  <2>1. TransOK(Begin) /\ Begin.ok /\ Begin.mgr = mgr
    BY <1>1, BeginOK
  <2>2. CASE IsInstanceIdBound(d)
    <3> DEFINE r == UpdateSharedInstanceLock(Begin, id, done)
    <3>1. /\ \E k \in Keys : BoundLock(mgr, k, maps[i].lock)
          /\ mgr.locks[maps[i].lock].id = id
          /\ DataOf(mgr, db.instance, id, mgr.byId[id])
          /\ had \subseteq mgr.shared[mgr.byId[id]].mask
      BY <2>2, MapData
    <3>2. TransGood(Begin, d, id, had) /\ ErasedStale(Begin)
      BY <3>1, BeginGood
    <3>3. TransOK(r) /\ (r = [Begin EXCEPT !.ok = FALSE] \/ Shares(Begin, r, id, done))
      BY <1>1, <2>1, UpdateSharedIs
    <3>4. SavedBase(i, done) = r
      BY <2>2 DEF SavedBase
    <3> HIDE DEF r, had
    <3>5. CASE r = [Begin EXCEPT !.ok = FALSE]
      <4>1. r.ok = FALSE /\ r.erased = Begin.erased
        BY <3>5 DEF Begin
      <4> QED BY <3>2, <3>3, <3>4, <4>1 DEF TransInv, ErasedStale
    <3>6. CASE Shares(Begin, r, id, done)
      <4>1. \E k \in Keys, l \in DOMAIN Begin.mgr.locks : BoundLock(Begin.mgr, k, l) /\ Begin.mgr.locks[l].id = id
        BY <2>1, <3>1
      <4>2. TransGood(r, d, id, gain) /\ ErasedStale(r)
        BY <1>1, <1>3, <2>2, <3>2, <3>6, <4>1, SharesGood
      <4> QED BY <3>3, <3>4, <4>2 DEF TransInv
    <3> QED BY <3>3, <3>5, <3>6
  <2>3. CASE ~IsInstanceIdBound(d)
    <3>1. SavedBase(i, done) = Begin
      BY <2>3 DEF SavedBase
    <3>2. TransGood(Begin, d, id, gain) /\ ErasedStale(Begin)
      BY <2>3, BeginGood
    <3> QED BY <2>1, <3>1, <3>2 DEF TransInv
  <2> QED BY <2>2, <2>3
<1>5. ASSUME NEW p \in Inside(i), NEW t \in G PROVE TransInv(SavedStep(i, done, p, t), d, id, gain)
  <2>1. p \in Players /\ TransInv(t, d, id, gain) /\ <<d, id>> \in DOMAIN maps
    BY <1>1 DEF Inside
  <2>2. SavedStep(i, done, p, t) = UpdateInstanceLockForPlayer(t, p, d, id, done, mask)
    BY DEF SavedStep
  <2> HIDE DEF mask, d, id
  <2>3. HasResetSchedule(d)
    BY DEF d
  <2> QED BY <1>1, <1>2, <2>1, <2>2, <2>3, UpdateGood DEF gain
<1>6. Saved(i, done) \in G
  <2>1. SavedBase(i, done) \in Results(i, done) => SavedBase(i, done) \in G
    BY <1>4
  <2>2. \A p \in Inside(i) : \A t \in G :
              SavedStep(i, done, p, t) \in Results(i, done) => SavedStep(i, done, p, t) \in G
    BY <1>5
  <2> HIDE DEF G
  <2> QED BY <2>1, <2>2, SavedInduction
<1> QED BY <1>6

\* The transaction of ConfirmPendingBind.
LEMMA BoundGood ==
    ASSUME Shape, Running, DataSound(mgr, db.instance), Ledger(ids, maps, mgr, db.lock),
           NEW p \in Players, Binds(p)
    PROVE  \E d, id, gain : TransInv(Bound(p), d, id, gain)
<1> DEFINE i == at[p]
           d == i[1]
           id == i[2]
           mask == mgr.locks[maps[i].lock].mask
           gain == GainedEncounters(d, {}, mask)
<1>1. /\ i \in DOMAIN maps /\ maps[i].lock \in DOMAIN mgr.locks /\ HasResetSchedule(d)
      /\ i = <<d, id>> /\ d \in Dungeons /\ id \in Ids /\ Known(ids, id) /\ DbOK(db)
      /\ MgrOK(mgr) /\ LocksKnown(mgr, ids)
  <2>1. /\ MapsOK(maps, at) /\ MapsKnown(maps, ids) /\ DbOK(db) /\ MgrOK(mgr) /\ LocksKnown(mgr, ids)
    BY ShapeParts
  <2>2. i \in DOMAIN maps /\ maps[i].lock \in DOMAIN mgr.locks /\ maps[i].lock # NoLock
    BY <2>1 DEF Binds, Dangling, MapsOK
  <2> QED BY <2>1, <2>2 DEF MapsOK, IsMap, MapsKnown
<1>2. mask \in SUBSET Encounters
  BY <1>1 DEF MgrOK, IsMap, LockType
<1>3. IsInstanceIdBound(d) => /\ DataOf(mgr, db.instance, id, mgr.byId[id])
                              /\ gain \subseteq mgr.shared[mgr.byId[id]].mask
  <2> SUFFICES ASSUME IsInstanceIdBound(d)
               PROVE  /\ DataOf(mgr, db.instance, id, mgr.byId[id])
                      /\ gain \subseteq mgr.shared[mgr.byId[id]].mask
    OBVIOUS
  <2>1. gain = mask
    BY DEF GainedEncounters, IsInstanceIdBound
  <2> QED BY <1>1, <2>1, MapData
<1>4. TransInv(Begin, d, id, gain)
  <2>1. TransOK(Begin)
    BY <1>1, BeginOK
  <2>2. TransGood(Begin, d, id, gain) /\ ErasedStale(Begin)
    <3> HIDE DEF gain, d, id
    <3> QED BY <1>3, BeginGood
  <2> QED BY <2>1, <2>2 DEF TransInv
<1>5. Bound(p) = UpdateInstanceLockForPlayer(Begin, p, d, id, {}, mask)
  BY DEF Bound
<1>6. {} \in SUBSET Encounters /\ <<d, id>> \in DOMAIN maps
  BY <1>1
<1> HIDE DEF d, id, mask
<1>7. TransInv(Bound(p), d, id, gain)
  BY <1>1, <1>2, <1>4, <1>5, <1>6, UpdateGood
<1> QED BY <1>7

\* A transaction is committed: no row is refused, and the ledger in the making is
\* the ledger.
LEMMA CommittedGood ==
    ASSUME Shape, Good, NEW t, NEW d, NEW id, NEW gain, Committed(t),
           defect = "none" => TransInv(t, d, id, gain)
    PROVE  Good'
<1>1. /\ Running /\ TransOK(t) /\ t.ok /\ mgr' = t.mgr /\ db' = CommitTransaction(t)
      /\ up' = up /\ ids' = ids /\ maps' = maps /\ kind' = kind /\ defect' = defect
  BY DEF Committed, bounds
<1> SUFFICES ASSUME defect' = "none"
             PROVE  /\ DataSound(mgr', db'.instance) /\ Tables(db'.lock, db'.instance)
                    /\ Ledger(ids', maps', mgr', db'.lock)
  BY <1>1, GoodNext
<1>2. Ledger(ids, maps, mgr, db.lock) /\ TransGood(t, d, id, gain) /\ DbOK(db)
  BY <1>1, ShapeParts DEF Good, TransInv
<1>3. Distinct(maps, t.mgr, TransRows(t)) /\ Taken(ids, maps, t.mgr, TransRows(t))
  <2>1. \A e, h : Used(maps, t.mgr, TransRows(t), e, h) => Used(maps, mgr, db.lock, e, h)
    BY <1>2 DEF TransGood
  <2> QED BY <1>2, <2>1, UsesKeep DEF Ledger
<1>4. MgrOK(t.mgr) /\ IsMap(TransRows(t), Keys, RowType)
  <2>1. IsMap(t.lock, Keys, RowType) /\ IsMap(db.lock, Keys, RowType) /\ MgrOK(t.mgr)
    BY <1>1, <1>2 DEF TransOK, DbOK
  <2> QED BY <2>1, OverlayMap DEF TransRows
<1>5. Tables(TransRows(t), TransInst(t))
  BY <1>2, <1>3, <1>4, TablesFollow DEF TransGood
<1>6. ~HasDuplicate(TransRows(t))
  BY <1>5 DEF HasDuplicate, Tables
<1>7. db'.lock = TransRows(t) /\ db'.instance = TransInst(t)
  BY <1>1, <1>6 DEF CommitTransaction, TransRows, TransInst
<1> QED BY <1>1, <1>2, <1>3, <1>5, <1>7 DEF Ledger, TransGood
-----------------------------------------------------------------------------
(* The invariant of every step, and what follows from it.                   *)

\* Where the process dies within a step the rows of instance already deleted on
\* their own belonged to stale locks.
LEMMA DiesGood ==
    ASSUME Shape, Good, NEW t, NEW erased \in {{}, t.erased}, DiedWith(erased),
           defect = "none" => ErasedStale(t)
    PROVE  Good'
<1>1. defect = "none" =>
        \A k \in DOMAIN db.lock : IsInstanceIdBound(k[2]) /\ db.lock[k].id \in erased =>
                                     ~RowActive(db.lock[k])
  BY DEF ErasedStale
<1> QED BY <1>1, DiedGood

\* Every step keeps the invariant.
LEMMA GoodStep ==
    ASSUME Shape, Shape', Good, Step
    PROVE  Good'
<1>0. Good /\ defect = "none" /\ Running =>
        DataSound(mgr, db.instance) /\ Ledger(ids, maps, mgr, db.lock)
  BY DEF Good
<1>1. ASSUME NEW p \in Players, NEW d \in Dungeons, Enter(p, d), Entered(p, d, CreateMap(p, d)) PROVE Good'
  BY <1>1, EnteredGood DEF Enter
<1>2. ASSUME NEW i \in DOMAIN maps, Unloaded(i) PROVE Good'
  BY <1>2, UnloadedGood
<1>3. ASSUME NEW i \in DOMAIN maps, NEW done \in SUBSET Encounters, Saves(i, done) PROVE Good'
  <2>1. Running /\ HasResetSchedule(i[1]) /\ maps[i].lock \in DOMAIN mgr.locks
    BY <1>3 DEF Saves
  <2>2. PICK gain : defect = "none" => TransInv(Saved(i, done), i[1], i[2], gain)
    BY <1>0, <2>1, SavedGood
  <2>3. defect = "none" => ErasedStale(Saved(i, done))
    BY <2>2 DEF TransInv
  <2>4. CASE Committed(Saved(i, done))
    BY <2>2, <2>4, CommittedGood
  <2>5. CASE DiedWith({}) \/ DiedWith(Saved(i, done).erased)
    BY <2>3, <2>5, DiesGood
  <2> QED BY <1>3, <2>4, <2>5 DEF Saves
<1>4. ASSUME NEW p \in Players, Confirms(p) PROVE Good'
  <2>1. Running /\ Binds(p)
    BY <1>4 DEF Confirms
  <2>2. PICK d, id, gain : defect = "none" => TransInv(Bound(p), d, id, gain)
    BY <1>0, <2>1, BoundGood
  <2>3. defect = "none" => ErasedStale(Bound(p))
    BY <2>2 DEF TransInv
  <2>4. CASE Committed(Bound(p))
    BY <2>2, <2>4, CommittedGood
  <2>5. CASE DiedWith({}) \/ DiedWith(Bound(p).erased)
    BY <2>3, <2>5, DiesGood
  <2> QED BY <1>4, <2>4, <2>5 DEF Confirms
<1>5. ASSUME DiedWith({}) PROVE Good'
  BY <1>5, DiedGood
<1> QED
  BY <1>1, <1>2, <1>3, <1>4, <1>5, QuietGood, ReflaggedGood, RestartedGood DEF Step

\* Both invariants are inductive together.
LEMMA SoundStep == Shape /\ Good /\ [Next]_vars => Shape' /\ Good'
<1>1. ASSUME Shape, Good, Next PROVE Shape' /\ Good'
  BY <1>1, StepOK, GoodStep
<1>2. ASSUME Shape, Good, UNCHANGED vars PROVE Shape' /\ Good'
  <2>1. UNCHANGED <<up, ids, mgr, maps, db, kind, defect>>
    BY <1>2 DEF vars, memory, bounds
  <2>2. Good'
    BY <1>2, <2>1, GoodNext DEF Good, Running
  <2> QED BY <1>2, <2>2, ShapeStep
<1> QED BY <1>1, <1>2

\* The two invariants hold together in every reachable state.
THEOREM Soundness == Spec => [](Shape /\ Good)
<1>1. Init => Shape /\ Good
  BY InitShape, InitGood
<1> QED BY <1>1, SoundStep, PTL DEF Spec

\* Whatever the locks of the manager and the maps use is used.
LEMMA LockedUse ==
    ASSUME Shape, NEW k, NEW l, <<k, l>> \in Locked
    PROVE  /\ k \in Keys /\ k[2] \in Dungeons /\ l \in DOMAIN mgr.locks /\ mgr.locks[l].id \in Ids
           /\ HasLock(mgr, k, l) /\ Used(maps, mgr, db.lock, k[2], mgr.locks[l].id)
<1>0. MgrOK(mgr)
  BY DEF Shape
<1>1. HasLock(mgr, k, l)
  BY DEF Locked, HasLock
<1>2. k \in Keys /\ l \in DOMAIN mgr.locks
  BY <1>0, <1>1 DEF HasLock, MgrOK, IsMap
<1>3. k[2] \in Dungeons
  BY <1>2 DEF Keys
<1>4. mgr.locks[l].id \in Ids
  BY <1>0, <1>2 DEF MgrOK, IsMap, LockType
<1>5. Used(maps, mgr, db.lock, k[2], mgr.locks[l].id)
  BY <1>1, <1>2 DEF Used
<1> QED BY <1>1, <1>2, <1>3, <1>4, <1>5

\* The invariants imply that an id means one instance,
LEMMA OneInstance ==
    ASSUME Shape, Good
    PROVE  OneInstancePerId
<1> SUFFICES ASSUME defect = "none", up = "running"
             PROVE  /\ \A u, v \in Uses : u[2] = v[2] => u = v
                    /\ \A u \in Uses : u[2] \notin ids.free
                    /\ \A k, j \in Locked :
                          (/\ IsInstanceIdBound(k[1][2])
                           /\ mgr.locks[k[2]].id = mgr.locks[j[2]].id)
                          => mgr.locks[k[2]].shared = mgr.locks[j[2]].shared
  BY DEF OneInstancePerId
<1>1. /\ DataSound(mgr, db.instance)
      /\ Distinct(maps, mgr, db.lock) /\ Taken(ids, maps, mgr, db.lock)
  BY DEF Good, Running, Ledger
<1>2. \A k \in Locked : k = <<k[1], k[2]>>
  BY DEF Locked
<1>3. ASSUME NEW u \in Uses
      PROVE  /\ u = <<u[1], u[2]>> /\ u[1] \in Dungeons /\ u[2] \in Ids
             /\ Used(maps, mgr, db.lock, u[1], u[2])
  <2>1. CASE u \in DOMAIN maps
    <3>1. u \in Dungeons \X Ids
      BY <2>1 DEF Shape, MapsOK, IsMap
    <3>2. u = <<u[1], u[2]>> /\ u[1] \in Dungeons /\ u[2] \in Ids
      BY <3>1
    <3> QED BY <2>1, <3>2 DEF Used
  <2>2. CASE u \notin DOMAIN maps
    <3>1. PICK kl \in Locked : u = <<kl[1][2], mgr.locks[kl[2]].id>>
      BY <2>2 DEF Uses
    <3>2. /\ kl[1][2] \in Dungeons /\ mgr.locks[kl[2]].id \in Ids
          /\ Used(maps, mgr, db.lock, kl[1][2], mgr.locks[kl[2]].id)
      BY <1>2, <3>1, LockedUse
    <3> QED BY <3>1, <3>2
  <2> QED BY <2>1, <2>2
<1>4. ASSUME NEW u \in Uses, NEW v \in Uses, u[2] = v[2] PROVE u = v
  <2>1. u[1] = v[1]
    BY <1>1, <1>3, <1>4 DEF Distinct
  <2> QED BY <1>3, <1>4, <2>1
<1>5. ASSUME NEW u \in Uses PROVE u[2] \notin ids.free
  BY <1>1, <1>3 DEF Taken
<1>6. ASSUME NEW k \in Locked, NEW j \in Locked, IsInstanceIdBound(k[1][2]),
             mgr.locks[k[2]].id = mgr.locks[j[2]].id
      PROVE  mgr.locks[k[2]].shared = mgr.locks[j[2]].shared
  <2> DEFINE a == k[1]
             b == j[1]
             y == k[2]
             z == j[2]
  <2>1. /\ a \in Keys /\ a[2] \in Dungeons /\ y \in DOMAIN mgr.locks /\ mgr.locks[y].id \in Ids
        /\ HasLock(mgr, a, y) /\ Used(maps, mgr, db.lock, a[2], mgr.locks[y].id)
    BY <1>2, LockedUse
  <2>2. /\ b \in Keys /\ b[2] \in Dungeons /\ z \in DOMAIN mgr.locks
        /\ HasLock(mgr, b, z) /\ Used(maps, mgr, db.lock, b[2], mgr.locks[z].id)
    BY <1>2, LockedUse
  <2>3. IsInstanceIdBound(a[2]) /\ mgr.locks[y].id = mgr.locks[z].id
    BY <1>6
  <2> HIDE DEF a, b, y, z
  <2>4. a[2] = b[2]
    BY <1>1, <2>1, <2>2, <2>3 DEF Distinct
  <2>5. BoundLock(mgr, a, y) /\ BoundLock(mgr, b, z)
    BY <2>1, <2>2, <2>3, <2>4 DEF BoundLock
  <2>6. mgr.byId[mgr.locks[y].id] = mgr.locks[y].shared /\ mgr.byId[mgr.locks[z].id] = mgr.locks[z].shared
    BY <1>1, <2>1, <2>2, <2>5 DEF DataSound, DataOf
  <2>7. mgr.locks[y].shared = mgr.locks[z].shared
    BY <2>3, <2>6
  <2> QED BY <2>7 DEF y, z
<1> QED BY <1>4, <1>5, <1>6

\* ... and that shared data is ahead of the players' locks.
LEMMA SharedLeads ==
    ASSUME Shape, Good
    PROVE  SharedStateLeads
<1> SUFFICES ASSUME defect = "none"
             PROVE  /\ \A k \in DOMAIN mgr.perm :
                          IsInstanceIdBound(k[2]) =>
                            mgr.locks[mgr.perm[k]].mask
                              \subseteq mgr.shared[mgr.locks[mgr.perm[k]].shared].mask
                    /\ \A k \in DOMAIN db.lock :
                          IsInstanceIdBound(k[2]) /\ db.lock[k].id \in DOMAIN db.instance =>
                              db.lock[k].mask \subseteq db.instance[db.lock[k].id]
  BY DEF SharedStateLeads
<1>1. DataSound(mgr, db.instance) /\ Tables(db.lock, db.instance)
  BY DEF Good
<1>2. ASSUME NEW k \in DOMAIN mgr.perm, IsInstanceIdBound(k[2])
      PROVE  mgr.locks[mgr.perm[k]].mask \subseteq mgr.shared[mgr.locks[mgr.perm[k]].shared].mask
  <2>1. k \in Keys /\ mgr.perm[k] \in DOMAIN mgr.locks
    BY DEF Shape, MgrOK, IsMap
  <2>2. BoundLock(mgr, k, mgr.perm[k])
    BY <1>2 DEF BoundLock, HasLock
  <2> QED BY <1>1, <2>1, <2>2 DEF DataSound
<1>3. \A k \in DOMAIN db.lock :
        IsInstanceIdBound(k[2]) /\ db.lock[k].id \in DOMAIN db.instance =>
            db.lock[k].mask \subseteq db.instance[db.lock[k].id]
  BY <1>1 DEF Tables
<1> QED BY <1>2, <1>3

\* An instance id in use is taken in the bitmap and means one instance: the maps,
\* locks and rows of two dungeons never share one, and all locks bound to an id
\* share its data.
THEOREM IdsMeanOneInstance == Spec => []OneInstancePerId
<1>1. Shape /\ Good => OneInstancePerId
  BY OneInstance
<1> QED BY <1>1, Soundness, PTL

\* No player's lock is ahead of the shared data of its id, in memory and in the
\* tables.
THEOREM SharedDataLeads == Spec => []SharedStateLeads
<1>1. Shape /\ Good => SharedStateLeads
  BY SharedLeads
<1> QED BY <1>1, Soundness, PTL

\* The row of an active lock with completed encounters has its instance row at
\* every point where the process may end, so the next Load keeps it.
THEOREM ProgressIsKept == Spec => []ProgressSurvives
<1>1. Shape /\ Good => ProgressSurvives
  BY DEF Good, Tables, RowActive, ProgressSurvives
<1> QED BY <1>1, Soundness, PTL
-----------------------------------------------------------------------------
(* Which locks a step deletes.                                              *)

\* What updates leave of the locks of mgr: a player whose lock is expired was not
\* updated, and a lock that is gone was stale and its player was.
StaleOnly(m) ==
    /\ DOMAIN mgr.perm \subseteq DOMAIN m.perm
    /\ \A k \in DOMAIN m.perm : m.locks[m.perm[k]].expired =>
          /\ k \in DOMAIN mgr.perm /\ m.perm[k] = mgr.perm[k]
          /\ m.locks[m.perm[k]] = mgr.locks[m.perm[k]]
    /\ \A z \in DOMAIN mgr.locks \ DOMAIN m.locks :
          /\ mgr.locks[z].expired /\ ~mgr.locks[z].extended
          /\ \E k \in DOMAIN mgr.perm : mgr.perm[k] = z /\ ~m.locks[m.perm[k]].expired

\* The update of one player's lock.
LEMMA MovesStale ==
    ASSUME NEW t, NEW r, NEW k \in Keys, NEW id, NEW gain, NEW l, NEW old, NEW new,
           TransOK(t), Moves(t, r, k, id, gain, l, old, new), StaleOnly(t.mgr)
    PROVE  StaleOnly(r.mgr)
<1> DEFINE m == t.mgr
           n == r.mgr
           dead == Dead(m, k, l)
<1>1. /\ OneOwner(m) /\ \A j \in DOMAIN m.perm : m.perm[j] \in DOMAIN m.locks
      /\ \A j \in DOMAIN m.temp : m.temp[j] \in DOMAIN m.locks
  BY DEF TransOK, MgrOK, IsMap
<1>2. /\ Kept(m, n, k, l, old) \/ Promoted(m, n, k, l, old) \/ Created(m, n, k, id, l, old)
      /\ n.perm = Put(m.perm, k, l)
      /\ DOMAIN n.locks = (DOMAIN m.locks \cup {l}) \ dead
      /\ n.locks[l] = new /\ new.expired = FALSE
      /\ \A z \in DOMAIN n.locks : z # l => n.locks[z] = m.locks[z]
  BY DEF Moves, Refreshed
<1>3. StaleOnly(m)
  OBVIOUS
<1> HIDE DEF m, n
<1>4. /\ DOMAIN n.perm = DOMAIN m.perm \cup {k} /\ n.perm[k] = l
      /\ \A j \in DOMAIN m.perm : j # k => n.perm[j] = m.perm[j]
  BY <1>2 DEF Put
<1>5. \A z \in dead : k \in DOMAIN m.perm /\ z = m.perm[k] /\ z # l
  BY DEF Dead
<1>6. ASSUME NEW j \in DOMAIN m.perm, j # k
      PROVE  m.perm[j] # l /\ m.perm[j] \in DOMAIN n.locks /\ n.locks[m.perm[j]] = m.locks[m.perm[j]]
  <2>1. m.perm[j] # l
    <3>1. CASE k \in DOMAIN m.perm /\ l = m.perm[k]
      BY <1>1, <1>6, <3>1 DEF OneOwner
    <3>2. CASE k \in DOMAIN m.temp /\ l = m.temp[k]
      BY <1>1, <3>2 DEF OneOwner
    <3>3. CASE l \notin DOMAIN m.locks
      BY <1>1, <3>3
    <3> QED BY <1>2, <3>1, <3>2, <3>3 DEF Kept, Promoted, Created
  <2>2. m.perm[j] \notin dead
    BY <1>1, <1>5, <1>6 DEF OneOwner
  <2> QED BY <1>1, <1>2, <2>1, <2>2
<1>7. ASSUME NEW j \in DOMAIN n.perm, n.locks[n.perm[j]].expired
      PROVE  /\ j \in DOMAIN mgr.perm /\ n.perm[j] = mgr.perm[j]
             /\ n.locks[n.perm[j]] = mgr.locks[n.perm[j]]
  <2>1. j # k
    BY <1>2, <1>4, <1>7
  <2>2. j \in DOMAIN m.perm /\ n.perm[j] = m.perm[j]
    BY <1>4, <2>1
  <2>3. n.locks[m.perm[j]] = m.locks[m.perm[j]]
    BY <1>6, <2>1, <2>2
  <2> QED BY <1>3, <1>7, <2>2, <2>3 DEF StaleOnly
<1>8. ASSUME NEW z \in DOMAIN mgr.locks \ DOMAIN n.locks
      PROVE  /\ mgr.locks[z].expired /\ ~mgr.locks[z].extended
             /\ \E j \in DOMAIN mgr.perm : mgr.perm[j] = z /\ ~n.locks[n.perm[j]].expired
  <2>1. CASE z \notin DOMAIN m.locks
    <3>1. PICK j \in DOMAIN mgr.perm : mgr.perm[j] = z /\ ~m.locks[m.perm[j]].expired
      BY <1>3, <2>1 DEF StaleOnly
    <3>2. mgr.locks[z].expired /\ ~mgr.locks[z].extended
      BY <1>3, <2>1 DEF StaleOnly
    <3>3. j \in DOMAIN m.perm
      BY <1>3 DEF StaleOnly
    <3>4. ~n.locks[n.perm[j]].expired
      <4>1. CASE j = k
        BY <1>2, <1>4, <4>1
      <4>2. CASE j # k
        BY <1>4, <1>6, <3>1, <3>3, <4>2
      <4> QED BY <4>1, <4>2
    <3> QED BY <3>1, <3>2, <3>4
  <2>2. CASE z \in DOMAIN m.locks
    <3>1. z \in dead
      BY <1>2, <2>2
    <3>2. k \in DOMAIN m.perm /\ z = m.perm[k] /\ z # l
      BY <1>5, <3>1
    <3>3. ~IsActive(m.locks[m.perm[k]])
      BY <1>2, <3>2 DEF Kept, Promoted, Created, Replaces
    <3>4. m.locks[z].expired /\ ~m.locks[z].extended
      BY <3>2, <3>3 DEF IsActive
    <3>5. k \in DOMAIN mgr.perm /\ mgr.perm[k] = z /\ m.locks[z] = mgr.locks[z]
      BY <1>3, <3>2, <3>4 DEF StaleOnly
    <3>6. ~n.locks[n.perm[k]].expired
      BY <1>2, <1>4
    <3> QED BY <3>4, <3>5, <3>6
  <2> QED BY <2>1, <2>2
<1>9. DOMAIN mgr.perm \subseteq DOMAIN n.perm
  BY <1>3, <1>4 DEF StaleOnly
<1>10. StaleOnly(n)
  BY <1>7, <1>8, <1>9 DEF StaleOnly
<1> QED BY <1>10 DEF n

\* The transaction of UpdateInstanceLock.
LEMMA SavedStale ==
    ASSUME MgrOK(mgr), LocksKnown(mgr, ids), MapsOK(maps, at), MapsKnown(maps, ids),
           NEW i \in DOMAIN maps, HasResetSchedule(i[1]), maps[i].lock \in DOMAIN mgr.locks,
           NEW done \in SUBSET Encounters
    PROVE  StaleOnly(Saved(i, done).mgr)
<1> DEFINE G == {t \in Results(i, done) : TransOK(t) /\ StaleOnly(t.mgr)}
           mask == mgr.locks[maps[i].lock].mask \cup done
<1>1. i[1] \in Dungeons /\ i[2] \in Ids /\ Known(ids, i[2]) /\ IsFiniteSet(DOMAIN maps)
  BY DEF MapsOK, IsMap, MapsKnown
<1>2. mask \in SUBSET Encounters
  BY DEF MgrOK, IsMap, LockType
<1>3. TransOK(SavedBase(i, done)) /\ StaleOnly(SavedBase(i, done).mgr)
  <2> DEFINE r == UpdateSharedInstanceLock(Begin, i[2], done)
  <2>1. TransOK(Begin) /\ Begin.mgr = mgr
    BY BeginOK
  <2>2. StaleOnly(mgr)
    BY DEF StaleOnly
  <2>3. TransOK(r) /\ (r = [Begin EXCEPT !.ok = FALSE] \/ Shares(Begin, r, i[2], done))
    BY <1>1, <2>1, UpdateSharedIs
  <2>4. SavedBase(i, done) = IF IsInstanceIdBound(i[1]) THEN r ELSE Begin
    BY DEF SavedBase
  <2>5. [Begin EXCEPT !.ok = FALSE].mgr = Begin.mgr
    BY <2>1, GivesUpOK
  <2> HIDE DEF r
  <2>6. r.mgr.locks = mgr.locks /\ r.mgr.perm = mgr.perm
    BY <2>1, <2>3, <2>5 DEF Shares
  <2>7. StaleOnly(r.mgr)
    BY <2>2, <2>6 DEF StaleOnly
  <2> QED BY <2>1, <2>2, <2>3, <2>4, <2>7
<1>4. ASSUME NEW p \in Inside(i), NEW t \in G
      PROVE  TransOK(SavedStep(i, done, p, t)) /\ StaleOnly(SavedStep(i, done, p, t).mgr)
  <2> DEFINE r == SavedStep(i, done, p, t)
  <2>0. TransOK(t) /\ StaleOnly(t.mgr) /\ p \in Players /\ <<p, i[1]>> \in Keys
    BY <1>1 DEF Inside, Keys
  <2> HIDE DEF mask, G
  <2>1. \/ r = [t EXCEPT !.ok = FALSE]
        \/ \E l, old, new : Moves(t, r, <<p, i[1]>>, i[2], GainedEncounters(i[1], done, mask), l, old, new)
    BY <1>1, <1>2, <2>0, UpdateIs DEF SavedStep, mask
  <2> HIDE DEF r
  <2>2. ASSUME r = [t EXCEPT !.ok = FALSE] PROVE TransOK(r) /\ StaleOnly(r.mgr)
    BY <2>0, <2>2, GivesUpOK
  <2>3. ASSUME NEW l, NEW old, NEW new,
               Moves(t, r, <<p, i[1]>>, i[2], GainedEncounters(i[1], done, mask), l, old, new)
        PROVE  TransOK(r) /\ StaleOnly(r.mgr)
    BY <1>1, <2>0, <2>3, MovesOK, MovesStale
  <2> QED BY <2>1, <2>2, <2>3 DEF r
<1>5. Saved(i, done) \in G
  <2>1. SavedBase(i, done) \in Results(i, done) => SavedBase(i, done) \in G
    BY <1>3
  <2>2. \A p \in Inside(i) : \A t \in G :
              SavedStep(i, done, p, t) \in Results(i, done) => SavedStep(i, done, p, t) \in G
    BY <1>4
  <2> HIDE DEF G
  <2> QED BY <2>1, <2>2, SavedInduction
<1> QED BY <1>5

\* ... and the one of ConfirmPendingBind.
LEMMA BoundStale ==
    ASSUME MgrOK(mgr), LocksKnown(mgr, ids), MapsOK(maps, at), MapsKnown(maps, ids),
           NEW p \in Players, Binds(p)
    PROVE  StaleOnly(Bound(p).mgr)
<1> DEFINE gain == GainedEncounters(at[p][1], {}, mgr.locks[maps[at[p]].lock].mask)
<1>1. /\ <<p, at[p][1]>> \in Keys
      /\ \/ Bound(p) = [Begin EXCEPT !.ok = FALSE]
         \/ \E l, old, new : Moves(Begin, Bound(p), <<p, at[p][1]>>, at[p][2], gain, l, old, new)
  BY BoundOK DEF Binds
<1>2. TransOK(Begin) /\ Begin.mgr = mgr /\ [Begin EXCEPT !.ok = FALSE].mgr = mgr
  BY BeginOK, GivesUpOK
<1>3. StaleOnly(Begin.mgr)
  BY <1>2 DEF StaleOnly
<1> HIDE DEF gain
<1>4. CASE Bound(p) = [Begin EXCEPT !.ok = FALSE]
  BY <1>2, <1>3, <1>4
<1>5. CASE \E l, old, new : Moves(Begin, Bound(p), <<p, at[p][1]>>, at[p][2], gain, l, old, new)
  BY <1>1, <1>2, <1>3, <1>5, MovesStale
<1> QED BY <1>1, <1>4, <1>5

\* Entering deletes nothing.
LEMMA EnteredKeeps ==
    ASSUME Shape, NEW p \in Players, NEW d \in Dungeons, Entered(p, d, CreateMap(p, d))
    PROVE  DOMAIN mgr.locks \subseteq DOMAIN mgr'.locks
<1> DEFINE c == CreateMap(p, d)
           k == <<OwnerOf(p, d), d>>
<1>1. UsesFound(c, k, d) \/ RenamesFound(c, k, d) \/ NeedsNoLock(c, k, d) \/ MakesLock(c, k, d)
  BY CreateMapIs
<1>2. DOMAIN mgr'.locks = DOMAIN c.mgr.locks
  BY DEF Entered, Flagged, Touched
<1> HIDE DEF c, k
<1>3. DOMAIN mgr.locks \subseteq DOMAIN c.mgr.locks
  BY <1>1 DEF UsesFound, RenamesFound, NeedsNoLock, MakesLock, Renamed, NewTemporary, Put
<1> QED BY <1>2, <1>3

\* What a step of the running server deletes.
LEMMA DeletesStale ==
    ASSUME Shape, Step, up = "running", up' = "running",
           NEW l \in DOMAIN mgr.locks \ DOMAIN mgr'.locks
    PROVE  /\ mgr.locks[l].expired /\ ~mgr.locks[l].extended
           /\ \E k \in DOMAIN mgr.perm : mgr.perm[k] = l /\ ~mgr'.locks[mgr'.perm[k]].expired
<1>0. /\ MgrOK(mgr) /\ LocksKnown(mgr, ids) /\ MapsOK(maps, at) /\ MapsKnown(maps, ids)
      /\ Running
  BY ShapeParts DEF Running
<1>1. \A p \in Players, d \in Dungeons : ~Entered(p, d, CreateMap(p, d))
  BY EnteredKeeps
<1>2. ~Quiet /\ ~Reflagged /\ \A i \in DOMAIN maps : ~Unloaded(i)
  BY DEF Quiet, Reflagged, Unloaded, Flagged, Touched
<1>3. ~Restarted /\ \A erased : ~DiedWith(erased)
  BY <1>0 DEF Restarted, DiedWith
<1>4. StaleOnly(mgr')
  <2>1. ASSUME NEW i \in DOMAIN maps, NEW done \in SUBSET Encounters, Saves(i, done) PROVE StaleOnly(mgr')
    <3>1. Committed(Saved(i, done)) /\ HasResetSchedule(i[1]) /\ maps[i].lock \in DOMAIN mgr.locks
      BY <1>3, <2>1 DEF Saves
    <3>2. mgr' = Saved(i, done).mgr
      BY <3>1 DEF Committed
    <3> QED BY <1>0, <3>1, <3>2, SavedStale
  <2>2. ASSUME NEW p \in Players, Confirms(p) PROVE StaleOnly(mgr')
    <3>1. Committed(Bound(p)) /\ Binds(p)
      BY <1>3, <2>2 DEF Confirms
    <3>2. mgr' = Bound(p).mgr
      BY <3>1 DEF Committed
    <3> QED BY <1>0, <3>1, <3>2, BoundStale
  <2> QED BY <1>1, <1>2, <1>3, <2>1, <2>2 DEF Step
<1> QED BY <1>4 DEF StaleOnly

\* While the server runs only a lock that expired and was not extended is deleted,
\* and only where its player is saved to another instance
\* (UpdateInstanceLockForPlayer), however many players one transaction is about.
THEOREM DeletedLocksAreStale == Spec => OnlyStaleLocksDeleted
<1>1. Shape /\ [Next]_vars =>
        [up = "running" /\ up' = "running" =>
          \A l \in DOMAIN mgr.locks \ DOMAIN mgr'.locks :
              /\ mgr.locks[l].expired /\ ~mgr.locks[l].extended
              /\ \E k \in DOMAIN mgr.perm : mgr.perm[k] = l /\ ~mgr'.locks[mgr'.perm[k]].expired]_vars
  BY StepOK, DeletesStale
<1> QED BY <1>1, ShapeHolds, PTL DEF Spec, OnlyStaleLocksDeleted
-----------------------------------------------------------------------------
(* Whose instance a player enters.                                          *)

\* A manager with the same locks for every key finds the same lock.
SameLocks(m, n) ==
    /\ n.perm = m.perm /\ n.temp = m.temp
    /\ \A l \in DOMAIN m.locks : /\ n.locks[l].expired = m.locks[l].expired
                                 /\ n.locks[l].extended = m.locks[l].extended

Finds(m, p, d) == FindActiveInstanceLock(m, p, d, FALSE)

\* It finds the same lock.
LEMMA FindsSame ==
    ASSUME NEW m, NEW n, MgrOK(m), SameLocks(m, n), NEW p, NEW d
    PROVE  Finds(n, p, d) = Finds(m, p, d)
<1>1. \A k \in DOMAIN m.perm : m.perm[k] \in DOMAIN m.locks
  BY DEF MgrOK, IsMap
<1> QED BY <1>1 DEF SameLocks, Finds, FindActiveInstanceLock, FindInstanceLock, IsActive

\* Whoever CreateMap finds or makes a lock for has it afterwards.
LEMMA CreateFinds ==
    ASSUME MgrOK(mgr), NEW c, NEW k \in Keys, NEW d, k[2] = d,
           UsesFound(c, k, d) \/ RenamesFound(c, k, d) \/ MakesLock(c, k, d)
    PROVE  FindActiveInstanceLock(c.mgr, k[1], d, FALSE) = c.lock /\ c.lock # NoLock
<1>0. k = <<k[1], d>>
  BY DEF Keys
<1>1. CASE UsesFound(c, k, d)
  BY <1>1 DEF UsesFound
<1>2. CASE RenamesFound(c, k, d)
  <2>1. /\ c.mgr.perm = mgr.perm /\ c.mgr.temp = mgr.temp
        /\ c.lock = FindActiveInstanceLock(mgr, k[1], d, FALSE) /\ c.lock # NoLock
    BY <1>2 DEF RenamesFound, Renamed
  <2>2. \A l \in DOMAIN mgr.locks : /\ c.mgr.locks[l].expired = mgr.locks[l].expired
                                    /\ c.mgr.locks[l].extended = mgr.locks[l].extended
    BY <1>2 DEF RenamesFound, Renamed
  <2>3. FindActiveInstanceLock(c.mgr, k[1], d, FALSE) = FindActiveInstanceLock(mgr, k[1], d, FALSE)
    <3>1. SameLocks(mgr, c.mgr)
      BY <2>1, <2>2 DEF SameLocks
    <3>2. Finds(c.mgr, k[1], d) = Finds(mgr, k[1], d)
      BY <3>1, FindsSame
    <3> QED BY <3>2 DEF Finds
  <2> QED BY <2>1, <2>3
<1>3. CASE MakesLock(c, k, d)
  <2>1. /\ c.mgr.perm = mgr.perm /\ c.mgr.temp = Put(mgr.temp, k, c.lock)
        /\ c.mgr.locks = Put(mgr.locks, c.lock, c.mgr.locks[c.lock])
        /\ c.lock \in Addresses /\ c.lock \notin DOMAIN mgr.locks
    BY <1>3 DEF MakesLock, NewTemporary
  <2>2. k \in DOMAIN c.mgr.temp /\ c.mgr.temp[k] = c.lock
    BY <2>1 DEF Put
  <2>3. \A z \in DOMAIN mgr.locks : c.mgr.locks[z] = mgr.locks[z]
    BY <2>1 DEF Put
  <2>4. k \in DOMAIN mgr.perm => mgr.perm[k] \in DOMAIN mgr.locks /\ ~IsActive(mgr.locks[mgr.perm[k]])
    <3>1. FindActiveInstanceLock(mgr, k[1], d, FALSE) = NoLock
      BY <1>3 DEF MakesLock
    <3>2. <<k[1], d>> \in DOMAIN mgr.perm => ~IsActive(mgr.locks[mgr.perm[<<k[1], d>>]])
      BY <3>1, FindActiveIs
    <3> QED BY <1>0, <3>2 DEF MgrOK, IsMap
  <2>5. k \in DOMAIN c.mgr.perm => ~IsActive(c.mgr.locks[c.mgr.perm[k]])
    BY <2>1, <2>3, <2>4
  <2>6. FindActiveInstanceLock(c.mgr, k[1], d, FALSE) = c.lock
    BY <1>0, <2>2, <2>5 DEF FindActiveInstanceLock, FindInstanceLock
  <2>7. c.lock # NoLock
    BY <2>1, InstanceLocksAssumption
  <2> QED BY <2>6, <2>7
<1> QED BY <1>1, <1>2, <1>3

\* The instance of a map belongs to the lock of the player, or of his group.
Owns(own, i) ==
    IF ~HasResetSchedule(i[1]) THEN maps'[i].lock = NoLock
    ELSE IF IsInstanceIdBound(i[1])
         THEN mgr'.locks[own].shared = mgr'.locks[maps'[i].lock].shared
         ELSE own = maps'[i].lock

\* The map a player is sent to has his lock, or shares its data.
LEMMA EnteredOwns ==
    ASSUME Shape, Shape', Good, Running, NEW p \in Players, NEW d \in Dungeons,
           Entered(p, d, CreateMap(p, d)), defect' = "none"
    PROVE  Owns(FindActiveInstanceLock(mgr', OwnerOf(p, d), d, FALSE), <<d, CreateMap(p, d).id>>)
<1> DEFINE c == CreateMap(p, d)
           k == <<OwnerOf(p, d), d>>
           i == <<d, c.id>>
           own == FindActiveInstanceLock(mgr', OwnerOf(p, d), d, FALSE)
<1>1. /\ k \in Keys /\ k[2] = d /\ k[1] = OwnerOf(p, d)
      /\ UsesFound(c, k, d) \/ RenamesFound(c, k, d) \/ NeedsNoLock(c, k, d) \/ MakesLock(c, k, d)
  BY CreateMapIs
<1>2. own = FindActiveInstanceLock(mgr', k[1], d, FALSE)
  BY <1>1
<1> HIDE DEF c, k, own
<1>3. Entered(p, d, c)
  BY DEF c
<1>4. /\ kind' = kind /\ Flagged(c.mgr, mgr')
      /\ DOMAIN maps' = DOMAIN maps \cup {i} /\ \A j \in DOMAIN maps : maps'[j] = maps[j]
      /\ i \notin DOMAIN maps => maps'[i].lock = c.lock
      /\ i \in DOMAIN maps => ~Dangling(i)
      /\ defect' = IF TakesForeignId(c, i \notin DOMAIN maps) THEN "foreignId" ELSE defect
      /\ c.id \in Ids /\ MgrOK(c.mgr)
  BY <1>3 DEF Entered, CreateOK
<1>5. MgrOK(mgr) /\ MapsOK(maps, at)
  BY ShapeParts
<1>6. i[1] = d /\ i[2] = c.id
  OBVIOUS
<1>7. /\ defect = "none" /\ ~TakesForeignId(c, i \notin DOMAIN maps)
      /\ DataSound(mgr, db.instance) /\ Ledger(ids, maps, mgr, db.lock)
  BY <1>4 DEF Good
<1> HIDE DEF i
<1>8. CASE ~HasResetSchedule(d)
  <2>1. MapsOK(maps', at') /\ i \in DOMAIN maps'
    <3>1. MapsOK(maps, at)'
      BY DEF Shape
    <3> QED BY <1>4, <3>1 DEF MapsOK, IsMap, HasResetSchedule
  <2>2. maps'[i].lock = NoLock
    BY <1>6, <1>8, <2>1 DEF MapsOK
  <2> QED BY <1>6, <1>8, <2>2 DEF Owns, own, i, c
<1>9. CASE HasResetSchedule(d)
  <2>1. FindActiveInstanceLock(c.mgr, k[1], d, FALSE) = c.lock /\ c.lock # NoLock
    <3>1. ~NeedsNoLock(c, k, d)
      BY <1>9 DEF NeedsNoLock
    <3> QED BY <1>1, <1>5, <3>1, CreateFinds
  <2>2. own = c.lock
    <3>1. /\ mgr'.perm = c.mgr.perm /\ mgr'.temp = c.mgr.temp
          /\ \A l \in DOMAIN c.mgr.locks : /\ mgr'.locks[l].expired = c.mgr.locks[l].expired
                                           /\ mgr'.locks[l].extended = c.mgr.locks[l].extended
      BY <1>4 DEF Flagged, Touched
    <3>2. SameLocks(c.mgr, mgr')
      BY <3>1 DEF SameLocks
    <3>3. Finds(mgr', k[1], d) = Finds(c.mgr, k[1], d)
      BY <1>4, <3>2, FindsSame
    <3> QED BY <1>2, <2>1, <3>3 DEF Finds
  <2>3. CASE i \notin DOMAIN maps
    BY <1>4, <1>6, <1>9, <2>2, <2>3 DEF Owns, own, i, c
  <2>4. CASE i \in DOMAIN maps
    <3> DEFINE x == maps[i].lock
    <3>1. x \in DOMAIN mgr.locks /\ maps'[i].lock = x
      BY <1>4, <1>5, <1>6, <1>9, <2>4 DEF Dangling, MapsOK
    <3>2. c.id \notin c.generated
      BY <1>6, <1>7, <2>4 DEF TakesForeignId, IdInUse
    <3>3. UsesFound(c, k, d)
      BY <1>1, <1>9, <3>2 DEF RenamesFound, NeedsNoLock, MakesLock
    <3>4. CASE ~IsInstanceIdBound(d)
      <4>1. x = c.lock
        BY <2>4, <3>3, <3>4 DEF UsesFound, i
      <4> QED BY <1>6, <1>9, <2>2, <3>1, <3>4, <4>1 DEF Owns, own, i, c
    <3>5. CASE IsInstanceIdBound(d)
      <4>1. /\ c.lock = FindActiveInstanceLock(mgr, k[1], d, FALSE)
            /\ c.id = mgr.locks[c.lock].id /\ c.mgr = mgr
        BY <3>3 DEF UsesFound
      <4>2. HasLock(mgr, k, c.lock) /\ c.lock \in DOMAIN mgr.locks
        <5>1. HasLock(mgr, <<k[1], d>>, c.lock) /\ c.lock \in DOMAIN mgr.locks
          BY <1>5, <2>1, <4>1, FindActiveIs
        <5>2. k = <<k[1], d>>
          BY <1>1 DEF Keys
        <5> QED BY <5>1, <5>2
      <4>3. BoundLock(mgr, k, c.lock)
        BY <1>1, <3>5, <4>2 DEF BoundLock
      <4>4. mgr.byId[c.id] = mgr.locks[c.lock].shared
        <5>1. DataOf(mgr, db.instance, mgr.locks[c.lock].id, mgr.locks[c.lock].shared)
          BY <1>1, <1>7, <4>2, <4>3 DEF DataSound
        <5> QED BY <4>1, <5>1 DEF DataOf
      <4>5. /\ \E j \in Keys : BoundLock(mgr, j, x)
            /\ mgr.locks[x].id = c.id
        BY <1>6, <1>7, <2>4, <3>1, <3>5 DEF Ledger, MapLocks, MapsBound, BoundLock
      <4>6. mgr.byId[c.id] = mgr.locks[x].shared
        BY <1>7, <3>1, <4>5 DEF DataSound, DataOf
      <4>7. mgr'.locks[c.lock].shared = mgr.locks[c.lock].shared /\ mgr'.locks[x].shared = mgr.locks[x].shared
        BY <1>4, <3>1, <4>1, <4>2 DEF Flagged
      <4>8. mgr'.locks[own].shared = mgr'.locks[maps'[i].lock].shared
        BY <2>2, <3>1, <4>4, <4>6, <4>7
      <4> QED BY <1>6, <1>9, <3>5, <4>8 DEF Owns, own, i, c
    <3> QED BY <3>4, <3>5
  <2> QED BY <2>3, <2>4
<1> QED BY <1>8, <1>9

\* Who is somewhere else after a step has entered.
LEMMA OnlyEnterMoves ==
    ASSUME Shape, Step, NEW p \in Players, at'[p] \notin {at[p], Outside}
    PROVE  \E d \in Dungeons : /\ Running /\ Entered(p, d, CreateMap(p, d))
                               /\ at'[p] = <<d, CreateMap(p, d).id>>
<1>0. at \in [Players -> DOMAIN maps \cup {Outside}]
  BY ShapeParts DEF MapsOK
<1>1. ASSUME NEW q \in Players, NEW d \in Dungeons, Enter(q, d), Entered(q, d, CreateMap(q, d))
      PROVE  q = p /\ Running /\ at'[p] = <<d, CreateMap(p, d).id>>
  <2> DEFINE i == <<d, CreateMap(q, d).id>>
  <2>1. at' = at \/ at' = [at EXCEPT ![q] = i]
    BY <1>1 DEF Entered
  <2> HIDE DEF i
  <2>2. at' = [at EXCEPT ![q] = i]
    BY <2>1
  <2>3. q = p
    BY <1>0, <2>2
  <2>4. at'[p] = i
    BY <1>0, <2>2, <2>3
  <2>5. Running
    BY <1>1 DEF Enter
  <2> QED BY <2>3, <2>4, <2>5 DEF i
<1>2. ~Quiet /\ ~Reflagged /\ ~Restarted /\ \A i \in DOMAIN maps : ~Unloaded(i)
  BY DEF Quiet, Reflagged, Restarted, Unloaded
<1>3. \A erased : ~DiedWith(erased)
  BY DEF DiedWith
<1>4. \A t : ~Committed(t)
  BY DEF Committed
<1>5. /\ \A i \in DOMAIN maps, done \in SUBSET Encounters : ~Saves(i, done)
      /\ \A q \in Players : ~Confirms(q)
  BY <1>3, <1>4 DEF Saves, Confirms
<1>6. PICK q \in Players, d \in Dungeons : Enter(q, d) /\ Entered(q, d, CreateMap(q, d))
  BY <1>2, <1>3, <1>5 DEF Step
<1>7. q = p /\ Running /\ at'[p] = <<d, CreateMap(p, d).id>>
  BY <1>1, <1>6
<1> QED BY <1>6, <1>7

\* A player, or his group, is never sent into an instance that belongs to the lock
\* of somebody else: the id of another lock is given up for a new one (CreateMap),
\* and ids that bind are shared by the locks of one instance only.
THEOREM PlayersEnterTheirInstance == Spec => EntersOwnInstance
<1> DEFINE Own(p) ==
             LET i   == at'[p]
                 own == FindActiveInstanceLock(mgr', OwnerOf(p, i[1]), i[1], FALSE)
             IN  i \notin {at[p], Outside} /\ defect' = "none" =>
                   IF ~HasResetSchedule(i[1]) THEN maps'[i].lock = NoLock
                   ELSE IF IsInstanceIdBound(i[1])
                        THEN mgr'.locks[own].shared = mgr'.locks[maps'[i].lock].shared
                        ELSE own = maps'[i].lock
<1>1. ASSUME Shape, Good, Next, NEW p \in Players PROVE Own(p)
  <2> SUFFICES ASSUME at'[p] \notin {at[p], Outside}, defect' = "none"
               PROVE  Owns(FindActiveInstanceLock(mgr', OwnerOf(p, at'[p][1]), at'[p][1], FALSE), at'[p])
    BY DEF Owns
  <2>1. Shape' /\ Step
    BY <1>1, StepOK
  <2>2. PICK d \in Dungeons : /\ Running /\ Entered(p, d, CreateMap(p, d))
                              /\ at'[p] = <<d, CreateMap(p, d).id>>
    BY <1>1, <2>1, OnlyEnterMoves
  <2>3. Owns(FindActiveInstanceLock(mgr', OwnerOf(p, d), d, FALSE), <<d, CreateMap(p, d).id>>)
    BY <1>1, <2>1, <2>2, EnteredOwns
  <2>4. at'[p][1] = d
    BY <2>2
  <2> QED BY <2>2, <2>3, <2>4
<1>2. Shape /\ Good /\ [Next]_vars => [\A p \in Players : Own(p)]_vars
  BY <1>1
<1> QED BY <1>2, Soundness, PTL DEF Spec, EntersOwnInstance
=============================================================================
