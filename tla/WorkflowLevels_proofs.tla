----------------------- MODULE WorkflowLevels_proofs -----------------------
(***************************************************************************)
(* The levels of WorkflowEngine, for any graph over any number of tasks:    *)
(* what the counting of parents computes, round by round, is the layering   *)
(* that LevelsSound defines.                                               *)
(*                                                                         *)
(* Induction is over sets of indices: the least index outside a set.        *)
(***************************************************************************)
EXTENDS WorkflowEngine, FiniteSetTheorems, WellFoundedInduction, TLAPS

-----------------------------------------------------------------------------
(* Induction over the rounds.                                              *)

\* The intervals 1..k are ordered by inclusion, which is well founded.
LEMMA LeastIndex ==
    ASSUME NEW N \in Nat, NEW T, T \subseteq 1..N, T # {}
    PROVE  \E k \in T : \A j \in T : k <= j
<1> DEFINE U == {1..k : k \in T}
<1>1. IsFiniteSet(1..N)
    BY FS_Interval
<1>2. IsWellFoundedOn(StrictSubsetOrdering(1..N), SUBSET (1..N))
    BY <1>1, FS_StrictSubsetOrderingWellFounded, FS_FiniteSubsetsOfFinite
<1>3. U \subseteq SUBSET (1..N) /\ U # {}
    <2>1. \A k \in T : 1..k \subseteq 1..N
        OBVIOUS
    <2>2. PICK k \in T : TRUE
        OBVIOUS
    <2>3. 1..k \in U
        BY <2>2
    <2> QED
        BY <2>1, <2>3
<1>4. PICK x \in U : \A y \in U : <<y, x>> \notin StrictSubsetOrdering(1..N)
    BY <1>2, <1>3, WFMin
<1>5. PICK k \in T : x = 1..k
    BY <1>4
<1>6. ASSUME NEW j \in T, ~(k <= j) PROVE FALSE
    <2>1. j \in Nat /\ k \in Nat /\ j < k /\ k <= N /\ 1 <= k
        BY <1>6
    <2>2. 1..j \subseteq 1..k /\ 1..j \in SUBSET (1..N) /\ 1..k \in SUBSET (1..N)
        BY <2>1
    <2>3. k \in 1..k /\ k \notin 1..j
        BY <2>1
    <2>4. 1..j # 1..k
        BY <2>3
    <2>5. <<1..j, 1..k>> \in StrictSubsetOrdering(1..N)
        BY <2>2, <2>4 DEF StrictSubsetOrdering
    <2> QED
        BY <1>4, <1>5, <2>5
<1> QED
    BY <1>6

LEMMA IndexInduction ==
    ASSUME NEW N \in Nat, NEW S, 1 \in S, \A n \in 1..N : n \in S /\ n < N => n + 1 \in S
    PROVE  1..N \subseteq S
<1> SUFFICES ASSUME (1..N) \ S # {} PROVE FALSE
    OBVIOUS
<1>1. PICK k \in (1..N) \ S : \A j \in (1..N) \ S : k <= j
    BY LeastIndex
<1>2. k # 1 /\ k - 1 \in 1..N /\ k - 1 < N
    BY <1>1
<1>3. k - 1 \in S
    BY <1>1, <1>2
<1>4. (k - 1) + 1 = k
    BY <1>1
<1> QED
    BY <1>1, <1>2, <1>3, <1>4

\* A set of indices without a gap.
LEMMA GaplessIndices ==
    ASSUME NEW N \in Nat, NEW F, F \subseteq 1..N,
           \A n \in 1..N : n < N /\ n + 1 \in F => n \in F
    PROVE  Cardinality(F) \in 0..N /\ F = 1..Cardinality(F)
<1>a. \A b \in Nat : Cardinality(1..b) = b
    BY FS_Interval
<1>1. CASE F = 1..N
    <2>1. Cardinality(F) = N
        BY <1>1, <1>a
    <2> QED
        BY <1>1, <2>1
<1>2. CASE F # 1..N
    <2>1. PICK k \in (1..N) \ F : \A j \in (1..N) \ F : k <= j
        BY <1>2, LeastIndex
    <2>2. 1..(k - 1) \subseteq F
        BY <2>1
    <2>3. F \subseteq 1..(k - 1)
        <3> DEFINE G == {j \in F : j > k}
        <3>1. CASE G = {}
            BY <2>1, <3>1
        <3>2. CASE G # {}
            <4>1. PICK g \in G : \A j \in G : g <= j
                <5>1. G \subseteq 1..N
                    OBVIOUS
                <5> QED
                    BY <3>2, <5>1, LeastIndex
            <4>2. g - 1 \in 1..N /\ g - 1 < N /\ (g - 1) + 1 \in F /\ g - 1 >= k
                BY <2>1, <4>1
            <4>3. g - 1 \in F
                BY <4>2
            <4>4. g - 1 # k
                BY <2>1, <4>3
            <4>5. g - 1 \in G
                BY <2>1, <4>2, <4>3, <4>4
            <4> QED
                BY <4>1, <4>2, <4>5
        <3> QED
            BY <3>1, <3>2
    <2>4. F = 1..(k - 1)
        BY <2>2, <2>3
    <2>5. k - 1 \in 0..N /\ k - 1 \in Nat
        BY <2>1
    <2>6. Cardinality(F) = k - 1
        BY <1>a, <2>4, <2>5
    <2> QED
        BY <2>4, <2>5, <2>6
<1> QED
    BY <1>1, <1>2

-----------------------------------------------------------------------------
(* The rounds.                                                             *)

TaskCount == Cardinality(Tasks)

LEMMA TaskCountPositive == TaskCount \in Nat /\ 1 \in 1..TaskCount
BY EngineAssumption, FS_CardinalityType, FS_EmptySet DEF TaskCount

\* The recursion of Rounds has a solution, and so Rounds is one.
LEMMA RoundsDefined ==
    Rounds = [n \in 1..TaskCount |-> IF n = 1 THEN FirstRound ELSE NextRound(Rounds[n - 1])]
<1> DEFINE Solves(f, k) == f = [n \in 1..k |-> IF n = 1 THEN FirstRound ELSE NextRound(f[n - 1])]
           S == {k \in 1..TaskCount : \E f : Solves(f, k)}
<1>1. 1 \in S
    <2> DEFINE f == [n \in 1..1 |-> FirstRound]
    <2>1. Solves(f, 1)
        OBVIOUS
    <2> QED
        BY <2>1, TaskCountPositive
<1>2. ASSUME NEW k \in 1..TaskCount, k \in S, k < TaskCount PROVE k + 1 \in S
    <2>1. PICK f : Solves(f, k)
        BY <1>2
    <2> DEFINE g == [n \in 1..(k + 1) |-> IF n = 1 THEN FirstRound ELSE NextRound(f[n - 1])]
    <2>2. \A n \in 1..k : g[n] = f[n]
        BY <2>1, TaskCountPositive
    <2>3. \A n \in 1..(k + 1) : n # 1 => g[n - 1] = f[n - 1]
        <3>1. \A n \in 1..(k + 1) : n # 1 => n - 1 \in 1..k
            BY TaskCountPositive
        <3> QED
            BY <2>2, <3>1
    <2> HIDE DEF g
    <2>4. Solves(g, k + 1)
        BY <2>3 DEF g
    <2>5. k + 1 \in 1..TaskCount
        BY <1>2, TaskCountPositive
    <2> QED
        BY <2>4, <2>5
<1>3. TaskCount \in S
    <2> HIDE DEF S
    <2>1. 1..TaskCount \subseteq S
        BY <1>1, <1>2, IndexInduction, TaskCountPositive
    <2> QED
        BY <2>1, TaskCountPositive
<1>4. PICK f : Solves(f, TaskCount)
    BY <1>3
<1> QED
    BY <1>4 DEF Rounds, TaskCount

\* The tasks of the first n rounds.
Peeled(n) == UNION {Rounds[m].level : m \in 1..n}

Graph == upstream \in [Tasks -> SUBSET Tasks]

LEMMA PeeledNext ==
    /\ Peeled(0) = {}
    /\ \A n \in 1..TaskCount : Peeled(n) = Peeled(n - 1) \cup Rounds[n].level
<1>1. Peeled(0) = {}
    BY DEF Peeled
<1>2. ASSUME NEW n \in 1..TaskCount PROVE Peeled(n) = Peeled(n - 1) \cup Rounds[n].level
    <2>1. 1..n = 1..(n - 1) \cup {n}
        BY TaskCountPositive
    <2> QED
        BY <2>1 DEF Peeled
<1> QED
    BY <1>1, <1>2

\* Round n counts the parents that are not peeled, and peels what has none.
RoundCorrect(n) ==
    /\ Rounds[n].degree = [t \in Tasks |-> Cardinality(upstream[t] \ Peeled(n - 1))]
    /\ Rounds[n].level = Peeled(n) \ Peeled(n - 1)
    /\ Peeled(n) = {t \in Tasks : upstream[t] \subseteq Peeled(n - 1)}
    /\ Peeled(n - 1) \subseteq Peeled(n)

LEMMA FirstRoundCorrect == ASSUME Graph PROVE RoundCorrect(1)
<1>1. Rounds[1] = FirstRound
    BY RoundsDefined, TaskCountPositive
<1>2. Peeled(1 - 1) = {} /\ Peeled(1) = Rounds[1].level
    BY PeeledNext, TaskCountPositive
<1>3. \A t \in Tasks : upstream[t] \ {} = upstream[t] /\ (upstream[t] \subseteq {} <=> upstream[t] = {})
    OBVIOUS
<1>4. Rounds[1].degree = [t \in Tasks |-> Cardinality(upstream[t] \ {})]
    BY <1>1, <1>3 DEF FirstRound
<1>5. Rounds[1].level = {t \in Tasks : upstream[t] \subseteq {}}
    BY <1>1, <1>3 DEF FirstRound
<1> QED
    BY <1>2, <1>4, <1>5 DEF RoundCorrect

LEMMA NextRoundCorrect ==
    ASSUME Graph, NEW n \in 1..TaskCount, n < TaskCount, RoundCorrect(n)
    PROVE  RoundCorrect(n + 1)
<1> DEFINE p == Peeled(n - 1)
           q == Peeled(n)
           l == Rounds[n].level
           d == Rounds[n].degree
<1>1. n + 1 \in 1..TaskCount /\ (n + 1) - 1 = n /\ n + 1 # 1
    BY TaskCountPositive
<1>2. Rounds[n + 1] = NextRound(Rounds[n])
    BY <1>1, RoundsDefined
<1>3. l = q \ p /\ p \subseteq q /\ q = {t \in Tasks : upstream[t] \subseteq p}
      /\ d = [t \in Tasks |-> Cardinality(upstream[t] \ p)]
    BY DEF RoundCorrect
<1>4. Peeled(n + 1) = q \cup Rounds[n + 1].level
    BY <1>1, PeeledNext
<1> HIDE DEF p, q, l, d
<1>5. ASSUME NEW t \in Tasks
      PROVE  /\ d[t] \in Nat /\ (d[t] = 0 <=> upstream[t] \subseteq p)
             /\ Degree(d, l)[t] = Cardinality(upstream[t] \ q)
             /\ Cardinality(upstream[t] \ q) = 0 <=> upstream[t] \subseteq q
    <2>1. IsFiniteSet(upstream[t]) /\ IsFiniteSet(upstream[t] \ p) /\ IsFiniteSet(upstream[t] \ q)
        BY EngineAssumption, FS_Subset, FS_Difference DEF Graph
    <2>2. (upstream[t] \ p) \cap l = upstream[t] \cap l /\ (upstream[t] \ p) \ l = upstream[t] \ q
        BY <1>3
    <2>3. Cardinality(upstream[t] \ q) = Cardinality(upstream[t] \ p) - Cardinality(upstream[t] \cap l)
        BY <2>1, <2>2, FS_Difference
    <2>4. Degree(d, l)[t] = Cardinality(upstream[t] \ q)
        BY <1>3, <2>3 DEF Degree
    <2>5. d[t] \in Nat /\ (d[t] = 0 <=> upstream[t] \ p = {})
        BY <1>3, <2>1, FS_CardinalityType, FS_EmptySet
    <2>6. Cardinality(upstream[t] \ q) = 0 <=> upstream[t] \ q = {}
        BY <2>1, FS_EmptySet
    <2> QED
        BY <2>4, <2>5, <2>6
<1>6. Rounds[n + 1].degree = [t \in Tasks |-> Cardinality(upstream[t] \ q)]
    <2>1. Rounds[n + 1].degree = Degree(d, l)
        BY <1>2 DEF NextRound, d, l
    <2>2. Degree(d, l) = [t \in Tasks |-> Degree(d, l)[t]]
        BY DEF Degree
    <2> QED
        BY <1>5, <2>1, <2>2
<1>7. Rounds[n + 1].level = {t \in Tasks : ~(upstream[t] \subseteq p) /\ upstream[t] \subseteq q}
    <2>1. Rounds[n + 1].level = Released(d, l)
        BY <1>2 DEF NextRound, d, l
    <2>2. \A t \in Tasks : d[t] > 0 /\ Degree(d, l)[t] = 0
                           <=> ~(upstream[t] \subseteq p) /\ upstream[t] \subseteq q
        <3> SUFFICES ASSUME NEW t \in Tasks
                     PROVE  d[t] > 0 /\ Degree(d, l)[t] = 0
                            <=> ~(upstream[t] \subseteq p) /\ upstream[t] \subseteq q
            OBVIOUS
        <3>1. d[t] > 0 <=> d[t] # 0
            <4>1. d[t] \in Nat
                BY <1>5
            <4> QED
                BY <4>1
        <3>2. Degree(d, l)[t] = 0 <=> upstream[t] \subseteq q
            BY <1>5
        <3> QED
            BY <1>5, <3>1, <3>2
    <2> QED
        BY <2>1, <2>2 DEF Released
<1>8. Rounds[n + 1].level = {t \in Tasks : upstream[t] \subseteq q} \ q
    BY <1>3, <1>7
<1>9. Peeled(n + 1) = {t \in Tasks : upstream[t] \subseteq q}
    BY <1>3, <1>4, <1>8
<1>10. q \subseteq Peeled(n + 1) /\ Rounds[n + 1].level = Peeled(n + 1) \ q
    BY <1>4, <1>8, <1>9
<1> QED
    BY <1>1, <1>6, <1>9, <1>10 DEF RoundCorrect, q

LEMMA RoundsCorrect == ASSUME Graph PROVE \A n \in 1..TaskCount : RoundCorrect(n)
<1> DEFINE S == {n \in 1..TaskCount : RoundCorrect(n)}
<1>1. 1 \in S
    BY FirstRoundCorrect, TaskCountPositive
<1>2. \A n \in 1..TaskCount : n \in S /\ n < TaskCount => n + 1 \in S
    <2>1. \A n \in 1..TaskCount : n < TaskCount => n + 1 \in 1..TaskCount
        BY TaskCountPositive
    <2> QED
        BY <2>1, NextRoundCorrect
<1> HIDE DEF S
<1>3. 1..TaskCount \subseteq S
    BY <1>1, <1>2, IndexInduction, TaskCountPositive
<1> QED
    BY <1>3 DEF S

-----------------------------------------------------------------------------
(* The levels.                                                             *)

Depth == Cardinality(DOMAIN levels)
Below(n) == UNION {levels[m] : m \in 1..(n - 1)}

Fruitful == {n \in 1..TaskCount : Rounds[n].level # {}}

\* A round that releases nobody is the last that could have.
LEMMA FruitfulGapless ==
    ASSUME Graph
    PROVE  Cardinality(Fruitful) \in 0..TaskCount /\ Fruitful = 1..Cardinality(Fruitful)
<1>1. ASSUME NEW n \in 1..TaskCount, n < TaskCount, n + 1 \in Fruitful, n \notin Fruitful
      PROVE  FALSE
    <2>1. n + 1 \in 1..TaskCount /\ (n + 1) - 1 = n
        BY <1>1, TaskCountPositive
    <2>2. RoundCorrect(n) /\ RoundCorrect(n + 1)
        BY <2>1, RoundsCorrect
    <2>3. Rounds[n].level = {}
        BY <1>1 DEF Fruitful
    <2>4. Peeled(n) = Peeled(n - 1)
        BY <2>2, <2>3 DEF RoundCorrect
    <2>5. Peeled(n + 1) = Peeled(n)
        BY <2>1, <2>2, <2>4 DEF RoundCorrect
    <2>6. Rounds[n + 1].level = {}
        BY <2>1, <2>2, <2>5 DEF RoundCorrect
    <2> QED
        BY <1>1, <2>6 DEF Fruitful
<1>2. Fruitful \subseteq 1..TaskCount
    BY DEF Fruitful
<1> QED
    BY <1>1, <1>2, GaplessIndices, TaskCountPositive

LEMMA LevelsShape ==
    ASSUME Graph, levels = Levels
    PROVE  /\ Depth = Cardinality(Fruitful) /\ Depth \in 0..TaskCount
           /\ DOMAIN levels = 1..Depth
           /\ \A n \in 1..Depth : n \in 1..TaskCount /\ levels[n] = Rounds[n].level /\ levels[n] # {}
           /\ \A n \in 1..TaskCount : n > Depth => Rounds[n].level = {}
           /\ \A n \in 0..Depth : Below(n + 1) = Peeled(n)
<1> DEFINE k == Cardinality(Fruitful)
<1>1. k \in 0..TaskCount /\ Fruitful = 1..k /\ TaskCount \in Nat
    BY FruitfulGapless, TaskCountPositive
<1>2. Levels = [n \in 1..k |-> Rounds[n].level]
    BY DEF Levels, Fruitful, TaskCount
<1> HIDE DEF k
<1>3. DOMAIN levels = 1..k /\ \A n \in 1..k : levels[n] = Rounds[n].level
    BY <1>2
<1>4. Depth = k
    <2>1. Cardinality(1..k) = k
        BY <1>1, FS_Interval
    <2> QED
        BY <1>3, <2>1 DEF Depth
<1>5. \A n \in 1..k : n \in 1..TaskCount /\ levels[n] # {}
    BY <1>1, <1>3 DEF Fruitful
<1>6. \A n \in 1..TaskCount : n > k => Rounds[n].level = {}
    BY <1>1 DEF Fruitful
<1>7. ASSUME NEW n \in 0..k PROVE Below(n + 1) = Peeled(n)
    <2>1. (n + 1) - 1 = n /\ \A m \in 1..n : m \in 1..k
        BY <1>1
    <2> QED
        BY <1>3, <2>1 DEF Below, Peeled
<1> QED
    BY <1>1, <1>3, <1>4, <1>5, <1>6, <1>7 DEF k

\* What is left after the last level waits for something that is left.
LEMMA LeftWaits ==
    ASSUME Graph, levels = Levels, NEW t \in Tasks, t \notin Peeled(Depth)
    PROVE  ~(upstream[t] \subseteq Peeled(Depth))
<1>1. Depth \in 0..TaskCount /\ TaskCount \in Nat
    BY LevelsShape, TaskCountPositive
<1>2. CASE Depth < TaskCount
    <2>1. Depth + 1 \in 1..TaskCount /\ (Depth + 1) - 1 = Depth /\ Depth + 1 > Depth
        BY <1>1, <1>2
    <2>2. RoundCorrect(Depth + 1) /\ Rounds[Depth + 1].level = {}
        BY <2>1, RoundsCorrect, LevelsShape
    <2>3. Peeled(Depth + 1) = Peeled(Depth)
        BY <2>1, <2>2 DEF RoundCorrect
    <2> QED
        BY <2>1, <2>2, <2>3 DEF RoundCorrect
<1>3. CASE Depth = TaskCount
    <2> DEFINE S == {n \in 1..TaskCount : Cardinality(Peeled(n)) >= n}
    <2>1. \A n \in 0..TaskCount : IsFiniteSet(Peeled(n)) /\ Peeled(n) \subseteq Tasks
                                 /\ Cardinality(Peeled(n)) \in Nat
        <3> SUFFICES ASSUME NEW n \in 0..TaskCount PROVE Peeled(n) \subseteq Tasks
            BY EngineAssumption, FS_Subset, FS_CardinalityType
        <3>1. CASE n = 0
            BY <3>1, PeeledNext
        <3>2. CASE n \in 1..TaskCount
            BY <3>2, RoundsCorrect DEF RoundCorrect
        <3> QED
            BY <1>1, <3>1, <3>2
    <2>2. ASSUME NEW n \in 1..TaskCount
          PROVE  Cardinality(Peeled(n)) >= Cardinality(Peeled(n - 1)) + 1
        <3>1. n - 1 \in 0..TaskCount /\ n \in 0..TaskCount /\ RoundCorrect(n)
            BY <1>1, RoundsCorrect
        <3>2. Rounds[n].level # {}
            BY <1>3, LevelsShape
        <3>3. Peeled(n - 1) \subseteq Peeled(n) /\ Peeled(n - 1) # Peeled(n)
            BY <3>1, <3>2 DEF RoundCorrect
        <3>4. Cardinality(Peeled(n - 1)) <= Cardinality(Peeled(n))
              /\ Cardinality(Peeled(n - 1)) # Cardinality(Peeled(n))
            BY <2>1, <3>1, <3>3, FS_Subset
        <3>5. Cardinality(Peeled(n - 1)) \in Nat /\ Cardinality(Peeled(n)) \in Nat
            BY <2>1, <3>1
        <3> QED
            BY <3>4, <3>5
    <2>3. 1 \in S
        <3>1. Cardinality(Peeled(1 - 1)) = 0
            BY PeeledNext, FS_EmptySet
        <3>2. 1 \in 1..TaskCount
            BY TaskCountPositive
        <3> QED
            BY <2>2, <3>1, <3>2
    <2>4. \A n \in 1..TaskCount : n \in S /\ n < TaskCount => n + 1 \in S
        <3> SUFFICES ASSUME NEW n \in 1..TaskCount, n \in S, n < TaskCount PROVE n + 1 \in S
            OBVIOUS
        <3>1. n + 1 \in 1..TaskCount /\ (n + 1) - 1 = n
            BY <1>1
        <3>2. Cardinality(Peeled(n + 1)) >= Cardinality(Peeled(n)) + 1
            BY <2>2, <3>1
        <3>3. Cardinality(Peeled(n)) \in Nat /\ Cardinality(Peeled(n + 1)) \in Nat
              /\ Cardinality(Peeled(n)) >= n
            BY <1>1, <2>1
        <3> QED
            BY <3>1, <3>2, <3>3
    <2> HIDE DEF S
    <2>5. 1..TaskCount \subseteq S
        BY <1>1, <2>3, <2>4, IndexInduction
    <2>6. Cardinality(Peeled(TaskCount)) >= TaskCount
        BY <2>5, TaskCountPositive DEF S
    <2>7. Peeled(TaskCount) \subseteq Tasks /\ Cardinality(Peeled(TaskCount)) \in Nat
        BY <1>1, <2>1
    <2>8. Cardinality(Peeled(TaskCount)) <= TaskCount
        BY <2>7, EngineAssumption, FS_Subset DEF TaskCount
    <2>9. Peeled(TaskCount) = Tasks
        BY <1>1, <2>6, <2>7, <2>8, EngineAssumption, FS_Subset DEF TaskCount
    <2> QED
        BY <1>3, <2>9
<1> QED
    BY <1>1, <1>2, <1>3

\* No round peels a task of a circle.
LEMMA CircleStays ==
    ASSUME Graph, NEW C \in SUBSET Tasks, \A t \in C : upstream[t] \cap C # {},
           NEW n \in 0..TaskCount
    PROVE  Peeled(n) \cap C = {}
<1> DEFINE S == {m \in 1..TaskCount : Peeled(m) \cap C = {}}
<1>1. ASSUME NEW m \in 1..TaskCount, Peeled(m - 1) \cap C = {} PROVE Peeled(m) \cap C = {}
    <2>1. Peeled(m) = {t \in Tasks : upstream[t] \subseteq Peeled(m - 1)}
        BY RoundsCorrect DEF RoundCorrect
    <2> QED
        BY <1>1, <2>1
<1>2. Peeled(0) \cap C = {}
    BY PeeledNext
<1>3. 1 \in S
    <2>1. 1 - 1 = 0
        OBVIOUS
    <2> QED
        BY <1>1, <1>2, <2>1, TaskCountPositive
<1>4. \A m \in 1..TaskCount : m \in S /\ m < TaskCount => m + 1 \in S
    <2> SUFFICES ASSUME NEW m \in 1..TaskCount, m \in S, m < TaskCount PROVE m + 1 \in S
        OBVIOUS
    <2>1. m + 1 \in 1..TaskCount /\ (m + 1) - 1 = m
        BY TaskCountPositive
    <2> QED
        BY <1>1, <2>1
<1> HIDE DEF S
<1>5. 1..TaskCount \subseteq S
    BY <1>3, <1>4, IndexInduction, TaskCountPositive
<1>6. n = 0 \/ n \in 1..TaskCount
    BY TaskCountPositive
<1> QED
    BY <1>2, <1>5, <1>6 DEF S

\* The levels are disjoint layers, each above the parents of its tasks, and
\* hold every task of a graph that was not refused.
Layered ==
    /\ Depth \in Nat /\ DOMAIN levels = 1..Depth
    /\ \A n \in 1..Depth : levels[n] \subseteq Tasks
    /\ \A n \in 1..Depth : \A t \in levels[n] : upstream[t] \subseteq Below(n)
    /\ \A m, n \in 1..Depth : m # n => levels[m] \cap levels[n] = {}
    /\ run # "refused" => \A t \in Tasks : \E n \in 1..Depth : t \in levels[n]

\* Level n in terms of what lies below it.
LEMMA LevelIs ==
    ASSUME Graph, levels = Levels, NEW n \in 1..Depth
    PROVE  /\ levels[n] = {t \in Tasks : upstream[t] \subseteq Below(n)} \ Below(n)
           /\ n > 1 => /\ Below(n) = {t \in Tasks : upstream[t] \subseteq Below(n - 1)}
                       /\ Below(n) = Below(n - 1) \cup levels[n - 1]
           /\ n = 1 => Below(n) = {}
<1>1. Depth \in 0..TaskCount /\ TaskCount \in Nat /\ n \in 1..TaskCount /\ levels[n] = Rounds[n].level
    BY LevelsShape, TaskCountPositive
<1>2. Below(n) = Peeled(n - 1)
    <2>1. n - 1 \in 0..Depth /\ (n - 1) + 1 = n
        BY <1>1
    <2> QED
        BY <2>1, LevelsShape
<1>3. levels[n] = {t \in Tasks : upstream[t] \subseteq Below(n)} \ Below(n)
    <2>1. RoundCorrect(n)
        BY <1>1, RoundsCorrect
    <2>2. levels[n] = Peeled(n) \ Below(n) /\ Peeled(n) = {t \in Tasks : upstream[t] \subseteq Below(n)}
        BY <1>1, <1>2, <2>1 DEF RoundCorrect
    <2> QED
        BY <2>2
<1>4. ASSUME n > 1
      PROVE  /\ Below(n) = {t \in Tasks : upstream[t] \subseteq Below(n - 1)}
             /\ Below(n) = Below(n - 1) \cup levels[n - 1]
    <2>1. n - 1 \in 1..Depth /\ n - 1 \in 1..TaskCount /\ (n - 1) - 1 \in 0..Depth
          /\ ((n - 1) - 1) + 1 = n - 1
        BY <1>1, <1>4
    <2>2. Below(n - 1) = Peeled((n - 1) - 1)
        BY <2>1, LevelsShape
    <2>3. Peeled(n - 1) = {t \in Tasks : upstream[t] \subseteq Peeled((n - 1) - 1)}
        BY <2>1, RoundsCorrect DEF RoundCorrect
    <2>4. Peeled(n - 1) = Peeled((n - 1) - 1) \cup levels[n - 1]
        BY <2>1, LevelsShape, PeeledNext
    <2> QED
        BY <1>2, <2>2, <2>3, <2>4
<1>5. n = 1 => Below(n) = {}
    BY <1>2, PeeledNext
<1> QED
    BY <1>3, <1>4, <1>5

LEMMA LayeredInit == Init => Layered
<1> SUFFICES ASSUME Init PROVE Layered
    OBVIOUS
<1>1. Graph /\ levels = Levels
    BY DEF Init, Graph
<1>2. Depth \in Nat /\ DOMAIN levels = 1..Depth
    BY <1>1, LevelsShape
<1>3. \A n \in 1..Depth : levels[n] \subseteq Tasks /\ \A t \in levels[n] : upstream[t] \subseteq Below(n)
    BY <1>1, LevelIs
<1>4. ASSUME NEW m \in 1..Depth, NEW n \in 1..Depth, m < n PROVE levels[m] \cap levels[n] = {}
    <2>1. levels[m] \subseteq Below(n)
        BY <1>2, <1>4 DEF Below
    <2> QED
        BY <1>1, <2>1, LevelIs
<1>5. \A m, n \in 1..Depth : m # n => levels[m] \cap levels[n] = {}
    <2> SUFFICES ASSUME NEW m \in 1..Depth, NEW n \in 1..Depth, m # n
                 PROVE  levels[m] \cap levels[n] = {}
        OBVIOUS
    <2>1. m < n \/ n < m
        BY <1>2
    <2> QED
        BY <1>4, <2>1
<1>6. run # "refused" => \A t \in Tasks : \E n \in 1..Depth : t \in levels[n]
    BY <1>2 DEF Init, Scheduled
<1> QED
    BY <1>2, <1>3, <1>5, <1>6 DEF Layered

LEMMA SoundInit == Init => LevelsSound
<1> SUFFICES ASSUME Init PROVE LevelsSound
    OBVIOUS
<1>1. Graph /\ levels = Levels
    BY DEF Init, Graph
<1>2. Depth \in 0..TaskCount /\ DOMAIN levels = 1..Depth /\ TaskCount \in Nat
    BY <1>1, LevelsShape, TaskCountPositive
<1>3. Scheduled = Peeled(Depth)
    <2>1. Depth \in 0..Depth /\ (Depth + 1) - 1 = Depth
        BY <1>2
    <2>2. Below(Depth + 1) = Peeled(Depth)
        BY <1>1, <2>1, LevelsShape
    <2> QED
        BY <1>2, <2>1, <2>2 DEF Scheduled, Below
<1>4. Scheduled \subseteq Tasks
    <2>1. \A n \in 1..Depth : levels[n] \subseteq Tasks
        BY <1>1, LevelIs
    <2> QED
        BY <1>2, <2>1 DEF Scheduled
<1>5. (run = "refused") <=> Scheduled # Tasks
    BY DEF Init
<1>6. ASSUME Scheduled # Tasks
      PROVE  \E S \in (SUBSET Tasks) \ {{}} : \A t \in S : upstream[t] \cap S # {}
    <2> DEFINE S == Tasks \ Scheduled
    <2>1. S \in (SUBSET Tasks) \ {{}}
        BY <1>4, <1>6
    <2>2. \A t \in S : upstream[t] \cap S # {}
        <3> SUFFICES ASSUME NEW t \in S PROVE upstream[t] \cap S # {}
            OBVIOUS
        <3>1. upstream[t] \subseteq Tasks /\ ~(upstream[t] \subseteq Scheduled)
            BY <1>1, <1>3, LeftWaits DEF Graph
        <3> QED
            BY <3>1
    <2> QED
        BY <2>1, <2>2
<1>7. ASSUME NEW S \in (SUBSET Tasks) \ {{}}, \A t \in S : upstream[t] \cap S # {}
      PROVE  Scheduled # Tasks
    <2>1. Scheduled \cap S = {}
        BY <1>1, <1>2, <1>3, <1>7, CircleStays
    <2> QED
        BY <2>1
<1>8. (run = "refused") = \E S \in (SUBSET Tasks) \ {{}} : \A t \in S : upstream[t] \cap S # {}
    BY <1>5, <1>6, <1>7
<1>9. ASSUME NEW t \in Tasks, NEW n \in 1..Depth
      PROVE  t \in levels[n] <=> /\ upstream[t] \subseteq Below(n)
                                 /\ n > 1 => upstream[t] \cap levels[n - 1] # {}
    <2>1. CASE n = 1
        BY <1>1, <2>1, LevelIs
    <2>2. CASE n > 1
        <3>1. t \in levels[n] <=> upstream[t] \subseteq Below(n) /\ t \notin Below(n)
            BY <1>1, LevelIs
        <3>2. t \in Below(n) <=> upstream[t] \subseteq Below(n - 1)
            BY <1>1, <2>2, LevelIs
        <3>3. Below(n) = Below(n - 1) \cup levels[n - 1] /\ levels[n - 1] \cap Below(n - 1) = {}
            <4>1. n - 1 \in 1..Depth
                BY <1>2, <2>2
            <4>2. levels[n - 1] \cap Below(n - 1) = {}
                BY <1>1, <4>1, LevelIs
            <4> QED
                BY <1>1, <2>2, <4>2, LevelIs
        <3>4. upstream[t] \subseteq Below(n) =>
                  (upstream[t] \subseteq Below(n - 1) <=> upstream[t] \cap levels[n - 1] = {})
            BY <3>3
        <3> QED
            BY <2>2, <3>1, <3>2, <3>4
    <2> QED
        BY <2>1, <2>2
<1> QED
    BY <1>2, <1>8, <1>9 DEF LevelsSound, Below
=============================================================================
