----------------------- MODULE RelationLoading_proofs -----------------------
(***************************************************************************)
(* Proofs about RelationLoading, for every database, expand tree and depth *)
(* and however many transactions commit meanwhile.                         *)
(***************************************************************************)
EXTENDS RelationLoading, FiniteSetTheorems, SequenceTheorems, TLAPS

-----------------------------------------------------------------------------
(* Induction over numbers, for sets                                        *)

\* A set of natural numbers has a least element.
LEMMA LeastNumber ==
  ASSUME NEW T, T \subseteq Nat, T # {}
  PROVE  \E x \in T : \A y \in T : x <= y
<1> DEFINE R == OpToRel(<, Nat)
<1>1. IsWellFoundedOn(R, Nat)
  BY NatLessThanWellFounded
<1>2. \A x, y \in Nat : <<x, y>> \in R <=> x < y
  BY DEF OpToRel
<1> HIDE DEF R
<1>3. PICK x \in T : \A y \in T : ~ (<<y, x>> \in R)
  BY <1>1, WFMin
<1>4. ASSUME NEW y \in T PROVE x <= y
  <2>1. x \in Nat /\ y \in Nat
    OBVIOUS
  <2>2. ~ (y < x)
    BY <1>2, <1>3, <2>1
  <2> QED
    BY <2>1, <2>2
<1> QED
  BY <1>4

\* A set that has 0, and with each number the next, has all of them.
LEMMA SetInduction ==
  ASSUME NEW S, 0 \in S, \A n \in Nat : n \in S => n + 1 \in S
  PROVE  Nat \subseteq S
<1> SUFFICES ASSUME Nat \ S # {} PROVE FALSE
  OBVIOUS
<1>1. PICK x \in Nat \ S : \A y \in Nat \ S : x <= y
  BY LeastNumber
<1>2. x - 1 \in Nat /\ x - 1 \in S
  BY <1>1
<1> QED
  BY <1>1, <1>2

\* The same for the numbers up to a bound.
LEMMA BoundedInduction ==
  ASSUME NEW N \in Nat, NEW S, 0 \in S, \A n \in 0 .. N - 1 : n \in S => n + 1 \in S
  PROVE  0 .. N \subseteq S
<1> DEFINE T == {n \in Nat : n <= N => n \in S}
<1>1. 0 \in T
  OBVIOUS
<1>2. ASSUME NEW n \in Nat, n \in T PROVE n + 1 \in T
  BY <1>2
<1> HIDE DEF T
<1>3. Nat \subseteq T
  BY <1>1, <1>2, SetInduction
<1> QED
  BY <1>3 DEF T

-----------------------------------------------------------------------------
(* Finite sets of numbers                                                  *)

\* s lists the n elements of S upwards or downwards
Sorts(s, n, S, descending) ==
  /\ s \in [1 .. n -> S]
  /\ \A x \in S : \E i \in 1 .. n : s[i] = x
  /\ \A i, j \in 1 .. n : i < j => IF descending THEN s[i] > s[j] ELSE s[i] < s[j]

\* The least element goes before the others, or after them.
LEMMA SortedWithLeast ==
  ASSUME NEW S \in SUBSET Nat, NEW n \in Nat, NEW descending \in BOOLEAN,
         NEW x \in S, \A y \in S : x <= y,
         NEW s, Sorts(s, n, S \ {x}, descending)
  PROVE  \E t : Sorts(t, n + 1, S, descending)
<1> DEFINE t == [i \in 1 .. n + 1 |-> IF descending THEN IF i = n + 1 THEN x ELSE s[i]
                                    ELSE IF i = 1 THEN x ELSE s[i - 1]]
<1>1. /\ s \in [1 .. n -> S \ {x}]
      /\ \A y \in S \ {x} : \E i \in 1 .. n : s[i] = y
      /\ \A i, j \in 1 .. n : i < j => IF descending THEN s[i] > s[j] ELSE s[i] < s[j]
  BY DEF Sorts
<1>2. \A i \in 1 .. n : s[i] \in S /\ s[i] > x
  <2> SUFFICES ASSUME NEW i \in 1 .. n PROVE s[i] \in S /\ s[i] > x
    OBVIOUS
  <2>1. s[i] \in S /\ s[i] # x
    BY <1>1
  <2>2. s[i] \in Nat /\ x \in Nat /\ x <= s[i]
    BY <2>1
  <2> QED
    BY <2>1, <2>2
<1>3. CASE descending
  <2>1. \A i \in 1 .. n + 1 : t[i] = IF i = n + 1 THEN x ELSE s[i]
    BY <1>3
  <2>2. t \in [1 .. n + 1 -> S]
    BY <1>2, <1>3
  <2> HIDE DEF t
  <2>3. \A y \in S : \E i \in 1 .. n + 1 : t[i] = y
    BY <1>1, <2>1
  <2>4. \A i, j \in 1 .. n + 1 : i < j => t[i] > t[j]
    BY <1>1, <1>2, <1>3, <2>1
  <2> QED
    BY <1>3, <2>2, <2>3, <2>4 DEF Sorts
<1>4. CASE ~ descending
  <2>1. \A i \in 1 .. n + 1 : t[i] = IF i = 1 THEN x ELSE s[i - 1]
    BY <1>4
  <2>2. t \in [1 .. n + 1 -> S]
    BY <1>2, <1>4
  <2> HIDE DEF t
  <2>3. \A y \in S : \E i \in 1 .. n + 1 : t[i] = y
    <3> SUFFICES ASSUME NEW y \in S, y # x PROVE \E i \in 1 .. n + 1 : t[i] = y
      BY <2>1
    <3>1. PICK i \in 1 .. n : s[i] = y
      BY <1>1
    <3>2. i + 1 \in 1 .. n + 1 /\ t[i + 1] = y
      BY <2>1, <3>1
    <3> QED
      BY <3>2
  <2>4. \A i, j \in 1 .. n + 1 : i < j => t[i] < t[j]
    <3> SUFFICES ASSUME NEW i \in 1 .. n + 1, NEW j \in 1 .. n + 1, i < j PROVE t[i] < t[j]
      OBVIOUS
    <3>1. j - 1 \in 1 .. n /\ t[j] = s[j - 1]
      BY <2>1
    <3>2. CASE i = 1
      BY <1>2, <2>1, <3>1, <3>2
    <3>3. CASE i # 1
      <4>1. i - 1 \in 1 .. n /\ t[i] = s[i - 1] /\ i - 1 < j - 1
        BY <2>1, <3>3
      <4> QED
        BY <1>1, <1>4, <3>1, <4>1
    <3> QED
      BY <3>2, <3>3
  <2> QED
    BY <1>4, <2>2, <2>3, <2>4 DEF Sorts
<1> QED
  BY <1>3, <1>4

\* Every finite set of natural numbers can be sorted.
LEMMA FiniteSetsSort ==
  ASSUME NEW S \in SUBSET Nat, IsFiniteSet(S), NEW descending \in BOOLEAN
  PROVE  \E s : Sorts(s, Cardinality(S), S, descending)
<1> DEFINE T == {n \in Nat : \A U \in SUBSET Nat : IsFiniteSet(U) /\ Cardinality(U) = n =>
                               \E s : Sorts(s, n, U, descending)}
<1>1. 0 \in T
  <2> SUFFICES ASSUME NEW U \in SUBSET Nat, IsFiniteSet(U), Cardinality(U) = 0
               PROVE  \E s : Sorts(s, 0, U, descending)
    OBVIOUS
  <2>1. U = {}
    BY FS_EmptySet
  <2>2. Sorts([i \in 1 .. 0 |-> i], 0, U, descending)
    BY <2>1 DEF Sorts
  <2> QED
    BY <2>2
<1>2. ASSUME NEW n \in Nat, n \in T PROVE n + 1 \in T
  <2> SUFFICES ASSUME NEW U \in SUBSET Nat, IsFiniteSet(U), Cardinality(U) = n + 1
               PROVE  \E s : Sorts(s, n + 1, U, descending)
    OBVIOUS
  <2>1. U # {}
    BY FS_EmptySet
  <2>2. PICK x \in U : \A y \in U : x <= y
    BY <2>1, LeastNumber
  <2>3. IsFiniteSet(U \ {x}) /\ Cardinality(U \ {x}) = n
    <3>1. IsFiniteSet(U \ {x}) /\ Cardinality(U \ {x}) = Cardinality(U) - 1
      BY FS_RemoveElement, Zenon
    <3> QED
      BY <3>1
  <2>4. PICK s : Sorts(s, n, U \ {x}, descending)
    BY <1>2, <2>3
  <2> QED
    BY <2>2, <2>4, SortedWithLeast
<1> HIDE DEF T
<1>3. Nat \subseteq T
  BY <1>1, <1>2, SetInduction
<1>4. Cardinality(S) \in Nat
  BY FS_CardinalityType
<1> QED
  BY <1>3, <1>4 DEF T

-----------------------------------------------------------------------------
(* The expand tree                                                         *)

\* The parameters of a request: its nodes come after those they are expanded from.
LEMMA Tree ==
  ASSUME intent \in Intents
  PROVE  /\ Len(intent.nodes) \in Nat
         /\ intent.limit \in Nat \union {None}
         /\ \A n \in Nodes : /\ At(n) \in Node
                             /\ At(n).above \in 0 .. Len(intent.nodes)
                             /\ At(n).above < n
                             /\ n \in Nat
         /\ Nodes \subseteq 0 .. Len(intent.nodes)
<1>1. intent \in Intent /\ \A n \in 1 .. Len(intent.nodes) : intent.nodes[n].above < n
  BY IntentAssumption
<1>2. intent.nodes \in Seq(Node) /\ intent.limit \in Nat \union {None}
  BY <1>1 DEF Intent
<1>3. Len(intent.nodes) \in Nat
  BY <1>2, LenProperties
<1>4. \A n \in Nodes : At(n) \in Node
  BY <1>2, ElementOfSeq DEF Nodes, At
<1>5. \A n \in Nodes : At(n).above \in Nat /\ At(n).above < n
  BY <1>1, <1>4 DEF Nodes, At, Node
<1> QED
  BY <1>2, <1>3, <1>4, <1>5 DEF Nodes

\* The level of a node, which is defined by recursion over the nodes above it.
LEMMA LevelType ==
  ASSUME intent \in Intents, NEW n \in 0 .. Len(intent.nodes)
  PROVE  Level(n) \in Nat
<1> DEFINE N == Len(intent.nodes)
           Levels(g, k) == g = [m \in 0 .. k |-> IF m = 0 THEN 0 ELSE g[At(m).above] + 1]
           T == {k \in 0 .. N : \E g : Levels(g, k)}
           level == CHOOSE g : Levels(g, N)
<1>1. N \in Nat /\ \A m \in 1 .. N : At(m).above \in Nat /\ At(m).above < m
  BY Tree DEF Nodes
<1>2. 0 \in T
  <2>1. Levels([m \in 0 .. 0 |-> 0], 0)
    OBVIOUS
  <2> HIDE DEF Levels
  <2>2. 0 \in 0 .. N
    BY <1>1
  <2> QED
    BY <2>1, <2>2
<1>3. ASSUME NEW k \in 0 .. N - 1, k \in T PROVE k + 1 \in T
  <2>1. PICK g : Levels(g, k)
    BY <1>3
  <2> DEFINE h == [m \in 0 .. k + 1 |-> IF m <= k THEN g[m] ELSE g[At(k + 1).above] + 1]
  <2>2. ASSUME NEW m \in 0 .. k + 1
        PROVE  h[m] = IF m = 0 THEN 0 ELSE h[At(m).above] + 1
    <3>1. CASE m = 0
      BY <2>1, <3>1, <1>1
    <3>2. CASE m # 0
      <4>1. At(m).above \in 0 .. k /\ h[At(m).above] = g[At(m).above]
        BY <1>1, <3>2
      <4> QED
        BY <1>1, <2>1, <3>2, <4>1
    <3> QED
      BY <3>1, <3>2
  <2>3. Levels(h, k + 1)
    BY <2>2
  <2>4. k + 1 \in 0 .. N
    BY <1>1
  <2> QED
    BY <2>3, <2>4
<1>4. \E g : Levels(g, N)
  <2> HIDE DEF T, Levels
  <2>1. 0 .. N \subseteq T
    BY <1>1, <1>2, <1>3, BoundedInduction, Zenon
  <2>2. N \in T
    BY <1>1, <2>1
  <2> QED
    BY <2>2 DEF T
<1>5. Levels(level, N)
  <2> HIDE DEF Levels
  <2> QED
    BY <1>4
<1> HIDE DEF level
<1>6. \A m \in 0 .. N : level[m] = IF m = 0 THEN 0 ELSE level[At(m).above] + 1
  BY <1>5
<1> DEFINE U == {k \in 0 .. N : \A m \in 0 .. k : level[m] \in Nat}
<1>7. 0 \in U
  BY <1>1, <1>6
<1>8. ASSUME NEW k \in 0 .. N - 1, k \in U PROVE k + 1 \in U
  <2>1. k + 1 \in 1 .. N /\ At(k + 1).above \in 0 .. k
    BY <1>1
  <2>2. level[k + 1] \in Nat
    BY <1>6, <1>8, <2>1
  <2> QED
    BY <1>8, <2>1, <2>2
<1>9. 0 .. N \subseteq U
  <2> HIDE DEF U
  <2> QED
    BY <1>1, <1>7, <1>8, BoundedInduction
<1>10. level[n] \in Nat
  BY <1>9
<1> QED
  BY <1>10 DEF Level, level

\* A query that was accepted is not too deep for the hybrid builder.
LEMMA NotTooDeep ==
  ASSUME intent \in Intents, Valid, NEW n \in Nodes
  PROVE  ~ TooDeep(n)
<1>1. Level(n) \in Nat /\ Level(n) <= MaxDepth
  BY Tree, LevelType DEF Valid
<1> QED
  BY <1>1, BoundAssumption DEF TooDeep

-----------------------------------------------------------------------------
(* Lists                                                                   *)

\* The elements of a list of members of T are members of T.
LEMMA ElementsFacts ==
  ASSUME NEW T, NEW s \in Seq(T)
  PROVE  /\ Elements(s) \subseteq T
         /\ \A x : x \in Elements(s) <=> \E i \in 1 .. Len(s) : s[i] = x
         /\ \A i \in 1 .. Len(s) : s[i] \in Elements(s)
<1>1. \A i \in 1 .. Len(s) : s[i] \in T
  BY ElementOfSeq
<1> QED
  BY <1>1 DEF Elements

\* A listing of a set has each element once.
LEMMA ListingFacts ==
  ASSUME NEW S \in SUBSET Nat, IsFiniteSet(S), NEW descending \in BOOLEAN
  PROVE  LET s == Listing(S, descending)
         IN  /\ s \in Seq(S)
             /\ Elements(s) = S
             /\ \A i, j \in 1 .. Len(s) : s[i] = s[j] => i = j
<1> DEFINE s == Listing(S, descending)
           N == Cardinality(S)
<1>1. N \in Nat
  BY FS_CardinalityType
<1>2. \E t \in [1 .. N -> S] : Lists(t, S, descending)
  <2>1. PICK t : Sorts(t, N, S, descending)
    BY FiniteSetsSort
  <2>2. t \in [1 .. N -> S]
    BY <2>1 DEF Sorts
  <2>3. Len(t) = N
    BY <1>1, <2>2
  <2>4. Lists(t, S, descending)
    BY <2>1, <2>3 DEF Sorts, Lists
  <2> QED
    BY <2>2, <2>4
<1>3. s \in [1 .. N -> S] /\ Lists(s, S, descending)
  BY <1>2 DEF Listing
<1> HIDE DEF s
<1>4. s \in Seq(S) /\ Len(s) = N
  BY <1>1, <1>3
<1>5. Elements(s) = S
  <2>1. \A x \in S : \E i \in 1 .. Len(s) : s[i] = x
    BY <1>3, Zenon DEF Lists
  <2>2. \A i \in 1 .. Len(s) : s[i] \in S
    BY <1>4, ElementOfSeq
  <2> QED
    BY <2>1, <2>2 DEF Elements
<1>6. ASSUME NEW i \in 1 .. Len(s), NEW j \in 1 .. Len(s), s[i] = s[j] PROVE i = j
  <2>1. s[i] \in Nat /\ s[j] \in Nat /\ i \in Nat /\ j \in Nat
    <3>1. s[i] \in S /\ s[j] \in S
      BY <1>4, ElementOfSeq
    <3>2. s[i] \in Nat /\ s[j] \in Nat
      BY <3>1
    <3>3. i \in Nat /\ j \in Nat
      BY <1>1, <1>4
    <3> QED
      BY <3>2, <3>3
  <2>2. /\ i < j => s[i] # s[j]
        /\ j < i => s[i] # s[j]
    BY <1>3, <2>1 DEF Lists
  <2> QED
    BY <1>6, <2>1, <2>2
<1> QED
  BY <1>4, <1>5, <1>6 DEF s

\* The elements of two lists put together are those of both.
LEMMA ElementsOfConcat ==
  ASSUME NEW T, NEW s \in Seq(T), NEW t \in Seq(T)
  PROVE  Elements(s \o t) = Elements(s) \union Elements(t)
<1>1. Len(s) \in Nat /\ Len(t) \in Nat
  BY LenProperties
<1>2. /\ Len(s \o t) = Len(s) + Len(t)
      /\ \A i \in 1 .. Len(s) + Len(t) : (s \o t)[i] = IF i <= Len(s) THEN s[i] ELSE t[i - Len(s)]
  BY ConcatProperties
<1>3. ASSUME NEW i \in 1 .. Len(s \o t) PROVE (s \o t)[i] \in Elements(s) \union Elements(t)
  <2>1. CASE i <= Len(s)
    BY <1>1, <1>2, <2>1 DEF Elements
  <2>2. CASE ~ (i <= Len(s))
    <3>1. i - Len(s) \in 1 .. Len(t) /\ (s \o t)[i] = t[i - Len(s)]
      BY <1>1, <1>2, <2>2
    <3> QED
      BY <3>1 DEF Elements
  <2> QED
    BY <2>1, <2>2
<1>4. ASSUME NEW i \in 1 .. Len(s) PROVE s[i] \in Elements(s \o t)
  <2>1. i \in 1 .. Len(s \o t) /\ (s \o t)[i] = s[i]
    BY <1>1, <1>2
  <2> QED
    BY <2>1 DEF Elements
<1>5. ASSUME NEW i \in 1 .. Len(t) PROVE t[i] \in Elements(s \o t)
  <2>1. i + Len(s) \in 1 .. Len(s \o t) /\ (s \o t)[i + Len(s)] = t[i]
    BY <1>1, <1>2
  <2> QED
    BY <2>1 DEF Elements
<1> QED
  BY <1>3, <1>4, <1>5 DEF Elements

\* A cut list is the list itself, or its beginning with as many elements as the limit.
LEMMA CutFacts ==
  ASSUME NEW T, NEW s \in Seq(T), NEW limit \in Nat \union {None}
  PROVE  LET c == Cut(s, limit)
         IN  /\ c \in Seq(T)
             /\ Len(c) <= Len(s)
             /\ \A i \in 1 .. Len(c) : c[i] = s[i]
             /\ c = s \/ (limit # None /\ Len(c) = limit)
<1>1. CASE limit # None /\ limit < Len(s)
  <2>1. limit \in Nat /\ Len(s) \in Nat /\ \A i \in 1 .. limit : s[i] \in T
    BY <1>1, ElementOfSeq, LenProperties
  <2>2. /\ SubSeq(s, 1, limit) \in Seq(T)
        /\ Len(SubSeq(s, 1, limit)) = IF 1 <= limit THEN limit - 1 + 1 ELSE 0
        /\ \A i \in 1 .. limit - 1 + 1 : SubSeq(s, 1, limit)[i] = s[1 + i - 1]
    BY <2>1, SubSeqProperties
  <2>3. Len(SubSeq(s, 1, limit)) = limit /\ \A i \in 1 .. limit : SubSeq(s, 1, limit)[i] = s[i]
    BY <2>1, <2>2
  <2> QED
    BY <1>1, <2>1, <2>2, <2>3 DEF Cut
<1>2. CASE ~ (limit # None /\ limit < Len(s))
  BY <1>2, LenProperties DEF Cut
<1> QED
  BY <1>1, <1>2

-----------------------------------------------------------------------------
(* Joins                                                                   *)

\* There are finitely many functions between finite sets: each is the graph of a relation.
LEMMA FiniteFunctions ==
  ASSUME NEW A, NEW B, IsFiniteSet(A), IsFiniteSet(B)
  PROVE  IsFiniteSet([A -> B])
<1> DEFINE Function(R) == [a \in A |-> CHOOSE b : <<a, b>> \in R]
           Image == {Function(R) : R \in SUBSET (A \X B)}
           f == [R \in SUBSET (A \X B) |-> Function(R)]
<1>1. IsFiniteSet(SUBSET (A \X B))
  BY FS_Product, FS_SUBSET
<1>2. f \in Surjection(SUBSET (A \X B), Image)
  <2> HIDE DEF Function
  <2>1. f \in [SUBSET (A \X B) -> Image]
    OBVIOUS
  <2>2. \A t \in Image : \E R \in SUBSET (A \X B) : f[R] = t
    OBVIOUS
  <2> HIDE DEF f, Image
  <2> QED
    BY <2>1, <2>2, Zenon DEF Surjection
<1>3. IsFiniteSet(Image)
  <2> HIDE DEF Image, f
  <2> QED
    BY <1>1, <1>2, FS_Surjection
<1>4. [A -> B] \subseteq Image
  <2> SUFFICES ASSUME NEW g \in [A -> B] PROVE g \in Image
    OBVIOUS
  <2> DEFINE R == {<<a, g[a]>> : a \in A}
  <2>1. R \in SUBSET (A \X B)
    OBVIOUS
  <2>2. \A a \in A : (CHOOSE b : <<a, b>> \in R) = g[a]
    <3> SUFFICES ASSUME NEW a \in A PROVE (CHOOSE b : <<a, b>> \in R) = g[a]
      OBVIOUS
    <3>1. <<a, g[a]>> \in R
      OBVIOUS
    <3>2. \A b : <<a, b>> \in R => b = g[a]
      OBVIOUS
    <3> HIDE DEF R
    <3> QED
      BY <3>1, <3>2
  <2>3. Function(R) = g
    BY <2>2
  <2> HIDE DEF R, Function
  <2> QED
    BY <2>1, <2>3
<1> QED
  <2> HIDE DEF Image
  <2> QED
    BY <1>3, <1>4, FS_Subset

\* A left join keeps every row.
LEMMA CopiesFacts ==
  ASSUME intent \in Intents, NEW n, NEW o
  PROVE  Copies(n, o) \in Nat \ {0}
<1> DEFINE related(m) == {c \in Objects : Belongs(db, m, o, c)}
           values(m) == IF related(m) = {} THEN {None} ELSE related(m)
           M == Multiplying(n)
           V == Objects \union {None}
           Choices == {choice \in [M -> V] : \A m \in M : choice[m] \in values(m)}
<1>1. IsFiniteSet(M)
  <2>1. M \subseteq Nodes
    BY DEF Multiplying, Children
  <2>2. IsFiniteSet(Nodes)
    BY Tree, FS_Interval DEF Nodes
  <2> QED
    BY <2>1, <2>2, FS_Subset
<1>2. IsFiniteSet(V)
  BY ObjectAssumption, FS_AddElement
<1> HIDE DEF M
<1>3. IsFiniteSet(Choices)
  <2>1. IsFiniteSet([M -> V])
    BY <1>1, <1>2, FiniteFunctions
  <2>2. Choices \in SUBSET [M -> V]
    OBVIOUS
  <2> HIDE DEF Choices
  <2> QED
    BY <2>1, <2>2, FS_Subset
<1>4. Choices # {}
  <2> DEFINE pick == [m \in M |-> CHOOSE v : v \in values(m)]
  <2>1. \A m \in M : values(m) # {} /\ values(m) \subseteq V
    OBVIOUS
  <2> HIDE DEF values
  <2>2. \A m \in M : pick[m] \in values(m)
    BY <2>1
  <2>3. pick \in [M -> V]
    BY <2>1, <2>2
  <2>4. pick \in Choices
    BY <2>2, <2>3
  <2> QED
    BY <2>4
<1>5. Cardinality(Choices) \in Nat \ {0}
  <2> HIDE DEF Choices
  <2> QED
    BY <1>3, <1>4, FS_EmptySet, FS_CardinalityType
<1>6. Copies(n, o) = Cardinality(Choices)
  BY DEF Copies, M
<1> QED
  BY <1>5, <1>6

\* Result, which is defined by recursion over the rows, has the same elements.
LEMMA ResultFacts ==
  ASSUME intent \in Intents, NEW s \in Seq(Objects), NEW n
  PROVE  Result(s, n) \in Seq(Objects) /\ Elements(Result(s, n)) = Elements(s)
<1> DEFINE N == Len(s)
           Part(i) == [copy \in 1 .. Copies(n, s[i]) |-> s[i]]
           Results(g, k) == g = [i \in 0 .. k |-> IF i = 0 THEN <<>> ELSE g[i - 1] \o Part(i)]
           T == {k \in 0 .. N : \E g : Results(g, k)}
           result == CHOOSE g : Results(g, N)
<1>1. N \in Nat /\ \A i \in 1 .. N : s[i] \in Objects
  BY LenProperties, ElementOfSeq
<1>2. \A i \in 1 .. N : /\ Part(i) \in Seq(Objects)
                          /\ Elements(Part(i)) = {s[i]}
  <2> SUFFICES ASSUME NEW i \in 1 .. N
               PROVE  Part(i) \in Seq(Objects) /\ Elements(Part(i)) = {s[i]}
    OBVIOUS
  <2>1. Copies(n, s[i]) \in Nat \ {0}
    BY CopiesFacts
  <2>2. Part(i) \in Seq(Objects) /\ Len(Part(i)) = Copies(n, s[i])
    BY <1>1, <2>1
  <2>3. 1 \in 1 .. Len(Part(i))
    BY <2>1, <2>2
  <2> QED
    BY <2>2, <2>3 DEF Elements
<1> HIDE DEF Part
<1>3. 0 \in T
  <2>1. Results([i \in 0 .. 0 |-> <<>>], 0)
    OBVIOUS
  <2> HIDE DEF Results
  <2>2. 0 \in 0 .. N
    BY <1>1
  <2> QED
    BY <2>1, <2>2
<1>4. ASSUME NEW k \in 0 .. N - 1, k \in T PROVE k + 1 \in T
  <2>1. PICK g : Results(g, k)
    BY <1>4
  <2> DEFINE h == [i \in 0 .. k + 1 |-> IF i <= k THEN g[i] ELSE g[k] \o Part(k + 1)]
  <2>2. ASSUME NEW i \in 0 .. k + 1
        PROVE  h[i] = IF i = 0 THEN <<>> ELSE h[i - 1] \o Part(i)
    <3>1. CASE i = 0
      BY <2>1, <3>1, <1>1
    <3>2. CASE i # 0
      <4>1. i - 1 \in 0 .. k /\ h[i - 1] = g[i - 1]
        BY <1>1, <3>2
      <4>2. CASE i = k + 1
        BY <1>1, <4>1, <4>2
      <4>3. CASE i # k + 1
        <5>1. i \in 0 .. k /\ h[i] = g[i]
          BY <1>1, <4>3
        <5>2. g[i] = g[i - 1] \o Part(i)
          BY <2>1, <3>2, <5>1
        <5> QED
          BY <3>2, <4>1, <5>1, <5>2
      <4> QED
        BY <4>2, <4>3
    <3> QED
      BY <3>1, <3>2
  <2>3. Results(h, k + 1)
    BY <2>2
  <2>4. k + 1 \in 0 .. N
    BY <1>1
  <2> QED
    BY <2>3, <2>4
<1>5. Results(result, N)
  <2> HIDE DEF T, Results
  <2>1. 0 .. N \subseteq T
    BY <1>1, <1>3, <1>4, BoundedInduction, Zenon
  <2>2. N \in T
    BY <1>1, <2>1
  <2>3. \E g : Results(g, N)
    BY <2>2 DEF T
  <2> QED
    BY <2>3
<1> HIDE DEF result
<1>6. result[0] = <<>> /\ \A i \in 1 .. N : result[i] = result[i - 1] \o Part(i)
  <2>1. \A i \in 0 .. N : result[i] = IF i = 0 THEN <<>> ELSE result[i - 1] \o Part(i)
    BY <1>5
  <2>2. result[0] = <<>>
    BY <1>1, <2>1
  <2>3. ASSUME NEW i \in 1 .. N PROVE result[i] = result[i - 1] \o Part(i)
    <3>1. i \in 0 .. N /\ i # 0
      BY <1>1
    <3> QED
      BY <2>1, <3>1
  <2> QED
    BY <2>2, <2>3
<1> DEFINE Good(k) == result[k] \in Seq(Objects) /\ Elements(result[k]) = {s[i] : i \in 1 .. k}
           U == {k \in 0 .. N : Good(k)}
<1>7. 0 \in U
  <2>1. result[0] \in Seq(Objects) /\ Elements(result[0]) = {}
    BY <1>6 DEF Elements
  <2> QED
    BY <1>1, <2>1
<1>8. ASSUME NEW k \in 0 .. N - 1, k \in U PROVE k + 1 \in U
  <2>1. k \in Nat /\ k + 1 \in 1 .. N /\ (k + 1) - 1 = k
    BY <1>1
  <2>2. result[k + 1] = result[k] \o Part(k + 1)
    BY <1>6, <2>1
  <2>3. result[k] \in Seq(Objects) /\ Part(k + 1) \in Seq(Objects)
    BY <1>2, <1>8, <2>1
  <2>4. result[k + 1] \in Seq(Objects)
    BY <2>2, <2>3, ConcatProperties
  <2>5. Elements(result[k + 1]) = Elements(result[k]) \union Elements(Part(k + 1))
    BY <2>2, <2>3, ElementsOfConcat
  <2>6. Elements(result[k + 1]) = {s[i] : i \in 1 .. k + 1}
    <3>1. Elements(result[k]) = {s[i] : i \in 1 .. k} /\ Elements(Part(k + 1)) = {s[k + 1]}
      BY <1>2, <1>8, <2>1
    <3>2. {s[i] : i \in 1 .. k + 1} = {s[i] : i \in 1 .. k} \union {s[k + 1]}
      BY <2>1
    <3> QED
      BY <2>5, <3>1, <3>2
  <2> QED
    BY <2>1, <2>4, <2>6
<1>9. Good(N)
  <2>1. 0 .. N \subseteq U
    <3> HIDE DEF U
    <3> QED
      BY <1>1, <1>7, <1>8, BoundedInduction, Zenon
  <2>2. N \in U
    <3> HIDE DEF U
    <3> QED
      BY <1>1, <2>1
  <2> QED
    BY <2>2
<1>10. Result(s, n) = IF Multiplying(n) = {} THEN s ELSE result[N]
  BY DEF Result, result, Results, Part
<1> QED
  BY <1>9, <1>10 DEF Elements

-----------------------------------------------------------------------------
(* What does not depend on the moment                                      *)

\* The expand tree is that of the request.
LEMMA SameTree ==
  ASSUME intent' = intent
  PROVE  /\ Nodes' = Nodes /\ Hybrid' = Hybrid /\ Valid' = Valid /\ Oriented' = Oriented
         /\ \A n : /\ At(n)' = At(n) /\ Children(n)' = Children(n)
                   /\ Joined(n)' = Joined(n) /\ Forgotten(n)' = Forgotten(n)
                   /\ InTwoQueries(n)' = InTwoQueries(n) /\ InTwoSteps(n)' = InTwoSteps(n)
                   /\ Multiplying(n)' = Multiplying(n)
<1>1. Nodes' = Nodes /\ \A n : At(n)' = At(n)
  BY DEF Nodes, At
<1>2. \A n : Children(n)' = Children(n)
  BY <1>1 DEF Children
<1>3. \A n : Level(n)' = Level(n)
  BY DEF Level, At
<1>4. Valid' = Valid
  BY <1>1, <1>3 DEF Valid
<1>5. Hybrid' = Hybrid
  BY <1>1, <1>2 DEF Hybrid, Supported
<1>6. \A n : Joined(n)' = Joined(n) /\ Forgotten(n)' = Forgotten(n)
  BY <1>1, <1>2, <1>5 DEF Joined, Forgotten
<1>7. \A n : InTwoQueries(n)' = InTwoQueries(n) /\ InTwoSteps(n)' = InTwoSteps(n)
  BY <1>1, <1>5, <1>6 DEF InTwoQueries, InTwoSteps, IsM2M
<1>8. \A n : Multiplying(n)' = Multiplying(n)
  BY <1>1, <1>2, <1>5 DEF Multiplying
<1>9. Oriented' = Oriented
  BY <1>1, <1>5 DEF Oriented
<1> QED
  BY <1>1, <1>2, <1>4, <1>5, <1>6, <1>7, <1>8, <1>9

\* What the children of each object must satisfy, wherever they are kept: they are not
\* there twice.
NoneTwice(n, lists) ==
  Multiplying(n) = {} =>
    \A p, q \in DOMAIN lists : \A i \in 1 .. Len(lists[p]), j \in 1 .. Len(lists[q]) :
      lists[p][i] = lists[q][j] => IF p = q THEN i = j ELSE At(n).kind # "reverse"

\* Every child is genuine, none that was there all the time is missing, and without
\* concurrent writes the children are the relation.
Meant(n, lists) ==
  \A p \in DOMAIN lists :
    /\ \A c \in Elements(lists[p]) : Genuine(n, p, c)
    /\ ~ Forgotten(n) => \A c \in Objects : Steady(n, p, c) => Holds(n, lists[p], c)
    /\ Len(past) = 1 /\ ~ Forgotten(n) /\ Multiplying(n) = {} => lists[p] = Expansion(n, p)

Fits(n, lists) == NoneTwice(n, lists) /\ (Oriented => Meant(n, lists))

\* Without concurrent writes the rows of the root are those of the table.
RowsExact ==
  Len(past) = 1 /\ stage \in {"loading", "done"} /\ Multiplying(0) = {} =>
    rows = Cut(Listing(db.alive, FALSE), intent.limit)

AllFit == /\ \A n \in Nodes : attached[n] # None => Fits(n, attached[n])
          /\ Oriented => PairsOK /\ RowsExact

\* The properties of what is loaded, put together relation by relation.
LEMMA AllFitMeans ==
  AllFit <=> OneParent /\ (Oriented => PairsOK /\ NothingInvented /\ NothingLost /\ Exact)
<1>1. OneParent <=> \A n \in Nodes : attached[n] # None => NoneTwice(n, attached[n])
  BY DEF OneParent, NoneTwice
<1>2. NothingInvented /\ NothingLost /\ Exact <=>
        RowsExact /\ \A n \in Nodes : attached[n] # None => Meant(n, attached[n])
  BY Zenon DEF NothingInvented, NothingLost, Exact, RowsExact, Meant
<1> QED
  BY <1>1, <1>2 DEF AllFit, Fits

\* Whether children fit depends on the database, its history and the expand tree alone.
LEMMA FitsStays ==
  ASSUME intent' = intent, db' = db, past' = past
  PROVE  \A n, lists : Fits(n, lists)' = Fits(n, lists)
<1>1. \A n, p, c : Genuine(n, p, c)' = Genuine(n, p, c)
  BY DEF Genuine, InTwoSteps, InTwoQueries, Hybrid, Supported, Forgotten, Joined, IsM2M,
         Moments, Belongs, Matching, At, Children, Nodes
<1>2. \A n, p, c : Steady(n, p, c)' = Steady(n, p, c)
  BY DEF Steady, Moments, Belongs, Matching, At
<1>3. \A n, s, c : Holds(n, s, c)' = Holds(n, s, c)
  BY DEF Holds, At
<1>4. \A n, p : Expansion(n, p)' = Expansion(n, p)
  BY DEF Expansion, Matching, Belongs, At
<1>5. \A n, lists : NoneTwice(n, lists)' = NoneTwice(n, lists)
  BY SameTree DEF NoneTwice
<1>6. \A n, lists : Meant(n, lists)' = Meant(n, lists)
  BY SameTree, <1>1, <1>2, <1>3, <1>4 DEF Meant
<1> QED
  BY SameTree, <1>5, <1>6 DEF Fits

\* Another transaction adds a moment: what was the case at some moment still was, and what
\* was the case at all of them may no longer be.
LEMMA FitsAfterCommit ==
  ASSUME intent' = intent, past \in Seq(Database), Len(past) > 0,
         NEW d, past' = Append(past, d)
  PROVE  /\ \A n, lists : Fits(n, lists) => Fits(n, lists)'
         /\ Len(past') > 1
<1>1. /\ Len(past) \in Nat /\ Len(past') = Len(past) + 1
      /\ \A i \in 1 .. Len(past) : past'[i] = past[i]
  BY AppendProperties, LenProperties
<1>2. /\ \A i \in Moments : i \in Moments' /\ past'[i] = past[i]
      /\ Moments \subseteq Nat
  BY <1>1 DEF Moments
<1>3. \A i \in Moments : /\ \A n, p, c : Belongs(past[i], n, p, c)' = Belongs(past[i], n, p, c)
                         /\ \A n : Matching(past[i], n)' = Matching(past[i], n)
  <2> SUFFICES ASSUME NEW i \in Moments
               PROVE  /\ \A n, p, c : Belongs(past[i], n, p, c)' = Belongs(past[i], n, p, c)
                      /\ \A n : Matching(past[i], n)' = Matching(past[i], n)
    OBVIOUS
  <2>1. past'[i] = past[i] /\ \A n : At(n)' = At(n)
    BY <1>2 DEF At
  <2>2. \A n, p, c : Belongs(past[i], n, p, c)' = Belongs(past[i], n, p, c)
    BY <2>1 DEF Belongs
  <2>3. \A n : Matching(past[i], n)' = Matching(past[i], n)
    BY <2>1 DEF Matching
  <2> QED
    BY <2>2, <2>3
<1>4. ASSUME NEW n, NEW p, NEW c, Genuine(n, p, c) PROVE Genuine(n, p, c)'
  <2>1. PICK i, j \in Moments : /\ i <= j /\ (InTwoSteps(n) \/ i = j)
                                /\ Belongs(past[i], n, p, c)
                                /\ c \in Matching(past[j], n)
    BY <1>4 DEF Genuine
  <2>2. Belongs(past[i], n, p, c)' /\ c \in Matching(past[j], n)'
    <3>1. Belongs(past[i], n, p, c)' = Belongs(past[i], n, p, c)
      BY <1>3
    <3>2. Matching(past[j], n)' = Matching(past[j], n)
      BY <1>3
    <3> QED
      BY <2>1, <3>1, <3>2
  <2>3. i \in Moments' /\ j \in Moments' /\ InTwoSteps(n)' = InTwoSteps(n)
    BY <1>2, SameTree
  <2> QED
    BY <2>1, <2>2, <2>3 DEF Genuine
<1>5. ASSUME NEW n, NEW p, NEW c, Steady(n, p, c)' PROVE Steady(n, p, c)
  <2>1. \A i \in Moments : Belongs(past[i], n, p, c)' /\ c \in Matching(past[i], n)'
    BY <1>2, <1>5 DEF Steady
  <2> QED
    BY <1>3, <2>1 DEF Steady
<1>6. \A n, s, c : Holds(n, s, c)' = Holds(n, s, c)
  BY DEF Holds, At
<1>7. \A n, lists : NoneTwice(n, lists)' = NoneTwice(n, lists)
  BY SameTree DEF NoneTwice
<1>8. Len(past') > 1
  BY <1>1
<1>9. ASSUME NEW n, NEW lists, Meant(n, lists) PROVE Meant(n, lists)'
  <2>1. Forgotten(n)' = Forgotten(n) /\ Len(past') # 1
    BY <1>8, SameTree
  <2> QED
    BY <1>4, <1>5, <1>6, <1>9, <2>1 DEF Meant
<1> QED
  BY SameTree, <1>7, <1>8, <1>9 DEF Fits

-----------------------------------------------------------------------------
(* The objects above a relation                                            *)

\* What is loaded is a set of objects, at the root and above each relation.
LEMMA ParentsType ==
  ASSUME TypeOK
  PROVE  /\ Elements(rows) \subseteq Objects
         /\ \A n \in Nodes : Parents(n) \subseteq Objects
<1>1. Elements(rows) \subseteq Objects
  BY ElementsFacts DEF TypeOK
<1>2. ASSUME NEW m \in Nodes, attached[m] # None PROVE Loaded(m) \subseteq Objects
  <2>1. PICK S \in SUBSET Objects : attached[m] \in [S -> Seq(Objects)]
    BY <1>2 DEF TypeOK
  <2>2. m # 0
    BY Tree DEF TypeOK, Nodes
  <2>3. \A p \in DOMAIN attached[m] : Elements(attached[m][p]) \subseteq Objects
    BY <2>1, ElementsFacts
  <2> QED
    BY <2>2, <2>3 DEF Loaded
<1>3. ASSUME NEW n \in Nodes PROVE Parents(n) \subseteq Objects
  <2>1. /\ At(n).above \in 0 .. Len(intent.nodes) /\ Len(intent.nodes) \in Nat
        /\ At(n).above > 0 => At(n).above \in Nodes
    BY Tree DEF TypeOK, Nodes
  <2>2. CASE At(n).above = 0
    BY <1>1, <2>2 DEF Parents, Loaded
  <2>3. CASE At(n).above > 0
    BY <1>2, <2>1, <2>3 DEF Parents
  <2> QED
    BY <2>1, <2>2, <2>3
<1> QED
  BY <1>1, <1>3

\* The relations below a node are listed once each, the joined ones left out.
LEMMA BelowFacts ==
  ASSUME intent \in Intents, NEW n
  PROVE  /\ Below(n) \in Seq(Nodes)
         /\ Elements(Below(n)) = {m \in Children(n) : ~ Joined(m)}
<1> DEFINE Last == {m \in Children(n) : Hybrid /\ IsM2M(m)}
           First == {m \in Children(n) \ Last : ~ Joined(m)}
<1>1. Children(n) \in SUBSET Nodes /\ Nodes \in SUBSET Nat /\ IsFiniteSet(Nodes)
  <2>1. IsFiniteSet(Nodes)
    BY Tree, FS_Interval DEF Nodes
  <2> QED
    BY <2>1 DEF Nodes, Children
<1>2. ASSUME NEW S \in SUBSET Children(n)
      PROVE  Listing(S, FALSE) \in Seq(Nodes) /\ Elements(Listing(S, FALSE)) = S
  <2>1. S \in SUBSET Nat /\ IsFiniteSet(S) /\ S \subseteq Nodes
    BY <1>1, FS_Subset
  <2>2. Listing(S, FALSE) \in Seq(S) /\ Elements(Listing(S, FALSE)) = S
    BY <2>1, ListingFacts
  <2> QED
    BY <2>1, <2>2, SeqMonotonic, ElementOfSeq
<1>3. Below(n) = Listing(First, FALSE) \o Listing(Last, FALSE)
  BY DEF Below
<1>4. First \in SUBSET Children(n) /\ Last \in SUBSET Children(n)
  OBVIOUS
<1>5. First \union Last = {m \in Children(n) : ~ Joined(m)}
  BY DEF IsM2M, Joined
<1> DEFINE first == Listing(First, FALSE)
           last == Listing(Last, FALSE)
<1>6. first \in Seq(Nodes) /\ last \in Seq(Nodes) /\ Elements(first) = First /\ Elements(last) = Last
  BY <1>2, <1>4
<1> HIDE DEF First, Last, first, last
<1>7. first \o last \in Seq(Nodes) /\ Elements(first \o last) = First \union Last
  BY <1>6, ElementsOfConcat, ConcatProperties
<1>8. Below(n) = first \o last
  BY <1>3 DEF first, last
<1> QED
  BY <1>5, <1>7, <1>8

-----------------------------------------------------------------------------
(* The children of an object                                               *)

\* Listings of no object and of one.
LEMMA ShortListings ==
  ASSUME NEW x \in Nat, NEW descending \in BOOLEAN
  PROVE  Listing({}, descending) = <<>> /\ Listing({x}, descending) = <<x>>
<1>1. Listing({}, descending) = <<>>
  <2> DEFINE s == Listing({}, descending)
  <2>1. s \in Seq({}) /\ Elements(s) = {}
    BY FS_EmptySet, ListingFacts
  <2> HIDE DEF s
  <2>2. Len(s) \in Nat /\ \A i \in 1 .. Len(s) : FALSE
    BY <2>1, LenProperties DEF Elements
  <2>3. s = <<>>
    BY <2>1, <2>2
  <2> QED
    BY <2>3 DEF s
<1>2. Listing({x}, descending) = <<x>>
  <2> DEFINE s == Listing({x}, descending)
  <2>1. s \in Seq({x}) /\ Elements(s) = {x} /\ \A i, j \in 1 .. Len(s) : s[i] = s[j] => i = j
    BY FS_Singleton, ListingFacts
  <2> HIDE DEF s
  <2>2. Len(s) \in Nat /\ \A i \in 1 .. Len(s) : s[i] = x
    BY <2>1, LenProperties, ElementOfSeq
  <2>3. Len(s) <= 1
    <3>1. CASE Len(s) >= 2
      <4>1. 1 \in 1 .. Len(s) /\ 2 \in 1 .. Len(s)
        BY <2>2, <3>1
      <4> QED
        BY <2>1, <2>2, <4>1
    <3> QED
      BY <2>2, <3>1
  <2>4. Len(s) # 0
    BY <2>1 DEF Elements
  <2>5. Len(s) = 1 /\ s[1] = x
    BY <2>2, <2>3, <2>4
  <2>6. s = <<x>>
    BY <2>1, <2>5
  <2> QED
    BY <2>6 DEF s
<1> QED
  BY <1>1, <1>2

\* What holds of the database now.
LEMMA Now ==
  ASSUME TypeOK, PastOK
  PROVE  /\ Len(past) \in Nat /\ Len(past) \in Moments /\ past[Len(past)] = db
         /\ \A i \in Moments : i <= Len(past)
         /\ db.alive \subseteq Objects /\ db.fk \in [Objects -> Objects \union {None}]
         /\ \A o \in Objects : db.fk[o] # None => db.fk[o] \in db.alive
         /\ None \notin Objects /\ Objects \subseteq Nat
<1>1. Len(past) \in Nat
  BY LenProperties DEF TypeOK
<1>2. Len(past) \in Moments /\ past[Len(past)] = db /\ \A i \in Moments : i <= Len(past)
  BY <1>1 DEF Moments, PastOK
<1>3. db.alive \subseteq Objects /\ db.fk \in [Objects -> Objects \union {None}]
  BY DEF TypeOK, Database
<1>4. \A o \in Objects : db.fk[o] # None => db.fk[o] \in db.alive
  BY DEF PastOK, Consistent
<1> QED
  BY <1>1, <1>2, <1>3, <1>4, ObjectAssumption

\* A finite set of objects, listed.
LEMMA ChildrenListed ==
  ASSUME TypeOK, NEW n \in Nodes, NEW S \in SUBSET Objects
  PROVE  /\ Listing(S, At(n).descending) \in Seq(Objects)
         /\ Elements(Listing(S, At(n).descending)) = S
         /\ LET s == Listing(S, At(n).descending)
            IN  \A i, j \in 1 .. Len(s) : s[i] = s[j] => i = j
<1>1. At(n).descending \in BOOLEAN
  BY Tree DEF TypeOK, Node
<1>2. S \in SUBSET Nat /\ IsFiniteSet(S)
  BY ObjectAssumption, FS_Subset
<1> DEFINE s == Listing(S, At(n).descending)
<1>3. s \in Seq(S) /\ Elements(s) = S /\ \A i, j \in 1 .. Len(s) : s[i] = s[j] => i = j
  BY <1>1, <1>2, ListingFacts
<1> HIDE DEF s
<1>4. s \in Seq(Objects)
  BY <1>3, SeqMonotonic, ElementOfSeq
<1> QED
  BY <1>3, <1>4 DEF s

\* The joined children of the objects S: each object has the one its key points to.
LEMMA KeysFit ==
  ASSUME TypeOK, PastOK, Valid, NEW m \in Nodes, Joined(m), NEW S \in SUBSET Objects
  PROVE  LET keys == [o \in S |-> Key(m, o)]
         IN  keys \in [S -> Seq(Objects)] /\ Fits(m, keys)
<1> DEFINE keys == [o \in S |-> Key(m, o)]
<1>1. \A o \in S : /\ db.fk[o] \in Objects \union {None}
                   /\ keys[o] = IF db.fk[o] = None \/ Forgotten(m) THEN <<>> ELSE <<db.fk[o]>>
  BY Now DEF Key
<1>2. /\ keys \in [S -> Seq(Objects)]
      /\ \A o \in S : \/ keys[o] = <<>> /\ Len(keys[o]) = 0
                      \/ keys[o] = <<db.fk[o]>> /\ Len(keys[o]) = 1 /\ db.fk[o] # None
  <2>1. ASSUME NEW o \in S
        PROVE  /\ keys[o] \in Seq(Objects)
               /\ \/ keys[o] = <<>> /\ Len(keys[o]) = 0
                  \/ keys[o] = <<db.fk[o]>> /\ Len(keys[o]) = 1 /\ db.fk[o] # None
    <3>1. CASE db.fk[o] = None \/ Forgotten(m)
      <4>1. keys[o] = <<>>
        BY <1>1, <3>1
      <4> QED
        BY <4>1
    <3>2. CASE ~ (db.fk[o] = None \/ Forgotten(m))
      <4>1. keys[o] = <<db.fk[o]>> /\ db.fk[o] \in Objects
        BY <1>1, <3>2
      <4>2. <<db.fk[o]>> \in Seq(Objects) /\ Len(<<db.fk[o]>>) = 1
        BY <4>1
      <4> QED
        BY <3>2, <4>1, <4>2
    <3> QED
      BY <3>1, <3>2
  <2> QED
    BY <2>1
<1>3. At(m).kind = "forward" /\ ~ At(m).filtered /\ At(m).limit = None
  BY DEF Joined, Valid
<1> HIDE DEF keys
<1>4. DOMAIN keys = S
  BY <1>2
<1>5. NoneTwice(m, keys)
  <2> SUFFICES ASSUME NEW p \in S, NEW i \in 1 .. Len(keys[p]), NEW j \in 1 .. Len(keys[p])
               PROVE  i = j
    BY <1>3, <1>4 DEF NoneTwice
  <2>1. CASE Len(keys[p]) = 0
    BY <2>1
  <2>2. CASE Len(keys[p]) = 1
    BY <2>2
  <2> QED
    BY <1>2, <2>1, <2>2
<1>6. ASSUME NEW o \in S, NEW c \in Elements(keys[o]) PROVE Genuine(m, o, c)
  <2>1. c = db.fk[o] /\ c # None
    <3>1. PICK i \in 1 .. Len(keys[o]) : keys[o][i] = c
      BY DEF Elements
    <3>2. keys[o] = <<db.fk[o]>> /\ Len(keys[o]) = 1 /\ db.fk[o] # None
      BY <1>2, <3>1
    <3> QED
      BY <3>1, <3>2
  <2>2. Belongs(db, m, o, c) /\ c \in Matching(db, m)
    BY <1>3, <2>1, Now DEF Belongs, Matching
  <2>3. Len(past) \in Moments /\ past[Len(past)] = db /\ Len(past) <= Len(past)
    BY Now
  <2> QED
    BY <2>2, <2>3 DEF Genuine
<1>7. ASSUME NEW o \in S, ~ Forgotten(m), NEW c \in Objects, Steady(m, o, c)
      PROVE  Holds(m, keys[o], c)
  <2>1. Belongs(db, m, o, c)
    BY <1>7, Now DEF Steady
  <2>2. db.fk[o] = c
    BY <1>3, <2>1 DEF Belongs
  <2>3. keys[o] = <<c>>
    BY <1>1, <1>7, <2>2, Now
  <2> QED
    BY <2>3 DEF Holds, Elements
<1>8. ASSUME NEW o \in S, ~ Forgotten(m) PROVE keys[o] = Expansion(m, o)
  <2> DEFINE found == {c \in Matching(db, m) : Belongs(db, m, o, c)}
             d == At(m).descending
  <2>1. found = {c \in db.alive : db.fk[o] = c}
    BY <1>3 DEF Matching, Belongs
  <2>2. Expansion(m, o) = Listing(found, d)
    BY <1>3 DEF Expansion, Cut
  <2>3. d \in BOOLEAN
    BY Tree DEF TypeOK, Node
  <2>4. CASE db.fk[o] = None
    <3>1. found = {}
      BY <2>1, <2>4, Now
    <3>2. Listing({}, d) = <<>>
      BY <2>3, ShortListings
    <3> QED
      BY <1>1, <2>2, <2>4, <3>1, <3>2
  <2>5. CASE db.fk[o] # None
    <3>1. found = {db.fk[o]} /\ db.fk[o] \in Nat
      BY <1>1, <2>1, <2>5, Now
    <3>2. Listing({db.fk[o]}, d) = <<db.fk[o]>>
      BY <2>3, <3>1, ShortListings
    <3> QED
      BY <1>1, <1>8, <2>2, <2>5, <3>1, <3>2
  <2> QED
    BY <2>4, <2>5
<1>9. Meant(m, keys)
  BY <1>4, <1>6, <1>7, <1>8 DEF Meant
<1> QED
  BY <1>2, <1>5, <1>9 DEF Fits, keys

\* What the queries for a relation find belonged to the parent, and holds what always did.
LEMMA FoundFacts ==
  ASSUME TypeOK, PastOK, ReadOK, PairsOK, NEW n \in Nodes, ~ Joined(n),
         read[At(n).above] # None,
         through # None => n = Head(todo) /\ InTwoQueries(n),
         NEW p \in Parents(n)
  PROVE  /\ \A c \in Found(n, p) : Genuine(n, p, c)
         /\ ~ Forgotten(n) =>
              /\ \A c \in Objects : Steady(n, p, c) => c \in Found(n, p)
              /\ Len(past) = 1 => Found(n, p) = {c \in Matching(db, n) : Belongs(db, n, p, c)}
<1> DEFINE a == At(n).above
           last == Len(past)
<1>1. /\ last \in Moments /\ past[last] = db /\ \A i \in Moments : i <= last
      /\ p \in Objects /\ Matching(db, n) \subseteq Objects
  BY Now, ParentsType DEF Matching
<1>2. Moments \subseteq Nat /\ (last = 1 => Moments = {1})
  BY Now DEF Moments
<1>3. CASE Forgotten(n)
  BY <1>3 DEF Found
<1>4. CASE ~ Forgotten(n) /\ At(n).kind = "forward"
  <2>1. Found(n, p) = {c \in Matching(db, n) : c = read[a][p]}
    BY <1>4 DEF Found, IsM2M
  <2>2. a \in 0 .. Len(intent.nodes)
    BY Tree DEF TypeOK
  <2>3. PICK i \in Moments : read[a] = past[i].fk
    BY <2>2 DEF ReadOK
  <2>4. \A c : Belongs(past[i], n, p, c) <=> c = read[a][p]
    BY <1>4, <2>3 DEF Belongs
  <2>5. InTwoSteps(n) /\ i <= last
    BY <1>1, <1>4 DEF InTwoSteps
  <2>6. \A c \in Found(n, p) : Genuine(n, p, c)
    BY <1>1, <2>1, <2>4, <2>5 DEF Genuine
  <2>7. \A c \in Objects : Steady(n, p, c) => c \in Found(n, p)
    BY <1>1, <2>1, <2>4 DEF Steady
  <2>8. last = 1 => Found(n, p) = {c \in Matching(db, n) : Belongs(db, n, p, c)}
    BY <1>1, <1>2, <2>1, <2>4
  <2> QED
    BY <2>6, <2>7, <2>8
<1>5. CASE ~ Forgotten(n) /\ IsM2M(n) /\ through # None
  <2>1. Found(n, p) = {c \in Matching(db, n) : <<p, c>> \in through}
    BY <1>5 DEF Found, IsM2M
  <2>2. n = Head(todo) /\ InTwoSteps(n)
    BY <1>5 DEF InTwoSteps
  <2>3. \A c : <<p, c>> \in through => \E i \in Moments : Belongs(past[i], n, p, c)
    <3> SUFFICES ASSUME NEW c, <<p, c>> \in through
                 PROVE  \E i \in Moments : Belongs(past[i], n, p, c)
      OBVIOUS
    <3>1. PICK i \in Moments : Belongs(past[i], n, <<p, c>>[1], <<p, c>>[2])
      BY <1>5, <2>2, Zenon DEF PairsOK
    <3>2. <<p, c>>[1] = p /\ <<p, c>>[2] = c
      OBVIOUS
    <3> QED
      BY <3>1, <3>2
  <2>4. \A c \in Objects : (\A i \in Moments : Belongs(past[i], n, p, c)) => <<p, c>> \in through
    BY <1>5, <2>2 DEF PairsOK
  <2>5. \A c \in Found(n, p) : Genuine(n, p, c)
    BY <1>1, <2>1, <2>2, <2>3 DEF Genuine
  <2>6. \A c \in Objects : Steady(n, p, c) => c \in Found(n, p)
    BY <1>1, <2>1, <2>4 DEF Steady
  <2>7. ASSUME last = 1
        PROVE  Found(n, p) = {c \in Matching(db, n) : Belongs(db, n, p, c)}
    <3>1. \A c \in Matching(db, n) : <<p, c>> \in through <=> Belongs(db, n, p, c)
      BY <1>1, <1>2, <2>3, <2>4, <2>7
    <3> QED
      BY <2>1, <3>1
  <2> QED
    BY <2>5, <2>6, <2>7
<1>6. CASE ~ Forgotten(n) /\ At(n).kind # "forward" /\ ~ (IsM2M(n) /\ through # None)
  <2>1. Found(n, p) = {c \in Matching(db, n) : Belongs(db, n, p, c)}
    BY <1>6 DEF Found
  <2>2. \A c \in Found(n, p) : Genuine(n, p, c)
    BY <1>1, <2>1 DEF Genuine
  <2>3. \A c \in Objects : Steady(n, p, c) => c \in Found(n, p)
    BY <1>1, <2>1 DEF Steady
  <2> QED
    BY <2>1, <2>2, <2>3
<1> QED
  BY <1>3, <1>4, <1>5, <1>6 DEF IsM2M

\* The children a relation is given fit.
LEMMA AnswerFits ==
  ASSUME TypeOK, PastOK, ReadOK, Oriented => PairsOK, NEW n \in Nodes, ~ Joined(n),
         read[At(n).above] # None,
         through # None => n = Head(todo) /\ InTwoQueries(n)
  PROVE  Answer(n) \in [Parents(n) -> Seq(Objects)] /\ Fits(n, Answer(n))
<1> DEFINE d == At(n).descending
           limit == At(n).limit
           answer == Answer(n)
           list(p) == Listing(Found(n, p), d)
           full(p) == Result(list(p), n)
<1>1. intent \in Intents /\ limit \in Nat \union {None}
  BY Tree DEF TypeOK, Node
<1>2. ASSUME NEW p PROVE Found(n, p) \in SUBSET Objects
  <2>1. Matching(db, n) \subseteq Objects
    BY Now DEF Matching
  <2> QED
    BY <2>1 DEF Found
<1>3. ASSUME NEW p
      PROVE  /\ list(p) \in Seq(Objects) /\ Elements(list(p)) = Found(n, p)
             /\ \A i, j \in 1 .. Len(list(p)) : list(p)[i] = list(p)[j] => i = j
  BY <1>2, ChildrenListed
<1> HIDE DEF list
<1>4. ASSUME NEW p PROVE full(p) \in Seq(Objects) /\ Elements(full(p)) = Found(n, p)
  BY <1>1, <1>3, ResultFacts
<1>5. Multiplying(n) = {} => \A p : full(p) = list(p)
  BY DEF Result
<1> HIDE DEF full
<1>6. answer = [p \in Parents(n) |-> Cut(full(p), limit)]
  BY DEF Answer, full, list
<1> HIDE DEF answer
<1>7. ASSUME NEW p \in Parents(n)
      PROVE  /\ answer[p] \in Seq(Objects)
             /\ Len(answer[p]) \in Nat /\ Len(full(p)) \in Nat
             /\ Len(answer[p]) <= Len(full(p))
             /\ \A i \in 1 .. Len(answer[p]) : answer[p][i] = full(p)[i]
             /\ answer[p] = full(p) \/ (limit # None /\ Len(answer[p]) = limit)
  BY <1>1, <1>4, <1>6, CutFacts, LenProperties
<1>8. ASSUME NEW p \in Parents(n)
      PROVE  \A i \in 1 .. Len(answer[p]) : i \in 1 .. Len(full(p)) /\ answer[p][i] \in Found(n, p)
  <2>1. \A i \in 1 .. Len(answer[p]) : i \in 1 .. Len(full(p))
    BY <1>7
  <2>2. \A i \in 1 .. Len(full(p)) : full(p)[i] \in Elements(full(p))
    BY DEF Elements
  <2> QED
    BY <1>4, <1>7, <2>1, <2>2
<1>9. DOMAIN answer = Parents(n)
  BY <1>6
<1>10. answer \in [Parents(n) -> Seq(Objects)]
  BY <1>6, <1>7
<1>11. NoneTwice(n, answer)
  <2> SUFFICES ASSUME Multiplying(n) = {}, NEW p \in Parents(n), NEW q \in Parents(n),
                      NEW i \in 1 .. Len(answer[p]), NEW j \in 1 .. Len(answer[q]),
                      answer[p][i] = answer[q][j]
               PROVE  IF p = q THEN i = j ELSE At(n).kind # "reverse"
    BY <1>9 DEF NoneTwice
  <2>1. CASE p = q
    <3>1. /\ i \in 1 .. Len(list(p)) /\ answer[p][i] = list(p)[i]
          /\ j \in 1 .. Len(list(p)) /\ answer[p][j] = list(p)[j]
      BY <1>5, <1>7, <1>8, <2>1
    <3>2. i = j
      BY <1>3, <2>1, <3>1
    <3> QED
      BY <2>1, <3>2
  <2>2. CASE p # q
    <3>1. answer[p][i] \in Found(n, p) /\ answer[p][i] \in Found(n, q)
      BY <1>8
    <3>2. ASSUME At(n).kind = "reverse" PROVE FALSE
      BY <2>2, <3>1, <3>2 DEF Found, IsM2M, Belongs
    <3> QED
      BY <2>2, <3>2
  <2> QED
    BY <2>1, <2>2
<1>12. ASSUME Oriented PROVE Meant(n, answer)
  <2> SUFFICES ASSUME NEW p \in Parents(n)
               PROVE  /\ \A c \in Elements(answer[p]) : Genuine(n, p, c)
                      /\ ~ Forgotten(n) => \A c \in Objects : Steady(n, p, c) => Holds(n, answer[p], c)
                      /\ Len(past) = 1 /\ ~ Forgotten(n) /\ Multiplying(n) = {} =>
                           answer[p] = Expansion(n, p)
    BY <1>9 DEF Meant
  <2>1. /\ \A c \in Found(n, p) : Genuine(n, p, c)
        /\ ~ Forgotten(n) =>
              /\ \A c \in Objects : Steady(n, p, c) => c \in Found(n, p)
              /\ Len(past) = 1 => Found(n, p) = {c \in Matching(db, n) : Belongs(db, n, p, c)}
    BY <1>12, FoundFacts
  <2>2. \A c \in Elements(answer[p]) : Genuine(n, p, c)
    BY <1>8, <2>1 DEF Elements
  <2>3. ASSUME ~ Forgotten(n), NEW c \in Objects, Steady(n, p, c) PROVE Holds(n, answer[p], c)
    <3>1. c \in Elements(full(p))
      BY <1>4, <2>1, <2>3
    <3> QED
      BY <1>7, <3>1 DEF Holds
  <2>4. ASSUME Len(past) = 1, ~ Forgotten(n), Multiplying(n) = {} PROVE answer[p] = Expansion(n, p)
    <3>1. answer[p] = Cut(Listing(Found(n, p), d), limit)
      BY <1>5, <1>6, <2>4 DEF list
    <3> QED
      BY <2>1, <2>4, <3>1 DEF Expansion
  <2> QED
    BY <2>2, <2>3, <2>4
<1> QED
  BY <1>10, <1>11, <1>12 DEF Fits, answer

\* A through table without links of the parents leaves each of them without children.
LEMMA NoLinksFit ==
  ASSUME TypeOK, PastOK, NEW n \in Nodes, InTwoQueries(n), ThroughPairs(db, n) = {}
  PROVE  LET empty == [p \in Parents(n) |-> <<>>]
         IN  empty \in [Parents(n) -> Seq(Objects)] /\ Fits(n, empty)
<1> DEFINE empty == [p \in Parents(n) |-> <<>>]
<1>1. empty \in [Parents(n) -> Seq(Objects)] /\ NoneTwice(n, empty)
  BY DEF NoneTwice
<1>2. ASSUME Oriented PROVE Meant(n, empty)
  <2> SUFFICES ASSUME NEW p \in Parents(n)
               PROVE  /\ \A c \in Elements(<<>>) : Genuine(n, p, c)
                      /\ ~ Forgotten(n) => \A c \in Objects : Steady(n, p, c) => Holds(n, <<>>, c)
                      /\ Len(past) = 1 => <<>> = Expansion(n, p)
    BY DEF Meant
  <2>1. Elements(<<>>) = {}
    BY DEF Elements
  <2>2. SourceFirst(n) <=> At(n).kind = "m2m"
    BY <1>2 DEF Oriented, SourceFirst, InTwoQueries, IsM2M
  <2>3. ASSUME NEW c \in Objects, Belongs(db, n, p, c) PROVE FALSE
    <3>1. p \in Objects
      BY ParentsType
    <3>2. <<p, c>>[1] = p /\ <<p, c>>[2] = c /\ <<p, c>> \in Objects \X Objects
      BY <3>1
    <3>3. (IF At(n).kind = "m2m" THEN <<p, c>> ELSE <<c, p>>) \in db.links
      BY <2>3 DEF InTwoQueries, IsM2M, Belongs
    <3>4. <<p, c>> \in ThroughPairs(db, n)
      BY <2>2, <3>2, <3>3 DEF ThroughPairs
    <3> QED
      BY <3>4
  <2>4. \A c \in Objects : ~ Steady(n, p, c)
    BY <2>3, Now DEF Steady
  <2>5. <<>> = Expansion(n, p)
    <3> DEFINE d == At(n).descending
               limit == At(n).limit
    <3>1. {c \in Matching(db, n) : Belongs(db, n, p, c)} = {}
      <4>1. Matching(db, n) \subseteq Objects
        BY Now DEF Matching
      <4> QED
        BY <2>3, <4>1
    <3>2. d \in BOOLEAN /\ limit \in Nat \union {None}
      BY Tree DEF TypeOK, Node
    <3>3. Listing({}, d) = <<>>
      BY <3>2, ShortListings, 0 \in Nat
    <3>4. Cut(<<>>, limit) = <<>>
      BY <3>2 DEF Cut
    <3> QED
      BY <3>1, <3>3, <3>4 DEF Expansion
  <2> QED
    BY <2>1, <2>4, <2>5
<1> QED
  BY <1>1, <1>2 DEF Fits

\* The pairs read from a through table are links, in the right direction.
LEMMA PairsRead ==
  ASSUME TypeOK, PastOK, Oriented, NEW n \in Nodes, InTwoQueries(n)
  PROVE  \A p \in Parents(n), c \in Objects :
           <<p, c>> \in ThroughPairs(db, n) <=> Belongs(db, n, p, c)
<1>1. SourceFirst(n) <=> At(n).kind = "m2m"
  BY DEF Oriented, SourceFirst, InTwoQueries, IsM2M
<1> SUFFICES ASSUME NEW p \in Parents(n), NEW c \in Objects
             PROVE  <<p, c>> \in ThroughPairs(db, n) <=> Belongs(db, n, p, c)
  OBVIOUS
<1>2. p \in Objects
  BY ParentsType
<1>3. <<p, c>>[1] = p /\ <<p, c>>[2] = c /\ <<p, c>> \in Objects \X Objects
  BY <1>2
<1>4. Belongs(db, n, p, c) <=> (IF At(n).kind = "m2m" THEN <<p, c>> ELSE <<c, p>>) \in db.links
  BY DEF InTwoQueries, IsM2M, Belongs
<1> QED
  BY <1>1, <1>3, <1>4 DEF ThroughPairs

-----------------------------------------------------------------------------
(* The next state                                                          *)

\* What fits for each value of the next state fits in the next state.
LEMMA Lift ==
  ASSUME \A n \in Nodes' : \A lists : attached'[n] = lists /\ lists # None => Fits(n, lists)'
  PROVE  \A n \in Nodes' : attached'[n] # None => Fits(n, attached[n])'
<1> SUFFICES ASSUME NEW n \in Nodes', attached'[n] # None PROVE Fits(n, attached[n])'
  OBVIOUS
<1>1. PICK lists : attached'[n] = lists
  OBVIOUS
<1>2. Fits(n, lists)'
  BY <1>1
<1>3. NoneTwice(n, attached[n])'
  BY <1>1, <1>2 DEF Fits, NoneTwice
<1>4. ASSUME Oriented' PROVE Meant(n, attached[n])'
  BY <1>1, <1>2, <1>4 DEF Fits, Meant, Holds, Elements
<1> QED
  BY <1>3, <1>4 DEF Fits

\* The parents in the next state, by what the node above them has been given.
LEMMA ParentsNext ==
  ASSUME intent' = intent, intent \in Intents, NEW n \in Nodes
  PROVE  LET a == At(n).above
         IN  Parents(n)' = IF a = 0 THEN Elements(rows')
                           ELSE IF attached'[a] = None THEN {}
                           ELSE UNION {Elements(attached'[a][p]) : p \in DOMAIN attached'[a]}
<1> DEFINE a == At(n).above
<1>1. a \in Nat /\ At(n)' = At(n)
  BY Tree, SameTree
<1> QED
  BY <1>1 DEF Parents, Loaded, Elements


\* A relation is attached, whether by one query, by two or by none.
LEMMA AttachStep ==
  ASSUME IInv, stage = "loading", todo # <<>>, NEW n, n = Head(todo),
         NEW lists \in [Parents(n) -> Seq(Objects)], Fits(n, lists), Attach(n, lists),
         through' = None, UNCHANGED <<db, intent, stage, rows, past>>
  PROVE  IInv'
<1> DEFINE found == UNION {Elements(lists[p]) : p \in DOMAIN lists}
           more == IF found = {} THEN <<>> ELSE Below(n)
           N == Len(intent.nodes)
<1>1. /\ TypeOK /\ PastOK /\ ReadOK /\ StageOK /\ TodoOK /\ Covered /\ Valid
      /\ OneParent /\ (Oriented => PairsOK /\ NothingInvented /\ NothingLost /\ Exact)
  BY DEF IInv, StageOK
<1>2. /\ N \in Nat /\ Nodes \subseteq 0 .. N /\ 0 \notin Nodes
      /\ \A m \in Nodes : At(m).above \in 0 .. N /\ At(m).above < m /\ m \in Nat
  BY <1>1, Tree DEF TypeOK, Nodes
<1>3. todo \in Seq(Nodes) /\ Len(todo) \in Nat \ {0} /\ n = todo[1]
  BY <1>1, LenProperties DEF TypeOK
<1>4. n \in Nodes /\ ~ Joined(n) /\ read[At(n).above] # None
  BY <1>1, <1>3, ElementOfSeq DEF TodoOK
<1>5. found \in SUBSET Objects
  <2>1. \A p \in DOMAIN lists : Elements(lists[p]) \subseteq Objects
    BY ElementsFacts
  <2> QED
    BY <2>1
<1>6. /\ \A m \in Nodes : attached'[m] = IF m \in Children(n) /\ Joined(m) THEN [o \in found |-> Key(m, o)]
                                         ELSE IF m = n THEN lists ELSE attached[m]
      /\ DOMAIN attached' = Nodes
      /\ read' = [read EXCEPT ![n] = db.fk]
      /\ todo' = more \o Tail(todo)
  <2>1. ~ TooDeep(n)
    BY <1>1, <1>4, NotTooDeep DEF TypeOK
  <2>2. /\ attached' = WithJoined([attached EXCEPT ![n] = lists], n, found)
        /\ read' = [read EXCEPT ![n] = db.fk]
        /\ todo' = more \o Tail(todo)
    BY <2>1 DEF Attach
  <2>3. DOMAIN attached = Nodes
    BY <1>1 DEF TypeOK
  <2> HIDE DEF found
  <2> QED
    BY <1>4, <2>2, <2>3 DEF WithJoined
<1> HIDE DEF found
<1>7. /\ more \in Seq(Nodes) /\ Tail(todo) \in Seq(Nodes) /\ todo' \in Seq(Nodes)
      /\ \A m \in Elements(more) : m \in Children(n) /\ ~ Joined(m)
      /\ found # {} => \A m \in Children(n) : Joined(m) \/ m \in Elements(more)
      /\ Elements(todo') = Elements(more) \union Elements(Tail(todo))
      /\ Elements(todo) = {n} \union Elements(Tail(todo))
  <2>1. /\ Below(n) \in Seq(Nodes)
        /\ Elements(Below(n)) = {m \in Children(n) : ~ Joined(m)}
    BY <1>1, BelowFacts DEF TypeOK
  <2>2. /\ more \in Seq(Nodes)
        /\ \A m \in Elements(more) : m \in Children(n) /\ ~ Joined(m)
        /\ found # {} => \A m \in Children(n) : Joined(m) \/ m \in Elements(more)
    <3>1. CASE found = {}
      BY <3>1 DEF Elements
    <3>2. CASE found # {}
      BY <2>1, <3>2
    <3> QED
      BY <3>1, <3>2
  <2> HIDE DEF more
  <2> DEFINE first == <<n>>
             rest == Tail(todo)
  <2>3. rest \in Seq(Nodes) /\ first \in Seq(Nodes) /\ todo = first \o rest
    BY <1>3, <1>4
  <2>4. Elements(first) = {n}
    BY DEF Elements
  <2>5. todo' = more \o rest
    BY <1>6
  <2> HIDE DEF first, rest
  <2>6. todo' \in Seq(Nodes) /\ Elements(more \o rest) = Elements(more) \union Elements(rest)
    BY <2>2, <2>3, <2>5, ConcatProperties, ElementsOfConcat
  <2>7. Elements(first \o rest) = {n} \union Elements(rest)
    BY <2>3, <2>4, ElementsOfConcat
  <2> QED
    BY <2>2, <2>3, <2>5, <2>6, <2>7 DEF rest
<1> HIDE DEF more
<1>8. \A m \in Nodes : m \in Children(n) => m # n /\ At(m).above = n
  BY <1>2 DEF Children
<1>9. db' = db /\ intent' = intent /\ stage' = stage /\ rows' = rows /\ past' = past /\ through' = None
  OBVIOUS
<1>10. TypeOK'
  <2>1. db' \in Database /\ intent' \in Intents /\ past' \in Seq(Database) /\ rows' \in Seq(Objects)
    BY <1>1 DEF TypeOK
  <2>2. stage' \in {"received", "accepted", "loading", "done", "rejected"}
    OBVIOUS
  <2>3. todo' \in Seq(Nodes)'
    BY <1>7, SameTree
  <2>4. /\ DOMAIN read' = 0 .. N
        /\ \A m \in 0 .. N : read'[m] = None \/ read'[m] \in [Objects -> Objects \union {None}]
    BY <1>1, <1>6, Now DEF TypeOK
  <2>5. ASSUME NEW m \in Nodes
        PROVE  attached'[m] = None \/ \E S \in SUBSET Objects : attached'[m] \in [S -> Seq(Objects)]
    <3>1. CASE m \in Children(n) /\ Joined(m)
      <4>1. attached'[m] = [o \in found |-> Key(m, o)]
        BY <1>6, <3>1
      <4>2. [o \in found |-> Key(m, o)] \in [found -> Seq(Objects)]
        BY <1>1, <1>5, <3>1, KeysFit
      <4> QED
        BY <1>5, <4>1, <4>2
    <3>2. CASE m = n
      <4>1. Parents(n) \in SUBSET Objects
        BY <1>1, <1>4, ParentsType
      <4>2. attached'[n] = lists
        BY <1>4, <1>6
      <4> QED
        BY <3>2, <4>1, <4>2
    <3>3. CASE ~ (m \in Children(n) /\ Joined(m)) /\ m # n
      BY <1>1, <1>6, <3>3 DEF TypeOK
    <3> QED
      BY <3>1, <3>2, <3>3
  <2>6. Nodes' = Nodes /\ DOMAIN attached' = Nodes
    BY <1>6, SameTree
  <2> QED
    BY <2>1, <2>2, <2>3, <2>4, <2>5, <2>6 DEF TypeOK
<1>11. PastOK'
  BY <1>1 DEF PastOK, Consistent
<1>12. ReadOK'
  <2> SUFFICES ASSUME NEW m \in 0 .. N, read'[m] # None
               PROVE  \E i \in Moments : read'[m] = past[i].fk
    BY DEF ReadOK, Moments
  <2>1. DOMAIN read = 0 .. N
    BY <1>1 DEF TypeOK
  <2>2. CASE m = n
    BY <1>1, <1>6, <2>1, <2>2, Now
  <2>3. CASE m # n
    BY <1>1, <1>6, <2>1, <2>3 DEF ReadOK
  <2> QED
    BY <2>2, <2>3
<1>13. StageOK'
  <2>1. Valid'
    BY <1>1, SameTree
  <2> QED
    BY <2>1 DEF StageOK
<1>14. TodoOK'
  <2> SUFFICES ASSUME NEW i \in 1 .. Len(todo')
               PROVE  ~ Joined(todo'[i]) /\ read'[At(todo'[i]).above] # None
    BY SameTree DEF TodoOK, Joined, At, Children, Nodes
  <2>1. PICK m \in Nodes : m = todo'[i]
    BY <1>7, ElementOfSeq
  <2>2. m \in Elements(more) \union Elements(Tail(todo))
    BY <1>7, <2>1 DEF Elements
  <2>3. DOMAIN read = 0 .. N /\ At(m).above \in 0 .. N
    BY <1>1, <1>2 DEF TypeOK
  <2>4. CASE m \in Elements(more)
    <3>1. ~ Joined(m) /\ At(m).above = n
      BY <1>7, <1>8, <2>4
    <3>2. read'[n] = db.fk
      BY <1>6, <2>3, <3>1
    <3>3. db.fk # None
      BY <1>1, Now, ObjectAssumption
    <3> QED
      BY <2>1, <3>1, <3>2, <3>3
  <2>5. CASE m \in Elements(Tail(todo))
    <3>1. PICK j \in 1 .. Len(todo) : m = todo[j]
      BY <1>7, <2>5 DEF Elements
    <3>2. ~ Joined(m) /\ read[At(m).above] # None
      BY <1>1, <3>1 DEF TodoOK
    <3>3. db.fk # None
      BY <1>1, Now, ObjectAssumption
    <3>4. read'[At(m).above] # None
      BY <1>6, <2>3, <3>2, <3>3
    <3> QED
      BY <2>1, <3>2, <3>4
  <2> QED
    BY <2>2, <2>4, <2>5
<1>15. Covered'
  <2> SUFFICES ASSUME NEW m \in Nodes, Parents(m)' # {}
               PROVE  \/ m \in Elements(todo')
                      \/ attached'[m] # None /\ DOMAIN attached'[m] = Parents(m)'
    BY SameTree DEF Covered, Elements
  <2> DEFINE a == At(m).above
  <2>1. a \in 0 .. N /\ (a # 0 => a \in Nodes)
    BY <1>2 DEF Nodes
  <2>2. Parents(m)' = IF a = 0 THEN Elements(rows)
                      ELSE IF attached'[a] = None THEN {}
                      ELSE UNION {Elements(attached'[a][p]) : p \in DOMAIN attached'[a]}
    BY <1>1, <1>9, ParentsNext DEF TypeOK
  <2>3. CASE a = n
    <3>1. attached'[n] = lists /\ n # 0
      BY <1>2, <1>4, <1>6
    <3>2. attached'[n] # None => Parents(m)' = found
      BY <2>2, <2>3, <3>1 DEF found
    <3>3. Parents(m)' = found /\ found # {}
      BY <2>2, <2>3, <3>1, <3>2
    <3>4. m \in Children(n)
      BY <2>3 DEF Children
    <3>5. CASE Joined(m)
      <4>1. attached'[m] = [o \in found |-> Key(m, o)]
        BY <1>6, <3>4, <3>5
      <4>2. [o \in found |-> Key(m, o)] # None
        <5>1. [o \in found |-> Key(m, o)] \in [found -> Seq(Objects)]
          BY <1>1, <1>5, <3>5, KeysFit
        <5> QED
          BY <1>5, <5>1, ObjectAssumption
      <4> QED
        BY <3>3, <4>1, <4>2
    <3>6. CASE ~ Joined(m)
      BY <1>7, <3>3, <3>4, <3>6
    <3> QED
      BY <3>5, <3>6
  <2>4. CASE a # n
    <3>1. Parents(m)' = Parents(m)
      <4>1. CASE a = 0
        BY <2>2, <4>1 DEF Parents, Loaded
      <4>2. CASE a # 0
        <5>1. a \in Nodes /\ ~ Joined(a)
          <6>1. m \in Children(a)
            BY DEF Children
          <6> QED
            BY <2>1, <4>2, <6>1 DEF Joined
        <5>2. attached'[a] = attached[a]
          BY <1>6, <2>4, <5>1
        <5> QED
          BY <1>2, <2>1, <2>2, <4>2, <5>2 DEF Parents, Loaded
      <4> QED
        BY <4>1, <4>2
    <3>2. m \notin Children(n)
      BY <2>4 DEF Children
    <3>3. CASE m = n
      <4>1. attached'[n] = lists /\ DOMAIN lists = Parents(n)
        BY <1>4, <1>6, <3>2, <3>3
      <4>2. lists # None
        BY <1>1, <1>4, ParentsType, ObjectAssumption
      <4> QED
        BY <3>1, <3>3, <4>1, <4>2
    <3>4. CASE m # n
      <4>1. attached'[m] = attached[m]
        BY <1>6, <3>2, <3>4
      <4>2. m \in Elements(todo) \/ (attached[m] # None /\ DOMAIN attached[m] = Parents(m))
        BY <1>1, <3>1 DEF Covered, Elements
      <4> QED
        BY <1>7, <3>1, <3>4, <4>1, <4>2
    <3> QED
      BY <3>3, <3>4
  <2> QED
    BY <2>3, <2>4
<1>16. ThroughOK'
  BY DEF ThroughOK
<1>17. AllFit'
  <2>1. ASSUME NEW m \in Nodes, NEW l, attached'[m] = l, l # None PROVE Fits(m, l)'
    <3>1. Fits(m, l)
      <4>1. CASE m \in Children(n) /\ Joined(m)
        BY <1>1, <1>5, <1>6, <2>1, <4>1, KeysFit
      <4>2. CASE ~ (m \in Children(n) /\ Joined(m)) /\ m = n
        BY <1>6, <2>1, <4>2
      <4>3. CASE ~ (m \in Children(n) /\ Joined(m)) /\ m # n
        BY <1>1, <1>6, <2>1, <4>3, AllFitMeans DEF AllFit
      <4> QED
        BY <4>1, <4>2, <4>3
    <3> QED
      BY <1>9, <3>1, FitsStays
  <2>2. \A m \in Nodes' : attached'[m] # None => Fits(m, attached[m])'
    BY <2>1, SameTree, Lift
  <2>3. Oriented' => PairsOK'
    BY DEF PairsOK
  <2>4. Oriented => RowsExact
    BY <1>1, AllFitMeans DEF AllFit
  <2>5. Oriented' => RowsExact'
    BY <2>4, SameTree DEF RowsExact, Elements
  <2> QED
    BY <2>2, <2>3, <2>5 DEF AllFit
<1>18. (AllFit <=> OneParent /\ (Oriented => PairsOK /\ NothingInvented /\ NothingLost /\ Exact))'
  BY AllFitMeans, PTL
<1> QED
  BY <1>10, <1>11, <1>12, <1>13, <1>14, <1>15, <1>16, <1>17, <1>18 DEF IInv

\* The parents of a relation do not change unless something is loaded.
LEMMA SameParents ==
  ASSUME intent' = intent, rows' = rows, attached' = attached
  PROVE  \A n : Parents(n)' = Parents(n)
BY DEF Parents, Loaded, Elements, At

\* The stage changes at most.
LEMMA StageStep ==
  ASSUME IInv, UNCHANGED <<db, intent, todo, through, rows, read, attached, past>>,
         \/ stage' = stage
         \/ stage = "received" /\ stage' = "rejected"
         \/ stage = "received" /\ stage' = "accepted" /\ Valid
         \/ stage = "loading" /\ stage' = "done" /\ todo = <<>>
  PROVE  IInv'
<1>1. /\ TypeOK /\ PastOK /\ ReadOK /\ StageOK /\ TodoOK /\ Covered /\ ThroughOK
      /\ OneParent /\ (Oriented => PairsOK /\ NothingInvented /\ NothingLost /\ Exact)
  BY DEF IInv
<1>2. TypeOK'
  BY <1>1, SameTree DEF TypeOK
<1>3. PastOK' /\ ReadOK'
  BY <1>1 DEF PastOK, ReadOK, Consistent, Moments
<1>4. StageOK'
  BY <1>1, SameTree DEF StageOK
<1>5. TodoOK'
  BY <1>1 DEF TodoOK, Joined, Children, Nodes, At
<1>6. Covered'
  BY <1>1, SameTree, SameParents DEF Covered
<1>7. ThroughOK'
  <2>1. InTwoQueries(Head(todo))' = InTwoQueries(Head(todo))
    BY DEF InTwoQueries, Hybrid, Supported, Forgotten, IsM2M, Children, Nodes, At
  <2>2. Parents(Head(todo))' = Parents(Head(todo))
    BY DEF Parents, Loaded, Elements, At
  <2> QED
    BY <1>1, <2>1, <2>2 DEF ThroughOK
<1>8. AllFit'
  <2>1. ASSUME NEW m \in Nodes, NEW l, attached'[m] = l, l # None PROVE Fits(m, l)'
    <3>1. Fits(m, l)
      BY <1>1, <2>1, AllFitMeans DEF AllFit
    <3> QED
      BY <3>1, FitsStays
  <2>2. \A m \in Nodes' : attached'[m] # None => Fits(m, attached[m])'
    BY <2>1, SameTree, Lift
  <2>3. Oriented => PairsOK'
    <3>1. Moments' = Moments /\ Parents(Head(todo))' = Parents(Head(todo))
      BY DEF Moments, Parents, Loaded, Elements, At
    <3>2. \A i \in Moments : \A p, c : Belongs(past[i], Head(todo), p, c)' <=> Belongs(past[i], Head(todo), p, c)
      BY DEF Belongs, At
    <3> QED
      BY <1>1, <3>1, <3>2 DEF PairsOK
  <2>4. Oriented' => RowsExact'
    BY <1>1, SameTree DEF Exact, RowsExact
  <2> QED
    BY <1>1, <2>2, <2>3, <2>4, SameTree DEF AllFit
<1>9. (AllFit <=> OneParent /\ (Oriented => PairsOK /\ NothingInvented /\ NothingLost /\ Exact))'
  BY AllFitMeans, PTL
<1> QED
  BY <1>2, <1>3, <1>4, <1>5, <1>6, <1>7, <1>8, <1>9 DEF IInv

\* The root query.
LEMMA RowsStep ==
  ASSUME IInv, Rows PROVE IInv'
<1> DEFINE S == Elements(rows')
           N == Len(intent.nodes)
           listed == Listing(db.alive, FALSE)
<1>1. /\ TypeOK /\ PastOK /\ ReadOK /\ StageOK /\ TodoOK /\ ThroughOK /\ Valid
      /\ rows = <<>> /\ \A m \in Nodes : attached[m] = None
  BY DEF IInv, StageOK, Rows
<1>2. /\ N \in Nat /\ Nodes \subseteq 0 .. N /\ 0 \notin Nodes
      /\ \A m \in Nodes : At(m).above \in 0 .. N
      /\ intent \in Intents /\ intent.limit \in Nat \union {None}
  BY <1>1, Tree DEF TypeOK, Nodes
<1>3. /\ stage = "accepted" /\ stage' = "loading"
      /\ rows' = Cut(Result(listed, 0), intent.limit)
      /\ read' = [read EXCEPT ![0] = db.fk]
      /\ todo' = Below(0)
      /\ db' = db /\ intent' = intent /\ through' = through /\ past' = past
  BY DEF Rows
<1>4. through = None
  BY <1>1, <1>3 DEF ThroughOK, StageOK
<1>5. rows' \in Seq(Objects) /\ S \in SUBSET Objects
  <2>1. listed \in Seq(Objects)
    <3>1. db.alive \in SUBSET Nat /\ IsFiniteSet(db.alive) /\ db.alive \subseteq Objects
      BY <1>1, Now, ObjectAssumption, FS_Subset
    <3>2. listed \in Seq(db.alive)
      BY <3>1, ListingFacts
    <3> HIDE DEF listed
    <3> QED
      BY <3>1, <3>2, SeqMonotonic, ElementOfSeq
  <2>2. Result(listed, 0) \in Seq(Objects)
    BY <1>2, <2>1, ResultFacts
  <2>3. rows' \in Seq(Objects)
    BY <1>2, <1>3, <2>2, CutFacts
  <2> QED
    BY <2>3, ElementsFacts
<1> HIDE DEF S, listed
<1>6. /\ \A m \in Nodes : attached'[m] = IF m \in Children(0) /\ Joined(m) THEN [o \in S |-> Key(m, o)]
                                         ELSE None
      /\ DOMAIN attached' = Nodes
  BY <1>1 DEF Rows, WithJoined, S
<1>7. /\ todo' \in Seq(Nodes)
      /\ Elements(todo') = {m \in Children(0) : ~ Joined(m)}
  BY <1>2, <1>3, BelowFacts
<1>8. ASSUME NEW m \in Nodes, m \in Children(0), Joined(m)
      PROVE  /\ attached'[m] \in [S -> Seq(Objects)] /\ attached'[m] # None
             /\ Fits(m, [o \in S |-> Key(m, o)])
  <2>1. [o \in S |-> Key(m, o)] \in [S -> Seq(Objects)] /\ Fits(m, [o \in S |-> Key(m, o)])
    BY <1>1, <1>5, <1>8, KeysFit
  <2> QED
    BY <1>5, <1>6, <1>8, <2>1, ObjectAssumption
<1>9. TypeOK'
  <2>1. db' \in Database /\ intent' \in Intents /\ past' \in Seq(Database)
    BY <1>1, <1>3 DEF TypeOK
  <2>2. todo' \in Seq(Nodes)' /\ Nodes' = Nodes
    BY <1>3, <1>7, SameTree
  <2>3. /\ DOMAIN read' = 0 .. N
        /\ \A m \in 0 .. N : read'[m] = None \/ read'[m] \in [Objects -> Objects \union {None}]
    BY <1>1, <1>3, Now DEF TypeOK
  <2>4. \A m \in Nodes : attached'[m] = None \/ \E T \in SUBSET Objects : attached'[m] \in [T -> Seq(Objects)]
    BY <1>5, <1>6, <1>8
  <2> QED
    BY <1>3, <1>4, <1>5, <1>6, <2>1, <2>2, <2>3, <2>4 DEF TypeOK
<1>10. PastOK'
  BY <1>1, <1>3 DEF PastOK, Consistent
<1>11. ReadOK'
  <2> SUFFICES ASSUME NEW m \in 0 .. N, read'[m] # None
               PROVE  \E i \in Moments : read'[m] = past[i].fk
    BY <1>3 DEF ReadOK, Moments
  <2>1. DOMAIN read = 0 .. N
    BY <1>1 DEF TypeOK
  <2>2. CASE m = 0
    BY <1>1, <1>3, <2>1, <2>2, Now
  <2>3. CASE m # 0
    BY <1>1, <1>3, <2>1, <2>3 DEF ReadOK
  <2> QED
    BY <2>2, <2>3
<1>12. StageOK'
  BY <1>1, <1>3, SameTree DEF StageOK
<1>13. TodoOK'
  <2> SUFFICES ASSUME NEW i \in 1 .. Len(todo')
               PROVE  ~ Joined(todo'[i]) /\ read'[At(todo'[i]).above] # None
    BY <1>3, SameTree DEF TodoOK, Joined, At, Children, Nodes
  <2>1. todo'[i] \in Children(0) /\ ~ Joined(todo'[i])
    BY <1>7 DEF Elements
  <2>2. At(todo'[i]).above = 0
    BY <2>1 DEF Children
  <2>3. DOMAIN read = 0 .. N /\ db.fk # None
    BY <1>1, Now, ObjectAssumption DEF TypeOK
  <2>4. read'[0] = db.fk
    BY <1>2, <1>3, <2>3
  <2> QED
    BY <2>1, <2>2, <2>3, <2>4
<1>14. Covered'
  <2> SUFFICES ASSUME NEW m \in Nodes, Parents(m)' # {}
               PROVE  \/ m \in Elements(todo')
                      \/ attached'[m] # None /\ DOMAIN attached'[m] = Parents(m)'
    BY <1>3, SameTree DEF Covered, Elements
  <2> DEFINE a == At(m).above
  <2>1. a \in 0 .. N /\ (a # 0 => a \in Nodes)
    BY <1>2 DEF Nodes
  <2>2. Parents(m)' = IF a = 0 THEN S
                      ELSE IF attached'[a] = None THEN {}
                      ELSE UNION {Elements(attached'[a][p]) : p \in DOMAIN attached'[a]}
    BY <1>2, <1>3, ParentsNext DEF S
  <2>3. CASE a = 0
    <3>1. m \in Children(0)
      BY <2>3 DEF Children
    <3> QED
      BY <1>7, <1>8, <2>2, <2>3, <3>1
  <2>4. CASE a # 0
    <3>1. ~ Joined(a)
      BY DEF Joined, Children
    <3>2. attached'[a] = None
      BY <1>6, <2>1, <2>4, <3>1
    <3> QED
      BY <2>2, <2>4, <3>2
  <2> QED
    BY <2>3, <2>4
<1>15. ThroughOK'
  BY <1>3, <1>4 DEF ThroughOK
<1>16. AllFit'
  <2>1. ASSUME NEW m \in Nodes, NEW l, attached'[m] = l, l # None PROVE Fits(m, l)'
    <3>1. m \in Children(0) /\ Joined(m) /\ l = [o \in S |-> Key(m, o)]
      BY <1>6, <2>1
    <3>2. Fits(m, l)
      BY <1>8, <3>1
    <3> QED
      BY <1>3, <3>2, FitsStays
  <2>2. \A m \in Nodes' : attached'[m] # None => Fits(m, attached[m])'
    BY <1>3, <2>1, SameTree, Lift
  <2>3. PairsOK'
    BY <1>3, <1>4 DEF PairsOK
  <2>4. RowsExact'
    <3>1. Multiplying(0) = {} => rows' = Cut(Listing(db.alive, FALSE), intent.limit)
      BY <1>3 DEF Result, listed
    <3> QED
      BY <1>3, <3>1, SameTree DEF RowsExact
  <2> QED
    BY <2>2, <2>3, <2>4 DEF AllFit
<1>17. (AllFit <=> OneParent /\ (Oriented => PairsOK /\ NothingInvented /\ NothingLost /\ Exact))'
  BY AllFitMeans, PTL
<1> QED
  BY <1>9, <1>10, <1>11, <1>12, <1>13, <1>14, <1>15, <1>16, <1>17 DEF IInv

\* The first of the two queries of a many-to-many relation.
LEMMA ThroughStep ==
  ASSUME IInv, stage = "loading", todo # <<>>, through = None, NEW n, n = Head(todo),
         InTwoQueries(n), Parents(n) # {}, through' = ThroughPairs(db, n),
         UNCHANGED <<db, intent, stage, todo, rows, read, attached, past>>
  PROVE  IInv'
<1>1. /\ TypeOK /\ PastOK /\ ReadOK /\ StageOK /\ TodoOK /\ Covered /\ ThroughOK
      /\ OneParent /\ (Oriented => PairsOK /\ NothingInvented /\ NothingLost /\ Exact)
  BY DEF IInv
<1>2. n \in Nodes
  BY <1>1 DEF TypeOK
<1>3. Parents(n)' = Parents(n) /\ InTwoQueries(n)' = InTwoQueries(n)
  BY SameParents, SameTree
<1>4. TypeOK'
  <2>1. through' \subseteq Objects \X Objects
    BY DEF ThroughPairs
  <2> QED
    BY <1>1, <2>1, SameTree DEF TypeOK
<1>5. PastOK' /\ ReadOK'
  BY <1>1 DEF PastOK, ReadOK, Consistent, Moments
<1>6. StageOK'
  BY <1>1, SameTree DEF StageOK
<1>7. TodoOK'
  BY <1>1 DEF TodoOK, Joined, Children, Nodes, At
<1>8. Covered'
  BY <1>1, SameTree, SameParents DEF Covered
<1>9. Parents(Head(todo))' = Parents(n)
  <2>1. Head(todo)' = n
    OBVIOUS
  <2>2. Parents(Head(todo))' = Parents(n)'
    BY <2>1 DEF Parents, At
  <2> QED
    BY <1>3, <2>2
<1>10. ThroughOK'
  <2>1. InTwoQueries(Head(todo))'
    BY DEF InTwoQueries, Hybrid, Supported, Forgotten, IsM2M, Children, Nodes, At
  <2>2. Parents(Head(todo))' = Parents(n)
    BY <1>9
  <2>3. \A pair \in through' : pair[1] \in Parents(n)
    BY DEF ThroughPairs
  <2> QED
    BY <2>1, <2>2, <2>3 DEF ThroughOK
<1>11. AllFit'
  <2>1. ASSUME NEW m \in Nodes, NEW l, attached'[m] = l, l # None PROVE Fits(m, l)'
    <3>1. Fits(m, l)
      BY <1>1, <2>1, AllFitMeans DEF AllFit
    <3> QED
      BY <3>1, FitsStays
  <2>2. \A m \in Nodes' : attached'[m] # None => Fits(m, attached[m])'
    BY <2>1, SameTree, Lift
  <2>3. ASSUME Oriented PROVE PairsOK'
    <3>1. \A p \in Parents(n), c \in Objects : <<p, c>> \in through' <=> Belongs(db, n, p, c)
      BY <1>1, <1>2, <2>3, PairsRead
    <3>2. \A i \in Moments : \A p, c : Belongs(past[i], Head(todo), p, c)' = Belongs(past[i], n, p, c)
      BY DEF Belongs, At
    <3>3. Parents(Head(todo))' = Parents(n)
      BY <1>9
    <3>4. Moments' = Moments /\ Len(past) \in Moments /\ past[Len(past)] = db
      BY <1>1, Now DEF Moments
    <3>5. ASSUME NEW pair \in through'
          PROVE  \E i \in Moments : Belongs(past[i], Head(todo), pair[1], pair[2])'
      <4>1. PICK p \in Parents(n), c \in Objects : pair = <<p, c>> /\ pair[1] = p /\ pair[2] = c
        <5>1. pair \in Objects \X Objects /\ pair[1] \in Parents(n)
          BY DEF ThroughPairs
        <5> QED
          BY <5>1
      <4>2. Belongs(past[Len(past)], n, p, c)
        BY <3>1, <3>4, <4>1
      <4>3. Belongs(past[Len(past)], Head(todo), p, c)'
        BY <3>2, <3>4, <4>2
      <4> QED
        BY <3>4, <4>1, <4>3
    <3>6. ASSUME NEW p \in Parents(n), NEW c \in Objects,
                 \A i \in Moments : Belongs(past[i], Head(todo), p, c)'
          PROVE  <<p, c>> \in through'
      BY <3>1, <3>2, <3>4, <3>6
    <3> QED
      BY <3>3, <3>4, <3>5, <3>6 DEF PairsOK
  <2>4. Oriented => RowsExact'
    BY <1>1, SameTree DEF Exact, RowsExact
  <2> QED
    BY <2>2, <2>3, <2>4, SameTree DEF AllFit
<1>12. (AllFit <=> OneParent /\ (Oriented => PairsOK /\ NothingInvented /\ NothingLost /\ Exact))'
  BY AllFitMeans, PTL
<1> QED
  BY <1>4, <1>5, <1>6, <1>7, <1>8, <1>10, <1>11, <1>12 DEF IInv

\* Another transaction commits.
LEMMA CommitStep ==
  ASSUME IInv, NEW d \in Database, Consistent(d), Commit(d) PROVE IInv'
<1>1. /\ TypeOK /\ PastOK /\ ReadOK /\ StageOK /\ TodoOK /\ Covered /\ ThroughOK
      /\ OneParent /\ (Oriented => PairsOK /\ NothingInvented /\ NothingLost /\ Exact)
  BY DEF IInv
<1>2. /\ db' = d /\ past' = Append(past, d) /\ past \in Seq(Database) /\ Len(past) > 0
      /\ intent' = intent /\ stage' = stage /\ todo' = todo /\ through' = through
      /\ rows' = rows /\ read' = read /\ attached' = attached
  BY <1>1 DEF Commit, TypeOK, PastOK
<1>3. /\ past' \in Seq(Database) /\ Len(past) \in Nat /\ Len(past') = Len(past) + 1
      /\ past'[Len(past')] = d
      /\ \A i \in Moments : i \in Moments' /\ past'[i] = past[i]
  BY <1>2, AppendProperties, LenProperties DEF Moments
<1>4. TypeOK'
  BY <1>1, <1>2, <1>3, SameTree DEF TypeOK
<1>5. PastOK'
  BY <1>2, <1>3 DEF PastOK, Consistent
<1>6. ReadOK'
  BY <1>1, <1>2, <1>3 DEF ReadOK
<1>7. StageOK'
  BY <1>1, <1>2, SameTree DEF StageOK
<1>8. TodoOK'
  BY <1>1, <1>2 DEF TodoOK, Joined, Children, Nodes, At
<1>9. Covered'
  BY <1>1, <1>2, SameTree, SameParents DEF Covered
<1>10. ThroughOK'
  <2>1. InTwoQueries(Head(todo))' = InTwoQueries(Head(todo))
    BY <1>2 DEF InTwoQueries, Hybrid, Supported, Forgotten, IsM2M, Children, Nodes, At
  <2>2. Parents(Head(todo))' = Parents(Head(todo))
    BY <1>2 DEF Parents, Loaded, Elements, At
  <2> QED
    BY <1>1, <1>2, <2>1, <2>2 DEF ThroughOK
<1>11. AllFit'
  <2>1. ASSUME NEW m \in Nodes, NEW l, attached'[m] = l, l # None PROVE Fits(m, l)'
    <3>1. Fits(m, l)
      BY <1>1, <1>2, <2>1, AllFitMeans DEF AllFit
    <3> QED
      BY <1>2, <3>1, FitsAfterCommit
  <2>2. \A m \in Nodes' : attached'[m] # None => Fits(m, attached[m])'
    BY <1>2, <2>1, SameTree, Lift
  <2>3. ASSUME Oriented PROVE PairsOK'
    <3>1. ASSUME NEW i \in Moments, NEW p, NEW c
          PROVE  Belongs(past[i], Head(todo), p, c)' <=> Belongs(past[i], Head(todo), p, c)
      BY <1>2, <1>3, <3>1 DEF Belongs, At
    <3>2. Parents(Head(todo))' = Parents(Head(todo))
      BY <1>2 DEF Parents, Loaded, Elements, At
    <3> SUFFICES ASSUME through # None
                 PROVE  /\ \A pair \in through :
                             \E i \in Moments' : Belongs(past[i], Head(todo), pair[1], pair[2])'
                        /\ \A p \in Parents(Head(todo)), c \in Objects :
                             (\A i \in Moments' : Belongs(past[i], Head(todo), p, c)') => <<p, c>> \in through
      BY <1>2, <3>2 DEF PairsOK
    <3>3. /\ \A pair \in through : \E i \in Moments : Belongs(past[i], Head(todo), pair[1], pair[2])
          /\ \A p \in Parents(Head(todo)), c \in Objects :
               (\A i \in Moments : Belongs(past[i], Head(todo), p, c)) => <<p, c>> \in through
      BY <1>1, <2>3 DEF PairsOK
    <3>4. ASSUME NEW pair \in through
          PROVE  \E i \in Moments' : Belongs(past[i], Head(todo), pair[1], pair[2])'
      <4>1. PICK i \in Moments : Belongs(past[i], Head(todo), pair[1], pair[2])
        BY <3>3
      <4>2. Belongs(past[i], Head(todo), pair[1], pair[2])'
        BY <3>1, <4>1
      <4> QED
        BY <1>3, <4>2
    <3>5. ASSUME NEW p \in Parents(Head(todo)), NEW c \in Objects,
                 \A i \in Moments' : Belongs(past[i], Head(todo), p, c)'
          PROVE  <<p, c>> \in through
      <4>1. ASSUME NEW i \in Moments PROVE Belongs(past[i], Head(todo), p, c)
        <5>1. Belongs(past[i], Head(todo), p, c)'
          BY <1>3, <3>5
        <5> QED
          BY <3>1, <5>1
      <4> QED
        BY <3>3, <4>1
    <3> QED
      BY <3>4, <3>5
  <2>4. RowsExact'
    BY <1>2, <1>3 DEF RowsExact
  <2> QED
    BY <1>2, <2>2, <2>3, <2>4, SameTree DEF AllFit
<1>12. (AllFit <=> OneParent /\ (Oriented => PairsOK /\ NothingInvented /\ NothingLost /\ Exact))'
  BY AllFitMeans, PTL
<1> QED
  BY <1>4, <1>5, <1>6, <1>7, <1>8, <1>9, <1>10, <1>11, <1>12 DEF IInv

\* Whatever the others do keeps the constraints of the database.
LEMMA OthersStep ==
  ASSUME IInv, Others PROVE IInv'
<1>1. db \in Database /\ Consistent(db)
  BY DEF IInv, TypeOK, PastOK
<1>2. PICK o \in Objects : Change(o) \/ Delete(o) \/ \E p \in Objects : Reassign(o, p) \/ Link(o, p) \/ Unlink(o, p)
  BY DEF Others
<1> DEFINE Allowed(d) == d \in Database /\ Consistent(d)
<1>3. CASE Change(o)
  <2> DEFINE d == [db EXCEPT !.ok = IF o \in @ THEN @ \ {o} ELSE @ \union {o}]
  <2>1. Allowed(d) /\ Commit(d)
    BY <1>1, <1>3 DEF Change, Database, Consistent
  <2> QED
    BY <2>1, CommitStep
<1>4. CASE Delete(o)
  <2> DEFINE d == [alive |-> db.alive \ {o}, ok |-> db.ok \ {o},
                   fk |-> [x \in Objects |-> IF o \in {x, db.fk[x]} THEN None ELSE db.fk[x]],
                   links |-> {link \in db.links : o \notin {link[1], link[2]}}]
  <2>1. Allowed(d)
    BY <1>1 DEF Database, Consistent
  <2>2. Commit(d)
    BY <1>4 DEF Delete
  <2> QED
    BY <2>1, <2>2, CommitStep
<1>5. ASSUME NEW p \in Objects, Reassign(o, p) PROVE IInv'
  <2> DEFINE d == [db EXCEPT !.fk[o] = p]
  <2>1. Allowed(d) /\ Commit(d)
    BY <1>1, <1>5 DEF Reassign, Database, Consistent
  <2> QED
    BY <2>1, CommitStep
<1>6. ASSUME NEW p \in Objects, Link(o, p) PROVE IInv'
  <2> DEFINE d == [db EXCEPT !.links = @ \union {<<o, p>>}]
  <2>1. Allowed(d) /\ Commit(d)
    BY <1>1, <1>6 DEF Link, Database, Consistent
  <2> QED
    BY <2>1, CommitStep
<1>7. ASSUME NEW p \in Objects, Unlink(o, p) PROVE IInv'
  <2> DEFINE d == [db EXCEPT !.links = @ \ {<<o, p>>}]
  <2>1. Allowed(d) /\ Commit(d)
    BY <1>1, <1>7 DEF Unlink, Database, Consistent
  <2> QED
    BY <2>1, CommitStep
<1> QED
  BY <1>2, <1>3, <1>4, <1>5, <1>6, <1>7

\* Each query of the service.
LEMMA ServiceStep ==
  ASSUME IInv, Service PROVE IInv'
<1>1. /\ TypeOK /\ PastOK /\ ReadOK /\ StageOK /\ TodoOK /\ ThroughOK
      /\ (Oriented => PairsOK)
  BY DEF IInv
<1>2. CASE Prepare
  BY <1>2, StageStep DEF Prepare
<1>3. CASE Rows
  BY <1>3, RowsStep
<1>4. CASE Finish
  BY <1>4, StageStep DEF Finish
<1>5. ASSUME todo # <<>>
      PROVE  /\ Head(todo) \in Nodes /\ ~ Joined(Head(todo)) /\ read[At(Head(todo)).above] # None
             /\ Answer(Head(todo)) \in [Parents(Head(todo)) -> Seq(Objects)]
             /\ Fits(Head(todo), Answer(Head(todo)))
  <2> DEFINE n == Head(todo)
  <2>1. 1 \in 1 .. Len(todo) /\ n = todo[1] /\ n \in Nodes
    BY <1>1, <1>5 DEF TypeOK
  <2>2. ~ Joined(n) /\ read[At(n).above] # None
    BY <1>1, <2>1 DEF TodoOK
  <2>3. through # None => InTwoQueries(n)
    BY <1>1 DEF ThroughOK
  <2> HIDE DEF n
  <2>4. through # None => n = Head(todo) /\ InTwoQueries(n)
    BY <2>3 DEF n
  <2>5. Answer(n) \in [Parents(n) -> Seq(Objects)] /\ Fits(n, Answer(n))
    BY <1>1, <2>1, <2>2, <2>4, AnswerFits
  <2> QED
    BY <2>1, <2>2, <2>5 DEF n
<1>6. CASE Load
  <2> DEFINE n == Head(todo)
             lists == Answer(n)
  <2>1. /\ stage = "loading" /\ todo # <<>> /\ Attach(n, lists)
        /\ InTwoQueries(n) => Parents(n) = {}
        /\ UNCHANGED <<db, intent, stage, through, rows, past>>
    BY <1>6 DEF Load
  <2>2. through = None
    BY <1>1, <2>1 DEF ThroughOK
  <2>3. lists \in [Parents(n) -> Seq(Objects)] /\ Fits(n, lists)
    BY <1>5, <2>1
  <2>4. n = Head(todo)
    OBVIOUS
  <2> HIDE DEF n, lists
  <2> QED
    BY <2>1, <2>2, <2>3, <2>4, AttachStep
<1>7. CASE Through
  <2> DEFINE n == Head(todo)
             empty == [p \in Parents(n) |-> <<>>]
  <2>1. /\ stage = "loading" /\ todo # <<>> /\ through = None
        /\ InTwoQueries(n) /\ Parents(n) # {} /\ n = Head(todo)
        /\ UNCHANGED <<db, intent, stage, rows, past>>
        /\ \/ ThroughPairs(db, n) = {} /\ Attach(n, empty) /\ UNCHANGED through
           \/ through' = ThroughPairs(db, n) /\ UNCHANGED <<attached, read, todo>>
    BY <1>7 DEF Through
  <2>2. n \in Nodes
    BY <1>5, <2>1
  <2> HIDE DEF n
  <2>3. CASE ThroughPairs(db, n) = {} /\ Attach(n, empty) /\ UNCHANGED through
    <3>1. empty \in [Parents(n) -> Seq(Objects)] /\ Fits(n, empty)
      BY <1>1, <2>1, <2>2, <2>3, NoLinksFit
    <3> HIDE DEF empty
    <3> QED
      BY <2>1, <2>3, <3>1, AttachStep
  <2>4. CASE through' = ThroughPairs(db, n) /\ UNCHANGED <<attached, read, todo>>
    BY <2>1, <2>4, ThroughStep
  <2> QED
    BY <2>1, <2>3, <2>4
<1>8. CASE Related
  <2> DEFINE n == Head(todo)
             lists == Answer(n)
  <2>1. /\ through # None /\ through' = None /\ Attach(n, lists)
        /\ UNCHANGED <<db, intent, stage, rows, past>>
    BY <1>8 DEF Related
  <2>2. stage = "loading" /\ todo # <<>>
    BY <1>1, <2>1 DEF ThroughOK, StageOK
  <2>3. lists \in [Parents(n) -> Seq(Objects)] /\ Fits(n, lists)
    BY <1>5, <2>2
  <2>4. n = Head(todo)
    OBVIOUS
  <2> HIDE DEF n, lists
  <2> QED
    BY <2>1, <2>2, <2>3, <2>4, AttachStep
<1> QED
  BY <1>2, <1>3, <1>4, <1>6, <1>7, <1>8 DEF Service

\* Nothing is loaded when a request begins.
LEMMA InitIInv == Init => IInv
<1> SUFFICES ASSUME Init PROVE IInv
  OBVIOUS
<1> DEFINE N == Len(intent.nodes)
<1>1. /\ db \in Database /\ Consistent(db) /\ intent \in Intents
      /\ stage = "received" /\ todo = <<>> /\ rows = <<>> /\ through = None /\ past = <<db>>
      /\ read = [n \in 0 .. N |-> None] /\ attached = [n \in 1 .. N |-> None]
  BY DatabaseAssumption DEF Init
<1>2. DOMAIN attached = Nodes /\ \A n \in Nodes : attached[n] = None
  BY <1>1 DEF Nodes
<1>3. TypeOK
  <2>1. todo \in Seq(Nodes) /\ rows \in Seq(Objects) /\ past \in Seq(Database)
    BY <1>1
  <2>2. DOMAIN read = 0 .. N /\ \A n \in DOMAIN read : read[n] = None
    BY <1>1
  <2> QED
    BY <1>1, <1>2, <2>1, <2>2 DEF TypeOK
<1>4. PastOK /\ ReadOK /\ StageOK /\ TodoOK /\ Covered /\ ThroughOK
  BY <1>1, <1>2 DEF PastOK, ReadOK, StageOK, TodoOK, Covered, ThroughOK
<1>5. AllFit
  BY <1>1, <1>2 DEF AllFit, PairsOK, RowsExact
<1> QED
  BY <1>3, <1>4, <1>5, AllFitMeans DEF IInv

\* The invariant holds in every reachable state.
THEOREM Inductive == Spec => []IInv
<1>1. IInv /\ [Next]_vars => IInv'
  <2> SUFFICES ASSUME IInv, [Next]_vars PROVE IInv'
    OBVIOUS
  <2>1. CASE Service
    BY <2>1, ServiceStep
  <2>2. CASE Others
    BY <2>2, OthersStep
  <2>3. CASE UNCHANGED vars
    BY <2>3, StageStep DEF vars
  <2> QED
    BY <2>1, <2>2, <2>3 DEF Next
<1> QED
  BY <1>1, InitIInv, PTL DEF Spec

-----------------------------------------------------------------------------
(* The properties                                                          *)

\* The database, the tree and what was loaded of it keep their types.
THEOREM TypeCorrect == Spec => []TypeOK
<1>1. IInv => TypeOK
  BY DEF IInv
<1> QED
  BY <1>1, Inductive, PTL

\* No relation of an accepted query is left out of the answer: whatever has parents is
\* attached to each of them, however deep it is and whichever way it is loaded.
THEOREM NothingIsLeftOut == Spec => []Complete
<1>1. IInv => Complete
  <2> SUFFICES ASSUME IInv, stage = "done", NEW n \in Nodes, Parents(n) # {}
               PROVE  attached[n] # None /\ DOMAIN attached[n] = Parents(n)
    BY DEF Complete
  <2>1. todo = <<>>
    BY DEF IInv, StageOK
  <2>2. Len(todo) = 0
    BY <2>1
  <2> QED
    BY <2>2 DEF IInv, Covered
<1> QED
  BY <1>1, Inductive, PTL

\* Whatever is committed between the queries, a child of a reverse foreign key is under one
\* parent at most, and no child is twice under a parent unless a join multiplies it.
THEOREM AtMostOneParent == Spec => []OneParent
<1>1. IInv => OneParent
  BY DEF IInv
<1> QED
  BY <1>1, Inductive, PTL

\* Whatever is committed between the queries, a child that is attached belonged to its
\* parent and passed the filter, as late or later; unless the hybrid builder reads the
\* through table of a model related to itself from the side that does not declare it.
THEOREM NothingIsInvented == Spec => [](Oriented => NothingInvented)
<1>1. IInv => (Oriented => NothingInvented)
  BY DEF IInv
<1> QED
  BY <1>1, Inductive, PTL

\* Whatever is committed between the queries, a child that belonged to its parent and
\* passed the filter all the time is attached, or the limit is reached; with the same
\* exception.
THEOREM NothingIsLost == Spec => [](Oriented => NothingLost)
<1>1. IInv => (Oriented => NothingLost)
  BY DEF IInv
<1> QED
  BY <1>1, Inductive, PTL

\* Without concurrent writes, each of the two ways of loading gives every object its
\* relation, filtered, in order and cut; with the same exception.
THEOREM ExpansionsAreEquivalent == Spec => [](Oriented => EquivalentExpansion)
<1>1. IInv => (Oriented => EquivalentExpansion)
  <2> SUFFICES ASSUME IInv, Oriented, stage = "done", Len(past) = 1
               PROVE  /\ Multiplying(0) = {} => rows = Cut(Listing(db.alive, FALSE), intent.limit)
                      /\ \A n \in Nodes : ~ Forgotten(n) /\ Multiplying(n) = {} => \A p \in Parents(n) :
                           attached[n][p] = Expansion(n, p)
    BY DEF EquivalentExpansion
  <2>1. Len(todo) = 0
    BY DEF IInv, StageOK
  <2>2. Covered /\ Exact
    BY DEF IInv
  <2>3. \A n \in Nodes : Parents(n) # {} => attached[n] # None /\ DOMAIN attached[n] = Parents(n)
    BY <2>1, <2>2 DEF Covered
  <2> QED
    BY <2>2, <2>3 DEF Exact
<1> QED
  BY <1>1, Inductive, PTL

=============================================================================
