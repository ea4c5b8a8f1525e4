----------------------- MODULE FilterSemantics_proofs -----------------------
(***************************************************************************)
(* What FilterSemantics promises, proved for every set of models, rows and *)
(* filters.  The functions that say what an expression comes to are        *)
(* recursive over its parts: first it is shown that such functions exist,  *)
(* then what each of them comes to at a node, then by induction over the   *)
(* depth of a filter that its translation keeps its meaning.               *)
(***************************************************************************)
EXTENDS FilterSemantics, FiniteSetTheorems, TLAPS

-----------------------------------------------------------------------------
(* Induction and recursion                                                 *)

\* A set of natural numbers has a least element.
LEMMA LeastNumber ==
  ASSUME NEW T, T \subseteq Nat, T # {}
  PROVE  \E x \in T : \A y \in T : x <= y
<1> DEFINE R == OpToRel(<, Nat)
<1>1. IsWellFoundedOn(R, Nat)
  BY NatLessThanWellFounded
<1>2. \A x, y \in Nat : <<x, y>> \in R <=> x < y
  BY DEF OpToRel
<1> HIDE DEF R
<1>3. PICK x \in T : \A y \in T : ~ (<<y, x>> \in R)
  BY <1>1, WFMin
<1>4. ASSUME NEW y \in T PROVE x <= y
  <2>1. x \in Nat /\ y \in Nat
    OBVIOUS
  <2>2. ~ (y < x)
    BY <1>2, <1>3, <2>1
  <2> QED
    BY <2>1, <2>2
<1> QED
  BY <1>4

\* A set that has 0, and with each number the next, has all of them.
LEMMA SetInduction ==
  ASSUME NEW S, 0 \in S, \A n \in Nat : n \in S => n + 1 \in S
  PROVE  Nat \subseteq S
<1> SUFFICES ASSUME Nat \ S # {} PROVE FALSE
  OBVIOUS
<1>1. PICK x \in Nat \ S : \A y \in Nat \ S : x <= y
  BY LeastNumber
<1>2. x - 1 \in Nat /\ x - 1 \in S
  BY <1>1
<1> QED
  BY <1>1, <1>2

\* The same for the numbers up to a bound.
LEMMA BoundedInduction ==
  ASSUME NEW N \in Nat, NEW S, 0 \in S, \A n \in 0 .. N - 1 : n \in S => n + 1 \in S
  PROVE  0 .. N \subseteq S
<1> DEFINE T == {n \in Nat : n <= N => n \in S}
<1>1. 0 \in T
  OBVIOUS
<1>2. ASSUME NEW n \in Nat, n \in T PROVE n + 1 \in T
  BY <1>2
<1> HIDE DEF T
<1>3. Nat \subseteq T
  BY <1>1, <1>2, SetInduction
<1> QED
  BY <1>3 DEF T

\* A set that has every node whose parts it has, has all of them.
LEMMA NodeInduction ==
  ASSUME NEW S, \A f \in Nodes : (\A i \in DOMAIN Parts(f) : Parts(f)[i] \in S) => f \in S
  PROVE  \A f \in Nodes : f \in S
<1> SUFFICES ASSUME NEW f0 \in Nodes, f0 \notin S PROVE FALSE
  OBVIOUS
<1> DEFINE T == {Depth[f] : f \in Nodes \ S}
<1>1. T \subseteq Nat /\ T # {}
  BY NodeAssumption
<1>2. PICK n \in T : \A m \in T : n <= m
  BY <1>1, LeastNumber
<1>3. PICK f \in Nodes \ S : Depth[f] = n
  OBVIOUS
<1>4. ASSUME NEW i \in DOMAIN Parts(f) PROVE Parts(f)[i] \in S
  <2>1. Parts(f)[i] \in Nodes /\ Depth[Parts(f)[i]] < Depth[f]
    BY NodeAssumption
  <2>2. Depth[Parts(f)[i]] \in Nat /\ Depth[f] \in Nat
    BY <2>1, NodeAssumption
  <2> SUFFICES ASSUME Parts(f)[i] \notin S PROVE FALSE
    OBVIOUS
  <2>3. Depth[Parts(f)[i]] \in T
    BY <2>1
  <2> HIDE DEF T
  <2> QED
    BY <1>2, <1>3, <2>1, <2>2, <2>3
<1> QED
  BY <1>3, <1>4

\* A rule that tells the value of a node from the values of its parts has a function over all
\* nodes that obeys it.
IsRule(F, V) ==
  /\ V # {} /\ F \in [[Nodes -> V] -> [Nodes -> V]]
  /\ \A g, h \in [Nodes -> V], f \in Nodes :
       (\A i \in DOMAIN Parts(f) : g[Parts(f)[i]] = h[Parts(f)[i]]) => F[g][f] = F[h][f]
\* Such a rule has a function that obeys it everywhere.
LEMMA NodeRecursion ==
  ASSUME NEW F, NEW V, IsRule(F, V)
  PROVE  \E g \in [Nodes -> V] : \A f \in Nodes : g[f] = F[g][f]
<1>rule. /\ V # {} /\ F \in [[Nodes -> V] -> [Nodes -> V]]
         /\ \A g, h \in [Nodes -> V], f \in Nodes :
              (\A i \in DOMAIN Parts(f) : g[Parts(f)[i]] = h[Parts(f)[i]]) => F[g][f] = F[h][f]
  BY DEF IsRule
<1> DEFINE Good(g, n) == \A f \in Nodes : Depth[f] < n => g[f] = F[g][f]
<1>parts. \A f \in Nodes : \A i \in DOMAIN Parts(f) :
            Parts(f)[i] \in Nodes /\ Depth[Parts(f)[i]] < Depth[f]
  BY NodeAssumption
<1>depth. \A f \in Nodes : Depth[f] \in Nat
  BY NodeAssumption
<1>1. ASSUME NEW g \in [Nodes -> V], NEW h \in [Nodes -> V], NEW n \in Nat, NEW m \in Nat,
             Good(g, n), Good(h, m)
      PROVE  \A f \in Nodes : Depth[f] < n /\ Depth[f] < m => g[f] = h[f]
  <2> DEFINE S == {f \in Nodes : Depth[f] < n /\ Depth[f] < m => g[f] = h[f]}
  <2>1. ASSUME NEW f \in Nodes, \A i \in DOMAIN Parts(f) : Parts(f)[i] \in S PROVE f \in S
    <3> SUFFICES ASSUME Depth[f] < n /\ Depth[f] < m PROVE g[f] = h[f]
      OBVIOUS
    <3>1. ASSUME NEW i \in DOMAIN Parts(f) PROVE g[Parts(f)[i]] = h[Parts(f)[i]]
      <4>1. Parts(f)[i] \in S
        BY <2>1
      <4>2. Depth[Parts(f)[i]] < n /\ Depth[Parts(f)[i]] < m
        BY <1>parts, <1>depth
      <4> QED
        BY <4>1, <4>2
    <3>2. F[g][f] = F[h][f]
      BY <1>rule, <3>1
    <3> QED
      BY <1>1, <3>2
  <2> HIDE DEF S
  <2>2. \A f \in Nodes : f \in S
    BY <2>1, NodeInduction
  <2> QED
    BY <2>2 DEF S
<1> DEFINE T == {n \in Nat : \E g \in [Nodes -> V] : Good(g, n)}
<1>2. 0 \in T
  <2>1. PICK v \in V : TRUE
    BY <1>rule
  <2>2. [f \in Nodes |-> v] \in [Nodes -> V]
    OBVIOUS
  <2>3. Good([f \in Nodes |-> v], 0)
    BY <1>depth
  <2> QED
    BY <2>2, <2>3
<1>3. ASSUME NEW n \in Nat, n \in T PROVE n + 1 \in T
  <2>1. PICK g \in [Nodes -> V] : Good(g, n)
    BY <1>3
  <2>2. F[g] \in [Nodes -> V]
    BY <1>rule
  <2>3. ASSUME NEW f \in Nodes, Depth[f] < n + 1 PROVE F[g][f] = F[F[g]][f]
    <3>1. ASSUME NEW i \in DOMAIN Parts(f) PROVE g[Parts(f)[i]] = F[g][Parts(f)[i]]
      <4>1. Parts(f)[i] \in Nodes /\ Depth[Parts(f)[i]] < n
        BY <1>parts, <1>depth, <2>3
      <4> QED
        BY <2>1, <4>1
    <3> QED
      BY <1>rule, <2>2, <3>1
  <2>4. Good(F[g], n + 1)
    BY <2>3
  <2> QED
    BY <2>2, <2>4
<1> HIDE DEF T
<1>4. Nat \subseteq T
  BY <1>2, <1>3, SetInduction
<1> DEFINE Upto(f) == CHOOSE g \in [Nodes -> V] : Good(g, Depth[f] + 1)
           G == [f \in Nodes |-> Upto(f)[f]]
<1>5. ASSUME NEW f \in Nodes PROVE Upto(f) \in [Nodes -> V] /\ Good(Upto(f), Depth[f] + 1)
  <2>1. Depth[f] + 1 \in T
    BY <1>4, <1>depth
  <2>2. \E g \in [Nodes -> V] : Good(g, Depth[f] + 1)
    BY <2>1 DEF T
  <2> HIDE DEF Good
  <2> QED
    BY <2>2, Zenon
<1> HIDE DEF Upto
<1>6. G \in [Nodes -> V]
  BY <1>5
<1>7. ASSUME NEW f \in Nodes PROVE G[f] = F[G][f]
  <2>1. ASSUME NEW i \in DOMAIN Parts(f) PROVE Upto(f)[Parts(f)[i]] = G[Parts(f)[i]]
    <3> DEFINE p == Parts(f)[i]
    <3>1. p \in Nodes /\ Depth[p] < Depth[f]
      BY <1>parts
    <3>2. Depth[p] \in Nat /\ Depth[f] \in Nat
      BY <1>depth, <3>1
    <3> HIDE DEF p
    <3>3. Depth[p] + 1 \in Nat /\ Depth[f] + 1 \in Nat /\ Depth[p] < Depth[f] + 1 /\ Depth[p] < Depth[p] + 1
      BY <3>1, <3>2
    <3>4. Upto(f)[p] = Upto(p)[p]
      <4> HIDE DEF Good
      <4>1. Upto(f) \in [Nodes -> V] /\ Good(Upto(f), Depth[f] + 1)
        BY <1>5
      <4>2. Upto(p) \in [Nodes -> V] /\ Good(Upto(p), Depth[p] + 1)
        BY <1>5, <3>1
      <4> QED
        BY <1>1, <3>1, <3>3, <4>1, <4>2
    <3> QED
      BY <3>1, <3>4 DEF p
  <2>2. Upto(f) \in [Nodes -> V] /\ Upto(f)[f] = F[Upto(f)][f]
    <3>1. Depth[f] < Depth[f] + 1
      BY <1>depth
    <3> QED
      BY <1>5, <3>1
  <2> HIDE DEF G
  <2>3. F[Upto(f)][f] = F[G][f]
    BY <1>rule, <1>6, <2>1, <2>2
  <2> QED
    BY <2>2, <2>3 DEF G
<1> QED
  BY <1>6, <1>7

\* The same for what is found one step at a time.
IsStep(F, n, V, v) == n \in Nat /\ v \in V /\ F \in [1 .. n -> [V -> V]]
\* So have steps that are taken one after the other.
LEMMA StepRecursion ==
  ASSUME NEW F, NEW n, NEW V, NEW v, IsStep(F, n, V, v)
  PROVE  \E g \in [0 .. n -> V] : g[0] = v /\ \A i \in 1 .. n : g[i] = F[i][g[i - 1]]
<1>step. n \in Nat /\ v \in V /\ F \in [1 .. n -> [V -> V]]
  BY DEF IsStep
<1> DEFINE Good(g, k) == g[0] = v /\ \A i \in 1 .. k : g[i] = F[i][g[i - 1]]
           T == {k \in 0 .. n : \E g \in [0 .. n -> V] : Good(g, k)}
<1>1. 0 \in T
  <2>1. [i \in 0 .. n |-> v] \in [0 .. n -> V] /\ Good([i \in 0 .. n |-> v], 0)
    BY <1>step
  <2>2. 0 \in 0 .. n
    BY <1>step
  <2> HIDE DEF Good
  <2> QED
    BY <2>1, <2>2
<1>2. ASSUME NEW k \in 0 .. n - 1, k \in T PROVE k + 1 \in T
  <2>1. PICK g \in [0 .. n -> V] : Good(g, k)
    BY <1>2
  <2> DEFINE h == [i \in 0 .. n |-> IF i = k + 1 THEN F[k + 1][g[k]] ELSE g[i]]
  <2>2. k + 1 \in 1 .. n /\ k \in 0 .. n
    BY <1>step
  <2>3. F[k + 1][g[k]] \in V
    BY <1>step, <2>2
  <2>4. h \in [0 .. n -> V]
    BY <2>3
  <2>5. h[0] = v
    BY <1>step, <2>1
  <2>6. ASSUME NEW i \in 1 .. k + 1 PROVE h[i] = F[i][h[i - 1]]
    <3>1. i \in 0 .. n /\ i - 1 \in 0 .. n /\ i - 1 # k + 1
      BY <1>step, <2>2
    <3>2. CASE i = k + 1
      BY <3>1, <3>2
    <3>3. CASE i # k + 1
      BY <2>1, <3>1, <3>3
    <3> QED
      BY <3>2, <3>3
  <2> HIDE DEF h
  <2>7. Good(h, k + 1) /\ k + 1 \in 0 .. n
    BY <1>step, <2>2, <2>5, <2>6
  <2> HIDE DEF Good
  <2> QED
    BY <2>4, <2>7
<1> HIDE DEF T
<1>3. 0 .. n \subseteq T
  BY <1>step, <1>1, <1>2, BoundedInduction
<1>4. n \in T
  BY <1>step, <1>3
<1> QED
  BY <1>4 DEF T

-----------------------------------------------------------------------------
(* Nodes and outcomes                                                      *)

\* What is known of each kind of node.
LEMMA NodeShape ==
  ASSUME NEW f \in Nodes
  PROVE  /\ Shaped(f) /\ Typed(f) /\ Parts(f) \in Seq(Nodes)
         /\ \A i \in DOMAIN Parts(f) : Parts(f)[i] \in Nodes
         /\ f.kind \in {"Compare", "BoolOp", "BinOp"} =>
              Parts(f) = <<f.left, f.right>> /\ f.left \in Nodes /\ f.right \in Nodes
         /\ f.kind = "Not" => Parts(f) = <<f.operand>> /\ f.operand \in Nodes
         /\ f.kind = "Call" => Parts(f) = f.args /\ f.args \in Seq(Nodes)
         /\ f.kind = "Lambda" => Parts(f) = <<f.body>> /\ f.body \in Nodes
         /\ f.kind \in {"Field", "Literal", "List", "AnyRow"} => Parts(f) = <<>>
<1>1. Shaped(f) /\ Typed(f) /\ Parts(f) \in Seq(Nodes)
  BY NodeAssumption
<1>2. \A i \in DOMAIN Parts(f) : Parts(f)[i] \in Nodes
  BY <1>1
<1>3. f.kind \in {"Compare", "BoolOp", "BinOp"} =>
        Parts(f) = <<f.left, f.right>> /\ f.left \in Nodes /\ f.right \in Nodes
  <2> SUFFICES ASSUME f.kind \in {"Compare", "BoolOp", "BinOp"}
               PROVE  Parts(f) = <<f.left, f.right>> /\ f.left \in Nodes /\ f.right \in Nodes
    OBVIOUS
  <2>1. Parts(f) = <<f.left, f.right>>
    BY DEF Parts
  <2>2. 1 \in DOMAIN Parts(f) /\ 2 \in DOMAIN Parts(f) /\ Parts(f)[1] = f.left /\ Parts(f)[2] = f.right
    BY <2>1
  <2> QED
    BY <1>2, <2>1, <2>2
<1>4. f.kind = "Not" => Parts(f) = <<f.operand>> /\ f.operand \in Nodes
  <2> SUFFICES ASSUME f.kind = "Not" PROVE Parts(f) = <<f.operand>> /\ f.operand \in Nodes
    OBVIOUS
  <2>1. Parts(f) = <<f.operand>>
    BY DEF Parts
  <2>2. 1 \in DOMAIN Parts(f) /\ Parts(f)[1] = f.operand
    BY <2>1
  <2> QED
    BY <1>2, <2>1, <2>2
<1>5. f.kind = "Call" => Parts(f) = f.args /\ f.args \in Seq(Nodes)
  BY <1>1 DEF Parts
<1>6. f.kind = "Lambda" => Parts(f) = <<f.body>> /\ f.body \in Nodes
  <2> SUFFICES ASSUME f.kind = "Lambda" PROVE Parts(f) = <<f.body>> /\ f.body \in Nodes
    OBVIOUS
  <2>1. Parts(f) = <<f.body>>
    BY DEF Parts
  <2>2. 1 \in DOMAIN Parts(f) /\ Parts(f)[1] = f.body
    BY <2>1
  <2> QED
    BY <1>2, <2>1, <2>2
<1>7. f.kind \in {"Field", "Literal", "List", "AnyRow"} => Parts(f) = <<>>
  BY DEF Parts
<1> QED
  BY <1>1, <1>2, <1>3, <1>4, <1>5, <1>6, <1>7

\* First raises nothing exactly when no part does.
LEMMA FirstOutcome ==
  ASSUME NEW s, NEW n \in Nat, DOMAIN s = 1 .. n, \A i \in DOMAIN s : s[i] \in Outcomes
  PROVE  /\ First(s) \in Outcomes
         /\ First(s) = "fine" <=> \A i \in DOMAIN s : s[i] = "fine"
         /\ First(s) = "fine" \/ \E i \in DOMAIN s : First(s) = s[i]
<1> DEFINE raised == {i \in DOMAIN s : s[i] # "fine"}
<1>1. CASE raised = {}
  BY <1>1 DEF First, Outcomes
<1>2. CASE raised # {}
  <2>1. raised \subseteq Nat
    OBVIOUS
  <2>2. PICK x \in raised : \A y \in raised : x <= y
    BY <1>2, <2>1, LeastNumber
  <2> DEFINE c == CHOOSE i \in raised : \A j \in raised : i <= j
  <2>3. First(s) = s[c]
    BY <1>2 DEF First
  <2> HIDE DEF raised
  <2>4. c \in raised
    BY <2>2
  <2>5. c \in DOMAIN s /\ s[c] # "fine"
    BY <2>4 DEF raised
  <2> HIDE DEF c
  <2> QED
    BY <2>3, <2>5
<1> QED
  BY <1>1, <1>2

\* What comes next is reached when the first is fine.
LEMMA ThenOutcome ==
  ASSUME NEW a \in Outcomes, NEW b \in Outcomes
  PROVE  Then(a, b) \in Outcomes /\ (Then(a, b) = "fine" <=> a = "fine" /\ b = "fine")
BY DEF Then, Outcomes

\* A check refuses, and never crashes.
LEMMA CheckOutcome ==
  ASSUME NEW holds \in BOOLEAN
  PROVE  Check(holds) \in Outcomes /\ (Check(holds) = "fine" <=> holds) /\ Check(holds) # "crashed"
BY DEF Check, Outcomes

\* Parsing is a function of nodes that obeys its rule.
LEMMA ParsedFunction ==
  \E p \in [Nodes -> Outcomes] : \A h \in Nodes : Parsed(h) = p[h] /\ p[h] = ParsedNode(h, p)
<1> DEFINE V == Outcomes
           Obeys(p) == p = [h \in Nodes |-> ParsedNode(h, p)]
           F == [g \in [Nodes -> V] |-> [h \in Nodes |-> ParsedNode(h, g)]]
<1>1. ASSUME NEW g, NEW h \in Nodes, \A i \in DOMAIN Parts(h) : g[Parts(h)[i]] \in V
      PROVE  ParsedNode(h, g) \in V
  <2> DEFINE s == [i \in DOMAIN Parts(h) |-> g[Parts(h)[i]]]
  <2>1. PICK n \in Nat : DOMAIN Parts(h) = 1 .. n
    BY NodeShape
  <2>2. DOMAIN s = 1 .. n /\ \A i \in DOMAIN s : s[i] \in Outcomes
    BY <1>1, <2>1
  <2>3. ParsedNode(h, g) = Then(First(s), Reduced(h))
    BY DEF ParsedNode
  <2> HIDE DEF s
  <2>4. First(s) \in Outcomes
    BY <2>2, FirstOutcome
  <2>5. Reduced(h) \in Outcomes
    BY DEF Reduced, Check, Outcomes
  <2> QED
    BY <2>3, <2>4, <2>5, ThenOutcome
<1>2. ASSUME NEW g, NEW k, NEW h \in Nodes, \A i \in DOMAIN Parts(h) : g[Parts(h)[i]] = k[Parts(h)[i]]
      PROVE  ParsedNode(h, g) = ParsedNode(h, k)
  BY <1>2, Zenon DEF ParsedNode
<1>3. F \in [[Nodes -> V] -> [Nodes -> V]]
  <2> HIDE DEF V
  <2> QED
    BY <1>1, NodeShape
<1>4. IsRule(F, V)
  <2>1. V # {}
    BY DEF Outcomes
  <2> HIDE DEF V
  <2>2. \A g, h \in [Nodes -> V], k \in Nodes :
          (\A i \in DOMAIN Parts(k) : g[Parts(k)[i]] = h[Parts(k)[i]]) => F[g][k] = F[h][k]
    BY <1>2
  <2> HIDE DEF F
  <2> QED
    BY <1>3, <2>1, <2>2 DEF IsRule
<1> HIDE DEF V
<1>5. \E p : Obeys(p)
  <2> HIDE DEF F
  <2>1. PICK p \in [Nodes -> V] : \A h \in Nodes : p[h] = F[p][h]
    BY <1>4, NodeRecursion
  <2>2. Obeys(p)
    BY <2>1 DEF F
  <2> QED
    BY <2>2
<1> DEFINE found == CHOOSE p : Obeys(p)
<1>6. Obeys(found)
  <2> HIDE DEF Obeys
  <2> QED
    BY <1>5
<1>7. \A h \in Nodes : Parsed(h) = found[h]
  BY DEF Parsed
<1>8. found = [h \in Nodes |-> ParsedNode(h, found)]
  BY <1>6
<1> HIDE DEF found
<1> DEFINE S == {h \in Nodes : found[h] \in V}
<1>9. ASSUME NEW h \in Nodes, \A i \in DOMAIN Parts(h) : Parts(h)[i] \in S PROVE h \in S
  BY <1>1, <1>8, <1>9
<1> HIDE DEF S
<1>10. \A h \in Nodes : h \in S
  BY <1>9, NodeInduction
<1>11. found \in [Nodes -> V]
  BY <1>8, <1>10 DEF S
<1>12. \A h \in Nodes : found[h] = ParsedNode(h, found)
  BY <1>8
<1> QED
  BY <1>7, <1>11, <1>12 DEF V

\* An expression parses when its parts do, and refuses for one of them or for itself.
LEMMA ParsedRule ==
  ASSUME NEW f \in Nodes
  PROVE  /\ Parsed(f) \in Outcomes
         /\ Parsed(f) = "fine" <=> Reduced(f) = "fine" /\ \A i \in DOMAIN Parts(f) : Parsed(Parts(f)[i]) = "fine"
         /\ Parsed(f) = "refused" => Reduced(f) = "refused" \/ \E i \in DOMAIN Parts(f) : Parsed(Parts(f)[i]) = "refused"
<1>1. PICK p \in [Nodes -> Outcomes] : \A h \in Nodes : Parsed(h) = p[h] /\ p[h] = ParsedNode(h, p)
  BY ParsedFunction
<1> DEFINE s == [i \in DOMAIN Parts(f) |-> p[Parts(f)[i]]]
<1>2. PICK n \in Nat : DOMAIN Parts(f) = 1 .. n
  BY NodeShape
<1>3. DOMAIN s = 1 .. n /\ DOMAIN s = DOMAIN Parts(f)
  BY <1>2
<1>4. ASSUME NEW i \in DOMAIN Parts(f) PROVE s[i] = Parsed(Parts(f)[i]) /\ s[i] \in Outcomes
  BY <1>1, NodeShape
<1>5. Parsed(f) = Then(First(s), Reduced(f)) /\ Parsed(f) \in Outcomes
  BY <1>1 DEF ParsedNode
<1> HIDE DEF s
<1>6. /\ First(s) \in Outcomes
      /\ First(s) = "fine" <=> \A i \in DOMAIN s : s[i] = "fine"
      /\ First(s) = "fine" \/ \E i \in DOMAIN s : First(s) = s[i]
  BY <1>3, <1>4, FirstOutcome
<1>7. Reduced(f) \in Outcomes
  BY DEF Reduced, Check, Outcomes
<1>8. Parsed(f) = "fine" <=> First(s) = "fine" /\ Reduced(f) = "fine"
  BY <1>5, <1>6, <1>7, ThenOutcome
<1>9. Parsed(f) = "refused" => First(s) = "refused" \/ Reduced(f) = "refused"
  BY <1>5 DEF Then
<1>10. First(s) = "fine" <=> \A i \in DOMAIN Parts(f) : Parsed(Parts(f)[i]) = "fine"
  BY <1>3, <1>4, <1>6
<1>11. First(s) = "refused" => \E i \in DOMAIN Parts(f) : Parsed(Parts(f)[i]) = "refused"
  BY <1>3, <1>4, <1>6
<1> QED
  BY <1>5, <1>8, <1>9, <1>10, <1>11

\* So is what Django accepts no field for.
LEMMA BareFunction ==
  \E p \in [Nodes -> BOOLEAN] : \A h \in Nodes : Bare(h) = p[h] /\ p[h] = BareNode(h, p)
<1> DEFINE V == BOOLEAN
           Obeys(p) == p = [h \in Nodes |-> BareNode(h, p)]
           F == [g \in [Nodes -> V] |-> [h \in Nodes |-> BareNode(h, g)]]
<1>1. ASSUME NEW g, NEW h \in Nodes, \A i \in DOMAIN Parts(h) : g[Parts(h)[i]] \in V
      PROVE  BareNode(h, g) \in V
  BY DEF BareNode
<1>2. ASSUME NEW g, NEW k, NEW h \in Nodes, \A i \in DOMAIN Parts(h) : g[Parts(h)[i]] = k[Parts(h)[i]]
      PROVE  BareNode(h, g) = BareNode(h, k)
  BY <1>2, Zenon DEF BareNode
<1>3. F \in [[Nodes -> V] -> [Nodes -> V]]
  <2> HIDE DEF V
  <2> QED
    BY <1>1, NodeShape
<1>4. IsRule(F, V)
  <2>1. V # {}
    OBVIOUS
  <2> HIDE DEF V
  <2>2. \A g, h \in [Nodes -> V], k \in Nodes :
          (\A i \in DOMAIN Parts(k) : g[Parts(k)[i]] = h[Parts(k)[i]]) => F[g][k] = F[h][k]
    BY <1>2
  <2> HIDE DEF F
  <2> QED
    BY <1>3, <2>1, <2>2 DEF IsRule
<1> HIDE DEF V
<1>5. \E p : Obeys(p)
  <2> HIDE DEF F
  <2>1. PICK p \in [Nodes -> V] : \A h \in Nodes : p[h] = F[p][h]
    BY <1>4, NodeRecursion
  <2>2. Obeys(p)
    BY <2>1 DEF F
  <2> QED
    BY <2>2
<1> DEFINE found == CHOOSE p : Obeys(p)
<1>6. Obeys(found)
  <2> HIDE DEF Obeys
  <2> QED
    BY <1>5
<1>7. \A h \in Nodes : Bare(h) = found[h]
  BY DEF Bare
<1>8. found = [h \in Nodes |-> BareNode(h, found)]
  BY <1>6
<1> HIDE DEF found
<1> DEFINE S == {h \in Nodes : found[h] \in V}
<1>9. ASSUME NEW h \in Nodes, \A i \in DOMAIN Parts(h) : Parts(h)[i] \in S PROVE h \in S
  BY <1>1, <1>8, <1>9
<1> HIDE DEF S
<1>10. \A h \in Nodes : h \in S
  BY <1>9, NodeInduction
<1>11. found \in [Nodes -> V]
  BY <1>8, <1>10 DEF S
<1>12. \A h \in Nodes : found[h] = BareNode(h, found)
  BY <1>8
<1> QED
  BY <1>7, <1>11, <1>12 DEF V

\* A field is bare, and so is a condition with one where a condition belongs.
LEMMA BareRule ==
  ASSUME NEW f \in Nodes
  PROVE  /\ Bare(f) \in BOOLEAN
         /\ Bare(f) <=> \/ f.kind = "Field"
                        \/ f.kind \in {"Not", "BoolOp"} /\ \E i \in DOMAIN Parts(f) : Bare(Parts(f)[i])
<1>1. PICK p \in [Nodes -> BOOLEAN] : \A h \in Nodes : Bare(h) = p[h] /\ p[h] = BareNode(h, p)
  BY BareFunction
<1>2. \A i \in DOMAIN Parts(f) : Bare(Parts(f)[i]) = p[Parts(f)[i]]
  BY <1>1, NodeShape
<1>3. Bare(f) = BareNode(f, p) /\ Bare(f) \in BOOLEAN
  BY <1>1
<1> QED
  BY <1>2, <1>3, Zenon DEF BareNode

-----------------------------------------------------------------------------
(* Paths                                                                   *)

\* The models along a path are found one after the other.
LEMMA AlongSteps ==
  ASSUME NEW model \in Models, NEW path \in Seq(Names)
  PROVE  \E at \in [0 .. Len(path) -> Models \union {None}] :
           /\ at[0] = model
           /\ \A i \in 1 .. Len(path) : at[i] = IF Has(at[i - 1], path[i]) THEN Relation(at[i - 1], path[i]).to ELSE None
           /\ Along(model, path) = at
<1> DEFINE V == Models \union {None}
           n == Len(path)
           v == model
           N(x, i) == IF Has(x, path[i]) THEN Relation(x, path[i]).to ELSE None
           Obeys(at) == at = [i \in 0 .. n |-> IF i = 0 THEN v ELSE N(at[i - 1], i)]
           F == [i \in 1 .. n |-> [x \in V |-> N(x, i)]]
           found == CHOOSE at : Obeys(at)
<1>1. n \in Nat /\ v \in V
  OBVIOUS
<1>2. ASSUME NEW i \in 1 .. n, NEW x \in V PROVE N(x, i) \in V
  <2>1. ASSUME Has(x, path[i]) PROVE Relation(x, path[i]).to \in Models
    <3> DEFINE r == Relation(x, path[i])
    <3>1. r \in Relations
      BY <2>1 DEF Has, Relation
    <3> HIDE DEF r
    <3>2. r.to \in Models
      BY <3>1, RelationAssumption
    <3> QED
      BY <3>2 DEF r
  <2> QED
    BY <2>1
<1>3. Along(model, path) = found
  BY DEF Along
<1> HIDE DEF V, n, v, N
<1>4. IsStep(F, n, V, v)
  <2>1. F \in [1 .. n -> [V -> V]]
    BY <1>2
  <2> HIDE DEF F
  <2> QED
    BY <1>1, <2>1 DEF IsStep
<1>5. Obeys(found)
  <2>1. PICK at \in [0 .. n -> V] : at[0] = v /\ \A i \in 1 .. n : at[i] = F[i][at[i - 1]]
    <3> HIDE DEF F
    <3> QED
      BY <1>4, StepRecursion
  <2>2. ASSUME NEW i \in 0 .. n, i # 0 PROVE at[i] = N(at[i - 1], i)
    <3>1. i \in 1 .. n /\ i - 1 \in 0 .. n
      BY <1>1, <2>2
    <3>2. at[i - 1] \in V /\ at[i] = F[i][at[i - 1]]
      BY <2>1, <3>1
    <3> QED
      BY <3>1, <3>2
  <2>3. Obeys(at)
    BY <2>1, <2>2
  <2> HIDE DEF Obeys
  <2> QED
    BY <2>3
<1> HIDE DEF found
<1>6. found = [i \in 0 .. n |-> IF i = 0 THEN v ELSE N(found[i - 1], i)]
  BY <1>5
<1>7. found[0] = v
  BY <1>1, <1>6
<1>8. ASSUME NEW i \in 1 .. n PROVE found[i] = N(found[i - 1], i)
  <2>1. i \in 0 .. n /\ i # 0
    BY <1>1
  <2> QED
    BY <1>6, <2>1
<1> DEFINE S == {i \in 0 .. n : found[i] \in V}
<1>9. 0 \in S
  BY <1>1, <1>7
<1>10. ASSUME NEW i \in 0 .. n - 1, i \in S PROVE i + 1 \in S
  <2>1. i + 1 \in 1 .. n /\ i + 1 \in 0 .. n /\ (i + 1) - 1 = i
    BY <1>1
  <2>2. found[i] \in V
    BY <1>10
  <2>3. found[i + 1] = N(found[i], i + 1)
    BY <1>8, <2>1
  <2>4. N(found[i], i + 1) \in V
    BY <1>2, <2>1, <2>2
  <2> QED
    BY <2>1, <2>3, <2>4
<1> HIDE DEF S
<1>11. 0 .. n \subseteq S
  BY <1>1, <1>9, <1>10, BoundedInduction
<1>12. found \in [0 .. n -> V]
  BY <1>6, <1>11 DEF S
<1> QED
  BY <1>3, <1>7, <1>8, <1>12 DEF V, n, v, N

\* The rows along a path are found one relation after the other.
LEMMA RowsSteps ==
  ASSUME NEW d, NEW o \in Objects, NEW path \in Seq(Names)
  PROVE  \E at \in [0 .. Len(path) -> SUBSET Objects] :
           /\ at[0] = {o}
           /\ \A i \in 1 .. Len(path) : at[i] = {b \in Objects : \E a \in at[i - 1] : <<a, path[i], b>> \in d.edges}
           /\ RowsAt(d, o, path) = at[Len(path)]
<1> DEFINE V == SUBSET Objects
           n == Len(path)
           v == {o}
           N(x, i) == {b \in Objects : \E a \in x : <<a, path[i], b>> \in d.edges}
           Obeys(at) == at = [i \in 0 .. n |-> IF i = 0 THEN v ELSE N(at[i - 1], i)]
           F == [i \in 1 .. n |-> [x \in V |-> N(x, i)]]
           found == CHOOSE at : Obeys(at)
<1>1. n \in Nat /\ v \in V
  OBVIOUS
<1>2. ASSUME NEW i \in 1 .. n, NEW x \in V PROVE N(x, i) \in V
  OBVIOUS
<1>3. RowsAt(d, o, path) = found[Len(path)]
  BY DEF RowsAt
<1> HIDE DEF V, n, v, N
<1>4. IsStep(F, n, V, v)
  <2>1. F \in [1 .. n -> [V -> V]]
    BY <1>2
  <2> HIDE DEF F
  <2> QED
    BY <1>1, <2>1 DEF IsStep
<1>5. Obeys(found)
  <2>1. PICK at \in [0 .. n -> V] : at[0] = v /\ \A i \in 1 .. n : at[i] = F[i][at[i - 1]]
    <3> HIDE DEF F
    <3> QED
      BY <1>4, StepRecursion
  <2>2. ASSUME NEW i \in 0 .. n, i # 0 PROVE at[i] = N(at[i - 1], i)
    <3>1. i \in 1 .. n /\ i - 1 \in 0 .. n
      BY <1>1, <2>2
    <3>2. at[i - 1] \in V /\ at[i] = F[i][at[i - 1]]
      BY <2>1, <3>1
    <3> QED
      BY <3>1, <3>2
  <2>3. Obeys(at)
    BY <2>1, <2>2
  <2> HIDE DEF Obeys
  <2> QED
    BY <2>3
<1> HIDE DEF found
<1>6. found = [i \in 0 .. n |-> IF i = 0 THEN v ELSE N(found[i - 1], i)]
  BY <1>5
<1>7. found[0] = v
  BY <1>1, <1>6
<1>8. ASSUME NEW i \in 1 .. n PROVE found[i] = N(found[i - 1], i)
  <2>1. i \in 0 .. n /\ i # 0
    BY <1>1
  <2> QED
    BY <1>6, <2>1
<1> DEFINE S == {i \in 0 .. n : found[i] \in V}
<1>9. 0 \in S
  BY <1>1, <1>7
<1>10. ASSUME NEW i \in 0 .. n - 1, i \in S PROVE i + 1 \in S
  <2>1. i + 1 \in 1 .. n /\ i + 1 \in 0 .. n /\ (i + 1) - 1 = i
    BY <1>1
  <2>2. found[i] \in V
    BY <1>10
  <2>3. found[i + 1] = N(found[i], i + 1)
    BY <1>8, <2>1
  <2>4. N(found[i], i + 1) \in V
    BY <1>2, <2>1, <2>2
  <2> QED
    BY <2>1, <2>3, <2>4
<1> HIDE DEF S
<1>11. 0 .. n \subseteq S
  BY <1>1, <1>9, <1>10, BoundedInduction
<1>12. found \in [0 .. n -> V]
  BY <1>6, <1>11 DEF S
<1> QED
  BY <1>3, <1>7, <1>8, <1>12 DEF V, n, v, N

\* The variables of a scope are taken off a path one after the other.
LEMMA StrippedSteps ==
  ASSUME NEW scope \in Seq(Names), NEW path \in Seq(Names)
  PROVE  \E at \in [0 .. Len(scope) -> Seq(Names)] :
           /\ at[0] = path
           /\ \A i \in 1 .. Len(scope) : at[i] = Relative(at[i - 1], scope[i])
           /\ Stripped(scope, path) = at[Len(scope)]
<1> DEFINE V == Seq(Names)
           n == Len(scope)
           v == path
           N(x, i) == Relative(x, scope[i])
           Obeys(at) == at = [i \in 0 .. n |-> IF i = 0 THEN v ELSE N(at[i - 1], i)]
           F == [i \in 1 .. n |-> [x \in V |-> N(x, i)]]
           found == CHOOSE at : Obeys(at)
<1>1. n \in Nat /\ v \in V
  OBVIOUS
<1>2. ASSUME NEW i \in 1 .. n, NEW x \in V PROVE N(x, i) \in V
  BY DEF Relative
<1>3. Stripped(scope, path) = found[Len(scope)]
  BY DEF Stripped
<1> HIDE DEF V, n, v, N
<1>4. IsStep(F, n, V, v)
  <2>1. F \in [1 .. n -> [V -> V]]
    BY <1>2
  <2> HIDE DEF F
  <2> QED
    BY <1>1, <2>1 DEF IsStep
<1>5. Obeys(found)
  <2>1. PICK at \in [0 .. n -> V] : at[0] = v /\ \A i \in 1 .. n : at[i] = F[i][at[i - 1]]
    <3> HIDE DEF F
    <3> QED
      BY <1>4, StepRecursion
  <2>2. ASSUME NEW i \in 0 .. n, i # 0 PROVE at[i] = N(at[i - 1], i)
    <3>1. i \in 1 .. n /\ i - 1 \in 0 .. n
      BY <1>1, <2>2
    <3>2. at[i - 1] \in V /\ at[i] = F[i][at[i - 1]]
      BY <2>1, <3>1
    <3> QED
      BY <3>1, <3>2
  <2>3. Obeys(at)
    BY <2>1, <2>2
  <2> HIDE DEF Obeys
  <2> QED
    BY <2>3
<1> HIDE DEF found
<1>6. found = [i \in 0 .. n |-> IF i = 0 THEN v ELSE N(found[i - 1], i)]
  BY <1>5
<1>7. found[0] = v
  BY <1>1, <1>6
<1>8. ASSUME NEW i \in 1 .. n PROVE found[i] = N(found[i - 1], i)
  <2>1. i \in 0 .. n /\ i # 0
    BY <1>1
  <2> QED
    BY <1>6, <2>1
<1> DEFINE S == {i \in 0 .. n : found[i] \in V}
<1>9. 0 \in S
  BY <1>1, <1>7
<1>10. ASSUME NEW i \in 0 .. n - 1, i \in S PROVE i + 1 \in S
  <2>1. i + 1 \in 1 .. n /\ i + 1 \in 0 .. n /\ (i + 1) - 1 = i
    BY <1>1
  <2>2. found[i] \in V
    BY <1>10
  <2>3. found[i + 1] = N(found[i], i + 1)
    BY <1>8, <2>1
  <2>4. N(found[i], i + 1) \in V
    BY <1>2, <2>1, <2>2
  <2> QED
    BY <2>1, <2>3, <2>4
<1> HIDE DEF S
<1>11. 0 .. n \subseteq S
  BY <1>1, <1>9, <1>10, BoundedInduction
<1>12. found \in [0 .. n -> V]
  BY <1>6, <1>11 DEF S
<1> QED
  BY <1>3, <1>7, <1>8, <1>12 DEF V, n, v, N

-----------------------------------------------------------------------------
(* Databases                                                               *)

\* What a database may hold, whether it is one of those that are queried or one of them with
\* its nulls filled in.
Possible ==
  {d \in [model : [Objects -> Models], value : [Objects -> [Fields -> Values \union {Null}]],
          edges : SUBSET (Objects \X Names \X Objects)] :
     /\ \A e \in d.edges : \E r \in Relations :
          d.model[e[1]] = r.from /\ e[2] = r.name /\ d.model[e[3]] = r.to
     /\ \A r \in Relations, a, b \in Objects :
          d.model[a] = r.from /\ <<a, r.name, b>> \in d.edges =>
            /\ <<b, r.back, a>> \in d.edges
            /\ r.one => \A c \in Objects : <<a, r.name, c>> \in d.edges => c = b}
\* The databases of the model are among them.
LEMMA DatabasesPossible == Databases \subseteq Possible
BY DatabaseAssumption DEF Possible

-----------------------------------------------------------------------------
(* What there is at the end of a path                                      *)

\* What a relation of a model leads to is a model.
LEMMA TargetTyped ==
  ASSUME NEW model \in Models, NEW path \in Seq(Names)
  PROVE  Target(model, path) \in Models \union {None}
<1>1. PICK at \in [0 .. Len(path) -> Models \union {None}] : Along(model, path) = at
  BY AlongSteps
<1>2. Len(path) \in 0 .. Len(path)
  OBVIOUS
<1> QED
  BY <1>1, <1>2 DEF Target

\* What a path leads to from a row are rows.
LEMMA RowsTyped ==
  ASSUME NEW d \in Possible, NEW o \in Objects, NEW path \in Seq(Names)
  PROVE  RowsAt(d, o, path) \in SUBSET Objects
<1>1. PICK at \in [0 .. Len(path) -> SUBSET Objects] : RowsAt(d, o, path) = at[Len(path)]
  BY RowsSteps
<1>2. Len(path) \in 0 .. Len(path)
  OBVIOUS
<1> QED
  BY <1>1, <1>2

\* All but the last name of a path are a path, and the last one is a name.
LEMMA FrontTyped ==
  ASSUME NEW path \in Seq(Names), path # <<>>
  PROVE  /\ Front(path) \in Seq(Names) /\ Len(Front(path)) = Len(path) - 1
         /\ \A i \in 1 .. Len(path) - 1 : Front(path)[i] = path[i]
         /\ Last(path) \in Names
BY DEF Front, Last

\* A path leads to a value or to null.
LEMMA ValueTyped ==
  ASSUME NEW d \in Possible, NEW o \in Objects, NEW path \in Seq(Names), path # <<>>
  PROVE  ValueAt(d, o, path) \in Int \union {Null}
<1> DEFINE owners == RowsAt(d, o, Front(path))
           c == CHOOSE x \in owners : TRUE
<1>1. owners \in SUBSET Objects
  BY FrontTyped, RowsTyped
<1>2. ValueAt(d, o, path) = IF owners = {} \/ Last(path) \notin Fields THEN Null ELSE d.value[c][Last(path)]
  BY DEF ValueAt
<1> HIDE DEF owners
<1>3. owners # {} => c \in Objects
  BY <1>1
<1> HIDE DEF c
<1>4. d.value \in [Objects -> [Fields -> Values \union {Null}]] /\ Values \subseteq Int
  BY ValueAssumption DEF Possible
<1> QED
  BY <1>2, <1>3, <1>4

\* A path without its first name is a path.
LEMMA TailTyped ==
  ASSUME NEW path \in Seq(Names), Len(path) > 1
  PROVE  Tail(path) \in Seq(Names) /\ Len(Tail(path)) = Len(path) - 1 /\ Tail(path) # <<>>
<1>1. Tail(path) \in Seq(Names) /\ Len(Tail(path)) = Len(path) - 1
  OBVIOUS
<1>2. Len(Tail(path)) # 0 /\ Len(<<>>) = 0
  BY <1>1
<1> QED
  BY <1>1, <1>2, Zenon

\* So is a path without the variable.
LEMMA RelativeTyped ==
  ASSUME NEW path \in Seq(Names), path # <<>>, NEW var
  PROVE  Relative(path, var) \in Seq(Names) /\ Relative(path, var) # <<>>
BY TailTyped DEF Relative

\* The variables of a scope leave a path that is not empty.
LEMMA StrippedTyped ==
  ASSUME NEW scope \in Seq(Names), NEW path \in Seq(Names), path # <<>>
  PROVE  Stripped(scope, path) \in Seq(Names) /\ Stripped(scope, path) # <<>>
<1>1. PICK at \in [0 .. Len(scope) -> Seq(Names)] :
        /\ at[0] = path
        /\ \A i \in 1 .. Len(scope) : at[i] = Relative(at[i - 1], scope[i])
        /\ Stripped(scope, path) = at[Len(scope)]
  BY StrippedSteps
<1> DEFINE S == {i \in 0 .. Len(scope) : at[i] # <<>>}
           n == Len(scope)
<1>2. n \in Nat
  OBVIOUS
<1>3. 0 \in S
  BY <1>1, <1>2
<1>4. ASSUME NEW i \in 0 .. n - 1, i \in S PROVE i + 1 \in S
  <2>1. i + 1 \in 1 .. n /\ i + 1 \in 0 .. n /\ (i + 1) - 1 = i
    BY <1>2
  <2>2. at[i] \in Seq(Names) /\ at[i] # <<>>
    BY <1>1, <1>4
  <2>3. at[i + 1] = Relative(at[i], scope[i + 1])
    BY <1>1, <2>1
  <2>4. at[i + 1] # <<>>
    BY <2>2, <2>3, RelativeTyped
  <2> QED
    BY <2>1, <2>4
<1> HIDE DEF S
<1>5. 0 .. n \subseteq S
  BY <1>2, <1>3, <1>4, BoundedInduction
<1>6. n \in 0 .. n
  BY <1>2
<1> QED
  BY <1>1, <1>5, <1>6 DEF S

\* A lambda opens a scope of its own.
LEMMA InnerTyped ==
  ASSUME NEW f \in Nodes, NEW scope \in Seq(Names)
  PROVE  Inner(f, scope) \in Seq(Names)
<1>1. f.kind = "Lambda" => f.var \in Names
  BY NodeShape DEF Shaped
<1> QED
  BY <1>1 DEF Inner

\* A variable that is bound to a row stands for a row.
LEMMA BindTyped ==
  ASSUME NEW R, NEW f \in Nodes, NEW env \in [Names -> R \union {None}], NEW c \in R
  PROVE  Bind(env, f, c) \in [Names -> R \union {None}]
BY DEF Bind

\* The path behind a variable is a path, and not an empty one.
LEMMA RestTyped ==
  ASSUME NEW R, NEW env \in [Names -> R \union {None}], NEW row \in R, NEW path \in Seq(Names), path # <<>>
  PROVE  Start(env, row, path) \in R /\ Rest(env, path) \in Seq(Names) /\ Rest(env, path) # <<>>
<1>1. CASE Begins(env, path)
  <2>1. Len(path) > 1 /\ Head(path) \in Names /\ env[Head(path)] # None
    BY <1>1 DEF Begins
  <2>2. Start(env, row, path) = env[Head(path)] /\ Rest(env, path) = Tail(path)
    BY <1>1 DEF Start, Rest
  <2>3. Tail(path) \in Seq(Names) /\ Tail(path) # <<>>
    BY <2>1, TailTyped
  <2>4. env[Head(path)] \in R
    BY <2>1
  <2> QED
    BY <2>2, <2>3, <2>4, Zenon
<1>2. CASE ~ Begins(env, path)
  BY <1>2 DEF Start, Rest
<1> QED
  BY <1>1, <1>2

\* The operators have a value for numbers, and so have the functions for their arguments.
LEMMA ArithmeticTyped ==
  ASSUME NEW op, NEW x \in Int, NEW y \in Int
  PROVE  Arithmetic(op, x, y) \in Int
BY DEF Arithmetic

\* The functions of numbers give numbers.
LEMMA FunctionTyped ==
  ASSUME NEW func \in Functions, NEW xs, NEW n \in Arguments(func), DOMAIN xs = 1 .. n, Len(xs) = n,
         \A i \in 1 .. n : xs[i] \in Int
  PROVE  Function(func, xs) \in Int
<1>1. CASE func = "indexof"
  BY <1>1 DEF Function, Arguments, StrIndex
<1>2. CASE func = "substring"
  <2>1. n \in {2, 3}
    BY <1>2 DEF Arguments, Unary, Lookups
  <2>2. xs[1] \in Int /\ xs[2] \in Int /\ (n = 3 => xs[3] \in Int)
    BY <2>1
  <2> DEFINE last == IF Len(xs) = 3 THEN xs[2] + xs[3] ELSE xs[1]
  <2>3. last \in Int
    BY <2>2
  <2>4. Function(func, xs) = Substr(xs[1], xs[2] + 1, last)
    BY <1>2 DEF Function
  <2> HIDE DEF last
  <2>5. Substr(xs[1], xs[2] + 1, last) \in Int
    BY <2>2, <2>3 DEF Substr, Greatest, Least
  <2> QED
    BY <2>4, <2>5
<1>3. CASE func # "indexof" /\ func # "substring"
  <2>1. n = 1
    BY <1>3 DEF Functions, Arguments, Unary, Lookups
  <2> QED
    BY <1>3, <2>1 DEF Function
<1> QED
  BY <1>1, <1>2, <1>3

\* What a function means is a number too.
LEMMA MeantTyped ==
  ASSUME NEW func \in Functions, NEW xs, NEW n \in Arguments(func), DOMAIN xs = 1 .. n, Len(xs) = n,
         \A i \in 1 .. n : xs[i] \in Int
  PROVE  Meant(func, xs) \in Int
<1>1. CASE func = "indexof"
  BY <1>1 DEF Meant
<1>2. CASE func = "substring"
  <2>1. n \in {2, 3}
    BY <1>2 DEF Arguments, Unary, Lookups
  <2>2. xs[1] \in Int
    BY <2>1
  <2> DEFINE C == {i \in 0 .. xs[1] - 1 : i >= xs[2] /\ (Len(xs) = 3 => i < xs[2] + xs[3])}
  <2>3. Meant(func, xs) = Cardinality(C)
    BY <1>2 DEF Meant
  <2>4. IsFiniteSet(0 .. xs[1] - 1)
    <3>1. 0 \in Int /\ xs[1] - 1 \in Int
      BY <2>2
    <3> QED
      BY <3>1, FS_Interval
  <2>5. C \subseteq 0 .. xs[1] - 1
    OBVIOUS
  <2> HIDE DEF C
  <2>6. IsFiniteSet(C)
    BY <2>4, <2>5, FS_Subset
  <2>7. Cardinality(C) \in Nat
    BY <2>6, FS_CardinalityType
  <2> QED
    BY <2>3, <2>7
<1>3. CASE func # "indexof" /\ func # "substring"
  <2>1. n = 1
    BY <1>3 DEF Functions, Arguments, Unary, Lookups
  <2> QED
    BY <1>3, <2>1 DEF Meant
<1> QED
  BY <1>1, <1>2, <1>3

\* The values of the parts of a node that computes.
LEMMA PartsValues ==
  ASSUME NEW h \in Nodes, NEW g, \A i \in DOMAIN Parts(h) : g[Parts(h)[i]] \in Int \union {Null},
         NEW xs, xs = [i \in DOMAIN Parts(h) |-> g[Parts(h)[i]]],
         Computes(h), \A i \in DOMAIN xs : xs[i] # Null
  PROVE  /\ h.kind = "BinOp" => xs[1] \in Int /\ xs[2] \in Int
         /\ h.kind = "Call" => \E n \in Arguments(h.func) :
              n \in Nat /\ DOMAIN xs = 1 .. n /\ Len(xs) = n /\ \A i \in 1 .. n : xs[i] \in Int
<1>1. \A i \in DOMAIN xs : xs[i] \in Int
  OBVIOUS
<1>2. h.kind = "BinOp" => xs[1] \in Int /\ xs[2] \in Int
  <2> SUFFICES ASSUME h.kind = "BinOp" PROVE xs[1] \in Int /\ xs[2] \in Int
    OBVIOUS
  <2>1. Parts(h) = <<h.left, h.right>>
    BY NodeShape
  <2>2. 1 \in DOMAIN xs /\ 2 \in DOMAIN xs
    BY <2>1
  <2> QED
    BY <1>1, <2>2
<1>3. h.kind = "Call" => \E n \in Arguments(h.func) :
        n \in Nat /\ DOMAIN xs = 1 .. n /\ Len(xs) = n /\ \A i \in 1 .. n : xs[i] \in Int
  <2> SUFFICES ASSUME h.kind = "Call"
               PROVE  \E n \in Arguments(h.func) :
                        n \in Nat /\ DOMAIN xs = 1 .. n /\ Len(xs) = n /\ \A i \in 1 .. n : xs[i] \in Int
    OBVIOUS
  <2>1. Parts(h) = h.args /\ h.args \in Seq(Nodes)
    BY NodeShape
  <2>2. Len(h.args) \in Arguments(h.func) /\ Len(h.args) \in Nat
    BY <2>1 DEF Computes
  <2>3. DOMAIN xs = 1 .. Len(h.args)
    BY <2>1
  <2>4. xs \in Seq(Int)
    BY <1>1, <2>2, <2>3
  <2>5. Len(xs) = Len(h.args)
    BY <2>2, <2>3, <2>4
  <2> QED
    BY <1>1, <2>2, <2>3, <2>5
<1> QED
  BY <1>2, <1>3

\* What an expression comes to is a function of nodes that obeys its rule.
LEMMA ComputedFunction ==
  ASSUME NEW d \in Possible, NEW scope \in Seq(Names), NEW o \in Objects
  PROVE  \E p \in [Nodes -> Int \union {Null}] : \A h \in Nodes :
           /\ Computed(d, scope, o, h) = p[h]
           /\ p[h] = ComputedNode(d, scope, o, h, p)
<1> DEFINE V == Int \union {Null}
           N(h, p) == ComputedNode(d, scope, o, h, p)
           Obeys(p) == p = [h \in Nodes |-> N(h, p)]
           F == [g \in [Nodes -> V] |-> [h \in Nodes |-> N(h, g)]]
           found == CHOOSE p : Obeys(p)
<1>1. ASSUME NEW g, NEW h \in Nodes, \A i \in DOMAIN Parts(h) : g[Parts(h)[i]] \in V
      PROVE  N(h, g) \in V
  <2> DEFINE xs == [i \in DOMAIN Parts(h) |-> g[Parts(h)[i]]]
  <2>1. CASE h.kind = "Field"
    <3>1. h.path \in Seq(Names) /\ h.path # <<>>
      BY <2>1, NodeShape DEF Shaped
    <3>2. Stripped(scope, h.path) \in Seq(Names) /\ Stripped(scope, h.path) # <<>>
      BY <3>1, StrippedTyped
    <3>3. ValueAt(d, o, Stripped(scope, h.path)) \in Int \union {Null}
      BY <3>2, ValueTyped
    <3>4. ComputedNode(d, scope, o, h, g) = ValueAt(d, o, Stripped(scope, h.path))
      BY <2>1 DEF ComputedNode
    <3> QED
      BY <3>3, <3>4
  <2>2. CASE h.kind = "Literal"
    <3>1. h.value \in Int \union {Null}
      BY <2>2, NodeShape DEF Shaped
    <3> QED
      BY <2>2, <3>1 DEF ComputedNode
  <2>3. CASE h.kind \notin {"Field", "Literal"} /\ (~ Computes(h) \/ \E i \in DOMAIN xs : xs[i] = Null)
    BY <2>3 DEF ComputedNode
  <2>4. CASE h.kind \notin {"Field", "Literal"} /\ Computes(h) /\ \A i \in DOMAIN xs : xs[i] # Null
    <3>1. h.kind = "BinOp" \/ (h.kind = "Call" /\ h.func \in Functions)
      BY <2>4 DEF Computes
    <3>2. ComputedNode(d, scope, o, h, g) = IF h.kind = "BinOp" THEN Arithmetic(h.op, xs[1], xs[2]) ELSE Function(h.func, xs)
      BY <2>4, Zenon DEF ComputedNode
    <3> HIDE DEF xs
    <3>3. /\ h.kind = "BinOp" => xs[1] \in Int /\ xs[2] \in Int
          /\ h.kind = "Call" => \E n \in Arguments(h.func) :
               n \in Nat /\ DOMAIN xs = 1 .. n /\ Len(xs) = n /\ \A i \in 1 .. n : xs[i] \in Int
      BY <1>1, <2>4, PartsValues DEF xs
    <3>4. CASE h.kind = "BinOp"
      <4>1. Arithmetic(h.op, xs[1], xs[2]) \in Int
        BY <3>3, <3>4, ArithmeticTyped
      <4> QED
        BY <3>2, <3>4, <4>1
    <3>5. CASE h.kind # "BinOp"
      <4>1. PICK n \in Arguments(h.func) : n \in Nat /\ DOMAIN xs = 1 .. n /\ Len(xs) = n /\ \A i \in 1 .. n : xs[i] \in Int
        BY <3>1, <3>3, <3>5
      <4>2. Function(h.func, xs) \in Int
        BY <3>1, <3>5, <4>1, FunctionTyped
      <4> QED
        BY <3>2, <3>5, <4>2
    <3> QED
      BY <3>4, <3>5
  <2> QED
    BY <2>1, <2>2, <2>3, <2>4, Zenon
<1>2. ASSUME NEW g, NEW k, NEW h \in Nodes, \A i \in DOMAIN Parts(h) : g[Parts(h)[i]] = k[Parts(h)[i]]
      PROVE  N(h, g) = N(h, k)
  <2> DEFINE R(x) == IF h.kind = "Field" THEN ValueAt(d, o, Stripped(scope, h.path))
                   ELSE IF h.kind = "Literal" THEN h.value
                   ELSE IF ~ Computes(h) \/ \E i \in DOMAIN x : x[i] = Null THEN Null
                   ELSE IF h.kind = "BinOp" THEN Arithmetic(h.op, x[1], x[2])
                   ELSE Function(h.func, x)
           xs == [i \in DOMAIN Parts(h) |-> g[Parts(h)[i]]]
           ys == [i \in DOMAIN Parts(h) |-> k[Parts(h)[i]]]
  <2>1. xs = ys
    BY <1>2
  <2>2. ComputedNode(d, scope, o, h, g) = R(xs) /\ ComputedNode(d, scope, o, h, k) = R(ys)
    BY DEF ComputedNode
  <2> HIDE DEF R, xs, ys
  <2> QED
    BY <2>1, <2>2
<1>3. \A h \in Nodes : Computed(d, scope, o, h) = found[h]
  BY DEF Computed
<1>4. V # {}
  OBVIOUS
<1> HIDE DEF V, N
<1>5. F \in [[Nodes -> V] -> [Nodes -> V]]
  BY <1>1, NodeShape
<1>6. IsRule(F, V)
  <2>1. \A g, h \in [Nodes -> V], k \in Nodes :
          (\A i \in DOMAIN Parts(k) : g[Parts(k)[i]] = h[Parts(k)[i]]) => F[g][k] = F[h][k]
    BY <1>2
  <2> HIDE DEF F
  <2> QED
    BY <1>4, <1>5, <2>1 DEF IsRule
<1>7. Obeys(found)
  <2>1. PICK p \in [Nodes -> V] : \A h \in Nodes : p[h] = F[p][h]
    <3> HIDE DEF F
    <3> QED
      BY <1>6, NodeRecursion
  <2>2. Obeys(p)
    BY <2>1
  <2> HIDE DEF Obeys
  <2> QED
    BY <2>2
<1>8. found = [h \in Nodes |-> N(h, found)]
  BY <1>7
<1> HIDE DEF found
<1> DEFINE S == {h \in Nodes : found[h] \in V}
<1>9. ASSUME NEW h \in Nodes, \A i \in DOMAIN Parts(h) : Parts(h)[i] \in S PROVE h \in S
  <2>1. N(h, found) \in V
    BY <1>1, <1>9
  <2>2. found[h] = N(h, found)
    BY <1>8
  <2> QED
    BY <2>1, <2>2
<1> HIDE DEF S
<1>10. \A h \in Nodes : h \in S
  BY <1>9, NodeInduction
<1>11. found \in [Nodes -> V]
  BY <1>8, <1>10 DEF S
<1>12. \A h \in Nodes : found[h] = N(h, found)
  BY <1>8
<1> QED
  BY <1>3, <1>11, <1>12 DEF V, N

\* So is what it denotes.
LEMMA DenotedFunction ==
  ASSUME NEW d \in Possible, NEW env \in [Names -> Objects \union {None}], NEW row \in Objects
  PROVE  \E p \in [Nodes -> Int \union {Null}] : \A h \in Nodes :
           /\ Denoted(d, env, row, h) = p[h]
           /\ p[h] = DenotedNode(d, env, row, h, p)
<1> DEFINE V == Int \union {Null}
           N(h, p) == DenotedNode(d, env, row, h, p)
           Obeys(p) == p = [h \in Nodes |-> N(h, p)]
           F == [g \in [Nodes -> V] |-> [h \in Nodes |-> N(h, g)]]
           found == CHOOSE p : Obeys(p)
<1>1. ASSUME NEW g, NEW h \in Nodes, \A i \in DOMAIN Parts(h) : g[Parts(h)[i]] \in V
      PROVE  N(h, g) \in V
  <2> DEFINE xs == [i \in DOMAIN Parts(h) |-> g[Parts(h)[i]]]
  <2>1. CASE h.kind = "Field"
    <3>1. h.path \in Seq(Names) /\ h.path # <<>>
      BY <2>1, NodeShape DEF Shaped
    <3>2. Start(env, row, h.path) \in Objects /\ Rest(env, h.path) \in Seq(Names) /\ Rest(env, h.path) # <<>>
      BY <3>1, RestTyped
    <3>3. ValueAt(d, Start(env, row, h.path), Rest(env, h.path)) \in Int \union {Null}
      BY <3>2, ValueTyped
    <3>4. DenotedNode(d, env, row, h, g) = ValueAt(d, Start(env, row, h.path), Rest(env, h.path))
      BY <2>1 DEF DenotedNode
    <3> QED
      BY <3>3, <3>4
  <2>2. CASE h.kind = "Literal"
    <3>1. h.value \in Int \union {Null}
      BY <2>2, NodeShape DEF Shaped
    <3> QED
      BY <2>2, <3>1 DEF DenotedNode
  <2>3. CASE h.kind \notin {"Field", "Literal"} /\ (~ Computes(h) \/ \E i \in DOMAIN xs : xs[i] = Null)
    BY <2>3 DEF DenotedNode
  <2>4. CASE h.kind \notin {"Field", "Literal"} /\ Computes(h) /\ \A i \in DOMAIN xs : xs[i] # Null
    <3>1. h.kind = "BinOp" \/ (h.kind = "Call" /\ h.func \in Functions)
      BY <2>4 DEF Computes
    <3>2. DenotedNode(d, env, row, h, g) = IF h.kind = "BinOp" THEN Arithmetic(h.op, xs[1], xs[2]) ELSE Meant(h.func, xs)
      BY <2>4, Zenon DEF DenotedNode
    <3> HIDE DEF xs
    <3>3. /\ h.kind = "BinOp" => xs[1] \in Int /\ xs[2] \in Int
          /\ h.kind = "Call" => \E n \in Arguments(h.func) :
               n \in Nat /\ DOMAIN xs = 1 .. n /\ Len(xs) = n /\ \A i \in 1 .. n : xs[i] \in Int
      BY <1>1, <2>4, PartsValues DEF xs
    <3>4. CASE h.kind = "BinOp"
      <4>1. Arithmetic(h.op, xs[1], xs[2]) \in Int
        BY <3>3, <3>4, ArithmeticTyped
      <4> QED
        BY <3>2, <3>4, <4>1
    <3>5. CASE h.kind # "BinOp"
      <4>1. PICK n \in Arguments(h.func) : n \in Nat /\ DOMAIN xs = 1 .. n /\ Len(xs) = n /\ \A i \in 1 .. n : xs[i] \in Int
        BY <3>1, <3>3, <3>5
      <4>2. Meant(h.func, xs) \in Int
        BY <3>1, <3>5, <4>1, MeantTyped
      <4> QED
        BY <3>2, <3>5, <4>2
    <3> QED
      BY <3>4, <3>5
  <2> QED
    BY <2>1, <2>2, <2>3, <2>4, Zenon
<1>2. ASSUME NEW g, NEW k, NEW h \in Nodes, \A i \in DOMAIN Parts(h) : g[Parts(h)[i]] = k[Parts(h)[i]]
      PROVE  N(h, g) = N(h, k)
  <2> DEFINE R(x) == IF h.kind = "Field" THEN ValueAt(d, Start(env, row, h.path), Rest(env, h.path))
                   ELSE IF h.kind = "Literal" THEN h.value
                   ELSE IF ~ Computes(h) \/ \E i \in DOMAIN x : x[i] = Null THEN Null
                   ELSE IF h.kind = "BinOp" THEN Arithmetic(h.op, x[1], x[2])
                   ELSE Meant(h.func, x)
           xs == [i \in DOMAIN Parts(h) |-> g[Parts(h)[i]]]
           ys == [i \in DOMAIN Parts(h) |-> k[Parts(h)[i]]]
  <2>1. xs = ys
    BY <1>2
  <2>2. DenotedNode(d, env, row, h, g) = R(xs) /\ DenotedNode(d, env, row, h, k) = R(ys)
    BY DEF DenotedNode
  <2> HIDE DEF R, xs, ys
  <2> QED
    BY <2>1, <2>2
<1>3. \A h \in Nodes : Denoted(d, env, row, h) = found[h]
  BY DEF Denoted
<1>4. V # {}
  OBVIOUS
<1> HIDE DEF V, N
<1>5. F \in [[Nodes -> V] -> [Nodes -> V]]
  BY <1>1, NodeShape
<1>6. IsRule(F, V)
  <2>1. \A g, h \in [Nodes -> V], k \in Nodes :
          (\A i \in DOMAIN Parts(k) : g[Parts(k)[i]] = h[Parts(k)[i]]) => F[g][k] = F[h][k]
    BY <1>2
  <2> HIDE DEF F
  <2> QED
    BY <1>4, <1>5, <2>1 DEF IsRule
<1>7. Obeys(found)
  <2>1. PICK p \in [Nodes -> V] : \A h \in Nodes : p[h] = F[p][h]
    <3> HIDE DEF F
    <3> QED
      BY <1>6, NodeRecursion
  <2>2. Obeys(p)
    BY <2>1
  <2> HIDE DEF Obeys
  <2> QED
    BY <2>2
<1>8. found = [h \in Nodes |-> N(h, found)]
  BY <1>7
<1> HIDE DEF found
<1> DEFINE S == {h \in Nodes : found[h] \in V}
<1>9. ASSUME NEW h \in Nodes, \A i \in DOMAIN Parts(h) : Parts(h)[i] \in S PROVE h \in S
  <2>1. N(h, found) \in V
    BY <1>1, <1>9
  <2>2. found[h] = N(h, found)
    BY <1>8
  <2> QED
    BY <2>1, <2>2
<1> HIDE DEF S
<1>10. \A h \in Nodes : h \in S
  BY <1>9, NodeInduction
<1>11. found \in [Nodes -> V]
  BY <1>8, <1>10 DEF S
<1>12. \A h \in Nodes : found[h] = N(h, found)
  BY <1>8
<1> QED
  BY <1>3, <1>11, <1>12 DEF V, N

\* The body of a lambda is its part.
LEMMA BodyPart ==
  ASSUME NEW h \in Nodes, h.kind = "Lambda"
  PROVE  1 \in DOMAIN Parts(h) /\ Parts(h)[1] = h.body /\ h.body \in Nodes
<1>1. Parts(h) = <<h.body>> /\ h.body \in Nodes
  BY NodeShape
<1> QED
  BY <1>1

\* The operand of a not is a part of it.
LEMMA OperandPart ==
  ASSUME NEW h \in Nodes, h.kind = "Not"
  PROVE  1 \in DOMAIN Parts(h) /\ Parts(h)[1] = h.operand /\ h.operand \in Nodes
<1>1. Parts(h) = <<h.operand>> /\ h.operand \in Nodes
  BY NodeShape
<1> QED
  BY <1>1

\* A condition of two sides has both as its parts.
LEMMA BothParts ==
  ASSUME NEW h \in Nodes, h.kind \in {"Compare", "BoolOp", "BinOp"}
  PROVE  /\ 1 \in DOMAIN Parts(h) /\ Parts(h)[1] = h.left /\ h.left \in Nodes
         /\ 2 \in DOMAIN Parts(h) /\ Parts(h)[2] = h.right /\ h.right \in Nodes
         /\ DOMAIN Parts(h) = 1 .. 2
<1>1. Parts(h) = <<h.left, h.right>> /\ h.left \in Nodes /\ h.right \in Nodes
  BY NodeShape
<1> QED
  BY <1>1

\* A check has an outcome.
LEMMA CheckTyped ==
  ASSUME NEW holds
  PROVE  Check(holds) \in Outcomes
BY DEF Check, Outcomes

\* The rule for a node gives an outcome.
LEMMA TranslatedTyped ==
  ASSUME NEW h \in Nodes, NEW g, NEW m \in Models, NEW s \in Seq(Names),
         \A i \in DOMAIN Parts(h) : g[Parts(h)[i]] \in [Models -> [Seq(Names) -> Outcomes]]
  PROVE  TranslatedNode(h, g, m, s) \in Outcomes
<1> DEFINE parts == [i \in DOMAIN Parts(h) |-> g[Parts(h)[i]][m][s]]
<1>1. PICK n \in Nat : DOMAIN parts = 1 .. n
  BY NodeShape
<1>2. ASSUME NEW i \in DOMAIN parts PROVE parts[i] \in Outcomes
  OBVIOUS
<1>3. DOMAIN parts = DOMAIN Parts(h)
  OBVIOUS
<1>fine. "fine" \in Outcomes /\ "refused" \in Outcomes /\ "crashed" \in Outcomes
  BY DEF Outcomes
<1>first. First(parts) \in Outcomes
  <2> HIDE DEF parts
  <2> QED
    BY <1>1, <1>2, FirstOutcome
<1>4. CASE h.kind = "Lambda"
  <2> DEFINE related == Target(m, Stripped(s, h.owner))
  <2>1. TranslatedNode(h, g, m, s)
          = IF related = None THEN "refused"
            ELSE Then(g[h.body][related][Inner(h, s)], Check(~ Bare(h.body)))
    BY <1>4 DEF TranslatedNode, NullTest
  <2>2. h.owner \in Seq(Names) /\ h.owner # <<>>
    BY <1>4, NodeShape DEF Shaped
  <2>3. Stripped(s, h.owner) \in Seq(Names)
    BY <2>2, StrippedTyped
  <2>4. related \in Models \union {None}
    BY <2>3, TargetTyped
  <2>5. Inner(h, s) \in Seq(Names)
    BY InnerTyped
  <2>6. g[h.body] \in [Models -> [Seq(Names) -> Outcomes]]
    BY <1>4, BodyPart
  <2> HIDE DEF related
  <2>7. CASE related \in Models
    <3>1. g[h.body][related][Inner(h, s)] \in Outcomes
      BY <2>5, <2>6, <2>7
    <3>2. Then(g[h.body][related][Inner(h, s)], Check(~ Bare(h.body))) \in Outcomes
      BY <3>1, ThenOutcome, CheckTyped
    <3> QED
      BY <2>1, <3>2, <1>fine, Zenon
  <2> QED
    BY <1>fine, <2>1, <2>4, <2>7
<1>5. CASE h.kind = "Call" /\ Len(h.args) \in Arguments(h.func) /\ h.func \in Lookups
  <2>1. Parts(h) = h.args /\ h.args \in Seq(Nodes)
    BY <1>5, NodeShape
  <2>2. Len(h.args) = 2
    BY <1>5 DEF Arguments
  <2>3. parts[1] \in Outcomes /\ parts[2] \in Outcomes
    BY <1>2, <1>3, <2>1, <2>2
  <2>4. TranslatedNode(h, g, m, s) = IF h.func = "matchesPattern"
          THEN Then(parts[2], Then(Check(Searches(h, s)), parts[1]))
          ELSE Then(Check(Searches(h, s)), First(parts))
    BY <1>5 DEF TranslatedNode, NullTest
  <2> HIDE DEF parts
  <2>5. Then(Check(Searches(h, s)), parts[1]) \in Outcomes
    BY <2>3, ThenOutcome, CheckTyped
  <2>6. Then(parts[2], Then(Check(Searches(h, s)), parts[1])) \in Outcomes
    BY <2>3, <2>5, ThenOutcome
  <2>7. Then(Check(Searches(h, s)), First(parts)) \in Outcomes
    BY <1>first, ThenOutcome, CheckTyped
  <2> QED
    BY <2>4, <2>6, <2>7
<1>6. CASE h.kind = "Call" /\ ~ (Len(h.args) \in Arguments(h.func) /\ h.func \in Lookups)
  <2>1. TranslatedNode(h, g, m, s) \in {"refused", "crashed", First(parts)}
    BY <1>6 DEF TranslatedNode, NullTest, Lookups
  <2> HIDE DEF parts
  <2> QED
    BY <2>1, <1>fine, <1>first
<1>7. CASE h.kind \in {"Field", "Literal", "List"}
  <2>1. TranslatedNode(h, g, m, s) \in {"fine", "crashed", Check(ValuePath(m, Stripped(s, h.path)))}
    BY <1>7 DEF TranslatedNode, NullTest
  <2> QED
    BY <2>1, <1>fine, CheckTyped
<1>8. CASE h.kind = "BoolOp"
  <2>1. TranslatedNode(h, g, m, s) = Then(First(parts), Check(~ Bare(h)))
    BY <1>8 DEF TranslatedNode, NullTest
  <2> HIDE DEF parts
  <2> QED
    BY <2>1, <1>first, ThenOutcome, CheckTyped
<1>9. CASE NullTest(h)
  <2>1. h.kind = "Compare"
    BY <1>9 DEF NullTest
  <2>2. TranslatedNode(h, g, m, s) = Then(parts[1], Check(NullsTyped(h)))
    BY <1>9, <2>1 DEF TranslatedNode
  <2>3. parts[1] \in Outcomes
    BY <1>2, <1>3, <2>1, BothParts
  <2> HIDE DEF parts
  <2> QED
    BY <2>2, <2>3, ThenOutcome, CheckTyped
<1>10. CASE h.kind \notin {"Lambda", "Call", "Field", "Literal", "List", "BoolOp"} /\ ~ NullTest(h)
  <2>1. TranslatedNode(h, g, m, s) = First(parts)
    BY <1>10 DEF TranslatedNode
  <2> QED
    BY <2>1, <1>first
<1> QED
  BY <1>4, <1>5, <1>6, <1>7, <1>8, <1>9, <1>10, Zenon

\* What the translation comes to is a function of nodes that obeys its rule.
LEMMA TranslatedFunction ==
  \E p \in [Nodes -> [Models -> [Seq(Names) -> Outcomes]]] : \A h \in Nodes :
      /\ (\A m \in Models, s \in Seq(Names) : Translated(m, s, h) = p[h][m][s])
      /\ p[h] = [m \in Models |-> [s \in Seq(Names) |-> TranslatedNode(h, p, m, s)]]
<1> DEFINE V == [Models -> [Seq(Names) -> Outcomes]]
           N(h, p) == [m \in Models |-> [s \in Seq(Names) |-> TranslatedNode(h, p, m, s)]]
           Obeys(p) == p = [h \in Nodes |-> N(h, p)]
           F == [g \in [Nodes -> V] |-> [h \in Nodes |-> N(h, g)]]
           found == CHOOSE p : Obeys(p)
<1>1. ASSUME NEW g, NEW h \in Nodes, \A i \in DOMAIN Parts(h) : g[Parts(h)[i]] \in V
      PROVE  N(h, g) \in V
  <2>1. \A m \in Models, s \in Seq(Names) : TranslatedNode(h, g, m, s) \in Outcomes
    BY <1>1, TranslatedTyped
  <2> QED
    BY <2>1
<1>2. ASSUME NEW g, NEW k, NEW h \in Nodes, \A i \in DOMAIN Parts(h) : g[Parts(h)[i]] = k[Parts(h)[i]]
      PROVE  N(h, g) = N(h, k)
  <2>1. ASSUME NEW m \in Models, NEW s \in Seq(Names)
        PROVE  TranslatedNode(h, g, m, s) = TranslatedNode(h, k, m, s)
    <3> DEFINE R(x) == IF h.kind = "Field" THEN Check(ValuePath(m, Stripped(s, h.path)))
                    ELSE IF h.kind = "Literal" THEN IF h.value = Null THEN "crashed" ELSE "fine"
                    ELSE IF h.kind = "List" THEN IF Null \in h.values THEN "crashed" ELSE "fine"
                    ELSE IF NullTest(h) THEN Then(x[1], Check(NullsTyped(h)))
                    ELSE IF h.kind = "Call" THEN
                      IF Len(h.args) \notin Arguments(h.func)
                      THEN IF Arguments(h.func) = {} THEN "refused" ELSE "crashed"
                      ELSE IF h.func = "matchesPattern"
                      THEN Then(x[2], Then(Check(Searches(h, s)), x[1]))
                      ELSE IF h.func \in Lookups THEN Then(Check(Searches(h, s)), First(x))
                      ELSE First(x)
                    ELSE IF h.kind = "BoolOp" THEN Then(First(x), Check(~ Bare(h)))
                    ELSE First(x)
               xs == [i \in DOMAIN Parts(h) |-> g[Parts(h)[i]][m][s]]
               ys == [i \in DOMAIN Parts(h) |-> k[Parts(h)[i]][m][s]]
    <3>1. xs = ys
      BY <1>2
    <3>2. CASE h.kind # "Lambda"
      <4>1. TranslatedNode(h, g, m, s) = R(xs) /\ TranslatedNode(h, k, m, s) = R(ys)
        BY <3>2 DEF TranslatedNode
      <4> HIDE DEF R, xs, ys
      <4> QED
        BY <3>1, <4>1
    <3>3. CASE h.kind = "Lambda"
      <4>1. g[h.body] = k[h.body]
        BY <1>2, <3>3, BodyPart
      <4> DEFINE related == Target(m, Stripped(s, h.owner))
                 Q(b) == IF related = None THEN "refused"
                         ELSE Then(b[related][Inner(h, s)], Check(~ Bare(h.body)))
      <4>2. TranslatedNode(h, g, m, s) = Q(g[h.body]) /\ TranslatedNode(h, k, m, s) = Q(k[h.body])
        BY <3>3 DEF TranslatedNode, NullTest
      <4> HIDE DEF Q
      <4> QED
        BY <4>1, <4>2
    <3> QED
      BY <3>2, <3>3
  <2> QED
    BY <2>1
<1>3. \A h \in Nodes : (\A m \in Models, s \in Seq(Names) : Translated(m, s, h) = found[h][m][s])
  BY DEF Translated
<1>4. V # {}
  <2>1. [m \in Models |-> [s \in Seq(Names) |-> "fine"]] \in V
    BY DEF Outcomes
  <2> QED
    BY <2>1
<1> HIDE DEF V, N
<1>5. F \in [[Nodes -> V] -> [Nodes -> V]]
  BY <1>1, NodeShape
<1>6. IsRule(F, V)
  <2>1. \A g, h \in [Nodes -> V], k \in Nodes :
          (\A i \in DOMAIN Parts(k) : g[Parts(k)[i]] = h[Parts(k)[i]]) => F[g][k] = F[h][k]
    BY <1>2
  <2> HIDE DEF F
  <2> QED
    BY <1>4, <1>5, <2>1 DEF IsRule
<1>7. Obeys(found)
  <2>1. PICK p \in [Nodes -> V] : \A h \in Nodes : p[h] = F[p][h]
    <3> HIDE DEF F
    <3> QED
      BY <1>6, NodeRecursion
  <2>2. Obeys(p)
    BY <2>1
  <2> HIDE DEF Obeys
  <2> QED
    BY <2>2
<1>8. found = [h \in Nodes |-> N(h, found)]
  BY <1>7
<1> HIDE DEF found
<1> DEFINE S == {h \in Nodes : found[h] \in V}
<1>9. ASSUME NEW h \in Nodes, \A i \in DOMAIN Parts(h) : Parts(h)[i] \in S PROVE h \in S
  <2>1. N(h, found) \in V
    BY <1>1, <1>9
  <2>2. found[h] = N(h, found)
    BY <1>8
  <2> QED
    BY <2>1, <2>2
<1> HIDE DEF S
<1>10. \A h \in Nodes : h \in S
  BY <1>9, NodeInduction
<1>11. found \in [Nodes -> V]
  BY <1>8, <1>10 DEF S
<1>12. \A h \in Nodes : found[h] = N(h, found)
  BY <1>8
<1> QED
  BY <1>3, <1>11, <1>12 DEF V, N

\* The places of a node are found from those of its parts.
LEMMA PlacedFunction ==
  \E p \in [Nodes -> [Seq(Names) -> SUBSET (Nodes \X Seq(Names))]] : \A h \in Nodes :
      /\ (\A s \in Seq(Names) : Placed(h, s) = p[h][s])
      /\ p[h] = [s \in Seq(Names) |-> PlacedNode(h, p, s)]
<1> DEFINE V == [Seq(Names) -> SUBSET (Nodes \X Seq(Names))]
           N(h, p) == [s \in Seq(Names) |-> PlacedNode(h, p, s)]
           Obeys(p) == p = [h \in Nodes |-> N(h, p)]
           F == [g \in [Nodes -> V] |-> [h \in Nodes |-> N(h, g)]]
           found == CHOOSE p : Obeys(p)
<1>1. ASSUME NEW g, NEW h \in Nodes, \A i \in DOMAIN Parts(h) : g[Parts(h)[i]] \in V
      PROVE  N(h, g) \in V
  <2>1. ASSUME NEW s \in Seq(Names) PROVE PlacedNode(h, g, s) \in SUBSET (Nodes \X Seq(Names))
    <3>1. Inner(h, s) \in Seq(Names)
      BY InnerTyped
    <3>2. \A i \in DOMAIN Parts(h) : g[Parts(h)[i]][Inner(h, s)] \in SUBSET (Nodes \X Seq(Names))
      BY <1>1, <3>1
    <3> QED
      BY <3>2 DEF PlacedNode
  <2> QED
    BY <2>1
<1>2. ASSUME NEW g, NEW k, NEW h \in Nodes, \A i \in DOMAIN Parts(h) : g[Parts(h)[i]] = k[Parts(h)[i]]
      PROVE  N(h, g) = N(h, k)
  <2>1. ASSUME NEW s \in Seq(Names) PROVE PlacedNode(h, g, s) = PlacedNode(h, k, s)
    BY <1>2 DEF PlacedNode
  <2> QED
    BY <2>1
<1>3. \A h \in Nodes : (\A s \in Seq(Names) : Placed(h, s) = found[h][s])
  BY DEF Placed
<1>4. V # {}
  <2>1. [s \in Seq(Names) |-> {}] \in V
    OBVIOUS
  <2> QED
    BY <2>1
<1> HIDE DEF V, N
<1>5. F \in [[Nodes -> V] -> [Nodes -> V]]
  BY <1>1, NodeShape
<1>6. IsRule(F, V)
  <2>1. \A g, h \in [Nodes -> V], k \in Nodes :
          (\A i \in DOMAIN Parts(k) : g[Parts(k)[i]] = h[Parts(k)[i]]) => F[g][k] = F[h][k]
    BY <1>2
  <2> HIDE DEF F
  <2> QED
    BY <1>4, <1>5, <2>1 DEF IsRule
<1>7. Obeys(found)
  <2>1. PICK p \in [Nodes -> V] : \A h \in Nodes : p[h] = F[p][h]
    <3> HIDE DEF F
    <3> QED
      BY <1>6, NodeRecursion
  <2>2. Obeys(p)
    BY <2>1
  <2> HIDE DEF Obeys
  <2> QED
    BY <2>2
<1>8. found = [h \in Nodes |-> N(h, found)]
  BY <1>7
<1> HIDE DEF found
<1> DEFINE S == {h \in Nodes : found[h] \in V}
<1>9. ASSUME NEW h \in Nodes, \A i \in DOMAIN Parts(h) : Parts(h)[i] \in S PROVE h \in S
  <2>1. N(h, found) \in V
    BY <1>1, <1>9
  <2>2. found[h] = N(h, found)
    BY <1>8
  <2> QED
    BY <2>1, <2>2
<1> HIDE DEF S
<1>10. \A h \in Nodes : h \in S
  BY <1>9, NodeInduction
<1>11. found \in [Nodes -> V]
  BY <1>8, <1>10 DEF S
<1>12. \A h \in Nodes : found[h] = N(h, found)
  BY <1>8
<1> QED
  BY <1>3, <1>11, <1>12 DEF V, N

\* The database finds one of three truth values.
LEMMA TruthTyped ==
  /\ \A b : Truth(b) \in {False3, Unknown, True3}
  /\ \A x, y \in {False3, Unknown, True3} :
       /\ Least(x, y) \in {False3, Unknown, True3} /\ Greatest(x, y) \in {False3, Unknown, True3}
       /\ True3 - x \in {False3, Unknown, True3}
BY DEF Truth, Least, Greatest, True3, Unknown, False3

\* The rule for a node gives a truth value.
LEMMA SqlTyped ==
  ASSUME NEW d \in Possible, NEW h \in Nodes, NEW g, NEW s \in Seq(Names), NEW o \in Objects,
         \A i \in DOMAIN Parts(h) : g[Parts(h)[i]] \in [Seq(Names) -> [Objects -> {False3, Unknown, True3}]]
  PROVE  SqlNode(d, h, g, s, o) \in {False3, Unknown, True3}
<1> DEFINE T == {False3, Unknown, True3}
<1>1. CASE h.kind \in {"Compare", "Call"}
  <2> DEFINE x == Computed(d, s, o, Left(h))
             ys == Operands(Right(h), Computed(d, s, o, Right(h)))
  <2>1. SqlNode(d, h, g, s, o) = Compared(h, x, ys)
    BY <1>1 DEF SqlNode
  <2> HIDE DEF x, ys
  <2>2. Compared(h, x, ys) \in T
    BY TruthTyped DEF Compared
  <2> QED
    BY <2>1, <2>2
<1>2. CASE h.kind = "Not"
  <2>1. SqlNode(d, h, g, s, o) = True3 - g[h.operand][s][o]
    BY <1>2 DEF SqlNode
  <2>2. g[h.operand][s][o] \in T
    BY <1>2, OperandPart
  <2> QED
    BY <2>1, <2>2, TruthTyped
<1>3. CASE h.kind = "BoolOp"
  <2>1. SqlNode(d, h, g, s, o) = IF h.op = "and" THEN Least(g[h.left][s][o], g[h.right][s][o])
                                 ELSE Greatest(g[h.left][s][o], g[h.right][s][o])
    BY <1>3 DEF SqlNode
  <2>2. g[h.left][s][o] \in T /\ g[h.right][s][o] \in T
    BY <1>3, BothParts
  <2> QED
    BY <2>1, <2>2, TruthTyped
<1>4. CASE h.kind = "Lambda"
  <2> DEFINE related == Related(d, o, Stripped(s, h.owner))
             found == Exists(related, [c \in related |-> g[h.body][Inner(h, s)][c]], h.op)
  <2>1. SqlNode(d, h, g, s, o) = Truth(found)
    BY <1>4 DEF SqlNode
  <2> HIDE DEF found
  <2> QED
    BY <2>1, TruthTyped
<1>5. CASE h.kind \notin {"Compare", "Call", "Not", "BoolOp", "Lambda"}
  BY <1>5 DEF SqlNode
<1> QED
  BY <1>1, <1>2, <1>3, <1>4, <1>5

\* What the database makes of a filter is a function of nodes that obeys its rule.
LEMMA SqlFunction ==
  ASSUME NEW d \in Possible
  PROVE  \E p \in [Nodes -> [Seq(Names) -> [Objects -> {False3, Unknown, True3}]]] : \A h \in Nodes :
           /\ (\A s \in Seq(Names), o \in Objects : Sql(d, h, s, o) = p[h][s][o])
           /\ p[h] = [s \in Seq(Names) |-> [x \in Objects |-> SqlNode(d, h, p, s, x)]]
<1> DEFINE V == [Seq(Names) -> [Objects -> {False3, Unknown, True3}]]
           N(h, p) == [s \in Seq(Names) |-> [x \in Objects |-> SqlNode(d, h, p, s, x)]]
           Obeys(p) == p = [h \in Nodes |-> N(h, p)]
           F == [g \in [Nodes -> V] |-> [h \in Nodes |-> N(h, g)]]
           found == CHOOSE p : Obeys(p)
<1>1. ASSUME NEW g, NEW h \in Nodes, \A i \in DOMAIN Parts(h) : g[Parts(h)[i]] \in V
      PROVE  N(h, g) \in V
  <2>1. \A s \in Seq(Names), x \in Objects : SqlNode(d, h, g, s, x) \in {False3, Unknown, True3}
    BY <1>1, SqlTyped
  <2> QED
    BY <2>1
<1>2. ASSUME NEW g, NEW k, NEW h \in Nodes, \A i \in DOMAIN Parts(h) : g[Parts(h)[i]] = k[Parts(h)[i]]
      PROVE  N(h, g) = N(h, k)
  <2>1. ASSUME NEW s \in Seq(Names), NEW x \in Objects
        PROVE  SqlNode(d, h, g, s, x) = SqlNode(d, h, k, s, x)
    <3>1. CASE h.kind = "Not"
      <4>1. g[h.operand] = k[h.operand]
        BY <1>2, <3>1, OperandPart
      <4> QED
        BY <3>1, <4>1 DEF SqlNode
    <3>2. CASE h.kind = "BoolOp"
      <4>1. g[h.left] = k[h.left] /\ g[h.right] = k[h.right]
        BY <1>2, <3>2, BothParts
      <4> QED
        BY <3>2, <4>1 DEF SqlNode
    <3>3. CASE h.kind = "Lambda"
      <4>1. g[h.body] = k[h.body]
        BY <1>2, <3>3, BodyPart
      <4> DEFINE Q(b) == LET related == Related(d, x, Stripped(s, h.owner))
                         IN  Truth(Exists(related, [c \in related |-> b[Inner(h, s)][c]], h.op))
      <4>2. SqlNode(d, h, g, s, x) = Q(g[h.body]) /\ SqlNode(d, h, k, s, x) = Q(k[h.body])
        BY <3>3 DEF SqlNode
      <4> HIDE DEF Q
      <4> QED
        BY <4>1, <4>2
    <3>4. CASE h.kind \notin {"Not", "BoolOp", "Lambda"}
      BY <3>4 DEF SqlNode
    <3> QED
      BY <3>1, <3>2, <3>3, <3>4
  <2> QED
    BY <2>1
<1>3. \A h \in Nodes : (\A s \in Seq(Names), o \in Objects : Sql(d, h, s, o) = found[h][s][o])
  BY DEF Sql
<1>4. V # {}
  <2>1. [s \in Seq(Names) |-> [x \in Objects |-> True3]] \in V
    OBVIOUS
  <2> QED
    BY <2>1
<1> HIDE DEF V, N
<1>5. F \in [[Nodes -> V] -> [Nodes -> V]]
  BY <1>1, NodeShape
<1>6. IsRule(F, V)
  <2>1. \A g, h \in [Nodes -> V], k \in Nodes :
          (\A i \in DOMAIN Parts(k) : g[Parts(k)[i]] = h[Parts(k)[i]]) => F[g][k] = F[h][k]
    BY <1>2
  <2> HIDE DEF F
  <2> QED
    BY <1>4, <1>5, <2>1 DEF IsRule
<1>7. Obeys(found)
  <2>1. PICK p \in [Nodes -> V] : \A h \in Nodes : p[h] = F[p][h]
    <3> HIDE DEF F
    <3> QED
      BY <1>6, NodeRecursion
  <2>2. Obeys(p)
    BY <2>1
  <2> HIDE DEF Obeys
  <2> QED
    BY <2>2
<1>8. found = [h \in Nodes |-> N(h, found)]
  BY <1>7
<1> HIDE DEF found
<1> DEFINE S == {h \in Nodes : found[h] \in V}
<1>9. ASSUME NEW h \in Nodes, \A i \in DOMAIN Parts(h) : Parts(h)[i] \in S PROVE h \in S
  <2>1. N(h, found) \in V
    BY <1>1, <1>9
  <2>2. found[h] = N(h, found)
    BY <1>8
  <2> QED
    BY <2>1, <2>2
<1> HIDE DEF S
<1>10. \A h \in Nodes : h \in S
  BY <1>9, NodeInduction
<1>11. found \in [Nodes -> V]
  BY <1>8, <1>10 DEF S
<1>12. \A h \in Nodes : found[h] = N(h, found)
  BY <1>8
<1> QED
  BY <1>3, <1>11, <1>12 DEF V, N

\* A filter means that a row satisfies it or does not.
LEMMA MeaningTyped ==
  ASSUME NEW d \in Possible, NEW row \in Objects, NEW h \in Nodes, NEW g, NEW e,
         \A i \in DOMAIN Parts(h) : g[Parts(h)[i]] \in [[Names -> Objects \union {None}] -> BOOLEAN]
  PROVE  MeaningNode(d, row, h, g, e) \in BOOLEAN
<1>1. CASE h.kind \in {"Compare", "Call"}
  BY <1>1, Zenon DEF MeaningNode, Satisfied
<1>2. CASE h.kind \notin {"Compare", "Call"}
  <2> DEFINE items == RowsAt(d, Start(e, row, h.owner), Rest(e, h.owner))
             many == IF h.op = "any" THEN \E c \in items : g[h.body][Bind(e, h, c)]
                     ELSE \A c \in items : g[h.body][Bind(e, h, c)]
             both == IF h.op = "and" THEN g[h.left][e] /\ g[h.right][e] ELSE g[h.left][e] \/ g[h.right][e]
             neither == ~ g[h.operand][e]
  <2>1. many \in BOOLEAN /\ both \in BOOLEAN /\ neither \in BOOLEAN
    BY Zenon
  <2>2. MeaningNode(d, row, h, g, e) = IF h.kind = "Not" THEN neither
          ELSE IF h.kind = "BoolOp" THEN both ELSE IF h.kind = "Lambda" THEN many ELSE TRUE
    BY <1>2 DEF MeaningNode
  <2> HIDE DEF many, both, neither
  <2> QED
    BY <2>1, <2>2
<1> QED
  BY <1>1, <1>2

\* What a filter means is a function of nodes that obeys its rule.
LEMMA MeaningFunction ==
  ASSUME NEW d \in Possible, NEW row \in Objects
  PROVE  \E p \in [Nodes -> [[Names -> Objects \union {None}] -> BOOLEAN]] : \A h \in Nodes :
           /\ (\A e \in [Names -> Objects \union {None}] : Meaning(d, h, e, row) = p[h][e])
           /\ p[h] = [e \in [Names -> Objects \union {None}] |-> MeaningNode(d, row, h, p, e)]
<1> DEFINE V == [[Names -> Objects \union {None}] -> BOOLEAN]
           N(h, p) == [e \in [Names -> Objects \union {None}] |-> MeaningNode(d, row, h, p, e)]
           Obeys(p) == p = [h \in Nodes |-> N(h, p)]
           F == [g \in [Nodes -> V] |-> [h \in Nodes |-> N(h, g)]]
           found == CHOOSE p : Obeys(p)
<1>1. ASSUME NEW g, NEW h \in Nodes, \A i \in DOMAIN Parts(h) : g[Parts(h)[i]] \in V
      PROVE  N(h, g) \in V
  <2>1. \A e \in [Names -> Objects \union {None}] : MeaningNode(d, row, h, g, e) \in BOOLEAN
    BY <1>1, MeaningTyped
  <2> QED
    BY <2>1
<1>2. ASSUME NEW g, NEW k, NEW h \in Nodes, \A i \in DOMAIN Parts(h) : g[Parts(h)[i]] = k[Parts(h)[i]]
      PROVE  N(h, g) = N(h, k)
  <2>1. ASSUME NEW e \in [Names -> Objects \union {None}]
        PROVE  MeaningNode(d, row, h, g, e) = MeaningNode(d, row, h, k, e)
    <3>1. CASE h.kind = "Not"
      <4>1. g[h.operand] = k[h.operand]
        BY <1>2, <3>1, OperandPart
      <4> QED
        BY <3>1, <4>1 DEF MeaningNode
    <3>2. CASE h.kind = "BoolOp"
      <4>1. g[h.left] = k[h.left] /\ g[h.right] = k[h.right]
        BY <1>2, <3>2, BothParts
      <4> QED
        BY <3>2, <4>1 DEF MeaningNode
    <3>3. CASE h.kind = "Lambda"
      <4>1. g[h.body] = k[h.body]
        BY <1>2, <3>3, BodyPart
      <4> DEFINE Q(b) == LET items == RowsAt(d, Start(e, row, h.owner), Rest(e, h.owner))
                         IN  IF h.op = "any" THEN \E c \in items : b[Bind(e, h, c)]
                             ELSE \A c \in items : b[Bind(e, h, c)]
      <4>2. MeaningNode(d, row, h, g, e) = Q(g[h.body]) /\ MeaningNode(d, row, h, k, e) = Q(k[h.body])
        BY <3>3 DEF MeaningNode
      <4> HIDE DEF Q
      <4> QED
        BY <4>1, <4>2
    <3>4. CASE h.kind \notin {"Not", "BoolOp", "Lambda"}
      BY <3>4 DEF MeaningNode
    <3> QED
      BY <3>1, <3>2, <3>3, <3>4
  <2> QED
    BY <2>1
<1>3. \A h \in Nodes : (\A e \in [Names -> Objects \union {None}] : Meaning(d, h, e, row) = found[h][e])
  BY DEF Meaning
<1>4. V # {}
  <2>1. [e \in [Names -> Objects \union {None}] |-> TRUE] \in V
    OBVIOUS
  <2> QED
    BY <2>1
<1> HIDE DEF V, N
<1>5. F \in [[Nodes -> V] -> [Nodes -> V]]
  BY <1>1, NodeShape
<1>6. IsRule(F, V)
  <2>1. \A g, h \in [Nodes -> V], k \in Nodes :
          (\A i \in DOMAIN Parts(k) : g[Parts(k)[i]] = h[Parts(k)[i]]) => F[g][k] = F[h][k]
    BY <1>2
  <2> HIDE DEF F
  <2> QED
    BY <1>4, <1>5, <2>1 DEF IsRule
<1>7. Obeys(found)
  <2>1. PICK p \in [Nodes -> V] : \A h \in Nodes : p[h] = F[p][h]
    <3> HIDE DEF F
    <3> QED
      BY <1>6, NodeRecursion
  <2>2. Obeys(p)
    BY <2>1
  <2> HIDE DEF Obeys
  <2> QED
    BY <2>2
<1>8. found = [h \in Nodes |-> N(h, found)]
  BY <1>7
<1> HIDE DEF found
<1> DEFINE S == {h \in Nodes : found[h] \in V}
<1>9. ASSUME NEW h \in Nodes, \A i \in DOMAIN Parts(h) : Parts(h)[i] \in S PROVE h \in S
  <2>1. N(h, found) \in V
    BY <1>1, <1>9
  <2>2. found[h] = N(h, found)
    BY <1>8
  <2> QED
    BY <2>1, <2>2
<1> HIDE DEF S
<1>10. \A h \in Nodes : h \in S
  BY <1>9, NodeInduction
<1>11. found \in [Nodes -> V]
  BY <1>8, <1>10 DEF S
<1>12. \A h \in Nodes : found[h] = N(h, found)
  BY <1>8
<1> QED
  BY <1>3, <1>11, <1>12 DEF V, N

\* Whether it is well formed is a function of nodes that obeys its rule.
LEMMA WellFormedFunction ==
  ASSUME NEW model \in Models
  PROVE  \E p \in [Nodes -> [[Names -> Models \union {None}] -> BOOLEAN]] : \A h \in Nodes :
           /\ (\A e \in [Names -> Models \union {None}] : WellFormed(h, e, model) = p[h][e])
           /\ p[h] = [e \in [Names -> Models \union {None}] |-> WellFormedNode(h, p, e, model)]
<1> DEFINE V == [[Names -> Models \union {None}] -> BOOLEAN]
           N(h, p) == [e \in [Names -> Models \union {None}] |-> WellFormedNode(h, p, e, model)]
           Obeys(p) == p = [h \in Nodes |-> N(h, p)]
           F == [g \in [Nodes -> V] |-> [h \in Nodes |-> N(h, g)]]
           found == CHOOSE p : Obeys(p)
<1>1. ASSUME NEW g, NEW h \in Nodes, \A i \in DOMAIN Parts(h) : g[Parts(h)[i]] \in V
      PROVE  N(h, g) \in V
  <2>1. \A e \in [Names -> Models \union {None}] : WellFormedNode(h, g, e, model) \in BOOLEAN
    BY Zenon DEF WellFormedNode
  <2> QED
    BY <2>1
<1>2. ASSUME NEW g, NEW k, NEW h \in Nodes, \A i \in DOMAIN Parts(h) : g[Parts(h)[i]] = k[Parts(h)[i]]
      PROVE  N(h, g) = N(h, k)
  <2>1. ASSUME NEW e \in [Names -> Models \union {None}]
        PROVE  WellFormedNode(h, g, e, model) = WellFormedNode(h, k, e, model)
    <3>1. \A i \in DOMAIN Parts(h) : g[Parts(h)[i]] = k[Parts(h)[i]]
      BY <1>2
    <3>2. h.kind = "Lambda" => g[h.body] = k[h.body]
      BY <1>2, BodyPart
    <3>3. NullTest(h) => 1 \in DOMAIN Parts(h)
      BY BothParts DEF NullTest
    <3> QED
      BY <3>1, <3>2, <3>3 DEF WellFormedNode
  <2> QED
    BY <2>1
<1>3. \A h \in Nodes : (\A e \in [Names -> Models \union {None}] : WellFormed(h, e, model) = found[h][e])
  BY DEF WellFormed
<1>4. V # {}
  <2>1. [e \in [Names -> Models \union {None}] |-> TRUE] \in V
    OBVIOUS
  <2> QED
    BY <2>1
<1> HIDE DEF V, N
<1>5. F \in [[Nodes -> V] -> [Nodes -> V]]
  BY <1>1, NodeShape
<1>6. IsRule(F, V)
  <2>1. \A g, h \in [Nodes -> V], k \in Nodes :
          (\A i \in DOMAIN Parts(k) : g[Parts(k)[i]] = h[Parts(k)[i]]) => F[g][k] = F[h][k]
    BY <1>2
  <2> HIDE DEF F
  <2> QED
    BY <1>4, <1>5, <2>1 DEF IsRule
<1>7. Obeys(found)
  <2>1. PICK p \in [Nodes -> V] : \A h \in Nodes : p[h] = F[p][h]
    <3> HIDE DEF F
    <3> QED
      BY <1>6, NodeRecursion
  <2>2. Obeys(p)
    BY <2>1
  <2> HIDE DEF Obeys
  <2> QED
    BY <2>2
<1>8. found = [h \in Nodes |-> N(h, found)]
  BY <1>7
<1> HIDE DEF found
<1> DEFINE S == {h \in Nodes : found[h] \in V}
<1>9. ASSUME NEW h \in Nodes, \A i \in DOMAIN Parts(h) : Parts(h)[i] \in S PROVE h \in S
  <2>1. N(h, found) \in V
    BY <1>1, <1>9
  <2>2. found[h] = N(h, found)
    BY <1>8
  <2> QED
    BY <2>1, <2>2
<1> HIDE DEF S
<1>10. \A h \in Nodes : h \in S
  BY <1>9, NodeInduction
<1>11. found \in [Nodes -> V]
  BY <1>8, <1>10 DEF S
<1>12. \A h \in Nodes : found[h] = N(h, found)
  BY <1>8
<1> QED
  BY <1>3, <1>11, <1>12 DEF V, N

-----------------------------------------------------------------------------
(* What each node comes to                                                 *)

\* The places of a node are its own and those of its parts.
LEMMA PlacedRule ==
  ASSUME NEW f \in Nodes, NEW scope \in Seq(Names)
  PROVE  /\ Placed(f, scope) \subseteq Nodes \X Seq(Names)
         /\ <<f, scope>> \in Placed(f, scope)
         /\ \A i \in DOMAIN Parts(f) : Placed(Parts(f)[i], Inner(f, scope)) \subseteq Placed(f, scope)
         /\ \A place \in Placed(f, scope) :
              place = <<f, scope>> \/ \E i \in DOMAIN Parts(f) : place \in Placed(Parts(f)[i], Inner(f, scope))
<1>1. PICK p \in [Nodes -> [Seq(Names) -> SUBSET (Nodes \X Seq(Names))]] :
        \A h \in Nodes : (\A s \in Seq(Names) : Placed(h, s) = p[h][s])
                         /\ p[h] = [s \in Seq(Names) |-> PlacedNode(h, p, s)]
  BY PlacedFunction
<1>2. Placed(f, scope) = p[f][scope] /\ p[f][scope] = PlacedNode(f, p, scope)
  BY <1>1
<1>3. p[f][scope] \in SUBSET (Nodes \X Seq(Names))
  BY <1>1
<1>4. ASSUME NEW i \in DOMAIN Parts(f) PROVE Placed(Parts(f)[i], Inner(f, scope)) = p[Parts(f)[i]][Inner(f, scope)]
  BY <1>1, NodeShape, InnerTyped
<1>5. /\ <<f, scope>> \in PlacedNode(f, p, scope)
      /\ \A i \in DOMAIN Parts(f) : p[Parts(f)[i]][Inner(f, scope)] \subseteq PlacedNode(f, p, scope)
      /\ \A place \in PlacedNode(f, p, scope) :
           place = <<f, scope>> \/ \E i \in DOMAIN Parts(f) : place \in p[Parts(f)[i]][Inner(f, scope)]
  BY DEF PlacedNode
<1>6. ASSUME NEW place \in Placed(f, scope)
      PROVE  place = <<f, scope>> \/ \E i \in DOMAIN Parts(f) : place \in Placed(Parts(f)[i], Inner(f, scope))
  <2>1. place = <<f, scope>> \/ \E i \in DOMAIN Parts(f) : place \in p[Parts(f)[i]][Inner(f, scope)]
    BY <1>2, <1>5, Zenon
  <2>2. CASE \E i \in DOMAIN Parts(f) : place \in p[Parts(f)[i]][Inner(f, scope)]
    <3>1. PICK i \in DOMAIN Parts(f) : place \in p[Parts(f)[i]][Inner(f, scope)]
      BY <2>2
    <3>2. place \in Placed(Parts(f)[i], Inner(f, scope))
      BY <1>4, <3>1
    <3> QED
      BY <3>2, Zenon
  <2> QED
    BY <2>1, <2>2
<1>7. /\ Placed(f, scope) \subseteq Nodes \X Seq(Names)
      /\ <<f, scope>> \in Placed(f, scope)
      /\ \A i \in DOMAIN Parts(f) : Placed(Parts(f)[i], Inner(f, scope)) \subseteq Placed(f, scope)
  BY <1>2, <1>3, <1>4, <1>5
<1> QED
  BY <1>6, <1>7, Zenon

\* An expression comes to what its rule makes of its parts.
LEMMA ComputedRule ==
  ASSUME NEW d \in Possible, NEW scope \in Seq(Names), NEW o \in Objects, NEW e \in Nodes
  PROVE  /\ Computed(d, scope, o, e) \in Int \union {Null}
         /\ Computed(d, scope, o, e) = ComputedNode(d, scope, o, e, [g \in Nodes |-> Computed(d, scope, o, g)])
<1>1. PICK p \in [Nodes -> Int \union {Null}] :
        \A h \in Nodes : Computed(d, scope, o, h) = p[h] /\ p[h] = ComputedNode(d, scope, o, h, p)
  BY ComputedFunction
<1>2. p = [g \in Nodes |-> Computed(d, scope, o, g)]
  BY <1>1
<1> QED
  BY <1>1, <1>2

\* The same for what an expression stands for.
LEMMA DenotedRule ==
  ASSUME NEW d \in Possible, NEW env \in [Names -> Objects \union {None}], NEW row \in Objects, NEW e \in Nodes
  PROVE  /\ Denoted(d, env, row, e) \in Int \union {Null}
         /\ Denoted(d, env, row, e) = DenotedNode(d, env, row, e, [g \in Nodes |-> Denoted(d, env, row, g)])
<1>1. PICK p \in [Nodes -> Int \union {Null}] :
        \A h \in Nodes : Denoted(d, env, row, h) = p[h] /\ p[h] = DenotedNode(d, env, row, h, p)
  BY DenotedFunction
<1>2. p = [g \in Nodes |-> Denoted(d, env, row, g)]
  BY <1>1
<1> QED
  BY <1>1, <1>2

\* The translation of a node succeeds when that of its parts does and its own checks hold.
LEMMA TranslatedRule ==
  ASSUME NEW f \in Nodes, NEW model \in Models, NEW scope \in Seq(Names)
  PROVE  \E p \in [Nodes -> [Models -> [Seq(Names) -> Outcomes]]] :
           /\ \A g \in Nodes, m \in Models, s \in Seq(Names) : Translated(m, s, g) = p[g][m][s]
           /\ Translated(model, scope, f) = TranslatedNode(f, p, model, scope)
<1>1. PICK p \in [Nodes -> [Models -> [Seq(Names) -> Outcomes]]] :
        \A h \in Nodes : /\ \A m \in Models, s \in Seq(Names) : Translated(m, s, h) = p[h][m][s]
                         /\ p[h] = [m \in Models |-> [s \in Seq(Names) |-> TranslatedNode(h, p, m, s)]]
  BY TranslatedFunction
<1>2. p[f][model][scope] = TranslatedNode(f, p, model, scope)
  <2>1. p[f] = [m \in Models |-> [s \in Seq(Names) |-> TranslatedNode(f, p, m, s)]]
    BY <1>1
  <2> QED
    BY <2>1
<1> QED
  BY <1>1, <1>2

\* When a visitor translates a node without an error, all that can go wrong with it aside.
LEMMA FineWhen ==
  ASSUME NEW f \in Nodes, NEW model \in Models, NEW scope \in Seq(Names)
  PROVE  LET Fine(g) == Translated(model, scope, g) = "fine"
             FineAll == \A i \in DOMAIN Parts(f) : Fine(Parts(f)[i])
         IN  Fine(f) <=>
               /\ f.kind = "Field" => ValuePath(model, Stripped(scope, f.path))
               /\ f.kind = "Literal" => f.value # Null
               /\ f.kind = "List" => Null \notin f.values
               /\ NullTest(f) => Fine(f.left) /\ NullsTyped(f)
               /\ f.kind = "Call" => /\ Len(f.args) \in Arguments(f.func)
                                     /\ f.func \in Lookups => Searches(f, scope)
               /\ f.kind = "BoolOp" => ~ Bare(f)
               /\ f.kind # "Lambda" /\ ~ NullTest(f) => FineAll
               /\ f.kind = "Lambda" =>
                    LET related == Target(model, Stripped(scope, f.owner))
                    IN  /\ related # None /\ ~ Bare(f.body)
                        /\ Translated(related, Inner(f, scope), f.body) = "fine"
<1> DEFINE Fine(g) == Translated(model, scope, g) = "fine"
           FineAll == \A i \in DOMAIN Parts(f) : Fine(Parts(f)[i])
           related == Target(model, Stripped(scope, f.owner))
<1>1. PICK p \in [Nodes -> [Models -> [Seq(Names) -> Outcomes]]] :
           /\ \A g \in Nodes, m \in Models, s \in Seq(Names) : Translated(m, s, g) = p[g][m][s]
           /\ Translated(model, scope, f) = TranslatedNode(f, p, model, scope)
  BY TranslatedRule
<1> DEFINE parts == [i \in DOMAIN Parts(f) |-> p[Parts(f)[i]][model][scope]]
<1>2. PICK n \in Nat : DOMAIN parts = 1 .. n
  <2>1. Parts(f) \in Seq(Nodes)
    BY NodeShape
  <2>2. DOMAIN parts = 1 .. Len(Parts(f)) /\ Len(Parts(f)) \in Nat
    BY <2>1
  <2> HIDE DEF parts
  <2> QED
    BY <2>2
<1>3. DOMAIN parts = DOMAIN Parts(f)
  OBVIOUS
<1>4. ASSUME NEW i \in DOMAIN parts PROVE parts[i] \in Outcomes /\ (parts[i] = "fine" <=> Fine(Parts(f)[i]))
  BY <1>1, NodeShape
<1>5. First(parts) \in Outcomes /\ (First(parts) = "fine" <=> FineAll)
  <2> HIDE DEF parts, Fine
  <2>1. First(parts) \in Outcomes /\ (First(parts) = "fine" <=> \A i \in DOMAIN parts : parts[i] = "fine")
    BY <1>2, <1>4, FirstOutcome
  <2> QED
    BY <1>3, <1>4, <2>1
<1>6. ASSUME NEW a \in Outcomes, NEW c \in BOOLEAN
      PROVE  (Then(a, Check(c)) = "fine" <=> a = "fine" /\ c) /\ (Then(Check(c), a) = "fine" <=> a = "fine" /\ c)
             /\ Then(Check(c), a) \in Outcomes
  BY ThenOutcome, CheckOutcome
<1>7. (Bare(f) \in BOOLEAN) /\ (NullsTyped(f) \in BOOLEAN) /\ (Searches(f, scope) \in BOOLEAN)
  BY BareRule DEF NullsTyped, Searches
<1>8. ASSUME f.kind = "Lambda"
      PROVE  Fine(f) <=> related # None /\ ~ Bare(f.body) /\ Translated(related, Inner(f, scope), f.body) = "fine"
  <2>1. Translated(model, scope, f)
          = IF related = None THEN "refused"
            ELSE Then(p[f.body][related][Inner(f, scope)], Check(~ Bare(f.body)))
    BY <1>1, <1>8 DEF TranslatedNode, NullTest
  <2>2. f.owner \in Seq(Names) /\ f.owner # <<>> /\ f.body \in Nodes
    BY <1>8, NodeShape DEF Shaped
  <2>3. Stripped(scope, f.owner) \in Seq(Names)
    BY <2>2, StrippedTyped
  <2>4. related \in Models \union {None}
    BY <2>3, TargetTyped
  <2>5. Inner(f, scope) \in Seq(Names)
    BY InnerTyped
  <2> HIDE DEF related
  <2>6. CASE related \in Models
    <3>1. p[f.body][related][Inner(f, scope)] \in Outcomes
          /\ Translated(related, Inner(f, scope), f.body) = p[f.body][related][Inner(f, scope)]
      BY <1>1, <2>2, <2>5, <2>6
    <3>2. (~ Bare(f.body)) \in BOOLEAN
      BY Zenon
    <3>3. related # None
      BY <2>6, ValueAssumption
    <3> QED
      BY <1>6, <2>1, <3>1, <3>2, <3>3
  <2>7. CASE related = None
    BY <2>1, <2>7
  <2> QED
    BY <2>4, <2>6, <2>7
<1>9. ASSUME NullTest(f)
      PROVE  f.kind = "Compare" /\ (Fine(f) <=> Fine(f.left) /\ NullsTyped(f))
  <2>1. f.kind = "Compare"
    BY <1>9 DEF NullTest
  <2>2. Translated(model, scope, f) = Then(parts[1], Check(NullsTyped(f)))
    BY <1>1, <1>9, <2>1 DEF TranslatedNode
  <2>3. 1 \in DOMAIN parts /\ Parts(f)[1] = f.left
    BY <2>1, BothParts
  <2> HIDE DEF parts
  <2>4. parts[1] \in Outcomes /\ (parts[1] = "fine" <=> Fine(f.left))
    BY <1>4, <2>3
  <2> QED
    BY <1>6, <1>7, <2>1, <2>2, <2>4
<1>10. ASSUME f.kind = "Call"
       PROVE  Fine(f) <=> FineAll /\ Len(f.args) \in Arguments(f.func) /\ (f.func \in Lookups => Searches(f, scope))
  <2>1. Translated(model, scope, f)
          = IF Len(f.args) \notin Arguments(f.func)
            THEN IF Arguments(f.func) = {} THEN "refused" ELSE "crashed"
            ELSE IF f.func = "matchesPattern"
            THEN Then(parts[2], Then(Check(Searches(f, scope)), parts[1]))
            ELSE IF f.func \in Lookups THEN Then(Check(Searches(f, scope)), First(parts))
            ELSE First(parts)
    BY <1>1, <1>10 DEF TranslatedNode, NullTest
  <2>2. CASE Len(f.args) \in Arguments(f.func) /\ f.func = "matchesPattern"
    <3>1. Parts(f) = f.args /\ f.args \in Seq(Nodes)
      BY <1>10, NodeShape
    <3>2. Len(f.args) = 2
      BY <2>2 DEF Arguments, Lookups
    <3>3. DOMAIN parts = 1 .. 2
      BY <1>3, <3>1, <3>2
    <3> HIDE DEF parts
    <3>4. parts[1] \in Outcomes /\ parts[2] \in Outcomes /\ (FineAll <=> parts[1] = "fine" /\ parts[2] = "fine")
      BY <1>3, <1>4, <3>3
    <3>5. Then(parts[2], Then(Check(Searches(f, scope)), parts[1])) = "fine"
            <=> parts[2] = "fine" /\ parts[1] = "fine" /\ Searches(f, scope)
      BY <1>6, <1>7, <3>4, ThenOutcome
    <3>6. f.func \in Lookups
      BY <2>2 DEF Lookups
    <3>7. Translated(model, scope, f) = Then(parts[2], Then(Check(Searches(f, scope)), parts[1]))
      BY <2>1, <2>2
    <3> QED
      BY <2>2, <3>4, <3>5, <3>6, <3>7, Zenon
  <2>3. CASE Len(f.args) \in Arguments(f.func) /\ f.func # "matchesPattern" /\ f.func \in Lookups
    <3>1. Translated(model, scope, f) = Then(Check(Searches(f, scope)), First(parts))
      BY <2>1, <2>3
    <3> HIDE DEF parts, FineAll
    <3>2. Then(Check(Searches(f, scope)), First(parts)) = "fine" <=> First(parts) = "fine" /\ Searches(f, scope)
      BY <1>5, <1>6, <1>7
    <3> QED
      BY <1>5, <2>3, <3>1, <3>2, Zenon
  <2>4. CASE Len(f.args) \in Arguments(f.func) /\ f.func \notin Lookups
    <3>1. Translated(model, scope, f) = First(parts)
      BY <2>1, <2>4 DEF Lookups
    <3> QED
      BY <1>5, <2>4, <3>1, Zenon
  <2>5. CASE Len(f.args) \notin Arguments(f.func)
    BY <2>1, <2>5
  <2> QED
    BY <2>2, <2>3, <2>4, <2>5, Zenon
<1>11. ASSUME f.kind = "BoolOp" PROVE Fine(f) <=> FineAll /\ ~ Bare(f)
  <2>1. Translated(model, scope, f) = Then(First(parts), Check(~ Bare(f)))
    BY <1>1, <1>11 DEF TranslatedNode, NullTest
  <2> HIDE DEF parts, FineAll
  <2>2. (~ Bare(f)) \in BOOLEAN
    BY Zenon
  <2> QED
    BY <1>5, <1>6, <2>1, <2>2
<1>12. ASSUME f.kind \notin {"Lambda", "Call", "Field", "Literal", "List", "BoolOp"} /\ ~ NullTest(f)
       PROVE  Fine(f) <=> FineAll
  <2>1. Translated(model, scope, f) = First(parts)
    BY <1>1, <1>12 DEF TranslatedNode
  <2> QED
    BY <1>5, <2>1, Zenon
<1>13. ASSUME f.kind \in {"Field", "Literal", "List"}
       PROVE  FineAll /\ (Fine(f) <=> /\ f.kind = "Field" => ValuePath(model, Stripped(scope, f.path))
                                      /\ f.kind = "Literal" => f.value # Null
                                      /\ f.kind = "List" => Null \notin f.values)
  <2>1. Parts(f) = <<>>
    BY <1>13, NodeShape
  <2>2. FineAll
    BY <2>1
  <2>3. ValuePath(model, Stripped(scope, f.path)) \in BOOLEAN
    BY DEF ValuePath
  <2>4. Check(ValuePath(model, Stripped(scope, f.path))) = "fine" <=> ValuePath(model, Stripped(scope, f.path))
    BY <2>3, CheckOutcome
  <2>5. Translated(model, scope, f)
          = IF f.kind = "Field" THEN Check(ValuePath(model, Stripped(scope, f.path)))
            ELSE IF f.kind = "Literal" THEN IF f.value = Null THEN "crashed" ELSE "fine"
            ELSE IF Null \in f.values THEN "crashed" ELSE "fine"
    BY <1>1, <1>13 DEF TranslatedNode
  <2> HIDE DEF FineAll
  <2> QED
    BY <1>13, <2>2, <2>4, <2>5
<1>14. NullTest(f) => f.kind = "Compare"
  BY DEF NullTest
<1> HIDE DEF FineAll, Fine, related, parts
<1>15. Fine(f) <=>
         /\ f.kind = "Field" => ValuePath(model, Stripped(scope, f.path))
         /\ f.kind = "Literal" => f.value # Null
         /\ f.kind = "List" => Null \notin f.values
         /\ NullTest(f) => Fine(f.left) /\ NullsTyped(f)
         /\ f.kind = "Call" => Len(f.args) \in Arguments(f.func) /\ (f.func \in Lookups => Searches(f, scope))
         /\ f.kind = "BoolOp" => ~ Bare(f)
         /\ f.kind # "Lambda" /\ ~ NullTest(f) => FineAll
         /\ f.kind = "Lambda" => related # None /\ ~ Bare(f.body) /\ Translated(related, Inner(f, scope), f.body) = "fine"
  BY <1>8, <1>9, <1>10, <1>11, <1>12, <1>13, <1>14
<1> QED
  BY <1>15, Zenon DEF FineAll, Fine, related

\* A translation crashes at a null or at a function's number of arguments, or in a part.
LEMMA NotCrashed ==
  ASSUME NEW f \in Nodes, NEW model \in Models, NEW scope \in Seq(Names),
         f.kind = "Literal" => f.value # Null,
         f.kind = "List" => Null \notin f.values,
         f.kind = "Call" => Len(f.args) \in Arguments(f.func),
         NullTest(f) => Translated(model, scope, f.left) # "crashed",
         f.kind # "Lambda" /\ ~ NullTest(f) =>
           \A i \in DOMAIN Parts(f) : Translated(model, scope, Parts(f)[i]) # "crashed",
         f.kind = "Lambda" /\ Target(model, Stripped(scope, f.owner)) # None =>
           Translated(Target(model, Stripped(scope, f.owner)), Inner(f, scope), f.body) # "crashed"
  PROVE  Translated(model, scope, f) # "crashed"
<1> DEFINE related == Target(model, Stripped(scope, f.owner))
<1>1. PICK p \in [Nodes -> [Models -> [Seq(Names) -> Outcomes]]] :
           /\ \A g \in Nodes, m \in Models, s \in Seq(Names) : Translated(m, s, g) = p[g][m][s]
           /\ Translated(model, scope, f) = TranslatedNode(f, p, model, scope)
  BY TranslatedRule
<1> DEFINE parts == [i \in DOMAIN Parts(f) |-> p[Parts(f)[i]][model][scope]]
<1>2. PICK n \in Nat : DOMAIN parts = 1 .. n
  <2>1. Parts(f) \in Seq(Nodes)
    BY NodeShape
  <2>2. DOMAIN parts = 1 .. Len(Parts(f)) /\ Len(Parts(f)) \in Nat
    BY <2>1
  <2> HIDE DEF parts
  <2> QED
    BY <2>2
<1>3. DOMAIN parts = DOMAIN Parts(f)
  OBVIOUS
<1>4. ASSUME NEW i \in DOMAIN parts
      PROVE  parts[i] \in Outcomes /\ parts[i] = Translated(model, scope, Parts(f)[i])
  BY <1>1, NodeShape
<1>5. f.kind # "Lambda" /\ ~ NullTest(f) => First(parts) # "crashed" /\ \A i \in DOMAIN parts : parts[i] # "crashed"
  <2> HIDE DEF parts
  <2>1. First(parts) = "fine" \/ \E i \in DOMAIN parts : First(parts) = parts[i]
    BY <1>2, <1>4, FirstOutcome
  <2> QED
    BY <1>3, <1>4, <2>1
<1>6. \A a, b : (a # "crashed" /\ b # "crashed" => Then(a, b) # "crashed") /\ Check(b) # "crashed"
  BY DEF Then, Check
<1>7. CASE f.kind = "Lambda"
  <2>1. Translated(model, scope, f)
          = IF related = None THEN "refused"
            ELSE Then(p[f.body][related][Inner(f, scope)], Check(~ Bare(f.body)))
    BY <1>1, <1>7 DEF TranslatedNode, NullTest
  <2>2. f.owner \in Seq(Names) /\ f.owner # <<>> /\ f.body \in Nodes
    BY <1>7, NodeShape DEF Shaped
  <2>3. Stripped(scope, f.owner) \in Seq(Names)
    BY <2>2, StrippedTyped
  <2>4. related \in Models \union {None} /\ Inner(f, scope) \in Seq(Names)
    BY <2>3, TargetTyped, InnerTyped
  <2> HIDE DEF related
  <2>5. CASE related # None
    <3>1. Translated(related, Inner(f, scope), f.body) = p[f.body][related][Inner(f, scope)]
      BY <1>1, <2>2, <2>4, <2>5
    <3>2. Translated(related, Inner(f, scope), f.body) # "crashed"
      BY <1>7, <2>5 DEF related
    <3> QED
      BY <1>6, <2>1, <2>5, <3>1, <3>2
  <2>6. CASE related = None
    BY <2>1, <2>6
  <2> QED
    BY <2>5, <2>6
<1>8. CASE NullTest(f)
  <2>1. f.kind = "Compare"
    BY <1>8 DEF NullTest
  <2>2. Translated(model, scope, f) = Then(parts[1], Check(NullsTyped(f)))
    BY <1>1, <1>8, <2>1 DEF TranslatedNode
  <2>3. 1 \in DOMAIN parts /\ Parts(f)[1] = f.left
    BY <2>1, BothParts
  <2> HIDE DEF parts
  <2>4. parts[1] # "crashed"
    BY <1>4, <1>8, <2>3
  <2> QED
    BY <1>6, <2>2, <2>4
<1>9. CASE f.kind = "Call"
  <2>1. Translated(model, scope, f)
          = IF f.func = "matchesPattern"
            THEN Then(parts[2], Then(Check(Searches(f, scope)), parts[1]))
            ELSE IF f.func \in Lookups THEN Then(Check(Searches(f, scope)), First(parts))
            ELSE First(parts)
    BY <1>1, <1>9 DEF TranslatedNode, NullTest
  <2>2. f.func = "matchesPattern" => 1 \in DOMAIN parts /\ 2 \in DOMAIN parts
    <3> SUFFICES ASSUME f.func = "matchesPattern" PROVE 1 \in DOMAIN parts /\ 2 \in DOMAIN parts
      OBVIOUS
    <3>1. Parts(f) = f.args /\ f.args \in Seq(Nodes)
      BY <1>9, NodeShape
    <3>2. Len(f.args) = 2
      BY <1>9 DEF Arguments, Lookups
    <3> QED
      BY <1>3, <3>1, <3>2
  <2>3. f.kind # "Lambda" /\ ~ NullTest(f)
    BY <1>9 DEF NullTest
  <2> HIDE DEF parts
  <2>4. First(parts) # "crashed" /\ (f.func = "matchesPattern" => parts[1] # "crashed" /\ parts[2] # "crashed")
    BY <1>5, <2>2, <2>3
  <2> QED
    BY <1>6, <2>1, <2>4
<1>10. CASE f.kind \in {"Field", "Literal", "List"}
  <2>1. Translated(model, scope, f)
          = IF f.kind = "Field" THEN Check(ValuePath(model, Stripped(scope, f.path))) ELSE "fine"
    BY <1>1, <1>10 DEF TranslatedNode
  <2> QED
    BY <1>6, <2>1
<1>11. CASE f.kind = "BoolOp"
  <2>1. Translated(model, scope, f) = Then(First(parts), Check(~ Bare(f)))
    BY <1>1, <1>11 DEF TranslatedNode, NullTest
  <2>2. f.kind # "Lambda" /\ ~ NullTest(f)
    BY <1>11 DEF NullTest
  <2> HIDE DEF parts
  <2> QED
    BY <1>5, <1>6, <2>1, <2>2
<1>12. CASE f.kind \notin {"Lambda", "Call", "Field", "Literal", "List", "BoolOp"} /\ ~ NullTest(f)
  <2>1. Translated(model, scope, f) = First(parts)
    BY <1>1, <1>12 DEF TranslatedNode
  <2> HIDE DEF parts
  <2> QED
    BY <1>5, <1>12, <2>1
<1> QED
  BY <1>7, <1>8, <1>9, <1>10, <1>11, <1>12

\* What the database makes of each kind of node.
LEMMA SqlRule ==
  ASSUME NEW d \in Possible, NEW f \in Nodes, NEW scope \in Seq(Names), NEW o \in Objects
  PROVE  LET Found(g) == Sql(d, g, scope, o)
         IN  /\ Found(f) \in {False3, Unknown, True3}
             /\ f.kind \in {"Compare", "Call"} =>
                  Found(f) = Compared(f, Computed(d, scope, o, Left(f)), Operands(Right(f), Computed(d, scope, o, Right(f))))
             /\ f.kind = "Not" => Found(f) = True3 - Found(f.operand)
             /\ f.kind = "BoolOp" =>
                  Found(f) = IF f.op = "and" THEN Least(Found(f.left), Found(f.right))
                             ELSE Greatest(Found(f.left), Found(f.right))
             /\ f.kind \notin {"Compare", "Call", "Not", "BoolOp", "Lambda"} => Found(f) = True3
<1>1. PICK p \in [Nodes -> [Seq(Names) -> [Objects -> {False3, Unknown, True3}]]] :
        \A h \in Nodes : (\A s \in Seq(Names), x \in Objects : Sql(d, h, s, x) = p[h][s][x])
                         /\ p[h] = [s \in Seq(Names) |-> [x \in Objects |-> SqlNode(d, h, p, s, x)]]
  BY SqlFunction, Zenon
<1>2. Sql(d, f, scope, o) = SqlNode(d, f, p, scope, o) /\ Sql(d, f, scope, o) \in {False3, Unknown, True3}
  <2>1. Sql(d, f, scope, o) = p[f][scope][o] /\ p[f] = [s \in Seq(Names) |-> [x \in Objects |-> SqlNode(d, f, p, s, x)]]
    BY <1>1
  <2>2. p[f][scope][o] \in {False3, Unknown, True3}
    BY <1>1
  <2> QED
    BY <2>1, <2>2
<1>3. f.kind = "Not" => Sql(d, f, scope, o) = True3 - Sql(d, f.operand, scope, o)
  <2> SUFFICES ASSUME f.kind = "Not" PROVE Sql(d, f, scope, o) = True3 - Sql(d, f.operand, scope, o)
    OBVIOUS
  <2>1. Sql(d, f.operand, scope, o) = p[f.operand][scope][o]
    BY <1>1, OperandPart
  <2> QED
    BY <1>2, <2>1 DEF SqlNode
<1>4. f.kind = "BoolOp" =>
        Sql(d, f, scope, o) = IF f.op = "and" THEN Least(Sql(d, f.left, scope, o), Sql(d, f.right, scope, o))
                              ELSE Greatest(Sql(d, f.left, scope, o), Sql(d, f.right, scope, o))
  <2> SUFFICES ASSUME f.kind = "BoolOp"
               PROVE  Sql(d, f, scope, o)
                        = IF f.op = "and" THEN Least(Sql(d, f.left, scope, o), Sql(d, f.right, scope, o))
                          ELSE Greatest(Sql(d, f.left, scope, o), Sql(d, f.right, scope, o))
    OBVIOUS
  <2>1. Sql(d, f.left, scope, o) = p[f.left][scope][o] /\ Sql(d, f.right, scope, o) = p[f.right][scope][o]
    BY <1>1, BothParts
  <2> QED
    BY <1>2, <2>1 DEF SqlNode
<1>5. f.kind \in {"Compare", "Call"} =>
        Sql(d, f, scope, o) = Compared(f, Computed(d, scope, o, Left(f)), Operands(Right(f), Computed(d, scope, o, Right(f))))
  BY <1>2 DEF SqlNode
<1>6. f.kind \notin {"Compare", "Call", "Not", "BoolOp", "Lambda"} => Sql(d, f, scope, o) = True3
  BY <1>2 DEF SqlNode
<1> QED
  BY <1>2, <1>3, <1>4, <1>5, <1>6

\* A lambda is true or false in SQL, by the rows of its subquery.
LEMMA SqlLambda ==
  ASSUME NEW d \in Possible, NEW f \in Nodes, NEW scope \in Seq(Names), NEW o \in Objects, f.kind = "Lambda"
  PROVE  LET related == Related(d, o, Stripped(scope, f.owner))
             Inside(c) == Sql(d, f.body, Inner(f, scope), c)
         IN  Sql(d, f, scope, o) = Truth(\E c \in related : Inside(c) = IF f.op = "any" THEN True3 ELSE False3)
<1> DEFINE related == Related(d, o, Stripped(scope, f.owner))
           Inside(c) == Sql(d, f.body, Inner(f, scope), c)
<1>1. PICK p \in [Nodes -> [Seq(Names) -> [Objects -> {False3, Unknown, True3}]]] :
        \A h \in Nodes : (\A s \in Seq(Names), x \in Objects : Sql(d, h, s, x) = p[h][s][x])
                         /\ p[h] = [s \in Seq(Names) |-> [x \in Objects |-> SqlNode(d, h, p, s, x)]]
  BY SqlFunction, Zenon
<1>2. Sql(d, f, scope, o) = SqlNode(d, f, p, scope, o)
  <2>1. Sql(d, f, scope, o) = p[f][scope][o] /\ p[f] = [s \in Seq(Names) |-> [x \in Objects |-> SqlNode(d, f, p, s, x)]]
    BY <1>1
  <2> QED
    BY <2>1
<1> DEFINE satisfies == [c \in related |-> p[f.body][Inner(f, scope)][c]]
<1>3. SqlNode(d, f, p, scope, o) = Truth(Exists(related, satisfies, f.op))
  BY DEF SqlNode
<1>4. related \subseteq Objects
  BY DEF Related
<1>5. f.body \in Nodes /\ Inner(f, scope) \in Seq(Names)
  BY InnerTyped, BodyPart
<1>6. ASSUME NEW c \in related PROVE satisfies[c] = Inside(c)
  <2>1. c \in Objects
    BY <1>4
  <2> HIDE DEF related
  <2> QED
    BY <1>1, <1>5, <2>1
<1> HIDE DEF satisfies, related, Inside
<1>7. Exists(related, satisfies, f.op)
        = \E c \in related : Inside(c) = IF f.op = "any" THEN True3 ELSE False3
  BY <1>6 DEF Exists
<1> QED
  BY <1>2, <1>3, <1>7 DEF related, Inside

\* What each kind of node means.
LEMMA MeaningRule ==
  ASSUME NEW d \in Possible, NEW f \in Nodes, NEW env \in [Names -> Objects \union {None}], NEW row \in Objects
  PROVE  LET Says(g) == Meaning(d, g, env, row)
         IN  /\ Says(f) \in BOOLEAN
             /\ f.kind \in {"Compare", "Call"} =>
                  (Says(f) <=> Satisfied(f, Denoted(d, env, row, Left(f)), Operands(Right(f), Denoted(d, env, row, Right(f)))))
             /\ f.kind = "Not" => (Says(f) <=> ~ Says(f.operand))
             /\ f.kind = "BoolOp" =>
                  (Says(f) <=> IF f.op = "and" THEN Says(f.left) /\ Says(f.right) ELSE Says(f.left) \/ Says(f.right))
             /\ f.kind \notin {"Compare", "Call", "Not", "BoolOp", "Lambda"} => Says(f)
<1>1. PICK p \in [Nodes -> [[Names -> Objects \union {None}] -> BOOLEAN]] :
        \A h \in Nodes : (\A e \in [Names -> Objects \union {None}] : Meaning(d, h, e, row) = p[h][e])
                         /\ p[h] = [e \in [Names -> Objects \union {None}] |-> MeaningNode(d, row, h, p, e)]
  BY MeaningFunction, Zenon
<1>2. Meaning(d, f, env, row) = MeaningNode(d, row, f, p, env) /\ Meaning(d, f, env, row) \in BOOLEAN
  <2>1. Meaning(d, f, env, row) = p[f][env]
        /\ p[f] = [e \in [Names -> Objects \union {None}] |-> MeaningNode(d, row, f, p, e)]
    BY <1>1
  <2>2. p[f][env] \in BOOLEAN
    BY <1>1
  <2>3. p[f][env] = MeaningNode(d, row, f, p, env)
    BY <2>1
  <2> QED
    BY <2>1, <2>2, <2>3
<1>3. f.kind = "Not" => (Meaning(d, f, env, row) <=> ~ Meaning(d, f.operand, env, row))
  <2> SUFFICES ASSUME f.kind = "Not" PROVE Meaning(d, f, env, row) <=> ~ Meaning(d, f.operand, env, row)
    OBVIOUS
  <2>1. Meaning(d, f.operand, env, row) = p[f.operand][env]
    BY <1>1, OperandPart
  <2>2. MeaningNode(d, row, f, p, env) = ~ p[f.operand][env]
    BY DEF MeaningNode
  <2> QED
    BY <1>2, <2>1, <2>2, Zenon
<1>4. f.kind = "BoolOp" =>
        (Meaning(d, f, env, row) <=> IF f.op = "and" THEN Meaning(d, f.left, env, row) /\ Meaning(d, f.right, env, row)
                                     ELSE Meaning(d, f.left, env, row) \/ Meaning(d, f.right, env, row))
  <2> SUFFICES ASSUME f.kind = "BoolOp"
               PROVE  Meaning(d, f, env, row)
                        <=> IF f.op = "and" THEN Meaning(d, f.left, env, row) /\ Meaning(d, f.right, env, row)
                            ELSE Meaning(d, f.left, env, row) \/ Meaning(d, f.right, env, row)
    OBVIOUS
  <2>1. Meaning(d, f.left, env, row) = p[f.left][env] /\ Meaning(d, f.right, env, row) = p[f.right][env]
    BY <1>1, BothParts
  <2>2. MeaningNode(d, row, f, p, env) = IF f.op = "and" THEN p[f.left][env] /\ p[f.right][env]
                                         ELSE p[f.left][env] \/ p[f.right][env]
    BY DEF MeaningNode
  <2> QED
    BY <1>2, <2>1, <2>2
<1>5. f.kind \in {"Compare", "Call"} =>
        (Meaning(d, f, env, row)
           <=> Satisfied(f, Denoted(d, env, row, Left(f)), Operands(Right(f), Denoted(d, env, row, Right(f)))))
  <2> DEFINE sat == Satisfied(f, Denoted(d, env, row, Left(f)), Operands(Right(f), Denoted(d, env, row, Right(f))))
  <2>1. f.kind \in {"Compare", "Call"} => MeaningNode(d, row, f, p, env) = sat
    BY DEF MeaningNode
  <2> HIDE DEF sat
  <2>2. f.kind \in {"Compare", "Call"} => (Meaning(d, f, env, row) <=> sat)
    BY <1>2, <2>1
  <2> QED
    BY <2>2 DEF sat
<1>6. f.kind \notin {"Compare", "Call", "Not", "BoolOp", "Lambda"} => Meaning(d, f, env, row)
  BY <1>2 DEF MeaningNode
<1> QED
  BY <1>2, <1>3, <1>4, <1>5, <1>6

\* A lambda means what its body means of the rows of its owner.
LEMMA MeaningLambda ==
  ASSUME NEW d \in Possible, NEW f \in Nodes, NEW env \in [Names -> Objects \union {None}], NEW row \in Objects, f.kind = "Lambda"
  PROVE  LET items == RowsAt(d, Start(env, row, f.owner), Rest(env, f.owner))
             Inside(c) == Meaning(d, f.body, Bind(env, f, c), row)
         IN  Meaning(d, f, env, row) <=> IF f.op = "any" THEN \E c \in items : Inside(c) ELSE \A c \in items : Inside(c)
<1> DEFINE items == RowsAt(d, Start(env, row, f.owner), Rest(env, f.owner))
           Inside(c) == Meaning(d, f.body, Bind(env, f, c), row)
<1>1. PICK p \in [Nodes -> [[Names -> Objects \union {None}] -> BOOLEAN]] :
        \A h \in Nodes : (\A e \in [Names -> Objects \union {None}] : Meaning(d, h, e, row) = p[h][e])
                         /\ p[h] = [e \in [Names -> Objects \union {None}] |-> MeaningNode(d, row, h, p, e)]
  BY MeaningFunction, Zenon
<1>2. Meaning(d, f, env, row) = MeaningNode(d, row, f, p, env)
  <2>1. Meaning(d, f, env, row) = p[f][env]
        /\ p[f] = [e \in [Names -> Objects \union {None}] |-> MeaningNode(d, row, f, p, e)]
    BY <1>1
  <2> QED
    BY <2>1
<1>3. MeaningNode(d, row, f, p, env) = IF f.op = "any" THEN \E c \in items : p[f.body][Bind(env, f, c)]
                                       ELSE \A c \in items : p[f.body][Bind(env, f, c)]
  BY DEF MeaningNode
<1>4. f.owner \in Seq(Names) /\ f.owner # <<>>
  BY NodeShape DEF Shaped
<1>5. items \in SUBSET Objects
  BY <1>4, RestTyped, RowsTyped
<1> HIDE DEF items
<1>6. ASSUME NEW c \in items PROVE Inside(c) = p[f.body][Bind(env, f, c)]
  <2>1. c \in Objects
    BY <1>5
  <2>2. Bind(env, f, c) \in [Names -> Objects \union {None}] /\ f.body \in Nodes
    BY <2>1, BindTyped, BodyPart
  <2> QED
    BY <1>1, <2>2
<1> HIDE DEF Inside
<1>7. Meaning(d, f, env, row) <=> IF f.op = "any" THEN \E c \in items : Inside(c) ELSE \A c \in items : Inside(c)
  BY <1>2, <1>3, <1>6
<1> QED
  BY <1>7 DEF items, Inside

\* What is well formed.
LEMMA WellFormedRule ==
  ASSUME NEW f \in Nodes, NEW env \in [Names -> Models \union {None}], NEW model \in Models
  PROVE  \E p \in [Nodes -> [[Names -> Models \union {None}] -> BOOLEAN]] :
           /\ \A g \in Nodes, e \in [Names -> Models \union {None}] : WellFormed(g, e, model) = p[g][e]
           /\ WellFormed(f, env, model) = WellFormedNode(f, p, env, model)
<1>1. PICK p \in [Nodes -> [[Names -> Models \union {None}] -> BOOLEAN]] :
        \A h \in Nodes : (\A e \in [Names -> Models \union {None}] : WellFormed(h, e, model) = p[h][e])
                         /\ p[h] = [e \in [Names -> Models \union {None}] |-> WellFormedNode(h, p, e, model)]
  BY WellFormedFunction, Zenon
<1>2. p[f][env] = WellFormedNode(f, p, env, model)
  <2>1. p[f] = [e \in [Names -> Models \union {None}] |-> WellFormedNode(f, p, e, model)]
    BY <1>1
  <2> QED
    BY <2>1
<1> QED
  BY <1>1, <1>2

-----------------------------------------------------------------------------
(* The variables of lambdas                                                *)

\* A row stands for the variable of the innermost lambda, or is the one that is asked about;
\* the variables of the lambdas around stand for a row each, and no other name does.
Context(scope, env, row, here) ==
  /\ scope = <<>> => here = row
  /\ scope # <<>> => env[Last(scope)] = here
  /\ \A n \in Names : env[n] # None <=> \E i \in DOMAIN scope : scope[i] = n

\* It is so where a filter begins.
LEMMA ContextStart ==
  ASSUME NEW row
  PROVE  Context(<<>>, Nothing, row, row)
BY DEF Context, Nothing

\* It stays so in the body of a lambda.
LEMMA ContextInner ==
  ASSUME NEW R, None \notin R, NEW f \in Nodes, f.kind = "Lambda", NEW scope \in Seq(Names),
         NEW env \in [Names -> R \union {None}], NEW row, NEW here, NEW c \in R,
         Context(scope, env, row, here)
  PROVE  Context(Inner(f, scope), Bind(env, f, c), row, c)
<1>1. f.var \in Names
  BY NodeShape DEF Shaped
<1> DEFINE inner == Append(scope, f.var)
           bound == [env EXCEPT ![f.var] = c]
<1>2. Inner(f, scope) = inner /\ Bind(env, f, c) = bound
  BY DEF Inner, Bind
<1>3. inner \in Seq(Names) /\ Len(inner) = Len(scope) + 1 /\ inner[Len(scope) + 1] = f.var
      /\ \A i \in 1 .. Len(scope) : inner[i] = scope[i]
  BY <1>1
<1>4. inner # <<>> /\ Last(inner) = f.var
  <2>1. Len(inner) # 0 /\ Len(<<>>) = 0
    BY <1>3
  <2> QED
    BY <1>3, <2>1 DEF Last
<1>5. bound[f.var] = c
  BY <1>1
<1>6. ASSUME NEW n \in Names PROVE bound[n] # None <=> \E i \in DOMAIN inner : inner[i] = n
  <2>1. env[n] # None <=> \E i \in DOMAIN scope : scope[i] = n
    BY DEF Context
  <2>2. DOMAIN scope = 1 .. Len(scope) /\ DOMAIN inner = 1 .. Len(scope) + 1 /\ Len(scope) \in Nat
    BY <1>3
  <2>3. CASE n = f.var
    <3>1. Len(scope) + 1 \in DOMAIN inner
      BY <2>2
    <3> QED
      BY <1>3, <1>5, <2>3, <3>1
  <2>4. CASE n # f.var
    <3>1. bound[n] = env[n]
      BY <2>4
    <3> HIDE DEF bound, inner
    <3> QED
      BY <1>3, <2>1, <2>2, <2>4, <3>1
  <2> QED
    BY <2>3, <2>4
<1> HIDE DEF bound, inner
<1> QED
  BY <1>2, <1>4, <1>5, <1>6 DEF Context

\* A path of a lambda's own says the same to the model it runs on as to a reader who knows
\* which row each variable stands for.
LEMMA LocalSplit ==
  ASSUME NEW R, None \notin R, NEW scope \in Seq(Names), NEW env \in [Names -> R \union {None}],
         NEW row \in R, NEW here \in R, NEW path \in Seq(Names), path # <<>>,
         Context(scope, env, row, here), LocalPath(scope, path)
  PROVE  Stripped(scope, path) = Rest(env, path) /\ Start(env, row, path) = here
<1> DEFINE n == Len(scope)
<1>1. PICK at \in [0 .. Len(scope) -> Seq(Names)] :
        /\ at[0] = path
        /\ \A i \in 1 .. Len(scope) : at[i] = Relative(at[i - 1], scope[i])
        /\ Stripped(scope, path) = at[Len(scope)]
  BY StrippedSteps
<1>2. n \in Nat
  OBVIOUS
<1>3. Len(path) > 1 => Head(path) \in Names
  OBVIOUS
<1>4. CASE scope = <<>>
  <2>1. Stripped(scope, path) = path
    BY <1>1, <1>4
  <2>2. ~ Begins(env, path)
    BY <1>3, <1>4 DEF Begins, Context
  <2> QED
    BY <1>4, <2>1, <2>2 DEF Start, Rest, Context
<1>5. CASE scope # <<>>
  <2>1. Len(path) > 1 /\ Head(path) = Last(scope)
    BY <1>5 DEF LocalPath, OwnName
  <2>2. n \in 1 .. n /\ scope[n] = Head(path)
    BY <1>5, <2>1 DEF Last
  <2>3. env[Head(path)] = here /\ here # None
    BY <1>5, <2>1 DEF Context
  <2>4. Start(env, row, path) = here /\ Rest(env, path) = Tail(path)
    BY <2>1, <2>3 DEF Start, Rest, Begins
  <2> DEFINE Met(i) == \E k \in 1 .. i : scope[k] = Head(path)
             S == {i \in 0 .. n : at[i] = IF Met(i) THEN Tail(path) ELSE path}
  <2>5. 0 \in S
    BY <1>1, <1>2
  <2>6. ASSUME NEW i \in 0 .. n - 1, i \in S PROVE i + 1 \in S
    <3>1. i + 1 \in 1 .. n /\ i + 1 \in 0 .. n /\ (i + 1) - 1 = i
      BY <1>2
    <3>2. at[i + 1] = Relative(at[i], scope[i + 1])
      BY <1>1, <3>1
    <3>3. at[i] = IF Met(i) THEN Tail(path) ELSE path
      BY <2>6
    <3>4. Met(i + 1) <=> Met(i) \/ scope[i + 1] = Head(path)
      BY <1>2
    <3>5. CASE ~ Met(i)
      BY <2>1, <3>1, <3>2, <3>3, <3>4, <3>5 DEF Relative
    <3>6. CASE Met(i)
      <4>1. at[i] = Tail(path) /\ Met(i + 1)
        BY <3>3, <3>4, <3>6
      <4>2. Len(Tail(path)) = Len(path) - 1 /\ (Len(path) > 2 => Head(Tail(path)) = path[2])
        BY <2>1
      <4>3. Len(path) > 2 => scope[i + 1] # path[2]
        <5> SUFFICES ASSUME Len(path) > 2 PROVE scope[i + 1] # path[2]
          OBVIOUS
        <5>1. PICK k \in 1 .. i : scope[k] = Head(path)
          BY <3>6
        <5>2. k \in DOMAIN scope /\ i + 1 \in DOMAIN scope /\ k < i + 1
          BY <1>2, <3>1
        <5> QED
          BY <5>1, <5>2 DEF LocalPath, StrippedOnce
      <4>4. Relative(Tail(path), scope[i + 1]) = Tail(path)
        <5>1. Len(path) \in Nat
          OBVIOUS
        <5> DEFINE t == Tail(path)
        <5>2. ~ (Len(t) > 1 /\ Head(t) = scope[i + 1])
          <6> HIDE DEF S, Met
          <6>1. Len(t) > 1 => Len(path) > 2
            BY <4>2, <5>1
          <6> QED
            BY <4>2, <4>3, <6>1, Zenon
        <5> HIDE DEF t
        <5>3. Relative(t, scope[i + 1]) = t
          BY <5>2, Zenon DEF Relative
        <5> QED
          BY <5>3 DEF t
      <4> QED
        BY <3>1, <3>2, <4>1, <4>4
    <3> QED
      BY <3>5, <3>6
  <2> HIDE DEF S
  <2>7. 0 .. n \subseteq S
    BY <1>2, <2>5, <2>6, BoundedInduction
  <2>8. n \in S
    BY <1>2, <2>7
  <2>9. at[n] = Tail(path)
    BY <2>2, <2>8 DEF S
  <2> QED
    BY <1>1, <2>4, <2>9
<1> QED
  BY <1>4, <1>5

-----------------------------------------------------------------------------
(* Ways there and back                                                     *)

\* Each model of a path that exists has the relation that the path takes next.
LEMMA AlongAll ==
  ASSUME NEW model \in Models, NEW path \in Seq(Names), Target(model, path) # None
  PROVE  \E at \in [0 .. Len(path) -> Models] :
           /\ Along(model, path) = at /\ at[0] = model
           /\ \A i \in 1 .. Len(path) : \E r \in Relations :
                r = Relation(at[i - 1], path[i]) /\ r.from = at[i - 1] /\ r.name = path[i] /\ r.to = at[i]
<1> DEFINE n == Len(path)
<1>1. PICK at \in [0 .. Len(path) -> Models \union {None}] :
        /\ at[0] = model
        /\ \A i \in 1 .. Len(path) : at[i] = IF Has(at[i - 1], path[i]) THEN Relation(at[i - 1], path[i]).to ELSE None
        /\ Along(model, path) = at
  BY AlongSteps
<1>2. n \in Nat
  OBVIOUS
<1>3. at[n] # None
  BY <1>1 DEF Target
<1>4. ASSUME NEW i \in 1 .. n, at[i] # None
      PROVE  /\ at[i - 1] # None
             /\ \E r \in Relations : r = Relation(at[i - 1], path[i]) /\ r.from = at[i - 1] /\ r.name = path[i] /\ r.to = at[i]
  <2>1. Has(at[i - 1], path[i])
    BY <1>1, <1>4
  <2> DEFINE r == Relation(at[i - 1], path[i])
  <2>2. r \in Relations /\ r.from = at[i - 1] /\ r.name = path[i]
    BY <2>1 DEF Has, Relation
  <2>3. r.to = at[i]
    BY <1>1, <2>1
  <2> HIDE DEF r
  <2>4. r.from \in Models
    BY <2>2, RelationAssumption
  <2> QED
    BY <2>2, <2>3, <2>4, ValueAssumption DEF r
<1> DEFINE S == {i \in 0 .. n : at[n - i] # None}
<1>5. 0 \in S
  BY <1>2, <1>3
<1>6. ASSUME NEW i \in 0 .. n - 1, i \in S PROVE i + 1 \in S
  <2>1. n - i \in 1 .. n /\ (n - i) - 1 = n - (i + 1) /\ i + 1 \in 0 .. n
    BY <1>2
  <2>2. at[(n - i) - 1] # None
    BY <1>4, <1>6, <2>1
  <2> QED
    BY <2>1, <2>2
<1> HIDE DEF S
<1>7. 0 .. n \subseteq S
  BY <1>2, <1>5, <1>6, BoundedInduction
<1>8. ASSUME NEW i \in 0 .. n PROVE at[i] # None
  <2>1. n - i \in 0 .. n /\ n - (n - i) = i
    BY <1>2
  <2>2. n - i \in S
    BY <1>7, <2>1
  <2> QED
    BY <2>1, <2>2 DEF S
<1>9. at \in [0 .. n -> Models]
  BY <1>1, <1>8
<1>10. ASSUME NEW i \in 1 .. n
       PROVE \E r \in Relations : r = Relation(at[i - 1], path[i]) /\ r.from = at[i - 1] /\ r.name = path[i] /\ r.to = at[i]
  <2>1. i \in 0 .. n
    BY <1>2
  <2>2. at[i] # None
    BY <1>8, <2>1
  <2> QED
    BY <1>4, <2>2
<1> QED
  BY <1>1, <1>9, <1>10, Zenon

\* A relation of two rows is known on both sides.
LEMMA BothWays ==
  ASSUME NEW d \in Possible, NEW r \in Relations, NEW a \in Objects, NEW b \in Objects
  PROVE  /\ d.model[a] = r.from /\ <<a, r.name, b>> \in d.edges => d.model[b] = r.to /\ <<b, r.back, a>> \in d.edges
         /\ d.model[b] = r.to /\ <<b, r.back, a>> \in d.edges => d.model[a] = r.from /\ <<a, r.name, b>> \in d.edges
<1>1. \A e \in d.edges : \E s \in Relations : d.model[e[1]] = s.from /\ e[2] = s.name /\ d.model[e[3]] = s.to
  BY DEF Possible
<1>2. \A s \in Relations, x, y \in Objects :
        d.model[x] = s.from /\ <<x, s.name, y>> \in d.edges => <<y, s.back, x>> \in d.edges
  BY DEF Possible
<1>3. ASSUME NEW s \in Relations, NEW x \in Objects, NEW y \in Objects, d.model[x] = s.from, <<x, s.name, y>> \in d.edges
      PROVE  d.model[y] = s.to
  <2>1. PICK t \in Relations : d.model[x] = t.from /\ s.name = t.name /\ d.model[y] = t.to
    BY <1>1, <1>3
  <2>2. t = s
    BY <1>3, <2>1, NameAssumption
  <2> QED
    BY <2>1, <2>2
<1>4. PICK s \in Relations : s.from = r.to /\ s.name = r.back /\ s.to = r.from /\ s.back = r.name
  BY RelationAssumption
<1> QED
  BY <1>2, <1>3, <1>4

\* The rows at the end of a path are those that a chain of rows leads to.
Chain(d, path, x) == \A i \in 1 .. Len(path) : <<x[i - 1], path[i], x[i]>> \in d.edges
\* A row is at the end of a path when a chain of edges leads there.
LEMMA RowsChain ==
  ASSUME NEW d \in Possible, NEW o \in Objects, NEW path \in Seq(Names), NEW c \in Objects
  PROVE  c \in RowsAt(d, o, path) <=>
           \E x \in [0 .. Len(path) -> Objects] : x[0] = o /\ x[Len(path)] = c /\ Chain(d, path, x)
<1> DEFINE n == Len(path)
<1>1. PICK at \in [0 .. Len(path) -> SUBSET Objects] :
        /\ at[0] = {o}
        /\ \A i \in 1 .. Len(path) : at[i] = {b \in Objects : \E a \in at[i - 1] : <<a, path[i], b>> \in d.edges}
        /\ RowsAt(d, o, path) = at[Len(path)]
  BY RowsSteps
<1>2. n \in Nat
  OBVIOUS
<1>3. ASSUME NEW x \in [0 .. n -> Objects], x[0] = o, x[n] = c, Chain(d, path, x) PROVE c \in RowsAt(d, o, path)
  <2> DEFINE S == {i \in 0 .. n : x[i] \in at[i]}
  <2>1. 0 \in S
    BY <1>1, <1>2, <1>3
  <2>2. ASSUME NEW i \in 0 .. n - 1, i \in S PROVE i + 1 \in S
    <3>1. i + 1 \in 1 .. n /\ i + 1 \in 0 .. n /\ (i + 1) - 1 = i /\ i \in 0 .. n
      BY <1>2
    <3>2. <<x[i], path[i + 1], x[i + 1]>> \in d.edges
      BY <1>3, <3>1 DEF Chain
    <3>3. at[i + 1] = {b \in Objects : \E a \in at[i] : <<a, path[i + 1], b>> \in d.edges}
      BY <1>1, <3>1
    <3>4. x[i + 1] \in Objects /\ x[i] \in at[i]
      BY <2>2, <3>1
    <3> QED
      BY <3>1, <3>2, <3>3, <3>4
  <2> HIDE DEF S
  <2>3. 0 .. n \subseteq S
    BY <1>2, <2>1, <2>2, BoundedInduction
  <2>4. n \in S
    BY <1>2, <2>3
  <2> QED
    BY <1>1, <1>3, <2>4 DEF S
<1>4. ASSUME c \in RowsAt(d, o, path)
      PROVE  \E x \in [0 .. n -> Objects] : x[0] = o /\ x[n] = c /\ Chain(d, path, x)
  <2> DEFINE Good(x, i, b) == x[0] = o /\ x[i] = b /\ \A k \in 1 .. i : <<x[k - 1], path[k], x[k]>> \in d.edges
             S == {i \in 0 .. n : \A b \in at[i] : \E x \in [0 .. n -> Objects] : Good(x, i, b)}
  <2>1. 0 \in S
    <3>1. ASSUME NEW b \in at[0] PROVE \E x \in [0 .. n -> Objects] : Good(x, 0, b)
      <4>1. b = o
        BY <1>1, <3>1
      <4> WITNESS [i \in 0 .. n |-> o] \in [0 .. n -> Objects]
      <4> QED
        BY <1>2, <4>1
    <3> QED
      BY <1>2, <3>1
  <2>2. ASSUME NEW i \in 0 .. n - 1, i \in S PROVE i + 1 \in S
    <3>1. i + 1 \in 1 .. n /\ i + 1 \in 0 .. n /\ (i + 1) - 1 = i /\ i \in 0 .. n /\ i + 1 # 0
      BY <1>2
    <3>2. ASSUME NEW b \in at[i + 1] PROVE \E x \in [0 .. n -> Objects] : Good(x, i + 1, b)
      <4>1. at[i + 1] = {z \in Objects : \E a \in at[i] : <<a, path[i + 1], z>> \in d.edges}
        BY <1>1, <3>1
      <4>2. PICK a \in at[i] : <<a, path[i + 1], b>> \in d.edges
        BY <3>2, <4>1
      <4>3. PICK x \in [0 .. n -> Objects] : Good(x, i, a)
        BY <2>2
      <4>4. b \in Objects
        BY <3>2, <4>1
      <4> DEFINE y == [x EXCEPT ![i + 1] = b]
      <4>5. y \in [0 .. n -> Objects]
        BY <4>4
      <4>6. y[i + 1] = b /\ y[0] = o
        BY <3>1, <4>3
      <4>7. ASSUME NEW k \in 1 .. i + 1 PROVE <<y[k - 1], path[k], y[k]>> \in d.edges
        <5>1. k \in 0 .. n /\ k - 1 \in 0 .. n /\ k - 1 # i + 1
          BY <3>1
        <5>2. CASE k = i + 1
          BY <3>1, <4>2, <4>3, <4>6, <5>1, <5>2
        <5>3. CASE k # i + 1
          BY <4>3, <5>1, <5>3
        <5> QED
          BY <5>2, <5>3
      <4> HIDE DEF y
      <4> WITNESS y \in [0 .. n -> Objects]
      <4> QED
        BY <4>6, <4>7
    <3> HIDE DEF Good
    <3> QED
      BY <3>1, <3>2
  <2> HIDE DEF S
  <2>3. 0 .. n \subseteq S
    BY <1>2, <2>1, <2>2, BoundedInduction
  <2>4. n \in S
    BY <1>2, <2>3
  <2>5. PICK x \in [0 .. n -> Objects] : Good(x, n, c)
    <3> HIDE DEF Good
    <3> QED
      BY <1>1, <1>4, <2>4 DEF S
  <2> QED
    BY <2>5 DEF Chain
<1> QED
  BY <1>3, <1>4

\* The models of the rows of a chain are those along the path.
LEMMA ChainModels ==
  ASSUME NEW d \in Possible, NEW path \in Seq(Names), NEW x \in [0 .. Len(path) -> Objects], Chain(d, path, x),
         NEW at \in [0 .. Len(path) -> Models], at[0] = d.model[x[0]],
         \A i \in 1 .. Len(path) : \E r \in Relations : r.from = at[i - 1] /\ r.name = path[i] /\ r.to = at[i]
  PROVE  \A i \in 0 .. Len(path) : d.model[x[i]] = at[i]
<1> DEFINE n == Len(path)
           S == {i \in 0 .. n : d.model[x[i]] = at[i]}
<1>1. n \in Nat
  OBVIOUS
<1>2. 0 \in S
  BY <1>1
<1>3. ASSUME NEW i \in 0 .. n - 1, i \in S PROVE i + 1 \in S
  <2>1. i + 1 \in 1 .. n /\ i + 1 \in 0 .. n /\ (i + 1) - 1 = i /\ i \in 0 .. n
    BY <1>1
  <2>2. PICK r \in Relations : r.from = at[i] /\ r.name = path[i + 1] /\ r.to = at[i + 1]
    BY <2>1
  <2>3. <<x[i], path[i + 1], x[i + 1]>> \in d.edges
    BY <2>1 DEF Chain
  <2>4. x[i] \in Objects /\ x[i + 1] \in Objects /\ d.model[x[i]] = at[i]
    BY <1>3, <2>1
  <2>5. d.model[x[i + 1]] = r.to
    <3>1. <<x[i], r.name, x[i + 1]>> \in d.edges /\ d.model[x[i]] = r.from
      BY <2>2, <2>3, <2>4
    <3> QED
      BY <2>4, <3>1, BothWays
  <2> QED
    BY <2>1, <2>2, <2>5
<1> HIDE DEF S
<1>4. 0 .. n \subseteq S
  BY <1>1, <1>2, <1>3, BoundedInduction
<1> QED
  BY <1>4 DEF S

\* The subquery of a lambda finds the rows at the end of the path to its owner, though it
\* looks for them from the other end.
THEOREM RelatedRows ==
  ASSUME NEW d \in Possible, NEW o \in Objects, NEW path \in Seq(Names), Target(d.model[o], path) # None
  PROVE  /\ Related(d, o, path) = RowsAt(d, o, path)
         /\ \A c \in RowsAt(d, o, path) : c \in Objects /\ d.model[c] = Target(d.model[o], path)
<1> DEFINE n == Len(path)
           m == d.model[o]
           back == Reversed(m, path)
<1>1. n \in Nat /\ m \in Models
  BY DEF Possible
<1> HIDE DEF m
<1>2. PICK at \in [0 .. Len(path) -> Models] :
        /\ Along(m, path) = at /\ at[0] = m
        /\ \A i \in 1 .. Len(path) : \E r \in Relations :
             r = Relation(at[i - 1], path[i]) /\ r.from = at[i - 1] /\ r.name = path[i] /\ r.to = at[i]
  BY <1>1, AlongAll DEF m
<1>3. back = [i \in 1 .. n |-> Relation(at[n - i], path[n - i + 1]).back]
  BY <1>2 DEF Reversed
<1> HIDE DEF back
<1>4. ASSUME NEW i \in 1 .. n
      PROVE  /\ n - i \in 0 .. n - 1 /\ n - i + 1 \in 1 .. n /\ (n - i + 1) - 1 = n - i
             /\ \E r \in Relations : r.from = at[n - i] /\ r.name = path[n - i + 1] /\ r.to = at[n - i + 1] /\ r.back = back[i]
  <2>1. n - i \in 0 .. n - 1 /\ n - i + 1 \in 1 .. n /\ (n - i + 1) - 1 = n - i
    BY <1>1
  <2>2. PICK r \in Relations : r = Relation(at[n - i], path[n - i + 1]) /\ r.from = at[n - i]
                               /\ r.name = path[n - i + 1] /\ r.to = at[n - i + 1]
    BY <1>2, <2>1
  <2>3. back[i] = r.back
    BY <1>3, <2>2
  <2> QED
    BY <2>1, <2>2, <2>3
<1>5. back \in Seq(Names) /\ Len(back) = n
  <2>1. ASSUME NEW i \in 1 .. n PROVE back[i] \in Names
    <3>1. PICK r \in Relations : r.back = back[i]
      BY <1>4
    <3> QED
      BY <3>1, RelationAssumption
  <2>2. DOMAIN back = 1 .. n
    BY <1>3
  <2>3. back = [i \in 1 .. n |-> back[i]]
    BY <1>3
  <2>4. back \in [1 .. n -> Names]
    BY <2>1, <2>2, <2>3
  <2>5. back \in Seq(Names)
    BY <1>1, <2>4
  <2> QED
    BY <1>1, <2>2, <2>5
<1>6. Target(m, path) = at[n]
  BY <1>2 DEF Target
<1>7. ASSUME NEW c \in RowsAt(d, o, path) PROVE c \in Related(d, o, path) /\ c \in Objects /\ d.model[c] = at[n]
  <2>1. c \in Objects
    BY RowsTyped
  <2>2. PICK x \in [0 .. n -> Objects] : x[0] = o /\ x[n] = c /\ Chain(d, path, x)
    BY <2>1, RowsChain
  <2>3. at[0] = d.model[x[0]]
    BY <1>2, <2>2 DEF m
  <2>4. \A i \in 0 .. n : d.model[x[i]] = at[i]
    BY <1>2, <2>2, <2>3, ChainModels
  <2> DEFINE y == [j \in 0 .. n |-> x[n - j]]
  <2>5. y \in [0 .. n -> Objects] /\ y[0] = c /\ y[n] = o
    BY <1>1, <2>2
  <2>6. Chain(d, back, y)
    <3>1. ASSUME NEW i \in 1 .. n PROVE <<y[i - 1], back[i], y[i]>> \in d.edges
      <4>1. n - i \in 0 .. n - 1 /\ n - i + 1 \in 1 .. n /\ (n - i + 1) - 1 = n - i
        BY <1>4
      <4>2. PICK r \in Relations : r.from = at[n - i] /\ r.name = path[n - i + 1] /\ r.to = at[n - i + 1] /\ r.back = back[i]
        BY <1>4
      <4>3. y[i - 1] = x[n - i + 1] /\ y[i] = x[n - i] /\ n - i \in 0 .. n /\ n - i + 1 \in 0 .. n
        BY <1>1
      <4>4. <<x[n - i], path[n - i + 1], x[n - i + 1]>> \in d.edges
        BY <2>2, <4>1 DEF Chain
      <4>5. d.model[x[n - i]] = r.from
        BY <2>4, <4>2, <4>3
      <4>6. x[n - i] \in Objects /\ x[n - i + 1] \in Objects
        BY <4>3
      <4>7. <<x[n - i + 1], r.back, x[n - i]>> \in d.edges
        <5> HIDE DEF y
        <5> QED
          BY <4>2, <4>4, <4>5, <4>6, BothWays
      <4> QED
        BY <4>2, <4>3, <4>7
    <3> QED
      BY <1>5, <3>1 DEF Chain
  <2> HIDE DEF y
  <2>7. o \in RowsAt(d, c, back)
    BY <1>5, <2>1, <2>5, <2>6, RowsChain
  <2>8. d.model[c] = at[n]
    BY <1>1, <2>2, <2>4
  <2> QED
    BY <1>6, <2>1, <2>7, <2>8 DEF Related, back, m
<1>8. ASSUME NEW c \in Related(d, o, path) PROVE c \in RowsAt(d, o, path)
  <2>1. c \in Objects /\ d.model[c] = at[n] /\ o \in RowsAt(d, c, back)
    BY <1>6 DEF Related, back, m
  <2>2. PICK y \in [0 .. n -> Objects] : y[0] = c /\ y[n] = o /\ Chain(d, back, y)
    BY <1>5, <2>1, RowsChain
  <2> DEFINE ta == [j \in 0 .. n |-> at[n - j]]
             x == [j \in 0 .. n |-> y[n - j]]
  <2>3. ta \in [0 .. n -> Models] /\ ta[0] = d.model[y[0]]
    BY <1>1, <2>1, <2>2
  <2>4. ASSUME NEW i \in 1 .. n PROVE \E r \in Relations : r.from = ta[i - 1] /\ r.name = back[i] /\ r.to = ta[i]
    <3>1. PICK r \in Relations : r.from = at[n - i] /\ r.name = path[n - i + 1] /\ r.to = at[n - i + 1] /\ r.back = back[i]
      BY <1>4
    <3>2. PICK s \in Relations : s.from = r.to /\ s.name = r.back /\ s.to = r.from /\ s.back = r.name
      BY RelationAssumption
    <3>3. ta[i - 1] = at[n - i + 1] /\ ta[i] = at[n - i]
      BY <1>1
    <3> QED
      BY <3>1, <3>2, <3>3
  <2> HIDE DEF ta
  <2>5. \A i \in 0 .. n : d.model[y[i]] = ta[i]
    <3>1. /\ y \in [0 .. Len(back) -> Objects] /\ Chain(d, back, y)
          /\ ta \in [0 .. Len(back) -> Models] /\ ta[0] = d.model[y[0]]
          /\ \A i \in 1 .. Len(back) : \E r \in Relations : r.from = ta[i - 1] /\ r.name = back[i] /\ r.to = ta[i]
      BY <1>5, <2>2, <2>3, <2>4
    <3>2. \A i \in 0 .. Len(back) : d.model[y[i]] = ta[i]
      <4> HIDE DEF n
      <4> QED
        BY <1>5, <3>1, ChainModels
    <3> QED
      BY <1>5, <3>2
  <2>6. x \in [0 .. n -> Objects] /\ x[0] = o /\ x[n] = c
    BY <1>1, <2>2
  <2>7. Chain(d, path, x)
    <3>1. ASSUME NEW i \in 1 .. n PROVE <<x[i - 1], path[i], x[i]>> \in d.edges
      <4> DEFINE j == n - i + 1
      <4>1. j \in 1 .. n /\ n - j = i - 1 /\ n - j + 1 = i /\ i - 1 \in 0 .. n /\ j \in 0 .. n /\ j - 1 \in 0 .. n /\ j - 1 = n - i
        BY <1>1
      <4>2. x[i - 1] = y[j] /\ x[i] = y[j - 1] /\ y[j] \in Objects /\ y[j - 1] \in Objects
        <5>1. n - (i - 1) = j /\ n - i = j - 1 /\ i \in 0 .. n
          BY <1>1
        <5>2. x[i - 1] = y[n - (i - 1)] /\ x[i] = y[n - i]
          BY <4>1, <5>1
        <5> HIDE DEF j, x
        <5> QED
          BY <4>1, <5>1, <5>2
      <4> HIDE DEF j
      <4>3. PICK r \in Relations : r.from = at[i - 1] /\ r.name = path[i] /\ r.to = at[i] /\ r.back = back[j]
        <5>1. \E r \in Relations : /\ r.from = at[n - j] /\ r.name = path[n - j + 1]
                                   /\ r.to = at[n - j + 1] /\ r.back = back[j]
          BY <1>4, <4>1, Zenon
        <5> HIDE DEF x, back, n
        <5> QED
          BY <4>1, <5>1
      <4>4. <<y[j - 1], back[j], y[j]>> \in d.edges
        BY <1>5, <2>2, <4>1 DEF Chain
      <4>5. d.model[y[j - 1]] = at[i]
        BY <1>1, <2>5, <4>1 DEF ta
      <4>6. <<y[j], r.name, y[j - 1]>> \in d.edges
        <5> HIDE DEF x
        <5> QED
          BY <4>2, <4>3, <4>4, <4>5, BothWays
      <4> QED
        BY <4>2, <4>3, <4>6
    <3> QED
      BY <3>1 DEF Chain
  <2> HIDE DEF x
  <2> QED
    BY <2>1, <2>6, <2>7, RowsChain
<1> QED
  BY <1>6, <1>7, <1>8 DEF m

\* A field at the end of relations to one row each has a value, when there are no nulls.
LEMMA ForwardValue ==
  ASSUME NEW d \in Possible, NEW o \in Objects, NEW path \in Seq(Names), path # <<>>, NoNulls(d),
         ValuePath(d.model[o], path),
         \A i \in 1 .. Len(path) - 1, r \in Relations : r.name = path[i] => r.one
  PROVE  ValueAt(d, o, path) # Null
<1> DEFINE front == Front(path)
           n == Len(front)
           m == d.model[o]
<1>1. front \in Seq(Names) /\ n = Len(path) - 1 /\ n \in Nat /\ m \in Models
      /\ \A i \in 1 .. n : front[i] = path[i]
  BY FrontTyped DEF Possible
<1>2. Target(m, front) # None /\ Last(path) \in Fields
  BY DEF ValuePath
<1> HIDE DEF front, m
<1>3. PICK at \in [0 .. Len(front) -> Models] :
        /\ Along(m, front) = at /\ at[0] = m
        /\ \A i \in 1 .. Len(front) : \E r \in Relations :
             r = Relation(at[i - 1], front[i]) /\ r.from = at[i - 1] /\ r.name = front[i] /\ r.to = at[i]
  BY <1>1, <1>2, AlongAll
<1>4. PICK rows \in [0 .. Len(front) -> SUBSET Objects] :
        /\ rows[0] = {o}
        /\ \A i \in 1 .. Len(front) : rows[i] = {b \in Objects : \E a \in rows[i - 1] : <<a, front[i], b>> \in d.edges}
        /\ RowsAt(d, o, front) = rows[Len(front)]
  BY <1>1, RowsSteps
<1> DEFINE S == {i \in 0 .. n : \E a \in rows[i] : d.model[a] = at[i]}
<1>5. 0 \in S
  BY <1>1, <1>3, <1>4 DEF m
<1>6. ASSUME NEW i \in 0 .. n - 1, i \in S PROVE i + 1 \in S
  <2>1. i + 1 \in 1 .. n /\ i + 1 \in 0 .. n /\ (i + 1) - 1 = i /\ i \in 0 .. n
    BY <1>1
  <2>2. PICK a \in rows[i] : d.model[a] = at[i]
    BY <1>6
  <2>3. a \in Objects
    BY <1>4, <2>1
  <2>4. PICK r \in Relations : r.from = at[i] /\ r.name = front[i + 1] /\ r.to = at[i + 1]
    BY <1>3, <2>1
  <2>5. r.one
    <3>1. i + 1 \in 1 .. Len(path) - 1 /\ r.name = path[i + 1]
      BY <1>1, <2>1, <2>4
    <3> QED
      BY <3>1
  <2>6. PICK b \in Objects : <<a, r.name, b>> \in d.edges
    BY <2>2, <2>3, <2>4, <2>5 DEF NoNulls
  <2>7. d.model[b] = at[i + 1]
    <3>1. d.model[a] = r.from
      BY <2>2, <2>4
    <3>2. d.model[b] = r.to
      BY <2>3, <2>6, <3>1, BothWays
    <3> QED
      BY <2>4, <3>2
  <2>8. rows[i + 1] = {z \in Objects : \E y \in rows[i] : <<y, front[i + 1], z>> \in d.edges}
    BY <1>4, <2>1
  <2>9. b \in rows[i + 1]
    BY <2>2, <2>4, <2>6, <2>8
  <2> QED
    BY <2>1, <2>7, <2>9
<1> HIDE DEF S
<1>7. 0 .. n \subseteq S
  BY <1>1, <1>5, <1>6, BoundedInduction
<1>8. n \in S
  BY <1>1, <1>7
<1>9. RowsAt(d, o, front) # {} /\ RowsAt(d, o, front) \in SUBSET Objects
  BY <1>1, <1>4, <1>8, RowsTyped DEF S
<1> DEFINE c == CHOOSE x \in RowsAt(d, o, front) : TRUE
<1>10. c \in Objects
  BY <1>9
<1>11. ValueAt(d, o, path) = d.value[c][Last(path)]
  BY <1>2, <1>9 DEF ValueAt, front
<1> HIDE DEF c
<1> QED
  BY <1>2, <1>10, <1>11 DEF NoNulls

-----------------------------------------------------------------------------
(* Values                                                                  *)

\* What holds of every place of a node holds of its own and of those of its parts.
LEMMA LocalParts ==
  ASSUME NEW f \in Nodes, NEW scope \in Seq(Names), Local(f, scope)
  PROVE  /\ f.kind = "Field" => LocalPath(scope, f.path)
         /\ f.kind = "Lambda" => LocalPath(scope, f.owner)
         /\ \A i \in DOMAIN Parts(f) : Local(Parts(f)[i], Inner(f, scope))
<1> DEFINE Ok(place) == /\ place[1].kind = "Field" => LocalPath(place[2], place[1].path)
                        /\ place[1].kind = "Lambda" => LocalPath(place[2], place[1].owner)
<1>1. \A place \in Placed(f, scope) : Ok(place)
  BY DEF Local
<1>2. Ok(<<f, scope>>)
  <2> HIDE DEF Ok
  <2> QED
    BY <1>1, PlacedRule
<1>3. ASSUME NEW i \in DOMAIN Parts(f) PROVE \A place \in Placed(Parts(f)[i], Inner(f, scope)) : Ok(place)
  <2> HIDE DEF Ok
  <2> QED
    BY <1>1, PlacedRule
<1> QED
  BY <1>2, <1>3 DEF Local

\* The parts of a filter that reads forward read forward.
LEMMA ForwardParts ==
  ASSUME NEW f \in Nodes, NEW scope \in Seq(Names), Forward(f, scope)
  PROVE  /\ f.kind = "Field" =>
              \A i \in 1 .. Len(Stripped(scope, f.path)) - 1, r \in Relations : r.name = Stripped(scope, f.path)[i] => r.one
         /\ \A i \in DOMAIN Parts(f) : Forward(Parts(f)[i], Inner(f, scope))
<1> DEFINE Ok(place) == place[1].kind = "Field" =>
             LET path == Stripped(place[2], place[1].path)
             IN  \A i \in 1 .. Len(path) - 1, r \in Relations : r.name = path[i] => r.one
<1>1. \A place \in Placed(f, scope) : Ok(place)
  BY DEF Forward
<1>2. Ok(<<f, scope>>)
  <2> HIDE DEF Ok
  <2> QED
    BY <1>1, PlacedRule
<1>3. ASSUME NEW i \in DOMAIN Parts(f) PROVE \A place \in Placed(Parts(f)[i], Inner(f, scope)) : Ok(place)
  <2> HIDE DEF Ok
  <2> QED
    BY <1>1, PlacedRule
<1> QED
  BY <1>2, <1>3 DEF Forward

\* The parts of a filter without negation have none.
LEMMA PositiveParts ==
  ASSUME NEW f \in Nodes, NEW scope \in Seq(Names), Positive(f, scope)
  PROVE  /\ f.kind # "Not"
         /\ \A i \in DOMAIN Parts(f) : Positive(Parts(f)[i], Inner(f, scope))
<1> DEFINE Ok(place) == place[1].kind # "Not"
<1>1. \A place \in Placed(f, scope) : Ok(place)
  BY DEF Positive
<1>2. Ok(<<f, scope>>)
  <2> HIDE DEF Ok
  <2> QED
    BY <1>1, PlacedRule
<1>3. ASSUME NEW i \in DOMAIN Parts(f) PROVE \A place \in Placed(Parts(f)[i], Inner(f, scope)) : Ok(place)
  <2> HIDE DEF Ok
  <2> QED
    BY <1>1, PlacedRule
<1> QED
  BY <1>2, <1>3 DEF Positive

\* The parts of a filter without all() have none.
LEMMA OnlyAnyParts ==
  ASSUME NEW f \in Nodes, NEW scope \in Seq(Names), OnlyAny(f, scope)
  PROVE  /\ f.kind = "Lambda" => f.op = "any"
         /\ \A i \in DOMAIN Parts(f) : OnlyAny(Parts(f)[i], Inner(f, scope))
<1> DEFINE Ok(place) == place[1].kind = "Lambda" => place[1].op = "any"
<1>1. \A place \in Placed(f, scope) : Ok(place)
  BY DEF OnlyAny
<1>2. Ok(<<f, scope>>)
  <2> HIDE DEF Ok
  <2> QED
    BY <1>1, PlacedRule
<1>3. ASSUME NEW i \in DOMAIN Parts(f) PROVE \A place \in Placed(Parts(f)[i], Inner(f, scope)) : Ok(place)
  <2> HIDE DEF Ok
  <2> QED
    BY <1>1, PlacedRule
<1> QED
  BY <1>2, <1>3 DEF OnlyAny

\* The filters whose meaning the translation keeps: without nulls in the way, and with them
Forwards(f, scope) == Forward(f, scope) /\ OnlyAny(f, scope)
Affirms(f, scope) == Positive(f, scope) /\ OnlyAny(f, scope)

\* Their parts are of the same kind.
LEMMA ForwardsParts ==
  ASSUME NEW f \in Nodes, NEW scope \in Seq(Names), Forwards(f, scope)
  PROVE  /\ f.kind = "Lambda" => f.op = "any"
         /\ \A i \in DOMAIN Parts(f) : Forwards(Parts(f)[i], Inner(f, scope))
BY ForwardParts, OnlyAnyParts, Zenon DEF Forwards
LEMMA AffirmsParts ==
  ASSUME NEW f \in Nodes, NEW scope \in Seq(Names), Affirms(f, scope)
  PROVE  /\ f.kind # "Not" /\ (f.kind = "Lambda" => f.op = "any")
         /\ \A i \in DOMAIN Parts(f) : Affirms(Parts(f)[i], Inner(f, scope))
BY PositiveParts, OnlyAnyParts, Zenon DEF Affirms

\* The parts of a careful filter are careful.
LEMMA CarefulParts ==
  ASSUME NEW f \in Nodes, NEW scope \in Seq(Names), Careful(f, scope)
  PROVE  /\ ~ NullTest(f)
         /\ f.kind = "Not" => NoLambda(f.operand, scope)
         /\ f.kind = "Lambda" => f.op = "any"
         /\ \A i \in DOMAIN Parts(f) : Careful(Parts(f)[i], Inner(f, scope))
<1> DEFINE Ok(place) == /\ ~ NullTest(place[1])
                        /\ place[1].kind = "Not" => NoLambda(place[1].operand, place[2])
                        /\ place[1].kind = "Lambda" => place[1].op = "any"
<1>1. \A place \in Placed(f, scope) : Ok(place)
  BY DEF Careful
<1>2. Ok(<<f, scope>>)
  <2> HIDE DEF Ok
  <2> QED
    BY <1>1, PlacedRule
<1>3. ASSUME NEW i \in DOMAIN Parts(f) PROVE \A place \in Placed(Parts(f)[i], Inner(f, scope)) : Ok(place)
  <2> HIDE DEF Ok
  <2> QED
    BY <1>1, PlacedRule
<1> QED
  BY <1>2, <1>3 DEF Careful

\* The parts of a filter without lambdas have none.
LEMMA NoLambdaParts ==
  ASSUME NEW f \in Nodes, NEW scope \in Seq(Names), NoLambda(f, scope)
  PROVE  f.kind # "Lambda" /\ \A i \in DOMAIN Parts(f) : NoLambda(Parts(f)[i], Inner(f, scope))
<1> DEFINE Ok(place) == place[1].kind # "Lambda"
<1>1. \A place \in Placed(f, scope) : Ok(place)
  BY DEF NoLambda
<1>2. Ok(<<f, scope>>)
  <2> HIDE DEF Ok
  <2> QED
    BY <1>1, PlacedRule
<1>3. ASSUME NEW i \in DOMAIN Parts(f) PROVE \A place \in Placed(Parts(f)[i], Inner(f, scope)) : Ok(place)
  <2> HIDE DEF Ok
  <2> QED
    BY <1>1, PlacedRule
<1> QED
  BY <1>2, <1>3 DEF NoLambda

\* The database, which counts characters from 1, computes what the functions mean.
LEMMA FunctionMeant ==
  ASSUME NEW func \in Functions, NEW xs, NEW n \in Arguments(func), DOMAIN xs = 1 .. n, Len(xs) = n,
         \A i \in 1 .. n : xs[i] \in Int
  PROVE  Function(func, xs) = Meant(func, xs)
<1>1. CASE func = "indexof"
  <2>1. n = 2
    BY <1>1 DEF Arguments
  <2>2. xs[1] \in Int /\ xs[2] \in Int
    BY <2>1
  <2>3. (\E i \in 0 .. xs[1] : xs[2] \in 0 .. xs[1] - i) <=> xs[2] \in 0 .. xs[1]
    <3>1. xs[2] \in 0 .. xs[1] => 0 \in 0 .. xs[1] /\ xs[2] \in 0 .. xs[1] - 0
      BY <2>2
    <3>2. ASSUME NEW i \in 0 .. xs[1], xs[2] \in 0 .. xs[1] - i PROVE xs[2] \in 0 .. xs[1]
      BY <2>2, <3>2
    <3> QED
      BY <3>1, <3>2
  <2> QED
    BY <1>1, <2>3 DEF Function, Meant, StrIndex
<1>2. CASE func = "substring"
  <2>1. n \in {2, 3}
    BY <1>2 DEF Arguments, Unary, Lookups
  <2>2. xs[1] \in Int /\ xs[2] \in Int /\ (n = 3 => xs[3] \in Int)
    BY <2>1
  <2>3. PICK s \in Int : s = xs[1]
    BY <2>2
  <2>4. PICK p \in Int : p = xs[2]
    BY <2>2
  <2>5. PICK last \in Int : last = IF n = 3 THEN xs[2] + xs[3] ELSE xs[1]
    BY <2>2
  <2> DEFINE C == {i \in 0 .. xs[1] - 1 : i >= xs[2] /\ (Len(xs) = 3 => i < xs[2] + xs[3])}
             from == Greatest(p, 0)
             to == Least(s, last) - 1
  <2>6. from \in Int /\ to \in Int
    BY DEF Greatest, Least
  <2>7. C = from .. to
    <3>1. ASSUME NEW i \in Int PROVE i \in C <=> 0 <= i /\ i <= s - 1 /\ i >= p /\ (n = 3 => i < last)
      BY <2>2, <2>3, <2>4, <2>5
    <3>2. ASSUME NEW i \in Int PROVE i \in from .. to <=> 0 <= i /\ p <= i /\ i <= s - 1 /\ i <= last - 1
      BY DEF Greatest, Least
    <3>3. n # 3 => last = s
      BY <2>3, <2>5
    <3>4. ASSUME NEW i \in Int PROVE i \in C <=> i \in from .. to
      <4> HIDE DEF C, from, to
      <4> QED
        BY <3>1, <3>2, <3>3
    <3>5. C \subseteq Int /\ from .. to \subseteq Int
      OBVIOUS
    <3> HIDE DEF C, from, to
    <3> QED
      BY <3>4, <3>5
  <2>8. Meant(func, xs) = Cardinality(C)
    BY <1>2 DEF Meant
  <2>9. Function(func, xs) = Substr(s, p + 1, last)
    BY <1>2, <2>3, <2>4, <2>5 DEF Function
  <2>10. Substr(s, p + 1, last) = IF from > to THEN 0 ELSE to - from + 1
    BY DEF Substr, Greatest, Least
  <2> HIDE DEF C, from, to
  <2>11. Cardinality(from .. to) = IF from > to THEN 0 ELSE to - from + 1
    BY <2>6, FS_Interval
  <2> QED
    BY <2>7, <2>8, <2>9, <2>10, <2>11
<1>3. CASE func # "indexof" /\ func # "substring"
  BY <1>3 DEF Function, Meant
<1> QED
  BY <1>1, <1>2, <1>3

\* An expression comes to the value it denotes.
THEOREM SameValue ==
  ASSUME NEW d \in Possible, NEW scope \in Seq(Names), NEW env \in [Names -> Objects \union {None}],
         NEW row \in Objects, NEW here \in Objects, Context(scope, env, row, here),
         NEW e \in Nodes, Local(e, scope)
  PROVE  Computed(d, scope, here, e) = Denoted(d, env, row, e)
<1> DEFINE S == {g \in Nodes : Local(g, scope) => Computed(d, scope, here, g) = Denoted(d, env, row, g)}
<1>1. ASSUME NEW g \in Nodes, \A i \in DOMAIN Parts(g) : Parts(g)[i] \in S PROVE g \in S
  <2> SUFFICES ASSUME Local(g, scope) PROVE Computed(d, scope, here, g) = Denoted(d, env, row, g)
    OBVIOUS
  <2> DEFINE c == [h \in Nodes |-> Computed(d, scope, here, h)]
             b == [h \in Nodes |-> Denoted(d, env, row, h)]
             xs == [i \in DOMAIN Parts(g) |-> c[Parts(g)[i]]]
             ys == [i \in DOMAIN Parts(g) |-> b[Parts(g)[i]]]
  <2>1. Computed(d, scope, here, g) = ComputedNode(d, scope, here, g, c)
        /\ Denoted(d, env, row, g) = DenotedNode(d, env, row, g, b)
    <3> HIDE DEF S
    <3> QED
      BY ComputedRule, DenotedRule
  <2>2. CASE g.kind = "Field"
    <3>1. g.path \in Seq(Names) /\ g.path # <<>>
      BY <2>2, NodeShape DEF Shaped
    <3>2. LocalPath(scope, g.path)
      BY <2>2, LocalParts
    <3>3. Stripped(scope, g.path) = Rest(env, g.path) /\ Start(env, row, g.path) = here
      <4> HIDE DEF S
      <4> QED
        BY <3>1, <3>2, LocalSplit, ValueAssumption
    <3>4. ComputedNode(d, scope, here, g, c) = ValueAt(d, here, Stripped(scope, g.path))
          /\ DenotedNode(d, env, row, g, b) = ValueAt(d, Start(env, row, g.path), Rest(env, g.path))
      BY <2>2 DEF ComputedNode, DenotedNode
    <3> QED
      BY <2>1, <3>3, <3>4
  <2>3. CASE g.kind = "Literal"
    <3>1. ComputedNode(d, scope, here, g, c) = g.value /\ DenotedNode(d, env, row, g, b) = g.value
      BY <2>3 DEF ComputedNode, DenotedNode
    <3> QED
      BY <2>1, <3>1
  <2>4. CASE g.kind \notin {"Field", "Literal"} /\ ~ Computes(g)
    <3>1. ComputedNode(d, scope, here, g, c) = Null /\ DenotedNode(d, env, row, g, b) = Null
      BY <2>4 DEF ComputedNode, DenotedNode
    <3> QED
      BY <2>1, <3>1
  <2>5. CASE g.kind \notin {"Field", "Literal"} /\ Computes(g)
    <3>1. g.kind # "Lambda"
      BY <2>5 DEF Computes
    <3>2. Inner(g, scope) = scope
      BY <3>1 DEF Inner
    <3>3. ASSUME NEW i \in DOMAIN Parts(g) PROVE c[Parts(g)[i]] = b[Parts(g)[i]]
      <4>1. Local(Parts(g)[i], scope) /\ Parts(g)[i] \in S /\ Parts(g)[i] \in Nodes
        BY <1>1, <3>2, LocalParts
      <4> QED
        BY <4>1
    <3>4. xs = ys
      BY <3>3
    <3>5. ComputedNode(d, scope, here, g, c)
            = IF \E i \in DOMAIN xs : xs[i] = Null THEN Null
              ELSE IF g.kind = "BinOp" THEN Arithmetic(g.op, xs[1], xs[2]) ELSE Function(g.func, xs)
      <4>1. g.kind # "Field" /\ g.kind # "Literal" /\ Computes(g)
        BY <2>5
      <4> DEFINE nulls == \E i \in DOMAIN xs : xs[i] = Null
                 value == IF g.kind = "BinOp" THEN Arithmetic(g.op, xs[1], xs[2]) ELSE Function(g.func, xs)
                 first == ValueAt(d, here, Stripped(scope, g.path))
      <4>2. ComputedNode(d, scope, here, g, c)
              = IF g.kind = "Field" THEN first ELSE IF g.kind = "Literal" THEN g.value
                ELSE IF ~ Computes(g) \/ nulls THEN Null ELSE value
        BY DEF ComputedNode
      <4> HIDE DEF nulls, value, first
      <4>3. ComputedNode(d, scope, here, g, c) = IF nulls THEN Null ELSE value
        BY <4>1, <4>2
      <4> QED
        BY <4>3 DEF nulls, value
    <3>6. DenotedNode(d, env, row, g, b)
            = IF \E i \in DOMAIN ys : ys[i] = Null THEN Null
              ELSE IF g.kind = "BinOp" THEN Arithmetic(g.op, ys[1], ys[2]) ELSE Meant(g.func, ys)
      <4>1. g.kind # "Field" /\ g.kind # "Literal" /\ Computes(g)
        BY <2>5
      <4> DEFINE nulls == \E i \in DOMAIN ys : ys[i] = Null
                 value == IF g.kind = "BinOp" THEN Arithmetic(g.op, ys[1], ys[2]) ELSE Meant(g.func, ys)
                 first == ValueAt(d, Start(env, row, g.path), Rest(env, g.path))
      <4>2. DenotedNode(d, env, row, g, b)
              = IF g.kind = "Field" THEN first ELSE IF g.kind = "Literal" THEN g.value
                ELSE IF ~ Computes(g) \/ nulls THEN Null ELSE value
        BY DEF DenotedNode
      <4> HIDE DEF nulls, value, first
      <4>3. DenotedNode(d, env, row, g, b) = IF nulls THEN Null ELSE value
        BY <4>1, <4>2
      <4> QED
        BY <4>3 DEF nulls, value
    <3>7. ASSUME g.kind # "BinOp", \A i \in DOMAIN xs : xs[i] # Null PROVE Function(g.func, xs) = Meant(g.func, xs)
      <4>1. g.kind = "Call" /\ g.func \in Functions
        BY <2>5, <3>7 DEF Computes
      <4>2. \A i \in DOMAIN Parts(g) : c[Parts(g)[i]] \in Int \union {Null}
        <5> HIDE DEF S
        <5> QED
          BY ComputedRule, NodeShape
      <4> HIDE DEF S, c, xs
      <4>3. PICK n \in Arguments(g.func) : n \in Nat /\ DOMAIN xs = 1 .. n /\ Len(xs) = n /\ \A i \in 1 .. n : xs[i] \in Int
        BY <2>5, <3>7, <4>1, <4>2, PartsValues DEF xs
      <4> QED
        BY <4>1, <4>3, FunctionMeant
    <3> HIDE DEF c, b, xs, ys
    <3> QED
      BY <2>1, <3>4, <3>5, <3>6, <3>7
  <2> QED
    BY <2>2, <2>3, <2>4, <2>5
<1> HIDE DEF S
<1>2. \A g \in Nodes : g \in S
  BY <1>1, NodeInduction
<1> QED
  BY <1>2 DEF S

-----------------------------------------------------------------------------
(* Conditions                                                              *)

\* A condition that was translated for the model of a row, and the row it is asked about.
Reads(d, f, scope, env, row, here) ==
  /\ scope \in Seq(Names) /\ env \in [Names -> Objects \union {None}] /\ row \in Objects /\ here \in Objects
  /\ Context(scope, env, row, here) /\ Local(f, scope)
  /\ IsTest(f) /\ ~ Bare(f) /\ Translated(d.model[here], scope, f) = "fine"

\* The parts of a condition are read in the same place, or are values.
LEMMA ReadsParts ==
  ASSUME NEW d \in Possible, NEW f \in Nodes, NEW scope, NEW env, NEW row, NEW here,
         Reads(d, f, scope, env, row, here), f.kind \in {"Not", "BoolOp"}
  PROVE  /\ Inner(f, scope) = scope
         /\ \A i \in DOMAIN Parts(f) : Reads(d, Parts(f)[i], scope, env, row, here)
<1> USE DEF Reads
<1>1. Inner(f, scope) = scope
  BY DEF Inner
<1>2. d.model[here] \in Models
  BY DEF Possible
<1>3. ~ NullTest(f) /\ f.kind # "Lambda"
  BY DEF NullTest
<1>4. ASSUME NEW i \in DOMAIN Parts(f) PROVE Reads(d, Parts(f)[i], scope, env, row, here)
  <2>1. Local(Parts(f)[i], scope)
    BY <1>1, LocalParts
  <2>2. ~ Bare(Parts(f)[i])
    BY BareRule
  <2>3. Parts(f)[i] \in Nodes
    BY NodeShape
  <2>4. Parts(f)[i].kind # "Field"
    BY <2>2, <2>3, BareRule
  <2>5. IsTest(Parts(f)[i])
    BY <2>4, NodeShape DEF Typed
  <2>6. Translated(d.model[here], scope, Parts(f)[i]) = "fine"
    BY <1>2, <1>3, FineWhen
  <2> QED
    BY <2>1, <2>2, <2>5, <2>6
<1> QED
  BY <1>1, <1>4

\* The rows of a lambda's subquery are those its owner stands for, and its body is read there.
LEMMA ReadsBody ==
  ASSUME NEW d \in Possible, NEW f \in Nodes, NEW scope, NEW env, NEW row, NEW here,
         Reads(d, f, scope, env, row, here), f.kind = "Lambda"
  PROVE  LET items == RowsAt(d, Start(env, row, f.owner), Rest(env, f.owner))
         IN  /\ Related(d, here, Stripped(scope, f.owner)) = items
             /\ \A c \in items : c \in Objects /\ Reads(d, f.body, Inner(f, scope), Bind(env, f, c), row, c)
<1> DEFINE items == RowsAt(d, Start(env, row, f.owner), Rest(env, f.owner))
           path == Stripped(scope, f.owner)
<1>1. /\ scope \in Seq(Names) /\ env \in [Names -> Objects \union {None}] /\ row \in Objects /\ here \in Objects
      /\ Context(scope, env, row, here) /\ Local(f, scope)
      /\ IsTest(f) /\ ~ Bare(f) /\ Translated(d.model[here], scope, f) = "fine"
  BY DEF Reads
<1>2. f.owner \in Seq(Names) /\ f.owner # <<>>
  BY NodeShape DEF Shaped
<1>3. d.model[here] \in Models /\ None \notin Objects
  BY <1>1, ValueAssumption DEF Possible
<1>4. LocalPath(scope, f.owner) /\ Local(f.body, Inner(f, scope))
  BY <1>1, LocalParts, BodyPart
<1>5. path = Rest(env, f.owner) /\ Start(env, row, f.owner) = here
  BY <1>1, <1>2, <1>3, <1>4, LocalSplit
<1>6. path \in Seq(Names)
  BY <1>1, <1>2, StrippedTyped
<1>7. /\ Target(d.model[here], path) # None /\ ~ Bare(f.body)
      /\ Translated(Target(d.model[here], path), Inner(f, scope), f.body) = "fine"
  BY <1>1, <1>3, FineWhen
<1> HIDE DEF path
<1>8. Related(d, here, path) = RowsAt(d, here, path)
      /\ \A c \in RowsAt(d, here, path) : c \in Objects /\ d.model[c] = Target(d.model[here], path)
  BY <1>1, <1>6, <1>7, RelatedRows
<1>9. items = RowsAt(d, here, path)
  BY <1>5
<1>10. f.body \in Nodes /\ IsTest(f.body)
  <2>1. f.body \in Nodes /\ 1 \in DOMAIN Parts(f) /\ Parts(f)[1] = f.body
    BY BodyPart
  <2>2. f.body.kind # "Field"
    BY <1>7, <2>1, BareRule
  <2> QED
    BY <2>1, <2>2, NodeShape DEF Typed
<1> HIDE DEF items
<1>11. ASSUME NEW c \in items PROVE c \in Objects /\ Reads(d, f.body, Inner(f, scope), Bind(env, f, c), row, c)
  <2>1. c \in Objects /\ d.model[c] = Target(d.model[here], path)
    BY <1>8, <1>9
  <2>2. Inner(f, scope) \in Seq(Names) /\ Bind(env, f, c) \in [Names -> Objects \union {None}]
    BY <1>1, <2>1, InnerTyped, BindTyped
  <2>3. Context(Inner(f, scope), Bind(env, f, c), row, c)
    BY <1>1, <1>3, <2>1, ContextInner
  <2> QED
    BY <1>1, <1>4, <1>7, <1>10, <2>1, <2>2, <2>3 DEF Reads
<1> QED
  BY <1>8, <1>9, <1>11 DEF items, path

\* What a comparison or a lookup compares.
LEMMA ReadsSides ==
  ASSUME NEW d \in Possible, NEW f \in Nodes, NEW scope, NEW env, NEW row, NEW here,
         Reads(d, f, scope, env, row, here), f.kind \in {"Compare", "Call"}
  PROVE  /\ 1 \in DOMAIN Parts(f) /\ 2 \in DOMAIN Parts(f)
         /\ Left(f) = Parts(f)[1] /\ Right(f) = Parts(f)[2]
         /\ Left(f) \in Nodes /\ Right(f) \in Nodes
         /\ ~ IsTest(Left(f)) /\ Left(f).kind # "List" /\ ~ IsTest(Right(f))
         /\ Right(f).kind = "List" => f.kind = "Compare" /\ f.comparator = "in"
         /\ Computed(d, scope, here, Left(f)) = Denoted(d, env, row, Left(f))
         /\ Computed(d, scope, here, Right(f)) = Denoted(d, env, row, Right(f))
<1>1. /\ scope \in Seq(Names) /\ env \in [Names -> Objects \union {None}] /\ row \in Objects /\ here \in Objects
      /\ Context(scope, env, row, here) /\ Local(f, scope)
      /\ IsTest(f) /\ ~ Bare(f) /\ Translated(d.model[here], scope, f) = "fine"
  BY DEF Reads
<1>2. d.model[here] \in Models
  BY <1>1 DEF Possible
<1>3. 1 \in DOMAIN Parts(f) /\ 2 \in DOMAIN Parts(f) /\ Left(f) = Parts(f)[1] /\ Right(f) = Parts(f)[2]
  <2>1. CASE f.kind = "Compare"
    BY <2>1, BothParts DEF Left, Right
  <2>2. CASE f.kind = "Call"
    <3>1. Parts(f) = f.args /\ f.args \in Seq(Nodes)
      BY <2>2, NodeShape
    <3>2. Len(f.args) \in Arguments(f.func) /\ f.func \in Lookups
      BY <1>1, <1>2, <2>2, FineWhen DEF IsTest
    <3>3. Len(f.args) = 2
      BY <3>2 DEF Arguments
    <3> QED
      BY <2>2, <3>1, <3>3 DEF Left, Right
  <2> QED
    BY <2>1, <2>2
<1>4. Left(f) \in Nodes /\ Right(f) \in Nodes
  BY <1>3, NodeShape
<1>5. ~ IsTest(Left(f)) /\ ~ IsTest(Right(f))
  BY <1>3, NodeShape DEF Typed
<1>6. (Left(f).kind = "List" => f.kind = "Compare" /\ 1 = 2) /\ (Right(f).kind = "List" => f.kind = "Compare")
  BY <1>3, NodeShape DEF Typed
<1>7. f.kind = "Compare" => (f.comparator = "in" <=> f.right.kind = "List")
  BY NodeShape DEF Typed
<1>8. Inner(f, scope) = scope
  BY DEF Inner
<1>9. Local(Left(f), scope) /\ Local(Right(f), scope)
  BY <1>1, <1>3, <1>8, LocalParts
<1>10. Computed(d, scope, here, Left(f)) = Denoted(d, env, row, Left(f))
       /\ Computed(d, scope, here, Right(f)) = Denoted(d, env, row, Right(f))
  BY <1>1, <1>4, <1>9, SameValue
<1> QED
  BY <1>3, <1>4, <1>5, <1>6, <1>7, <1>10 DEF Right

\* Nothing is among no values.
LEMMA NoValues ==
  ASSUME NEW d \in Possible, NEW f \in Nodes, NEW scope, NEW env, NEW row, NEW here,
         Reads(d, f, scope, env, row, here), f.kind \in {"Compare", "Call"},
         NEW x, NEW v, Operands(Right(f), v) = {}
  PROVE  ~ Holds(f, x, {}) /\ \A w : Operands(Right(f), w) = {}
<1>1. Right(f).kind = "List" /\ Right(f).values = {}
  BY DEF Operands
<1>2. f.kind = "Compare" /\ f.comparator = "in"
  BY <1>1, ReadsSides
<1>3. \A w : Operands(Right(f), w) = {}
  BY <1>1 DEF Operands
<1> QED
  BY <1>2, <1>3 DEF Holds, Test

\* What a comparison comes to in each of the two readings.
LEMMA ComparedSatisfied ==
  ASSUME NEW d \in Possible, NEW f \in Nodes, NEW scope, NEW env, NEW row, NEW here,
         Reads(d, f, scope, env, row, here), f.kind \in {"Compare", "Call"},
         NEW x, NEW v
  PROVE  LET ys == Operands(Right(f), v)
         IN  /\ Compared(f, x, ys) = True3 <=> Satisfied(f, x, ys)
             /\ NullTest(f) \/ Null \notin {x} \union ys => Compared(f, x, ys) = Truth(Satisfied(f, x, ys))
<1> DEFINE ys == Operands(Right(f), v)
<1>1. ys = {} => ~ Holds(f, x, ys)
  BY NoValues
<1> HIDE DEF ys
<1> DEFINE ok == NullTest(f)
           same == (x = Null) <=> (f.comparator = "eq")
           null == Null \in {x} \union ys
           holds == Holds(f, x, ys)
<1>2. Satisfied(f, x, ys) <=> IF ok THEN same ELSE ~ null /\ holds
  BY DEF Satisfied
<1>3. Compared(f, x, ys) = IF ok THEN Truth(same) ELSE IF ys = {} THEN False3
                           ELSE IF null THEN Unknown ELSE Truth(holds)
  BY DEF Compared
<1>4. /\ same => Truth(same) = True3
      /\ ~ same => Truth(same) = False3
      /\ holds => Truth(holds) = True3
      /\ ~ holds => Truth(holds) = False3
      /\ Satisfied(f, x, ys) => Truth(Satisfied(f, x, ys)) = True3
      /\ ~ Satisfied(f, x, ys) => Truth(Satisfied(f, x, ys)) = False3
  BY Zenon DEF Truth
<1>5. True3 # False3 /\ True3 # Unknown
  BY DEF True3, False3, Unknown
<1> HIDE DEF ok, same, null, holds
<1>6. /\ Compared(f, x, ys) = True3 <=> Satisfied(f, x, ys)
      /\ ok \/ ~ null => Compared(f, x, ys) = Truth(Satisfied(f, x, ys))
  BY <1>1, <1>2, <1>3, <1>4, <1>5 DEF holds
<1> QED
  BY <1>6 DEF ok, null, ys

-----------------------------------------------------------------------------
(* A filter keeps its meaning                                              *)

\* Without nulls, what is computed has a value.
LEMMA ValueKnown ==
  ASSUME NEW d \in Possible, NoNulls(d), NEW scope \in Seq(Names), NEW here \in Objects,
         NEW e \in Nodes, Forward(e, scope), Translated(d.model[here], scope, e) = "fine",
         ~ IsTest(e), e.kind # "List"
  PROVE  Computed(d, scope, here, e) # Null
<1> DEFINE Known(g) == Forward(g, scope) /\ Translated(d.model[here], scope, g) = "fine" /\ ~ IsTest(g) /\ g.kind # "List"
           S == {g \in Nodes : Known(g) => Computed(d, scope, here, g) # Null}
<1>1. d.model[here] \in Models
  BY DEF Possible
<1>2. ASSUME NEW g \in Nodes, \A i \in DOMAIN Parts(g) : Parts(g)[i] \in S PROVE g \in S
  <2> SUFFICES ASSUME Known(g) PROVE Computed(d, scope, here, g) # Null
    OBVIOUS
  <2> DEFINE c == [h \in Nodes |-> Computed(d, scope, here, h)]
             xs == [i \in DOMAIN Parts(g) |-> c[Parts(g)[i]]]
  <2>1. Computed(d, scope, here, g) = ComputedNode(d, scope, here, g, c)
    <3> HIDE DEF S
    <3> QED
      BY ComputedRule
  <2>2. CASE g.kind = "Field"
    <3>1. g.path \in Seq(Names) /\ g.path # <<>>
      BY <2>2, NodeShape DEF Shaped
    <3> DEFINE path == Stripped(scope, g.path)
    <3>2. path \in Seq(Names) /\ path # <<>>
      BY <3>1, StrippedTyped
    <3>3. ValuePath(d.model[here], path)
      BY <1>1, <2>2, FineWhen
    <3>4. \A i \in 1 .. Len(path) - 1, r \in Relations : r.name = path[i] => r.one
      BY <2>2, ForwardParts
    <3>5. Computed(d, scope, here, g) = ValueAt(d, here, path)
      BY <2>1, <2>2 DEF ComputedNode
    <3> HIDE DEF path, S
    <3>6. ValueAt(d, here, path) # Null
      BY <3>2, <3>3, <3>4, ForwardValue
    <3> QED
      BY <3>5, <3>6
  <2>3. CASE g.kind = "Literal"
    <3>1. g.value # Null
      BY <1>1, <2>3, FineWhen
    <3>2. ComputedNode(d, scope, here, g, c) = g.value
      BY <2>3 DEF ComputedNode
    <3> QED
      BY <2>1, <3>1, <3>2
  <2>4. CASE g.kind \in {"BinOp", "Call"}
    <3>1. ~ NullTest(g) /\ g.kind # "Lambda" /\ Inner(g, scope) = scope /\ g.kind # "Field" /\ g.kind # "Literal"
      BY <2>4 DEF NullTest, Inner
    <3>2. ASSUME NEW i \in DOMAIN Parts(g) PROVE c[Parts(g)[i]] # Null
      <4>1. Parts(g)[i] \in Nodes /\ ~ IsTest(Parts(g)[i]) /\ Parts(g)[i].kind # "List"
        BY <2>4, NodeShape DEF Typed
      <4>2. Translated(d.model[here], scope, Parts(g)[i]) = "fine"
        BY <1>1, <3>1, FineWhen
      <4>3. Forward(Parts(g)[i], scope)
        BY <3>1, ForwardParts
      <4>4. Parts(g)[i] \in S
        BY <1>2
      <4> QED
        BY <4>1, <4>2, <4>3, <4>4
    <3>3. g.kind = "Call" => Len(g.args) \in Arguments(g.func) /\ g.func \notin Lookups
      BY <1>1, FineWhen DEF IsTest
    <3>4. g.kind = "Call" => g.func \in Functions
      BY <3>3 DEF Arguments, Functions
    <3>5. Computes(g)
      BY <2>4, <3>3, <3>4 DEF Computes
    <3>6. \A i \in DOMAIN Parts(g) : c[Parts(g)[i]] \in Int \union {Null}
      <4> HIDE DEF S
      <4> QED
        BY ComputedRule, NodeShape
    <3>7. \A i \in DOMAIN xs : xs[i] # Null
      BY <3>2
    <3> DEFINE nulls == \E i \in DOMAIN xs : xs[i] = Null
               value == IF g.kind = "BinOp" THEN Arithmetic(g.op, xs[1], xs[2]) ELSE Function(g.func, xs)
               first == ValueAt(d, here, Stripped(scope, g.path))
    <3>8. ComputedNode(d, scope, here, g, c)
            = IF g.kind = "Field" THEN first ELSE IF g.kind = "Literal" THEN g.value
              ELSE IF ~ Computes(g) \/ nulls THEN Null ELSE value
      BY DEF ComputedNode
    <3>9. ~ nulls
      BY <3>7
    <3>10. value \in Int
      <4> HIDE DEF S, c, xs
      <4>1. /\ g.kind = "BinOp" => xs[1] \in Int /\ xs[2] \in Int
            /\ g.kind = "Call" => \E n \in Arguments(g.func) :
                 n \in Nat /\ DOMAIN xs = 1 .. n /\ Len(xs) = n /\ \A i \in 1 .. n : xs[i] \in Int
        BY <3>5, <3>6, <3>7, PartsValues DEF xs
      <4>2. CASE g.kind = "BinOp"
        BY <4>1, <4>2, ArithmeticTyped
      <4>3. CASE g.kind # "BinOp"
        <5>1. PICK n \in Arguments(g.func) : n \in Nat /\ DOMAIN xs = 1 .. n /\ Len(xs) = n /\ \A i \in 1 .. n : xs[i] \in Int
          BY <2>4, <4>1, <4>3
        <5>2. Function(g.func, xs) \in Int
          BY <2>4, <3>4, <4>3, <5>1, FunctionTyped
        <5> QED
          BY <4>3, <5>2
      <4> QED
        BY <4>2, <4>3
    <3> HIDE DEF nulls, value, first, c
    <3> QED
      BY <2>1, <3>1, <3>5, <3>8, <3>9, <3>10, ValueAssumption
  <2>5. g.kind \in {"Field", "Literal", "BinOp", "Call"}
    BY NodeShape DEF Shaped, IsTest
  <2> QED
    BY <2>2, <2>3, <2>4, <2>5
<1> HIDE DEF S
<1>3. \A g \in Nodes : g \in S
  BY <1>2, NodeInduction
<1> QED
  BY <1>3 DEF S

\* Truth values of conditions that are true or false.
LEMMA TruthRules ==
  \A a, b \in BOOLEAN :
    /\ Truth(a) = True3 <=> a
    /\ Truth(a) = False3 <=> ~ a
    /\ True3 - Truth(a) = Truth(~ a)
    /\ Least(Truth(a), Truth(b)) = Truth(a /\ b)
    /\ Greatest(Truth(a), Truth(b)) = Truth(a \/ b)
BY DEF Truth, Least, Greatest, True3, False3

\* Truth values of conditions that may be unknown.
LEMMA ThreeRules ==
  \A x, y \in {False3, Unknown, True3} :
    /\ Least(x, y) = True3 <=> x = True3 /\ y = True3
    /\ Greatest(x, y) = True3 <=> x = True3 \/ y = True3
    /\ Least(x, y) = False3 <=> x = False3 \/ y = False3
    /\ Greatest(x, y) = False3 <=> x = False3 /\ y = False3
    /\ True3 - x = True3 <=> x = False3
    /\ True3 - x = False3 <=> x = True3
BY DEF Least, Greatest, True3, Unknown, False3

\* Without nulls the database finds a condition true where it holds, and false where not.
LEMMA SameTruth ==
  ASSUME NEW d \in Possible, NoNulls(d), NEW f \in Nodes
  PROVE  \A scope, env, row, here :
           Reads(d, f, scope, env, row, here) /\ Forwards(f, scope) =>
             Sql(d, f, scope, here) = Truth(Meaning(d, f, env, row))
<1> DEFINE S == {g \in Nodes : \A scope, env, row, here :
             Reads(d, g, scope, env, row, here) /\ Forwards(g, scope) =>
               Sql(d, g, scope, here) = Truth(Meaning(d, g, env, row))}
<1>1. ASSUME NEW g \in Nodes, \A i \in DOMAIN Parts(g) : Parts(g)[i] \in S PROVE g \in S
  <2> SUFFICES ASSUME NEW scope, NEW env, NEW row, NEW here,
                      Reads(d, g, scope, env, row, here), Forwards(g, scope)
               PROVE  Sql(d, g, scope, here) = Truth(Meaning(d, g, env, row))
    OBVIOUS
  <2>ih. ASSUME NEW i \in DOMAIN Parts(g), NEW s, NEW e, NEW o,
                Reads(d, Parts(g)[i], s, e, row, o), Forwards(Parts(g)[i], s)
         PROVE  Sql(d, Parts(g)[i], s, o) = Truth(Meaning(d, Parts(g)[i], e, row))
    <3>1. Parts(g)[i] \in S
      BY <1>1
    <3> QED
      BY <2>ih, <3>1
  <2> HIDE DEF S
  <2>typed. scope \in Seq(Names) /\ env \in [Names -> Objects \union {None}] /\ row \in Objects /\ here \in Objects
            /\ d.model[here] \in Models /\ Translated(d.model[here], scope, g) = "fine" /\ IsTest(g)
    BY DEF Reads, Possible
  <2>bool. Meaning(d, g, env, row) \in BOOLEAN
    BY <2>typed, MeaningRule
  <2>1. CASE g.kind \in {"Compare", "Call"}
    <3> DEFINE x == Computed(d, scope, here, Left(g))
               v == Computed(d, scope, here, Right(g))
               ys == Operands(Right(g), v)
    <3>1. Sql(d, g, scope, here) = Compared(g, x, ys)
      BY <2>1, <2>typed, SqlRule
    <3>2. Meaning(d, g, env, row)
            <=> Satisfied(g, Denoted(d, env, row, Left(g)), Operands(Right(g), Denoted(d, env, row, Right(g))))
      BY <2>1, <2>typed, MeaningRule
    <3>3. /\ 1 \in DOMAIN Parts(g) /\ 2 \in DOMAIN Parts(g)
          /\ Left(g) = Parts(g)[1] /\ Right(g) = Parts(g)[2]
          /\ Left(g) \in Nodes /\ Right(g) \in Nodes
          /\ ~ IsTest(Left(g)) /\ Left(g).kind # "List" /\ ~ IsTest(Right(g))
          /\ x = Denoted(d, env, row, Left(g)) /\ v = Denoted(d, env, row, Right(g))
      BY <2>1, ReadsSides
    <3>4. Meaning(d, g, env, row) <=> Satisfied(g, x, ys)
      BY <3>2, <3>3
    <3>5. NullTest(g) \/ Null \notin {x} \union ys
      <4> SUFFICES ASSUME ~ NullTest(g) PROVE Null \notin {x} \union ys
        OBVIOUS
      <4>1. Inner(g, scope) = scope /\ g.kind # "Lambda"
        BY <2>1 DEF Inner
      <4>2. Translated(d.model[here], scope, Left(g)) = "fine" /\ Translated(d.model[here], scope, Right(g)) = "fine"
        BY <2>typed, <3>3, <4>1, FineWhen
      <4>3. Forward(Left(g), scope) /\ Forward(Right(g), scope)
        BY <2>typed, <3>3, <4>1, ForwardsParts DEF Forwards
      <4>4. x # Null
        BY <2>typed, <3>3, <4>2, <4>3, ValueKnown
      <4>5. CASE Right(g).kind = "List"
        <5>1. Null \notin Right(g).values
          BY <2>typed, <3>3, <4>2, <4>5, FineWhen
        <5>2. ys = Right(g).values
          BY <4>5 DEF Operands
        <5> QED
          BY <4>4, <5>1, <5>2
      <4>6. CASE Right(g).kind # "List"
        <5>1. v # Null
          BY <2>typed, <3>3, <4>2, <4>3, <4>6, ValueKnown
        <5>2. ys = {v}
          BY <4>6 DEF Operands
        <5> QED
          BY <4>4, <5>1, <5>2
      <4> QED
        BY <4>5, <4>6
    <3>6. Compared(g, x, ys) = Truth(Satisfied(g, x, ys))
      <4> HIDE DEF x, v
      <4> QED
        BY <2>1, <3>5, ComparedSatisfied
    <3> HIDE DEF x, v, ys
    <3> QED
      BY <3>1, <3>4, <3>6, Zenon DEF Truth
  <2>2. CASE g.kind = "Not"
    <3>1. 1 \in DOMAIN Parts(g) /\ Parts(g)[1] = g.operand /\ g.operand \in Nodes
      BY <2>2, OperandPart
    <3>2. Reads(d, g.operand, scope, env, row, here) /\ Forwards(g.operand, scope)
      BY <2>2, <2>typed, <3>1, ReadsParts, ForwardsParts
    <3>3. Sql(d, g.operand, scope, here) = Truth(Meaning(d, g.operand, env, row))
      BY <2>ih, <3>1, <3>2
    <3>4. Sql(d, g, scope, here) = True3 - Sql(d, g.operand, scope, here)
      BY <2>2, <2>typed, SqlRule
    <3>5. Meaning(d, g, env, row) <=> ~ Meaning(d, g.operand, env, row)
      BY <2>2, <2>typed, MeaningRule
    <3>6. Meaning(d, g.operand, env, row) \in BOOLEAN
      BY <2>typed, <3>1, MeaningRule
    <3>7. Meaning(d, g, env, row) = ~ Meaning(d, g.operand, env, row)
      BY <2>bool, <3>5, Zenon
    <3> QED
      BY <3>3, <3>4, <3>6, <3>7, TruthRules
  <2>3. CASE g.kind = "BoolOp"
    <3>1. /\ 1 \in DOMAIN Parts(g) /\ Parts(g)[1] = g.left /\ g.left \in Nodes
          /\ 2 \in DOMAIN Parts(g) /\ Parts(g)[2] = g.right /\ g.right \in Nodes
      BY <2>3, BothParts
    <3>2. /\ Reads(d, g.left, scope, env, row, here) /\ Forwards(g.left, scope)
          /\ Reads(d, g.right, scope, env, row, here) /\ Forwards(g.right, scope)
      BY <2>3, <2>typed, <3>1, ReadsParts, ForwardsParts
    <3>3. Sql(d, g.left, scope, here) = Truth(Meaning(d, g.left, env, row))
          /\ Sql(d, g.right, scope, here) = Truth(Meaning(d, g.right, env, row))
      BY <2>ih, <3>1, <3>2
    <3>4. Sql(d, g, scope, here) = IF g.op = "and" THEN Least(Sql(d, g.left, scope, here), Sql(d, g.right, scope, here))
                                   ELSE Greatest(Sql(d, g.left, scope, here), Sql(d, g.right, scope, here))
      BY <2>3, <2>typed, SqlRule
    <3>5. Meaning(d, g, env, row)
            <=> IF g.op = "and" THEN Meaning(d, g.left, env, row) /\ Meaning(d, g.right, env, row)
                ELSE Meaning(d, g.left, env, row) \/ Meaning(d, g.right, env, row)
      BY <2>3, <2>typed, MeaningRule
    <3>6. Meaning(d, g.left, env, row) \in BOOLEAN /\ Meaning(d, g.right, env, row) \in BOOLEAN
      BY <2>typed, <3>1, MeaningRule
    <3> DEFINE a == Meaning(d, g.left, env, row)
               b == Meaning(d, g.right, env, row)
               m == Meaning(d, g, env, row)
    <3> HIDE DEF a, b, m
    <3>7. Sql(d, g, scope, here) = IF g.op = "and" THEN Truth(a /\ b) ELSE Truth(a \/ b)
      BY <3>3, <3>4, <3>6, TruthRules DEF a, b
    <3>8. m = IF g.op = "and" THEN a /\ b ELSE a \/ b
      <4>1. CASE g.op = "and"
        BY <2>bool, <3>5, <4>1 DEF a, b, m
      <4>2. CASE g.op # "and"
        BY <2>bool, <3>5, <4>2 DEF a, b, m
      <4> QED
        BY <4>1, <4>2
    <3> QED
      BY <3>7, <3>8 DEF m
  <2>4. CASE g.kind = "Lambda"
    <3> DEFINE items == RowsAt(d, Start(env, row, g.owner), Rest(env, g.owner))
               Found(c) == Sql(d, g.body, Inner(g, scope), c)
               Says(c) == Meaning(d, g.body, Bind(env, g, c), row)
               found == \E c \in items : Found(c) = True3
               says == \E c \in items : Says(c)
    <3>1. /\ Related(d, here, Stripped(scope, g.owner)) = items
          /\ \A c \in items : c \in Objects /\ Reads(d, g.body, Inner(g, scope), Bind(env, g, c), row, c)
      BY <2>4, ReadsBody
    <3>2. 1 \in DOMAIN Parts(g) /\ Parts(g)[1] = g.body /\ g.body \in Nodes
      BY <2>4, BodyPart
    <3>3. Forwards(g.body, Inner(g, scope)) /\ g.op = "any"
      BY <2>4, <2>typed, <3>2, ForwardsParts
    <3> HIDE DEF items
    <3>4. ASSUME NEW c \in items PROVE Found(c) = Truth(Says(c)) /\ Says(c) \in BOOLEAN
      <4>1. c \in Objects /\ Reads(d, g.body, Inner(g, scope), Bind(env, g, c), row, c)
        BY <3>1
      <4>2. Bind(env, g, c) \in [Names -> Objects \union {None}]
        BY <4>1 DEF Reads
      <4>3. Says(c) \in BOOLEAN
        BY <2>typed, <3>2, <4>2, MeaningRule
      <4> QED
        BY <2>ih, <3>2, <3>3, <4>1, <4>3
    <3>5. Sql(d, g, scope, here) = Truth(found)
      <4> DEFINE related == Related(d, here, Stripped(scope, g.owner))
      <4>1. Sql(d, g, scope, here) = Truth(\E c \in related : Found(c) = IF g.op = "any" THEN True3 ELSE False3)
        BY <2>4, <2>typed, SqlLambda, Zenon
      <4>2. related = items
        BY <3>1
      <4> HIDE DEF related, Found
      <4> QED
        BY <3>3, <4>1, <4>2
    <3>6. Meaning(d, g, env, row) <=> says
      <4>1. Meaning(d, g, env, row) <=> IF g.op = "any" THEN \E c \in items : Says(c) ELSE \A c \in items : Says(c)
        BY <2>4, <2>typed, MeaningLambda, Zenon DEF items
      <4> HIDE DEF Says
      <4> QED
        BY <3>3, <4>1
    <3> HIDE DEF Found, Says
    <3>7. ASSUME NEW c \in items PROVE Found(c) = True3 <=> Says(c)
      BY <3>4, TruthRules
    <3>8. found <=> says
      BY <3>7
    <3> HIDE DEF found, says
    <3> QED
      BY <3>5, <3>6, <3>8 DEF Truth
  <2>5. CASE g.kind \notin {"Compare", "Call", "Not", "BoolOp", "Lambda"}
    <3>1. Sql(d, g, scope, here) = True3
      BY <2>5, <2>typed, SqlRule
    <3>2. Meaning(d, g, env, row)
      BY <2>5, <2>typed, MeaningRule
    <3> QED
      BY <2>bool, <3>1, <3>2, TruthRules
  <2> QED
    BY <2>1, <2>2, <2>3, <2>4, <2>5
<1> HIDE DEF S
<1>2. \A g \in Nodes : g \in S
  BY <1>1, NodeInduction
<1> QED
  BY <1>2 DEF S

\* With nulls, it still finds true what holds, as long as nothing is negated.
LEMMA SamePositive ==
  ASSUME NEW d \in Possible, NEW f \in Nodes
  PROVE  \A scope, env, row, here :
           Reads(d, f, scope, env, row, here) /\ Affirms(f, scope) =>
             (Sql(d, f, scope, here) = True3 <=> Meaning(d, f, env, row))
<1> DEFINE S == {g \in Nodes : \A scope, env, row, here :
             Reads(d, g, scope, env, row, here) /\ Affirms(g, scope) =>
               (Sql(d, g, scope, here) = True3 <=> Meaning(d, g, env, row))}
<1>1. ASSUME NEW g \in Nodes, \A i \in DOMAIN Parts(g) : Parts(g)[i] \in S PROVE g \in S
  <2> SUFFICES ASSUME NEW scope, NEW env, NEW row, NEW here,
                      Reads(d, g, scope, env, row, here), Affirms(g, scope)
               PROVE  Sql(d, g, scope, here) = True3 <=> Meaning(d, g, env, row)
    OBVIOUS
  <2>ih. ASSUME NEW i \in DOMAIN Parts(g), NEW s, NEW e, NEW o,
                Reads(d, Parts(g)[i], s, e, row, o), Affirms(Parts(g)[i], s)
         PROVE  Sql(d, Parts(g)[i], s, o) = True3 <=> Meaning(d, Parts(g)[i], e, row)
    <3>1. Parts(g)[i] \in S
      BY <1>1
    <3> QED
      BY <2>ih, <3>1
  <2> HIDE DEF S
  <2>typed. scope \in Seq(Names) /\ env \in [Names -> Objects \union {None}] /\ row \in Objects /\ here \in Objects
    BY DEF Reads
  <2>1. CASE g.kind \in {"Compare", "Call"}
    <3> DEFINE x == Computed(d, scope, here, Left(g))
               v == Computed(d, scope, here, Right(g))
               ys == Operands(Right(g), v)
    <3>1. Sql(d, g, scope, here) = Compared(g, x, ys)
      BY <2>1, <2>typed, SqlRule
    <3>2. Meaning(d, g, env, row)
            <=> Satisfied(g, Denoted(d, env, row, Left(g)), Operands(Right(g), Denoted(d, env, row, Right(g))))
      BY <2>1, <2>typed, MeaningRule
    <3>3. x = Denoted(d, env, row, Left(g)) /\ v = Denoted(d, env, row, Right(g))
      BY <2>1, ReadsSides
    <3>4. Meaning(d, g, env, row) <=> Satisfied(g, x, ys)
      BY <3>2, <3>3
    <3>5. Compared(g, x, ys) = True3 <=> Satisfied(g, x, ys)
      <4> HIDE DEF x, v
      <4> QED
        BY <2>1, ComparedSatisfied
    <3> HIDE DEF x, v, ys
    <3> QED
      BY <3>1, <3>4, <3>5, Zenon
  <2>2. CASE g.kind = "Not"
    BY <2>2, <2>typed, AffirmsParts
  <2>3. CASE g.kind = "BoolOp"
    <3>1. /\ 1 \in DOMAIN Parts(g) /\ Parts(g)[1] = g.left /\ g.left \in Nodes
          /\ 2 \in DOMAIN Parts(g) /\ Parts(g)[2] = g.right /\ g.right \in Nodes
      BY <2>3, BothParts
    <3>2. /\ Reads(d, g.left, scope, env, row, here) /\ Affirms(g.left, scope)
          /\ Reads(d, g.right, scope, env, row, here) /\ Affirms(g.right, scope)
      BY <2>3, <2>typed, <3>1, ReadsParts, AffirmsParts
    <3>3. (Sql(d, g.left, scope, here) = True3 <=> Meaning(d, g.left, env, row))
          /\ (Sql(d, g.right, scope, here) = True3 <=> Meaning(d, g.right, env, row))
      BY <2>ih, <3>1, <3>2
    <3>4. Sql(d, g, scope, here) = IF g.op = "and" THEN Least(Sql(d, g.left, scope, here), Sql(d, g.right, scope, here))
                                   ELSE Greatest(Sql(d, g.left, scope, here), Sql(d, g.right, scope, here))
      BY <2>3, <2>typed, SqlRule
    <3>5. Meaning(d, g, env, row)
            <=> IF g.op = "and" THEN Meaning(d, g.left, env, row) /\ Meaning(d, g.right, env, row)
                ELSE Meaning(d, g.left, env, row) \/ Meaning(d, g.right, env, row)
      BY <2>3, <2>typed, MeaningRule
    <3>6. Sql(d, g.left, scope, here) \in {False3, Unknown, True3} /\ Sql(d, g.right, scope, here) \in {False3, Unknown, True3}
      BY <2>typed, <3>1, SqlRule
    <3>7. Sql(d, g, scope, here) = True3
            <=> IF g.op = "and" THEN Sql(d, g.left, scope, here) = True3 /\ Sql(d, g.right, scope, here) = True3
                ELSE Sql(d, g.left, scope, here) = True3 \/ Sql(d, g.right, scope, here) = True3
      BY <3>4, <3>6, ThreeRules
    <3> QED
      BY <3>3, <3>5, <3>7
  <2>4. CASE g.kind = "Lambda"
    <3> DEFINE items == RowsAt(d, Start(env, row, g.owner), Rest(env, g.owner))
               related == Related(d, here, Stripped(scope, g.owner))
               Found(c) == Sql(d, g.body, Inner(g, scope), c)
               Says(c) == Meaning(d, g.body, Bind(env, g, c), row)
    <3>1. /\ related = items
          /\ \A c \in items : c \in Objects /\ Reads(d, g.body, Inner(g, scope), Bind(env, g, c), row, c)
      BY <2>4, ReadsBody
    <3>2. 1 \in DOMAIN Parts(g) /\ Parts(g)[1] = g.body /\ g.body \in Nodes
      BY <2>4, BodyPart
    <3>3. Affirms(g.body, Inner(g, scope)) /\ g.op = "any"
      BY <2>4, <2>typed, <3>2, AffirmsParts
    <3>4. Sql(d, g, scope, here) = Truth(\E c \in related : Found(c) = IF g.op = "any" THEN True3 ELSE False3)
      BY <2>4, <2>typed, SqlLambda, Zenon
    <3>5. Meaning(d, g, env, row) <=> IF g.op = "any" THEN \E c \in items : Says(c) ELSE \A c \in items : Says(c)
      BY <2>4, <2>typed, MeaningLambda, Zenon
    <3> HIDE DEF items, related
    <3>6. ASSUME NEW c \in items PROVE Found(c) = True3 <=> Says(c)
      <4>1. Reads(d, g.body, Inner(g, scope), Bind(env, g, c), row, c)
        BY <3>1
      <4> QED
        BY <2>ih, <3>2, <3>3, <4>1
    <3> HIDE DEF Found, Says
    <3>7. Sql(d, g, scope, here) = Truth(\E c \in items : Found(c) = True3)
      BY <3>1, <3>3, <3>4
    <3>8. Meaning(d, g, env, row) <=> \E c \in items : Says(c)
      BY <3>3, <3>5
    <3>9. Sql(d, g, scope, here) = True3 <=> \E c \in items : Found(c) = True3
      BY <3>7 DEF Truth, True3, False3
    <3> QED
      BY <3>6, <3>8, <3>9
  <2>5. CASE g.kind \notin {"Compare", "Call", "Not", "BoolOp", "Lambda"}
    <3>1. Sql(d, g, scope, here) = True3
      BY <2>5, <2>typed, SqlRule
    <3>2. Meaning(d, g, env, row)
      BY <2>5, <2>typed, MeaningRule
    <3> QED
      BY <3>1, <3>2
  <2> QED
    BY <2>1, <2>2, <2>3, <2>4, <2>5
<1> HIDE DEF S
<1>2. \A g \in Nodes : g \in S
  BY <1>1, NodeInduction
<1> QED
  BY <1>2 DEF S

-----------------------------------------------------------------------------
(* Nulls that become known                                                 *)

\* A database stays possible when its nulls are filled in, and its rows stay related.
LEMMA CompletedPossible ==
  ASSUME NEW d \in Possible, NEW known \in [Unknowns(d) -> Values]
  PROVE  /\ Completed(d, known) \in Possible
         /\ Completed(d, known).model = d.model /\ Completed(d, known).edges = d.edges
         /\ \A o \in Objects, x \in Fields :
              d.value[o][x] # Null => Completed(d, known).value[o][x] = d.value[o][x]
<1> DEFINE value == [o \in Objects |-> [x \in Fields |-> IF d.value[o][x] = Null THEN known[<<o, x>>] ELSE d.value[o][x]]]
           full == [model |-> d.model, edges |-> d.edges, value |-> value]
<1>1. Completed(d, known) = full
  BY DEF Completed
<1>2. full.model = d.model /\ full.edges = d.edges /\ full.value = value
  OBVIOUS
<1>3. /\ d.model \in [Objects -> Models] /\ d.value \in [Objects -> [Fields -> Values \union {Null}]]
      /\ d.edges \in SUBSET (Objects \X Names \X Objects)
  BY DEF Possible
<1>4. ASSUME NEW o \in Objects, NEW x \in Fields
      PROVE  IF d.value[o][x] = Null THEN known[<<o, x>>] \in Values ELSE d.value[o][x] \in Values
  <2>1. CASE d.value[o][x] = Null
    <3>1. <<o, x>> \in Unknowns(d)
      BY <2>1 DEF Unknowns
    <3> QED
      BY <2>1, <3>1
  <2>2. CASE d.value[o][x] # Null
    BY <1>3, <2>2
  <2> QED
    BY <2>1, <2>2
<1>5. value \in [Objects -> [Fields -> Values \union {Null}]]
  BY <1>4
<1>6. \A o \in Objects, x \in Fields : d.value[o][x] # Null => value[o][x] = d.value[o][x]
  OBVIOUS
<1> HIDE DEF value
<1>7. full \in [model : [Objects -> Models], value : [Objects -> [Fields -> Values \union {Null}]],
                edges : SUBSET (Objects \X Names \X Objects)]
  BY <1>3, <1>5
<1> HIDE DEF full
<1>8. full \in Possible
  BY <1>2, <1>7 DEF Possible
<1> QED
  BY <1>1, <1>2, <1>6, <1>8

\* The rows of a path are the same when its nulls are known.
LEMMA CompletedRows ==
  ASSUME NEW d \in Possible, NEW full \in Possible, full.edges = d.edges,
         NEW o \in Objects, NEW path \in Seq(Names)
  PROVE  RowsAt(full, o, path) = RowsAt(d, o, path)
<1>1. \A x : Chain(full, path, x) <=> Chain(d, path, x)
  BY DEF Chain
<1>2. \A c \in Objects : c \in RowsAt(full, o, path) <=> c \in RowsAt(d, o, path)
  BY <1>1, RowsChain
<1>3. RowsAt(full, o, path) \in SUBSET Objects /\ RowsAt(d, o, path) \in SUBSET Objects
  BY RowsTyped
<1> QED
  BY <1>2, <1>3

\* So is each value that was known already.
LEMMA CompletedValue ==
  ASSUME NEW d \in Possible, NEW full \in Possible, full.edges = d.edges,
         \A o \in Objects, x \in Fields : d.value[o][x] # Null => full.value[o][x] = d.value[o][x],
         NEW o \in Objects, NEW path \in Seq(Names), path # <<>>, ValueAt(d, o, path) # Null
  PROVE  ValueAt(full, o, path) = ValueAt(d, o, path)
<1> DEFINE owners == RowsAt(d, o, Front(path))
           c == CHOOSE x \in owners : TRUE
<1>1. Front(path) \in Seq(Names)
  BY FrontTyped
<1>2. owners \in SUBSET Objects /\ RowsAt(full, o, Front(path)) = owners
  BY <1>1, RowsTyped, CompletedRows
<1>3. ValueAt(d, o, path) = IF owners = {} \/ Last(path) \notin Fields THEN Null ELSE d.value[c][Last(path)]
  BY DEF ValueAt
<1>4. ValueAt(full, o, path) = IF owners = {} \/ Last(path) \notin Fields THEN Null ELSE full.value[c][Last(path)]
  BY <1>2 DEF ValueAt
<1> HIDE DEF owners
<1>5. owners # {} => c \in Objects
  BY <1>2
<1> HIDE DEF c
<1> QED
  BY <1>3, <1>4, <1>5

\* What an expression denotes without the nulls, it denotes when they are known.
LEMMA CompletedDenoted ==
  ASSUME NEW d \in Possible, NEW full \in Possible, full.edges = d.edges,
         \A o \in Objects, x \in Fields : d.value[o][x] # Null => full.value[o][x] = d.value[o][x],
         NEW env \in [Names -> Objects \union {None}], NEW row \in Objects,
         NEW e \in Nodes, Denoted(d, env, row, e) # Null
  PROVE  Denoted(full, env, row, e) = Denoted(d, env, row, e)
<1> DEFINE S == {g \in Nodes : Denoted(d, env, row, g) # Null => Denoted(full, env, row, g) = Denoted(d, env, row, g)}
<1>1. ASSUME NEW g \in Nodes, \A i \in DOMAIN Parts(g) : Parts(g)[i] \in S PROVE g \in S
  <2> SUFFICES ASSUME Denoted(d, env, row, g) # Null PROVE Denoted(full, env, row, g) = Denoted(d, env, row, g)
    OBVIOUS
  <2> DEFINE b == [h \in Nodes |-> Denoted(d, env, row, h)]
             k == [h \in Nodes |-> Denoted(full, env, row, h)]
             xs == [i \in DOMAIN Parts(g) |-> b[Parts(g)[i]]]
             ys == [i \in DOMAIN Parts(g) |-> k[Parts(g)[i]]]
  <2>1. Denoted(d, env, row, g) = DenotedNode(d, env, row, g, b)
        /\ Denoted(full, env, row, g) = DenotedNode(full, env, row, g, k)
    <3> HIDE DEF S
    <3> QED
      BY DenotedRule
  <2>2. CASE g.kind = "Field"
    <3>1. g.path \in Seq(Names) /\ g.path # <<>>
      BY <2>2, NodeShape DEF Shaped
    <3> DEFINE start == Start(env, row, g.path)
               rest == Rest(env, g.path)
    <3>2. start \in Objects /\ rest \in Seq(Names) /\ rest # <<>>
      BY <3>1, RestTyped
    <3>3. Denoted(d, env, row, g) = ValueAt(d, start, rest) /\ Denoted(full, env, row, g) = ValueAt(full, start, rest)
      BY <2>1, <2>2 DEF DenotedNode
    <3> HIDE DEF start, rest, S
    <3> QED
      BY <3>2, <3>3, CompletedValue
  <2>3. CASE g.kind = "Literal"
    <3>1. DenotedNode(d, env, row, g, b) = g.value /\ DenotedNode(full, env, row, g, k) = g.value
      BY <2>3 DEF DenotedNode
    <3> QED
      BY <2>1, <3>1
  <2>4. CASE g.kind \notin {"Field", "Literal"}
    <3> DEFINE nulls == \E i \in DOMAIN xs : xs[i] = Null
               value == IF g.kind = "BinOp" THEN Arithmetic(g.op, xs[1], xs[2]) ELSE Meant(g.func, xs)
               first == ValueAt(d, Start(env, row, g.path), Rest(env, g.path))
    <3>1. DenotedNode(d, env, row, g, b)
            = IF g.kind = "Field" THEN first ELSE IF g.kind = "Literal" THEN g.value
              ELSE IF ~ Computes(g) \/ nulls THEN Null ELSE value
      BY DEF DenotedNode
    <3>2. ~ nulls
      <4> HIDE DEF nulls, value, first, b
      <4> QED
        BY <2>1, <2>4, <3>1
    <3>3. ASSUME NEW i \in DOMAIN Parts(g) PROVE b[Parts(g)[i]] = k[Parts(g)[i]]
      <4>1. Parts(g)[i] \in S /\ Parts(g)[i] \in Nodes
        BY <1>1, NodeShape
      <4>2. xs[i] # Null
        BY <3>2, <3>3
      <4> QED
        BY <4>1, <4>2
    <3>4. xs = ys
      BY <3>3
    <3> DEFINE nulls2 == \E i \in DOMAIN ys : ys[i] = Null
               value2 == IF g.kind = "BinOp" THEN Arithmetic(g.op, ys[1], ys[2]) ELSE Meant(g.func, ys)
               first2 == ValueAt(full, Start(env, row, g.path), Rest(env, g.path))
    <3>5. DenotedNode(full, env, row, g, k)
            = IF g.kind = "Field" THEN first2 ELSE IF g.kind = "Literal" THEN g.value
              ELSE IF ~ Computes(g) \/ nulls2 THEN Null ELSE value2
      BY DEF DenotedNode
    <3> HIDE DEF xs, ys
    <3>6. (nulls <=> nulls2) /\ value = value2
      BY <3>4
    <3> HIDE DEF nulls, nulls2, value, value2, first, first2, b, k
    <3> QED
      BY <2>1, <2>4, <3>1, <3>5, <3>6
  <2> QED
    BY <2>2, <2>3, <2>4
<1> HIDE DEF S
<1>2. \A g \in Nodes : g \in S
  BY <1>1, NodeInduction
<1> QED
  BY <1>2 DEF S

\* What is found true holds whatever the nulls stand for; without a lambda, what is found
\* false does not hold whatever they stand for.
LEMMA SameCertain ==
  ASSUME NEW d \in Possible, NEW full \in Possible, full.model = d.model, full.edges = d.edges,
         \A o \in Objects, x \in Fields : d.value[o][x] # Null => full.value[o][x] = d.value[o][x],
         NEW f \in Nodes
  PROVE  \A scope, env, row, here :
           Reads(d, f, scope, env, row, here) /\ Careful(f, scope) =>
             /\ Sql(d, f, scope, here) = True3 => Meaning(full, f, env, row)
             /\ NoLambda(f, scope) /\ Sql(d, f, scope, here) = False3 => ~ Meaning(full, f, env, row)
<1> DEFINE S == {g \in Nodes : \A scope, env, row, here :
             Reads(d, g, scope, env, row, here) /\ Careful(g, scope) =>
               /\ Sql(d, g, scope, here) = True3 => Meaning(full, g, env, row)
               /\ NoLambda(g, scope) /\ Sql(d, g, scope, here) = False3 => ~ Meaning(full, g, env, row)}
<1>1. ASSUME NEW g \in Nodes, \A i \in DOMAIN Parts(g) : Parts(g)[i] \in S PROVE g \in S
  <2> SUFFICES ASSUME NEW scope, NEW env, NEW row, NEW here,
                      Reads(d, g, scope, env, row, here), Careful(g, scope)
               PROVE  /\ Sql(d, g, scope, here) = True3 => Meaning(full, g, env, row)
                      /\ NoLambda(g, scope) /\ Sql(d, g, scope, here) = False3 => ~ Meaning(full, g, env, row)
    OBVIOUS
  <2>ih. ASSUME NEW i \in DOMAIN Parts(g), NEW s, NEW e, NEW o,
                Reads(d, Parts(g)[i], s, e, row, o), Careful(Parts(g)[i], s)
         PROVE  /\ Sql(d, Parts(g)[i], s, o) = True3 => Meaning(full, Parts(g)[i], e, row)
                /\ NoLambda(Parts(g)[i], s) /\ Sql(d, Parts(g)[i], s, o) = False3 => ~ Meaning(full, Parts(g)[i], e, row)
    <3>1. Parts(g)[i] \in S
      BY <1>1
    <3> QED
      BY <2>ih, <3>1
  <2> HIDE DEF S
  <2>typed. scope \in Seq(Names) /\ env \in [Names -> Objects \union {None}] /\ row \in Objects /\ here \in Objects
    BY DEF Reads
  <2>1. CASE g.kind \in {"Compare", "Call"}
    <3> DEFINE x == Computed(d, scope, here, Left(g))
               v == Computed(d, scope, here, Right(g))
               ys == Operands(Right(g), v)
               x2 == Denoted(full, env, row, Left(g))
               v2 == Denoted(full, env, row, Right(g))
               zs == Operands(Right(g), v2)
    <3>1. Sql(d, g, scope, here) = Compared(g, x, ys)
      BY <2>1, <2>typed, SqlRule
    <3>2. Meaning(full, g, env, row) <=> Satisfied(g, x2, zs)
      BY <2>1, <2>typed, MeaningRule
    <3>3. /\ Left(g) \in Nodes /\ Right(g) \in Nodes
          /\ x = Denoted(d, env, row, Left(g)) /\ v = Denoted(d, env, row, Right(g))
      BY <2>1, ReadsSides
    <3>4. x # Null => x2 = x
      BY <2>typed, <3>3, CompletedDenoted
    <3>5. v # Null => v2 = v
      BY <2>typed, <3>3, CompletedDenoted
    <3>6. ~ NullTest(g)
      BY <2>typed, CarefulParts
    <3> HIDE DEF x, v, x2, v2
    <3>7. Null \notin ys => zs = ys
      BY <3>5 DEF Operands
    <3>8. ys = {} => zs = {} /\ ~ Holds(g, x2, {})
      BY <2>1, NoValues
    <3> HIDE DEF ys, zs
    <3> DEFINE null == Null \in {x} \union ys
    <3>9. Satisfied(g, x2, zs) <=> Null \notin {x2} \union zs /\ Holds(g, x2, zs)
      BY <3>6 DEF Satisfied
    <3>10. Compared(g, x, ys) = IF ys = {} THEN False3 ELSE IF null THEN Unknown ELSE Truth(Holds(g, x, ys))
      BY <3>6 DEF Compared
    <3>11. True3 # False3 /\ True3 # Unknown /\ Unknown # False3
      BY DEF True3, False3, Unknown
    <3>12. CASE ys = {}
      <4>1. Compared(g, x, ys) = False3
        BY <3>10, <3>12
      <4>2. ~ Satisfied(g, x2, zs)
        BY <3>8, <3>9, <3>12
      <4> QED
        BY <3>1, <3>2, <3>11, <4>1, <4>2, Zenon
    <3>13. CASE ys # {} /\ null
      <4>1. Compared(g, x, ys) = Unknown
        BY <3>10, <3>13
      <4> QED
        BY <3>1, <3>11, <4>1
    <3>14. CASE ys # {} /\ ~ null
      <4>1. Compared(g, x, ys) = Truth(Holds(g, x, ys))
        BY <3>10, <3>14
      <4>2. x2 = x /\ zs = ys
        BY <3>4, <3>7, <3>14
      <4>3. Satisfied(g, x2, zs) <=> Holds(g, x, ys)
        BY <3>9, <3>14, <4>2
      <4>4. (Truth(Holds(g, x, ys)) = True3 => Holds(g, x, ys)) /\ (Truth(Holds(g, x, ys)) = False3 => ~ Holds(g, x, ys))
        BY <3>11, Zenon DEF Truth
      <4> QED
        BY <3>1, <3>2, <4>1, <4>3, <4>4, Zenon
    <3> QED
      BY <3>12, <3>13, <3>14
  <2>2. CASE g.kind = "Not"
    <3>1. 1 \in DOMAIN Parts(g) /\ Parts(g)[1] = g.operand /\ g.operand \in Nodes
      BY <2>2, OperandPart
    <3>2. Inner(g, scope) = scope
      BY <2>2, ReadsParts
    <3>3. Reads(d, g.operand, scope, env, row, here) /\ Careful(g.operand, scope) /\ NoLambda(g.operand, scope)
      BY <2>2, <2>typed, <3>1, <3>2, ReadsParts, CarefulParts
    <3>4. /\ Sql(d, g.operand, scope, here) = True3 => Meaning(full, g.operand, env, row)
          /\ Sql(d, g.operand, scope, here) = False3 => ~ Meaning(full, g.operand, env, row)
      BY <2>ih, <3>1, <3>3
    <3>5. Sql(d, g, scope, here) = True3 - Sql(d, g.operand, scope, here)
          /\ Sql(d, g.operand, scope, here) \in {False3, Unknown, True3}
      BY <2>2, <2>typed, <3>1, SqlRule
    <3>6. Meaning(full, g, env, row) <=> ~ Meaning(full, g.operand, env, row)
      BY <2>2, <2>typed, MeaningRule
    <3>7. /\ Sql(d, g, scope, here) = True3 => Sql(d, g.operand, scope, here) = False3
          /\ Sql(d, g, scope, here) = False3 => Sql(d, g.operand, scope, here) = True3
      BY <3>5, ThreeRules
    <3> QED
      BY <3>4, <3>6, <3>7, Zenon
  <2>3. CASE g.kind = "BoolOp"
    <3>1. /\ 1 \in DOMAIN Parts(g) /\ Parts(g)[1] = g.left /\ g.left \in Nodes
          /\ 2 \in DOMAIN Parts(g) /\ Parts(g)[2] = g.right /\ g.right \in Nodes
      BY <2>3, BothParts
    <3>2. Inner(g, scope) = scope
      BY <2>3, ReadsParts
    <3>3. /\ Reads(d, g.left, scope, env, row, here) /\ Careful(g.left, scope)
          /\ Reads(d, g.right, scope, env, row, here) /\ Careful(g.right, scope)
      BY <2>3, <2>typed, <3>1, <3>2, ReadsParts, CarefulParts
    <3>4. NoLambda(g, scope) => NoLambda(g.left, scope) /\ NoLambda(g.right, scope)
      BY <2>typed, <3>1, <3>2, NoLambdaParts
    <3>5. /\ Sql(d, g.left, scope, here) = True3 => Meaning(full, g.left, env, row)
          /\ NoLambda(g.left, scope) /\ Sql(d, g.left, scope, here) = False3 => ~ Meaning(full, g.left, env, row)
      BY <2>ih, <3>1, <3>3
    <3>6. /\ Sql(d, g.right, scope, here) = True3 => Meaning(full, g.right, env, row)
          /\ NoLambda(g.right, scope) /\ Sql(d, g.right, scope, here) = False3 => ~ Meaning(full, g.right, env, row)
      BY <2>ih, <3>1, <3>3
    <3>7. Sql(d, g, scope, here) = IF g.op = "and" THEN Least(Sql(d, g.left, scope, here), Sql(d, g.right, scope, here))
                                   ELSE Greatest(Sql(d, g.left, scope, here), Sql(d, g.right, scope, here))
      BY <2>3, <2>typed, SqlRule
    <3>8. Meaning(full, g, env, row)
            <=> IF g.op = "and" THEN Meaning(full, g.left, env, row) /\ Meaning(full, g.right, env, row)
                ELSE Meaning(full, g.left, env, row) \/ Meaning(full, g.right, env, row)
      BY <2>3, <2>typed, MeaningRule
    <3>9. Sql(d, g.left, scope, here) \in {False3, Unknown, True3} /\ Sql(d, g.right, scope, here) \in {False3, Unknown, True3}
      BY <2>typed, <3>1, SqlRule
    <3> DEFINE a == Sql(d, g.left, scope, here)
               b == Sql(d, g.right, scope, here)
    <3>10. Sql(d, g, scope, here) = True3 <=> IF g.op = "and" THEN a = True3 /\ b = True3 ELSE a = True3 \/ b = True3
      BY <3>7, <3>9, ThreeRules
    <3>11. Sql(d, g, scope, here) = False3 <=> IF g.op = "and" THEN a = False3 \/ b = False3 ELSE a = False3 /\ b = False3
      BY <3>7, <3>9, ThreeRules
    <3> HIDE DEF a, b
    <3> QED
      BY <3>4, <3>5, <3>6, <3>8, <3>10, <3>11 DEF a, b
  <2>4. CASE g.kind = "Lambda"
    <3> DEFINE items == RowsAt(d, Start(env, row, g.owner), Rest(env, g.owner))
               related == Related(d, here, Stripped(scope, g.owner))
               others == RowsAt(full, Start(env, row, g.owner), Rest(env, g.owner))
               Found(c) == Sql(d, g.body, Inner(g, scope), c)
               Says(c) == Meaning(full, g.body, Bind(env, g, c), row)
    <3>1. /\ related = items
          /\ \A c \in items : c \in Objects /\ Reads(d, g.body, Inner(g, scope), Bind(env, g, c), row, c)
      BY <2>4, ReadsBody
    <3>2. 1 \in DOMAIN Parts(g) /\ Parts(g)[1] = g.body /\ g.body \in Nodes
      BY <2>4, BodyPart
    <3>3. Careful(g.body, Inner(g, scope)) /\ g.op = "any"
      BY <2>4, <2>typed, <3>2, CarefulParts
    <3>4. Sql(d, g, scope, here) = Truth(\E c \in related : Found(c) = IF g.op = "any" THEN True3 ELSE False3)
      BY <2>4, <2>typed, SqlLambda, Zenon
    <3>5. Meaning(full, g, env, row) <=> IF g.op = "any" THEN \E c \in others : Says(c) ELSE \A c \in others : Says(c)
      BY <2>4, <2>typed, MeaningLambda, Zenon
    <3>6. g.owner \in Seq(Names) /\ g.owner # <<>>
      BY <2>4, NodeShape DEF Shaped
    <3>7. others = items
      BY <2>typed, <3>6, RestTyped, CompletedRows
    <3> HIDE DEF items, related, others
    <3>8. ASSUME NEW c \in items, Found(c) = True3 PROVE Says(c)
      <4>1. Reads(d, g.body, Inner(g, scope), Bind(env, g, c), row, c)
        BY <3>1
      <4> QED
        BY <2>ih, <3>2, <3>3, <3>8, <4>1
    <3> HIDE DEF Found, Says
    <3>9. Sql(d, g, scope, here) = Truth(\E c \in items : Found(c) = True3)
      BY <3>1, <3>3, <3>4
    <3>10. Meaning(full, g, env, row) <=> \E c \in items : Says(c)
      BY <3>3, <3>5, <3>7
    <3>11. Sql(d, g, scope, here) = True3 => \E c \in items : Found(c) = True3
      BY <3>9 DEF Truth, True3, False3
    <3>12. ~ NoLambda(g, scope)
      BY <2>4, <2>typed, NoLambdaParts
    <3> QED
      BY <3>8, <3>10, <3>11, <3>12
  <2>5. CASE g.kind \notin {"Compare", "Call", "Not", "BoolOp", "Lambda"}
    <3>1. Sql(d, g, scope, here) = True3 /\ True3 # False3
      BY <2>5, <2>typed, SqlRule DEF True3, False3
    <3>2. Meaning(full, g, env, row)
      BY <2>5, <2>typed, MeaningRule
    <3> QED
      BY <3>1, <3>2
  <2> QED
    BY <2>1, <2>2, <2>3, <2>4, <2>5
<1> HIDE DEF S
<1>2. \A g \in Nodes : g \in S
  BY <1>1, NodeInduction
<1> QED
  BY <1>2 DEF S

-----------------------------------------------------------------------------
(* What is well formed is translated, and nothing else                     *)

\* A node is well formed when its parts are and its own conditions hold.
LEMMA FormedWhen ==
  ASSUME NEW f \in Nodes, NEW env \in [Names -> Models \union {None}], NEW model \in Models
  PROVE  LET Fits(g) == WellFormed(g, env, model)
             FitAll == \A i \in DOMAIN Parts(f) : Fits(Parts(f)[i])
         IN  Fits(f) <=>
               /\ f.kind = "Field" => ValuePath(Start(env, model, f.path), Rest(env, f.path))
               /\ f.kind = "Literal" => f.value # Null
               /\ f.kind = "List" => Null \notin f.values
               /\ NullTest(f) => Fits(f.left) /\ f.comparator \in {"eq", "ne"}
               /\ f.kind = "Call" =>
                    /\ Len(f.args) \in Arguments(f.func)
                    /\ f.func = "matchesPattern" => ~ (f.args[2].kind = "Literal" /\ f.args[2].value \in Malformed)
                    /\ f.func \in Lookups \ {"matchesPattern"} =>
                         /\ f.args[1].kind # "BinOp" /\ f.args[2].kind = "Literal"
                         /\ f.args[1].kind = "Field" => Len(Rest(env, f.args[1].path)) = 1
               /\ f.kind # "Lambda" /\ ~ NullTest(f) => FitAll
               /\ f.kind = "Lambda" =>
                    LET owned == Target(Start(env, model, f.owner), Rest(env, f.owner))
                    IN  owned # None /\ WellFormed(f.body, Bind(env, f, owned), model)
<1> DEFINE Fits(g) == WellFormed(g, env, model)
           FitAll == \A i \in DOMAIN Parts(f) : Fits(Parts(f)[i])
           owned == Target(Start(env, model, f.owner), Rest(env, f.owner))
           searches == /\ Len(f.args) \in Arguments(f.func)
                       /\ f.func = "matchesPattern" => ~ (f.args[2].kind = "Literal" /\ f.args[2].value \in Malformed)
                       /\ f.func \in Lookups \ {"matchesPattern"} =>
                            /\ f.args[1].kind # "BinOp" /\ f.args[2].kind = "Literal"
                            /\ f.args[1].kind = "Field" => Len(Rest(env, f.args[1].path)) = 1
           path == ValuePath(Start(env, model, f.path), Rest(env, f.path))
           order == f.comparator \in {"eq", "ne"}
           body == WellFormed(f.body, Bind(env, f, owned), model)
<1>1. PICK p \in [Nodes -> [[Names -> Models \union {None}] -> BOOLEAN]] :
           /\ \A g \in Nodes, e \in [Names -> Models \union {None}] : WellFormed(g, e, model) = p[g][e]
           /\ WellFormed(f, env, model) = WellFormedNode(f, p, env, model)
  BY WellFormedRule
<1>2. ASSUME NEW i \in DOMAIN Parts(f) PROVE Fits(Parts(f)[i]) = p[Parts(f)[i]][env]
  BY <1>1, NodeShape
<1> DEFINE Below(i) == p[Parts(f)[i]][env]
           BelowAll == \A i \in DOMAIN Parts(f) : Below(i)
           below == p[f.body][Bind(env, f, owned)]
<1>3. WellFormedNode(f, p, env, model) <=>
        \/ f.kind = "Field" /\ path
        \/ f.kind = "Literal" /\ f.value # Null
        \/ f.kind = "List" /\ Null \notin f.values
        \/ f.kind = "Compare" /\ (IF NullTest(f) THEN Below(1) /\ order ELSE BelowAll)
        \/ f.kind = "Call" /\ searches /\ BelowAll
        \/ f.kind = "Lambda" /\ owned # None /\ below
        \/ f.kind \in {"BinOp", "Not", "BoolOp"} /\ BelowAll
        \/ f.kind = "AnyRow"
  BY Zenon DEF WellFormedNode
<1>4. BelowAll <=> FitAll
  <2> HIDE DEF Fits
  <2> QED
    BY <1>2
<1>5. NullTest(f) => f.kind = "Compare" /\ (Below(1) <=> Fits(f.left))
  <2> SUFFICES ASSUME NullTest(f) PROVE f.kind = "Compare" /\ (Below(1) <=> Fits(f.left))
    OBVIOUS
  <2>1. f.kind = "Compare"
    BY DEF NullTest
  <2>2. 1 \in DOMAIN Parts(f) /\ Parts(f)[1] = f.left
    BY <2>1, BothParts
  <2>3. Fits(Parts(f)[1]) = Below(1)
    BY <1>2, <2>2
  <2> QED
    BY <2>1, <2>2, <2>3
<1>6. f.kind = "Lambda" /\ owned # None => (below <=> body)
  <2> SUFFICES ASSUME f.kind = "Lambda" /\ owned # None PROVE below <=> body
    OBVIOUS
  <2>1. f.owner \in Seq(Names) /\ f.owner # <<>> /\ f.body \in Nodes
    BY NodeShape DEF Shaped
  <2>2. Start(env, model, f.owner) \in Models /\ Rest(env, f.owner) \in Seq(Names)
    BY <2>1, RestTyped
  <2>3. owned \in Models
    BY <2>2, TargetTyped
  <2> HIDE DEF owned
  <2>4. Bind(env, f, owned) \in [Names -> Models \union {None}]
    BY <2>3, BindTyped
  <2>5. WellFormed(f.body, Bind(env, f, owned), model) = p[f.body][Bind(env, f, owned)]
    BY <1>1, <2>1, <2>4
  <2> QED
    BY <2>5
<1>7. f.kind \in {"Field", "Literal", "List", "BinOp", "Call", "Compare", "Not", "BoolOp", "AnyRow", "Lambda"}
  BY NodeShape DEF Shaped
<1>8. f.kind \in {"Field", "Literal", "List", "AnyRow"} => FitAll
  <2> HIDE DEF Fits
  <2> QED
    BY NodeShape
<1> HIDE DEF Fits, FitAll, owned, searches, path, order, body, Below, BelowAll, below
<1>9. Fits(f) <=>
        /\ f.kind = "Field" => path
        /\ f.kind = "Literal" => f.value # Null
        /\ f.kind = "List" => Null \notin f.values
        /\ NullTest(f) => Fits(f.left) /\ order
        /\ f.kind = "Call" => searches
        /\ f.kind # "Lambda" /\ ~ NullTest(f) => FitAll
        /\ f.kind = "Lambda" => owned # None /\ body
  <2>1. Fits(f) <=> WellFormedNode(f, p, env, model)
    BY <1>1 DEF Fits
  <2> QED
    BY <1>3, <1>4, <1>5, <1>6, <1>7, <1>8, <2>1
<1> QED
  BY <1>9, Zenon DEF Fits, FitAll, owned, searches, path, order, body

\* No field stands for a condition in an expression when none does among its parts, nor below.
LEMMA ExplicitWhen ==
  ASSUME NEW f \in Nodes, NEW scope \in Seq(Names)
  PROVE  Explicit(f, scope)
           <=> /\ f.kind \in {"Not", "BoolOp", "Lambda"} => \A i \in DOMAIN Parts(f) : Parts(f)[i].kind # "Field"
               /\ \A i \in DOMAIN Parts(f) : Explicit(Parts(f)[i], Inner(f, scope))
<1> DEFINE Ok(place) == place[1].kind \in {"Not", "BoolOp", "Lambda"} =>
                          \A i \in DOMAIN Parts(place[1]) : Parts(place[1])[i].kind # "Field"
           below == UNION {Placed(Parts(f)[i], Inner(f, scope)) : i \in DOMAIN Parts(f)}
<1>1. Explicit(f, scope) <=> \A place \in Placed(f, scope) : Ok(place)
  BY DEF Explicit
<1>2. \A i \in DOMAIN Parts(f) :
        Explicit(Parts(f)[i], Inner(f, scope)) <=> \A place \in Placed(Parts(f)[i], Inner(f, scope)) : Ok(place)
  BY DEF Explicit
<1>3. Ok(<<f, scope>>)
        <=> (f.kind \in {"Not", "BoolOp", "Lambda"} => \A i \in DOMAIN Parts(f) : Parts(f)[i].kind # "Field")
  OBVIOUS
<1> HIDE DEF Ok
<1>4. (\A place \in Placed(f, scope) : Ok(place)) <=> Ok(<<f, scope>>) /\ \A place \in below : Ok(place)
  <2>1. <<f, scope>> \in Placed(f, scope)
    BY PlacedRule, Zenon
  <2>2. ASSUME NEW place \in below PROVE place \in Placed(f, scope)
    <3>1. PICK i \in DOMAIN Parts(f) : place \in Placed(Parts(f)[i], Inner(f, scope))
      OBVIOUS
    <3> QED
      BY <3>1, PlacedRule
  <2>3. ASSUME NEW place \in Placed(f, scope), place # <<f, scope>> PROVE place \in below
    <3>1. \E i \in DOMAIN Parts(f) : place \in Placed(Parts(f)[i], Inner(f, scope))
      BY <2>3, PlacedRule, Zenon
    <3>2. PICK i \in DOMAIN Parts(f) : place \in Placed(Parts(f)[i], Inner(f, scope))
      BY <3>1
    <3> QED
      BY <3>2
  <2> HIDE DEF below
  <2> QED
    BY <2>1, <2>2, <2>3, Zenon
<1>5. (\A place \in below : Ok(place))
        <=> \A i \in DOMAIN Parts(f) : \A place \in Placed(Parts(f)[i], Inner(f, scope)) : Ok(place)
  OBVIOUS
<1> QED
  BY <1>1, <1>2, <1>3, <1>4, <1>5

\* What is well formed never crashes a visitor, whatever field stands for a condition in it.
LEMMA FormedNotCrashed ==
  ASSUME NEW f \in Nodes, NEW model \in Models
  PROVE  \A scope \in Seq(Names), env \in [Names -> Models \union {None}], here \in Models :
           Context(scope, env, model, here) /\ Local(f, scope) /\ WellFormed(f, env, model) =>
             Translated(here, scope, f) # "crashed"
<1> DEFINE S == {g \in Nodes : \A scope \in Seq(Names), env \in [Names -> Models \union {None}], here \in Models :
             Context(scope, env, model, here) /\ Local(g, scope) /\ WellFormed(g, env, model) =>
               Translated(here, scope, g) # "crashed"}
<1>1. ASSUME NEW g \in Nodes, \A i \in DOMAIN Parts(g) : Parts(g)[i] \in S PROVE g \in S
  <2> SUFFICES ASSUME NEW scope \in Seq(Names), NEW env \in [Names -> Models \union {None}], NEW here \in Models,
                      Context(scope, env, model, here), Local(g, scope), WellFormed(g, env, model)
               PROVE  Translated(here, scope, g) # "crashed"
    OBVIOUS
  <2>ih. ASSUME NEW i \in DOMAIN Parts(g), NEW s \in Seq(Names), NEW e \in [Names -> Models \union {None}],
                NEW m \in Models, Context(s, e, model, m), Local(Parts(g)[i], s), WellFormed(Parts(g)[i], e, model)
         PROVE  Translated(m, s, Parts(g)[i]) # "crashed"
    <3>1. Parts(g)[i] \in S
      BY <1>1
    <3> QED
      BY <2>ih, <3>1
  <2> HIDE DEF S
  <2> DEFINE owned == Target(Start(env, model, g.owner), Rest(env, g.owner))
             fits(h) == WellFormed(h, env, model)
  <2>1. /\ g.kind = "Literal" => g.value # Null
        /\ g.kind = "List" => Null \notin g.values
        /\ g.kind = "Call" => Len(g.args) \in Arguments(g.func)
        /\ NullTest(g) => fits(g.left)
        /\ g.kind # "Lambda" /\ ~ NullTest(g) => \A i \in DOMAIN Parts(g) : fits(Parts(g)[i])
        /\ g.kind = "Lambda" => owned # None /\ WellFormed(g.body, Bind(env, g, owned), model)
    BY FormedWhen, Zenon
  <2>2. ASSUME NEW i \in DOMAIN Parts(g), g.kind # "Lambda", fits(Parts(g)[i])
        PROVE  Translated(here, scope, Parts(g)[i]) # "crashed"
    <3>1. Inner(g, scope) = scope
      BY <2>2 DEF Inner
    <3>2. Local(Parts(g)[i], scope)
      BY <3>1, LocalParts
    <3> QED
      BY <2>ih, <2>2, <3>2
  <2>3. NullTest(g) => Translated(here, scope, g.left) # "crashed"
    <3> SUFFICES ASSUME NullTest(g) PROVE Translated(here, scope, g.left) # "crashed"
      OBVIOUS
    <3>1. g.kind = "Compare"
      BY DEF NullTest
    <3>2. 1 \in DOMAIN Parts(g) /\ Parts(g)[1] = g.left
      BY <3>1, BothParts
    <3> HIDE DEF fits
    <3>3. fits(Parts(g)[1])
      BY <2>1, <3>2
    <3>4. Translated(here, scope, Parts(g)[1]) # "crashed"
      BY <2>2, <3>1, <3>2, <3>3
    <3> QED
      BY <3>2, <3>4
  <2>4. ASSUME g.kind = "Lambda"
        PROVE  Translated(Target(here, Stripped(scope, g.owner)), Inner(g, scope), g.body) # "crashed"
    <3>1. g.owner \in Seq(Names) /\ g.owner # <<>> /\ None \notin Models
      BY <2>4, NodeShape, ValueAssumption DEF Shaped
    <3>2. LocalPath(scope, g.owner)
      BY <2>4, LocalParts
    <3>3. Stripped(scope, g.owner) = Rest(env, g.owner) /\ Start(env, model, g.owner) = here
      BY <3>1, <3>2, LocalSplit
    <3>4. 1 \in DOMAIN Parts(g) /\ Parts(g)[1] = g.body
      BY <2>4, BodyPart
    <3>5. owned \in Models \union {None} /\ Inner(g, scope) \in Seq(Names)
      <4>1. Rest(env, g.owner) \in Seq(Names)
        BY <3>1, RestTyped
      <4> QED
        BY <3>3, <4>1, TargetTyped, InnerTyped
    <3>6. owned = Target(here, Stripped(scope, g.owner))
      BY <3>3
    <3> HIDE DEF owned, fits
    <3>7. owned \in Models
      BY <2>1, <2>4, <3>5
    <3>8. Bind(env, g, owned) \in [Names -> Models \union {None}]
      BY <3>7, BindTyped
    <3>9. Context(Inner(g, scope), Bind(env, g, owned), model, owned)
      BY <2>4, <3>1, <3>7, ContextInner
    <3>10. Local(Parts(g)[1], Inner(g, scope))
      BY <3>4, LocalParts
    <3>11. WellFormed(Parts(g)[1], Bind(env, g, owned), model)
      BY <2>1, <2>4, <3>4
    <3>12. Translated(owned, Inner(g, scope), Parts(g)[1]) # "crashed"
      BY <2>ih, <3>4, <3>5, <3>7, <3>8, <3>9, <3>10, <3>11
    <3> QED
      BY <3>4, <3>6, <3>12
  <2> HIDE DEF fits, owned
  <2>5. g.kind # "Lambda" /\ ~ NullTest(g) => \A i \in DOMAIN Parts(g) : Translated(here, scope, Parts(g)[i]) # "crashed"
    BY <2>1, <2>2
  <2> QED
    BY <2>1, <2>3, <2>4, <2>5, NotCrashed
<1> HIDE DEF S
<1>2. \A g \in Nodes : g \in S
  BY <1>1, NodeInduction
<1> QED
  BY <1>2 DEF S

\* For a filter whose lambdas speak of themselves, the two judgements agree.
LEMMA SameJudgement ==
  ASSUME NEW f \in Nodes, NEW model \in Models
  PROVE  \A scope \in Seq(Names), env \in [Names -> Models \union {None}], here \in Models :
           Context(scope, env, model, here) /\ Local(f, scope) =>
             /\ WellFormed(f, env, model) /\ Explicit(f, scope) =>
                  Parsed(f) # "refused" /\ Translated(here, scope, f) = "fine" /\ (f.kind # "Field" => ~ Bare(f))
             /\ Parsed(f) = "fine" /\ Translated(here, scope, f) = "fine" /\ (IsTest(f) => ~ Bare(f)) =>
                  WellFormed(f, env, model) /\ Explicit(f, scope)
<1> DEFINE Sound(g, scope, env) == WellFormed(g, env, model) /\ Explicit(g, scope)
           Agree(g, scope, env, here) ==
             /\ Sound(g, scope, env) =>
                  Parsed(g) # "refused" /\ Translated(here, scope, g) = "fine" /\ (g.kind # "Field" => ~ Bare(g))
             /\ Parsed(g) = "fine" /\ Translated(here, scope, g) = "fine" /\ (IsTest(g) => ~ Bare(g)) =>
                  Sound(g, scope, env)
           S == {g \in Nodes : \A scope \in Seq(Names), env \in [Names -> Models \union {None}], here \in Models :
             Context(scope, env, model, here) /\ Local(g, scope) => Agree(g, scope, env, here)}
<1>1. ASSUME NEW g \in Nodes, \A i \in DOMAIN Parts(g) : Parts(g)[i] \in S PROVE g \in S
  <2> SUFFICES ASSUME NEW scope \in Seq(Names), NEW env \in [Names -> Models \union {None}], NEW here \in Models,
                      Context(scope, env, model, here), Local(g, scope)
               PROVE  Agree(g, scope, env, here)
    OBVIOUS
  <2>ih. ASSUME NEW i \in DOMAIN Parts(g), NEW s \in Seq(Names), NEW e \in [Names -> Models \union {None}],
                NEW m \in Models, Context(s, e, model, m), Local(Parts(g)[i], s)
         PROVE  Agree(Parts(g)[i], s, e, m)
    <3>1. Parts(g)[i] \in S
      BY <1>1
    <3> HIDE DEF Agree
    <3> QED
      BY <2>ih, <3>1
  <2> HIDE DEF S, Agree, Sound
  <2>none. None \notin Models
    BY ValueAssumption
  <2>kinds. g.kind \in {"Field", "Literal", "List", "BinOp", "Call", "Compare", "Not", "BoolOp", "AnyRow", "Lambda"}
    BY NodeShape DEF Shaped
  <2>parsed. /\ Parsed(g) \in Outcomes
             /\ Parsed(g) = "fine" <=> Reduced(g) = "fine" /\ \A i \in DOMAIN Parts(g) : Parsed(Parts(g)[i]) = "fine"
             /\ Parsed(g) = "refused" => Reduced(g) = "refused" \/ \E i \in DOMAIN Parts(g) : Parsed(Parts(g)[i]) = "refused"
    BY ParsedRule
  <2>bare. Bare(g) <=> \/ g.kind = "Field"
                       \/ g.kind \in {"Not", "BoolOp"} /\ \E i \in DOMAIN Parts(g) : Bare(Parts(g)[i])
    BY BareRule
  <2>explicit. Explicit(g, scope)
                 <=> /\ g.kind \in {"Not", "BoolOp", "Lambda"} => \A i \in DOMAIN Parts(g) : Parts(g)[i].kind # "Field"
                     /\ \A i \in DOMAIN Parts(g) : Explicit(Parts(g)[i], Inner(g, scope))
    BY ExplicitWhen
  <2>inner. g.kind # "Lambda" => Inner(g, scope) = scope
    BY DEF Inner
  <2>reduced. g.kind \notin {"Call", "Lambda"} => Reduced(g) = "fine"
    BY DEF Reduced
  <2>same. ASSUME NEW i \in DOMAIN Parts(g), g.kind # "Lambda" PROVE Agree(Parts(g)[i], scope, env, here)
    <3>1. Inner(g, scope) = scope
      BY <2>same DEF Inner
    <3>2. Local(Parts(g)[i], scope)
      BY <3>1, LocalParts
    <3> QED
      BY <2>ih, <3>2
  <2>1. CASE g.kind \in {"Field", "Literal", "List", "AnyRow"}
    <3>1. Parts(g) = <<>>
      BY <2>1, NodeShape
    <3>2. DOMAIN Parts(g) = {}
      BY <3>1
    <3>3. Parsed(g) = "fine"
      BY <2>1, <2>parsed, <2>reduced, <3>2
    <3>4. ~ NullTest(g)
      BY <2>1 DEF NullTest
    <3>5. g.kind = "Field" => (ValuePath(Start(env, model, g.path), Rest(env, g.path)) <=> ValuePath(here, Stripped(scope, g.path)))
      <4> SUFFICES ASSUME g.kind = "Field"
                   PROVE  ValuePath(Start(env, model, g.path), Rest(env, g.path)) <=> ValuePath(here, Stripped(scope, g.path))
        OBVIOUS
      <4>1. g.path \in Seq(Names) /\ g.path # <<>>
        BY NodeShape DEF Shaped
      <4>2. LocalPath(scope, g.path)
        BY LocalParts
      <4>3. Stripped(scope, g.path) = Rest(env, g.path) /\ Start(env, model, g.path) = here
        BY <2>none, <4>1, <4>2, LocalSplit
      <4> QED
        BY <4>3
    <3>6. Translated(here, scope, g) = "fine"
            <=> /\ g.kind = "Field" => ValuePath(here, Stripped(scope, g.path))
                /\ g.kind = "Literal" => g.value # Null
                /\ g.kind = "List" => Null \notin g.values
      BY <2>1, <3>2, <3>4, FineWhen
    <3>7. WellFormed(g, env, model)
            <=> /\ g.kind = "Field" => ValuePath(Start(env, model, g.path), Rest(env, g.path))
                /\ g.kind = "Literal" => g.value # Null
                /\ g.kind = "List" => Null \notin g.values
      BY <2>1, <3>2, <3>4, FormedWhen
    <3>8. WellFormed(g, env, model) <=> Translated(here, scope, g) = "fine"
      BY <3>5, <3>6, <3>7
    <3>9. g.kind # "Field" => ~ Bare(g)
      BY <2>bare, <3>2
    <3>10. Explicit(g, scope)
      BY <2>1, <2>explicit, <3>2
    <3> QED
      BY <3>3, <3>8, <3>9, <3>10 DEF Agree, Sound
  <2>2. CASE g.kind \in {"Not", "BoolOp"}
    <3>1. ~ NullTest(g) /\ g.kind \notin {"Field", "Literal", "List", "Call", "Lambda"} /\ IsTest(g)
      BY <2>2 DEF NullTest, IsTest
    <3>2. Sound(g, scope, env) <=> /\ \A i \in DOMAIN Parts(g) : Sound(Parts(g)[i], scope, env)
                                   /\ \A i \in DOMAIN Parts(g) : Parts(g)[i].kind # "Field"
      <4>1. WellFormed(g, env, model) <=> \A i \in DOMAIN Parts(g) : WellFormed(Parts(g)[i], env, model)
        BY <2>2, <3>1, FormedWhen
      <4>2. Explicit(g, scope) <=> /\ \A i \in DOMAIN Parts(g) : Parts(g)[i].kind # "Field"
                                   /\ \A i \in DOMAIN Parts(g) : Explicit(Parts(g)[i], scope)
        BY <2>2, <2>explicit, <2>inner, <3>1
      <4> QED
        BY <4>1, <4>2 DEF Sound
    <3>3. Translated(here, scope, g) = "fine"
            <=> /\ \A i \in DOMAIN Parts(g) : Translated(here, scope, Parts(g)[i]) = "fine"
                /\ g.kind = "BoolOp" => ~ Bare(g)
      BY <3>1, FineWhen
    <3>4. ASSUME Sound(g, scope, env)
          PROVE  Parsed(g) # "refused" /\ Translated(here, scope, g) = "fine" /\ ~ Bare(g)
      <4>1. ASSUME NEW i \in DOMAIN Parts(g)
            PROVE Parsed(Parts(g)[i]) # "refused" /\ Translated(here, scope, Parts(g)[i]) = "fine" /\ ~ Bare(Parts(g)[i])
        BY <2>same, <3>1, <3>2, <3>4 DEF Agree
      <4>2. ~ Bare(g)
        BY <2>bare, <3>1, <4>1
      <4> QED
        BY <2>parsed, <2>reduced, <3>1, <3>3, <4>1, <4>2
    <3>5. ASSUME Parsed(g) = "fine", Translated(here, scope, g) = "fine", ~ Bare(g)
          PROVE  Sound(g, scope, env)
      <4>1. ASSUME NEW i \in DOMAIN Parts(g) PROVE Sound(Parts(g)[i], scope, env) /\ Parts(g)[i].kind # "Field"
        <5>1. ~ Bare(Parts(g)[i])
          BY <2>2, <2>bare, <3>5
        <5>2. Parsed(Parts(g)[i]) = "fine" /\ Translated(here, scope, Parts(g)[i]) = "fine"
          BY <2>parsed, <3>3, <3>5
        <5>3. Parts(g)[i].kind # "Field"
          BY <5>1, NodeShape, BareRule
        <5> QED
          BY <2>same, <3>1, <5>1, <5>2, <5>3 DEF Agree
      <4> QED
        BY <3>2, <4>1
    <3> QED
      BY <3>1, <3>4, <3>5, Zenon DEF Agree
  <2>3. CASE NullTest(g)
    <3>1. g.kind = "Compare" /\ g.right.kind = "Literal"
      BY <2>3 DEF NullTest
    <3>2. /\ 1 \in DOMAIN Parts(g) /\ Parts(g)[1] = g.left /\ g.left \in Nodes
          /\ 2 \in DOMAIN Parts(g) /\ Parts(g)[2] = g.right /\ g.right \in Nodes
          /\ DOMAIN Parts(g) = 1 .. 2
      BY <3>1, BothParts
    <3>3. ~ Bare(g) /\ ~ IsTest(g.left)
      BY <2>bare, <3>1, <3>2, NodeShape DEF Typed
    <3>4. WellFormed(g, env, model) <=> WellFormed(g.left, env, model) /\ g.comparator \in {"eq", "ne"}
      BY <2>3, <3>1, FormedWhen
    <3>5. Translated(here, scope, g) = "fine" <=> Translated(here, scope, g.left) = "fine" /\ g.comparator \in {"eq", "ne"}
      BY <2>3, <3>1, FineWhen DEF NullsTyped
    <3>6. Agree(g.left, scope, env, here)
      BY <2>same, <3>1, <3>2
    <3>7. Parsed(g.right) = "fine"
      <4>1. Parts(g.right) = <<>>
        BY <3>1, <3>2, NodeShape
      <4>2. DOMAIN Parts(g.right) = {} /\ Reduced(g.right) = "fine"
        BY <3>1, <4>1 DEF Reduced
      <4> QED
        BY <3>2, <4>2, ParsedRule
    <3>8. Parsed(g) = "refused" => Parsed(g.left) = "refused"
      <4> SUFFICES ASSUME Parsed(g) = "refused" PROVE Parsed(g.left) = "refused"
        OBVIOUS
      <4>1. PICK i \in DOMAIN Parts(g) : Parsed(Parts(g)[i]) = "refused"
        BY <2>parsed, <2>reduced, <3>1
      <4>2. i = 1 \/ i = 2
        BY <3>2
      <4> QED
        BY <3>2, <3>7, <4>1, <4>2
    <3>9. Parsed(g) = "fine" => Parsed(g.left) = "fine"
      BY <2>parsed, <3>2
    <3>10. Explicit(g.right, scope)
      <4>1. Parts(g.right) = <<>>
        BY <3>1, <3>2, NodeShape
      <4>2. DOMAIN Parts(g.right) = {} /\ g.right.kind \notin {"Not", "BoolOp", "Lambda"}
        BY <3>1, <4>1
      <4> QED
        BY <3>2, <4>2, ExplicitWhen
    <3>11. Explicit(g, scope) <=> Explicit(g.left, scope)
      <4>1. Explicit(g, scope) <=> \A i \in DOMAIN Parts(g) : Explicit(Parts(g)[i], scope)
        BY <2>explicit, <2>inner, <3>1
      <4>2. \A i \in DOMAIN Parts(g) : Parts(g)[i] = g.left \/ Parts(g)[i] = g.right
        BY <3>2
      <4> QED
        BY <3>2, <3>10, <4>1, <4>2
    <3> QED
      BY <3>3, <3>4, <3>5, <3>6, <3>8, <3>9, <3>11, Zenon DEF Agree, Sound
  <2>4. CASE g.kind \in {"BinOp", "Compare", "Call"} /\ ~ NullTest(g)
    <3>1. g.kind \notin {"Field", "Literal", "List", "Lambda", "Not", "BoolOp"} /\ ~ Bare(g)
      BY <2>4, <2>bare
    <3> DEFINE formed == /\ Len(g.args) \in Arguments(g.func)
                         /\ g.func = "matchesPattern" => ~ (g.args[2].kind = "Literal" /\ g.args[2].value \in Malformed)
                         /\ g.func \in Lookups \ {"matchesPattern"} =>
                              /\ g.args[1].kind # "BinOp" /\ g.args[2].kind = "Literal"
                              /\ g.args[1].kind = "Field" => Len(Rest(env, g.args[1].path)) = 1
               fine == Len(g.args) \in Arguments(g.func) /\ (g.func \in Lookups => Searches(g, scope))
               FitAll == \A i \in DOMAIN Parts(g) : Sound(Parts(g)[i], scope, env)
               FineAll == \A i \in DOMAIN Parts(g) : Translated(here, scope, Parts(g)[i]) = "fine"
    <3>2. Sound(g, scope, env) <=> FitAll /\ (g.kind = "Call" => formed)
      <4>1. WellFormed(g, env, model) <=> (\A i \in DOMAIN Parts(g) : WellFormed(Parts(g)[i], env, model))
                                           /\ (g.kind = "Call" => formed)
        BY <2>4, <3>1, FormedWhen
      <4>2. Explicit(g, scope) <=> \A i \in DOMAIN Parts(g) : Explicit(Parts(g)[i], scope)
        BY <2>explicit, <2>inner, <3>1
      <4> HIDE DEF formed
      <4> QED
        BY <4>1, <4>2 DEF Sound
    <3>3. Translated(here, scope, g) = "fine" <=> FineAll /\ (g.kind = "Call" => fine)
      BY <2>4, <3>1, FineWhen
    <3>4. ASSUME NEW i \in DOMAIN Parts(g) PROVE ~ IsTest(Parts(g)[i]) /\ Agree(Parts(g)[i], scope, env, here)
      BY <2>4, <2>same, NodeShape DEF Typed
    <3>5. FitAll => FineAll /\ \A i \in DOMAIN Parts(g) : Parsed(Parts(g)[i]) # "refused"
      BY <3>4 DEF Agree
    <3>6. FineAll /\ (\A i \in DOMAIN Parts(g) : Parsed(Parts(g)[i]) = "fine") => FitAll
      BY <3>4 DEF Agree
    <3>7. ASSUME g.kind = "Call", FineAll PROVE formed <=> fine
      <4>1. CASE Len(g.args) \in Arguments(g.func) /\ g.func = "matchesPattern"
        <5>1. g.func \in Lookups /\ g.func \notin Lookups \ {"matchesPattern"}
          BY <4>1 DEF Lookups
        <5>2. Searches(g, scope) <=> ~ (g.args[2].kind = "Literal" /\ g.args[2].value \in Malformed)
          BY <4>1 DEF Searches
        <5> QED
          BY <4>1, <5>1, <5>2, Zenon
      <4>2. CASE Len(g.args) \in Arguments(g.func) /\ g.func # "matchesPattern" /\ g.func \in Lookups
        <5>1. Parts(g) = g.args /\ g.args \in Seq(Nodes)
          BY <3>7, NodeShape
        <5>2. Len(g.args) = 2
          BY <4>2 DEF Arguments
        <5>3. 1 \in DOMAIN Parts(g) /\ 2 \in DOMAIN Parts(g) /\ g.args[1] \in Nodes /\ g.args[2] \in Nodes
          BY <5>1, <5>2
        <5>4. g.args[1].kind \in {"Field", "Literal", "Call"} <=> g.args[1].kind # "BinOp"
          <6>1. ~ IsTest(g.args[1]) /\ g.args[1].kind # "List"
            BY <3>1, <3>4, <3>7, <5>1, <5>3, NodeShape DEF Typed
          <6>2. g.args[1].kind \in {"Field", "Literal", "List", "BinOp", "Call", "Compare", "Not", "BoolOp", "AnyRow", "Lambda"}
            BY <5>3, NodeShape DEF Shaped
          <6> QED
            BY <6>1, <6>2 DEF IsTest
        <5>5. g.args[1].kind = "Field" => Stripped(scope, g.args[1].path) = Rest(env, g.args[1].path)
          <6> SUFFICES ASSUME g.args[1].kind = "Field" PROVE Stripped(scope, g.args[1].path) = Rest(env, g.args[1].path)
            OBVIOUS
          <6>1. g.args[1].path \in Seq(Names) /\ g.args[1].path # <<>>
            BY <5>3, NodeShape DEF Shaped
          <6>2. Inner(g, scope) = scope
            BY <3>7 DEF Inner
          <6>3. Local(g.args[1], scope)
            BY <5>1, <5>3, <6>2, LocalParts
          <6>4. LocalPath(scope, g.args[1].path)
            BY <5>3, <6>3, LocalParts
          <6> QED
            BY <2>none, <6>1, <6>4, LocalSplit
        <5>6. g.args[2].kind = "Literal" => g.args[2].value # Null
          <6>1. Translated(here, scope, g.args[2]) = "fine"
            BY <3>7, <5>1, <5>3
          <6> QED
            BY <5>3, <6>1, FineWhen
        <5>7. Searches(g, scope) <=> /\ g.args[1].kind \in {"Field", "Literal", "Call"}
                                     /\ g.args[1].kind = "Field" => Len(Stripped(scope, g.args[1].path)) = 1
                                     /\ g.args[2].kind = "Literal" /\ g.args[2].value # Null
          BY <4>2 DEF Searches
        <5> QED
          BY <4>2, <5>4, <5>5, <5>6, <5>7
      <4>3. CASE Len(g.args) \notin Arguments(g.func) \/ g.func \notin Lookups
        BY <4>3 DEF Lookups
      <4> QED
        BY <4>1, <4>2, <4>3
    <3>8. ASSUME FitAll, g.kind = "Call" => formed PROVE Parsed(g) # "refused"
      <4>1. \A i \in DOMAIN Parts(g) : Parsed(Parts(g)[i]) # "refused"
        BY <3>5, <3>8
      <4>2. Reduced(g) # "refused"
        BY <3>1, <3>8 DEF Reduced, Check
      <4> QED
        BY <2>parsed, <4>1, <4>2
    <3>9. Parsed(g) = "fine" => \A i \in DOMAIN Parts(g) : Parsed(Parts(g)[i]) = "fine"
      BY <2>parsed
    <3>10. Sound(g, scope, env) => Parsed(g) # "refused" /\ Translated(here, scope, g) = "fine" /\ ~ Bare(g)
      <4> HIDE DEF formed, fine, FitAll, FineAll
      <4> QED
        BY <3>1, <3>2, <3>3, <3>5, <3>7, <3>8, Zenon
    <3>11. Parsed(g) = "fine" /\ Translated(here, scope, g) = "fine" => Sound(g, scope, env)
      <4> HIDE DEF formed, fine, FitAll, FineAll
      <4> QED
        BY <3>2, <3>3, <3>6, <3>7, <3>9, Zenon
    <3> QED
      BY <3>10, <3>11, Zenon DEF Agree
  <2>5. CASE g.kind = "Lambda"
    <3> DEFINE owned == Target(Start(env, model, g.owner), Rest(env, g.owner))
               inner == Inner(g, scope)
               bound == Bind(env, g, owned)
    <3>1. g.owner \in Seq(Names) /\ g.owner # <<>> /\ ~ NullTest(g)
      BY <2>5, NodeShape DEF Shaped, NullTest
    <3>2. LocalPath(scope, g.owner)
      BY <2>5, LocalParts
    <3>3. Stripped(scope, g.owner) = Rest(env, g.owner) /\ Start(env, model, g.owner) = here
      BY <2>none, <3>1, <3>2, LocalSplit
    <3>4. 1 \in DOMAIN Parts(g) /\ Parts(g)[1] = g.body /\ g.body \in Nodes /\ DOMAIN Parts(g) = {1}
      <4>1. Parts(g) = <<g.body>>
        BY <2>5, NodeShape
      <4> QED
        BY <2>5, <4>1, BodyPart
    <3>5. owned \in Models \union {None} /\ inner \in Seq(Names)
      <4>1. Rest(env, g.owner) \in Seq(Names)
        BY <3>1, RestTyped
      <4> QED
        BY <3>3, <4>1, TargetTyped, InnerTyped
    <3>6. Sound(g, scope, env) <=> g.body.kind # "Field" /\ owned # None /\ Sound(g.body, inner, bound)
      <4>1. WellFormed(g, env, model) <=> owned # None /\ WellFormed(g.body, bound, model)
        BY <2>5, <3>1, FormedWhen
      <4>2. Explicit(g, scope) <=> g.body.kind # "Field" /\ Explicit(g.body, inner)
        BY <2>5, <2>explicit, <3>4
      <4> HIDE DEF owned, bound, inner
      <4> QED
        BY <4>1, <4>2 DEF Sound
    <3>7. Translated(here, scope, g) = "fine" <=> owned # None /\ ~ Bare(g.body) /\ Translated(owned, inner, g.body) = "fine"
      BY <2>5, <3>1, <3>3, FineWhen
    <3> HIDE DEF owned, inner
    <3>8. ASSUME owned # None PROVE Agree(g.body, inner, bound, owned)
      <4>1. owned \in Models
        BY <3>5, <3>8
      <4>2. bound \in [Names -> Models \union {None}]
        BY <4>1, BindTyped
      <4>3. Context(inner, bound, model, owned)
        BY <2>5, <2>none, <4>1, ContextInner DEF inner
      <4>4. Local(Parts(g)[1], inner)
        BY <3>4, LocalParts DEF inner
      <4> QED
        BY <2>ih, <3>4, <3>5, <4>1, <4>2, <4>3, <4>4
    <3>9. ~ Bare(g)
      BY <2>5, <2>bare
    <3>10. Reduced(g) # "refused"
      BY <2>5 DEF Reduced
    <3>11. (Parsed(g) = "refused" => Parsed(g.body) = "refused") /\ (Parsed(g) = "fine" => Parsed(g.body) = "fine")
      BY <2>parsed, <3>4, <3>10
    <3>12. ~ Bare(g.body) => g.body.kind # "Field"
      BY <3>4, BareRule
    <3> HIDE DEF bound
    <3>13. Sound(g, scope, env) => Parsed(g) # "refused" /\ Translated(here, scope, g) = "fine"
      BY <3>6, <3>7, <3>8, <3>11, Zenon DEF Agree
    <3>14. Parsed(g) = "fine" /\ Translated(here, scope, g) = "fine" => Sound(g, scope, env)
      BY <3>6, <3>7, <3>8, <3>11, <3>12, Zenon DEF Agree
    <3> QED
      BY <3>9, <3>13, <3>14, Zenon DEF Agree
  <2> QED
    BY <2>kinds, <2>1, <2>2, <2>3, <2>4, <2>5
<1> HIDE DEF S
<1>2. \A g \in Nodes : g \in S
  BY <1>1, NodeInduction
<1> QED
  BY <1>2 DEF S

-----------------------------------------------------------------------------
(* The theorems                                                            *)

\* What a stage says of the filter and of the rows
StageFits ==
  /\ stage \in {"parsed", "translated", "answered"} => Parsed(filter) = "fine"
  /\ stage \in {"translated", "answered"} => Judged = "fine"
  /\ stage \in {"refused", "crashed"} =>
       stage = Parsed(filter) \/ (Parsed(filter) = "fine" /\ stage = Judged)
  /\ stage = "answered" =>
       answer = {o \in Objects : db.model[o] = root /\ Sql(db, filter, <<>>, o) = True3}
Inv == TypeOK /\ StageFits

\* A filter that is passed is an expression, and a condition or a field.
LEMMA FilterShape ==
  ASSUME NEW model, NEW f, <<model, f>> \in Filters
  PROVE  /\ model \in Models /\ f \in Nodes /\ (IsTest(f) \/ f.kind = "Field")
         /\ Parsed(f) \in Outcomes
<1>1. model \in Models /\ f \in {g \in Nodes : (IsTest(g) \/ g.kind = "Field") /\ g.kind # "AnyRow"}
  BY FilterAssumption, Zenon
<1> QED
  BY <1>1, ParsedRule

\* It is accepted when its translation is, and it is no field where a condition belongs.
LEMMA JudgedWhen ==
  ASSUME NEW model \in Models, NEW f \in Nodes
  PROVE  LET judged == Then(Translated(model, <<>>, f), Check(~ Bare(f)))
         IN  judged \in Outcomes /\ (judged = "fine" <=> Translated(model, <<>>, f) = "fine" /\ ~ Bare(f))
<1> DEFINE translated == Translated(model, <<>>, f)
           checked == Check(~ Bare(f))
<1>1. translated \in Outcomes
  <2>1. PICK p \in [Nodes -> [Models -> [Seq(Names) -> Outcomes]]] :
          \A h \in Nodes : (\A m \in Models, s \in Seq(Names) : Translated(m, s, h) = p[h][m][s])
                           /\ p[h] = [m \in Models |-> [s \in Seq(Names) |-> TranslatedNode(h, p, m, s)]]
    BY TranslatedFunction, Zenon
  <2>2. <<>> \in Seq(Names)
    OBVIOUS
  <2>3. translated = p[f][model][<<>>]
    BY <2>1, <2>2
  <2>4. p[f] \in [Models -> [Seq(Names) -> Outcomes]]
    BY Zenon
  <2>5. p[f][model] \in [Seq(Names) -> Outcomes]
    BY <2>4, Zenon
  <2>6. p[f][model][<<>>] \in Outcomes
    BY <2>2, <2>5, Zenon
  <2> QED
    BY <2>3, <2>6, Zenon
<1>2. checked \in Outcomes /\ (checked = "fine" <=> ~ Bare(f))
  BY BareRule, CheckOutcome
<1> HIDE DEF translated, checked
<1>3. Then(translated, checked) \in Outcomes
      /\ (Then(translated, checked) = "fine" <=> translated = "fine" /\ checked = "fine")
  BY <1>1, <1>2 DEF Then
<1> QED
  BY <1>2, <1>3 DEF translated, checked

\* An accepted filter is read for each row of its model, with no variable known yet.
LEMMA ReadsFilter ==
  ASSUME NEW d \in Possible, NEW f \in Nodes, NEW o \in Objects, d.model[o] \in Models,
         IsTest(f), ~ Bare(f), Translated(d.model[o], <<>>, f) = "fine", Local(f, <<>>)
  PROVE  Reads(d, f, <<>>, Nothing, o, o)
<1>1. <<>> \in Seq(Names) /\ Nothing \in [Names -> Objects \union {None}]
  BY DEF Nothing
<1>2. Context(<<>>, Nothing, o, o)
  BY ContextStart
<1> QED
  BY <1>1, <1>2, Zenon DEF Reads

\* What SQL answers is what the filter says: with no null, and with nulls if nothing is negated.
LEMMA AnswersMean ==
  ASSUME NEW model, NEW f, <<model, f>> \in Filters, NEW d \in Possible, ~ Bare(f),
         Translated(model, <<>>, f) = "fine", Local(f, <<>>), OnlyAny(f, <<>>),
         (NoNulls(d) /\ Forward(f, <<>>)) \/ Positive(f, <<>>),
         NEW o \in Objects, d.model[o] = model
  PROVE  Sql(d, f, <<>>, o) = True3 <=> Meaning(d, f, Nothing, o)
<1>1. model \in Models /\ f \in Nodes /\ IsTest(f)
  BY FilterShape, BareRule
<1>2. Reads(d, f, <<>>, Nothing, o, o)
  BY <1>1, ReadsFilter
<1>3. CASE Positive(f, <<>>)
  BY <1>1, <1>2, <1>3, SamePositive, Zenon DEF Affirms
<1>4. CASE NoNulls(d) /\ Forward(f, <<>>)
  <2>1. Sql(d, f, <<>>, o) = Truth(Meaning(d, f, Nothing, o))
    BY <1>1, <1>2, <1>4, SameTruth, Zenon DEF Forwards
  <2> QED
    BY <2>1 DEF Truth, True3, False3
<1> QED
  BY <1>3, <1>4

\* A row that is answered is one the filter describes, whatever the nulls stand for.
LEMMA AnswersCertain ==
  ASSUME NEW model, NEW f, <<model, f>> \in Filters, NEW d \in Possible, ~ Bare(f),
         Translated(model, <<>>, f) = "fine", Local(f, <<>>), Careful(f, <<>>),
         NEW known \in [Unknowns(d) -> Values], NEW o \in Objects, d.model[o] = model,
         Sql(d, f, <<>>, o) = True3
  PROVE  Meaning(Completed(d, known), f, Nothing, o)
<1> DEFINE full == Completed(d, known)
<1>1. model \in Models /\ f \in Nodes /\ IsTest(f)
  BY FilterShape, BareRule
<1>2. Reads(d, f, <<>>, Nothing, o, o)
  BY <1>1, ReadsFilter
<1>3. /\ full \in Possible /\ full.model = d.model /\ full.edges = d.edges
      /\ \A x \in Objects, y \in Fields : d.value[x][y] # Null => full.value[x][y] = d.value[x][y]
  BY CompletedPossible, Zenon
<1> HIDE DEF full
<1>4. Sql(d, f, <<>>, o) = True3 => Meaning(full, f, Nothing, o)
  BY <1>1, <1>2, <1>3, SameCertain, Zenon
<1> QED
  BY <1>4 DEF full

\* It is accepted if it is well formed and parsed, and only then, fields for conditions apart;
\* and translating what is well formed does not crash.
LEMMA AcceptedWellFormed ==
  ASSUME NEW model, NEW f, <<model, f>> \in Filters, Local(f, <<>>)
  PROVE  LET judged == Then(Translated(model, <<>>, f), Check(~ Bare(f)))
             formed == WellFormed(f, Nothing, model)
             explicit == f.kind # "Field" /\ Explicit(f, <<>>)
         IN  /\ formed /\ explicit => Parsed(f) # "refused" /\ judged = "fine"
             /\ formed => judged # "crashed"
             /\ Parsed(f) = "fine" /\ judged = "fine" => formed /\ explicit
<1> DEFINE judged == Then(Translated(model, <<>>, f), Check(~ Bare(f)))
           formed == WellFormed(f, Nothing, model)
           explicit == f.kind # "Field" /\ Explicit(f, <<>>)
<1>1. model \in Models /\ f \in Nodes /\ (IsTest(f) \/ f.kind = "Field")
  BY FilterShape
<1>2. judged = "fine" <=> Translated(model, <<>>, f) = "fine" /\ ~ Bare(f)
  BY <1>1, JudgedWhen, Zenon
<1>3. ~ Bare(f) => f.kind # "Field"
  BY <1>1, BareRule
<1>4. <<>> \in Seq(Names) /\ Nothing \in [Names -> Models \union {None}]
  BY DEF Nothing
<1>5. Context(<<>>, Nothing, model, model)
  BY ContextStart
<1>6. /\ formed /\ Explicit(f, <<>>) =>
           Parsed(f) # "refused" /\ Translated(model, <<>>, f) = "fine" /\ (f.kind # "Field" => ~ Bare(f))
      /\ Parsed(f) = "fine" /\ Translated(model, <<>>, f) = "fine" /\ (IsTest(f) => ~ Bare(f)) =>
           formed /\ Explicit(f, <<>>)
  BY <1>1, <1>4, <1>5, SameJudgement, Zenon
<1>7. formed => judged # "crashed"
  <2>1. formed => Translated(model, <<>>, f) # "crashed"
    BY <1>1, <1>4, <1>5, FormedNotCrashed, Zenon
  <2>2. judged = "crashed" => Translated(model, <<>>, f) = "crashed"
    BY DEF Then, Check
  <2> QED
    BY <2>1, <2>2, Zenon
<1> HIDE DEF judged, formed
<1>8. /\ formed /\ explicit => Parsed(f) # "refused" /\ judged = "fine"
      /\ Parsed(f) = "fine" /\ judged = "fine" => formed /\ explicit
  BY <1>2, <1>3, <1>6, Zenon
<1> QED
  BY <1>7, <1>8, Zenon DEF judged, formed

\* A filter that was just passed has no stage to account for.
LEMMA InvStart == Init => Inv
<1> SUFFICES ASSUME Init PROVE Inv
  OBVIOUS
<1>1. PICK pair \in Filters : root = pair[1] /\ filter = pair[2]
  BY DEF Init
<1>2. <<root, filter>> \in Filters
  <2>1. pair \in Models \X {f \in Nodes : (IsTest(f) \/ f.kind = "Field") /\ f.kind # "AnyRow"}
    BY FilterAssumption, Zenon
  <2>2. pair = <<pair[1], pair[2]>>
    BY <2>1
  <2> QED
    BY <1>1, <2>2
<1>3. stage = "received" /\ answer = {} /\ db \in Databases
  BY DEF Init
<1> QED
  BY <1>2, <1>3 DEF Inv, TypeOK, StageFits

\* Each stage is entered with the outcome of the one before it.
LEMMA InvStep == Inv /\ [Next]_vars => Inv'
<1> SUFFICES ASSUME Inv, [Next]_vars PROVE Inv'
  OBVIOUS
<1>1. /\ root \in Models /\ filter \in Nodes
      /\ Parsed(filter) \in Outcomes /\ Judged \in Outcomes
  <2>1. PICK model, f : model = root /\ f = filter
    OBVIOUS
  <2>2. <<model, f>> \in Filters
    BY <2>1 DEF Inv, TypeOK
  <2>3. model \in Models /\ f \in Nodes /\ Parsed(f) \in Outcomes
    BY <2>2, FilterShape
  <2>4. Then(Translated(model, <<>>, f), Check(~ Bare(f))) \in Outcomes
    BY <2>3, JudgedWhen, Zenon
  <2> QED
    BY <2>1, <2>3, <2>4 DEF Judged
<1>2. ASSUME UNCHANGED <<filter, root, db>>
      PROVE  Parsed(filter)' = Parsed(filter) /\ Judged' = Judged
  BY <1>2 DEF Judged
<1>3. CASE Parse
  <2>1. UNCHANGED <<filter, root, db>> /\ UNCHANGED answer
    BY <1>3 DEF Parse
  <2>2. stage' = IF Parsed(filter) = "fine" THEN "parsed" ELSE Parsed(filter)
    BY <1>3 DEF Parse
  <2>3. TypeOK'
    BY <1>1, <2>1, <2>2 DEF Inv, TypeOK, Outcomes
  <2>4. StageFits'
    BY <1>1, <1>2, <2>1, <2>2 DEF StageFits, Outcomes
  <2> QED
    BY <2>3, <2>4 DEF Inv
<1>4. CASE Translate
  <2>1. UNCHANGED <<filter, root, db>> /\ UNCHANGED answer /\ stage = "parsed"
    BY <1>4 DEF Translate
  <2>2. stage' = IF Judged = "fine" THEN "translated" ELSE Judged
    BY <1>4 DEF Translate
  <2>3. TypeOK'
    BY <1>1, <2>1, <2>2 DEF Inv, TypeOK, Outcomes
  <2>4. Parsed(filter) = "fine"
    BY <2>1 DEF Inv, StageFits
  <2>5. StageFits'
    BY <1>1, <1>2, <2>1, <2>2, <2>4 DEF StageFits, Outcomes
  <2> QED
    BY <2>3, <2>5 DEF Inv
<1>5. CASE Select
  <2>1. UNCHANGED <<filter, root, db>> /\ stage = "translated" /\ stage' = "answered"
    BY <1>5 DEF Select
  <2>2. answer' = {o \in Objects : db.model[o] = root /\ Sql(db, filter, <<>>, o) = True3}
    BY <1>5 DEF Select
  <2>3. TypeOK'
    BY <2>1, <2>2 DEF Inv, TypeOK
  <2>4. Parsed(filter) = "fine" /\ Judged = "fine"
    BY <2>1 DEF Inv, StageFits
  <2>5. answer' = {o \in Objects : db.model[o] = root /\ Sql(db, filter, <<>>, o) = True3}'
    BY <2>1, <2>2
  <2>6. StageFits'
    BY <1>2, <2>1, <2>4, <2>5 DEF StageFits
  <2> QED
    BY <2>3, <2>6 DEF Inv
<1>6. CASE UNCHANGED vars
  BY <1>2, <1>6 DEF vars, Inv, TypeOK, StageFits
<1> QED
  BY <1>3, <1>4, <1>5, <1>6 DEF Next

\* The invariant holds in every reachable state: a stage says what the parser and the visitors
\* made of the filter, and an answer is what SQL makes of it.
THEOREM Inductive == Spec => []Inv
<1> QED
  BY InvStart, InvStep, PTL DEF Spec

\* Type correctness: the filter, the database and the answer stay what they are throughout
\* parsing, translation and selection.
THEOREM TypeCorrect == Spec => []TypeOK
<1>1. Inv => TypeOK
  BY DEF Inv
<1> QED
  BY <1>1, Inductive, PTL

\* The translation keeps the meaning of a filter of any depth with any() alone: the rows that
\* are answered are those it describes, whenever its lambdas mention no name from outside, and
\* there is no null in its way or nothing in it is negated.
THEOREM TranslationKeepsMeaning == Spec => []LocalMeaning
<1>1. Inv => LocalMeaning
  <2> SUFFICES ASSUME Inv, stage = "answered", Local(filter, <<>>),
                      OnlyAny(filter, <<>>),
                      (NoNulls(db) /\ Forward(filter, <<>>)) \/ Positive(filter, <<>>)
               PROVE  answer = {o \in Objects : db.model[o] = root /\ Meaning(db, filter, Nothing, o)}
    BY DEF LocalMeaning
  <2>1. PICK model, f, d : model = root /\ f = filter /\ d = db
    OBVIOUS
  <2>2. <<model, f>> \in Filters /\ d \in Possible
    BY <2>1, DatabasesPossible DEF Inv, TypeOK
  <2>3. model \in Models /\ f \in Nodes
    BY <2>2, FilterShape
  <2>4. Then(Translated(model, <<>>, f), Check(~ Bare(f))) = "fine"
    BY <2>1 DEF Inv, StageFits, Judged
  <2>5. Translated(model, <<>>, f) = "fine" /\ ~ Bare(f)
    BY <2>3, <2>4, JudgedWhen, Zenon
  <2>6. Local(f, <<>>) /\ OnlyAny(f, <<>>) /\ ((NoNulls(d) /\ Forward(f, <<>>)) \/ Positive(f, <<>>))
    BY <2>1
  <2>7. \A o \in Objects : d.model[o] = model => (Sql(d, f, <<>>, o) = True3 <=> Meaning(d, f, Nothing, o))
    BY <2>2, <2>5, <2>6, AnswersMean, Zenon
  <2>8. answer = {o \in Objects : d.model[o] = model /\ Sql(d, f, <<>>, o) = True3}
    BY <2>1 DEF Inv, StageFits
  <2> QED
    BY <2>1, <2>7, <2>8
<1> QED
  BY <1>1, Inductive, PTL

\* A row is never answered because of a null: a careful filter holds for it whatever the values
\* are that nobody knows.
THEOREM NullsNeverAnswer == Spec => []CertainAnswers
<1>1. Inv => CertainAnswers
  <2> SUFFICES ASSUME Inv, stage = "answered", Local(filter, <<>>), Careful(filter, <<>>),
                      NEW known \in [Unknowns(db) -> Values], NEW o \in answer
               PROVE  Meaning(Completed(db, known), filter, Nothing, o)
    BY DEF CertainAnswers
  <2>1. PICK model, f, d : model = root /\ f = filter /\ d = db
    OBVIOUS
  <2>2. PICK k : k = known
    OBVIOUS
  <2>3. PICK x : x = o
    OBVIOUS
  <2>4. <<model, f>> \in Filters /\ d \in Possible
    BY <2>1, DatabasesPossible DEF Inv, TypeOK
  <2>5. model \in Models /\ f \in Nodes
    BY <2>4, FilterShape
  <2>6. Then(Translated(model, <<>>, f), Check(~ Bare(f))) = "fine"
    BY <2>1 DEF Inv, StageFits, Judged
  <2>7. Translated(model, <<>>, f) = "fine" /\ ~ Bare(f)
    BY <2>5, <2>6, JudgedWhen, Zenon
  <2>8. Local(f, <<>>) /\ Careful(f, <<>>) /\ k \in [Unknowns(d) -> Values]
    BY <2>1, <2>2
  <2>9. x \in Objects /\ d.model[x] = model /\ Sql(d, f, <<>>, x) = True3
    BY <2>1, <2>3 DEF Inv, StageFits
  <2>10. Meaning(Completed(d, k), f, Nothing, x)
    BY <2>4, <2>7, <2>8, <2>9, AnswersCertain, Zenon
  <2> QED
    BY <2>1, <2>2, <2>3, <2>10
<1> QED
  BY <1>1, Inductive, PTL

\* A filter is refused or crashes because it is ill formed, or refused because a field stands
\* for a condition in it; and neither of them is answered.  Well formed is what the models say
\* of it, and the parser alone crashes for another reason.
THEOREM RefusedForReason == Spec => []JudgedForReason
<1>1. Inv => JudgedForReason
  <2> SUFFICES ASSUME Inv, Local(filter, <<>>)
               PROVE  LET formed == WellFormed(filter, Nothing, root)
                          explicit == filter.kind # "Field" /\ Explicit(filter, <<>>)
                      IN  /\ stage = "refused" => ~ (formed /\ explicit)
                          /\ stage = "crashed" => ~ formed \/ Parsed(filter) = "crashed"
                          /\ stage = "answered" => formed /\ explicit
    BY Zenon DEF JudgedForReason
  <2>1. PICK model, f : model = root /\ f = filter
    OBVIOUS
  <2>2. <<model, f>> \in Filters /\ Local(f, <<>>)
    BY <2>1 DEF Inv, TypeOK
  <2> DEFINE judged == Then(Translated(model, <<>>, f), Check(~ Bare(f)))
             formed == WellFormed(f, Nothing, model)
             explicit == f.kind # "Field" /\ Explicit(f, <<>>)
             parsed == Parsed(f)
  <2>3. /\ formed /\ explicit => parsed # "refused" /\ judged = "fine"
        /\ formed => judged # "crashed"
        /\ parsed = "fine" /\ judged = "fine" => formed /\ explicit
    BY <2>2, AcceptedWellFormed, Zenon
  <2> HIDE DEF judged, formed, explicit, parsed
  <2>4. /\ stage = "answered" => parsed = "fine" /\ judged = "fine"
        /\ stage \in {"refused", "crashed"} => stage = parsed \/ (parsed = "fine" /\ stage = judged)
    BY <2>1 DEF Inv, StageFits, Judged, judged, parsed
  <2>5. /\ stage = "refused" => ~ (formed /\ explicit)
        /\ stage = "crashed" => ~ formed \/ parsed = "crashed"
        /\ stage = "answered" => formed /\ explicit
    BY <2>3, <2>4
  <2> QED
    BY <2>1, <2>5 DEF formed, explicit, parsed
<1> QED
  BY <1>1, Inductive, PTL

=============================================================================
