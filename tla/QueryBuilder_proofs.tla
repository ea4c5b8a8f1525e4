------------------------ MODULE QueryBuilder_proofs ------------------------
(***************************************************************************)
(* Proofs about QueryBuilder, for every set of texts and every bound.  The *)
(* parser of texts is a recursive function: first such functions are shown *)
(* to exist, then that the parser reads a text between parentheses as it   *)
(* reads it alone, and from this that pasting texts joins their meanings.  *)
(***************************************************************************)
EXTENDS QueryBuilder, SequenceTheorems, WellFoundedInduction, TLAPS

-----------------------------------------------------------------------------
(* Induction and recursion                                                 *)

\* A set of natural numbers has a least element.
LEMMA LeastNumber ==
  ASSUME NEW T, T \subseteq Nat, T # {}
  PROVE  \E x \in T : \A y \in T : x <= y
<1> DEFINE R == OpToRel(<, Nat)
<1>1. IsWellFoundedOn(R, Nat)
  BY NatLessThanWellFounded
<1>2. \A x, y \in Nat : <<x, y>> \in R <=> x < y
  BY DEF OpToRel
<1> HIDE DEF R
<1>3. PICK x \in T : \A y \in T : ~ (<<y, x>> \in R)
  BY <1>1, WFMin
<1>4. ASSUME NEW y \in T PROVE x <= y
  <2>1. x \in Nat /\ y \in Nat
    OBVIOUS
  <2>2. ~ (y < x)
    BY <1>2, <1>3, <2>1
  <2> QED
    BY <2>1, <2>2
<1> QED
  BY <1>4

\* A set that has 0, and with each number the next, has all of them.
LEMMA SetInduction ==
  ASSUME NEW S, 0 \in S, \A n \in Nat : n \in S => n + 1 \in S
  PROVE  Nat \subseteq S
<1> SUFFICES ASSUME Nat \ S # {} PROVE FALSE
  OBVIOUS
<1>1. PICK x \in Nat \ S : \A y \in Nat \ S : x <= y
  BY LeastNumber
<1>2. x - 1 \in Nat /\ x - 1 \in S
  BY <1>1
<1> QED
  BY <1>1, <1>2

\* The same for the numbers up to a bound.
LEMMA BoundedInduction ==
  ASSUME NEW N \in Nat, NEW S, 0 \in S, \A n \in 0 .. N - 1 : n \in S => n + 1 \in S
  PROVE  0 .. N \subseteq S
<1> DEFINE T == {n \in Nat : n <= N => n \in S}
<1>1. 0 \in T
  OBVIOUS
<1>2. ASSUME NEW n \in Nat, n \in T PROVE n + 1 \in T
  BY <1>2
<1> HIDE DEF T
<1>3. Nat \subseteq T
  BY <1>1, <1>2, SetInduction
<1> QED
  BY <1>3 DEF T

\* What is found one step at a time, from a first value on.
IsStep(F, n, V, v) == n \in Nat /\ v \in V /\ F \in [1 .. n -> [V -> V]]
\* So have steps that are taken one after the other.
LEMMA StepRecursion ==
  ASSUME NEW F, NEW n, NEW V, NEW v, IsStep(F, n, V, v)
  PROVE  \E g \in [0 .. n -> V] : g[0] = v /\ \A i \in 1 .. n : g[i] = F[i][g[i - 1]]
<1>step. n \in Nat /\ v \in V /\ F \in [1 .. n -> [V -> V]]
  BY DEF IsStep
<1> DEFINE Good(g, k) == g[0] = v /\ \A i \in 1 .. k : g[i] = F[i][g[i - 1]]
           T == {k \in 0 .. n : \E g \in [0 .. n -> V] : Good(g, k)}
<1>1. 0 \in T
  <2>1. [i \in 0 .. n |-> v] \in [0 .. n -> V] /\ Good([i \in 0 .. n |-> v], 0)
    BY <1>step
  <2>2. 0 \in 0 .. n
    BY <1>step
  <2> HIDE DEF Good
  <2> QED
    BY <2>1, <2>2
<1>2. ASSUME NEW k \in 0 .. n - 1, k \in T PROVE k + 1 \in T
  <2>1. PICK g \in [0 .. n -> V] : Good(g, k)
    BY <1>2
  <2> DEFINE h == [i \in 0 .. n |-> IF i = k + 1 THEN F[k + 1][g[k]] ELSE g[i]]
  <2>2. k + 1 \in 1 .. n /\ k \in 0 .. n
    BY <1>step
  <2>3. F[k + 1][g[k]] \in V
    BY <1>step, <2>2
  <2>4. h \in [0 .. n -> V]
    BY <2>3
  <2>5. h[0] = v
    BY <1>step, <2>1
  <2>6. ASSUME NEW i \in 1 .. k + 1 PROVE h[i] = F[i][h[i - 1]]
    <3>1. i \in 0 .. n /\ i - 1 \in 0 .. n /\ i - 1 # k + 1
      BY <1>step, <2>2
    <3>2. CASE i = k + 1
      BY <3>1, <3>2
    <3>3. CASE i # k + 1
      BY <2>1, <3>1, <3>3
    <3> QED
      BY <3>2, <3>3
  <2> HIDE DEF h
  <2>7. Good(h, k + 1) /\ k + 1 \in 0 .. n
    BY <1>step, <2>2, <2>5, <2>6
  <2> HIDE DEF Good
  <2> QED
    BY <2>4, <2>7
<1> HIDE DEF T
<1>3. 0 .. n \subseteq T
  BY <1>step, <1>1, <1>2, BoundedInduction
<1>4. n \in T
  BY <1>step, <1>3
<1> QED
  BY <1>4 DEF T

-----------------------------------------------------------------------------
(* The parser's stack                                                      *)

Stacks == Seq(Level) \ {<<>>}

Wants == {"start", "first", "operand", "operator", "close"}

\* What is known of an open parenthesis stays of its type.
LEMMA OpenedType ==
  ASSUME NEW wants \in Wants
  PROVE  /\ Opened(wants) \in Level
         /\ Opened(wants).any = {} /\ Opened(wants).all = Worlds /\ Opened(wants).wants = wants
  BY DEF Opened, Level, Wants, Meanings

LEMMA LevelTypes ==
  ASSUME NEW level \in Level, NEW meaning \in Meanings
  PROVE  /\ Meant(level) \in Meanings
         /\ WithOperand(level, meaning) \in Level
         /\ WithOperand(level, meaning).any = level.any
         /\ WithOperand(level, meaning).all = level.all \intersect meaning
         /\ WithOperand(level, meaning).wants = "operator"
         /\ [level EXCEPT !.wants = "operator"] \in Level
         /\ WithSpace(level) \in Level
  BY DEF Meant, WithOperand, WithSpace, Level, Meanings

LEMMA OperatorType ==
  ASSUME NEW level \in Level, NEW kind
  PROVE  /\ WithOperator(level, kind) \in Level
         /\ WithOperator(level, kind).wants = "operand"
         /\ WithOperator(level, kind).any = IF kind = "and" THEN level.any ELSE Meant(level)
         /\ WithOperator(level, kind).all = IF kind = "and" THEN level.all ELSE Worlds
<1>1. Meant(level) \in Meanings
  BY DEF Meant, Level, Meanings
<1>2. CASE kind = "and"
  <2>1. WithOperator(level, kind) = [level EXCEPT !.wants = "operand"]
    BY <1>2 DEF WithOperator
  <2> QED
    BY <2>1, <1>2 DEF Level
<1>3. CASE kind # "and"
  <2>1. WithOperator(level, kind) = [any |-> Meant(level), all |-> Worlds, wants |-> "operand"]
    BY <1>3 DEF WithOperator
  <2> QED
    BY <2>1, <1>1, <1>3 DEF Level, Meanings
<1> QED
  BY <1>2, <1>3

\* Putting levels on a stack: what is at its bottom stays there.
LEMMA Pushed ==
  ASSUME NEW p \in Stacks, NEW s \in Seq(Level), NEW b \in Level
  PROVE  /\ p \o s \in Stacks
         /\ p \o Append(s, b) = Append(p \o s, b)
<1>1. p \o s \in Seq(Level) /\ Len(p \o s) = Len(p) + Len(s) /\ Len(p) \in Nat \ {0} /\ Len(s) \in Nat
  BY ConcatProperties, EmptySeq, LenProperties DEF Stacks
<1>2. p \o s # <<>>
  BY <1>1, EmptySeq
<1>3. Append(s, b) = s \o <<b>> /\ Append(p \o s, b) = (p \o s) \o <<b>>
  BY <1>1, AppendIsConcat
<1>4. (p \o s) \o <<b>> = p \o (s \o <<b>>)
  BY ConcatAssociative DEF Stacks
<1> QED
  BY <1>1, <1>2, <1>3, <1>4 DEF Stacks

LEMMA PairOfSingletons ==
  ASSUME NEW S, NEW a \in S, NEW b \in S
  PROVE  <<a>> \o <<b>> = <<a, b>>
<1> DEFINE s == <<a>> \o <<b>>
           t == <<a, b>>
<1>1. <<a>> \in Seq(S) /\ <<b>> \in Seq(S) /\ Len(<<a>>) = 1 /\ Len(<<b>>) = 1
  OBVIOUS
<1>2. /\ s \in Seq(S)
      /\ Len(s) = 2
      /\ \A i \in 1 .. 2 : s[i] = IF i <= 1 THEN <<a>>[i] ELSE <<b>>[i - 1]
  BY <1>1, ConcatProperties, Z3
<1>3. t \in Seq(S) /\ Len(t) = 2 /\ t[1] = a /\ t[2] = b
  OBVIOUS
<1>4. s[1] = a /\ s[2] = b
  BY <1>2
<1>5. \A i \in 1 .. 2 : s[i] = t[i]
  BY <1>3, <1>4
<1> HIDE DEF s, t
<1>6. s = t
  BY <1>2, <1>3, <1>5, SeqEqual
<1> QED
  BY <1>6 DEF s, t

LEMMA OneOrTwo ==
  ASSUME NEW x \in Level, NEW y \in Level
  PROVE  /\ <<x>> \in Stacks /\ Head(<<x>>) = x /\ Tail(<<x>>) = <<>> /\ Len(<<x>>) = 1
         /\ <<x, y>> \in Stacks /\ Head(<<x, y>>) = x /\ Tail(<<x, y>>) = <<y>>
         /\ Append(<<x>>, y) = <<x, y>>
         /\ <<x>> \o <<>> = <<x>> /\ <<x, y>> \o <<>> = <<x, y>>
         /\ <<x>> \o <<y>> = <<x, y>>
<1>1. <<x>> \in Seq(Level) /\ <<x, y>> \in Seq(Level) /\ <<x>> # <<>> /\ <<x, y>> # <<>>
  OBVIOUS
<1>2. Head(<<x>>) = x /\ Tail(<<x>>) = <<>> /\ Len(<<x>>) = 1
  OBVIOUS
<1>3. Head(<<x, y>>) = x /\ Tail(<<x, y>>) = <<y>>
  OBVIOUS
<1>4. <<x>> \o <<y>> = <<x, y>>
  BY PairOfSingletons
<1>5. <<x>> \o <<>> = <<x>> /\ <<x, y>> \o <<>> = <<x, y>>
  BY <1>1, ConcatEmptySeq
<1>6. Append(<<x>>, y) = <<x, y>>
  BY <1>1, <1>4, AppendIsConcat
<1> QED
  BY <1>1, <1>2, <1>3, <1>4, <1>5, <1>6 DEF Stacks

\* A stack is no error.
LEMMA StackNoError ==
  ASSUME NEW s \in Seq(Level)
  PROVE  s \notin {Failed, Fragment}
  BY NoneAssumption

\* One token, read alone and with a level more at the bottom of the stack.  To read it alone
\* comes to an error of its own, to a stack, or to one of the two errors that parentheses
\* around the text may cure.
LEMMA OneToken ==
  ASSUME NEW s \in Stacks, NEW token \in Token, NEW b \in Level
  PROVE  \/ Shifted(s, token) = Failed /\ Shifted(Append(s, b), token) = Failed
         \/ Shifted(s, token) = Fragment
         \/ /\ Shifted(s, token) \in Stacks
            /\ Shifted(Append(s, b), token) = Append(Shifted(s, token), b)
<1> DEFINE top == Head(s)
           below == Tail(s)
           kind == token.kind
           c == Append(s, b)
<1>1. top \in Level /\ below \in Seq(Level) /\ s \in Seq(Level) /\ s # <<>>
  BY HeadTailProperties DEF Stacks
<1>2. c \in Seq(Level) /\ c # <<>> /\ Head(c) = top /\ Tail(c) = Append(below, b)
  BY <1>1, AppendProperties, HeadTailAppend
<1>3. s \notin {Failed, Fragment} /\ c \notin {Failed, Fragment}
  BY <1>1, <1>2, StackNoError
<1>4. token.meaning \in Meanings /\ kind \in Kinds
  BY DEF Token
<1>5. Append(below, b) # <<>>
  BY <1>1, AppendProperties
<1> DEFINE Alone(p) == p \o below
<1>push. ASSUME NEW p \in Stacks
         PROVE  p \o below \in Stacks /\ p \o Append(below, b) = Append(p \o below, b)
  BY <1>1, Pushed
<1> HIDE DEF top, below, c
<1>6. CASE kind = "part" /\ Waiting(top)
  <2>1. Shifted(s, token) = <<WithOperand(top, token.meaning)>> \o below
    BY <1>3, <1>6 DEF Shifted, top, below
  <2>2. Shifted(c, token) = <<WithOperand(top, token.meaning)>> \o Append(below, b)
    BY <1>2, <1>3, <1>6 DEF Shifted
  <2>3. <<WithOperand(top, token.meaning)>> \in Stacks
    BY <1>1, <1>4, LevelTypes, OneOrTwo
  <2> QED
    BY <2>1, <2>2, <2>3, <1>push DEF c
<1>7. CASE kind = "open" /\ Waiting(top)
  <2> DEFINE p == <<Opened("first"), [top EXCEPT !.wants = "operator"]>>
  <2>1. Shifted(s, token) = p \o below
    BY <1>3, <1>7 DEF Shifted, top, below
  <2>2. Shifted(c, token) = p \o Append(below, b)
    BY <1>2, <1>3, <1>7 DEF Shifted
  <2>3. p \in Stacks
    <3>1. Opened("first") \in Level
      BY OpenedType DEF Wants
    <3>2. [top EXCEPT !.wants = "operator"] \in Level
      BY <1>1, <1>4, LevelTypes
    <3> QED
      BY <3>1, <3>2, OneOrTwo
  <2> QED
    BY <2>1, <2>2, <2>3, <1>push DEF c
<1>8. CASE kind = "close" /\ Complete(top)
  <2>1. CASE below = <<>>
    BY <1>3, <1>8, <2>1 DEF Shifted, top, below
  <2>2. CASE below # <<>>
    <3> DEFINE p == <<WithOperand(Head(below), Meant(top))>>
    <3>1. Shifted(s, token) = p \o Tail(below)
      BY <1>3, <1>8, <2>2 DEF Shifted, top, below
    <3>2. Shifted(c, token) =
            <<WithOperand(Head(Append(below, b)), Meant(top))>> \o Tail(Append(below, b))
      BY <1>2, <1>3, <1>5, <1>8 DEF Shifted
    <3>3. /\ Head(Append(below, b)) = Head(below) /\ Tail(Append(below, b)) = Append(Tail(below), b)
          /\ Head(below) \in Level /\ Tail(below) \in Seq(Level)
      BY <1>1, <2>2, HeadTailAppend, HeadTailProperties
    <3>4. p \in Stacks
      BY <1>1, <1>4, <3>3, LevelTypes, OneOrTwo
    <3> HIDE DEF p
    <3>5. p \o Tail(below) \in Stacks /\ p \o Append(Tail(below), b) = Append(p \o Tail(below), b)
      BY <3>3, <3>4, Pushed
    <3> QED
      BY <3>1, <3>2, <3>3, <3>5 DEF p, c
  <2> QED
    BY <2>1, <2>2
<1>9. CASE kind \in {"and", "or"} /\ top.wants = "operator"
  <2>1. Shifted(s, token) = <<WithOperator(top, kind)>> \o below
    BY <1>3, <1>9 DEF Shifted, top, below
  <2>2. Shifted(c, token) = <<WithOperator(top, kind)>> \o Append(below, b)
    BY <1>2, <1>3, <1>9 DEF Shifted
  <2>3. <<WithOperator(top, kind)>> \in Stacks
    BY <1>1, OperatorType, OneOrTwo
  <2> QED
    BY <2>1, <2>2, <2>3, <1>push DEF c
<1>10. CASE kind = "space" /\ top.wants \in {"first", "operator"}
  <2>1. Shifted(s, token) = <<WithSpace(top)>> \o below
    BY <1>3, <1>10 DEF Shifted, top, below
  <2>2. Shifted(c, token) = <<WithSpace(top)>> \o Append(below, b)
    BY <1>2, <1>3, <1>10 DEF Shifted
  <2>3. <<WithSpace(top)>> \in Stacks
    BY <1>1, <1>4, LevelTypes, OneOrTwo
  <2> QED
    BY <2>1, <2>2, <2>3, <1>push DEF c
<1>11. CASE kind = "space" /\ top.wants = "start"
  BY <1>3, <1>11 DEF Shifted, top, below
<1>12. CASE /\ ~ (kind = "part" /\ Waiting(top)) /\ ~ (kind = "open" /\ Waiting(top))
            /\ ~ (kind = "close" /\ Complete(top))
            /\ ~ (kind \in {"and", "or"} /\ top.wants = "operator")
            /\ ~ (kind = "space" /\ top.wants \in {"first", "operator"})
            /\ ~ (kind = "space" /\ top.wants = "start")
  <2>1. Shifted(s, token) = Failed
    BY <1>3, <1>12 DEF Shifted, top, below
  <2>2. Shifted(c, token) = Failed
    BY <1>2, <1>3, <1>12 DEF Shifted
  <2> QED
    BY <2>1, <2>2 DEF c
<1> QED
  BY <1>6, <1>7, <1>8, <1>9, <1>10, <1>11, <1>12 DEF c

\* Reading keeps to stacks and errors.
LEMMA ShiftedType ==
  ASSUME NEW s \in Stacks \union {Failed, Fragment}, NEW token \in Token
  PROVE  /\ Shifted(s, token) \in Stacks \union {Failed, Fragment}
         /\ s \notin Stacks => Shifted(s, token) = s
<1>1. CASE s \in Stacks
  <2>1. Opened("first") \in Level
    BY OpenedType DEF Wants
  <2> QED
    BY <1>1, <2>1, OneToken
<1>2. CASE s \in {Failed, Fragment}
  BY <1>2 DEF Shifted
<1> QED
  BY <1>1, <1>2

\* The same for the first token of a text, with an open parenthesis before it or not.
LEMMA FirstToken ==
  ASSUME NEW token \in Token, NEW b \in Level
  PROVE  LET alone == Shifted(<<Opened("start")>>, token)
             inside == Shifted(<<Opened("first"), b>>, token)
         IN  \/ alone = Failed /\ inside = Failed
             \/ alone = Fragment
             \/ alone \in Stacks /\ inside = Append(alone, b)
<1> DEFINE x == Opened("start")
           y == Opened("first")
           kind == token.kind
<1>1. /\ x \in Level /\ x.any = {} /\ x.all = Worlds /\ x.wants = "start"
      /\ y \in Level /\ y.any = {} /\ y.all = Worlds /\ y.wants = "first"
  BY OpenedType DEF Wants
<1>2. token.meaning \in Meanings /\ kind \in Kinds
  BY DEF Token
<1>3. Waiting(x) /\ Waiting(y) /\ ~ Complete(x) /\ ~ Complete(y)
  BY <1>1 DEF Waiting, Complete
<1>4. /\ <<x>> \notin {Failed, Fragment} /\ Head(<<x>>) = x /\ Tail(<<x>>) = <<>>
      /\ <<y, b>> \notin {Failed, Fragment} /\ Head(<<y, b>>) = y /\ Tail(<<y, b>>) = <<b>>
  BY <1>1, OneOrTwo, StackNoError DEF Stacks
<1>5. WithOperand(x, token.meaning) = WithOperand(y, token.meaning)
  BY <1>1 DEF WithOperand, Opened, x, y
<1>6. [x EXCEPT !.wants = "operator"] = [y EXCEPT !.wants = "operator"]
  BY DEF Opened
<1> HIDE DEF x, y
<1>7. CASE kind = "part"
  <2> DEFINE z == WithOperand(x, token.meaning)
  <2>1. z \in Level
    BY <1>1, <1>2, LevelTypes
  <2>2. Shifted(<<x>>, token) = <<z>> \o <<>>
    BY <1>3, <1>4, <1>7 DEF Shifted
  <2>3. Shifted(<<y, b>>, token) = <<z>> \o <<b>>
    BY <1>3, <1>4, <1>5, <1>7 DEF Shifted
  <2> HIDE DEF z
  <2>4. <<z>> \o <<>> \in Stacks /\ <<z>> \o <<b>> = Append(<<z>> \o <<>>, b)
    BY <2>1, OneOrTwo
  <2> QED
    BY <2>2, <2>3, <2>4 DEF x, y
<1>8. CASE kind = "open"
  <2> DEFINE z == [x EXCEPT !.wants = "operator"]
  <2>1. z \in Level
    BY <1>1, <1>2, LevelTypes
  <2>2. Shifted(<<x>>, token) = <<y, z>> \o <<>>
    BY <1>3, <1>4, <1>8 DEF Shifted, y
  <2>3. Shifted(<<y, b>>, token) = <<y, z>> \o <<b>>
    BY <1>3, <1>4, <1>6, <1>8 DEF Shifted, y
  <2> HIDE DEF z
  <2>4. <<y, z>> \in Stacks /\ <<y, z>> \o <<>> = <<y, z>>
    BY <1>1, <2>1, OneOrTwo
  <2>5. <<y, z>> \o <<b>> = Append(<<y, z>>, b)
    BY <1>1, <2>1, <2>4, AppendIsConcat DEF Stacks
  <2> QED
    BY <2>2, <2>3, <2>4, <2>5 DEF x, y
<1>9. CASE kind = "space"
  BY <1>1, <1>3, <1>4, <1>9 DEF Shifted, x, y
<1>10. CASE kind \in {"close", "and", "or", "junk"}
  <2>1. Shifted(<<x>>, token) = Failed
    BY <1>1, <1>3, <1>4, <1>10 DEF Shifted
  <2>2. Shifted(<<y, b>>, token) = Failed
    BY <1>1, <1>3, <1>4, <1>10 DEF Shifted
  <2> QED
    BY <2>1, <2>2 DEF x, y
<1> QED
  BY <1>2, <1>7, <1>8, <1>9, <1>10 DEF Kinds

-----------------------------------------------------------------------------
(* Reading a text                                                          *)

Outcomes == Stacks \union {Failed, Fragment}

\* The stacks that are read one after the other.
IsRun(g, tokens, from) ==
  /\ g \in [0 .. Len(tokens) -> Outcomes]
  /\ g[0] = from
  /\ \A i \in 1 .. Len(tokens) : g[i] = Shifted(g[i - 1], tokens[i])

\* There is one such run, and Read is what it ends with.
LEMMA RunExists ==
  ASSUME NEW tokens \in Seq(Token), NEW from \in Outcomes
  PROVE  \E g : IsRun(g, tokens, from)
<1> DEFINE n == Len(tokens)
           F == [i \in 1 .. n |-> [s \in Outcomes |-> Shifted(s, tokens[i])]]
<1>1. n \in Nat /\ \A i \in 1 .. n : tokens[i] \in Token
  BY LenProperties, ElementOfSeq
<1>2. \A i \in 1 .. n : \A s \in Outcomes : Shifted(s, tokens[i]) \in Outcomes
  BY <1>1, ShiftedType DEF Outcomes
<1>3. IsStep(F, n, Outcomes, from)
  BY <1>1, <1>2 DEF IsStep
<1> HIDE DEF n
<1>4. PICK g \in [0 .. n -> Outcomes] : g[0] = from /\ \A i \in 1 .. n : g[i] = F[i][g[i - 1]]
  <2> HIDE DEF F
  <2> QED
    BY <1>3, StepRecursion
<1>5. \A i \in 1 .. n : g[i - 1] \in Outcomes
  BY <1>1, <1>4
<1>6. \A i \in 1 .. n : g[i] = Shifted(g[i - 1], tokens[i])
  BY <1>4, <1>5
<1> QED
  BY <1>4, <1>6 DEF IsRun, n

LEMMA RunUnique ==
  ASSUME NEW tokens \in Seq(Token), NEW from, NEW g, NEW h, g[0] = from, h[0] = from,
         \A i \in 1 .. Len(tokens) : g[i] = Shifted(g[i - 1], tokens[i]),
         \A i \in 1 .. Len(tokens) : h[i] = Shifted(h[i - 1], tokens[i])
  PROVE  \A i \in 0 .. Len(tokens) : g[i] = h[i]
<1> DEFINE n == Len(tokens)
           S == {i \in 0 .. n : g[i] = h[i]}
<1>1. n \in Nat
  BY LenProperties
<1>2. 0 \in S
  BY <1>1
<1>3. ASSUME NEW i \in 0 .. n - 1, i \in S PROVE i + 1 \in S
  <2>1. i + 1 \in 1 .. n /\ (i + 1) - 1 = i /\ i + 1 \in 0 .. n
    BY <1>1
  <2>2. g[i + 1] = Shifted(g[(i + 1) - 1], tokens[i + 1]) /\ h[i + 1] = Shifted(h[(i + 1) - 1], tokens[i + 1])
    BY <2>1
  <2> QED
    BY <1>3, <2>1, <2>2
<1> HIDE DEF S
<1>4. 0 .. n \subseteq S
  BY <1>1, <1>2, <1>3, BoundedInduction
<1> QED
  BY <1>4 DEF S

LEMMA ReadIsRun ==
  ASSUME NEW tokens \in Seq(Token), NEW from \in Outcomes, NEW g, IsRun(g, tokens, from)
  PROVE  Read(tokens, from) = g[Len(tokens)]
<1> DEFINE n == Len(tokens)
           R(h) == h = [i \in 0 .. n |-> IF i = 0 THEN from ELSE Shifted(h[i - 1], tokens[i])]
           f == CHOOSE h : R(h)
<1>1. n \in Nat
  BY LenProperties
<1>2. R(g)
  <2>1. g = [i \in 0 .. n |-> g[i]]
    BY DEF IsRun
  <2>2. \A i \in 0 .. n : g[i] = IF i = 0 THEN from ELSE Shifted(g[i - 1], tokens[i])
    BY <1>1 DEF IsRun
  <2> QED
    BY <2>1, <2>2
<1>3. R(f)
  <2> HIDE DEF R
  <2> QED
    BY <1>2
<1>4. Read(tokens, from) = f[n]
  BY DEF Read
<1> HIDE DEF f
<1>5. f[0] = from /\ \A i \in 1 .. n : f[i] = Shifted(f[i - 1], tokens[i])
  <2>1. \A i \in 0 .. n : f[i] = IF i = 0 THEN from ELSE Shifted(f[i - 1], tokens[i])
    BY <1>3
  <2> HIDE DEF R
  <2> QED
    BY <1>1, <2>1
<1> HIDE DEF R
<1>6. g[0] = from /\ \A i \in 1 .. n : g[i] = Shifted(g[i - 1], tokens[i])
  BY DEF IsRun
<1>7. \A i \in 0 .. n : f[i] = g[i]
  BY <1>5, <1>6, RunUnique
<1> QED
  BY <1>1, <1>4, <1>7

LEMMA ReadType ==
  ASSUME NEW tokens \in Seq(Token), NEW from \in Outcomes
  PROVE  Read(tokens, from) \in Outcomes
<1>1. PICK g : IsRun(g, tokens, from)
  BY RunExists
<1>2. Len(tokens) \in 0 .. Len(tokens)
  BY LenProperties
<1> QED
  BY <1>1, <1>2, ReadIsRun DEF IsRun

\* One token after another: a text read to its end, and what follows it.
LEMMA ReadConcat ==
  ASSUME NEW s \in Seq(Token), NEW t \in Seq(Token), NEW from \in Outcomes
  PROVE  Read(s \o t, from) = Read(t, Read(s, from))
<1> DEFINE m == Len(s)
           n == Len(t)
<1>1. m \in Nat /\ n \in Nat
  BY LenProperties
<1>2. PICK g : IsRun(g, s, from)
  BY RunExists
<1>3. Read(s, from) = g[m] /\ g[m] \in Outcomes
  <2>1. Read(s, from) = g[m]
    BY <1>2, ReadIsRun
  <2> HIDE DEF m
  <2>2. m \in 0 .. m
    BY <1>1
  <2>3. g \in [0 .. m -> Outcomes]
    BY <1>2 DEF IsRun, m
  <2> QED
    BY <2>1, <2>2, <2>3
<1>4. PICK h : IsRun(h, t, g[m])
  BY <1>3, RunExists
<1>5. Read(t, g[m]) = h[n]
  BY <1>3, <1>4, ReadIsRun
<1>6. /\ s \o t \in Seq(Token) /\ Len(s \o t) = m + n
      /\ \A i \in 1 .. m + n : (s \o t)[i] = IF i <= m THEN s[i] ELSE t[i - m]
  BY ConcatProperties
<1> DEFINE k == [i \in 0 .. m + n |-> IF i <= m THEN g[i] ELSE h[i - m]]
<1> HIDE DEF m, n
<1>7. h[0] = g[m] /\ g[0] = from
  BY <1>2, <1>4 DEF IsRun
<1>8. ASSUME NEW i \in 0 .. m + n PROVE k[i] \in Outcomes
  <2>1. CASE i <= m
    <3>1. i \in 0 .. m /\ g \in [0 .. m -> Outcomes]
      BY <1>1, <1>2, <2>1 DEF IsRun, m
    <3> QED
      BY <2>1, <3>1
  <2>2. CASE ~ (i <= m)
    <3>1. i - m \in 0 .. n
      BY <1>1, <2>2
    <3> QED
      BY <1>4, <2>2, <3>1 DEF IsRun, n
  <2> QED
    BY <2>1, <2>2
<1>9. ASSUME NEW i \in 1 .. m + n PROVE k[i] = Shifted(k[i - 1], (s \o t)[i])
  <2>1. CASE i <= m
    <3>1. i \in 1 .. m /\ i \in 0 .. m + n /\ i - 1 \in 0 .. m + n /\ i - 1 <= m
      BY <1>1, <2>1
    <3>2. g[i] = Shifted(g[i - 1], s[i])
      BY <1>2, <3>1 DEF IsRun, m
    <3> QED
      BY <1>6, <2>1, <3>1, <3>2
  <2>2. CASE i = m + 1
    <3>1. i \in 0 .. m + n /\ i - 1 \in 0 .. m + n /\ i - 1 = m /\ i - m = 1 /\ 1 \in 1 .. n /\ ~ (i <= m)
      BY <1>1, <2>2
    <3>2. h[1] = Shifted(h[0], t[1])
      BY <1>4, <3>1 DEF IsRun, n
    <3>3. k[i] = h[1] /\ k[i - 1] = g[m] /\ (s \o t)[i] = t[1]
      BY <1>1, <1>6, <3>1
    <3> QED
      BY <1>7, <3>2, <3>3
  <2>3. CASE ~ (i <= m) /\ i # m + 1
    <3>1. /\ i \in 0 .. m + n /\ i - 1 \in 0 .. m + n /\ ~ (i - 1 <= m)
          /\ i - m \in 1 .. n /\ (i - 1) - m = (i - m) - 1
      BY <1>1, <2>3
    <3>2. h[i - m] = Shifted(h[(i - m) - 1], t[i - m])
      BY <1>4, <3>1 DEF IsRun, n
    <3>3. k[i] = h[i - m] /\ k[i - 1] = h[(i - m) - 1] /\ (s \o t)[i] = t[i - m]
      BY <1>1, <1>6, <2>3, <3>1
    <3> QED
      BY <3>2, <3>3
  <2> QED
    BY <2>1, <2>2, <2>3
<1>10. k[0] = from
  BY <1>1, <1>7
<1>11. k \in [0 .. m + n -> Outcomes]
  BY <1>8
<1> HIDE DEF k
<1>12. IsRun(k, s \o t, from)
  BY <1>6, <1>9, <1>10, <1>11 DEF IsRun
<1>13. Read(s \o t, from) = k[m + n]
  BY <1>6, <1>12, ReadIsRun
<1>14. k[m + n] = h[n]
  <2>1. CASE n = 0
    BY <1>1, <1>7, <2>1 DEF k
  <2>2. CASE n # 0
    <3>1. ~ (m + n <= m) /\ (m + n) - m = n /\ m + n \in 0 .. m + n
      BY <1>1, <2>2
    <3> QED
      BY <3>1 DEF k
  <2> QED
    BY <2>1, <2>2
<1> QED
  BY <1>3, <1>5, <1>13, <1>14 DEF n, m

LEMMA ReadOne ==
  ASSUME NEW token \in Token, NEW from \in Outcomes
  PROVE  Read(<<token>>, from) = Shifted(from, token)
<1> DEFINE s == <<token>>
<1>1. Len(s) = 1 /\ s[1] = token /\ s \in Seq(Token)
  OBVIOUS
<1> HIDE DEF s
<1>2. PICK g : IsRun(g, s, from)
  BY <1>1, RunExists
<1>3. 1 \in 1 .. 1 /\ 1 - 1 = 0
  OBVIOUS
<1>4. g[1] = Shifted(g[0], s[1]) /\ g[0] = from
  BY <1>1, <1>2, <1>3 DEF IsRun
<1>5. Read(s, from) = g[Len(s)]
  BY <1>1, <1>2, ReadIsRun
<1> QED
  BY <1>1, <1>4, <1>5 DEF s

\* A text is read between parentheses as it is read alone, unless it is a fragment.
LEMMA ReadInside ==
  ASSUME NEW tokens \in Seq(Token), tokens # <<>>, NEW b \in Level
  PROVE  LET alone == Read(tokens, <<Opened("start")>>)
             inside == Read(tokens, <<Opened("first"), b>>)
         IN  \/ alone = Failed /\ inside = Failed
             \/ alone = Fragment
             \/ alone \in Stacks /\ inside = Append(alone, b)
<1> DEFINE n == Len(tokens)
           from1 == <<Opened("start")>>
           from2 == <<Opened("first"), b>>
           Same(x, y) == \/ x = Failed /\ y = Failed
                         \/ x = Fragment
                         \/ x \in Stacks /\ y = Append(x, b)
<1>1. n \in Nat \ {0} /\ \A i \in 1 .. n : tokens[i] \in Token
  BY EmptySeq, ElementOfSeq
<1>2. from1 \in Outcomes /\ from2 \in Outcomes
  <2>1. Opened("start") \in Level /\ Opened("first") \in Level
    BY OpenedType DEF Wants
  <2> QED
    BY <2>1, OneOrTwo DEF Outcomes
<1>3. PICK g : IsRun(g, tokens, from1)
  BY <1>2, RunExists
<1>4. PICK h : IsRun(h, tokens, from2)
  BY <1>2, RunExists
<1>5. Read(tokens, from1) = g[n] /\ Read(tokens, from2) = h[n]
  BY <1>2, <1>3, <1>4, ReadIsRun
<1> DEFINE S == {i \in 0 .. n - 1 : Same(g[i + 1], h[i + 1])}
<1>6. 0 \in S
  <2>1. g[0] = from1 /\ h[0] = from2 /\ 1 \in 1 .. n /\ 1 - 1 = 0
    BY <1>1, <1>3, <1>4 DEF IsRun
  <2>2. g[1] = Shifted(from1, tokens[1]) /\ h[1] = Shifted(from2, tokens[1])
    BY <2>1, <1>3, <1>4 DEF IsRun
  <2>3. Same(Shifted(from1, tokens[1]), Shifted(from2, tokens[1]))
    BY <1>1, <2>1, FirstToken
  <2> HIDE DEF from1, from2, Same
  <2>4. 0 \in 0 .. n - 1 /\ 0 + 1 = 1
    BY <1>1
  <2> QED
    BY <2>2, <2>3, <2>4
<1>7. ASSUME NEW i \in 0 .. (n - 1) - 1, i \in S PROVE i + 1 \in S
  <2> DEFINE j == i + 1
  <2>1. j \in 0 .. n - 1 /\ j + 1 \in 1 .. n /\ (j + 1) - 1 = j /\ j \in 0 .. n
    BY <1>1
  <2>2. g[j] \in Outcomes /\ h[j] \in Outcomes /\ tokens[j + 1] \in Token
    BY <1>1, <1>3, <1>4, <2>1 DEF IsRun
  <2>3. g[j + 1] = Shifted(g[j], tokens[j + 1]) /\ h[j + 1] = Shifted(h[j], tokens[j + 1])
    BY <1>3, <1>4, <2>1 DEF IsRun
  <2>4. Same(g[j], h[j])
    BY <1>7
  <2> HIDE DEF j, S
  <2>5. Same(g[j + 1], h[j + 1])
    <3>1. CASE g[j] \in Stacks /\ h[j] = Append(g[j], b)
      BY <2>2, <2>3, <3>1, OneToken
    <3>2. CASE g[j] = Failed /\ h[j] = Failed
      BY <2>3, <3>2 DEF Shifted
    <3>3. CASE g[j] = Fragment
      BY <2>3, <3>3 DEF Shifted
    <3> QED
      BY <2>4, <3>1, <3>2, <3>3
  <2> HIDE DEF Same
  <2> QED
    BY <2>1, <2>5 DEF S, j
<1>8. n - 1 \in Nat
  BY <1>1
<1> HIDE DEF S, Same
<1>9. 0 .. n - 1 \subseteq S
  BY <1>6, <1>7, <1>8, BoundedInduction
<1>10. n - 1 \in S /\ (n - 1) + 1 = n
  BY <1>1, <1>9
<1>11. Same(g[n], h[n])
  BY <1>10 DEF S
<1> QED
  BY <1>5, <1>11 DEF Same, from1, from2

-----------------------------------------------------------------------------
(* What texts mean                                                         *)

\* A text means a set of worlds, or it is an error of one of two kinds.
LEMMA ReadingType ==
  ASSUME NEW t \in Text
  PROVE  /\ Reading(t) \in Meanings \union {Failed, Fragment}
         /\ Blank(t) => Reading(t) = Failed
<1> DEFINE from == <<Opened("start")>>
           stack == Read(t.tokens, from)
<1>0. t.tokens \in Seq(Token)
  BY DEF Text
<1>1. Opened("start") \in Level /\ Opened("start").wants = "start" /\ from \in Stacks
  BY OpenedType, OneOrTwo DEF Wants
<1>2. stack \in Outcomes
  BY <1>0, <1>1, ReadType DEF Outcomes
<1>3. stack \in Stacks => Head(stack) \in Level
  BY HeadTailProperties DEF Stacks
<1>4. Reading(t) = IF stack \in {Failed, Fragment} THEN stack
                   ELSE IF Len(stack) > 1 \/ Head(stack).wants = "close" THEN Fragment
                   ELSE IF Head(stack).wants = "operator" THEN Meant(Head(stack))
                   ELSE Failed
  BY DEF Reading
<1>5. ASSUME Blank(t) PROVE stack = from
  <2>1. PICK g : IsRun(g, t.tokens, from)
    BY <1>0, <1>1, RunExists DEF Outcomes
  <2>2. Len(t.tokens) = 0
    BY <1>5 DEF Blank
  <2> QED
    BY <2>1, <2>2, <1>0, <1>1, ReadIsRun DEF IsRun, Outcomes
<1>6. from \notin {Failed, Fragment} /\ Head(from) = Opened("start") /\ Len(from) = 1
  BY <1>1, OneOrTwo, StackNoError DEF Stacks
<1> HIDE DEF stack, from
<1>7. \A level \in Level : Meant(level) \in Meanings
  BY DEF Meant, Level, Meanings
<1>8. Reading(t) \in Meanings \union {Failed, Fragment}
  BY <1>2, <1>3, <1>4, <1>7 DEF Outcomes
<1>9. Blank(t) => Reading(t) = Failed
  <2> SUFFICES ASSUME Blank(t) PROVE Reading(t) = Failed
    OBVIOUS
  <2>1. stack = from
    BY <1>5
  <2>2. Len(stack) = 1 /\ Head(stack).wants = "start" /\ stack \notin {Failed, Fragment}
    BY <1>1, <1>6, <2>1
  <2> DEFINE k == Len(stack)
  <2>3. ~ (k > 1)
    <3>1. k = 1
      BY <2>2
    <3> HIDE DEF k
    <3> QED
      BY <3>1
  <2> QED
    BY <1>4, <2>2, <2>3
<1> QED
  BY <1>8, <1>9

LEMMA BothType ==
  ASSUME NEW l \in Meanings, NEW r \in Meanings, NEW c \in BOOLEAN
  PROVE  Both(l, r, c) \in Meanings
  BY DEF Both, Meanings

LEMMA SymbolType ==
  ASSUME NEW kind \in Kinds
  PROVE  Symbol(kind) \in Token /\ Symbol(kind).kind = kind
  BY DEF Symbol, Token, Meanings

\* Between parentheses a text is one operand with its own meaning, or an error.
LEMMA ParenthesisedRead ==
  ASSUME NEW t \in Text, NEW level \in Level, Waiting(level), Reading(t) # Fragment
  PROVE  /\ Parenthesised(t.tokens) \in Seq(Token)
         /\ Read(Parenthesised(t.tokens), <<level>>) =
              IF Reading(t) = Failed THEN Failed
              ELSE <<[level EXCEPT !.all = level.all \intersect Reading(t), !.wants = "operator"]>>
<1> DEFINE open == Symbol("open")
           close == Symbol("close")
           b == [level EXCEPT !.wants = "operator"]
           alone == Read(t.tokens, <<Opened("start")>>)
           inside == Read(t.tokens, <<Opened("first"), b>>)
<1>0. t.tokens \in Seq(Token)
  BY DEF Text
<1>1. open \in Token /\ open.kind = "open" /\ close \in Token /\ close.kind = "close"
  BY SymbolType DEF Kinds
<1>2. /\ Opened("first") \in Level /\ Opened("first").wants = "first"
      /\ Opened("start") \in Level
  BY OpenedType DEF Wants
<1>3. b \in Level /\ b.any = level.any /\ b.all = level.all
  BY DEF Level
<1>4. /\ <<level>> \in Stacks /\ Head(<<level>>) = level /\ Tail(<<level>>) = <<>>
      /\ <<Opened("first"), b>> \in Stacks /\ <<Opened("first"), b>> \o <<>> = <<Opened("first"), b>>
      /\ <<Opened("start")>> \in Stacks
  BY <1>2, <1>3, OneOrTwo
<1>5. /\ <<open>> \in Seq(Token) /\ <<close>> \in Seq(Token)
      /\ <<open>> \o t.tokens \in Seq(Token)
      /\ Parenthesised(t.tokens) \in Seq(Token)
  <2>1. <<open>> \in Seq(Token) /\ <<close>> \in Seq(Token)
    BY <1>1
  <2>2. <<open>> \o t.tokens \in Seq(Token)
    BY <1>0, <2>1, ConcatProperties
  <2> QED
    BY <2>1, <2>2, ConcatProperties DEF Parenthesised
<1>6. Shifted(<<level>>, open) = <<Opened("first"), b>>
  <2>1. <<level>> \notin {Failed, Fragment}
    BY <1>4, StackNoError DEF Stacks
  <2> HIDE DEF open
  <2>2. Shifted(<<level>>, open) = <<Opened("first"), b>> \o <<>>
    BY <1>1, <1>4, <2>1 DEF Shifted
  <2> QED
    BY <1>4, <2>2
<1>7. inside \in Outcomes /\ alone \in Outcomes
  BY <1>0, <1>4, ReadType DEF Outcomes
<1>8. Read(Parenthesised(t.tokens), <<level>>) = Shifted(inside, close)
  <2> HIDE DEF open, close, b
  <2>0. <<level>> \in Outcomes /\ <<Opened("first"), b>> \in Outcomes
    BY <1>4 DEF Outcomes
  <2>1. Read(<<open>>, <<level>>) = <<Opened("first"), b>>
    BY <1>1, <1>6, <2>0, ReadOne
  <2>2. Read(<<open>> \o t.tokens, <<level>>) = inside
    BY <1>0, <1>5, <2>0, <2>1, ReadConcat
  <2> HIDE DEF inside
  <2>3. Read((<<open>> \o t.tokens) \o <<close>>, <<level>>) = Read(<<close>>, inside)
    BY <1>5, <2>0, <2>2, ReadConcat
  <2>4. Read(<<close>>, inside) = Shifted(inside, close)
    BY <1>1, <1>7, ReadOne
  <2> QED
    BY <2>3, <2>4 DEF Parenthesised, open, close
<1>9. CASE Blank(t)
  <2>1. Reading(t) = Failed
    BY <1>9, ReadingType
  <2>2. inside = <<Opened("first"), b>>
    <3>1. PICK g : IsRun(g, t.tokens, <<Opened("first"), b>>)
      BY <1>0, <1>4, RunExists DEF Outcomes
    <3>2. Len(t.tokens) = 0
      BY <1>9 DEF Blank
    <3> QED
      BY <3>1, <3>2, <1>0, <1>4, ReadIsRun DEF IsRun, Outcomes
  <2>3. inside \notin {Failed, Fragment} /\ Head(inside) = Opened("first")
    <3> HIDE DEF inside, b
    <3>1. Head(<<Opened("first"), b>>) = Opened("first")
      BY <1>2, <1>3, OneOrTwo
    <3>2. inside \in Seq(Level)
      BY <1>4, <2>2 DEF Stacks
    <3>3. inside \notin {Failed, Fragment}
      BY <3>2, StackNoError
    <3> QED
      BY <2>2, <3>1, <3>3
  <2>4. ~ Complete(Opened("first"))
    BY <1>2 DEF Complete
  <2> HIDE DEF inside, close
  <2>5. Shifted(inside, close) = Failed
    BY <1>1, <2>3, <2>4 DEF Shifted
  <2> QED
    BY <1>5, <1>8, <2>1, <2>5
<1>10. CASE ~ Blank(t)
  <2> HIDE DEF b
  <2>1. \/ alone = Failed /\ inside = Failed
        \/ alone = Fragment
        \/ alone \in Stacks /\ inside = Append(alone, b)
    BY <1>0, <1>3, <1>10, ReadInside DEF Blank
  <2>2. Reading(t) = IF alone \in {Failed, Fragment} THEN alone
                     ELSE IF Len(alone) > 1 \/ Head(alone).wants = "close" THEN Fragment
                     ELSE IF Head(alone).wants = "operator" THEN Meant(Head(alone))
                     ELSE Failed
    BY DEF Reading
  <2> HIDE DEF alone, inside, close
  <2>3. CASE alone = Failed /\ inside = Failed
    <3>1. Shifted(inside, close) = Failed
      BY <2>3 DEF Shifted
    <3> QED
      BY <1>5, <1>8, <2>2, <2>3, <3>1
  <2>4. CASE alone \in Stacks /\ inside = Append(alone, b)
    <3> DEFINE top == Head(alone)
    <3>1. alone \in Seq(Level) /\ alone # <<>> /\ top \in Level /\ Tail(alone) \in Seq(Level)
      BY <2>4, HeadTailProperties DEF Stacks
    <3>2. alone \notin {Failed, Fragment}
      BY <3>1, StackNoError
    <3>3. Len(alone) = 1
      <4> DEFINE k == Len(alone)
      <4>1. ~ (k > 1)
        BY <2>2, <3>2
      <4>2. k \in Nat \ {0}
        BY <3>1, EmptySeq
      <4> HIDE DEF k
      <4>3. k = 1
        BY <4>1, <4>2
      <4> QED
        BY <4>3 DEF k
    <3>4. Tail(alone) = <<>>
      <4>1. Len(Tail(alone)) = 0
        BY <3>1, <3>3, HeadTailProperties
      <4> QED
        BY <3>1, <4>1, EmptySeq
    <3>5. Head(inside) = top /\ Tail(inside) = <<b>> /\ inside \in Seq(Level)
      <4>1. Head(inside) = top /\ Tail(inside) = Append(Tail(alone), b) /\ inside \in Seq(Level)
        BY <1>3, <2>4, <3>1, HeadTailAppend, AppendProperties
      <4>2. Append(<<>>, b) = <<b>>
        OBVIOUS
      <4> QED
        BY <3>4, <4>1, <4>2
    <3>6. inside \notin {Failed, Fragment}
      BY <3>5, StackNoError
    <3>7. top.wants # "close"
      BY <2>2, <3>2
    <3> HIDE DEF top
    <3>8. CASE top.wants = "operator"
      <4>1. Reading(t) = Meant(top) /\ Meant(top) \in Meanings
        <5>1. Reading(t) = Meant(top)
          BY <2>2, <3>2, <3>3, <3>8 DEF top
        <5> QED
          BY <5>1, <3>1 DEF Meant, Level, Meanings
      <4>2. Complete(top) /\ <<b>> # <<>>
        BY <3>8 DEF Complete
      <4>3. Head(<<b>>) = b /\ Tail(<<b>>) = <<>>
        BY <1>3, OneOrTwo
      <4>4. Shifted(inside, close) = <<WithOperand(b, Meant(top))>> \o <<>>
        BY <1>1, <3>5, <3>6, <4>2, <4>3 DEF Shifted
      <4>5. WithOperand(b, Meant(top)) \in Level
        BY <1>3, <4>1, LevelTypes
      <4>6. <<WithOperand(b, Meant(top))>> \o <<>> = <<WithOperand(b, Meant(top))>>
        BY <4>5, OneOrTwo
      <4>7. WithOperand(b, Reading(t)) =
              [level EXCEPT !.all = level.all \intersect Reading(t), !.wants = "operator"]
        BY DEF WithOperand, b, Level
      <4>8. Reading(t) # Failed
        BY <4>1, NoneAssumption
      <4> QED
        BY <1>5, <1>8, <4>1, <4>4, <4>6, <4>7, <4>8
    <3>9. CASE top.wants # "operator"
      <4>1. Reading(t) = Failed
        BY <2>2, <3>2, <3>3, <3>7, <3>9 DEF top
      <4>2. ~ Complete(top)
        BY <3>7, <3>9 DEF Complete
      <4>3. Shifted(inside, close) = Failed
        BY <1>1, <3>5, <3>6, <4>2 DEF Shifted
      <4> QED
        BY <1>5, <1>8, <4>1, <4>3
    <3> QED
      BY <3>8, <3>9
  <2>5. CASE alone = Fragment
    <3>1. Reading(t) = Fragment
      BY <2>2, <2>5
    <3> QED
      BY <3>1
  <2> QED
    BY <2>1, <2>3, <2>4, <2>5
<1> QED
  BY <1>9, <1>10

\* An error stays one, whatever follows.
LEMMA ReadFailed ==
  ASSUME NEW tokens \in Seq(Token)
  PROVE  Read(tokens, Failed) = Failed
<1> DEFINE g == [i \in 0 .. Len(tokens) |-> Failed]
<1>1. Len(tokens) \in Nat /\ \A i \in 1 .. Len(tokens) : tokens[i] \in Token
  BY LenProperties, ElementOfSeq
<1>2. \A i \in 1 .. Len(tokens) : Shifted(Failed, tokens[i]) = Failed
  BY DEF Shifted
<1>3. IsRun(g, tokens, Failed)
  BY <1>1, <1>2 DEF IsRun, Outcomes
<1>4. g[Len(tokens)] = Failed
  BY <1>1
<1> HIDE DEF g
<1> QED
  BY <1>3, <1>4, ReadIsRun DEF Outcomes

\* Pasting two texts that are no fragments joins their meanings, whatever operators are
\* inside them.
LEMMA JoinedFacts ==
  ASSUME NEW l \in Text, NEW r \in Text, NEW c \in BOOLEAN
  PROVE  LET t == Joined(l, r, c)
         IN  /\ t \in Text
             /\ ~ Blank(t)
             /\ Reading(l) # Fragment /\ Reading(r) # Fragment =>
                  Reading(t) = IF Failed \in {Reading(l), Reading(r)} THEN Failed
                               ELSE Both(Reading(l), Reading(r), c)
<1> DEFINE t == Joined(l, r, c)
           kind == IF c THEN "and" ELSE "or"
           op == Symbol(kind)
           pl == Parenthesised(l.tokens)
           pr == Parenthesised(r.tokens)
           x == Opened("start")
<1>1. kind \in Kinds /\ op \in Token /\ op.kind = kind /\ Symbol("open") \in Token /\ Symbol("close") \in Token
  BY SymbolType DEF Kinds
<1>2. l.tokens \in Seq(Token) /\ r.tokens \in Seq(Token) /\ l.length \in Nat /\ r.length \in Nat
  BY DEF Text
<1>3. pl \in Seq(Token) /\ pr \in Seq(Token) /\ <<op>> \in Seq(Token)
  <2>1. <<Symbol("open")>> \in Seq(Token) /\ <<Symbol("close")>> \in Seq(Token) /\ <<op>> \in Seq(Token)
    BY <1>1
  <2>2. <<Symbol("open")>> \o l.tokens \in Seq(Token) /\ <<Symbol("open")>> \o r.tokens \in Seq(Token)
    BY <1>2, <2>1, ConcatProperties
  <2>3. pl \in Seq(Token)
    BY <2>1, <2>2, ConcatProperties DEF Parenthesised
  <2>4. pr \in Seq(Token)
    BY <2>1, <2>2, ConcatProperties DEF Parenthesised
  <2> QED
    BY <2>1, <2>3, <2>4
<1>4. t.tokens = (pl \o <<op>>) \o pr /\ t.length = l.length + r.length + (IF c THEN 9 ELSE 8)
  BY DEF Joined
<1>5. t = [tokens |-> t.tokens, length |-> t.length]
  BY DEF Joined
<1> HIDE DEF t, op, pl, pr, kind
<1>6. pl \o <<op>> \in Seq(Token) /\ Len(pl \o <<op>>) = Len(pl) + 1 /\ Len(pl) \in Nat /\ Len(pr) \in Nat
  <2>1. Len(<<op>>) = 1
    OBVIOUS
  <2> QED
    BY <1>3, <2>1, ConcatProperties, LenProperties
<1>7. t.tokens \in Seq(Token) /\ Len(t.tokens) # 0
  <2>1. (pl \o <<op>>) \o pr \in Seq(Token) /\ Len((pl \o <<op>>) \o pr) = (Len(pl) + 1) + Len(pr)
    BY <1>3, <1>6, ConcatProperties
  <2> QED
    BY <1>4, <1>6, <2>1
<1>8. t \in Text /\ ~ Blank(t)
  <2>1. t.length \in Nat
    BY <1>2, <1>4
  <2>2. t.tokens # <<>>
    BY <1>7
  <2> QED
    BY <1>5, <1>7, <2>1, <2>2 DEF Text, Blank
<1>9. ASSUME Reading(l) # Fragment, Reading(r) # Fragment
      PROVE  Reading(t) = IF Failed \in {Reading(l), Reading(r)} THEN Failed
                          ELSE Both(Reading(l), Reading(r), c)
  <2>1. x \in Level /\ x.any = {} /\ x.all = Worlds /\ x.wants = "start" /\ Waiting(x)
    BY OpenedType DEF Wants, Waiting
  <2>2. <<x>> \in Outcomes
    BY <2>1, OneOrTwo DEF Outcomes
  <2> DEFINE sl == Read(pl, <<x>>)
             so == Read(pl \o <<op>>, <<x>>)
             st == Read(t.tokens, <<x>>)
             y == [x EXCEPT !.all = x.all \intersect Reading(l), !.wants = "operator"]
  <2>3. sl = IF Reading(l) = Failed THEN Failed ELSE <<y>>
    BY <1>9, <2>1, ParenthesisedRead DEF pl
  <2>4. sl \in Outcomes
    BY <1>3, <2>2, ReadType
  <2>5. so = Shifted(sl, op)
    BY <1>1, <1>3, <2>2, <2>4, ReadConcat, ReadOne
  <2>6. st = Read(pr, so)
    <3> DEFINE front == pl \o <<op>>
               from == <<x>>
    <3>1. front \in Seq(Token) /\ from \in Outcomes /\ t.tokens = front \o pr
      BY <1>4, <1>6, <2>2
    <3> HIDE DEF front, from
    <3>2. Read(t.tokens, from) = Read(pr, Read(front, from))
      BY <1>3, <3>1, ReadConcat
    <3> QED
      BY <3>2 DEF front, from
  <2>7. Reading(t) = IF st \in {Failed, Fragment} THEN st
                     ELSE IF Len(st) > 1 \/ Head(st).wants = "close" THEN Fragment
                     ELSE IF Head(st).wants = "operator" THEN Meant(Head(st))
                     ELSE Failed
    BY DEF Reading, x
  <2>8. /\ Reading(l) \in Meanings \/ Reading(l) = Failed
        /\ Reading(r) \in Meanings \/ Reading(r) = Failed
    BY <1>9, ReadingType
  <2> HIDE DEF sl, so, st, x
  <2>9. CASE Reading(l) = Failed
    <3>1. so = Failed
      BY <2>3, <2>5, <2>9 DEF Shifted
    <3>2. st = Failed
      BY <1>3, <2>6, <3>1, ReadFailed
    <3> QED
      BY <2>7, <2>9, <3>2
  <2>10. CASE Reading(l) # Failed
    <3>1. Reading(l) \in Meanings /\ Reading(l) \subseteq Worlds
      BY <2>8, <2>10 DEF Meanings
    <3>2. y \in Level /\ y.any = {} /\ y.all = Reading(l) /\ y.wants = "operator"
      BY <2>1, <3>1 DEF Level, Meanings
    <3> HIDE DEF y
    <3>3. /\ <<y>> \notin {Failed, Fragment} /\ Head(<<y>>) = y /\ Tail(<<y>>) = <<>>
      BY <3>2, OneOrTwo, StackNoError DEF Stacks
    <3> DEFINE z == WithOperator(y, kind)
    <3>4. /\ z \in Level /\ z.wants = "operand"
          /\ z.any = (IF c THEN {} ELSE Reading(l)) /\ z.all = (IF c THEN Reading(l) ELSE Worlds)
      <4>1. Meant(y) = Reading(l)
        BY <3>2 DEF Meant
      <4>2. kind = "and" <=> c
        BY DEF kind
      <4> QED
        BY <3>2, <4>1, <4>2, OperatorType
    <3>5. so = <<z>>
      <4>1. kind \in {"and", "or"}
        BY DEF kind
      <4>2. Shifted(<<y>>, op) = <<z>> \o <<>>
        BY <1>1, <3>2, <3>3, <4>1 DEF Shifted
      <4> HIDE DEF z
      <4>3. <<z>> \o <<>> = <<z>>
        BY <3>4, OneOrTwo
      <4> QED
        BY <2>3, <2>5, <2>10, <4>2, <4>3
    <3> HIDE DEF z
    <3>6. Waiting(z)
      BY <3>4 DEF Waiting
    <3> DEFINE e == [z EXCEPT !.all = z.all \intersect Reading(r), !.wants = "operator"]
    <3>7. st = IF Reading(r) = Failed THEN Failed ELSE <<e>>
      BY <1>9, <2>6, <3>4, <3>5, <3>6, ParenthesisedRead DEF pr
    <3>8. CASE Reading(r) = Failed
      BY <2>7, <3>7, <3>8
    <3>9. CASE Reading(r) # Failed
      <4>1. Reading(r) \in Meanings /\ Reading(r) \subseteq Worlds
        BY <2>8, <3>9 DEF Meanings
      <4>2. e \in Level /\ e.any = z.any /\ e.all = z.all \intersect Reading(r) /\ e.wants = "operator"
        BY <3>4, <4>1 DEF Level, Meanings
      <4> HIDE DEF e
      <4>3. <<e>> \notin {Failed, Fragment} /\ Head(<<e>>) = e /\ Len(<<e>>) = 1
        BY <4>2, OneOrTwo, StackNoError DEF Stacks
      <4>4. Reading(t) = Meant(e)
        BY <2>7, <3>7, <3>9, <4>2, <4>3
      <4>5. Meant(e) = Both(Reading(l), Reading(r), c)
        <5>1. CASE c
          BY <3>4, <4>2, <5>1 DEF Meant, Both
        <5>2. CASE ~ c
          BY <3>4, <4>1, <4>2, <5>2 DEF Meant, Both
        <5> QED
          BY <5>1, <5>2
      <4> QED
        BY <2>10, <3>9, <4>4, <4>5
    <3> QED
      BY <3>8, <3>9
  <2> QED
    BY <2>9, <2>10
<1> QED
  BY <1>8, <1>9 DEF t

-----------------------------------------------------------------------------
(* Filter slots                                                            *)

Slots == {None} \union [text : Text] \union [node : Node]

LEMMA ConstantFacts ==
  ASSUME NEW m \in Meanings
  PROVE  /\ Constant(m) \in Slots
         /\ ~ Empty(Constant(m)) /\ ~ IsText(Constant(m))
         /\ Readable(Constant(m)) /\ Ast(Constant(m)) = Constant(m)
         /\ \A h \in Meanings : Constant(m).node[h] = m
<1>1. Constant(m) \in [node : Node] /\ DOMAIN Constant(m) = {"node"}
  BY DEF Constant, Node
<1>2. Constant(m) # None
  BY <1>1, NoneAssumption
<1>3. ~ IsText(Constant(m))
  BY <1>1 DEF IsText
<1>4. \A h \in Meanings : Constant(m).node[h] = m
  BY DEF Constant
<1> QED
  BY <1>1, <1>2, <1>3, <1>4 DEF Slots, Empty, Readable, Ast

LEMMA TextFacts ==
  ASSUME NEW t \in Text
  PROVE  /\ AsText(t) \in Slots
         /\ AsText(t) # None /\ IsText(AsText(t)) /\ AsText(t).text = t
         /\ Empty(AsText(t)) <=> Blank(t)
         /\ Readable(AsText(t)) <=> Parses(t)
         /\ Ast(AsText(t)) = Constant(Reading(t))
<1>1. AsText(t) \in [text : Text] /\ DOMAIN AsText(t) = {"text"} /\ AsText(t).text = t
  BY DEF AsText
<1>2. AsText(t) # None
  BY <1>1, NoneAssumption
<1>3. IsText(AsText(t))
  BY <1>1 DEF IsText
<1> QED
  BY <1>1, <1>2, <1>3 DEF Slots, Empty, Readable, Ast

\* A slot that is not empty holds text, or an AST that agrees with a formula, unless a
\* fragment went into it.
LEMMA SlotCases ==
  ASSUME NEW v \in Slots, NEW formula, Agrees(v, formula), ~ Empty(v)
  PROVE  \/ formula = Fragment
         \/ \E t \in Text : v = AsText(t) /\ ~ Blank(t) /\ formula = Reading(t)
         \/ formula \in Meanings /\ v = Constant(formula)
<1>1. CASE formula \in Meanings /\ v = Constant(formula)
  BY <1>1
<1>2. CASE IsText(v) /\ formula = Reading(v.text)
  <2>1. v \in [text : Text] \/ v \in [node : Node]
    BY DEF Slots, Empty
  <2>2. v \notin [node : Node]
    BY <1>2 DEF IsText
  <2>3. v.text \in Text /\ v = AsText(v.text)
    BY <2>1, <2>2 DEF AsText
  <2>4. ~ Blank(v.text)
    BY <1>2 DEF Empty
  <2> QED
    BY <1>2, <2>3, <2>4
<1> QED
  BY <1>1, <1>2 DEF Agrees

\* Whatever is not empty and of the right type agrees with Fragment.
LEMMA SlotShape ==
  ASSUME NEW v \in Slots, v # None
  PROVE  \/ \E t \in Text : v = AsText(t)
         \/ v \in [node : Node] /\ ~ IsText(v) /\ ~ Empty(v) /\ Readable(v) /\ Ast(v) = v
<1>1. CASE v \in [text : Text]
  <2>1. v.text \in Text /\ v = AsText(v.text)
    BY <1>1 DEF AsText
  <2> QED
    BY <2>1
<1>2. CASE v \in [node : Node]
  BY <1>2 DEF IsText, Empty, Readable, Ast
<1> QED
  BY <1>1, <1>2 DEF Slots

\* What the caller passes agrees with what it says.
LEMMA ValueFacts ==
  ASSUME held \in Meanings, NEW value \in Arguments \union {ExpressionAst}
  PROVE  value \in Slots /\ value # None /\ Agrees(value, Said(value))
<1>1. CASE value = ExpressionAst
  BY <1>1, ConstantFacts DEF ExpressionAst, Said, Agrees, Empty
<1>2. CASE value \in Arguments
  <2>1. PICK t \in Text : value = AsText(t)
    BY <1>2, TextAssumption DEF Arguments
  <2> QED
    BY <2>1, TextFacts DEF Said, Agrees
<1> QED
  BY <1>1, <1>2

\* What combining values comes to is a slot of the right type, and not empty.
LEMMA CombinedType ==
  ASSUME NEW slot \in Slots, ~ Empty(slot), NEW value \in Slots, value # None,
         NEW c \in BOOLEAN, Combined(slot, value, c) # Failed
  PROVE  Combined(slot, value, c) \in Slots /\ ~ Empty(Combined(slot, value, c))
<1>0. slot # None
  BY DEF Empty
<1>1. CASE IsText(slot) /\ IsText(value)
  <2>1. PICK l \in Text : slot = AsText(l)
    BY <1>0, <1>1, SlotShape
  <2>2. PICK r \in Text : value = AsText(r)
    BY <1>1, SlotShape
  <2>3. Combined(slot, value, c) = AsText(Joined(l, r, c))
    BY <1>1, <2>1, <2>2, TextFacts DEF Combined
  <2>4. Joined(l, r, c) \in Text /\ ~ Blank(Joined(l, r, c))
    BY JoinedFacts
  <2> QED
    BY <2>3, <2>4, TextFacts
<1>2. CASE ~ (IsText(slot) /\ IsText(value))
  <2>1. Readable(slot) /\ Readable(value) /\ Combined(slot, value, c) = BoolOp(Ast(slot), Ast(value), c)
    BY <1>2 DEF Combined
  <2>2. ASSUME NEW v \in Slots, v # None, Readable(v)
        PROVE  Ast(v) \in [node : Node]
    <3>1. CASE \E t \in Text : v = AsText(t)
      <4>1. PICK t \in Text : v = AsText(t)
        BY <3>1
      <4>2. Parses(t) /\ Ast(v) = Constant(Reading(t))
        BY <2>2, <4>1, TextFacts
      <4>3. Reading(t) \in Meanings
        BY <4>2, ReadingType DEF Parses
      <4> QED
        BY <4>2, <4>3 DEF Constant, Node
    <3> QED
      BY <2>2, <3>1, SlotShape
  <2>3. Ast(slot) \in [node : Node] /\ Ast(value) \in [node : Node]
    BY <1>0, <2>1, <2>2
  <2>4. \A h \in Meanings : Ast(slot).node[h] \in Meanings /\ Ast(value).node[h] \in Meanings
    BY <2>3 DEF Node
  <2>5. \A h \in Meanings : Both(Ast(slot).node[h], Ast(value).node[h], c) \in Meanings
    BY <2>4, BothType
  <2>6. BoolOp(Ast(slot), Ast(value), c) \in [node : Node]
    BY <2>5 DEF BoolOp, Node
  <2>7. BoolOp(Ast(slot), Ast(value), c) # None
    BY <2>6, NoneAssumption
  <2>8. ~ IsText(BoolOp(Ast(slot), Ast(value), c))
    BY <2>6 DEF IsText
  <2> QED
    BY <2>1, <2>6, <2>7, <2>8 DEF Slots, Empty
<1> QED
  BY <1>1, <1>2

\* Combining values that agree with formulas gives one that agrees with the
\* combined formula, unless the call raises.
LEMMA CombinedFacts ==
  ASSUME NEW slot \in Slots, NEW before, Agrees(slot, before),
         NEW value \in Slots, NEW said, Agrees(value, said), value # None,
         NEW c \in BOOLEAN, Combined(slot, value, c) # Failed
  PROVE  /\ Combined(slot, value, c) \in Slots
         /\ Agrees(Combined(slot, value, c), Extended(before, said, c))
<1>1. CASE Empty(slot)
  <2>1. before = None
    <3>1. before \in Meanings => slot # Constant(before)
      BY <1>1, ConstantFacts
    <3> QED
      BY <1>1, <3>1 DEF Agrees
  <2> QED
    BY <1>1, <2>1 DEF Combined, Extended
<1>type. CASE ~ Empty(slot) /\ Fragment \in {before, said}
  <2>1. before # None
    BY <1>type, ConstantFacts, SlotCases, ReadingType, NoneAssumption
  <2>2. Extended(before, said, c) = Fragment
    BY <1>type, <2>1 DEF Extended
  <2> QED
    BY <1>type, <2>2, CombinedType DEF Agrees
<1>2. CASE ~ Empty(slot) /\ IsText(slot) /\ IsText(value) /\ Fragment \notin {before, said}
  <2>1. PICK l \in Text : slot = AsText(l) /\ ~ Blank(l) /\ before = Reading(l)
    BY <1>2, SlotCases, ConstantFacts
  <2>2. PICK r \in Text : value = AsText(r) /\ said = IF Blank(r) THEN None ELSE Reading(r)
    <3>1. CASE ~ Empty(value)
      BY <1>2, <3>1, SlotCases, ConstantFacts
    <3>2. CASE Empty(value)
      <4>1. said = None
        <5>1. said \in Meanings => value # Constant(said)
          BY <3>2, ConstantFacts
        <5> QED
          BY <3>2, <5>1 DEF Agrees
      <4>2. PICK r \in Text : value = AsText(r)
        BY <1>2, SlotShape
      <4> QED
        BY <3>2, <4>1, <4>2, TextFacts
    <3> QED
      BY <3>1, <3>2
  <2> DEFINE t == Joined(l, r, c)
  <2>3. Reading(r) # Fragment
    BY <1>2, <2>2, ReadingType, NoneAssumption
  <2>4. /\ t \in Text /\ ~ Blank(t)
        /\ Reading(t) = IF Failed \in {Reading(l), Reading(r)} THEN Failed
                        ELSE Both(Reading(l), Reading(r), c)
    BY <1>2, <2>1, <2>3, JoinedFacts
  <2>5. Reading(l) \in Meanings \union {Failed} /\ Reading(r) \in Meanings \union {Failed}
    BY <1>2, <2>1, <2>3, ReadingType
  <2> HIDE DEF t
  <2>6. Combined(slot, value, c) = AsText(t)
    BY <1>2, <2>1, <2>2, TextFacts DEF Combined, t
  <2>7. Blank(r) => Reading(r) = Failed
    BY ReadingType
  <2>8. before # None /\ Extended(before, said, c) = Reading(t)
    <3>1. before # None
      BY <2>1, <2>5, NoneAssumption
    <3>2. before # Failed => before \in Meanings
      BY <2>1, <2>5
    <3>3. said \in {None, Failed} <=> Reading(r) = Failed
      BY <2>2, <2>5, <2>7, NoneAssumption
    <3>4. ~ (said \in {None, Failed}) => said = Reading(r)
      BY <2>2
    <3> QED
      BY <1>2, <2>1, <2>4, <3>1, <3>3, <3>4 DEF Extended
  <2> QED
    BY <2>4, <2>6, <2>8, TextFacts DEF Agrees
<1>3. CASE ~ Empty(slot) /\ ~ (IsText(slot) /\ IsText(value)) /\ Fragment \notin {before, said}
  <2>1. Readable(slot) /\ Readable(value) /\ Combined(slot, value, c) = BoolOp(Ast(slot), Ast(value), c)
    BY <1>3 DEF Combined
  <2>2. before \in Meanings /\ Ast(slot) = Constant(before)
    <3>1. CASE before \in Meanings /\ slot = Constant(before)
      BY <3>1, ConstantFacts
    <3>2. CASE \E t \in Text : slot = AsText(t) /\ ~ Blank(t) /\ before = Reading(t)
      BY <3>2, <2>1, TextFacts, ReadingType DEF Parses
    <3> QED
      BY <1>3, <3>1, <3>2, SlotCases
  <2>3. said \in Meanings /\ Ast(value) = Constant(said)
    <3>0. ~ Empty(value)
      <4>1. CASE \E r \in Text : value = AsText(r)
        BY <2>1, <4>1, TextFacts, ReadingType DEF Parses
      <4> QED
        BY <4>1, SlotShape
    <3>1. CASE said \in Meanings /\ value = Constant(said)
      BY <3>1, ConstantFacts
    <3>2. CASE \E t \in Text : value = AsText(t) /\ ~ Blank(t) /\ said = Reading(t)
      BY <3>2, <2>1, TextFacts, ReadingType DEF Parses
    <3> QED
      BY <1>3, <3>0, <3>1, <3>2, SlotCases
  <2>4. Both(before, said, c) \in Meanings
    BY <2>2, <2>3, BothType
  <2>5. BoolOp(Constant(before), Constant(said), c) = Constant(Both(before, said, c))
    BY <2>2, <2>3, ConstantFacts DEF BoolOp, Constant
  <2>6. Extended(before, said, c) = Both(before, said, c)
    BY <1>3, <2>2, <2>3, NoneAssumption DEF Extended
  <2> QED
    BY <2>1, <2>2, <2>3, <2>4, <2>5, <2>6, ConstantFacts DEF Agrees
<1> QED
  BY <1>1, <1>type, <1>2, <1>3

-----------------------------------------------------------------------------
(* The inductive invariant                                                 *)

LEMMA InitOK == Init => IInv
<1> SUFFICES ASSUME Init PROVE IInv
  OBVIOUS
<1>1. held \in Meanings
  BY DEF Init, Meanings
<1>2. TypeOK
  BY <1>1, BoundAssumption DEF Init, TypeOK, Rest
<1>3. FilterAgrees
  BY DEF Init, FilterAgrees, Agrees, Empty
<1>4. ExpandAgrees
  BY DEF Init, ExpandAgrees
<1> QED
  BY <1>2, <1>3, <1>4 DEF IInv

\* The formula a slot agrees with is None, an error or a set of worlds.
LEMMA FormulaType ==
  ASSUME NEW v \in Slots, NEW formula, Agrees(v, formula)
  PROVE  formula \in {None, Failed, Fragment} \/ formula \in Meanings
<1>1. CASE Empty(v)
  BY <1>1, ConstantFacts DEF Agrees
<1>2. CASE ~ Empty(v)
  BY <1>2, SlotCases, ReadingType
<1> QED
  BY <1>1, <1>2

\* A filter call leaves a slot that agrees with what was asked for.
LEMMA FilterStep ==
  ASSUME IInv,
         \/ \E value \in Arguments \union {ExpressionAst} : Replace(value)
         \/ \E value \in Arguments \union {ExpressionAst}, c \in BOOLEAN : Combine(value, c)
  PROVE  IInv'
<1>1. filter \in Slots /\ held \in Meanings /\ Agrees(filter, asked)
  BY DEF IInv, TypeOK, Slots, FilterAgrees
<1>2. /\ UNCHANGED <<expand, rest, held, nested>>
      /\ calls' \in 0 .. MaxCalls
  BY BoundAssumption DEF IInv, TypeOK, Replace, Combine, Call
<1>3. filter' \in Slots /\ Agrees(filter', asked')
  <2>1. CASE \E value \in Arguments \union {ExpressionAst} : Replace(value)
    BY <2>1, <1>1, ValueFacts DEF Replace
  <2>2. CASE \E value \in Arguments \union {ExpressionAst}, c \in BOOLEAN : Combine(value, c)
    <3>1. PICK value \in Arguments \union {ExpressionAst}, c \in BOOLEAN : Combine(value, c)
      BY <2>2
    <3>2. CASE Combined(filter, value, c) = Failed
      BY <3>1, <3>2, <1>1 DEF Combine
    <3>3. CASE Combined(filter, value, c) # Failed
      <4>1. filter' = Combined(filter, value, c) /\ asked' = Extended(asked, Said(value), c)
        BY <3>1, <3>3 DEF Combine
      <4> QED
        BY <4>1, <3>3, <1>1, ValueFacts, CombinedFacts
    <3> QED
      BY <3>2, <3>3
  <2> QED
    BY <2>1, <2>2
<1>4. asked' \in {None, Failed, Fragment} \/ asked' \in Meanings
  BY <1>3, FormulaType
<1>5. TypeOK'
  BY <1>2, <1>3, <1>4 DEF IInv, TypeOK, Slots
<1>6. FilterAgrees'
  BY <1>3 DEF FilterAgrees, Agrees
<1>7. ExpandAgrees'
  BY <1>2 DEF IInv, ExpandAgrees, Textual, Constant
<1> QED
  BY <1>5, <1>6, <1>7 DEF IInv

\* The other slots do not disturb the filter.
LEMMA ExpandStep ==
  ASSUME IInv, (\E option \in Expands : ExpandText(option)) \/ ExpandObject
  PROVE  IInv'
<1>1. UNCHANGED <<filter, rest, held, asked>> /\ calls' \in 0 .. MaxCalls
  BY BoundAssumption DEF IInv, TypeOK, ExpandText, ExpandObject, Call
<1>2. FilterAgrees'
  BY <1>1 DEF IInv, FilterAgrees, Agrees
<1>3. CASE \E option \in Expands : ExpandText(option)
  <2>1. PICK option \in Expands : expand' = [option |-> option] /\ nested' = None
    BY <1>3 DEF ExpandText
  <2>2. TypeOK'
    BY <1>1, <2>1 DEF IInv, TypeOK
  <2>3. "option" \in DOMAIN expand'
    BY <2>1
  <2> QED
    BY <1>2, <2>2, <2>3 DEF IInv, ExpandAgrees, Textual
<1>4. CASE ExpandObject
  <2>1. expand' = Constant(held) /\ nested' = held /\ held \in Meanings
    BY <1>4 DEF ExpandObject, IInv, TypeOK
  <2>2. expand' \in [node : Node]
    BY <2>1 DEF Constant, Node
  <2>3. TypeOK'
    BY <1>1, <2>1, <2>2 DEF IInv, TypeOK
  <2>4. ExpandAgrees'
    BY <2>1 DEF ExpandAgrees
  <2> QED
    BY <1>2, <2>3, <2>4 DEF IInv
<1> QED
  BY <1>3, <1>4

LEMMA OptionStep ==
  ASSUME IInv,
         \/ \E value \in Selects : SetOption("select", value)
         \/ \E value \in Orders : SetOption("orderby", value)
         \/ \E name \in {"top", "skip"}, value \in Numbers : SetOption(name, value)
         \/ \E value \in BOOLEAN : SetOption("count", value)
  PROVE  IInv'
<1>1. UNCHANGED <<filter, expand, held, asked, nested>> /\ calls' \in 0 .. MaxCalls
  BY BoundAssumption DEF IInv, TypeOK, SetOption, Call
<1>2. rest' \in Rest
  BY DEF IInv, TypeOK, SetOption, Rest
<1>3. TypeOK'
  BY <1>1, <1>2 DEF IInv, TypeOK
<1> QED
  BY <1>1, <1>3 DEF IInv, FilterAgrees, ExpandAgrees, Agrees, Textual

\* What a slot contributes to an intent is a meaning, nothing or an error.
LEMMA FormulaMeaning ==
  ASSUME NEW v \in Slots, held \in Meanings
  PROVE  Formula(v) \in Meanings \union {None, Failed}
<1>1. CASE Empty(v)
  BY <1>1 DEF Formula
<1>2. CASE ~ Empty(v) /\ \E t \in Text : v = AsText(t)
  <2>1. PICK t \in Text : v = AsText(t)
    BY <1>2
  <2>2. CASE Parses(t)
    <3>1. Reading(t) \in Meanings
      BY <2>2, ReadingType DEF Parses
    <3> QED
      BY <1>2, <2>1, <2>2, <3>1, TextFacts, ConstantFacts DEF Formula
  <2>3. CASE ~ Parses(t)
    BY <1>2, <2>1, <2>3, TextFacts DEF Formula
  <2> QED
    BY <2>2, <2>3
<1>3. CASE ~ Empty(v) /\ v \in [node : Node] /\ Readable(v) /\ Ast(v) = v
  BY <1>3 DEF Formula, Node
<1>4. ~ Empty(v) => v # None
  BY DEF Empty
<1> QED
  BY <1>1, <1>2, <1>3, <1>4, SlotShape

\* What a slot that agrees with a formula contributes to an intent.
LEMMA FormulaFacts ==
  ASSUME NEW v \in Slots, NEW formula, Agrees(v, formula), held \in Meanings, formula # Fragment
  PROVE  IF Formula(v) = Failed
         THEN formula = Failed \/ (v # None /\ IsText(v) /\ v.text.length > MaxLength)
         ELSE Formula(v) = formula
<1>1. CASE Empty(v)
  <2>1. formula = None
    BY <1>1, ConstantFacts DEF Agrees
  <2> QED
    BY <1>1, <2>1, NoneAssumption DEF Formula
<1>2. CASE ~ Empty(v) /\ formula \in Meanings /\ v = Constant(formula)
  BY <1>2, ConstantFacts, NoneAssumption DEF Formula
<1>3. CASE ~ Empty(v) /\ \E t \in Text : v = AsText(t) /\ ~ Blank(t) /\ formula = Reading(t)
  <2>1. PICK t \in Text : v = AsText(t) /\ ~ Blank(t) /\ formula = Reading(t)
    BY <1>3
  <2>2. CASE Parses(t)
    <3>1. Reading(t) \in Meanings
      BY <2>2, ReadingType DEF Parses
    <3>2. Formula(v) = Reading(t)
      BY <1>3, <2>1, <2>2, <3>1, TextFacts, ConstantFacts DEF Formula
    <3> QED
      BY <2>1, <3>1, <3>2, NoneAssumption
  <2>3. CASE ~ Parses(t)
    <3>1. Formula(v) = Failed
      BY <1>3, <2>1, <2>3, TextFacts DEF Formula
    <3>2. Reading(t) = Failed \/ ~ (t.length <= MaxLength)
      BY <2>1, <2>3 DEF Parses
    <3>3. t.length \in Nat /\ MaxLength \in Nat
      BY BoundAssumption DEF Text
    <3> QED
      BY <3>1, <3>2, <3>3, <2>1, TextFacts
  <2> QED
    BY <2>2, <2>3
<1> QED
  BY <1>1, <1>2, <1>3, SlotCases

\* The caller's hands may change; what the slots hold is out of their reach.
LEMMA CallerStep ==
  ASSUME IInv, Build \/ \E m \in {{w \in Worlds : a \in w} : a \in Atoms} : Edit(m)
  PROVE  IInv'
<1>1. UNCHANGED <<filter, expand, rest, asked, nested>> /\ calls' \in 0 .. MaxCalls
  BY BoundAssumption DEF IInv, TypeOK, Build, Edit, Call, builder
<1>2. held' \in Meanings
  <2>1. CASE Build
    <3> DEFINE intent == Intent(filter, expand, rest)
    <3>1. intent.filter = Formula(filter)
      BY DEF Intent
    <3>2. Formula(filter) # Failed /\ held' = IF Formula(filter) = None THEN held ELSE Formula(filter)
      BY <2>1, <3>1 DEF Build, Builds
    <3>3. Formula(filter) \in Meanings \union {None, Failed}
      BY FormulaMeaning DEF IInv, TypeOK, Slots
    <3> QED
      BY <3>2, <3>3 DEF IInv, TypeOK
  <2>2. CASE \E m \in {{w \in Worlds : a \in w} : a \in Atoms} : Edit(m)
    BY <2>2 DEF Edit, Meanings
  <2> QED
    BY <2>1, <2>2
<1>3. TypeOK'
  BY <1>1, <1>2 DEF IInv, TypeOK
<1> QED
  BY <1>1, <1>3 DEF IInv, FilterAgrees, ExpandAgrees, Agrees, Textual

\* The invariant holds in every reachable state.
THEOREM Inductive == Spec => []IInv
<1>1. IInv /\ [Next]_vars => IInv'
  <2> SUFFICES ASSUME IInv, [Next]_vars PROVE IInv'
    OBVIOUS
  <2>1. CASE UNCHANGED vars
    BY <2>1 DEF vars, IInv, TypeOK, FilterAgrees, ExpandAgrees, Agrees, Textual
  <2>2. CASE Next
    BY <2>2, FilterStep, ExpandStep, OptionStep, CallerStep DEF Next
  <2> QED
    BY <2>1, <2>2
<1> QED
  BY <1>1, InitOK, PTL DEF Spec

-----------------------------------------------------------------------------
(* The properties                                                          *)

\* Every slot of the builder keeps its type.
THEOREM TypeCorrect == Spec => []TypeOK
<1>1. IInv => TypeOK
  BY DEF IInv
<1> QED
  BY <1>1, Inductive, PTL

\* Whatever texts and expressions are combined, in whatever order, the filter that is
\* built is the formula the calls asked for, or an error when it should be; of a builder
\* that was given a fragment this says nothing.
THEOREM MeaningIsPreserved == Spec => []MeaningPreserved
<1>1. IInv => MeaningPreserved
  <2> SUFFICES ASSUME IInv PROVE MeaningPreserved
    OBVIOUS
  <2>1. filter \in Slots /\ Agrees(filter, asked) /\ held \in Meanings
    BY DEF IInv, TypeOK, FilterAgrees, Slots
  <2>2. CASE asked = Fragment
    BY <2>2 DEF MeaningPreserved
  <2>3. CASE asked # Fragment
    <3>1. IF Formula(filter) = Failed
          THEN asked = Failed \/ (filter # None /\ IsText(filter) /\ filter.text.length > MaxLength)
          ELSE Formula(filter) = asked
      BY <2>1, <2>3, FormulaFacts
    <3> QED
      BY <3>1 DEF MeaningPreserved, TooLong
  <2> QED
    BY <2>2, <2>3
<1> QED
  BY <1>1, Inductive, PTL

\* The filter nested in an expand is the one its expression had when it was passed.
THEOREM NestedIsPreserved == Spec => []NestedPreserved
<1>1. IInv => NestedPreserved
  <2> SUFFICES ASSUME IInv, expand # None, ~ Textual(expand)
               PROVE OptionValue(expand) = nested
    BY DEF NestedPreserved
  <2>1. nested \in Meanings /\ expand = Constant(nested) /\ held \in Meanings
    BY DEF IInv, ExpandAgrees, TypeOK
  <2>2. OptionValue(expand) = expand.node[held]
    BY DEF OptionValue
  <2> QED
    BY <2>1, <2>2, ConstantFacts
<1> QED
  BY <1>1, Inductive, PTL

-----------------------------------------------------------------------------
(* The export to a query string                                            *)

\* A text that parses has no spaces at its ends.
LEMMA NoSpaces ==
  ASSUME NEW t \in Text, Reading(t) \in Meanings
  PROVE  Stripped(t).tokens = t.tokens /\ Stripped(t).length = t.length
<1> DEFINE n == Len(t.tokens)
           from == <<Opened("start")>>
<1>0. /\ t.tokens \in Seq(Token) /\ n \in Nat /\ t.length \in Nat
      /\ DOMAIN t.tokens = 1 .. n /\ \A i \in 1 .. n : t.tokens[i] \in Token
  BY LenProperties, ElementOfSeq DEF Text
<1>1. Opened("start") \in Level /\ Opened("start").wants = "start" /\ from \in Stacks
  BY OpenedType, OneOrTwo DEF Wants
<1>2. PICK g : IsRun(g, t.tokens, from)
  BY <1>0, <1>1, RunExists DEF Outcomes
<1> DEFINE stack == Read(t.tokens, from)
<1>3. stack = g[n]
  BY <1>0, <1>1, <1>2, ReadIsRun DEF Outcomes
<1>4. /\ stack \notin {Failed, Fragment} /\ ~ (Len(stack) > 1)
      /\ Head(stack).wants \notin {"close"} /\ Head(stack).wants = "operator"
  <2>1. Reading(t) = IF stack \in {Failed, Fragment} THEN stack
                     ELSE IF Len(stack) > 1 \/ Head(stack).wants = "close" THEN Fragment
                     ELSE IF Head(stack).wants = "operator" THEN Meant(Head(stack))
                     ELSE Failed
    BY DEF Reading
  <2>2. Reading(t) \notin {Failed, Fragment}
    BY NoneAssumption
  <2> HIDE DEF stack
  <2> QED
    BY <2>1, <2>2
<1> HIDE DEF stack, from, n
<1>5. n # 0
  <2> SUFFICES ASSUME n = 0 PROVE FALSE
    OBVIOUS
  <2>1. stack = from
    BY <1>2, <1>3 DEF IsRun
  <2>2. Head(from) = Opened("start")
    BY <1>1, OneOrTwo DEF from
  <2> QED
    BY <1>1, <1>4, <2>1, <2>2
<1>6. t.tokens[1].kind # "space"
  <2> SUFFICES ASSUME t.tokens[1].kind = "space" PROVE FALSE
    OBVIOUS
  <2>1. g[0] = from /\ g[1] = Shifted(g[0], t.tokens[1])
    <3>1. 1 \in 1 .. n /\ 1 - 1 = 0
      BY <1>0, <1>5
    <3> QED
      BY <1>2, <3>1 DEF IsRun, n
  <2>2. from \notin {Failed, Fragment} /\ Head(from) = Opened("start")
    BY <1>1, OneOrTwo, StackNoError DEF from, Stacks
  <2>3. Shifted(from, t.tokens[1]) = Fragment
    BY <1>1, <2>2 DEF Shifted
  <2> DEFINE S == {i \in 0 .. n - 1 : g[i + 1] = Fragment}
  <2>4. 0 \in S
    BY <1>0, <1>5, <2>1, <2>3
  <2>5. ASSUME NEW i \in 0 .. (n - 1) - 1, i \in S PROVE i + 1 \in S
    <3>1. (i + 1) + 1 \in 1 .. n /\ ((i + 1) + 1) - 1 = i + 1 /\ i + 1 \in 0 .. n - 1
      BY <1>0, <1>5
    <3>2. g[(i + 1) + 1] = Shifted(g[i + 1], t.tokens[(i + 1) + 1])
      BY <1>2, <3>1 DEF IsRun, n
    <3>3. g[(i + 1) + 1] = Fragment
      BY <2>5, <3>2 DEF Shifted
    <3> QED
      BY <3>1, <3>3
  <2>6. n - 1 \in Nat
    BY <1>0, <1>5
  <2> HIDE DEF S
  <2>7. 0 .. n - 1 \subseteq S
    BY <2>4, <2>5, <2>6, BoundedInduction
  <2>8. n - 1 \in S /\ (n - 1) + 1 = n
    <3>1. n - 1 \in 0 .. n - 1 /\ (n - 1) + 1 = n
      BY <1>0, <2>6
    <3> QED
      BY <2>7, <3>1
  <2> QED
    BY <1>3, <1>4, <2>8 DEF S
<1>7. t.tokens[n].kind # "space"
  <2> SUFFICES ASSUME t.tokens[n].kind = "space" PROVE FALSE
    OBVIOUS
  <2>1. n \in 1 .. n /\ n - 1 \in 0 .. n
    BY <1>0, <1>5
  <2>2. g[n] = Shifted(g[n - 1], t.tokens[n]) /\ g[n - 1] \in Outcomes /\ t.tokens[n] \in Token
    BY <1>0, <1>2, <2>1 DEF IsRun, n
  <2>3. CASE g[n - 1] \in {Failed, Fragment}
    BY <1>3, <1>4, <2>2, <2>3 DEF Shifted
  <2>4. CASE g[n - 1] \in Stacks
    <3> DEFINE top == Head(g[n - 1])
               below == Tail(g[n - 1])
    <3>1. top \in Level /\ below \in Seq(Level) /\ g[n - 1] \notin {Failed, Fragment}
      BY <2>4, HeadTailProperties, StackNoError DEF Stacks
    <3>2. CASE top.wants \in {"first", "operator"}
      <4>1. g[n] = <<WithSpace(top)>> \o below
        BY <2>2, <3>1, <3>2 DEF Shifted
      <4>2. WithSpace(top) \in Level /\ WithSpace(top).wants \in {"operand", "close"}
        BY <3>1 DEF WithSpace, Level
      <4> HIDE DEF top, below
      <4>3. Head(<<WithSpace(top)>> \o below) = WithSpace(top)
        <5> DEFINE z == WithSpace(top)
        <5> HIDE DEF z
        <5>1. z \in Level
          BY <4>2 DEF z
        <5>2. Head(<<z>> \o below) = z
          BY <3>1, <5>1
        <5> QED
          BY <5>2 DEF z
      <4> QED
        BY <1>3, <1>4, <4>1, <4>2, <4>3
    <3>3. CASE top.wants \notin {"first", "operator"}
      <4>1. g[n] \in {Failed, Fragment}
        BY <2>2, <3>1, <3>3 DEF Shifted
      <4> QED
        BY <1>3, <1>4, <4>1
    <3> QED
      BY <3>2, <3>3
  <2> QED
    BY <2>2, <2>3, <2>4 DEF Outcomes
<1>8. SubSeq(t.tokens, 1, n) = t.tokens
  BY <1>0, SubSeqFull DEF n
<1>9. Stripped(t) = [tokens |-> t.tokens, length |-> t.length - (n - n)]
  BY <1>0, <1>6, <1>7, <1>8 DEF Stripped, n
<1> QED
  BY <1>0, <1>9

\* Each slot that is left out of the query string stands for what its absence does, and
\* what is stripped of a filter that can be built is nothing.
LEMMA ExportedSlots ==
  ASSUME filter \in Slots, Exportable, Formula(filter) # Failed
  PROVE  /\ Formula(ExportedFilter) = Formula(filter)
         /\ OptionValue(ExportedExpand) = OptionValue(expand)
<1>1. Formula(ExportedFilter) = Formula(filter)
  <2>1. CASE Empty(filter)
    BY <2>1 DEF ExportedFilter, Formula, Empty
  <2>2. CASE ~ Empty(filter)
    <3>1. filter # None /\ IsText(filter)
      BY <2>2 DEF Exportable, Empty
    <3>2. PICK t \in Text : filter = AsText(t)
      BY <3>1, SlotShape
    <3>3. Parses(t)
      BY <2>2, <3>2, TextFacts DEF Formula
    <3>4. Reading(t) \in Meanings
      BY <3>3, ReadingType DEF Parses
    <3>5. Stripped(t) = t
      <4>1. Stripped(t).tokens = t.tokens /\ Stripped(t).length = t.length
        BY <3>4, NoSpaces
      <4>2. Stripped(t) = [tokens |-> Stripped(t).tokens, length |-> Stripped(t).length]
        BY DEF Stripped
      <4>3. t = [tokens |-> t.tokens, length |-> t.length]
        BY DEF Text
      <4> QED
        BY <4>1, <4>2, <4>3
    <3>6. ExportedFilter = filter
      BY <2>2, <3>2, <3>5, TextFacts DEF ExportedFilter
    <3> QED
      BY <3>6
  <2> QED
    BY <2>1, <2>2
<1>2. OptionValue(ExportedExpand) = OptionValue(expand)
  BY DEF ExportedExpand, OptionValue
<1> QED
  BY <1>1, <1>2

LEMMA ExportedRest ==
  ASSUME rest \in Rest,
         rest.select # None => rest.select.names = rest.select.split /\ rest.select.names # <<"">>
  PROVE  /\ (IF Exported.select = None \/ Exported.select.names = <<>> THEN None ELSE Exported.select.names) =
              (IF rest.select = None \/ rest.select.names = <<>> THEN None ELSE rest.select.names)
         /\ (IF Exported.orderby = None THEN None ELSE OptionValue([option |-> Exported.orderby])) =
              (IF rest.orderby = None THEN None ELSE OptionValue([option |-> rest.orderby]))
         /\ Pagination(Exported) = Pagination(rest)
<1> DEFINE s == ExportedSelect
           o == IF rest.orderby # None /\ rest.orderby.value = None /\ rest.orderby.ok
                THEN None ELSE rest.orderby
<1>1. Exported = [rest EXCEPT !.select = s, !.orderby = o]
  BY DEF Exported
<1> HIDE DEF s, o
<1>2. Exported.select = s /\ Exported.orderby = o
  BY <1>1 DEF Rest
<1>3. Exported.top = rest.top /\ Exported.skip = rest.skip /\ Exported.count = rest.count
  BY <1>1 DEF Rest
<1>4. (IF s = None \/ s.names = <<>> THEN None ELSE s.names) =
        (IF rest.select = None \/ rest.select.names = <<>> THEN None ELSE rest.select.names)
  <2>1. CASE rest.select = None \/ rest.select.names \in {<<>>, <<"">>}
    BY <2>1 DEF s, ExportedSelect
  <2>2. CASE ~ (rest.select = None \/ rest.select.names \in {<<>>, <<"">>})
    <3>1. s = [names |-> rest.select.split, split |-> rest.select.split]
      BY <2>2 DEF s, ExportedSelect
    <3>2. s.names = rest.select.names /\ rest.select.names # <<>>
      BY <2>2, <3>1
    <3>3. s # None
      <4>1. rest.select.split \in Seq(STRING)
        BY <2>2, OptionAssumption DEF Rest
      <4>2. s \in [names : Seq(STRING), split : Seq(STRING)]
        BY <3>1, <4>1
      <4> QED
        BY <4>2, NoneAssumption
    <3> QED
      BY <2>2, <3>2, <3>3
  <2> QED
    BY <2>1, <2>2
<1>5. (IF o = None THEN None ELSE OptionValue([option |-> o])) =
        (IF rest.orderby = None THEN None ELSE OptionValue([option |-> rest.orderby]))
  <2>1. CASE o = rest.orderby
    BY <2>1
  <2>2. CASE o # rest.orderby
    <3>1. o = None /\ rest.orderby # None /\ rest.orderby.value = None /\ rest.orderby.ok
      BY <2>2 DEF o
    <3>2. OptionValue([option |-> rest.orderby]) = None
      BY <3>1 DEF OptionValue, Textual
    <3> QED
      BY <3>1, <3>2
  <2> QED
    BY <2>1, <2>2
<1>6. Pagination(Exported) = Pagination(rest)
  BY <1>3 DEF Pagination
<1> QED
  BY <1>2, <1>4, <1>5, <1>6

\* A textual builder builds the same intent again from its query string.
THEOREM ExportsParseBack == Spec => []RoundTrip
<1>1. TypeOK => RoundTrip
  <2> SUFFICES ASSUME TypeOK, Exportable, Formula(filter) # Failed,
                      rest.select # None => rest.select.names = rest.select.split /\ rest.select.names # <<"">>
               PROVE  Intent(ExportedFilter, ExportedExpand, Exported) = Intent(filter, expand, rest)
    BY DEF RoundTrip, Builds, Intent
  <2>1. rest \in Rest /\ filter \in Slots
    BY DEF TypeOK, Slots
  <2> QED
    BY <2>1, ExportedSlots, ExportedRest DEF Intent
<1> QED
  BY <1>1, TypeCorrect, PTL

=============================================================================
