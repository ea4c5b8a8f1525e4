----------------------- MODULE ApplyPipeline_proofs -------------------------
(***************************************************************************)
(* Proofs about ApplyPipeline, for every table, pipeline and setting.      *)
(***************************************************************************)
EXTENDS ApplyPipeline, FiniteSetTheorems, TLAPS

-----------------------------------------------------------------------------
(* Induction over numbers, for sets                                        *)

\* A set of natural numbers has a least element.
LEMMA LeastNumber ==
  ASSUME NEW T, T \subseteq Nat, T # {}
  PROVE  \E x \in T : \A y \in T : x <= y
<1> DEFINE R == OpToRel(<, Nat)
<1>1. IsWellFoundedOn(R, Nat)
  BY NatLessThanWellFounded
<1>2. \A x, y \in Nat : <<x, y>> \in R <=> x < y
  BY DEF OpToRel
<1> HIDE DEF R
<1>3. PICK x \in T : \A y \in T : ~ (<<y, x>> \in R)
  BY <1>1, WFMin
<1>4. ASSUME NEW y \in T PROVE x <= y
  <2>1. x \in Nat /\ y \in Nat
    OBVIOUS
  <2>2. ~ (y < x)
    BY <1>2, <1>3, <2>1
  <2> QED
    BY <2>1, <2>2
<1> QED
  BY <1>4

\* A set that has 0, and with each number the next, has all of them.
LEMMA SetInduction ==
  ASSUME NEW S, 0 \in S, \A n \in Nat : n \in S => n + 1 \in S
  PROVE  Nat \subseteq S
<1> SUFFICES ASSUME Nat \ S # {} PROVE FALSE
  OBVIOUS
<1>1. PICK x \in Nat \ S : \A y \in Nat \ S : x <= y
  BY LeastNumber
<1>2. x - 1 \in Nat /\ x - 1 \in S
  BY <1>1
<1> QED
  BY <1>1, <1>2

\* The same for the numbers up to a bound.
LEMMA BoundedInduction ==
  ASSUME NEW N \in Nat, NEW S, 0 \in S, \A n \in 0 .. N - 1 : n \in S => n + 1 \in S
  PROVE  0 .. N \subseteq S
<1> DEFINE T == {n \in Nat : n <= N => n \in S}
<1>1. 0 \in T
  OBVIOUS
<1>2. ASSUME NEW n \in Nat, n \in T PROVE n + 1 \in T
  BY <1>2
<1> HIDE DEF T
<1>3. Nat \subseteq T
  BY <1>1, <1>2, SetInduction
<1> QED
  BY <1>3 DEF T

-----------------------------------------------------------------------------
(* Functions and records                                                   *)

\* What two functions make together.
LEMMA JoinedValues ==
  ASSUME NEW f, NEW g
  PROVE  /\ DOMAIN Joined(f, g) = DOMAIN f \union DOMAIN g
         /\ \A x \in DOMAIN f : Joined(f, g)[x] = f[x]
         /\ \A x \in (DOMAIN g) \ (DOMAIN f) : Joined(f, g)[x] = g[x]
BY DEF Joined

\* Nothing joined is nothing.
LEMMA NothingJoined ==
  ASSUME NEW f, f = [x \in DOMAIN f |-> f[x]]
  PROVE  Joined(<<>>, f) = f
BY DEF Joined

\* Rows that are all different come once each.
LEMMA TallyOfDifferent ==
  ASSUME NEW S, NEW f, \A x, y \in S : f[x] = f[y] => x = y,
         NEW T, \A r : r \in T <=> \E x \in S : r = f[x]
  PROVE  Tally(S, f) = [r \in T |-> 1]
<1>1. ASSUME NEW r \in T PROVE Cardinality({x \in S : f[x] = r}) = 1
  <2>1. PICK x \in S : r = f[x]
    OBVIOUS
  <2>2. {y \in S : f[y] = r} = {x}
    BY <2>1
  <2> QED
    BY <2>2, FS_Singleton
<1>2. {f[x] : x \in S} = T
  OBVIOUS
<1> QED
  BY <1>1, <1>2 DEF Tally

\* The definition by recursion of the rows after each transformation has a solution.
LEMMA AfterEach ==
  ASSUME NEW base, NEW stages, Len(stages) \in Nat
  PROVE  /\ After(base, stages)[0] = base
         /\ \A k \in 0 .. Len(stages) - 1 :
              After(base, stages)[k + 1] = Transformed(After(base, stages)[k], stages[k + 1])
<1> DEFINE N == Len(stages)
           Solves(g, n) == g = [k \in 0 .. n |-> IF k = 0 THEN base ELSE Transformed(g[k - 1], stages[k])]
           T == {n \in 0 .. N : \E g : Solves(g, n)}
<1>1. 0 \in T
  <2>1. Solves([k \in 0 .. 0 |-> base], 0)
    OBVIOUS
  <2> HIDE DEF Solves
  <2> QED
    BY <2>1
<1>2. ASSUME NEW n \in 0 .. N - 1, n \in T PROVE n + 1 \in T
  <2>1. PICK g : Solves(g, n)
    BY <1>2
  <2> DEFINE h == [k \in 0 .. n + 1 |-> IF k <= n THEN g[k] ELSE Transformed(g[n], stages[n + 1])]
  <2>2. ASSUME NEW k \in 0 .. n + 1
        PROVE  h[k] = IF k = 0 THEN base ELSE Transformed(h[k - 1], stages[k])
    <3>1. CASE k = 0
      BY <2>1, <3>1
    <3>2. CASE k \in 1 .. n
      <4>1. h[k] = g[k] /\ h[k - 1] = g[k - 1]
        BY <3>2
      <4> QED
        BY <2>1, <3>2, <4>1
    <3>3. CASE k = n + 1
      <4>1. h[k] = Transformed(g[n], stages[n + 1]) /\ h[k - 1] = g[n] /\ k # 0
        BY <3>3
      <4> QED
        BY <3>3, <4>1
    <3> QED
      BY <3>1, <3>2, <3>3
  <2>3. Solves(h, n + 1)
    BY <2>2
  <2> HIDE DEF Solves, h
  <2> QED
    BY <2>3
<1>3. N \in T
  <2>1. N \in Nat
    OBVIOUS
  <2> HIDE DEF N, T
  <2>2. 0 .. N \subseteq T
    BY <1>1, <1>2, <2>1, BoundedInduction
  <2> QED
    BY <2>1, <2>2
<1> HIDE DEF T
<1>4. PICK g : Solves(g, N)
  BY <1>3 DEF T
<1>5. Solves(After(base, stages), N)
  BY <1>4 DEF After
<1> QED
  BY <1>5

-----------------------------------------------------------------------------
(* The query                                                               *)

IsQuery(q) ==
  DOMAIN q = {"where", "having", "annotated", "aliases", "by", "shown", "aggregates", "distinct"}

\* What a query refers to is there: the part of TypeOK that is about the query.
WellFormed(q) ==
  /\ IsQuery(q)
  /\ \A c \in q.where : Known(q, c.name)
  /\ q.by \subseteq Columns \union q.annotated
  /\ q.shown # None => q.shown \subseteq Columns \union q.annotated
  /\ \A s \in q.aggregates : q.aliases[s.alias] = s

\* Two queries with the same conditions, aliases and groups
Alongside(q, r) ==
  /\ q.where = r.where /\ q.having = r.having /\ q.aliases = r.aliases
  /\ q.by = r.by /\ q.aggregates = r.aggregates /\ q.distinct = r.distinct

New(q, names) == (names \intersect DOMAIN config.annotations) \ (q.annotated \union DOMAIN q.aliases)

\* What ensure_field_annotations changes.
LEMMA Ensured ==
  ASSUME NEW q, IsQuery(q), NEW names
  PROVE  LET e == Ensure(q, names)
         IN  /\ IsQuery(e) /\ Alongside(e, q)
             /\ e.annotated = q.annotated \union New(q, names)
             /\ e.shown = IF q.shown = None THEN None ELSE q.shown \union New(q, names)
BY DEF IsQuery, Ensure, Alongside, New

\* What a groupby adds to the query before values().
Asked(t) == (t.fields \ DOMAIN config.functions) \union ({s.source : s \in Specs(t)} \ {None})
LEMMA PreparedQuery ==
  ASSUME NEW q, IsQuery(q), q = query, NEW t
  PROVE  LET p == Prepared(t)
         IN  /\ IsQuery(p) /\ Alongside(p, q)
             /\ p.annotated = q.annotated \union New(q, Asked(t)) \union Computed(t)
             /\ p.shown = IF q.shown = None THEN None ELSE q.shown \union New(q, Asked(t))
<1>0. PICK names : names = Asked(t)
  OBVIOUS
<1>1. PICK e : e = Ensure(q, names)
  OBVIOUS
<1>2. /\ IsQuery(e) /\ Alongside(e, q)
      /\ e.annotated = q.annotated \union New(q, names)
      /\ e.shown = IF q.shown = None THEN None ELSE q.shown \union New(q, names)
  BY <1>1, Ensured
<1>3. Prepared(t) = [e EXCEPT !.annotated = e.annotated \union Computed(t)]
  BY <1>0, <1>1 DEF Prepared, Asked
<1> QED
  BY <1>0, <1>2, <1>3 DEF IsQuery, Alongside

\* What a filter adds to it.
LEMMA ConditionAdded ==
  ASSUME NEW q, IsQuery(q), NEW t
  PROVE  LET c == WithCondition(q, t)
             column == Resolve(t.name)
         IN  /\ IsQuery(c)
             /\ c.annotated = q.annotated /\ c.aliases = q.aliases /\ c.by = q.by
             /\ c.shown = q.shown /\ c.aggregates = q.aggregates /\ c.distinct = q.distinct
             /\ column \in DOMAIN q.aliases =>
                  /\ c.having = q.having \union {[spec |-> q.aliases[column], values |-> t.values]}
                  /\ c.where = q.where
             /\ column \notin DOMAIN q.aliases =>
                  /\ c.where = q.where \union {[name |-> column, values |-> t.values]}
                  /\ c.having = q.having
BY DEF IsQuery, WithCondition

\* One aggregate of each alias is named, and it is the one the alias stands for.
LEMMA OneOfEachAlias ==
  ASSUME NEW t, t.aggregate # None => DOMAIN t.aggregate \subseteq Nat, NEW s \in Named(t)
  PROVE  /\ s \in Specs(t)
         /\ \A u \in Named(t) : u.alias = s.alias => u = s
         /\ (CHOOSE u \in Named(t) : u.alias = s.alias) = s
<1>1. t.aggregate # None
  BY DEF Named
<1> DEFINE Latest == {k \in DOMAIN t.aggregate :
                      \A l \in DOMAIN t.aggregate : l > k => t.aggregate[l].alias # t.aggregate[k].alias}
<1>2. Named(t) = {t.aggregate[k] : k \in Latest} /\ DOMAIN t.aggregate \subseteq Nat
  BY <1>1 DEF Named
<1>3. PICK k \in Latest : s = t.aggregate[k]
  BY <1>2
<1>4. s \in Specs(t)
  BY <1>1, <1>3 DEF Specs, ToSet
<1>5. ASSUME NEW u \in Named(t), u.alias = s.alias PROVE u = s
  <2>1. PICK l \in Latest : u = t.aggregate[l]
    BY <1>2
  <2>2. ~ (l > k) /\ ~ (k > l) /\ k \in Nat /\ l \in Nat
    BY <1>2, <1>3, <1>5, <2>1
  <2> QED
    BY <1>3, <2>1, <2>2
<1> QED
  BY <1>4, <1>5

\* The query after a groupby.
LEMMA GroupedQuery ==
  ASSUME NEW q, IsQuery(q), NEW t, t.aggregate # None => DOMAIN t.aggregate \subseteq Nat
  PROVE  LET g == Grouped(q, t)
         IN  /\ IsQuery(g)
             /\ g.where = q.where /\ g.having = q.having /\ g.annotated = q.annotated
             /\ g.shown = t.fields /\ g.aggregates = Named(t)
             /\ t.aggregate = None => g.by = q.by /\ g.aliases = q.aliases /\ Named(t) = {}
             /\ t.aggregate # None =>
                  /\ g.distinct = q.distinct /\ g.by = t.fields
                  /\ DOMAIN g.aliases = {s.alias : s \in Named(t)} \union DOMAIN q.aliases
                  /\ \A s \in Named(t) : g.aliases[s.alias] = s
<1>1. CASE t.aggregate = None
  BY <1>1 DEF Grouped, IsQuery, Named
<1>2. CASE t.aggregate # None
  <2> DEFINE chosen == [a \in {s.alias : s \in Named(t)} |-> CHOOSE s \in Named(t) : s.alias = a]
  <2>0. PICK first : first = chosen
    OBVIOUS
  <2>1. PICK al : al = Joined(first, q.aliases)
    OBVIOUS
  <2>2. Grouped(q, t) = [q EXCEPT !.shown = t.fields, !.by = t.fields, !.aggregates = Named(t),
                                  !.aliases = al]
    BY <1>2, <2>0, <2>1 DEF Grouped
  <2>3. DOMAIN first = {s.alias : s \in Named(t)} /\ \A s \in Named(t) : first[s.alias] = s
    BY OneOfEachAlias, <1>2, <2>0
  <2> HIDE DEF chosen
  <2>4. DOMAIN al = {s.alias : s \in Named(t)} \union DOMAIN q.aliases
    BY <2>1, <2>3 DEF Joined
  <2>5. \A s \in Named(t) : al[s.alias] = s
    BY <2>1, <2>3 DEF Joined
  <2> QED
    BY <1>2, <2>2, <2>4, <2>5 DEF IsQuery
<1> QED
  BY <1>1, <1>2

-----------------------------------------------------------------------------
(* Types                                                                   *)

Typed ==
  /\ config \in Configs /\ pipeline \in Pipelines
  /\ WellFormed(query)
  /\ done \in 0 .. Len(pipeline)
  /\ stage \in {"received", "applying", "answered", "refused", "crashed"}
  /\ stage = "answered" => done = Len(pipeline)
  /\ stage # "answered" => answer = None

\* The stage that is next.
LEMMA NextStage ==
  ASSUME Typed, done < Len(pipeline)
  PROVE  /\ Len(pipeline) \in Nat /\ done \in Nat /\ done + 1 \in 0 .. Len(pipeline)
         /\ done + 1 \in DOMAIN pipeline
         /\ LET t == pipeline[done + 1]
            IN  /\ t.kind \in {"groupby", "aggregate"} /\ t.aggregate # None =>
                     DOMAIN t.aggregate \subseteq Nat
                /\ t.kind = "groupby" => t.fields # None
                /\ t.kind = "aggregate" => t.fields = {}
BY PipelineAssumption DEF Typed

\* A filter whose name is known leaves the query well formed.
LEMMA FilterWellFormed ==
  ASSUME NEW q, WellFormed(q), NEW t,
         Known(Ensure(q, {t.name}), Resolve(t.name))
           \/ Resolve(t.name) \in DOMAIN Ensure(q, {t.name}).aliases
  PROVE  WellFormed(WithCondition(Ensure(q, {t.name}), t))
<1>1. PICK e : e = Ensure(q, {t.name})
  OBVIOUS
<1>2. PICK f : f = WithCondition(e, t)
  OBVIOUS
<1>3. PICK new : new = New(q, {t.name})
  OBVIOUS
<1>4. /\ IsQuery(e) /\ Alongside(e, q)
      /\ e.annotated = q.annotated \union new
      /\ e.shown = IF q.shown = None THEN None ELSE q.shown \union new
  BY <1>1, <1>3, Ensured DEF WellFormed
<1>5. /\ IsQuery(f)
      /\ f.annotated = e.annotated /\ f.aliases = e.aliases /\ f.by = e.by
      /\ f.shown = e.shown /\ f.aggregates = e.aggregates
      /\ Resolve(t.name) \in DOMAIN e.aliases => f.where = e.where
      /\ Resolve(t.name) \notin DOMAIN e.aliases =>
           f.where = e.where \union {[name |-> Resolve(t.name), values |-> t.values]}
  BY <1>2, <1>4, ConditionAdded
<1>6. \A c \in f.where : Known(f, c.name)
  <2> TAKE c \in f.where
  <2>1. CASE c \in q.where
    BY <2>1, <1>4, <1>5 DEF WellFormed, Known
  <2>2. CASE c \notin q.where
    <3>1. c = [name |-> Resolve(t.name), values |-> t.values] /\ Resolve(t.name) \notin DOMAIN e.aliases
      BY <2>2, <1>4, <1>5 DEF Alongside
    <3>2. Known(e, Resolve(t.name))
      BY <3>1, <1>1
    <3> QED
      BY <3>1, <3>2, <1>5 DEF Known
  <2> QED
    BY <2>1, <2>2
<1>7. f.by \subseteq Columns \union f.annotated
  BY <1>4, <1>5 DEF WellFormed, Alongside
<1>8. f.shown # None => f.shown \subseteq Columns \union f.annotated
  BY <1>4, <1>5 DEF WellFormed
<1>9. \A s \in f.aggregates : f.aliases[s.alias] = s
  BY <1>4, <1>5 DEF WellFormed, Alongside
<1> QED
  BY <1>1, <1>2, <1>5, <1>6, <1>7, <1>8, <1>9 DEF WellFormed

\* So does a groupby whose fields are known.
LEMMA GroupsWellFormed ==
  ASSUME NEW q, WellFormed(q), q = query, NEW t,
         t.aggregate # None => DOMAIN t.aggregate \subseteq Nat,
         \A f \in t.fields : Known(Prepared(t), f)
  PROVE  WellFormed(Grouped(Prepared(t), t))
<1>1. PICK p : p = Prepared(t)
  OBVIOUS
<1>2. PICK g : g = Grouped(p, t)
  OBVIOUS
<1>3. IsQuery(p) /\ Alongside(p, q) /\ q.annotated \subseteq p.annotated
  <2>1. IsQuery(q)
    BY DEF WellFormed
  <2>2. /\ IsQuery(p) /\ Alongside(p, q)
        /\ p.annotated = q.annotated \union New(q, Asked(t)) \union Computed(t)
    BY <1>1, <2>1, PreparedQuery, Zenon
  <2> QED
    BY <2>2
<1>4. /\ IsQuery(g)
      /\ g.where = p.where /\ g.annotated = p.annotated
      /\ g.shown = t.fields /\ g.aggregates = Named(t)
      /\ t.aggregate = None => g.by = p.by /\ Named(t) = {}
      /\ t.aggregate # None => g.by = t.fields /\ \A s \in Named(t) : g.aliases[s.alias] = s
  BY <1>2, <1>3, GroupedQuery
<1>5. t.fields \subseteq Columns \union g.annotated
  BY <1>1, <1>4 DEF Known
<1> QED
  BY <1>1, <1>2, <1>3, <1>4, <1>5 DEF WellFormed, Alongside, Known

\* Every step keeps the types.
LEMMA TypedStep ==
  ASSUME Typed, [Next]_vars
  PROVE  Typed'
<1>1. CASE Parse
  BY <1>1 DEF Typed, Parse, input, WellFormed, IsQuery, Known
<1>2. ASSUME stage = "applying", done < Len(pipeline), Filter(pipeline[done + 1]) PROVE Typed'
  <2> DEFINE t == pipeline[done + 1]
  <2>1. /\ UNCHANGED <<input, answer>> /\ answer = None
        /\ \/ stage' \in {"refused", "crashed"} /\ UNCHANGED <<done, query>>
           \/ /\ query' = WithCondition(Ensure(query, {t.name}), t)
              /\ done' = done + 1 /\ UNCHANGED stage
              /\ Known(Ensure(query, {t.name}), Resolve(t.name))
                   \/ Resolve(t.name) \in DOMAIN Ensure(query, {t.name}).aliases
    BY <1>2 DEF Filter, Typed
  <2>2. PICK q : q = query'
    OBVIOUS
  <2>3. WellFormed(q)
    BY <2>1, <2>2, FilterWellFormed DEF Typed
  <2> QED
    BY <2>1, <2>2, <2>3, <1>2, NextStage DEF Typed, input, WellFormed, IsQuery, Known
<1>3. ASSUME stage = "applying", done < Len(pipeline), GroupBy(pipeline[done + 1]) PROVE Typed'
  <2> DEFINE t == pipeline[done + 1]
  <2>1. /\ UNCHANGED input /\ answer = None /\ t.kind \in {"groupby", "aggregate"}
        /\ \/ stage' \in {"refused", "crashed"} /\ UNCHANGED <<done, query, answer>>
           \/ /\ t.fields = {} /\ ~ Misplaced(t)
              /\ stage' = "answered" /\ done' = done + 1 /\ UNCHANGED query
           \/ /\ query' = Grouped(Prepared(t), t)
              /\ done' = done + 1 /\ UNCHANGED <<stage, answer>>
              /\ \A f \in t.fields : Known(Prepared(t), f)
    BY <1>3 DEF GroupBy, Typed, Groupable
  <2>2. PICK q : q = query'
    OBVIOUS
  <2>3. WellFormed(q)
    BY <2>1, <2>2, GroupsWellFormed, NextStage, <1>3 DEF Typed
  <2>4. done' \in 0 .. Len(pipeline) /\ (stage' = "answered" => done' = Len(pipeline))
    BY <2>1, <1>3, NextStage DEF Misplaced, Typed
  <2> QED
    BY <2>1, <2>2, <2>3, <2>4, <1>3 DEF Typed, input, WellFormed, IsQuery, Known
<1>4. CASE Answer
  BY <1>4 DEF Typed, Answer, input, WellFormed, IsQuery, Known
<1>5. CASE UNCHANGED vars
  BY <1>5 DEF Typed, vars, WellFormed, IsQuery, Known
<1> QED
  BY <1>1, <1>2, <1>3, <1>4, <1>5 DEF Next, Apply

\* The types hold at first.
LEMMA TypedInit ==
  ASSUME Init
  PROVE  Typed
<1>1. PICK q : q = query
  OBVIOUS
<1>2. IsQuery(q) /\ q.where = {} /\ q.by = {} /\ q.shown = None /\ q.aggregates = {}
  BY <1>1 DEF Init, NoQuery, IsQuery
<1>3. WellFormed(q)
  BY <1>2 DEF WellFormed
<1>4. Len(pipeline) \in Nat
  BY PipelineAssumption DEF Init
<1> QED
  BY <1>1, <1>3, <1>4 DEF Init, Typed

\* Type correctness of $apply: every name of the query is a column or was annotated before,
\* the stages are taken one by one, and an answer comes after the last of them.
THEOREM TypeCorrect == Spec => []TypeOK
<1>1. Init => Typed
  BY TypedInit
<1>2. Typed /\ [Next]_vars => Typed'
  BY TypedStep
<1>3. Typed => TypeOK
  BY DEF Typed, WellFormed, TypeOK
<1> QED
  BY <1>1, <1>2, <1>3, PTL DEF Spec

-----------------------------------------------------------------------------
(* The input does not change                                               *)

LEMMA SameValues ==
  ASSUME UNCHANGED input, NEW n, NEW i
  PROVE  Value(n, i)' = Value(n, i) /\ Resolve(n)' = Resolve(n)
BY DEF input, Value, Resolve

LEMMA SameKeys ==
  ASSUME UNCHANGED input, NEW names, NEW i
  PROVE  Key(names, i)' = Key(names, i)
BY SameValues DEF Key

LEMMA SameRows ==
  ASSUME UNCHANGED input, NEW q
  PROVE  Chosen(q)' = Chosen(q) /\ Ordering(q)' = Ordering(q) /\ Selected(q)' = Selected(q)
<1>1. (DOMAIN table)' = DOMAIN table /\ config' = config
  BY DEF input
<1>2. Chosen(q)' = Chosen(q)
  BY <1>1, SameValues DEF Chosen
<1>3. Ordering(q)' = Ordering(q)
  BY <1>1 DEF Ordering
<1> QED
  BY <1>2, <1>3 DEF Selected

LEMMA SameMembers ==
  ASSUME UNCHANGED input, NEW q, NEW key
  PROVE  Members(q, key)' = Members(q, key)
<1>1. PICK rows : rows = Chosen(q)
  OBVIOUS
<1>2. PICK names : names = Selected(q)
  OBVIOUS
<1>3. Chosen(q)' = rows /\ Selected(q)' = names
  BY <1>1, <1>2, SameRows
<1>4. Members(q, key)' = {i \in rows : Key(names, i)' = key}
  BY <1>3 DEF Members
<1>5. Members(q, key) = {i \in rows : Key(names, i) = key}
  BY <1>1, <1>2 DEF Members
<1> QED
  BY <1>4, <1>5, SameKeys

LEMMA SameAggregates ==
  ASSUME UNCHANGED input, NEW specs, NEW rows
  PROVE  /\ \A s : Of(s, rows)' = Of(s, rows)
         /\ Aggregates(specs, rows)' = Aggregates(specs, rows)
<1>1. ASSUME NEW s PROVE Of(s, rows)' = Of(s, rows)
  <2>1. PICK column : column = Resolve(s.source)
    OBVIOUS
  <2>2. PICK f : f = [i \in rows |-> IF Counting(s) THEN i ELSE Value(column, i)]
    OBVIOUS
  <2>3. f = [i \in rows |-> IF Counting(s) THEN i ELSE Value(column, i)']
    BY <2>2, SameValues
  <2>4. Of(s, rows) = Aggregate(s, rows, f)
    BY <2>1, <2>2 DEF Of
  <2>5. Resolve(s.source)' = column
    BY <2>1, SameValues
  <2>6. Of(s, rows)' = Aggregate(s, rows, f)
    BY <2>3, <2>5 DEF Of
  <2> QED
    BY <2>4, <2>6
<1> QED
  BY <1>1 DEF Aggregates

LEMMA SamePassing ==
  ASSUME UNCHANGED input, NEW q
  PROVE  Passing(q)' = Passing(q)
<1>1. PICK rows : rows = Chosen(q)
  OBVIOUS
<1>2. PICK names : names = Selected(q)
  OBVIOUS
<1>3. Chosen(q)' = rows /\ Selected(q)' = names
  BY <1>1, <1>2, SameRows
<1>4. PICK keys : keys = {Key(names, i) : i \in rows}
  OBVIOUS
<1>5. keys = {Key(names, i)' : i \in rows}
  BY <1>4, SameKeys
<1>6. Passing(q) = {key \in keys : \A c \in q.having : Of(c.spec, Members(q, key)) \in c.values}
  BY <1>1, <1>2, <1>4 DEF Passing
<1>7. Passing(q)' = {key \in keys : \A c \in q.having : Of(c.spec, Members(q, key))' \in c.values}
  BY <1>3, <1>5 DEF Passing
<1>8. ASSUME NEW key, NEW s PROVE Of(s, Members(q, key))' = Of(s, Members(q, key))
  <2>1. PICK members : members = Members(q, key)
    OBVIOUS
  <2>2. Members(q, key)' = members
    BY <2>1, SameMembers
  <2> QED
    BY <2>1, <2>2, SameAggregates
<1> QED
  BY <1>6, <1>7, <1>8

LEMMA SameMeaning ==
  ASSUME UNCHANGED input
  PROVE  /\ Base' = Base /\ After(Base, pipeline)' = After(Base, pipeline)
         /\ Meant' = Meant /\ Grouping' = Grouping /\ (Regular' <=> Regular)
         /\ Names' = Names
         /\ \A S : Whole(S)' = Whole(S)
<1>1. Names' = Names
  BY DEF Names, input
<1>2. PICK names : names = Names
  OBVIOUS
<1>3. PICK rows : rows = DOMAIN table
  OBVIOUS
<1>4. Base = {[id |-> i, row |-> [n \in names |-> Value(n, i)]] : i \in rows}
  BY <1>2, <1>3 DEF Base
<1>5. (DOMAIN table)' = rows
  BY <1>3 DEF input
<1>6. Base' = {[id |-> i, row |-> [n \in names |-> Value(n, i)']] : i \in rows}
  BY <1>1, <1>2, <1>5 DEF Base
<1>7. \A i : [n \in names |-> Value(n, i)'] = [n \in names |-> Value(n, i)]
  BY SameValues
<1>8. Base' = Base
  BY <1>4, <1>6, <1>7
<1>9. pipeline' = pipeline /\ table' = table /\ config' = config
  BY DEF input
<1>10. After(Base, pipeline)' = After(Base, pipeline)
  BY <1>8, <1>9
<1>11. Meant' = Meant
  BY <1>8, <1>9 DEF Meant
<1>12. Grouping' = Grouping
  BY <1>9 DEF Grouping
<1>13. Regular' <=> Regular
  BY <1>9, <1>12 DEF Regular, Aliased
<1>14. ASSUME NEW S PROVE Whole(S)' = Whole(S)
  BY <1>9 DEF Whole
<1> QED
  BY <1>1, <1>8, <1>10, <1>11, <1>12, <1>13, <1>14

-----------------------------------------------------------------------------
(* Queries and the rows they stand for                                     *)

\* The row of a group, as the query answers it
Entry(q, t, key) == [id |-> key, row |-> Joined(key, Aggregates(Named(t), Members(q, key)))]

\* The query q after d stages none of which groups: it chooses the rows that they leave.
Ungrouped(q, d) ==
  /\ q.shown = None /\ DOMAIN q.aliases = {} /\ q.having = {} /\ q.by = {} /\ q.distinct = FALSE
  /\ q.annotated \subseteq DOMAIN config.annotations
  /\ \A g \in Grouping : d < g
  /\ After(Base, pipeline)[d] = {x \in Base : x.id \in Chosen(q)}

\* The query q after d stages of which g groups: every group that passes is one of the rows,
\* keys and aggregates included, that the stages leave.
GroupedBy(q, d, g) ==
  LET t == pipeline[g]
  IN  /\ g <= d /\ t.kind = "groupby"
      /\ q.shown = t.fields /\ q.by \subseteq t.fields /\ Ordering(q) = {}
      /\ q.aggregates = Named(t)
      /\ DOMAIN q.aliases = {s.alias : s \in Named(t)}
      /\ \A s \in Named(t) : q.aliases[s.alias] = s /\ s.alias \notin t.fields
      /\ t.fields \subseteq Columns \union q.annotated
      /\ q.annotated \subseteq Names
      /\ After(Base, pipeline)[d] = {Entry(q, t, key) : key \in Passing(q)}

\* What the settings say of names: a name has one meaning, and an alias stands for a column.
LEMMA OneMeaning ==
  ASSUME config \in Configs
  PROVE  /\ \A n \in DOMAIN config.aliases : config.aliases[n] \in Columns /\ n \notin Columns
         /\ \A n \in DOMAIN config.annotations : n \notin Columns /\ n \notin DOMAIN config.aliases
         /\ \A n \in Columns : Resolve(n) = n
         /\ \A n, i : Value(Resolve(n), i) = Value(n, i)
<1>1. /\ \A n \in DOMAIN config.aliases : config.aliases[n] \in Columns /\ n \notin Columns
      /\ \A n \in DOMAIN config.annotations : n \notin Columns /\ n \notin DOMAIN config.aliases
  <2>1. /\ (DOMAIN config.aliases) \intersect Columns = {}
        /\ (DOMAIN config.annotations) \intersect Columns = {}
        /\ (DOMAIN config.aliases) \intersect (DOMAIN config.annotations \union DOMAIN config.functions) = {}
        /\ \A n \in DOMAIN config.aliases : config.aliases[n] \in Columns
    BY ConfigAssumption
  <2> QED
    BY <2>1
<1> QED
  BY <1>1 DEF Resolve, Value

\* The rows the pipeline starts from.
LEMMA BaseRows ==
  ASSUME NEW x \in Base
  PROVE  /\ x.id \in DOMAIN table /\ DOMAIN x.row = Names
         /\ \A n \in Names : x.row[n] = Value(n, x.id)
         /\ \A y \in Base : y.id = x.id => y = x
BY DEF Base

LEMMA EveryRowInBase ==
  ASSUME NEW i \in DOMAIN table
  PROVE  \E x \in Base : x.id = i
<1>1. PICK x : x = [id |-> i, row |-> [n \in Names |-> Value(n, i)]]
  OBVIOUS
<1>2. x \in Base /\ x.id = i
  BY <1>1 DEF Base
<1> QED
  BY <1>2

\* Two settings of one group never agree on a key.
LEMMA KeyShape ==
  ASSUME NEW names, NEW i
  PROVE  /\ DOMAIN Key(names, i) = names /\ \A n \in names : Key(names, i)[n] = Value(n, i)
         /\ \A j : (\A n \in names : Value(n, i) = Value(n, j)) => Key(names, i) = Key(names, j)
         /\ Restrict(Key(names, i), names) = Key(names, i)
BY DEF Key, Restrict

\* One more condition chooses the rows that satisfy it.
LEMMA ChosenByOneMore ==
  ASSUME NEW q, NEW f, NEW column, NEW values,
         f.where = q.where \union {[name |-> column, values |-> values]}
  PROVE  \A i : i \in Chosen(f) <=> i \in Chosen(q) /\ Value(column, i) \in values
<1>1. PICK more : more = [name |-> column, values |-> values]
  OBVIOUS
<1>2. more.name = column /\ more.values = values /\ f.where = q.where \union {more}
  BY <1>1
<1> QED
  BY <1>2 DEF Chosen

\* A filter before any group keeps the rows that it describes.
LEMMA FilterUngrouped ==
  ASSUME Typed, NEW d \in Nat, d < Len(pipeline), NEW q, IsQuery(q), Ungrouped(q, d),
         pipeline[d + 1].kind = "filter",
         Known(Ensure(q, {pipeline[d + 1].name}), Resolve(pipeline[d + 1].name))
           \/ Resolve(pipeline[d + 1].name) \in DOMAIN Ensure(q, {pipeline[d + 1].name}).aliases
  PROVE  Ungrouped(WithCondition(Ensure(q, {pipeline[d + 1].name}), pipeline[d + 1]), d + 1)
<1>0. PICK t : t = pipeline[d + 1]
  OBVIOUS
<1>1. PICK e : e = Ensure(q, {t.name})
  OBVIOUS
<1>2. PICK f : f = WithCondition(e, t)
  OBVIOUS
<1>3. PICK column : column = Resolve(t.name)
  OBVIOUS
<1>4. /\ IsQuery(e) /\ Alongside(e, q)
      /\ e.annotated \subseteq DOMAIN config.annotations
      /\ e.shown = None
  <2>1. PICK new : new = New(q, {t.name})
    OBVIOUS
  <2>2. new \subseteq DOMAIN config.annotations
    BY <2>1 DEF New
  <2>3. /\ IsQuery(e) /\ Alongside(e, q)
        /\ e.annotated = q.annotated \union new
        /\ e.shown = IF q.shown = None THEN None ELSE q.shown \union new
    BY <1>1, <2>1, Ensured
  <2> QED
    BY <2>2, <2>3 DEF Ungrouped
<1>5. column \notin DOMAIN e.aliases /\ Known(e, column)
  BY <1>0, <1>1, <1>3, <1>4 DEF Ungrouped, Alongside
<1>6. /\ f.annotated = e.annotated /\ f.aliases = e.aliases /\ f.by = e.by /\ f.shown = e.shown
      /\ f.distinct = e.distinct /\ f.having = e.having
      /\ f.where = e.where \union {[name |-> column, values |-> t.values]}
  BY <1>2, <1>3, <1>4, <1>5, ConditionAdded
<1>7. \A i : i \in Chosen(f) <=> i \in Chosen(q) /\ Value(column, i) \in t.values
  <2>1. f.where = q.where \union {[name |-> column, values |-> t.values]}
    BY <1>4, <1>6 DEF Alongside
  <2> QED
    BY <2>1, ChosenByOneMore
<1>8. t.name \in Names
  BY <1>3, <1>4, <1>5 DEF Known, Resolve, Names
<1>9. \A x \in Base : x.row[t.name] = Value(column, x.id)
  BY <1>3, <1>8, BaseRows, OneMeaning DEF Typed
<1>10. Len(pipeline) \in Nat /\ d + 1 \in DOMAIN pipeline
  BY PipelineAssumption DEF Typed
<1>11. After(Base, pipeline)[d + 1] = {x \in After(Base, pipeline)[d] : x.row[t.name] \in t.values}
  <2>1. After(Base, pipeline)[d + 1] = Transformed(After(Base, pipeline)[d], t)
    BY <1>0, <1>10, AfterEach
  <2> QED
    BY <1>0, <2>1 DEF Transformed
<1>12. After(Base, pipeline)[d + 1] = {x \in Base : x.id \in Chosen(f)}
  BY <1>7, <1>9, <1>11 DEF Ungrouped
<1>13. \A g \in Grouping : d + 1 < g
  <2> TAKE g \in Grouping
  <2>1. d < g /\ g # d + 1 /\ g \in Nat
    BY <1>10, PipelineAssumption DEF Ungrouped, Grouping, Typed
  <2> QED
    BY <2>1
<1> QED
  BY <1>0, <1>1, <1>2, <1>4, <1>6, <1>12, <1>13 DEF Ungrouped, Alongside

\* The columns that tell the groups apart are the fields.
LEMMA SelectedFields ==
  ASSUME NEW q, NEW d, NEW g, GroupedBy(q, d, g)
  PROVE  Selected(q) = pipeline[g].fields
BY DEF Selected, GroupedBy

\* A condition on a field keeps or drops whole groups.
LEMMA KeysFiltered ==
  ASSUME NEW q, NEW f, NEW n, NEW values, n \in Selected(q), Selected(f) = Selected(q),
         f.having = q.having, \A i : i \in Chosen(f) <=> i \in Chosen(q) /\ Value(n, i) \in values
  PROVE  /\ \A key : key \in Passing(f) <=> key \in Passing(q) /\ key[n] \in values
         /\ \A key \in Passing(f) : Members(f, key) = Members(q, key)
<1>1. PICK names : names = Selected(q)
  OBVIOUS
<1>2. \A i : Key(names, i)[n] = Value(n, i)
  BY <1>1, KeyShape
<1>3. \A key : Members(q, key) = {i \in Chosen(q) : Key(names, i) = key}
  BY <1>1 DEF Members
<1>4. \A key : Members(f, key) = {i \in Chosen(f) : Key(names, i) = key}
  BY <1>1 DEF Members
<1>5. ASSUME NEW key, key[n] \in values PROVE Members(f, key) = Members(q, key)
  BY <1>2, <1>3, <1>4, <1>5
<1>6. ASSUME NEW key
      PROVE  key \in {Key(names, i) : i \in Chosen(f)}
               <=> key \in {Key(names, i) : i \in Chosen(q)} /\ key[n] \in values
  BY <1>2
<1>7. Passing(q) = {key \in {Key(names, i) : i \in Chosen(q)} :
                      \A c \in q.having : Of(c.spec, Members(q, key)) \in c.values}
  BY <1>1 DEF Passing
<1>8. Passing(f) = {key \in {Key(names, i) : i \in Chosen(f)} :
                      \A c \in q.having : Of(c.spec, Members(f, key)) \in c.values}
  BY <1>1 DEF Passing
<1>9. ASSUME NEW key PROVE key \in Passing(f) <=> key \in Passing(q) /\ key[n] \in values
  <2>1. CASE key[n] \in values
    <3>1. \A c \in q.having : Of(c.spec, Members(f, key)) = Of(c.spec, Members(q, key))
      BY <2>1, <1>5
    <3>2. key \in Passing(f) <=> /\ key \in {Key(names, i) : i \in Chosen(f)}
                                 /\ \A c \in q.having : Of(c.spec, Members(q, key)) \in c.values
      BY <1>8, <3>1
    <3>3. key \in Passing(q) <=> /\ key \in {Key(names, i) : i \in Chosen(q)}
                                 /\ \A c \in q.having : Of(c.spec, Members(q, key)) \in c.values
      BY <1>7
    <3> QED
      BY <3>2, <3>3, <2>1, <1>6
  <2>2. CASE key[n] \notin values
    BY <2>2, <1>6, <1>8
  <2> QED
    BY <2>1, <2>2
<1> QED
  BY <1>5, <1>9

\* A condition on an aggregate keeps the groups that satisfy it.
LEMMA GroupsFiltered ==
  ASSUME NEW q, NEW f, NEW s, NEW values, Selected(f) = Selected(q), Chosen(f) = Chosen(q),
         f.having = q.having \union {[spec |-> s, values |-> values]}
  PROVE  /\ \A key : Members(f, key) = Members(q, key)
         /\ \A key : key \in Passing(f) <=> key \in Passing(q) /\ Of(s, Members(q, key)) \in values
<1>1. \A key : Members(f, key) = Members(q, key)
  BY DEF Members
<1>2. PICK more : more = [spec |-> s, values |-> values]
  OBVIOUS
<1>3. more.spec = s /\ more.values = values /\ f.having = q.having \union {more}
  BY <1>2
<1>4. PICK names : names = Selected(q)
  OBVIOUS
<1>5. PICK keys : keys = {Key(names, i) : i \in Chosen(q)}
  OBVIOUS
<1>6. Passing(q) = {key \in keys : \A c \in q.having : Of(c.spec, Members(q, key)) \in c.values}
  BY <1>4, <1>5 DEF Passing
<1>7. Passing(f) = {key \in keys : \A c \in f.having : Of(c.spec, Members(q, key)) \in c.values}
  BY <1>1, <1>4, <1>5 DEF Passing
<1> QED
  BY <1>1, <1>3, <1>6, <1>7

\* A group's row has the key and the aggregates of its group.
LEMMA EntryShape ==
  ASSUME NEW q, NEW t, NEW key, \A s \in Named(t) : s.alias \notin DOMAIN key,
         t.aggregate # None => DOMAIN t.aggregate \subseteq Nat
  PROVE  LET x == Entry(q, t, key)
         IN  /\ x.id = key
             /\ DOMAIN x.row = DOMAIN key \union {s.alias : s \in Named(t)}
             /\ \A n \in DOMAIN key : x.row[n] = key[n]
             /\ \A s \in Named(t) : x.row[s.alias] = Of(s, Members(q, key))
<1>1. PICK members : members = Members(q, key)
  OBVIOUS
<1>2. PICK sums : sums = Aggregates(Named(t), members)
  OBVIOUS
<1>3. DOMAIN sums = {s.alias : s \in Named(t)}
  BY <1>2 DEF Aggregates
<1>4. ASSUME NEW s \in Named(t) PROVE sums[s.alias] = Of(s, members)
  <2>1. (CHOOSE u \in Named(t) : u.alias = s.alias) = s
    BY OneOfEachAlias
  <2>2. sums[s.alias] = Of(CHOOSE u \in Named(t) : u.alias = s.alias, members)
    BY <1>2 DEF Aggregates
  <2> QED
    BY <2>1, <2>2
<1>5. Entry(q, t, key) = [id |-> key, row |-> Joined(key, sums)]
  BY <1>1, <1>2 DEF Entry
<1>6. PICK row : row = Joined(key, sums)
  OBVIOUS
<1>7. /\ DOMAIN row = DOMAIN key \union DOMAIN sums
      /\ \A n \in DOMAIN key : row[n] = key[n]
      /\ \A a \in DOMAIN sums : a \notin DOMAIN key => row[a] = sums[a]
  BY <1>6 DEF Joined
<1>8. \A s \in Named(t) : s.alias \in DOMAIN sums /\ row[s.alias] = Of(s, members)
  BY <1>3, <1>4, <1>7
<1> QED
  BY <1>1, <1>3, <1>5, <1>6, <1>7, <1>8

\* What the settings and the pipeline say of the stage that groups.
LEMMA GroupingStage ==
  ASSUME Typed, NEW g \in Grouping
  PROVE  /\ g \in 1 .. Len(pipeline) /\ Len(pipeline) \in Nat
         /\ pipeline[g].aggregate # None => DOMAIN pipeline[g].aggregate \subseteq Nat
         /\ pipeline[g].kind = "groupby" => pipeline[g].fields # None
         /\ pipeline[g].kind = "aggregate" => pipeline[g].fields = {}
  BY PipelineAssumption DEF Typed, Grouping

\* Every passing key is a key of the fields.
LEMMA PassingKeys ==
  ASSUME NEW q, NEW key \in Passing(q)
  PROVE  /\ DOMAIN key = Selected(q)
         /\ \E i \in Chosen(q) : key = Key(Selected(q), i)
BY KeyShape DEF Passing

\* A filter after the groups keeps the rows that it describes, whether it is about a key or
\* about an aggregate.
LEMMA FilterGrouped ==
  ASSUME Typed, Regular, NEW d \in Nat, d < Len(pipeline), NEW q, IsQuery(q),
         NEW g \in Grouping, GroupedBy(q, d, g), pipeline[d + 1].kind = "filter"
  PROVE  GroupedBy(WithCondition(Ensure(q, {pipeline[d + 1].name}), pipeline[d + 1]), d + 1, g)
<1>0. PICK t : t = pipeline[d + 1]
  OBVIOUS
<1>1. PICK u : u = pipeline[g]
  OBVIOUS
<1>2. PICK e : e = Ensure(q, {t.name})
  OBVIOUS
<1>3. PICK f : f = WithCondition(e, t)
  OBVIOUS
<1>4. PICK column : column = Resolve(t.name)
  OBVIOUS
<1>5. /\ g <= d /\ u.kind = "groupby"
      /\ q.shown = u.fields /\ q.by \subseteq u.fields /\ Ordering(q) = {}
      /\ q.aggregates = Named(u)
      /\ DOMAIN q.aliases = {s.alias : s \in Named(u)}
      /\ \A s \in Named(u) : q.aliases[s.alias] = s /\ s.alias \notin u.fields
      /\ u.fields \subseteq Columns \union q.annotated
      /\ q.annotated \subseteq Names
      /\ After(Base, pipeline)[d] = {Entry(q, u, key) : key \in Passing(q)}
  BY <1>1 DEF GroupedBy
<1>6. g \in Nat /\ Len(pipeline) \in Nat /\ (u.aggregate # None => DOMAIN u.aggregate \subseteq Nat)
  BY <1>1, GroupingStage
<1>7. t.name \in u.fields \union {s.alias : s \in Named(u)}
  <2>1. d + 1 \in g + 1 .. Len(pipeline)
    BY <1>5, <1>6
  <2> QED
    BY <1>0, <1>1, <2>1 DEF Regular
<1>8. \A s \in Named(u) : s.alias \notin Aliased
  BY <1>1 DEF Regular
<1>9. New(q, {t.name}) = {}
  <2>1. CASE t.name \in u.fields
    BY <2>1, <1>5, OneMeaning DEF New, Typed
  <2>2. CASE t.name \in {s.alias : s \in Named(u)}
    BY <2>2, <1>5 DEF New
  <2> QED
    BY <1>7, <2>1, <2>2
<1>10. /\ IsQuery(e) /\ Alongside(e, q) /\ e.annotated = q.annotated /\ e.shown = q.shown
  <2>1. PICK new : new = New(q, {t.name})
    OBVIOUS
  <2>2. /\ IsQuery(e) /\ Alongside(e, q)
        /\ e.annotated = q.annotated \union new
        /\ e.shown = IF q.shown = None THEN None ELSE q.shown \union new
    BY <1>2, <2>1, Ensured
  <2> QED
    BY <1>9, <2>1, <2>2
<1>11. /\ f.annotated = q.annotated /\ f.aliases = q.aliases /\ f.by = q.by
       /\ f.shown = q.shown /\ f.aggregates = q.aggregates /\ f.distinct = q.distinct
       /\ column \in DOMAIN q.aliases =>
            /\ f.having = q.having \union {[spec |-> q.aliases[column], values |-> t.values]}
            /\ f.where = q.where
       /\ column \notin DOMAIN q.aliases =>
            /\ f.where = q.where \union {[name |-> column, values |-> t.values]}
            /\ f.having = q.having
  <2>1. /\ f.annotated = e.annotated /\ f.aliases = e.aliases /\ f.by = e.by
        /\ f.shown = e.shown /\ f.aggregates = e.aggregates /\ f.distinct = e.distinct
        /\ column \in DOMAIN e.aliases =>
             /\ f.having = e.having \union {[spec |-> e.aliases[column], values |-> t.values]}
             /\ f.where = e.where
        /\ column \notin DOMAIN e.aliases =>
             /\ f.where = e.where \union {[name |-> column, values |-> t.values]}
             /\ f.having = e.having
    <3>1. IsQuery(e) /\ Resolve(t.name) = column /\ WithCondition(e, t) = f
      BY <1>3, <1>4, <1>10
    <3>2. LET c == WithCondition(e, t)
              named == Resolve(t.name)
          IN  /\ c.annotated = e.annotated /\ c.aliases = e.aliases /\ c.by = e.by
              /\ c.shown = e.shown /\ c.aggregates = e.aggregates /\ c.distinct = e.distinct
              /\ named \in DOMAIN e.aliases =>
                   /\ c.having = e.having \union {[spec |-> e.aliases[named], values |-> t.values]}
                   /\ c.where = e.where
              /\ named \notin DOMAIN e.aliases =>
                   /\ c.where = e.where \union {[name |-> named, values |-> t.values]}
                   /\ c.having = e.having
      BY <3>1, ConditionAdded
    <3> QED
      BY <3>1, <3>2
  <2>2. /\ e.where = q.where /\ e.having = q.having /\ e.aliases = q.aliases /\ e.by = q.by
        /\ e.aggregates = q.aggregates /\ e.distinct = q.distinct
        /\ e.annotated = q.annotated /\ e.shown = q.shown
    BY <1>10 DEF Alongside
  <2> QED
    BY <2>1, <2>2, Zenon
<1>12. Ordering(f) = {} /\ Selected(f) = u.fields /\ Selected(q) = u.fields
  <2>1. f.distinct = q.distinct
    BY <1>11
  <2>2. Ordering(f) = Ordering(q)
    BY <2>1, Zenon DEF Ordering
  <2> QED
    BY <2>2, <1>5, <1>11 DEF Selected
<1>13. \A key \in Passing(q) : DOMAIN key = u.fields /\ \A s \in Named(u) : s.alias \notin DOMAIN key
  BY <1>5, <1>12, PassingKeys
<1>14. After(Base, pipeline)[d + 1] = {x \in After(Base, pipeline)[d] : x.row[t.name] \in t.values}
  <2>1. After(Base, pipeline)[d + 1] = Transformed(After(Base, pipeline)[d], t)
    BY <1>0, <1>6, AfterEach
  <2> QED
    BY <1>0, <2>1 DEF Transformed
<1>15. /\ \A key \in Passing(f) : Members(f, key) = Members(q, key)
       /\ \A key : key \in Passing(f) <=>
                     key \in Passing(q) /\ Entry(q, u, key).row[t.name] \in t.values
  <2>1. CASE t.name \in u.fields
    <3>1. column \notin DOMAIN q.aliases
      <4>1. CASE t.name \in DOMAIN config.aliases
        BY <4>1, <1>4, <1>5, <1>8 DEF Resolve, Aliased
      <4>2. CASE t.name \notin DOMAIN config.aliases
        BY <4>2, <2>1, <1>4, <1>5 DEF Resolve
      <4> QED
        BY <4>1, <4>2
    <3>2. \A i : i \in Chosen(f) <=> i \in Chosen(q) /\ Value(column, i) \in t.values
      <4>1. f.where = q.where \union {[name |-> column, values |-> t.values]}
        BY <3>1, <1>11
      <4> QED
        BY <4>1, ChosenByOneMore
    <3>3. \A i : i \in Chosen(f) <=> i \in Chosen(q) /\ Value(t.name, i) \in t.values
      BY <3>2, <1>4, OneMeaning DEF Typed
    <3>4. t.name \in Selected(q) /\ Selected(f) = Selected(q) /\ f.having = q.having
      BY <2>1, <1>11, <1>12, <3>1
    <3>5. /\ \A key : key \in Passing(f) <=> key \in Passing(q) /\ key[t.name] \in t.values
          /\ \A key \in Passing(f) : Members(f, key) = Members(q, key)
      BY <3>3, <3>4, KeysFiltered
    <3>6. \A key \in Passing(q) : Entry(q, u, key).row[t.name] = key[t.name]
      BY <1>6, <1>13, <2>1, EntryShape
    <3> QED
      BY <3>5, <3>6
  <2>2. CASE t.name \notin u.fields
    <3>1. PICK s \in Named(u) : t.name = s.alias
      BY <1>7, <2>2
    <3>2. column = s.alias
      BY <3>1, <1>4, <1>8 DEF Resolve, Aliased
    <3>3. column \in DOMAIN q.aliases /\ q.aliases[column] = s
      BY <3>2, <1>5
    <3>4. f.having = q.having \union {[spec |-> s, values |-> t.values]} /\ f.where = q.where
      BY <3>3, <1>11
    <3>5. Selected(f) = Selected(q) /\ Chosen(f) = Chosen(q)
      BY <3>4, <1>12 DEF Chosen
    <3>6. /\ \A key : Members(f, key) = Members(q, key)
          /\ \A key : key \in Passing(f) <=> key \in Passing(q) /\ Of(s, Members(q, key)) \in t.values
      BY <3>4, <3>5, GroupsFiltered
    <3>7. \A key \in Passing(q) : Entry(q, u, key).row[t.name] = Of(s, Members(q, key))
      BY <1>6, <1>13, <3>1, EntryShape
    <3> QED
      BY <3>6, <3>7
  <2> QED
    BY <2>1, <2>2
<1>16. \A key \in Passing(f) : Entry(f, u, key) = Entry(q, u, key)
  BY <1>15 DEF Entry
<1>17. After(Base, pipeline)[d + 1] = {Entry(f, u, key) : key \in Passing(f)}
  BY <1>5, <1>14, <1>15, <1>16
<1>18. GroupedBy(f, d + 1, g)
  BY <1>1, <1>5, <1>6, <1>11, <1>12, <1>17 DEF GroupedBy
<1> QED
  BY <1>0, <1>2, <1>3, <1>18

\* An aggregate of rows nobody grouped is the one the database computes.
LEMMA CombinedRows ==
  ASSUME config \in Configs, NEW R \in SUBSET Base, NEW s, Counting(s) \/ s.source \in Names
  PROVE  Combined(s, R) = Of(s, {x.id : x \in R})
<1>1. PICK ids : ids = {x.id : x \in R}
  OBVIOUS
<1>2. PICK f : f = [i \in ids |-> IF Counting(s) THEN i ELSE (CHOOSE x \in R : x.id = i).row[s.source]]
  OBVIOUS
<1>3. PICK h : h = [i \in ids |-> IF Counting(s) THEN i ELSE Value(Resolve(s.source), i)]
  OBVIOUS
<1>4. ASSUME NEW i \in ids PROVE f[i] = h[i]
  <2>1. CASE Counting(s)
    BY <2>1, <1>2, <1>3
  <2>2. CASE ~ Counting(s)
    <3>1. PICK x \in R : x.id = i
      BY <1>1
    <3>2. \A y \in R : y.id = i => y = x
      BY <3>1, BaseRows
    <3>3. (CHOOSE y \in R : y.id = i) = x
      BY <3>1, <3>2
    <3>4. f[i] = x.row[s.source]
      BY <3>3, <2>2, <1>2
    <3>5. x.row[s.source] = Value(s.source, i)
      BY <3>1, <2>2, BaseRows
    <3>6. h[i] = Value(Resolve(s.source), i)
      BY <2>2, <1>3
    <3> QED
      BY <3>4, <3>5, <3>6, OneMeaning
  <2> QED
    BY <2>1, <2>2
<1>5. f = h
  BY <1>2, <1>3, <1>4
<1>6. Combined(s, R) = Aggregate(s, ids, f)
  BY <1>1, <1>2 DEF Combined
<1>7. Of(s, ids) = Aggregate(s, ids, h)
  BY <1>3 DEF Of
<1> QED
  BY <1>1, <1>5, <1>6, <1>7

\* What a stage that groups adds: names that the rows have.
LEMMA PreparedNames ==
  ASSUME Typed, NEW d, NEW q, IsQuery(q), q = query, Ungrouped(q, d), NEW t
  PROVE  /\ IsQuery(Prepared(t)) /\ Alongside(Prepared(t), q)
         /\ Prepared(t).annotated \subseteq Names
         /\ \A s : Known(Prepared(t), Resolve(s.source)) => s.source \in Names
<1>1. PICK p : p = Prepared(t)
  OBVIOUS
<1>2. PICK new : new = New(q, Asked(t))
  OBVIOUS
<1>3. IsQuery(p) /\ Alongside(p, q) /\ p.annotated = q.annotated \union new \union Computed(t)
  BY <1>1, <1>2, PreparedQuery, Zenon
<1>4. new \subseteq DOMAIN config.annotations
  BY <1>2 DEF New
<1>5. p.annotated \subseteq Names
  BY <1>3, <1>4 DEF Computed, Names, Ungrouped
<1>6. ASSUME NEW s, Known(p, Resolve(s.source)) PROVE s.source \in Names
  BY <1>5, <1>6 DEF Known, Resolve, Names
<1> QED
  BY <1>1, <1>3, <1>5, <1>6

\* A group of the stage is the row the query answers for it.
LEMMA GroupIsEntry ==
  ASSUME config \in Configs, NEW t, t.aggregate # None => DOMAIN t.aggregate \subseteq Nat,
         NEW rows \in SUBSET Base, NEW q, NEW key,
         Members(q, key) = {x.id : x \in Alike(rows, t, key)},
         \A s \in Named(t) : Counting(s) \/ s.source \in Names
  PROVE  Group(rows, t, key) = Entry(q, t, key)
<1>1. PICK alike : alike = Alike(rows, t, key)
  OBVIOUS
<1>2. PICK members : members = Members(q, key)
  OBVIOUS
<1>3. alike \in SUBSET Base /\ members = {x.id : x \in alike}
  BY <1>1, <1>2 DEF Alike
<1>4. PICK f : f = [a \in {s.alias : s \in Named(t)} |->
                      Combined(CHOOSE s \in Named(t) : s.alias = a, alike)]
  OBVIOUS
<1>5. PICK h : h = Aggregates(Named(t), members)
  OBVIOUS
<1>6. h = [a \in {s.alias : s \in Named(t)} |-> Of(CHOOSE s \in Named(t) : s.alias = a, members)]
  BY <1>5 DEF Aggregates
<1>7. ASSUME NEW s \in Named(t) PROVE f[s.alias] = h[s.alias]
  <2>1. (CHOOSE u \in Named(t) : u.alias = s.alias) = s /\ s \in Specs(t)
    BY OneOfEachAlias
  <2>2. f[s.alias] = Combined(s, alike)
    BY <2>1, <1>4
  <2>3. h[s.alias] = Of(s, members)
    BY <2>1, <1>6
  <2>4. Combined(s, alike) = Of(s, {x.id : x \in alike})
    BY <2>1, <1>3, CombinedRows
  <2> QED
    BY <2>2, <2>3, <2>4, <1>3
<1>8. f = h
  <2>1. DOMAIN f = DOMAIN h /\ \A a \in DOMAIN f : f[a] = h[a]
    BY <1>4, <1>6, <1>7
  <2> QED
    BY <2>1, <1>4, <1>6
<1>9. Group(rows, t, key) = [id |-> key, row |-> Joined(key, f)]
  BY <1>1, <1>4 DEF Group
<1>10. Entry(q, t, key) = [id |-> key, row |-> Joined(key, h)]
  BY <1>2, <1>5 DEF Entry
<1> QED
  BY <1>8, <1>9, <1>10

\* The first groupby groups the rows that are left.
LEMMA GroupUngrouped ==
  ASSUME Typed, Regular, NEW d \in Nat, d < Len(pipeline), NEW q, IsQuery(q), q = query,
         Ungrouped(q, d), NEW t, t = pipeline[d + 1], t.kind = "groupby", t.fields # {},
         Groupable(Prepared(t), t), Sound(Prepared(t), t)
  PROVE  GroupedBy(Grouped(Prepared(t), t), d + 1, d + 1)
<1>1. PICK p : p = Prepared(t)
  OBVIOUS
<1>2. PICK g : g = Grouped(p, t)
  OBVIOUS
<1>3. PICK names : names = t.fields
  OBVIOUS
<1>4. d + 1 \in Grouping /\ Len(pipeline) \in Nat /\ d + 1 \in 1 .. Len(pipeline)
  BY PipelineAssumption DEF Typed, Grouping
<1>5. t.aggregate # None => DOMAIN t.aggregate \subseteq Nat
  BY <1>4, GroupingStage
<1>6. /\ IsQuery(p) /\ Alongside(p, q) /\ p.annotated \subseteq Names
      /\ \A s : Known(p, Resolve(s.source)) => s.source \in Names
  BY <1>1, PreparedNames
<1>7. /\ g.where = p.where /\ g.having = p.having /\ g.annotated = p.annotated
      /\ g.shown = t.fields /\ g.aggregates = Named(t)
      /\ t.aggregate = None => g.by = p.by /\ g.aliases = p.aliases /\ Named(t) = {}
      /\ t.aggregate # None =>
           /\ g.distinct = p.distinct /\ g.by = t.fields
           /\ DOMAIN g.aliases = {s.alias : s \in Named(t)} \union DOMAIN p.aliases
           /\ \A s \in Named(t) : g.aliases[s.alias] = s
  <2>1. IsQuery(p)
    BY <1>6
  <2> QED
    BY <2>1, <1>2, <1>5, GroupedQuery
<1>8. names \subseteq Columns \union p.annotated /\ names \subseteq Names
  BY <1>1, <1>3, <1>6 DEF Groupable, Known, Names
<1>9. Ordering(g) = {} /\ g.by \subseteq names
  <2>1. CASE t.aggregate = None
    <3>1. config.ordering = None
      BY <2>1, <1>4 DEF Regular
    <3> QED
      BY <3>1, <2>1, <1>6, <1>7 DEF Ordering, Ungrouped, Alongside
  <2>2. CASE t.aggregate # None
    <3>1. g.distinct = FALSE
      BY <2>2, <1>6, <1>7 DEF Ungrouped, Alongside
    <3> QED
      BY <3>1, <2>2, <1>3, <1>7 DEF Ordering
  <2> QED
    BY <2>1, <2>2
<1>10. Selected(g) = names
  BY <1>3, <1>7, <1>9 DEF Selected
<1>11. Chosen(g) = Chosen(q) /\ g.having = {}
  BY <1>6, <1>7 DEF Chosen, Alongside, Ungrouped
<1>12. PICK rows : rows = {x \in Base : x.id \in Chosen(q)}
  OBVIOUS
<1>13. /\ rows \in SUBSET Base /\ After(Base, pipeline)[d] = rows
       /\ \A i \in Chosen(q) : \E x \in rows : x.id = i
  <2>1. \A i \in Chosen(q) : \E x \in Base : x.id = i
    BY EveryRowInBase DEF Chosen
  <2> QED
    BY <2>1, <1>12 DEF Ungrouped
<1>14. \A x \in rows : Restrict(x.row, names) = Key(names, x.id)
  BY <1>8, <1>13, BaseRows DEF Restrict, Key
<1>15. \A key : key \in Passing(g) <=> key \in GroupKeys(rows, t)
  <2>1. \A key : key \in Passing(g) <=> \E i \in Chosen(q) : key = Key(names, i)
    BY <1>10, <1>11 DEF Passing
  <2>2. \A key : key \in GroupKeys(rows, t) <=> \E x \in rows : key = Restrict(x.row, names)
    BY <1>3 DEF GroupKeys
  <2> QED
    BY <2>1, <2>2, <1>12, <1>13, <1>14
<1>16. ASSUME NEW key PROVE Group(rows, t, key) = Entry(g, t, key)
  <2>1. Members(g, key) = {i \in Chosen(q) : Key(names, i) = key}
    BY <1>10, <1>11 DEF Members
  <2>2. Alike(rows, t, key) = {x \in rows : Key(names, x.id) = key}
    BY <1>3, <1>14 DEF Alike
  <2>3. Members(g, key) = {x.id : x \in Alike(rows, t, key)}
    BY <2>1, <2>2, <1>12, <1>13
  <2>4. \A s \in Named(t) : Counting(s) \/ s.source \in Names
    BY <1>1, <1>6 DEF Sound, Counting
  <2> QED
    BY <2>3, <2>4, <1>5, <1>13, GroupIsEntry DEF Typed
<1>17. After(Base, pipeline)[d + 1] = {Entry(g, t, key) : key \in Passing(g)}
  <2>1. After(Base, pipeline)[d + 1] = Transformed(rows, t)
    BY <1>4, <1>13, AfterEach
  <2>2. Transformed(rows, t) = {Group(rows, t, key) : key \in GroupKeys(rows, t)}
    BY DEF Transformed
  <2> QED
    BY <2>1, <2>2, <1>15, <1>16
<1>18. /\ DOMAIN g.aliases = {s.alias : s \in Named(t)}
       /\ \A s \in Named(t) : g.aliases[s.alias] = s /\ s.alias \notin t.fields
  <2>1. DOMAIN p.aliases = {}
    BY <1>6 DEF Ungrouped, Alongside
  <2>2. \A s \in Named(t) : s.alias \notin t.fields
    BY <1>1, <1>5, OneOfEachAlias DEF Sound
  <2> QED
    BY <2>1, <2>2, <1>7
<1>19. GroupedBy(g, d + 1, d + 1)
  BY <1>3, <1>6, <1>7, <1>8, <1>9, <1>17, <1>18 DEF GroupedBy
<1> QED
  BY <1>1, <1>2, <1>19

\* Keys of the same fields with the same values are the same.
LEMMA KeysDiffer ==
  ASSUME NEW q, NEW k \in Passing(q), NEW l \in Passing(q),
         \A n \in Selected(q) : k[n] = l[n]
  PROVE  k = l
<1>1. PICK names : names = Selected(q)
  OBVIOUS
<1>2. PICK i, j : k = Key(names, i) /\ l = Key(names, j)
  BY <1>1, PassingKeys
<1>3. \A n \in names : Value(n, i) = Value(n, j)
  BY <1>1, <1>2, KeyShape
<1> QED
  BY <1>2, <1>3, KeyShape

\* The groups that a query lists are the rows that are left, each once.
LEMMA GroupsAnswered ==
  ASSUME Typed, NEW q, NEW g \in Grouping, NEW d, GroupedBy(q, d, g),
         NEW rows, rows = {Entry(q, pipeline[g], key) : key \in Passing(q)}
  PROVE  Groups(q) = Tally(rows, [x \in rows |-> x.row])
<1>1. PICK t : t = pipeline[g]
  OBVIOUS
<1>2. PICK names : names = t.fields
  OBVIOUS
<1>3. /\ Selected(q) = names /\ q.shown = names /\ Ordering(q) = {} /\ q.aggregates = Named(t)
      /\ \A s \in Named(t) : s.alias \notin names
  BY <1>1, <1>2, SelectedFields DEF GroupedBy
<1>4. t.aggregate # None => DOMAIN t.aggregate \subseteq Nat
  BY <1>1, GroupingStage
<1>5. PICK passing : passing = Passing(q)
  OBVIOUS
<1>6. ASSUME NEW key \in passing
      PROVE  /\ DOMAIN key = names /\ Restrict(key, names) = key
             /\ Entry(q, t, key).id = key
             /\ \A n \in names : Entry(q, t, key).row[n] = key[n]
             /\ Line(q, key).key = key
             /\ Joined(Restrict(Line(q, key).key, names), Line(q, key).sums) = Entry(q, t, key).row
  <2>1. DOMAIN key = names /\ Restrict(key, names) = key
    BY <1>3, <1>5, PassingKeys, KeyShape
  <2>2. PICK x : x = Entry(q, t, key)
    OBVIOUS
  <2>3. x.id = key /\ \A n \in names : x.row[n] = key[n]
    BY <2>1, <2>2, <1>3, <1>4, EntryShape
  <2>4. PICK sums : sums = Aggregates(Named(t), Members(q, key))
    OBVIOUS
  <2>5. PICK line : line = Line(q, key)
    OBVIOUS
  <2>6. (IF q.distinct THEN q.shown \union Ordering(q) ELSE Selected(q)) = names
    BY <1>3
  <2>7. line = [key |-> Restrict(key, names), sums |-> sums]
    BY <2>4, <2>5, <2>6, <1>3 DEF Line
  <2>8. x.row = Joined(key, sums)
    BY <2>2, <2>4 DEF Entry
  <2> QED
    BY <2>1, <2>2, <2>3, <2>5, <2>7, <2>8
<1>7. \A k, l \in passing : (\A n \in names : k[n] = l[n]) => k = l
  BY <1>3, <1>5, KeysDiffer
<1>8. PICK answers : answers = {Entry(q, t, key).row : key \in passing}
  OBVIOUS
<1>9. Tally(rows, [x \in rows |-> x.row]) = [r \in answers |-> 1]
  <2>1. PICK f : f = [x \in rows |-> x.row]
    OBVIOUS
  <2>2. rows = {Entry(q, t, key) : key \in passing}
    BY <1>1, <1>5
  <2>3. \A x, y \in rows : f[x] = f[y] => x = y
    <3> SUFFICES ASSUME NEW k \in passing, NEW l \in passing, Entry(q, t, k).row = Entry(q, t, l).row
                 PROVE  k = l
      BY <2>1, <2>2
    <3> QED
      BY <1>6, <1>7
  <2>4. \A r : r \in answers <=> \E x \in rows : r = f[x]
    BY <2>1, <2>2, <1>8
  <2>5. Tally(rows, f) = [r \in answers |-> 1]
    <3>1. PICK S : S = rows
      OBVIOUS
    <3>2. /\ \A x, y \in S : f[x] = f[y] => x = y
          /\ \A r : r \in answers <=> \E x \in S : r = f[x]
      BY <2>3, <2>4, <3>1
    <3>3. Tally(S, f) = [r \in answers |-> 1]
      BY <3>2, TallyOfDifferent
    <3> QED
      BY <3>1, <3>3
  <2> QED
    BY <2>1, <2>5
<1>10. Groups(q) = [r \in answers |-> 1]
  <2>1. PICK lines : lines = {Line(q, key) : key \in passing}
    OBVIOUS
  <2>2. PICK f : f = [l \in lines |-> Joined(Restrict(l.key, names), l.sums)]
    OBVIOUS
  <2>3. \A key \in passing : Line(q, key) \in lines /\ f[Line(q, key)] = Entry(q, t, key).row
    BY <2>1, <2>2, <1>6
  <2>4. \A x, y \in lines : f[x] = f[y] => x = y
    <3> SUFFICES ASSUME NEW k \in passing, NEW l \in passing, Entry(q, t, k).row = Entry(q, t, l).row
                 PROVE  k = l
      BY <2>1, <2>3
    <3> QED
      BY <1>6, <1>7
  <2>5. \A r : r \in answers <=> \E l \in lines : r = f[l]
    BY <2>1, <2>3, <1>8
  <2>6. Tally(lines, f) = [r \in answers |-> 1]
    BY <2>4, <2>5, TallyOfDifferent
  <2>7. Groups(q) = Tally(lines, f)
    BY <2>1, <2>2, <1>3, <1>5 DEF Groups
  <2> QED
    BY <2>6, <2>7
<1> QED
  BY <1>9, <1>10

\* A bare aggregate answers the one row of all rows that are left.
LEMMA SummaryAnswered ==
  ASSUME Typed, NEW d, NEW q, IsQuery(q), q = query, Ungrouped(q, d),
         NEW t, t.fields = {}, t.aggregate # None => DOMAIN t.aggregate \subseteq Nat,
         t.kind \in {"groupby", "aggregate"}, Sound(Prepared(t), t),
         NEW rows, \A x : x \in rows <=> x \in Base /\ x.id \in Chosen(q),
         NEW left, left = Transformed(rows, t)
  PROVE  Summary(Prepared(t), Named(t)) = Tally(left, [x \in left |-> x.row])
<1>1. PICK p : p = Prepared(t)
  OBVIOUS
<1>2. /\ IsQuery(p) /\ Alongside(p, q)
      /\ \A s : Known(p, Resolve(s.source)) => s.source \in Names
  BY <1>1, PreparedNames
<1>3. PICK chosen : chosen = Chosen(p)
  OBVIOUS
<1>4. chosen = Chosen(q)
  BY <1>2, <1>3 DEF Alongside, Chosen
<1>5. rows \in SUBSET Base /\ chosen = {x.id : x \in rows}
  <2>1. \A i \in chosen : \E x \in Base : x.id = i
    BY <1>3, EveryRowInBase DEF Chosen
  <2> QED
    BY <2>1, <1>4
<1>6. PICK alike : alike = Alike(rows, t, <<>>)
  OBVIOUS
<1>13. alike = rows
  BY <1>6 DEF Alike, Restrict
<1>7. PICK sums : sums = Aggregates(Named(t), chosen)
  OBVIOUS
<1>8. PICK x : x = Group(rows, t, <<>>)
  OBVIOUS
<1>9. x.row = sums
  <2>1. PICK f : f = [a \in {s.alias : s \in Named(t)} |->
                        Combined(CHOOSE s \in Named(t) : s.alias = a, alike)]
    OBVIOUS
  <2>2. sums = [a \in {s.alias : s \in Named(t)} |-> Of(CHOOSE s \in Named(t) : s.alias = a, chosen)]
    BY <1>7 DEF Aggregates
  <2>3. ASSUME NEW s \in Named(t) PROVE f[s.alias] = sums[s.alias]
    <3>1. (CHOOSE u \in Named(t) : u.alias = s.alias) = s /\ s \in Specs(t)
      BY OneOfEachAlias
    <3>2. Counting(s) \/ s.source \in Names
      BY <3>1, <1>1, <1>2 DEF Sound, Counting
    <3>3. Combined(s, rows) = Of(s, chosen)
      BY <3>2, <1>5, CombinedRows DEF Typed
    <3> QED
      BY <3>1, <3>3, <2>1, <2>2, <1>13
  <2>4. f = sums
    <3>1. DOMAIN f = DOMAIN sums /\ \A a \in DOMAIN f : f[a] = sums[a]
      BY <2>1, <2>2, <2>3
    <3> QED
      BY <3>1, <2>1, <2>2
  <2>5. x = [id |-> <<>>, row |-> Joined(<<>>, f)]
    BY <2>1, <1>6, <1>8 DEF Group
  <2>6. Joined(<<>>, f) = f
    <3>1. f = [a \in DOMAIN f |-> f[a]]
      BY <2>1
    <3> QED
      BY <3>1, NothingJoined
  <2> QED
    BY <2>4, <2>5, <2>6
<1>10. left = {x}
  <2>1. t.kind # "filter"
    OBVIOUS
  <2>2. GroupKeys(rows, t) = {<<>>}
    BY DEF GroupKeys
  <2> QED
    BY <2>1, <2>2, <1>8 DEF Transformed
<1>14. PICK S : S = {sums}
  OBVIOUS
<1>11. Tally(left, [y \in left |-> y.row]) = [r \in S |-> 1]
  <2>1. PICK f : f = [y \in left |-> y.row]
    OBVIOUS
  <2>2. /\ \A y, z \in left : f[y] = f[z] => y = z
        /\ \A r : r \in S <=> \E y \in left : r = f[y]
    BY <2>1, <1>9, <1>10, <1>14
  <2>3. PICK T : T = left
    OBVIOUS
  <2>4. /\ \A y, z \in T : f[y] = f[z] => y = z
        /\ \A r : r \in S <=> \E y \in T : r = f[y]
    BY <2>2, <2>3
  <2>5. Tally(T, f) = [r \in S |-> 1]
    BY <2>4, TallyOfDifferent
  <2> QED
    BY <2>1, <2>3, <2>5
<1>12. Summary(p, Named(t)) = [r \in S |-> 1]
  <2>1. PICK f : f = [r \in S |-> r]
    OBVIOUS
  <2>3. /\ \A y, z \in S : f[y] = f[z] => y = z
        /\ \A r : r \in S <=> \E y \in S : r = f[y]
    BY <2>1
  <2>4. Tally(S, f) = [r \in S |-> 1]
    BY <2>3, TallyOfDifferent
  <2>5. Summary(p, Named(t)) = Tally(S, f)
    BY <2>1, <1>3, <1>7, <1>14 DEF Summary
  <2> QED
    BY <2>4, <2>5
<1> QED
  BY <1>1, <1>11, <1>12

-----------------------------------------------------------------------------
(* The steps                                                               *)

LEMMA UngroupedKept ==
  ASSUME UNCHANGED input, NEW q, NEW d, Ungrouped(q, d)
  PROVE  Ungrouped(q, d)'
<1>1. config' = config /\ Chosen(q)' = Chosen(q)
  BY SameRows DEF input
<1>2. Base' = Base /\ After(Base, pipeline)' = After(Base, pipeline) /\ Grouping' = Grouping
  BY SameMeaning
<1> QED
  BY <1>1, <1>2 DEF Ungrouped

LEMMA GroupedByKept ==
  ASSUME UNCHANGED input, NEW q, NEW d, NEW g, GroupedBy(q, d, g)
  PROVE  GroupedBy(q, d, g)'
<1>1. PICK t : t = pipeline[g]
  OBVIOUS
<1>2. pipeline'[g] = t
  BY <1>1 DEF input
<1>3. ASSUME NEW key PROVE Entry(q, t, key)' = Entry(q, t, key)
  <2>1. PICK members : members = Members(q, key)
    OBVIOUS
  <2>2. Members(q, key)' = members
    BY <2>1, SameMembers
  <2>3. Aggregates(Named(t), members)' = Aggregates(Named(t), members)
    BY SameAggregates
  <2>4. Entry(q, t, key) = [id |-> key, row |-> Joined(key, Aggregates(Named(t), members))]
    BY <2>1 DEF Entry
  <2>5. Entry(q, t, key)' = [id |-> key, row |-> Joined(key, Aggregates(Named(t), members)')]
    BY <2>2 DEF Entry
  <2> QED
    BY <2>3, <2>4, <2>5
<1>4. Passing(q)' = Passing(q) /\ Ordering(q)' = Ordering(q)
  BY SamePassing, SameRows
<1>5. After(Base, pipeline)' = After(Base, pipeline) /\ Names' = Names
  BY SameMeaning
<1>6. PICK passing : passing = Passing(q)
  OBVIOUS
<1>7. {Entry(q, t, key)' : key \in passing} = {Entry(q, t, key) : key \in passing}
  BY <1>3
<1>8. {Entry(q, t, key) : key \in Passing(q)}' = {Entry(q, t, key) : key \in Passing(q)}
  BY <1>4, <1>6, <1>7
<1> QED
  BY <1>1, <1>2, <1>4, <1>5, <1>8 DEF GroupedBy

\* What the transformations mean is the same in the next state.
LEMMA AnswerKept ==
  ASSUME UNCHANGED input,
         Regular => answer' = IF Grouping = {} THEN Whole({x.id : x \in Meant})
                              ELSE Tally(Meant, [x \in Meant |-> x.row])
  PROVE  StagesInOrder'
<1>1. PICK ids : ids = {x.id : x \in Meant}
  OBVIOUS
<1>2. PICK meant : meant = Meant
  OBVIOUS
<1>3. Meant' = meant /\ Grouping' = Grouping /\ (Regular' <=> Regular)
  BY <1>2, SameMeaning
<1>4. {x.id : x \in Meant}' = ids
  BY <1>1, <1>2, <1>3
<1>5. Whole(ids)' = Whole(ids)
  BY SameMeaning
<1>6. Whole({x.id : x \in Meant})' = Whole(ids)
  BY <1>4, <1>5
<1> QED
  BY <1>1, <1>2, <1>3, <1>6 DEF StagesInOrder

\* The query and the rows that are left go together, and so do the answer and the meaning.
Related ==
  /\ stage = "received" => done = 0 /\ query = NoQuery
  /\ Regular /\ stage = "applying" =>
       Ungrouped(query, done) \/ \E g \in Grouping : GroupedBy(query, done, g)
  /\ StagesInOrder

\* A step to a stage that goes on is right when the new query is.
LEMMA RelatedNext ==
  ASSUME UNCHANGED input, stage' = "applying", NEW q, q = query', NEW d, d = done',
         Regular => Ungrouped(q, d) \/ \E g \in Grouping : GroupedBy(q, d, g)
  PROVE  Related'
<1>1. Regular' <=> Regular
  BY SameMeaning
<1>2. Grouping' = Grouping
  BY SameMeaning
<1>3. Regular' => Ungrouped(q, d)' \/ \E g \in Grouping : GroupedBy(q, d, g)'
  BY <1>1, UngroupedKept, GroupedByKept
<1>4. Regular' => Ungrouped(query, done)' \/ (\E g \in Grouping : GroupedBy(query, done, g))'
  BY <1>2, <1>3
<1> QED
  BY <1>4 DEF Related, StagesInOrder

LEMMA RelatedStep ==
  ASSUME Typed, Related, [Next]_vars
  PROVE  Related'
<1>1. CASE Parse
  <2>1. CASE stage' = "refused"
    BY <2>1 DEF Related, StagesInOrder
  <2>2. CASE stage' = "applying"
    <3>1. PICK q, d : q = query' /\ d = done'
      OBVIOUS
    <3>2. q = NoQuery /\ d = 0 /\ UNCHANGED input
      BY <1>1, <3>1 DEF Parse, Related
    <3>3. Chosen(q) = DOMAIN table
      BY <3>2 DEF Chosen, NoQuery
    <3>4. After(Base, pipeline)[0] = Base /\ \A g \in Grouping : 0 < g
      BY AfterEach, GroupingStage, PipelineAssumption DEF Typed
    <3>5. Ungrouped(q, d)
      BY <3>2, <3>3, <3>4, BaseRows DEF Ungrouped, NoQuery
    <3> QED
      BY <2>2, <3>1, <3>2, <3>5, RelatedNext
  <2> QED
    BY <1>1, <2>1, <2>2 DEF Parse
<1>2. ASSUME stage = "applying", done < Len(pipeline), Filter(pipeline[done + 1]) PROVE Related'
  <2>1. PICK t : t = pipeline[done + 1]
    OBVIOUS
  <2>2. PICK q0, d0 : q0 = query /\ d0 = done
    OBVIOUS
  <2>3. CASE stage' \in {"refused", "crashed"}
    BY <2>3 DEF Related, StagesInOrder
  <2>4. CASE stage' \notin {"refused", "crashed"}
    <3>1. PICK q, d : q = query' /\ d = done'
      OBVIOUS
    <3>2. /\ q = WithCondition(Ensure(q0, {t.name}), t) /\ d = d0 + 1
          /\ stage' = "applying" /\ UNCHANGED input /\ t.kind = "filter"
          /\ Known(Ensure(q0, {t.name}), Resolve(t.name))
               \/ Resolve(t.name) \in DOMAIN Ensure(q0, {t.name}).aliases
      BY <1>2, <2>1, <2>2, <2>4, <3>1 DEF Filter
    <3>3. d0 \in Nat /\ d0 < Len(pipeline) /\ IsQuery(q0) /\ t = pipeline[d0 + 1]
      BY <1>2, <2>1, <2>2, NextStage DEF Typed, WellFormed
    <3>4. ASSUME Regular, Ungrouped(q0, d0) PROVE Ungrouped(q, d)
      BY <3>2, <3>3, <3>4, FilterUngrouped
    <3>5. ASSUME Regular, NEW g \in Grouping, GroupedBy(q0, d0, g) PROVE GroupedBy(q, d, g)
      BY <3>2, <3>3, <3>5, FilterGrouped
    <3>6. Regular => Ungrouped(q0, d0) \/ \E g \in Grouping : GroupedBy(q0, d0, g)
      BY <1>2, <2>2 DEF Related
    <3> QED
      BY <3>1, <3>2, <3>4, <3>5, <3>6, RelatedNext
  <2> QED
    BY <2>3, <2>4
<1>3. ASSUME stage = "applying", done < Len(pipeline), GroupBy(pipeline[done + 1]) PROVE Related'
  <2>1. PICK t : t = pipeline[done + 1]
    OBVIOUS
  <2>2. PICK q0, d0 : q0 = query /\ d0 = done
    OBVIOUS
  <2>3. /\ UNCHANGED input /\ t.kind \in {"groupby", "aggregate"}
        /\ d0 \in Nat /\ d0 < Len(pipeline) /\ IsQuery(q0) /\ t = pipeline[d0 + 1]
        /\ t.aggregate # None => DOMAIN t.aggregate \subseteq Nat
        /\ t.kind = "aggregate" => t.fields = {}
    BY <1>3, <2>1, <2>2, NextStage DEF Typed, WellFormed, GroupBy
  <2>4. d0 + 1 \in Grouping
    BY <2>1, <2>2, <2>3, NextStage, <1>3 DEF Grouping
  <2>5. ASSUME Regular PROVE Ungrouped(q0, d0)
    <3>1. Ungrouped(q0, d0) \/ \E g \in Grouping : GroupedBy(q0, d0, g)
      BY <1>3, <2>2, <2>5 DEF Related
    <3>2. ASSUME NEW g \in Grouping, GroupedBy(q0, d0, g) PROVE FALSE
      <4>1. g <= d0 /\ g \in Nat
        BY <3>2, GroupingStage DEF GroupedBy
      <4>2. g = d0 + 1
        BY <2>4, <2>5 DEF Regular
      <4> QED
        BY <4>1, <4>2, <2>3
    <3> QED
      BY <3>1, <3>2
  <2>6. CASE stage' \in {"refused", "crashed"}
    BY <2>6 DEF Related, StagesInOrder
  <2>7. CASE stage' \notin {"refused", "crashed"} /\ t.fields # {}
    <3>1. PICK q, d : q = query' /\ d = done'
      OBVIOUS
    <3>2. /\ q = Grouped(Prepared(t), t) /\ d = d0 + 1 /\ stage' = "applying"
          /\ Groupable(Prepared(t), t) /\ Sound(Prepared(t), t)
      BY <1>3, <2>1, <2>2, <2>7, <3>1 DEF GroupBy
    <3>3. t.kind = "groupby"
      BY <2>3, <2>7
    <3>4. ASSUME Regular PROVE GroupedBy(q, d, d)
      <4>1. Ungrouped(q0, d0)
        BY <2>5, <3>4
      <4> QED
        BY <4>1, <2>2, <2>3, <2>7, <3>2, <3>3, <3>4, GroupUngrouped
    <3>5. d \in Grouping
      BY <2>4, <3>2
    <3> QED
      BY <2>3, <3>1, <3>2, <3>4, <3>5, RelatedNext
  <2>8. CASE stage' \notin {"refused", "crashed"} /\ t.fields = {}
    <3>1. /\ stage' = "answered" /\ ~ Misplaced(t) /\ Sound(Prepared(t), t)
          /\ answer' = Summary(Prepared(t), Named(t))
      BY <1>3, <2>1, <2>8 DEF GroupBy
    <3>2. d0 + 1 = Len(pipeline)
      BY <2>2, <2>3, <2>8, <3>1, PipelineAssumption DEF Misplaced, Typed
    <3>3. ASSUME Regular
          PROVE  Summary(Prepared(t), Named(t)) = Tally(Meant, [x \in Meant |-> x.row])
      <4>1. Ungrouped(q0, d0)
        BY <2>5, <3>3
      <4>2. PICK rows : rows = {x \in Base : x.id \in Chosen(q0)}
        OBVIOUS
      <4>3. PICK left : left = Transformed(rows, t)
        OBVIOUS
      <4>4. Meant = left
        <5>1. After(Base, pipeline)[d0] = rows
          BY <4>1, <4>2 DEF Ungrouped
        <5>2. Len(pipeline) \in Nat
          BY PipelineAssumption DEF Typed
        <5>3. After(Base, pipeline)[d0 + 1] = Transformed(After(Base, pipeline)[d0], t)
          BY <2>3, <5>2, AfterEach
        <5> QED
          BY <4>3, <5>1, <5>3, <3>2 DEF Meant
      <4>5. Summary(Prepared(t), Named(t)) = Tally(left, [x \in left |-> x.row])
        <5>1. \A x : x \in rows <=> x \in Base /\ x.id \in Chosen(q0)
          BY <4>2
        <5>2. IsQuery(q0) /\ q0 = query /\ t.fields = {} /\ Sound(Prepared(t), t)
          BY <2>2, <2>3, <2>8, <3>1
        <5>3. /\ t.aggregate # None => DOMAIN t.aggregate \subseteq Nat
              /\ t.kind \in {"groupby", "aggregate"}
          BY <2>3
        <5> QED
          BY <4>1, <4>3, <5>1, <5>2, <5>3, SummaryAnswered
      <4> QED
        BY <4>4, <4>5
    <3>4. Regular => answer' = IF Grouping = {} THEN Whole({x.id : x \in Meant})
                               ELSE Tally(Meant, [x \in Meant |-> x.row])
      BY <2>4, <3>1, <3>3
    <3>5. StagesInOrder'
      BY <2>3, <3>4, AnswerKept
    <3> QED
      BY <3>1, <3>5 DEF Related
  <2> QED
    BY <2>6, <2>7, <2>8
<1>4. CASE Answer
  <2>1. /\ stage = "applying" /\ done = Len(pipeline) /\ UNCHANGED input /\ stage' = "answered"
        /\ answer' = IF query.shown = None THEN Whole(Chosen(query)) ELSE Groups(query)
    BY <1>4 DEF Answer
  <2>2. ASSUME Regular, Ungrouped(query, done)
        PROVE  Grouping = {} /\ answer' = Whole({x.id : x \in Meant})
    <3>1. Grouping = {}
      <4>1. \A g \in Grouping : done < g /\ g \in 1 .. Len(pipeline) /\ Len(pipeline) \in Nat
        BY <2>2, GroupingStage DEF Ungrouped
      <4> QED
        BY <4>1, <2>1
    <3>2. Meant = {x \in Base : x.id \in Chosen(query)}
      BY <2>1, <2>2 DEF Ungrouped, Meant
    <3>3. \A i \in Chosen(query) : \E x \in Base : x.id = i
      BY EveryRowInBase DEF Chosen
    <3>4. {x.id : x \in Meant} = Chosen(query)
      BY <3>2, <3>3
    <3>5. answer' = Whole(Chosen(query))
      BY <2>1, <2>2 DEF Ungrouped
    <3> QED
      BY <3>1, <3>4, <3>5
  <2>3. ASSUME Regular, NEW g \in Grouping, GroupedBy(query, done, g)
        PROVE  answer' = Tally(Meant, [x \in Meant |-> x.row])
    <3>1. query.shown # None
      BY <2>3, GroupingStage DEF GroupedBy
    <3>2. PICK q, d : q = query /\ d = done
      OBVIOUS
    <3>3. PICK rows : rows = {Entry(q, pipeline[g], key) : key \in Passing(q)}
      OBVIOUS
    <3>4. Meant = rows
      BY <2>1, <2>3, <3>2, <3>3 DEF Meant, GroupedBy
    <3>5. Groups(q) = Tally(rows, [x \in rows |-> x.row])
      BY <2>3, <3>2, <3>3, GroupsAnswered
    <3> QED
      BY <2>1, <3>1, <3>2, <3>4, <3>5
  <2>4. Regular => answer' = IF Grouping = {} THEN Whole({x.id : x \in Meant})
                             ELSE Tally(Meant, [x \in Meant |-> x.row])
    BY <2>1, <2>2, <2>3 DEF Related
  <2>5. StagesInOrder'
    BY <2>1, <2>4, AnswerKept
  <2> QED
    BY <2>1, <2>5 DEF Related
<1>5. CASE UNCHANGED vars
  <2>1. UNCHANGED <<input, done, query, stage, answer>>
    BY <1>5 DEF vars, input
  <2>2. CASE stage = "applying"
    <3>1. PICK q, d : q = query' /\ d = done'
      OBVIOUS
    <3>2. Regular => Ungrouped(q, d) \/ \E g \in Grouping : GroupedBy(q, d, g)
      BY <2>1, <2>2, <3>1 DEF Related
    <3> QED
      BY <2>1, <2>2, <3>1, <3>2, RelatedNext
  <2>3. CASE stage = "answered"
    <3>1. StagesInOrder'
      BY <2>1, <2>3, AnswerKept DEF Related, StagesInOrder
    <3> QED
      BY <2>1, <2>3, <3>1 DEF Related
  <2>4. CASE stage \notin {"applying", "answered"}
    BY <2>1, <2>4 DEF Related, StagesInOrder
  <2> QED
    BY <2>2, <2>3, <2>4
<1> QED
  BY <1>1, <1>2, <1>3, <1>4, <1>5 DEF Next, Apply

\* One query with one WHERE, one GROUP BY and one HAVING answers what the transformations
\* answer one after the other, for every table, every pipeline with one group stage and every
\* setting that gives a name one meaning.
THEOREM OneQueryIsEnough == Spec => []StagesInOrder
<1>1. Init => Typed /\ Related
  BY TypedInit DEF Init, Related, StagesInOrder
<1>2. Typed /\ Related /\ [Next]_vars => Typed' /\ Related'
  BY TypedStep, RelatedStep
<1>3. Related => StagesInOrder
  BY DEF Related
<1> QED
  BY <1>1, <1>2, <1>3, PTL DEF Spec

=============================================================================
