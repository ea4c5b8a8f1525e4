--------------------------- MODULE Projection_proofs ---------------------------
(***************************************************************************)
(* Proofs about Projection, for all requests and configurations: whatever  *)
(* levels there are, whatever is selected and whoever writes in between.   *)
(***************************************************************************)
EXTENDS Projection, TLAPS

-----------------------------------------------------------------------------
(* What does not depend on the moment                                      *)

\* The request stays as it came, and with it the plan of its queries.
LEMMA SamePlan ==
  ASSUME ask' = ask
  PROVE  /\ Paths' = Paths /\ Valid' = Valid /\ Raw' = Raw
         /\ \A p : /\ Level(p)' = Level(p) /\ Below(p)' = Below(p) /\ Joined(p)' = Joined(p)
                   /\ Loaded(p)' = Loaded(p) /\ Names(p)' = Names(p) /\ Whole(p)' = Whole(p)
                   /\ Promised(p)' = Promised(p) /\ Lost(p)' = Lost(p)
<1>1. Paths' = Paths /\ \A p : Level(p)' = Level(p)
  BY DEF Paths, Level
<1>2. \A p : /\ Selected(p)' = Selected(p) /\ Below(p)' = Below(p)
             /\ \A n : Resolve(p, n)' = Resolve(p, n)
  BY <1>1 DEF Selected, Below, Resolve
<1>3. \A p : Forward(p)' = Forward(p) /\ Joined(p)' = Joined(p) /\ Connector(p)' = Connector(p)
  BY <1>1, <1>2 DEF Forward, Joined, Connector
<1>4. \A p : Keys(p)' = Keys(p)
  BY <1>1, <1>3 DEF Keys
<1>5. Valid' = Valid
  BY <1>1, <1>2 DEF Valid
<1>6. Hybrid' = Hybrid
  BY <1>1, <1>2 DEF Hybrid, Supported
<1>7. Raw' = Raw
  BY <1>1, <1>2, <1>6 DEF Raw
<1>8. \A p : Everything(p)' = Everything(p) /\ \A n : Wanted(p, n)' = Wanted(p, n)
  BY <1>1 DEF Everything, Wanted
<1>9. \A p : ValuesFields(p)' = ValuesFields(p) /\ SelectFields(p)' = SelectFields(p)
  BY <1>1, <1>2, <1>3, <1>4 DEF ValuesFields, SelectFields
<1>10. \A p : RelatedFields(p)' = RelatedFields(p) /\ GroupedBy(p)' = GroupedBy(p)
  BY <1>1, <1>3 DEF RelatedFields, GroupedBy
<1>11. \A p : ModelFields(p)' = ModelFields(p)
  BY <1>1, <1>2, <1>3, <1>9, <1>10 DEF ModelFields
<1>12. \A p : Loaded(p)' = Loaded(p) /\ Annotations(p)' = Annotations(p)
  BY <1>1, <1>2, <1>3, <1>6, <1>9, <1>11 DEF Loaded, Annotations
<1>13. \A p : Fields(p)' = Fields(p)
  BY <1>1, <1>2 DEF Fields
<1>14. \A p : ValuesNames(p)' = ValuesNames(p) /\ ModelNames(p)' = ModelNames(p) /\ RawNames' = RawNames
  BY <1>1, <1>2, <1>3, <1>12, <1>13 DEF ValuesNames, ModelNames, RawNames
<1>15. \A p : Names(p)' = Names(p)
  BY <1>6, <1>7, <1>14 DEF Names
<1>16. \A p : Whole(p)' = Whole(p)
  BY <1>1, <1>2, <1>3, <1>6, <1>8 DEF Whole
<1>17. \A p : Promised(p)' = Promised(p)
  BY <1>1, <1>2, <1>7, <1>8 DEF Promised
<1>18. \A p : Lost(p)' = Lost(p)
  BY <1>1, <1>3, <1>4, <1>6, <1>7, <1>8 DEF Lost
<1> QED
  BY <1>1, <1>2, <1>3, <1>5, <1>7, <1>12, <1>15, <1>16, <1>17, <1>18

-----------------------------------------------------------------------------
(* The configuration                                                       *)

\* What is assumed of a level, for the levels a valid request reaches.
LEMMA LevelFacts ==
  ASSUME ask \in Asks, Valid, NEW p \in Paths
  PROVE  /\ Pk \in Level(p).columns
         /\ Level(p).foreign \subseteq Level(p).columns
         /\ \A n \in DOMAIN Level(p).aliases :
              Level(p).aliases[n] \in Level(p).columns \union DOMAIN Level(p).computed
         /\ Level(p).columns \intersect DOMAIN Level(p).computed = {}
         /\ Level(p).annotated \intersect (Level(p).columns \union DOMAIN Level(p).computed) = {}
         /\ Level(p).kind = "root" <=> p = Root
         /\ p = Root => Owner \in Level(p).columns
         /\ Keys(p) \subseteq Level(p).columns
<1>1. \A q \in Paths : q \in DOMAIN ask.levels
  BY DEF Valid
<1>2. \A q \in DOMAIN ask.levels :
        LET level == ask.levels[q]
        IN /\ Pk \in level.columns
           /\ level.foreign \subseteq level.columns
           /\ \A n \in DOMAIN level.aliases :
                level.aliases[n] \in level.columns \union DOMAIN level.computed
           /\ level.columns \intersect DOMAIN level.computed = {}
           /\ level.annotated \intersect (level.columns \union DOMAIN level.computed) = {}
           /\ level.kind = "root" <=> q = Root
           /\ q = Root => Owner \in level.columns
           /\ q # Root /\ level.kind = "forward" /\ Above(q) \in DOMAIN ask.levels =>
                level.link \in ask.levels[Above(q)].columns
  BY LevelAssumption
<1>3. Keys(p) \subseteq Level(p).columns
  <2> SUFFICES ASSUME NEW q \in Forward(p) PROVE Level(q).link \in Level(p).columns
    BY DEF Keys
  <2>1. q \in Paths /\ q # Root /\ Above(q) = p /\ Level(q).kind = "forward"
    BY DEF Forward, Below
  <2> QED
    BY <1>1, <1>2, <2>1 DEF Level
<1> QED
  BY <1>1, <1>2, <1>3 DEF Level

\* A request selects names, or leaves the choice to allowed_fields, or wants everything.
LEMMA SelectionFacts ==
  ASSUME NEW p
  PROVE  /\ Everything(p) <=> Selected(p) = None
         /\ \A n : Wanted(p, n) <=> (Selected(p) = None \/ n \in Selected(p))
BY DEF Everything, Selected, Wanted

\* What a valid request selects is allowed, and selected.
LEMMA SelectedIsAllowed ==
  ASSUME Valid, NEW p \in Paths, NEW n, Wanted(p, n)
  PROVE  /\ Level(p).allowed # None => n \in Level(p).allowed
         /\ ask.select[p] # None => n \in ask.select[p] \/ "*" \in ask.select[p]
<1>1. Selected(p) # None /\ Level(p).allowed # None => Selected(p) \subseteq Level(p).allowed
  BY DEF Valid
<1> QED
  BY <1>1 DEF Wanted, Selected

\* Each loading path gives an object the names that were promised, less those that are
\* known to be lost.
LEMMA NamesAsPromised ==
  ASSUME ask \in Asks, Valid, NEW p \in Paths
  PROVE  Names(p) = Promised(p) \ Lost(p)
<1> USE LevelFacts, SelectionFacts
<1>1. CASE Raw
  <2>1. ~ Hybrid /\ Paths = {Root} /\ p = Root /\ Level(p).kind = "root"
    BY <1>1 DEF Raw
  <2>2. Keys(p) = {} /\ Connector(p) = {} /\ ~ Joined(p)
    BY <2>1 DEF Keys, Forward, Below, Connector, Joined
  <2>3. Names(p) = RawNames
    BY <1>1 DEF Names
  <2>4. CASE Selected(p) = None
    <3>1. Names(p) = Level(p).columns
      BY <2>1, <2>2, <2>3, <2>4 DEF RawNames, Loaded, ModelFields
    <3>2. Lost(p) = DOMAIN Level(p).aliases \ Level(p).columns
      BY <1>1, <2>1, <2>4 DEF Lost
    <3>3. ASSUME NEW n \in Level(p).columns PROVE n \in Promised(p)
      BY <1>1, <2>4, <3>3 DEF Promised, Resolve
    <3>4. ASSUME NEW n \in Promised(p), n \notin DOMAIN Level(p).aliases \ Level(p).columns
          PROVE  n \in Level(p).columns
      BY <1>1, <2>4, <3>4 DEF Promised, Resolve
    <3> QED
      BY <3>1, <3>2, <3>3, <3>4
  <2>5. CASE Selected(p) # None
    <3>1. Lost(p) = {}
      BY <1>1, <2>1, <2>5 DEF Lost
    <3>2. /\ Loaded(p) = {Pk} \union ({Resolve(p, n) : n \in Selected(p)} \intersect Level(p).columns)
          /\ Annotations(p) = Level(p).annotated \intersect Selected(p)
      BY <2>1, <2>2, <2>5 DEF Loaded, ModelFields, SelectFields, GroupedBy, Annotations
    <3>3. \A n \in Selected(p) : Resolve(p, n) \notin DOMAIN Level(p).computed
      BY <1>1, <2>1, <2>5 DEF Raw
    <3>4. Names(p) = {n \in Selected(p) : Resolve(p, n) \in Loaded(p) \union Annotations(p)}
      BY <2>1, <2>3, <2>5 DEF RawNames
    <3>5. ASSUME NEW n \in Names(p) PROVE n \in Promised(p)
      BY <1>1, <2>5, <3>2, <3>3, <3>4, <3>5 DEF Promised, Resolve
    <3>6. ASSUME NEW n \in Promised(p) PROVE n \in Names(p)
      BY <1>1, <2>5, <3>2, <3>3, <3>4, <3>6 DEF Promised, Resolve
    <3> QED
      BY <3>1, <3>5, <3>6
  <2> QED
    BY <2>4, <2>5
<1>2. CASE ~ Raw /\ Hybrid
  <2>1. Level(p).aliases = <<>> /\ Level(p).dto \intersect DOMAIN Level(p).computed = {}
    BY <1>2 DEF Hybrid, Supported
  <2>2. \A n : Resolve(p, n) = n
    BY <2>1 DEF Resolve
  <2>3. Names(p) = (Fields(p) \intersect ValuesFields(p)) \ Connector(p)
    BY <1>2 DEF Names, ValuesNames, Loaded
  <2>4. Lost(p) = Level(p).annotated \union Connector(p)
                    \union (IF p = Root /\ Selected(p) = None
                            THEN Level(p).foreign \ ({Pk} \union Keys(p)) ELSE {})
    BY <1>2 DEF Lost
  <2>5. \A n : n \in Promised(p) <=>
          /\ n \in Level(p).dto /\ (Selected(p) = None \/ n \in Selected(p))
          /\ n \in Level(p).columns \/ (n \in Level(p).annotated /\ Selected(p) # None)
    BY <1>2, <2>1, <2>2 DEF Promised
  <2>6. ASSUME NEW n \in Names(p) PROVE n \in Promised(p) /\ n \notin Lost(p)
    <3>1. n \in Fields(p) /\ n \in ValuesFields(p) /\ n \notin Connector(p)
      BY <2>3, <2>6
    <3>2. n \in Level(p).dto /\ (Selected(p) = None \/ n \in Selected(p))
      BY <3>1 DEF Fields
    <3>3. /\ n \in Level(p).columns
          /\ p = Root /\ Selected(p) = None => n \notin Level(p).foreign \ ({Pk} \union Keys(p))
      BY <3>1 DEF ValuesFields
    <3> QED
      BY <2>4, <2>5, <3>1, <3>2, <3>3
  <2>7. ASSUME NEW n \in Promised(p), n \notin Lost(p) PROVE n \in Names(p)
    <3>1. /\ n \in Level(p).dto /\ (Selected(p) = None \/ n \in Selected(p))
          /\ n \in Level(p).columns /\ n \notin Connector(p)
      BY <2>4, <2>5, <2>7
    <3>2. n \in Fields(p)
      BY <3>1 DEF Fields
    <3>3. n \in ValuesFields(p)
      BY <2>4, <2>7, <3>1 DEF ValuesFields
    <3> QED
      BY <2>3, <3>1, <3>2, <3>3
  <2> QED
    BY <2>6, <2>7
<1>3. CASE ~ Raw /\ ~ Hybrid
  <2>1. Names(p) = ModelNames(p)
    BY <1>3 DEF Names
  <2>2. Lost(p) = IF Joined(p) THEN Level(p).annotated \ DOMAIN Level(p).aliases ELSE {}
    BY <1>3 DEF Lost
  <2>3. Annotations(p) = IF Joined(p) \/ Selected(p) = None THEN {}
                         ELSE Level(p).annotated \intersect Selected(p)
    BY <1>3 DEF Annotations
  <2>4. \A n \in DOMAIN Level(p).aliases : Resolve(p, n) \in Level(p).columns \union DOMAIN Level(p).computed
    BY DEF Resolve
  <2>5. \A n : n \notin DOMAIN Level(p).aliases => Resolve(p, n) = n
    BY DEF Resolve
  <2>6. \A n : n \in Promised(p) <=>
          /\ n \in Level(p).dto /\ (Selected(p) = None \/ n \in Selected(p))
          /\ \/ Resolve(p, n) \in Level(p).columns \union DOMAIN Level(p).computed
             \/ n \in Level(p).annotated /\ Selected(p) # None
    BY <1>3 DEF Promised
  <2>7. \A n : n \in Names(p) <=>
          /\ n \in Level(p).dto /\ (Selected(p) = None \/ n \in Selected(p))
          /\ Resolve(p, n) \in Level(p).columns \union DOMAIN Level(p).computed \union Annotations(p)
    BY <2>1 DEF ModelNames, Fields
  <2>8. ASSUME NEW n \in Names(p) PROVE n \in Promised(p) /\ n \notin Lost(p)
    BY <2>2, <2>3, <2>4, <2>5, <2>6, <2>7, <2>8
  <2>9. ASSUME NEW n \in Promised(p), n \notin Lost(p) PROVE n \in Names(p)
    BY <2>2, <2>3, <2>4, <2>5, <2>6, <2>7, <2>9
  <2> QED
    BY <2>8, <2>9
<1> QED
  BY <1>1, <1>2, <1>3

\* At a whole level each column that the names need is in the query.
LEMMA WholeIsLoaded ==
  ASSUME ask \in Asks, Valid, NEW p \in Paths, Whole(p), NEW n \in Names(p)
  PROVE  Column(p, n) \in Level(p).columns => Column(p, n) \in Loaded(p)
<1> SUFFICES ASSUME Column(p, n) \in Level(p).columns PROVE Column(p, n) \in Loaded(p)
  OBVIOUS
<1> USE LevelFacts, SelectionFacts
<1> DEFINE c == Resolve(p, n)
<1>1. CASE ~ Joined(p) /\ ~ Hybrid /\ Selected(p) = None
  BY <1>1 DEF Loaded, ModelFields
<1>2. CASE ~ Joined(p) /\ ~ Hybrid /\ Selected(p) # None
  <2>1. n \in Selected(p)
    <3>1. CASE Raw
      BY <1>2, <3>1 DEF Raw, Names, RawNames
    <3>2. CASE ~ Raw
      BY <1>2, <3>2 DEF Names, ModelNames, Fields
    <3> QED
      BY <3>1, <3>2
  <2>2. c \notin DOMAIN Level(p).computed
    BY <1>2, <2>1 DEF Whole, Resolve
  <2>3. Column(p, n) = c
    BY <2>2 DEF Column
  <2> QED
    BY <1>2, <2>1, <2>3 DEF Loaded, ModelFields, SelectFields
<1>3. CASE Hybrid
  <2>1. ~ Raw
    BY <1>3 DEF Raw
  <2>2. n \in Level(p).dto /\ n \in Loaded(p)
    BY <1>3, <2>1 DEF Names, ValuesNames, Fields
  <2>3. Level(p).aliases = <<>> /\ Level(p).dto \intersect DOMAIN Level(p).computed = {}
    BY <1>3 DEF Hybrid, Supported
  <2>4. Column(p, n) = n
    BY <2>2, <2>3 DEF Column, Resolve
  <2> QED
    BY <2>2, <2>4
<1>4. CASE Joined(p) /\ ~ Hybrid
  <2>1. Loaded(p) = RelatedFields(p)
    BY <1>4 DEF Loaded, ModelFields
  <2>2. CASE Level(p).computed # <<>>
    BY <2>1, <2>2 DEF RelatedFields
  <2>3. CASE Level(p).computed = <<>>
    <3>1. Level(p).only = None /\ Level(p).aliases = <<>>
      BY <1>4, <2>3 DEF Whole
    <3>2. p # Root /\ ~ Raw
      BY <1>4 DEF Joined, Raw
    <3>3. n \in Level(p).dto
      BY <1>4, <3>2 DEF Names, ModelNames, Fields
    <3>4. Column(p, n) = n
      BY <2>3, <3>1 DEF Column, Resolve
    <3> QED
      BY <2>1, <2>3, <3>1, <3>3, <3>4 DEF RelatedFields
  <2> QED
    BY <2>2, <2>3
<1> QED
  BY <1>1, <1>2, <1>3, <1>4

\* No name is allowed to no one: what an object holds was wanted, and may be.
LEMMA NamesMayLeave ==
  ASSUME ask \in Asks, Valid, NEW p \in Paths, NEW n \in Names(p)
  PROVE  /\ Level(p).allowed # None => n \in Level(p).allowed
         /\ ask.select[p] # None => n \in ask.select[p] \/ "*" \in ask.select[p]
<1>1. Wanted(p, n)
  <2>1. n \in Promised(p)
    BY NamesAsPromised
  <2> QED
    BY <2>1 DEF Promised
<1> QED
  BY <1>1, SelectedIsAllowed

-----------------------------------------------------------------------------
(* The inductive invariant                                                 *)

\* Nothing is read when a request comes.
LEMMA InitIInv == Init => IInv
<1> SUFFICES ASSUME Init PROVE IInv
  OBVIOUS
<1>1. ask \in Asks
  BY DEF Init
<1>2. /\ stage = "received" /\ checked = None /\ answer = None /\ response = None
      /\ version = [p \in DOMAIN ask.levels |-> 0]
      /\ read = [p \in Paths |-> None]
      /\ late = [p \in Paths |-> <<>>]
  BY DEF Init
<1>3. \A p \in Paths : DOMAIN late[p] = {}
  BY <1>2
<1>4. TypeOK
  <2>1. version \in [DOMAIN ask.levels -> Versions] /\ checked \in Versions \union {None}
    BY <1>2, BoundAssumption DEF Versions
  <2> QED
    BY <1>2, <1>3, <2>1 DEF TypeOK
<1>5. StageOK /\ GrantedOK /\ AnswerAsPromised /\ OneMoment /\ OnlyWhatMayLeave
  BY <1>2 DEF StageOK, GrantedOK, AnswerAsPromised, OneMoment, OnlyWhatMayLeave
<1>6. LateOK
  BY <1>3 DEF LateOK
<1> QED
  BY <1>1, <1>4, <1>5, <1>6 DEF IInv

\* The answers given stay good while the request, what it read and they themselves stay.
LEMMA AnswersStay ==
  ASSUME UNCHANGED <<ask, read, answer, response>>
  PROVE  /\ AnswerAsPromised => AnswerAsPromised'
         /\ OneMoment => OneMoment'
         /\ OnlyWhatMayLeave => OnlyWhatMayLeave'
<1> USE SamePlan
<1>1. AnswerAsPromised => AnswerAsPromised'
  BY DEF AnswerAsPromised
<1>2. OneMoment => OneMoment'
  BY DEF OneMoment
<1>3. OnlyWhatMayLeave => OnlyWhatMayLeave'
  BY DEF OnlyWhatMayLeave
<1> QED
  BY <1>1, <1>2, <1>3

\* Without an answer there is nothing to show of it.
LEMMA NoAnswer ==
  ASSUME IInv, stage \notin {"projected", "done"}
  PROVE  answer = None /\ response = None
BY DEF IInv, StageOK

\* The query is validated.
LEMMA PrepareStep == ASSUME IInv, Prepare PROVE IInv'
<1>1. /\ ask' = ask /\ stage = "received" /\ stage' = (IF Valid THEN "loading" ELSE "rejected")
      /\ UNCHANGED <<ask, version, read, late, checked, answer, response>>
  BY DEF Prepare
<1>2. answer = None /\ response = None
  BY <1>1, NoAnswer
<1>3. TypeOK'
  BY <1>1, SamePlan DEF IInv, TypeOK, Level, Paths
<1>4. StageOK'
  BY <1>1, <1>2, SamePlan DEF StageOK
<1>5. LateOK'
  BY <1>1, SamePlan DEF IInv, LateOK
<1>6. GrantedOK'
  BY <1>1 DEF GrantedOK
<1> QED
  BY <1>1, <1>3, <1>4, <1>5, <1>6, AnswersStay DEF IInv

\* The query of the root raises.
LEMMA CrashStep == ASSUME IInv, Crash PROVE IInv'
<1>1. /\ stage = "loading" /\ stage' = "crashed"
      /\ UNCHANGED <<ask, version, read, late, checked, answer, response>>
  BY DEF Crash
<1>2. answer = None /\ response = None
  BY <1>1, NoAnswer
<1>3. TypeOK'
  BY <1>1, SamePlan DEF IInv, TypeOK, Level, Paths
<1>4. StageOK'
  BY <1>1, <1>2, SamePlan DEF IInv, StageOK
<1>5. LateOK'
  BY <1>1, SamePlan DEF IInv, LateOK
<1>6. GrantedOK'
  BY <1>1 DEF GrantedOK
<1> QED
  BY <1>1, <1>3, <1>4, <1>5, <1>6, AnswersStay DEF IInv

\* A query reads rows as they are, whatever the others had when they were read.
LEMMA QueryStep == ASSUME IInv, NEW p \in Paths, Query(p) PROVE IInv'
<1>1. /\ stage = "loading" /\ UNCHANGED <<ask, stage, version, late, checked, answer, response>>
      /\ read' = [q \in Paths |-> IF q = p \/ (q \in Below(p) /\ Joined(q)) THEN version[q] ELSE read[q]]
  BY DEF Query
<1>2. answer = None /\ response = None
  BY <1>1, NoAnswer
<1>3. \A q \in Paths : q \in DOMAIN ask.levels
  BY <1>1 DEF IInv, StageOK, Valid
<1>4. TypeOK'
  <2>1. TypeOK /\ version \in [DOMAIN ask.levels -> Versions] /\ read \in [Paths -> Versions \union {None}]
    BY DEF IInv, TypeOK
  <2>2. read' \in [Paths -> Versions \union {None}]
    BY <1>1, <1>3, <2>1
  <2> QED
    BY <1>1, <1>2, <2>1, <2>2, SamePlan DEF TypeOK, Versions
<1>5. StageOK'
  BY <1>1, <1>2, SamePlan DEF IInv, StageOK
<1>6. LateOK'
  BY <1>1, SamePlan DEF IInv, LateOK
<1>7. GrantedOK'
  BY <1>1 DEF GrantedOK
<1>8. AnswerAsPromised' /\ OneMoment' /\ OnlyWhatMayLeave'
  BY <1>1, <1>2 DEF AnswerAsPromised, OneMoment, OnlyWhatMayLeave
<1> QED
  BY <1>1, <1>4, <1>5, <1>6, <1>7, <1>8 DEF IInv

\* A deferred column is read.
LEMMA ReadLaterStep ==
  ASSUME IInv, NEW p \in Paths, NEW c, ReadLater(p, c) PROVE IInv'
<1>1. /\ UNCHANGED <<ask, stage, version, read, checked, answer, response>>
      /\ late' = [late EXCEPT ![p] = [x \in DOMAIN late[p] \union {c} |->
                                        IF x = c THEN version[p] ELSE late[p][x]]]
  BY DEF ReadLater
<1>2. c \in Level(p).columns /\ c \notin Loaded(p)
  BY DEF ReadLater, AtHand
<1>3. p \in DOMAIN ask.levels
  <2>1. stage \in {"loading", "projecting"}
    BY DEF ReadLater, Awaited
  <2> QED
    BY <2>1 DEF IInv, StageOK, Valid
<1>4. /\ DOMAIN late' = Paths
      /\ \A q \in Paths : q # p => late'[q] = late[q]
      /\ DOMAIN late'[p] = DOMAIN late[p] \union {c}
      /\ late'[p][c] = version[p]
      /\ \A x \in DOMAIN late[p] : x # c => late'[p][x] = late[p][x]
  <2>1. DOMAIN late = Paths
    BY DEF IInv, TypeOK
  <2> QED
    BY <1>1, <2>1
<1>5. TypeOK'
  <2>1. TypeOK /\ version[p] \in Versions
    BY <1>3 DEF IInv, TypeOK
  <2>2. \A q \in Paths : \A x \in DOMAIN late'[q] : x \in Level(q).columns /\ late'[q][x] \in Versions
    BY <1>2, <1>4, <2>1 DEF TypeOK
  <2> QED
    <3>1. Paths' = Paths /\ Versions' = Versions /\ \A q : Level(q)' = Level(q)
      BY <1>1, SamePlan DEF Versions
    <3>2. DOMAIN late' = Paths'
      BY <1>4, <3>1
    <3>3. \A q \in Paths' : \A x \in DOMAIN late'[q] : (x \in Level(q).columns)' /\ late'[q][x] \in Versions'
      BY <2>2, <3>1
    <3> QED
      BY <1>1, <2>1, <3>1, <3>2, <3>3 DEF TypeOK
<1>6. StageOK'
  BY <1>1, SamePlan DEF IInv, StageOK, Versions
<1>7. LateOK'
  BY <1>1, <1>2, <1>4, SamePlan DEF IInv, LateOK
<1>8. GrantedOK'
  BY <1>1, SamePlan DEF IInv, GrantedOK
<1> QED
  BY <1>1, <1>5, <1>6, <1>7, <1>8, AnswersStay DEF IInv

\* All is loaded.
LEMMA EndLoadingStep == ASSUME IInv, EndLoading PROVE IInv'
<1>1. /\ stage = "loading" /\ UNCHANGED <<ask, version, read, late, checked, answer, response>>
      /\ stage' = (IF ask.route = "retrieve" THEN "checking" ELSE "projecting")
  BY DEF EndLoading
<1>2. answer = None /\ response = None
  BY <1>1, NoAnswer
<1>3. \A p \in Paths : read[p] # None
  BY DEF EndLoading, AllAtHand
<1>4. TypeOK'
  BY <1>1, <1>3, SamePlan DEF IInv, TypeOK, Versions
<1>5. StageOK'
  BY <1>1, <1>2, SamePlan DEF IInv, StageOK
<1>6. LateOK'
  BY <1>1, SamePlan DEF IInv, LateOK
<1>7. GrantedOK'
  BY <1>1 DEF GrantedOK
<1> QED
  BY <1>1, <1>4, <1>5, <1>6, <1>7, AnswersStay DEF IInv

\* The permission looks at the owner, in the row that was read or in the row as it is now.
LEMMA CheckStep == ASSUME IInv, CheckPermission PROVE IInv'
<1>1. /\ stage = "checking" /\ UNCHANGED <<ask, version, read, answer, response>>
      /\ checked' = OwnerSeen
      /\ late' = IF Owner \in Loaded(Root) THEN late
                 ELSE [late EXCEPT ![Root] = [c \in {Owner} |-> OwnerSeen]]
      /\ stage' = (IF OwnerSeen \in ask.granted THEN "projecting" ELSE "forbidden")
  BY DEF CheckPermission
<1>2. answer = None /\ response = None
  BY <1>1, NoAnswer
<1>3. /\ Root \in Paths /\ Root \in DOMAIN ask.levels /\ Valid /\ ask \in Asks
      /\ Owner \in Level(Root).columns
  <2>1. Valid /\ ask \in Asks
    BY <1>1 DEF IInv, StageOK
  <2>2. Root \in Paths
    BY <2>1, AskAssumption DEF Paths
  <2> QED
    BY <2>1, <2>2, LevelFacts DEF Valid
<1>4. TypeOK /\ OwnerSeen \in Versions
  BY <1>1, <1>3 DEF IInv, TypeOK, OwnerSeen
<1>5. /\ DOMAIN late' = Paths
      /\ \A q \in Paths : \A c \in DOMAIN late'[q] :
           (c \in DOMAIN late[q] /\ late'[q][c] = late[q][c])
             \/ (q = Root /\ c = Owner /\ late'[q][c] = OwnerSeen /\ Owner \notin Loaded(Root))
  <2>1. DOMAIN late = Paths
    BY <1>4 DEF TypeOK
  <2>2. CASE Owner \in Loaded(Root)
    BY <1>1, <2>1, <2>2
  <2>3. CASE Owner \notin Loaded(Root)
    BY <1>1, <1>3, <2>1, <2>3
  <2> QED
    BY <2>2, <2>3
<1>6. TypeOK'
  <2>1. \A q \in Paths : \A c \in DOMAIN late'[q] : c \in Level(q).columns /\ late'[q][c] \in Versions
    BY <1>3, <1>4, <1>5 DEF TypeOK
  <2> QED
    BY <1>1, <1>4, <1>5, <2>1, SamePlan DEF TypeOK, Versions
<1>7. StageOK'
  BY <1>1, <1>2, <1>3, SamePlan DEF StageOK
<1>8. LateOK'
  BY <1>1, <1>5, SamePlan DEF IInv, LateOK
<1>9. GrantedOK'
  BY <1>1, SamePlan DEF GrantedOK, OwnerSeen
<1> QED
  BY <1>1, <1>6, <1>7, <1>8, <1>9, AnswersStay DEF IInv

\* The objects of the answer are made.
LEMMA ProjectStep == ASSUME IInv, Project PROVE IInv'
<1>1. /\ stage = "projecting" /\ UNCHANGED <<ask, version, read, late, checked, response>>
      /\ answer' = [p \in Paths |-> [n \in Names(p) |-> ReadAt(p, Column(p, n))]]
      /\ stage' = (IF ask.route \in {"list", "retrieve"} THEN "projected" ELSE "done")
  BY DEF Project
<1>2. answer = None /\ response = None /\ ask \in Asks /\ TypeOK /\ Valid /\ LateOK
  BY <1>1, NoAnswer DEF IInv, StageOK
<1>3. /\ DOMAIN answer' = Paths
      /\ \A p \in Paths : /\ DOMAIN answer'[p] = Names(p)
                          /\ \A n \in Names(p) : answer'[p][n] = ReadAt(p, Column(p, n))
  BY <1>1
<1>4. \A p \in Paths : read[p] \in Versions /\ \A c \in DOMAIN late[p] : late[p][c] \in Versions
  BY <1>1, <1>2 DEF TypeOK
<1>5. \A p \in Paths : \A n \in DOMAIN answer'[p] : answer'[p][n] \in Versions
  BY <1>3, <1>4 DEF ReadAt
<1>6. TypeOK' /\ StageOK'
  BY <1>1, <1>2, <1>3, <1>5, SamePlan DEF TypeOK, StageOK, Versions
<1>7. LateOK'
  BY <1>1, <1>2, SamePlan DEF LateOK
<1>8. GrantedOK'
  BY <1>1, SamePlan DEF IInv, GrantedOK
<1>9. AnswerAsPromised'
  BY <1>1, <1>2, <1>3, NamesAsPromised, SamePlan DEF AnswerAsPromised
<1>10. OneMoment'
  <2> SUFFICES ASSUME NEW p \in Paths, Whole(p), NEW n \in Names(p)
               PROVE  ReadAt(p, Column(p, n)) = read[p]
    BY <1>1, <1>3, SamePlan DEF OneMoment
  <2>1. Column(p, n) \notin DOMAIN late[p]
    BY <1>2, WholeIsLoaded DEF LateOK, TypeOK
  <2> QED
    BY <2>1 DEF ReadAt
<1>11. OnlyWhatMayLeave'
  BY <1>1, <1>2, <1>3, NamesMayLeave, SamePlan DEF OnlyWhatMayLeave
<1> QED
  BY <1>1, <1>2, <1>6, <1>7, <1>8, <1>9, <1>10, <1>11 DEF IInv

\* The serializers leave names out.
LEMMA SerializeStep == ASSUME IInv, Serialize PROVE IInv'
<1>1. /\ stage = "projected" /\ stage' = "done"
      /\ UNCHANGED <<ask, version, read, late, checked, answer>>
      /\ response' = [p \in Paths |-> [n \in DOMAIN answer[p] \ Withheld(p) |-> answer[p][n]]]
  BY DEF Serialize
<1>2. TypeOK /\ StageOK /\ Valid
  BY <1>1 DEF IInv, StageOK
<1>3. /\ DOMAIN response' = Paths
      /\ \A p \in Paths : /\ DOMAIN response'[p] = DOMAIN answer[p] \ Withheld(p)
                          /\ \A n \in DOMAIN response'[p] : response'[p][n] = answer[p][n]
  BY <1>1
<1>4. TypeOK'
  <2>1. \A p \in Paths : \A n \in DOMAIN response'[p] : response'[p][n] \in Versions
    BY <1>1, <1>2, <1>3 DEF StageOK
  <2> QED
    BY <1>1, <1>2, <1>3, <2>1, SamePlan DEF TypeOK, Versions
<1>5. StageOK'
  BY <1>1, <1>2, SamePlan DEF StageOK
<1>6. LateOK'
  BY <1>1, SamePlan DEF IInv, LateOK
<1>7. GrantedOK'
  BY <1>1, SamePlan DEF IInv, GrantedOK
<1>8. AnswerAsPromised'
  BY <1>1, SamePlan DEF IInv, AnswerAsPromised
<1>9. OneMoment'
  BY <1>1, SamePlan DEF IInv, OneMoment
<1>10. OnlyWhatMayLeave'
  BY <1>1, <1>3, SamePlan DEF IInv, OnlyWhatMayLeave, Withheld
<1> QED
  BY <1>1, <1>4, <1>5, <1>6, <1>7, <1>8, <1>9, <1>10 DEF IInv

\* Another transaction writes a row, which changes nothing that was read.
LEMMA WriteStep == ASSUME IInv, NEW p \in DOMAIN version, Write(p) PROVE IInv'
<1>1. /\ UNCHANGED <<ask, stage, read, late, checked, answer, response>>
      /\ version[p] < MaxVersion
      /\ version' = [version EXCEPT ![p] = @ + 1]
  BY DEF Write
<1>2. TypeOK'
  <2>1. TypeOK /\ version \in [DOMAIN ask.levels -> Versions]
    BY DEF IInv, TypeOK
  <2>2. version' \in [DOMAIN ask.levels -> Versions]
    BY <1>1, <2>1, BoundAssumption DEF Versions
  <2> QED
    BY <1>1, <2>1, <2>2, SamePlan DEF TypeOK, Versions
<1>3. StageOK' /\ LateOK' /\ GrantedOK'
  BY <1>1, SamePlan DEF IInv, StageOK, LateOK, GrantedOK
<1> QED
  BY <1>1, <1>2, <1>3, AnswersStay DEF IInv

\* The invariant holds in every reachable state.
THEOREM Inductive == Spec => []IInv
<1>1. ASSUME IInv, [Next]_vars PROVE IInv'
  <2>1. CASE Service
    BY <1>1, <2>1, PrepareStep, CrashStep, QueryStep, ReadLaterStep, EndLoadingStep, CheckStep, ProjectStep,
       SerializeStep DEF Service
  <2>2. CASE \E p \in DOMAIN version : Write(p)
    BY <1>1, <2>2, WriteStep
  <2>3. CASE UNCHANGED vars
    <3>1. UNCHANGED <<ask, stage, version, read, late, checked, answer, response>>
      BY <2>3 DEF vars
    <3>2. TypeOK' /\ StageOK' /\ LateOK' /\ GrantedOK'
      BY <1>1, <3>1, SamePlan DEF IInv, TypeOK, Versions, StageOK, LateOK, GrantedOK
    <3> QED
      BY <1>1, <3>1, <3>2, AnswersStay DEF IInv
  <2> QED
    BY <1>1, <2>1, <2>2, <2>3 DEF Next
<1> QED
  BY <1>1, InitIInv, PTL DEF Spec

-----------------------------------------------------------------------------
(* The properties                                                          *)

\* Whatever is loaded was loaded before it is projected, and values are versions of rows.
THEOREM TypeCorrect == Spec => []TypeOK
<1>1. IInv => TypeOK
  BY DEF IInv
<1> QED
  BY <1>1, Inductive, PTL

\* Whichever way the rows are loaded, an object has the names that were asked for, with
\* the exceptions of Lost and no other.
THEOREM AnswersArePromised == Spec => []AnswerAsPromised
<1>1. IInv => AnswerAsPromised
  BY DEF IInv
<1> QED
  BY <1>1, Inductive, PTL

\* Whoever writes between the queries, the values of an object whose columns are all in
\* its query are those of one version of its row.
THEOREM ObjectsAreWhole == Spec => []OneMoment
<1>1. IInv => OneMoment
  BY DEF IInv
<1> QED
  BY <1>1, Inductive, PTL

\* retrieve() shows the version the permission was given for, when the column that the
\* permission looks at is asked for.
THEOREM ShownAsChecked == Spec => []CheckedAsShown
<1>1. IInv => CheckedAsShown
  <2> SUFFICES ASSUME IInv, ask.route = "retrieve", answer # None, Whole(Root), OwnerWanted,
                      NEW n \in DOMAIN answer[Root]
               PROVE  answer[Root][n] \in ask.granted
    BY DEF CheckedAsShown
  <2>1. /\ stage \in {"projected", "done"} /\ Valid /\ ask \in Asks
        /\ OneMoment /\ GrantedOK
    BY DEF IInv, StageOK
  <2>2. Root \in Paths
    BY <2>1, AskAssumption DEF Paths
  <2>3. answer[Root][n] = read[Root]
    BY <2>1, <2>2 DEF OneMoment
  <2>4. ~ Hybrid /\ ~ Joined(Root) /\ Owner \in Level(Root).columns
    BY <2>1, <2>2, LevelFacts DEF Hybrid, Joined
  <2>5. Owner \in Loaded(Root)
    <3>1. PICK m : Resolve(Root, m) = Owner /\ Wanted(Root, m)
      BY DEF OwnerWanted
    <3>2. CASE Selected(Root) = None
      BY <2>4, <3>2 DEF Loaded, ModelFields
    <3>3. CASE Selected(Root) # None
      <4>1. m \in Selected(Root)
        BY <3>1, <3>3, SelectionFacts
      <4> QED
        BY <2>4, <3>1, <3>3, <4>1 DEF Loaded, ModelFields, SelectFields
    <3> QED
      BY <3>2, <3>3
  <2> QED
    BY <2>1, <2>3, <2>5 DEF GrantedOK
<1> QED
  BY <1>1, Inductive, PTL

\* Nothing that is not allowed or not selected is in an answer, at any depth, and no name
\* that the serializers exclude is in a response.
THEOREM NothingElseLeaves == Spec => []OnlyWhatMayLeave
<1>1. IInv => OnlyWhatMayLeave
  BY DEF IInv
<1> QED
  BY <1>1, Inductive, PTL

=============================================================================
