--------------------------- MODULE ApplyPipeline ----------------------------
(***************************************************************************)
(* $apply: a pipeline of filter, groupby and aggregate.  The parser makes  *)
(* a list of stages of it, the executor changes one query stage by stage,  *)
(* and the database answers the query that remains.  A client reads the    *)
(* pipeline as steps, each of which works on the rows the one before it    *)
(* answers; the query has one WHERE, one GROUP BY and one HAVING for all   *)
(* of them.                                                                *)
(***************************************************************************)
EXTENDS Integers, Sequences, FiniteSetsExt, SequencesExt

CONSTANTS
  Columns,    \* the columns of the model
  Tables,     \* the rows in the order of the collection, as functions of the columns
  Configs,    \* the settings of the selector
  Pipelines,  \* the texts of $apply, as sequences of transformations
  Calls,      \* the calls of the selector, with or without other options beside $apply
  None

(***************************************************************************)
(* A transformation is one of                                              *)
(*   [kind |-> "filter", name, values]   the value of the name is one of   *)
(*                                       the values                        *)
(*   [kind |-> "groupby", fields, aggregate]                               *)
(*   [kind |-> "aggregate", fields, aggregate]   without fields            *)
(*   [kind |-> "other"]                  anything else                     *)
(* where aggregate is a sequence of [source, method, alias], or None.  The *)
(* settings of a selector are                                              *)
(*   allowed      allowed_fields                                           *)
(*   filterable   filterable_fields                                        *)
(*   unfiltered   non_filterable_fields                                    *)
(*   aliases      field_aliases                                            *)
(*   annotations  field_annotations, each as a function of the row         *)
(*   functions    apply_functions, each as a function of the row           *)
(*   methods      the names of apply_aggregates                            *)
(*   ordering     the column of Meta.ordering of the model                 *)
(*   limit        the limit of a collection nobody asked a limit for       *)
(***************************************************************************)
Standard == {"sum", "min", "max", "countdistinct", "count"}

VARIABLES
  table, config, pipeline, call,
  done,     \* how many stages are in the query
  query,    \* the query
  stage,    \* "received", "applying", "answered", "refused" or "crashed"
  answer    \* for each row answered, how often it comes

vars == <<table, config, pipeline, call, done, query, stage, answer>>
input == <<table, config, pipeline, call>>

\* A query: the conditions of WHERE and of HAVING, what is annotated besides the columns,
\* GROUP BY, and then what values() shows and whether rows are distinct
NoQuery == [where |-> {}, having |-> {}, annotated |-> {}, aliases |-> <<>>,
            by |-> {}, shown |-> None, aggregates |-> {}, distinct |-> FALSE]

Specs(t) == IF t.aggregate = None THEN {} ELSE ToSet(t.aggregate)
\* One of each alias: the last
Named(t) ==
  IF t.aggregate = None THEN {}
  ELSE {t.aggregate[k] : k \in {k \in DOMAIN t.aggregate :
          \A l \in DOMAIN t.aggregate : l > k => t.aggregate[l].alias # t.aggregate[k].alias}}

ASSUME ConfigAssumption ==
  \A c \in Configs :
    /\ \A names \in {DOMAIN c.aliases, DOMAIN c.annotations, DOMAIN c.functions} :
         names \intersect Columns = {}
    /\ (DOMAIN c.annotations) \intersect (DOMAIN c.functions) = {}
    /\ (DOMAIN c.aliases) \intersect (DOMAIN c.annotations \union DOMAIN c.functions) = {}
    /\ \A n \in DOMAIN c.aliases : c.aliases[n] \in Columns
    /\ c.ordering \in Columns \union {None}
    /\ c.limit \in Nat
\* What Django makes of aggregate() over a query that is grouped, of groups by the alias of
\* an aggregate, and of an aggregate whose source is the alias of another, is not modelled
ASSUME PipelineAssumption ==
  \A p \in Pipelines :
    /\ Len(p) \in Nat /\ DOMAIN p = 1 .. Len(p)
    /\ \A k \in DOMAIN p :
         /\ p[k].kind = "aggregate" => /\ p[k].fields = {} /\ p[k].aggregate # None
                                       /\ \A j \in 1 .. k - 1 : p[j].kind # "groupby"
         /\ p[k].kind = "groupby" =>
              /\ p[k].fields # None
              /\ \A j \in 1 .. k - 1 : p[j].kind = "groupby" =>
                   \A s \in Specs(p[j]) : s.alias \notin p[k].fields
         /\ p[k].kind \in {"groupby", "aggregate"} =>
              /\ p[k].aggregate # None => DOMAIN p[k].aggregate \subseteq Nat
              /\ \A s, t \in Specs(p[k]) : s.source # t.alias

-----------------------------------------------------------------------------
(* The parser and the checks of the selector                               *)

\* parse_apply: groupby needs fields, and an aggregate clause is not empty
Parses ==
  /\ pipeline # <<>>
  /\ \A k \in DOMAIN pipeline :
       LET t == pipeline[k]
       IN  \/ t.kind = "filter"
           \/ t.kind = "groupby" /\ t.fields # {} /\ t.aggregate # <<>>
           \/ t.kind = "aggregate" /\ t.aggregate # <<>>

\* Only query_as_dicts() takes $apply, and no other option beside it
Takes == call.method = "query_as_dicts" /\ ~ call.combined

\* f where it is defined, g elsewhere
Joined(f, g) == [x \in DOMAIN f \union DOMAIN g |-> IF x \in DOMAIN f THEN f[x] ELSE g[x]]

Resolve(n) == IF n \in DOMAIN config.aliases THEN config.aliases[n] ELSE n

\* ensure_field_annotations, for which the alias of an aggregate is an annotation that is
\* there; one that comes after values() is shown, and with aggregates it is grouped by
Ensure(q, names) ==
  LET new == (names \intersect DOMAIN config.annotations) \ (q.annotated \union DOMAIN q.aliases)
  IN  [q EXCEPT !.annotated = @ \union new,
                !.shown = IF @ = None THEN None ELSE @ \union new]

\* What a name may stand for in the database
Known(q, n) == n \in Columns \union q.annotated

-----------------------------------------------------------------------------
(* The stages                                                              *)
(* Definitions called "Slip" are wrong on purpose: each is the definition  *)
(* it is named for with a mistake the properties must notice.              *)

\* _validate_field for the names of a filter
MayFilter(q, n) ==
  LET column == Resolve(n)
  IN  /\ IF config.filterable # None
         THEN column \in {Resolve(f) : f \in config.filterable}
         ELSE column \notin {Resolve(f) : f \in config.unfiltered}
      /\ IF config.allowed # None
         THEN n \in config.allowed
         ELSE Known(q, column) \/ column \in DOMAIN q.aliases

\* queryset.filter(): a condition on an aggregate goes to HAVING, any other to WHERE
WithCondition(q, t) ==
  LET column == Resolve(t.name)
  IN  IF column \in DOMAIN q.aliases
      THEN [q EXCEPT !.having = @ \union {[spec |-> q.aliases[column], values |-> t.values]}]
      ELSE [q EXCEPT !.where = @ \union {[name |-> column, values |-> t.values]}]

Filter(t) ==
  LET q == Ensure(query, {t.name})
  IN  /\ t.kind = "filter"
      /\ IF ~ MayFilter(q, t.name)
         THEN stage' = "refused" /\ UNCHANGED <<done, query>>
         ELSE IF ~ Known(q, Resolve(t.name)) /\ Resolve(t.name) \notin DOMAIN q.aliases
         THEN stage' = "crashed" /\ UNCHANGED <<done, query>>
         ELSE query' = WithCondition(q, t) /\ done' = done + 1 /\ UNCHANGED stage
      /\ UNCHANGED <<input, answer>>

\* A bare aggregate() ends the pipeline
SlipMisplaced(t) == FALSE
Misplaced(t) == t.fields = {} /\ done + 1 < Len(pipeline)

\* _resolve_aggregate
Resolves(s) ==
  /\ s.method \in Standard \union config.methods
  /\ s.method \notin {"count", "countdistinct"} => s.source # None

\* The fields and sources that _apply_groupby lets through
MayGroup(t) ==
  config.allowed # None =>
    /\ t.fields \subseteq config.allowed \union DOMAIN config.functions
    /\ \A s \in Specs(t) : s.source # None => s.source \in config.allowed

\* What annotate() gives the groups before values()
Computed(t) == t.fields \intersect (DOMAIN config.functions \union DOMAIN config.aliases)

\* The query with everything its groups and aggregates refer to
Prepared(t) ==
  LET q == Ensure(query, (t.fields \ DOMAIN config.functions)
                           \union ({s.source : s \in Specs(t)} \ {None}))
  IN  [q EXCEPT !.annotated = @ \union Computed(t)]

\* What Django makes of the groups: annotate() takes no name that values() shows, and
\* values() none it does not know
Groupable(q, t) ==
  /\ q.shown # None => Computed(t) \intersect q.shown = {}
  /\ \A f \in t.fields : Known(q, f)

\* and of the aggregates it is given, the last of each alias: no unknown names, nor an alias
\* that is the name of a field
Sound(q, t) ==
  /\ \A s \in Named(t) : s.source # None /\ s.method # "count" => Known(q, Resolve(s.source))
  /\ \A s \in Named(t) : s.alias \notin t.fields

\* values() and then annotate() or distinct()
Grouped(q, t) ==
  IF t.aggregate = None
  THEN [q EXCEPT !.shown = t.fields, !.aggregates = {}, !.distinct = TRUE]
  ELSE [q EXCEPT !.shown = t.fields, !.by = t.fields, !.aggregates = Named(t),
                 !.aliases = Joined([a \in {s.alias : s \in Named(t)} |->
                                       CHOOSE s \in Named(t) : s.alias = a], @)]

-----------------------------------------------------------------------------
(* The database                                                            *)

Value(n, i) ==
  IF n \in Columns THEN table[i][n]
  ELSE IF n \in DOMAIN config.aliases THEN table[i][config.aliases[n]]
  ELSE IF n \in DOMAIN config.annotations THEN config.annotations[n][table[i]]
  ELSE config.functions[n][table[i]]

\* An aggregate of a set of rows, given the values of its source
Aggregate(s, rows, values) ==
  LET all == {values[i] : i \in rows}
  IN  CASE s.method = "count" -> Cardinality(rows)
        [] s.method = "countdistinct" ->
             IF s.source = None THEN Cardinality(rows) ELSE Cardinality(all)
        [] rows = {} -> None
        [] s.method = "sum" -> MapThenSumSet(LAMBDA i : values[i], rows)
        [] s.method = "min" -> Min(all)
        [] OTHER -> Max(all)
\* Rows are counted by their primary key
Counting(s) == s.source = None \/ s.method = "count"
Of(s, rows) ==
  Aggregate(s, rows, [i \in rows |-> IF Counting(s) THEN i ELSE Value(Resolve(s.source), i)])
Aggregates(specs, rows) ==
  [a \in {s.alias : s \in specs} |-> Of(CHOOSE s \in specs : s.alias = a, rows)]

Chosen(q) == {i \in DOMAIN table : \A c \in q.where : Value(c.name, i) \in c.values}

\* Rows are told apart by all the columns of SELECT and GROUP BY.  Distinct rows of a model
\* with an ordering select the column they are ordered by as well.
Ordering(q) == IF q.distinct /\ config.ordering # None THEN {config.ordering} ELSE {}
Tally(s, f) == [r \in {f[x] : x \in s} |-> Cardinality({x \in s : f[x] = r})]

Selected(q) == q.by \union q.shown \union Ordering(q)
Key(names, i) == [n \in names |-> Value(n, i)]
Members(q, key) == {i \in Chosen(q) : Key(Selected(q), i) = key}
Passing(q) ==
  {key \in {Key(Selected(q), i) : i \in Chosen(q)} :
     \A c \in q.having : Of(c.spec, Members(q, key)) \in c.values}
Line(q, key) ==
  [key |-> Restrict(key, IF q.distinct THEN q.shown \union Ordering(q) ELSE Selected(q)),
   sums |-> Aggregates(q.aggregates, Members(q, key))]
Groups(q) ==
  LET lines == {Line(q, key) : key \in Passing(q)}
  IN  Tally(lines, [l \in lines |-> Joined(Restrict(l.key, q.shown), l.sums)])

\* aggregate(): one row
SlipSummary(q, specs) ==
  LET rows == {Aggregates(specs, {i}) : i \in Chosen(q)} IN Tally(rows, [r \in rows |-> r])
Summary(q, specs) == LET row == Aggregates(specs, Chosen(q)) IN Tally({row}, [r \in {row} |-> r])

\* Rows nobody grouped are materialized like any collection, up to the limit
Whole(rows) ==
  LET first == {i \in rows : Cardinality({j \in rows : j <= i}) <= config.limit}
  IN  Tally(first, table)

-----------------------------------------------------------------------------
GroupBy(t) ==
  LET q == Prepared(t)
  IN  /\ t.kind \in {"groupby", "aggregate"}
      /\ IF Misplaced(t) \/ ~ MayGroup(t)
         THEN stage' = "refused" /\ UNCHANGED <<done, query, answer>>
         ELSE IF ~ Groupable(q, t)
         THEN stage' = "crashed" /\ UNCHANGED <<done, query, answer>>
         ELSE IF \E s \in Specs(t) : ~ Resolves(s)
         THEN stage' = "refused" /\ UNCHANGED <<done, query, answer>>
         ELSE IF ~ Sound(q, t)
         THEN stage' = "crashed" /\ UNCHANGED <<done, query, answer>>
         ELSE IF t.fields = {}
         THEN /\ stage' = "answered" /\ done' = done + 1
              /\ answer' = Summary(q, Named(t)) /\ UNCHANGED query
         ELSE query' = Grouped(q, t) /\ done' = done + 1 /\ UNCHANGED <<stage, answer>>
      /\ UNCHANGED input

Init ==
  /\ table \in Tables /\ config \in Configs /\ pipeline \in Pipelines /\ call \in Calls
  /\ done = 0
  /\ query = NoQuery
  /\ stage = "received"
  /\ answer = None

Parse ==
  /\ stage = "received"
  /\ stage' = IF Parses /\ Takes THEN "applying" ELSE "refused"
  /\ UNCHANGED <<input, done, query, answer>>

Apply ==
  /\ stage = "applying" /\ done < Len(pipeline)
  /\ Filter(pipeline[done + 1]) \/ GroupBy(pipeline[done + 1])

\* query_as_dicts() lists the query that apply_to_queryset() returns
Answer ==
  /\ stage = "applying" /\ done = Len(pipeline)
  /\ answer' = IF query.shown = None THEN Whole(Chosen(query)) ELSE Groups(query)
  /\ stage' = "answered"
  /\ UNCHANGED <<input, done, query>>

Next == Parse \/ Apply \/ Answer

Spec == Init /\ [][Next]_vars

-----------------------------------------------------------------------------
(* Correctness                                                             *)

\* The type invariant: the query refers to what it has, and every stage is in the answer
TypeOK ==
  /\ done \in 0 .. Len(pipeline)
  /\ stage \in {"received", "applying", "answered", "refused", "crashed"}
  /\ \A c \in query.where : Known(query, c.name)
  /\ query.by \subseteq Columns \union query.annotated
  /\ query.shown # None => query.shown \subseteq Columns \union query.annotated
  /\ \A s \in query.aggregates : query.aliases[s.alias] = s
  /\ stage = "answered" => done = Len(pipeline)
  /\ stage # "answered" => answer = None

(* What a pipeline means: every transformation makes rows of the rows      *)
(* before it.                                                              *)

Names == Columns \union DOMAIN config.aliases \union DOMAIN config.annotations
           \union DOMAIN config.functions
Base == {[id |-> i, row |-> [n \in Names |-> Value(n, i)]] : i \in DOMAIN table}
Combined(s, rows) ==
  Aggregate(s, {x.id : x \in rows},
            [i \in {x.id : x \in rows} |->
               IF Counting(s) THEN i ELSE (CHOOSE x \in rows : x.id = i).row[s.source]])
Alike(rows, t, key) == {x \in rows : Restrict(x.row, t.fields) = key}
Group(rows, t, key) ==
  [id |-> key,
   row |-> Joined(key, [a \in {s.alias : s \in Named(t)} |->
                          Combined(CHOOSE s \in Named(t) : s.alias = a, Alike(rows, t, key))])]
\* without groupby there is one group, of no rows too
GroupKeys(rows, t) == IF t.fields = {} THEN {<<>>} ELSE {Restrict(x.row, t.fields) : x \in rows}
Transformed(rows, t) ==
  IF t.kind = "filter" THEN {x \in rows : x.row[t.name] \in t.values}
  ELSE {Group(rows, t, key) : key \in GroupKeys(rows, t)}
\* the rows after each transformation
After(base, stages) ==
  LET rows[k \in 0 .. Len(stages)] ==
        IF k = 0 THEN base ELSE Transformed(rows[k - 1], stages[k])
  IN  rows
Meant == After(Base, pipeline)[Len(pipeline)]

\* At most one stage groups, what comes after it filters what it answers, there are
\* aggregates or no Meta.ordering, and an aggregate is not called like an alias of the
\* selector or its column, which a filter takes for each other
Grouping == {k \in DOMAIN pipeline : pipeline[k].kind \in {"groupby", "aggregate"}}
Aliased == DOMAIN config.aliases \union {config.aliases[n] : n \in DOMAIN config.aliases}
Regular ==
  /\ \A g, h \in Grouping : g = h
  /\ \A g \in Grouping :
       /\ pipeline[g].aggregate = None => config.ordering = None
       /\ \A s \in Named(pipeline[g]) : s.alias \notin Aliased
       /\ \A k \in g + 1 .. Len(pipeline) :
            pipeline[k].name \in pipeline[g].fields \union {s.alias : s \in Named(pipeline[g])}

\* "an ordered list of transformations chained with '/'" (src/fc_selector/core/ast/nodes.py:778):
\* the one query answers what the stages answer one after the other, with filters before
\* and after the groups, and with names that are columns, aliases, annotations or functions.
StagesInOrder ==
  stage = "answered" /\ Regular =>
    answer = IF Grouping = {} THEN Whole({x.id : x \in Meant})
             ELSE Tally(Meant, [x \in Meant |-> x.row])

=============================================================================
