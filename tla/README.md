# fc-selector: models, model checks and proofs

`fc-selector` turns a query (an OData query string, or the same query built fluently) into a
`QueryIntent`, runs the intent on a Django `QuerySet` within the limits of a selector, and gives
back DTOs, dictionaries or an OData page over HTTP. This directory holds TLA+ modules of its
parts, the instances TLC checks, and the theorems TLAPS proves about them. Paths are relative to
the repository; the modules name functions as the code does.

1. [The system](#the-system)
2. [Modules and code](#modules-and-code)
3. [Runs](#runs)
4. [Fairness](#fairness)
5. [Proofs](#proofs)
6. [Where the code and its documentation disagree](#where-the-code-and-its-documentation-disagree)
7. [What is not modelled](#what-is-not-modelled)
8. [Plan](#plan)

Run everything here with `tlc -config X.cfg MCModule.tla` and `tlapm Module_proofs.tla`.

## The system

```
 query string ─► parsers ─► QueryIntent ─► selector ─► DjangoExecutor ─► QuerySet
 QueryBuilder ──────────────────┘            │            │  ├─ filter visitor ─► Q
                                             │            │  ├─ field annotations
 HTTP ─► list()/retrieve() ──────────────────┘            │  └─ $apply stages
                 ▲                                        ▼
                 └── DTO serializer ◄── projection ◄── rows: prefetch or hybrid values
```

| Component | State it keeps | Operations | Correct when |
|---|---|---|---|
| List endpoint (`drf/viewsets/selector_mixin.py`) | none: everything is in the query string and the link | `list`, `build_odata_response`, `retrieve` | following links returns the scope once, in order, ends, and never meets an error of the service's own making |
| Selector (`django/selector/odata_selector.py`) | its `Meta` | `query_as_dtos`, `count`, `get_one`, `get_many`, `$apply` | every collection read is bounded |
| Executor (`django/executor.py`) | the registered annotations of a queryset | `prepare`, `execute`, `ensure_field_annotations`, prefetches | validation comes before any query; an annotation is added after what it depends on |
| Hybrid builder (`django/hybrid_values_builder.py`) | rows, keys and children in memory between queries | root query, reverse and many-to-many attachment, recursion | it answers what the prefetch path answers |
| `QueryBuilder` (`core/query_builder.py`) | six slots, text or AST | `filter`, `where`, `and_/or_…`, `expand`, …, `build`, export | the meaning of the calls is kept and nothing is shared with the caller |
| TypedDict generation (`core/dtos/typed_dicts.py`, `base.py`) | a cache in each class, a process-wide set | `__td__`, `generate_typeddict` | the result mirrors the class; nothing stays marked; it ends |
| Filter AST, lexer, grammar, rewriting, visitor | none | parse, rewrite, translate to `Q` | the ORM filter means what the text says, nulls and lambdas included |
| `$apply` pipeline (`django/query/apply_executor.py`) | the queryset from stage to stage | `filter`, `groupby`, `aggregate` | one query answers what the stages answer one after the other |
| Projection, DTO serializer (`core/dtos/base.py`, `django/projection.py`, `drf/serializers/`) | loaded instances with deferred columns; type hints cached by class | `from_object`, `from_dict`, `to_dict`, serialization | only allowed fields leave, the same ones on every loading path, all of one moment |
| Parsers of `$select`, `$orderby`, `$expand` | none | scan | separators inside parentheses and strings do not split |
| Exceptions, metadata and OpenAPI views, example application | none | formatting | text |

How they interact. One HTTP request makes one call of the selector, which makes one call of the
executor; the list endpoint makes a second one to count. Between the queries of a request, other
transactions commit: nothing opens a transaction. Values cross the boundary of the library by
reference (expressions passed to a builder, intents it returns). All the threads of a process
share the DTO classes and the set `_GENERATING`.

What is hard, and where it is covered (every item with its line is in `PROJECT.json`, under
`hazards`):

* writers between pages, between the row and the count query, between the queries of an expansion,
  and between the two queries of a many-to-many relation;
* limits that are computed twice, at and over bounds, with zero, negative and absent values;
* two loading paths that promise the same answer;
* columns that a query left out and that are read by another one when they are asked for;
* names that are columns, aliases, properties or annotations, resolved in several places;
* recursion over data the developer configures: cyclic annotation dependencies, cyclic DTOs,
  depths bounded in several places with `>` and `>=`;
* Python sets visited in a different order in every process;
* threads that share a guard set and a cache without a lock;
* text combined as text, and parsed late, mixed with ASTs that the caller can still change.

## Modules and code

Definitions named `Slip…` are deliberate mistakes, each next to the definition it would replace.
No specification uses them; they show that a property notices the mistake.

### `ListEndpoint`, `OrderedScan`

| Model | Code |
|---|---|
| `req` | the query string; `long`, `grows` stand for its length against the parser's limit, as sent and as `urlencode` writes it again |
| `BoundedInt`, `Parses` | `_bounded_int`, `_pagination_intent`, `parse_query_params` |
| `Wanted`, `Limit`, `Valid` | `collection_defaults` and the bounds `_validate_intent` repeats |
| `Slice` | `apply_pagination` |
| `ResponseTop`, `ResponseSkip`, `NextLink` | `build_odata_response` |
| `Fetch`, `Count`, `Respond`, `Reject` | the row query, the count query and the response of `list` |
| `Start`, `Follow`, `Finish` | a client that follows `@odata.nextLink` (external) |
| `Insert`, `Delete`, `Move` | other transactions (external); `Move` is also a tie that the database breaks another way |

`table` is the scope of the request after filter and permissions, in the order of the query.
`OrderedScan` states what paging promises as long as nobody writes to the table; `ListEndpoint`
implements it, with its liveness, under the mapping at the end of the module. The first write
ends that promise (`Disturb`).

### `FieldAnnotations`

`ensure_field_annotations` calls itself. A frame of `stack` is one of its activations: `pending`
is computed once when it starts, `todo` are the names it has not visited, and `current` is the one
it visits. `Skip`, `Descend` and `Overflow` are the three outcomes of the recursive call for one
name; `Annotate` is the `annotate()` after the loop. `Request` is an outermost call, by `prepare`
or by a stage of `$apply`. Names are visited in any order, as a set of strings may be.

### `QueryBuilder`

The filter slot holds text or an AST. A text is a sequence of tokens: parts (a condition with all
that belongs to it), parentheses, `and`, `or`, white space, and junk. `_combine` never looks at
them: `Parenthesised` and `Joined` paste two texts as it does. Only `Read` does, the parser, with a
stack of open parentheses that a token more changes (`Shifted`); what it makes of a text is its
`Reading`. Some texts are errors alone and may still be half of a filter between the parentheses
of `_combine`: `a) or (b`, or a text with a space at its ends. Their reading is `Fragment`, and
`Failed` is that of texts which no parentheses help.

An AST is a function of the content of the AST in the caller's hands, which is constant exactly
when nothing is shared; `Edit` changes that content at any time, and `Build` puts the returned
intent in the caller's hands. `Exported`, `Stripped`, `ExportedSelect` and `Accepts` are the export
to a query string and `populate_query_builder`, which parses it; selected names are exported with
commas between them and come back split at every comma.

### `TypedDictGen`

A frame is one activation of the descriptor and of `generate_typeddict`, with a step for each
access to shared state: the test of `_GENERATING`, the addition to it, each `__td__` read for a
field, the removal in `finally`, the assignment to the class. Threads switch between any two
steps. A generation may raise at any field: `finally` runs (`Unwind`), and the caller goes on with
`dict` when it was an `AttributeError`, which its `getattr` takes for a missing `__td__`, or raises
in turn (`Caught`). `Lookup` is Python's attribute lookup along `mro`, the method resolution order that Python
has computed when the class exists. `Mirrors` compares a built TypedDict with the classes: a
reference is the TypedDict of its class, or `dict` where it leads back to a class it is part of
(`Closed`, by `Reaches`).

### `RelationLoading`

A request has an expand tree. `Prepare` validates it; `Hybrid` chooses the loading path; `Rows` is
the root query; `Load` attaches one relation with one query; `Through` and `Related` are the two
queries of a many-to-many relation on the hybrid path. `attached` holds the children of every
parent as they were put together in memory, `read` the foreign keys that the rows carried. Before
each query other transactions may commit, and `past` remembers the databases that were committed.
Rows of all models live in one table with one foreign key and one through table, which is enough
for every kind of relation, self-references included.

### `Projection`

Where `RelationLoading` asks which rows an answer has, `Projection` asks what is in them. There is
one row for each level of the expand tree, with a version that every write of it increases; a
value of an answer is the version its column had when it was read.

| Model | Code |
|---|---|
| `ask.levels` | the model, DTO, aliases, `allowed_fields`, `field_annotations`, `only_fields` and exclusions at each path of the tree |
| `Valid` | the names that `_validate_intent` lets a selection have |
| `Hybrid`, `Raw` | `_hybrid_supported` and the choices of `_materialize` |
| `ValuesFields`, `SelectFields`, `RelatedFields`, `ModelFields` | the column lists of the hybrid builder, of `only()`, and of joined relations |
| `Query(p)` | one query: a level and the relations joined to it |
| `Clashing`, `Crash` | the one-to-one relations that `get_queryset` joins, against the columns `only()` keeps: a `FieldError` |
| `ReadLater(p, c)` | a deferred column, read by a query of its own during prefetches or projection |
| `CheckPermission` | `check_object_permissions` of `retrieve`, which may read a deferred column too |
| `ValuesNames`, `ModelNames`, `RawNames` | the names of `_extract_nested` and `_build_child`, of `from_object`, and of plain rows |
| `Serialize` | `to_representation` and `_dto_to_dict` |
| `Write` | other transactions (external) |

`Lost` lists what the loading paths are known to leave out, `Whole` the levels at which every name
is in the query; the properties except those and nothing else.

### `ApplyPipeline`

`query` is the queryset while the stages change it: conditions of `WHERE` and of `HAVING`,
annotations, `GROUP BY`, what `values()` shows. `Parse` is `parse_apply` with the checks of
`query_as_dicts`; `Apply` takes one stage, which is `Filter` or `GroupBy` with each refusal of
`_validate_field`, `_apply_groupby` and `_resolve_aggregate` and each exception that Django
raises, in the order of the code: a name that is not allowed, then a name `annotate()` would
repeat or that is unknown, then a source, then what an aggregate makes of it. `Groups`, `Summary`
and `Whole` are the database; `$count` and `count` count primary keys whatever their source
(`Counting`). `Meant` is the reference: `After` is the rows after each transformation, made of the
rows after the one before it, and knows neither queries nor the order of SQL's clauses.

### `FilterSemantics`

A behaviour is one filter on one database: `Parse` is `parse_filter`, `Translate` the visits of
`AstToDjangoQVisitor`, `Select` the query. Tokens are left out: a filter is its AST, as records,
with fields, literals, lists, arithmetic and functions below comparisons and searches (`Typed`). A
text is told from another by its length, which is enough for `indexof` and `substring` to be off
by one. `Translated` follows the visits in their order to the first thing they raise (`refused` is
a `SelectorError`, which becomes a 400; `crashed` is what nothing catches). `Reversed` is
`reverse_relationship`, and `Sql` is the translated filter under SQL's three-valued logic, lambdas
as `EXISTS` on the related model (`Exists`). For `all()` the visitor negates the condition and asks
for `Exists(…, negated=True)`; Django has no such parameter any more and ignores it, so the query is
`EXISTS` of the rows that do not match, and that is what the model has. `Meaning` and `Meant` are the reference: two-valued, places in a
text counted as OData does, with an environment that says which row each variable stands for, and
no rewriting.

Filters are the elements of a constant set `Nodes`, each with its parts in it and deeper than they
are (`NodeAssumption`). What a filter comes to is written in two pieces: a rule for one node, with
`below` for its parts (`TranslatedNode`, `SqlNode`, `MeaningNode`, ...), and a recursive function
over `Nodes` that obeys the rule (`Translated`, `Sql`, `Meaning`, ...). `IdentifierStripper`
rewrites the body of a lambda into a new tree. Here the tree stays and the visits carry a scope,
the variables of the lambdas around a node: `Stripped(scope, path)` is what the rewriting, done
once for each of those lambdas from the outside in, has made of a path, and `Inner` is the scope
of a body.

## Runs

| Run | Question | Instance, and why it is enough |
|---|---|---|
| `list` | is a walk the ordered scan until somebody writes, and what is left of that afterwards? Are all links accepted? Does it end? | up to 5 rows, pages of 2, `MaxTop` 3, `MaxSkip` 3: walks of several pages, full and partial last pages, pages cut by every bound; `$top`, `$skip`, `default_limit`, `max_limit` absent, negative, zero, below, at and over the bounds; 2 writes of any kind, between any two steps, the two queries of one response included, during the walks of `Disturbed`: up to 4 rows, pages of 0, 1 and 2, with and without `$skip` and `$count` |
| `annotations` | exactly the needed annotations, dependencies first, the depth error for a reason only, and an end, also when the stages of `$apply` ask one after the other | every dependency graph over three annotations and a model field with up to three edges: chains at and over the bound, cycles of one to three, shared dependencies; every set of names, every order of visits, two calls, depth 1. No symmetry, because of the liveness property |
| `query_builder` | is the meaning kept, and does an export parse back? | five calls, two atoms, seven texts (atom, disjunction, conjunction, malformed, empty, `q) or (p`, an atom after a space), an expression the caller edits; lengths near the parser's limits |
| `query_builder_pasted` | … also when a text closes a parenthesis that it did not open? (no) | the same instance |
| `typed_dicts` | do TypedDicts mirror their classes, do threads leave the shared set clean, and how deep do they nest? | three classes, cycles of one, two and three classes, a failure after a cycle, two threads, three accesses: one overlap and an access after it |
| `typed_dict_inheritance` | … also for a subclass? (no) | one subclass, one thread |
| `relations` | do both paths answer what the relation is, and what do writers change? | 3 rows, 3 databases (a tree, a self-reference and a cycle, a gap), every kind of relation, filtered, sorted downwards and cut, alone and below each other, selected as well, configured by the DTO class alone, one level too deep; two transactions of others |
| `relations_followers` | … also for the other side of a many-to-many relation of a model with itself? (no) | one relation, nobody writing |
| `projection` | which names do the objects have, are their values of one moment, what leaves the service? | a root with one relation of every kind, and with two, below and beside each other; every level plain, with `allowed_fields` and an annotation, with an alias, with a property, with `only_fields`; selections, `*`, filters and pages; lists, dictionaries, DTOs and `retrieve`; one write of each row, between any two queries. Two versions are enough to tell a value from one of another moment; roots with a one-to-one relation, selected or not |
| `apply` | does the one query answer what the stages answer? | up to three stages, with every kind of name, several aggregates, twice the same alias, and everything malformed; four configurations; all tables of two rows and of none, two of three rows |
| `filters` | are the rows a translated filter selects the ones it describes, and does it fail for a reason only? | some 650 filters: every comparison with a value, a null and lists, every search, arithmetic and functions in and below comparisons, ranges, negations, pairs, `any`/`all` with each of those, lambdas in lambdas with every reuse of a variable, forward paths, owners of one to three names, fields where conditions belong; three shapes of the relations, one of them with a comment that has no post, and every assignment of 0, 1 or null that matters |
| `filters_all` | … also with `all()`? (no) | the filters of `filters` that are one `all()`; the same databases |

`CHECK_DEADLOCK FALSE` is set everywhere because every model may stop: a request, a walk or a
number of calls comes to its end.

Bounds that are ours and not the code's: `MaxWrites` (writers during one behaviour) and `Disturbed`
(the walks that they disturb), `MaxVersion`
(writes of each row in `Projection`), `MaxCalls` and `MaxAccesses` (calls of one behaviour). The
others (`MaxTop`, `MaxSkip`, `PageSize`, `MaxDepth`, `MaxLength`, `MaxQuery`) are settings of the
code with smaller values.

What the passing runs say beyond "it works". Deletions alone never make a walk repeat a row, and
insertions alone never make it miss one (`NoRowTwice`, `NoRowMissed`), but the other way round
both happen, and updates of a sort key can do either; a link that `urlencode` lengthens over the
parser's limit is the only one the service hands out and refuses (`LinkNeverRejected`). Without
isolation, a child may be attached that was related at one moment and passed the filter only at a
later one (`NothingInvented`). Two kinds of query are left out of `EquivalentExpansion`,
`NothingLost` and `OneParent` where the hybrid path differs, and they are listed with the limits
below (`Multiplying`, `Forgotten`). The three paths of `Projection` give an object the same names
but for those of `Lost`, and a name that is in the selection is always in the query: an alias or a
foreign key that only a relation needs does not make an object of two moments. `retrieve` judges
and shows one version as long as the column of the owner is selected; otherwise the owner is read
late, and `CheckedAsShown` does not hold. Calls of a builder mean what their texts mean, whatever
is combined with whatever, as long as none of the texts is a fragment (`MeaningPreserved`). A
filter without `all()` selects exactly the rows it describes, when there are no nulls or no `not`
(`LocalMeaning`); with `all()` it does not (`AllMeaning`). A foreign key that is null counts as a
null (`NoNulls`): a field behind it has no value, and `not` of a condition on it is not true. With
nulls under a `not`, what is answered is certain (`CertainAnswers`): it holds whatever the nulls
stand for. This is not so for `any` under a `not`, which is therefore excluded, as `all` is: a row
with an item whose field is null is answered. A filter that is refused or crashes is ill formed,
or a field stands for a condition in it, or the parser stumbled over the owner of a lambda
(`JudgedForReason`; `Explicit` says that there is no such field).
All of these are about filters in which each lambda uses its own variable only, and no name that
follows a variable is the variable of a lambda nested below another one of that name (`Local`):
the translation does not know the names around a lambda, and `IdentifierStripper` strips each
variable from the whole expression below it, so that in `comments/any(comment:
comment/replies/any(comment: comment/comment/n eq 1))` the inner path loses two names instead of
one.

## Fairness

* `ListEndpoint`: weak fairness of the service (the worker answers a request it took) and of the
  client (`WalkEnds` is about a client that keeps following links). Writers are not fair.
* `FieldAnnotations`: weak fairness of `Step`: a Python call, once made, runs on.
* `TypedDictGen`: weak fairness of every thread: the interpreter's scheduler runs each of them.
  Nothing blocks: the code takes no lock.
* `QueryBuilder`, `RelationLoading`, `Projection`, `ApplyPipeline`, `FilterSemantics`: none; their
  properties are safety properties.

## Proofs

The provers check the following for all values of the constants, under the named assumptions of
the modules (types of the constants; a `None` that is no value; tables without repeated rows).

* `ListEndpoint_proofs`. `LinkNeverRejected` is not inductive: that a refused request was the
  client's own says nothing of the link that is about to be sent. `IInv` adds that an answered
  request was acceptable (`Answered`), that the link of a response is acceptable and leads forward
  (`LinkOK`), and that along a walk only `$skip` and the length of the query string change
  (`SameWalk`). The arithmetic is in the lemma that the limits recomputed for the link are within
  the bounds the parser enforces. Theorems: `Inductive`, `TypeCorrect`, `LinksAreAccepted`,
  `WalkMovesForward`.

  What a walk returns takes a second invariant, `Progress`. `AheadOK` is behind `NoRowTwice`:
  while nothing was inserted or moved, what the client was given is not ahead of the walk's
  position, although deletions shift rows under it. `BehindOK` is behind `NoRowMissed`: while
  nothing was deleted or moved, every row that was to be returned was given or is still to come.
  Both need `WalkOK`, that all requests of a walk ask for the same `$top`. Theorems:
  `WalkProgresses`, `NothingTwice`, `NothingMissed`, for tables and numbers of writes of any size.

  `WalkIsOrderedScan` is the safety part of the refinement: initial states map to initial states
  and every step to a step of `OrderedScan` or a stutter. `StaticOK` says that the client has the
  first rows of the scope, in order, until somebody writes.
* `FieldAnnotations_proofs`. `IInv` describes the stack: what a frame has visited has its
  dependencies annotated, but for the name whose recursive call is under way (`Frames`); that call
  covers what is missing (`CallChain`); what is annotated is grounded (`Grounded`). Theorems:
  `DependenciesComeFirst`, `EverythingAsked`, `OnlyWhatIsNeeded`, `CyclesStayOut`,
  `NoSpuriousFailure`, `TypeCorrect`, for every dependency graph, cyclic or not, and every order
  of visits.
* `QueryBuilder_proofs`. `FilterAgrees`: the slot is empty with nothing asked, or a text that
  reads as the formula asked for, or an AST that is that formula whatever the caller does; of a slot
  that a fragment went into nothing is said but that it is not empty. The main lemma is about the
  parser: what a text that has a reading does to the stack inside parentheses (`Read` from
  any stack below), from which the reading of `(l) and (r)` follows, for texts of any length and
  nesting, and that a text that fails alone fails there too. The other is that combining ASTs keeps
  them detached. Theorems: `MeaningIsPreserved`, `NestedIsPreserved`,
  `ExportsParseBack`, `TypeCorrect`. `ExportsParseBack` follows from `FilterAgrees`: only a slot
  that holds text is exported, and this text is what is parsed.
* `TypedDictGen_proofs`. That nothing stays marked says nothing of a thread in the middle of a
  generation, so `IInv` says which phase each frame is in (`Frames`), that a frame waits for
  exactly the one above it (`Calling`), and that every mark in `_GENERATING` has a frame that will
  remove it, of this thread or of another one that marked the same class (`MarksHaveFrames`).
  Theorems: `Inductive`, `TypeCorrect`, `NothingStaysMarked`, for any number of threads and every
  interleaving, failures included.

  `SequentialAccessMirrors` is about accesses that neither overlap nor fail. Its invariant
  `Orderly` says that one stack is in use (`Alone`), that its classes refer to one another and are
  marked once (`Chained`, `MarkedOnce`), and that a value in a class mirrors it or is a `dict`
  that a frame still under way will overwrite (`Kept`). It assumes `NoInheritance`, since the run
  `typed_dict_inheritance` refutes the property for a subclass.

  `GenerationIsBounded` is about accesses that overlap but do not fail: a thread has a class at
  most once more among its calls than there are threads. Its invariant `Nesting` is an account
  (`Owed`): while a class has no TypedDict, each call of a thread that passed the test of
  `_GENERATING`, but one, is owed to another thread that removed the mark and has yet to store
  what it built; when the mark is missing, so is the one. Storing closes the account, as nothing
  calls the descriptor of a class that has a TypedDict. It takes that `Classes` and `Threads` are
  finite (`FiniteAssumption`). The attempt to prove the bound without the condition `~ raised`
  failed for a reason TLC confirmed with seven classes: a generation that raises removes a mark
  and leaves no TypedDict, so that each failure can let another thread go into the class once
  more.
* `RelationLoading_proofs`. That a child was related when it was attached relates three moments:
  when its parents, the through table and the children were read. `IInv` ties what is in memory to
  those moments: the foreign keys that were read are of one past database (`ReadOK`), so are the
  pairs of a through table (`PairsOK`), what is left to load has its parents loaded (`TodoOK`),
  every node that has parents is loaded or left to load (`Covered`), and without writers
  everything attached is exactly the relation (`Exact`). Theorems: `Inductive`, `TypeCorrect`,
  `NothingIsLeftOut`, `AtMostOneParent`, `NothingIsInvented`, `NothingIsLost`,
  `ExpansionsAreEquivalent`. The last three are about answers that are `Oriented`: the hybrid path
  reads the through table of a model with itself in the direction of its columns, and the run
  `relations_followers` shows what happens from the other side.
* `Projection_proofs`. `IInv` adds to the properties what the loaded objects know: the columns of
  the queries were read at once, and only columns a query deferred were read later (`LateOK`); a
  `retrieve` got past its permission with a version whose owner was granted, and it is the version
  shown when the query had the owner (`GrantedOK`). The long part is that the three sets of names
  (`ValuesNames`, `ModelNames`, `RawNames`) are what was asked for except `Lost`. Theorems:
  `Inductive`, `TypeCorrect`, `AnswersArePromised`, `ObjectsAreWhole`, `ShownAsChecked`,
  `NothingElseLeaves`, for expand trees of any shape and depth. `LevelAssumption` says what a
  configuration is: a class has one attribute of a name, aliases are one-to-one, `allowed_fields`
  is not empty (the limits below say why).
* `ApplyPipeline_proofs`. `Typed` is `TypeOK` with the position in the pipeline. `Related` says
  which reference rows the query stands for after each stage: before a group, the rows that pass
  `WHERE`, each once (`Ungrouped`); after one, an entry for each key with rows whose group passes
  `HAVING` (`GroupedBy`). A filter is in the one or the other by when it comes, and the proof of
  each stage is that the database's order (`WHERE`, groups, aggregates, `HAVING`) makes the rows
  that the stages' order makes. Theorems: `TypeCorrect`; `OneQueryIsEnough`, for tables and
  pipelines of any length, where `Regular` holds: there is at most one grouping stage, filters
  after it are on its names, and none of its aggregates is called like an alias or a column an
  alias stands for. The last condition was found by the proof: see the limits below.
* `FilterSemantics_proofs`. First that the recursive functions exist: a rule that asks only for what
  a node's parts come to is obeyed by a function over all nodes (`NodeRecursion`), by induction
  over the depth; then what each function comes to at a node (`SqlRule`, `MeaningRule`,
  `TranslatedRule`, ...). The translation and the meaning are tied together by `Context`: at every
  node, the row of the innermost subquery is the one the innermost variable stands for, and the
  variables that stand for something are those of the scope. In a filter that is `Local`, what is
  left of a path after the rewriting is then what the meaning reads (`LocalSplit`), and an
  expression comes to the value it denotes (`SameValue`, with `FunctionMeant` for the places in a
  text). `RelatedRows` is about the subquery alone: the other sides of the relations, in reverse
  order, lead back to a row from exactly the rows the path leads to. With these, induction over
  the filter gives, for filters without `all()`, `SameTruth` (without nulls true is true and false is
  false), `SamePositive` (with nulls and without negation, true is true) and `SameCertain` (between a database and any
  completion of it); the same induction over the two judgements gives `SameJudgement`. The state
  invariant `Inv` says what the outcome of each stage was. Theorems: `Inductive`, `TypeCorrect`,
  `TranslationKeepsMeaning`, `NullsNeverAnswer`, `RefusedForReason`, for filters of any depth, any
  set of models and any database in which both sides of each relation agree; besides them
  `RelatedRows` and `SameValue`, for the operators. What is assumed of a filter is the shape that
  the grammar and the fluent expressions give it, and that it has finitely many levels. The proof showed that null fields are not the
  only nulls in the way of a filter: a forward relation that leads nowhere is one, which `NoNulls`
  therefore excludes, and so is a path through a relation to many rows, outside of its lambda
  (`Forward`).

Several of these need that a set of numbers has a least element, and induction in the form "a set
of numbers with 0 that is closed under successor is all of them" (`LeastNumber`, `SetInduction`,
`BoundedInduction`). The provers cannot instantiate the induction theorems of the library, which
take an operator, but they can cite these, which take a set.

Hypotheses beyond the named assumptions are those in the statements: `NoInheritance` (`SequentialAccessMirrors`) and `Oriented`. `Regular`,
`Multiplying`, `Forgotten`, `Lost`, `Whole`, `Local`, `Forward`, `Positive`, `Careful`, `OnlyAny`, `Explicit`,
and that a text is no `Fragment`, are parts of the properties themselves, and the runs check the
same formulas.

Only model-checked, or not settled at all:

* everything under fairness: `WalkEnds`, `CallEnds`, `AccessEnds`, and with `WalkEnds` the
  liveness of `ImplementsOrderedScan`;
* how deep generations nest after one has raised, which `BoundedDepth` leaves open;
* the runs that end with a counterexample.

## Where the code and its documentation disagree

Each is a run that TLC ends with a counterexample, listed in `PROJECT.json` under `findings`.

* `typed_dict_inheritance`: after `Parent.__td__` was read, `Child.__td__` is the parent's
  (`core/dtos/base.py:58`).
* `relations_followers`: the reverse side of a many-to-many relation of a model with itself gets
  the rows of the other direction on the hybrid path (`django/utils/introspection.py:95`).
* `query_builder_pasted`: `filter("a eq 1) or (b eq 2").and_filter("c eq 3")` builds
  `a or (b and c)` without an error, because texts are pasted between parentheses before anything
  parses them (`core/query_builder.py:52`, against "Combining fluent and textual filters MUST
  preserve their Boolean meaning", `openspec/specs/safe-selector-queries/spec.md:23`). In the same
  way a text with outer spaces, a syntax error alone, becomes legal when it is combined.
* `filters_all`: `all()` answers the rows that have a related row which does not match, instead of
  those that have none (`django/visitors/filter_visitor.py:317`, against
  `docs/odata-syntax.md:111`): Django's `Exists` ignores `negated=True`.

More disagreements, which the models show without a run of their own:

* A boolean field is no condition, neither alone (`$filter=featured`) nor below `not`, `and`, `or`
  (`django/visitors/filter_visitor.py:237`, `:469`, against `docs/odata-syntax.md:43` and `:81`).
  `WellFormed` takes the documentation's side, and `JudgedForReason` excepts these filters
  (`Explicit`).
* A DTO with a property turns the hybrid path off (`django/executor.py:274`), so that the object
  has the property under the default `values_mode`. `docs/selectors.md:191`,
  `docs/HYBRID_VALUES_EXPAND.md:99` and the docstring at `executor.py:128` say that it stays
  `UNSET`; `docs/selectors.md:417` and `docs/HYBRID_VALUES_EXPAND.md:133` describe what the code
  does, and `AnswerAsPromised` follows these.
* `$select` of anything that leaves out a one-to-one relation of the root ends in a `FieldError`,
  because the relation is joined (`django/selector/odata_selector.py:199`) and its column deferred
  at once (against `docs/odata-syntax.md:117`). This is `Crash` of `Projection`; the paths that
  read rows of `values()` escape it.
* `groupby` without aggregates repeats rows when the model has `Meta.ordering`, because the column
  of the ordering is selected too (`django/query/apply_executor.py:173`, against
  `tests/core/test_apply_parser.py:45`; `tests/integration/test_apply_execution.py:76` compares
  sets). `Ordering` of `ApplyPipeline` has it, and `Regular` excepts it.

Known limits, which the models have as behaviour, or exclude by an assumption, without a run of
their own:

* with `default_limit = None` and no `$top`, `max_limit` does not apply
  (`core/intent/policies.py:25`, against `docs/selectors.md:411`), and the groups of `$apply` are
  listed without a limit (`django/selector/odata_selector.py:381`);
* on the hybrid path, a to-many relation both selected and expanded multiplies the root rows
  (`hybrid_values_builder.py:211`, an example of such a query is `docs/odata-syntax.md:213`); a
  relation nested below one that is configured by its DTO class alone is answered empty (`:754`);
  annotations and the key a reverse relation is grouped by are missing, and the foreign keys of a
  root without selection; an empty `allowed_fields` is no restriction (`:206`); a forward relation
  of a child is looked up among those of the root first (`:736`);
* plain dictionaries of everything have the names of columns, not the aliases; a joined relation
  has no annotations; of two aliases of one column one is lost;
* in `$apply`, a second `groupby` groups the original rows again, and an alias that is the name of
  a grouped field, or an unknown name, ends in an exception nothing catches; an aggregate called
  like one of the selector's aliases, or like the column it stands for, is taken for that column
  by a filter after the groups, or the column for the aggregate, since a name is resolved before
  it is looked up among the annotations (`django/visitors/filter_visitor.py:97`, `:122`): the
  condition is then on rows where it was meant for groups;
* in filters, an owner of three names, and a null that is listed or computed with, end in
  exceptions nothing catches; an outer name in a lambda is read as a name of the related model,
  and so is what remains of a path from which two lambdas with one variable stripped a name each
  (`core/ast/rewrite.py:39`).

## What is not modelled

* Text: literals, dates, separators, error bodies, the metadata and OpenAPI documents. They have
  no state; the properties would restate the format. The example application is configuration.
  `QueryBuilder` has the tokens of a filter, but no text that is cut inside a condition: an open
  quote, half a comparison or half a `not (` at its end. Nor does a model have the keywords of the
  lexer, which end at no word boundary (`protocols/odata/parsers/filter/grammar.py:189`), so that
  a name may begin with one and not be read as a name.
* Django's ORM and the database, but for the rows a query returns, the time it runs, and the
  constraints on keys. Isolation is that of one statement.
* Of `retrieve()`: a row that is deleted between its reads, and the 404; the authorization of a
  queryset is in the scope that a request starts from. `get_one` of a builder with `$top`.
* Of filters: division, `mod`, `concat`, unary minus, dates and conditions as values; the policies and
  aliases of names (`ApplyPipeline` has them); paths through a to-many relation outside a lambda,
  which join it and repeat rows.
* Of `$apply`: `aggregate` after a `groupby`, and an aggregate over the alias of another.
* Of projection: aliases that are paths over relations; the serializer's `Meta.fields` and
  `Meta.nested_serializers`, and the types of its fields.
* The caches of type hints in DTO classes, which depend on the order of imports.

## Plan

The models cover what the code decides, and all safety invariants have their theorem.

1. The hazards that no property covers yet, each with its reason in `PROJECT.json`.
