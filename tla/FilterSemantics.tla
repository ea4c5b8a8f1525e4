-------------------------- MODULE FilterSemantics --------------------------
(***************************************************************************)
(* What a filter means: from its text, or a fluent expression, to the rows *)
(* the database answers.                                                   *)
(*                                                                         *)
(* AstToDjangoQVisitor translates the AST for the model that is queried.   *)
(* A lambda becomes a subquery on the related model: its body is rewritten *)
(* by IdentifierStripper, which takes the lambda's variable off its paths, *)
(* and translated by a visitor for that model, which knows nothing of the  *)
(* models around it.  The database evaluates the result in SQL's           *)
(* three-valued logic.                                                     *)
(*                                                                         *)
(* A filter is a tree of records; a path is the sequence of its names.  A  *)
(* text is told from another by its length alone: it contains, begins and  *)
(* ends with every text that is not longer.                                *)
(*                                                                         *)
(* What an expression comes to follows from what its parts come to.  Each  *)
(* such rule is written for one node, with `below' for the parts, and the  *)
(* recursive function over all nodes applies it.                           *)
(***************************************************************************)
EXTENDS Integers, Sequences, FiniteSets

CONSTANTS
  Models,
  Names,      \* of fields, relations and variables
  Fields,     \* names of the fields that hold values, in every model
  Relations,  \* [from, name, to, back, one]: relations, each with its other side
  Objects,
  Values,
  Null,
  None,       \* no row, and no model
  Malformed,  \* texts that are too long for a pattern or no regular expression
  Nodes,      \* all expressions, the parts of each included
  Depth,      \* how deep each of them is
  Filters,    \* pairs of a model that is queried and a filter
  Databases   \* [model, value, edges]: what the database may hold

ASSUME ValueAssumption ==
  /\ Values \subseteq Int /\ Null \notin Int /\ Malformed \subseteq Int
  /\ None \notin Objects /\ None \notin Models
\* Both sides of a relation are known by name; `one' is a relation to one row at most
ASSUME RelationAssumption ==
  /\ Relations \subseteq [from : Models, name : Names, to : Models, back : Names, one : BOOLEAN]
  /\ \A r \in Relations : \E s \in Relations :
       s.from = r.to /\ s.name = r.back /\ s.to = r.from /\ s.back = r.name
ASSUME NameAssumption ==
  \A r, s \in Relations : r.from = s.from /\ r.name = s.name => r = s
\* An edge <<a, name, b>> says that b is among the rows related to a as `name'
ASSUME DatabaseAssumption ==
  \A d \in Databases :
    /\ d \in [model : [Objects -> Models], value : [Objects -> [Fields -> Values \union {Null}]],
              edges : SUBSET (Objects \X Names \X Objects)]
    /\ \A e \in d.edges : \E r \in Relations :
         d.model[e[1]] = r.from /\ e[2] = r.name /\ d.model[e[3]] = r.to
    /\ \A r \in Relations, a, b \in Objects :
         d.model[a] = r.from /\ <<a, r.name, b>> \in d.edges =>
           /\ <<b, r.back, a>> \in d.edges
           /\ r.one => \A c \in Objects : <<a, r.name, c>> \in d.edges => c = b

VARIABLES
  filter,   \* the filter as it was passed
  root,     \* the model that is queried
  db,
  stage,    \* "received", "parsed", "translated", "answered", "refused" or "crashed"
  answer    \* the rows

vars == <<filter, root, db, stage, answer>>

-----------------------------------------------------------------------------
(* Filters                                                                 *)

Field(path) == [kind |-> "Field", path |-> path]
Literal(value) == [kind |-> "Literal", value |-> value]
List(values) == [kind |-> "List", values |-> values]
BinOp(op, left, right) == [kind |-> "BinOp", op |-> op, left |-> left, right |-> right]
Call(func, args) == [kind |-> "Call", func |-> func, args |-> args]
Compare(comparator, left, right) ==
  [kind |-> "Compare", comparator |-> comparator, left |-> left, right |-> right]
Not(operand) == [kind |-> "Not", operand |-> operand]
BoolOp(op, left, right) == [kind |-> "BoolOp", op |-> op, left |-> left, right |-> right]
AnyRow == [kind |-> "AnyRow"]                     \* the body of any()
Lambda(owner, op, var, body) ==
  [kind |-> "Lambda", owner |-> owner, op |-> op, var |-> var, body |-> body]

\* Field: is_null, is_not_null, not_in and between, and contains with its like
IsNull(path) == Compare("eq", Field(path), Literal(Null))
IsNotNull(path) == Compare("ne", Field(path), Literal(Null))
NotIn(path, values) == Not(Compare("in", Field(path), List(values)))
Between(path, low, high) ==
  BoolOp("and", Compare("ge", Field(path), Literal(low)), Compare("le", Field(path), Literal(high)))
Finds(func, path, value) == Call(func, <<Field(path), Literal(value)>>)

\* The nodes below a node, in the order of its fields
Parts(f) ==
  IF f.kind \in {"Compare", "BoolOp", "BinOp"} THEN <<f.left, f.right>>
  ELSE IF f.kind = "Not" THEN <<f.operand>>
  ELSE IF f.kind = "Call" THEN f.args
  ELSE IF f.kind = "Lambda" THEN <<f.body>>
  ELSE <<>>

\* ODATA_FUNCTIONS: the numbers of arguments each function may have.  Those of Lookups are
\* conditions, the others values; functions of dates are unary as well.
Lookups == {"contains", "startswith", "endswith", "matchesPattern"}
Unary == {"length", "tolower", "toupper", "trim", "floor", "ceiling", "round"}
Functions == Unary \union {"indexof", "substring"}
Arguments(func) ==
  IF func \in Lookups \union {"indexof"} THEN {2}
  ELSE IF func \in Unary THEN {1}
  ELSE IF func = "substring" THEN {2, 3}
  ELSE {}

IsTest(f) == f.kind \in {"Compare", "Not", "BoolOp", "Lambda", "AnyRow"} \/ (f.kind = "Call" /\ f.func \in Lookups)

\* What the grammar and the fluent expressions make of each kind of node
Shaped(f) ==
  \/ f.kind = "Field" /\ f.path \in Seq(Names) \ {<<>>}
  \/ f.kind = "Literal" /\ f.value \in Int \union {Null}
  \/ f.kind = "List" /\ f.values \subseteq Int \union {Null}
  \/ f.kind = "BinOp" /\ f.op \in {"add", "sub", "mul"}
  \/ f.kind = "Call"
  \/ f.kind = "Compare" /\ f.comparator \in {"eq", "ne", "gt", "ge", "lt", "le", "in"}
  \/ f.kind = "Not"
  \/ f.kind = "BoolOp" /\ f.op \in {"and", "or"}
  \/ f.kind = "AnyRow"
  \/ f.kind = "Lambda" /\ f.owner \in Seq(Names) \ {<<>>} /\ f.op \in {"any", "all"} /\ f.var \in Names
\* A test is never an operand of a comparison, of arithmetic or of a function, and a value
\* other than a field never one of and, or and not.  A list is what `in' is followed by.
Typed(f) ==
  /\ \A i \in DOMAIN Parts(f) :
       IF f.kind \in {"Compare", "BinOp", "Call"} THEN ~ IsTest(Parts(f)[i])
       ELSE IsTest(Parts(f)[i]) \/ Parts(f)[i].kind = "Field"
  /\ \A i \in DOMAIN Parts(f) : Parts(f)[i].kind = "List" => f.kind = "Compare" /\ i = 2
  /\ f.kind = "Compare" => (f.comparator = "in" <=> f.right.kind = "List")
  /\ \A i \in DOMAIN Parts(f) : Parts(f)[i].kind = "AnyRow" => f.kind = "Lambda" /\ f.op = "any"
ASSUME NodeAssumption ==
  /\ Depth \in [Nodes -> Nat]
  /\ \A f \in Nodes :
       /\ Shaped(f) /\ Typed(f)
       /\ Parts(f) \in Seq(Nodes)
       /\ \A i \in DOMAIN Parts(f) : Depth[Parts(f)[i]] < Depth[f]
ASSUME FilterAssumption ==
  Filters \subseteq Models \X {f \in Nodes : (IsTest(f) \/ f.kind = "Field") /\ f.kind # "AnyRow"}

Outcomes == {"fine", "refused", "crashed"}
\* What is raised first is the outcome
Check(holds) == IF holds THEN "fine" ELSE "refused"
Then(outcome, next) == IF outcome = "fine" THEN next ELSE outcome
First(outcomes) ==
  LET raised == {i \in DOMAIN outcomes : outcomes[i] # "fine"}
  IN  IF raised = {} THEN "fine" ELSE outcomes[CHOOSE i \in raised : \A j \in raised : i <= j]

\* The grammar looks up a function and counts its arguments, and makes the owner of a
\* lambda of at most two names: for a third one it asks a path for the name of an identifier.
Reduced(f) ==
  IF f.kind = "Call" THEN Check(Len(f.args) \in Arguments(f.func))
  ELSE IF f.kind = "Lambda" THEN IF Len(f.owner) <= 2 THEN "fine" ELSE "crashed"
  ELSE "fine"
ParsedNode(f, below) == Then(First([i \in DOMAIN Parts(f) |-> below[Parts(f)[i]]]), Reduced(f))
Parsed(f) == LET parsed[g \in Nodes] == ParsedNode(g, parsed) IN parsed[f]

-----------------------------------------------------------------------------
(* Models and rows                                                         *)

Has(model, name) == \E r \in Relations : r.from = model /\ r.name = name
Relation(model, name) == CHOOSE r \in Relations : r.from = model /\ r.name = name

\* The models along a path of relations, None from where it does not exist
Along(model, path) ==
  LET at[i \in 0 .. Len(path)] ==
        IF i = 0 THEN model
        ELSE IF Has(at[i - 1], path[i]) THEN Relation(at[i - 1], path[i]).to
        ELSE None
  IN  at
Target(model, path) == Along(model, path)[Len(path)]

Front(path) == SubSeq(path, 1, Len(path) - 1)
Last(path) == path[Len(path)]

\* _validate_field: relations, then a field
ValuePath(model, path) == Target(model, Front(path)) # None /\ Last(path) \in Fields

RowsAt(d, o, path) ==
  LET along[i \in 0 .. Len(path)] ==
        IF i = 0 THEN {o}
        ELSE {b \in Objects : \E a \in along[i - 1] : <<a, path[i], b>> \in d.edges}
  IN  along[Len(path)]

\* F: the value at the end of a path of forward relations, null when one of them is
ValueAt(d, o, path) ==
  LET owners == RowsAt(d, o, Front(path))
  IN  IF owners = {} \/ Last(path) \notin Fields THEN Null
      ELSE d.value[CHOOSE x \in owners : TRUE][Last(path)]

Test(comparator, x, ys) ==
  \/ comparator \in {"eq", "in"} /\ x \in ys
  \/ comparator = "ne" /\ x \notin ys
  \/ comparator = "gt" /\ \E y \in ys : x > y
  \/ comparator = "ge" /\ \E y \in ys : x >= y
  \/ comparator = "lt" /\ \E y \in ys : x < y
  \/ comparator = "le" /\ \E y \in ys : x <= y

\* A comparison with the null is a test of its own
NullTest(c) == c.kind = "Compare" /\ c.right.kind = "Literal" /\ c.right.value = Null
Holds(c, x, ys) == Test(IF c.kind = "Call" THEN "ge" ELSE c.comparator, x, ys)

\* The expressions a condition compares, and what the second one stands for: the values of a
\* list, or the one it comes to
Operands(e, value) == IF e.kind = "List" THEN e.values ELSE {value}

Arithmetic(op, x, y) == IF op = "add" THEN x + y ELSE IF op = "sub" THEN x - y ELSE x * y

\* Expressions with a value of their own, of values below them
Computes(e) ==
  \/ e.kind = "BinOp"
  \/ e.kind = "Call" /\ e.func \in Functions /\ Len(e.args) \in Arguments(e.func)

-----------------------------------------------------------------------------
(* The translation                                                         *)

\* Definitions called "Slip" are wrong on purpose: each is the definition that follows
\* it with a plausible mistake, and is used only to show that a property notices.
SlipRelative(path, var) == IF Len(path) = 2 /\ Head(path) = var THEN Tail(path) ELSE path

\* visit_Attribute of IdentifierStripper: the variable goes, a bare name stays
Relative(path, var) == IF Len(path) > 1 /\ Head(path) = var THEN Tail(path) ELSE path

\* expression_relative_to_identifier rewrites the whole body of a lambda.  Here the nodes stay
\* as they are, and scope tells the variables of the lambdas around a node, from the
\* outermost: this is what all the rewriting has made of a path.
Stripped(scope, path) ==
  LET left[i \in 0 .. Len(scope)] == IF i = 0 THEN path ELSE Relative(left[i - 1], scope[i])
  IN  left[Len(scope)]
Inner(f, scope) == IF f.kind = "Lambda" THEN Append(scope, f.var) ELSE scope

\* null is an operand of eq and ne only
NullsTyped(c) == NullTest(c) => c.comparator \in {"eq", "ne"}

\* _check_type of _substr_function, and the checks of a pattern
Searches(c, scope) ==
  IF c.func = "matchesPattern" THEN ~ (c.args[2].kind = "Literal" /\ c.args[2].value \in Malformed)
  ELSE /\ c.args[1].kind \in {"Field", "Literal", "Call"}
       /\ c.args[1].kind = "Field" => Len(Stripped(scope, c.args[1].path)) = 1
       /\ c.args[2].kind = "Literal" /\ c.args[2].value # Null

\* Where a condition belongs, Django accepts no field: and and or say so, filter() does
BareNode(f, below) ==
  \/ f.kind = "Field"
  \/ f.kind \in {"Not", "BoolOp"} /\ \E i \in DOMAIN Parts(f) : below[Parts(f)[i]]
Bare(f) == LET bare[g \in Nodes] == BareNode(g, bare) IN bare[f]

\* What the visits of a visitor for a model come to.  visit_Null raises what no handler
\* catches, and so does a function that is called with the wrong number of arguments.
TranslatedNode(f, below, model, scope) ==
  LET parts == [i \in DOMAIN Parts(f) |-> below[Parts(f)[i]][model][scope]]
  IN  IF f.kind = "Field" THEN Check(ValuePath(model, Stripped(scope, f.path)))
      ELSE IF f.kind = "Literal" THEN IF f.value = Null THEN "crashed" ELSE "fine"
      ELSE IF f.kind = "List" THEN IF Null \in f.values THEN "crashed" ELSE "fine"
      ELSE IF NullTest(f) THEN Then(parts[1], Check(NullsTyped(f)))
      ELSE IF f.kind = "Call" THEN
        IF Len(f.args) \notin Arguments(f.func)
        THEN IF Arguments(f.func) = {} THEN "refused" ELSE "crashed"
        ELSE IF f.func = "matchesPattern"
        THEN Then(parts[2], Then(Check(Searches(f, scope)), parts[1]))
        ELSE IF f.func \in Lookups THEN Then(Check(Searches(f, scope)), First(parts))
        ELSE First(parts)
      ELSE IF f.kind = "BoolOp" THEN Then(First(parts), Check(~ Bare(f)))
      ELSE IF f.kind = "Lambda" THEN
        LET related == Target(model, Stripped(scope, f.owner))
        IN  IF related = None THEN "refused"
            ELSE Then(below[f.body][related][Inner(f, scope)], Check(~ Bare(f.body)))
      ELSE First(parts)
Translated(model, scope, f) ==
  LET translated[g \in Nodes] ==
        [m \in Models |-> [s \in Seq(Names) |-> TranslatedNode(g, translated, m, s)]]
  IN  translated[f][model][scope]

\* reverse_relationship: the other sides of the relations, from the last to the first
Reversed(model, path) ==
  LET at == Along(model, path)
      n == Len(path)
  IN  [i \in 1 .. n |-> Relation(at[n - i], path[n - i + 1]).back]

\* Three truth values, as numbers
False3 == 0
Unknown == 1
True3 == 2
Truth(b) == IF b THEN True3 ELSE False3
Least(a, b) == IF a < b THEN a ELSE b
Greatest(a, b) == IF a > b THEN a ELSE b

\* The functions as the database has them, which counts characters from 1
StrIndex(s, t) == IF t \in 0 .. s THEN 1 ELSE 0
Substr(s, first, last) == Greatest(0, Least(s, last) - Greatest(first, 1) + 1)
Function(func, xs) ==
  IF func = "indexof" THEN StrIndex(xs[1], xs[2]) - 1
  ELSE IF func = "substring"
  THEN Substr(xs[1], xs[2] + 1, IF Len(xs) = 3 THEN xs[2] + xs[3] ELSE xs[1])
  ELSE xs[1]

\* An expression over a null is null.  A list and a condition have no value of their own.
ComputedNode(d, scope, o, e, below) ==
  LET xs == [i \in DOMAIN Parts(e) |-> below[Parts(e)[i]]]
  IN  IF e.kind = "Field" THEN ValueAt(d, o, Stripped(scope, e.path))
      ELSE IF e.kind = "Literal" THEN e.value
      ELSE IF ~ Computes(e) \/ \E i \in DOMAIN xs : xs[i] = Null THEN Null
      ELSE IF e.kind = "BinOp" THEN Arithmetic(e.op, xs[1], xs[2])
      ELSE Function(e.func, xs)
Computed(d, scope, o, e) ==
  LET computed[g \in Nodes] == ComputedNode(d, scope, o, g, computed) IN computed[e]

SlipCompared(c, x, ys) ==
  IF NullTest(c) THEN Truth((x = Null) <=> (c.comparator = "eq"))
  ELSE IF ys = {} THEN False3
  ELSE IF Null \in {x} \union ys THEN Truth(c.kind = "Compare" /\ c.comparator = "ne")
  ELSE Truth(Holds(c, x, ys))

\* IsNull, In with an empty list, and the lookups that are unknown for a null
Compared(c, x, ys) ==
  IF NullTest(c) THEN Truth((x = Null) <=> (c.comparator = "eq"))
  ELSE IF ys = {} THEN False3
  ELSE IF Null \in {x} \union ys THEN Unknown
  ELSE Truth(Holds(c, x, ys))

SlipExists(related, satisfies, op) == \E c \in related : op = "any" \/ satisfies[c] = False3

\* Exists(subquery), for all() with the condition negated.  The visitor passes negated=True
\* then, a name that Exists has not had since Django 4.2 (pyproject.toml asks for it or a later
\* one): it is taken for extra data of a template and nothing is negated.
Exists(related, satisfies, op) ==
  \E c \in related : satisfies[c] = IF op = "any" THEN True3 ELSE False3

\* The rows of a subquery: those that the way back leads from to row o
Related(d, o, path) ==
  LET model == d.model[o]
  IN  {c \in Objects : d.model[c] = Target(model, path) /\ o \in RowsAt(d, c, Reversed(model, path))}

\* The two expressions a condition compares
Left(c) == IF c.kind = "Compare" THEN c.left ELSE c.args[1]
Right(c) == IF c.kind = "Compare" THEN c.right ELSE c.args[2]

\* what the database makes of the translated filter for row o
SqlNode(d, f, below, scope, o) ==
  IF f.kind \in {"Compare", "Call"}
  THEN Compared(f, Computed(d, scope, o, Left(f)), Operands(Right(f), Computed(d, scope, o, Right(f))))
  ELSE IF f.kind = "Not" THEN True3 - below[f.operand][scope][o]
  ELSE IF f.kind = "BoolOp" THEN
    IF f.op = "and" THEN Least(below[f.left][scope][o], below[f.right][scope][o])
    ELSE Greatest(below[f.left][scope][o], below[f.right][scope][o])
  ELSE IF f.kind = "Lambda" THEN
    LET related == Related(d, o, Stripped(scope, f.owner))
    IN  Truth(Exists(related, [c \in related |-> below[f.body][Inner(f, scope)][c]], f.op))
  ELSE True3
Sql(d, f, scope, o) ==
  LET sql[g \in Nodes] == [s \in Seq(Names) |-> [x \in Objects |-> SqlNode(d, g, sql, s, x)]]
  IN  sql[f][scope][o]

-----------------------------------------------------------------------------
(* A query                                                                 *)

Init ==
  /\ \E pair \in Filters : root = pair[1] /\ filter = pair[2]
  /\ db \in Databases
  /\ stage = "received" /\ answer = {}

\* parse_filter; a fluent expression needs no parsing, and has no lambda
Parse ==
  /\ stage = "received"
  /\ stage' = IF Parsed(filter) = "fine" THEN "parsed" ELSE Parsed(filter)
  /\ UNCHANGED <<filter, root, db, answer>>

\* _apply_filter
Judged == Then(Translated(root, <<>>, filter), Check(~ Bare(filter)))
Translate ==
  /\ stage = "parsed"
  /\ stage' = IF Judged = "fine" THEN "translated" ELSE Judged
  /\ UNCHANGED <<filter, root, db, answer>>

SlipSelect ==
  /\ stage = "translated"
  /\ stage' = "answered"
  /\ answer' = {o \in Objects : Sql(db, filter, <<>>, o) = True3}
  /\ UNCHANGED <<filter, root, db>>

Select ==
  /\ stage = "translated"
  /\ stage' = "answered"
  /\ answer' = {o \in Objects : db.model[o] = root /\ Sql(db, filter, <<>>, o) = True3}
  /\ UNCHANGED <<filter, root, db>>

Next == Parse \/ Translate \/ Select

Spec == Init /\ [][Next]_vars

-----------------------------------------------------------------------------
(* What a filter is meant to say                                           *)

\* env tells which row each variable stands for; a path begins at a variable or, at the
\* row that is asked about, at one of its fields and relations.
Nothing == [v \in Names |-> None]
Begins(env, path) == Len(path) > 1 /\ env[Head(path)] # None
Start(env, row, path) == IF Begins(env, path) THEN env[Head(path)] ELSE row
Rest(env, path) == IF Begins(env, path) THEN Tail(path) ELSE path
Bind(env, f, row) == IF f.kind = "Lambda" THEN [env EXCEPT ![f.var] = row] ELSE env

\* A place is counted from 0 in a text, and -1 is no place
Meant(func, xs) ==
  IF func = "indexof" THEN IF \E i \in 0 .. xs[1] : xs[2] \in 0 .. xs[1] - i THEN 0 ELSE -1
  ELSE IF func = "substring"
  THEN Cardinality({i \in 0 .. xs[1] - 1 : i >= xs[2] /\ (Len(xs) = 3 => i < xs[2] + xs[3])})
  ELSE xs[1]
DenotedNode(d, env, row, e, below) ==
  LET xs == [i \in DOMAIN Parts(e) |-> below[Parts(e)[i]]]
  IN  IF e.kind = "Field" THEN ValueAt(d, Start(env, row, e.path), Rest(env, e.path))
      ELSE IF e.kind = "Literal" THEN e.value
      ELSE IF ~ Computes(e) \/ \E i \in DOMAIN xs : xs[i] = Null THEN Null
      ELSE IF e.kind = "BinOp" THEN Arithmetic(e.op, xs[1], xs[2])
      ELSE Meant(e.func, xs)
Denoted(d, env, row, e) ==
  LET denoted[g \in Nodes] == DenotedNode(d, env, row, g, denoted) IN denoted[e]

\* A comparison with a null does not hold
Satisfied(c, x, ys) ==
  IF NullTest(c) THEN (x = Null) <=> (c.comparator = "eq")
  ELSE Null \notin {x} \union ys /\ Holds(c, x, ys)

MeaningNode(d, row, f, below, env) ==
  IF f.kind \in {"Compare", "Call"}
  THEN Satisfied(f, Denoted(d, env, row, Left(f)), Operands(Right(f), Denoted(d, env, row, Right(f))))
  ELSE IF f.kind = "Not" THEN ~ below[f.operand][env]
  ELSE IF f.kind = "BoolOp" THEN
    IF f.op = "and" THEN below[f.left][env] /\ below[f.right][env]
    ELSE below[f.left][env] \/ below[f.right][env]
  ELSE IF f.kind = "Lambda" THEN
    LET items == RowsAt(d, Start(env, row, f.owner), Rest(env, f.owner))
    IN  IF f.op = "any" THEN \E c \in items : below[f.body][Bind(env, f, c)]
        ELSE \A c \in items : below[f.body][Bind(env, f, c)]
  ELSE TRUE
Meaning(d, f, env, row) ==
  LET meaning[g \in Nodes] == [e \in [Names -> Objects \union {None}] |-> MeaningNode(d, row, g, meaning, e)]
  IN  meaning[f][env]

\* Well formed when read with the model of each variable known: names that exist, a null
\* beside eq and ne only, functions of the right number of arguments, and texts searched in a
\* field of the row itself or in a value computed of it.  A field may stand for a condition,
\* as a shorthand for being true.
WellFormedNode(f, below, env, model) ==
  LET Fits(i) == below[Parts(f)[i]][env]
      FitAll == \A i \in DOMAIN Parts(f) : Fits(i)
  IN  \/ f.kind = "Field" /\ ValuePath(Start(env, model, f.path), Rest(env, f.path))
      \/ f.kind = "Literal" /\ f.value # Null
      \/ f.kind = "List" /\ Null \notin f.values
      \/ f.kind = "Compare" /\ (IF NullTest(f) THEN Fits(1) /\ f.comparator \in {"eq", "ne"} ELSE FitAll)
      \/ /\ f.kind = "Call" /\ Len(f.args) \in Arguments(f.func) /\ FitAll
         /\ f.func = "matchesPattern" => ~ (f.args[2].kind = "Literal" /\ f.args[2].value \in Malformed)
         /\ f.func \in Lookups \ {"matchesPattern"} =>
              /\ f.args[1].kind # "BinOp" /\ f.args[2].kind = "Literal"
              /\ f.args[1].kind = "Field" => Len(Rest(env, f.args[1].path)) = 1
      \/ /\ f.kind = "Lambda"
         /\ LET owned == Target(Start(env, model, f.owner), Rest(env, f.owner))
            IN  owned # None /\ below[f.body][Bind(env, f, owned)]
      \/ f.kind \in {"BinOp", "Not", "BoolOp"} /\ FitAll
      \/ f.kind = "AnyRow"
WellFormed(f, env, model) ==
  LET fits[g \in Nodes] == [e \in [Names -> Models \union {None}] |-> WellFormedNode(g, fits, e, model)]
  IN  fits[f][env]

\* The nodes of an expression, each with the variables of the lambdas around it
PlacedNode(f, below, scope) ==
  {<<f, scope>>} \union UNION {below[Parts(f)[i]][Inner(f, scope)] : i \in DOMAIN Parts(f)}
Placed(f, scope) ==
  LET placed[g \in Nodes] == [s \in Seq(Names) |-> PlacedNode(g, placed, s)] IN placed[f][scope]

\* Every path in a lambda begins with its own variable.  A lambda inside another with the same
\* variable has its paths rewritten twice: no name that follows the variable may be one of
\* theirs too.
OwnName(scope, path) == scope # <<>> => Len(path) > 1 /\ Head(path) = Last(scope)
StrippedOnce(scope, path) ==
  Len(path) > 2 =>
    \A i, j \in DOMAIN scope : i < j /\ scope[i] = Head(path) => scope[j] # path[2]
LocalPath(scope, path) == OwnName(scope, path) /\ StrippedOnce(scope, path)
Local(f, scope) ==
  \A place \in Placed(f, scope) :
    /\ place[1].kind = "Field" => LocalPath(place[2], place[1].path)
    /\ place[1].kind = "Lambda" => LocalPath(place[2], place[1].owner)

\* No field in it is an operand of and, or and not or the body of a lambda
Explicit(f, scope) ==
  \A place \in Placed(f, scope) :
    place[1].kind \in {"Not", "BoolOp", "Lambda"} =>
      \A i \in DOMAIN Parts(place[1]) : Parts(place[1])[i].kind # "Field"

-----------------------------------------------------------------------------
(* Properties                                                              *)

TypeOK ==
  /\ <<root, filter>> \in Filters /\ db \in Databases
  /\ stage \in {"received", "parsed", "translated", "answered", "refused", "crashed"}
  /\ answer \subseteq {o \in Objects : db.model[o] = root}

\* No field is null, and neither is a relation to one row
NoNulls(d) ==
  /\ \A o \in Objects, x \in Fields : d.value[o][x] # Null
  /\ \A r \in Relations, a \in Objects :
       r.one /\ d.model[a] = r.from => \E b \in Objects : <<a, r.name, b>> \in d.edges
\* Fields are read along relations to one row
Forward(f, scope) ==
  \A place \in Placed(f, scope) :
    place[1].kind = "Field" =>
      LET path == Stripped(place[2], place[1].path)
      IN  \A i \in 1 .. Len(path) - 1, r \in Relations : r.name = path[i] => r.one
\* It asks for some of the related rows, never for all of them
OnlyAny(f, scope) ==
  \A place \in Placed(f, scope) : place[1].kind = "Lambda" => place[1].op = "any"
Positive(f, scope) == \A place \in Placed(f, scope) : place[1].kind # "Not"

\* Rewriting a lambda for the model it runs on and reversing the way to its owner keep the
\* meaning of any(), below a not as well: as long as no lambda mentions a name from outside,
\* the rows are those the filter describes.  The nulls in the way of a filter with a not are
\* the subject of CertainAnswers, and all() that of the next property.
LocalMeaning ==
  stage = "answered" /\ Local(filter, <<>>) /\ OnlyAny(filter, <<>>)
    /\ ((NoNulls(db) /\ Forward(filter, <<>>)) \/ Positive(filter, <<>>)) =>
      answer = {o \in Objects : db.model[o] = root /\ Meaning(db, filter, Nothing, o)}

\* all() describes the rows all of whose related rows match, as docs/odata-syntax.md has it,
\* where no null is in the way.  The visitor does not negate the subquery of the rows that do
\* not match (Exists): the rows that have one are answered, and those without are not.
AllMeaning ==
  stage = "answered" /\ Local(filter, <<>>) /\ NoNulls(db) /\ Forward(filter, <<>>) =>
    answer = {o \in Objects : db.model[o] = root /\ Meaning(db, filter, Nothing, o)}

\* A null is a value that is not known: without all(), and without any() below a not, a
\* row is answered only if the filter holds whatever values the nulls stand for.
NoLambda(f, scope) == \A place \in Placed(f, scope) : place[1].kind # "Lambda"
Careful(f, scope) ==
  \A place \in Placed(f, scope) :
    /\ ~ NullTest(place[1])
    /\ place[1].kind = "Not" => NoLambda(place[1].operand, place[2])
    /\ place[1].kind = "Lambda" => place[1].op = "any"
Unknowns(d) == {pair \in Objects \X Fields : d.value[pair[1]][pair[2]] = Null}
Completed(d, known) ==
  [model |-> d.model, edges |-> d.edges,
   value |-> [o \in Objects |-> [x \in Fields |->
                IF d.value[o][x] = Null THEN known[<<o, x>>] ELSE d.value[o][x]]]]
CertainAnswers ==
  stage = "answered" /\ Local(filter, <<>>) /\ Careful(filter, <<>>) =>
    \A known \in [Unknowns(db) -> Values] : \A o \in answer :
      Meaning(Completed(db, known), filter, Nothing, o)

\* A filter fails, with an answer for the client or without, for a reason: names or functions
\* that do not exist, a null that is ordered, listed or computed with, a text that is searched
\* where it cannot be.  And an ill-formed one is never answered.  Only the parser crashes for
\* another reason, at the owner of a lambda.  docs/odata-syntax.md:43 and :81 have boolean
\* fields stand for conditions (`featured', `not featured'): these are well formed, and they
\* are what is left out here, since no visitor makes a condition of a field.
JudgedForReason ==
  Local(filter, <<>>) =>
    LET formed == WellFormed(filter, Nothing, root)
        explicit == filter.kind # "Field" /\ Explicit(filter, <<>>)
    IN  /\ stage = "refused" => ~ (formed /\ explicit)
        /\ stage = "crashed" => ~ formed \/ Parsed(filter) = "crashed"
        /\ stage = "answered" => formed /\ explicit

=============================================================================
