---------------------------- MODULE QueryBuilder ----------------------------
(***************************************************************************)
(* QueryBuilder: a fluent object with one slot per query option.  A slot   *)
(* takes either text, which is only combined and parsed when the query is  *)
(* built, or an AST made from the caller's objects.  Callers keep mutable  *)
(* ASTs in their hands (the expressions they pass, the intents they get)   *)
(* and may change them at any time.                                        *)
(***************************************************************************)
EXTENDS Integers, Sequences

CONSTANTS
  Atoms,         \* comparisons a filter is made of
  Texts,         \* filter texts a caller may pass
  Selects,       \* what select() leaves in its slot
  Expands,       \* texts of expand()
  Orders,        \* what orderby() leaves in its slot
  Numbers,       \* arguments of top() and skip()
  MaxLength,     \* MAX_FILTER_LENGTH, 4000 in the code
  MaxQuery,      \* longest query string that is parsed, 4096 in the code
  MaxTop,        \* MAX_TOP_VALUE
  MaxSkip,       \* MAX_SKIP_VALUE
  MaxCalls,      \* bound on the calls of a behaviour
  None,          \* an empty slot
  Failed,        \* an exception
  Fragment       \* of a text: no filter by itself, but perhaps one inside parentheses

\* A filter means the set of worlds it accepts, a world being the atoms that hold
Worlds == SUBSET Atoms
Meanings == SUBSET Worlds

\* What the lexer makes of a text.  A part is a condition (a comparison, a call, a
\* lambda, the negation of one in parentheses) with all that belongs to it; a space is
\* white space that is not part of an operator; junk is anything the grammar has no use for.
Kinds == {"part", "open", "close", "and", "or", "space", "junk"}
Token == [kind : Kinds, meaning : Meanings]
Text == [tokens : Seq(Token), length : Nat]

\* What the parser knows of an open parenthesis: the conjunctions it has read, the one it
\* is reading, and what may come next.  Spaces may stand inside parentheses, before the
\* first operand and after the last one, but not at either end of the whole text.
Level == [any : Meanings, all : Meanings,
          wants : {"start", "first", "operand", "operator", "close"}]

\* An AST, as a function of the content of the AST the caller has in its hands:
\* it is constant when they have no object in common.
Node == [Meanings -> Meanings]

\* Textual $expand: what it stands for, None for the empty string.  An ordering is
\* text too, or fluent when it was made of OrderBy objects.
Option == [value : STRING \union {None}, ok : BOOLEAN]
Ordering == [value : STRING \union {None}, ok : BOOLEAN, fluent : BOOLEAN]

ASSUME BoundAssumption ==
  /\ MaxLength \in Nat /\ MaxQuery \in Nat /\ MaxTop \in Nat /\ MaxSkip \in Nat
  /\ MaxCalls \in Nat
ASSUME TextAssumption == Texts \subseteq Text
ASSUME OptionAssumption ==
  /\ Expands \subseteq Option /\ Orders \subseteq Ordering
  /\ Numbers \subseteq Int
  /\ Selects \subseteq [names : Seq(STRING), split : Seq(STRING)]
ASSUME NoneAssumption ==
  /\ None # Failed /\ None # Fragment /\ Failed # Fragment /\ None \notin Int
  /\ Failed \notin Seq(Level) /\ Fragment \notin Seq(Level)
  /\ None \notin [text : Text] \union [node : Node] \union [names : Seq(STRING), split : Seq(STRING)]
  /\ \A m \in Meanings : m # None /\ m # Failed /\ m # Fragment

VARIABLES
  filter,     \* _filter: None, [text |-> ...] or [node |-> ...]
  expand,     \* _expand: None, [option |-> text] or [node |-> nested filter]
  rest,       \* the slots _select, _orderby, _top, _skip and _count
  held,       \* the mutable AST in the caller's hands
  asked,      \* history: the formula the caller asked for, None, Failed or Fragment
  nested,     \* history: the nested filter the caller asked for, None without one
  calls

builder == <<filter, expand, rest>>
vars == <<filter, expand, rest, held, asked, nested, calls>>

Rest == [select : Selects \union {None}, orderby : Orders \union {None},
         top : Numbers \union {None}, skip : Numbers \union {None},
         count : BOOLEAN \union {None}]

-----------------------------------------------------------------------------
(* Filter text                                                             *)

\* The parser's stack, the innermost parenthesis first.
Opened(wants) == [any |-> {}, all |-> Worlds, wants |-> wants]
Waiting(level) == level.wants \in {"start", "first", "operand"}
Complete(level) == level.wants \in {"operator", "close"}

\* "and" binds tighter than "or"
Meant(level) == level.any \union level.all

WithOperand(level, meaning) ==
  [level EXCEPT !.all = level.all \intersect meaning, !.wants = "operator"]

WithOperator(level, kind) ==
  IF kind = "and" THEN [level EXCEPT !.wants = "operand"]
  ELSE [any |-> Meant(level), all |-> Worlds, wants |-> "operand"]

WithSpace(level) ==
  [level EXCEPT !.wants = IF level.wants = "first" THEN "operand" ELSE "close"]

\* One token more.  Two tokens are an error where they would not be inside parentheses: a
\* space before everything, and the end of a parenthesis that was never opened.
Shifted(stack, token) ==
  LET top == Head(stack)
      below == Tail(stack)
      kind == token.kind
  IN  IF stack \in {Failed, Fragment} THEN stack
      ELSE IF kind = "part" /\ Waiting(top) THEN <<WithOperand(top, token.meaning)>> \o below
      ELSE IF kind = "open" /\ Waiting(top)
        THEN <<Opened("first"), [top EXCEPT !.wants = "operator"]>> \o below
      ELSE IF kind = "close" /\ Complete(top)
        THEN IF below = <<>> THEN Fragment
             ELSE <<WithOperand(Head(below), Meant(top))>> \o Tail(below)
      ELSE IF kind \in {"and", "or"} /\ top.wants = "operator"
        THEN <<WithOperator(top, kind)>> \o below
      ELSE IF kind = "space" /\ top.wants \in {"first", "operator"}
        THEN <<WithSpace(top)>> \o below
      ELSE IF kind = "space" /\ top.wants = "start" THEN Fragment
      ELSE Failed

Read(tokens, from) ==
  LET stack[i \in 0 .. Len(tokens)] ==
        IF i = 0 THEN from ELSE Shifted(stack[i - 1], tokens[i])
  IN  stack[Len(tokens)]

\* What a text means: a set of worlds, Fragment, or Failed when no text around it helps.
Reading(t) ==
  LET stack == Read(t.tokens, <<Opened("start")>>)
  IN  IF stack \in {Failed, Fragment} THEN stack
      ELSE IF Len(stack) > 1 \/ Head(stack).wants = "close" THEN Fragment
      ELSE IF Head(stack).wants = "operator" THEN Meant(Head(stack))
      ELSE Failed

Blank(t) == t.tokens = <<>>

\* parse_filter: the empty string is a syntax error too
Parses(t) == t.length <= MaxLength /\ Reading(t) \notin {Failed, Fragment}

Symbol(kind) == [kind |-> kind, meaning |-> {}]

\* Definitions called "Slip" are wrong on purpose: each is the definition that follows
\* it with a plausible mistake, and is used only to show that a property notices.
SlipParenthesised(tokens) == tokens

Parenthesised(tokens) == <<Symbol("open")>> \o tokens \o <<Symbol("close")>>

\* The text `(l) and (r)' or `(l) or (r)', which is put together without a look at l and r
Joined(l, r, conjunction) ==
  [tokens |-> Parenthesised(l.tokens) \o <<Symbol(IF conjunction THEN "and" ELSE "or")>>
                \o Parenthesised(r.tokens),
   length |-> l.length + r.length + (IF conjunction THEN 9 ELSE 8)]

Both(l, r, conjunction) == IF conjunction THEN l \intersect r ELSE l \union r

-----------------------------------------------------------------------------
(* Values of the filter slot                                               *)

AsText(t) == [text |-> t]
IsText(v) == "text" \in DOMAIN v
Constant(m) == [node |-> [h \in Meanings |-> m]]

Empty(v) == v = None \/ (IsText(v) /\ Blank(v.text))
Readable(v) == IsText(v) => Parses(v.text)

\* _parse_filter where the value is text: a fresh AST
Ast(v) == IF IsText(v) THEN Constant(Reading(v.text)) ELSE v

BoolOp(l, r, conjunction) ==
  [node |-> [h \in Meanings |-> Both(l.node[h], r.node[h], conjunction)]]

\* _expression_ast copies the caller's expression
ExpressionAst == Constant(held)

\* _combine returns the new slot, or Failed when a text has to be parsed and does not
Combined(slot, value, conjunction) ==
  IF Empty(slot) THEN value
  ELSE IF IsText(slot) /\ IsText(value)
    THEN AsText(Joined(slot.text, value.text, conjunction))
  ELSE IF Readable(slot) /\ Readable(value) THEN BoolOp(Ast(slot), Ast(value), conjunction)
  ELSE Failed

-----------------------------------------------------------------------------
(* What the caller asks for                                                *)

\* The formula a text or the caller's expression stands for when it is passed
Said(v) ==
  IF Empty(v) THEN None
  ELSE IF IsText(v) THEN Reading(v.text)
  ELSE held

\* and how it adds to what was asked before
Extended(before, said, conjunction) ==
  IF before = None THEN said
  ELSE IF Fragment \in {before, said} THEN Fragment
  ELSE IF before = Failed \/ said \in {None, Failed} THEN Failed
  ELSE Both(before, said, conjunction)

-----------------------------------------------------------------------------
(* The calls                                                               *)

Call == calls < MaxCalls /\ calls' = calls + 1

Arguments == {AsText(t) : t \in Texts}

\* filter(text) and where(expression) replace the slot
Replace(value) ==
  /\ Call
  /\ filter' = value
  /\ asked' = Said(value)
  /\ UNCHANGED <<expand, rest, held, nested>>

\* the slot assigned before the error is known
SlipCombine(value, conjunction) ==
  /\ Call
  /\ filter' = Combined(filter, value, conjunction)
  /\ asked' = Extended(asked, Said(value), conjunction)
  /\ UNCHANGED <<expand, rest, held, nested>>

\* and_filter, or_filter, and_where and or_where; a call that raises changes nothing
Combine(value, conjunction) ==
  /\ Call
  /\ LET slot == Combined(filter, value, conjunction) IN
       IF slot = Failed THEN UNCHANGED <<filter, asked>>
       ELSE filter' = slot /\ asked' = Extended(asked, Said(value), conjunction)
  /\ UNCHANGED <<expand, rest, held, nested>>

ExpandText(option) ==
  /\ Call
  /\ expand' = [option |-> option]
  /\ nested' = None
  /\ UNCHANGED <<filter, rest, held, asked>>

\* the Expand object kept as it is
SlipExpandObject ==
  /\ Call
  /\ expand' = [node |-> [h \in Meanings |-> h]]
  /\ nested' = held
  /\ UNCHANGED <<filter, rest, held, asked>>

\* expand(Expand(...).filter(expression)): the Expand keeps the caller's own AST,
\* the builder copies it
ExpandObject ==
  /\ Call
  /\ expand' = Constant(held)
  /\ nested' = held
  /\ UNCHANGED <<filter, rest, held, asked>>

\* select, orderby, top, skip and count
SetOption(name, value) ==
  /\ Call
  /\ rest' = [rest EXCEPT ![name] = value]
  /\ UNCHANGED <<filter, expand, held, asked, nested>>

-----------------------------------------------------------------------------
(* build() and the textual export                                          *)

\* The contents of a filter slot as an intent carries it
Formula(slot) ==
  IF Empty(slot) THEN None
  ELSE IF Readable(slot) THEN Ast(slot).node[held]
  ELSE Failed

Pagination(r) ==
  IF r.top # None \/ r.skip # None \/ r.count = TRUE
  THEN [limit |-> r.top, offset |-> r.skip, include_count |-> r.count = TRUE]
  ELSE None

Textual(slot) == slot # None => "option" \in DOMAIN slot

OptionValue(slot) ==
  CASE slot = None -> None
    [] slot # None /\ Textual(slot) -> (IF slot.option.ok THEN slot.option.value ELSE Failed)
    [] OTHER -> slot.node[held]

Intent(f, e, r) ==
  [filter |-> Formula(f),
   select |-> IF r.select = None \/ r.select.names = <<>> THEN None ELSE r.select.names,
   expand |-> OptionValue(e),
   orderby |-> IF r.orderby = None THEN None ELSE OptionValue([option |-> r.orderby]),
   pagination |-> Pagination(r)]

Builds(intent) == Failed \notin {intent.filter, intent.expand, intent.orderby}

\* build returns a deep copy, which is then in the caller's hands
Build ==
  /\ Call
  /\ LET intent == Intent(filter, expand, rest) IN
       /\ Builds(intent)
       /\ held' = IF intent.filter = None THEN held ELSE intent.filter
  /\ UNCHANGED <<builder, asked, nested>>

\* builder_to_params: an AST cannot be exported; falsy texts are left out
Exportable ==
  /\ filter # None => IsText(filter)
  /\ Textual(expand)
  /\ rest.orderby # None => ~ rest.orderby.fluent

\* populate_query_builder strips the values it finds
Stripped(t) ==
  LET space(i) == i \in DOMAIN t.tokens /\ t.tokens[i].kind = "space"
      first == IF space(1) THEN 2 ELSE 1
      last == IF space(Len(t.tokens)) THEN Len(t.tokens) - 1 ELSE Len(t.tokens)
  IN  [tokens |-> SubSeq(t.tokens, first, last),
       length |-> t.length - (Len(t.tokens) - Len(SubSeq(t.tokens, first, last)))]

ExportedFilter == IF Empty(filter) THEN None ELSE AsText(Stripped(filter.text))
ExportedExpand ==
  IF expand # None /\ Textual(expand) /\ expand.option.value = None /\ expand.option.ok
  THEN None ELSE expand
\* names are joined with commas, and split at every comma on the way back
ExportedSelect ==
  IF rest.select = None \/ rest.select.names \in {<<>>, <<"">>} THEN None
  ELSE [names |-> rest.select.split, split |-> rest.select.split]
\* a $top of zero taken for no $top
SlipExported ==
  [rest EXCEPT
    !.top = IF rest.top = 0 THEN None ELSE rest.top,
    !.select = ExportedSelect,
    !.orderby = IF rest.orderby # None /\ rest.orderby.value = None /\ rest.orderby.ok
                THEN None ELSE rest.orderby]
Exported ==
  [rest EXCEPT
    !.select = ExportedSelect,
    !.orderby = IF rest.orderby # None /\ rest.orderby.value = None /\ rest.orderby.ok
                THEN None ELSE rest.orderby]

\* populate_query_builder refuses what _pagination_intent refuses, and a query string
\* that is too long: MaxQuery is what the other options leave for the filter
WithinBounds(r) ==
  /\ r.top # None => r.top \in 0 .. MaxTop
  /\ r.skip # None => r.skip \in 0 .. MaxSkip
Accepts(f, r) == WithinBounds(r) /\ (f # None => f.text.length <= MaxQuery)

-----------------------------------------------------------------------------
(* The caller                                                              *)

\* the caller changes a list inside the AST in its hands, or takes up another AST
Edit(m) ==
  /\ Call
  /\ held' = m
  /\ UNCHANGED <<builder, asked, nested>>

Init ==
  /\ filter = None /\ expand = None
  /\ rest = [select |-> None, orderby |-> None, top |-> None, skip |-> None, count |-> None]
  /\ held \in {{w \in Worlds : a \in w} : a \in Atoms}
  /\ asked = None /\ nested = None
  /\ calls = 0

Next ==
  \/ \E value \in Arguments : Replace(value)
  \/ Replace(ExpressionAst)
  \/ \E value \in Arguments, conjunction \in BOOLEAN : Combine(value, conjunction)
  \/ \E conjunction \in BOOLEAN : Combine(ExpressionAst, conjunction)
  \/ \E option \in Expands : ExpandText(option)
  \/ ExpandObject
  \/ \E value \in Selects : SetOption("select", value)
  \/ \E value \in Orders : SetOption("orderby", value)
  \/ \E name \in {"top", "skip"}, value \in Numbers : SetOption(name, value)
  \/ \E value \in BOOLEAN : SetOption("count", value)
  \/ Build
  \/ \E m \in {{w \in Worlds : a \in w} : a \in Atoms} : Edit(m)

Spec == Init /\ [][Next]_vars

-----------------------------------------------------------------------------
(* Properties                                                              *)

TypeOK ==
  /\ filter \in {None} \union [text : Text] \union [node : Node]
  /\ expand \in {None} \union [option : Expands] \union [node : Node]
  /\ rest \in Rest
  /\ held \in Meanings
  /\ asked \in {None, Failed, Fragment} \/ asked \in Meanings
  /\ nested = None \/ nested \in Meanings
  /\ calls \in 0 .. MaxCalls

TooLong == IsText(filter) /\ filter.text.length > MaxLength

\* "Combining fluent and textual filters MUST preserve their Boolean meaning" and
\* "building MUST return detached state": whatever mixture of texts and expressions
\* was combined in whatever order, and whatever the caller did since to the objects
\* it passed or was given, the filter that would be built is the formula of the calls,
\* or an error when one of the texts was malformed or all of them together too long.
\* That is so as long as no text is a fragment: see AndFilterNarrows.
MeaningPreserved ==
  LET built == Formula(filter) IN
    \/ asked = Fragment
    \/ built = Failed /\ (asked = Failed \/ TooLong)
    \/ built # Failed /\ built = asked

\* The same sentence of any text at all: what and_filter(text) leaves in the builder does
\* not accept a world that the text excludes.  The code does not keep this: it pastes
\* texts between parentheses, so that filter("a) or (b") and and_filter("c") build
\* `(a) or (b) and (c)'.
AndFilterNarrows ==
  [][\A t \in Texts :
       Combine(AsText(t), TRUE) /\ Parses(t) /\ Formula(filter') # Failed
         => Formula(filter') \subseteq Reading(t)]_vars

\* The same for the filter nested in a fluent expand.
NestedPreserved == expand # None /\ ~ Textual(expand) => OptionValue(expand) = nested

\* A textual builder exports to a query string that, when it is accepted, builds the
\* same intent again: no option is lost, zero and false included.  The exceptions are
\* select(""), which selects the field of no name but leaves nothing to export, and
\* names that hold a comma, which come back as several.
RoundTrip ==
  LET intent == Intent(filter, expand, rest) IN
    /\ Exportable /\ Builds(intent)
    /\ rest.select # None => rest.select.names = rest.select.split /\ rest.select.names # <<"">>
    /\ Accepts(ExportedFilter, Exported)
    => Intent(ExportedFilter, ExportedExpand, Exported) = intent

-----------------------------------------------------------------------------
(* The inductive invariant behind the two meaning properties               *)

\* A filter slot and the formula that was asked for: nothing, text that reads as the
\* formula, or an AST of the formula that no caller can reach; of fragments nothing is known
Agrees(slot, formula) ==
  \/ Empty(slot) /\ formula = None
  \/ ~ Empty(slot) /\ formula = Fragment
  \/ ~ Empty(slot) /\ IsText(slot) /\ formula = Reading(slot.text)
  \/ formula \in Meanings /\ slot = Constant(formula)

FilterAgrees == Agrees(filter, asked)

ExpandAgrees ==
  expand # None /\ ~ Textual(expand) => nested \in Meanings /\ expand = Constant(nested)

IInv == TypeOK /\ FilterAgrees /\ ExpandAgrees

=============================================================================
