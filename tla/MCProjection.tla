---------------------------- MODULE MCProjection ----------------------------
(* Small instances of Projection: posts with an owner, expanded to one     *)
(* relation of every kind, or to two, one below or beside the other.       *)
EXTENDS Projection, TLC

Post == [kind |-> "root", columns |-> {"id", "title", "owner_id"}, foreign |-> {"owner_id"},
         onetoone |-> {}, computed |-> <<>>, dto |-> {"id", "title", "owner_id"}, aliases |-> <<>>,
         allowed |-> None, annotated |-> {}, only |-> None, hidden |-> {"password"},
         exclude |-> {}, link |-> None]
Related(kind, link) ==
  [kind |-> kind, columns |-> {"id", "name", "password", "post_id"}, foreign |-> {"post_id"},
   onetoone |-> {}, computed |-> <<>>, dto |-> {"id", "name", "password", "post_id"}, aliases |-> <<>>,
   allowed |-> None, annotated |-> {}, only |-> None, hidden |-> {"password"},
   exclude |-> {}, link |-> link]

Posts == [
  plain |-> Post,
  allowing |-> [Post EXCEPT !.allowed = {"id", "title", "score"}, !.annotated = {"score"},
                            !.dto = @ \union {"score"}],
  aliased |-> [Post EXCEPT !.aliases = "heading" :> "title", !.dto = {"id", "heading", "owner_id"}],
  computing |-> [Post EXCEPT !.computed = "label" :> "title", !.dto = @ \union {"label"},
                             !.exclude = {"title"}],
  profiled |-> [Post EXCEPT !.onetoone = {"owner_id"}]]
Variants(r) == [
  plain |-> r,
  allowing |-> [r EXCEPT !.allowed = {"name", "rank"}, !.annotated = {"rank"}, !.dto = @ \union {"rank"}],
  aliased |-> [r EXCEPT !.aliases = "alias" :> "name", !.dto = {"id", "alias"}],
  computing |-> [r EXCEPT !.computed = "full" :> "name", !.dto = {"id", "full", "password"}],
  listing |-> [r EXCEPT !.only = {"name"}, !.exclude = {"name"}]]

Child == <<"child">>
Deep == <<"child", "deep">>
Other == <<"other">>

\* The foreign key on the way to a forward relation is a column of the level above
ToOne(p, kind) ==
  Related(kind, CASE kind = "reverse" -> "post_id" [] kind = "m2m" -> None
                  [] OTHER -> IF p = Deep THEN "post_id" ELSE "owner_id")

\* A selector, named for the variant of its root and the relations it expands
Relation == {"forward", "reverse", "m2m"}
Alone == {<<post>> : post \in DOMAIN Posts}
Pairs == ({"plain"} \X Relation \X {"plain", "allowing", "aliased", "computing", "listing"})
           \union ((DOMAIN Posts) \X Relation \X {"plain", "computing"})
Triples == {"plain"} \X {"reverse", "m2m"} \X {"plain"} \X {Deep, Other} \X Relation
Levels(k) ==
  (Root :> Posts[k[1]])
  @@ (IF Len(k) > 1 THEN Child :> Variants(ToOne(Child, k[2]))[k[3]] ELSE <<>>)
  @@ (IF Len(k) > 3 THEN k[4] :> ToOne(k[4], k[5]) ELSE <<>>)
Has(k) == {Root} \union (IF Len(k) > 1 THEN {Child} ELSE {}) \union (IF Len(k) > 3 THEN {k[4]} ELSE {})

\* Selections of the root and of the child, out of the names their levels know
OfRoot(post) ==
  {None, {"title"}, {"*"}}
  \union (CASE post \in {"plain", "profiled"} -> {{"id", "owner_id"}}
            [] post = "allowing" -> {{"title", "score"}}
            [] post = "aliased" -> {{"heading"}, {"heading", "owner_id"}}
            [] OTHER -> {{"label", "owner_id"}})
OfChild(child) ==
  {None} \union (CASE child = "allowing" -> {{"name", "rank"}}
                   [] child = "aliased" -> {{"alias"}}
                   [] child = "computing" -> {{"full"}}
                   [] OTHER -> {{"name"}})
Selections(k) ==
  IF Len(k) = 1 THEN {Root :> s : s \in OfRoot(k[1])}
  ELSE {(Root :> s) @@ (Child :> c) @@ [p \in Has(k) |-> None] : s \in OfRoot(k[1]), c \in OfChild(k[3])}

\* The route, whether plain values may be loaded, and the versions with permission
Modes(k) ==
  {<<"dicts", TRUE, {}>>, <<"list", TRUE, {}>>, <<"list", FALSE, {}>>, <<"retrieve", TRUE, {0}>>}
  \union (IF Len(k) > 1 THEN {} ELSE {<<"dtos", TRUE, {}>>, <<"dicts", FALSE, {}>>, <<"retrieve", TRUE, {1}>>})

Ask(levels, expand, select, m, filtered, paged) ==
  [levels |-> levels, expand |-> expand, select |-> select, route |-> m[1], values |-> m[2],
   granted |-> m[3], filtered |-> filtered, paged |-> paged]
Nothing(expand) == [p \in expand |-> None]

Plain == <<"plain">>
MCAsks ==
  UNION {LET levels == Levels(k)
         IN  {Ask(levels, Has(k), s, m, {}, {}) : s \in Selections(k), m \in Modes(k)} :
           k \in Alone \union Pairs \union Triples}
  \* a filter on the relation, and a page of it
  \union UNION {LET levels == Levels(k)
                IN  {Ask(levels, Has(k), Nothing(Has(k)), m, {Child}, {}) : m \in Modes(k)}
                    \union {Ask(levels, Has(k), Nothing(Has(k)), m, {}, {Child}) : m \in Modes(k)} :
                  k \in Pairs}
  \* not expandable, not a field, and never selected
  \union {Ask(Levels(Plain), {Root, Child}, Nothing({Root, Child}), m, {}, {}) : m \in Modes(Plain)}
  \union {Ask(Levels(Plain), {Root}, Root :> {n}, m, {}, {}) :
            m \in Modes(Plain), n \in {"nothing", "password"}}
=============================================================================
