-------------------------- MODULE MCRelationLoading --------------------------
(* Small instances of RelationLoading. *)
EXTENDS RelationLoading, TLC

Plain(above, kind) ==
  [above |-> above, kind |-> kind, same |-> FALSE, selected |-> FALSE, plain |-> TRUE,
   lists |-> TRUE, filtered |-> FALSE, descending |-> FALSE, limit |-> None]
Query(nodes, values) == [nodes |-> nodes, values |-> values, limit |-> 2]

\* every kind alone, filtered, sorted downwards and cut
Single == {Query(<<[Plain(0, kind) EXCEPT !.filtered = f, !.descending = d, !.limit = l]>>, values) :
             kind \in Kinds, f \in BOOLEAN, d \in {TRUE}, l \in {None, 1}, values \in BOOLEAN}

\* two levels, sharing children and parents, too deep, and not plain
Nested == {Query(<<Plain(0, up), [Plain(1, down) EXCEPT !.filtered = f]>>, TRUE) :
             up \in {"reverse", "m2m"}, down \in Kinds, f \in BOOLEAN}
Mixed == {
  Query(<<Plain(0, "m2m"), Plain(0, "reverse"), Plain(1, "forward")>>, TRUE),
  Query(<<Plain(0, "forward"), Plain(1, "reverse")>>, TRUE),
  Query(<<[Plain(0, "m2m") EXCEPT !.plain = FALSE, !.same = TRUE]>>, TRUE),
  Query(<<[Plain(0, "m2m_back") EXCEPT !.same = TRUE]>>, FALSE),
  Query(<<[Plain(0, "reverse") EXCEPT !.selected = TRUE, !.lists = FALSE], Plain(1, "m2m")>>, FALSE),
  Query(<<Plain(0, "reverse"), Plain(1, "reverse"), Plain(2, "reverse")>>, TRUE)}
\* known to be different: $expand=categories&$select=id,title,categories
\* (docs/odata-syntax.md:213), the same one level down, and
\* $expand=comments($expand=replies) with 'comments': CommentDTO
\* (docs/HYBRID_VALUES_EXPAND.md:77)
Different == {
  Query(<<[Plain(0, "m2m") EXCEPT !.selected = TRUE]>>, TRUE),
  Query(<<Plain(0, "reverse"), [Plain(1, "m2m") EXCEPT !.selected = TRUE]>>, TRUE),
  Query(<<[Plain(0, "reverse") EXCEPT !.lists = FALSE], Plain(1, "reverse")>>, TRUE)}
MCIntents == Different \union Single \union Nested \union Mixed \union {Query(<<>>, TRUE)}

\* a self-referential many-to-many relation, from the side of its related_name
Followers == {Query(<<[Plain(0, "m2m_back") EXCEPT !.same = TRUE]>>, TRUE)}

MCDatabases == {
  [alive |-> {1, 2, 3}, ok |-> {2, 3},
   fk |-> (1 :> None) @@ (2 :> 1) @@ (3 :> 1), links |-> {<<1, 2>>, <<1, 3>>, <<2, 3>>}],
  [alive |-> {1, 2, 3}, ok |-> {1},
   fk |-> (1 :> 3) @@ (2 :> 2) @@ (3 :> None), links |-> {<<2, 1>>, <<3, 1>>, <<3, 3>>}],
  [alive |-> {1, 3}, ok |-> {3},
   fk |-> (1 :> None) @@ (2 :> None) @@ (3 :> 1), links |-> {}]}
=============================================================================
