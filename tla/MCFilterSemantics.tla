------------------------- MODULE MCFilterSemantics -------------------------
(* A small instance of FilterSemantics: posts with comments and tags, comments with replies. *)
EXTENDS FilterSemantics, TLC

CONSTANTS p, q, c1, c2, r, t

Side(from, name, to, back, one) == [from |-> from, name |-> name, to |-> to, back |-> back, one |-> one]
Both(from, name, to, back, one) == {Side(from, name, to, back, FALSE), Side(to, back, from, name, one)}
MCRelations == Both("post", "comments", "comment", "post", TRUE)
                 \union Both("comment", "replies", "reply", "comment", TRUE)
                 \union Both("post", "tags", "tag", "posts", FALSE)
MCNames == {"n", "zz", "c", "r", "s", "x", "post", "comments", "comment", "replies", "tags", "posts"}

Cmp(comparator, path, value) == Compare(comparator, Field(path), Literal(value))
In(path, values) == Compare("in", Field(path), List(values))

\* comparisons of the field at a path, nulls and lists included, and those that are ill typed
Atoms(path) ==
  {Cmp(op, path, 1) : op \in {"eq", "ne", "lt", "ge"}}
    \union {IsNull(path), IsNotNull(path), NotIn(path, {0}), NotIn(path, {}), Between(path, 0, 0),
            Finds("contains", path, 1), Cmp("gt", path, Null), In(path, {0, Null}),
            Compare("eq", Literal(Null), Field(path)), Compare("le", Literal(1), Field(path))}
Some(path) == {Cmp("eq", path, 1), Cmp("ne", path, 1), IsNull(path)}

\* Expressions over the field at a path, and over it and another
Expressions(path) ==
  LET x == Field(path)
  IN  {BinOp(op, x, Literal(1)) : op \in {"add", "sub", "mul"}}
        \union {Call("length", <<x>>), Call("indexof", <<x, Literal(1)>>),
                Call("substring", <<x, Literal(1)>>), Call("substring", <<x, Literal(0), Literal(1)>>),
                Call("substring", <<Literal(2), x>>), Call("substring", <<Call("tolower", <<x>>), Literal(0)>>),
                BinOp("add", x, Literal(Null)), Call("soundex", <<x>>), Call("length", <<x, x>>)}
Computing(path, other) ==
  {Compare(op, e, Literal(v)) : op \in {"eq", "lt"}, e \in Expressions(path), v \in {0, 1}}
    \union {Compare(op, Field(path), Field(other)) : op \in {"eq", "ne"}}
    \union {Call(func, <<Field(path), Literal(1)>>) : func \in {"startswith", "matchesPattern"}}
    \union {Finds("matchesPattern", path, 3),
            Call("endswith", <<Call("tolower", <<Field(path)>>), Literal(1)>>),
            Call("contains", <<BinOp("add", Field(path), Literal(1)), Literal(1)>>),
            Call("contains", <<Field(path), Field(other)>>)}
Pairs(S) == {BoolOp(op, a, b) : op \in {"and", "or"}, a \in S, b \in S}
Lambdas(owner, var, bodies) == {Lambda(owner, op, var, body) : op \in {"any", "all"}, body \in bodies}
Negated(S) == {Not(f) : f \in S}

\* replies of comments, with variables of their own, of the same name, and named as a relation
Deep == UNION {Lambdas(<<"comments">>, v, Lambdas(<<v, "replies">>, w, Some(<<w, "n">>))) :
                 v \in {"c", "post"}, w \in {"r", "c", "comment"}}
\* and the way back from a reply, below two variables of the name it begins with
Twice == UNION {Lambdas(<<"comments">>, v, Lambdas(<<v, "replies">>, w, {Cmp("eq", <<w, "comment", "n">>, 1)})) :
                  v \in {"c", "comment"}, w \in {"c", "comment"}}
PostFilters ==
  LET plain == Atoms(<<"n">>)
      lambdas == Lambdas(<<"comments">>, "c", Atoms(<<"c", "n">>) \union Pairs(Some(<<"c", "n">>))
                                                \union Negated(Some(<<"c", "n">>)))
                   \union Lambdas(<<"comments">>, "post", Some(<<"post", "post", "n">>))
                   \union Lambdas(<<"tags">>, "x", Some(<<"x", "n">>))
      outer == Lambdas(<<"comments">>, "c",
                 Lambdas(<<"c", "replies">>, "r", {Cmp("eq", <<"c", "n">>, 1)}) \union Some(<<"n">>))
      computing == Computing(<<"n">>, <<"n">>)
                     \union Lambdas(<<"comments">>, "c", Computing(<<"c", "n">>, <<"c", "post", "n">>))
      bare == {Field(<<"n">>), Not(Field(<<"n">>)), Not(Cmp("eq", <<"zz">>, 1)),
               BoolOp("or", Not(Field(<<"n">>)), In(<<"n">>, {Null}))}
                \union Lambdas(<<"comments">>, "c", {Field(<<"c", "n">>)})
  IN  plain \union Negated(plain) \union Pairs(Some(<<"n">>) \union {Field(<<"n">>)})
        \union computing \union bare
        \union {Cmp("eq", <<"zz">>, 1), Cmp("eq", <<"zz", "n">>, 1),
                Lambda(<<"comments">>, "any", "c", AnyRow), Lambda(<<"zz">>, "any", "c", AnyRow)}
        \union lambdas \union Negated(lambdas) \union Deep \union Twice \union outer
        \union {BoolOp("and", f, Cmp("eq", <<"n">>, 1)) : f \in lambdas}
CommentFilters ==
  Atoms(<<"post", "n">>) \union Computing(<<"post", "n">>, <<"n">>)
    \union Lambdas(<<"post", "comments">>, "s", Some(<<"s", "n">>))
    \union Lambdas(<<"post", "tags">>, "s", Some(<<"s", "n">>))
    \union {Lambda(<<"post", "comments", "replies">>, "any", "s", AnyRow)}
\* Every related row asked for
Alls == {"post"} \X {Lambda(<<"comments">>, "all", "c", Cmp(op, <<"c", "n">>, 1)) : op \in {"eq", "ne", "lt"}}
MCFilters == {pair : pair \in ({"post"} \X PostFilters) \union ({"comment"} \X CommentFilters)}

\* The filters, and all that is below them: none is deeper than five levels.  A node is as
\* deep as the lowest layer it is in tells.
PartsOf(S) == UNION {{Parts(f)[i] : i \in DOMAIN Parts(f)} : f \in S}
Layer1 == {pair[2] : pair \in MCFilters}
Layer2 == PartsOf(Layer1)
Layer3 == PartsOf(Layer2)
Layer4 == PartsOf(Layer3)
Layer5 == PartsOf(Layer4)
AllNodes == Layer1 \union Layer2 \union Layer3 \union Layer4 \union Layer5
AllDepths == [f \in AllNodes |->
  IF f \in Layer5 THEN 1 ELSE IF f \in Layer4 THEN 2 ELSE IF f \in Layer3 THEN 3 ELSE IF f \in Layer2 THEN 4 ELSE 5]
MCNodes == AllNodes
MCDepth == AllDepths

\* The same for the small set
FewNodes == LET few == {pair[2] : pair \in Alls}
            IN  few \union PartsOf(few) \union PartsOf(PartsOf(few))
FewDepths == [f \in FewNodes |->
  IF f.kind = "Lambda" THEN 2 ELSE IF f.kind \in {"Not", "Compare"} THEN 1 ELSE 0]

MCModel == (p :> "post") @@ (q :> "post") @@ (c1 :> "comment") @@ (c2 :> "comment")
             @@ (r :> "reply") @@ (t :> "tag")
MCEdges(up) ==
  UNION {{<<up[1][i], up[2][i], up[3][i]>>, <<up[3][i], up[4][i], up[1][i]>>} : i \in DOMAIN up[1]}
\* one post with both comments and a tag, or each with one; or a comment without a post
Shapes == {
  MCEdges(<<<<c1, c2, r, p>>, <<"post", "post", "comment", "tags">>, <<p, p, c2, t>>,
            <<"comments", "comments", "replies", "posts">>>>),
  MCEdges(<<<<c1, c2, r, p, q>>, <<"post", "post", "comment", "tags", "tags">>, <<p, q, c2, t, t>>,
            <<"comments", "comments", "replies", "posts", "posts">>>>),
  MCEdges(<<<<c2, r>>, <<"post", "comment">>, <<p, c2>>, <<"comments", "replies">>>>)}
MCValues == {[o \in Objects |-> [n |-> v[o]]] :
               v \in {v \in [Objects -> {0, 1, Null}] : v[q] = 0 /\ v[t] = v[c1] /\ v[r] # 0}}
MCDatabases == [model : {MCModel}, value : MCValues, edges : Shapes]
=============================================================================
