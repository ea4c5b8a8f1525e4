--------------------------- MODULE MCQueryBuilder ---------------------------
(* A small instance of QueryBuilder. *)
EXTENDS QueryBuilder

Holds(a) == {w \in Worlds : a \in w}
Part(m) == [kind |-> "part", meaning |-> m]
Filter(tokens, length) == [tokens |-> tokens, length |-> length]

q == Part(Holds("q"))
p == Part(Holds("p"))

\* q, p or q, not p and q, a malformed text, the empty one, q) or (p, and q with a space
MCTexts == {
  Filter(<<q>>, 4),
  Filter(<<p, Symbol("or"), q>>, 12),
  Filter(<<Part(Worlds \ Holds("p")), Symbol("and"), q>>, 17),
  Filter(<<q, Symbol("junk")>>, 5),
  Filter(<<>>, 0),
  Filter(<<q, Symbol("close"), Symbol("or"), Symbol("open"), p>>, 10),
  Filter(<<Symbol("space"), q>>, 5)}

MCSelects == {[names |-> <<>>, split |-> <<>>],
              [names |-> <<"">>, split |-> <<"">>],
              [names |-> <<"id">>, split |-> <<"id">>],
              [names |-> <<"id,name", "tags">>, split |-> <<"id", "name", "tags">>]}
MCExpands == {[value |-> "author", ok |-> TRUE], [value |-> None, ok |-> TRUE],
              [value |-> "bad", ok |-> FALSE]}
MCOrders == {[value |-> "id desc", ok |-> TRUE, fluent |-> TRUE],
             [value |-> "id asc", ok |-> TRUE, fluent |-> FALSE],
             [value |-> None, ok |-> TRUE, fluent |-> FALSE]}
MCNumbers == {-1, 0, 2}
=============================================================================
