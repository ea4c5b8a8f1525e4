-------------------------- MODULE MCApplyPipeline ---------------------------
(* Small instances of ApplyPipeline: rows of two columns, and pipelines of *)
(* up to three stages.                                                     *)
EXTENDS ApplyPipeline

MCColumns == {"status", "rating"}
Rows == [MCColumns -> 0 .. 1]
MCTables == UNION {[1 .. n -> Rows] : n \in {0, 2}}
              \union {<<[status |-> 0, rating |-> 0], [status |-> 1, rating |-> 1],
                        [status |-> 0, rating |-> 1]>>,
                      <<[status |-> 1, rating |-> 1], [status |-> 1, rating |-> 0],
                        [status |-> 1, rating |-> 1]>>}

Open == [allowed |-> None, filterable |-> None, unfiltered |-> {},
         aliases |-> [state |-> "status"],
         annotations |-> [doubled |-> [r \in Rows |-> 2 * r.rating]],
         functions |-> [bucket |-> [r \in Rows |-> (r.status + r.rating) \div 2]],
         methods |-> {"range"}, ordering |-> None, limit |-> 1]
MCConfigs == {Open,
              [Open EXCEPT !.ordering = "rating", !.unfiltered = {"status"}],
              [Open EXCEPT !.allowed = {"state", "rating", "n", "doubled", "nothing"}],
              [Open EXCEPT !.filterable = {"state", "n", "bucket"}]}

Count(alias) == [source |-> None, method |-> "count", alias |-> alias]
Spec1(source, method, alias) == [source |-> source, method |-> method, alias |-> alias]
Clauses == {None, <<Count("n")>>, <<Count("n"), Spec1("doubled", "sum", "total")>>,
            <<Spec1("bucket", "max", "n"), Spec1("rating", "countdistinct", "n")>>,
            <<Spec1("rating", "sum", "doubled")>>, <<Count("state")>>}
Faulty == {<<>>, <<Spec1(None, "sum", "n")>>, <<Spec1("rating", "median", "n")>>, <<Count("status")>>}

Filters == [kind : {"filter"}, name : {"status", "state", "rating", "doubled", "bucket", "n", "nothing"},
            values : {{1}, {1, 2}}]
Groupings == [kind : {"groupby"}, fields : {{"status"}, {"state", "rating"}, {"bucket"}, {"doubled"}},
              aggregate : Clauses]
Summaries == [kind : {"aggregate"}, fields : {{}}, aggregate : Clauses \ {None}]
Odd == [kind : {"groupby"}, fields : {{"status"}}, aggregate : Faulty]
         \union [kind : {"groupby"}, fields : {{}, {"nothing"}}, aggregate : {None}]
         \union [kind : {"aggregate"}, fields : {{}}, aggregate : Faulty] \union {[kind |-> "other"]}

Later == {f \in Filters : f.values = {1} /\ f.name \in {"rating", "n", "doubled", "state"}}
MCPipelines ==
  {<<>>} \union {<<t>> : t \in Filters \union Groupings \union Summaries \union Odd}
  \union {<<f, g>> : f \in Filters, g \in Groupings \union Summaries}
  \union {<<g, f>> : g \in Groupings \union Summaries, f \in Filters}
  \union {p \in Groupings \X Groupings : \A s \in Specs(p[1]) : s.alias \notin p[2].fields}
  \union {<<e, g, f>> : e \in Later, g \in Groupings, f \in Later}

Plain == [method |-> "query_as_dicts", combined |-> FALSE]
MCCalls == {Plain, [Plain EXCEPT !.method = "query"], [Plain EXCEPT !.combined = TRUE]}
=============================================================================
