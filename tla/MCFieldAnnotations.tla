------------------------- MODULE MCFieldAnnotations -------------------------
(* A small instance of FieldAnnotations. *)
EXTENDS FieldAnnotations, FiniteSets

\* dependency graphs over the annotations and a model field, with up to three edges:
\* chains, cycles of one to three, diamonds cut open, shared and missing dependencies
Edges(g) == {edge \in Registered \X Names : edge[2] \in g[edge[1]]}
SmallGraphs == {g \in [Registered -> SUBSET Names] : Cardinality(Edges(g)) <= 3}
=============================================================================
