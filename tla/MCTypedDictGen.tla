--------------------------- MODULE MCTypedDictGen ---------------------------
(* Small instances of TypedDictGen. *)
EXTENDS TypedDictGen, TLC

CONSTANTS a, b, c

NoParents == {[x \in Classes |-> <<x>>]}
Inheritance == {[x \in Classes |-> IF x = b THEN <<b, a>> ELSE <<x>>]}

\* cycles of one, two and three classes, shared references, and a failure after a cycle
MCAnnotations == {
  (a :> <<b>>) @@ (b :> <<c>>) @@ (c :> <<>>),
  (a :> <<b, c>>) @@ (b :> <<c>>) @@ (c :> <<a>>),
  (a :> <<b, a>>) @@ (b :> <<a, c>>) @@ (c :> <<b>>),
  (a :> <<b, Broken>>) @@ (b :> <<a>>) @@ (c :> <<b>>)}
PlainAnnotations == {(a :> <<>>) @@ (b :> <<c>>) @@ (c :> <<>>)}
=============================================================================
