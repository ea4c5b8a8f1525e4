--------------------------- MODULE MCListEndpoint ---------------------------
(* A small instance of ListEndpoint. *)
EXTENDS ListEndpoint

\* Initial tables: the first n rows, for every n
MCTables == {[i \in 1 .. n |-> i] : n \in 0 .. 5}

\* limits below, at and over the bounds, a disabled collection, no default, and
\* settings the executor refuses
BoundedMetas == [default : {0, 1, 2, 4}, maximum : {0, 2, 3}]
MCMetas == BoundedMetas \union [default : {None, -1, 2, 4}, maximum : {-1, 2, 4}]
WriterMetas == [default : {None, 2}, maximum : {2}]

Query0(tops, skips) ==
  [top : tops, skip : skips, count : BOOLEAN, long : {FALSE}, grows : {FALSE}]
MCRequests == Query0({None, -1, 0, 1, 2, 3, 4}, {None, -1, 0, 1, 2, 3, 4})
                \union [top : {2}, skip : {None}, count : {FALSE}, long : BOOLEAN, grows : BOOLEAN]
WriterRequests == Query0({None, 1}, {None, 1}) \union Query0({0}, {None})
\* walks over up to four rows
MCDisturbed == WriterMetas \X WriterRequests \X {rows \in MCTables : Len(rows) <= 4}
=============================================================================
