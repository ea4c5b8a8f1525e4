---------------------------- MODULE ListEndpoint ----------------------------
(***************************************************************************)
(* GET on a collection (ODataSelectorViewSetMixin.list) and a client that  *)
(* follows @odata.nextLink until the service stops handing one out.        *)
(*                                                                         *)
(* The service is stateless: each request parses its query string, reads   *)
(* one page, then (with $count=true) counts in a second query, and builds  *)
(* the link from the raw parameters again.  Other transactions may change  *)
(* the table between any two of those steps.                               *)
(***************************************************************************)
EXTENDS Integers, Sequences

CONSTANTS
  Rows,       \* identities of rows that can be in the filtered scope
  None,       \* an absent $top, $skip, count or link
  MaxTop,     \* MAX_TOP_VALUE, 10000 in the code
  MaxSkip,    \* MAX_SKIP_VALUE, 1000000 in the code
  PageSize,   \* DEFAULT_PAGE_SIZE of the view module, 50 in the code
  Metas,      \* selector configurations: [default, maximum]
  Requests,   \* query strings a client may start with
  Tables,     \* what the scope may hold when the walk begins
  MaxWrites,  \* bound on the concurrent writes of one behaviour
  Disturbed   \* and the walks they happen in: configuration, request and table

Query == [top : Int \union {None}, skip : Int \union {None}, count : BOOLEAN,
          long : BOOLEAN,    \* over MAX_QUERY_STRING_LENGTH as it is sent
          grows : BOOLEAN]   \* over it once urlencode has encoded it again

ASSUME NoneAssumption == None \notin Int
ASSUME LimitAssumption == MaxTop \in Nat \ {0} /\ MaxSkip \in Nat /\ PageSize \in Nat \ {0}
ASSUME MetaAssumption == Metas \subseteq [default : Int \union {None}, maximum : Int]
ASSUME RequestAssumption == Requests \subseteq Query /\ None \notin Query
ASSUME WriteAssumption == MaxWrites \in Nat

Injective(rows) == \A i, j \in 1 .. Len(rows) : rows[i] = rows[j] => i = j

ASSUME TableAssumption == Tables \subseteq Seq(Rows) /\ \A rows \in Tables : Injective(rows)

VARIABLES
  table,      \* the rows in the request's scope, in the order the query sorts them
  meta,       \* the selector's default_limit and max_limit
  req,        \* the query string being answered
  stage,      \* where the request is
  page,       \* the rows the first query returned
  total,      \* total_count, None unless $count=true
  link,       \* @odata.nextLink of the response, None when there is none
  received,   \* history: every row the client got, in order
  first,      \* history: the request the walk began with
  scope,      \* history: the table when the walk began
  writes      \* history: the kinds of writes since the walk began, in order

vars == <<table, meta, req, stage, page, total, link, received, first, scope, writes>>
history == <<received, first, scope>>

Smaller(a, b) == IF a < b THEN a ELSE b
Larger(a, b) == IF a > b THEN a ELSE b
OrElse(value, default) == IF value = None THEN default ELSE value

-----------------------------------------------------------------------------
(* One request: parse and bound it, read a page, count, build the response *)

\* Definitions called "Slip" are wrong on purpose: each is the definition that follows
\* it with a plausible mistake, and is used only to show that a property notices.
SlipBoundedInt(value, maximum) == value # None => value \in 0 .. maximum - 1

\* _bounded_int: rejects negatives and values over the maximum
BoundedInt(value, maximum) == value # None => value \in 0 .. maximum

\* _parse and parse_query_params, then _pagination_intent
Parses(q) == ~ q.long /\ BoundedInt(q.top, MaxTop) /\ BoundedInt(q.skip, MaxSkip)

\* collection_defaults: the limit of the query, None when the collection is unbounded
Wanted(q, m) == OrElse(q.top, m.default)
Limit(q, m) == IF Wanted(q, m) = None THEN None ELSE Smaller(Wanted(q, m), m.maximum)

\* collection_defaults' own check, then the bounds _validate_intent repeats
Valid(q, m) == (Wanted(q, m) # None => Wanted(q, m) >= 0) /\ BoundedInt(Limit(q, m), MaxTop)

Accepted(q, m) == Parses(q) /\ Valid(q, m)

SlipSlice(rows, q, m) ==
  LET offset == OrElse(q.skip, 0)
  IN  SubSeq(rows, Larger(offset, 1),
             IF Limit(q, m) = None THEN Len(rows) ELSE Smaller(offset + Limit(q, m), Len(rows)))

\* apply_pagination: queryset[offset : offset + limit]
Slice(rows, q, m) ==
  LET offset == OrElse(q.skip, 0)
  IN  SubSeq(rows, offset + 1,
             IF Limit(q, m) = None THEN Len(rows) ELSE Smaller(offset + Limit(q, m), Len(rows)))

SlipResponseTop(q, m) == LET top == Smaller(OrElse(q.top, OrElse(m.default, PageSize)), MaxTop)
                         IN  IF top < 0 THEN PageSize ELSE top

\* build_odata_response: top and skip of the link, recomputed from the raw parameters
ResponseTop(q, m) ==
  LET top == Smaller(Smaller(OrElse(q.top, OrElse(m.default, PageSize)), m.maximum), MaxTop)
  IN  IF top < 0 THEN PageSize ELSE top
ResponseSkip(q) == Larger(Smaller(OrElse(q.skip, 0), MaxSkip), 0)

SlipNextLink(q, m, rows, count) ==
  LET top == ResponseTop(q, m)
      skip == ResponseSkip(q)
  IN  IF Len(rows) = top /\ skip + top <= MaxSkip /\ (count # None => skip + top < count)
      THEN [q EXCEPT !.skip = skip + top, !.long = q.grows]
      ELSE None

NextLink(q, m, rows, count) ==
  LET top == ResponseTop(q, m)
      skip == ResponseSkip(q)
  IN  IF /\ top > 0
         /\ Len(rows) = top
         /\ skip + top <= MaxSkip
         /\ count # None => skip + top < count
      THEN [q EXCEPT !.skip = skip + top, !.long = q.grows]
      ELSE None

Transition(from, to) == stage = from /\ stage' = to

\* query_as_dtos runs the row query
Fetch ==
  /\ Accepted(req, meta)
  /\ Transition("sent", "fetched")
  /\ page' = Slice(table, req, meta)
  /\ total' = None
  /\ UNCHANGED <<table, meta, req, link, history, writes>>

\* an error before any row is read
Reject ==
  /\ ~ Accepted(req, meta)
  /\ Transition("sent", "rejected")
  /\ UNCHANGED <<table, meta, req, page, total, link, history, writes>>

\* the count taken of the page, and of what follows the page's offset
SlipCountPage ==
  /\ req.count
  /\ Transition("fetched", "counted")
  /\ total' = Len(page)
  /\ UNCHANGED <<table, meta, req, page, link, history, writes>>
SlipCountRest ==
  /\ req.count
  /\ Transition("fetched", "counted")
  /\ total' = Len(table) - OrElse(req.skip, 0)
  /\ UNCHANGED <<table, meta, req, page, link, history, writes>>

\* list runs the count query without pagination, after the row query
Count ==
  /\ req.count
  /\ Transition("fetched", "counted")
  /\ total' = Len(table)
  /\ UNCHANGED <<table, meta, req, page, link, history, writes>>

Respond ==
  /\ Transition(IF req.count THEN "counted" ELSE "fetched", "answered")
  /\ link' = NextLink(req, meta, page, total)
  /\ received' = received \o page
  /\ UNCHANGED <<table, meta, req, page, total, first, scope, writes>>

-----------------------------------------------------------------------------
(* The client, and the writers of other transactions                       *)

Start(q) ==
  /\ Transition("idle", "sent")
  /\ req' = q
  /\ first' = q
  /\ scope' = table
  /\ UNCHANGED <<table, meta, page, total, link, received, writes>>

Follow ==
  /\ link # None
  /\ Transition("answered", "sent")
  /\ req' = link
  /\ UNCHANGED <<table, meta, page, total, link, history, writes>>

Finish ==
  /\ link = None
  /\ Transition("answered", "done")
  /\ UNCHANGED <<table, meta, req, page, total, link, history, writes>>

Present(r) == \E i \in 1 .. Len(table) : table[i] = r
Without(i) == SubSeq(table, 1, i - 1) \o SubSeq(table, i + 1, Len(table))
With(rows, i, r) == SubSeq(rows, 1, i) \o <<r>> \o SubSeq(rows, i + 1, Len(rows))

\* a write that matters happens while a walk is under way
Write(kind) ==
  /\ stage \in {"sent", "fetched", "counted", "answered"}
  /\ Len(writes) < MaxWrites /\ <<meta, first, scope>> \in Disturbed
  /\ writes' = Append(writes, kind)
  /\ UNCHANGED <<meta, req, stage, page, total, link, history>>

Insert(r, i) == ~ Present(r) /\ table' = With(table, i, r) /\ Write("insert")

Delete(i) == table' = Without(i) /\ Write("delete")

\* an update of a sort key, or tied rows the database returns in another order
Move(i, j) == table' = With(Without(i), j, table[i]) /\ Write("move")

-----------------------------------------------------------------------------
NoQuery == [top |-> None, skip |-> None, count |-> FALSE, long |-> FALSE, grows |-> FALSE]

Init ==
  /\ table \in Tables
  /\ meta \in Metas
  /\ req = NoQuery /\ first = NoQuery
  /\ stage = "idle"
  /\ page = <<>> /\ received = <<>> /\ scope = <<>>
  /\ total = None /\ link = None
  /\ writes = <<>>

Service == Fetch \/ Reject \/ Count \/ Respond
Client == Follow \/ Finish
Writer ==
  \/ \E r \in Rows, i \in 0 .. Len(table) : Insert(r, i)
  \/ \E i \in 1 .. Len(table) : Delete(i)
  \/ \E i \in 1 .. Len(table), j \in 0 .. Len(table) - 1 : Move(i, j)

Next == (\E q \in Requests : Start(q)) \/ Service \/ Client \/ Writer

\* the worker answers a request it took, and the client keeps walking
Fairness == WF_vars(Service) /\ WF_vars(Client)

Spec == Init /\ [][Next]_vars /\ Fairness

-----------------------------------------------------------------------------
(* Properties                                                              *)

Stages == {"idle", "sent", "fetched", "counted", "answered", "rejected", "done"}

TypeOK ==
  /\ table \in Seq(Rows)
  /\ meta \in Metas
  /\ req \in Query /\ first \in Query
  /\ stage \in Stages
  /\ page \in Seq(Rows)
  /\ total \in Nat \union {None}
  /\ link \in Query \union {None}
  /\ received \in Seq(Rows) /\ scope \in Seq(Rows)
  /\ writes \in Seq({"insert", "delete", "move"})

Offset(q) == OrElse(q.skip, 0)
Among(r, rows) == \E i \in 1 .. Len(rows) : rows[i] = r
Wrote(kind) == \E i \in 1 .. Len(writes) : writes[i] = kind

\* The rows that a walk is to return
Expected(r) == \E i \in 1 .. Len(scope) : i > Offset(first) /\ scope[i] = r

\* The walk ended only because $skip cannot go past MAX_SKIP_VALUE
Truncated == Len(page) = ResponseTop(req, meta) /\ ResponseSkip(req) + Len(page) > MaxSkip

\* build_odata_response recomputes $top and $skip from the raw parameters and the
\* selector's limits: whatever it puts in a nextLink, the parser and the executor
\* accept when the client sends it back, as long as urlencode did not lengthen the
\* query string over the parser's limit.
LinkNeverRejected == stage = "rejected" /\ req # first => first.grows

\* Offsets shift when rows are written between two pages.  Deleting rows or moving
\* none can make the walk miss rows, but never return one twice.
NoRowTwice == ~ Wrote("insert") /\ ~ Wrote("move") => Injective(received)

\* Inserting rows can make the walk return a row twice, but it never makes it miss
\* one of those that were there when it began and were not out of $skip's reach.
NoRowMissed ==
  stage = "done" /\ ~ Wrote("delete") /\ ~ Wrote("move") =>
    \/ Limit(first, meta) = 0
    \/ Truncated
    \/ \A r \in Rows : Expected(r) => Among(r, received)

\* A nextLink leads forward: every request of a walk skips further than the one
\* before it, so pages of no rows cannot make the client loop.
SkipAdvances == [][stage' = "sent" /\ stage = "answered" => Offset(req') > Offset(req)]_vars

\* Whatever writers do, a client that keeps following links gets to the end.
WalkEnds == stage = "sent" ~> stage \in {"done", "rejected"}

\* Until somebody writes to the table, the walk implements the ordered scan.
Quiet == writes = <<>>
Scan == INSTANCE OrderedScan WITH
  Rows <- Rows,
  scope <- IF Quiet THEN SubSeq(scope, ResponseSkip(first) + 1, Len(scope)) ELSE <<>>,
  reach <- IF stage = "idle" \/ ~ Quiet THEN 0 ELSE MaxSkip + 1 - ResponseSkip(first),
  empty <- stage # "idle" /\ Quiet /\ Limit(first, meta) = 0,
  delivered <- IF Quiet THEN received ELSE <<>>,
  status <- CASE ~ Quiet -> "disturbed"
              [] Quiet /\ stage = "idle" -> "idle"
              [] Quiet /\ stage = "done" -> "closed"
              [] Quiet /\ stage = "rejected" -> "failed"
              [] OTHER -> "open"
ImplementsOrderedScan == Scan!Spec

-----------------------------------------------------------------------------
(* The inductive invariant behind LinkNeverRejected and SkipAdvances       *)

\* A request that was answered was acceptable
Answered == stage \in {"fetched", "counted", "answered", "done"} => Accepted(req, meta)

\* A link is acceptable because the request it was made for was, and leads forward
LinkOK ==
  /\ link # None => Accepted(link, meta) \/ first.grows
  /\ stage = "answered" /\ link # None => Offset(link) > Offset(req)

\* Only the skip and, through it, the length of a request change along a walk
SameWalk ==
  /\ stage = "idle" => link = None
  /\ req.grows = first.grows
  /\ link # None => link.grows = first.grows
  /\ stage = "sent" /\ req # first => Accepted(req, meta) \/ first.grows

IInv == TypeOK /\ Answered /\ LinkOK /\ SameWalk /\ LinkNeverRejected

-----------------------------------------------------------------------------
(* The inductive invariant behind NoRowTwice and NoRowMissed               *)

\* What the client has or is about to get, and how many rows of the table the walk
\* leaves behind it
Reading == stage \in {"fetched", "counted"}
Walking == stage = "sent" \/ Reading \/ (stage = "answered" /\ link # None)
Given == IF Reading THEN received \o page ELSE received
Position ==
  IF stage = "answered" THEN Offset(link)
  ELSE IF Reading THEN Offset(req) + Len(page) ELSE Offset(req)

\* The requests of a walk ask for the same $top, and only a count leaves a total
WalkOK ==
  /\ stage = "idle" => received = <<>>
  /\ req.top = first.top
  /\ link # None => link.top = first.top
  /\ stage = "fetched" => total = None
  /\ stage = "counted" => total # None
  /\ stage = "done" => link = None

\* When rows are only deleted, what lies ahead of the walk was not given yet
AheadOK ==
  ~ Wrote("insert") /\ ~ Wrote("move") =>
    /\ Injective(table)
    /\ Injective(Given)
    /\ Walking => \A i \in 1 .. Len(table) : i > Position => ~ Among(table[i], Given)

\* A row still to come is ahead of the walk; if a page without it was read, that page is
\* full, and if the rows were counted as well, the count says that there are more
ToCome(r) ==
  /\ \E i \in 1 .. Len(table) : i > Position /\ table[i] = r
  /\ Reading => Len(page) = Limit(req, meta)
  /\ stage = "counted" => total > Position

\* When rows are only inserted, each one of the scope was given or is to come
BehindOK ==
  ~ Wrote("delete") /\ ~ Wrote("move") =>
    /\ Walking => \A r \in Rows : Expected(r) => Among(r, Given) \/ ToCome(r)
    /\ stage \in {"answered", "done"} /\ link = None =>
         \/ Limit(first, meta) = 0
         \/ Truncated
         \/ \A r \in Rows : Expected(r) => Among(r, received)

Progress == WalkOK /\ AheadOK /\ BehindOK

\* A request of the walk was accepted, and how many rows of the table it leaves behind it
Began == stage \in {"fetched", "counted", "answered", "done"} \/ req # first
Place ==
  IF stage \in {"fetched", "counted", "answered", "done"} THEN Offset(req) + Len(page)
  ELSE Offset(req)

\* Until somebody writes the client has the first rows of the scope, in order
StaticOK ==
  Quiet =>
    /\ scope = IF stage = "idle" THEN <<>> ELSE table
    /\ Offset(req) >= Offset(first)
    /\ Place = Offset(first) + Len(Given)
    /\ stage = "answered" /\ link # None => Position = Place
    /\ ~ Began => Given = <<>>
    /\ Began =>
         /\ Offset(first) \in 0 .. MaxSkip
         /\ \A k \in 1 .. Len(Given) :
              Offset(first) + k \in 1 .. Len(scope) /\ Given[k] = scope[Offset(first) + k]

=============================================================================
