--------------------------- MODULE RelationLoading ---------------------------
(***************************************************************************)
(* How a query with $expand is materialized: the rows of the root query,   *)
(* and for each relation of the expand tree the children of every object   *)
(* loaded above it.                                                        *)
(*                                                                         *)
(* There are two ways.  The hybrid builder reads plain values: forward     *)
(* relations in the query of their parents, reverse foreign keys in one    *)
(* query each, many-to-many relations in two (the through table, then the  *)
(* related rows).  For what it does not support, Django's prefetch loads   *)
(* model instances.  Neither runs in a transaction of its own: other       *)
(* transactions commit between any two queries.                            *)
(*                                                                         *)
(* All rows are in one table here.  A row has a foreign key `fk', and      *)
(* `links' are the rows of a through table, as <<from, to>>.               *)
(***************************************************************************)
EXTENDS Integers, Sequences, FiniteSets

CONSTANTS
  Objects,    \* primary keys; $orderby sorts by them
  None,       \* a null key, an absent $top, a relation that is not loaded yet
  Intents,    \* expand trees, with the root query
  Databases,  \* what the database may hold when the request begins
  MaxDepth,   \* MAX_DTO_RECURSION_DEPTH and the depth bound of _validate_intent, 10
  MaxWrites   \* bound on the transactions of others during one request

Kinds == {"forward", "reverse", "m2m", "m2m_back"}

\* A relation of the tree: `above' is the node it is expanded from, 0 for the root.
\* `same' tells that a many-to-many relates a model to itself, `selected' that the
\* $select above names the relation too.  A node is not plain when its DTO has properties
\* or its configuration has aliases, and `lists' tells that its configuration has the
\* expandable_fields below it instead of leaving them to the annotations of its DTO.
Node == [above : Nat, kind : Kinds, same : BOOLEAN, selected : BOOLEAN, plain : BOOLEAN,
         lists : BOOLEAN, filtered : BOOLEAN, descending : BOOLEAN, limit : Nat \union {None}]
Intent == [nodes : Seq(Node), values : BOOLEAN, limit : Nat \union {None}]

Database == [alive : SUBSET Objects,  \* the rows there are
             ok : SUBSET Objects,     \* those that nested filters accept
             fk : [Objects -> Objects \union {None}],
             links : SUBSET (Objects \X Objects)]

\* Foreign keys and links of the database are kept by its constraints
Consistent(d) ==
  /\ d.ok \subseteq d.alive
  /\ \A o \in Objects : d.fk[o] # None => {o, d.fk[o]} \subseteq d.alive
  /\ d.links \subseteq d.alive \X d.alive

\* s lists set S in the order of the keys
Lists(s, S, descending) ==
  /\ \A x \in S : \E i \in 1 .. Len(s) : s[i] = x
  /\ \A i, j \in 1 .. Len(s) : i < j => IF descending THEN s[i] > s[j] ELSE s[i] < s[j]
Listing(S, descending) == CHOOSE s \in [1 .. Cardinality(S) -> S] : Lists(s, S, descending)

ASSUME ObjectAssumption ==
  /\ Objects \subseteq Nat /\ IsFiniteSet(Objects)
  /\ None \notin Nat /\ None \notin [Objects -> Objects \union {None}]
  /\ \A S \in SUBSET Objects : None \notin [S -> Seq(Objects)]
ASSUME IntentAssumption ==
  /\ Intents \subseteq Intent
  /\ \A i \in Intents : \A n \in 1 .. Len(i.nodes) : i.nodes[n].above < n
ASSUME DatabaseAssumption == Databases \subseteq Database /\ \A d \in Databases : Consistent(d)
ASSUME BoundAssumption == MaxDepth \in Nat /\ MaxWrites \in Nat

VARIABLES
  db,
  intent,
  stage,     \* "received", "accepted", "loading", "done" or "rejected"
  todo,      \* the relations to load, in order
  through,   \* the pairs of parents and children read from a through table, or None
  rows,      \* the rows of the root query
  read,      \* for each node, the foreign keys its rows had when they were read
  attached,  \* for each relation None, or the children of each object above it
  past       \* history: the database since the request began, in order

vars == <<db, intent, stage, todo, through, rows, read, attached, past>>

-----------------------------------------------------------------------------
(* The expand tree                                                         *)

Nodes == 1 .. Len(intent.nodes)
At(n) == intent.nodes[n]
Children(n) == {m \in Nodes : At(m).above = n}
Level(n) == LET level[m \in 0 .. Len(intent.nodes)] == IF m = 0 THEN 0 ELSE level[At(m).above] + 1
            IN  level[n]

\* _validate_intent: the depth, and no pagination of a single object
Valid == \A n \in Nodes : Level(n) <= MaxDepth /\ (At(n).kind = "forward" => At(n).limit = None)

\* _hybrid_supported
Supported ==
  \A n \in Nodes : /\ At(n).plain
                   /\ At(n).limit = None
                   /\ At(n).kind = "forward" => ~ At(n).filtered /\ Children(n) = {}
Hybrid == intent.values /\ Supported

\* The hybrid builder knows the DTOs of nested relations from the configuration only
Forgotten(n) == Hybrid /\ At(n).above # 0 /\ ~ At(At(n).above).lists

\* Forward relations loaded by the query of the objects above them
Joined(n) == At(n).kind = "forward" /\ ~ At(n).filtered /\ Children(n) = {}

\* The other relations expanded from n in the order they are loaded: as they were asked
\* for, but the hybrid builder takes the many-to-many ones last
IsM2M(n) == At(n).kind \in {"m2m", "m2m_back"}
Below(n) ==
  LET Last == {m \in Children(n) : Hybrid /\ IsM2M(m)}
  IN  Listing({m \in Children(n) \ Last : ~ Joined(m)}, FALSE) \o Listing(Last, FALSE)

-----------------------------------------------------------------------------
(* Queries                                                                 *)

Elements(s) == {s[i] : i \in 1 .. Len(s)}
Cut(s, limit) == IF limit # None /\ limit < Len(s) THEN SubSeq(s, 1, limit) ELSE s

Matching(d, n) == IF At(n).filtered THEN d.alive \intersect d.ok ELSE d.alive

\* The objects loaded at a node, once each
Loaded(n) ==
  IF n = 0 THEN Elements(rows) ELSE UNION {Elements(attached[n][p]) : p \in DOMAIN attached[n]}
Parents(n) == IF At(n).above > 0 /\ attached[At(n).above] = None THEN {} ELSE Loaded(At(n).above)

\* child c belongs to parent p in relation n
Belongs(d, n, p, c) ==
  CASE At(n).kind = "forward" -> d.fk[p] = c
    [] At(n).kind = "reverse" -> d.fk[c] = p
    [] At(n).kind = "m2m" -> <<p, c>> \in d.links
    [] At(n).kind = "m2m_back" -> <<c, p>> \in d.links

\* Definitions called "Slip" are wrong on purpose: each is the definition that follows
\* it with a plausible mistake, and is used only to show that a property notices.
SlipSourceFirst(n) == TRUE

\* The to-many relations that a values query of node n joins because they are selected;
\* the rows related in a many-to-many are collected by key
Multiplying(n) ==
  IF Hybrid /\ (n = 0 \/ At(n).kind = "reverse")
  THEN {m \in Children(n) : At(m).selected /\ At(m).kind # "forward"} ELSE {}

\* A left join: a row of the result for each choice of related rows
Copies(n, o) ==
  LET related(m) == {c \in Objects : Belongs(db, m, o, c)}
      values(m) == IF related(m) = {} THEN {None} ELSE related(m)
  IN  Cardinality({choice \in [Multiplying(n) -> Objects \union {None}] :
                     \A m \in Multiplying(n) : choice[m] \in values(m)})
Result(s, n) ==
  LET result[i \in 0 .. Len(s)] ==
        IF i = 0 THEN <<>> ELSE result[i - 1] \o [copy \in 1 .. Copies(n, s[i]) |-> s[i]]
  IN  IF Multiplying(n) = {} THEN s ELSE result[Len(s)]

\* get_m2m_info: is the first column of the through table the source?
SourceFirst(n) == At(n).same \/ At(n).kind = "m2m"
ThroughPairs(d, n) ==
  {pair \in Objects \X Objects :
     /\ pair[1] \in Parents(n)
     /\ (IF SourceFirst(n) THEN pair ELSE <<pair[2], pair[1]>>) \in d.links}

\* the filter of a relation loaded in two queries forgotten
SlipFound(n, p) ==
  CASE Forgotten(n) -> {}
    [] ~ Forgotten(n) /\ At(n).kind = "forward" -> {c \in Matching(db, n) : c = read[At(n).above][p]}
    [] ~ Forgotten(n) /\ IsM2M(n) /\ through # None -> {c \in db.alive : <<p, c>> \in through}
    [] OTHER -> {c \in Matching(db, n) : Belongs(db, n, p, c)}

\* the children of p a query for relation n finds
Found(n, p) ==
  CASE Forgotten(n) -> {}
    [] ~ Forgotten(n) /\ At(n).kind = "forward" -> {c \in Matching(db, n) : c = read[At(n).above][p]}
    [] ~ Forgotten(n) /\ IsM2M(n) /\ through # None -> {c \in Matching(db, n) : <<p, c>> \in through}
    [] OTHER -> {c \in Matching(db, n) : Belongs(db, n, p, c)}

\* the limit on all the children instead of the children of each parent
SlipAnswer(n) ==
  LET all == Listing(UNION {Found(n, p) : p \in Parents(n)}, At(n).descending)
      kept == Elements(Cut(all, At(n).limit))
  IN  [p \in Parents(n) |-> Listing(Found(n, p) \intersect kept, At(n).descending)]

Answer(n) ==
  [p \in Parents(n) |-> Cut(Result(Listing(Found(n, p), At(n).descending), n), At(n).limit)]

SlipKey(m, o) == <<db.fk[o]>>
Key(m, o) == IF db.fk[o] = None \/ Forgotten(m) THEN <<>> ELSE <<db.fk[o]>>

\* the objects o of node n were read: with them come the joined relations
WithJoined(lists, n, objects) ==
  [m \in Nodes |-> IF m \in Children(n) /\ Joined(m) THEN [o \in objects |-> Key(m, o)] ELSE lists[m]]

-----------------------------------------------------------------------------
(* The request                                                             *)

\* prepare
Prepare ==
  /\ stage = "received"
  /\ stage' = IF Valid THEN "accepted" ELSE "rejected"
  /\ UNCHANGED <<db, intent, todo, through, rows, read, attached, past>>

\* the root query
Rows ==
  /\ stage = "accepted"
  /\ stage' = "loading"
  /\ rows' = Cut(Result(Listing(db.alive, FALSE), 0), intent.limit)
  /\ read' = [read EXCEPT ![0] = db.fk]
  /\ attached' = WithJoined(attached, 0, Elements(rows'))
  /\ todo' = Below(0)
  /\ UNCHANGED <<db, intent, through, past>>

SlipTooDeep(n) == Hybrid /\ Level(n) >= MaxDepth

\* what _attach_reverse_fk_children and _attach_m2m_children do before anything else
TooDeep(n) == Hybrid /\ Level(n) - 1 >= MaxDepth

Attach(n, lists) ==
  LET found == UNION {Elements(lists[p]) : p \in DOMAIN lists} IN
    /\ attached' = IF TooDeep(n) THEN attached
                   ELSE WithJoined([attached EXCEPT ![n] = lists], n, found)
    /\ read' = [read EXCEPT ![n] = db.fk]
    /\ todo' = (IF found = {} THEN <<>> ELSE Below(n)) \o Tail(todo)

InTwoQueries(n) == Hybrid /\ IsM2M(n) /\ ~ Forgotten(n)

\* a query for each parent
SlipLoad ==
  /\ stage = "loading" /\ todo # <<>>
  /\ LET n == Head(todo)
         old == IF attached[n] = None THEN << >> ELSE attached[n]
         left == {p \in Parents(n) : attached[n] # None => p \notin DOMAIN attached[n]}
     IN  IF left = {}
         THEN todo' = Below(n) \o Tail(todo) /\ UNCHANGED attached
         ELSE /\ \E p \in left :
                   attached' = [attached EXCEPT ![n] =
                                 [q \in {p} \union (Parents(n) \ left) |-> IF q = p THEN Answer(n)[p] ELSE old[q]]]
              /\ UNCHANGED todo
  /\ UNCHANGED <<db, intent, stage, through, rows, read, past>>

\* one query loads the relation; without parents, or for a forgotten one, none is made
Load ==
  /\ stage = "loading" /\ todo # <<>>
  /\ InTwoQueries(Head(todo)) => Parents(Head(todo)) = {}
  /\ Attach(Head(todo), Answer(Head(todo)))
  /\ UNCHANGED <<db, intent, stage, through, rows, past>>

\* Query 1 of _attach_m2m_children
Through ==
  /\ stage = "loading" /\ todo # <<>> /\ through = None
  /\ InTwoQueries(Head(todo)) /\ Parents(Head(todo)) # {}
  /\ LET pairs == ThroughPairs(db, Head(todo)) IN
       IF pairs = {}
       THEN /\ Attach(Head(todo), [p \in Parents(Head(todo)) |-> <<>>])
            /\ UNCHANGED through
       ELSE through' = pairs /\ UNCHANGED <<attached, read, todo>>
  /\ UNCHANGED <<db, intent, stage, rows, past>>

\* Query 2
Related ==
  /\ through # None
  /\ Attach(Head(todo), Answer(Head(todo)))
  /\ through' = None
  /\ UNCHANGED <<db, intent, stage, rows, past>>

Finish ==
  /\ stage = "loading" /\ todo = <<>>
  /\ stage' = "done"
  /\ UNCHANGED <<db, intent, todo, through, rows, read, attached, past>>

-----------------------------------------------------------------------------
(* Other transactions                                                      *)

Commit(d) ==
  /\ stage \in {"accepted", "loading"}
  /\ Len(past) <= MaxWrites
  /\ d # db
  /\ db' = d
  /\ past' = Append(past, d)
  /\ UNCHANGED <<intent, stage, todo, through, rows, read, attached>>

Reassign(o, p) == {o, p} \subseteq db.alive /\ Commit([db EXCEPT !.fk[o] = p])
Link(o, p) == {o, p} \subseteq db.alive /\ Commit([db EXCEPT !.links = @ \union {<<o, p>>}])
Unlink(o, p) == Commit([db EXCEPT !.links = @ \ {<<o, p>>}])
Change(o) ==
  o \in db.alive /\ Commit([db EXCEPT !.ok = IF o \in @ THEN @ \ {o} ELSE @ \union {o}])

\* keys that point to the row are set to null, its links go with it
Delete(o) ==
  Commit([alive |-> db.alive \ {o}, ok |-> db.ok \ {o},
          fk |-> [x \in Objects |-> IF o \in {x, db.fk[x]} THEN None ELSE db.fk[x]],
          links |-> {link \in db.links : o \notin {link[1], link[2]}}])

Init ==
  /\ db \in Databases
  /\ intent \in Intents
  /\ stage = "received"
  /\ todo = <<>> /\ rows = <<>>
  /\ through = None
  /\ read = [n \in 0 .. Len(intent.nodes) |-> None]
  /\ attached = [n \in 1 .. Len(intent.nodes) |-> None]
  /\ past = <<db>>

Service == Prepare \/ Rows \/ Load \/ Through \/ Related \/ Finish
Others == \E o \in Objects :
            \/ Change(o) \/ Delete(o)
            \/ \E p \in Objects : Reassign(o, p) \/ Link(o, p) \/ Unlink(o, p)

Next == Service \/ Others

Spec == Init /\ [][Next]_vars

-----------------------------------------------------------------------------
(* Properties                                                              *)

TypeOK ==
  /\ db \in Database /\ intent \in Intents
  /\ stage \in {"received", "accepted", "loading", "done", "rejected"}
  /\ todo \in Seq(Nodes)
  /\ through = None \/ through \subseteq Objects \X Objects
  /\ rows \in Seq(Objects)
  /\ DOMAIN read = 0 .. Len(intent.nodes)
  /\ \A n \in DOMAIN read : read[n] = None \/ read[n] \in [Objects -> Objects \union {None}]
  /\ DOMAIN attached = Nodes
  /\ \A n \in Nodes : attached[n] = None \/ \E S \in SUBSET Objects : attached[n] \in [S -> Seq(Objects)]
  /\ past \in Seq(Database)

Moments == 1 .. Len(past)

\* The relation of an object: the rows of it, filtered, in the requested order, and cut
Expansion(n, p) ==
  Cut(Listing({c \in Matching(db, n) : Belongs(db, n, p, c)}, At(n).descending), At(n).limit)

\* "Equivalent expansion semantics" (openspec/specs/safe-selector-queries/spec.md:47):
\* whichever way was taken, without concurrent writes every row is there once, and the
\* expanded relation of every object is the relation, filtered, in the requested order,
\* and cut for each parent.  The hybrid path is known to forget what is nested in a
\* relation that is configured by its DTO class alone, and to join a to-many relation that
\* is selected as well as expanded; it does so nowhere else.
EquivalentExpansion ==
  stage = "done" /\ Len(past) = 1 =>
    /\ Multiplying(0) = {} => rows = Cut(Listing(db.alive, FALSE), intent.limit)
    /\ \A n \in Nodes : ~ Forgotten(n) /\ Multiplying(n) = {} => \A p \in Parents(n) :
         attached[n][p] = Expansion(n, p)

\* No relation of an accepted query is left out of the answer, down to the last level
\* the validation lets through.
Complete ==
  stage = "done" =>
    \A n \in Nodes : Parents(n) # {} => attached[n] # None /\ DOMAIN attached[n] = Parents(n)

\* Whatever is committed between the queries, a child is attached to a parent only if
\* it belonged to it, and later, or at that time, passed the filter.  For a relation
\* loaded by one query that is the same moment; a forward relation that is prefetched,
\* and a many-to-many one, look at the key first and at the row later.
InTwoSteps(n) == InTwoQueries(n) \/ (At(n).kind = "forward" /\ ~ Joined(n))
Genuine(n, p, c) ==
  \E i, j \in Moments :
    /\ i <= j /\ (InTwoSteps(n) \/ i = j)
    /\ Belongs(past[i], n, p, c)
    /\ c \in Matching(past[j], n)
NothingInvented ==
  \A n \in Nodes : attached[n] # None =>
    \A p \in DOMAIN attached[n] : \A c \in Elements(attached[n][p]) : Genuine(n, p, c)

\* And a child that belonged to the parent and passed the filter all the time is there,
\* or the parent has as many as were asked for, but for the relations that are forgotten.
Steady(n, p, c) == \A i \in Moments : Belongs(past[i], n, p, c) /\ c \in Matching(past[i], n)
Holds(n, s, c) == c \in Elements(s) \/ (At(n).limit # None /\ Len(s) = At(n).limit)
NothingLost ==
  \A n \in Nodes : attached[n] # None /\ ~ Forgotten(n) =>
    \A p \in DOMAIN attached[n] : \A c \in Objects :
      Steady(n, p, c) => Holds(n, attached[n][p], c)

\* A row whose foreign key is moved while the parents are loaded appears under one of
\* them at most, and no child appears twice under a parent unless a join multiplies it.
OneParent ==
  \A n \in Nodes : attached[n] # None /\ Multiplying(n) = {} =>
    \A p, q \in DOMAIN attached[n] :
      \A i \in 1 .. Len(attached[n][p]), j \in 1 .. Len(attached[n][q]) :
        attached[n][p][i] = attached[n][q][j] =>
          IF p = q THEN i = j ELSE At(n).kind # "reverse"

-----------------------------------------------------------------------------
(* The inductive invariant                                                 *)

\* The through table of a model related to itself is read in the direction of its columns,
\* which is the right one only from the side that declares the relation.
Oriented == Hybrid => \A n \in Nodes : At(n).same => At(n).kind # "m2m_back"

PastOK == Len(past) > 0 /\ past[Len(past)] = db /\ Consistent(db)

\* The keys in memory are those of some moment
ReadOK == \A n \in 0 .. Len(intent.nodes) :
            read[n] # None => \E i \in Moments : read[n] = past[i].fk

\* Only an accepted query is loaded, and nothing is loaded before or after
StageOK ==
  /\ stage \in {"accepted", "loading", "done"} => Valid
  /\ stage \in {"received", "accepted", "rejected"} => rows = <<>> /\ \A n \in Nodes : attached[n] = None
  /\ todo # <<>> => stage = "loading"

\* What is left to load has its parents loaded
TodoOK == \A i \in 1 .. Len(todo) : ~ Joined(todo[i]) /\ read[At(todo[i]).above] # None

\* Whatever has parents is loaded or left to load
Covered ==
  stage \in {"loading", "done"} =>
    \A n \in Nodes : Parents(n) # {} =>
      \/ \E i \in 1 .. Len(todo) : todo[i] = n
      \/ attached[n] # None /\ DOMAIN attached[n] = Parents(n)

\* The pairs in memory are those of the relation to load next
ThroughOK ==
  through # None =>
    /\ todo # <<>> /\ InTwoQueries(Head(todo)) /\ Parents(Head(todo)) # {}
    /\ \A pair \in through : pair[1] \in Parents(Head(todo))

\* They were links at some moment, and hold those that were at all
PairsOK ==
  through # None =>
    /\ \A pair \in through : \E i \in Moments : Belongs(past[i], Head(todo), pair[1], pair[2])
    /\ \A p \in Parents(Head(todo)), c \in Objects :
         (\A i \in Moments : Belongs(past[i], Head(todo), p, c)) => <<p, c>> \in through

\* Without concurrent writes what is loaded is what EquivalentExpansion says
Exact ==
  Len(past) = 1 =>
    /\ stage \in {"loading", "done"} /\ Multiplying(0) = {} => rows = Cut(Listing(db.alive, FALSE), intent.limit)
    /\ \A n \in Nodes : attached[n] # None /\ ~ Forgotten(n) /\ Multiplying(n) = {} =>
         \A p \in DOMAIN attached[n] : attached[n][p] = Expansion(n, p)

IInv ==
  /\ TypeOK /\ PastOK /\ ReadOK /\ StageOK /\ TodoOK /\ Covered /\ ThroughOK /\ OneParent
  /\ Oriented => PairsOK /\ NothingInvented /\ NothingLost /\ Exact

=============================================================================
