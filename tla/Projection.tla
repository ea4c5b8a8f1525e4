----------------------------- MODULE Projection -----------------------------
(***************************************************************************)
(* What an object of an answer holds.  A selector reads an object and the  *)
(* relations expanded from it in several queries, builds DTOs from the     *)
(* rows and, for a view, serializes the DTOs.  Three paths load the rows:  *)
(* plain values with the builder of hybrid values, plain values without    *)
(* relations, and model instances.  Instances are loaded with only(): a    *)
(* column that was left out is read later, by a query of its own, when the *)
(* projection or a permission asks for it.  Other transactions write       *)
(* between any two queries.                                                *)
(*                                                                         *)
(* Which rows belong together is the subject of RelationLoading.  Here     *)
(* there is one row for the root and one for every relation of the expand  *)
(* tree, each with the version that its last write gave it.  A value of an *)
(* answer is the version of the row when its column was read.              *)
(***************************************************************************)
EXTENDS Naturals, Sequences

CONSTANTS
  Asks,        \* the requests, each with the levels of the selector it reaches
  None,        \* nothing selected, no allowed_fields, not read yet
  Pk,          \* the name of the primary key of every model
  Owner,       \* the column of the root that object permissions look at
  MaxVersion   \* bound on the writes of each row

(***************************************************************************)
(* A request names the relations to expand by their paths from the root,   *)
(* which is the empty path.  At each path there is a level: a model, its   *)
(* DTO and the configuration of the relation.                              *)
(*   kind       how the relation leads from the level above                *)
(*   columns    the columns of the model, those of foreign keys included   *)
(*   foreign    the columns of foreign keys, as author_id for author       *)
(*   onetoone   those of them that are one-to-one                          *)
(*   computed   for each property of the model the column it reads         *)
(*   dto        the fields of the DTO that hold plain values               *)
(*   aliases    for each alias the column or property it stands for        *)
(*   allowed    allowed_fields                                             *)
(*   annotated  the names of field_annotations                             *)
(*   only       only_fields                                                *)
(*   hidden     the excluded fields of the DTO, the password included      *)
(*   exclude    Meta.exclude of the serializer in charge of the level      *)
(*   link       the foreign key between the level and the one above        *)
(***************************************************************************)
Kinds == {"root", "forward", "reverse", "m2m"}
Routes == {"dtos", "dicts", "list", "retrieve"}

Root == <<>>
Above(p) == SubSeq(p, 1, Len(p) - 1)
Private == {"password"}

VARIABLES
  ask,
  stage,     \* "received", "loading", "checking", "projecting", "projected", "done",
             \* "forbidden", "rejected" or "crashed"
  version,   \* the version of each row in the database
  read,      \* the version each row had when its query ran
  late,      \* for each row, the versions at which deferred columns were read
  checked,   \* the version of the owner that the permission saw
  answer,    \* for each level the value of each name the DTO or the dictionary has
  response   \* the same after serialization

vars == <<ask, stage, version, read, late, checked, answer, response>>

Paths == ask.expand
Level(p) == ask.levels[p]
Below(p) == {q \in Paths : q # Root /\ Above(q) = p}
Forward(p) == {q \in Below(p) : Level(q).kind = "forward"}

ASSUME AskAssumption ==
  \A a \in Asks :
    /\ a.route \in Routes /\ Root \in a.expand
    /\ DOMAIN a.select = a.expand
    /\ \A p \in a.expand \ {Root} : Above(p) \in a.expand
ASSUME LevelAssumption ==
  \A a \in Asks :
    \A p \in DOMAIN a.levels :
      LET level == a.levels[p]
      IN /\ level.kind \in Kinds
         /\ Pk \in level.columns
         /\ level.onetoone \subseteq level.foreign /\ level.foreign \subseteq level.columns
         \* an empty allowed_fields means all to the one path and nothing to the other, and
         \* the mapping of names to aliases knows one alias for a column
         /\ level.allowed # {}
         /\ \A m, n \in DOMAIN level.aliases :
              m # n => level.aliases[m] # level.aliases[n]
         /\ \A n \in DOMAIN level.aliases :
              level.aliases[n] \in level.columns \union DOMAIN level.computed
         \* a class has one attribute of a name, and an annotation may not hide one
         /\ level.columns \intersect DOMAIN level.computed = {}
         /\ level.annotated \intersect (level.columns \union DOMAIN level.computed) = {}
         /\ level.kind = "root" <=> p = Root
         /\ p = Root => Owner \in level.columns
         /\ p # Root /\ level.kind = "forward" /\ Above(p) \in DOMAIN a.levels =>
              level.link \in a.levels[Above(p)].columns
ASSUME BoundAssumption == MaxVersion \in Nat

-----------------------------------------------------------------------------
(* The prepared query                                                      *)

\* selection_for_policy: the names selected at a level, or None for all
Selected(p) ==
  IF ask.select[p] # None /\ "*" \notin ask.select[p] THEN ask.select[p] ELSE Level(p).allowed

\* resolve_field_alias, and the column a name is read from
Resolve(p, n) == IF n \in DOMAIN Level(p).aliases THEN Level(p).aliases[n] ELSE n
Column(p, n) ==
  LET c == Resolve(p, n)
  IN  IF c \in DOMAIN Level(p).computed THEN Level(p).computed[c] ELSE c

\* _validate_intent: the relations may be expanded, the names selected
Valid ==
  \A p \in Paths :
    /\ p \in DOMAIN ask.levels
    /\ p \in ask.paged => Level(p).kind \in {"root", "reverse", "m2m"}
    /\ Selected(p) # None =>
         \A n \in Selected(p) :
           /\ Resolve(p, n) \notin Private
           /\ IF Level(p).allowed # None
              THEN n \in Level(p).allowed
              ELSE Resolve(p, n) \in Level(p).columns \union DOMAIN Level(p).computed

\* _hybrid_supported: neither aliases nor properties, no page of a relation, and
\* forward relations that end the path and have no filter
Supported ==
  \A p \in Paths :
    /\ Level(p).aliases = <<>>
    /\ Level(p).dto \intersect DOMAIN Level(p).computed = {}
    /\ p # Root => p \notin ask.paged
    /\ Level(p).kind = "forward" => p \notin ask.filtered /\ Below(p) = {}

\* _materialize: the builder of hybrid values is tried first; retrieve() never does
Hybrid == ask.values /\ ask.route # "retrieve" /\ Paths # {Root} /\ Supported

\* Dictionaries without relations and properties are the rows of .values()
Raw ==
  /\ ask.route = "dicts" /\ ~ Hybrid /\ Paths = {Root}
  /\ \A n \in IF Selected(Root) = None THEN Level(Root).dto ELSE Selected(Root) :
       Resolve(Root, n) \notin DOMAIN Level(Root).computed

-----------------------------------------------------------------------------
(* The columns of the queries                                              *)
(* Definitions called "Slip" are wrong on purpose: each is the definition  *)
(* it is named for with a mistake the properties must notice.              *)

\* A forward relation that is loaded by the query of the level above
Joined(p) == Level(p).kind = "forward" /\ p \notin ask.filtered /\ Below(p) = {}

\* The foreign keys that lead on from a level, and back from it
Keys(p) == {Level(q).link : q \in Forward(p)}
Connector(p) == IF Level(p).kind = "reverse" THEN {Level(p).link} ELSE {}

\* _collect_values_fields and _collect_related_fields.  Only children know their DTO;
\* without a selection the root takes the fields of the model, foreign keys under the
\* names of their relations
ValuesFields(p) ==
  LET own == IF Selected(p) # None THEN Selected(p) \intersect Level(p).columns
             ELSE IF p = Root THEN Level(p).columns \ Level(p).foreign
             ELSE Level(p).dto \intersect Level(p).columns
  IN  {Pk} \union own \union Keys(p) \union Connector(p)

\* _apply_selects
SlipSelectFields(p) == {Pk} \union (Selected(p) \intersect Level(p).columns) \union Keys(p)
SelectFields(p) ==
  {Pk} \union ({Resolve(p, n) : n \in Selected(p)} \intersect Level(p).columns) \union Keys(p)

\* _build_prefetch_object: rows are grouped by the foreign key, which is never deferred
GroupedBy(p) == Connector(p)

\* _handle_related_model_fields: all of a model with properties, the configured columns, or
\* those that fields of the DTO are named for
RelatedFields(p) ==
  IF Level(p).computed # <<>> THEN Level(p).columns
  ELSE IF Level(p).only # None THEN {Pk} \union Level(p).only
  ELSE {Pk} \union (Level(p).dto \intersect Level(p).columns)

\* _apply_optimizations: without a selection all columns of the level itself
ModelFields(p) ==
  IF Joined(p) THEN RelatedFields(p)
  ELSE IF Selected(p) = None THEN Level(p).columns
  ELSE SelectFields(p) \union GroupedBy(p)

Loaded(p) == IF Hybrid THEN ValuesFields(p) ELSE ModelFields(p)

\* ensure_field_annotations: annotations come when they are named, with a query of
\* model instances or of plain rows; the hybrid builder does not list them
Annotations(p) ==
  IF Hybrid \/ Joined(p) \/ Selected(p) = None THEN {}
  ELSE Level(p).annotated \intersect Selected(p)

-----------------------------------------------------------------------------
(* The names of the objects                                                *)

\* _determine_fields_to_populate
Fields(p) == IF Selected(p) = None THEN Level(p).dto ELSE Level(p).dto \intersect Selected(p)

\* _unflatten_and_build, _extract_nested and _build_child
SlipValuesNames(p) == (Level(p).dto \intersect Loaded(p)) \ Connector(p)
ValuesNames(p) == (Fields(p) \intersect Loaded(p)) \ Connector(p)

\* from_object with read_model_value: a name the instance does not have stays unset
ModelNames(p) ==
  {n \in Fields(p) : Resolve(p, n) \in Level(p).columns \union DOMAIN Level(p).computed
                                         \union Annotations(p)}

\* The dictionaries that _materialize makes of plain rows
RawNames ==
  IF Selected(Root) = None THEN Loaded(Root)
  ELSE {n \in Selected(Root) : Resolve(Root, n) \in Loaded(Root) \union Annotations(Root)}

Names(p) == IF Raw THEN RawNames ELSE IF Hybrid THEN ValuesNames(p) ELSE ModelNames(p)

-----------------------------------------------------------------------------
Init ==
  /\ ask \in Asks
  /\ stage = "received"
  /\ version = [p \in DOMAIN ask.levels |-> 0]
  /\ read = [p \in Paths |-> None]
  /\ late = [p \in Paths |-> <<>>]
  /\ checked = None
  /\ answer = None
  /\ response = None

\* prepare() copies, normalizes and validates the query
Prepare ==
  /\ stage = "received"
  /\ stage' = IF Valid THEN "loading" ELSE "rejected"
  /\ UNCHANGED <<ask, version, read, late, checked, answer, response>>

\* A column of a row that was read is at hand
AtHand(p, c) == read[p] # None /\ (c \notin Level(p).columns \/ c \in Loaded(p) \union DOMAIN late[p])

\* get_queryset() joins the one-to-one relations of the root to every query of instances,
\* and Django joins none whose column only() leaves out.  values() forgets the joins.
Clashing == ~ Hybrid /\ ~ Raw /\ ~ (Level(Root).onetoone \subseteq Loaded(Root))

\* The query of the root raises FieldError
Crash ==
  /\ stage = "loading" /\ read[Root] = None /\ Clashing
  /\ stage' = "crashed"
  /\ UNCHANGED <<ask, version, read, late, checked, answer, response>>

\* One query: the rows of a level with those of the relations joined to it.  Relations of
\* one level are loaded in the order in which they are expanded, which may be any.
Query(p) ==
  /\ stage = "loading" /\ read[p] = None /\ ~ Joined(p)
  /\ p = Root => ~ Clashing
  /\ p # Root => /\ read[Above(p)] # None
                 /\ Level(p).kind = "forward" => AtHand(Above(p), Level(p).link)
  /\ read' = [q \in Paths |->
                IF q = p \/ (q \in Below(p) /\ Joined(q)) THEN version[q] ELSE read[q]]
  /\ UNCHANGED <<ask, stage, version, late, checked, answer, response>>

\* The columns that an instance must have for what comes next: foreign keys while
\* relations are loaded, those of its names while it is projected
Awaited(p) ==
  IF stage = "loading" THEN {Level(q).link : q \in {r \in Forward(p) : ~ Joined(r)}}
                              \union Connector(p)
  ELSE IF stage = "projecting" THEN {Column(p, n) : n \in Names(p)}
  ELSE {}

\* An instance without a column reads it from the row as the row is now
ReadLater(p, c) ==
  /\ c \in Awaited(p) /\ read[p] # None /\ ~ AtHand(p, c)
  /\ late' = [late EXCEPT ![p] = [x \in DOMAIN @ \union {c} |-> IF x = c THEN version[p] ELSE @[x]]]
  /\ UNCHANGED <<ask, stage, version, read, checked, answer, response>>

AllAtHand == \A p \in Paths : read[p] # None /\ \A c \in Awaited(p) : AtHand(p, c)

\* The last query of the list, or of first()
SlipEndLoading ==
  /\ stage = "loading" /\ read[Root] # None
  /\ stage' = IF ask.route = "retrieve" THEN "checking" ELSE "projecting"
  /\ UNCHANGED <<ask, version, read, late, checked, answer, response>>

EndLoading ==
  /\ stage = "loading" /\ AllAtHand
  /\ stage' = IF ask.route = "retrieve" THEN "checking" ELSE "projecting"
  /\ UNCHANGED <<ask, version, read, late, checked, answer, response>>

ReadAt(p, c) == IF c \in DOMAIN late[p] THEN late[p][c] ELSE read[p]

\* The version of the owner that check_object_permissions sees on the instance
SlipOwnerSeen == version[Root]
OwnerSeen == IF Owner \in Loaded(Root) THEN read[Root] ELSE version[Root]

CheckPermission ==
  /\ stage = "checking"
  /\ checked' = OwnerSeen
  /\ late' = IF Owner \in Loaded(Root) THEN late
             ELSE [late EXCEPT ![Root] = [c \in {Owner} |-> OwnerSeen]]
  /\ stage' = IF OwnerSeen \in ask.granted THEN "projecting" ELSE "forbidden"
  /\ UNCHANGED <<ask, version, read, answer, response>>

\* to_dto, the hybrid builder, or the rows themselves
Project ==
  /\ stage = "projecting" /\ AllAtHand
  /\ answer' = [p \in Paths |-> [n \in Names(p) |-> ReadAt(p, Column(p, n))]]
  /\ stage' = IF ask.route \in {"list", "retrieve"} THEN "projected" ELSE "done"
  /\ UNCHANGED <<ask, version, read, late, checked, response>>

\* to_representation at the root and _dto_to_dict below it
SlipWithheld(p) == IF p = Root THEN Level(p).hidden \union Level(p).exclude ELSE {}
Withheld(p) == Level(p).hidden \union Level(p).exclude

Serialize ==
  /\ stage = "projected"
  /\ response' = [p \in Paths |-> [n \in DOMAIN answer[p] \ Withheld(p) |-> answer[p][n]]]
  /\ stage' = "done"
  /\ UNCHANGED <<ask, version, read, late, checked, answer>>

\* Another transaction writes a row
Write(p) ==
  /\ version[p] < MaxVersion
  /\ stage \in {"loading", "checking", "projecting"}
  /\ version' = [version EXCEPT ![p] = @ + 1]
  /\ UNCHANGED <<ask, stage, read, late, checked, answer, response>>

Service ==
  \/ Prepare
  \/ Crash
  \/ \E p \in Paths : Query(p)
  \/ \E p \in Paths : \E c \in Awaited(p) : ReadLater(p, c)
  \/ EndLoading
  \/ CheckPermission
  \/ Project
  \/ Serialize

Next == Service \/ \E p \in DOMAIN version : Write(p)

Spec == Init /\ [][Next]_vars

-----------------------------------------------------------------------------
(* Correctness                                                             *)

Versions == 0 .. MaxVersion

\* The type invariant: whatever is loaded was loaded before it is projected
TypeOK ==
  /\ stage \in {"received", "loading", "checking", "projecting", "projected", "done",
                "forbidden", "rejected", "crashed"}
  /\ version \in [DOMAIN ask.levels -> Versions]
  /\ read \in [Paths -> Versions \union {None}]
  /\ DOMAIN late = Paths
  /\ \A p \in Paths : \A c \in DOMAIN late[p] : c \in Level(p).columns /\ late[p][c] \in Versions
  /\ checked \in Versions \union {None}
  /\ stage \in {"checking", "projecting", "projected", "done"} =>
       \A p \in Paths : read[p] # None
  /\ \A a \in {answer, response} :
       a # None => DOMAIN a = Paths /\ \A p \in Paths : \A n \in DOMAIN a[p] : a[p][n] \in Versions

\* What a request asks for, whatever path answers it: the names it selects or else those
\* of allowed_fields, out of the fields of the DTO, or for plain dictionaries of the names
\* that the configuration knows.
Wanted(p, n) ==
  LET s == ask.select[p]
  IN  IF s # None /\ "*" \notin s THEN n \in s
      ELSE Level(p).allowed # None => n \in Level(p).allowed
Everything(p) == Level(p).allowed = None /\ (ask.select[p] = None \/ "*" \in ask.select[p])
Promised(p) ==
  LET names == IF Raw THEN Level(p).columns \union DOMAIN Level(p).aliases \union Level(p).annotated
               ELSE Level(p).dto
  IN  {n \in names : /\ Wanted(p, n)
                     /\ \/ Resolve(p, n) \in Level(p).columns \union DOMAIN Level(p).computed
                        \/ n \in Level(p).annotated /\ ~ Everything(p)}

\* What is known to be missing.  The builder of hybrid values leaves out annotations, the
\* key that a reverse relation is grouped by, and without a selection the foreign keys of
\* the root that lead nowhere.  A joined relation has no annotations.  Plain rows of
\* everything have the names of the columns, not their aliases.
Lost(p) ==
  CASE Hybrid -> Level(p).annotated \union Connector(p)
                   \union (IF p = Root /\ Everything(p)
                           THEN Level(p).foreign \ ({Pk} \union Keys(p)) ELSE {})
    [] ~ Hybrid /\ Raw -> IF Everything(p) THEN DOMAIN Level(p).aliases \ Level(p).columns ELSE {}
    [] OTHER -> IF Joined(p) THEN Level(p).annotated \ DOMAIN Level(p).aliases ELSE {}

\* Each object of an answer has exactly the names that were asked for, on every loading
\* path and at every depth, with the exceptions above and no other: hybrid execution is an
\* optimization, not different query semantics, and an answer with properties falls back to
\* instances (docs/selectors.md:417, docs/HYBRID_VALUES_EXPAND.md:133-134).  Other pages have
\* properties stay unset instead (docs/selectors.md:191), which the code does not do.
AnswerAsPromised ==
  answer # None => \A p \in Paths : DOMAIN answer[p] = Promised(p) \ Lost(p)

\* The names at a level are all in the query that loads it: there is no property over a
\* deferred column, by its name or an alias, and no alias or configured column list on a
\* joined relation.
Whole(p) ==
  IF Joined(p)
  THEN Level(p).computed # <<>> \/ Hybrid \/ (Level(p).only = None /\ Level(p).aliases = <<>>)
  ELSE Everything(p) \/ \A n \in DOMAIN Level(p).computed \union DOMAIN Level(p).aliases :
                          Wanted(p, n) => Resolve(p, n) \notin DOMAIN Level(p).computed

\* No object is torn: all the values of one object are those of one version of its row,
\* however many queries the answer takes and whoever writes in between.
OneMoment ==
  answer # None =>
    \A p \in Paths : Whole(p) => \A n \in DOMAIN answer[p] : answer[p][n] = read[p]

\* The answer to retrieve() shows a version of the object for which the permission was
\* given, provided that the column the permission looks at is asked for, by some name.
OwnerWanted ==
  \E n \in Level(Root).columns \union DOMAIN Level(Root).aliases :
    Resolve(Root, n) = Owner /\ Wanted(Root, n)
CheckedAsShown ==
  ask.route = "retrieve" /\ answer # None /\ Whole(Root) /\ OwnerWanted =>
    \A n \in DOMAIN answer[Root] : answer[Root][n] \in ask.granted

\* Nothing outside allowed_fields or the selection is in an answer, at any depth, and the
\* serializers let no excluded field and no password through.
OnlyWhatMayLeave ==
  /\ answer # None =>
       \A p \in Paths : \A n \in DOMAIN answer[p] :
         /\ Level(p).allowed # None => n \in Level(p).allowed
         /\ ask.select[p] # None => n \in ask.select[p] \/ "*" \in ask.select[p]
  /\ response # None =>
       \A p \in Paths : DOMAIN response[p] \intersect (Level(p).hidden \union Level(p).exclude) = {}

-----------------------------------------------------------------------------
(* The inductive invariant                                                 *)

\* Only a valid query is executed, and answers come at the end, the response after the rest
StageOK ==
  /\ stage \notin {"received", "rejected"} => Valid
  /\ answer # None => stage \in {"projected", "done"}
  /\ response # None => stage = "done"
  /\ stage = "projected" => \A p \in Paths : \A n \in DOMAIN answer[p] : answer[p][n] \in Versions

\* Only columns that the query left out are read later
LateOK == \A p \in Paths : \A c \in DOMAIN late[p] : c \notin Loaded(p)

\* What retrieve() projects was granted, as it was read if the query loads the owner
GrantedOK ==
  ask.route = "retrieve" /\ stage \in {"projecting", "projected", "done"} =>
    checked \in ask.granted /\ (Owner \in Loaded(Root) => checked = read[Root])

IInv ==
  /\ ask \in Asks /\ TypeOK /\ StageOK /\ LateOK /\ GrantedOK
  /\ AnswerAsPromised /\ OneMoment /\ OnlyWhatMayLeave

=============================================================================
