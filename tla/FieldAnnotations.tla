-------------------------- MODULE FieldAnnotations --------------------------
(***************************************************************************)
(* DjangoExecutor.ensure_field_annotations: puts on a queryset the         *)
(* registered annotations a query names and, before each of them, the      *)
(* annotations it depends on.                                              *)
(*                                                                         *)
(* The method calls itself; its calls are the frames of `stack'.  A frame  *)
(* computes once, when it starts, which names are missing, and visits them *)
(* in the order of a Python set of strings, which hash randomisation       *)
(* changes from process to process: here any order.  The $apply pipeline   *)
(* calls it again, with other names, on the queryset it already annotated. *)
(***************************************************************************)
EXTENDS Integers, Sequences

CONSTANTS
  Registered,  \* names in Meta.field_annotations
  Plain,       \* names that are not: model fields, aliases
  Graphs,      \* configurations of Meta.annotation_dependencies
  MaxDepth,    \* 10 in the code
  MaxCalls,    \* bound on the outermost calls of a behaviour
  None

Names == Registered \union Plain

ASSUME NameAssumption == Registered \intersect Plain = {} /\ None \notin Names
ASSUME GraphAssumption == Graphs \subseteq [Registered -> SUBSET Names]
ASSUME BoundAssumption == MaxDepth \in Nat /\ MaxCalls \in Nat

VARIABLES
  deps,        \* annotation_dependencies, the empty set where it has no entry
  base,        \* annotations the base queryset came with
  annotated,   \* queryset.query.annotations
  stack,       \* the calls under way, outermost first
  status,      \* "idle", "running", "done" or "failed"
  requested,   \* history: the names asked for by the outermost calls
  calls        \* number of outermost calls

vars == <<deps, base, annotated, stack, status, requested, calls>>
constant == <<deps, base>>

\* A call: the names it will annotate, those it has not visited, the one it visits
Frame == [pending : SUBSET Registered, todo : SUBSET Registered, current : Registered \union {None}]

\* Definitions called "Slip" are wrong on purpose: each is the definition that follows
\* it with a plausible mistake, and is used only to show that a property notices.
\* Names that are not registered, every registered name, and a guard against cycles.
SlipPendingPlain(names) == {n \in names : n \notin annotated}
SlipPendingAll(names) == {n \in Registered : n \notin annotated}
SlipPendingOnce(names) ==
  {n \in names \intersect Registered :
     n \notin annotated /\ \A i \in 1 .. Len(stack) : n \notin stack[i].pending}

\* `pending', computed up front
Pending(names) == {n \in names \intersect Registered : n \notin annotated}
NewFrame(names) == [pending |-> Pending(names), todo |-> Pending(names), current |-> None]

Top == stack[Len(stack)]

SlipCalleeDepth == Len(stack) + 1

\* the callee of the top frame would run at this _depth
CalleeDepth == Len(stack)

SlipVisitedFrame(n) == [pending |-> Top.pending, todo |-> Top.todo, current |-> n]

\* the top frame moves on to name n
VisitedFrame(n) == [pending |-> Top.pending, todo |-> Top.todo \ {n}, current |-> n]
Visited(n) == [stack EXCEPT ![Len(stack)] = VisitedFrame(n)]

Init ==
  /\ deps \in Graphs
  /\ base \in SUBSET Registered
  /\ annotated = base
  /\ stack = <<>>
  /\ status = "idle"
  /\ requested = {}
  /\ calls = 0

\* the executor or a stage of $apply asks for the names its query refers to
Request(names) ==
  /\ status \in {"idle", "done"}
  /\ calls < MaxCalls
  /\ calls' = calls + 1
  /\ requested' = requested \union names
  /\ IF Pending(names) = {}
     THEN status' = "done" /\ stack' = stack
     ELSE status' = "running" /\ stack' = <<NewFrame(names)>>
  /\ UNCHANGED <<constant, annotated>>

Running(n) == status = "running" /\ n \in Top.todo

\* n needs nothing more: no dependencies, or none of them missing
Skip(n) ==
  /\ Running(n)
  /\ deps[n] # {} => CalleeDepth <= MaxDepth /\ Pending(deps[n]) = {}
  /\ stack' = Visited(n)
  /\ UNCHANGED <<constant, annotated, status, requested, calls>>

\* the recursive call for the dependencies of n
Descend(n) ==
  /\ Running(n)
  /\ CalleeDepth <= MaxDepth
  /\ Pending(deps[n]) # {}
  /\ stack' = Append(Visited(n), NewFrame(deps[n]))
  /\ UNCHANGED <<constant, annotated, status, requested, calls>>

\* the recursive call refuses, before it looks at what is missing
Overflow(n) ==
  /\ Running(n)
  /\ deps[n] # {} /\ CalleeDepth > MaxDepth
  /\ stack' = Visited(n)
  /\ status' = "failed"
  /\ UNCHANGED <<constant, annotated, requested, calls>>

\* the queryset's own annotations lost, and annotate() before the recursion
SlipAnnotateAfresh ==
  /\ status = "running"
  /\ Top.todo = {}
  /\ annotated' = Top.pending
  /\ stack' = SubSeq(stack, 1, Len(stack) - 1)
  /\ status' = IF Len(stack) = 1 THEN "done" ELSE "running"
  /\ UNCHANGED <<constant, requested, calls>>
SlipAnnotateEarly ==
  /\ status = "running"
  /\ annotated' = annotated \union Top.pending
  /\ stack' = SubSeq(stack, 1, Len(stack) - 1)
  /\ status' = IF Len(stack) = 1 THEN "done" ELSE "running"
  /\ UNCHANGED <<constant, requested, calls>>

\* every name visited: one annotate() call adds them all, and the call returns
Annotate ==
  /\ status = "running"
  /\ Top.todo = {}
  /\ annotated' = annotated \union Top.pending
  /\ stack' = SubSeq(stack, 1, Len(stack) - 1)
  /\ status' = IF Len(stack) = 1 THEN "done" ELSE "running"
  /\ UNCHANGED <<constant, requested, calls>>

Step == (\E n \in Registered : Skip(n) \/ Descend(n) \/ Overflow(n)) \/ Annotate

Next == (\E names \in SUBSET Names : Request(names)) \/ Step

\* the executor runs to its end once called
Spec == Init /\ [][Next]_vars /\ WF_vars(Step)

-----------------------------------------------------------------------------
(* Properties                                                              *)

TypeOK ==
  /\ deps \in Graphs
  /\ base \subseteq Registered /\ annotated \subseteq Registered
  /\ stack \in Seq(Frame)
  /\ status \in {"idle", "running", "done", "failed"}
  /\ requested \subseteq Names
  /\ calls \in 0 .. MaxCalls

Needs(n) == deps[n] \intersect Registered

\* Django resolves the F() references of an annotation when it is added: whatever
\* the order in which names are visited, nothing is annotated by a call of
\* annotate() before everything it depends on has been annotated by earlier ones.
DependenciesFirst ==
  [][\A n \in annotated' \ annotated : Needs(n) \subseteq annotated]_vars

\* When a call returns, every registered name it was asked for is there, with all it
\* depends on.
AllThere ==
  status = "done" =>
    /\ requested \intersect Registered \subseteq annotated
    /\ \A n \in annotated \ base : Needs(n) \subseteq annotated

\* Only what is needed is added: any set that holds the requested names and is
\* closed under the dependencies of the names that were missing covers it.
NothingElse ==
  \A cover \in SUBSET Registered :
    /\ requested \intersect Registered \subseteq cover
    /\ \A n \in cover \ base : Needs(n) \subseteq cover
    => annotated \subseteq base \union cover

\* Names that wait for each other are never annotated: a cyclic configuration ends
\* in the depth error and not in an expression that refers to itself.
NoCycleAnnotated ==
  \A cycle \in SUBSET (Registered \ base) :
    (\A n \in cycle : Needs(n) \intersect cycle # {}) => cycle \intersect annotated = {}

\* The depth error is never raised for a shallow configuration, whatever was asked
\* for and in whatever order: it takes MaxDepth + 1 registered names that depend on
\* each other in a row, the last of them with a dependency of its own.
FailureMeansDeepChain ==
  status = "failed" =>
    \E p \in [1 .. MaxDepth + 1 -> Registered] :
      /\ \A i \in 1 .. MaxDepth : p[i + 1] \in deps[p[i]]
      /\ deps[p[MaxDepth + 1]] # {}

\* Every call returns or raises, cycles included.
CallEnds == status = "running" ~> status # "running"

-----------------------------------------------------------------------------
(* The inductive invariant behind the safety properties                    *)

\* The stack is non-empty exactly while a call is under way, or was when it failed.
Busy == status \in {"running", "failed"} <=> stack # <<>>

\* frame i waits for, or failed in, the recursive call for n
Visiting(i, n) == (i < Len(stack) \/ status = "failed") /\ n = stack[i].current

\* What a frame has visited has its dependencies, but for the name it is visiting
FrameOK(i) ==
  /\ stack[i].todo \subseteq stack[i].pending
  /\ stack[i].pending \intersect base = {}
  /\ \A n \in stack[i].pending \ stack[i].todo : Needs(n) \subseteq annotated \/ Visiting(i, n)

\* Frame i + 1 is the call frame i made for its current name
CallOK(i) ==
  /\ stack[i].current \in stack[i].pending
  /\ stack[i + 1].pending \subseteq Needs(stack[i].current)
  /\ Needs(stack[i].current) \subseteq annotated \union stack[i + 1].pending

\* What is annotated has its dependencies, but for what the queryset came with
Grounded ==
  /\ base \subseteq annotated
  /\ \A n \in annotated \ base : Needs(n) \subseteq annotated

Frames == \A i \in 1 .. Len(stack) : FrameOK(i)
CallChain == \A i \in 1 .. Len(stack) - 1 : CallOK(i)

\* What was asked for is there, or the outermost call is about to add it
Answering ==
  requested \intersect Registered \subseteq
    annotated \union (IF stack = <<>> THEN {} ELSE stack[1].pending)

Depth ==
  /\ Len(stack) <= MaxDepth + 1
  /\ status = "failed" =>
       /\ Len(stack) = MaxDepth + 1
       /\ Top.current \in Top.pending /\ deps[Top.current] # {}

IInv == TypeOK /\ Busy /\ Grounded /\ Frames /\ CallChain /\ Answering /\ Depth

=============================================================================
