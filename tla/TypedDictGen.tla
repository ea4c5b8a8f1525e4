---------------------------- MODULE TypedDictGen ----------------------------
(***************************************************************************)
(* DTO.__td__: the descriptor that generates a TypedDict on first access,  *)
(* the recursive generation, and the cache in the class's own attribute.   *)
(*                                                                         *)
(* _GENERATING, the set that breaks circular references, is shared by all  *)
(* the threads of the process and nothing locks it: a thread can be        *)
(* switched out between any two of the steps below.                        *)
(***************************************************************************)
EXTENDS Integers, Sequences, FiniteSets

CONSTANTS
  Classes,      \* DTO classes
  Threads,
  Annotations,  \* configurations: the annotations of every class that matter here, in order
  Broken,       \* an annotation that cannot be rebuilt (ClassVar[...], a failing |)
  Mros,         \* configurations: the __mro__ of every class, as far as it is among Classes
  Dict,         \* the type `dict'
  None,
  MaxAccesses   \* bound on the outermost accesses of a behaviour

\* What a reference resolves to is told apart only by the class it stands for
Built == [of : Classes, refs : Seq(Classes \union {Dict})]
Value == {Dict} \union Built

ASSUME FiniteAssumption == IsFiniteSet(Classes) /\ IsFiniteSet(Threads)
ASSUME NoneAssumption == {Broken, Dict, None} \intersect Classes = {}
ASSUME ValueAssumption == Dict \notin Built /\ None \notin Value
ASSUME AnnotationAssumption == Annotations \subseteq [Classes -> Seq(Classes \union {Broken})]
ASSUME MroAssumption ==
  Mros \subseteq {m \in [Classes -> Seq(Classes)] : \A c \in Classes : m[c] # <<>> /\ m[c][1] = c}
ASSUME BoundAssumption == MaxAccesses \in Nat

VARIABLES
  hints,       \* _get_safe_type_hints of each class: plain types left out
  mro,
  td,          \* the __td__ each class has in its own __dict__, None without one
  generating,  \* _GENERATING
  stack,       \* the generations under way in each thread, outermost first
  answer,      \* the last access that returned: [cls, value]
  accesses,    \* number of outermost accesses
  overlapped,  \* history: __td__ was read while another thread was generating
  raised       \* history: a generation has raised

config == <<hints, mro>>
vars == <<hints, mro, td, generating, stack, answer, accesses, overlapped, raised>>

Frame == [cls : Classes, refs : Seq(Classes \union {Dict}), phase : {"enter", "add", "fields", "leave", "store", "raising"},
          result : Value \union {None}]

Top(t) == stack[t][Len(stack[t])]
Idle(t) == stack[t] = <<>>
At(t, phase) == ~ Idle(t) /\ Top(t).phase = phase
SetTop(t, frame) == stack' = [stack EXCEPT ![t][Len(stack[t])] = frame]
Moved(frame, phase) == [frame EXCEPT !.phase = phase]

Reference(value) == IF value = Dict THEN Dict ELSE value.of

\* Attribute lookup: the first class of the __mro__ that has __td__ in its __dict__; the
\* descriptor, which is in the last one, when there is none
Lookup(c) ==
  LET having == {i \in DOMAIN mro[c] : td[mro[c][i]] # None}
  IN  IF having = {} THEN None ELSE td[mro[c][CHOOSE i \in having : \A j \in having : i <= j]]

\* a call of the descriptor for class c
Descriptor(c) == [cls |-> c, refs |-> <<>>, phase |-> "enter", result |-> None]

Begin(t, c) ==
  /\ accesses' = accesses + 1
  /\ overlapped' = (overlapped \/ \E u \in Threads : ~ Idle(u))
  /\ IF Lookup(c) # None
     THEN answer' = [cls |-> c, value |-> Lookup(c)] /\ UNCHANGED stack
     ELSE stack' = [stack EXCEPT ![t] = <<Descriptor(c)>>] /\ UNCHANGED answer

\* a caller reads c.__td__
Access(t, c) ==
  /\ Idle(t) /\ accesses < MaxAccesses
  /\ Begin(t, c)
  /\ UNCHANGED <<config, td, generating, raised>>

\* Definitions called "Slip" are wrong on purpose: each is the action that follows it
\* with a plausible mistake, and is used only to show that a property notices.
\* No guard, None for an answer, and a lock.
SlipEnterUnguarded(t) ==
  /\ At(t, "enter")
  /\ SetTop(t, Moved(Top(t), "add"))
  /\ UNCHANGED <<config, td, generating, answer, accesses, overlapped, raised>>
SlipEnterNone(t) ==
  /\ At(t, "enter")
  /\ SetTop(t, Moved(Top(t), IF Top(t).cls \in generating THEN "store" ELSE "add"))
  /\ UNCHANGED <<config, td, generating, answer, accesses, overlapped, raised>>
SlipEnterLocked(t) ==
  /\ At(t, "enter") /\ Top(t).cls \notin generating
  /\ SetTop(t, Moved(Top(t), "add"))
  /\ UNCHANGED <<config, td, generating, answer, accesses, overlapped, raised>>

\* generate_typeddict: is the class being generated?
Enter(t) ==
  /\ At(t, "enter")
  /\ SetTop(t, IF Top(t).cls \in generating
               THEN [Top(t) EXCEPT !.phase = "store", !.result = Dict]
               ELSE Moved(Top(t), "add"))
  /\ UNCHANGED <<config, td, generating, answer, accesses, overlapped, raised>>

Add(t) ==
  /\ At(t, "add")
  /\ generating' = generating \union {Top(t).cls}
  /\ SetTop(t, Moved(Top(t), "fields"))
  /\ UNCHANGED <<config, td, answer, accesses, overlapped, raised>>

\* _resolve_type of the next annotation reads its __td__, or calls the descriptor for it
NextHint(t) == hints[Top(t).cls][Len(Top(t).refs) + 1]
MoreHints(t) == At(t, "fields") /\ Len(Top(t).refs) < Len(hints[Top(t).cls])
WithReference(frame, value) == [frame EXCEPT !.refs = Append(frame.refs, Reference(value))]

Resolve(t) ==
  /\ MoreHints(t) /\ NextHint(t) # Broken
  /\ IF Lookup(NextHint(t)) # None
     THEN SetTop(t, WithReference(Top(t), Lookup(NextHint(t))))
     ELSE stack' = [stack EXCEPT ![t] = Append(stack[t], Descriptor(NextHint(t)))]
  /\ UNCHANGED <<config, td, generating, answer, accesses, overlapped, raised>>

\* an AttributeError, for which the getattr of a caller answers Dict, or another exception
Raise(t) ==
  /\ MoreHints(t) /\ NextHint(t) = Broken
  /\ raised' = TRUE
  /\ \E instead \in {Dict, None} :
       SetTop(t, [Top(t) EXCEPT !.phase = "raising", !.result = instead])
  /\ UNCHANGED <<config, td, generating, answer, accesses, overlapped>>

Build(t) ==
  /\ At(t, "fields") /\ ~ MoreHints(t)
  /\ SetTop(t, [Top(t) EXCEPT !.phase = "leave",
                              !.result = [of |-> Top(t).cls, refs |-> Top(t).refs]])
  /\ UNCHANGED <<config, td, generating, answer, accesses, overlapped, raised>>

\* the finally clause, when the generation succeeded
Leave(t) ==
  /\ At(t, "leave")
  /\ generating' = generating \ {Top(t).cls}
  /\ SetTop(t, Moved(Top(t), "store"))
  /\ UNCHANGED <<config, td, answer, accesses, overlapped, raised>>

\* what an exception makes of the caller: a reference, or one more that raises
Caught(frame, instead) ==
  IF instead = Dict THEN WithReference(frame, Dict) ELSE Moved(frame, "raising")

\* no finally clause
SlipUnwind(t) ==
  /\ At(t, "raising")
  /\ LET under == SubSeq(stack[t], 1, Len(stack[t]) - 1) IN
       stack' = [stack EXCEPT ![t] =
                  IF under = <<>> THEN <<>>
                  ELSE [under EXCEPT ![Len(under)] = Caught(under[Len(under)], Top(t).result)]]
  /\ UNCHANGED <<config, td, generating, answer, accesses, overlapped, raised>>

\* the finally clause, when it raised: the exception goes to the caller
Unwind(t) ==
  /\ At(t, "raising")
  /\ generating' = generating \ {Top(t).cls}
  /\ LET under == SubSeq(stack[t], 1, Len(stack[t]) - 1) IN
       stack' = [stack EXCEPT ![t] =
                  IF under = <<>> THEN <<>>
                  ELSE [under EXCEPT ![Len(under)] = Caught(under[Len(under)], Top(t).result)]]
  /\ UNCHANGED <<config, td, answer, accesses, overlapped, raised>>

\* the first value kept
SlipStore(t) ==
  /\ At(t, "store")
  /\ td' = [td EXCEPT ![Top(t).cls] = IF @ = None THEN Top(t).result ELSE @]
  /\ LET under == SubSeq(stack[t], 1, Len(stack[t]) - 1) IN
       IF under = <<>>
       THEN /\ stack' = [stack EXCEPT ![t] = <<>>]
            /\ answer' = [cls |-> Top(t).cls, value |-> td'[Top(t).cls]]
       ELSE /\ stack' = [stack EXCEPT ![t] =
                          [under EXCEPT ![Len(under)] = WithReference(under[Len(under)], td'[Top(t).cls])]]
            /\ UNCHANGED answer
  /\ UNCHANGED <<config, generating, accesses, overlapped, raised>>

\* the descriptor sets cls.__td__ and returns
Store(t) ==
  /\ At(t, "store")
  /\ td' = [td EXCEPT ![Top(t).cls] = Top(t).result]
  /\ LET under == SubSeq(stack[t], 1, Len(stack[t]) - 1) IN
       IF under = <<>>
       THEN /\ stack' = [stack EXCEPT ![t] = <<>>]
            /\ answer' = [cls |-> Top(t).cls, value |-> Top(t).result]
       ELSE /\ stack' = [stack EXCEPT ![t] =
                          [under EXCEPT ![Len(under)] = WithReference(under[Len(under)], Top(t).result)]]
            /\ UNCHANGED answer
  /\ UNCHANGED <<config, generating, accesses, overlapped, raised>>

Init ==
  /\ hints \in Annotations /\ mro \in Mros
  /\ td = [c \in Classes |-> None]
  /\ generating = {}
  /\ stack = [t \in Threads |-> <<>>]
  /\ answer = None
  /\ accesses = 0
  /\ overlapped = FALSE /\ raised = FALSE

Run(t) == Enter(t) \/ Add(t) \/ Resolve(t) \/ Raise(t) \/ Build(t) \/ Leave(t) \/ Unwind(t) \/ Store(t)

Next == \E t \in Threads : Run(t) \/ \E c \in Classes : Access(t, c)

\* the scheduler runs every thread
Spec == Init /\ [][Next]_vars /\ \A t \in Threads : WF_vars(Run(t))

-----------------------------------------------------------------------------
(* Properties                                                              *)

Quiet == \A t \in Threads : Idle(t)

TypeOK ==
  /\ hints \in Annotations /\ mro \in Mros
  /\ td \in [Classes -> Value \union {None}]
  /\ generating \subseteq Classes
  /\ stack \in [Threads -> Seq(Frame)]
  /\ answer \in {None} \union [cls : Classes, value : Value]
  /\ accesses \in 0 .. MaxAccesses
  /\ overlapped \in BOOLEAN /\ raised \in BOOLEAN

\* c refers to d, through any number of classes
Closed(S) == \A c \in S : \A i \in DOMAIN hints[c] : hints[c][i] # Broken => hints[c][i] \in S
Reaches(c, d) == \A S \in SUBSET Classes : c \in S /\ Closed(S) => d \in S

\* The TypedDict of c has c's fields, and `dict' only for references that lead back to c
Mirrors(c, value) ==
  /\ value # Dict /\ value.of = c
  /\ Len(value.refs) = Len(hints[c])
  /\ \A i \in DOMAIN value.refs :
       \/ value.refs[i] = hints[c][i]
       \/ value.refs[i] = Dict /\ Reaches(hints[c][i], c)

\* typed_dicts.py:25, "Build a TypedDict whose fields mirror *dto_class*" and
\* "circular references fall back to dict": what an access returns mirrors the class,
\* whatever was accessed before it.
AnswerMirrors == answer # None => Mirrors(answer.cls, answer.value)

\* It does for a process in which accesses do not overlap and no generation raises,
\* and so do the TypedDicts that stay in the classes: the `dict' an inner reference
\* leaves there for a moment is always overwritten.
SequentialMirrors ==
  ~ overlapped /\ ~ raised =>
    /\ AnswerMirrors
    /\ Quiet => \A c \in Classes : td[c] # None => Mirrors(c, td[c])

\* Interleavings and failures included, no class stays marked as being generated: it
\* would be `dict' for every later access.
NothingLeft == Quiet => generating = {}

\* "Circular references fall back to dict" (typed_dicts.py:28) also when another thread removes
\* the mark of a class that this one is generating: each of the others can do so once before
\* the class has its TypedDict, and so a class is never more often among the calls of a
\* thread.  A generation that raises removes marks without leaving a TypedDict behind.
Nested(t, c) == {k \in 1 .. Len(stack[t]) : stack[t][k].cls = c}
BoundedDepth ==
  ~ raised => \A t \in Threads, c \in Classes : Cardinality(Nested(t, c)) <= Cardinality(Threads) + 1

\* Every access returns or raises.
AccessEnds == \A t \in Threads : ~ Idle(t) ~> Idle(t)

=============================================================================
