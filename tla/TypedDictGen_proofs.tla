------------------------- MODULE TypedDictGen_proofs -------------------------
(* Proofs about TypedDictGen, for all classes, annotations and threads. *)
EXTENDS TypedDictGen, FiniteSetTheorems, SequenceTheorems, TLAPS

-----------------------------------------------------------------------------
(* The least of some numbers                                               *)

\* A set of natural numbers has a least element.
LEMMA LeastNumber ==
  ASSUME NEW T, T \subseteq Nat, T # {}
  PROVE  \E x \in T : \A y \in T : x <= y
<1> DEFINE R == OpToRel(<, Nat)
<1>1. IsWellFoundedOn(R, Nat)
  BY NatLessThanWellFounded
<1>2. \A x, y \in Nat : <<x, y>> \in R <=> x < y
  BY DEF OpToRel
<1> HIDE DEF R
<1>3. PICK x \in T : \A y \in T : ~ (<<y, x>> \in R)
  BY <1>1, WFMin
<1>4. ASSUME NEW y \in T PROVE x <= y
  <2>1. x \in Nat /\ y \in Nat
    OBVIOUS
  <2>2. ~ (y < x)
    BY <1>2, <1>3, <2>1
  <2> QED
    BY <2>1, <2>2
<1> QED
  BY <1>4

-----------------------------------------------------------------------------
(* The inductive invariants                                                *)

\* From the addition to _GENERATING to the finally clause
Marked(frame) == frame.phase \in {"fields", "leave", "raising"}

FrameOK(frame) ==
  /\ Len(frame.refs) <= Len(hints[frame.cls])
  /\ frame.phase \in {"enter", "add"} => frame.refs = <<>>
  /\ frame.phase \in {"leave", "store"} => frame.result # None

\* The caller waits for the reference of its next annotation
Calls(caller, c) ==
  /\ caller.phase = "fields"
  /\ Len(caller.refs) < Len(hints[caller.cls])
  /\ hints[caller.cls][Len(caller.refs) + 1] = c

Frames == \A t \in Threads : \A k \in 1 .. Len(stack[t]) : FrameOK(stack[t][k])
Calling == \A t \in Threads : \A k \in 1 .. Len(stack[t]) - 1 : Calls(stack[t][k], stack[t][k + 1].cls)

\* Who marked a class is still there to remove the mark, or another one that marked it too
MarkHasFrame(c) ==
  \E t \in Threads : \E k \in 1 .. Len(stack[t]) : Marked(stack[t][k]) /\ stack[t][k].cls = c
MarksHaveFrames == \A c \in generating : MarkHasFrame(c)

IInv == TypeOK /\ Frames /\ Calling /\ MarksHaveFrames

\* Without overlaps, at most one thread generates
Alone == \A t, u \in Threads : ~ Idle(t) /\ ~ Idle(u) => t = u

FramesOf(t) == {stack[t][k] : k \in 1 .. Len(stack[t])}
Reflects(c, i, ref) == ref = hints[c][i] \/ (ref = Dict /\ Reaches(hints[c][i], c))
Faithful(frame) ==
  /\ \A i \in 1 .. Len(frame.refs) : Reflects(frame.cls, i, frame.refs[i])
  /\ frame.phase = "leave" => Mirrors(frame.cls, frame.result)
  /\ frame.phase = "store" =>
       \/ frame.result = Dict /\ frame.cls \in generating
       \/ Mirrors(frame.cls, frame.result)
  /\ frame.phase # "raising"
  /\ Marked(frame) => frame.cls \in generating
  /\ frame.phase = "add" => frame.cls \notin generating

\* The classes under generation refer to one another, from the outermost on, and are marked once
Chained(t) ==
  \A j, k \in 1 .. Len(stack[t]) : j <= k => Reaches(stack[t][j].cls, stack[t][k].cls)
MarkedOnce(t) ==
  \A j, k \in 1 .. Len(stack[t]) :
    Marked(stack[t][j]) /\ Marked(stack[t][k]) /\ stack[t][j].cls = stack[t][k].cls => j = k

\* `dict' in a class is about to be overwritten
Overwritten(c) ==
  c \in generating \/ \E t \in Threads : At(t, "store") /\ Top(t).cls = c /\ Top(t).result # Dict
Kept ==
  \A c \in Classes : \A value \in {td[c]} \ {None} :
    Mirrors(c, value) \/ (value = Dict /\ Overwritten(c))

Orderly ==
  /\ Alone
  /\ \A t \in Threads : Chained(t) /\ MarkedOnce(t) /\ \A frame \in FramesOf(t) : Faithful(frame)
  /\ Kept
  /\ AnswerMirrors

Undisturbed == ~ overlapped /\ ~ raised => Orderly

-----------------------------------------------------------------------------
(* What one step does to the stacks                                        *)

\* The stack of t has n frames, of which the last one is new and the others are as they were
After(t, n, frame) ==
  /\ stack' \in [Threads -> Seq(Frame)]
  /\ \A u \in Threads \ {t} : stack'[u] = stack[u]
  /\ Len(stack'[t]) = n /\ stack'[t][n] = frame
  /\ \A k \in 1 .. n - 1 : stack'[t][k] = stack[t][k]

\* A thread that is at work has a frame on top of its stack.
LEMMA TopFacts ==
  ASSUME TypeOK, NEW t \in Threads, ~ Idle(t)
  PROVE  /\ stack[t] \in Seq(Frame) /\ Len(stack[t]) \in Nat \ {0}
         /\ Top(t) \in Frame
         /\ \A k \in 1 .. Len(stack[t]) : stack[t][k] \in Frame
<1>1. stack[t] \in Seq(Frame)
  BY DEF TypeOK
<1>2. stack[t] # <<>>
  BY DEF Idle
<1>3. Len(stack[t]) \in Nat \ {0}
  BY <1>1, <1>2, EmptySeq
<1>4. \A k \in 1 .. Len(stack[t]) : stack[t][k] \in Frame
  BY <1>1, ElementOfSeq
<1> QED
  BY <1>1, <1>3, <1>4 DEF Top

\* Replacing the top frame leaves those under it.
LEMMA SetTopFacts ==
  ASSUME TypeOK, NEW t \in Threads, ~ Idle(t), NEW frame \in Frame, SetTop(t, frame)
  PROVE  After(t, Len(stack[t]), frame)
<1> DEFINE s == stack[t]
           r == [s EXCEPT ![Len(s)] = frame]
<1>1. s \in Seq(Frame) /\ Len(s) \in Nat \ {0}
  BY TopFacts
<1>2. /\ r \in Seq(Frame) /\ Len(r) = Len(s)
      /\ \A k \in 1 .. Len(s) : r[k] = IF k = Len(s) THEN frame ELSE s[k]
  BY <1>1, ExceptSeq
<1>3. stack \in [Threads -> Seq(Frame)]
  BY DEF TypeOK
<1>4. stack' = [stack EXCEPT ![t] = r]
  BY DEF SetTop
<1> HIDE DEF r
<1>5. stack' \in [Threads -> Seq(Frame)] /\ stack'[t] = r /\ \A u \in Threads \ {t} : stack'[u] = stack[u]
  BY <1>2, <1>3, <1>4
<1> QED
  BY <1>1, <1>2, <1>5 DEF After

\* A call puts a frame on the stack.
LEMMA PushFacts ==
  ASSUME TypeOK, NEW t \in Threads, NEW frame \in Frame,
         stack' = [stack EXCEPT ![t] = Append(stack[t], frame)]
  PROVE  Len(stack[t]) \in Nat /\ After(t, Len(stack[t]) + 1, frame)
<1> DEFINE r == Append(stack[t], frame)
<1>1. stack \in [Threads -> Seq(Frame)] /\ stack[t] \in Seq(Frame) /\ Len(stack[t]) \in Nat
  BY DEF TypeOK
<1>2. /\ r \in Seq(Frame) /\ Len(r) = Len(stack[t]) + 1 /\ r[Len(stack[t]) + 1] = frame
      /\ \A k \in 1 .. Len(stack[t]) : r[k] = stack[t][k]
  BY <1>1, AppendProperties
<1> HIDE DEF r
<1>3. stack' \in [Threads -> Seq(Frame)] /\ stack'[t] = r /\ \A u \in Threads \ {t} : stack'[u] = stack[u]
  BY <1>1, <1>2 DEF r
<1>4. Len(stack[t]) + 1 - 1 = Len(stack[t])
  BY <1>1
<1> QED
  BY <1>1, <1>2, <1>3, <1>4 DEF After

\* What is under the top frame.
Under(t) == SubSeq(stack[t], 1, Len(stack[t]) - 1)

LEMMA UnderFacts ==
  ASSUME TypeOK, NEW t \in Threads, ~ Idle(t)
  PROVE  /\ Under(t) \in Seq(Frame) /\ Len(Under(t)) = Len(stack[t]) - 1
         /\ \A k \in 1 .. Len(stack[t]) - 1 : Under(t)[k] = stack[t][k]
         /\ Under(t) = <<>> <=> Len(stack[t]) = 1
<1> DEFINE n == Len(stack[t])
           last == n - 1
<1>1. n \in Nat \ {0} /\ \A k \in 1 .. n : stack[t][k] \in Frame
  BY TopFacts
<1>2. 1 \in Int /\ last \in Int /\ last - 1 + 1 = last /\ \A k \in 1 .. last : 1 + k - 1 = k /\ k \in 1 .. n
  BY <1>1
<1>3. \A k \in 1 .. last : stack[t][k] \in Frame
  BY <1>1, <1>2
<1>4. /\ Under(t) \in Seq(Frame) /\ Len(Under(t)) = IF 1 <= last THEN last - 1 + 1 ELSE 0
      /\ \A k \in 1 .. last - 1 + 1 : Under(t)[k] = stack[t][1 + k - 1]
  <2> HIDE DEF last
  <2> DEFINE s == SubSeq(stack[t], 1, last)
  <2>1. /\ s \in Seq(Frame) /\ Len(s) = (IF 1 <= last THEN last - 1 + 1 ELSE 0)
        /\ \A k \in 1 .. last - 1 + 1 : s[k] = stack[t][1 + k - 1]
    BY <1>2, <1>3, SubSeqProperties
  <2>2. Under(t) = s
    BY DEF Under, last
  <2> QED
    BY <2>1, <2>2
<1>5. Len(Under(t)) = last
  BY <1>1, <1>4
<1>6. Under(t) = <<>> <=> Len(Under(t)) = 0
  BY <1>4, EmptySeq
<1>7. \A k \in 1 .. last : Under(t)[k] = stack[t][k]
  BY <1>2, <1>4
<1>8. Len(Under(t)) = 0 <=> n = 1
  BY <1>1, <1>5
<1> QED
  BY <1>4, <1>5, <1>6, <1>7, <1>8

\* A return takes the top frame away and goes on with the one under it.
LEMMA ReturnFacts ==
  ASSUME TypeOK, NEW t \in Threads, ~ Idle(t), Len(stack[t]) # 1, NEW frame \in Frame,
         stack' = [stack EXCEPT ![t] = [Under(t) EXCEPT ![Len(Under(t))] = frame]]
  PROVE  /\ Len(Under(t)) = Len(stack[t]) - 1 /\ Len(stack[t]) - 1 \in Nat \ {0}
         /\ Under(t)[Len(stack[t]) - 1] = stack[t][Len(stack[t]) - 1]
         /\ After(t, Len(stack[t]) - 1, frame)
<1> DEFINE s == Under(t)
           m == Len(stack[t]) - 1
           r == [s EXCEPT ![Len(s)] = frame]
<1>1. Len(stack[t]) \in Nat \ {0} /\ stack \in [Threads -> Seq(Frame)]
  BY TopFacts DEF TypeOK
<1>2. m \in Nat \ {0}
  BY <1>1
<1>3. s \in Seq(Frame) /\ Len(s) = m /\ \A k \in 1 .. m : s[k] = stack[t][k]
  BY UnderFacts
<1> HIDE DEF s, m
<1>4. /\ r \in Seq(Frame) /\ Len(r) = Len(s)
      /\ \A k \in 1 .. Len(s) : r[k] = IF k = Len(s) THEN frame ELSE s[k]
  BY <1>2, <1>3, ExceptSeq
<1>5. stack' = [stack EXCEPT ![t] = r]
  BY DEF s
<1> HIDE DEF r
<1>6. stack' \in [Threads -> Seq(Frame)] /\ stack'[t] = r /\ \A u \in Threads \ {t} : stack'[u] = stack[u]
  BY <1>1, <1>4, <1>5
<1>7. \A k \in 1 .. m - 1 : k \in 1 .. m /\ k # m
  BY <1>2
<1>8. After(t, m, frame)
  BY <1>2, <1>3, <1>4, <1>6, <1>7 DEF After
<1>9. m \in 1 .. m
  BY <1>2
<1>10. Len(s) = m /\ m \in Nat \ {0} /\ s[m] = stack[t][m] /\ After(t, m, frame)
  BY <1>2, <1>3, <1>8, <1>9
<1> QED
  BY <1>10 DEF s, m

-----------------------------------------------------------------------------
(* Types                                                                   *)

\* What is in the classes refers to classes, or to `dict'.
LEMMA ReferenceFacts ==
  ASSUME NEW value \in Value
  PROVE  /\ Reference(value) \in Classes \union {Dict}
         /\ value # None
         /\ value # Dict => value \in Built /\ Reference(value) = value.of
BY ValueAssumption DEF Reference, Value, Built

\* Attribute lookup finds a TypedDict, `dict' or nothing.
LEMMA LookupFacts ==
  ASSUME TypeOK, NEW c \in Classes
  PROVE  Lookup(c) \in Value \union {None}
<1> DEFINE having == {i \in DOMAIN mro[c] : td[mro[c][i]] # None}
<1>1. mro[c] \in Seq(Classes) /\ td \in [Classes -> Value \union {None}]
  BY MroAssumption DEF TypeOK
<1>2. having \subseteq Nat /\ \A i \in having : mro[c][i] \in Classes
  BY <1>1
<1>3. CASE having = {}
  BY <1>3 DEF Lookup
<1>4. CASE having # {}
  <2>1. \E i \in having : \A j \in having : i <= j
    BY <1>2, <1>4, LeastNumber
  <2>2. (CHOOSE i \in having : \A j \in having : i <= j) \in having
    BY <2>1
  <2> QED
    BY <1>1, <1>2, <1>4, <2>2 DEF Lookup
<1> QED
  BY <1>3, <1>4

LEMMA DescriptorFacts ==
  ASSUME TypeOK, NEW c \in Classes
  PROVE  /\ Descriptor(c) \in Frame /\ FrameOK(Descriptor(c)) /\ Descriptor(c).cls = c
         /\ Descriptor(c).refs = <<>> /\ Descriptor(c).phase = "enter"
<1>1. hints[c] \in Seq(Classes \union {Broken})
  BY AnnotationAssumption DEF TypeOK
<1>2. Len(hints[c]) \in Nat /\ <<>> \in Seq(Classes \union {Dict}) /\ Len(<<>>) = 0
  BY <1>1, EmptySeq
<1> QED
  BY <1>1, <1>2 DEF Descriptor, Frame, FrameOK

\* Only the phase of a frame moves on.
LEMMA MovedFacts ==
  ASSUME NEW frame \in Frame, NEW phase \in {"enter", "add", "fields", "leave", "store", "raising"}
  PROVE  /\ Moved(frame, phase) \in Frame /\ Moved(frame, phase).phase = phase
         /\ Moved(frame, phase).cls = frame.cls /\ Moved(frame, phase).refs = frame.refs
         /\ Moved(frame, phase).result = frame.result
BY DEF Moved, Frame

\* A reference that was resolved is added behind the others.
LEMMA WithReferenceFacts ==
  ASSUME NEW frame \in Frame, NEW value \in Value
  PROVE  LET next == WithReference(frame, value)
         IN  /\ next \in Frame /\ next.cls = frame.cls /\ next.phase = frame.phase
             /\ next.result = frame.result
             /\ Len(frame.refs) \in Nat /\ Len(next.refs) = Len(frame.refs) + 1
             /\ \A i \in 1 .. Len(frame.refs) : next.refs[i] = frame.refs[i]
             /\ next.refs[Len(frame.refs) + 1] = Reference(value)
<1> DEFINE refs == Append(frame.refs, Reference(value))
<1>1. frame.refs \in Seq(Classes \union {Dict}) /\ Reference(value) \in Classes \union {Dict}
  BY ReferenceFacts DEF Frame
<1>2. /\ refs \in Seq(Classes \union {Dict}) /\ Len(refs) = Len(frame.refs) + 1
      /\ \A i \in 1 .. Len(frame.refs) : refs[i] = frame.refs[i]
      /\ refs[Len(frame.refs) + 1] = Reference(value) /\ Len(frame.refs) \in Nat
  BY <1>1, AppendProperties
<1>3. WithReference(frame, value) = [frame EXCEPT !.refs = refs]
  BY DEF WithReference
<1> HIDE DEF refs
<1>4. /\ WithReference(frame, value) \in Frame /\ WithReference(frame, value).refs = refs
      /\ WithReference(frame, value).cls = frame.cls /\ WithReference(frame, value).phase = frame.phase
      /\ WithReference(frame, value).result = frame.result
  BY <1>2, <1>3 DEF Frame
<1> QED
  BY <1>2, <1>4

-----------------------------------------------------------------------------
(* Callers and marks                                                       *)

\* A new top frame keeps the chain of callers, when the frame under it waits for its class.
LEMMA StackKept ==
  ASSUME TypeOK, Frames, Calling, UNCHANGED config,
         NEW t \in Threads, NEW n \in Nat \ {0}, NEW frame \in Frame,
         n - 1 <= Len(stack[t]), After(t, n, frame), FrameOK(frame),
         n > 1 => Calls(stack[t][n - 1], frame.cls)
  PROVE  Frames' /\ Calling'
<1>1. hints' = hints
  BY DEF config
<1>2. Len(stack[t]) \in Nat
  BY DEF TypeOK
<1>3. Frames'
  <2>1. SUFFICES ASSUME NEW u \in Threads, NEW k \in 1 .. Len(stack'[u])
                 PROVE  FrameOK(stack'[u][k])
    BY <1>1 DEF Frames, FrameOK
  <2>2. CASE u # t
    BY <2>2 DEF After, Frames
  <2>3. CASE u = t /\ k = n
    BY <2>3 DEF After
  <2>4. CASE u = t /\ k # n
    <3>1. k \in 1 .. n - 1 /\ k \in 1 .. Len(stack[t])
      BY <1>2, <2>4 DEF After
    <3> QED
      BY <2>4, <3>1 DEF After, Frames
  <2> QED
    BY <2>2, <2>3, <2>4
<1>4. Calling'
  <2>1. SUFFICES ASSUME NEW u \in Threads, NEW k \in 1 .. Len(stack'[u]) - 1
                 PROVE  Calls(stack'[u][k], stack'[u][k + 1].cls)
    BY <1>1 DEF Calling, Calls
  <2>2. CASE u # t
    BY <2>2 DEF After, Calling
  <2>3. CASE u = t /\ k = n - 1
    <3>1. k \in 1 .. n - 1 /\ k + 1 = n /\ n > 1
      BY <2>3
    <3> QED
      BY <2>3, <3>1 DEF After
  <2>4. CASE u = t /\ k # n - 1
    <3>1. k \in 1 .. n - 1 /\ k + 1 \in 1 .. n - 1 /\ k \in 1 .. Len(stack[t]) - 1
      BY <1>2, <2>4 DEF After
    <3> QED
      BY <2>4, <3>1 DEF After, Calling
  <2> QED
    BY <2>2, <2>3, <2>4
<1> QED
  BY <1>3, <1>4

\* A thread whose outermost access is over has no frames.
Emptied(t) ==
  /\ stack' \in [Threads -> Seq(Frame)]
  /\ stack'[t] = <<>>
  /\ \A u \in Threads \ {t} : stack'[u] = stack[u]

LEMMA StackEmptied ==
  ASSUME Frames, Calling, UNCHANGED config, NEW t \in Threads, Emptied(t)
  PROVE  Frames' /\ Calling'
<1>1. hints' = hints
  BY DEF config
<1>2. 1 .. Len(stack'[t]) = {} /\ 1 .. Len(stack'[t]) - 1 = {}
  BY EmptySeq DEF Emptied
<1>3. Frames'
  <2>1. SUFFICES ASSUME NEW u \in Threads, NEW k \in 1 .. Len(stack'[u])
                 PROVE  FrameOK(stack'[u][k])
    BY <1>1 DEF Frames, FrameOK
  <2>2. u # t
    BY <1>2
  <2> QED
    BY <2>2 DEF Emptied, Frames
<1>4. Calling'
  <2>1. SUFFICES ASSUME NEW u \in Threads, NEW k \in 1 .. Len(stack'[u]) - 1
                 PROVE  Calls(stack'[u][k], stack'[u][k + 1].cls)
    BY <1>1 DEF Calling, Calls
  <2>2. u # t
    BY <1>2
  <2> QED
    BY <2>2 DEF Emptied, Calling
<1> QED
  BY <1>3, <1>4

\* Marks last as long as a frame that answers for them.
LEMMA MarksKept ==
  ASSUME MarksHaveFrames, NEW t \in Threads, NEW n \in Nat \ {0}, NEW frame, After(t, n, frame),
         Len(stack[t]) \in Nat, n - 1 <= Len(stack[t]),
         \A c \in generating' :
           \/ Marked(frame) /\ frame.cls = c
           \/ c \in generating /\ \A k \in n .. Len(stack[t]) : Marked(stack[t][k]) => stack[t][k].cls # c
  PROVE  MarksHaveFrames'
<1>1. SUFFICES ASSUME NEW c \in generating'
               PROVE  \E u \in Threads : \E k \in 1 .. Len(stack'[u]) : Marked(stack'[u][k]) /\ stack'[u][k].cls = c
  BY DEF MarksHaveFrames, MarkHasFrame, Marked
<1>2. CASE Marked(frame) /\ frame.cls = c
  BY <1>2 DEF After
<1>3. CASE c \in generating /\ \A k \in n .. Len(stack[t]) : Marked(stack[t][k]) => stack[t][k].cls # c
  <2>1. PICK u \in Threads : \E k \in 1 .. Len(stack[u]) : Marked(stack[u][k]) /\ stack[u][k].cls = c
    BY <1>3 DEF MarksHaveFrames, MarkHasFrame
  <2>2. PICK k \in 1 .. Len(stack[u]) : Marked(stack[u][k]) /\ stack[u][k].cls = c
    BY <2>1
  <2>3. CASE u # t
    BY <2>2, <2>3 DEF After
  <2>4. CASE u = t
    <3>1. k \in 1 .. n - 1 /\ k \in 1 .. n
      BY <1>3, <2>2, <2>4
    <3>2. stack'[t][k] = stack[t][k] /\ Len(stack'[t]) = n
      BY <3>1 DEF After
    <3> QED
      BY <2>2, <2>4, <3>1, <3>2
  <2> QED
    BY <2>3, <2>4
<1> QED
  BY <1>1, <1>2, <1>3

\* When the last frame of a thread goes, the marks of the others stay.
LEMMA MarksEmptied ==
  ASSUME MarksHaveFrames, NEW t \in Threads, Emptied(t),
         \A c \in generating' :
           c \in generating /\ \A k \in 1 .. Len(stack[t]) : Marked(stack[t][k]) => stack[t][k].cls # c
  PROVE  MarksHaveFrames'
<1>1. SUFFICES ASSUME NEW c \in generating'
               PROVE  \E u \in Threads : \E k \in 1 .. Len(stack'[u]) : Marked(stack'[u][k]) /\ stack'[u][k].cls = c
  BY DEF MarksHaveFrames, MarkHasFrame, Marked
<1>2. PICK u \in Threads : \E k \in 1 .. Len(stack[u]) : Marked(stack[u][k]) /\ stack[u][k].cls = c
  BY DEF MarksHaveFrames, MarkHasFrame
<1>3. u # t
  BY <1>2
<1> QED
  BY <1>2, <1>3 DEF Emptied

-----------------------------------------------------------------------------
(* Every step keeps the invariant                                          *)

\* The type invariant, for a step that leaves the configuration alone.
LEMMA TypeKept ==
  ASSUME TypeOK, UNCHANGED config, stack' \in [Threads -> Seq(Frame)],
         td' \in [Classes -> Value \union {None}], generating' \subseteq Classes,
         answer' \in {None} \union [cls : Classes, value : Value],
         accesses' \in 0 .. MaxAccesses, overlapped' \in BOOLEAN, raised' \in BOOLEAN
  PROVE  TypeOK'
BY DEF TypeOK, config

\* A new frame in the place of the top one, of the same class and with nothing else changed.
LEMMA TopKept ==
  ASSUME IInv, UNCHANGED <<config, td, answer, accesses, overlapped>>, raised' \in BOOLEAN,
         NEW t \in Threads, ~ Idle(t), NEW frame \in Frame, SetTop(t, frame),
         frame.cls = Top(t).cls, FrameOK(frame), generating' \subseteq Classes,
         \A c \in generating' : \/ Marked(frame) /\ frame.cls = c
                                \/ c \in generating /\ (Marked(Top(t)) => Top(t).cls # c)
  PROVE  IInv' /\ After(t, Len(stack[t]), frame)
<1> DEFINE n == Len(stack[t])
<1>1. TypeOK /\ Frames /\ Calling /\ MarksHaveFrames
  BY DEF IInv
<1>2. After(t, n, frame) /\ n \in Nat \ {0} /\ n - 1 <= n
  BY <1>1, TopFacts, SetTopFacts
<1>3. n > 1 => Calls(stack[t][n - 1], frame.cls)
  <2>1. ASSUME n > 1 PROVE Calls(stack[t][n - 1], stack[t][n - 1 + 1].cls)
    BY <1>1, <1>2, <2>1 DEF Calling
  <2> QED
    BY <1>2, <2>1 DEF Top
<1>4. Frames' /\ Calling'
  BY <1>1, <1>2, <1>3, StackKept
<1>5. \A k \in n .. n : stack[t][k] = Top(t)
  BY <1>2 DEF Top
<1>6. MarksHaveFrames'
  <2> HIDE DEF n
  <2>1. \A c \in generating' :
           \/ Marked(frame) /\ frame.cls = c
           \/ c \in generating /\ \A k \in n .. n : Marked(stack[t][k]) => stack[t][k].cls # c
    BY <1>5
  <2> QED
    BY <1>1, <1>2, <2>1, MarksKept DEF n
<1>7. TypeOK'
  <2>1. /\ stack' \in [Threads -> Seq(Frame)] /\ td' = td /\ answer' = answer
        /\ accesses' = accesses /\ overlapped' = overlapped
    BY <1>2 DEF After
  <2> QED
    BY <1>1, <2>1, TypeKept DEF TypeOK
<1> QED
  BY <1>2, <1>4, <1>6, <1>7 DEF IInv

\* What the top frame of a busy thread is known to be.
LEMMA TopOK ==
  ASSUME IInv, NEW t \in Threads, ~ Idle(t)
  PROVE  /\ Top(t) \in Frame /\ FrameOK(Top(t)) /\ Len(stack[t]) \in Nat \ {0} /\ Top(t).cls \in Classes
         /\ Len(Top(t).refs) \in Nat /\ Top(t).refs \in Seq(Classes \union {Dict})
         /\ hints[Top(t).cls] \in Seq(Classes \union {Broken}) /\ Len(hints[Top(t).cls]) \in Nat
<1>1. Top(t) \in Frame /\ Len(stack[t]) \in 1 .. Len(stack[t]) /\ Len(stack[t]) \in Nat \ {0}
  BY TopFacts DEF IInv
<1>2. FrameOK(Top(t))
  BY <1>1 DEF IInv, Frames, Top
<1>3. Top(t).cls \in Classes /\ Top(t).refs \in Seq(Classes \union {Dict})
  BY <1>1 DEF Frame
<1>4. hints \in [Classes -> Seq(Classes \union {Broken})]
  BY AnnotationAssumption DEF IInv, TypeOK
<1> QED
  BY <1>1, <1>2, <1>3, <1>4

LEMMA Enters ==
  ASSUME IInv, NEW t \in Threads, Enter(t)
  PROVE  IInv'
<1>1. ~ Idle(t) /\ Top(t).phase = "enter"
  BY DEF Enter, At
<1>2. Top(t) \in Frame /\ FrameOK(Top(t)) /\ Top(t).cls \in Classes
  BY <1>1, TopOK
<1> DEFINE returned == [Top(t) EXCEPT !.phase = "store", !.result = Dict]
<1>3. generating' = generating /\ generating \subseteq Classes /\ raised' \in BOOLEAN /\ ~ Marked(Top(t))
  BY <1>1 DEF Enter, IInv, TypeOK, Marked
<1>4. CASE Top(t).cls \in generating
  <2>1. returned \in Frame /\ returned.cls = Top(t).cls /\ returned.phase = "store"
        /\ returned.refs = Top(t).refs /\ returned.result = Dict
    BY <1>2 DEF Frame, Value
  <2>2. FrameOK(returned)
    BY <1>2, <2>1, ValueAssumption DEF FrameOK, Value
  <2>3. SetTop(t, returned) /\ UNCHANGED <<config, td, answer, accesses, overlapped>>
    BY <1>4 DEF Enter
  <2> HIDE DEF returned
  <2> QED
    BY <1>1, <1>3, <2>1, <2>2, <2>3, TopKept
<1>5. CASE Top(t).cls \notin generating
  <2>1. SetTop(t, Moved(Top(t), "add")) /\ UNCHANGED <<config, td, answer, accesses, overlapped>>
    BY <1>5 DEF Enter
  <2>2. Moved(Top(t), "add") \in Frame /\ Moved(Top(t), "add").cls = Top(t).cls /\ FrameOK(Moved(Top(t), "add"))
    BY <1>1, <1>2, MovedFacts DEF FrameOK
  <2> QED
    BY <1>1, <1>3, <2>1, <2>2, TopKept
<1> QED
  BY <1>4, <1>5

LEMMA Adds ==
  ASSUME IInv, NEW t \in Threads, Add(t)
  PROVE  IInv'
<1>1. ~ Idle(t) /\ Top(t).phase = "add"
  BY DEF Add, At
<1>2. Top(t) \in Frame /\ FrameOK(Top(t)) /\ Top(t).cls \in Classes
  BY <1>1, TopOK
<1> DEFINE frame == Moved(Top(t), "fields")
<1>3. frame \in Frame /\ frame.cls = Top(t).cls /\ FrameOK(frame) /\ Marked(frame)
  BY <1>2, MovedFacts DEF FrameOK, Marked
<1>4. /\ generating' = generating \union {Top(t).cls} /\ SetTop(t, frame)
      /\ UNCHANGED <<config, td, answer, accesses, overlapped, raised>>
  BY DEF Add
<1>5. generating \subseteq Classes /\ raised \in BOOLEAN /\ ~ Marked(Top(t))
  BY <1>1 DEF IInv, TypeOK, Marked
<1> HIDE DEF frame
<1> QED
  BY <1>1, <1>2, <1>3, <1>4, <1>5, TopKept

\* What a frame that is to resolve its next annotation finds there.
LEMMA NextHintFacts ==
  ASSUME IInv, NEW t \in Threads, MoreHints(t)
  PROVE  /\ ~ Idle(t) /\ Top(t).phase = "fields" /\ Marked(Top(t))
         /\ Len(Top(t).refs) + 1 \in 1 .. Len(hints[Top(t).cls])
         /\ NextHint(t) \in Classes \union {Broken}
<1>1. ~ Idle(t) /\ Top(t).phase = "fields" /\ Len(Top(t).refs) < Len(hints[Top(t).cls])
  BY DEF MoreHints, At
<1>2. Len(Top(t).refs) \in Nat /\ hints[Top(t).cls] \in Seq(Classes \union {Broken}) /\ Len(hints[Top(t).cls]) \in Nat
  BY <1>1, TopOK
<1>3. Len(Top(t).refs) + 1 \in 1 .. Len(hints[Top(t).cls])
  BY <1>1, <1>2
<1>4. NextHint(t) \in Classes \union {Broken}
  BY <1>2, <1>3, ElementOfSeq DEF NextHint
<1> QED
  BY <1>1, <1>3, <1>4 DEF Marked

\* A frame with one more reference, while it has annotations left.
LEMMA OneMoreReference ==
  ASSUME NEW frame \in Frame, FrameOK(frame), NEW value \in Value, Len(hints[frame.cls]) \in Nat,
         frame.phase = "fields", Len(frame.refs) < Len(hints[frame.cls])
  PROVE  /\ WithReference(frame, value) \in Frame /\ FrameOK(WithReference(frame, value))
         /\ WithReference(frame, value).cls = frame.cls /\ Marked(WithReference(frame, value))
<1> DEFINE next == WithReference(frame, value)
<1>1. /\ next \in Frame /\ next.cls = frame.cls /\ next.phase = frame.phase
      /\ Len(frame.refs) \in Nat /\ Len(next.refs) = Len(frame.refs) + 1
  BY WithReferenceFacts
<1> HIDE DEF next
<1>2. Len(next.refs) <= Len(hints[next.cls])
  BY <1>1
<1>3. FrameOK(next) /\ Marked(next)
  BY <1>1, <1>2 DEF FrameOK, Marked
<1> QED
  BY <1>1, <1>3 DEF next

LEMMA Resolves ==
  ASSUME IInv, NEW t \in Threads, Resolve(t)
  PROVE  IInv'
<1>1. MoreHints(t) /\ NextHint(t) # Broken
  BY DEF Resolve
<1>2. /\ ~ Idle(t) /\ Top(t).phase = "fields" /\ Marked(Top(t)) /\ NextHint(t) \in Classes
      /\ Len(Top(t).refs) + 1 \in 1 .. Len(hints[Top(t).cls])
  BY <1>1, NextHintFacts
<1>3. /\ Top(t) \in Frame /\ FrameOK(Top(t)) /\ Len(Top(t).refs) \in Nat /\ Len(hints[Top(t).cls]) \in Nat
      /\ Len(stack[t]) \in Nat \ {0}
  BY <1>2, TopOK
<1>4. TypeOK /\ Frames /\ Calling /\ MarksHaveFrames /\ generating \subseteq Classes /\ raised \in BOOLEAN
  BY DEF IInv, TypeOK
<1>5. UNCHANGED <<config, td, generating, answer, accesses, overlapped, raised>>
  BY DEF Resolve
<1>6. CASE Lookup(NextHint(t)) # None
  <2> DEFINE frame == WithReference(Top(t), Lookup(NextHint(t)))
  <2>1. Lookup(NextHint(t)) \in Value
    BY <1>2, <1>4, <1>6, LookupFacts
  <2>2. Len(Top(t).refs) < Len(hints[Top(t).cls])
    BY <1>1 DEF MoreHints
  <2>3. frame \in Frame /\ FrameOK(frame) /\ frame.cls = Top(t).cls /\ Marked(frame)
    BY <1>2, <1>3, <2>1, <2>2, OneMoreReference
  <2>4. SetTop(t, frame)
    BY <1>6 DEF Resolve
  <2> HIDE DEF frame
  <2> QED
    BY <1>2, <1>4, <1>5, <2>3, <2>4, TopKept
<1>7. CASE Lookup(NextHint(t)) = None
  <2> DEFINE frame == Descriptor(NextHint(t))
             n == Len(stack[t])
  <2>1. frame \in Frame /\ FrameOK(frame) /\ frame.cls = NextHint(t)
    BY <1>2, <1>4, DescriptorFacts
  <2>2. stack' = [stack EXCEPT ![t] = Append(stack[t], frame)]
    BY <1>7 DEF Resolve
  <2> HIDE DEF frame
  <2>3. After(t, n + 1, frame) /\ n \in Nat /\ n + 1 \in Nat \ {0} /\ n + 1 - 1 = n /\ n <= n
    <3>1. n \in Nat /\ After(t, n + 1, frame)
      BY <1>4, <2>1, <2>2, PushFacts
    <3> HIDE DEF n
    <3> QED
      BY <3>1
  <2>4. Calls(stack[t][n], frame.cls)
    BY <1>1, <1>2, <2>1 DEF Calls, MoreHints, NextHint, Top
  <2> HIDE DEF n
  <2>5. UNCHANGED config
    BY <1>5
  <2>6. Frames' /\ Calling'
    BY <1>4, <2>1, <2>3, <2>4, <2>5, StackKept DEF n
  <2>7. \A c \in generating' : c \in generating /\ \A k \in n + 1 .. n : Marked(stack[t][k]) => stack[t][k].cls # c
    BY <1>5, <2>3
  <2>8. MarksHaveFrames'
    BY <1>4, <2>3, <2>7, MarksKept DEF n
  <2>9. TypeOK'
    BY <1>4, <1>5, <2>3, TypeKept DEF After, TypeOK
  <2> QED
    BY <2>6, <2>8, <2>9 DEF IInv
<1> QED
  BY <1>6, <1>7

LEMMA Raises ==
  ASSUME IInv, NEW t \in Threads, Raise(t)
  PROVE  IInv'
<1>1. ~ Idle(t) /\ Top(t).phase = "fields"
  BY NextHintFacts DEF Raise
<1>2. Top(t) \in Frame /\ FrameOK(Top(t)) /\ Top(t).cls \in Classes
  BY <1>1, TopOK
<1>0. PICK instead \in {Dict, None} : SetTop(t, [Top(t) EXCEPT !.phase = "raising", !.result = instead])
  BY DEF Raise
<1> DEFINE frame == [Top(t) EXCEPT !.phase = "raising", !.result = instead]
<1>3. frame \in Frame /\ frame.cls = Top(t).cls /\ FrameOK(frame) /\ Marked(frame)
  <2>1. instead \in Value \union {None}
    BY <1>0 DEF Value
  <2>2. /\ frame \in Frame /\ frame.cls = Top(t).cls /\ frame.refs = Top(t).refs
        /\ frame.phase = "raising"
    BY <1>2, <2>1 DEF Frame
  <2> QED
    BY <1>2, <2>2 DEF FrameOK, Marked
<1>4. /\ raised' = TRUE /\ SetTop(t, frame)
      /\ UNCHANGED <<config, td, generating, answer, accesses, overlapped>>
  BY <1>0 DEF Raise
<1>5. generating \subseteq Classes
  BY DEF IInv, TypeOK
<1> HIDE DEF frame
<1> QED
  BY <1>1, <1>2, <1>3, <1>4, <1>5, TopKept

\* A TypedDict that is built has the class and the references of its frame.
LEMMA BuiltFacts ==
  ASSUME NEW frame \in Frame
  PROVE  LET next == [frame EXCEPT !.phase = "leave", !.result = [of |-> frame.cls, refs |-> frame.refs]]
         IN  /\ next \in Frame /\ next.cls = frame.cls /\ next.refs = frame.refs /\ next.phase = "leave"
             /\ next.result = [of |-> frame.cls, refs |-> frame.refs] /\ next.result \in Built
             /\ next.result # None /\ next.result # Dict
<1> DEFINE value == [of |-> frame.cls, refs |-> frame.refs]
           next == [frame EXCEPT !.phase = "leave", !.result = value]
<1>1. value \in Built
  BY DEF Built, Frame
<1>2. value \in Value /\ value # None /\ value # Dict
  BY <1>1, ValueAssumption DEF Value
<1> HIDE DEF value
<1>3. next \in Frame /\ next.cls = frame.cls /\ next.refs = frame.refs /\ next.phase = "leave" /\ next.result = value
  BY <1>2 DEF Frame
<1> HIDE DEF next
<1> QED
  BY <1>1, <1>2, <1>3 DEF next, value

LEMMA Builds ==
  ASSUME IInv, NEW t \in Threads, Build(t)
  PROVE  IInv'
<1>1. ~ Idle(t) /\ Top(t).phase = "fields"
  BY DEF Build, At
<1>2. Top(t) \in Frame /\ FrameOK(Top(t)) /\ Top(t).cls \in Classes
  BY <1>1, TopOK
<1> DEFINE frame == [Top(t) EXCEPT !.phase = "leave", !.result = [of |-> Top(t).cls, refs |-> Top(t).refs]]
<1>3. /\ frame \in Frame /\ frame.cls = Top(t).cls /\ frame.refs = Top(t).refs /\ frame.phase = "leave"
      /\ frame.result # None
  BY <1>2, BuiltFacts
<1>4. SetTop(t, frame) /\ UNCHANGED <<config, td, generating, answer, accesses, overlapped, raised>>
  BY DEF Build
<1>5. generating \subseteq Classes /\ raised \in BOOLEAN
  BY DEF IInv, TypeOK
<1> HIDE DEF frame
<1>6. FrameOK(frame) /\ Marked(frame)
  BY <1>2, <1>3 DEF FrameOK, Marked
<1> QED
  BY <1>1, <1>2, <1>3, <1>4, <1>5, <1>6, TopKept

LEMMA Leaves ==
  ASSUME IInv, NEW t \in Threads, Leave(t)
  PROVE  IInv'
<1>1. ~ Idle(t) /\ Top(t).phase = "leave"
  BY DEF Leave, At
<1>2. Top(t) \in Frame /\ FrameOK(Top(t)) /\ Top(t).cls \in Classes
  BY <1>1, TopOK
<1> DEFINE frame == Moved(Top(t), "store")
<1>3. frame \in Frame /\ frame.cls = Top(t).cls /\ FrameOK(frame)
  BY <1>1, <1>2, MovedFacts DEF FrameOK
<1>4. /\ SetTop(t, frame) /\ generating' = generating \ {Top(t).cls}
      /\ UNCHANGED <<config, td, answer, accesses, overlapped, raised>>
  BY DEF Leave
<1>5. generating \subseteq Classes /\ raised \in BOOLEAN
  BY DEF IInv, TypeOK
<1> HIDE DEF frame
<1> QED
  BY <1>1, <1>2, <1>3, <1>4, <1>5, TopKept

\* The frame under the top one.
Caller(t) == stack[t][Len(stack[t]) - 1]

\* The caller of the top frame waits for the class of that frame.
LEMMA CallerFacts ==
  ASSUME IInv, NEW t \in Threads, ~ Idle(t), Len(stack[t]) # 1
  PROVE  /\ Caller(t) \in Frame /\ FrameOK(Caller(t)) /\ Caller(t).cls \in Classes
         /\ Calls(Caller(t), Top(t).cls)
         /\ hints[Caller(t).cls] \in Seq(Classes \union {Broken}) /\ Len(hints[Caller(t).cls]) \in Nat
         /\ Len(stack[t]) - 1 \in 1 .. Len(stack[t]) /\ Len(Caller(t).refs) \in Nat
<1>1. Len(stack[t]) \in Nat \ {0} /\ \A k \in 1 .. Len(stack[t]) : stack[t][k] \in Frame
  BY TopFacts DEF IInv
<1>2. Len(stack[t]) - 1 \in 1 .. Len(stack[t]) /\ Len(stack[t]) - 1 \in 1 .. Len(stack[t]) - 1
      /\ Len(stack[t]) - 1 + 1 = Len(stack[t])
  <2> DEFINE m == Len(stack[t])
  <2>1. m \in Nat \ {0} /\ m # 1
    BY <1>1
  <2> HIDE DEF m
  <2>2. m - 1 \in 1 .. m /\ m - 1 \in 1 .. m - 1 /\ m - 1 + 1 = m
    BY <2>1
  <2> QED
    BY <2>2 DEF m
<1>3. Caller(t) \in Frame /\ FrameOK(Caller(t)) /\ Calls(Caller(t), Top(t).cls)
  BY <1>1, <1>2 DEF IInv, Frames, Calling, Caller, Top
<1>4. Caller(t).cls \in Classes /\ Caller(t).refs \in Seq(Classes \union {Dict})
  BY <1>3 DEF Frame
<1>5. hints \in [Classes -> Seq(Classes \union {Broken})]
  BY AnnotationAssumption DEF IInv, TypeOK
<1> QED
  BY <1>2, <1>3, <1>4, <1>5

\* The outermost call returns.
LEMMA OutermostReturns ==
  ASSUME IInv, UNCHANGED config, NEW t \in Threads, ~ Idle(t), Len(stack[t]) = 1,
         stack' = [stack EXCEPT ![t] = <<>>],
         \A c \in generating' : c \in generating /\ (Marked(Top(t)) => Top(t).cls # c)
  PROVE  Emptied(t) /\ Frames' /\ Calling' /\ MarksHaveFrames'
<1>1. stack \in [Threads -> Seq(Frame)] /\ <<>> \in Seq(Frame)
  BY EmptySeq DEF IInv, TypeOK
<1>2. Emptied(t)
  BY <1>1 DEF Emptied
<1>3. \A k \in 1 .. Len(stack[t]) : stack[t][k] = Top(t)
  BY DEF Top
<1> QED
  BY <1>2, <1>3, StackEmptied, MarksEmptied DEF IInv

\* An inner call returns, and its caller goes on.
LEMMA InnerReturns ==
  ASSUME IInv, UNCHANGED config, NEW t \in Threads, ~ Idle(t), Len(stack[t]) # 1, NEW frame \in Frame,
         stack' = [stack EXCEPT ![t] = [Under(t) EXCEPT ![Len(Under(t))] = frame]],
         frame.cls = Caller(t).cls, FrameOK(frame), Marked(frame),
         \A c \in generating' : c \in generating /\ (Marked(Top(t)) => Top(t).cls # c)
  PROVE  /\ After(t, Len(stack[t]) - 1, frame)
         /\ Frames' /\ Calling' /\ MarksHaveFrames'
<1> DEFINE n == Len(stack[t]) - 1
<1>1. TypeOK /\ Frames /\ Calling /\ MarksHaveFrames
  BY DEF IInv
<1>2. After(t, n, frame) /\ n \in Nat \ {0}
  BY <1>1, ReturnFacts
<1>3. Len(stack[t]) \in Nat \ {0} /\ Len(stack[t]) = n + 1
  BY <1>1, TopFacts
<1> HIDE DEF n
<1>4. n - 1 <= Len(stack[t])
  BY <1>2, <1>3
<1>5. n > 1 => Calls(stack[t][n - 1], frame.cls)
  <2>1. ASSUME n > 1 PROVE Calls(stack[t][n - 1], stack[t][n - 1 + 1].cls)
    <3>1. n - 1 \in 1 .. Len(stack[t]) - 1
      BY <1>2, <1>3, <2>1
    <3> QED
      BY <1>1, <3>1 DEF Calling
  <2>2. n - 1 + 1 = n /\ frame.cls = stack[t][n].cls
    BY <1>2, <1>3 DEF Caller, n
  <2> QED
    BY <2>1, <2>2
<1>6. Frames' /\ Calling'
  BY <1>1, <1>2, <1>4, <1>5, StackKept
<1>7. \A c \in generating' :
        \/ Marked(frame) /\ frame.cls = c
        \/ c \in generating /\ \A k \in n .. Len(stack[t]) : Marked(stack[t][k]) => stack[t][k].cls # c
  <2>1. \A k \in n .. Len(stack[t]) : stack[t][k] = Caller(t) \/ stack[t][k] = Top(t)
    BY <1>2, <1>3 DEF Caller, Top, n
  <2> QED
    BY <2>1
<1>8. MarksHaveFrames'
  BY <1>1, <1>2, <1>3, <1>4, <1>7, MarksKept
<1> QED
  BY <1>2, <1>6, <1>8 DEF n

LEMMA Unwinds ==
  ASSUME IInv, NEW t \in Threads, Unwind(t)
  PROVE  IInv'
<1>1. ~ Idle(t) /\ Top(t).phase = "raising" /\ Marked(Top(t))
  BY DEF Unwind, At, Marked
<1>2. /\ UNCHANGED <<config, td, answer, accesses, overlapped, raised>>
      /\ generating' = generating \ {Top(t).cls}
      /\ stack' = [stack EXCEPT ![t] = IF Under(t) = <<>> THEN <<>>
                                       ELSE [Under(t) EXCEPT ![Len(Under(t))] = Caught(Under(t)[Len(Under(t))], Top(t).result)]]
  BY DEF Unwind, Under
<1>3. TypeOK /\ (Under(t) = <<>> <=> Len(stack[t]) = 1)
  BY <1>1, UnderFacts DEF IInv
<1>4. stack' \in [Threads -> Seq(Frame)] /\ Frames' /\ Calling' /\ MarksHaveFrames'
  <2>1. CASE Len(stack[t]) = 1
    <3>1. stack' = [stack EXCEPT ![t] = <<>>]
      BY <1>2, <1>3, <2>1
    <3> QED
      BY <1>1, <1>2, <2>1, <3>1, OutermostReturns DEF Emptied
  <2>2. CASE Len(stack[t]) # 1
    <3> DEFINE frame == Caught(Caller(t), Top(t).result)
    <3>1. Caller(t) \in Frame /\ FrameOK(Caller(t)) /\ Calls(Caller(t), Top(t).cls) /\ Len(hints[Caller(t).cls]) \in Nat
      BY <1>1, <2>2, CallerFacts
    <3>2. frame \in Frame /\ frame.cls = Caller(t).cls /\ FrameOK(frame) /\ Marked(frame)
      <4>1. CASE Top(t).result = Dict
        <5>1. frame = WithReference(Caller(t), Dict) /\ Dict \in Value
          BY <4>1 DEF Caught, Value
        <5> HIDE DEF frame
        <5> QED
          BY <3>1, <5>1, OneMoreReference DEF Calls
      <4>2. CASE Top(t).result # Dict
        <5>1. frame = Moved(Caller(t), "raising")
          BY <4>2 DEF Caught
        <5> HIDE DEF frame
        <5> QED
          BY <3>1, <5>1, MovedFacts DEF FrameOK, Marked
      <4> QED
        BY <4>1, <4>2
    <3>3. Under(t)[Len(Under(t))] = Caller(t)
      <4>1. Len(Under(t)) = Len(stack[t]) - 1 /\ Len(stack[t]) - 1 \in 1 .. Len(stack[t]) - 1
            /\ \A k \in 1 .. Len(stack[t]) - 1 : Under(t)[k] = stack[t][k]
        BY <1>1, <1>3, <2>2, UnderFacts, TopFacts
      <4> QED
        BY <4>1 DEF Caller
    <3>4. stack' = [stack EXCEPT ![t] = [Under(t) EXCEPT ![Len(Under(t))] = frame]]
      BY <1>2, <1>3, <2>2, <3>3
    <3> HIDE DEF frame
    <3> QED
      BY <1>1, <1>2, <2>2, <3>2, <3>4, InnerReturns DEF After
  <2> QED
    BY <2>1, <2>2
<1>5. TypeOK'
  BY <1>2, <1>3, <1>4, TypeKept DEF TypeOK
<1> QED
  BY <1>4, <1>5 DEF IInv

LEMMA Stores ==
  ASSUME IInv, NEW t \in Threads, Store(t)
  PROVE  IInv'
<1>1. ~ Idle(t) /\ Top(t).phase = "store" /\ ~ Marked(Top(t))
  BY DEF Store, At, Marked
<1>2. Top(t) \in Frame /\ FrameOK(Top(t)) /\ Top(t).cls \in Classes
  BY <1>1, TopOK
<1>3. Top(t).result \in Value
  BY <1>1, <1>2 DEF FrameOK, Frame
<1>4. TypeOK /\ (Under(t) = <<>> <=> Len(stack[t]) = 1)
  BY <1>1, UnderFacts DEF IInv
<1>5. UNCHANGED <<config, generating, accesses, overlapped, raised>> /\ td' = [td EXCEPT ![Top(t).cls] = Top(t).result]
  BY DEF Store
<1>6. td' \in [Classes -> Value \union {None}]
  BY <1>2, <1>3, <1>4, <1>5 DEF TypeOK
<1>7. /\ stack' \in [Threads -> Seq(Frame)] /\ Frames' /\ Calling' /\ MarksHaveFrames'
      /\ answer' \in {None} \union [cls : Classes, value : Value]
  <2>1. CASE Len(stack[t]) = 1
    <3>1. stack' = [stack EXCEPT ![t] = <<>>] /\ answer' = [cls |-> Top(t).cls, value |-> Top(t).result]
      BY <1>4, <2>1 DEF Store, Under
    <3> QED
      BY <1>1, <1>2, <1>3, <1>5, <2>1, <3>1, OutermostReturns DEF Emptied
  <2>2. CASE Len(stack[t]) # 1
    <3> DEFINE frame == WithReference(Caller(t), Top(t).result)
    <3>1. Caller(t) \in Frame /\ FrameOK(Caller(t)) /\ Calls(Caller(t), Top(t).cls) /\ Len(hints[Caller(t).cls]) \in Nat
      BY <1>1, <2>2, CallerFacts
    <3>2. frame \in Frame /\ frame.cls = Caller(t).cls /\ FrameOK(frame) /\ Marked(frame)
      BY <1>3, <3>1, OneMoreReference DEF Calls
    <3>3. Under(t)[Len(Under(t))] = Caller(t)
      <4>1. Len(Under(t)) = Len(stack[t]) - 1 /\ Len(stack[t]) - 1 \in 1 .. Len(stack[t]) - 1
            /\ \A k \in 1 .. Len(stack[t]) - 1 : Under(t)[k] = stack[t][k]
        BY <1>1, <1>4, <2>2, UnderFacts, TopFacts
      <4> QED
        BY <4>1 DEF Caller
    <3>4. answer' = answer /\ stack' = [stack EXCEPT ![t] = [Under(t) EXCEPT ![Len(Under(t))] = frame]]
      BY <1>4, <2>2, <3>3 DEF Store, Under
    <3> HIDE DEF frame
    <3>5. After(t, Len(stack[t]) - 1, frame) /\ Frames' /\ Calling' /\ MarksHaveFrames'
      BY <1>1, <1>5, <2>2, <3>2, <3>4, InnerReturns
    <3> QED
      BY <1>4, <3>4, <3>5 DEF After, TypeOK
  <2> QED
    BY <2>1, <2>2
<1>8. TypeOK'
  BY <1>4, <1>5, <1>6, <1>7, TypeKept DEF TypeOK
<1> QED
  BY <1>7, <1>8 DEF IInv

LEMMA Accesses ==
  ASSUME IInv, NEW t \in Threads, NEW c \in Classes, Access(t, c)
  PROVE  IInv'
<1>1. TypeOK /\ Frames /\ Calling /\ MarksHaveFrames /\ Idle(t) /\ accesses < MaxAccesses
  BY DEF IInv, Access
<1>2. /\ UNCHANGED <<config, td, generating, raised>> /\ accesses' = accesses + 1
      /\ overlapped' = (overlapped \/ \E u \in Threads : ~ Idle(u))
  BY DEF Access, Begin
<1>3. accesses' \in 0 .. MaxAccesses /\ overlapped' \in BOOLEAN
  BY <1>1, <1>2, BoundAssumption DEF TypeOK
<1>4. CASE Lookup(c) # None
  <2>1. answer' = [cls |-> c, value |-> Lookup(c)] /\ stack' = stack
    BY <1>4 DEF Access, Begin
  <2>2. Lookup(c) \in Value
    BY <1>1, <1>4, LookupFacts
  <2>3. TypeOK'
    BY <1>1, <1>2, <1>3, <2>1, <2>2, TypeKept DEF TypeOK
  <2>4. Frames' /\ Calling' /\ MarksHaveFrames'
    BY <1>1, <1>2, <2>1 DEF Frames, Calling, MarksHaveFrames, MarkHasFrame, FrameOK, Calls, Marked, config
  <2> QED
    BY <2>3, <2>4 DEF IInv
<1>5. CASE Lookup(c) = None
  <2> DEFINE frame == Descriptor(c)
  <2>1. frame \in Frame /\ FrameOK(frame) /\ frame.cls = c
    BY <1>1, DescriptorFacts
  <2>2. answer' = answer /\ stack' = [stack EXCEPT ![t] = <<frame>>]
    BY <1>5 DEF Access, Begin
  <2> HIDE DEF frame
  <2>3. stack[t] = <<>> /\ Len(stack[t]) = 0
    BY <1>1, EmptySeq DEF Idle
  <2>4. Append(stack[t], frame) = <<frame>>
    BY <2>3
  <2>5. After(t, 1, frame)
    <3>1. stack' = [stack EXCEPT ![t] = Append(stack[t], frame)]
      BY <2>2, <2>4
    <3>2. After(t, Len(stack[t]) + 1, frame)
      BY <1>1, <2>1, <3>1, PushFacts
    <3>3. Len(stack[t]) + 1 = 1
      BY <2>3
    <3> QED
      BY <3>2, <3>3
  <2>6. Frames' /\ Calling'
    <3>1. 1 \in Nat \ {0} /\ 1 - 1 <= Len(stack[t]) /\ ~ (1 > 1)
      BY <2>3
    <3>2. UNCHANGED config
      BY <1>2
    <3> QED
      BY <1>1, <2>1, <2>5, <3>1, <3>2, StackKept
  <2>7. MarksHaveFrames'
    <3>1. \A d \in generating' : d \in generating /\ \A k \in 1 .. Len(stack[t]) : Marked(stack[t][k]) => stack[t][k].cls # d
      BY <1>2, <2>3
    <3>2. 1 \in Nat \ {0} /\ 1 - 1 <= Len(stack[t]) /\ Len(stack[t]) \in Nat
      BY <2>3
    <3> QED
      BY <1>1, <2>5, <3>1, <3>2, MarksKept
  <2>8. TypeOK'
    BY <1>1, <1>2, <1>3, <2>2, <2>5, TypeKept DEF After, TypeOK
  <2> QED
    BY <2>6, <2>7, <2>8 DEF IInv
<1> QED
  BY <1>4, <1>5

LEMMA InitKeeps ==
  ASSUME Init
  PROVE  IInv
<1>1. <<>> \in Seq(Frame) /\ Len(<<>>) = 0
  BY EmptySeq
<1>2. TypeOK
  <2>1. stack \in [Threads -> Seq(Frame)] /\ td \in [Classes -> Value \union {None}]
    BY <1>1 DEF Init
  <2>2. accesses \in 0 .. MaxAccesses
    BY BoundAssumption DEF Init
  <2> QED
    BY <2>1, <2>2 DEF Init, TypeOK
<1>3. \A t \in Threads : Len(stack[t]) = 0
  BY <1>1 DEF Init
<1>4. Frames /\ Calling
  BY <1>3 DEF Frames, Calling
<1>5. MarksHaveFrames
  BY DEF Init, MarksHaveFrames
<1> QED
  BY <1>2, <1>4, <1>5 DEF IInv

LEMMA StutterKeeps ==
  ASSUME IInv, UNCHANGED vars
  PROVE  IInv'
<1>1. TypeOK'
  BY DEF IInv, vars, config, TypeOK
<1>2. stack' = stack /\ hints' = hints /\ generating' = generating
  BY DEF vars, config
<1>3. Frames'
  BY <1>2 DEF IInv, Frames, FrameOK
<1>4. Calling'
  BY <1>2 DEF IInv, Calling, Calls
<1>5. MarksHaveFrames'
  BY <1>2 DEF IInv, MarksHaveFrames, MarkHasFrame
<1> QED
  BY <1>1, <1>3, <1>4, <1>5 DEF IInv

LEMMA StepKeeps ==
  ASSUME IInv, [Next]_vars
  PROVE  IInv'
<1>1. CASE Next
  <2>1. PICK t \in Threads : Run(t) \/ \E c \in Classes : Access(t, c)
    BY <1>1 DEF Next
  <2>2. CASE \E c \in Classes : Access(t, c)
    BY <2>2, Accesses
  <2>3. CASE Enter(t)
    BY <2>3, Enters
  <2>4. CASE Add(t)
    BY <2>4, Adds
  <2>5. CASE Resolve(t)
    BY <2>5, Resolves
  <2>6. CASE Raise(t)
    BY <2>6, Raises
  <2>7. CASE Build(t)
    BY <2>7, Builds
  <2>8. CASE Leave(t)
    BY <2>8, Leaves
  <2>9. CASE Unwind(t)
    BY <2>9, Unwinds
  <2>10. CASE Store(t)
    BY <2>10, Stores
  <2> QED
    BY <2>1, <2>2, <2>3, <2>4, <2>5, <2>6, <2>7, <2>8, <2>9, <2>10 DEF Run
<1>2. CASE UNCHANGED vars
  BY <1>2, StutterKeeps
<1> QED
  BY <1>1, <1>2

\* IInv holds in every state, whatever the threads do and whatever raises.
THEOREM Inductive == Spec => []IInv
<1>1. Init => IInv
  BY InitKeeps
<1>2. IInv /\ [Next]_vars => IInv'
  BY StepKeeps
<1> QED
  BY <1>1, <1>2, PTL DEF Spec

\* The variables keep their types.
THEOREM TypeCorrect == Spec => []TypeOK
<1>1. IInv => TypeOK
  BY DEF IInv
<1> QED
  BY <1>1, Inductive, PTL

\* When no thread is generating, no class is marked (_GENERATING is empty), although threads
\* remove each other's marks and generations raise anywhere: the try begins right after the
\* class is added, so whoever added it has a frame that will remove it.
THEOREM NothingStaysMarked == Spec => []NothingLeft
<1>1. IInv => NothingLeft
  <2>1. SUFFICES ASSUME IInv, Quiet, NEW c \in generating
                 PROVE  FALSE
    BY DEF NothingLeft
  <2>2. PICK t \in Threads : \E k \in 1 .. Len(stack[t]) : Marked(stack[t][k]) /\ stack[t][k].cls = c
    BY <2>1 DEF IInv, MarksHaveFrames, MarkHasFrame
  <2>3. stack[t] = <<>> /\ Len(stack[t]) = 0
    BY <2>1, EmptySeq DEF Quiet, Idle
  <2> QED
    BY <2>2, <2>3
<1> QED
  BY <1>1, Inductive, PTL

-----------------------------------------------------------------------------
(* References that lead back                                               *)

LEMMA ReachesItself == \A c \in Classes : Reaches(c, c)
BY DEF Reaches

\* What a class refers to is reached from wherever the class is.
LEMMA ReachesOn ==
  ASSUME NEW c \in Classes, NEW d \in Classes, Reaches(c, d), Len(hints[d]) \in Nat,
         NEW i \in 1 .. Len(hints[d]), DOMAIN hints[d] = 1 .. Len(hints[d]), hints[d][i] \in Classes
  PROVE  Reaches(c, hints[d][i])
<1>1. hints[d][i] # Broken
  BY NoneAssumption
<1> QED
  BY <1>1 DEF Reaches, Closed

\* The configuration decides what mirrors a class.
LEMMA SameMeaning ==
  ASSUME UNCHANGED config
  PROVE  /\ \A c, d : Reaches(c, d)' <=> Reaches(c, d)
         /\ \A c, value : Mirrors(c, value)' <=> Mirrors(c, value)
         /\ \A c, i, ref : Reflects(c, i, ref)' <=> Reflects(c, i, ref)
<1>1. hints' = hints
  BY DEF config
<1>2. \A c, d : Reaches(c, d)' <=> Reaches(c, d)
  BY <1>1 DEF Reaches, Closed
<1>3. \A c, i, ref : Reflects(c, i, ref)' <=> Reflects(c, i, ref)
  BY <1>1 DEF Reflects, Reaches, Closed
<1>4. \A c, value : Mirrors(c, value)' <=> Mirrors(c, value)
  BY <1>1 DEF Mirrors, Reaches, Closed
<1> QED
  BY <1>2, <1>3, <1>4

\* Without superclasses, only the class itself is looked at.
NoInheritance == \A m \in Mros, c \in Classes : m[c] = <<c>>

LEMMA OwnLookup ==
  ASSUME NoInheritance, TypeOK, NEW c \in Classes
  PROVE  Lookup(c) = td[c]
<1> DEFINE having == {i \in DOMAIN mro[c] : td[mro[c][i]] # None}
<1>1. mro[c] = <<c>>
  BY DEF TypeOK, NoInheritance
<1>2. DOMAIN mro[c] = {1} /\ mro[c][1] = c
  BY <1>1
<1>3. having = IF td[c] = None THEN {} ELSE {1}
  BY <1>2
<1>4. td[c] # None => (CHOOSE i \in having : \A j \in having : i <= j) = 1
  BY <1>3
<1> QED
  BY <1>2, <1>3, <1>4 DEF Lookup

-----------------------------------------------------------------------------
(* One thread, nothing raised                                              *)

\* While one thread generates, the others have nothing on their stacks.
LEMMA OthersIdle ==
  ASSUME Orderly, NEW t \in Threads, ~ Idle(t)
  PROVE  \A u \in Threads \ {t} : stack[u] = <<>>
BY DEF Orderly, Alone, Idle

\* What a step of the only busy thread does to the stacks is orderly when its new top frame
\* is, the frames under it stay marked, and it is not marked a second time.
LEMMA StackOrderly ==
  ASSUME UNCHANGED config, NEW t \in Threads, NEW n \in Nat \ {0}, NEW frame, frame.cls \in Classes,
         After(t, n, frame), Len(stack[t]) \in Nat, n - 1 <= Len(stack[t]),
         \A u \in Threads \ {t} : stack[u] = <<>>,
         Chained(t), MarkedOnce(t),
         \A k \in 1 .. n - 1 :
           /\ Faithful(stack[t][k]) /\ stack[t][k].phase = "fields" /\ stack[t][k].cls \in generating'
           /\ Reaches(stack[t][k].cls, frame.cls)
           /\ Marked(frame) => stack[t][k].cls # frame.cls,
         Faithful(frame)'
  PROVE  /\ Alone'
         /\ \A u \in Threads : Chained(u)' /\ MarkedOnce(u)' /\ \A f \in FramesOf(u)' : Faithful(f)'
<1>1. hints' = hints
  BY DEF config
<1>2. \A u \in Threads \ {t} : stack'[u] = <<>> /\ Len(stack'[u]) = 0
  BY EmptySeq DEF After
<1>3. Alone'
  BY <1>2 DEF Alone, Idle
<1>4. \A k \in 1 .. Len(stack'[t]) : IF k = n THEN stack'[t][k] = frame
                                     ELSE k \in 1 .. n - 1 /\ stack'[t][k] = stack[t][k]
  BY DEF After
<1>5. \A u \in Threads : Chained(u)'
  <2>1. SUFFICES ASSUME NEW u \in Threads, NEW j \in 1 .. Len(stack'[u]), NEW k \in 1 .. Len(stack'[u]), j <= k
                 PROVE  Reaches(stack'[u][j].cls, stack'[u][k].cls)
    BY <1>1 DEF Chained, Reaches, Closed
  <2>2. u = t
    BY <1>2, <2>1
  <2>3. CASE k = n /\ j = n
    BY <1>4, <2>2, <2>3, ReachesItself
  <2>4. CASE k = n /\ j # n
    BY <1>4, <2>2, <2>4
  <2>5. CASE k # n
    <3>1. k \in 1 .. n - 1 /\ j \in 1 .. n - 1 /\ k \in 1 .. Len(stack[t]) /\ j \in 1 .. Len(stack[t])
      BY <1>4, <2>1, <2>2, <2>5
    <3>2. j # n
      BY <3>1
    <3>3. stack'[t][k] = stack[t][k] /\ stack'[t][j] = stack[t][j]
      BY <1>4, <2>2, <2>5, <3>2
    <3>4. Reaches(stack[t][j].cls, stack[t][k].cls)
      BY <2>1, <3>1 DEF Chained
    <3> QED
      BY <2>2, <3>3, <3>4
  <2> QED
    BY <2>3, <2>4, <2>5
<1>6. \A u \in Threads : MarkedOnce(u)'
  <2>1. SUFFICES ASSUME NEW u \in Threads, NEW j \in 1 .. Len(stack'[u]), NEW k \in 1 .. Len(stack'[u]),
                        Marked(stack'[u][j]), Marked(stack'[u][k]), stack'[u][j].cls = stack'[u][k].cls
                 PROVE  j = k
    BY DEF MarkedOnce, Marked
  <2>2. u = t
    BY <1>2, <2>1
  <2>3. CASE j = n \/ k = n
    BY <1>4, <2>1, <2>2, <2>3
  <2>4. CASE j # n /\ k # n
    <3>1. k \in 1 .. n - 1 /\ j \in 1 .. n - 1 /\ k \in 1 .. Len(stack[t]) /\ j \in 1 .. Len(stack[t])
      <4>1. k \in 1 .. n /\ j \in 1 .. n
        BY <1>4, <2>1, <2>2
      <4>2. k \in 1 .. n - 1 /\ j \in 1 .. n - 1
        BY <2>4, <4>1
      <4> QED
        BY <4>2
    <3> QED
      BY <1>4, <2>1, <2>2, <2>4, <3>1 DEF MarkedOnce
  <2> QED
    BY <2>3, <2>4
<1>7. \A u \in Threads : \A f \in FramesOf(u)' : Faithful(f)'
  <2>1. SUFFICES ASSUME NEW u \in Threads, NEW f \in FramesOf(u)'
                 PROVE  Faithful(f)'
    OBVIOUS
  <2>2. PICK k \in 1 .. Len(stack'[u]) : f = stack'[u][k]
    BY <2>1 DEF FramesOf
  <2>3. u = t
    BY <1>2, <2>2
  <2>4. CASE k = n
    BY <1>4, <2>2, <2>3, <2>4
  <2>5. CASE k # n
    <3>1. Faithful(f) /\ f.phase = "fields" /\ f.cls \in generating'
      BY <1>4, <2>2, <2>3, <2>5
    <3> QED
      BY <3>1, SameMeaning DEF Faithful, Marked
  <2> QED
    BY <2>4, <2>5
<1> QED
  BY <1>3, <1>5, <1>6, <1>7

\* The frames of the only busy thread.
LEMMA Working ==
  ASSUME IInv, Orderly, NEW t \in Threads, ~ Idle(t)
  PROVE  /\ \A u \in Threads \ {t} : stack[u] = <<>>
         /\ Chained(t) /\ MarkedOnce(t) /\ Faithful(Top(t))
         /\ Len(stack[t]) \in Nat \ {0} /\ Top(t) = stack[t][Len(stack[t])]
         /\ Top(t) \in Frame /\ Top(t).cls \in Classes
         /\ \A k \in 1 .. Len(stack[t]) - 1 :
              /\ k \in 1 .. Len(stack[t]) /\ stack[t][k].cls \in Classes
              /\ Faithful(stack[t][k]) /\ stack[t][k].phase = "fields"
              /\ Marked(stack[t][k]) /\ stack[t][k].cls \in generating
              /\ Reaches(stack[t][k].cls, Top(t).cls)
              /\ Marked(Top(t)) => stack[t][k].cls # Top(t).cls
<1> DEFINE n == Len(stack[t])
<1>1. /\ n \in Nat \ {0} /\ Top(t) = stack[t][n] /\ Top(t) \in Frame /\ Top(t).cls \in Classes
      /\ \A k \in 1 .. n : stack[t][k] \in Frame
  BY TopOK, TopFacts DEF IInv, Top
<1>2. \A u \in Threads \ {t} : stack[u] = <<>>
  BY OthersIdle
<1>3. Chained(t) /\ MarkedOnce(t) /\ \A frame \in FramesOf(t) : Faithful(frame)
  BY DEF Orderly
<1>4. \A k \in 1 .. n : Faithful(stack[t][k])
  BY <1>3 DEF FramesOf
<1>5. \A k \in 1 .. n - 1 : stack[t][k].phase = "fields"
  BY DEF IInv, Calling, Calls
<1> HIDE DEF n
<1>6. n \in 1 .. n /\ \A k \in 1 .. n - 1 : k \in 1 .. n /\ k <= n /\ k # n
  BY <1>1
<1>7. \A k \in 1 .. n - 1 :
        /\ Marked(stack[t][k]) /\ stack[t][k].cls \in generating /\ stack[t][k].cls \in Classes
        /\ Reaches(stack[t][k].cls, Top(t).cls)
  <2>1. SUFFICES ASSUME NEW k \in 1 .. n - 1
                 PROVE  /\ Marked(stack[t][k]) /\ stack[t][k].cls \in generating /\ stack[t][k].cls \in Classes
                        /\ Reaches(stack[t][k].cls, Top(t).cls)
    OBVIOUS
  <2>2. Marked(stack[t][k])
    BY <1>5 DEF Marked
  <2>3. stack[t][k].cls \in generating
    BY <1>4, <1>6, <2>2 DEF Faithful
  <2>4. stack[t][k].cls \in Classes
    BY <1>1, <1>6 DEF Frame
  <2>5. Reaches(stack[t][k].cls, stack[t][n].cls)
    BY <1>3, <1>6 DEF Chained, n
  <2> QED
    BY <1>1, <2>2, <2>3, <2>4, <2>5
<1>8. \A k \in 1 .. n - 1 : Marked(Top(t)) => stack[t][k].cls # Top(t).cls
  BY <1>1, <1>3, <1>6, <1>7 DEF MarkedOnce, n
<1> QED
  BY <1>1, <1>2, <1>3, <1>4, <1>5, <1>6, <1>7, <1>8 DEF n

\* The only busy thread goes on with its top frame, and nothing is stored.
LEMMA TopOrderly ==
  ASSUME IInv, Orderly, UNCHANGED <<config, td, answer>>,
         NEW t \in Threads, ~ Idle(t), NEW frame \in Frame, After(t, Len(stack[t]), frame),
         frame.cls = Top(t).cls, Faithful(frame)', Top(t).phase # "store",
         Marked(frame) => Marked(Top(t)) \/ Top(t).cls \notin generating,
         \A c \in generating : \/ c \in generating'
                               \/ /\ c = Top(t).cls /\ Marked(Top(t))
                                  /\ frame.phase = "store" /\ frame.result # Dict
  PROVE  Orderly'
<1> DEFINE n == Len(stack[t])
<1>1. UNCHANGED config /\ td' = td /\ answer' = answer
  OBVIOUS
<1>2. /\ \A u \in Threads \ {t} : stack[u] = <<>>
      /\ Chained(t) /\ MarkedOnce(t)
      /\ n \in Nat \ {0} /\ Top(t).cls \in Classes
      /\ \A k \in 1 .. n - 1 :
              /\ Faithful(stack[t][k]) /\ stack[t][k].phase = "fields"
              /\ stack[t][k].cls \in generating
              /\ Reaches(stack[t][k].cls, Top(t).cls)
              /\ Marked(Top(t)) => stack[t][k].cls # Top(t).cls
  BY Working
<1>3. n - 1 <= Len(stack[t]) /\ n \in Nat /\ After(t, n, frame)
  BY <1>2
<1> HIDE DEF n
<1>4. \A k \in 1 .. n - 1 :
           /\ Faithful(stack[t][k]) /\ stack[t][k].phase = "fields" /\ stack[t][k].cls \in generating'
           /\ Reaches(stack[t][k].cls, frame.cls)
           /\ Marked(frame) => stack[t][k].cls # frame.cls
  BY <1>2
<1>5. /\ Alone'
      /\ \A u \in Threads : Chained(u)' /\ MarkedOnce(u)' /\ \A f \in FramesOf(u)' : Faithful(f)'
  <2>1. Len(stack[t]) \in Nat
    BY <1>3 DEF n
  <2> QED
    BY <1>1, <1>2, <1>3, <1>4, <2>1, StackOrderly, Zenon
<1>6. Kept'
  <2>1. SUFFICES ASSUME NEW c \in Classes, NEW value \in {td'[c]} \ {None}
                 PROVE  Mirrors(c, value)' \/ (value = Dict /\ Overwritten(c)')
    BY DEF Kept
  <2>2. Mirrors(c, value) \/ (value = Dict /\ Overwritten(c))
    BY <1>1, <2>1 DEF Orderly, Kept
  <2>3. CASE Mirrors(c, value)
    BY <1>1, <2>3, SameMeaning
  <2>4. CASE value = Dict /\ Overwritten(c)
    <3>1. c \in generating
      <4>1. ASSUME NEW u \in Threads, At(u, "store") PROVE FALSE
        <5>1. u = t
          BY <1>2, <4>1 DEF At, Idle
        <5> QED
          BY <4>1, <5>1 DEF At
      <4> QED
        BY <2>4, <4>1 DEF Overwritten
    <3>2. CASE c \in generating'
      BY <2>4, <3>2 DEF Overwritten
    <3>3. CASE c \notin generating'
      <4>1. c = frame.cls /\ frame.phase = "store" /\ frame.result # Dict
        BY <3>1, <3>3
      <4>2. stack'[t][Len(stack'[t])] = frame /\ Len(stack'[t]) = n /\ stack' \in [Threads -> Seq(Frame)]
        BY <1>3 DEF After
      <4>3. stack'[t] # <<>>
        BY <1>2, <4>2, EmptySeq
      <4>4. At(t, "store")' /\ Top(t)'.cls = c /\ Top(t)'.result # Dict
        BY <4>1, <4>2, <4>3 DEF At, Idle, Top
      <4> QED
        BY <2>4, <4>4 DEF Overwritten
    <3> QED
      BY <3>2, <3>3
  <2> QED
    BY <2>2, <2>3, <2>4
<1>7. AnswerMirrors'
  <2>1. hints' = hints
    BY DEF config
  <2>2. AnswerMirrors
    BY DEF Orderly
  <2> QED
    BY <1>1, <2>1, <2>2 DEF AnswerMirrors, Mirrors, Reaches, Closed
<1> QED
  BY <1>5, <1>6, <1>7 DEF Orderly

LEMMA EntersOrderly ==
  ASSUME IInv, Orderly, NEW t \in Threads, Enter(t)
  PROVE  Orderly'
<1>1. ~ Idle(t) /\ Top(t).phase = "enter" /\ generating' = generating /\ UNCHANGED <<config, td, answer>> /\ TypeOK
  BY DEF Enter, At, IInv
<1>2. Top(t) \in Frame /\ Faithful(Top(t)) /\ Top(t).refs = <<>> /\ FrameOK(Top(t))
  BY <1>1, Working, TopOK DEF FrameOK
<1>3. CASE Top(t).cls \in generating
  <2>1. PICK frame : frame = [Top(t) EXCEPT !.phase = "store", !.result = Dict]
    OBVIOUS
  <2>2. frame \in Frame /\ frame.cls = Top(t).cls /\ frame.phase = "store" /\ frame.refs = <<>> /\ frame.result = Dict
    BY <1>2, <2>1 DEF Frame, Value
  <2>3. SetTop(t, frame)
    BY <1>3, <2>1 DEF Enter
  <2>4. After(t, Len(stack[t]), frame)
    BY <1>1, <2>2, <2>3, SetTopFacts
  <2>5. Faithful(frame)' /\ ~ Marked(frame)
    BY <1>1, <1>3, <2>2, EmptySeq DEF Faithful, Marked
  <2> QED
    BY <1>1, <2>2, <2>4, <2>5, TopOrderly
<1>4. CASE Top(t).cls \notin generating
  <2>1. PICK frame : frame = Moved(Top(t), "add")
    OBVIOUS
  <2>2. frame \in Frame /\ frame.cls = Top(t).cls /\ frame.phase = "add" /\ frame.refs = <<>>
    BY <1>2, <2>1, MovedFacts
  <2>3. SetTop(t, frame)
    BY <1>4, <2>1 DEF Enter
  <2>4. After(t, Len(stack[t]), frame)
    BY <1>1, <2>2, <2>3, SetTopFacts
  <2>5. Faithful(frame)' /\ ~ Marked(frame)
    BY <1>1, <1>4, <2>2, EmptySeq DEF Faithful, Marked
  <2> QED
    BY <1>1, <2>2, <2>4, <2>5, TopOrderly
<1> QED
  BY <1>3, <1>4

LEMMA AddsOrderly ==
  ASSUME IInv, Orderly, NEW t \in Threads, Add(t)
  PROVE  Orderly'
<1>1. /\ ~ Idle(t) /\ Top(t).phase = "add" /\ UNCHANGED <<config, td, answer>> /\ TypeOK
      /\ generating' = generating \union {Top(t).cls}
  BY DEF Add, At, IInv
<1>2. Top(t) \in Frame /\ Faithful(Top(t)) /\ Top(t).refs = <<>>
  BY <1>1, Working, TopOK DEF FrameOK
<1>3. Top(t).cls \notin generating
  BY <1>1, <1>2 DEF Faithful
<1>4. PICK frame : frame = Moved(Top(t), "fields")
  OBVIOUS
<1>5. frame \in Frame /\ frame.cls = Top(t).cls /\ frame.phase = "fields" /\ frame.refs = <<>>
  BY <1>2, <1>4, MovedFacts
<1>6. SetTop(t, frame)
  BY <1>4 DEF Add
<1>7. After(t, Len(stack[t]), frame)
  BY <1>1, <1>5, <1>6, SetTopFacts
<1>8. Faithful(frame)'
  BY <1>1, <1>5, EmptySeq DEF Faithful, Marked
<1> QED
  BY <1>1, <1>3, <1>5, <1>7, <1>8, TopOrderly

LEMMA BuildsOrderly ==
  ASSUME IInv, Orderly, NEW t \in Threads, Build(t)
  PROVE  Orderly'
<1>1. /\ ~ Idle(t) /\ Top(t).phase = "fields" /\ UNCHANGED <<config, td, answer>> /\ TypeOK
      /\ generating' = generating /\ ~ (Len(Top(t).refs) < Len(hints[Top(t).cls]))
  BY DEF Build, At, IInv, MoreHints
<1>2. /\ Top(t) \in Frame /\ Faithful(Top(t)) /\ FrameOK(Top(t)) /\ Len(Top(t).refs) \in Nat
      /\ Len(hints[Top(t).cls]) \in Nat /\ Top(t).refs \in Seq(Classes \union {Dict})
  BY <1>1, Working, TopOK
<1>3. PICK frame : frame = [Top(t) EXCEPT !.phase = "leave", !.result = [of |-> Top(t).cls, refs |-> Top(t).refs]]
  OBVIOUS
<1>4. /\ frame \in Frame /\ frame.cls = Top(t).cls /\ frame.refs = Top(t).refs /\ frame.phase = "leave"
      /\ frame.result = [of |-> Top(t).cls, refs |-> Top(t).refs] /\ frame.result # Dict
  BY <1>2, <1>3, BuiltFacts
<1>5. SetTop(t, frame)
  BY <1>3 DEF Build
<1>6. After(t, Len(stack[t]), frame)
  BY <1>1, <1>4, <1>5, SetTopFacts
<1>7. Marked(Top(t)) /\ Top(t).cls \in generating
  BY <1>1, <1>2 DEF Faithful, Marked
<1>8. \A i \in 1 .. Len(frame.refs) : Reflects(frame.cls, i, frame.refs[i])
  BY <1>2, <1>4 DEF Faithful
<1>9. Mirrors(frame.cls, frame.result)
  <2>1. Len(Top(t).refs) = Len(hints[Top(t).cls])
    BY <1>1, <1>2 DEF FrameOK
  <2>2. frame.result.of = frame.cls /\ frame.result.refs = frame.refs /\ DOMAIN frame.refs = 1 .. Len(frame.refs)
    BY <1>2, <1>4
  <2> QED
    BY <1>4, <1>8, <2>1, <2>2 DEF Mirrors, Reflects
<1>10. Faithful(frame)'
  BY <1>1, <1>4, <1>7, <1>8, <1>9, SameMeaning DEF Faithful, Marked
<1> QED
  BY <1>1, <1>4, <1>6, <1>7, <1>10, TopOrderly

LEMMA LeavesOrderly ==
  ASSUME IInv, Orderly, NEW t \in Threads, Leave(t)
  PROVE  Orderly'
<1>1. /\ ~ Idle(t) /\ Top(t).phase = "leave" /\ UNCHANGED <<config, td, answer>> /\ TypeOK
      /\ generating' = generating \ {Top(t).cls}
  BY DEF Leave, At, IInv
<1>2. Top(t) \in Frame /\ Faithful(Top(t)) /\ Marked(Top(t))
  BY <1>1, Working DEF Marked
<1>3. PICK frame : frame = Moved(Top(t), "store")
  OBVIOUS
<1>4. /\ frame \in Frame /\ frame.cls = Top(t).cls /\ frame.phase = "store"
      /\ frame.refs = Top(t).refs /\ frame.result = Top(t).result
  BY <1>2, <1>3, MovedFacts
<1>5. SetTop(t, frame)
  BY <1>3 DEF Leave
<1>6. After(t, Len(stack[t]), frame)
  BY <1>1, <1>4, <1>5, SetTopFacts
<1>7. Mirrors(frame.cls, frame.result)
  BY <1>1, <1>2, <1>4 DEF Faithful
<1>8. frame.result # Dict
  BY <1>7 DEF Mirrors
<1>9. \A i \in 1 .. Len(frame.refs) : Reflects(frame.cls, i, frame.refs[i])
  BY <1>2, <1>4 DEF Faithful
<1>10. Faithful(frame)'
  BY <1>1, <1>4, <1>7, <1>9, SameMeaning DEF Faithful, Marked
<1>11. ~ Marked(frame)
  BY <1>4 DEF Marked
<1> QED
  BY <1>1, <1>2, <1>4, <1>6, <1>8, <1>10, <1>11, TopOrderly

\* What is marked is in the stack of the busy thread, and leads to its top frame.
LEMMA MarkedReaches ==
  ASSUME IInv, Orderly, NEW t \in Threads, ~ Idle(t), NEW c \in generating
  PROVE  \E k \in 1 .. Len(stack[t]) :
           Marked(stack[t][k]) /\ stack[t][k].cls = c /\ Reaches(c, Top(t).cls)
<1>1. PICK u \in Threads : \E k \in 1 .. Len(stack[u]) : Marked(stack[u][k]) /\ stack[u][k].cls = c
  BY DEF IInv, MarksHaveFrames, MarkHasFrame
<1>2. u = t
  BY <1>1, Working, EmptySeq
<1>3. PICK k \in 1 .. Len(stack[t]) : Marked(stack[t][k]) /\ stack[t][k].cls = c
  BY <1>1, <1>2
<1>4. Reaches(stack[t][k].cls, Top(t).cls)
  <2>1. Len(stack[t]) \in 1 .. Len(stack[t]) /\ k <= Len(stack[t]) /\ Chained(t) /\ Top(t) = stack[t][Len(stack[t])]
    BY Working
  <2> QED
    BY <2>1 DEF Chained
<1> QED
  BY <1>3, <1>4

\* A reference to what a class has is right for the class that is generated.
LEMMA FoundReflects ==
  ASSUME IInv, Orderly, NEW t \in Threads, MoreHints(t), NextHint(t) \in Classes, td[NextHint(t)] # None
  PROVE  Reflects(Top(t).cls, Len(Top(t).refs) + 1, Reference(td[NextHint(t)]))
<1>1. ~ Idle(t) /\ Top(t).phase = "fields" /\ hints[Top(t).cls][Len(Top(t).refs) + 1] = NextHint(t)
  BY NextHintFacts DEF NextHint
<1>2. Mirrors(NextHint(t), td[NextHint(t)]) \/ (td[NextHint(t)] = Dict /\ Overwritten(NextHint(t)))
  BY DEF Orderly, Kept
<1>3. CASE Mirrors(NextHint(t), td[NextHint(t)])
  BY <1>1, <1>3 DEF Mirrors, Reference, Reflects
<1>4. CASE td[NextHint(t)] = Dict /\ Overwritten(NextHint(t))
  <2>1. ASSUME NEW u \in Threads, At(u, "store") PROVE FALSE
    <3>1. u = t
      BY <1>1, <2>1, Working DEF At, Idle
    <3> QED
      BY <1>1, <2>1, <3>1 DEF At
  <2>2. NextHint(t) \in generating
    BY <1>4, <2>1 DEF Overwritten
  <2>3. Reaches(NextHint(t), Top(t).cls)
    BY <1>1, <2>2, MarkedReaches
  <2> QED
    BY <1>1, <1>4, <2>3 DEF Reference, Reflects
<1> QED
  BY <1>2, <1>3, <1>4

\* One more faithful reference keeps a frame faithful.
LEMMA WithReferenceFaithful ==
  ASSUME UNCHANGED config, NEW frame \in Frame, frame.phase = "fields", Faithful(frame), NEW value \in Value,
         frame.cls \in generating', Reflects(frame.cls, Len(frame.refs) + 1, Reference(value)),
         NEW next, next = WithReference(frame, value)
  PROVE  Faithful(next)' /\ next.cls = frame.cls /\ next \in Frame /\ Marked(next)
<1>1. /\ next \in Frame /\ next.cls = frame.cls /\ next.phase = frame.phase
      /\ Len(frame.refs) \in Nat /\ Len(next.refs) = Len(frame.refs) + 1
      /\ \A i \in 1 .. Len(frame.refs) : next.refs[i] = frame.refs[i]
      /\ next.refs[Len(frame.refs) + 1] = Reference(value)
  BY WithReferenceFacts
<1>2. \A i \in 1 .. Len(next.refs) : Reflects(next.cls, i, next.refs[i])
  <2>1. SUFFICES ASSUME NEW i \in 1 .. Len(next.refs)
                 PROVE  Reflects(next.cls, i, next.refs[i])
    OBVIOUS
  <2>2. CASE i = Len(frame.refs) + 1
    BY <1>1, <2>2
  <2>3. CASE i # Len(frame.refs) + 1
    <3>1. i \in 1 .. Len(frame.refs)
      BY <1>1, <2>3
    <3> QED
      BY <1>1, <3>1 DEF Faithful
  <2> QED
    BY <2>2, <2>3
<1>3. Faithful(next)'
  BY <1>1, <1>2, SameMeaning DEF Faithful, Marked
<1> QED
  BY <1>1, <1>3 DEF Marked

LEMMA ResolvesOrderly ==
  ASSUME NoInheritance, IInv, Orderly, NEW t \in Threads, Resolve(t)
  PROVE  Orderly'
<1>1. /\ MoreHints(t) /\ NextHint(t) # Broken /\ TypeOK
      /\ UNCHANGED <<config, td, answer>> /\ generating' = generating
  BY DEF Resolve, IInv
<1>2. /\ ~ Idle(t) /\ Top(t).phase = "fields" /\ Marked(Top(t)) /\ NextHint(t) \in Classes
      /\ Len(Top(t).refs) + 1 \in 1 .. Len(hints[Top(t).cls])
  BY <1>1, NextHintFacts
<1>3. Top(t) \in Frame /\ Faithful(Top(t)) /\ Top(t).cls \in generating /\ Len(stack[t]) \in Nat \ {0}
  BY <1>2, Working DEF Faithful
<1>4. Lookup(NextHint(t)) = td[NextHint(t)]
  BY <1>1, <1>2, OwnLookup
<1>5. CASE td[NextHint(t)] # None
  <2>1. PICK frame : frame = WithReference(Top(t), td[NextHint(t)])
    OBVIOUS
  <2>2. td[NextHint(t)] \in Value
    BY <1>1, <1>2, <1>5 DEF TypeOK
  <2>3. Reflects(Top(t).cls, Len(Top(t).refs) + 1, Reference(td[NextHint(t)]))
    BY <1>1, <1>2, <1>5, FoundReflects
  <2>4. Faithful(frame)' /\ frame.cls = Top(t).cls /\ frame \in Frame
    BY <1>1, <1>2, <1>3, <2>1, <2>2, <2>3, WithReferenceFaithful
  <2>5. SetTop(t, frame)
    BY <1>4, <1>5, <2>1 DEF Resolve
  <2>6. After(t, Len(stack[t]), frame)
    BY <1>1, <1>2, <2>4, <2>5, SetTopFacts
  <2> QED
    BY <1>1, <1>2, <2>4, <2>6, TopOrderly
<1>6. CASE td[NextHint(t)] = None
  <2> DEFINE n == Len(stack[t])
  <2>1. PICK frame : frame = Descriptor(NextHint(t))
    OBVIOUS
  <2>2. frame \in Frame /\ frame.cls = NextHint(t) /\ frame.phase = "enter" /\ frame.refs = <<>>
    BY <1>1, <1>2, <2>1, DescriptorFacts
  <2>3. stack' = [stack EXCEPT ![t] = Append(stack[t], frame)]
    BY <1>4, <1>6, <2>1 DEF Resolve
  <2>4. After(t, n + 1, frame)
    BY <1>1, <2>2, <2>3, PushFacts
  <2>5. n \in Nat \ {0}
    BY <1>3
  <2>6. Faithful(frame)' /\ ~ Marked(frame)
    BY <2>2, EmptySeq DEF Faithful, Marked
  <2>7. \A k \in 1 .. n : /\ Faithful(stack[t][k]) /\ stack[t][k].phase = "fields" /\ stack[t][k].cls \in Classes
                          /\ stack[t][k].cls \in generating /\ Reaches(stack[t][k].cls, Top(t).cls)
    <3>1. SUFFICES ASSUME NEW k \in 1 .. n
                   PROVE  /\ Faithful(stack[t][k]) /\ stack[t][k].phase = "fields" /\ stack[t][k].cls \in Classes
                          /\ stack[t][k].cls \in generating /\ Reaches(stack[t][k].cls, Top(t).cls)
      OBVIOUS
    <3>2. CASE k = n
      BY <1>2, <1>3, <3>2, Working, ReachesItself
    <3>3. CASE k # n
      <4>1. k \in 1 .. n - 1
        BY <2>5, <3>3
      <4> QED
        BY <1>2, <4>1, Working
    <3> QED
      BY <3>2, <3>3
  <2>8. \A k \in 1 .. n : Reaches(stack[t][k].cls, frame.cls)
    <3>1. hints[Top(t).cls] \in Seq(Classes \union {Broken}) /\ Top(t).cls \in Classes
      BY <1>2, TopOK
    <3>2. DOMAIN hints[Top(t).cls] = 1 .. Len(hints[Top(t).cls]) /\ Len(hints[Top(t).cls]) \in Nat
      BY <3>1
    <3> QED
      BY <1>2, <2>2, <2>7, <3>1, <3>2, ReachesOn DEF NextHint
  <2>9. /\ Chained(t) /\ MarkedOnce(t)
        /\ \A u \in Threads \ {t} : stack[u] = <<>>
    BY <1>2, Working
  <2>10. /\ Alone'
         /\ \A u \in Threads : Chained(u)' /\ MarkedOnce(u)' /\ \A f \in FramesOf(u)' : Faithful(f)'
    <3> DEFINE m == n + 1
    <3>1. m \in Nat \ {0} /\ m - 1 = n /\ m - 1 <= Len(stack[t]) /\ Len(stack[t]) \in Nat
      BY <2>5
    <3>2. After(t, m, frame)
      BY <2>4
    <3> HIDE DEF m
    <3>3. \A k \in 1 .. m - 1 :
           /\ Faithful(stack[t][k]) /\ stack[t][k].phase = "fields" /\ stack[t][k].cls \in generating'
           /\ Reaches(stack[t][k].cls, frame.cls)
           /\ Marked(frame) => stack[t][k].cls # frame.cls
      BY <1>1, <2>6, <2>7, <2>8, <3>1
    <3>4. UNCHANGED config /\ frame.cls \in Classes
      BY <1>1, <1>2, <2>2
    <3> QED
      BY <2>6, <2>9, <3>1, <3>2, <3>3, <3>4, StackOrderly, Zenon
  <2>11. Kept'
    <3>1. SUFFICES ASSUME NEW c \in Classes, NEW value \in {td'[c]} \ {None}
                   PROVE  Mirrors(c, value)' \/ (value = Dict /\ Overwritten(c)')
      BY DEF Kept
    <3>2. Mirrors(c, value) \/ (value = Dict /\ Overwritten(c))
      BY <1>1, <3>1 DEF Orderly, Kept
    <3>3. ASSUME NEW u \in Threads, At(u, "store") PROVE FALSE
      <4>1. u = t
        BY <2>9, <3>3 DEF At, Idle
      <4> QED
        BY <1>2, <3>3, <4>1 DEF At
    <3> QED
      BY <1>1, <3>2, <3>3, SameMeaning DEF Overwritten
  <2>12. AnswerMirrors'
    <3>1. hints' = hints /\ answer' = answer /\ AnswerMirrors
      BY <1>1 DEF config, Orderly
    <3> QED
      BY <3>1 DEF AnswerMirrors, Mirrors, Reaches, Closed
  <2> QED
    BY <2>10, <2>11, <2>12 DEF Orderly
<1> QED
  BY <1>5, <1>6

\* What is stored mirrors its class, or is `dict' for a class that is marked further out.
LEMMA StoredFacts ==
  ASSUME IInv, Orderly, NEW t \in Threads, Store(t)
  PROVE  /\ ~ Idle(t) /\ Top(t).phase = "store" /\ ~ Marked(Top(t)) /\ Top(t).cls \in Classes
         /\ UNCHANGED config /\ generating' = generating
         /\ td' = [td EXCEPT ![Top(t).cls] = Top(t).result] /\ td \in [Classes -> Value \union {None}]
         /\ \/ Mirrors(Top(t).cls, Top(t).result)
            \/ Top(t).result = Dict /\ Top(t).cls \in generating
         /\ Top(t).result \in Value /\ Top(t).result # None
         /\ \A c \in Classes : Overwritten(c) => c \in generating \/ c = Top(t).cls
<1>1. ~ Idle(t) /\ Top(t).phase = "store" /\ UNCHANGED config /\ generating' = generating
      /\ td' = [td EXCEPT ![Top(t).cls] = Top(t).result]
  BY DEF Store, At
<1>2. Top(t).cls \in Classes /\ Top(t) \in Frame /\ FrameOK(Top(t)) /\ Faithful(Top(t))
  BY <1>1, TopOK, Working
<1>3. Top(t).result \in Value /\ Top(t).result # None
  BY <1>1, <1>2 DEF FrameOK, Frame
<1>4. \A c \in Classes : Overwritten(c) => c \in generating \/ c = Top(t).cls
  <2>1. ASSUME NEW u \in Threads, At(u, "store") PROVE u = t
    BY <1>1, <2>1, Working DEF At, Idle
  <2> QED
    BY <2>1 DEF Overwritten
<1> QED
  BY <1>1, <1>2, <1>3, <1>4 DEF Faithful, Marked, IInv, TypeOK

\* What the classes have after a class got its value.
LEMMA StoreKeeps ==
  ASSUME IInv, Orderly, NEW t \in Threads, Store(t)
  PROVE  Kept'
<1>1. SUFFICES ASSUME NEW c \in Classes, NEW value \in {td'[c]} \ {None}
               PROVE  Mirrors(c, value)' \/ (value = Dict /\ Overwritten(c)')
  BY DEF Kept
<1>2. /\ Top(t).cls \in Classes /\ UNCHANGED config /\ generating' = generating
      /\ td' = [td EXCEPT ![Top(t).cls] = Top(t).result] /\ td \in [Classes -> Value \union {None}]
      /\ \/ Mirrors(Top(t).cls, Top(t).result)
         \/ Top(t).result = Dict /\ Top(t).cls \in generating
      /\ \A d \in Classes : Overwritten(d) => d \in generating \/ d = Top(t).cls
  BY StoredFacts
<1>3. CASE c = Top(t).cls
  <2>1. value = Top(t).result
    BY <1>1, <1>2, <1>3
  <2>2. CASE Mirrors(Top(t).cls, Top(t).result)
    <3>1. Mirrors(c, value)
      BY <1>3, <2>1, <2>2
    <3> QED
      BY <1>2, <3>1, SameMeaning
  <2>3. CASE Top(t).result = Dict /\ Top(t).cls \in generating
    <3>1. value = Dict /\ c \in generating'
      BY <1>2, <1>3, <2>1, <2>3
    <3> QED
      BY <3>1 DEF Overwritten
  <2> QED
    BY <1>2, <2>2, <2>3
<1>4. CASE c # Top(t).cls
  <2>1. value \in {td[c]} \ {None}
    BY <1>1, <1>2, <1>4
  <2>2. Mirrors(c, value) \/ (value = Dict /\ Overwritten(c))
    BY <2>1 DEF Orderly, Kept
  <2>3. CASE Mirrors(c, value)
    BY <1>2, <2>3, SameMeaning
  <2>4. CASE value = Dict /\ Overwritten(c)
    <3>1. c \in generating'
      BY <1>2, <1>4, <2>4
    <3> QED
      BY <2>4, <3>1 DEF Overwritten
  <2> QED
    BY <2>2, <2>3, <2>4
<1> QED
  BY <1>3, <1>4

LEMMA StoresOrderly ==
  ASSUME IInv, Orderly, NEW t \in Threads, Store(t)
  PROVE  Orderly'
<1>1. /\ ~ Idle(t) /\ Top(t).phase = "store" /\ ~ Marked(Top(t)) /\ Top(t).cls \in Classes
      /\ UNCHANGED config /\ generating' = generating /\ Top(t).result \in Value
      /\ \/ Mirrors(Top(t).cls, Top(t).result)
         \/ Top(t).result = Dict /\ Top(t).cls \in generating
  BY StoredFacts
<1>2. TypeOK /\ (Under(t) = <<>> <=> Len(stack[t]) = 1) /\ hints' = hints
  BY <1>1, UnderFacts DEF IInv, config
<1>3. Kept'
  BY StoreKeeps
<1>4. /\ \A u \in Threads \ {t} : stack[u] = <<>>
      /\ Chained(t) /\ MarkedOnce(t) /\ Len(stack[t]) \in Nat \ {0} /\ Top(t) = stack[t][Len(stack[t])]
  BY <1>1, Working
<1>5. CASE Len(stack[t]) = 1
  <2>1. stack' = [stack EXCEPT ![t] = <<>>] /\ answer' = [cls |-> Top(t).cls, value |-> Top(t).result]
    BY <1>2, <1>5 DEF Store, Under
  <2>2. Mirrors(Top(t).cls, Top(t).result)
    <3>1. ASSUME Top(t).cls \in generating PROVE FALSE
      <4>1. PICK k \in 1 .. Len(stack[t]) : Marked(stack[t][k])
        BY <1>1, <3>1, MarkedReaches
      <4>2. stack[t][k] = Top(t)
        BY <1>4, <1>5, <4>1
      <4> QED
        BY <1>1, <4>1, <4>2
    <3> QED
      BY <1>1, <3>1
  <2>3. AnswerMirrors'
    <3>1. Mirrors(answer'.cls, answer'.value)
      BY <2>1, <2>2
    <3> QED
      BY <1>2, <3>1 DEF AnswerMirrors, Mirrors, Reaches, Closed
  <2>4. \A u \in Threads : stack'[u] = <<>> /\ 1 .. Len(stack'[u]) = {}
    BY <1>2, <1>4, <2>1, EmptySeq DEF TypeOK
  <2>5. Alone' /\ \A u \in Threads : Chained(u)' /\ MarkedOnce(u)' /\ \A f \in FramesOf(u)' : Faithful(f)'
    BY <2>4 DEF Alone, Idle, Chained, MarkedOnce, FramesOf
  <2> QED
    BY <1>3, <2>3, <2>5 DEF Orderly
<1>6. CASE Len(stack[t]) # 1
  <2> DEFINE n == Len(stack[t]) - 1
  <2>1. PICK frame : frame = WithReference(Caller(t), Top(t).result)
    OBVIOUS
  <2>2. /\ Caller(t) \in Frame /\ Calls(Caller(t), Top(t).cls) /\ Caller(t).cls \in Classes
        /\ FrameOK(Caller(t)) /\ Len(hints[Caller(t).cls]) \in Nat
    BY <1>1, <1>6, CallerFacts
  <2>3. n \in Nat \ {0} /\ Len(stack[t]) = n + 1 /\ Caller(t) = stack[t][n]
    <3> DEFINE m == Len(stack[t])
    <3>1. m \in Nat \ {0} /\ m # 1
      BY <1>4, <1>6
    <3> HIDE DEF m
    <3>2. m - 1 \in Nat \ {0} /\ m = m - 1 + 1
      BY <3>1
    <3> QED
      BY <3>2 DEF Caller, m
  <2>4. \A k \in 1 .. n :
           /\ k \in 1 .. Len(stack[t]) /\ stack[t][k].cls \in Classes
           /\ Faithful(stack[t][k]) /\ stack[t][k].phase = "fields"
           /\ Marked(stack[t][k]) /\ stack[t][k].cls \in generating
    BY <1>1, Working
  <2>5. stack' = [stack EXCEPT ![t] = [Under(t) EXCEPT ![Len(Under(t))] = frame]] /\ answer' = answer
    <3>1. Under(t)[Len(Under(t))] = Caller(t)
      BY <1>1, <1>2, <2>3, UnderFacts
    <3> QED
      BY <1>2, <1>6, <2>1, <3>1 DEF Store, Under
  <2>6. frame \in Frame
    BY <1>1, <2>1, <2>2, WithReferenceFacts
  <2>7. After(t, n, frame)
    BY <1>1, <1>2, <1>6, <2>5, <2>6, ReturnFacts
  <2> HIDE DEF n
  <2>8. n \in 1 .. n /\ n - 1 <= Len(stack[t]) /\ Len(stack[t]) \in Nat /\ \A k \in 1 .. n - 1 : k \in 1 .. n /\ k <= n /\ k # n
    BY <2>3
  <2>9. \A k \in 1 .. n : Reaches(stack[t][k].cls, Caller(t).cls)
    <3>1. \A k \in 1 .. n : k \in 1 .. Len(stack[t]) /\ n \in 1 .. Len(stack[t]) /\ k <= n
      BY <2>3
    <3> QED
      BY <1>4, <2>3, <3>1 DEF Chained
  <2>10. Reflects(Caller(t).cls, Len(Caller(t).refs) + 1, Reference(Top(t).result))
    <3>1. hints[Caller(t).cls][Len(Caller(t).refs) + 1] = Top(t).cls
      BY <2>2 DEF Calls
    <3>2. CASE Mirrors(Top(t).cls, Top(t).result)
      BY <3>1, <3>2 DEF Mirrors, Reference, Reflects
    <3>3. CASE Top(t).result = Dict /\ Top(t).cls \in generating
      <4>1. PICK k \in 1 .. Len(stack[t]) : Marked(stack[t][k]) /\ stack[t][k].cls = Top(t).cls
        BY <1>1, <3>3, MarkedReaches
      <4>2. k # Len(stack[t])
        BY <1>1, <1>4, <4>1
      <4>3. k \in 1 .. n
        BY <2>3, <4>2
      <4>4. Reaches(Top(t).cls, Caller(t).cls)
        BY <2>9, <4>1, <4>3
      <4> QED
        BY <3>1, <3>3, <4>4 DEF Reference, Reflects
    <3> QED
      BY <1>1, <3>2, <3>3
  <2>11. Faithful(Caller(t)) /\ Caller(t).phase = "fields" /\ Caller(t).cls \in generating' /\ Marked(Caller(t))
    BY <1>1, <2>3, <2>4, <2>8
  <2>12. Faithful(frame)' /\ frame.cls = Caller(t).cls
    BY <1>1, <2>1, <2>2, <2>10, <2>11, WithReferenceFaithful
  <2>13. \A k \in 1 .. n - 1 : stack[t][k].cls # frame.cls
    BY <1>4, <2>3, <2>4, <2>8, <2>11, <2>12 DEF MarkedOnce
  <2>14. \A k \in 1 .. n - 1 :
           /\ Faithful(stack[t][k]) /\ stack[t][k].phase = "fields" /\ stack[t][k].cls \in generating'
           /\ Reaches(stack[t][k].cls, frame.cls)
           /\ Marked(frame) => stack[t][k].cls # frame.cls
    BY <1>1, <2>4, <2>8, <2>9, <2>12, <2>13
  <2>15. /\ Alone'
         /\ \A u \in Threads : Chained(u)' /\ MarkedOnce(u)' /\ \A f \in FramesOf(u)' : Faithful(f)'
    <3>1. frame.cls \in Classes
      BY <2>2, <2>12
    <3> QED
      BY <1>1, <1>4, <2>3, <2>7, <2>8, <2>12, <2>14, <3>1, StackOrderly, Zenon
  <2>16. AnswerMirrors'
    <3>1. AnswerMirrors
      BY DEF Orderly
    <3> QED
      BY <1>2, <2>5, <3>1 DEF AnswerMirrors, Mirrors, Reaches, Closed
  <2> QED
    BY <1>3, <2>15, <2>16 DEF Orderly
<1> QED
  BY <1>5, <1>6

\* When no thread is at work, every TypedDict in a class mirrors the class.
LEMMA QuietMirrors ==
  ASSUME IInv, Kept, Quiet
  PROVE  \A c \in Classes : td[c] # None => Mirrors(c, td[c])
<1>1. generating = {}
  <2>1. \A t \in Threads : Len(stack[t]) = 0
    BY EmptySeq DEF Quiet, Idle
  <2> QED
    BY <2>1 DEF IInv, MarksHaveFrames, MarkHasFrame
<1>2. \A c \in Classes : ~ Overwritten(c)
  BY <1>1 DEF Overwritten, At, Quiet
<1> QED
  BY <1>2 DEF Kept

LEMMA AccessesOrderly ==
  ASSUME NoInheritance, IInv, Orderly, NEW t \in Threads, NEW c \in Classes, Access(t, c), ~ overlapped'
  PROVE  Orderly'
<1>1. /\ UNCHANGED <<config, td, generating>> /\ \A u \in Threads : stack[u] = <<>>
      /\ TypeOK /\ Quiet /\ Kept /\ AnswerMirrors
  BY DEF Access, Begin, Idle, Quiet, IInv, Orderly
<1>2. hints' = hints
  BY <1>1 DEF config
<1>3. \A d \in Classes : td[d] # None => Mirrors(d, td[d])
  BY <1>1, QuietMirrors
<1>4. Lookup(c) = td[c]
  BY <1>1, OwnLookup
<1>5. Kept'
  <2>1. SUFFICES ASSUME NEW d \in Classes, NEW value \in {td'[d]} \ {None}
                 PROVE  Mirrors(d, value)'
    BY DEF Kept
  <2>2. Mirrors(d, value)
    BY <1>1, <1>3, <2>1
  <2> QED
    BY <1>1, <2>2, SameMeaning
<1>6. CASE td[c] # None
  <2>1. answer' = [cls |-> c, value |-> td[c]] /\ stack' = stack
    BY <1>4, <1>6 DEF Access, Begin
  <2>2. Mirrors(answer'.cls, answer'.value)
    BY <1>3, <1>6, <2>1
  <2>3. AnswerMirrors'
    BY <1>2, <2>2 DEF AnswerMirrors, Mirrors, Reaches, Closed
  <2>4. \A u \in Threads : stack'[u] = <<>> /\ 1 .. Len(stack'[u]) = {}
    BY <1>1, <2>1, EmptySeq
  <2>5. Alone' /\ \A u \in Threads : Chained(u)' /\ MarkedOnce(u)' /\ \A f \in FramesOf(u)' : Faithful(f)'
    BY <2>4 DEF Alone, Idle, Chained, MarkedOnce, FramesOf
  <2> QED
    BY <1>5, <2>3, <2>5 DEF Orderly
<1>7. CASE td[c] = None
  <2>1. PICK frame : frame = Descriptor(c)
    OBVIOUS
  <2>2. frame \in Frame /\ frame.cls = c /\ frame.phase = "enter" /\ frame.refs = <<>>
    BY <1>1, <2>1, DescriptorFacts
  <2>3. answer' = answer /\ stack' = [stack EXCEPT ![t] = <<frame>>]
    BY <1>4, <1>7, <2>1 DEF Access, Begin
  <2>4. stack[t] = <<>> /\ Len(stack[t]) = 0 /\ Append(stack[t], frame) = <<frame>>
    <3>1. stack[t] = <<>>
      BY <1>1
    <3> QED
      BY <3>1
  <2>5. After(t, 1, frame)
    <3>1. stack' = [stack EXCEPT ![t] = Append(stack[t], frame)]
      BY <2>3, <2>4
    <3>2. After(t, Len(stack[t]) + 1, frame)
      BY <1>1, <2>2, <3>1, PushFacts
    <3>3. Len(stack[t]) + 1 = 1
      BY <2>4
    <3> QED
      BY <3>2, <3>3
  <2>6. Faithful(frame)'
    BY <2>2, EmptySeq DEF Faithful, Marked
  <2>7. Chained(t) /\ MarkedOnce(t)
    BY DEF Orderly
  <2>8. /\ Alone'
        /\ \A u \in Threads : Chained(u)' /\ MarkedOnce(u)' /\ \A f \in FramesOf(u)' : Faithful(f)'
    <3>1. 1 \in Nat \ {0} /\ 1 - 1 <= Len(stack[t]) /\ Len(stack[t]) \in Nat /\ 1 .. 1 - 1 = {}
      BY <2>4
    <3>2. UNCHANGED config /\ frame.cls \in Classes
      BY <1>1, <2>2
    <3>3. \A k \in 1 .. 1 - 1 :
           /\ Faithful(stack[t][k]) /\ stack[t][k].phase = "fields" /\ stack[t][k].cls \in generating'
           /\ Reaches(stack[t][k].cls, frame.cls)
           /\ Marked(frame) => stack[t][k].cls # frame.cls
      BY <3>1
    <3> QED
      BY <1>1, <2>5, <2>6, <2>7, <3>1, <3>2, <3>3, StackOrderly, Zenon
  <2>9. AnswerMirrors'
    BY <1>1, <1>2, <2>3 DEF AnswerMirrors, Mirrors, Reaches, Closed
  <2> QED
    BY <1>5, <2>8, <2>9 DEF Orderly
<1> QED
  BY <1>6, <1>7

LEMMA InitOrderly ==
  ASSUME Init
  PROVE  Orderly
<1>1. \A t \in Threads : stack[t] = <<>> /\ 1 .. Len(stack[t]) = {}
  BY EmptySeq DEF Init
<1> QED
  BY <1>1 DEF Init, Orderly, Alone, Idle, Chained, MarkedOnce, FramesOf, Kept, AnswerMirrors

\* A step that changes nothing keeps what is orderly.
LEMMA StutterOrderly ==
  ASSUME Orderly, UNCHANGED vars
  PROVE  Orderly'
<1>1. UNCHANGED config /\ hints' = hints /\ td' = td /\ generating' = generating /\ stack' = stack /\ answer' = answer
  BY DEF vars, config
<1>2. AnswerMirrors'
  BY <1>1 DEF Orderly, AnswerMirrors, Mirrors, Reaches, Closed
<1>3. Kept'
  <2>1. SUFFICES ASSUME NEW c \in Classes, NEW value \in {td'[c]} \ {None}
                 PROVE  Mirrors(c, value)' \/ (value = Dict /\ Overwritten(c)')
    BY DEF Kept
  <2>2. Mirrors(c, value) \/ (value = Dict /\ Overwritten(c))
    BY <1>1, <2>1 DEF Orderly, Kept
  <2>3. Overwritten(c) => Overwritten(c)'
    BY <1>1 DEF Overwritten, At, Idle, Top
  <2> QED
    BY <1>1, <2>2, <2>3, SameMeaning
<1>4. Alone' /\ \A u \in Threads : MarkedOnce(u)'
  BY <1>1 DEF Orderly, Alone, Idle, MarkedOnce, Marked
<1>5. \A u \in Threads : Chained(u)'
  BY <1>1 DEF Orderly, Chained, Reaches, Closed
<1>6. \A u \in Threads : \A f \in FramesOf(u)' : Faithful(f)'
  <2>1. SUFFICES ASSUME NEW u \in Threads, NEW f \in FramesOf(u)'
                 PROVE  Faithful(f)'
    OBVIOUS
  <2>2. Faithful(f)
    BY <1>1, <2>1 DEF Orderly, FramesOf
  <2> QED
    BY <1>1, <2>2, SameMeaning DEF Faithful, Marked
<1> QED
  BY <1>2, <1>3, <1>4, <1>5, <1>6 DEF Orderly

LEMMA StepOrderly ==
  ASSUME NoInheritance, IInv, Undisturbed, [Next]_vars
  PROVE  Undisturbed'
<1>1. SUFFICES ASSUME ~ overlapped', ~ raised' PROVE Orderly'
  BY DEF Undisturbed
<1>2. CASE UNCHANGED vars
  <2>1. ~ overlapped /\ ~ raised
    BY <1>1, <1>2 DEF vars
  <2> QED
    BY <1>2, <2>1, StutterOrderly DEF Undisturbed
<1>3. CASE Next
  <2>1. PICK t \in Threads : Run(t) \/ \E c \in Classes : Access(t, c)
    BY <1>3 DEF Next
  <2>2. CASE \E c \in Classes : Access(t, c)
    <3>1. PICK c \in Classes : Access(t, c)
      BY <2>2
    <3>2. raised' = raised /\ overlapped' = (overlapped \/ \E u \in Threads : ~ Idle(u))
      BY <3>1 DEF Access, Begin
    <3>3. ~ overlapped
      BY <1>1, <3>2, Zenon
    <3> QED
      BY <1>1, <3>1, <3>2, <3>3, AccessesOrderly DEF Undisturbed
  <2>3. CASE Raise(t)
    BY <1>1, <2>3 DEF Raise
  <2>4. CASE Run(t) /\ ~ Raise(t)
    <3>1. ~ overlapped /\ ~ raised
      BY <1>1, <2>4 DEF Run, Enter, Add, Resolve, Build, Leave, Unwind, Store
    <3>2. Orderly
      BY <3>1 DEF Undisturbed
    <3>3. ~ Unwind(t)
      <4>1. SUFFICES ASSUME Unwind(t) PROVE FALSE
        OBVIOUS
      <4>2. ~ Idle(t) /\ Top(t).phase = "raising"
        BY <4>1 DEF Unwind, At
      <4> QED
        BY <3>2, <4>2, Working DEF Faithful
    <3> QED
      BY <2>4, <3>2, <3>3, EntersOrderly, AddsOrderly, ResolvesOrderly, BuildsOrderly, LeavesOrderly,
         StoresOrderly DEF Run
  <2> QED
    BY <2>1, <2>2, <2>3, <2>4
<1> QED
  BY <1>2, <1>3

\* As long as accesses do not overlap and nothing raises, what an access returns mirrors the
\* class, with `dict' for references that lead back to it only, and so does everything that stays
\* in the classes; cycles of any length and in any number are cut where they close.  Classes
\* that inherit __td__ from one another are excluded: the run about inheritance shows why.
THEOREM SequentialAccessMirrors ==
  ASSUME NoInheritance
  PROVE  Spec => []SequentialMirrors
<1>1. Init => Undisturbed
  BY InitOrderly DEF Undisturbed
<1>2. IInv /\ Undisturbed /\ [Next]_vars => Undisturbed'
  BY StepOrderly
<1>3. IInv /\ Undisturbed => SequentialMirrors
  BY QuietMirrors DEF Undisturbed, Orderly, SequentialMirrors
<1> QED
  BY <1>1, <1>2, <1>3, Inductive, PTL DEF Spec

-----------------------------------------------------------------------------
(* How often a class is among the calls of a thread                        *)

\* The calls of t for c that passed the test of _GENERATING, and those that marked c
Past(t, c) == {k \in Nested(t, c) : stack[t][k].phase \in {"add", "fields", "leave"}}
Marking(t, c) == {k \in Nested(t, c) : stack[t][k].phase \in {"fields", "leave"}}

\* The threads that removed the mark of c and are about to store its TypedDict
Left(c) == {u \in Threads : At(u, "store") /\ Top(u).cls = c /\ Top(u).result # Dict}
Others(t, c) == Left(c) \ {t}

\* Every call of t for c but one is owed to another thread that removed the mark, and this is
\* not over until it stores the TypedDict; then there are no further calls for c.
OwedFor(t, c) ==
  /\ Cardinality(Nested(t, c)) <= Cardinality(Threads) + 1
  /\ td[c] = None =>
       /\ Cardinality(Past(t, c)) <= Cardinality(Others(t, c)) + 1
       /\ c \notin generating => Cardinality(Marking(t, c)) <= Cardinality(Others(t, c))
Owed == \A t \in Threads, c \in Classes : OwedFor(t, c)

FrameUnfailed(frame) ==
  /\ frame.phase # "raising"
  /\ frame.phase = "leave" => frame.result \in Built
Unfailed == \A t \in Threads : \A k \in 1 .. Len(stack[t]) : FrameUnfailed(stack[t][k])

Nesting == ~ raised => Unfailed /\ Owed

\* All of these sets are finite.
LEMMA CallsFinite ==
  ASSUME TypeOK, NEW t \in Threads, NEW c
  PROVE  /\ IsFiniteSet(Nested(t, c)) /\ Cardinality(Nested(t, c)) \in Nat
         /\ IsFiniteSet(Past(t, c)) /\ Cardinality(Past(t, c)) \in Nat
         /\ IsFiniteSet(Marking(t, c)) /\ Cardinality(Marking(t, c)) \in Nat
         /\ Cardinality(Marking(t, c)) <= Cardinality(Past(t, c))
         /\ IsFiniteSet(Others(t, c)) /\ Cardinality(Others(t, c)) \in Nat
         /\ Cardinality(Threads) \in Nat /\ Cardinality(Others(t, c)) + 1 <= Cardinality(Threads)
<1>1. Len(stack[t]) \in Nat
  BY DEF TypeOK
<1>2. IsFiniteSet(1 .. Len(stack[t]))
  BY <1>1, FS_Interval
<1>3. /\ Nested(t, c) \in SUBSET (1 .. Len(stack[t]))
      /\ Past(t, c) \in SUBSET Nested(t, c) /\ Marking(t, c) \in SUBSET Past(t, c)
  BY DEF Nested, Past, Marking
<1>4. IsFiniteSet(Nested(t, c)) /\ IsFiniteSet(Past(t, c)) /\ IsFiniteSet(Marking(t, c))
      /\ Cardinality(Marking(t, c)) <= Cardinality(Past(t, c))
  BY <1>2, <1>3, FS_Subset
<1>5. Others(t, c) \in SUBSET (Threads \ {t})
  BY DEF Others, Left
<1>6. IsFiniteSet(Threads \ {t}) /\ Cardinality(Threads \ {t}) = Cardinality(Threads) - 1
  BY FiniteAssumption, FS_RemoveElement
<1>7. IsFiniteSet(Others(t, c)) /\ Cardinality(Others(t, c)) <= Cardinality(Threads \ {t})
  BY <1>5, <1>6, FS_Subset
<1>8. /\ Cardinality(Nested(t, c)) \in Nat /\ Cardinality(Past(t, c)) \in Nat
      /\ Cardinality(Marking(t, c)) \in Nat /\ Cardinality(Others(t, c)) \in Nat
      /\ Cardinality(Threads) \in Nat
  BY <1>4, <1>7, FiniteAssumption, FS_CardinalityType
<1> QED
  BY <1>4, <1>6, <1>7, <1>8

\* Fewer calls and more threads that owe one keep what is owed.
LEMMA OwedKept ==
  ASSUME TypeOK, TypeOK', NEW t \in Threads, NEW c \in Classes, OwedFor(t, c),
         Nested(t, c)' \subseteq Nested(t, c),
         td'[c] = None => /\ td[c] = None
                          /\ Past(t, c)' \subseteq Past(t, c) /\ Others(t, c) \subseteq Others(t, c)'
                          /\ c \notin generating' =>
                               c \notin generating /\ Marking(t, c)' \subseteq Marking(t, c)
  PROVE  OwedFor(t, c)'
<1>1. PICK nested, past, marking, others :
        /\ nested = Nested(t, c) /\ past = Past(t, c) /\ marking = Marking(t, c) /\ others = Others(t, c)
  OBVIOUS
<1>2. PICK nested2, past2, marking2, others2 :
        /\ nested2 = Nested(t, c)' /\ past2 = Past(t, c)'
        /\ marking2 = Marking(t, c)' /\ others2 = Others(t, c)'
  OBVIOUS
<1>3. /\ IsFiniteSet(nested) /\ Cardinality(nested) \in Nat
      /\ IsFiniteSet(past) /\ Cardinality(past) \in Nat
      /\ IsFiniteSet(marking) /\ Cardinality(marking) \in Nat
      /\ Cardinality(others) \in Nat /\ Cardinality(Threads) \in Nat
  BY <1>1, CallsFinite
<1>4. Cardinality(nested2) \in Nat /\ Cardinality(nested2) <= Cardinality(nested)
  <2>1. nested2 \in SUBSET nested
    BY <1>1, <1>2
  <2> QED
    BY <1>3, <2>1, FS_Subset, FS_CardinalityType
<1>5. Cardinality(nested2) <= Cardinality(Threads) + 1
  BY <1>1, <1>3, <1>4 DEF OwedFor
<1>6. ASSUME td'[c] = None
      PROVE  /\ Cardinality(past2) <= Cardinality(others2) + 1
             /\ c \notin generating' => Cardinality(marking2) <= Cardinality(others2)
  <2>1. past2 \in SUBSET past /\ others \in SUBSET others2
    BY <1>1, <1>2, <1>6
  <2>2. others2 \in SUBSET Threads
    BY <1>2 DEF Others, Left
  <2>3. Cardinality(past2) \in Nat /\ Cardinality(past2) <= Cardinality(past)
    BY <1>3, <2>1, FS_Subset, FS_CardinalityType
  <2>4. Cardinality(others2) \in Nat /\ Cardinality(others) <= Cardinality(others2)
    BY <2>1, <2>2, FiniteAssumption, FS_Subset, FS_CardinalityType
  <2>5. Cardinality(past) <= Cardinality(others) + 1
    BY <1>1, <1>6 DEF OwedFor
  <2>6. ASSUME c \notin generating' PROVE Cardinality(marking2) <= Cardinality(others2)
    <3>1. marking2 \in SUBSET marking /\ Cardinality(marking) <= Cardinality(others)
      BY <1>1, <1>2, <1>6, <2>6 DEF OwedFor
    <3>2. Cardinality(marking2) \in Nat /\ Cardinality(marking2) <= Cardinality(marking)
      BY <1>3, <3>1, FS_Subset, FS_CardinalityType
    <3> QED
      BY <1>3, <2>4, <3>1, <3>2
  <2> QED
    BY <1>3, <2>3, <2>4, <2>5, <2>6
<1> QED
  BY <1>2, <1>5, <1>6 DEF OwedFor

\* A call on top of the others of t takes part in the sets of its own class.
LEMMA CallsAfter ==
  ASSUME NEW t \in Threads, NEW n \in Nat \ {0}, NEW frame, After(t, n, frame),
         Len(stack[t]) \in Nat, n - 1 <= Len(stack[t])
  PROVE  /\ \A u \in Threads \ {t} : \A c :
              /\ Nested(u, c)' = Nested(u, c) /\ Past(u, c)' = Past(u, c)
              /\ Marking(u, c)' = Marking(u, c)
         /\ \A c, k :
              /\ k \in Nested(t, c)' <=> (k \in Nested(t, c) /\ k < n) \/ (k = n /\ frame.cls = c)
              /\ k \in Past(t, c)' <=>
                   \/ k \in Past(t, c) /\ k < n
                   \/ k = n /\ frame.cls = c /\ frame.phase \in {"add", "fields", "leave"}
              /\ k \in Marking(t, c)' <=>
                   \/ k \in Marking(t, c) /\ k < n
                   \/ k = n /\ frame.cls = c /\ frame.phase \in {"fields", "leave"}
<1>1. ASSUME NEW u \in Threads \ {t} PROVE stack'[u] = stack[u]
  BY DEF After
<1>2. \A u \in Threads \ {t} : \A c : Nested(u, c)' = Nested(u, c)
  BY <1>1 DEF Nested
<1>3. \A u \in Threads \ {t} : \A c : Past(u, c)' = Past(u, c) /\ Marking(u, c)' = Marking(u, c)
  BY <1>1, <1>2 DEF Past, Marking
<1>4. \A k : k \in 1 .. Len(stack'[t]) <=> (k \in 1 .. Len(stack[t]) /\ k < n) \/ k = n
  BY DEF After
<1>5. \A k : k \in 1 .. Len(stack[t]) /\ k < n => stack'[t][k] = stack[t][k]
  BY DEF After
<1>6. stack'[t][n] = frame
  BY DEF After
<1>7. \A c, k : k \in Nested(t, c)' <=> (k \in Nested(t, c) /\ k < n) \/ (k = n /\ frame.cls = c)
  BY <1>4, <1>5, <1>6 DEF Nested
<1>8. \A c, k : k \in Nested(t, c) => k \in 1 .. Len(stack[t]) /\ ~ (n < n)
  BY DEF Nested
<1>9. \A c, k : /\ k \in Past(t, c)' <=>
                     \/ k \in Past(t, c) /\ k < n
                     \/ k = n /\ frame.cls = c /\ frame.phase \in {"add", "fields", "leave"}
                /\ k \in Marking(t, c)' <=>
                     \/ k \in Marking(t, c) /\ k < n
                     \/ k = n /\ frame.cls = c /\ frame.phase \in {"fields", "leave"}
  BY <1>5, <1>6, <1>7, <1>8 DEF Past, Marking
<1> QED
  BY <1>2, <1>3, <1>7, <1>9

\* Which threads owe a call changes for the thread of a step only.
LEMMA OthersAfter ==
  ASSUME NEW t \in Threads, \A u \in Threads \ {t} : stack'[u] = stack[u]
  PROVE  \A u, c : \A v \in Threads \ {t} : v \in Others(u, c)' <=> v \in Others(u, c)
<1>1. \A v \in Threads \ {t} : \A c : v \in Left(c)' <=> v \in Left(c)
  BY DEF Left, At, Idle, Top
<1> QED
  BY <1>1 DEF Others

\* Under the top call there are calls that marked their classes and wait.
LEMMA CallsUnder ==
  ASSUME IInv, NEW t \in Threads, NEW c
  PROVE  /\ \A k \in Past(t, c) : k \in Marking(t, c) \/ (k = Len(stack[t]) /\ Top(t).phase = "add")
         /\ \A k \in Nested(t, c) : k \in Marking(t, c) \/ k = Len(stack[t])
<1>1. Len(stack[t]) \in Nat
  BY DEF IInv, TypeOK
<1>2. ASSUME NEW k \in 1 .. Len(stack[t]), k # Len(stack[t]) PROVE stack[t][k].phase = "fields"
  <2>1. k \in 1 .. Len(stack[t]) - 1
    BY <1>1, <1>2
  <2> QED
    BY <2>1 DEF IInv, Calling, Calls
<1>3. ASSUME NEW k \in Nested(t, c) PROVE k \in Marking(t, c) \/ k = Len(stack[t])
  BY <1>2 DEF Nested, Marking
<1>4. ASSUME NEW k \in Past(t, c)
      PROVE  k \in Marking(t, c) \/ (k = Len(stack[t]) /\ Top(t).phase = "add")
  BY <1>2 DEF Nested, Past, Marking, Top
<1> QED
  BY <1>3, <1>4

\* What changes when the top call of t goes on, and nothing else.
LEMMA CallGoesOn ==
  ASSUME IInv, NEW t \in Threads, ~ Idle(t), NEW frame, frame.cls = Top(t).cls,
         NEW n, n = Len(stack[t]), NEW c, c = Top(t).cls, After(t, n, frame)
  PROVE  /\ \A u \in Threads : \A d : Nested(u, d)' \subseteq Nested(u, d)
         /\ \A u \in Threads : \A d : u # t \/ d # c =>
              Past(u, d)' \subseteq Past(u, d) /\ Marking(u, d)' \subseteq Marking(u, d)
         /\ \A k : k \in Past(t, c)' <=> \/ k \in Past(t, c) /\ k # n
                                         \/ k = n /\ frame.phase \in {"add", "fields", "leave"}
         /\ \A k : k \in Marking(t, c)' <=> \/ k \in Marking(t, c) /\ k # n
                                            \/ k = n /\ frame.phase \in {"fields", "leave"}
         /\ n \in Past(t, c) <=> Top(t).phase \in {"add", "fields", "leave"}
         /\ n \in Marking(t, c) <=> Top(t).phase \in {"fields", "leave"}
<1>1. n \in Nat \ {0} /\ n - 1 <= n /\ Len(stack[t]) \in Nat
  BY TopFacts DEF IInv
<1>2. /\ \A u \in Threads \ {t} : \A d : /\ Nested(u, d)' = Nested(u, d) /\ Past(u, d)' = Past(u, d)
                                         /\ Marking(u, d)' = Marking(u, d)
      /\ \A d, k :
           /\ k \in Nested(t, d)' <=> (k \in Nested(t, d) /\ k < n) \/ (k = n /\ frame.cls = d)
           /\ k \in Past(t, d)' <=> \/ k \in Past(t, d) /\ k < n
                                    \/ k = n /\ frame.cls = d /\ frame.phase \in {"add", "fields", "leave"}
           /\ k \in Marking(t, d)' <=> \/ k \in Marking(t, d) /\ k < n
                                       \/ k = n /\ frame.cls = d /\ frame.phase \in {"fields", "leave"}
  BY <1>1, CallsAfter
<1>3. \A d, k : k \in Nested(t, d) => (k # n <=> k < n)
  BY <1>1 DEF Nested
<1>4. \A d, k : k \in Past(t, d) \/ k \in Marking(t, d) => k \in Nested(t, d)
  BY DEF Past, Marking
<1>5. \A d : n \in Nested(t, d) <=> d = c
  BY <1>1 DEF Nested, Top
<1>6. /\ n \in Past(t, c) <=> Top(t).phase \in {"add", "fields", "leave"}
      /\ n \in Marking(t, c) <=> Top(t).phase \in {"fields", "leave"}
  BY <1>5 DEF Past, Marking, Top
<1>7. \A d, k : k \in Nested(t, d)' => k \in Nested(t, d)
  BY <1>2, <1>5
<1>8. \A u \in Threads : \A d : Nested(u, d)' \subseteq Nested(u, d)
  BY <1>2, <1>7
<1>9. \A d, k : d # c => /\ k \in Past(t, d)' => k \in Past(t, d)
                         /\ k \in Marking(t, d)' => k \in Marking(t, d)
  BY <1>2
<1>10. ASSUME NEW u \in Threads, NEW d, u # t \/ d # c
       PROVE  Past(u, d)' \subseteq Past(u, d) /\ Marking(u, d)' \subseteq Marking(u, d)
  BY <1>2, <1>9, <1>10
<1>11. \A k : k \in Past(t, c) => (k # n <=> k < n)
  BY <1>3, <1>4
<1>12. \A k : k \in Marking(t, c) => (k # n <=> k < n)
  BY <1>3, <1>4
<1>13. \A k : k \in Past(t, c)' <=> \/ k \in Past(t, c) /\ k # n
                                    \/ k = n /\ frame.phase \in {"add", "fields", "leave"}
  BY <1>2, <1>11
<1>14. \A k : k \in Marking(t, c)' <=> \/ k \in Marking(t, c) /\ k # n
                                       \/ k = n /\ frame.phase \in {"fields", "leave"}
  BY <1>2, <1>12
<1> QED
  BY <1>6, <1>8, <1>10, <1>13, <1>14

\* A thread is among those that owe a call when its top frame is about to store a TypedDict.
LEMMA LeftByTop ==
  ASSUME NEW t \in Threads, ~ Idle(t), NEW c
  PROVE  t \in Left(c) <=> Top(t).phase = "store" /\ Top(t).cls = c /\ Top(t).result # Dict
BY DEF Left, At

LEMMA LeftByTopAfter ==
  ASSUME NEW t \in Threads, NEW n \in Nat \ {0}, NEW frame, After(t, n, frame), NEW c
  PROVE  t \in Left(c)' <=> frame.phase = "store" /\ frame.cls = c /\ frame.result # Dict
<1>1. stack'[t][Len(stack'[t])] = frame /\ stack'[t] # <<>>
  BY EmptySeq DEF After
<1> QED
  BY <1>1 DEF Left, At, Top, Idle

\* Nothing is owed less when a top frame goes on without leaving or entering those sets.
LEMMA SameOthers ==
  ASSUME NEW t \in Threads, \A u \in Threads \ {t} : stack'[u] = stack[u], NEW c,
         t \in Left(c) => t \in Left(c)'
  PROVE  \A u : Others(u, c) \subseteq Others(u, c)'
<1>1. \A u : \A v \in Threads \ {t} : v \in Others(u, c)' <=> v \in Others(u, c)
  BY OthersAfter
<1>2. \A u : t \in Others(u, c) => t \in Others(u, c)'
  BY DEF Others
<1>3. \A u : Others(u, c) \subseteq Threads
  BY DEF Others, Left
<1> QED
  BY <1>1, <1>2, <1>3

\* The new frames of calls that did not fail.
LEMMA UnfailedAfter ==
  ASSUME Unfailed, NEW t \in Threads, NEW n \in Nat \ {0}, NEW frame, After(t, n, frame),
         Len(stack[t]) \in Nat, n - 1 <= Len(stack[t]), FrameUnfailed(frame)
  PROVE  Unfailed'
<1>1. SUFFICES ASSUME NEW u \in Threads, NEW k \in 1 .. Len(stack'[u]) PROVE FrameUnfailed(stack'[u][k])
  BY DEF Unfailed, FrameUnfailed
<1>2. CASE u # t
  BY <1>2 DEF After, Unfailed
<1>3. CASE u = t /\ k = n
  BY <1>3 DEF After
<1>4. CASE u = t /\ k # n
  <2>1. k \in 1 .. n - 1 /\ k \in 1 .. Len(stack[t])
    BY <1>4 DEF After
  <2> QED
    BY <1>4, <2>1 DEF After, Unfailed
<1> QED
  BY <1>2, <1>3, <1>4

\* A step of the top call of t leaves what is owed for all but its own class and thread.
LEMMA RestOwed ==
  ASSUME IInv, TypeOK', Owed, NEW t \in Threads, ~ Idle(t), NEW frame, frame.cls = Top(t).cls,
         NEW n, n = Len(stack[t]), NEW c, c = Top(t).cls, After(t, n, frame), td' = td,
         Top(t).phase # "store"
  PROVE  /\ \A u \in Threads : \A d : Others(u, d) \subseteq Others(u, d)'
         /\ \A u \in Threads, d \in Classes :
              (u # t \/ d # c) /\ (d \notin generating' => d \notin generating) => OwedFor(u, d)'
<1>1. \A u \in Threads \ {t} : stack'[u] = stack[u]
  BY DEF After
<1>2. \A d : t \notin Left(d)
  BY LeftByTop
<1>3. \A u \in Threads : \A d : Others(u, d) \subseteq Others(u, d)'
  BY <1>1, <1>2, SameOthers
<1>4. ASSUME NEW u \in Threads, NEW d \in Classes, u # t \/ d # c, d \notin generating' => d \notin generating
      PROVE  OwedFor(u, d)'
  <2>1. /\ Nested(u, d)' \subseteq Nested(u, d)
        /\ Past(u, d)' \subseteq Past(u, d) /\ Marking(u, d)' \subseteq Marking(u, d)
    BY <1>4, CallGoesOn
  <2>2. OwedFor(u, d) /\ TypeOK
    BY DEF Owed, IInv
  <2> QED
    BY <1>3, <1>4, <2>1, <2>2, OwedKept
<1> QED
  BY <1>3, <1>4

\* The same, for the calls of t for the class of its top call.
LEMMA OwnCallGoesOn ==
  ASSUME IInv, NEW t \in Threads, ~ Idle(t), NEW frame, frame.cls = Top(t).cls,
         NEW n, n = Len(stack[t]), NEW c, c = Top(t).cls, After(t, n, frame)
  PROVE  /\ Nested(t, c)' \subseteq Nested(t, c)
         /\ \A k \in Past(t, c)' : (k \in Past(t, c) /\ k # n) \/ (k = n /\ frame.phase \in {"add", "fields", "leave"})
         /\ \A k \in Marking(t, c)' : (k \in Marking(t, c) /\ k # n) \/ (k = n /\ frame.phase \in {"fields", "leave"})
         /\ Top(t).phase \in {"add", "fields", "leave"} => n \in Past(t, c)
         /\ Top(t).phase \in {"fields", "leave"} => n \in Marking(t, c)
<1>1. Nested(t, c)' \subseteq Nested(t, c)
  BY CallGoesOn
<1>2. \A k \in Past(t, c)' : (k \in Past(t, c) /\ k # n) \/ (k = n /\ frame.phase \in {"add", "fields", "leave"})
  BY CallGoesOn
<1>3. \A k \in Marking(t, c)' : (k \in Marking(t, c) /\ k # n) \/ (k = n /\ frame.phase \in {"fields", "leave"})
  BY CallGoesOn
<1>4. /\ Top(t).phase \in {"add", "fields", "leave"} => n \in Past(t, c)
      /\ Top(t).phase \in {"fields", "leave"} => n \in Marking(t, c)
  BY CallGoesOn
<1> QED
  BY <1>1, <1>2, <1>3, <1>4

\* A step that neither passes the test of _GENERATING nor removes a mark.
LEMMA GoingOnOwed ==
  ASSUME IInv, TypeOK', Owed, NEW t \in Threads, ~ Idle(t), NEW frame, frame.cls = Top(t).cls,
         NEW n, n = Len(stack[t]), NEW c, c = Top(t).cls, c \in Classes, After(t, n, frame), td' = td,
         Top(t).phase # "store", generating \subseteq generating',
         frame.phase \in {"add", "fields", "leave"} => Top(t).phase \in {"add", "fields", "leave"},
         frame.phase \in {"fields", "leave"} => c \in generating' \/ Top(t).phase \in {"fields", "leave"}
  PROVE  Owed'
<1>1. /\ \A u \in Threads : \A d : Others(u, d) \subseteq Others(u, d)'
      /\ \A u \in Threads, d \in Classes : u # t \/ d # c => OwedFor(u, d)'
  BY RestOwed
<1>2. OwedFor(t, c)'
  <2>1. Nested(t, c)' \subseteq Nested(t, c)
    BY OwnCallGoesOn
  <2>2. Past(t, c)' \subseteq Past(t, c)
    <3>1. SUFFICES ASSUME NEW k \in Past(t, c)' PROVE k \in Past(t, c)
      OBVIOUS
    <3>2. k \in Past(t, c) \/ (k = n /\ frame.phase \in {"add", "fields", "leave"})
      BY OwnCallGoesOn
    <3>3. Top(t).phase \in {"add", "fields", "leave"} => n \in Past(t, c)
      BY OwnCallGoesOn
    <3> QED
      BY <3>2, <3>3
  <2>3. c \notin generating' => c \notin generating /\ Marking(t, c)' \subseteq Marking(t, c)
    <3>1. SUFFICES ASSUME c \notin generating', NEW k \in Marking(t, c)' PROVE k \in Marking(t, c)
      OBVIOUS
    <3>2. k \in Marking(t, c) \/ (k = n /\ frame.phase \in {"fields", "leave"})
      BY OwnCallGoesOn
    <3>3. Top(t).phase \in {"fields", "leave"} => n \in Marking(t, c)
      BY OwnCallGoesOn
    <3> QED
      BY <3>1, <3>2, <3>3
  <2>4. OwedFor(t, c) /\ TypeOK
    BY DEF Owed, IInv
  <2> QED
    BY <1>1, <2>1, <2>2, <2>3, <2>4, OwedKept
<1>3. \A u \in Threads, d \in Classes : OwedFor(u, d)'
  BY <1>1, <1>2
<1> QED
  BY <1>3 DEF Owed

\* A call passes the test: the mark of its class is not there, so others removed it as often
\* as the class is under way in this thread.
LEMMA EnteringOwed ==
  ASSUME IInv, TypeOK', Owed, NEW t \in Threads, ~ Idle(t), NEW frame, frame.cls = Top(t).cls,
         NEW n, n = Len(stack[t]), NEW c, c = Top(t).cls, c \in Classes, After(t, n, frame), td' = td,
         Top(t).phase = "enter", frame.phase \notin {"fields", "leave"},
         generating' = generating, c \notin generating
  PROVE  Owed'
<1>1. /\ Others(t, c) \subseteq Others(t, c)'
      /\ \A u \in Threads, d \in Classes : u # t \/ d # c => OwedFor(u, d)'
  BY RestOwed
<1>2. /\ Nested(t, c)' \subseteq Nested(t, c)
      /\ \A k \in Past(t, c)' : k \in Past(t, c) \/ k = n
      /\ \A k \in Marking(t, c)' : k \in Marking(t, c)
  <2>1. Nested(t, c)' \subseteq Nested(t, c)
    BY OwnCallGoesOn
  <2>2. \A k \in Past(t, c)' : (k \in Past(t, c) /\ k # n) \/ (k = n /\ frame.phase \in {"add", "fields", "leave"})
    BY OwnCallGoesOn
  <2>3. \A k \in Marking(t, c)' : (k \in Marking(t, c) /\ k # n) \/ (k = n /\ frame.phase \in {"fields", "leave"})
    BY OwnCallGoesOn
  <2> QED
    BY <2>1, <2>2, <2>3
<1>3. \A k : k \in Past(t, c) => k \in Marking(t, c)
  BY CallsUnder
<1>4. PICK nested, marking, others :
        nested = Nested(t, c) /\ marking = Marking(t, c) /\ others = Others(t, c)
  OBVIOUS
<1>5. PICK nested2, past2, marking2, others2 :
        /\ nested2 = Nested(t, c)' /\ past2 = Past(t, c)'
        /\ marking2 = Marking(t, c)' /\ others2 = Others(t, c)'
  OBVIOUS
<1>6. /\ nested2 \in SUBSET nested /\ past2 \in SUBSET (marking \union {n})
      /\ marking2 \in SUBSET marking /\ others \in SUBSET others2 /\ others2 \in SUBSET Threads
  <2>1. others2 \in SUBSET Threads
    BY <1>5 DEF Others, Left
  <2>2. past2 \in SUBSET (marking \union {n})
    BY <1>2, <1>3, <1>4, <1>5
  <2>3. nested2 \in SUBSET nested /\ marking2 \in SUBSET marking /\ others \in SUBSET others2
    BY <1>1, <1>2, <1>4, <1>5
  <2> QED
    BY <2>1, <2>2, <2>3
<1>7. /\ IsFiniteSet(nested) /\ Cardinality(nested) \in Nat
      /\ IsFiniteSet(marking) /\ Cardinality(marking) \in Nat
      /\ Cardinality(others) \in Nat /\ Cardinality(Threads) \in Nat
  BY <1>4, CallsFinite DEF IInv
<1>8. Cardinality(nested2) \in Nat /\ Cardinality(nested2) <= Cardinality(nested)
  BY <1>6, <1>7, FS_Subset, FS_CardinalityType
<1>9. Cardinality(marking2) \in Nat /\ Cardinality(marking2) <= Cardinality(marking)
  BY <1>6, <1>7, FS_Subset, FS_CardinalityType
<1>10. Cardinality(others2) \in Nat /\ Cardinality(others) <= Cardinality(others2)
  BY <1>6, FiniteAssumption, FS_Subset, FS_CardinalityType
<1>11. Cardinality(past2) \in Nat /\ Cardinality(past2) <= Cardinality(marking) + 1
  <2>1. IsFiniteSet(marking \union {n}) /\ Cardinality(marking \union {n}) <= Cardinality(marking) + 1
    <3>1. /\ IsFiniteSet(marking \union {n})
          /\ Cardinality(marking \union {n}) = IF n \in marking THEN Cardinality(marking)
                                                              ELSE Cardinality(marking) + 1
      BY <1>7, FS_AddElement
    <3> QED
      BY <1>7, <3>1
  <2>2. Cardinality(marking \union {n}) \in Nat
    BY <2>1, FS_CardinalityType
  <2>3. Cardinality(past2) \in Nat /\ Cardinality(past2) <= Cardinality(marking \union {n})
    BY <1>6, <2>1, FS_Subset, FS_CardinalityType
  <2> QED
    BY <1>7, <2>1, <2>2, <2>3
<1>12. OwedFor(t, c)
  BY DEF Owed
<1>13. Cardinality(nested2) <= Cardinality(Threads) + 1
  BY <1>4, <1>7, <1>8, <1>12 DEF OwedFor
<1>14. ASSUME td'[c] = None
       PROVE  Cardinality(past2) <= Cardinality(others2) + 1 /\ Cardinality(marking2) <= Cardinality(others2)
  <2>1. Cardinality(marking) <= Cardinality(others)
    BY <1>4, <1>12, <1>14 DEF OwedFor
  <2> QED
    BY <1>7, <1>9, <1>10, <1>11, <2>1
<1>15. OwedFor(t, c)'
  BY <1>5, <1>13, <1>14 DEF OwedFor
<1>16. \A u \in Threads, d \in Classes : OwedFor(u, d)'
  BY <1>1, <1>15
<1> QED
  BY <1>16 DEF Owed

\* When a mark goes, the calls of a thread are owed one for one.
LEMMA OneForOne ==
  ASSUME TypeOK, NEW t \in Threads, NEW c, OwedFor(t, c), Nested(t, c)' \subseteq Nested(t, c),
         Past(t, c)' \subseteq Past(t, c), Others(t, c) \subseteq Others(t, c)',
         NEW n, (n \in Past(t, c) /\ n \notin Past(t, c)') \/ (n \notin Others(t, c) /\ n \in Others(t, c)'),
         td' = td
  PROVE  OwedFor(t, c)'
<1>1. PICK nested, past, others : nested = Nested(t, c) /\ past = Past(t, c) /\ others = Others(t, c)
  OBVIOUS
<1>2. PICK nested2, past2, marking2, others2 :
        /\ nested2 = Nested(t, c)' /\ past2 = Past(t, c)'
        /\ marking2 = Marking(t, c)' /\ others2 = Others(t, c)'
  OBVIOUS
<1>3. /\ nested2 \in SUBSET nested /\ past2 \in SUBSET past /\ marking2 \in SUBSET past2
      /\ others \in SUBSET others2 /\ others2 \in SUBSET Threads
  <2>1. marking2 \in SUBSET past2
    BY <1>2 DEF Past, Marking
  <2>2. others2 \in SUBSET Threads
    BY <1>2 DEF Others, Left
  <2> QED
    BY <1>1, <1>2, <2>1, <2>2
<1>4. /\ IsFiniteSet(nested) /\ Cardinality(nested) \in Nat /\ IsFiniteSet(past) /\ Cardinality(past) \in Nat
      /\ IsFiniteSet(others) /\ Cardinality(others) \in Nat /\ Cardinality(Threads) \in Nat
  BY <1>1, CallsFinite
<1>5. Cardinality(nested2) \in Nat /\ Cardinality(nested2) <= Cardinality(nested)
  BY <1>3, <1>4, FS_Subset, FS_CardinalityType
<1>6. IsFiniteSet(past2) /\ Cardinality(past2) \in Nat /\ Cardinality(past2) <= Cardinality(past)
  BY <1>3, <1>4, FS_Subset, FS_CardinalityType
<1>7. Cardinality(marking2) \in Nat /\ Cardinality(marking2) <= Cardinality(past2)
  BY <1>3, <1>6, FS_Subset, FS_CardinalityType
<1>8. IsFiniteSet(others2) /\ Cardinality(others2) \in Nat /\ Cardinality(others) <= Cardinality(others2)
  BY <1>3, FiniteAssumption, FS_Subset, FS_CardinalityType
<1>9. CASE n \in past /\ n \notin past2
  <2>1. IsFiniteSet(past \ {n}) /\ Cardinality(past \ {n}) = Cardinality(past) - 1
    BY <1>4, <1>9, FS_RemoveElement
  <2>2. past2 \in SUBSET (past \ {n})
    BY <1>3, <1>9
  <2>3. Cardinality(past2) <= Cardinality(past \ {n})
    BY <2>1, <2>2, FS_Subset
  <2>4. Cardinality(past2) <= Cardinality(past) - 1
    BY <2>1, <2>3
  <2> QED
    BY <1>1, <1>2, <1>4, <1>5, <1>6, <1>7, <1>8, <2>4 DEF OwedFor
<1>10. CASE n \notin others /\ n \in others2
  <2>1. IsFiniteSet(others2 \ {n}) /\ Cardinality(others2 \ {n}) = Cardinality(others2) - 1
    BY <1>8, <1>10, FS_RemoveElement
  <2>2. others \in SUBSET (others2 \ {n})
    BY <1>3, <1>10
  <2>3. Cardinality(others) <= Cardinality(others2 \ {n})
    BY <2>1, <2>2, FS_Subset
  <2>4. Cardinality(others) <= Cardinality(others2) - 1
    BY <2>1, <2>3
  <2> QED
    BY <1>1, <1>2, <1>4, <1>5, <1>6, <1>7, <1>8, <2>4 DEF OwedFor
<1> QED
  BY <1>1, <1>2, <1>9, <1>10

\* A call removes the mark of its class: it is not past the test any more, and the other threads
\* have one more that owes them a TypedDict.
LEMMA LeavingOwed ==
  ASSUME IInv, TypeOK', Owed, NEW t \in Threads, ~ Idle(t), NEW frame, frame.cls = Top(t).cls,
         NEW n, n = Len(stack[t]), NEW c, c = Top(t).cls, c \in Classes, After(t, n, frame), td' = td,
         Top(t).phase = "leave", frame.phase = "store", frame.result # Dict,
         generating' = generating \ {c}
  PROVE  Owed'
<1>1. /\ \A u \in Threads : \A d : Others(u, d) \subseteq Others(u, d)'
      /\ \A u \in Threads, d \in Classes :
           (u # t \/ d # c) /\ (d \notin generating' => d \notin generating) => OwedFor(u, d)'
  BY RestOwed
<1>2. ASSUME NEW u \in Threads, NEW d \in Classes, d # c PROVE OwedFor(u, d)'
  BY <1>1, <1>2
<1>3. ASSUME NEW u \in Threads, u # t PROVE OwedFor(u, c)'
  <2>1. /\ Nested(u, c)' \subseteq Nested(u, c) /\ Past(u, c)' \subseteq Past(u, c)
    BY <1>3, CallGoesOn
  <2>2. t \notin Others(u, c)
    BY LeftByTop DEF Others
  <2>3. n \in Nat \ {0}
    BY TopFacts DEF IInv
  <2>4. t \in Left(c)'
    BY <2>3, LeftByTopAfter
  <2>5. t \in Others(u, c)'
    BY <1>3, <2>4 DEF Others
  <2>6. OwedFor(u, c) /\ TypeOK
    BY DEF Owed, IInv
  <2> QED
    BY <1>1, <2>1, <2>2, <2>5, <2>6, OneForOne
<1>4. OwedFor(t, c)'
  <2>1. Nested(t, c)' \subseteq Nested(t, c)
    BY OwnCallGoesOn
  <2>2. \A k \in Past(t, c)' : k \in Past(t, c) /\ k # n
    BY OwnCallGoesOn
  <2>3. n \in Past(t, c)
    BY OwnCallGoesOn
  <2>4. Past(t, c)' \subseteq Past(t, c) /\ n \notin Past(t, c)'
    BY <2>2
  <2>5. OwedFor(t, c) /\ TypeOK
    BY DEF Owed, IInv
  <2>6. Others(t, c) \subseteq Others(t, c)'
    BY <1>1
  <2>7. (n \in Past(t, c) /\ n \notin Past(t, c)') \/ (n \notin Others(t, c) /\ n \in Others(t, c)')
    BY <2>3, <2>4
  <2> QED
    BY <2>1, <2>4, <2>5, <2>6, <2>7, OneForOne
<1>5. \A u \in Threads, d \in Classes : OwedFor(u, d)'
  BY <1>2, <1>3, <1>4
<1> QED
  BY <1>5 DEF Owed

\* Lookup finds nothing only when the class has no __td__ of its own.
LEMMA NothingOwn ==
  ASSUME TypeOK, NEW c \in Classes, Lookup(c) = None
  PROVE  td[c] = None
<1>1. mro[c] \in Seq(Classes) /\ mro[c] # <<>> /\ mro[c][1] = c
  BY MroAssumption DEF TypeOK
<1>2. 1 \in DOMAIN mro[c]
  BY <1>1, EmptySeq
<1> DEFINE having == {i \in DOMAIN mro[c] : td[mro[c][i]] # None}
<1>3. CASE having = {}
  BY <1>1, <1>2, <1>3
<1>4. CASE having # {}
  <2>1. having \subseteq Nat
    BY <1>1
  <2>2. \E i \in having : \A j \in having : i <= j
    BY <1>4, <2>1, LeastNumber
  <2>3. (CHOOSE i \in having : \A j \in having : i <= j) \in having
    BY <2>2
  <2>4. td[mro[c][CHOOSE i \in having : \A j \in having : i <= j]] # None
    BY <2>3
  <2>5. Lookup(c) = td[mro[c][CHOOSE i \in having : \A j \in having : i <= j]]
    BY <1>4 DEF Lookup
  <2> QED
    BY <2>4, <2>5
<1> QED
  BY <1>3, <1>4

\* A call of the descriptor, of a class that has no TypedDict and whose calls so far passed the test.
LEMMA CallingOwed ==
  ASSUME IInv, TypeOK', Owed, NEW t \in Threads, NEW c \in Classes, Lookup(c) = None,
         stack' = [stack EXCEPT ![t] = Append(stack[t], Descriptor(c))],
         td' = td, generating' = generating,
         Nested(t, c) \subseteq Past(t, c), \A d : t \notin Left(d)
  PROVE  Owed' /\ After(t, Len(stack[t]) + 1, Descriptor(c)) /\ Len(stack[t]) \in Nat
<1>1. Descriptor(c) \in Frame /\ Descriptor(c).cls = c /\ Descriptor(c).phase = "enter" /\ TypeOK
  BY DescriptorFacts DEF IInv
<1>2. PICK frame, m, n : frame = Descriptor(c) /\ m = Len(stack[t]) /\ n = m + 1
  OBVIOUS
<1>3. m \in Nat /\ n \in Nat \ {0} /\ n - 1 <= m /\ After(t, n, frame)
  <2>1. m \in Nat /\ After(t, n, frame)
    BY <1>1, <1>2, PushFacts
  <2> QED
    BY <1>2, <2>1
<1>4. frame.cls = c /\ frame.phase = "enter"
  BY <1>1, <1>2
<1>5. /\ \A u \in Threads \ {t} : \A d :
           /\ Nested(u, d)' = Nested(u, d) /\ Past(u, d)' = Past(u, d)
           /\ Marking(u, d)' = Marking(u, d)
      /\ \A d, k :
           /\ k \in Nested(t, d)' <=> (k \in Nested(t, d) /\ k < n) \/ (k = n /\ frame.cls = d)
           /\ k \in Past(t, d)' <=>
                \/ k \in Past(t, d) /\ k < n
                \/ k = n /\ frame.cls = d /\ frame.phase \in {"add", "fields", "leave"}
           /\ k \in Marking(t, d)' <=>
                \/ k \in Marking(t, d) /\ k < n
                \/ k = n /\ frame.cls = d /\ frame.phase \in {"fields", "leave"}
  BY <1>2, <1>3, CallsAfter
<1>6. \A d : Past(t, d)' \subseteq Past(t, d) /\ Marking(t, d)' \subseteq Marking(t, d)
  BY <1>4, <1>5
<1>7. \A u, d : Others(u, d) \subseteq Others(u, d)'
  <2>1. \A u \in Threads \ {t} : stack'[u] = stack[u]
    BY <1>3 DEF After
  <2> QED
    BY <2>1, SameOthers
<1>8. ASSUME NEW u \in Threads, NEW d \in Classes, Nested(u, d)' \subseteq Nested(u, d) PROVE OwedFor(u, d)'
  <2>1. Past(u, d)' \subseteq Past(u, d) /\ Marking(u, d)' \subseteq Marking(u, d)
    BY <1>5, <1>6
  <2>2. OwedFor(u, d)
    BY DEF Owed
  <2> QED
    BY <1>1, <1>7, <1>8, <2>1, <2>2, OwedKept
<1>9. OwedFor(t, c)'
  <2>1. td[c] = None
    BY <1>1, NothingOwn
  <2>2. OwedFor(t, c)
    BY DEF Owed
  <2>3. PICK nested, past, marking, others :
          nested = Nested(t, c) /\ past = Past(t, c) /\ marking = Marking(t, c) /\ others = Others(t, c)
    OBVIOUS
  <2>4. PICK nested2, past2, marking2, others2 :
          /\ nested2 = Nested(t, c)' /\ past2 = Past(t, c)'
          /\ marking2 = Marking(t, c)' /\ others2 = Others(t, c)'
    OBVIOUS
  <2>5. /\ nested2 \in SUBSET (nested \union {n}) /\ nested \in SUBSET past
        /\ past2 \in SUBSET past /\ marking2 \in SUBSET marking
        /\ others \in SUBSET others2 /\ others2 \in SUBSET Threads
    <3>1. others2 \in SUBSET Threads
      BY <2>4 DEF Others, Left
    <3>2. nested2 \in SUBSET (nested \union {n})
      BY <1>5, <2>3, <2>4
    <3> QED
      BY <1>6, <1>7, <2>3, <2>4, <3>1, <3>2
  <2>6. /\ IsFiniteSet(nested) /\ Cardinality(nested) \in Nat /\ IsFiniteSet(past) /\ Cardinality(past) \in Nat
        /\ IsFiniteSet(marking) /\ Cardinality(marking) \in Nat
        /\ Cardinality(others) \in Nat /\ Cardinality(Threads) \in Nat
        /\ Cardinality(others) + 1 <= Cardinality(Threads)
    BY <1>1, <2>3, CallsFinite
  <2>7. Cardinality(nested) <= Cardinality(past)
    BY <2>5, <2>6, FS_Subset
  <2>8. Cardinality(past2) \in Nat /\ Cardinality(past2) <= Cardinality(past)
    BY <2>5, <2>6, FS_Subset, FS_CardinalityType
  <2>9. Cardinality(marking2) \in Nat /\ Cardinality(marking2) <= Cardinality(marking)
    BY <2>5, <2>6, FS_Subset, FS_CardinalityType
  <2>10. Cardinality(others2) \in Nat /\ Cardinality(others) <= Cardinality(others2)
    BY <2>5, FiniteAssumption, FS_Subset, FS_CardinalityType
  <2>11. IsFiniteSet(nested \union {n}) /\ Cardinality(nested \union {n}) <= Cardinality(nested) + 1
    <3>1. /\ IsFiniteSet(nested \union {n})
          /\ Cardinality(nested \union {n}) = IF n \in nested THEN Cardinality(nested)
                                                            ELSE Cardinality(nested) + 1
      BY <2>6, FS_AddElement
    <3> QED
      BY <2>6, <3>1
  <2>12. /\ Cardinality(nested2) \in Nat /\ Cardinality(nested \union {n}) \in Nat
         /\ Cardinality(nested2) <= Cardinality(nested \union {n})
    BY <2>5, <2>11, FS_Subset, FS_CardinalityType
  <2>13. /\ Cardinality(past) <= Cardinality(others) + 1
         /\ c \notin generating => Cardinality(marking) <= Cardinality(others)
    BY <2>1, <2>2, <2>3 DEF OwedFor
  <2>14. Cardinality(nested2) <= Cardinality(Threads) + 1
    BY <2>6, <2>7, <2>11, <2>12, <2>13
  <2>15. /\ Cardinality(past2) <= Cardinality(others2) + 1
         /\ c \notin generating => Cardinality(marking2) <= Cardinality(others2)
    BY <2>6, <2>8, <2>9, <2>10, <2>13
  <2> QED
    BY <2>4, <2>14, <2>15 DEF OwedFor
<1>10. ASSUME NEW u \in Threads, NEW d \in Classes PROVE OwedFor(u, d)'
  <2>1. CASE u = t /\ d = c
    BY <1>9, <2>1
  <2>2. CASE u # t \/ d # c
    <3>1. Nested(u, d)' \subseteq Nested(u, d)
      BY <1>4, <1>5, <2>2
    <3> QED
      BY <1>8, <3>1
  <2> QED
    BY <2>1, <2>2
<1>11. Owed'
  BY <1>10 DEF Owed
<1> QED
  BY <1>2, <1>3, <1>11

\* A call returns: its class has a TypedDict now, or `dict', and what was owed for it is over.
LEMMA ReturningOwed ==
  ASSUME IInv, TypeOK', Owed, NEW t \in Threads, NEW c \in Classes, td'[c] # None,
         \A u \in Threads \ {t} : stack'[u] = stack[u],
         \A d : /\ Nested(t, d)' \subseteq Nested(t, d) /\ Past(t, d)' \subseteq Past(t, d)
                /\ Marking(t, d)' \subseteq Marking(t, d),
         \A d \in Classes \ {c} : td'[d] = td[d] /\ t \notin Left(d),
         generating' = generating
  PROVE  Owed'
<1>1. SUFFICES ASSUME NEW u \in Threads, NEW d \in Classes PROVE OwedFor(u, d)'
  BY DEF Owed
<1>2. OwedFor(u, d) /\ TypeOK
  BY DEF Owed, IInv
<1>3. /\ Nested(u, d)' \subseteq Nested(u, d) /\ Past(u, d)' \subseteq Past(u, d)
      /\ Marking(u, d)' \subseteq Marking(u, d)
  <2>1. CASE u = t
    BY <2>1
  <2>2. CASE u # t
    <3>1. stack'[u] = stack[u]
      BY <2>2
    <3>2. Nested(u, d)' = Nested(u, d)
      BY <3>1 DEF Nested
    <3> QED
      BY <3>1, <3>2 DEF Past, Marking
  <2> QED
    BY <2>1, <2>2
<1>4. d # c => td'[d] = td[d] /\ Others(u, d) \subseteq Others(u, d)'
  BY SameOthers
<1> QED
  BY <1>2, <1>3, <1>4, OwedKept

\* A new top frame that did not fail.
LEMMA TopUnfailed ==
  ASSUME IInv, Unfailed, NEW t \in Threads, ~ Idle(t), NEW frame \in Frame, SetTop(t, frame), FrameUnfailed(frame)
  PROVE  Unfailed' /\ After(t, Len(stack[t]), frame)
<1>1. After(t, Len(stack[t]), frame)
  BY SetTopFacts DEF IInv
<1>2. PICK n : n = Len(stack[t])
  OBVIOUS
<1>3. n \in Nat \ {0} /\ n - 1 <= n
  BY <1>2, TopFacts DEF IInv
<1> QED
  BY <1>1, <1>2, <1>3, UnfailedAfter

LEMMA EntersNested ==
  ASSUME IInv, TypeOK', Unfailed, Owed, NEW t \in Threads, Enter(t)
  PROVE  Unfailed' /\ Owed'
<1>1. ~ Idle(t) /\ Top(t).phase = "enter"
  BY DEF Enter, At
<1>2. Top(t) \in Frame /\ Top(t).cls \in Classes
  BY <1>1, TopOK
<1>3. td' = td /\ generating' = generating
  BY DEF Enter
<1>4. CASE Top(t).cls \in generating
  <2>1. PICK frame : frame = [Top(t) EXCEPT !.phase = "store", !.result = Dict]
    OBVIOUS
  <2>2. frame \in Frame /\ frame.cls = Top(t).cls /\ frame.phase = "store"
    BY <1>2, <2>1 DEF Frame, Value
  <2>3. SetTop(t, frame) /\ FrameUnfailed(frame)
    BY <1>4, <2>1, <2>2 DEF Enter, FrameUnfailed
  <2>4. Unfailed' /\ After(t, Len(stack[t]), frame)
    BY <1>1, <2>2, <2>3, TopUnfailed
  <2>5. /\ frame.phase \notin {"add", "fields", "leave"} /\ Top(t).phase # "store"
        /\ generating \subseteq generating'
    BY <1>1, <1>3, <2>2
  <2> QED
    BY <1>1, <1>2, <1>3, <2>2, <2>4, <2>5, GoingOnOwed
<1>5. CASE Top(t).cls \notin generating
  <2>1. PICK frame : frame = Moved(Top(t), "add")
    OBVIOUS
  <2>2. frame \in Frame /\ frame.cls = Top(t).cls /\ frame.phase = "add"
    BY <1>2, <2>1, MovedFacts
  <2>3. SetTop(t, frame) /\ FrameUnfailed(frame)
    BY <1>5, <2>1, <2>2 DEF Enter, FrameUnfailed
  <2>4. Unfailed' /\ After(t, Len(stack[t]), frame)
    BY <1>1, <2>2, <2>3, TopUnfailed
  <2>5. frame.phase \notin {"fields", "leave"}
    BY <2>2
  <2> QED
    BY <1>1, <1>2, <1>3, <1>5, <2>2, <2>4, <2>5, EnteringOwed
<1> QED
  BY <1>4, <1>5

LEMMA AddsNested ==
  ASSUME IInv, TypeOK', Unfailed, Owed, NEW t \in Threads, Add(t)
  PROVE  Unfailed' /\ Owed'
<1>1. ~ Idle(t) /\ Top(t).phase = "add"
  BY DEF Add, At
<1>2. Top(t) \in Frame /\ Top(t).cls \in Classes
  BY <1>1, TopOK
<1>3. td' = td /\ generating \subseteq generating' /\ Top(t).cls \in generating'
  BY DEF Add
<1>4. PICK frame : frame = Moved(Top(t), "fields")
  OBVIOUS
<1>5. frame \in Frame /\ frame.cls = Top(t).cls /\ frame.phase = "fields"
  BY <1>2, <1>4, MovedFacts
<1>6. SetTop(t, frame) /\ FrameUnfailed(frame)
  BY <1>4, <1>5 DEF Add, FrameUnfailed
<1>7. Unfailed' /\ After(t, Len(stack[t]), frame)
  BY <1>1, <1>5, <1>6, TopUnfailed
<1>8. Top(t).phase \in {"add", "fields", "leave"} /\ Top(t).phase # "store"
  BY <1>1
<1> QED
  BY <1>1, <1>2, <1>3, <1>5, <1>7, <1>8, GoingOnOwed

LEMMA BuildsNested ==
  ASSUME IInv, TypeOK', Unfailed, Owed, NEW t \in Threads, Build(t)
  PROVE  Unfailed' /\ Owed'
<1>1. ~ Idle(t) /\ Top(t).phase = "fields"
  BY DEF Build, At
<1>2. Top(t) \in Frame /\ Top(t).cls \in Classes
  BY <1>1, TopOK
<1>3. td' = td /\ generating \subseteq generating'
  BY DEF Build
<1>4. PICK frame : frame = [Top(t) EXCEPT !.phase = "leave", !.result = [of |-> Top(t).cls, refs |-> Top(t).refs]]
  OBVIOUS
<1>5. frame \in Frame /\ frame.cls = Top(t).cls /\ frame.phase = "leave" /\ frame.result \in Built
  BY <1>2, <1>4, BuiltFacts
<1>6. SetTop(t, frame) /\ FrameUnfailed(frame)
  BY <1>4, <1>5 DEF Build, FrameUnfailed
<1>7. Unfailed' /\ After(t, Len(stack[t]), frame)
  BY <1>1, <1>5, <1>6, TopUnfailed
<1>8. /\ Top(t).phase \in {"add", "fields", "leave"} /\ Top(t).phase \in {"fields", "leave"}
      /\ Top(t).phase # "store"
  BY <1>1
<1> QED
  BY <1>1, <1>2, <1>3, <1>5, <1>7, <1>8, GoingOnOwed

LEMMA LeavesNested ==
  ASSUME IInv, TypeOK', Unfailed, Owed, NEW t \in Threads, Leave(t)
  PROVE  Unfailed' /\ Owed'
<1>1. ~ Idle(t) /\ Top(t).phase = "leave"
  BY DEF Leave, At
<1>2. Top(t) \in Frame /\ Top(t).cls \in Classes /\ Len(stack[t]) \in 1 .. Len(stack[t])
  BY <1>1, TopOK
<1>3. td' = td /\ generating' = generating \ {Top(t).cls}
  BY DEF Leave
<1>4. PICK frame : frame = Moved(Top(t), "store")
  OBVIOUS
<1>5. frame \in Frame /\ frame.cls = Top(t).cls /\ frame.phase = "store" /\ frame.result = Top(t).result
  BY <1>2, <1>4, MovedFacts
<1>6. SetTop(t, frame) /\ FrameUnfailed(frame)
  BY <1>4, <1>5 DEF Leave, FrameUnfailed
<1>7. Unfailed' /\ After(t, Len(stack[t]), frame)
  BY <1>1, <1>5, <1>6, TopUnfailed
<1>8. frame.result # Dict
  <2>1. FrameUnfailed(Top(t))
    BY <1>2 DEF Unfailed, Top
  <2> QED
    BY <1>1, <1>5, <2>1, ValueAssumption DEF FrameUnfailed
<1> QED
  BY <1>1, <1>2, <1>3, <1>5, <1>7, <1>8, LeavingOwed

\* A frame that calls on behalf of its next annotation waits with its class marked.
LEMMA ResolvesNested ==
  ASSUME IInv, TypeOK', Unfailed, Owed, NEW t \in Threads, Resolve(t)
  PROVE  Unfailed' /\ Owed'
<1>1. MoreHints(t) /\ NextHint(t) # Broken
  BY DEF Resolve
<1>2. ~ Idle(t) /\ Top(t).phase = "fields" /\ NextHint(t) \in Classes
  BY <1>1, NextHintFacts
<1>3. Top(t) \in Frame /\ Top(t).cls \in Classes
  BY <1>2, TopOK
<1>4. td' = td /\ generating' = generating /\ TypeOK
  BY DEF Resolve, IInv
<1>5. CASE Lookup(NextHint(t)) # None
  <2>1. PICK frame : frame = WithReference(Top(t), Lookup(NextHint(t)))
    OBVIOUS
  <2>2. Lookup(NextHint(t)) \in Value
    BY <1>2, <1>4, <1>5, LookupFacts
  <2>3. frame \in Frame /\ frame.cls = Top(t).cls /\ frame.phase = "fields"
    BY <1>2, <1>3, <2>1, <2>2, WithReferenceFacts
  <2>4. SetTop(t, frame) /\ FrameUnfailed(frame)
    BY <1>5, <2>1, <2>3 DEF Resolve, FrameUnfailed
  <2>5. Unfailed' /\ After(t, Len(stack[t]), frame)
    BY <1>2, <2>3, <2>4, TopUnfailed
  <2>6. /\ Top(t).phase \in {"add", "fields", "leave"} /\ Top(t).phase \in {"fields", "leave"}
        /\ Top(t).phase # "store" /\ generating \subseteq generating'
    BY <1>2, <1>4
  <2> QED
    BY <1>2, <1>3, <1>4, <2>3, <2>5, <2>6, GoingOnOwed
<1>6. CASE Lookup(NextHint(t)) = None
  <2>1. PICK c \in Classes : c = NextHint(t)
    BY <1>2
  <2>2. stack' = [stack EXCEPT ![t] = Append(stack[t], Descriptor(c))]
    BY <1>6, <2>1 DEF Resolve
  <2>3. \A k \in Nested(t, c) : k \in Past(t, c)
    <3>1. SUFFICES ASSUME NEW k \in Nested(t, c) PROVE k \in Past(t, c)
      OBVIOUS
    <3>2. k \in Marking(t, c) \/ k = Len(stack[t])
      BY CallsUnder
    <3> QED
      BY <1>2, <3>2 DEF Past, Marking, Top
  <2>4. \A d : t \notin Left(d)
    BY <1>2, LeftByTop
  <2>5. Nested(t, c) \subseteq Past(t, c) /\ Lookup(c) = None
    BY <1>6, <2>1, <2>3
  <2>6. Owed' /\ After(t, Len(stack[t]) + 1, Descriptor(c)) /\ Len(stack[t]) \in Nat
    BY <1>4, <2>2, <2>4, <2>5, CallingOwed
  <2>7. FrameUnfailed(Descriptor(c))
    BY <1>4, DescriptorFacts DEF FrameUnfailed
  <2>8. PICK m : m = Len(stack[t])
    OBVIOUS
  <2>9. m + 1 \in Nat \ {0} /\ m + 1 - 1 <= m /\ m \in Nat
    BY <2>6, <2>8
  <2> QED
    BY <2>6, <2>7, <2>8, <2>9, UnfailedAfter
<1> QED
  BY <1>5, <1>6

LEMMA StoresNested ==
  ASSUME IInv, TypeOK', Unfailed, Owed, NEW t \in Threads, Store(t)
  PROVE  Unfailed' /\ Owed'
<1>1. ~ Idle(t) /\ Top(t).phase = "store"
  BY DEF Store, At
<1>2. Top(t) \in Frame /\ FrameOK(Top(t)) /\ Top(t).cls \in Classes
  BY <1>1, TopOK
<1>3. Top(t).result \in Value /\ Top(t).result # None
  BY <1>1, <1>2 DEF FrameOK, Frame
<1>4. TypeOK /\ (Under(t) = <<>> <=> Len(stack[t]) = 1)
  BY <1>1, UnderFacts DEF IInv
<1>5. PICK c \in Classes : c = Top(t).cls
  BY <1>2
<1>6. generating' = generating /\ td' = [td EXCEPT ![c] = Top(t).result]
  BY <1>5 DEF Store
<1>7. td'[c] # None /\ \A d \in Classes \ {c} : td'[d] = td[d] /\ t \notin Left(d)
  <2>1. td \in [Classes -> Value \union {None}]
    BY <1>4 DEF TypeOK
  <2>2. \A d \in Classes \ {c} : t \notin Left(d)
    BY <1>1, <1>5, LeftByTop
  <2> QED
    BY <1>3, <1>6, <2>1, <2>2
<1>8. CASE Len(stack[t]) = 1
  <2>1. stack' = [stack EXCEPT ![t] = <<>>] /\ stack \in [Threads -> Seq(Frame)]
    BY <1>4, <1>8 DEF Store, Under, TypeOK
  <2>2. stack'[t] = <<>> /\ 1 .. Len(stack'[t]) = {} /\ \A u \in Threads \ {t} : stack'[u] = stack[u]
    BY <2>1, EmptySeq
  <2>3. Unfailed'
    BY <2>2 DEF Unfailed, FrameUnfailed
  <2>4. \A d : Nested(t, d)' = {}
    BY <2>2 DEF Nested
  <2>5. \A d : /\ Nested(t, d)' \subseteq Nested(t, d) /\ Past(t, d)' \subseteq Past(t, d)
               /\ Marking(t, d)' \subseteq Marking(t, d)
    BY <2>4 DEF Past, Marking
  <2>6. \A u \in Threads \ {t} : stack'[u] = stack[u]
    BY <2>2
  <2>7. Owed'
    BY <1>6, <1>7, <2>5, <2>6, ReturningOwed
  <2> QED
    BY <2>3, <2>7
<1>9. CASE Len(stack[t]) # 1
  <2>1. PICK frame : frame = WithReference(Caller(t), Top(t).result)
    OBVIOUS
  <2>2. /\ Caller(t) \in Frame /\ Caller(t).phase = "fields"
        /\ Len(stack[t]) - 1 \in 1 .. Len(stack[t])
    BY <1>1, <1>9, CallerFacts DEF Calls
  <2>3. frame \in Frame /\ frame.cls = Caller(t).cls /\ frame.phase = "fields"
    BY <1>3, <2>1, <2>2, WithReferenceFacts
  <2>4. Under(t)[Len(Under(t))] = Caller(t)
    <3>1. Len(Under(t)) = Len(stack[t]) - 1 /\ Len(stack[t]) - 1 \in 1 .. Len(stack[t]) - 1
          /\ \A k \in 1 .. Len(stack[t]) - 1 : Under(t)[k] = stack[t][k]
      BY <1>1, <1>4, <1>9, UnderFacts, TopFacts
    <3> QED
      BY <3>1 DEF Caller
  <2>5. stack' = [stack EXCEPT ![t] = [Under(t) EXCEPT ![Len(Under(t))] = frame]]
    BY <1>4, <1>9, <2>1, <2>4 DEF Store, Under
  <2>6. PICK m, n : m = Len(stack[t]) /\ n = m - 1
    OBVIOUS
  <2>7. m \in Nat /\ n \in Nat \ {0} /\ n - 1 <= m /\ After(t, n, frame)
    <3>1. Len(stack[t]) - 1 \in Nat \ {0} /\ After(t, Len(stack[t]) - 1, frame)
      BY <1>1, <1>4, <1>9, <2>3, <2>5, ReturnFacts
    <3>2. m \in Nat
      BY <1>4, <2>6 DEF TypeOK
    <3> QED
      BY <2>6, <3>1, <3>2
  <2>8. Unfailed'
    BY <2>3, <2>6, <2>7, UnfailedAfter DEF FrameUnfailed
  <2>9. \A d, k :
          /\ k \in Nested(t, d)' <=> (k \in Nested(t, d) /\ k < n) \/ (k = n /\ frame.cls = d)
          /\ k \in Past(t, d)' <=>
               \/ k \in Past(t, d) /\ k < n
               \/ k = n /\ frame.cls = d /\ frame.phase \in {"add", "fields", "leave"}
          /\ k \in Marking(t, d)' <=>
               \/ k \in Marking(t, d) /\ k < n
               \/ k = n /\ frame.cls = d /\ frame.phase \in {"fields", "leave"}
    <3>1. Len(stack[t]) \in Nat /\ n - 1 <= Len(stack[t])
      BY <2>6, <2>7
    <3>2. n \in Nat \ {0} /\ After(t, n, frame)
      BY <2>7
    <3> QED
      BY <3>1, <3>2, CallsAfter
  <2>10. stack[t][n].cls = frame.cls /\ stack[t][n].phase = "fields" /\ n \in 1 .. Len(stack[t])
    BY <2>2, <2>3, <2>6 DEF Caller
  <2>11. \A d : frame.cls = d => n \in Nested(t, d) /\ n \in Past(t, d) /\ n \in Marking(t, d)
    BY <2>10 DEF Nested, Past, Marking
  <2>12. \A d : /\ Nested(t, d)' \subseteq Nested(t, d) /\ Past(t, d)' \subseteq Past(t, d)
                /\ Marking(t, d)' \subseteq Marking(t, d)
    BY <2>9, <2>11
  <2>13. \A u \in Threads \ {t} : stack'[u] = stack[u]
    BY <2>7 DEF After
  <2>14. Owed'
    BY <1>6, <1>7, <2>12, <2>13, ReturningOwed
  <2> QED
    BY <2>8, <2>14
<1> QED
  BY <1>8, <1>9

\* A step that leaves all of it alone.
LEMMA SameNested ==
  ASSUME Unfailed, Owed, UNCHANGED <<td, generating, stack>>
  PROVE  Unfailed' /\ Owed'
<1>1. stack' = stack /\ td' = td /\ generating' = generating
  OBVIOUS
<1>2. Unfailed'
  BY <1>1 DEF Unfailed, FrameUnfailed
<1>3. ASSUME NEW t \in Threads, NEW c \in Classes PROVE OwedFor(t, c)'
  <2>1. Nested(t, c)' = Nested(t, c)
    BY <1>1 DEF Nested
  <2>2. Past(t, c)' = Past(t, c) /\ Marking(t, c)' = Marking(t, c)
    BY <1>1, <2>1 DEF Past, Marking
  <2>3. Others(t, c)' = Others(t, c)
    BY <1>1 DEF Others, Left, At, Idle, Top
  <2>4. OwedFor(t, c)
    BY DEF Owed
  <2> QED
    BY <1>1, <2>1, <2>2, <2>3, <2>4 DEF OwedFor
<1>4. Owed'
  BY <1>3 DEF Owed
<1> QED
  BY <1>2, <1>4

LEMMA AccessesNested ==
  ASSUME IInv, TypeOK', Unfailed, Owed, NEW t \in Threads, NEW c \in Classes, Access(t, c)
  PROVE  Unfailed' /\ Owed'
<1>1. td' = td /\ generating' = generating /\ Idle(t) /\ TypeOK
  BY DEF Access, IInv
<1>2. CASE Lookup(c) # None
  <2>1. stack' = stack
    BY <1>2 DEF Access, Begin
  <2> QED
    BY <1>1, <2>1, SameNested
<1>3. CASE Lookup(c) = None
  <2>1. stack' = [stack EXCEPT ![t] = <<Descriptor(c)>>]
    BY <1>3 DEF Access, Begin
  <2>2. stack[t] = <<>> /\ Len(stack[t]) = 0
    BY <1>1, EmptySeq DEF Idle
  <2>3. stack' = [stack EXCEPT ![t] = Append(stack[t], Descriptor(c))]
    <3>1. PICK frame : frame = Descriptor(c)
      OBVIOUS
    <3>2. Append(stack[t], frame) = <<frame>>
      BY <2>2
    <3> QED
      BY <2>1, <3>1, <3>2
  <2>4. Nested(t, c) \subseteq Past(t, c)
    BY <2>2 DEF Nested
  <2>5. \A d : t \notin Left(d)
    BY <1>1 DEF Left, At
  <2>6. Owed' /\ After(t, Len(stack[t]) + 1, Descriptor(c)) /\ Len(stack[t]) \in Nat
    BY <1>1, <1>3, <2>3, <2>4, <2>5, CallingOwed
  <2>7. FrameUnfailed(Descriptor(c))
    BY <1>1, DescriptorFacts DEF FrameUnfailed
  <2>8. PICK m : m = Len(stack[t])
    OBVIOUS
  <2>9. m + 1 \in Nat \ {0} /\ m + 1 - 1 <= m /\ m \in Nat
    BY <2>6, <2>8
  <2> QED
    BY <2>6, <2>7, <2>8, <2>9, UnfailedAfter
<1> QED
  BY <1>2, <1>3

LEMMA InitNested ==
  ASSUME Init
  PROVE  Nesting
<1>1. \A t \in Threads : stack[t] = <<>> /\ 1 .. Len(stack[t]) = {}
  BY EmptySeq DEF Init
<1>2. Unfailed
  BY <1>1 DEF Unfailed
<1>3. ASSUME NEW t \in Threads, NEW c \in Classes PROVE OwedFor(t, c)
  <2>1. Nested(t, c) = {} /\ Past(t, c) = {} /\ Marking(t, c) = {}
    BY <1>1 DEF Nested, Past, Marking
  <2>2. Cardinality({}) = 0
    BY FS_EmptySet
  <2>3. Cardinality(Others(t, c)) \in Nat /\ Cardinality(Threads) \in Nat
    BY InitKeeps, CallsFinite DEF IInv
  <2> QED
    BY <2>1, <2>2, <2>3 DEF OwedFor
<1> QED
  BY <1>2, <1>3 DEF Nesting, Owed

LEMMA StepNested ==
  ASSUME IInv, Nesting, [Next]_vars
  PROVE  Nesting'
<1>1. SUFFICES ASSUME ~ raised' PROVE Unfailed' /\ Owed'
  BY DEF Nesting
<1>2. TypeOK'
  BY StepKeeps DEF IInv
<1>3. CASE UNCHANGED vars
  <2>1. ~ raised /\ UNCHANGED <<td, generating, stack>>
    BY <1>1, <1>3 DEF vars
  <2> QED
    BY <2>1, SameNested DEF Nesting
<1>4. CASE Next
  <2>1. PICK t \in Threads : Run(t) \/ \E c \in Classes : Access(t, c)
    BY <1>4 DEF Next
  <2>2. ~ Raise(t)
    BY <1>1 DEF Raise
  <2>3. raised' = raised
    BY <2>1, <2>2 DEF Run, Enter, Add, Resolve, Build, Leave, Unwind, Store, Access
  <2>4. Unfailed /\ Owed
    BY <1>1, <2>3 DEF Nesting
  <2>5. ~ Unwind(t)
    <3>1. SUFFICES ASSUME Unwind(t) PROVE FALSE
      OBVIOUS
    <3>2. ~ Idle(t) /\ Top(t).phase = "raising"
      BY <3>1 DEF Unwind, At
    <3>3. Len(stack[t]) \in 1 .. Len(stack[t])
      BY <3>2, TopOK
    <3>4. FrameUnfailed(Top(t))
      BY <2>4, <3>3 DEF Unfailed, Top
    <3> QED
      BY <3>2, <3>4 DEF FrameUnfailed
  <2>6. CASE \E c \in Classes : Access(t, c)
    BY <1>2, <2>4, <2>6, AccessesNested
  <2>7. CASE Enter(t)
    BY <1>2, <2>4, <2>7, EntersNested
  <2>8. CASE Add(t)
    BY <1>2, <2>4, <2>8, AddsNested
  <2>9. CASE Resolve(t)
    BY <1>2, <2>4, <2>9, ResolvesNested
  <2>10. CASE Build(t)
    BY <1>2, <2>4, <2>10, BuildsNested
  <2>11. CASE Leave(t)
    BY <1>2, <2>4, <2>11, LeavesNested
  <2>12. CASE Store(t)
    BY <1>2, <2>4, <2>12, StoresNested
  <2> QED
    BY <2>1, <2>2, <2>5, <2>6, <2>7, <2>8, <2>9, <2>10, <2>11, <2>12 DEF Run
<1> QED
  BY <1>3, <1>4

\* As long as nothing raises, a class is at most once more among the calls of a thread than there
\* are threads, whatever refers to what and however the threads remove each other's marks: circular
\* references do fall back to `dict', only later.
THEOREM GenerationIsBounded == Spec => []BoundedDepth
<1>1. Init => Nesting
  BY InitNested
<1>2. IInv /\ Nesting /\ [Next]_vars => Nesting'
  BY StepNested
<1>3. Nesting => BoundedDepth
  BY DEF Nesting, Owed, OwedFor, BoundedDepth
<1> QED
  BY <1>1, <1>2, <1>3, Inductive, PTL DEF Spec

=============================================================================
