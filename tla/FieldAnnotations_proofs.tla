----------------------- MODULE FieldAnnotations_proofs -----------------------
(* Proofs about FieldAnnotations, for every configuration and every bound. *)
EXTENDS FieldAnnotations, SequenceTheorems, TLAPS

-----------------------------------------------------------------------------
(* What one step does to the stack                                          *)

\* Moving the top frame on to a name changes that frame only.
LEMMA VisitedFacts ==
  ASSUME stack \in Seq(Frame), stack # <<>>, NEW n \in Registered
  PROVE  /\ Visited(n) \in Seq(Frame)
         /\ Len(Visited(n)) = Len(stack)
         /\ \A i \in 1 .. Len(stack) - 1 : Visited(n)[i] = stack[i]
         /\ Visited(n)[Len(stack)] = VisitedFrame(n)
         /\ VisitedFrame(n).pending = Top.pending
         /\ VisitedFrame(n).todo = Top.todo \ {n}
         /\ VisitedFrame(n).current = n
<1>1. Len(stack) \in 1 .. Len(stack)
  BY EmptySeq
<1>2. Top \in Frame
  BY <1>1, ElementOfSeq DEF Top
<1>3. VisitedFrame(n) \in Frame
  BY <1>2 DEF VisitedFrame, Frame
<1>4. /\ Visited(n) \in Seq(Frame)
      /\ Len(Visited(n)) = Len(stack)
      /\ \A i \in 1 .. Len(stack) : Visited(n)[i] = IF i = Len(stack) THEN VisitedFrame(n) ELSE stack[i]
  BY <1>1, <1>3, ExceptSeq DEF Visited
<1>5. /\ VisitedFrame(n).pending = Top.pending
      /\ VisitedFrame(n).todo = Top.todo \ {n}
      /\ VisitedFrame(n).current = n
  BY DEF VisitedFrame
<1>6. \A i \in 1 .. Len(stack) - 1 : i \in 1 .. Len(stack) /\ i # Len(stack)
  BY <1>1
<1> HIDE DEF Visited
<1> QED
  BY <1>1, <1>4, <1>5, <1>6

\* A call that starts has everything it will annotate left to visit.
LEMMA NewFrameFacts ==
  ASSUME NEW names
  PROVE  /\ NewFrame(names) \in Frame
         /\ NewFrame(names).pending = Pending(names)
         /\ NewFrame(names).todo = Pending(names)
         /\ Pending(names) \subseteq Registered
  BY DEF NewFrame, Frame, Pending

\* A call that returns leaves the frames under it as they are.
LEMMA ReturnFacts ==
  ASSUME stack \in Seq(Frame), stack # <<>>
  PROVE  /\ SubSeq(stack, 1, Len(stack) - 1) \in Seq(Frame)
         /\ Len(SubSeq(stack, 1, Len(stack) - 1)) = Len(stack) - 1
         /\ \A i \in 1 .. Len(stack) - 1 : SubSeq(stack, 1, Len(stack) - 1)[i] = stack[i]
<1>1. Len(stack) \in Nat \ {0}
  BY EmptySeq
<1>2. \A i \in 1 .. Len(stack) - 1 : stack[i] \in Frame
  BY <1>1, ElementOfSeq
<1> DEFINE last == Len(stack) - 1
<1>3. 1 \in Int /\ last \in Int /\ last - 1 + 1 = last /\ \A i \in 1 .. last : 1 + i - 1 = i
  BY <1>1
<1>4. /\ SubSeq(stack, 1, last) \in Seq(Frame)
      /\ Len(SubSeq(stack, 1, last)) = IF 1 <= last THEN last - 1 + 1 ELSE 0
      /\ \A i \in 1 .. last - 1 + 1 : SubSeq(stack, 1, last)[i] = stack[1 + i - 1]
  BY <1>2, <1>3, SubSeqProperties
<1> QED
  BY <1>1, <1>3, <1>4

-----------------------------------------------------------------------------
(* Type correctness                                                         *)

\* Every step preserves the type invariant, with the emptiness of the stack it needs.
LEMMA TypeStep ==
  ASSUME TypeOK, Busy, [Next]_vars
  PROVE  TypeOK' /\ Busy'
<1> USE DEF TypeOK, Busy
<1>1. ASSUME NEW names \in SUBSET Names, Request(names)
      PROVE  TypeOK' /\ Busy'
  <2>1. <<NewFrame(names)>> \in Seq(Frame) /\ <<NewFrame(names)>> # <<>>
    BY NewFrameFacts
  <2>2. stack = <<>>
    BY <1>1 DEF Request
  <2>3. stack' \in Seq(Frame) /\ (status' = "running" <=> stack' # <<>>) /\ status' \in {"running", "done"}
    <3>1. CASE Pending(names) = {}
      BY <1>1, <2>2, <3>1 DEF Request
    <3>2. CASE Pending(names) # {}
      BY <1>1, <2>1, <3>2 DEF Request
    <3> QED
      BY <3>1, <3>2
  <2>5. requested' \subseteq Names /\ calls' \in 0 .. MaxCalls
    BY <1>1, BoundAssumption DEF Request
  <2> QED
    BY <1>1, <2>3, <2>5 DEF Request, constant
<1>2. ASSUME NEW n \in Registered, Skip(n)
      PROVE  TypeOK' /\ Busy'
  <2>1. stack # <<>>
    BY <1>2 DEF Skip, Running
  <2>2. stack' \in Seq(Frame) /\ stack' # <<>>
    BY <1>2, <2>1, VisitedFacts, EmptySeq DEF Skip
  <2> QED
    BY <1>2, <2>1, <2>2 DEF Skip, constant
<1>3. ASSUME NEW n \in Registered, Descend(n)
      PROVE  TypeOK' /\ Busy'
  <2>1. stack # <<>>
    BY <1>3 DEF Descend, Running
  <2>2. Visited(n) \in Seq(Frame) /\ NewFrame(deps[n]) \in Frame
    BY <2>1, VisitedFacts, NewFrameFacts
  <2>3. stack' \in Seq(Frame) /\ stack' # <<>>
    BY <1>3, <2>2, AppendProperties DEF Descend
  <2> QED
    BY <1>3, <2>1, <2>3 DEF Descend, constant
<1>4. ASSUME NEW n \in Registered, Overflow(n)
      PROVE  TypeOK' /\ Busy'
  <2>1. stack # <<>>
    BY <1>4 DEF Overflow, Running
  <2>2. stack' \in Seq(Frame) /\ stack' # <<>>
    BY <1>4, <2>1, VisitedFacts, EmptySeq DEF Overflow
  <2> QED
    BY <1>4, <2>1, <2>2 DEF Overflow, constant
<1>5. CASE Annotate
  <2>1. stack # <<>> /\ Len(stack) \in Nat \ {0}
    BY <1>5, EmptySeq DEF Annotate
  <2>2. Top.pending \subseteq Registered
    <3>1. Top \in Frame
      BY <2>1, ElementOfSeq DEF Top
    <3> QED
      BY <3>1 DEF Frame
  <2>3. stack' \in Seq(Frame) /\ Len(stack') = Len(stack) - 1
    BY <1>5, <2>1, ReturnFacts DEF Annotate
  <2>4. stack' = <<>> <=> Len(stack) = 1
    <3>1. Len(stack') # 0 => stack' # <<>>
      BY Len(<<>>) = 0
    <3>2. stack' # <<>> => Len(stack') \in Nat \ {0}
      BY <2>3, EmptySeq
    <3> QED
      BY <2>1, <2>3, <3>1, <3>2
  <2>5. Busy' /\ status' \in {"running", "done"}
    BY <1>5, <2>4 DEF Annotate
  <2> QED
    BY <1>5, <2>2, <2>3, <2>5 DEF Annotate, constant
<1>6. CASE UNCHANGED vars
  BY <1>6 DEF vars
<1> QED
  BY <1>1, <1>2, <1>3, <1>4, <1>5, <1>6 DEF Next, Step

\* The type invariant holds in every reachable state.
THEOREM TypeCorrect == Spec => []TypeOK
<1>1. Init => TypeOK /\ Busy
  BY BoundAssumption DEF Init, TypeOK, Busy, Frame
<1>2. TypeOK /\ Busy /\ [Next]_vars => (TypeOK /\ Busy)'
  BY TypeStep
<1> QED
  BY <1>1, <1>2, PTL DEF Spec

-----------------------------------------------------------------------------
(* The inductive invariant                                                  *)

\* In a running call the top frame exists, and its visited names are complete.
LEMMA TopFacts ==
  ASSUME IInv, status = "running"
  PROVE  /\ stack # <<>>
         /\ Len(stack) \in Nat \ {0}
         /\ Len(stack) \in 1 .. Len(stack)
         /\ Top \in Frame
         /\ Top.todo \subseteq Top.pending
         /\ Top.pending \subseteq Registered
         /\ Top.pending \intersect base = {}
         /\ \A n \in Top.pending \ Top.todo : Needs(n) \subseteq annotated
<1>1. stack # <<>> /\ stack \in Seq(Frame)
  BY DEF IInv, TypeOK, Busy
<1>2. Len(stack) \in Nat \ {0} /\ Len(stack) \in 1 .. Len(stack)
  BY <1>1, EmptySeq
<1>3. Top \in Frame
  BY <1>1, <1>2, ElementOfSeq DEF Top
<1>4. FrameOK(Len(stack))
  BY <1>2 DEF IInv, Frames
<1>5. Top.pending \subseteq Registered
  BY <1>3 DEF Frame
<1> QED
  BY <1>1, <1>2, <1>3, <1>4, <1>5 DEF FrameOK, Visiting, Top

\* A new outermost call.
LEMMA RequestStep ==
  ASSUME IInv, NEW names \in SUBSET Names, Request(names)
  PROVE  (Grounded /\ Frames /\ CallChain /\ Answering /\ Depth)'
<1>1. stack = <<>> /\ Len(stack) = 0
  BY DEF IInv, Busy, Request
<1>2. UNCHANGED <<deps, base, annotated>> /\ requested' = requested \union names
  BY DEF Request, constant
<1>3. Grounded'
  BY <1>2 DEF IInv, Grounded, Needs
<1>4. CASE Pending(names) = {}
  <2>1. stack' = <<>> /\ Len(stack') = 0 /\ status' = "done"
    BY <1>1, <1>4 DEF Request
  <2>2. names \intersect Registered \subseteq annotated
    BY <1>4 DEF Pending
  <2>3. Answering'
    BY <1>1, <1>2, <2>1, <2>2 DEF IInv, Answering
  <2> QED
    BY <1>3, <2>1, <2>3, BoundAssumption DEF Frames, CallChain, Depth
<1>5. CASE Pending(names) # {}
  <2>1. /\ Len(stack') = 1 /\ stack' # <<>> /\ status' = "running"
        /\ stack'[1].pending = Pending(names)
        /\ stack'[1].todo = Pending(names)
    BY <1>5, NewFrameFacts DEF Request
  <2>2. Answering'
    BY <1>1, <1>2, <2>1 DEF IInv, Answering, Pending
  <2>3. Frames'
    BY <1>2, <2>1 DEF IInv, Grounded, Frames, FrameOK, Pending
  <2>4. CallChain' /\ Depth'
    BY <2>1, BoundAssumption DEF CallChain, Depth
  <2> QED
    BY <1>3, <2>2, <2>3, <2>4
<1> QED
  BY <1>4, <1>5

\* The top frame moves on to a name that is complete.
LEMMA SkipStep ==
  ASSUME IInv, NEW n \in Registered, Skip(n)
  PROVE  (Grounded /\ Frames /\ CallChain /\ Answering /\ Depth)'
<1>1. status = "running" /\ n \in Top.todo
  BY DEF Skip, Running
<1> DEFINE top == Len(stack)
<1>2. /\ stack # <<>> /\ stack \in Seq(Frame)
      /\ top \in Nat \ {0}
      /\ Top.todo \subseteq Top.pending
      /\ \A m \in Top.pending \ Top.todo : Needs(m) \subseteq annotated
      /\ Top.pending \intersect base = {}
  BY <1>1, TopFacts DEF IInv, TypeOK
<1>3. UNCHANGED <<deps, base, annotated, status, requested>>
  BY DEF Skip, constant
<1>4. /\ Len(stack') = top
      /\ \A i \in 1 .. top - 1 : stack'[i] = stack[i]
      /\ stack'[top].pending = Top.pending
      /\ stack'[top].todo = Top.todo \ {n}
      /\ stack'[top].current = n
  BY <1>2, VisitedFacts DEF Skip
<1>5. stack' # <<>>
  BY <1>2, <1>4
<1>6. Needs(n) \subseteq annotated
  BY DEF Skip, Pending, Needs
<1>7. Frames'
  <2> SUFFICES ASSUME NEW i \in 1 .. top PROVE FrameOK(i)'
    BY <1>4 DEF Frames
  <2>1. CASE i = top
    BY <1>2, <1>3, <1>4, <1>6, <2>1 DEF FrameOK, Needs
  <2>2. CASE i # top
    <3>1. i \in 1 .. top - 1 /\ FrameOK(i)
      BY <1>2, <2>2 DEF IInv, Frames
    <3> QED
      BY <1>3, <1>4, <3>1 DEF FrameOK, Needs, Visiting
  <2> QED
    BY <2>1, <2>2
<1>8. CallChain'
  <2> SUFFICES ASSUME NEW i \in 1 .. top - 1 PROVE CallOK(i)'
    BY <1>4 DEF CallChain
  <2>1. CallOK(i) /\ stack'[i] = stack[i]
    BY <1>4 DEF IInv, CallChain
  <2>2. stack'[i + 1].pending = stack[i + 1].pending
    BY <1>2, <1>4 DEF Top
  <2> QED
    BY <1>3, <2>1, <2>2 DEF CallOK, Needs
<1>9. Answering'
  <2>1. stack'[1].pending = stack[1].pending
    BY <1>2, <1>4 DEF Top
  <2> QED
    BY <1>2, <1>3, <1>5, <2>1 DEF IInv, Answering
<1>10. Grounded' /\ Depth'
  BY <1>1, <1>3, <1>4 DEF IInv, Grounded, Depth, Needs
<1> QED
  BY <1>7, <1>8, <1>9, <1>10

\* The top frame makes the recursive call for a name.
LEMMA DescendStep ==
  ASSUME IInv, NEW n \in Registered, Descend(n)
  PROVE  (Grounded /\ Frames /\ CallChain /\ Answering /\ Depth)'
<1>1. status = "running" /\ n \in Top.todo
  BY DEF Descend, Running
<1> DEFINE top == Len(stack)
<1>2. /\ stack # <<>> /\ stack \in Seq(Frame)
      /\ top \in Nat \ {0}
      /\ Top.todo \subseteq Top.pending
      /\ \A m \in Top.pending \ Top.todo : Needs(m) \subseteq annotated
      /\ Top.pending \intersect base = {}
  BY <1>1, TopFacts DEF IInv, TypeOK
<1>3. UNCHANGED <<deps, base, annotated, status, requested>>
  BY DEF Descend, constant
<1>4. /\ Visited(n) \in Seq(Frame)
      /\ Len(Visited(n)) = top
      /\ \A i \in 1 .. top - 1 : Visited(n)[i] = stack[i]
      /\ Visited(n)[top].pending = Top.pending
      /\ Visited(n)[top].todo = Top.todo \ {n}
      /\ Visited(n)[top].current = n
  BY <1>2, VisitedFacts
<1>5. /\ NewFrame(deps[n]) \in Frame
      /\ NewFrame(deps[n]).pending = Pending(deps[n])
      /\ NewFrame(deps[n]).todo = Pending(deps[n])
  BY NewFrameFacts
<1>6. /\ Len(stack') = top + 1
      /\ stack' # <<>>
      /\ \A i \in 1 .. top - 1 : stack'[i] = stack[i]
      /\ stack'[top] = Visited(n)[top]
      /\ stack'[top + 1] = NewFrame(deps[n])
  BY <1>2, <1>4, <1>5, AppendProperties DEF Descend
<1>7. /\ Pending(deps[n]) \subseteq Needs(n)
      /\ Needs(n) \subseteq annotated \union Pending(deps[n])
      /\ Pending(deps[n]) \intersect annotated = {}
  BY DEF Pending, Needs
<1>8. Frames'
  <2> SUFFICES ASSUME NEW i \in 1 .. top + 1 PROVE FrameOK(i)'
    BY <1>6 DEF Frames
  <2>1. CASE i = top + 1
    <3>1. Pending(deps[n]) \intersect base = {}
      BY <1>7 DEF IInv, Grounded
    <3> QED
      BY <1>3, <1>5, <1>6, <2>1, <3>1 DEF FrameOK
  <2>2. CASE i = top
    BY <1>2, <1>3, <1>4, <1>6, <2>2 DEF FrameOK, Needs, Visiting
  <2>3. CASE i \in 1 .. top - 1
    <3>1. FrameOK(i)
      BY <1>2, <2>3 DEF IInv, Frames
    <3> QED
      BY <1>2, <1>3, <1>6, <2>3, <3>1 DEF FrameOK, Needs, Visiting
  <2> QED
    BY <1>2, <2>1, <2>2, <2>3
<1>9. CallChain'
  <2> SUFFICES ASSUME NEW i \in 1 .. top PROVE CallOK(i)'
    BY <1>2, <1>6 DEF CallChain
  <2>1. CASE i = top
    BY <1>2, <1>3, <1>4, <1>5, <1>6, <1>7, <1>1, <2>1 DEF CallOK, Needs
  <2>2. CASE i \in 1 .. top - 1
    <3>1. CallOK(i) /\ stack'[i] = stack[i]
      BY <1>6, <2>2 DEF IInv, CallChain
    <3>2. stack'[i + 1].pending = stack[i + 1].pending
      BY <1>2, <1>4, <1>6, <2>2 DEF Top
    <3> QED
      BY <1>3, <3>1, <3>2 DEF CallOK, Needs
  <2> QED
    BY <1>2, <2>1, <2>2
<1>10. Answering'
  <2>1. stack'[1].pending = stack[1].pending
    BY <1>2, <1>4, <1>6 DEF Top
  <2> QED
    BY <1>2, <1>3, <1>6, <2>1 DEF IInv, Answering
<1>11. Grounded' /\ Depth'
  BY <1>1, <1>2, <1>3, <1>6, BoundAssumption DEF IInv, Grounded, Depth, Needs, Descend, CalleeDepth
<1> QED
  BY <1>8, <1>9, <1>10, <1>11

\* The recursive call for a name is refused: the stack is as deep as it can be.
LEMMA OverflowStep ==
  ASSUME IInv, NEW n \in Registered, Overflow(n)
  PROVE  (Grounded /\ Frames /\ CallChain /\ Answering /\ Depth)'
<1>1. status = "running" /\ n \in Top.todo
  BY DEF Overflow, Running
<1> DEFINE top == Len(stack)
<1>2. /\ stack # <<>> /\ stack \in Seq(Frame)
      /\ top \in Nat \ {0}
      /\ Top.todo \subseteq Top.pending
      /\ \A m \in Top.pending \ Top.todo : Needs(m) \subseteq annotated
      /\ Top.pending \intersect base = {}
  BY <1>1, TopFacts DEF IInv, TypeOK
<1>3. UNCHANGED <<deps, base, annotated, requested>> /\ status' = "failed"
  BY DEF Overflow, constant
<1>4. /\ Len(stack') = top
      /\ \A i \in 1 .. top - 1 : stack'[i] = stack[i]
      /\ stack'[top].pending = Top.pending
      /\ stack'[top].todo = Top.todo \ {n}
      /\ stack'[top].current = n
  BY <1>2, VisitedFacts DEF Overflow
<1>5. stack' # <<>>
  BY <1>2, <1>4
<1>6. Frames'
  <2> SUFFICES ASSUME NEW i \in 1 .. top PROVE FrameOK(i)'
    BY <1>4 DEF Frames
  <2>1. CASE i = top
    BY <1>2, <1>3, <1>4, <2>1 DEF FrameOK, Needs, Visiting
  <2>2. CASE i # top
    <3>1. i \in 1 .. top - 1 /\ FrameOK(i)
      BY <1>2, <2>2 DEF IInv, Frames
    <3> QED
      BY <1>1, <1>3, <1>4, <3>1 DEF FrameOK, Needs, Visiting
  <2> QED
    BY <2>1, <2>2
<1>7. CallChain'
  <2> SUFFICES ASSUME NEW i \in 1 .. top - 1 PROVE CallOK(i)'
    BY <1>4 DEF CallChain
  <2>1. CallOK(i) /\ stack'[i] = stack[i]
    BY <1>4 DEF IInv, CallChain
  <2>2. stack'[i + 1].pending = stack[i + 1].pending
    BY <1>2, <1>4 DEF Top
  <2> QED
    BY <1>3, <2>1, <2>2 DEF CallOK, Needs
<1>8. Answering'
  <2>1. stack'[1].pending = stack[1].pending
    BY <1>2, <1>4 DEF Top
  <2> QED
    BY <1>2, <1>3, <1>5, <2>1 DEF IInv, Answering
<1>9. Depth'
  <2>1. top = MaxDepth + 1 /\ deps[n] # {}
    BY <1>2, BoundAssumption DEF IInv, Depth, Overflow, CalleeDepth
  <2>2. Top'.current = n /\ n \in Top'.pending
    BY <1>1, <1>2, <1>4 DEF Top
  <2> QED
    BY <1>3, <1>4, <2>1, <2>2, BoundAssumption DEF Depth
<1>10. Grounded'
  BY <1>3 DEF IInv, Grounded, Needs
<1> QED
  BY <1>6, <1>7, <1>8, <1>9, <1>10

\* A call annotates what it found missing, and returns to its caller.
LEMMA AnnotateStep ==
  ASSUME IInv, Annotate
  PROVE  (Grounded /\ Frames /\ CallChain /\ Answering /\ Depth)'
<1>1. status = "running" /\ Top.todo = {}
  BY DEF Annotate
<1> DEFINE top == Len(stack)
<1>2. /\ stack # <<>> /\ stack \in Seq(Frame)
      /\ top \in Nat \ {0}
      /\ \A m \in Top.pending : Needs(m) \subseteq annotated
  BY <1>1, TopFacts DEF IInv, TypeOK
<1>3. UNCHANGED <<deps, base, requested>> /\ annotated' = annotated \union Top.pending
  BY DEF Annotate, constant
<1>4. /\ stack' \in Seq(Frame)
      /\ Len(stack') = top - 1
      /\ \A i \in 1 .. top - 1 : stack'[i] = stack[i]
  BY <1>2, ReturnFacts DEF Annotate
<1>5. status' = (IF top = 1 THEN "done" ELSE "running")
  BY DEF Annotate
<1>6. Grounded'
  BY <1>2, <1>3 DEF IInv, Grounded, Needs
<1>7. Frames'
  <2> SUFFICES ASSUME NEW i \in 1 .. top - 1 PROVE FrameOK(i)'
    BY <1>4 DEF Frames
  <2>1. FrameOK(i) /\ CallOK(i) /\ stack'[i] = stack[i]
    BY <1>2, <1>4 DEF IInv, Frames, CallChain
  <2>2. i = top - 1 => Needs(stack[i].current) \subseteq annotated'
    BY <1>2, <1>3, <2>1 DEF CallOK, Top
  <2>3. i # top - 1 => i < top - 1
    BY <1>2
  <2> QED
    BY <1>1, <1>3, <1>4, <2>1, <2>2, <2>3 DEF FrameOK, Needs, Visiting
<1>8. CallChain'
  <2> SUFFICES ASSUME NEW i \in 1 .. top - 2 PROVE CallOK(i)'
    BY <1>2, <1>4 DEF CallChain
  <2>1. CallOK(i) /\ stack'[i] = stack[i] /\ stack'[i + 1] = stack[i + 1]
    BY <1>2, <1>4 DEF IInv, CallChain
  <2> QED
    BY <1>3, <2>1 DEF CallOK, Needs
<1>9. Answering'
  <2>1. CASE top = 1
    BY <1>2, <1>3, <2>1 DEF IInv, Answering, Top
  <2>2. CASE top # 1
    <3>1. stack'[1] = stack[1] /\ stack' # <<>>
      BY <1>2, <1>4, <2>2
    <3> QED
      BY <1>2, <1>3, <3>1 DEF IInv, Answering
  <2> QED
    BY <2>1, <2>2
<1>10. Depth'
  BY <1>2, <1>4, <1>5, BoundAssumption DEF IInv, Depth
<1> QED
  BY <1>6, <1>7, <1>8, <1>9, <1>10

\* The inductive invariant holds in every reachable state.
THEOREM Inductive == Spec => []IInv
<1>1. Init => IInv
  <2> SUFFICES ASSUME Init PROVE IInv
    OBVIOUS
  <2>1. stack = <<>> /\ Len(stack) = 0 /\ requested = {} /\ annotated = base /\ status = "idle"
    BY DEF Init
  <2>2. TypeOK /\ Busy
    BY BoundAssumption DEF Init, TypeOK, Busy, Frame
  <2> QED
    BY <2>1, <2>2, BoundAssumption DEF IInv, Grounded, Frames, CallChain, Answering, Depth
<1>2. IInv /\ [Next]_vars => IInv'
  <2> SUFFICES ASSUME IInv, [Next]_vars
               PROVE  IInv'
    OBVIOUS
  <2>1. TypeOK' /\ Busy'
    BY TypeStep DEF IInv
  <2>2. (Grounded /\ Frames /\ CallChain /\ Answering /\ Depth)'
    <3>1. ASSUME NEW names \in SUBSET Names, Request(names)
          PROVE  (Grounded /\ Frames /\ CallChain /\ Answering /\ Depth)'
      BY <3>1, RequestStep
    <3>2. ASSUME NEW n \in Registered, Skip(n)
          PROVE  (Grounded /\ Frames /\ CallChain /\ Answering /\ Depth)'
      BY <3>2, SkipStep
    <3>3. ASSUME NEW n \in Registered, Descend(n)
          PROVE  (Grounded /\ Frames /\ CallChain /\ Answering /\ Depth)'
      BY <3>3, DescendStep
    <3>4. ASSUME NEW n \in Registered, Overflow(n)
          PROVE  (Grounded /\ Frames /\ CallChain /\ Answering /\ Depth)'
      BY <3>4, OverflowStep
    <3>5. CASE Annotate
      BY <3>5, AnnotateStep
    <3>6. CASE UNCHANGED vars
      BY <3>6 DEF IInv, vars, Grounded, Frames, FrameOK, Visiting, CallChain, CallOK, Answering, Depth,
                  Needs, Top
    <3> QED
      BY <3>1, <3>2, <3>3, <3>4, <3>5, <3>6 DEF Next, Step
  <2> QED
    BY <2>1, <2>2 DEF IInv
<1> QED
  BY <1>1, <1>2, PTL DEF Spec

-----------------------------------------------------------------------------
(* What follows from it                                                     *)

\* No annotation is added before everything it depends on, in any order of visits.
THEOREM DependenciesComeFirst == Spec => DependenciesFirst
<1>1. IInv /\ [Next]_vars =>
        [\A n \in annotated' \ annotated : Needs(n) \subseteq annotated]_vars
  <2> SUFFICES ASSUME IInv, Annotate
               PROVE  \A n \in annotated' \ annotated : Needs(n) \subseteq annotated
    BY DEF Next, Step, vars, Request, Skip, Descend, Overflow
  <2>1. \A n \in Top.pending \ Top.todo : Needs(n) \subseteq annotated
    BY TopFacts DEF Annotate
  <2> QED
    BY <2>1 DEF Annotate
<1> QED
  BY <1>1, Inductive, PTL DEF Spec, DependenciesFirst

\* When a call returns, what it was asked for is there with all it depends on.
THEOREM EverythingAsked == Spec => []AllThere
<1>1. IInv => AllThere
  BY DEF IInv, AllThere, Busy, Grounded, Answering
<1> QED
  BY <1>1, Inductive, PTL

\* The depth error needs a chain of dependencies longer than the depth allows.
THEOREM NoSpuriousFailure == Spec => []FailureMeansDeepChain
<1>1. IInv => FailureMeansDeepChain
  <2> SUFFICES ASSUME IInv, status = "failed"
               PROVE  \E p \in [1 .. MaxDepth + 1 -> Registered] :
                        /\ \A i \in 1 .. MaxDepth : p[i + 1] \in deps[p[i]]
                        /\ deps[p[MaxDepth + 1]] # {}
    BY DEF FailureMeansDeepChain
  <2>1. /\ Len(stack) = MaxDepth + 1 /\ MaxDepth \in Nat
        /\ Top.current \in Top.pending /\ deps[Top.current] # {}
    BY BoundAssumption DEF IInv, Depth
  <2> DEFINE p == [i \in 1 .. MaxDepth + 1 |-> stack[i].current]
  <2>2. \A i \in 1 .. MaxDepth : CallOK(i)
    BY <2>1 DEF IInv, CallChain
  <2>3. \A i \in 1 .. MaxDepth + 1 : stack[i].pending \subseteq Registered
    <3> SUFFICES ASSUME NEW i \in 1 .. Len(stack)
                 PROVE  stack[i].pending \subseteq Registered
      BY <2>1
    <3>1. stack[i] \in Frame
      BY ElementOfSeq DEF IInv, TypeOK
    <3> QED
      BY <3>1 DEF Frame
  <2>4. \A i \in 1 .. MaxDepth + 1 : stack[i].current \in Registered
    BY <2>1, <2>2, <2>3 DEF CallOK, Top
  <2>5. p \in [1 .. MaxDepth + 1 -> Registered]
    BY <2>4
  <2>6. ASSUME NEW i \in 1 .. MaxDepth
        PROVE  p[i + 1] \in deps[p[i]]
    <3>1. CASE i + 1 <= MaxDepth
      <4>1. CallOK(i) /\ CallOK(i + 1)
        BY <2>1, <2>2, <3>1
      <4> QED
        BY <2>1, <4>1 DEF CallOK, Needs
    <3>2. CASE i = MaxDepth
      <4>1. stack[i + 1].current \in stack[i + 1].pending
        BY <2>1, <3>2 DEF Top
      <4> QED
        BY <2>1, <2>2, <4>1 DEF CallOK, Needs
    <3> QED
      BY <2>1, <3>1, <3>2
  <2>7. deps[p[MaxDepth + 1]] # {}
    <3>1. p[MaxDepth + 1] = stack[MaxDepth + 1].current
      BY <2>1
    <3> QED
      BY <2>1, <3>1 DEF Top
  <2> QED
    BY <2>5, <2>6, <2>7
<1> QED
  BY <1>1, Inductive, PTL

\* A set of names that wait for each other stays out of the queryset.
THEOREM CyclesStayOut == Spec => []NoCycleAnnotated
<1>1. Init => NoCycleAnnotated
  BY DEF Init, NoCycleAnnotated
<1>2. IInv /\ NoCycleAnnotated /\ [Next]_vars => NoCycleAnnotated'
  <2> SUFFICES ASSUME IInv, NoCycleAnnotated, [Next]_vars
               PROVE  NoCycleAnnotated'
    OBVIOUS
  <2>1. CASE Annotate
    <3>1. /\ UNCHANGED <<deps, base>> /\ annotated' = annotated \union Top.pending
          /\ \A n \in Top.pending : Needs(n) \subseteq annotated
      BY <2>1, TopFacts DEF Annotate, constant
    <3> SUFFICES ASSUME NEW cycle \in SUBSET (Registered \ base),
                        \A n \in cycle : Needs(n) \intersect cycle # {}
                 PROVE  cycle \intersect annotated' = {}
      BY <3>1 DEF NoCycleAnnotated, Needs
    <3>2. cycle \intersect annotated = {}
      BY DEF NoCycleAnnotated
    <3>3. cycle \intersect Top.pending = {}
      BY <3>1, <3>2
    <3> QED
      BY <3>1, <3>2, <3>3
  <2>2. CASE UNCHANGED <<deps, base, annotated>>
    BY <2>2 DEF NoCycleAnnotated, Needs
  <2> QED
    BY <2>1, <2>2 DEF Next, Step, vars, constant, Request, Skip, Descend, Overflow
<1> QED
  BY <1>1, <1>2, Inductive, PTL DEF Spec

\* The frames under way are covered too by a set that covers what was asked for.
FramesCovered ==
  \A cover \in SUBSET Registered :
    /\ requested \intersect Registered \subseteq cover
    /\ \A n \in cover \ base : Needs(n) \subseteq cover
    => \A i \in 1 .. Len(stack) : stack[i].pending \subseteq cover

\* Only what the requested names lead to is ever annotated.
THEOREM OnlyWhatIsNeeded == Spec => []NothingElse
<1>1. Init => NothingElse /\ FramesCovered
  BY DEF Init, NothingElse, FramesCovered
<1>2. IInv /\ NothingElse /\ FramesCovered /\ [Next]_vars => (NothingElse /\ FramesCovered)'
  <2> SUFFICES ASSUME IInv, NothingElse, FramesCovered, [Next]_vars
               PROVE  NothingElse' /\ FramesCovered'
    OBVIOUS
  <2>1. UNCHANGED <<deps, base>> /\ requested \subseteq requested'
    BY DEF Next, Step, vars, constant, Request, Skip, Descend, Overflow, Annotate
  <2> SUFFICES ASSUME NEW cover \in SUBSET Registered,
                      requested' \intersect Registered \subseteq cover,
                      \A n \in cover \ base : Needs(n) \subseteq cover
               PROVE  /\ annotated' \subseteq base \union cover
                      /\ \A i \in 1 .. Len(stack') : stack'[i].pending \subseteq cover
    BY <2>1 DEF NothingElse, FramesCovered, Needs
  <2>2. /\ annotated \subseteq base \union cover
        /\ \A i \in 1 .. Len(stack) : stack[i].pending \subseteq cover
    BY <2>1 DEF NothingElse, FramesCovered
  <2>3. ASSUME NEW names \in SUBSET Names, Request(names)
        PROVE  /\ annotated' \subseteq base \union cover
               /\ \A i \in 1 .. Len(stack') : stack'[i].pending \subseteq cover
    <3>1. stack = <<>> /\ annotated' = annotated /\ names \subseteq requested'
      BY <2>3 DEF IInv, Busy, Request
    <3>2. Pending(names) \subseteq cover
      BY <3>1 DEF Pending
    <3>3. CASE stack' = stack
      BY <2>2, <3>1, <3>3
    <3>4. CASE stack' = <<NewFrame(names)>>
      BY <2>2, <3>1, <3>2, <3>4, NewFrameFacts
    <3> QED
      BY <2>3, <3>3, <3>4 DEF Request
  <2>4. ASSUME NEW n \in Registered, Running(n), stack' = Visited(n), UNCHANGED annotated
        PROVE  /\ annotated' \subseteq base \union cover
               /\ \A i \in 1 .. Len(stack') : stack'[i].pending \subseteq cover
    <3>1. stack # <<>> /\ stack \in Seq(Frame) /\ Len(stack) \in Nat \ {0}
      BY <2>4, TopFacts DEF IInv, TypeOK, Running
    <3>2. Len(stack') = Len(stack) /\ \A i \in 1 .. Len(stack) : stack'[i].pending = stack[i].pending
      BY <2>4, <3>1, VisitedFacts DEF Top
    <3> QED
      BY <2>2, <2>4, <3>2
  <2>5. ASSUME NEW n \in Registered, Descend(n)
        PROVE  /\ annotated' \subseteq base \union cover
               /\ \A i \in 1 .. Len(stack') : stack'[i].pending \subseteq cover
    <3>1. /\ stack # <<>> /\ stack \in Seq(Frame) /\ Len(stack) \in Nat \ {0}
          /\ n \in Top.pending /\ n \notin base
      BY <2>5, TopFacts DEF IInv, TypeOK, Descend, Running
    <3>2. /\ Visited(n) \in Seq(Frame) /\ Len(Visited(n)) = Len(stack)
          /\ \A i \in 1 .. Len(stack) : Visited(n)[i].pending = stack[i].pending
      BY <3>1, VisitedFacts DEF Top
    <3>3. /\ Len(stack') = Len(stack) + 1
          /\ \A i \in 1 .. Len(stack) : stack'[i].pending = stack[i].pending
          /\ stack'[Len(stack) + 1].pending = Pending(deps[n])
      BY <2>5, <3>2, NewFrameFacts, AppendProperties DEF Descend
    <3>4. n \in cover
      BY <2>2, <3>1 DEF Top
    <3>5. Pending(deps[n]) \subseteq cover
      BY <3>1, <3>4 DEF Pending, Needs
    <3>6. \A i \in 1 .. Len(stack') : i \in 1 .. Len(stack) \/ i = Len(stack) + 1
      BY <3>1, <3>3
    <3> QED
      BY <2>2, <2>5, <3>3, <3>5, <3>6 DEF Descend
  <2>6. CASE Annotate
    <3>1. /\ stack # <<>> /\ stack \in Seq(Frame) /\ Len(stack) \in 1 .. Len(stack)
      BY <2>6, TopFacts DEF IInv, TypeOK, Annotate
    <3>2. Top.pending \subseteq cover
      BY <2>2, <3>1 DEF Top
    <3>3. Len(stack') = Len(stack) - 1 /\ \A i \in 1 .. Len(stack) - 1 : stack'[i] = stack[i]
      BY <2>6, <3>1, ReturnFacts DEF Annotate
    <3> QED
      BY <2>2, <2>6, <3>2, <3>3 DEF Annotate
  <2>7. CASE UNCHANGED vars
    BY <2>2, <2>7 DEF vars
  <2> QED
    BY <2>3, <2>4, <2>5, <2>6, <2>7 DEF Next, Step, Skip, Overflow
<1> QED
  BY <1>1, <1>2, Inductive, PTL DEF Spec

=============================================================================
