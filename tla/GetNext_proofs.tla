--------------------------- MODULE GetNext_proofs ---------------------------
(***************************************************************************)
(* The scan of the taker, for every queue and every drive: it ends on the  *)
(* request that nextNodes describes, FSCAN turns at most once, and no      *)
(* write is passed by a later request of its sector.                       *)
(***************************************************************************)
EXTENDS GetNext, Scheduling_proofs

\* The loop invariant: the candidate beats every node before it and no node
\* that the cursor has passed beats the candidate.
LoopInv ==
    /\ prevCandidate < currNode
    /\ \A j \in 1 .. prevCandidate :
           near(queue[chosen], queue[j], headPosition, direction)
    /\ \A j \in prevCandidate + 2 .. currNode :
           ~ near(queue[j], queue[chosen], headPosition, direction)

\* What is left of the arguments at each call, and what the first call found.
CallInv ==
    /\ pc = "scan" => /\ direction = call.direction
                      /\ headPosition = call.position
                      /\ tracePosition = call.position
    /\ pc # "scan" => currNode = Len(queue) \/ pc = "rescan"
    /\ pc # "scan" =>
          getNext(queue, call.position, call.direction, call.position) =
              [direction |-> direction, trace |-> tracePosition,
               from |-> headPosition]

IInv == TypeOK /\ LoopInv /\ CallInv

\* A queue is a non-empty list of requests on the drive's sectors.
LEMMA QueueFacts ==
  ASSUME TypeOK
  PROVE  /\ Len(queue) \in Nat \ {0}
         /\ DOMAIN queue = 1 .. Len(queue)
         /\ \A i \in 1 .. Len(queue) : queue[i] \in Requests /\ queue[i].sector \in Nat
<1>1. queue \in Seq(Requests) /\ queue # <<>>
  BY QueuesAssumption DEF TypeOK
<1>2. \A r \in Requests : r.sector \in Nat
  BY GeometryAssumption DEF Requests, SectorNums
<1> QED
  BY <1>1, <1>2

LEMMA InitInv == Init => IInv
<1> SUFFICES ASSUME Init PROVE IInv
  OBVIOUS
<1>1. Positions \subseteq Nat
  BY QueuesAssumption, GeometryAssumption DEF SectorNums
<1>2. queue \in Seq(Requests) /\ queue # <<>>
  BY QueuesAssumption DEF Init
<1>3. TypeOK
  BY <1>1, <1>2 DEF Init, TypeOK
<1>4. LoopInv
  BY DEF Init, LoopInv
<1>5. CallInv
  BY DEF Init, CallInv
<1> QED
  BY <1>3, <1>4, <1>5 DEF IInv

LEMMA StepInv == IInv /\ [Next]_vars => IInv'
<1> SUFFICES ASSUME IInv, [Next]_vars PROVE IInv'
  OBVIOUS
<1> USE DEF IInv
<1>0. /\ Len(queue) \in Nat \ {0}
      /\ \A i \in 1 .. Len(queue) : queue[i] \in Requests /\ queue[i].sector \in Nat
  BY QueueFacts
<1>t. /\ headPosition \in Nat /\ tracePosition \in Nat
      /\ currNode \in 1 .. Len(queue) /\ prevCandidate \in 0 .. Len(queue) - 1
  BY DEF TypeOK
<1>1. CASE Scan
  <2>1. TypeOK'
    BY <1>1, <1>0, <1>t DEF Scan, TypeOK, LoopInv
  <2>2. CallInv'
    BY <1>1 DEF Scan, CallInv, TypeOK
  <2>3. CASE ~ near(queue[currNode + 1], queue[chosen], headPosition, direction)
    <3>1. prevCandidate' = prevCandidate
      BY <1>1, <2>3 DEF Scan, chosen
    <3> QED
      BY <1>1, <1>t, <2>1, <2>2, <2>3, <3>1 DEF Scan, LoopInv, chosen
  <2>4. CASE near(queue[currNode + 1], queue[chosen], headPosition, direction)
    <3>1. prevCandidate' = currNode /\ currNode' = currNode + 1
      BY <1>1, <2>4 DEF Scan, chosen
    <3>2. ASSUME NEW j \in 1 .. currNode
          PROVE  near(queue[currNode + 1], queue[j], headPosition, direction)
      <4>1. /\ queue[j].sector \in Nat
            /\ queue[currNode + 1].sector \in Nat
            /\ queue[chosen].sector \in Nat
        BY <1>0, <1>1, <1>t DEF Scan, chosen
      <4>2. CASE j \in 1 .. prevCandidate
        BY <1>t, <2>4, <4>1, <4>2, NearTransitive DEF LoopInv
      <4>3. CASE j = chosen
        BY <2>4, <4>3
      <4>4. CASE j \in prevCandidate + 2 .. currNode
        BY <1>t, <2>4, <4>1, <4>4, NearNegativelyTransitive DEF LoopInv
      <4> QED
        BY <1>t, <4>2, <4>3, <4>4 DEF chosen, LoopInv
    <3>3. LoopInv'
      BY <1>1, <1>t, <3>1, <3>2 DEF Scan, LoopInv, chosen
    <3> QED
      BY <2>1, <2>2, <3>3
  <2> QED
    BY <2>3, <2>4
<1>2. CASE Choose
  <2>1. ~ (direction # SSTF /\ nothingAhead(queue, headPosition, direction))
    <3>1. CASE prevCandidate # 0
      <4>1. near(queue[chosen], queue[1], headPosition, direction)
        BY <3>1, <1>t DEF LoopInv
      <4>2. condition(direction, queue[chosen], headPosition) /\ chosen \in DOMAIN queue
        BY <4>1, <1>t, QueueFacts DEF near, chosen
      <4> QED
        BY <4>2 DEF nothingAhead
    <3>2. CASE condition(direction, queue[1], headPosition)
      BY <3>2, QueueFacts DEF nothingAhead
    <3> QED
      BY <1>2, <3>1, <3>2 DEF Choose
  <2>2. TypeOK' /\ LoopInv'
    BY <1>2 DEF Choose, TypeOK, LoopInv, chosen
  <2>3. CallInv'
    BY <1>2, <2>1 DEF Choose, CallInv, getNext
  <2> QED
    BY <2>2, <2>3
<1>3. CASE Turn
  <2>1. nothingAhead(queue, headPosition, direction)
    <3>1. ASSUME NEW i \in 2 .. Len(queue)
          PROVE  ~ condition(direction, queue[i], headPosition)
      <4>1. ~ near(queue[i], queue[1], headPosition, direction)
        BY <1>3, <1>t DEF Turn, LoopInv, chosen
      <4> QED
        BY <4>1, <1>3 DEF near, Turn
    <3> QED
      BY <3>1, <1>3, QueueFacts DEF nothingAhead, Turn
  <2>2. moveToCylinder(sweepEnd(direction), tracePosition) \in Nat
    BY <1>t, MoveToCylinderType, SweepEndType
  <2>3. TypeOK'
    BY <1>3, <1>0, <2>2 DEF Turn, TypeOK, toggleDirection, Directions
  <2>4. LoopInv'
    BY <1>3, <1>t DEF Turn, LoopInv, chosen
  <2>5. CallInv'
    BY <1>3, <2>1 DEF Turn, CallInv, getNext
  <2> QED
    BY <2>3, <2>4, <2>5
<1>4. CASE Return
  BY <1>4 DEF Return, TypeOK, LoopInv, chosen, CallInv
<1>5. CASE UNCHANGED vars
  BY <1>5 DEF vars, TypeOK, LoopInv, chosen, CallInv
<1> QED
  BY <1>1, <1>2, <1>3, <1>4, <1>5 DEF Next

\* The variables of the choice keep their types: in particular the cursor and
\* prevCandidate never leave the list.
THEOREM TypeCorrect == Spec => []TypeOK
<1>1. IInv => TypeOK
  BY DEF IInv
<1> QED
  BY InitInv, StepInv, <1>1, PTL DEF Spec

THEOREM Invariance == Spec => []IInv
  BY InitInv, StepInv, PTL DEF Spec

\* The loop of TAKER_getNextNode, inside FSCAN_getNext or SSTF_getNext, ends
\* with the candidate, direction and trace position of the declarative model.
THEOREM ScanCorrect == Spec => []ScanFindsNext
<1>1. IInv => ScanFindsNext
  <2> SUFFICES ASSUME IInv, pc = "done"
               PROVE  /\ nextNodes(queue, headPosition, direction) = {chosen}
                      /\ getNext(queue, call.position, call.direction, call.position) =
                           [direction |-> direction, trace |-> tracePosition,
                            from |-> headPosition]
    BY DEF ScanFindsNext
  <2>1. /\ Len(queue) \in Nat \ {0} /\ DOMAIN queue = 1 .. Len(queue)
        /\ currNode = Len(queue) /\ prevCandidate \in 0 .. Len(queue) - 1
    BY QueueFacts DEF IInv, TypeOK, CallInv
  <2>2. chosen \in nextNodes(queue, headPosition, direction)
    BY <2>1 DEF IInv, LoopInv, nextNodes, chosen
  <2>3. nextNodes(queue, headPosition, direction) = {chosen}
    BY <2>1, <2>2, NextUnique
  <2> QED
    BY <2>3 DEF IInv, CallInv
<1> QED
  BY Invariance, <1>1, PTL

\* No request is taken past an earlier write of its sector.
THEOREM WritesNotOvertaken == Spec => []NoWriteOvertaken
<1>1. IInv /\ ScanFindsNext => NoWriteOvertaken
  <2> SUFFICES ASSUME IInv, ScanFindsNext, pc = "done", NEW j \in 1 .. chosen - 1
               PROVE  ~ (queue[j].type = WRITE /\ queue[j].sector = queue[chosen].sector)
    BY DEF NoWriteOvertaken
  <2>1. chosen \in nextNodes(queue, headPosition, direction)
    BY DEF ScanFindsNext
  <2>2. headPosition \in Nat
    BY DEF IInv, TypeOK
  <2> QED
    BY <2>1, <2>2, QueueFacts, NextPassesNoWrite DEF IInv
<1> QED
  BY Invariance, ScanCorrect, <1>1, PTL

-----------------------------------------------------------------------------
\* What the choice has seen when it is made or when it starts over: enough to
\* know that the chosen request lies ahead.
AheadInv ==
    /\ pc = "rescan" =>
          \A i \in DOMAIN queue : condition(direction, queue[i], headPosition)
    /\ pc = "done" => condition(direction, queue[chosen], headPosition)

\* After the seek to the end of the sweep every request lies ahead.
LEMMA AllAheadAfterTurn ==
  ASSUME Heads = 1, NEW d \in {UP, DOWN}, NEW t \in Nat, NEW r \in Requests
  PROVE  condition(toggleDirection(d), r, moveToCylinder(sweepEnd(d), t))
<1>1. turnToCHS(moveToCylinder(sweepEnd(d), t)).cylinder = sweepEnd(d)
  BY MoveReachesCylinder, SweepEndType
<1>2. cylinderOf(r) \in 0 .. Cylinder - 1
  BY CylinderBound DEF cylinderOf, Requests
<1> QED
  BY <1>1, <1>2, GeometryAssumption
     DEF condition, toggleDirection, sweepEnd, UP, DOWN

\* With one head, the drive of ppd.config, the single change of direction in
\* FSCAN_getNext is enough: the request taken lies ahead of the head.
THEOREM OneTurnSuffices == ASSUME Heads = 1 PROVE Spec => []ChosenLiesAhead
<1>1. Init => AheadInv
  BY DEF Init, AheadInv
<1>2. IInv /\ AheadInv /\ [Next]_vars => AheadInv'
  <2> SUFFICES ASSUME IInv, AheadInv, [Next]_vars PROVE AheadInv'
    OBVIOUS
  <2> USE DEF IInv
  <2>0. /\ Len(queue) \in Nat \ {0} /\ DOMAIN queue = 1 .. Len(queue)
        /\ \A i \in 1 .. Len(queue) : queue[i] \in Requests
    BY QueueFacts
  <2>t. /\ prevCandidate \in 0 .. Len(queue) - 1 /\ tracePosition \in Nat
        /\ direction \in Directions
    BY DEF TypeOK
  <2>1. CASE Scan
    BY <2>1 DEF Scan, AheadInv, chosen
  <2>2. CASE Choose
    <3>1. condition(direction, queue[chosen], headPosition)
      <4>1. CASE prevCandidate # 0
        <5>1. near(queue[chosen], queue[1], headPosition, direction)
          BY <4>1, <2>t DEF LoopInv
        <5> QED
          BY <5>1 DEF near
      <4>2. CASE prevCandidate = 0
        BY <4>2, <2>2 DEF Choose, chosen, condition, UP, DOWN, SSTF
      <4> QED
        BY <4>1, <4>2
    <3> QED
      BY <2>2, <3>1 DEF Choose, AheadInv, chosen
  <2>3. CASE Turn
    <3>1. direction \in {UP, DOWN}
      BY <2>3, <2>t DEF Turn, Directions
    <3>2. \A i \in DOMAIN queue : condition(direction', queue[i], headPosition')
      BY <2>0, <2>t, <2>3, <3>1, AllAheadAfterTurn DEF Turn
    <3> QED
      BY <2>3, <3>2 DEF Turn, AheadInv
  <2>4. CASE Return
    <3>1. chosen \in DOMAIN queue
      BY <2>0, <2>t DEF chosen
    <3> QED
      BY <2>4, <3>1 DEF Return, AheadInv, chosen
  <2>5. CASE UNCHANGED vars
    BY <2>5 DEF vars, AheadInv, chosen
  <2> QED
    BY <2>1, <2>2, <2>3, <2>4, <2>5 DEF Next
<1>3. AheadInv => ChosenLiesAhead
  BY DEF AheadInv, ChosenLiesAhead
<1> QED
  BY Invariance, <1>1, <1>2, <1>3, PTL DEF Spec
=============================================================================
