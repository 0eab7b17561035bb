----------------------------- MODULE PPD_proofs -----------------------------
(***************************************************************************)
(* The PPD process, for every drive, algorithm, set of clients, number of  *)
(* outstanding requests and initial value of queueAvailableMutex: its      *)
(* types, the accounting of its semaphores, that the taker never scans an  *)
(* empty list; with one head, that it implements DiskService and that what *)
(* it announces is what it serves next.                                    *)
(***************************************************************************)
EXTENDS PPD, Scheduling_proofs, SequenceTheorems

LEMMA TakeRequestType ==
  ASSUME NEW S, NEW q \in Seq(S), NEW i \in 1 .. Len(q)
  PROVE  /\ takeRequest(q, i) \in Seq(S)
         /\ Len(takeRequest(q, i)) = Len(q) - 1
<1> DEFINE n == Len(q) - 1
<1>1. n \in Nat /\ takeRequest(q, i) = [j \in 1 .. n |-> IF j < i THEN q[j] ELSE q[j + 1]]
  BY DEF takeRequest
<1>2. \A j \in 1 .. n : (IF j < i THEN q[j] ELSE q[j + 1]) \in S
  OBVIOUS
<1>3. takeRequest(q, i) \in [1 .. n -> S]
  BY <1>1, <1>2
<1> QED
  BY <1>1, <1>3

\* getNext keeps the direction a direction and the head on an address.
LEMMA GetNextType ==
  ASSUME NEW q, NEW p \in Nat, NEW d \in Directions, NEW t \in Nat
  PROVE  LET next == getNext(q, p, d, t)
         IN  /\ next.direction \in Directions
             /\ next.direction = SSTF <=> d = SSTF
             /\ next.trace \in Nat
             /\ next.from \in Nat
  BY MoveToCylinderType, SweepEndType
     DEF getNext, toggleDirection, Directions, UP, DOWN, SSTF

LEMMA NextNodesType ==
  ASSUME NEW S, NEW q \in Seq(S), NEW p, NEW d, NEW i \in nextNodes(q, p, d)
  PROVE  i \in 1 .. Len(q) /\ q[i] \in S /\ q # <<>>
  BY DEF nextNodes

LEMMA RequestFacts ==
  ASSUME NEW r \in Requests
  PROVE  /\ r # None
         /\ r.sector \in SectorNums /\ r.sector \in Nat
         /\ r.data \in Data /\ r.id \in Ids /\ r.sender \in Fds /\ r.type \in Types
  BY NoneAssumption, PPDAssumption, SectorNumsNat DEF Requests

-----------------------------------------------------------------------------
LEMMA InitInv == Init => IInv
<1> SUFFICES ASSUME Init PROVE IInv
  OBVIOUS
<1> USE DEF Init
<1>1. TypeOK
  BY PPDAssumption, GeometryAssumption
     DEF TypeOK, PCsOK, Directions, SectorNums, SSTF, UP, DOWN
<1>2. ElementCount
  BY DEF ElementCount, queued
<1>3. AvailableCount
  BY PPDAssumption DEF AvailableCount, inService, queued, takerServes
<1>4. QueueDiscipline
  BY PPDAssumption DEF QueueDiscipline, takerServes, SSTF, UP, DOWN
<1> QED
  BY <1>1, <1>2, <1>3, <1>4 DEF IInv

-----------------------------------------------------------------------------
(* The steps of the main thread.                                            *)

LEMMA ReceiveInfoInv ==
  ASSUME IInv, NEW c, ReceiveInfo(c)
  PROVE  IInv'
<1> USE DEF IInv, ReceiveInfo, mayReceive, takerVars, inHand, queueVars, semVars
<1>1. TypeOK'
  BY PPDAssumption DEF TypeOK, PCsOK
<1>2. ElementCount'
  BY DEF ElementCount, queued
<1>3. AvailableCount'
  BY DEF AvailableCount, inService, queued, takerServes
<1>4. QueueDiscipline'
  BY DEF QueueDiscipline, takerServes, activeQueue, activeIs1
<1> QED
  BY <1>1, <1>2, <1>3, <1>4

LEMMA ReceiveExitInv ==
  ASSUME IInv, ReceiveExit
  PROVE  IInv'
<1> USE DEF IInv, ReceiveExit, mayReceive, takerVars, inHand, queueVars, semVars, headVars
<1>1. TypeOK'
  BY PPDAssumption DEF TypeOK, PCsOK
<1>2. ElementCount'
  BY DEF ElementCount, queued
<1>3. AvailableCount'
  BY DEF AvailableCount, inService, queued, takerServes
<1>4. QueueDiscipline'
  BY DEF QueueDiscipline, takerServes, activeQueue, activeIs1
<1> QED
  BY <1>1, <1>2, <1>3, <1>4

LEMMA ReceiveRequestInv ==
  ASSUME IInv, NEW fd \in Fds, ReceiveRequest(fd)
  PROVE  IInv'
<1> USE DEF IInv, ReceiveRequest, mayReceive, takerVars, inHand, queueVars, semVars, headVars
<1>1. incoming' \in Requests /\ incoming' # None
  BY NoneAssumption DEF newRequests
<1>2. TypeOK'
  BY <1>1, PPDAssumption DEF TypeOK, PCsOK
<1>3. ElementCount'
  BY DEF ElementCount, queued
<1>4. AvailableCount'
  BY DEF AvailableCount, inService, queued, takerServes
<1>5. QueueDiscipline'
  BY <1>1 DEF QueueDiscipline, takerServes, activeQueue, activeIs1
<1> QED
  BY <1>2, <1>3, <1>4, <1>5

LEMMA WaitAvailableInv ==
  ASSUME IInv, WaitAvailable
  PROVE  IInv'
<1> USE DEF IInv, WaitAvailable, takerVars, inHand, queueVars, headVars
<1>1. TypeOK'
  BY DEF TypeOK, PCsOK
<1>2. ElementCount'
  BY DEF ElementCount, queued
<1>3. AvailableCount'
  BY DEF AvailableCount, inService, queued, takerServes, TypeOK
<1>4. QueueDiscipline'
  BY DEF QueueDiscipline, takerServes, activeQueue, activeIs1
<1> QED
  BY <1>1, <1>2, <1>3, <1>4

LEMMA LockQueuesInv ==
  ASSUME IInv, LockQueues
  PROVE  IInv'
<1> USE DEF IInv, LockQueues, takerVars, inHand, queueVars, headVars
<1>1. TypeOK'
  BY DEF TypeOK, PCsOK
<1>2. ElementCount'
  BY DEF ElementCount, queued
<1>3. AvailableCount'
  BY DEF AvailableCount, inService, queued, takerServes
<1>4. QueueDiscipline'
  BY DEF QueueDiscipline, takerServes, activeQueue, activeIs1
<1> QED
  BY <1>1, <1>2, <1>3, <1>4

\* The append: one more node in the queue the taker does not scan (FSCAN).
LEMMA AppendRequestInv ==
  ASSUME IInv, AppendRequest
  PROVE  IInv'
<1> USE DEF IInv
<1>0. /\ mainPC = "append" /\ mainPC' = "post" /\ incoming' = None
      /\ UNCHANGED <<currFD, Exit, takerPC, request, answer, announced, qflag,
                     direction, HeadPosition, TracePosition, queueElemSem,
                     queueMutex, queueAvailable, disk>>
  BY DEF AppendRequest, takerVars, inHand, headVars, semVars
<1>1. incoming \in Requests
  BY <1>0 DEF TypeOK, QueueDiscipline
<1>2. /\ queue1' \in Seq(Requests) /\ queue2' \in Seq(Requests)
      /\ Len(queue1') + Len(queue2') = Len(queue1) + Len(queue2) + 1
  <2>1. queue1 \in Seq(Requests) /\ queue2 \in Seq(Requests)
    BY DEF TypeOK
  <2>2. CASE queue1' = Append(queue1, incoming) /\ queue2' = queue2
    BY <1>1, <2>1, <2>2
  <2>3. CASE queue2' = Append(queue2, incoming) /\ queue1' = queue1
    BY <1>1, <2>1, <2>3
  <2> QED
    BY <2>2, <2>3 DEF AppendRequest
<1>3. queued \in Nat /\ queued' = queued + 1
  <2>1. queue1 \in Seq(Requests) /\ queue2 \in Seq(Requests)
    BY DEF TypeOK
  <2> QED
    BY <1>2, <2>1 DEF queued
<1> HIDE DEF queued
<1>4. TypeOK'
  BY <1>0, <1>2 DEF TypeOK, PCsOK
<1>5. ElementCount'
  BY <1>0, <1>3 DEF ElementCount, TypeOK
<1>6. AvailableCount'
  BY <1>0, <1>3 DEF AvailableCount, inService, takerServes, TypeOK
<1>7. QueueDiscipline'
  <2>1. qflag # SSTF => activeQueue' = activeQueue
    BY DEF activeQueue, activeIs1, passiveIs1, TypeOK, AppendRequest
  <2>2. qflag = SSTF => queue2' = queue2
    BY DEF passiveIs1, AppendRequest
  <2> QED
    BY <1>0, <2>1, <2>2 DEF QueueDiscipline, takerServes
<1> QED
  BY <1>4, <1>5, <1>6, <1>7

LEMMA PostElementInv ==
  ASSUME IInv, PostElement
  PROVE  IInv'
<1> USE DEF IInv, PostElement, takerVars, inHand, queueVars, headVars
<1>1. TypeOK'
  BY DEF TypeOK, PCsOK
<1>2. ElementCount'
  BY DEF ElementCount, queued, TypeOK
<1>3. AvailableCount'
  BY DEF AvailableCount, inService, queued, takerServes
<1>4. QueueDiscipline'
  BY DEF QueueDiscipline, takerServes, activeQueue, activeIs1, TypeOK
<1> QED
  BY <1>1, <1>2, <1>3, <1>4

LEMMA UnlockQueuesInv ==
  ASSUME IInv, UnlockQueues
  PROVE  IInv'
<1> USE DEF IInv, UnlockQueues, takerVars, inHand, queueVars, headVars
<1>1. TypeOK'
  BY DEF TypeOK, PCsOK
<1>2. ElementCount'
  BY DEF ElementCount, queued
<1>3. AvailableCount'
  BY DEF AvailableCount, inService, queued, takerServes
<1>4. QueueDiscipline'
  BY DEF QueueDiscipline, takerServes, activeQueue, activeIs1
<1> QED
  BY <1>1, <1>2, <1>3, <1>4

LEMMA EndInv ==
  ASSUME IInv, EndRound \/ Shutdown
  PROVE  IInv'
<1> USE DEF IInv, EndRound, Shutdown, takerVars, inHand, queueVars, headVars, semVars
<1>1. TypeOK'
  BY DEF TypeOK, PCsOK
<1>2. ElementCount'
  BY DEF ElementCount, queued
<1>3. AvailableCount'
  BY DEF AvailableCount, inService, queued, takerServes
<1>4. QueueDiscipline'
  BY DEF QueueDiscipline, takerServes, activeQueue, activeIs1
<1> QED
  BY <1>1, <1>2, <1>3, <1>4

-----------------------------------------------------------------------------
(* The steps of the taker.                                                  *)

LEMMA TakerLoopInv ==
  ASSUME IInv, TakerLoop
  PROVE  IInv'
<1> USE DEF IInv, TakerLoop, mainVars, inHand, queueVars, headVars, semVars
<1>1. TypeOK'
  BY DEF TypeOK, PCsOK
<1>2. ElementCount'
  BY DEF ElementCount, queued, TypeOK
<1>3. AvailableCount'
  BY DEF AvailableCount, inService, queued, takerServes, TypeOK
<1>4. QueueDiscipline'
  BY DEF QueueDiscipline, takerServes, activeQueue, activeIs1, TypeOK
<1> QED
  BY <1>1, <1>2, <1>3, <1>4

LEMMA TakerWaitInv ==
  ASSUME IInv, TakerWait
  PROVE  IInv'
<1> USE DEF IInv, TakerWait, mainVars, inHand, queueVars, headVars, semVars
<1>1. TypeOK'
  BY DEF TypeOK, PCsOK
<1>2. ElementCount'
  BY DEF ElementCount, queued, TypeOK
<1>3. AvailableCount'
  BY DEF AvailableCount, inService, queued, takerServes, TypeOK
<1>4. QueueDiscipline'
  BY DEF QueueDiscipline, takerServes, activeQueue, activeIs1, TypeOK
<1> QED
  BY <1>1, <1>2, <1>3, <1>4

\* While the taker holds a token, or queueElemSem promises one, some queue
\* has a node: the count is what the unlocked tests of begin rely on.
LEMMA SomethingQueued ==
  ASSUME IInv,
         takerPC \in {"select", "toggle", "take", "lookSelect", "lookToggle",
                      "lookahead"}
  PROVE  queue1 # <<>> \/ queue2 # <<>>
<1>1. queue1 \in Seq(Requests) /\ queue2 \in Seq(Requests) /\ queueElemSem \in Nat
  BY DEF IInv, TypeOK
<1>2. Len(queue1) + Len(queue2) >= 1
  BY <1>1 DEF IInv, ElementCount, QueueDiscipline, queued
<1> QED
  BY <1>1, <1>2

\* Hence the queue that QMANAGER_toggleQFlag turns to is not empty.
LEMMA ToggleInv ==
  ASSUME IInv, NEW from, NEW to, ToggleQFlag(from, to),
         \/ from = "toggle" /\ to = "take"
         \/ from = "lookToggle" /\ to = "lookahead"
  PROVE  IInv'
<1> USE DEF IInv
<1>0. /\ takerPC = from /\ takerPC' = to
      /\ UNCHANGED <<mainPC, currFD, Exit, incoming, request, answer, announced,
                     queue1, queue2, direction, HeadPosition, TracePosition,
                     queueElemSem, queueMutex, queueAvailable, disk>>
  BY DEF ToggleQFlag, mainVars, inHand, headVars, semVars
<1>1. qflag # SSTF /\ activeQueue = <<>>
  BY <1>0 DEF QueueDiscipline
<1>2. /\ qflag' \in {"QUEUE1_ACTIVE", "QUEUE2_ACTIVE"} /\ qflag' # SSTF
      /\ activeQueue' # <<>>
  BY <1>0, <1>1, SomethingQueued
     DEF ToggleQFlag, activeQueue, activeIs1, TypeOK, SSTF
<1>3. TypeOK'
  BY <1>0, <1>2 DEF TypeOK, PCsOK
<1>4. ElementCount'
  BY <1>0 DEF ElementCount, queued
<1>5. AvailableCount'
  BY <1>0 DEF AvailableCount, inService, queued, takerServes
<1>6. QueueDiscipline'
  BY <1>0, <1>1, <1>2 DEF QueueDiscipline, takerServes
<1> QED
  BY <1>3, <1>4, <1>5, <1>6

LEMMA TakerLogInv ==
  ASSUME IInv, TakerLog
  PROVE  IInv'
<1> USE DEF IInv, TakerLog, mainVars, inHand, queueVars, headVars, semVars
<1>1. TypeOK'
  BY DEF TypeOK, PCsOK
<1>2. ElementCount'
  BY DEF ElementCount, queued, TypeOK
<1>3. AvailableCount'
  BY DEF AvailableCount, inService, queued, takerServes, TypeOK
<1>4. QueueDiscipline'
  BY DEF QueueDiscipline, takerServes, activeQueue, activeIs1, TypeOK
<1> QED
  BY <1>1, <1>2, <1>3, <1>4

LEMMA TakerSendInv ==
  ASSUME IInv, TakerSend
  PROVE  IInv'
<1> USE DEF IInv, TakerSend, mainVars, inHand, queueVars, headVars, semVars
<1>1. TypeOK'
  BY DEF TypeOK, PCsOK
<1>2. ElementCount'
  BY DEF ElementCount, queued, TypeOK
<1>3. AvailableCount'
  BY DEF AvailableCount, inService, queued, takerServes, TypeOK
<1>4. QueueDiscipline'
  BY DEF QueueDiscipline, takerServes, activeQueue, activeIs1, TypeOK
<1> QED
  BY <1>1, <1>2, <1>3, <1>4

LEMMA TakerPostInv ==
  ASSUME IInv, TakerPost
  PROVE  IInv'
<1> USE DEF IInv, TakerPost, mainVars, inHand, queueVars, headVars, semVars
<1>1. TypeOK'
  BY DEF TypeOK, PCsOK
<1>2. ElementCount'
  BY DEF ElementCount, queued, TypeOK
<1>3. AvailableCount'
  BY DEF AvailableCount, inService, queued, takerServes, TypeOK
<1>4. QueueDiscipline'
  BY DEF QueueDiscipline, takerServes, activeQueue, activeIs1, TypeOK
<1> QED
  BY <1>1, <1>2, <1>3, <1>4

LEMMA TakerSelectInv ==
  ASSUME IInv, TakerSelect
  PROVE  IInv'
<1> USE DEF IInv, TakerSelect, mainVars, inHand, queueVars, headVars, semVars, SelectActive
<1>1. TypeOK'
  BY DEF TypeOK, PCsOK
<1>2. ElementCount'
  BY DEF ElementCount, queued, TypeOK
<1>3. AvailableCount'
  BY DEF AvailableCount, inService, queued, takerServes, TypeOK
<1>4. QueueDiscipline'
  BY DEF QueueDiscipline, takerServes, activeQueue, activeIs1, TypeOK
<1> QED
  BY <1>1, <1>2, <1>3, <1>4

LEMMA LookSelectInv ==
  ASSUME IInv, LookSelect
  PROVE  IInv'
<1> USE DEF IInv, LookSelect, mainVars, inHand, queueVars, headVars, semVars, SelectActive
<1>1. TypeOK'
  BY DEF TypeOK, PCsOK
<1>2. ElementCount'
  BY DEF ElementCount, queued, TypeOK
<1>3. AvailableCount'
  BY DEF AvailableCount, inService, queued, takerServes, TypeOK
<1>4. QueueDiscipline'
  BY DEF QueueDiscipline, takerServes, activeQueue, activeIs1, TypeOK
<1> QED
  BY <1>1, <1>2, <1>3, <1>4

\* The take: the token the taker holds pays for the node it removes.
LEMMA TakerTakeInv ==
  ASSUME IInv, TakerTake
  PROVE  IInv'
<1> USE DEF IInv
<1>0. /\ takerPC = "take" /\ takerPC' = "handle" /\ announced' = None
      /\ UNCHANGED <<mainPC, currFD, Exit, incoming, answer, qflag, HeadPosition,
                     queueElemSem, queueMutex, queueAvailable, disk>>
  BY DEF TakerTake, mainVars, semVars
<1> DEFINE next == getNext(activeQueue, HeadPosition, direction, TracePosition)
<1>1. /\ direction' = next.direction /\ TracePosition' = next.trace
  BY DEF TakerTake
<1>2. PICK i \in nextNodes(activeQueue, next.from, next.direction) :
          /\ request' = activeQueue[i]
          /\ IF activeIs1
             THEN queue1' = takeRequest(queue1, i) /\ UNCHANGED queue2
             ELSE queue2' = takeRequest(queue2, i) /\ UNCHANGED queue1
  BY DEF TakerTake
<1>3. /\ direction' \in Directions /\ TracePosition' \in Nat
      /\ direction' = SSTF <=> direction = SSTF
  <2>1. HeadPosition \in Nat /\ TracePosition \in Nat /\ direction \in Directions
    BY DEF TypeOK
  <2> QED
    BY <1>1, <2>1, GetNextType
<1>4. queue1 \in Seq(Requests) /\ queue2 \in Seq(Requests) /\ activeQueue \in Seq(Requests)
  BY DEF TypeOK, activeQueue
<1>5. i \in 1 .. Len(activeQueue) /\ request' \in Requests /\ request' # None
  BY <1>2, <1>4, NextNodesType, NoneAssumption
<1>6. /\ queue1' \in Seq(Requests) /\ queue2' \in Seq(Requests)
      /\ Len(queue1') + Len(queue2') = Len(queue1) + Len(queue2) - 1
  <2>1. CASE activeIs1
    <3>1. /\ queue1' \in Seq(Requests) /\ Len(queue1') = Len(queue1) - 1
          /\ queue2' = queue2
      BY <1>2, <1>4, <1>5, <2>1, TakeRequestType DEF activeQueue
    <3> QED
      BY <1>4, <3>1
  <2>2. CASE ~ activeIs1
    <3>1. /\ queue2' \in Seq(Requests) /\ Len(queue2') = Len(queue2) - 1
          /\ queue1' = queue1
      BY <1>2, <1>4, <1>5, <2>2, TakeRequestType DEF activeQueue
    <3> QED
      BY <1>4, <3>1
  <2> QED
    BY <2>1, <2>2
<1>7. queued \in Nat /\ queued' = queued - 1
  BY <1>4, <1>6 DEF queued
<1> HIDE DEF next
<1>8. TypeOK'
  BY <1>0, <1>3, <1>5, <1>6 DEF TypeOK, PCsOK
<1>9. ElementCount'
  BY <1>0, <1>7 DEF ElementCount, TypeOK
<1>10. AvailableCount'
  BY <1>0, <1>7 DEF AvailableCount, inService, takerServes, TypeOK
<1>11. QueueDiscipline'
  <2>1. qflag = SSTF => queue2' = queue2
    BY <1>2 DEF activeIs1, SSTF
  <2> QED
    BY <1>0, <1>3, <1>5, <2>1 DEF QueueDiscipline, takerServes
<1> QED
  BY <1>8, <1>9, <1>10, <1>11

LEMMA TakerHandleInv ==
  ASSUME IInv, TakerHandle
  PROVE  IInv'
<1> USE DEF IInv
<1>0. /\ takerPC = "handle" /\ takerPC' \in {"log", "head"}
      /\ UNCHANGED <<mainPC, currFD, Exit, incoming, request, announced, queue1,
                     queue2, qflag, direction, HeadPosition, TracePosition,
                     queueElemSem, queueMutex, queueAvailable>>
  BY DEF TakerHandle, mainVars, queueVars, headVars, semVars
<1>1. request \in Requests
  BY <1>0 DEF TypeOK, QueueDiscipline, takerServes
<1> DEFINE s == addressed(request.sector)
<1>2. s \in SectorNums /\ request.data \in Data
  BY <1>1, RequestFacts, AddressedType
<1> DEFINE d == IF request.type = READ THEN disk[s] ELSE request.data
<1>3. d \in Data
  BY <1>2 DEF TypeOK
<1>4. /\ answer' = [id |-> request.id, sender |-> request.sender,
                    type |-> request.type, sector |-> s, data |-> d]
  BY DEF TakerHandle
<1>5. answer' \in Answers /\ answer' # None
  BY <1>1, <1>2, <1>3, <1>4, RequestFacts, NoneAssumption DEF Answers
<1>6. disk' \in [SectorNums -> Data]
  BY <1>2 DEF TypeOK, TakerHandle
<1> HIDE DEF s, d
<1>7. TypeOK'
  BY <1>0, <1>5, <1>6 DEF TypeOK, PCsOK
<1>8. ElementCount'
  BY <1>0 DEF ElementCount, queued
<1>9. AvailableCount'
  BY <1>0 DEF AvailableCount, inService, queued, takerServes
<1>10. QueueDiscipline'
  BY <1>0, <1>5 DEF QueueDiscipline, takerServes, activeQueue, activeIs1
<1> QED
  BY <1>7, <1>8, <1>9, <1>10

LEMMA LookAheadInv ==
  ASSUME IInv, LookAhead
  PROVE  IInv'
<1> USE DEF IInv
<1>0. /\ takerPC = "lookahead" /\ takerPC' = "head"
      /\ UNCHANGED <<mainPC, currFD, Exit, incoming, request, answer, queue1,
                     queue2, qflag, direction, HeadPosition, queueElemSem,
                     queueMutex, queueAvailable, disk>>
  BY DEF LookAhead, mainVars, queueVars, semVars
<1>1. request \in Requests
  BY <1>0 DEF TypeOK, QueueDiscipline, takerServes
<1> DEFINE from == addressed(request.sector) + 1
           next == getNext(activeQueue, from, direction, TracePosition)
<1>2. from \in Nat
  <2>1. addressed(request.sector) \in SectorNums
    BY <1>1, RequestFacts, AddressedType
  <2>2. addressed(request.sector) \in Nat
    BY <2>1, SectorNumsNat
  <2> QED
    BY <2>2
<1>3. next.trace \in Nat
  <2>1. direction \in Directions /\ TracePosition \in Nat
    BY DEF TypeOK
  <2> HIDE DEF from
  <2> QED
    BY <1>2, <2>1, GetNextType
<1>4. TracePosition' = next.trace
  BY DEF LookAhead
<1>5. announced' \in Requests
  <2>1. PICK i \in nextNodes(activeQueue, next.from, next.direction) :
            announced' = activeQueue[i]
    BY DEF LookAhead
  <2>2. activeQueue \in Seq(Requests)
    BY DEF TypeOK, activeQueue
  <2> HIDE DEF next
  <2> QED
    BY <2>1, <2>2, NextNodesType
<1> HIDE DEF next
<1>6. TypeOK'
  BY <1>0, <1>3, <1>4, <1>5 DEF TypeOK, PCsOK
<1>7. ElementCount'
  BY <1>0 DEF ElementCount, queued
<1>8. AvailableCount'
  BY <1>0 DEF AvailableCount, inService, queued, takerServes
<1>9. QueueDiscipline'
  BY <1>0 DEF QueueDiscipline, takerServes, activeQueue, activeIs1
<1> QED
  BY <1>6, <1>7, <1>8, <1>9

LEMMA TakerHeadInv ==
  ASSUME IInv, TakerHead
  PROVE  IInv'
<1> USE DEF IInv
<1>0. /\ takerPC = "head" /\ takerPC' = "send"
      /\ UNCHANGED <<mainPC, currFD, Exit, incoming, request, answer, announced,
                     queue1, queue2, qflag, direction, TracePosition,
                     queueElemSem, queueMutex, queueAvailable, disk>>
  BY DEF TakerHead, mainVars, inHand, queueVars, semVars
<1>1. request \in Requests
  BY <1>0 DEF TypeOK, QueueDiscipline, takerServes
<1>2. HeadPosition' \in Nat
  BY <1>1, RequestFacts, AddressedType, SectorNumsNat, UpdateHPosType DEF TakerHead
<1>3. TypeOK'
  BY <1>0, <1>2 DEF TypeOK, PCsOK
<1>4. ElementCount'
  BY <1>0 DEF ElementCount, queued
<1>5. AvailableCount'
  BY <1>0 DEF AvailableCount, inService, queued, takerServes
<1>6. QueueDiscipline'
  BY <1>0 DEF QueueDiscipline, takerServes, activeQueue, activeIs1
<1> QED
  BY <1>3, <1>4, <1>5, <1>6

-----------------------------------------------------------------------------
LEMMA StepInv == IInv /\ [Next]_vars => IInv'
<1> SUFFICES ASSUME IInv, [Next]_vars PROVE IInv'
  OBVIOUS
<1>1. CASE MainNext
  BY <1>1, ReceiveInfoInv, ReceiveExitInv, ReceiveRequestInv, WaitAvailableInv,
     LockQueuesInv, AppendRequestInv, PostElementInv, UnlockQueuesInv, EndInv
     DEF MainNext
<1>2. CASE TakerNext
  <2>1. CASE TakerToggle
    BY <2>1, ToggleInv DEF TakerToggle
  <2>2. CASE LookToggle
    BY <2>2, ToggleInv DEF LookToggle
  <2> QED
    BY <1>2, <2>1, <2>2, TakerLoopInv, TakerWaitInv, TakerSelectInv, TakerTakeInv,
       TakerHandleInv, TakerLogInv, LookSelectInv, LookAheadInv, TakerHeadInv,
       TakerSendInv, TakerPostInv
       DEF TakerNext
<1>3. CASE UNCHANGED vars
  <2>1. UNCHANGED <<mainPC, currFD, Exit, incoming, takerPC, request, answer,
                    announced, queue1, queue2, qflag, direction, HeadPosition,
                    TracePosition, queueElemSem, queueMutex, queueAvailable, disk>>
    BY <1>3 DEF vars, mainVars, takerVars, inHand, queueVars, headVars, semVars
  <2> QED
    BY <2>1 DEF IInv, TypeOK, PCsOK, ElementCount, AvailableCount, QueueDiscipline,
                inService, queued, takerServes, activeQueue, activeIs1
<1> QED
  BY <1>1, <1>2, <1>3 DEF Next

THEOREM Invariance == Spec => []IInv
  BY InitInv, StepInv, PTL DEF Spec

\* Every variable keeps its type; in particular the sectors the taker reads
\* and writes lie inside the mapped file.
THEOREM TypeCorrect == Spec => []TypeOK
<1>1. IInv => TypeOK
  BY DEF IInv
<1> QED
  BY Invariance, <1>1, PTL

\* The taker never dereferences the begin of an empty list, with or without
\* the look-ahead, in FSCAN as in SSTF.
THEOREM NoEmptyScan == Spec => []ScannedQueueNotEmpty
<1>1. IInv => ScannedQueueNotEmpty
  <2> SUFFICES ASSUME IInv, takerPC \in {"take", "lookahead"}
               PROVE  activeQueue # <<>>
    BY DEF ScannedQueueNotEmpty
  <2>1. CASE qflag = SSTF
    BY <2>1, SomethingQueued DEF IInv, QueueDiscipline, activeQueue, activeIs1, SSTF
  <2>2. CASE qflag # SSTF
    BY <2>2 DEF IInv, QueueDiscipline
  <2> QED
    BY <2>1, <2>2
<1> QED
  BY Invariance, <1>1, PTL

\* queueElemSem counts the queued nodes, at every point between append and post
\* (ppd_comm.c:86-88) as between wait and removal.
THEOREM ElementsCounted == Spec => []ElementCount
<1>1. IInv => ElementCount
  BY DEF IInv
<1> QED
  BY Invariance, <1>1, PTL

\* queueAvailableMutex counts the free slots: none leaks, and the process never
\* holds more than QueueAvailable requests.
THEOREM SlotsCounted == Spec => []AvailableCount
<1>1. IInv => AvailableCount
  BY DEF IInv
<1> QED
  BY Invariance, <1>1, PTL

\* What makes the unlocked reads of the two lists safe (ppd_qManager.c:54): the
\* flag is about to be switched only when the served list is empty, and that list
\* stays as the taker saw it until the taker scans it.
THEOREM QueuesDisciplined == Spec => []QueueDiscipline
<1>1. IInv => QueueDiscipline
  BY DEF IInv
<1> QED
  BY Invariance, <1>1, PTL

-----------------------------------------------------------------------------
(***************************************************************************)
(* With one head the PPD process is a DiskService: whatever the two        *)
(* threads, the two queues, the semaphores and the sweep do, what clients  *)
(* see is a disk that performs each request once and never takes one past  *)
(* an earlier write of its sector.  (With more heads it is not: see        *)
(* AnswerNamesSector.)                                                     *)
(***************************************************************************)

\* Taking a node of the first of two queues takes it of their concatenation.
LEMMA TakeOfConcat ==
  ASSUME NEW S, NEW q \in Seq(S), NEW r \in Seq(S), NEW i \in 1 .. Len(q)
  PROVE  /\ i \in DOMAIN (q \o r)
         /\ \A j \in 1 .. i : (q \o r)[j] = q[j]
         /\ takeRequest(q, i) \o r = takeRequest(q \o r, i)
<1> DEFINE c == q \o r
           t == takeRequest(q, i)
           left == t \o r
           right == takeRequest(c, i)
           n == Len(q) - 1 + Len(r)
<1>1. /\ c \in Seq(S) /\ Len(c) = Len(q) + Len(r)
      /\ \A k \in 1 .. Len(q) + Len(r) :
            c[k] = IF k <= Len(q) THEN q[k] ELSE r[k - Len(q)]
  BY ConcatProperties
<1>2. /\ t \in Seq(S) /\ Len(t) = Len(q) - 1
      /\ \A k \in 1 .. Len(q) - 1 : t[k] = IF k < i THEN q[k] ELSE q[k + 1]
  BY TakeRequestType DEF takeRequest
<1> HIDE DEF t
<1>3. /\ left \in Seq(S) /\ Len(left) = Len(t) + Len(r)
      /\ \A k \in 1 .. Len(t) + Len(r) :
            left[k] = IF k <= Len(t) THEN t[k] ELSE r[k - Len(t)]
  BY <1>2, ConcatProperties
<1> HIDE DEF c, left
<1>4. i \in 1 .. Len(c) /\ Len(c) - 1 = n /\ DOMAIN c = 1 .. Len(c)
  BY <1>1
<1>5. /\ right \in Seq(S) /\ Len(right) = Len(c) - 1
      /\ \A k \in 1 .. Len(c) - 1 : right[k] = IF k < i THEN c[k] ELSE c[k + 1]
  BY <1>1, <1>4, TakeRequestType DEF takeRequest
<1> HIDE DEF right
<1>6. Len(left) = n /\ Len(right) = n
  BY <1>2, <1>3, <1>4, <1>5
<1>7. \A k \in 1 .. n : left[k] = right[k]
  <2> SUFFICES ASSUME NEW k \in 1 .. n PROVE left[k] = right[k]
    OBVIOUS
  <2>1. left[k] = IF k <= Len(q) - 1 THEN t[k] ELSE r[k - (Len(q) - 1)]
    BY <1>2, <1>3
  <2>2. right[k] = IF k < i THEN c[k] ELSE c[k + 1]
    BY <1>4, <1>5
  <2>3. CASE k <= Len(q) - 1
    <3>1. left[k] = IF k < i THEN q[k] ELSE q[k + 1]
      BY <1>2, <2>1, <2>3
    <3>2. c[k] = q[k] /\ c[k + 1] = q[k + 1]
      BY <1>1, <2>3
    <3> QED
      BY <2>2, <3>1, <3>2
  <2>4. CASE k > Len(q) - 1
    <3>1. k + 1 - Len(q) = k - (Len(q) - 1) /\ ~ (k < i)
      BY <2>4
    <3>2. c[k + 1] = r[k + 1 - Len(q)]
      BY <1>1, <2>4
    <3> QED
      BY <2>1, <2>2, <2>4, <3>1, <3>2
  <2> QED
    BY <2>3, <2>4
<1>8. left = right
  <2> HIDE DEF n
  <2> QED
    BY <1>3, <1>5, <1>6, <1>7, SeqEqual
<1>9. \A j \in 1 .. i : c[j] = q[j]
  BY <1>1
<1> QED
  BY <1>4, <1>8, <1>9 DEF c, t, left, right

\* An append to the second of two queues is one to their concatenation.
LEMMA AppendOfConcat ==
  ASSUME NEW S, NEW q \in Seq(S), NEW r \in Seq(S), NEW x \in S
  PROVE  q \o Append(r, x) = Append(q \o r, x)
<1> DEFINE c == q \o r
           d == Append(r, x)
           left == q \o d
           right == Append(c, x)
           n == Len(q) + Len(r) + 1
<1>1. /\ d \in Seq(S) /\ Len(d) = Len(r) + 1
      /\ \A k \in 1 .. Len(r) + 1 : d[k] = IF k <= Len(r) THEN r[k] ELSE x
  OBVIOUS
<1>2. /\ c \in Seq(S) /\ Len(c) = Len(q) + Len(r)
      /\ \A k \in 1 .. Len(q) + Len(r) :
            c[k] = IF k <= Len(q) THEN q[k] ELSE r[k - Len(q)]
  BY ConcatProperties
<1> HIDE DEF c, d
<1>3. /\ right \in Seq(S) /\ Len(right) = Len(c) + 1
      /\ \A k \in 1 .. Len(c) + 1 : right[k] = IF k <= Len(c) THEN c[k] ELSE x
  BY <1>2
<1>4. /\ left \in Seq(S) /\ Len(left) = Len(q) + Len(d)
      /\ \A k \in 1 .. Len(q) + Len(d) :
            left[k] = IF k <= Len(q) THEN q[k] ELSE d[k - Len(q)]
  <2>1. d \in Seq(S) /\ q \in Seq(S)
    BY <1>1
  <2>2. /\ q \o d \in Seq(S) /\ Len(q \o d) = Len(q) + Len(d)
        /\ \A k \in 1 .. Len(q) + Len(d) :
              (q \o d)[k] = IF k <= Len(q) THEN q[k] ELSE d[k - Len(q)]
    BY ONLY <2>1, ConcatProperties
  <2> QED
    BY <2>2
<1> HIDE DEF left, right
<1>5. Len(left) = n /\ Len(right) = n
  BY <1>1, <1>2, <1>3, <1>4
<1>6. \A k \in 1 .. n : left[k] = right[k]
  <2> SUFFICES ASSUME NEW k \in 1 .. n PROVE left[k] = right[k]
    OBVIOUS
  <2>1. left[k] = IF k <= Len(q) THEN q[k] ELSE d[k - Len(q)]
    BY <1>1, <1>4
  <2>2. right[k] = IF k <= Len(q) + Len(r) THEN c[k] ELSE x
    BY <1>2, <1>3
  <2>3. CASE k <= Len(q)
    BY <1>2, <2>1, <2>2, <2>3
  <2>4. CASE k > Len(q)
    <3>1. k - Len(q) \in 1 .. Len(r) + 1
      BY <2>4
    <3>2. d[k - Len(q)] = IF k - Len(q) <= Len(r) THEN r[k - Len(q)] ELSE x
      BY <1>1, <3>1
    <3> QED
      BY <1>2, <2>1, <2>2, <2>4, <3>2
  <2> QED
    BY <2>3, <2>4
<1>7. left = right
  <2> HIDE DEF n
  <2> QED
    BY <1>3, <1>4, <1>5, <1>6, SeqEqual
<1> QED
  BY <1>7 DEF c, d, left, right

-----------------------------------------------------------------------------
LEMMA QueuesType ==
  ASSUME IInv
  PROVE  /\ queue1 \in Seq(Requests) /\ queue2 \in Seq(Requests)
         /\ activeQueue \in Seq(Requests)
         /\ pendingBar \in Seq(Requests)
<1>1. queue1 \in Seq(Requests) /\ queue2 \in Seq(Requests)
  BY DEF IInv, TypeOK
<1> QED
  BY <1>1, ConcatProperties DEF activeQueue, pendingBar

\* Most steps move nothing the clients can tell.
LEMMA Stutters ==
  ASSUME UNCHANGED <<queue1, queue2, qflag, request, answer, disk>>,
         takerPC = "handle" <=> takerPC' = "handle"
  PROVE  UNCHANGED Service!vars
  BY DEF Service!vars, pendingBar, diskBar, answersBar, activeIs1, taken

\* Turning to the other queue when the active one is empty keeps the order.
LEMMA ToggleStutters ==
  ASSUME IInv, NEW from, NEW to, ToggleQFlag(from, to),
         \/ from = "toggle" /\ to = "take"
         \/ from = "lookToggle" /\ to = "lookahead"
  PROVE  UNCHANGED Service!vars
<1>1. /\ takerPC = from /\ takerPC' = to
      /\ UNCHANGED <<request, answer, queue1, queue2, disk>>
  BY DEF ToggleQFlag, inHand
<1>2. qflag # SSTF /\ activeQueue = <<>>
  BY <1>1 DEF IInv, QueueDiscipline
<1>3. activeIs1' <=> ~ activeIs1
  BY <1>2 DEF ToggleQFlag, activeIs1, IInv, TypeOK
<1>4. pendingBar' = pendingBar
  <2>1. CASE activeIs1
    <3>1. queue1 = <<>> /\ pendingBar = <<>> \o queue2 /\ pendingBar' = queue2 \o <<>>
      BY <1>1, <1>2, <1>3, <2>1 DEF activeQueue, pendingBar
    <3> QED
      BY <3>1, QueuesType, ConcatEmptySeq
  <2>2. CASE ~ activeIs1
    <3>1. queue2 = <<>> /\ pendingBar = <<>> \o queue1 /\ pendingBar' = queue1 \o <<>>
      BY <1>1, <1>2, <1>3, <2>2 DEF activeQueue, pendingBar
    <3> QED
      BY <3>1, QueuesType, ConcatEmptySeq
  <2> QED
    BY <2>1, <2>2
<1> QED
  BY <1>1, <1>4 DEF Service!vars, diskBar, answersBar, taken

\* The append of main is the acceptance of the request.
LEMMA AppendAccepts ==
  ASSUME IInv, AppendRequest
  PROVE  Service!Accept(incoming) /\ incoming \in Requests
<1>1. /\ mainPC = "append"
      /\ UNCHANGED <<takerPC, request, answer, qflag, disk>>
  BY DEF AppendRequest, takerVars, inHand
<1>2. incoming \in Requests
  BY <1>1 DEF IInv, TypeOK, QueueDiscipline
<1>3. pendingBar' = Append(pendingBar, incoming)
  <2>1. CASE qflag = SSTF
    <3>1. /\ queue2 = <<>> /\ queue2' = <<>> /\ queue1' = Append(queue1, incoming)
          /\ pendingBar = queue1 \o <<>>
          /\ pendingBar' = Append(queue1, incoming) \o <<>>
      BY <1>1, <2>1
         DEF IInv, QueueDiscipline, AppendRequest, passiveIs1, pendingBar,
             activeIs1, SSTF
    <3>2. queue1 \in Seq(Requests) /\ Append(queue1, incoming) \in Seq(Requests)
      BY <1>2, QueuesType
    <3> QED
      BY <3>1, <3>2, ConcatEmptySeq
  <2>2. CASE qflag = "QUEUE1_ACTIVE"
    <3>1. /\ pendingBar = queue1 \o queue2
          /\ pendingBar' = queue1 \o Append(queue2, incoming)
      BY <1>1, <2>2 DEF AppendRequest, passiveIs1, pendingBar, activeIs1, SSTF
    <3> QED
      BY <1>2, <3>1, QueuesType, AppendOfConcat
  <2>3. CASE qflag = "QUEUE2_ACTIVE"
    <3>1. /\ pendingBar = queue2 \o queue1
          /\ pendingBar' = queue2 \o Append(queue1, incoming)
      BY <1>1, <2>3 DEF AppendRequest, passiveIs1, pendingBar, activeIs1, SSTF
    <3> QED
      BY <1>2, <3>1, QueuesType, AppendOfConcat
  <2> QED
    BY <2>1, <2>2, <2>3 DEF IInv, TypeOK
<1>4. diskBar' = diskBar /\ answersBar' = answersBar
  BY <1>1 DEF diskBar, answersBar, taken
<1> QED
  BY <1>2, <1>3, <1>4 DEF Service!Accept

\* The take is the moment a request is performed, in an order the service
\* allows.
LEMMA TakePerforms ==
  ASSUME IInv, TakerTake
  PROVE  \E i \in DOMAIN pendingBar : Service!Perform(i)
<1> DEFINE next == getNext(activeQueue, HeadPosition, direction, TracePosition)
<1>1. /\ takerPC = "take" /\ takerPC' = "handle"
      /\ UNCHANGED <<answer, qflag, disk>>
  BY DEF TakerTake
<1>2. PICK i \in nextNodes(activeQueue, next.from, next.direction) :
          /\ request' = activeQueue[i]
          /\ IF activeIs1
             THEN queue1' = takeRequest(queue1, i) /\ UNCHANGED queue2
             ELSE queue2' = takeRequest(queue2, i) /\ UNCHANGED queue1
  BY DEF TakerTake
<1>3. next.from \in Nat
  <2>1. HeadPosition \in Nat /\ TracePosition \in Nat /\ direction \in Directions
    BY DEF IInv, TypeOK
  <2> QED
    BY <2>1, GetNextType
<1> HIDE DEF next
<1>4. /\ activeQueue \in Seq(Requests) /\ i \in 1 .. Len(activeQueue)
      /\ request' \in Requests
  BY <1>2, QueuesType, NextNodesType
<1>5. \A j \in 1 .. i - 1 :
         ~ (activeQueue[j].type = WRITE /\ activeQueue[j].sector = activeQueue[i].sector)
  <2>1. \A k \in DOMAIN activeQueue : activeQueue[k].sector \in Nat
    BY <1>4, RequestFacts
  <2>2. Len(activeQueue) \in Nat /\ DOMAIN activeQueue = 1 .. Len(activeQueue)
    BY <1>4
  <2> QED
    BY <1>2, <1>3, <2>1, <2>2, NextPassesNoWrite
<1>6. PICK other \in Seq(Requests) :
         /\ pendingBar = activeQueue \o other
         /\ pendingBar' = takeRequest(activeQueue, i) \o other
  <2>1. CASE activeIs1
    BY <1>1, <1>2, <2>1, QueuesType DEF pendingBar, activeQueue, activeIs1
  <2>2. CASE ~ activeIs1
    BY <1>1, <1>2, <2>2, QueuesType DEF pendingBar, activeQueue, activeIs1
  <2> QED
    BY <2>1, <2>2
<1>7. /\ i \in DOMAIN pendingBar
      /\ \A j \in 1 .. i : pendingBar[j] = activeQueue[j]
      /\ pendingBar' = takeRequest(pendingBar, i)
  BY <1>4, <1>6, TakeOfConcat
<1>8. Service!mayPass(i)
  BY <1>4, <1>5, <1>7 DEF Service!mayPass, WRITE
<1>9. request' = pendingBar[i]
  BY <1>2, <1>4, <1>7
<1>10. diskBar' = IF request'.type = WRITE
                  THEN [disk EXCEPT ![request'.sector] = request'.data] ELSE disk
  BY <1>1 DEF diskBar, taken
<1>11. diskBar = disk /\ answersBar = {}
  BY <1>1 DEF diskBar, taken, answersBar, IInv, QueueDiscipline, takerServes
<1>12. answersBar' = {[request' EXCEPT !.data = IF request'.type = READ
                                   THEN disk[request'.sector] ELSE request'.data]}
  BY <1>1, <1>4, NoneAssumption DEF answersBar, taken
<1>13. answersBar' = answersBar \cup {Service!answerTo(pendingBar[i])}
  BY <1>9, <1>11, <1>12 DEF Service!answerTo, READ
<1>14. Service!Perform(i)
  BY <1>7, <1>8, <1>9, <1>10, <1>11, <1>13
     DEF Service!Perform, takeRequest, WRITE
<1> QED
  BY <1>7, <1>14

\* Performing it on the file afterwards is not visible: the sector the taker
\* works on is the one the request named, because there is one head.
LEMMA HandleStutters ==
  ASSUME Heads = 1, IInv, TakerHandle
  PROVE  UNCHANGED Service!vars
<1>1. /\ takerPC = "handle" /\ takerPC' # "handle"
      /\ UNCHANGED <<request, queue1, queue2, qflag>>
  BY DEF TakerHandle, queueVars
<1>2. request \in Requests
  BY <1>1 DEF IInv, TypeOK, QueueDiscipline, takerServes
<1>3. addressed(request.sector) = request.sector
  BY <1>2, RequestFacts, OneHeadAddress
<1>4. /\ disk' = IF request.type = WRITE
                 THEN [disk EXCEPT ![request.sector] = request.data] ELSE disk
      /\ answer' = [id |-> request.id, sender |-> request.sender,
                    type |-> request.type, sector |-> request.sector,
                    data |-> IF request.type = READ THEN disk[request.sector]
                                                    ELSE request.data]
  BY <1>3 DEF TakerHandle
<1>5. diskBar' = diskBar
  BY <1>1, <1>4 DEF diskBar, taken
<1> DEFINE d == IF request.type = READ THEN disk[request.sector] ELSE request.data
<1>6. answer' = [request EXCEPT !.data = d]
  <2>1. answer' = [id |-> request.id, sender |-> request.sender,
                   type |-> request.type, sector |-> request.sector, data |-> d]
    BY <1>4
  <2> HIDE DEF d
  <2> QED
    BY <1>2, <2>1 DEF Requests
<1>7. answersBar' = answersBar
  BY <1>1, <1>2, <1>6, NoneAssumption DEF answersBar, taken
<1> QED
  BY <1>1, <1>5, <1>7 DEF Service!vars, pendingBar, activeIs1

\* The send is the delivery of the one answer under way.
LEMMA SendDelivers ==
  ASSUME IInv, TakerSend
  PROVE  answer \in answersBar /\ Service!Deliver(answer)
<1>1. /\ takerPC = "send" /\ takerPC' = "post" /\ request' = None
      /\ UNCHANGED <<queue1, queue2, qflag, disk>>
  BY DEF TakerSend, queueVars
<1>2. request # None /\ answersBar = {answer} /\ answersBar' = {}
  BY <1>1 DEF IInv, QueueDiscipline, takerServes, answersBar, taken
<1>3. diskBar' = diskBar /\ pendingBar' = pendingBar
  BY <1>1 DEF diskBar, taken, pendingBar, activeIs1
<1> QED
  BY <1>2, <1>3 DEF Service!Deliver

-----------------------------------------------------------------------------
LEMMA InitServes == Init => Service!Init
<1> SUFFICES ASSUME Init PROVE Service!Init
  OBVIOUS
<1>1. pendingBar = <<>>
  <2>1. pendingBar = <<>> \o <<>>
    BY DEF Init, pendingBar
  <2> QED
    BY <2>1, ConcatEmptySeq
<1>2. diskBar = [s \in SectorNums |-> InitialData] /\ answersBar = {}
  BY DEF Init, diskBar, answersBar, taken
<1> QED
  BY <1>1, <1>2 DEF Service!Init

LEMMA StepServes ==
  ASSUME Heads = 1, IInv, [Next]_vars
  PROVE  [Service!Next]_Service!vars
<1>1. CASE AppendRequest
  BY <1>1, AppendAccepts DEF Service!Next
<1>2. CASE TakerTake
  BY <1>2, TakePerforms DEF Service!Next
<1>3. CASE TakerSend
  BY <1>3, SendDelivers DEF Service!Next
<1>4. CASE TakerHandle
  BY <1>4, HandleStutters
<1>5. CASE TakerToggle
  BY <1>5, ToggleStutters DEF TakerToggle
<1>6. CASE LookToggle
  BY <1>6, ToggleStutters DEF LookToggle
<1>7. CASE MainNext /\ ~ AppendRequest
  <2>1. UNCHANGED <<queue1, queue2, qflag, request, answer, disk>> /\ takerPC' = takerPC
    BY <1>7 DEF MainNext, ReceiveInfo, ReceiveExit, ReceiveRequest, WaitAvailable,
         LockQueues, PostElement, UnlockQueues, EndRound, Shutdown, takerVars,
         inHand, queueVars
  <2> QED
    BY <2>1, Stutters
<1>8. CASE \/ TakerLoop \/ TakerWait \/ TakerSelect \/ TakerLog \/ LookSelect
           \/ LookAhead \/ TakerHead \/ TakerPost
  <2>1. UNCHANGED <<queue1, queue2, qflag, request, answer, disk>>
    BY <1>8 DEF TakerLoop, TakerWait, TakerSelect, TakerLog, LookSelect, LookAhead,
         TakerHead, TakerPost, SelectActive, inHand, queueVars
  <2>2. takerPC # "handle" /\ takerPC' # "handle"
    BY <1>8 DEF TakerLoop, TakerWait, TakerSelect, TakerLog, LookSelect, LookAhead,
         TakerHead, TakerPost, SelectActive
  <2> QED
    BY <2>1, <2>2, Stutters
<1>9. CASE UNCHANGED vars
  <2>1. UNCHANGED <<takerPC, queue1, queue2, qflag, request, answer, disk>>
    BY <1>9 DEF vars, takerVars, inHand, queueVars
  <2> QED
    BY <2>1, Stutters
<1> QED
  BY <1>1, <1>2, <1>3, <1>4, <1>5, <1>6, <1>7, <1>8, <1>9 DEF Next, TakerNext

\* Every accepted request is performed once, never past an earlier write of
\* its sector, and answered once with the content it then found: for every
\* drive with one head, either algorithm, any clients and any queue bound.
THEOREM Refines ==
  ASSUME Heads = 1
  PROVE  Spec => ServesRequests
<1>1. IInv /\ [Next]_vars => [Service!Next]_Service!vars
  BY StepServes
<1> QED
  BY InitServes, Invariance, <1>1, PTL DEF Spec, ServesRequests, Service!Spec

-----------------------------------------------------------------------------
(* What the look-ahead announces.                                           *)

\* A scan of the queue from the position finds the request, wherever the trace
\* position is.
finds(r, queue, position, d) ==
    \E trace \in Nat :
        LET next == getNext(queue, position, d, trace)
        IN  \E i \in nextNodes(queue, next.from, next.direction) : r = queue[i]

\* Places of the taker between a choice and the end of its look-ahead, and those
\* between the move of the head and the next choice.
looking == {"handle", "log", "lookSelect", "lookToggle", "lookahead"}
moved == {"send", "post", "loop", "wait", "select", "toggle", "take", "returned"}

\* While a request is announced, the list it was found in is the one that is
\* served, and a scan from where the head goes, then from where it is, finds it
\* again; but for the last sector of a track, where the head turns back.
Announcing ==
    announced # None /\ qflag # SSTF =>
        /\ activeQueue # <<>> /\ takerPC \notin looking
        /\ takerPC = "head" =>
              finds(announced, activeQueue, addressed(request.sector) + 1, direction)
        /\ takerPC \in moved /\ turnToCHS(HeadPosition).sector # 0 =>
              finds(announced, activeQueue, HeadPosition, direction)

\* Two positions on one cylinder have the same nodes next.
LEMMA SameCylinder ==
  ASSUME NEW q, NEW d, NEW m, NEW n, turnToCHS(m).cylinder = turnToCHS(n).cylinder
  PROVE  nextNodes(q, m, d) = nextNodes(q, n, d)
<1>1. \A r : condition(d, r, m) <=> condition(d, r, n)
  BY DEF condition
<1>2. \A r : cylinderDistance(r, m) = cylinderDistance(r, n)
  BY DEF cylinderDistance
<1>3. \A a, b : near(a, b, m, d) <=> near(a, b, n, d)
  BY <1>1, <1>2 DEF near
<1> QED
  BY <1>3 DEF nextNodes

\* What is found does not depend on the trace position.
LEMMA FoundUnique ==
  ASSUME Heads = 1, NEW S, NEW q \in Seq(S), NEW p \in Nat, NEW d, d # SSTF,
         NEW t \in Nat, NEW r, finds(r, q, p, d),
         NEW i \in nextNodes(q, getNext(q, p, d, t).from, getNext(q, p, d, t).direction)
  PROVE  q[i] = r
<1>0. PICK u \in Nat :
          \E j \in nextNodes(q, getNext(q, p, d, u).from, getNext(q, p, d, u).direction) : r = q[j]
  BY DEF finds
<1>1. PICK j \in nextNodes(q, getNext(q, p, d, u).from, getNext(q, p, d, u).direction) : r = q[j]
  BY <1>0
<1>2. Len(q) \in Nat /\ DOMAIN q = 1 .. Len(q)
  OBVIOUS
<1>3. CASE nothingAhead(q, p, d)
  <2> DEFINE m == moveToCylinder(sweepEnd(d), t)
             n == moveToCylinder(sweepEnd(d), u)
             e == toggleDirection(d)
  <2>1. turnToCHS(m).cylinder = sweepEnd(d) /\ turnToCHS(n).cylinder = sweepEnd(d)
    BY SweepEndType, MoveReachesCylinder
  <2>2. i \in nextNodes(q, m, e) /\ j \in nextNodes(q, n, e)
    BY <1>3 DEF getNext
  <2> HIDE DEF m, n, e
  <2>3. j \in nextNodes(q, m, e)
    BY <2>1, <2>2, SameCylinder
  <2> QED
    BY <1>1, <1>2, <2>2, <2>3, NextUnique
<1>4. CASE ~ nothingAhead(q, p, d)
  <2>1. i \in nextNodes(q, p, d) /\ j \in nextNodes(q, p, d)
    BY <1>4 DEF getNext
  <2> QED
    BY <1>1, <1>2, <2>1, NextUnique
<1> QED
  BY <1>3, <1>4

\* TAKER_updateHPos: one sector further, or the first sector of the track.
LEMMA HeadGoesOn ==
  ASSUME Heads = 1, NEW s \in Nat
  PROVE  updateHPos(s) = s + 1 \/ turnToCHS(updateHPos(s)).sector = 0
<1>1. CASE (s + 1) % Sector = 0
  <2> DEFINE k == (s + 1) \div Sector
             n == s + 1 - Sector
  <2>1. k \in Nat /\ s + 1 = Sector * k + 0
    BY <1>1, DivMod, GeometryAssumption
  <2>2. k - 1 \in Nat /\ n = Sector * (k - 1) + 0
    BY <2>1, GeometryAssumption
  <2>3. n % Sector = 0
    <3> HIDE DEF k, n
    <3> QED
      BY <2>2, QuotientUnique, GeometryAssumption
  <2>4. turnToCHS(n).sector = (n % Sector) % Sector
    BY GeometryAssumption DEF turnToCHS
  <2>5. 0 % Sector = 0
    BY GeometryAssumption
  <2>6. updateHPos(s) = n
    BY <1>1, GeometryAssumption DEF updateHPos
  <2> HIDE DEF n
  <2> QED
    BY <2>3, <2>4, <2>5, <2>6
<1>2. CASE (s + 1) % Sector # 0
  BY <1>2 DEF updateHPos
<1> QED
  BY <1>1, <1>2

\* The list that is served does not change, nor where the head is.
LEMMA MainAnnounces ==
  ASSUME IInv, Announcing, "james" \notin ConsoleCommands, MainNext
  PROVE  Announcing'
<1>1. UNCHANGED <<takerPC, announced, request, qflag, direction, HeadPosition>>
  <2>1. CASE \E command \in {"info", "james"} : ReceiveInfo(command)
    BY <2>1 DEF ReceiveInfo, takerVars, inHand, queueVars
  <2>2. CASE \/ ReceiveExit \/ \E fd \in Fds : ReceiveRequest(fd)
             \/ WaitAvailable \/ LockQueues \/ AppendRequest
    BY <2>2 DEF ReceiveExit, ReceiveRequest, WaitAvailable, LockQueues, AppendRequest,
         takerVars, inHand, queueVars, headVars
  <2>3. CASE PostElement \/ UnlockQueues \/ EndRound \/ Shutdown
    BY <2>3 DEF PostElement, UnlockQueues, EndRound, Shutdown, takerVars, inHand, queueVars,
         headVars
  <2> QED
    BY <2>1, <2>2, <2>3 DEF MainNext
<1>2. qflag # SSTF => activeQueue' = activeQueue
  <2>1. CASE AppendRequest
    BY <1>1, <2>1 DEF AppendRequest, passiveIs1, activeQueue, activeIs1
  <2>2. CASE ~ AppendRequest
    <3>1. UNCHANGED <<queue1, queue2>>
      BY <2>2 DEF MainNext, ReceiveInfo, ReceiveExit, ReceiveRequest, WaitAvailable,
         LockQueues, PostElement, UnlockQueues, EndRound, Shutdown, queueVars
    <3> QED
      BY <1>1, <3>1 DEF activeQueue, activeIs1
  <2> QED
    BY <2>1, <2>2
<1> QED
  BY <1>1, <1>2 DEF Announcing

\* Steps of the taker that announce nothing and move nothing.
LEMMA QuietAnnounces ==
  ASSUME IInv, Announcing,
         TakerLoop \/ TakerWait \/ TakerSelect \/ TakerHandle \/ TakerLog \/ LookSelect
           \/ TakerSend \/ TakerPost
  PROVE  Announcing'
<1>1. UNCHANGED <<announced, queue1, queue2, qflag, direction, HeadPosition>>
  BY DEF TakerLoop, TakerWait, TakerSelect, TakerHandle, TakerLog, LookSelect, TakerSend,
     TakerPost, SelectActive, inHand, queueVars, headVars
<1>2. \/ takerPC \in looking
      \/ takerPC \in moved /\ takerPC' \in moved
  BY DEF TakerLoop, TakerWait, TakerSelect, TakerHandle, TakerLog, LookSelect, TakerSend,
     TakerPost, SelectActive, looking, moved
<1>3. activeQueue' = activeQueue
  BY <1>1 DEF activeQueue, activeIs1
<1>4. \A x \in moved : x # "head" /\ x \notin looking
  BY DEF moved, looking
<1> QED
  BY <1>1, <1>2, <1>3, <1>4 DEF Announcing

LEMMA ToggleAnnounces ==
  ASSUME IInv, Announcing, TakerToggle \/ LookToggle
  PROVE  Announcing'
<1>1. announced' = announced /\ takerPC \in {"toggle", "lookToggle"}
  BY DEF TakerToggle, LookToggle, ToggleQFlag, inHand
<1>2. qflag # SSTF /\ activeQueue = <<>>
  BY <1>1 DEF IInv, QueueDiscipline
<1> QED
  BY <1>1, <1>2 DEF Announcing

LEMMA LookAnnounces ==
  ASSUME IInv, Announcing, LookAhead
  PROVE  Announcing'
<1> DEFINE p == addressed(request.sector) + 1
<1>1. /\ takerPC = "lookahead" /\ takerPC' = "head"
      /\ UNCHANGED <<request, queue1, queue2, qflag, direction>>
  BY DEF LookAhead, queueVars
<1>2. activeQueue' = activeQueue
  BY <1>1 DEF activeQueue, activeIs1
<1>3. qflag # SSTF => activeQueue # <<>>
  BY <1>1 DEF IInv, QueueDiscipline
<1>4. finds(announced', activeQueue, p, direction)
  <2>1. TracePosition \in Nat
    BY DEF IInv, TypeOK
  <2>2. LET next == getNext(activeQueue, p, direction, TracePosition)
        IN  \E i \in nextNodes(activeQueue, next.from, next.direction) :
                announced' = activeQueue[i]
    BY DEF LookAhead
  <2> QED
    BY <2>1, <2>2 DEF finds
<1>5. "head" \notin looking /\ "head" \notin moved
  BY DEF looking, moved
<1> QED
  BY <1>1, <1>2, <1>3, <1>4, <1>5 DEF Announcing

LEMMA HeadAnnounces ==
  ASSUME IInv, Announcing, Heads = 1, TakerHead
  PROVE  Announcing'
<1> DEFINE s == addressed(request.sector)
<1>1. /\ takerPC = "head" /\ takerPC' = "send" /\ HeadPosition' = updateHPos(s)
      /\ UNCHANGED <<announced, queue1, queue2, qflag, direction>>
  BY DEF TakerHead, inHand, queueVars
<1>2. activeQueue' = activeQueue
  BY <1>1 DEF activeQueue, activeIs1
<1>3. s \in Nat
  <2>1. request # None /\ request \in Requests \cup {None}
    BY <1>1 DEF IInv, QueueDiscipline, takerServes, TypeOK
  <2> QED
    BY <2>1, RequestFacts, AddressedType, SectorNumsNat
<1> HIDE DEF s
<1>4. turnToCHS(HeadPosition').sector # 0 => HeadPosition' = s + 1
  BY <1>1, <1>3, HeadGoesOn
<1>5. "send" \notin looking
  BY DEF looking
<1> QED
  BY <1>1, <1>2, <1>4, <1>5 DEF Announcing, s

LEMMA StepAnnounces ==
  ASSUME Heads = 1, "james" \notin ConsoleCommands, IInv, Announcing, [Next]_vars
  PROVE  Announcing'
<1>1. CASE TakerTake
  BY <1>1 DEF TakerTake, Announcing
<1>2. CASE UNCHANGED vars
  <2>1. UNCHANGED <<takerPC, announced, request, queue1, queue2, qflag, direction, HeadPosition>>
    BY <1>2 DEF vars, takerVars, inHand, queueVars, headVars
  <2>2. activeQueue' = activeQueue
    BY <2>1 DEF activeQueue, activeIs1
  <2> QED
    BY <2>1, <2>2 DEF Announcing
<1> QED
  BY <1>1, <1>2, MainAnnounces, QuietAnnounces, ToggleAnnounces, LookAnnounces, HeadAnnounces
     DEF Next, TakerNext

\* The request that trace and log announce is the one served next, however many
\* arrive meanwhile and although the look-ahead may have switched the queues, for
\* every drive with one head that FSCAN serves; but after the last sector of a
\* track, and when "james" moves the head in between.
THEOREM AnnouncementsKept ==
  ASSUME Heads = 1, "james" \notin ConsoleCommands
  PROVE  Spec => AnnouncedIsNextInTrack
<1>1. Init => Announcing
  BY DEF Init, Announcing
<1>2. IInv /\ Announcing /\ [Next]_vars => Announcing'
  BY StepAnnounces
<1>3. ASSUME IInv, Announcing, Next, takerPC = "take", takerPC' = "handle",
             announced # None, qflag # SSTF, turnToCHS(HeadPosition).sector # 0
      PROVE  request' = announced
  <2>1. finds(announced, activeQueue, HeadPosition, direction)
    BY <1>3 DEF Announcing, moved
  <2>2. TakerTake
    BY <1>3 DEF Next, MainNext, TakerNext, ReceiveInfo, ReceiveExit, ReceiveRequest,
         WaitAvailable, LockQueues, AppendRequest, PostElement, UnlockQueues, EndRound,
         Shutdown, TakerLoop, TakerWait, TakerSelect, TakerToggle, TakerHandle, TakerLog,
         LookSelect, LookToggle, LookAhead, TakerHead, TakerSend, TakerPost, SelectActive,
         ToggleQFlag, takerVars
  <2>3. PICK i \in nextNodes(activeQueue,
                       getNext(activeQueue, HeadPosition, direction, TracePosition).from,
                       getNext(activeQueue, HeadPosition, direction, TracePosition).direction) :
            request' = activeQueue[i]
    BY <2>2 DEF TakerTake
  <2>4. activeQueue \in Seq(Requests) /\ HeadPosition \in Nat /\ TracePosition \in Nat
        /\ direction # SSTF
    BY <1>3 DEF IInv, TypeOK, QueueDiscipline, activeQueue
  <2> QED
    BY <2>1, <2>3, <2>4, FoundUnique
<1>4. IInv /\ Announcing /\ [Next]_vars =>
        [(/\ takerPC = "take" /\ takerPC' = "handle" /\ announced # None
          /\ qflag # SSTF
          /\ turnToCHS(HeadPosition).sector # 0)
             => request' = announced]_vars
  BY <1>3
<1> QED
  BY <1>1, <1>2, <1>4, Invariance, PTL DEF Spec, AnnouncedIsNextInTrack
=============================================================================
