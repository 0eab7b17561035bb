------------------------------ MODULE GetNext -------------------------------
(***************************************************************************)
(* The taker's choice of the next request, node by node: the loop of       *)
(* TAKER_getNextNode (PPD/src/ppd_taker.c:235-263) and the two calls that  *)
(* FSCAN_getNext (ppd_FSCAN.c:15-27) makes around a change of direction.   *)
(* The list is a sequence, a node pointer its position; prevCandidate 0 is *)
(* NULL, and the request to take is the node after prevCandidate.          *)
(***************************************************************************)
EXTENDS Scheduling

CONSTANTS
    Queues,      \* the queues the taker may find (never empty: module PPD)
    Positions    \* head positions

Requests == [sector : SectorNums, type : {READ, WRITE, TRACE}]

ASSUME QueuesAssumption ==
    /\ \A q \in Queues : q \in Seq(Requests) /\ q # <<>>
    /\ Positions \subseteq SectorNums

VARIABLES
    queue,           \* the active queue, not changed by the choice
    direction,       \* multiQueue->direction
    headPosition,    \* the argument of the scan under way
    tracePosition,   \* TracePosition
    currNode,        \* the loop's cursor
    prevCandidate,   \* *prevCandidate
    pc,
    call             \* history: the arguments getNext was called with

vars == <<queue, direction, headPosition, tracePosition, currNode,
          prevCandidate, pc, call>>

Init ==
    /\ queue \in Queues
    /\ direction \in Directions
    /\ headPosition \in Positions
    /\ tracePosition = headPosition     \* ppd_taker.c:48
    /\ currNode = 1
    /\ prevCandidate = 0
    /\ pc = "scan"
    /\ call = [direction |-> direction, position |-> headPosition]

\* Mutants of Scan: the candidate itself instead of the node before it; the
\* node compared with its neighbour; the cursor moved only past better nodes.
ScanKeepsCandidate ==
    /\ pc \in {"scan", "rescan"}
    /\ currNode < Len(queue)
    /\ prevCandidate' =
          IF near(queue[currNode + 1], queue[prevCandidate + 1],
                  headPosition, direction)
          THEN currNode + 1 ELSE prevCandidate
    /\ currNode' = currNode + 1
    /\ UNCHANGED <<queue, direction, headPosition, tracePosition, pc, call>>

ScanComparesNeighbours ==
    /\ pc \in {"scan", "rescan"}
    /\ currNode < Len(queue)
    /\ prevCandidate' =
          IF near(queue[currNode + 1], queue[currNode], headPosition, direction)
          THEN currNode ELSE prevCandidate
    /\ currNode' = currNode + 1
    /\ UNCHANGED <<queue, direction, headPosition, tracePosition, pc, call>>

ScanStays ==
    /\ pc \in {"scan", "rescan"}
    /\ currNode < Len(queue)
    /\ near(queue[currNode + 1], queue[prevCandidate + 1], headPosition, direction)
    /\ prevCandidate' = currNode
    /\ currNode' = currNode + 1
    /\ UNCHANGED <<queue, direction, headPosition, tracePosition, pc, call>>

\* One iteration: compare the node after the cursor with the candidate.
Scan ==
    /\ pc \in {"scan", "rescan"}
    /\ currNode < Len(queue)
    /\ prevCandidate' =
          IF near(queue[currNode + 1], queue[prevCandidate + 1],
                  headPosition, direction)
          THEN currNode ELSE prevCandidate
    /\ currNode' = currNode + 1
    /\ UNCHANGED <<queue, direction, headPosition, tracePosition, pc, call>>

\* The scan returns 1, or the algorithm ignores the result (SSTF).
Choose ==
    /\ pc = "scan"
    /\ currNode = Len(queue)
    /\ \/ prevCandidate # 0
       \/ condition(direction, queue[1], headPosition)
       \/ direction = SSTF
    /\ pc' = "done"
    /\ UNCHANGED <<queue, direction, headPosition, tracePosition, currNode,
                   prevCandidate, call>>

\* Mutant of Turn: QMANAGER_toggleDirection forgotten.
TurnKeepsDirection ==
    /\ pc = "scan"
    /\ currNode = Len(queue)
    /\ prevCandidate = 0
    /\ direction # SSTF
    /\ ~ condition(direction, queue[1], headPosition)
    /\ tracePosition' = moveToCylinder(sweepEnd(direction), tracePosition)
    /\ headPosition' = tracePosition'
    /\ currNode' = 1
    /\ pc' = "rescan"
    /\ UNCHANGED <<queue, direction, prevCandidate, call>>

\* The scan returns 0: seek to the end of the sweep, turn, scan again.
Turn ==
    /\ pc = "scan"
    /\ currNode = Len(queue)
    /\ prevCandidate = 0
    /\ direction # SSTF
    /\ ~ condition(direction, queue[1], headPosition)
    /\ tracePosition' = moveToCylinder(sweepEnd(direction), tracePosition)
    /\ headPosition' = tracePosition'
    /\ direction' = toggleDirection(direction)
    /\ currNode' = 1
    /\ pc' = "rescan"
    /\ UNCHANGED <<queue, prevCandidate, call>>

\* The second scan ends; its result is not looked at.
Return ==
    /\ pc = "rescan"
    /\ currNode = Len(queue)
    /\ pc' = "done"
    /\ UNCHANGED <<queue, direction, headPosition, tracePosition, currNode,
                   prevCandidate, call>>

Next == Scan \/ Choose \/ Turn \/ Return
\* The taker thread runs the loop without waiting for anyone.
Spec == Init /\ [][Next]_vars /\ WF_vars(Next)

-----------------------------------------------------------------------------
\* The cursor and the candidate stay inside the list that is scanned.
TypeOK ==
    /\ queue \in Queues
    /\ direction \in Directions
    /\ headPosition \in Nat
    /\ tracePosition \in Nat
    /\ currNode \in 1 .. Len(queue)
    /\ prevCandidate \in 0 .. Len(queue) - 1
    /\ pc \in {"scan", "rescan", "done"}
    /\ call \in [direction : Directions, position : Positions]

chosen == prevCandidate + 1

\* The loop of TAKER_getNextNode, with its candidate replaced one comparison
\* at a time, ends on the request that the declarative nextNodes describes,
\* and FSCAN_getNext leaves direction and trace position as getNext says:
\* the relation module PPD is built on is what the code computes.
ScanFindsNext ==
    pc = "done" =>
        /\ nextNodes(queue, headPosition, direction) = {chosen}
        /\ getNext(queue, call.position, call.direction, call.position) =
              [direction |-> direction, trace |-> tracePosition,
               from |-> headPosition]

\* Turning once is enough (ppd_FSCAN.c:20-24): after the one change of
\* direction FSCAN_getNext makes, whatever it takes lies ahead of the head.
\* Its second call ignores the result, so nothing else would notice.
ChosenLiesAhead ==
    pc = "done" => condition(direction, queue[chosen], headPosition)

\* The scan lets writes jump reads and near cylinders jump far ones, but it
\* never takes a request past an earlier write of the same sector: a read
\* cannot see an older content than the one queued before it.
NoWriteOvertaken ==
    pc = "done" =>
        \A j \in 1 .. chosen - 1 :
            ~ /\ queue[j].type = WRITE
              /\ queue[j].sector = queue[chosen].sector

\* Whatever the queue, the choice is made: the loop advances its cursor and
\* the direction is changed at most once.
ChoiceEnds == <>(pc = "done")
=============================================================================
