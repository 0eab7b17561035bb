----------------------------- MODULE Scheduling -----------------------------
(***************************************************************************)
(* Which queued request the taker serves next, as a relation: a position   *)
(* of the queue is next when the scan of TAKER_getNextNode would leave it  *)
(* as the candidate.  The scan itself, node by node, is module GetNext,    *)
(* which is checked and proved to end in exactly such a position.          *)
(***************************************************************************)
EXTENDS DiskGeometry, Sequences

READ  == "READ_SECTORS"
WRITE == "WRITE_SECTORS"
TRACE == "PPDCONSOLE_TRACE"

\* flag_t: the direction of the sweep, or the algorithm without one.
UP   == "UP"
DOWN == "DOWN"
SSTF == "SSTF"
Directions == {UP, DOWN, SSTF}

cylinderOf(r) == turnToCHS(r.sector).cylinder

\* QMANAGER_selectCondition and COMMON_greaterThan/lessThan/identity:
\* does the request lie ahead of the position in this direction?
condition(direction, r, position) ==
    LET c == cylinderOf(r)
        p == turnToCHS(position).cylinder
    IN  /\ direction = UP   => c >= p
        /\ direction = DOWN => c <= p

cylinderDistance(r, position) ==
    AbsDiff(cylinderOf(r), turnToCHS(position).cylinder)

\* Mutant of near: on the same distance a read over a write.
nearReadsFirst(curr, candidate, position, direction) ==
    /\ condition(direction, curr, position)
    /\ \/ ~ condition(direction, candidate, position)
       \/ cylinderDistance(curr, position) < cylinderDistance(candidate, position)
       \/ /\ cylinderDistance(curr, position) = cylinderDistance(candidate, position)
          /\ curr.type # WRITE
          /\ candidate.type = WRITE

\* TAKER_near(curr, ...) > 0: curr replaces the candidate.  Both ahead: the
\* closer cylinder, and on the same distance a write over anything else.
near(curr, candidate, position, direction) ==
    /\ condition(direction, curr, position)
    /\ \/ ~ condition(direction, candidate, position)
       \/ cylinderDistance(curr, position) < cylinderDistance(candidate, position)
       \/ /\ cylinderDistance(curr, position) = cylinderDistance(candidate, position)
          /\ curr.type = WRITE
          /\ candidate.type # WRITE

\* TAKER_getNextNode: the node after *prevCandidate when the scan has ended.
nextNodes(queue, position, direction) ==
    {i \in DOMAIN queue :
        /\ \A j \in 1 .. i - 1 : near(queue[i], queue[j], position, direction)
        /\ \A j \in i + 1 .. Len(queue) :
               ~ near(queue[j], queue[i], position, direction)}

\* ... and its result 0: nothing in the queue lies ahead.
nothingAhead(queue, position, direction) ==
    \A i \in DOMAIN queue : ~ condition(direction, queue[i], position)

\* FSCAN_moveHeadPos: the cylinder at the end of the sweep.
sweepEnd(direction) == IF direction = UP THEN Cylinder - 1 ELSE 0

\* QMANAGER_toggleDirection
toggleDirection(direction) == IF direction = UP THEN DOWN ELSE UP

\* FSCAN_getNext / SSTF_getNext: the direction and the trace position they
\* leave, and the position the candidate is chosen from.
getNext(queue, initialPosition, direction, tracePosition) ==
    IF direction # SSTF /\ nothingAhead(queue, initialPosition, direction)
    THEN LET turned == moveToCylinder(sweepEnd(direction), tracePosition)
         IN  [direction |-> toggleDirection(direction),
              trace     |-> turned,
              from      |-> turned]
    ELSE [direction |-> direction,
          trace     |-> tracePosition,
          from      |-> initialPosition]

\* TAKER_takeRequest: the queue without the node at position i.
takeRequest(queue, i) ==
    [j \in 1 .. Len(queue) - 1 |-> IF j < i THEN queue[j] ELSE queue[j + 1]]
=============================================================================
