----------------------------- MODULE MCGetNext ------------------------------
(***************************************************************************)
(* Bounded inputs of the choice: every queue of at most MaxLen requests    *)
(* over the drive of the cfg, from every position.  The scan tells writes  *)
(* from the other types only, so reads stand for traces too.               *)
(***************************************************************************)
EXTENDS GetNext

CONSTANT MaxLen

MCRequests == {r \in Requests : r.type # TRACE}
MCQueues == UNION {[1 .. n -> MCRequests] : n \in 1 .. MaxLen}
MCPositions == SectorNums
=============================================================================
