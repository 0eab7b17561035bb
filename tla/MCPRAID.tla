------------------------------ MODULE MCPRAID -------------------------------
(***************************************************************************)
(* Instances of the PRAID process.                                         *)
(***************************************************************************)
EXTENDS PRAID

CONSTANTS c1, c2, c3

\* Two disks, and a third process that announces the id of the first.
MCDiskOf == (c1 :> 1) @@ (c2 :> 2) @@ (c3 :> 1)
MCTwoDisks == (c1 :> 1) @@ (c2 :> 2)
=============================================================================
