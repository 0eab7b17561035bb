------------------------------- MODULE MCPPD --------------------------------
(***************************************************************************)
(* Instances of the PPD process.  The bounds: Ids is the number of         *)
(* requests outstanding at a time; an id is free again once its request is *)
(* answered, so runs are of any length.                                    *)
(***************************************************************************)
EXTENDS PPD
=============================================================================
