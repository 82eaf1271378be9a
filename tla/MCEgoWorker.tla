----------------------------- MODULE MCEgoWorker -----------------------------
(***************************************************************************)
(* Small instances of EgoWorker for TLC.  Timestamps differ, so that a     *)
(* prune takes a part of the table.                                        *)
(***************************************************************************)
EXTENDS EgoWorker, TLC

CONSTANTS e1, e2, e3

AllEvents == {e1, e2, e3}
AgeOf     == e1 :> 1 @@ e2 :> 1 @@ e3 :> 2
=============================================================================
