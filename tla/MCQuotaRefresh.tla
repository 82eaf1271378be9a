--------------------------- MODULE MCQuotaRefresh ---------------------------
(* Two credentials, one of xAI, and a slot more than the guard ever needs. *)
EXTENDS QuotaRefresh

CONSTANTS x, c

AllFiles == {x, c}
XaiFiles == {x}
ThreeSlots == 1..3
=============================================================================
