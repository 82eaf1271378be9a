-------------------------- MODULE MCEgoMaintenance --------------------------
(* Two sections and two ranges; one key the API accepts and one it does not. *)
EXTENDS EgoMaintenance

CONSTANTS good, bad

TwoSections == {"settings", "timeline"}
TwoRanges == {"today", "7d"}
TwoKeys == {good, bad}
TwoButtons == {"prune", "reset"}
Off == {FALSE}
OneKey == {good}
=============================================================================
