---------------------------- MODULE MCEgoStorage ----------------------------
(* A request among writers, a group with a price and one without, hours of *)
(* two ticks.  Charts of servers on the hour or beside it, before and      *)
(* after their clocks are set; days of four ticks, whose clocks are set by *)
(* one of them at midnight, just before it, or at another time.            *)
EXTENDS EgoChart, TLC

CONSTANTS rated, unrated

TwoGroups == {rated, unrated}
OneAnonymous == {unrated}
Weights == rated :> 1 @@ unrated :> 2
OnePriced == {rated}
ServerZones ==
    [offset : {0, 1}, shift : {6}, by : {0}]
        \cup [offset : {0, 1}, shift : {6, 8}, by : {4, -4}]
DayZonesOfBoth ==
    [offset : {0, 1}, shift : {6}, by : {0}]
        \cup [offset : {0}, shift : {6, 8, 10, 11}, by : {1, -1}]
=============================================================================
