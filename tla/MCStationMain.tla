--------------------------- MODULE MCStationMain ---------------------------
(* A small instance of StationMain: two instances of the program. *)
EXTENDS StationMain

CONSTANTS p1, p2

Instances == {p1, p2}
=============================================================================
