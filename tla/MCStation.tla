----------------------------- MODULE MCStation -----------------------------
(***************************************************************************)
(* A small instance of Station: two clients that together write at most    *)
(* MaxTotal segments, so that one may send two commands while the other    *)
(* only connects and leaves, or each sends one, whole or in parts.  The    *)
(* clients being alike, c2 is the one that writes no more than half.       *)
(***************************************************************************)
EXTENDS Station

CONSTANTS c1, c2,   \* the clients
          MaxTotal  \* bound: segments that they write together

Few == sent[c1] + sent[c2] <= MaxTotal /\ 2 * sent[c2] <= MaxTotal

\* FairStation, with few segments.
MCFairStation ==
    /\ StationInit
    /\ [][StationNext /\ Few']_stationVars
    /\ StationFairness
=============================================================================
