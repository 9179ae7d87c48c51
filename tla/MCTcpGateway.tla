--------------------------- MODULE MCTcpGateway ---------------------------
(* Model values and symmetry for TcpGateway. *)
EXTENDS TcpGateway, TLC

\* Connections and threads are interchangeable in every safety property.
Symmetry == Permutations(Conns) \cup Permutations(Threads)
=============================================================================
