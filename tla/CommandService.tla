--------------------------- MODULE CommandService ---------------------------
(***************************************************************************)
(* What the station promises its TCP clients, without threads, sockets or  *)
(* the command server.                                                     *)
(*                                                                         *)
(* A client sends a stream of segments and gets answers, each to one piece *)
(* of a stream.  Answers come to the client whose piece they answer, in    *)
(* the order of the pieces, and no segment is answered twice.  Once the    *)
(* service is broken an answer may come to the wrong client or out of      *)
(* order; still it answers something sent and not answered before.         *)
(***************************************************************************)
EXTENDS Integers, Sequences

CONSTANT Conns   \* connections of clients

VARIABLES
    sent,       \* number of segments each client has sent
    answered,   \* the pieces whose answers each client has got, in order
    gone,       \* clients that have left
    broken      \* answers can go astray

service == <<sent, answered, gone, broken>>

Init ==
    /\ sent = [c \in Conns |-> 0]
    /\ answered = [c \in Conns |-> <<>>]
    /\ gone = {}
    /\ broken = FALSE

Write(c) ==
    /\ c \notin gone
    /\ sent' = [sent EXCEPT ![c] = @ + 1]
    /\ UNCHANGED <<answered, gone, broken>>

Leave(c) ==
    /\ c \notin gone
    /\ gone' = gone \cup {c}
    /\ UNCHANGED <<sent, answered, broken>>

Break == broken' = TRUE /\ UNCHANGED <<sent, answered, gone>>

\* Segments lo to hi of connection s have been sent, and no answer to any of
\* them has been given to anyone.
Open(s, lo, hi) ==
    /\ lo <= hi
    /\ \A c \in Conns : \A i \in DOMAIN answered[c] :
        answered[c][i].conn = s => answered[c][i].hi < lo \/ hi < answered[c][i].lo

\* What client c may be told: something open, and unless the service is broken
\* of its own and after what it has been told.
MayTell(c, s, lo, hi) ==
    /\ Open(s, lo, hi)
    /\ \/ broken
       \/ s = c /\ \A i \in DOMAIN answered[c] : answered[c][i].hi < lo

Answer(c) ==
    /\ c \notin gone
    /\ \E s \in Conns : \E lo, hi \in 1 .. sent[s] :
        /\ MayTell(c, s, lo, hi)
        /\ answered' = [answered EXCEPT ![c] =
                Append(@, [conn |-> s, lo |-> lo, hi |-> hi])]
    /\ UNCHANGED <<sent, gone, broken>>

Next == Break \/ \E c \in Conns : Write(c) \/ Leave(c) \/ Answer(c)

Spec == Init /\ [][Next]_service
=============================================================================
