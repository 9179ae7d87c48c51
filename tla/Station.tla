------------------------------ MODULE Station ------------------------------
(***************************************************************************)
(* The station as a whole: the gateway process (zmq_client.cpp), the       *)
(* station process whose main thread reads the configuration (main.cpp,    *)
(* libs/database.cpp) while its server thread runs commands                *)
(* (zmq_server.cpp), and the ZeroMQ link between the two processes.        *)
(*                                                                         *)
(* The gateway is TcpGateway, main is one instance of StationMain, and of  *)
(* the server only the loop receive, handle, reply is kept.  A database    *)
(* error in main, or a text that is not one command in the server, ends    *)
(* the station process with all that it has received; the process may be   *)
(* started again.                                                          *)
(*                                                                         *)
(* External: ZeroMQ.  A request waits on the gateway's side while there is *)
(* no server and is passed on when there is one.  A REQ socket never sends *)
(* a request again, so what a server had received when it ended is lost.   *)
(***************************************************************************)
EXTENDS TcpGateway

CONSTANTS
    Box,        \* the instance of the station process
    Foreign, MaxBoots, MaxRows, MaxOutages   \* of StationMain

VARIABLES
    dbUp, outages, table, proc, boot, server, call, step, rs, printed, garbage,
    link,       \* where the request of each gateway thread is
    executed    \* history: chunks that HandleCommand has run, in order

M == INSTANCE StationMain WITH Procs <- {Box}

mainVars == <<dbUp, outages, table, proc, boot, server, call, step, rs, printed, garbage>>
stationVars == <<vars, mainVars, link, executed>>

\* "none"; waiting on the gateway's side; received by the server; handled, with
\* the reply still to be sent; gone with the station process.
LinkStates == {"none", "queued", "server", "handled", "lost"}

\* Both processes are to be started.
StationInit ==
    /\ Init
    /\ M!Init
    /\ zmqUp = FALSE
    /\ link = [t \in Threads |-> "none"]
    /\ executed = <<>>

-----------------------------------------------------------------------------
(* The gateway.                                                            *)

\* A thread that sends leaves its request to ZeroMQ; what has not been passed on
\* ends with the gateway.
Sent(t) ==
    IF tpc[t] = "request" /\ tpc'[t] = "wait" THEN "queued"
    ELSE IF ended' # "no" /\ link[t] = "queued" THEN "none"
    ELSE link[t]

GatewayStep(A) ==
    /\ A
    /\ link' = [t \in Threads |-> Sent(t)]
    /\ UNCHANGED <<mainVars, executed>>

-----------------------------------------------------------------------------
(* The station process.                                                    *)

\* Mutant of Severed: the gateway sends its request again.
Severed_Resent(l) == [t \in Threads |-> IF l[t] \in {"server", "handled"} THEN "queued" ELSE l[t]]

\* What becomes of the requests when the station process ends.
Severed(l) == [t \in Threads |-> IF l[t] \in {"server", "handled"} THEN "lost" ELSE l[t]]

\* A step of the main thread or of the database.  The server thread starts and
\* ends with the process.
MainStep(A) ==
    /\ A
    /\ zmqUp' = server'[Box]
    /\ link' = IF server'[Box] THEN link ELSE Severed(link)
    /\ UNCHANGED <<ended, apc, clientSocket, fdTable, clientVars, taken, threadVars,
                   raced, unserved, impatient, executed>>

\* The link is between two processes; nothing but it changes.
OnlyLink == UNCHANGED <<vars, mainVars>>

\* Mutant of Pass: only the connection of the first start is ever used.
Pass_NoReconnect(t) ==
    /\ link[t] = "queued"
    /\ zmqUp
    /\ boot[Box] = 1
    /\ link' = [link EXCEPT ![t] = "server"]
    /\ OnlyLink /\ UNCHANGED executed

\* ZeroMQ passes a request on, at once or after the server has come back.
Pass(t) ==
    /\ link[t] = "queued"
    /\ zmqUp
    /\ link' = [link EXCEPT ![t] = "server"]
    /\ OnlyLink /\ UNCHANGED executed

\* The server thread is between two requests.
ServerFree == \A t \in Threads : link[t] # "handled"

\* Mutant of Execute: an unknown command is dropped.
Execute_Drops(t) ==
    /\ zmqUp
    /\ link[t] = "server"
    /\ ServerFree
    /\ IsOneCommand(chunk[t])
    /\ link' = [link EXCEPT ![t] = "none"]
    /\ executed' = Append(executed, chunk[t])
    /\ OnlyLink

\* recv, parse and HandleCommand.
Execute(t) ==
    /\ zmqUp
    /\ link[t] = "server"
    /\ ServerFree
    /\ IsOneCommand(chunk[t])
    /\ link' = [link EXCEPT ![t] = "handled"]
    /\ executed' = Append(executed, chunk[t])
    /\ OnlyLink

\* Mutant of Answered: the reply is sent before the command is run.
Answered_Early(t) == link[t] \in {"server", "handled"} /\ IsOneCommand(chunk[t])

Answered(t) == link[t] = "handled"

\* send: the gateway's thread gets it if it is still there.
Reply(t) ==
    /\ zmqUp
    /\ Answered(t)
    /\ link' = [link EXCEPT ![t] = "none"]
    /\ IF alive THEN ZmqReply(t) ELSE UNCHANGED vars
    /\ UNCHANGED <<mainVars, executed>>

\* parse throws, and the station process ends.
Abort(t) ==
    /\ zmqUp
    /\ link[t] = "server"
    /\ ServerFree
    /\ ~IsOneCommand(chunk[t])
    /\ M!End(Box, "crashed")
    /\ zmqUp' = FALSE
    /\ link' = Severed(link)
    /\ UNCHANGED <<ended, apc, clientSocket, fdTable, clientVars, taken, threadVars,
                   raced, unserved, impatient, dbUp, outages, table, rs, printed,
                   garbage, executed>>

-----------------------------------------------------------------------------
StationServer(t) == Pass(t) \/ Execute(t) \/ Reply(t) \/ Abort(t)

StationNext ==
    \/ GatewayStep(Acceptor)
    \/ \E t \in Threads : GatewayStep(Handler(t)) \/ StationServer(t)
    \/ \E c \in Conns : GatewayStep(Client(c))
    \/ MainStep(M!Next)

StationSpec == StationInit /\ [][StationNext]_stationVars

\* ZeroMQ passes on what it can, and the kernel schedules the server thread.
\* Nothing is assumed of the gateway's threads, of main and of the database, and
\* nobody is bound to start a process again.
StationFairness == \A t \in Threads : WF_stationVars(StationServer(t))

FairStation == StationSpec /\ StationFairness

-----------------------------------------------------------------------------
(* Properties.                                                             *)

\* No command is run twice, and those of one connection are run in the order in
\* which they were sent (unless the descriptor race has happened), although the
\* station process may end between running a command and answering it, and be
\* started again.
ExecutedOnceInOrder ==
    \A i, j \in DOMAIN executed : i < j =>
        /\ ~Overlap(executed[i], executed[j])
        /\ ~raced /\ executed[i].conn = executed[j].conn => executed[i].hi < executed[j].lo

\* A client is never told that something was done that was not: every answer is
\* to a command that has been run.
AnswersAreTrue ==
    \A c \in Conns : \A i \in DOMAIN delivered[c] :
        \E j \in DOMAIN executed : executed[j] = delivered[c][i]

\* A gateway thread that waits has its request on the way, or the request was
\* lost with an earlier station process; then the thread waits for ever, and the
\* client of a connection with its own thread hears nothing more.  Nothing else
\* is lost: the server thread neither ends before its process nor outlives it.
WaitIsAccounted ==
    /\ zmqUp <=> proc[Box] = "running"
    /\ \A t \in Threads :
        /\ tpc[t] = "wait" => link[t] # "none"
        /\ link[t] = "lost" => boot[Box] > 1 \/ proc[Box] # "running"
        /\ link[t] = "lost" /\ alive => tpc[t] = "wait"

\* If the station process at last stays up, no request keeps waiting for it: each
\* is answered, also those sent while it was down, or was lost with an earlier
\* process.
QueuedAreServed ==
    <>[]zmqUp => \A t \in Threads : link[t] = "queued" ~> link[t] \in {"none", "lost"}
=============================================================================
