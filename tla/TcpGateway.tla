----------------------------- MODULE TcpGateway -----------------------------
(***************************************************************************)
(* The TCP front end of the station, zmq_client.cpp.                       *)
(*                                                                         *)
(* main() accepts TCP connections on port 5555 and starts one thread per   *)
(* connection.  Each thread runs handleClient: recv from the socket, send  *)
(* what it got as one ZeroMQ request, wait for the reply, send the reply   *)
(* back, until recv reports the end of the stream; then close the socket.  *)
(*                                                                         *)
(* main() hands every thread the ADDRESS of its one local variable         *)
(* clientSocket, which the next accept overwrites; the thread reads the    *)
(* descriptor through that pointer when it first runs.  The race between   *)
(* the two is part of the model.                                           *)
(*                                                                         *)
(* TCP is a byte stream.  Every command a client writes is two segments    *)
(* long, so that a recv can return part of a command, exactly one command, *)
(* or several commands run together.  Segment numbers of a connection      *)
(* start at 1; segments 2k-1 and 2k are its k-th command.                  *)
(*                                                                         *)
(* External, modelled from their use here: the kernel's descriptor table   *)
(* and TCP, and the ZeroMQ server at the other end of ipc:///tmp/test.     *)
(***************************************************************************)
EXTENDS Integers, Sequences, FiniteSets

CONSTANTS
    Conns,      \* TCP connections that clients may open
    NoConn,     \* "no connection", for a free descriptor
    Threads,    \* threads the process may create; un-joined ones are never freed
    Fds,        \* descriptors that accept can return
    MaxSegs,    \* bound: segments a client writes on its connection
    BufSegs,    \* segments that fill handleClient's buffer (1024 bytes)
    Backlog     \* length of the listen queue (5 in the code)

NoFd == -1

ASSUME GatewayAssumption ==
    /\ NoConn \notin Conns
    /\ Fds \subseteq Nat
    /\ MaxSegs \in Nat
    /\ BufSegs \in Nat \ {0}
    /\ Backlog \in Nat

VARIABLES
    ended,          \* "no" while the gateway process runs, else what ended it
    apc,            \* main(): "accept" or "create"
    clientSocket,   \* main()'s local variable, shared with every thread
    queue,          \* established connections not yet accepted
    fdTable,        \* descriptor -> connection it refers to
    peer,           \* client end of each connection
    sent,           \* segments the client has written
    taken,          \* segments recv has returned
    delivered,      \* chunks whose replies reached the client, in order
    tpc,            \* program counter of each thread
    socket,         \* handleClient's local variable socket
    rxConn,         \* connection a blocked recv is waiting on
    chunk,          \* what the last recv returned: segments lo..hi of conn
    zmqUp,          \* the ZeroMQ server answers
    raced,          \* history: accept overwrote clientSocket before it was read
    unserved,       \* history: connections whose pthread_create failed
    impatient       \* history: clients that closed with commands unanswered

clientVars == <<queue, peer, sent, delivered>>
threadVars == <<tpc, socket, rxConn, chunk>>
vars == <<ended, apc, clientSocket, queue, fdTable, peer, sent, taken,
          delivered, tpc, socket, rxConn, chunk, zmqUp, raced, unserved,
          impatient>>

Chunk == [conn : Conns \cup {NoConn}, lo : Nat, hi : Nat]
NoChunk == [conn |-> NoConn, lo |-> 0, hi |-> 0]

alive == ended = "no"

PeerStates == {"none", "open", "closed", "reset"}
ThreadStates == {"idle", "created", "recv", "blocked", "request", "wait",
                 "send", "close", "done"}

\* A chunk that is exactly one command: nlohmann::json::parse rejects a part of
\* an object, and one object followed by anything else.
IsOneCommand(ch) == ch.lo % 2 = 1 /\ ch.hi = ch.lo + 1

FreeFds == {fd \in Fds : fdTable[fd] = NoConn}

\* POSIX gives out the lowest free descriptor.
LowestFree(fd) == fd \in FreeFds /\ \A other \in FreeFds : fd <= other

\* Every variable stays in its type: among others clientSocket is -1 or a
\* descriptor, and chunks are ranges of a connection's segments.
TypeOK ==
    /\ ended \in {"no", "sigpipe", "overrun", "nofds"}
    /\ apc \in {"accept", "create"}
    /\ clientSocket \in Fds \cup {NoFd}
    /\ queue \in Seq(Conns)
    /\ fdTable \in [Fds -> Conns \cup {NoConn}]
    /\ peer \in [Conns -> PeerStates]
    /\ sent \in [Conns -> Nat]
    /\ taken \in [Conns -> Nat]
    /\ delivered \in [Conns -> Seq(Chunk)]
    /\ tpc \in [Threads -> ThreadStates]
    /\ socket \in [Threads -> Fds \cup {NoFd}]
    /\ rxConn \in [Threads -> Conns \cup {NoConn}]
    /\ chunk \in [Threads -> Chunk]
    /\ zmqUp \in BOOLEAN
    /\ raced \in BOOLEAN
    /\ unserved \subseteq Conns
    /\ impatient \subseteq Conns

Init ==
    /\ ended = "no"
    /\ apc = "accept"
    /\ clientSocket = NoFd
    /\ queue = <<>>
    /\ fdTable = [fd \in Fds |-> NoConn]
    /\ peer = [c \in Conns |-> "none"]
    /\ sent = [c \in Conns |-> 0]
    /\ taken = [c \in Conns |-> 0]
    /\ delivered = [c \in Conns |-> <<>>]
    /\ tpc = [t \in Threads |-> "idle"]
    /\ socket = [t \in Threads |-> NoFd]
    /\ rxConn = [t \in Threads |-> NoConn]
    /\ chunk = [t \in Threads |-> NoChunk]
    /\ zmqUp \in BOOLEAN
    /\ raced = FALSE
    /\ unserved = {}
    /\ impatient = {}

-----------------------------------------------------------------------------
(* The clients, at the other end of the network.                           *)

Connect(c) ==
    /\ alive
    /\ peer[c] = "none"
    /\ Len(queue) < Backlog
    /\ peer' = [peer EXCEPT ![c] = "open"]
    /\ queue' = Append(queue, c)
    /\ UNCHANGED <<ended, apc, clientSocket, fdTable, sent, taken, delivered,
                   threadVars, zmqUp, raced, unserved, impatient>>

ClientWrite(c) ==
    /\ peer[c] = "open"
    /\ sent[c] < MaxSegs
    /\ sent' = [sent EXCEPT ![c] = @ + 1]
    /\ UNCHANGED <<ended, apc, clientSocket, queue, fdTable, peer, taken,
                   delivered, threadVars, zmqUp, raced, unserved, impatient>>

\* A thread holds a chunk between the recv that returned it and its reply.
Holding(t) == tpc[t] \in {"request", "wait", "send"}

AllAnswered(c) ==
    /\ taken[c] = sent[c]
    /\ \A t \in Threads : Holding(t) => chunk[t].conn # c

ClientClose(c) ==
    /\ peer[c] = "open"
    /\ peer' = [peer EXCEPT ![c] = "closed"]
    /\ impatient' = IF AllAnswered(c) THEN impatient ELSE impatient \cup {c}
    /\ UNCHANGED <<ended, apc, clientSocket, queue, fdTable, sent, taken,
                   delivered, threadVars, zmqUp, raced, unserved>>

-----------------------------------------------------------------------------
(* main(): accept, then pthread_create with the address of clientSocket.   *)

\* Some thread has been created and has not yet read *(int*)clientSocket.
ReadPending == \E t \in Threads : tpc[t] = "created"

Accept ==
    /\ alive
    /\ apc = "accept"
    /\ queue # <<>>
    /\ \E fd \in Fds :
        /\ LowestFree(fd)
        /\ clientSocket' = fd
        /\ fdTable' = [fdTable EXCEPT ![fd] = Head(queue)]
    /\ queue' = Tail(queue)
    /\ apc' = "create"
    /\ raced' = (raced \/ ReadPending)
    /\ UNCHANGED <<ended, peer, sent, taken, delivered, threadVars, zmqUp,
                   unserved, impatient>>

\* Mutant of AcceptFail: a negated errno instead of -1.
AcceptFail_Errno ==
    /\ alive
    /\ apc = "accept"
    /\ queue # <<>>
    /\ FreeFds = {}
    /\ clientSocket' = NoFd - 23
    /\ raced' = (raced \/ ReadPending)
    /\ UNCHANGED <<ended, apc, queue, fdTable, peer, sent, taken, delivered,
                   threadVars, zmqUp, unserved, impatient>>

\* accept fails with EMFILE; its -1 is stored in clientSocket before the test.
AcceptFail ==
    /\ alive
    /\ apc = "accept"
    /\ queue # <<>>
    /\ FreeFds = {}
    /\ clientSocket' = NoFd
    /\ raced' = (raced \/ ReadPending)
    /\ UNCHANGED <<ended, apc, queue, fdTable, peer, sent, taken, delivered,
                   threadVars, zmqUp, unserved, impatient>>

CreateThread(t) ==
    /\ alive
    /\ apc = "create"
    /\ tpc[t] = "idle"
    /\ tpc' = [tpc EXCEPT ![t] = "created"]
    /\ apc' = "accept"
    /\ UNCHANGED <<ended, clientSocket, fdTable, clientVars, taken, socket,
                   rxConn, chunk, zmqUp, raced, unserved, impatient>>

\* pthread_create fails once no more threads can be had; its result is ignored.
CreateFail ==
    /\ alive
    /\ apc = "create"
    /\ \A t \in Threads : tpc[t] # "idle"
    /\ apc' = "accept"
    /\ unserved' = unserved \cup {c \in Conns : \E fd \in Fds :
                                    clientSocket = fd /\ fdTable[fd] = c}
    /\ UNCHANGED <<ended, clientSocket, fdTable, clientVars, taken, threadVars,
                   zmqUp, raced, impatient>>

-----------------------------------------------------------------------------
(* handleClient, one thread per accepted connection.                       *)

\* int socket = *(int*)clientSocket;
ReadSocket(t) ==
    /\ alive
    /\ tpc[t] = "created"
    /\ socket' = [socket EXCEPT ![t] = clientSocket]
    /\ tpc' = [tpc EXCEPT ![t] = "recv"]
    /\ UNCHANGED <<ended, apc, clientSocket, fdTable, clientVars, taken, rxConn,
                   chunk, zmqUp, raced, unserved, impatient>>

\* Mutant of Target: the shared variable is used instead of the thread's copy.
Target_Shared(t) == IF clientSocket \in Fds THEN fdTable[clientSocket] ELSE NoConn

\* The connection a system call on the thread's socket acts on, if any.
Target(t) == IF socket[t] \in Fds THEN fdTable[socket[t]] ELSE NoConn

\* recv is entered: the kernel looks the descriptor up once, at the call.
RecvCall(t) ==
    /\ alive
    /\ tpc[t] = "recv"
    /\ rxConn' = [rxConn EXCEPT ![t] = Target(t)]
    /\ tpc' = [tpc EXCEPT ![t] = IF Target(t) = NoConn THEN "close" ELSE "blocked"]
    /\ UNCHANGED <<ended, apc, clientSocket, fdTable, clientVars, taken, socket,
                   chunk, zmqUp, raced, unserved, impatient>>

\* The process ends; the kernel closes its descriptors.
Die(why) ==
    /\ ended' = why
    /\ fdTable' = [fd \in Fds |-> NoConn]
    /\ tpc' = [u \in Threads |-> IF tpc[u] = "idle" THEN "idle" ELSE "done"]
    /\ UNCHANGED <<apc, clientSocket, clientVars, taken, socket, rxConn, chunk,
                   zmqUp, raced, unserved, impatient>>

\* What one recv can return: at least one byte, at most a buffer.
Receivable(c) == {hi \in (taken[c] + 1) .. sent[c] : hi <= taken[c] + BufSegs}

\* Mutant of RecvData: the bytes stay in the stream (MSG_PEEK).
RecvData_Peek(t) ==
    LET c == rxConn[t] IN
    /\ alive
    /\ tpc[t] = "blocked"
    /\ \E hi \in Receivable(c) :
        chunk' = [chunk EXCEPT ![t] = [conn |-> c, lo |-> taken[c] + 1, hi |-> hi]]
    /\ tpc' = [tpc EXCEPT ![t] = "request"]
    /\ UNCHANGED <<ended, apc, clientSocket, fdTable, clientVars, taken, socket,
                   rxConn, zmqUp, raced, unserved, impatient>>

\* recv returns bytes that have arrived; buffer[bytesRead] = '\0' ends them.
RecvData(t) ==
    LET c == rxConn[t] IN
    /\ alive
    /\ tpc[t] = "blocked"
    /\ \E hi \in Receivable(c) :
        /\ chunk' = [chunk EXCEPT ![t] = [conn |-> c, lo |-> taken[c] + 1, hi |-> hi]]
        /\ taken' = [taken EXCEPT ![c] = hi]
    /\ tpc' = [tpc EXCEPT ![t] = "request"]
    /\ UNCHANGED <<ended, apc, clientSocket, fdTable, clientVars, socket, rxConn,
                   zmqUp, raced, unserved, impatient>>

\* When recv fills the buffer, that store is one past its end: what it hits
\* may not matter (RecvData), or the process ends.
RecvOverrun(t) ==
    /\ alive
    /\ tpc[t] = "blocked"
    /\ taken[rxConn[t]] + BufSegs \in Receivable(rxConn[t])
    /\ Die("overrun")

\* Mutant of RecvEnd: the loop's test is >= 0, so the end of the stream is taken
\* for data.
RecvEnd_Ignored(t) ==
    LET c == rxConn[t] IN
    /\ alive
    /\ tpc[t] = "blocked"
    /\ peer[c] \in {"closed", "reset"}
    /\ taken[c] = sent[c]
    /\ tpc' = [tpc EXCEPT ![t] = "request"]
    /\ UNCHANGED <<ended, apc, clientSocket, fdTable, clientVars, taken, socket,
                   rxConn, chunk, zmqUp, raced, unserved, impatient>>

\* recv returns 0 or -1: the client has gone and everything it sent is read.
RecvEnd(t) ==
    LET c == rxConn[t] IN
    /\ alive
    /\ tpc[t] = "blocked"
    /\ peer[c] \in {"closed", "reset"}
    /\ taken[c] = sent[c]
    /\ tpc' = [tpc EXCEPT ![t] = "close"]
    /\ UNCHANGED <<ended, apc, clientSocket, fdTable, clientVars, taken, socket,
                   rxConn, chunk, zmqUp, raced, unserved, impatient>>

\* A fresh context and REQ socket, connect, send.
ZmqSend(t) ==
    /\ alive
    /\ tpc[t] = "request"
    /\ tpc' = [tpc EXCEPT ![t] = "wait"]
    /\ UNCHANGED <<ended, apc, clientSocket, fdTable, clientVars, taken, socket,
                   rxConn, chunk, zmqUp, raced, unserved, impatient>>

\* Without a free descriptor the REQ socket cannot be made: zmq::error_t leaves
\* the thread and the process ends.
ZmqNoFds(t) ==
    /\ alive
    /\ tpc[t] = "request"
    /\ FreeFds = {}
    /\ Die("nofds")

\* The ZeroMQ server replies; zmqSocket.recv has no timeout.
ZmqReply(t) ==
    /\ alive
    /\ tpc[t] = "wait"
    /\ zmqUp
    /\ IsOneCommand(chunk[t])
    /\ tpc' = [tpc EXCEPT ![t] = "send"]
    /\ UNCHANGED <<ended, apc, clientSocket, fdTable, clientVars, taken, socket,
                   rxConn, chunk, zmqUp, raced, unserved, impatient>>

\* The server's parse throws on anything that is not one JSON text, and nothing
\* catches it: the server process ends and the waiting thread is never answered.
ZmqDown(t) ==
    /\ alive
    /\ tpc[t] = "wait"
    /\ zmqUp
    /\ ~IsOneCommand(chunk[t])
    /\ zmqUp' = FALSE
    /\ UNCHANGED <<ended, apc, clientSocket, fdTable, clientVars, taken,
                   threadVars, raced, unserved, impatient>>

\* The state of the client end that send(socket, ...) meets.
FarEnd(t) == IF Target(t) = NoConn THEN "none" ELSE peer[Target(t)]

\* Mutant of SendBack: if instead of while, one command per connection.
SendBack_Once(t) ==
    /\ alive
    /\ tpc[t] = "send"
    /\ FarEnd(t) # "reset"
    /\ tpc' = [tpc EXCEPT ![t] = "close"]
    /\ delivered' = IF FarEnd(t) = "open"
                    THEN [delivered EXCEPT ![Target(t)] = Append(@, chunk[t])]
                    ELSE delivered
    /\ UNCHANGED <<ended, apc, clientSocket, queue, fdTable, peer, sent, taken,
                   socket, rxConn, chunk, zmqUp, raced, unserved, impatient>>

\* send(socket, ...), its result ignored: a closed descriptor changes nothing,
\* and a client that has closed answers the reply with RST.
SendBack(t) ==
    /\ alive
    /\ tpc[t] = "send"
    /\ FarEnd(t) # "reset"
    /\ tpc' = [tpc EXCEPT ![t] = "recv"]
    /\ delivered' = IF FarEnd(t) = "open"
                    THEN [delivered EXCEPT ![Target(t)] = Append(@, chunk[t])]
                    ELSE delivered
    /\ peer' = IF FarEnd(t) = "closed"
               THEN [peer EXCEPT ![Target(t)] = "reset"]
               ELSE peer
    /\ UNCHANGED <<ended, apc, clientSocket, queue, fdTable, sent, taken, socket,
                   rxConn, chunk, zmqUp, raced, unserved, impatient>>

\* send on a connection that was reset raises SIGPIPE: the process ends.
SendKilled(t) ==
    /\ alive
    /\ tpc[t] = "send"
    /\ FarEnd(t) = "reset"
    /\ Die("sigpipe")

\* Mutant of CloseSocket: the close is missing.
CloseSocket_Leaks(t) ==
    /\ alive
    /\ tpc[t] = "close"
    /\ tpc' = [tpc EXCEPT ![t] = "done"]
    /\ UNCHANGED <<ended, apc, clientSocket, fdTable, clientVars, taken, socket,
                   rxConn, chunk, zmqUp, raced, unserved, impatient>>

\* close(socket); return NULL.  Nobody joins the thread.
CloseSocket(t) ==
    /\ alive
    /\ tpc[t] = "close"
    /\ fdTable' = IF socket[t] \in Fds
                  THEN [fdTable EXCEPT ![socket[t]] = NoConn]
                  ELSE fdTable
    /\ tpc' = [tpc EXCEPT ![t] = "done"]
    /\ UNCHANGED <<ended, apc, clientSocket, clientVars, taken, socket, rxConn,
                   chunk, zmqUp, raced, unserved, impatient>>

-----------------------------------------------------------------------------
Acceptor == Accept \/ AcceptFail \/ CreateFail \/ \E t \in Threads : CreateThread(t)

Handler(t) ==
    \/ ReadSocket(t) \/ RecvCall(t) \/ RecvData(t) \/ RecvOverrun(t)
    \/ RecvEnd(t) \/ ZmqSend(t) \/ ZmqNoFds(t) \/ SendBack(t) \/ SendKilled(t) \/ CloseSocket(t)

Server(t) == ZmqReply(t) \/ ZmqDown(t)

Client(c) == Connect(c) \/ ClientWrite(c) \/ ClientClose(c)

Next ==
    \/ Acceptor
    \/ \E t \in Threads : Handler(t) \/ Server(t)
    \/ \E c \in Conns : Client(c)

Spec == Init /\ [][Next]_vars

\* The kernel schedules every runnable thread; the server answers what it can.
Fairness ==
    /\ WF_vars(Acceptor)
    /\ \A t \in Threads : WF_vars(Handler(t)) /\ WF_vars(Server(t))

FairSpec == Spec /\ Fairness

-----------------------------------------------------------------------------
(* Properties.                                                             *)

\* The thread has a socket of its own and has not finished with it.
Serving(t) ==
    tpc[t] \in {"recv", "blocked", "request", "wait", "send", "close"}

\* The descriptor is in clientSocket, for the thread about to run.
InHandover(fd) == clientSocket = fd /\ (apc = "create" \/ ReadPending)

\* No two threads serve the same socket, and no thread serves a closed one.
SocketsExclusive ==
    \A t \in Threads : Serving(t) =>
        /\ Target(t) # NoConn
        /\ \A u \in Threads \ {t} : Serving(u) => socket[u] # socket[t]

\* Every accepted connection has a thread, unless pthread_create failed.
NoneForgotten ==
    \A fd \in Fds : fdTable[fd] # NoConn =>
        \/ \E t \in Threads : Serving(t) /\ socket[t] = fd
        \/ InHandover(fd)
        \/ fdTable[fd] \in unserved

\* As long as no accept has overtaken a thread's read of clientSocket, threads
\* and accepted connections correspond one to one: no shared descriptor, no use
\* after close, no forgotten connection (main's accept loop and handleClient).
OneThreadPerConnection == ~raced => SocketsExclusive /\ NoneForgotten

\* As long as no accept has overtaken a thread's read, replies reach the client
\* whose bytes they answer, in the order in which the bytes were sent.
RepliesReturn ==
    ~raced =>
        \A c \in Conns : \A i \in DOMAIN delivered[c] :
            /\ delivered[c][i].conn = c
            /\ \A j \in DOMAIN delivered[c] :
                i < j => delivered[c][i].hi < delivered[c][j].lo

Overlap(x, y) == x.conn = y.conn /\ x.lo <= y.hi /\ y.lo <= x.hi

\* Even when threads share a socket, no byte of a client is put into two
\* requests and no reply is sent twice: the chunks being worked on and the
\* chunks answered are pairwise disjoint.
NoChunkTwice ==
    \A t \in Threads : Holding(t) =>
        /\ \A u \in Threads \ {t} : Holding(u) => ~Overlap(chunk[t], chunk[u])
        /\ \A c \in Conns : \A i \in DOMAIN delivered[c] :
            ~Overlap(chunk[t], delivered[c][i])

\* The process can be killed by SIGPIPE only if some client closed before its
\* commands were answered (or the descriptor race has happened): no send to a
\* client that waits for its answers takes the others down.
PatientClientsHarmless == ended = "sigpipe" => raced \/ impatient # {}

\* What a client writes on an accepted connection is eventually read, unless the
\* race, a failed pthread_create, or the loss of one of the two processes
\* intervenes: no thread is starved or left blocked.
Served ==
    \A c \in Conns :
        (\E fd \in Fds : fdTable[fd] = c) /\ taken[c] < sent[c]
            ~> \/ taken[c] = sent[c]
               \/ raced \/ c \in unserved \/ ~zmqUp \/ ~alive

\* zmq_client.cpp:39 says that the server's response goes back over TCP: to the
\* connection the command came from.
ResponseGoesBack ==
    \A c \in Conns : \A i \in DOMAIN delivered[c] : delivered[c][i].conn = c

-----------------------------------------------------------------------------
(* The gateway as an implementation of the abstract service.               *)

Service == INSTANCE CommandService WITH
    answered <- delivered,
    gone <- {c \in Conns : peer[c] \in {"closed", "reset"}},
    broken <- raced

\* The accept loop, the threads, the buffers and the descriptors of zmq_client.cpp
\* together do no more than the service allows: whatever step a thread takes, a
\* client sees only what it sent, what came back, and in which order.
ImplementsService == Service!Spec
=============================================================================
