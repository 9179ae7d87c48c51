-------------------------- MODULE TcpGatewayProofs --------------------------
(***************************************************************************)
(* Proofs about TcpGateway, for any number of connections, threads,        *)
(* descriptors and segments.                                               *)
(***************************************************************************)
EXTENDS TcpGateway, SequenceTheorems, TLAPS

-----------------------------------------------------------------------------
(* Type correctness.                                                       *)

\* A recv that blocks has found its connection: RecvData indexes by it.
BlockedHasConn == \A t \in Threads : tpc[t] = "blocked" => rxConn[t] \in Conns

TypeInv == TypeOK /\ BlockedHasConn

\* The end of the process (SIGPIPE, the store past the buffer, no descriptor
\* left) leaves every variable in its type.
LEMMA DieType ==
    ASSUME TypeInv, NEW why \in {"sigpipe", "overrun", "nofds"}, Die(why)
    PROVE  TypeInv'
BY GatewayAssumption DEF TypeInv, TypeOK, BlockedHasConn, Die, clientVars, ThreadStates

\* The clients' steps keep the types.
LEMMA ClientType ==
    ASSUME TypeInv, NEW c \in Conns, Client(c)
    PROVE  TypeInv'
<1>1. CASE Connect(c)
  <2>1. Append(queue, c) \in Seq(Conns)
    BY AppendProperties DEF TypeInv, TypeOK
  <2> QED  BY <1>1, <2>1 DEF TypeInv, TypeOK, BlockedHasConn, Connect, threadVars, PeerStates
<1>2. CASE ClientWrite(c)
  BY <1>2 DEF TypeInv, TypeOK, BlockedHasConn, ClientWrite, threadVars
<1>3. CASE ClientClose(c)
  BY <1>3 DEF TypeInv, TypeOK, BlockedHasConn, ClientClose, threadVars, PeerStates
<1> QED  BY <1>1, <1>2, <1>3 DEF Client

\* The steps of main's accept loop keep the types.
LEMMA AcceptorType ==
    ASSUME TypeInv, Acceptor
    PROVE  TypeInv'
<1>1. CASE Accept
  <2>1. Head(queue) \in Conns /\ Tail(queue) \in Seq(Conns)
    BY <1>1, HeadTailProperties DEF TypeInv, TypeOK, Accept
  <2>2. PICK fd \in Fds : clientSocket' = fd /\ fdTable' = [fdTable EXCEPT ![fd] = Head(queue)]
    BY <1>1 DEF Accept
  <2>3. fdTable' \in [Fds -> Conns \cup {NoConn}]
    BY <2>1, <2>2 DEF TypeInv, TypeOK
  <2> QED  BY <1>1, <2>1, <2>2, <2>3 DEF TypeInv, TypeOK, BlockedHasConn, Accept, threadVars, ReadPending
<1>2. CASE AcceptFail
  BY <1>2 DEF TypeInv, TypeOK, BlockedHasConn, AcceptFail, threadVars
<1>3. CASE CreateFail
  BY <1>3 DEF TypeInv, TypeOK, BlockedHasConn, CreateFail, threadVars, clientVars
<1>4. ASSUME NEW t \in Threads, CreateThread(t)
      PROVE  TypeInv'
  BY <1>4 DEF TypeInv, TypeOK, BlockedHasConn, CreateThread, clientVars, ThreadStates
<1> QED  BY <1>1, <1>2, <1>3, <1>4 DEF Acceptor

\* The steps of one handleClient thread keep the types.
LEMMA HandlerType ==
    ASSUME TypeInv, NEW t \in Threads, Handler(t)
    PROVE  TypeInv'
<1> USE DEF TypeInv, TypeOK, BlockedHasConn, clientVars, ThreadStates
<1>1. CASE ReadSocket(t)
  BY <1>1 DEF ReadSocket
<1>2. CASE RecvCall(t)
  <2>1. Target(t) \in Conns \cup {NoConn}
    BY DEF Target
  <2> QED  BY <1>2, <2>1 DEF RecvCall
<1>3. CASE RecvData(t)
  <2> DEFINE c == rxConn[t]
  <2>1. c \in Conns /\ taken[c] \in Nat /\ sent[c] \in Nat
    BY <1>3 DEF RecvData
  <2>2. PICK hi \in Receivable(c) :
            /\ chunk' = [chunk EXCEPT ![t] = [conn |-> c, lo |-> taken[c] + 1, hi |-> hi]]
            /\ taken' = [taken EXCEPT ![c] = hi]
    BY <1>3 DEF RecvData
  <2>3. hi \in Nat
    BY <2>1, <2>2 DEF Receivable
  <2>4. [conn |-> c, lo |-> taken[c] + 1, hi |-> hi] \in Chunk
    BY <2>1, <2>3 DEF Chunk
  <2>5. chunk' \in [Threads -> Chunk] /\ taken' \in [Conns -> Nat]
    BY <2>1, <2>2, <2>3, <2>4
  <2> QED  BY <1>3, <2>5 DEF RecvData
<1>4. CASE RecvOverrun(t)
  BY <1>4, DieType DEF RecvOverrun
<1>5. CASE RecvEnd(t)
  BY <1>5 DEF RecvEnd
<1>6. CASE ZmqSend(t)
  BY <1>6 DEF ZmqSend
<1>7. CASE ZmqNoFds(t)
  BY <1>7, DieType DEF ZmqNoFds
<1>8. CASE SendBack(t)
  <2>1. delivered' \in [Conns -> Seq(Chunk)]
    <3>1. CASE FarEnd(t) = "open"
      <4>1. \A c \in Conns : Append(delivered[c], chunk[t]) \in Seq(Chunk)
        BY AppendProperties
      <4> QED  BY <1>8, <3>1, <4>1 DEF SendBack
    <3> QED  BY <1>8, <3>1 DEF SendBack
  <2>2. peer' \in [Conns -> PeerStates]
    BY <1>8 DEF SendBack, PeerStates
  <2> QED  BY <1>8, <2>1, <2>2 DEF SendBack
<1>9. CASE SendKilled(t)
  BY <1>9, DieType DEF SendKilled
<1>10. CASE CloseSocket(t)
  <2>1. fdTable' \in [Fds -> Conns \cup {NoConn}]
    BY <1>10 DEF CloseSocket
  <2>2. tpc' \in [Threads -> ThreadStates]
    BY <1>10 DEF CloseSocket
  <2> QED  BY <1>10, <2>1, <2>2 DEF CloseSocket
<1> QED
  BY <1>1, <1>2, <1>3, <1>4, <1>5, <1>6, <1>7, <1>8, <1>9, <1>10 DEF Handler

\* The ZeroMQ server's steps keep the types.
LEMMA ServerType ==
    ASSUME TypeInv, NEW t \in Threads, Server(t)
    PROVE  TypeInv'
<1>1. CASE ZmqReply(t)
  BY <1>1 DEF TypeInv, TypeOK, BlockedHasConn, ZmqReply, clientVars, ThreadStates
<1>2. CASE ZmqDown(t)
  BY <1>2 DEF TypeInv, TypeOK, BlockedHasConn, ZmqDown, clientVars, threadVars
<1> QED  BY <1>1, <1>2 DEF Server

\* Before the first accept every variable has its type.
LEMMA InitType == Init => TypeInv
<1> SUFFICES ASSUME Init PROVE TypeInv
  OBVIOUS
<1>1. queue \in Seq(Conns) /\ delivered \in [Conns -> Seq(Chunk)]
  BY DEF Init
<1>2. chunk \in [Threads -> Chunk]
  BY DEF Init, NoChunk, Chunk
<1>3. /\ tpc \in [Threads -> ThreadStates]
      /\ peer \in [Conns -> PeerStates]
      /\ BlockedHasConn
  BY DEF Init, PeerStates, ThreadStates, BlockedHasConn
<1>4. /\ fdTable \in [Fds -> Conns \cup {NoConn}]
      /\ socket \in [Threads -> Fds \cup {NoFd}]
      /\ rxConn \in [Threads -> Conns \cup {NoConn}]
  BY DEF Init
<1> QED
  BY <1>1, <1>2, <1>3, <1>4 DEF Init, TypeInv, TypeOK

\* Every step of main, of a thread, of the server or of a client keeps the types.
LEMMA NextType == TypeInv /\ [Next]_vars => TypeInv'
<1> SUFFICES ASSUME TypeInv, [Next]_vars PROVE TypeInv'
  OBVIOUS
<1>1. CASE UNCHANGED vars
  BY <1>1 DEF TypeInv, TypeOK, BlockedHasConn, vars
<1>2. CASE Next
  BY <1>2, ClientType, AcceptorType, HandlerType, ServerType DEF Next
<1> QED  BY <1>1, <1>2

\* Every variable of the gateway stays in its type, for any number of
\* connections, threads, descriptors and segments.
THEOREM TypeCorrect == Spec => []TypeOK
<1>1. TypeInv => TypeOK
  BY DEF TypeInv
<1> QED  BY <1>1, InitType, NextType, PTL DEF Spec

-----------------------------------------------------------------------------
(* No byte is handled twice.                                               *)

\* What has been handed out lies below taken: RecvData starts above it.
BelowTaken(ch) == ch.conn \in Conns /\ ch.hi <= taken[ch.conn]

HeldBelowTaken == \A t \in Threads : Holding(t) => BelowTaken(chunk[t])

DeliveredBelowTaken ==
    \A c \in Conns : \A i \in DOMAIN delivered[c] : BelowTaken(delivered[c][i])

ChunkInv == HeldBelowTaken /\ DeliveredBelowTaken /\ NoChunkTwice

\* Steps that take nothing from a stream and start no new work keep ChunkInv.
LEMMA ChunkFrame ==
    ASSUME ChunkInv, UNCHANGED <<chunk, taken, delivered>>,
           \A u \in Threads : Holding(u)' => Holding(u)
    PROVE  ChunkInv'
BY DEF ChunkInv, HeldBelowTaken, DeliveredBelowTaken, BelowTaken, NoChunkTwice, Overlap

\* The end of the process: no thread holds anything any more.
LEMMA ChunkDie ==
    ASSUME TypeInv, ChunkInv, NEW why, Die(why)
    PROVE  ChunkInv'
<1>1. \A u \in Threads : ~Holding(u)'
  BY DEF Die, Holding
<1> QED  BY <1>1, ChunkFrame DEF Die, clientVars

\* RecvData takes bytes above everything handed out before.
LEMMA ChunkRecvData ==
    ASSUME TypeInv, ChunkInv, NEW t \in Threads, RecvData(t)
    PROVE  ChunkInv'
<1> USE DEF TypeInv, TypeOK
<1> DEFINE c == rxConn[t]
           new == chunk'[t]
<1>1. c \in Conns /\ taken[c] \in Nat /\ sent[c] \in Nat
  BY DEF RecvData, BlockedHasConn
<1>2. PICK hi \in Receivable(c) :
          /\ chunk' = [chunk EXCEPT ![t] = [conn |-> c, lo |-> taken[c] + 1, hi |-> hi]]
          /\ taken' = [taken EXCEPT ![c] = hi]
  BY DEF RecvData
<1>3. hi \in Nat /\ taken[c] < hi
  BY <1>1, <1>2 DEF Receivable
<1>4. new = [conn |-> c, lo |-> taken[c] + 1, hi |-> hi]
  BY <1>2
<1>5. \A u \in Threads \ {t} : chunk'[u] = chunk[u] /\ (Holding(u)' <=> Holding(u))
  BY <1>2 DEF RecvData, Holding
<1>6. \A d \in Conns : taken[d] <= taken'[d] /\ taken'[d] \in Nat /\ taken[d] \in Nat
  BY <1>1, <1>2, <1>3
<1>7. ASSUME NEW x \in Chunk, BelowTaken(x)
      PROVE  BelowTaken(x)' /\ ~Overlap(new, x) /\ ~Overlap(x, new)
  <2>1. x.conn \in Conns /\ x.hi \in Nat /\ x.lo \in Nat /\ x.hi <= taken[x.conn]
    BY <1>7 DEF BelowTaken, Chunk
  <2>2. x.hi <= taken'[x.conn]
    BY <1>6, <2>1
  <2>3. ~(x.conn = c /\ taken[c] + 1 <= x.hi)
    BY <1>1, <2>1
  <2> QED  BY <1>4, <2>1, <2>2, <2>3 DEF BelowTaken, Overlap
<1>8. HeldBelowTaken'
  <2>1. BelowTaken(chunk[t])'
    BY <1>1, <1>2, <1>3, <1>4 DEF BelowTaken
  <2> QED  BY <1>5, <1>7, <2>1 DEF HeldBelowTaken, ChunkInv, BelowTaken
<1>9. /\ UNCHANGED delivered
      /\ \A d \in Conns : \A i \in DOMAIN delivered[d] :
            delivered[d][i] \in Chunk /\ BelowTaken(delivered[d][i])
  BY ElementOfSeq DEF ChunkInv, DeliveredBelowTaken, RecvData, clientVars
<1>10. DeliveredBelowTaken'
  BY <1>7, <1>9 DEF DeliveredBelowTaken, BelowTaken
<1>11. NoChunkTwice'
  <2>1. \A u \in Threads \ {t} : Holding(u) => ~Overlap(new, chunk[u]) /\ ~Overlap(chunk[u], new)
    BY <1>7 DEF ChunkInv, HeldBelowTaken
  <2>2. \A d \in Conns : \A i \in DOMAIN delivered[d] : ~Overlap(new, delivered[d][i])
    BY <1>7, <1>9
  <2> QED  BY <1>5, <1>9, <2>1, <2>2 DEF NoChunkTwice, ChunkInv, Overlap
<1> QED  BY <1>8, <1>10, <1>11 DEF ChunkInv

\* SendBack moves a chunk from the thread to the answers of one connection.
LEMMA ChunkSendBack ==
    ASSUME TypeInv, ChunkInv, NEW t \in Threads, SendBack(t)
    PROVE  ChunkInv'
<1> USE DEF TypeInv, TypeOK
<1>1. /\ UNCHANGED <<chunk, taken>>
      /\ ~Holding(t)'
      /\ \A u \in Threads \ {t} : Holding(u)' => Holding(u)
  BY DEF SendBack, Holding
<1>2. CASE UNCHANGED delivered
  BY <1>1, <1>2, ChunkFrame
<1>3. CASE /\ Target(t) \in Conns
           /\ delivered' = [delivered EXCEPT ![Target(t)] = Append(@, chunk[t])]
  <2>1. Holding(t)
    BY DEF SendBack, Holding
  <2>2. ASSUME NEW d \in Conns, NEW i \in DOMAIN delivered'[d]
        PROVE  \/ delivered'[d][i] = chunk[t]
               \/ i \in DOMAIN delivered[d] /\ delivered'[d][i] = delivered[d][i]
    <3>1. CASE d = Target(t)
      <4>1. delivered'[d] = Append(delivered[d], chunk[t])
        BY <1>3, <3>1
      <4>2. delivered[d] \in Seq(Chunk) /\ chunk[t] \in Chunk
        OBVIOUS
      <4> QED  BY <4>1, <4>2, AppendProperties
    <3>2. CASE d # Target(t)
      BY <1>3, <3>2
    <3> QED  BY <3>1, <3>2
  <2>3. HeldBelowTaken'
    BY <1>1 DEF HeldBelowTaken, ChunkInv, BelowTaken
  <2>4. DeliveredBelowTaken'
    BY <1>1, <2>1, <2>2 DEF DeliveredBelowTaken, HeldBelowTaken, ChunkInv, BelowTaken
  <2>5. NoChunkTwice'
    BY <1>1, <2>1, <2>2 DEF NoChunkTwice, ChunkInv, Overlap
  <2> QED  BY <2>3, <2>4, <2>5 DEF ChunkInv
<1>4. FarEnd(t) = "open" => Target(t) \in Conns
  BY DEF FarEnd, Target
<1> QED  BY <1>2, <1>3, <1>4 DEF SendBack

\* Every step keeps ChunkInv.
LEMMA NextChunk == TypeInv /\ ChunkInv /\ [Next]_vars => ChunkInv'
<1> SUFFICES ASSUME TypeInv, ChunkInv, [Next]_vars PROVE ChunkInv'
  OBVIOUS
<1> USE DEF TypeInv, TypeOK, Holding, clientVars, threadVars
<1>1. CASE UNCHANGED vars
  BY <1>1, ChunkFrame DEF vars
<1>2. CASE Acceptor
  <2>1. UNCHANGED <<chunk, taken, delivered>>
    BY <1>2 DEF Acceptor, Accept, AcceptFail, CreateFail, CreateThread
  <2>2. \A u \in Threads : Holding(u)' => Holding(u)
    BY <1>2 DEF Acceptor, Accept, AcceptFail, CreateFail, CreateThread
  <2> QED  BY <2>1, <2>2, ChunkFrame
<1>3. ASSUME NEW c \in Conns, Client(c) PROVE ChunkInv'
  BY <1>3, ChunkFrame DEF Client, Connect, ClientWrite, ClientClose
<1>4. ASSUME NEW t \in Threads, Server(t) PROVE ChunkInv'
  <2>1. UNCHANGED <<chunk, taken, delivered>>
    BY <1>4 DEF Server, ZmqReply, ZmqDown
  <2>2. \A u \in Threads : Holding(u)' => Holding(u)
    BY <1>4 DEF Server, ZmqReply, ZmqDown
  <2> QED  BY <2>1, <2>2, ChunkFrame
<1>5. ASSUME NEW t \in Threads, Handler(t) PROVE ChunkInv'
  <2>1. CASE RecvData(t)
    BY <2>1, ChunkRecvData
  <2>2. CASE SendBack(t)
    BY <2>2, ChunkSendBack
  <2>3. CASE RecvOverrun(t) \/ ZmqNoFds(t) \/ SendKilled(t)
    BY <2>3, ChunkDie DEF RecvOverrun, ZmqNoFds, SendKilled
  <2>4. CASE ReadSocket(t) \/ RecvCall(t) \/ RecvEnd(t) \/ ZmqSend(t) \/ CloseSocket(t)
    <3>1. UNCHANGED <<chunk, taken, delivered>>
      BY <2>4 DEF ReadSocket, RecvCall, RecvEnd, ZmqSend, CloseSocket
    <3>2. \A u \in Threads : Holding(u)' => Holding(u)
      BY <2>4 DEF ReadSocket, RecvCall, RecvEnd, ZmqSend, CloseSocket
    <3> QED  BY <3>1, <3>2, ChunkFrame
  <2> QED  BY <1>5, <2>1, <2>2, <2>3, <2>4 DEF Handler
<1> QED  BY <1>1, <1>2, <1>3, <1>4, <1>5 DEF Next

\* Nothing has been received yet.
LEMMA InitChunk == Init => ChunkInv
BY DEF Init, ChunkInv, HeldBelowTaken, DeliveredBelowTaken, NoChunkTwice, Holding

\* With any number of clients and threads, and even when the race on
\* clientSocket makes threads share a connection, no byte of a client goes into
\* two requests and none is answered twice.
THEOREM ChunksHandledOnce == Spec => []NoChunkTwice
<1>1. ChunkInv => NoChunkTwice
  BY DEF ChunkInv
<1> QED  BY <1>1, InitType, NextType, InitChunk, NextChunk, PTL DEF Spec

-----------------------------------------------------------------------------
(* One thread per connection, as long as the race has not happened.        *)

\* A process that has ended holds no descriptor and runs no thread.
EndedIsEmpty ==
    ~alive =>
        /\ \A t \in Threads : tpc[t] \in {"idle", "done"}
        /\ \A fd \in Fds : fdTable[fd] = NoConn

\* clientSocket is passed to one thread at a time, and holds an open descriptor
\* that no other thread uses until that thread has read it.
HandoverSafe ==
    /\ apc = "create" => ~ReadPending
    /\ \A t, u \in Threads : tpc[t] = "created" /\ tpc[u] = "created" => t = u
    /\ apc = "create" \/ ReadPending =>
        /\ clientSocket \in Fds
        /\ fdTable[clientSocket] # NoConn
        /\ \A t \in Threads : Serving(t) => socket[t] # clientSocket

OwnershipInv ==
    /\ EndedIsEmpty
    /\ ~raced /\ alive => HandoverSafe
    /\ OneThreadPerConnection

\* Steps inside a thread's loop, and the clients' steps, keep OwnershipInv.
LEMMA OwnershipFrame ==
    ASSUME OwnershipInv,
           UNCHANGED <<ended, apc, clientSocket, fdTable, socket, raced, unserved>>,
           \A u \in Threads :
                /\ tpc'[u] # tpc[u] => alive
                /\ Serving(u)' <=> Serving(u)
                /\ tpc'[u] = "created" <=> tpc[u] = "created"
    PROVE  OwnershipInv'
<1>1. EndedIsEmpty'
  BY DEF OwnershipInv, EndedIsEmpty, alive
<1>2. ReadPending' <=> ReadPending
  BY DEF ReadPending
<1>3. (~raced /\ alive => HandoverSafe)'
  BY <1>2 DEF OwnershipInv, HandoverSafe, alive
<1>4. \A u \in Threads : Target(u)' = Target(u)
  BY DEF Target
<1>5. SocketsExclusive => SocketsExclusive'
  BY <1>4 DEF SocketsExclusive
<1>6. NoneForgotten => NoneForgotten'
  BY <1>2 DEF NoneForgotten, InHandover
<1> QED  BY <1>1, <1>3, <1>5, <1>6 DEF OwnershipInv, OneThreadPerConnection

\* The end of the process leaves no thread and no descriptor.
LEMMA OwnershipDie ==
    ASSUME TypeInv, OwnershipInv,
           NEW why \in {"sigpipe", "overrun", "nofds"}, Die(why)
    PROVE  OwnershipInv'
<1>1. \A u \in Threads : tpc'[u] \in {"idle", "done"} /\ ~Serving(u)'
  BY DEF Die, Serving
<1>2. \A fd \in Fds : fdTable'[fd] = NoConn
  BY DEF Die
<1>3. ~alive'
  BY DEF Die, alive
<1> QED
  BY <1>1, <1>2, <1>3 DEF OwnershipInv, EndedIsEmpty, OneThreadPerConnection,
                          SocketsExclusive, NoneForgotten

\* accept stores a descriptor nobody uses in a clientSocket nobody still reads.
LEMMA OwnershipAccept ==
    ASSUME TypeInv, OwnershipInv, Accept
    PROVE  OwnershipInv'
<1> USE DEF TypeInv, TypeOK
<1>1. PICK fd \in Fds : /\ fdTable[fd] = NoConn
                        /\ clientSocket' = fd
                        /\ fdTable' = [fdTable EXCEPT ![fd] = Head(queue)]
  BY DEF Accept, LowestFree, FreeFds
<1>2. Head(queue) # NoConn
  BY GatewayAssumption, HeadTailProperties DEF Accept
<1>3. /\ UNCHANGED <<ended, tpc, socket, unserved>>
      /\ alive /\ apc = "accept" /\ apc' = "create"
      /\ raced' = (raced \/ ReadPending)
  BY DEF Accept, threadVars
<1>4. EndedIsEmpty'
  BY <1>3 DEF EndedIsEmpty, alive
<1>5. CASE raced'
  BY <1>4, <1>5 DEF OwnershipInv, OneThreadPerConnection
<1>6. CASE ~raced'
  <2>1. ~raced /\ ~ReadPending /\ ~ReadPending'
    BY <1>3, <1>6 DEF ReadPending
  <2>2. SocketsExclusive /\ NoneForgotten
    BY <2>1 DEF OwnershipInv, OneThreadPerConnection
  <2>3. \A t \in Threads : Serving(t) => socket[t] # fd
    BY <1>1, <2>2 DEF SocketsExclusive, Target
  <2>4. HandoverSafe'
    BY <1>1, <1>2, <1>3, <2>1, <2>3 DEF HandoverSafe, ReadPending, Serving
  <2>5. SocketsExclusive'
    BY <1>1, <1>3, <2>2, <2>3 DEF SocketsExclusive, Target, Serving
  <2>6. NoneForgotten'
    BY <1>1, <1>3, <2>1, <2>2 DEF NoneForgotten, InHandover, Serving
  <2> QED  BY <1>4, <2>4, <2>5, <2>6 DEF OwnershipInv, OneThreadPerConnection
<1> QED  BY <1>5, <1>6

\* A failing accept stores -1; without the race nobody was about to read it.
LEMMA OwnershipAcceptFail ==
    ASSUME TypeInv, OwnershipInv, AcceptFail
    PROVE  OwnershipInv'
<1>1. /\ UNCHANGED <<ended, apc, fdTable, tpc, socket, unserved>>
      /\ alive /\ apc = "accept"
      /\ raced' = (raced \/ ReadPending)
  BY DEF AcceptFail, threadVars
<1>2. EndedIsEmpty'
  BY <1>1 DEF EndedIsEmpty, alive
<1>3. CASE raced'
  BY <1>2, <1>3 DEF OwnershipInv, OneThreadPerConnection
<1>4. CASE ~raced'
  <2>1. ~raced /\ ~ReadPending /\ ~ReadPending'
    BY <1>1, <1>4 DEF ReadPending, TypeInv, TypeOK
  <2>2. SocketsExclusive /\ NoneForgotten /\ HandoverSafe
    BY <1>1, <2>1 DEF OwnershipInv, OneThreadPerConnection
  <2>3. HandoverSafe'
    BY <1>1, <2>1, <2>2 DEF HandoverSafe
  <2>4. SocketsExclusive'
    BY <1>1, <2>2 DEF SocketsExclusive, Target, Serving
  <2>5. NoneForgotten'
    BY <1>1, <2>1, <2>2 DEF NoneForgotten, InHandover, Serving
  <2> QED  BY <1>2, <2>3, <2>4, <2>5 DEF OwnershipInv, OneThreadPerConnection
<1> QED  BY <1>3, <1>4

\* pthread_create passes the descriptor in clientSocket on to one thread.
LEMMA OwnershipCreate ==
    ASSUME TypeInv, OwnershipInv, NEW t \in Threads, CreateThread(t)
    PROVE  OwnershipInv'
<1> USE DEF TypeInv, TypeOK
<1>1. /\ UNCHANGED <<ended, clientSocket, fdTable, socket, raced, unserved>>
      /\ alive /\ apc = "create" /\ apc' = "accept"
      /\ tpc[t] = "idle" /\ tpc' = [tpc EXCEPT ![t] = "created"]
  BY DEF CreateThread
<1>2. EndedIsEmpty'
  BY <1>1 DEF EndedIsEmpty, alive
<1>3. \A u \in Threads : Serving(u)' <=> Serving(u)
  BY <1>1 DEF Serving
<1>4. CASE raced
  BY <1>1, <1>2, <1>4 DEF OwnershipInv, OneThreadPerConnection
<1>5. CASE ~raced
  <2>1. SocketsExclusive /\ NoneForgotten /\ HandoverSafe
    BY <1>1, <1>5 DEF OwnershipInv, OneThreadPerConnection
  <2>2. ReadPending'
    BY <1>1 DEF ReadPending
  <2>3. HandoverSafe'
    BY <1>1, <1>3, <2>1, <2>2 DEF HandoverSafe, ReadPending
  <2>4. SocketsExclusive'
    BY <1>1, <1>3, <2>1 DEF SocketsExclusive, Target
  <2>5. NoneForgotten'
    BY <1>1, <1>3, <2>1, <2>2 DEF NoneForgotten, InHandover
  <2> QED  BY <1>2, <2>3, <2>4, <2>5 DEF OwnershipInv, OneThreadPerConnection
<1> QED  BY <1>4, <1>5

\* pthread_create fails: the connection joins the unserved ones.
LEMMA OwnershipCreateFail ==
    ASSUME TypeInv, OwnershipInv, CreateFail
    PROVE  OwnershipInv'
<1> USE DEF TypeInv, TypeOK
<1>1. /\ UNCHANGED <<ended, clientSocket, fdTable, tpc, socket, raced>>
      /\ alive /\ apc = "create" /\ apc' = "accept"
      /\ unserved' = unserved \cup {c \in Conns : \E fd \in Fds :
                                        clientSocket = fd /\ fdTable[fd] = c}
  BY DEF CreateFail, threadVars
<1>2. EndedIsEmpty'
  BY <1>1 DEF EndedIsEmpty, alive
<1>3. CASE raced
  BY <1>1, <1>2, <1>3 DEF OwnershipInv, OneThreadPerConnection
<1>4. CASE ~raced
  <2>1. SocketsExclusive /\ NoneForgotten /\ HandoverSafe
    BY <1>1, <1>4 DEF OwnershipInv, OneThreadPerConnection
  <2>2. ~ReadPending'
    BY <1>1, <2>1 DEF HandoverSafe, ReadPending
  <2>3. HandoverSafe'
    BY <1>1, <2>1, <2>2 DEF HandoverSafe, ReadPending
  <2>4. SocketsExclusive'
    BY <1>1, <2>1 DEF SocketsExclusive, Target, Serving
  <2>5. NoneForgotten'
    BY <1>1, <2>1 DEF NoneForgotten, InHandover, Serving
  <2> QED  BY <1>2, <2>3, <2>4, <2>5 DEF OwnershipInv, OneThreadPerConnection
<1> QED  BY <1>3, <1>4

\* The thread takes the descriptor over from clientSocket.
LEMMA OwnershipReadSocket ==
    ASSUME TypeInv, OwnershipInv, NEW t \in Threads, ReadSocket(t)
    PROVE  OwnershipInv'
<1> USE DEF TypeInv, TypeOK
<1>1. /\ UNCHANGED <<ended, apc, clientSocket, fdTable, raced, unserved>>
      /\ alive
      /\ tpc[t] = "created" /\ tpc' = [tpc EXCEPT ![t] = "recv"]
      /\ socket' = [socket EXCEPT ![t] = clientSocket]
  BY DEF ReadSocket
<1>2. EndedIsEmpty'
  BY <1>1 DEF EndedIsEmpty, alive
<1>3. CASE raced
  BY <1>1, <1>2, <1>3 DEF OwnershipInv, OneThreadPerConnection
<1>4. CASE ~raced
  <2>1. SocketsExclusive /\ NoneForgotten /\ HandoverSafe
    BY <1>1, <1>4 DEF OwnershipInv, OneThreadPerConnection
  <2>2. ReadPending /\ apc = "accept"
    BY <1>1, <2>1 DEF HandoverSafe, ReadPending
  <2>3. ~ReadPending'
    BY <1>1, <2>1 DEF HandoverSafe, ReadPending
  <2>4. /\ clientSocket \in Fds
        /\ fdTable[clientSocket] # NoConn
        /\ \A u \in Threads : Serving(u) => socket[u] # clientSocket
    BY <2>1, <2>2 DEF HandoverSafe
  <2>5. /\ Serving(t)' /\ socket'[t] = clientSocket
        /\ \A u \in Threads \ {t} : socket'[u] = socket[u] /\ (Serving(u)' <=> Serving(u))
    BY <1>1 DEF Serving
  <2>6. ~Serving(t)
    BY <1>1 DEF Serving
  <2>7. HandoverSafe'
    BY <1>1, <2>2, <2>3 DEF HandoverSafe, ReadPending
  <2>8. SocketsExclusive'
    BY <1>1, <2>1, <2>4, <2>5 DEF SocketsExclusive, Target
  <2>9. NoneForgotten'
    BY <1>1, <2>1, <2>2, <2>5, <2>6 DEF NoneForgotten, InHandover
  <2> QED  BY <1>2, <2>7, <2>8, <2>9 DEF OwnershipInv, OneThreadPerConnection
<1> QED  BY <1>3, <1>4

\* close frees a descriptor that only this thread uses.
LEMMA OwnershipClose ==
    ASSUME TypeInv, OwnershipInv, NEW t \in Threads, CloseSocket(t)
    PROVE  OwnershipInv'
<1> USE DEF TypeInv, TypeOK
<1>1. /\ UNCHANGED <<ended, apc, clientSocket, socket, raced, unserved>>
      /\ alive
      /\ tpc[t] = "close" /\ tpc' = [tpc EXCEPT ![t] = "done"]
  BY DEF CloseSocket, clientVars
<1>2. EndedIsEmpty'
  BY <1>1 DEF EndedIsEmpty, alive
<1>3. CASE raced
  BY <1>1, <1>2, <1>3 DEF OwnershipInv, OneThreadPerConnection
<1>4. CASE ~raced
  <2>1. SocketsExclusive /\ NoneForgotten /\ HandoverSafe
    BY <1>1, <1>4 DEF OwnershipInv, OneThreadPerConnection
  <2>2. Serving(t) /\ ~Serving(t)'
    BY <1>1 DEF Serving
  <2>3. /\ socket[t] \in Fds
        /\ \A u \in Threads \ {t} : Serving(u) => socket[u] # socket[t]
    BY <2>1, <2>2 DEF SocketsExclusive, Target
  <2>4. fdTable' = [fdTable EXCEPT ![socket[t]] = NoConn]
    BY <2>3 DEF CloseSocket
  <2>5. \A u \in Threads \ {t} : Serving(u)' <=> Serving(u)
    BY <1>1 DEF Serving
  <2>6. ReadPending' <=> ReadPending
    BY <1>1 DEF ReadPending
  <2>7. HandoverSafe'
    BY <1>1, <2>1, <2>2, <2>4, <2>5, <2>6 DEF HandoverSafe
  <2>8. SocketsExclusive'
    BY <1>1, <2>1, <2>2, <2>3, <2>4, <2>5 DEF SocketsExclusive, Target
  <2>9. NoneForgotten'
    BY <1>1, <2>1, <2>2, <2>3, <2>4, <2>5, <2>6 DEF NoneForgotten, InHandover
  <2> QED  BY <1>2, <2>7, <2>8, <2>9 DEF OwnershipInv, OneThreadPerConnection
<1> QED  BY <1>3, <1>4

\* Every step keeps OwnershipInv.
LEMMA NextOwnership == TypeInv /\ OwnershipInv /\ [Next]_vars => OwnershipInv'
<1> SUFFICES ASSUME TypeInv, OwnershipInv, [Next]_vars PROVE OwnershipInv'
  OBVIOUS
<1> USE DEF TypeInv, TypeOK, Serving, clientVars, threadVars
<1>1. CASE UNCHANGED vars
  BY <1>1, OwnershipFrame DEF vars
<1>2. CASE Acceptor
  BY <1>2, OwnershipAccept, OwnershipAcceptFail, OwnershipCreate,
     OwnershipCreateFail DEF Acceptor
<1>3. ASSUME NEW c \in Conns, Client(c) PROVE OwnershipInv'
  BY <1>3, OwnershipFrame DEF Client, Connect, ClientWrite, ClientClose
<1>4. ASSUME NEW t \in Threads, Server(t) PROVE OwnershipInv'
  <2>1. CASE ZmqReply(t)
    BY <2>1, OwnershipFrame DEF ZmqReply
  <2>2. CASE ZmqDown(t)
    BY <2>2, OwnershipFrame DEF ZmqDown
  <2> QED  BY <1>4, <2>1, <2>2 DEF Server
<1>5. ASSUME NEW t \in Threads, Handler(t) PROVE OwnershipInv'
  <2>1. CASE ReadSocket(t)
    BY <2>1, OwnershipReadSocket
  <2>2. CASE CloseSocket(t)
    BY <2>2, OwnershipClose
  <2>3. CASE RecvOverrun(t) \/ ZmqNoFds(t) \/ SendKilled(t)
    BY <2>3, OwnershipDie DEF RecvOverrun, ZmqNoFds, SendKilled
  <2>4. CASE RecvCall(t)
    BY <2>4, OwnershipFrame DEF RecvCall
  <2>5. CASE RecvData(t)
    BY <2>5, OwnershipFrame DEF RecvData
  <2>6. CASE RecvEnd(t)
    BY <2>6, OwnershipFrame DEF RecvEnd
  <2>7. CASE ZmqSend(t)
    BY <2>7, OwnershipFrame DEF ZmqSend
  <2>8. CASE SendBack(t)
    BY <2>8, OwnershipFrame DEF SendBack
  <2> QED
    BY <1>5, <2>1, <2>2, <2>3, <2>4, <2>5, <2>6, <2>7, <2>8 DEF Handler
<1> QED  BY <1>1, <1>2, <1>3, <1>4, <1>5 DEF Next

\* Neither thread nor descriptor exists yet.
LEMMA InitOwnership == Init => OwnershipInv
BY DEF Init, OwnershipInv, EndedIsEmpty, HandoverSafe, OneThreadPerConnection,
       SocketsExclusive, NoneForgotten, ReadPending, Serving, alive

\* As long as no accept overtakes a thread's read of clientSocket, threads and
\* accepted connections correspond one to one, for any number of clients.
THEOREM ConnectionsOwned == Spec => []OneThreadPerConnection
<1>1. OwnershipInv => OneThreadPerConnection
  BY DEF OwnershipInv
<1> QED  BY <1>1, InitType, NextType, InitOwnership, NextOwnership, PTL DEF Spec

-----------------------------------------------------------------------------
(* Replies return to their connection, in order.                           *)

\* A connection is queued or accepted at most once.
Unique ==
    /\ \A f, g \in Fds : fdTable[f] # NoConn /\ fdTable[f] = fdTable[g] => f = g
    /\ \A i \in DOMAIN queue : \A f \in Fds : queue[i] # fdTable[f]
    /\ \A i, j \in DOMAIN queue : queue[i] = queue[j] => i = j
    /\ \A i \in DOMAIN queue : peer[queue[i]] # "none"
    /\ \A f \in Fds : fdTable[f] # NoConn => peer[fdTable[f]] # "none"

\* A thread reads from, and works for, the connection its socket refers to.
Routed ==
    \A t \in Threads :
        /\ tpc[t] = "blocked" => rxConn[t] = Target(t)
        /\ Holding(t) => chunk[t].conn = Target(t)

\* What a thread holds comes after everything its connection was answered.
HeldLater ==
    \A t \in Threads : Holding(t) =>
        \A i \in DOMAIN delivered[chunk[t].conn] :
            delivered[chunk[t].conn][i].hi < chunk[t].lo

\* Steps that leave the queue and the descriptors alone keep Unique.
LEMMA UniqueFrame ==
    ASSUME TypeInv, Unique, UNCHANGED <<fdTable, queue>>,
           \A c \in Conns : peer[c] # "none" => peer'[c] # "none"
    PROVE  Unique'
<1>1. \A i \in DOMAIN queue : queue[i] \in Conns
  BY ElementOfSeq DEF TypeInv, TypeOK
<1>2. \A f \in Fds : fdTable[f] # NoConn => fdTable[f] \in Conns
  BY DEF TypeInv, TypeOK
<1> QED  BY <1>1, <1>2 DEF Unique

\* Steps that only close descriptors keep Unique.
LEMMA UniqueClose ==
    ASSUME TypeInv, Unique, UNCHANGED <<queue, peer>>,
           \A f \in Fds : fdTable'[f] \in {fdTable[f], NoConn}
    PROVE  Unique'
<1>1. \A i \in DOMAIN queue : queue[i] \in Conns /\ queue[i] # NoConn
  BY ElementOfSeq, GatewayAssumption DEF TypeInv, TypeOK
<1> QED  BY <1>1 DEF Unique

\* A new connection enters the listen queue once.
LEMMA UniqueConnect ==
    ASSUME TypeInv, Unique, NEW c \in Conns, Connect(c)
    PROVE  Unique'
<1> USE DEF TypeInv, TypeOK
<1>1. /\ queue \in Seq(Conns)
      /\ queue' = Append(queue, c)
      /\ peer[c] = "none"
      /\ peer' = [peer EXCEPT ![c] = "open"]
      /\ UNCHANGED fdTable
  BY DEF Connect
<1>2. ASSUME NEW i \in DOMAIN queue'
      PROVE  \/ i \in DOMAIN queue /\ queue'[i] = queue[i] /\ i # Len(queue) + 1
             \/ i = Len(queue) + 1 /\ queue'[i] = c
  BY <1>1, AppendProperties
<1>3. \A i \in DOMAIN queue : queue[i] \in Conns /\ queue[i] # c
  BY <1>1, ElementOfSeq DEF Unique
<1>4. \A f \in Fds : fdTable[f] # c
  BY <1>1, GatewayAssumption DEF Unique
<1>5. \A f, g \in Fds : fdTable'[f] # NoConn /\ fdTable'[f] = fdTable'[g] => f = g
  BY <1>1 DEF Unique
<1>6. \A i \in DOMAIN queue' : \A f \in Fds : queue'[i] # fdTable'[f]
  BY <1>1, <1>2, <1>4 DEF Unique
<1>7. \A i, j \in DOMAIN queue' : queue'[i] = queue'[j] => i = j
  BY <1>2, <1>3 DEF Unique
<1>8. \A i \in DOMAIN queue' : peer'[queue'[i]] # "none"
  BY <1>1, <1>2, <1>3 DEF Unique
<1>9. \A f \in Fds : fdTable'[f] # NoConn => peer'[fdTable'[f]] # "none"
  BY <1>1, <1>4 DEF Unique
<1> QED  BY <1>5, <1>6, <1>7, <1>8, <1>9 DEF Unique

\* accept moves the connection at the head of the queue to one descriptor.
LEMMA UniqueAccept ==
    ASSUME TypeInv, Unique, Accept
    PROVE  Unique'
<1> USE DEF TypeInv, TypeOK
<1>1. PICK fd \in Fds : /\ fdTable[fd] = NoConn
                        /\ fdTable' = [fdTable EXCEPT ![fd] = Head(queue)]
  BY DEF Accept, LowestFree, FreeFds
<1>2. /\ queue \in Seq(Conns) /\ queue # <<>> /\ queue' = Tail(queue)
      /\ UNCHANGED peer
  BY DEF Accept
<1>3. Head(queue) = queue[1] /\ 1 \in DOMAIN queue
  BY <1>2
<1>4. ASSUME NEW i \in DOMAIN queue'
      PROVE  i + 1 \in DOMAIN queue /\ queue'[i] = queue[i + 1] /\ i \in Nat /\ i + 1 # 1
  BY <1>2
<1>5. \A i \in DOMAIN queue : queue[i] \in Conns
  BY <1>2, ElementOfSeq
<1>6. \A i \in DOMAIN queue' : queue'[i] # queue[1]
  BY <1>3, <1>4 DEF Unique
<1>7. \A i, j \in DOMAIN queue' : queue'[i] = queue'[j] => i = j
  <2> SUFFICES ASSUME NEW i \in DOMAIN queue', NEW j \in DOMAIN queue',
                      queue'[i] = queue'[j]
               PROVE  i = j
    OBVIOUS
  <2>1. i + 1 = j + 1
    BY <1>4 DEF Unique
  <2> QED  BY <1>4, <2>1
<1>8. \A f, g \in Fds : fdTable'[f] # NoConn /\ fdTable'[f] = fdTable'[g] => f = g
  BY <1>1, <1>3, <1>5 DEF Unique
<1>9. \A i \in DOMAIN queue' : \A f \in Fds : queue'[i] # fdTable'[f]
  BY <1>1, <1>3, <1>4, <1>6 DEF Unique
<1>10. \A i \in DOMAIN queue' : peer'[queue'[i]] # "none"
  BY <1>2, <1>4 DEF Unique
<1>11. \A f \in Fds : fdTable'[f] # NoConn => peer'[fdTable'[f]] # "none"
  BY <1>1, <1>2, <1>3 DEF Unique
<1> QED  BY <1>7, <1>8, <1>9, <1>10, <1>11 DEF Unique

\* A connection is never accepted twice, on any step.
LEMMA NextUnique == TypeInv /\ Unique /\ [Next]_vars => Unique'
<1> SUFFICES ASSUME TypeInv, Unique, [Next]_vars PROVE Unique'
  OBVIOUS
<1> USE DEF TypeInv, TypeOK, clientVars, threadVars
<1>1. CASE UNCHANGED vars
  BY <1>1, UniqueFrame DEF vars
<1>2. CASE Acceptor
  <2>1. CASE Accept
    BY <2>1, UniqueAccept
  <2>2. CASE AcceptFail \/ CreateFail \/ \E t \in Threads : CreateThread(t)
    BY <2>2, UniqueFrame DEF AcceptFail, CreateFail, CreateThread
  <2> QED  BY <1>2, <2>1, <2>2 DEF Acceptor
<1>3. ASSUME NEW c \in Conns, Client(c) PROVE Unique'
  <2>1. CASE Connect(c)
    BY <2>1, UniqueConnect
  <2>2. CASE ClientWrite(c) \/ ClientClose(c)
    BY <2>2, UniqueFrame DEF ClientWrite, ClientClose
  <2> QED  BY <1>3, <2>1, <2>2 DEF Client
<1>4. ASSUME NEW t \in Threads, Server(t) PROVE Unique'
  BY <1>4, UniqueFrame DEF Server, ZmqReply, ZmqDown
<1>5. ASSUME NEW t \in Threads, Handler(t) PROVE Unique'
  <2>1. CASE RecvOverrun(t) \/ ZmqNoFds(t) \/ SendKilled(t)
    BY <2>1, UniqueClose DEF RecvOverrun, ZmqNoFds, SendKilled, Die
  <2>2. CASE CloseSocket(t)
    BY <2>2, UniqueClose DEF CloseSocket
  <2>3. CASE SendBack(t)
    BY <2>3, UniqueFrame DEF SendBack
  <2>4. CASE ReadSocket(t) \/ RecvCall(t) \/ RecvData(t) \/ RecvEnd(t) \/ ZmqSend(t)
    BY <2>4, UniqueFrame DEF ReadSocket, RecvCall, RecvData, RecvEnd, ZmqSend
  <2> QED  BY <1>5, <2>1, <2>2, <2>3, <2>4 DEF Handler
<1> QED  BY <1>1, <1>2, <1>3, <1>4, <1>5 DEF Next

\* What the descriptor race can spoil, and what it cannot as long as it has not
\* happened.
RouteInv == (~raced => Routed /\ HeldLater) /\ RepliesReturn

\* The race is not forgotten.
LEMMA RacedStays == TypeInv /\ [Next]_vars /\ ~raced' => ~raced
BY DEF Next, vars, Acceptor, Accept, AcceptFail, CreateFail, CreateThread, Client,
       Connect, ClientWrite, ClientClose, Server, ZmqReply, ZmqDown, Handler,
       ReadSocket, RecvCall, RecvData, RecvOverrun, RecvEnd, ZmqSend, ZmqNoFds,
       SendBack, SendKilled, CloseSocket, Die, threadVars, clientVars, TypeInv, TypeOK

\* Steps that answer nothing, receive nothing and leave the descriptors of the
\* working threads alone keep RouteInv.
LEMMA RouteFrame ==
    ASSUME RouteInv, ~raced' => ~raced,
           UNCHANGED <<chunk, delivered, rxConn>>,
           \A u \in Threads :
                /\ Holding(u)' => Holding(u)
                /\ tpc'[u] = "blocked" => tpc[u] = "blocked"
                /\ ~raced' /\ (Holding(u)' \/ tpc'[u] = "blocked")
                        => Target(u)' = Target(u)
    PROVE  RouteInv'
<1>1. RepliesReturn'
  BY DEF RouteInv, RepliesReturn
<1>2. ASSUME ~raced' PROVE Routed'
  BY <1>2 DEF RouteInv, Routed
<1>3. ASSUME ~raced' PROVE HeldLater'
  BY <1>3 DEF RouteInv, HeldLater
<1> QED  BY <1>1, <1>2, <1>3 DEF RouteInv

\* recv is entered on the connection of the thread's own socket.
LEMMA RouteRecvCall ==
    ASSUME TypeInv, RouteInv, NEW t \in Threads, RecvCall(t)
    PROVE  RouteInv'
<1> USE DEF TypeInv, TypeOK
<1>1. /\ UNCHANGED <<chunk, delivered, fdTable, socket, raced>>
      /\ tpc[t] = "recv"
      /\ rxConn' = [rxConn EXCEPT ![t] = Target(t)]
      /\ \A u \in Threads \ {t} : tpc'[u] = tpc[u]
      /\ tpc'[t] \in {"close", "blocked"}
  BY DEF RecvCall, clientVars
<1>2. \A u \in Threads : Target(u)' = Target(u)
  BY <1>1 DEF Target
<1>3. \A u \in Threads : Holding(u)' => Holding(u)
  BY <1>1 DEF Holding
<1>4. RepliesReturn'
  BY <1>1 DEF RouteInv, RepliesReturn
<1>5. ASSUME ~raced' PROVE Routed'
  BY <1>1, <1>2, <1>3, <1>5 DEF RouteInv, Routed
<1>6. ASSUME ~raced' PROVE HeldLater'
  BY <1>1, <1>3, <1>6 DEF RouteInv, HeldLater
<1> QED  BY <1>4, <1>5, <1>6 DEF RouteInv

\* The bytes received belong to the socket's connection and come last.
LEMMA RouteRecvData ==
    ASSUME TypeInv, ChunkInv, RouteInv, NEW t \in Threads, RecvData(t)
    PROVE  RouteInv'
<1> USE DEF TypeInv, TypeOK
<1> DEFINE c == rxConn[t]
<1>1. c \in Conns /\ taken[c] \in Nat
  BY DEF RecvData, BlockedHasConn
<1>2. PICK hi \in Receivable(c) :
          chunk' = [chunk EXCEPT ![t] = [conn |-> c, lo |-> taken[c] + 1, hi |-> hi]]
  BY DEF RecvData
<1>3. /\ UNCHANGED <<delivered, fdTable, socket, rxConn, raced>>
      /\ tpc[t] = "blocked" /\ tpc' = [tpc EXCEPT ![t] = "request"]
  BY DEF RecvData, clientVars
<1>4. \A u \in Threads : Target(u)' = Target(u)
  BY <1>3 DEF Target
<1>5. \A u \in Threads \ {t} : chunk'[u] = chunk[u] /\ (Holding(u)' => Holding(u))
  BY <1>2, <1>3 DEF Holding
<1>6. chunk'[t].conn = c /\ chunk'[t].lo = taken[c] + 1
  BY <1>2
<1>7. RepliesReturn'
  BY <1>3 DEF RouteInv, RepliesReturn
<1>8. ASSUME ~raced PROVE Routed'
  BY <1>3, <1>4, <1>5, <1>6, <1>8 DEF RouteInv, Routed
<1>9. ASSUME ~raced PROVE HeldLater'
  <2>1. \A i \in DOMAIN delivered[c] :
            delivered[c][i].conn = c /\ delivered[c][i].hi <= taken[c] /\ delivered[c][i].hi \in Nat
    <3>1. \A i \in DOMAIN delivered[c] : delivered[c][i] \in Chunk
      BY <1>1, ElementOfSeq
    <3> QED
      BY <1>1, <1>9, <3>1 DEF RouteInv, RepliesReturn, ChunkInv,
                              DeliveredBelowTaken, BelowTaken, Chunk
  <2>2. \A i \in DOMAIN delivered[c] : delivered[c][i].hi < chunk'[t].lo
    BY <1>1, <1>6, <2>1
  <2> QED  BY <1>3, <1>5, <1>6, <1>9, <2>2 DEF RouteInv, HeldLater
<1> QED  BY <1>3, <1>7, <1>8, <1>9 DEF RouteInv

\* The reply goes to the connection whose bytes it answers, after the others.
LEMMA RouteSendBack ==
    ASSUME TypeInv, OwnershipInv, Unique, RouteInv, NEW t \in Threads, SendBack(t)
    PROVE  RouteInv'
<1> USE DEF TypeInv, TypeOK
<1>1. /\ UNCHANGED <<chunk, fdTable, socket, rxConn, raced>>
      /\ tpc[t] = "send" /\ tpc' = [tpc EXCEPT ![t] = "recv"]
  BY DEF SendBack
<1>2. \A u \in Threads : Target(u)' = Target(u)
  BY <1>1 DEF Target
<1>3. /\ Holding(t) /\ ~Holding(t)'
      /\ \A u \in Threads : Holding(u)' => Holding(u)
  BY <1>1 DEF Holding
<1>4. CASE UNCHANGED delivered
  BY <1>1, <1>2, <1>3, <1>4, RouteFrame
<1>5. CASE raced
  BY <1>1, <1>5 DEF RouteInv, RepliesReturn
<1>6. CASE ~raced /\ FarEnd(t) = "open"
  <2> DEFINE c == Target(t)
  <2>1. c \in Conns
    BY <1>6 DEF FarEnd, Target
  <2>2. delivered' = [delivered EXCEPT ![c] = Append(@, chunk[t])]
    BY <1>6 DEF SendBack
  <2>3. chunk[t].conn = c
    BY <1>3, <1>6 DEF RouteInv, Routed
  <2>4. \A d \in Conns \ {c} : delivered'[d] = delivered[d]
    BY <2>2
  <2>5. /\ delivered[c] \in Seq(Chunk) /\ chunk[t] \in Chunk
        /\ delivered'[c] = Append(delivered[c], chunk[t])
    BY <2>1, <2>2
  <2>6. ASSUME NEW i \in DOMAIN delivered'[c]
        PROVE  /\ i \in Nat /\ i <= Len(delivered[c]) + 1
               /\ \/ i \in DOMAIN delivered[c] /\ delivered'[c][i] = delivered[c][i]
                  \/ i = Len(delivered[c]) + 1 /\ delivered'[c][i] = chunk[t]
    BY <2>5, AppendProperties
  <2>7. \A i \in DOMAIN delivered[c] : delivered[c][i].hi < chunk[t].lo
    BY <1>3, <1>6, <2>3 DEF RouteInv, HeldLater
  <2>8. RepliesReturn'
    <3>1. ASSUME NEW i \in DOMAIN delivered'[c]
          PROVE  delivered'[c][i].conn = c
      BY <1>6, <2>1, <2>3, <2>6 DEF RouteInv, RepliesReturn
    <3>2. ASSUME NEW i \in DOMAIN delivered'[c], NEW j \in DOMAIN delivered'[c], i < j
          PROVE  delivered'[c][i].hi < delivered'[c][j].lo
      <4>1. i \in DOMAIN delivered[c] /\ delivered'[c][i] = delivered[c][i]
        BY <2>5, <2>6, <3>2
      <4>2. CASE j \in DOMAIN delivered[c] /\ delivered'[c][j] = delivered[c][j]
        BY <1>6, <2>1, <3>2, <4>1, <4>2 DEF RouteInv, RepliesReturn
      <4>3. CASE delivered'[c][j] = chunk[t]
        BY <2>7, <4>1, <4>3
      <4> QED  BY <2>6, <4>2, <4>3
    <3> QED  BY <1>6, <2>4, <3>1, <3>2 DEF RouteInv, RepliesReturn
  <2>9. ASSUME NEW u \in Threads \ {t}, Holding(u)
        PROVE  chunk[u].conn # c
    <3>1. Serving(t) /\ Serving(u)
      BY <1>1, <2>9 DEF Serving, Holding
    <3>2. SocketsExclusive
      BY <1>6 DEF OwnershipInv, OneThreadPerConnection
    <3>3. socket[u] # socket[t] /\ socket[u] \in Fds /\ socket[t] \in Fds
      BY <3>1, <3>2 DEF SocketsExclusive, Target
    <3>4. Target(u) # c
      BY <2>1, <3>3, GatewayAssumption DEF Unique, Target
    <3> QED  BY <1>6, <2>9, <3>4 DEF RouteInv, Routed
  <2>10. Routed'
    BY <1>1, <1>2, <1>3, <1>6 DEF RouteInv, Routed
  <2>11. HeldLater'
    <3> SUFFICES ASSUME NEW u \in Threads, Holding(u)'
                 PROVE  \A i \in DOMAIN delivered'[chunk[u].conn] :
                            delivered'[chunk[u].conn][i].hi < chunk[u].lo
      BY <1>1 DEF HeldLater
    <3>1. u # t /\ Holding(u) /\ chunk[u].conn # c
      BY <1>3, <2>9
    <3>2. delivered'[chunk[u].conn] = delivered[chunk[u].conn]
      BY <2>2, <3>1
    <3> QED  BY <1>6, <3>1, <3>2 DEF RouteInv, HeldLater
  <2> QED  BY <1>6, <2>8, <2>10, <2>11 DEF RouteInv
<1> QED  BY <1>4, <1>5, <1>6 DEF SendBack

\* Every step keeps RouteInv.
LEMMA NextRoute ==
    TypeInv /\ ChunkInv /\ OwnershipInv /\ Unique /\ RouteInv /\ [Next]_vars => RouteInv'
<1> SUFFICES ASSUME TypeInv, ChunkInv, OwnershipInv, Unique, RouteInv, [Next]_vars
             PROVE  RouteInv'
  OBVIOUS
<1> USE DEF TypeInv, TypeOK, Holding, clientVars, threadVars
<1>0. ~raced' => ~raced
  BY RacedStays
<1>1. CASE UNCHANGED vars
  BY <1>0, <1>1, RouteFrame DEF vars, Target
<1>2. CASE Acceptor
  <2>1. CASE Accept
    <3>1. PICK fd \in Fds : /\ fdTable[fd] = NoConn
                            /\ fdTable' = [fdTable EXCEPT ![fd] = Head(queue)]
      BY <2>1 DEF Accept, LowestFree, FreeFds
    <3>2. UNCHANGED <<chunk, delivered, rxConn, tpc, socket>>
      BY <2>1 DEF Accept
    <3>3. ASSUME NEW u \in Threads, ~raced', Serving(u)
          PROVE  Target(u)' = Target(u)
      <4>1. Target(u) # NoConn
        BY <1>0, <3>3 DEF OwnershipInv, OneThreadPerConnection, SocketsExclusive
      <4> QED  BY <3>1, <3>2, <4>1 DEF Target
    <3>4. \A u \in Threads : Holding(u)' \/ tpc'[u] = "blocked" => Serving(u)
      BY <3>2 DEF Serving
    <3> QED  BY <1>0, <3>2, <3>3, <3>4, RouteFrame
  <2>2. CASE AcceptFail \/ CreateFail
    BY <1>0, <2>2, RouteFrame DEF AcceptFail, CreateFail, Target
  <2>3. ASSUME NEW t \in Threads, CreateThread(t) PROVE RouteInv'
    BY <1>0, <2>3, RouteFrame DEF CreateThread, Target
  <2> QED  BY <1>2, <2>1, <2>2, <2>3 DEF Acceptor
<1>3. ASSUME NEW c \in Conns, Client(c) PROVE RouteInv'
  BY <1>0, <1>3, RouteFrame DEF Client, Connect, ClientWrite, ClientClose, Target
<1>4. ASSUME NEW t \in Threads, Server(t) PROVE RouteInv'
  <2>1. CASE ZmqReply(t)
    BY <1>0, <2>1, RouteFrame DEF ZmqReply, Target
  <2>2. CASE ZmqDown(t)
    BY <1>0, <2>2, RouteFrame DEF ZmqDown, Target
  <2> QED  BY <1>4, <2>1, <2>2 DEF Server
<1>5. ASSUME NEW t \in Threads, Handler(t) PROVE RouteInv'
  <2>1. CASE ReadSocket(t)
    <3>1. \A u \in Threads \ {t} : Target(u)' = Target(u)
      BY <2>1 DEF ReadSocket, Target
    <3> QED  BY <1>0, <2>1, <3>1, RouteFrame DEF ReadSocket
  <2>2. CASE RecvCall(t)
    BY <2>2, RouteRecvCall
  <2>3. CASE RecvData(t)
    BY <2>3, RouteRecvData
  <2>4. CASE SendBack(t)
    BY <2>4, RouteSendBack
  <2>5. CASE RecvEnd(t)
    BY <1>0, <2>5, RouteFrame DEF RecvEnd, Target
  <2>6. CASE ZmqSend(t)
    BY <1>0, <2>6, RouteFrame DEF ZmqSend, Target
  <2>7. CASE RecvOverrun(t) \/ ZmqNoFds(t) \/ SendKilled(t)
    BY <1>0, <2>7, RouteFrame DEF RecvOverrun, ZmqNoFds, SendKilled, Die
  <2>8. CASE CloseSocket(t)
    <3>1. /\ UNCHANGED <<chunk, delivered, rxConn, socket>>
          /\ tpc[t] = "close" /\ tpc' = [tpc EXCEPT ![t] = "done"]
      BY <2>8 DEF CloseSocket
    <3>2. ASSUME NEW u \in Threads \ {t}, ~raced', Serving(u)
          PROVE  Target(u)' = Target(u)
      <4>1. Serving(t)
        BY <3>1 DEF Serving
      <4>2. socket[u] # socket[t]
        BY <1>0, <3>2, <4>1 DEF OwnershipInv, OneThreadPerConnection, SocketsExclusive
      <4> QED  BY <2>8, <4>2 DEF CloseSocket, Target
    <3>3. \A u \in Threads : Holding(u)' \/ tpc'[u] = "blocked" => u # t /\ Serving(u)
      BY <3>1 DEF Serving
    <3>4. \A u \in Threads : Holding(u)' => Holding(u)
      BY <3>1
    <3>5. \A u \in Threads : tpc'[u] = "blocked" => tpc[u] = "blocked"
      BY <3>1
    <3> QED  BY <1>0, <3>1, <3>2, <3>3, <3>4, <3>5, RouteFrame
  <2> QED
    BY <1>5, <2>1, <2>2, <2>3, <2>4, <2>5, <2>6, <2>7, <2>8 DEF Handler
<1> QED  BY <1>1, <1>2, <1>3, <1>4, <1>5 DEF Next

\* No reply has been sent yet.
LEMMA InitRoute == Init => Unique /\ RouteInv
BY DEF Init, Unique, RouteInv, Routed, HeldLater, RepliesReturn, Holding

\* As long as no accept overtakes a thread's read of clientSocket, every reply
\* reaches the client whose bytes it answers, in the order they were sent.
THEOREM RepliesRouted == Spec => []RepliesReturn
<1>1. RouteInv => RepliesReturn
  BY DEF RouteInv
<1> QED
  BY <1>1, InitType, NextType, InitChunk, NextChunk, InitOwnership, NextOwnership,
     InitRoute, NextUnique, NextRoute, PTL DEF Spec

-----------------------------------------------------------------------------
(* A client that waits for its answers harms nobody.                       *)

\* A client that has closed has no bytes unread and none in work.
Settled ==
    \A c \in Conns :
        /\ peer[c] # "reset"
        /\ peer[c] = "closed" => AllAnswered(c)

PatientInv ==
    /\ ~raced /\ impatient = {} => Settled
    /\ PatientClientsHarmless

\* Impatience is not forgotten either.
LEMMA ImpatientStays == [Next]_vars /\ impatient' = {} => impatient = {}
BY DEF Next, vars, Acceptor, Accept, AcceptFail, CreateFail, CreateThread, Client,
       Connect, ClientWrite, ClientClose, Server, ZmqReply, ZmqDown, Handler,
       ReadSocket, RecvCall, RecvData, RecvOverrun, RecvEnd, ZmqSend, ZmqNoFds,
       SendBack, SendKilled, CloseSocket, Die

\* Steps that neither read nor write a stream keep Settled.
LEMMA SettledFrame ==
    ASSUME Settled, UNCHANGED <<peer, taken, sent, chunk>>,
           \A u \in Threads : Holding(u)' => Holding(u)
    PROVE  Settled'
BY DEF Settled, AllAnswered

\* What the clients do, as long as they are patient, keeps Settled.
LEMMA SettledClient ==
    ASSUME TypeInv, Settled, NEW c \in Conns, Client(c), impatient' = {}
    PROVE  Settled'
<1> USE DEF TypeInv, TypeOK, threadVars
<1>1. CASE Connect(c)
  BY <1>1 DEF Connect, Settled, AllAnswered, Holding
<1>2. CASE ClientWrite(c)
  BY <1>2 DEF ClientWrite, Settled, AllAnswered, Holding
<1>3. CASE ClientClose(c)
  <2>1. AllAnswered(c)
    BY <1>3 DEF ClientClose
  <2> QED  BY <1>3, <2>1 DEF ClientClose, Settled, AllAnswered, Holding
<1> QED  BY <1>1, <1>2, <1>3 DEF Client

\* Bytes are received only from clients that have not closed.
LEMMA SettledRecvData ==
    ASSUME TypeInv, Settled, NEW t \in Threads, RecvData(t)
    PROVE  Settled'
<1> USE DEF TypeInv, TypeOK
<1> DEFINE c == rxConn[t]
<1>1. c \in Conns /\ taken[c] \in Nat /\ sent[c] \in Nat
  BY DEF RecvData, BlockedHasConn
<1>2. PICK hi \in Receivable(c) :
          /\ chunk' = [chunk EXCEPT ![t] = [conn |-> c, lo |-> taken[c] + 1, hi |-> hi]]
          /\ taken' = [taken EXCEPT ![c] = hi]
  BY DEF RecvData
<1>3. taken[c] # sent[c]
  BY <1>1, <1>2 DEF Receivable
<1>4. peer[c] # "closed"
  BY <1>1, <1>3 DEF Settled, AllAnswered
<1>5. /\ UNCHANGED <<peer, sent>>
      /\ \A u \in Threads \ {t} : chunk'[u] = chunk[u] /\ (Holding(u)' => Holding(u))
      /\ chunk'[t].conn = c
  BY <1>2 DEF RecvData, clientVars, Holding
<1>6. ASSUME NEW d \in Conns, peer'[d] = "closed"
      PROVE  AllAnswered(d)'
  <2>1. d # c /\ AllAnswered(d)
    BY <1>4, <1>5, <1>6 DEF Settled
  <2>2. taken'[d] = taken[d]
    BY <1>2, <2>1
  <2> QED  BY <1>5, <2>1, <2>2 DEF AllAnswered
<1> QED  BY <1>5, <1>6 DEF Settled

\* Under Settled a reply always finds its client there or its socket gone.
LEMMA SettledFarEnd ==
    ASSUME TypeInv, Settled, Routed, NEW t \in Threads, tpc[t] = "send"
    PROVE  FarEnd(t) \notin {"closed", "reset"}
<1>1. Holding(t) /\ chunk[t].conn = Target(t)
  BY DEF Holding, Routed
<1>2. CASE Target(t) = NoConn
  BY <1>2 DEF FarEnd
<1>3. CASE Target(t) # NoConn
  <2>1. Target(t) \in Conns
    BY <1>3 DEF Target, TypeInv, TypeOK
  <2> QED  BY <1>1, <1>3, <2>1 DEF FarEnd, Settled, AllAnswered
<1> QED  BY <1>2, <1>3

\* Every step keeps Settled while the hypotheses last.
LEMMA NextSettled ==
    ASSUME TypeInv, Settled, Routed, Next, impatient' = {}
    PROVE  Settled' /\ (ended' = ended \/ ended' # "sigpipe")
<1> USE DEF TypeInv, TypeOK, Holding, clientVars, threadVars
<1>1. CASE Acceptor
  <2>1. UNCHANGED <<peer, taken, sent, chunk, ended>>
    BY <1>1 DEF Acceptor, Accept, AcceptFail, CreateFail, CreateThread
  <2>2. \A u \in Threads : Holding(u)' => Holding(u)
    BY <1>1 DEF Acceptor, Accept, AcceptFail, CreateFail, CreateThread
  <2> QED  BY <2>1, <2>2, SettledFrame
<1>2. ASSUME NEW c \in Conns, Client(c)
      PROVE  Settled' /\ ended' = ended
  BY <1>2, SettledClient DEF Client, Connect, ClientWrite, ClientClose
<1>3. ASSUME NEW t \in Threads, Server(t)
      PROVE  Settled' /\ ended' = ended
  <2>1. UNCHANGED <<peer, taken, sent, chunk, ended>>
    BY <1>3 DEF Server, ZmqReply, ZmqDown
  <2>2. \A u \in Threads : Holding(u)' => Holding(u)
    BY <1>3 DEF Server, ZmqReply, ZmqDown
  <2> QED  BY <2>1, <2>2, SettledFrame
<1>4. ASSUME NEW t \in Threads, Handler(t)
      PROVE  Settled' /\ (ended' = ended \/ ended' # "sigpipe")
  <2>1. CASE RecvData(t)
    BY <2>1, SettledRecvData DEF RecvData
  <2>2. CASE SendBack(t)
    <3>1. peer' = peer
      BY <2>2, SettledFarEnd DEF SendBack
    <3> QED  BY <2>2, <3>1, SettledFrame DEF SendBack
  <2>3. CASE SendKilled(t)
    BY <2>3, SettledFarEnd DEF SendKilled
  <2>4. CASE RecvOverrun(t) \/ ZmqNoFds(t)
    BY <2>4, SettledFrame DEF RecvOverrun, ZmqNoFds, Die
  <2>5. CASE ReadSocket(t) \/ RecvCall(t) \/ RecvEnd(t) \/ ZmqSend(t) \/ CloseSocket(t)
    <3>1. UNCHANGED <<peer, taken, sent, chunk, ended>>
      BY <2>5 DEF ReadSocket, RecvCall, RecvEnd, ZmqSend, CloseSocket
    <3>2. \A u \in Threads : Holding(u)' => Holding(u)
      BY <2>5 DEF ReadSocket, RecvCall, RecvEnd, ZmqSend, CloseSocket
    <3> QED  BY <3>1, <3>2, SettledFrame
  <2> QED  BY <1>4, <2>1, <2>2, <2>3, <2>4, <2>5 DEF Handler
<1> QED  BY <1>1, <1>2, <1>3, <1>4 DEF Next

\* A connection is reset only after its client closed too early.
LEMMA NextPatient == TypeInv /\ RouteInv /\ PatientInv /\ [Next]_vars => PatientInv'
<1> SUFFICES ASSUME TypeInv, RouteInv, PatientInv, [Next]_vars PROVE PatientInv'
  OBVIOUS
<1>1. CASE UNCHANGED vars
  BY <1>1 DEF PatientInv, PatientClientsHarmless, Settled, AllAnswered, Holding, vars
<1>2. CASE Next /\ ~raced' /\ impatient' = {}
  <2>1. ~raced /\ impatient = {}
    BY <1>2, RacedStays, ImpatientStays
  <2>2. Settled /\ Routed /\ ended # "sigpipe"
    BY <2>1 DEF PatientInv, PatientClientsHarmless, RouteInv
  <2>3. Settled' /\ ended' # "sigpipe"
    BY <1>2, <2>2, NextSettled
  <2> QED  BY <2>3 DEF PatientInv, PatientClientsHarmless
<1>3. CASE raced' \/ impatient' # {}
  BY <1>3 DEF PatientInv, PatientClientsHarmless
<1> QED  BY <1>1, <1>2, <1>3

\* No client has closed yet.
LEMMA InitPatient == Init => PatientInv
BY DEF Init, PatientInv, PatientClientsHarmless, Settled

\* The gateway is not killed by SIGPIPE unless some client closed before its
\* commands were answered, or the race has happened: however many clients come,
\* a send to one that waits for its answers takes nobody else down.
THEOREM PatienceIsSafe == Spec => []PatientClientsHarmless
<1>1. PatientInv => PatientClientsHarmless
  BY DEF PatientInv
<1> QED
  BY <1>1, InitType, NextType, InitChunk, NextChunk, InitOwnership, NextOwnership,
     InitRoute, NextUnique, NextRoute, InitPatient, NextPatient, PTL DEF Spec

-----------------------------------------------------------------------------
(* The gateway implements the abstract service.                            *)

\* Nothing is read before it was sent, and what a thread holds is not empty.
StreamInv ==
    /\ \A c \in Conns : taken[c] <= sent[c]
    /\ \A t \in Threads : Holding(t) => 1 <= chunk[t].lo /\ chunk[t].lo <= chunk[t].hi

\* Steps that neither send nor receive keep StreamInv.
LEMMA StreamFrame ==
    ASSUME StreamInv, UNCHANGED <<chunk, taken, sent>>,
           \A u \in Threads : Holding(u)' => Holding(u)
    PROVE  StreamInv'
BY DEF StreamInv

\* A recv returns bytes that were sent, at least one.
LEMMA StreamRecvData ==
    ASSUME TypeInv, StreamInv, NEW t \in Threads, RecvData(t)
    PROVE  StreamInv'
<1> USE DEF TypeInv, TypeOK
<1> DEFINE c == rxConn[t]
<1>1. c \in Conns /\ taken[c] \in Nat /\ sent[c] \in Nat
  BY DEF RecvData, BlockedHasConn
<1>2. PICK hi \in Receivable(c) :
          /\ chunk' = [chunk EXCEPT ![t] = [conn |-> c, lo |-> taken[c] + 1, hi |-> hi]]
          /\ taken' = [taken EXCEPT ![c] = hi]
  BY DEF RecvData
<1>3. hi \in Nat /\ taken[c] < hi /\ hi <= sent[c]
  BY <1>1, <1>2 DEF Receivable
<1>4. UNCHANGED sent /\ \A u \in Threads \ {t} : chunk'[u] = chunk[u] /\ (Holding(u)' => Holding(u))
  BY <1>2 DEF RecvData, Holding, clientVars
<1>5. \A d \in Conns : taken'[d] <= sent'[d]
  BY <1>1, <1>2, <1>3, <1>4 DEF StreamInv
<1>6. 1 <= chunk'[t].lo /\ chunk'[t].lo <= chunk'[t].hi
  BY <1>1, <1>2, <1>3
<1> QED  BY <1>4, <1>5, <1>6 DEF StreamInv

\* Every step keeps StreamInv.
LEMMA NextStream == TypeInv /\ StreamInv /\ [Next]_vars => StreamInv'
<1> SUFFICES ASSUME TypeInv, StreamInv, [Next]_vars PROVE StreamInv'
  OBVIOUS
<1> USE DEF TypeInv, TypeOK, Holding, clientVars, threadVars
<1>1. CASE UNCHANGED vars
  BY <1>1, StreamFrame DEF vars
<1>2. CASE Acceptor
  <2>1. UNCHANGED <<chunk, taken, sent>>
    BY <1>2 DEF Acceptor, Accept, AcceptFail, CreateFail, CreateThread
  <2>2. \A u \in Threads : Holding(u)' => Holding(u)
    BY <1>2 DEF Acceptor, Accept, AcceptFail, CreateFail, CreateThread
  <2> QED  BY <2>1, <2>2, StreamFrame
<1>3. ASSUME NEW c \in Conns, Client(c) PROVE StreamInv'
  <2>1. CASE Connect(c) \/ ClientClose(c)
    BY <2>1, StreamFrame DEF Connect, ClientClose
  <2>2. CASE ClientWrite(c)
    BY <2>2 DEF ClientWrite, StreamInv
  <2> QED  BY <1>3, <2>1, <2>2 DEF Client
<1>4. ASSUME NEW t \in Threads, Server(t) PROVE StreamInv'
  <2>1. UNCHANGED <<chunk, taken, sent>>
    BY <1>4 DEF Server, ZmqReply, ZmqDown
  <2>2. \A u \in Threads : Holding(u)' => Holding(u)
    BY <1>4 DEF Server, ZmqReply, ZmqDown
  <2> QED  BY <2>1, <2>2, StreamFrame
<1>5. ASSUME NEW t \in Threads, Handler(t) PROVE StreamInv'
  <2>1. CASE RecvData(t)
    BY <2>1, StreamRecvData
  <2>2. CASE RecvOverrun(t) \/ ZmqNoFds(t) \/ SendKilled(t)
    <3>1. UNCHANGED <<chunk, taken, sent>>
      BY <2>2 DEF RecvOverrun, ZmqNoFds, SendKilled, Die
    <3>2. \A u \in Threads : Holding(u)' => Holding(u)
      BY <2>2 DEF RecvOverrun, ZmqNoFds, SendKilled, Die
    <3> QED  BY <3>1, <3>2, StreamFrame
  <2>3. CASE ReadSocket(t) \/ RecvCall(t) \/ RecvEnd(t) \/ ZmqSend(t) \/ SendBack(t) \/ CloseSocket(t)
    <3>1. UNCHANGED <<chunk, taken, sent>>
      BY <2>3 DEF ReadSocket, RecvCall, RecvEnd, ZmqSend, SendBack, CloseSocket
    <3>2. \A u \in Threads : Holding(u)' => Holding(u)
      BY <2>3 DEF ReadSocket, RecvCall, RecvEnd, ZmqSend, SendBack, CloseSocket
    <3> QED  BY <3>1, <3>2, StreamFrame
  <2> QED  BY <1>5, <2>1, <2>2, <2>3 DEF Handler
<1> QED  BY <1>1, <1>2, <1>3, <1>4, <1>5 DEF Next

\* Nothing has been sent or read.
LEMMA InitStream == Init => StreamInv
BY DEF Init, StreamInv, Holding

\* Clients that have left, in the abstract service.
Left == {c \in Conns : peer[c] \in {"closed", "reset"}}

\* A reply that reaches its client is an answer that the service allows.
LEMMA AnswerStep ==
    ASSUME TypeInv, ChunkInv, RouteInv, StreamInv, NEW t \in Threads, SendBack(t),
           FarEnd(t) = "open"
    PROVE  Service!Answer(Target(t))
<1> USE DEF TypeInv, TypeOK
<1> DEFINE c == Target(t)
           s == chunk[t].conn
           lo == chunk[t].lo
           hi == chunk[t].hi
<1>1. c \in Conns /\ peer[c] = "open"
  BY DEF FarEnd, Target
<1>2. Holding(t) /\ chunk[t] \in Chunk
  BY DEF SendBack, Holding
<1>3. /\ s \in Conns /\ lo \in Nat /\ hi \in Nat /\ sent[s] \in Nat
      /\ 1 <= lo /\ lo <= hi /\ hi <= sent[s]
  <2>1. s \in Conns /\ hi <= taken[s] /\ lo \in Nat /\ hi \in Nat
    BY <1>2 DEF ChunkInv, HeldBelowTaken, BelowTaken, Chunk
  <2>2. taken[s] <= sent[s] /\ taken[s] \in Nat /\ sent[s] \in Nat
    BY <2>1 DEF StreamInv
  <2>3. 1 <= lo /\ lo <= hi
    BY <1>2 DEF StreamInv
  <2> QED  BY <2>1, <2>2, <2>3
<1>4. Service!Open(s, lo, hi)
  <2> SUFFICES ASSUME NEW d \in Conns, NEW i \in DOMAIN delivered[d], delivered[d][i].conn = s
               PROVE  delivered[d][i].hi < lo \/ hi < delivered[d][i].lo
    BY <1>3 DEF Service!Open
  <2>1. delivered[d][i] \in Chunk
    BY ElementOfSeq
  <2>2. ~Overlap(chunk[t], delivered[d][i])
    BY <1>2 DEF ChunkInv, NoChunkTwice
  <2> QED  BY <1>3, <2>1, <2>2 DEF Overlap, Chunk
<1>5. raced \/ (s = c /\ \A i \in DOMAIN delivered[c] : delivered[c][i].hi < lo)
  BY <1>2 DEF RouteInv, Routed, HeldLater
<1>6. chunk[t] = [conn |-> s, lo |-> lo, hi |-> hi]
  BY <1>2 DEF Chunk
<1>7. /\ delivered' = [delivered EXCEPT ![c] = Append(@, [conn |-> s, lo |-> lo, hi |-> hi])]
      /\ UNCHANGED <<sent, peer, raced>>
  BY <1>6 DEF SendBack
<1>8. Service!MayTell(c, s, lo, hi)
  BY <1>4, <1>5 DEF Service!MayTell
<1>9. lo \in 1 .. sent[s] /\ hi \in 1 .. sent[s]
  BY <1>3
<1> QED  BY <1>1, <1>3, <1>7, <1>8, <1>9 DEF Service!Answer

\* Every step of the gateway is a step of the service, or none.
LEMMA NextService ==
    ASSUME TypeInv, ChunkInv, RouteInv, StreamInv, [Next]_vars
    PROVE  [Service!Next]_(Service!service)
<1> USE DEF TypeInv, TypeOK, clientVars, threadVars
<1>0. ASSUME UNCHANGED <<sent, delivered, peer, raced>>
      PROVE  UNCHANGED Service!service
  BY <1>0 DEF Service!service
<1>1. CASE UNCHANGED vars
  BY <1>0, <1>1 DEF vars
<1>2. CASE Acceptor
  <2>1. UNCHANGED <<sent, delivered, peer>>
    BY <1>2 DEF Acceptor, Accept, AcceptFail, CreateFail, CreateThread
  <2>2. raced' = raced \/ raced' = TRUE
    BY <1>2 DEF Acceptor, Accept, AcceptFail, CreateFail, CreateThread
  <2>3. CASE raced' = raced
    BY <1>0, <2>1, <2>3
  <2>4. CASE raced' = TRUE
    <3>1. Service!Break
      BY <2>1, <2>4 DEF Service!Break
    <3> QED  BY <3>1 DEF Service!Next
  <2> QED  BY <2>2, <2>3, <2>4
<1>3. ASSUME NEW c \in Conns, Client(c) PROVE [Service!Next]_(Service!service)
  <2>1. CASE Connect(c)
    <3>1. Left' = Left
      BY <2>1 DEF Connect, Left
    <3> QED  BY <2>1, <3>1 DEF Connect, Left, Service!service
  <2>2. CASE ClientWrite(c)
    <3>1. Service!Write(c)
      BY <2>2 DEF ClientWrite, Service!Write
    <3> QED  BY <3>1 DEF Service!Next
  <2>3. CASE ClientClose(c)
    <3>1. Left' = Left \cup {c} /\ c \notin Left
      BY <2>3 DEF ClientClose, Left
    <3>2. Service!Leave(c)
      BY <2>3, <3>1 DEF ClientClose, Left, Service!Leave
    <3> QED  BY <3>2 DEF Service!Next
  <2> QED  BY <1>3, <2>1, <2>2, <2>3 DEF Client
<1>4. ASSUME NEW t \in Threads, Server(t) PROVE [Service!Next]_(Service!service)
  <2>1. UNCHANGED <<sent, delivered, peer, raced>>
    BY <1>4 DEF Server, ZmqReply, ZmqDown
  <2> QED  BY <1>0, <2>1
<1>5. ASSUME NEW t \in Threads, Handler(t) PROVE [Service!Next]_(Service!service)
  <2>1. CASE SendBack(t) /\ FarEnd(t) = "open"
    <3>1. Target(t) \in Conns
      BY <2>1 DEF FarEnd, Target
    <3> QED  BY <2>1, <3>1, AnswerStep DEF Service!Next
  <2>2. CASE SendBack(t) /\ FarEnd(t) # "open"
    <3>1. Left' = Left
      BY <2>2 DEF SendBack, FarEnd, Left
    <3> QED  BY <2>2, <3>1 DEF SendBack, Left, Service!service
  <2>3. CASE RecvOverrun(t) \/ ZmqNoFds(t) \/ SendKilled(t)
    <3>1. UNCHANGED <<sent, delivered, peer, raced>>
      BY <2>3 DEF RecvOverrun, ZmqNoFds, SendKilled, Die
    <3> QED  BY <1>0, <3>1
  <2>4. CASE ReadSocket(t) \/ RecvCall(t) \/ RecvData(t) \/ RecvEnd(t) \/ ZmqSend(t) \/ CloseSocket(t)
    <3>1. UNCHANGED <<sent, delivered, peer, raced>>
      BY <2>4 DEF ReadSocket, RecvCall, RecvData, RecvEnd, ZmqSend, CloseSocket
    <3> QED  BY <1>0, <3>1
  <2> QED  BY <1>5, <2>1, <2>2, <2>3, <2>4 DEF Handler
<1> QED  BY <1>1, <1>2, <1>3, <1>4, <1>5 DEF Next

\* Nobody has sent, left or been answered.
LEMMA InitService == Init => Service!Init
<1> SUFFICES ASSUME Init PROVE Service!Init
  OBVIOUS
<1>1. {c \in Conns : peer[c] \in {"closed", "reset"}} = {}
  BY DEF Init
<1> QED  BY <1>1 DEF Init, Service!Init

\* With any number of clients, threads and descriptors, zmq_client.cpp does what
\* CommandService promises: answers come back to their client in order until an
\* accept overtakes a thread's read of clientSocket, and never twice.
THEOREM GatewayImplementsService == Spec => ImplementsService
<1>1. TypeInv /\ ChunkInv /\ RouteInv /\ StreamInv /\ [Next]_vars
          => [Service!Next]_(Service!service)
  BY NextService
<1> QED
  BY <1>1, InitType, NextType, InitChunk, NextChunk, InitOwnership, NextOwnership,
     InitRoute, NextUnique, NextRoute, InitStream, NextStream, InitService, PTL
  DEF Spec, ImplementsService, Service!Spec
=============================================================================
