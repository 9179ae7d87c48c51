--------------------------- MODULE StationProofs ---------------------------
(***************************************************************************)
(* Proofs about the two processes together, for any number of connections, *)
(* threads, descriptors and segments, and any number of starts of the      *)
(* station process.  What the gateway does by itself is taken from         *)
(* TcpGatewayProofs: a step of the station is a step of the gateway, or    *)
(* changes nothing of it but whether there is a server.                    *)
(***************************************************************************)
EXTENDS Station, TcpGatewayProofs

-----------------------------------------------------------------------------
(* The inductive invariant.                                                *)

\* What TcpGatewayProofs shows of the gateway.
GatewayInv == TypeInv /\ ChunkInv /\ OwnershipInv /\ Unique /\ RouteInv

\* The station process: its server thread lives exactly as long as it does.
ProcessInv ==
    /\ proc \in [{Box} -> {"off", "running", "exited", "crashed"}]
    /\ boot \in [{Box} -> Nat]
    /\ server \in [{Box} -> BOOLEAN]
    /\ zmqUp = server[Box]
    /\ server[Box] <=> proc[Box] = "running"
    /\ proc[Box] = "running" => boot[Box] > 0

\* The link: a request is on it exactly while its thread waits, and is in the
\* server only while there is one.
LinkInv ==
    /\ link \in [Threads -> LinkStates]
    /\ \A t \in Threads :
        /\ tpc[t] = "wait" => link[t] # "none"
        /\ link[t] # "none" /\ alive => tpc[t] = "wait"
        /\ link[t] = "queued" => alive
        /\ link[t] \in {"server", "handled"} => zmqUp
        /\ link[t] = "lost" => boot[Box] > 0
        /\ link[t] = "lost" /\ proc[Box] = "running" => boot[Box] > 1

\* The chunk of the thread is being worked on, here or in the server; the
\* server goes on when the gateway has ended.
InFlight(t) == Holding(t) \/ link[t] \in {"server", "handled"}

\* It has not been run, and may be.
Unrun(t) == tpc[t] = "request" \/ link[t] \in {"queued", "server"}

\* y comes after x: not the same bytes, and later ones of the same connection
\* unless threads share a descriptor.
ComesAfter(x, y) == ~Overlap(x, y) /\ (~raced /\ x.conn = y.conn => x.hi < y.lo)

FlightInv ==
    \A t \in Threads : InFlight(t) =>
        /\ BelowTaken(chunk[t])
        /\ \A u \in Threads \ {t} : InFlight(u) =>
            ~Overlap(chunk[t], chunk[u]) /\ (~raced => chunk[t].conn # chunk[u].conn)

\* What has been run is in order, and everything that may still be run comes
\* after it.
RunInv ==
    /\ executed \in Seq(Chunk)
    /\ \A j \in DOMAIN executed : BelowTaken(executed[j])
    /\ \A i, j \in DOMAIN executed : i < j => ComesAfter(executed[i], executed[j])
    /\ \A t \in Threads : Unrun(t) => \A j \in DOMAIN executed : ComesAfter(executed[j], chunk[t])

\* What is being answered has been run.
TruthInv ==
    /\ \A t \in Threads : tpc[t] = "send" \/ link[t] = "handled" =>
            \E j \in DOMAIN executed : executed[j] = chunk[t]
    /\ AnswersAreTrue

StationInv == GatewayInv /\ ProcessInv /\ LinkInv /\ FlightInv /\ RunInv /\ TruthInv

-----------------------------------------------------------------------------
(* Steps.                                                                  *)

\* A step of main, of a thread or of a client of the gateway.
GatewayMove == Acceptor \/ (\E t \in Threads : Handler(t)) \/ (\E c \in Conns : Client(c))

\* What every such step does to the link.
Moved == link' = [t \in Threads |-> Sent(t)] /\ UNCHANGED <<mainVars, executed>>

\* Only the existence of the server changes.
OnlyServer ==
    UNCHANGED <<ended, apc, clientSocket, queue, fdTable, peer, sent, taken, delivered, tpc,
                socket, rxConn, chunk, raced, unserved, impatient, executed>>

\* The kinds of steps.
LEMMA Kinds ==
    ASSUME [StationNext]_stationVars
    PROVE  \/ GatewayMove /\ Moved
           \/ \E t \in Threads : StationServer(t)
           \/ MainStep(M!Next)
           \/ UNCHANGED stationVars
<1>1. CASE GatewayStep(Acceptor)
  BY <1>1 DEF GatewayStep, GatewayMove, Moved
<1>2. ASSUME NEW t \in Threads, GatewayStep(Handler(t)) PROVE GatewayMove /\ Moved
  BY <1>2 DEF GatewayStep, GatewayMove, Moved
<1>3. ASSUME NEW c \in Conns, GatewayStep(Client(c)) PROVE GatewayMove /\ Moved
  BY <1>3 DEF GatewayStep, GatewayMove, Moved
<1> QED  BY <1>1, <1>2, <1>3 DEF StationNext

\* The steps of the main thread as far as the process and its server go.
LEMMA MainMoves ==
    ASSUME M!Next
    PROVE  \/ UNCHANGED <<proc, boot, server>>
           \/ /\ proc[Box] # "running"
              /\ proc' = [proc EXCEPT ![Box] = "running"]
              /\ boot' = [boot EXCEPT ![Box] = @ + 1]
              /\ server' = [server EXCEPT ![Box] = TRUE]
           \/ \E how \in {"exited", "crashed"} :
              /\ proc[Box] = "running"
              /\ proc' = [proc EXCEPT ![Box] = how]
              /\ server' = [server EXCEPT ![Box] = FALSE]
              /\ UNCHANGED boot
<1>1. CASE M!DbGoes \/ M!DbReturns \/ M!OtherInsert
  BY <1>1 DEF M!DbGoes, M!DbReturns, M!OtherInsert
<1>2. CASE M!Start(Box)
  BY <1>2 DEF M!Start
<1>3. CASE M!Main(Box)
  BY <1>3 DEF M!Main, M!Connect, M!Fail, M!Select, M!Store, M!Fetch, M!FetchNothing,
              M!Insert, M!InsertUnconfirmed, M!Goto, M!Finish, M!End, M!At
<1> QED  BY <1>1, <1>2, <1>3 DEF M!Next

\* What a step of the gateway does to a thread: nothing; send the request; take
\* new bytes; go on without a request; or end with the process.
ThreadMove(t) ==
    \/ tpc'[t] = tpc[t] /\ chunk'[t] = chunk[t]
    \/ tpc[t] = "request" /\ tpc'[t] = "wait" /\ chunk'[t] = chunk[t] /\ alive'
    \/ tpc[t] = "blocked" /\ tpc'[t] = "request" /\ alive' /\ RecvData(t)
    \/ tpc[t] # "wait" /\ tpc'[t] \notin {"wait", "request", "send"} /\ chunk'[t] = chunk[t]
    \/ tpc'[t] \in {"idle", "done"} /\ chunk'[t] = chunk[t] /\ ~alive'

LEMMA ThreadMoves ==
    ASSUME TypeInv, GatewayMove, NEW t \in Threads
    PROVE  ThreadMove(t) /\ (alive' => alive) /\ zmqUp' = zmqUp
<1> USE DEF TypeInv, TypeOK, ThreadMove, alive, clientVars, threadVars
<1>1. CASE Acceptor
  BY <1>1 DEF Acceptor, Accept, AcceptFail, CreateFail, CreateThread
<1>2. ASSUME NEW c \in Conns, Client(c)
      PROVE  ThreadMove(t) /\ (alive' => alive) /\ zmqUp' = zmqUp
  BY <1>2 DEF Client, Connect, ClientWrite, ClientClose
<1>3. ASSUME NEW u \in Threads, Handler(u)
      PROVE  ThreadMove(t) /\ (alive' => alive) /\ zmqUp' = zmqUp
  <2>1. CASE RecvData(u)
    BY <2>1 DEF RecvData
  <2>2. CASE ReadSocket(u) \/ RecvCall(u) \/ RecvEnd(u)
    BY <2>2 DEF ReadSocket, RecvCall, RecvEnd
  <2>3. CASE ZmqSend(u)
    BY <2>3 DEF ZmqSend
  <2>4. CASE SendBack(u) \/ CloseSocket(u)
    BY <2>4 DEF SendBack, CloseSocket
  <2>5. CASE RecvOverrun(u) \/ ZmqNoFds(u) \/ SendKilled(u)
    BY <2>5 DEF RecvOverrun, ZmqNoFds, SendKilled, Die
  <2> QED  BY <1>3, <2>1, <2>2, <2>3, <2>4, <2>5 DEF Handler
<1> QED  BY <1>1, <1>2, <1>3 DEF GatewayMove

\* The gateway's invariants do not depend on the server.
LEMMA GatewayFrame ==
    ASSUME GatewayInv, zmqUp' \in BOOLEAN, OnlyServer
    PROVE  GatewayInv'
<1> USE DEF GatewayInv, OnlyServer
<1>1. TypeInv'
  BY DEF TypeInv, TypeOK, BlockedHasConn
<1>2. ChunkInv'
  BY ChunkFrame DEF Holding
<1>3. OwnershipInv'
  BY DEF OwnershipInv, EndedIsEmpty, HandoverSafe, OneThreadPerConnection, SocketsExclusive,
         NoneForgotten, InHandover, ReadPending, Serving, Target, alive
<1>4. Unique'
  BY DEF Unique
<1>5. RouteInv'
  BY RouteFrame DEF Holding, Target
<1> QED  BY <1>1, <1>2, <1>3, <1>4, <1>5

\* A step of the gateway's own specification keeps them.
LEMMA GatewayNext ==
    ASSUME GatewayInv, [Next]_vars
    PROVE  GatewayInv' /\ (~raced' => ~raced)
BY NextType, NextChunk, NextOwnership, NextUnique, NextRoute, RacedStays DEF GatewayInv

\* A step of the station is a step of the gateway's own specification, or
\* changes nothing of the gateway but whether there is a server.
LEMMA StepKinds ==
    ASSUME ProcessInv, [StationNext]_stationVars
    PROVE  [Next]_vars \/ (OnlyServer /\ zmqUp' \in BOOLEAN)
<1>1. CASE GatewayMove
  BY <1>1 DEF GatewayMove, Next
<1>2. ASSUME NEW t \in Threads, StationServer(t)
      PROVE  [Next]_vars \/ (OnlyServer /\ zmqUp' \in BOOLEAN)
  <2>1. CASE Pass(t) \/ Execute(t)
    BY <2>1 DEF Pass, Execute, OnlyLink
  <2>2. CASE Reply(t)
    BY <2>2 DEF Reply, Next, Server
  <2>3. CASE Abort(t)
    BY <2>3 DEF Abort, OnlyServer, clientVars, threadVars
  <2> QED  BY <1>2, <2>1, <2>2, <2>3 DEF StationServer
<1>3. CASE MainStep(M!Next)
  <2>1. OnlyServer /\ zmqUp' = server'[Box]
    BY <1>3 DEF MainStep, OnlyServer, clientVars, threadVars
  <2>2. server'[Box] \in BOOLEAN
    BY <1>3, MainMoves DEF MainStep, ProcessInv
  <2> QED  BY <2>1, <2>2
<1>4. CASE UNCHANGED stationVars
  BY <1>4 DEF stationVars
<1> QED  BY <1>1, <1>2, <1>3, <1>4, Kinds

\* So every step of the station keeps the gateway's invariants.
LEMMA GatewayStepInv ==
    ASSUME GatewayInv, ProcessInv, [StationNext]_stationVars
    PROVE  GatewayInv' /\ (~raced' => ~raced)
<1>1. CASE [Next]_vars
  BY <1>1, GatewayNext
<1>2. CASE OnlyServer /\ zmqUp' \in BOOLEAN
  BY <1>2, GatewayFrame DEF OnlyServer
<1> QED  BY <1>1, <1>2, StepKinds

-----------------------------------------------------------------------------
(* The station process.                                                    *)

\* Every step keeps ProcessInv.
LEMMA ProcessStep ==
    ASSUME GatewayInv, ProcessInv, LinkInv, [StationNext]_stationVars
    PROVE  ProcessInv'
<1>1. ASSUME UNCHANGED <<proc, boot, server, zmqUp>> PROVE ProcessInv'
  BY <1>1 DEF ProcessInv
<1>2. CASE GatewayMove /\ Moved
  <2>1. zmqUp' = zmqUp
    BY <1>2, ThreadMoves DEF GatewayMove, GatewayInv, Acceptor, Accept, AcceptFail, CreateFail,
       CreateThread, Client, Connect, ClientWrite, ClientClose, clientVars, threadVars
  <2> QED  BY <1>1, <1>2, <2>1 DEF Moved, mainVars
<1>3. ASSUME NEW t \in Threads, StationServer(t) PROVE ProcessInv'
  <2>1. CASE Pass(t) \/ Execute(t)
    BY <1>1, <2>1 DEF Pass, Execute, OnlyLink, vars, mainVars
  <2>2. CASE Reply(t)
    BY <1>1, <2>2 DEF Reply, ZmqReply, vars, mainVars
  <2>3. CASE Abort(t)
    BY <2>3 DEF Abort, M!End, ProcessInv
  <2> QED  BY <1>3, <2>1, <2>2, <2>3 DEF StationServer
<1>4. CASE MainStep(M!Next)
  <2>1. zmqUp' = server'[Box]
    BY <1>4 DEF MainStep
  <2>2. CASE UNCHANGED <<proc, boot, server>>
    BY <1>1, <2>1, <2>2 DEF ProcessInv
  <2>3. CASE /\ proc[Box] # "running"
             /\ proc' = [proc EXCEPT ![Box] = "running"]
             /\ boot' = [boot EXCEPT ![Box] = @ + 1]
             /\ server' = [server EXCEPT ![Box] = TRUE]
    BY <2>1, <2>3 DEF ProcessInv
  <2>4. CASE \E how \in {"exited", "crashed"} :
             /\ proc[Box] = "running"
             /\ proc' = [proc EXCEPT ![Box] = how]
             /\ server' = [server EXCEPT ![Box] = FALSE]
             /\ UNCHANGED boot
    BY <2>1, <2>4 DEF ProcessInv
  <2> QED  BY <1>4, <2>2, <2>3, <2>4, MainMoves DEF MainStep
<1>5. CASE UNCHANGED stationVars
  BY <1>1, <1>5 DEF stationVars, vars, mainVars
<1> QED  BY <1>2, <1>3, <1>4, <1>5, Kinds

-----------------------------------------------------------------------------
(* The link.                                                               *)

\* The parts of LinkInv about the thread t.
LinkOf(t) ==
    /\ tpc[t] = "wait" => link[t] # "none"
    /\ link[t] # "none" /\ alive => tpc[t] = "wait"
    /\ link[t] = "queued" => alive
    /\ link[t] \in {"server", "handled"} => zmqUp
    /\ link[t] = "lost" => boot[Box] > 0
    /\ link[t] = "lost" /\ proc[Box] = "running" => boot[Box] > 1

\* A step of the gateway keeps it: a request is put on the link when it is sent,
\* and one that was not passed on ends with the gateway.
LEMMA LinkMove ==
    ASSUME GatewayInv, LinkInv, GatewayMove, Moved, NEW t \in Threads
    PROVE  LinkOf(t)' /\ link'[t] \in LinkStates
<1>1. LinkOf(t) /\ link[t] \in LinkStates
  BY DEF LinkInv, LinkOf
<1>2. ThreadMove(t) /\ (alive' => alive) /\ zmqUp' = zmqUp /\ UNCHANGED <<boot, proc>>
  BY ThreadMoves DEF GatewayInv, Moved, mainVars
<1>3. link'[t] = Sent(t)
  BY DEF Moved
<1>4. ~alive => tpc[t] # "wait"
  BY DEF GatewayInv, OwnershipInv, EndedIsEmpty
<1>5. ~alive' => tpc'[t] # "wait"
  <2>1. Next
    BY DEF GatewayMove, Next
  <2>2. OwnershipInv'
    BY <2>1, NextOwnership DEF GatewayInv
  <2> QED  BY <2>2 DEF OwnershipInv, EndedIsEmpty
<1> QED  BY <1>1, <1>2, <1>3, <1>4, <1>5 DEF LinkOf, Sent, ThreadMove, alive, LinkStates

\* When the station process ends, what it had received is lost.
LEMMA LinkSevered ==
    ASSUME LinkInv, ProcessInv, OnlyServer, link' = Severed(link), UNCHANGED boot,
           proc'[Box] # "running", proc[Box] = "running" \/ zmqUp = FALSE,
           NEW t \in Threads
    PROVE  LinkOf(t)' /\ link'[t] \in LinkStates
BY DEF LinkInv, LinkOf, ProcessInv, OnlyServer, Severed, LinkStates, alive

\* Every step keeps LinkInv.
LEMMA LinkStep ==
    ASSUME GatewayInv, ProcessInv, LinkInv, [StationNext]_stationVars
    PROVE  LinkInv'
<1>1. ASSUME DOMAIN link' = Threads, link' = [t \in Threads |-> link'[t]],
             \A t \in Threads : LinkOf(t)' /\ link'[t] \in LinkStates
      PROVE  LinkInv'
  BY <1>1 DEF LinkInv, LinkOf
<1>2. \A t \in Threads : LinkOf(t) /\ link[t] \in LinkStates
  BY DEF LinkInv, LinkOf
<1>3. CASE GatewayMove /\ Moved
  <2>1. DOMAIN link' = Threads /\ link' = [t \in Threads |-> link'[t]]
    BY <1>3 DEF Moved
  <2> QED  BY <1>1, <1>3, <2>1, LinkMove
<1>4. ASSUME NEW t \in Threads, StationServer(t) PROVE LinkInv'
  <2>1. DOMAIN link' = Threads /\ link' = [u \in Threads |-> link'[u]]
    BY <1>4 DEF StationServer, Pass, Execute, Reply, Abort, Severed, LinkInv
  <2>2. CASE Pass(t) \/ Execute(t)
    <3>1. \A u \in Threads : LinkOf(u)' /\ link'[u] \in LinkStates
      BY <1>2, <2>2 DEF Pass, Execute, OnlyLink, vars, mainVars, LinkOf, LinkStates, alive, LinkInv
    <3> QED  BY <1>1, <2>1, <3>1
  <2>3. CASE Reply(t)
    <3>1. /\ link' = [link EXCEPT ![t] = "none"]
          /\ UNCHANGED <<boot, proc, zmqUp, ended>>
          /\ \A u \in Threads \ {t} : tpc'[u] = tpc[u]
          /\ tpc'[t] # "wait"
      <4>1. ~alive => tpc[t] # "wait"
        BY DEF GatewayInv, OwnershipInv, EndedIsEmpty
      <4> QED  BY <2>3, <4>1 DEF Reply, ZmqReply, vars, mainVars, GatewayInv, TypeInv, TypeOK
    <3>2. \A u \in Threads : LinkOf(u)' /\ link'[u] \in LinkStates
      BY <1>2, <3>1 DEF LinkOf, LinkStates, alive, LinkInv
    <3> QED  BY <1>1, <2>1, <3>2
  <2>4. CASE Abort(t)
    <3>1. /\ OnlyServer /\ link' = Severed(link) /\ UNCHANGED boot
          /\ proc'[Box] # "running" /\ proc[Box] = "running"
      BY <2>4 DEF Abort, OnlyServer, M!End, ProcessInv, clientVars, threadVars
    <3> QED  BY <1>1, <2>1, <3>1, LinkSevered
  <2> QED  BY <1>4, <2>2, <2>3, <2>4 DEF StationServer
<1>5. CASE MainStep(M!Next)
  <2>0. OnlyServer /\ zmqUp' = server'[Box]
        /\ link' = IF server'[Box] THEN link ELSE Severed(link)
    BY <1>5 DEF MainStep, OnlyServer, clientVars, threadVars
  <2>1. DOMAIN link' = Threads /\ link' = [u \in Threads |-> link'[u]]
    BY <2>0 DEF Severed, LinkInv
  <2>2. CASE UNCHANGED <<proc, boot, server>>
    <3>1. CASE server[Box]
      <4>1. link' = link /\ zmqUp' = zmqUp
        BY <2>0, <2>2, <3>1 DEF ProcessInv
      <4>2. \A u \in Threads : LinkOf(u)' /\ link'[u] \in LinkStates
        BY <1>2, <2>0, <2>2, <4>1 DEF LinkOf, OnlyServer, alive
      <4> QED  BY <1>1, <2>1, <4>2
    <3>2. CASE ~server[Box]
      <4>1. link' = Severed(link) /\ proc'[Box] # "running" /\ zmqUp = FALSE
        BY <2>0, <2>2, <3>2 DEF ProcessInv
      <4> QED  BY <1>1, <2>0, <2>1, <2>2, <4>1, LinkSevered
    <3> QED  BY <3>1, <3>2
  <2>3. CASE /\ proc[Box] # "running"
             /\ proc' = [proc EXCEPT ![Box] = "running"]
             /\ boot' = [boot EXCEPT ![Box] = @ + 1]
             /\ server' = [server EXCEPT ![Box] = TRUE]
    <3>1. link' = link /\ zmqUp' = TRUE
      BY <2>0, <2>3 DEF ProcessInv
    <3>2. boot'[Box] = boot[Box] + 1 /\ boot[Box] \in Nat
      BY <2>3 DEF ProcessInv
    <3>3. \A u \in Threads : LinkOf(u)' /\ link'[u] \in LinkStates
      BY <1>2, <2>0, <3>1, <3>2 DEF LinkOf, OnlyServer, alive
    <3> QED  BY <1>1, <2>1, <3>3
  <2>4. CASE \E how \in {"exited", "crashed"} :
             /\ proc[Box] = "running"
             /\ proc' = [proc EXCEPT ![Box] = how]
             /\ server' = [server EXCEPT ![Box] = FALSE]
             /\ UNCHANGED boot
    <3>1. link' = Severed(link) /\ proc'[Box] # "running" /\ proc[Box] = "running"
      BY <2>0, <2>4 DEF ProcessInv
    <3> QED  BY <1>1, <2>0, <2>1, <2>4, <3>1, LinkSevered
  <2> QED  BY <1>5, <2>2, <2>3, <2>4, MainMoves DEF MainStep
<1>6. CASE UNCHANGED stationVars
  BY <1>6 DEF stationVars, vars, mainVars, LinkInv, alive
<1> QED  BY <1>3, <1>4, <1>5, <1>6, Kinds

-----------------------------------------------------------------------------
(* Requests being worked on.                                               *)

\* While the gateway runs, FlightInv is what its own invariants say: a request
\* on the link belongs to a thread that holds its bytes, and threads that hold
\* bytes serve different connections.
LEMMA FlightAlive == GatewayInv /\ LinkInv /\ alive => FlightInv
<1> SUFFICES ASSUME GatewayInv, LinkInv, alive PROVE FlightInv
  OBVIOUS
<1>1. \A t \in Threads : InFlight(t) => Holding(t)
  BY DEF LinkInv, InFlight, Holding
<1>2. \A t \in Threads : Holding(t) => BelowTaken(chunk[t])
  BY DEF GatewayInv, ChunkInv, HeldBelowTaken
<1>3. ASSUME NEW t \in Threads, NEW u \in Threads \ {t}, Holding(t), Holding(u)
      PROVE  ~Overlap(chunk[t], chunk[u]) /\ (~raced => chunk[t].conn # chunk[u].conn)
  <2>1. ~Overlap(chunk[t], chunk[u])
    BY <1>3 DEF GatewayInv, ChunkInv, NoChunkTwice
  <2>2. ASSUME ~raced PROVE chunk[t].conn # chunk[u].conn
    <3>1. Serving(t) /\ Serving(u)
      BY <1>3 DEF Holding, Serving
    <3>2. Target(t) # NoConn /\ Target(u) # NoConn /\ socket[t] # socket[u]
      BY <2>2, <3>1 DEF GatewayInv, OwnershipInv, OneThreadPerConnection, SocketsExclusive
    <3>3. chunk[t].conn = Target(t) /\ chunk[u].conn = Target(u)
      BY <1>3, <2>2 DEF GatewayInv, RouteInv, Routed
    <3> QED  BY <3>2, <3>3 DEF Target, GatewayInv, Unique
  <2> QED  BY <2>1, <2>2
<1> QED  BY <1>1, <1>2, <1>3 DEF FlightInv

LEMMA FlightAliveNext == GatewayInv' /\ LinkInv' /\ alive' => FlightInv'
BY FlightAlive, PTL

\* recv only takes more.
LEMMA TakenGrows ==
    ASSUME TypeInv, GatewayMove
    PROVE  \A c \in Conns : taken[c] <= taken'[c] /\ taken'[c] \in Nat
<1> USE DEF TypeInv, TypeOK
<1>1. CASE UNCHANGED taken
  BY <1>1
<1>2. ASSUME NEW t \in Threads, RecvData(t)
      PROVE  \A c \in Conns : taken[c] <= taken'[c] /\ taken'[c] \in Nat
  <2>1. rxConn[t] \in Conns
    BY <1>2 DEF RecvData, BlockedHasConn
  <2>2. PICK hi \in Receivable(rxConn[t]) : taken' = [taken EXCEPT ![rxConn[t]] = hi]
    BY <1>2 DEF RecvData
  <2>3. hi \in Nat /\ taken[rxConn[t]] <= hi
    BY <2>1, <2>2 DEF Receivable
  <2> QED  BY <2>1, <2>2, <2>3
<1>3. UNCHANGED taken \/ \E t \in Threads : RecvData(t)
  BY DEF GatewayMove, Acceptor, Accept, AcceptFail, CreateFail, CreateThread, Client, Connect,
         ClientWrite, ClientClose, Handler, ReadSocket, RecvCall, RecvOverrun, RecvEnd,
         ZmqSend, ZmqNoFds, SendBack, SendKilled, CloseSocket, Die
<1> QED  BY <1>1, <1>2, <1>3

\* What lies below taken stays there.
LEMMA BelowStays ==
    ASSUME TypeInv, GatewayMove, NEW x \in Chunk, BelowTaken(x)
    PROVE  BelowTaken(x)'
<1>1. /\ x.conn \in Conns /\ x.hi \in Nat /\ x.hi <= taken[x.conn]
      /\ taken[x.conn] \in Nat
  BY DEF BelowTaken, Chunk, TypeInv, TypeOK
<1>2. taken[x.conn] <= taken'[x.conn] /\ taken'[x.conn] \in Nat
  BY <1>1, TakenGrows
<1> QED  BY <1>1, <1>2 DEF BelowTaken

\* Steps that take on no work keep FlightInv.
LEMMA FlightFrame ==
    ASSUME FlightInv, UNCHANGED chunk, ~raced' => ~raced,
           \A t \in Threads : BelowTaken(chunk[t]) => BelowTaken(chunk[t])',
           \A t \in Threads : InFlight(t)' => InFlight(t)
    PROVE  FlightInv'
BY DEF FlightInv, Overlap

\* Every step keeps FlightInv: also after the gateway has ended the server goes
\* on only with what it had received.
LEMMA FlightStep ==
    ASSUME GatewayInv, ProcessInv, LinkInv, FlightInv, [StationNext]_stationVars
    PROVE  FlightInv'
<1>1. GatewayInv' /\ LinkInv' /\ (~raced' => ~raced)
  BY GatewayStepInv, LinkStep
<1>2. CASE alive'
  BY <1>1, <1>2, FlightAliveNext
<1>3. CASE ~alive'
  <2>1. \A t \in Threads : tpc'[t] \in {"idle", "done"} /\ ~Holding(t)'
    BY <1>1, <1>3 DEF GatewayInv, OwnershipInv, EndedIsEmpty, Holding
  <2>2. ASSUME UNCHANGED <<chunk, taken>>,
               \A t \in Threads : link'[t] \in {"server", "handled"} => InFlight(t)
        PROVE  FlightInv'
    <3>1. \A t \in Threads : InFlight(t)' => InFlight(t)
      BY <2>1, <2>2 DEF InFlight
    <3>2. \A t \in Threads : BelowTaken(chunk[t]) => BelowTaken(chunk[t])'
      BY <2>2 DEF BelowTaken
    <3> QED  BY <1>1, <2>2, <3>1, <3>2, FlightFrame
  <2>3. CASE GatewayMove /\ Moved
    <3>1. UNCHANGED chunk
      <4>1. \A t \in Threads : chunk'[t] = chunk[t]
        BY <1>3, <2>3, ThreadMoves DEF ThreadMove, GatewayInv
      <4>2. chunk \in [Threads -> Chunk] /\ chunk' \in [Threads -> Chunk]
        BY <1>1 DEF GatewayInv, TypeInv, TypeOK
      <4> QED  BY <4>1, <4>2
    <3>2. \A t \in Threads : BelowTaken(chunk[t]) => BelowTaken(chunk[t])'
      <4>1. \A t \in Threads : chunk[t] \in Chunk
        BY DEF GatewayInv, TypeInv, TypeOK
      <4> QED  BY <2>3, <3>1, <4>1, BelowStays DEF GatewayInv, BelowTaken
    <3>3. \A t \in Threads : InFlight(t)' => InFlight(t)
      BY <2>1, <2>3 DEF InFlight, Moved, Sent
    <3> QED  BY <1>1, <3>1, <3>2, <3>3, FlightFrame
  <2>4. ASSUME NEW t \in Threads, StationServer(t) PROVE FlightInv'
    <3>1. UNCHANGED <<chunk, taken>>
      BY <2>4 DEF StationServer, Pass, Execute, Reply, Abort, OnlyLink, ZmqReply, vars, threadVars
    <3>2. \A u \in Threads : link'[u] \in {"server", "handled"} => InFlight(u)
      BY <2>4 DEF StationServer, Pass, Execute, Reply, Abort, Severed, InFlight, Holding, LinkInv
    <3> QED  BY <2>2, <3>1, <3>2
  <2>5. CASE MainStep(M!Next)
    <3>1. UNCHANGED <<chunk, taken>>
      BY <2>5 DEF MainStep, threadVars
    <3>2. \A u \in Threads : link'[u] \in {"server", "handled"} => InFlight(u)
      BY <2>5 DEF MainStep, Severed, InFlight
    <3> QED  BY <2>2, <3>1, <3>2
  <2>6. CASE UNCHANGED stationVars
    BY <2>2, <2>6 DEF stationVars, vars, InFlight
  <2> QED  BY <2>3, <2>4, <2>5, <2>6, Kinds
<1> QED  BY <1>2, <1>3

-----------------------------------------------------------------------------
(* Commands are run once and in order.                                     *)

\* What may still be run is being worked on.
LEMMA UnrunInFlight ==
    ASSUME LinkInv, NEW t \in Threads, Unrun(t)
    PROVE  InFlight(t)
BY DEF LinkInv, Unrun, InFlight, Holding

\* Steps that run nothing, and after which no more may be run than before, keep
\* RunInv.
LEMMA RunFrame ==
    ASSUME RunInv, UNCHANGED <<executed, taken, chunk>>, ~raced' => ~raced,
           \A t \in Threads : Unrun(t)' => Unrun(t)
    PROVE  RunInv'
<1>1. executed' \in Seq(Chunk) /\ \A j \in DOMAIN executed' : BelowTaken(executed[j])'
  BY DEF RunInv, BelowTaken
<1>2. \A i, j \in DOMAIN executed' : i < j => ComesAfter(executed[i], executed[j])'
  BY DEF RunInv, ComesAfter, Overlap
<1>3. \A t \in Threads : Unrun(t)' => \A j \in DOMAIN executed' : ComesAfter(executed[j], chunk[t])'
  BY DEF RunInv, ComesAfter, Overlap
<1> QED  BY <1>1, <1>2, <1>3 DEF RunInv

\* A step of the gateway: what recv takes lies behind everything that was run.
LEMMA RunMove ==
    ASSUME GatewayInv, LinkInv, RunInv, GatewayMove, Moved, ~raced' => ~raced
    PROVE  RunInv'
<1>1. /\ executed' = executed /\ executed \in Seq(Chunk)
      /\ \A j \in DOMAIN executed : executed[j] \in Chunk /\ BelowTaken(executed[j])
  BY ElementOfSeq DEF RunInv, Moved
<1>2. \A j \in DOMAIN executed' : BelowTaken(executed[j])'
  <2> SUFFICES ASSUME NEW j \in DOMAIN executed PROVE BelowTaken(executed[j])'
    BY <1>1
  <2> DEFINE x == executed[j]
  <2>1. x \in Chunk /\ BelowTaken(x)
    BY <1>1
  <2>2. x.conn \in Conns /\ x.hi \in Nat /\ x.hi <= taken[x.conn] /\ taken[x.conn] \in Nat
    BY <2>1 DEF BelowTaken, Chunk, GatewayInv, TypeInv, TypeOK
  <2>3. taken[x.conn] <= taken'[x.conn] /\ taken'[x.conn] \in Nat
    BY <2>2, TakenGrows DEF GatewayInv
  <2> QED  BY <1>1, <2>2, <2>3 DEF BelowTaken
<1>3. \A i, j \in DOMAIN executed' : i < j => ComesAfter(executed[i], executed[j])'
  BY <1>1 DEF RunInv, ComesAfter, Overlap
<1>4. ASSUME NEW t \in Threads, Unrun(t)', NEW j \in DOMAIN executed
      PROVE  ComesAfter(executed[j], chunk[t])'
  <2>1. ThreadMove(t) /\ link'[t] = Sent(t)
    BY ThreadMoves DEF GatewayInv, Moved
  <2>2. link[t] = "queued" /\ alive => tpc[t] = "wait"
    BY DEF LinkInv
  <2>3. CASE Unrun(t) /\ chunk'[t] = chunk[t]
    BY <1>1, <2>3 DEF RunInv, ComesAfter, Overlap
  <2>4. CASE RecvData(t)
    <3> DEFINE x == executed[j]
    <3>1. rxConn[t] \in Conns /\ chunk \in [Threads -> Chunk] /\ taken \in [Conns -> Nat]
      BY <2>4 DEF GatewayInv, TypeInv, TypeOK, BlockedHasConn, RecvData
    <3>2. PICK hi \in Receivable(rxConn[t]) :
            chunk' = [chunk EXCEPT ![t] = [conn |-> rxConn[t], lo |-> taken[rxConn[t]] + 1, hi |-> hi]]
      BY <2>4 DEF RecvData
    <3>3. chunk'[t].conn = rxConn[t] /\ chunk'[t].lo = taken[rxConn[t]] + 1
      BY <3>1, <3>2
    <3>4. x.hi \in Nat /\ x.hi <= taken[x.conn] /\ taken[rxConn[t]] \in Nat
      BY <1>1, <3>1 DEF BelowTaken, Chunk
    <3>5. x.conn = chunk'[t].conn => x.hi < chunk'[t].lo /\ ~(chunk'[t].lo <= x.hi)
      BY <3>3, <3>4
    <3> QED  BY <1>1, <3>5 DEF ComesAfter, Overlap
  <2>5. (Unrun(t) /\ chunk'[t] = chunk[t]) \/ RecvData(t)
    BY <1>4, <2>1, <2>2 DEF ThreadMove, Sent, Unrun, alive
  <2> QED  BY <2>3, <2>4, <2>5
<1> QED  BY <1>1, <1>2, <1>3, <1>4 DEF RunInv

\* HandleCommand runs a command: its bytes are behind those run before, and
\* what else may be run comes from other connections, or after it.
LEMMA RunExecute ==
    ASSUME GatewayInv, LinkInv, FlightInv, RunInv, NEW t \in Threads, Execute(t)
    PROVE  RunInv'
<1>1. /\ UNCHANGED <<taken, chunk, raced, tpc, ended>>
      /\ link[t] = "server"
      /\ link' = [link EXCEPT ![t] = "handled"]
      /\ executed' = Append(executed, chunk[t])
  BY DEF Execute, OnlyLink, vars
<1>2. Unrun(t) /\ InFlight(t) /\ chunk[t] \in Chunk /\ link \in [Threads -> LinkStates]
  BY <1>1 DEF Unrun, InFlight, GatewayInv, TypeInv, TypeOK, LinkInv
<1>3. /\ executed \in Seq(Chunk) /\ executed' \in Seq(Chunk) /\ Len(executed) \in Nat
      /\ DOMAIN executed = 1 .. Len(executed)
      /\ DOMAIN executed' = 1 .. Len(executed) + 1
      /\ \A j \in DOMAIN executed : executed'[j] = executed[j]
      /\ executed'[Len(executed) + 1] = chunk[t]
  BY <1>1, <1>2 DEF RunInv
<1>4. /\ BelowTaken(chunk[t])
      /\ \A j \in DOMAIN executed : BelowTaken(executed[j]) /\ ComesAfter(executed[j], chunk[t])
  BY <1>2 DEF FlightInv, RunInv
<1>5. \A j \in DOMAIN executed' : j \in DOMAIN executed \/ j = Len(executed) + 1
  BY <1>3
<1>6. \A j \in DOMAIN executed' : BelowTaken(executed[j])'
  BY <1>1, <1>3, <1>4, <1>5 DEF BelowTaken
<1>7. ASSUME NEW i \in DOMAIN executed', NEW j \in DOMAIN executed', i < j
      PROVE  ComesAfter(executed[i], executed[j])'
  <2>1. i \in DOMAIN executed
    BY <1>3, <1>7
  <2>2. CASE j \in DOMAIN executed
    <3>1. ComesAfter(executed[i], executed[j])
      BY <1>7, <2>1, <2>2 DEF RunInv
    <3> QED  BY <1>1, <1>3, <2>1, <2>2, <3>1 DEF ComesAfter, Overlap
  <2>3. CASE j = Len(executed) + 1
    <3>1. ComesAfter(executed[i], chunk[t])
      BY <1>4, <2>1
    <3> QED  BY <1>1, <1>3, <2>1, <2>3, <3>1 DEF ComesAfter, Overlap
  <2> QED  BY <1>5, <2>2, <2>3
<1>8. ASSUME NEW u \in Threads, Unrun(u)', NEW j \in DOMAIN executed'
      PROVE  ComesAfter(executed[j], chunk[u])'
  <2>1. u # t
    <3>1. tpc[t] # "request"
      BY <1>1 DEF LinkInv, GatewayInv, OwnershipInv, EndedIsEmpty
    <3> QED  BY <1>1, <1>2, <1>8, <3>1 DEF Unrun
  <2>2. Unrun(u)
    BY <1>1, <1>2, <1>8, <2>1 DEF Unrun
  <2>3. InFlight(u)
    BY <2>2, UnrunInFlight
  <2>4. CASE j \in DOMAIN executed
    <3>1. ComesAfter(executed[j], chunk[u])
      BY <2>2, <2>4 DEF RunInv
    <3> QED  BY <1>1, <1>3, <2>4, <3>1 DEF ComesAfter, Overlap
  <2>5. CASE j = Len(executed) + 1
    <3>1. ~Overlap(chunk[t], chunk[u]) /\ (~raced => chunk[t].conn # chunk[u].conn)
      BY <1>2, <2>1, <2>3 DEF FlightInv
    <3> QED  BY <1>1, <1>3, <2>5, <3>1 DEF ComesAfter, Overlap
  <2> QED  BY <1>5, <2>4, <2>5
<1> QED  BY <1>3, <1>6, <1>7, <1>8 DEF RunInv

\* Every step keeps RunInv.
LEMMA RunStep ==
    ASSUME GatewayInv, ProcessInv, LinkInv, FlightInv, RunInv, [StationNext]_stationVars
    PROVE  RunInv'
<1>1. ~raced' => ~raced
  BY GatewayStepInv
<1>2. CASE GatewayMove /\ Moved
  BY <1>1, <1>2, RunMove
<1>3. ASSUME NEW t \in Threads, StationServer(t) PROVE RunInv'
  <2>1. CASE Execute(t)
    BY <2>1, RunExecute
  <2>2. CASE Pass(t)
    <3>1. UNCHANGED <<executed, taken, chunk, tpc>>
      BY <2>2 DEF Pass, OnlyLink, vars
    <3>2. \A u \in Threads : Unrun(u)' => Unrun(u)
      BY <2>2, <3>1 DEF Pass, Unrun, LinkInv
    <3> QED  BY <1>1, <3>1, <3>2, RunFrame
  <2>3. CASE Reply(t)
    <3>1. UNCHANGED <<executed, taken, chunk>>
      BY <2>3 DEF Reply, ZmqReply, vars
    <3>2. \A u \in Threads : Unrun(u)' => Unrun(u)
      BY <2>3 DEF Reply, ZmqReply, vars, Unrun, LinkInv, GatewayInv, TypeInv, TypeOK
    <3> QED  BY <1>1, <3>1, <3>2, RunFrame
  <2>4. CASE Abort(t)
    <3>1. UNCHANGED <<executed, taken, chunk, tpc>>
      BY <2>4 DEF Abort, threadVars
    <3>2. \A u \in Threads : Unrun(u)' => Unrun(u)
      BY <2>4, <3>1 DEF Abort, Severed, Unrun
    <3> QED  BY <1>1, <3>1, <3>2, RunFrame
  <2> QED  BY <1>3, <2>1, <2>2, <2>3, <2>4 DEF StationServer
<1>4. CASE MainStep(M!Next)
  <2>1. UNCHANGED <<executed, taken, chunk, tpc>>
    BY <1>4 DEF MainStep, threadVars
  <2>2. \A u \in Threads : Unrun(u)' => Unrun(u)
    BY <1>4, <2>1 DEF MainStep, Severed, Unrun
  <2> QED  BY <1>1, <2>1, <2>2, RunFrame
<1>5. CASE UNCHANGED stationVars
  <2>1. UNCHANGED <<executed, taken, chunk>> /\ \A u \in Threads : Unrun(u)' => Unrun(u)
    BY <1>5 DEF stationVars, vars, Unrun
  <2> QED  BY <1>1, <2>1, RunFrame
<1> QED  BY <1>2, <1>3, <1>4, <1>5, Kinds

-----------------------------------------------------------------------------
(* Answers are to commands that were run.                                  *)

\* The chunk x has been run.
Ran(x) == \E j \in DOMAIN executed : executed[j] = x

\* What was run stays so: the history only grows.
LEMMA RanStays ==
    ASSUME RunInv, RunInv',
           executed' = executed \/ \E t \in Threads : executed' = Append(executed, chunk[t]),
           NEW x, Ran(x)
    PROVE  \E j \in DOMAIN executed' : executed'[j] = x
<1>1. CASE executed' = executed
  BY <1>1 DEF Ran
<1>2. ASSUME NEW t \in Threads, executed' = Append(executed, chunk[t])
      PROVE  \E j \in DOMAIN executed' : executed'[j] = x
  <2>1. PICK j \in DOMAIN executed : executed[j] = x
    BY DEF Ran
  <2>2. executed \in Seq(Chunk)
    BY DEF RunInv
  <2>3. j \in DOMAIN executed' /\ executed'[j] = x
    BY <1>2, <2>1, <2>2
  <2> QED  BY <2>3
<1> QED  BY <1>1, <1>2

\* A client of the gateway gets only what a thread was sending back.
LEMMA DeliveredMove ==
    ASSUME TypeInv, GatewayMove, NEW c \in Conns, NEW i \in DOMAIN delivered'[c]
    PROVE  \/ i \in DOMAIN delivered[c] /\ delivered'[c][i] = delivered[c][i]
           \/ \E t \in Threads : tpc[t] = "send" /\ delivered'[c][i] = chunk[t]
<1>1. CASE UNCHANGED delivered
  BY <1>1
<1>2. ASSUME NEW t \in Threads, SendBack(t)
      PROVE  \/ i \in DOMAIN delivered[c] /\ delivered'[c][i] = delivered[c][i]
             \/ tpc[t] = "send" /\ delivered'[c][i] = chunk[t]
  <2>1. delivered \in [Conns -> Seq(Chunk)] /\ chunk[t] \in Chunk
    BY DEF TypeInv, TypeOK
  <2>2. delivered'[c] = delivered[c] \/ delivered'[c] = Append(delivered[c], chunk[t])
    BY <1>2, <2>1 DEF SendBack
  <2>3. delivered[c] \in Seq(Chunk) /\ tpc[t] = "send"
    BY <1>2, <2>1 DEF SendBack
  <2> QED  BY <2>1, <2>2, <2>3
<1>3. UNCHANGED delivered \/ \E t \in Threads : SendBack(t)
  BY DEF GatewayMove, Acceptor, Accept, AcceptFail, CreateFail, CreateThread, Client, Connect,
         ClientWrite, ClientClose, Handler, ReadSocket, RecvCall, RecvData, RecvOverrun, RecvEnd,
         ZmqSend, ZmqNoFds, SendKilled, CloseSocket, Die, clientVars
<1> QED  BY <1>1, <1>2, <1>3

\* A step keeps TruthInv if it answers only what was being answered and sends
\* back only what was being sent back.
LEMMA TruthFrame ==
    ASSUME TruthInv, RunInv, RunInv', UNCHANGED executed,
           \A t \in Threads : tpc'[t] = "send" \/ link'[t] = "handled" =>
                (tpc[t] = "send" \/ link[t] = "handled") /\ chunk'[t] = chunk[t],
           \A c \in Conns : \A i \in DOMAIN delivered'[c] :
                \/ i \in DOMAIN delivered[c] /\ delivered'[c][i] = delivered[c][i]
                \/ \E t \in Threads : tpc[t] = "send" /\ delivered'[c][i] = chunk[t]
    PROVE  TruthInv'
BY DEF TruthInv, AnswersAreTrue

\* Every step keeps TruthInv.
LEMMA TruthStep ==
    ASSUME GatewayInv, ProcessInv, LinkInv, RunInv, RunInv', TruthInv, [StationNext]_stationVars
    PROVE  TruthInv'
<1> USE DEF GatewayInv
<1>1. ASSUME UNCHANGED <<executed, chunk, delivered>>,
             \A t \in Threads : tpc'[t] = "send" \/ link'[t] = "handled" =>
                 tpc[t] = "send" \/ link[t] = "handled"
      PROVE  TruthInv'
  BY <1>1, TruthFrame
<1>2. CASE GatewayMove /\ Moved
  <2>1. ASSUME NEW t \in Threads, tpc'[t] = "send" \/ link'[t] = "handled"
        PROVE  (tpc[t] = "send" \/ link[t] = "handled") /\ chunk'[t] = chunk[t]
    <3>1. ThreadMove(t) /\ link'[t] = Sent(t) /\ (alive' => alive)
      BY <1>2, ThreadMoves DEF Moved
    <3>2. (link[t] = "handled" /\ alive => tpc[t] = "wait") /\ (tpc[t] = "wait" => link[t] # "none")
      BY DEF LinkInv
    <3> QED  BY <2>1, <3>1, <3>2 DEF ThreadMove, Sent
  <2>2. \A c \in Conns : \A i \in DOMAIN delivered'[c] :
            \/ i \in DOMAIN delivered[c] /\ delivered'[c][i] = delivered[c][i]
            \/ \E t \in Threads : tpc[t] = "send" /\ delivered'[c][i] = chunk[t]
    BY <1>2, DeliveredMove
  <2>3. UNCHANGED executed
    BY <1>2 DEF Moved
  <2> QED  BY <2>1, <2>2, <2>3, TruthFrame
<1>3. ASSUME NEW t \in Threads, StationServer(t) PROVE TruthInv'
  <2>1. CASE Pass(t)
    <3>1. UNCHANGED <<executed, chunk, delivered, tpc>>
      BY <2>1 DEF Pass, OnlyLink, vars
    <3> QED  BY <1>1, <2>1, <3>1 DEF Pass, LinkInv
  <2>2. CASE Execute(t)
    <3>1. /\ UNCHANGED <<chunk, delivered, tpc>>
          /\ link' = [link EXCEPT ![t] = "handled"]
          /\ executed' = Append(executed, chunk[t])
      BY <2>2 DEF Execute, OnlyLink, vars
    <3>2. \E j \in DOMAIN executed' : executed'[j] = chunk[t]
      <4>1. executed \in Seq(Chunk) /\ chunk[t] \in Chunk
        BY DEF RunInv, TypeInv, TypeOK
      <4>2. Len(executed) + 1 \in DOMAIN executed' /\ executed'[Len(executed) + 1] = chunk[t]
        BY <3>1, <4>1
      <4> QED  BY <4>2
    <3>3. \A x : Ran(x) => \E j \in DOMAIN executed' : executed'[j] = x
      BY <3>1, RanStays
    <3>4. ASSUME NEW u \in Threads, tpc'[u] = "send" \/ link'[u] = "handled"
          PROVE  \E j \in DOMAIN executed' : executed'[j] = chunk'[u]
      <4>1. CASE u = t
        BY <3>1, <3>2, <4>1
      <4>2. CASE u # t
        <5>1. Ran(chunk[u])
          BY <3>1, <3>4, <4>2 DEF TruthInv, Ran, LinkInv
        <5> QED  BY <3>1, <3>3, <5>1
      <4> QED  BY <4>1, <4>2
    <3>5. AnswersAreTrue'
      <4>1. \A c \in Conns : \A i \in DOMAIN delivered[c] : Ran(delivered[c][i])
        BY DEF TruthInv, AnswersAreTrue, Ran
      <4> QED  BY <3>1, <3>3, <4>1 DEF AnswersAreTrue
    <3> QED  BY <3>4, <3>5 DEF TruthInv
  <2>3. CASE Reply(t)
    <3>1. UNCHANGED <<executed, chunk, delivered>>
      BY <2>3 DEF Reply, ZmqReply, vars, clientVars
    <3>2. \A u \in Threads : tpc'[u] = "send" \/ link'[u] = "handled" =>
              tpc[u] = "send" \/ link[u] = "handled"
      BY <2>3 DEF Reply, Answered, ZmqReply, vars, LinkInv, TypeInv, TypeOK
    <3> QED  BY <1>1, <3>1, <3>2
  <2>4. CASE Abort(t)
    <3>1. UNCHANGED <<executed, chunk, delivered, tpc>>
      BY <2>4 DEF Abort, threadVars, clientVars
    <3> QED  BY <1>1, <2>4, <3>1 DEF Abort, Severed
  <2> QED  BY <1>3, <2>1, <2>2, <2>3, <2>4 DEF StationServer
<1>4. CASE MainStep(M!Next)
  <2>1. UNCHANGED <<executed, chunk, delivered, tpc>>
    BY <1>4 DEF MainStep, threadVars, clientVars
  <2> QED  BY <1>1, <1>4, <2>1 DEF MainStep, Severed
<1>5. CASE UNCHANGED stationVars
  BY <1>1, <1>5 DEF stationVars, vars
<1> QED  BY <1>2, <1>3, <1>4, <1>5, Kinds

-----------------------------------------------------------------------------
(* The theorems.                                                           *)

LEMMA StationInitInv == StationInit => StationInv
<1> SUFFICES ASSUME StationInit PROVE StationInv
  OBVIOUS
<1>1. GatewayInv
  BY InitType, InitChunk, InitOwnership, InitRoute DEF StationInit, GatewayInv
<1>2. ProcessInv
  BY DEF StationInit, M!Init, ProcessInv
<1>3. \A t \in Threads : tpc[t] = "idle" /\ link[t] = "none"
  BY DEF StationInit, Init
<1>4. LinkInv
  BY <1>3 DEF StationInit, LinkInv, LinkStates
<1>5. FlightInv
  BY <1>3 DEF FlightInv, InFlight, Holding
<1>6. executed = <<>> /\ \A c \in Conns : delivered[c] = <<>>
  BY DEF StationInit, Init
<1>7. RunInv
  BY <1>3, <1>6 DEF RunInv, Unrun
<1>8. TruthInv
  BY <1>3, <1>6 DEF TruthInv, AnswersAreTrue
<1> QED  BY <1>1, <1>2, <1>4, <1>5, <1>7, <1>8 DEF StationInv

LEMMA StationStepInv == StationInv /\ [StationNext]_stationVars => StationInv'
<1> SUFFICES ASSUME StationInv, [StationNext]_stationVars PROVE StationInv'
  OBVIOUS
<1> USE DEF StationInv
<1>1. GatewayInv' /\ ProcessInv' /\ LinkInv'
  BY GatewayStepInv, ProcessStep, LinkStep
<1>2. FlightInv' /\ RunInv'
  BY FlightStep, RunStep
<1>3. TruthInv'
  BY <1>2, TruthStep
<1> QED  BY <1>1, <1>2, <1>3

LEMMA StationInvariant == StationSpec => []StationInv
BY StationInitInv, StationStepInv, PTL DEF StationSpec

\* Whatever the two processes do, also when one of them ends at any moment and
\* the station process is started again: no command is run twice by
\* HandleCommand, and while no accept has overtaken a thread's read of
\* clientSocket the commands of a connection are run in the order in which they
\* were sent.
THEOREM CommandsRunOnce == StationSpec => []ExecutedOnceInOrder
<1>1. StationInv => ExecutedOnceInOrder
  BY DEF StationInv, RunInv, ComesAfter, ExecutedOnceInOrder
<1> QED  BY <1>1, StationInvariant, PTL

\* Every answer that handleClient sends back over TCP is to a command that the
\* server has run: ending the station process between the two never makes the
\* gateway tell a client something untrue.
THEOREM AnswersTrue == StationSpec => []AnswersAreTrue
<1>1. StationInv => AnswersAreTrue
  BY DEF StationInv, TruthInv
<1> QED  BY <1>1, StationInvariant, PTL

\* The recv of handleClient, which has no timeout, waits for a request that is
\* on its way or was lost with an earlier station process, and there is a server
\* thread exactly while main's process runs.
THEOREM WaitsAccounted == StationSpec => []WaitIsAccounted
<1>1. StationInv => WaitIsAccounted
  BY DEF StationInv, ProcessInv, LinkInv, WaitIsAccounted
<1> QED  BY <1>1, StationInvariant, PTL

-----------------------------------------------------------------------------
(* The two processes together implement the abstract service.              *)

LEMMA StationStream ==
    ASSUME GatewayInv, ProcessInv, StreamInv, [StationNext]_stationVars
    PROVE  StreamInv'
<1>1. CASE [Next]_vars
  BY <1>1, NextStream DEF GatewayInv
<1>2. CASE OnlyServer
  BY <1>2, StreamFrame DEF OnlyServer, Holding
<1> QED  BY <1>1, <1>2, StepKinds

LEMMA StationService ==
    ASSUME GatewayInv, ProcessInv, StreamInv, [StationNext]_stationVars
    PROVE  [Service!Next]_(Service!service)
<1>1. CASE [Next]_vars
  BY <1>1, NextService DEF GatewayInv
<1>2. CASE OnlyServer
  BY <1>2 DEF OnlyServer, Service!service
<1> QED  BY <1>1, <1>2, StepKinds

\* To its TCP clients the station with its two processes, in which commands are
\* lost with a process that ends, is still the service of CommandService: an
\* answer may never come, but what comes is the client's own, in order and once.
THEOREM StationImplementsService == StationSpec => ImplementsService
<1>1. StationInv => GatewayInv /\ ProcessInv
  BY DEF StationInv
<1>2. StationInit => Init
  BY DEF StationInit
<1>3. GatewayInv /\ ProcessInv /\ StreamInv /\ [StationNext]_stationVars => StreamInv'
  BY StationStream
<1>4. GatewayInv /\ ProcessInv /\ StreamInv /\ [StationNext]_stationVars => [Service!Next]_(Service!service)
  BY StationService
<1> QED
  BY <1>1, <1>2, <1>3, <1>4, StationInvariant, InitStream, InitService, PTL
  DEF StationSpec, ImplementsService, Service!Spec
=============================================================================
