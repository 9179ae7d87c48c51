-------------------------- MODULE ZmqServerProofs --------------------------
(***************************************************************************)
(* Proofs about the command server, for any documents, faults, buses,      *)
(* devices, integer ranges and any number of requests and calls.           *)
(***************************************************************************)
EXTENDS ZmqServer, TLAPS

-----------------------------------------------------------------------------
(* The inductive invariant.                                                *)

\* What has failed while the request in hand was handled.
Fault == faults[Len(faults)]

\* The request in hand has not been answered yet.
BusySteps == {"parse", "handle", "i2c_open", "i2c_slave", "i2c_xfer", "i2c_close",
              "exec_open", "exec_read", "mem_open", "mem_map", "mem_read", "send"}

\* Requests, faults and replies stay in step.
LockStep ==
    /\ Len(faults) = Len(received)
    /\ Len(received) - Len(replies) \in {0, 1}
    /\ pc \in BusySteps => Len(received) = Len(replies) + 1
    /\ pc \in {"idle", "loop", "recv", "exited"} => Len(received) = Len(replies)

\* What the handler holds at each of its steps.
HeldInv ==
    /\ pc \in {"i2c_slave", "i2c_xfer", "i2c_close"} => fds = {"i2c"}
    /\ pc = "exec_read" => fds = {"pipe"}
    /\ pc \in {"mem_map", "mem_read"} => fds = {"mem"}
    /\ pc \notin {"i2c_slave", "i2c_xfer", "i2c_close", "exec_read", "mem_map", "mem_read"}
            => fds = {}
    /\ pc = "mem_read" => mapped = PageStart(Address(Request))
    /\ pc # "mem_read" => mapped = -1

\* The owner, the stop flag and the thread: a Stop that has returned leaves no
\* thread that could still receive, and a late request is the last.
StopInv ==
    /\ joinable => calls > 0
    /\ ~joinable => pc \in {"idle", "exited", "terminated"}
    /\ owner = "joining" => stop /\ joinable
    /\ stop /\ owner = "ready" => pc \in {"idle", "loop", "exited", "terminated"}
    /\ late <= 1
    /\ late = 1 => stop /\ pc # "recv"

\* What the steps so far have found out about the request in hand.
RequestInv ==
    /\ pc \in BusySteps \ {"send", "i2c_close"} => Fault = "none"
    /\ pc \in {"i2c_open", "i2c_slave", "i2c_xfer", "i2c_close"} =>
            Request.command \in I2CCommands /\ ~InvalidParameters(Request)
    /\ pc \in {"i2c_slave", "i2c_xfer", "i2c_close"} => Param(Request, "bus") \in Buses
    /\ pc \in {"i2c_xfer", "i2c_close"} => Param(Request, "address") \in 0 .. MaxAddress
    /\ pc = "i2c_close" =>
            /\ Fault \in {"none", "i2c_xfer"}
            /\ IsRead => IF Fault = "none" /\ Device(Request) \in Devices
                         THEN data \in Byte ELSE data = -1
    /\ pc \in {"exec_open", "exec_read"} => Request.command \in UsageCommands
    /\ pc \in {"mem_open", "mem_map", "mem_read"} =>
            Request.command = "read_memory_address" /\ Request.memory.kind = "text"

\* Each reply, also the one about to be sent, is an answer to its request.
AnswerInv ==
    /\ pc = "send" => response \in Answers(Request, Fault)
    /\ \A i \in DOMAIN replies : replies[i] \in Answers(received[i], faults[i])

\* The document, handled with this fault, is a write that reached register r of d.
WroteBy(doc, fault, d, r) ==
    /\ doc.command = "write_i2c_register"
    /\ ~InvalidParameters(doc)
    /\ Device(doc) = d
    /\ Register(doc) = r
    /\ fault = "none"

\* v is what the first i - 1 of the documents left in register r of device d.
Holds(docs, flts, i, d, r, v) ==
    \/ /\ v = 0
       /\ \A j \in 1 .. i - 1 : ~WroteBy(docs[j], flts[j], d, r)
    \/ \E j \in 1 .. i - 1 :
        /\ WroteBy(docs[j], flts[j], d, r)
        /\ \A k \in 1 .. i - 1 : WroteBy(docs[k], flts[k], d, r) => k <= j
        /\ v = Param(docs[j], "val") % ByteSpace

\* One more than the number of requests whose transfer, if any, is over.
Settled == IF pc \in BusySteps \ {"i2c_close", "send"} THEN Len(received)
           ELSE Len(received) + 1

\* The document, handled with this fault, asks a device that answers.
ReachesDevice(doc, fault) ==
    /\ doc.command \in I2CCommands
    /\ ~InvalidParameters(doc)
    /\ Device(doc) \in Devices
    /\ fault = "none"

Reads(doc, fault) == doc.command = "read_i2c_register" /\ ReachesDevice(doc, fault)

\* The registers, the byte in hand and the replies hold the last writes.
RegisterInv ==
    /\ pc # "terminated" =>
            \A d \in Devices, r \in Byte : Holds(received, faults, Settled, d, r, regs[d][r])
    /\ pc = "i2c_close" /\ Reads(Request, Fault) =>
            Holds(received, faults, Len(received), Device(Request), Register(Request), data)
    /\ pc = "send" /\ Reads(Request, Fault) =>
            Holds(received, faults, Len(received), Device(Request), Register(Request),
                  response.n)
    /\ \A i \in DOMAIN replies : Reads(received[i], faults[i]) =>
            Holds(received, faults, i, Device(received[i]), Register(received[i]),
                  replies[i].n)

Inv == TypeOK /\ LockStep /\ HeldInv /\ StopInv /\ RequestInv /\ AnswerInv
       /\ SoundRequestsSurvive /\ RegisterInv

-----------------------------------------------------------------------------
(* Arithmetic and documents.                                               *)

\* A remainder is less than the divisor.
LEMMA ModRange ==
    ASSUME NEW a \in Int, NEW b \in Nat \ {0}
    PROVE  a % b \in 0 .. b - 1
OBVIOUS

\* A remainder of what is in range is the number itself.
LEMMA ModSmall ==
    ASSUME NEW b \in Nat \ {0}, NEW a \in 0 .. b - 1
    PROVE  a % b = a
OBVIOUS

\* A natural number's remainder is not larger than the number.
LEMMA ModAtMost ==
    ASSUME NEW a \in Nat, NEW b \in Nat \ {0}
    PROVE  a % b <= a
OBVIOUS

\* -1, the result of a failed transfer, becomes the largest unsigned number.
LEMMA ModMinusOne ==
    ASSUME NEW b \in Nat \ {0}
    PROVE  (-1) % b = b - 1
OBVIOUS

\* What HandleCommand takes out of a document is in range.
LEMMA DocumentFacts ==
    ASSUME NEW doc \in Document
    PROVE  /\ \A name \in {"bus", "address", "reg", "val"} : Param(doc, name) \in Int
           /\ Register(doc) \in Byte
           /\ Param(doc, "val") % ByteSpace \in Byte
           /\ Address(doc) \in 0 .. PtrSpace - 1
           /\ PageStart(Address(doc)) \in 0 .. PtrSpace - 1
<1>1. ASSUME NEW name \in {"bus", "address", "reg", "val"}
      PROVE  Param(doc, name) \in Int
    <2>1. doc[name] \in JsonInt
        BY DEF Document
    <2>2. doc[name].n \in Int
        BY <2>1 DEF JsonInt
    <2>3. 2 * IntHalf \in Nat \ {0} /\ IntHalf \in Int
        BY ServerAssumption
    <2>4. (doc[name].n + IntHalf) % (2 * IntHalf) \in Int
        <3> DEFINE a == doc[name].n + IntHalf
                   b == 2 * IntHalf
        <3>1. a \in Int /\ b \in Nat \ {0}
            BY <2>2, <2>3
        <3> HIDE DEF a, b
        <3>2. a % b \in Int
            BY <3>1, ModRange
        <3>3. QED
            BY <3>2 DEF a, b
    <2>5. QED
        BY <2>3, <2>4 DEF Param, ToInt
<1>2. Register(doc) \in Byte /\ Param(doc, "val") % ByteSpace \in Byte
    BY <1>1, ServerAssumption, ModRange DEF Register, Byte
<1>3. doc.memory.n \in Nat
    BY DEF Document, JsonAddress
<1>4. Address(doc) \in 0 .. PtrSpace - 1
    <2>1. doc.memory.n \in Int /\ PtrSpace \in Nat \ {0}
        BY <1>3, ServerAssumption
    <2>2. QED
        BY <2>1, ModRange DEF Address
<1>5. PageStart(Address(doc)) \in 0 .. PtrSpace - 1
    <2>1. /\ Address(doc) \in Nat /\ PageSize \in Nat \ {0} /\ PtrSpace \in Nat
          /\ Address(doc) <= PtrSpace - 1
        BY <1>4, ServerAssumption
    <2>2. Address(doc) % PageSize <= Address(doc) /\ Address(doc) % PageSize \in 0 .. PageSize - 1
        BY <2>1, ModAtMost, ModRange
    <2>3. QED
        BY <2>1, <2>2 DEF PageStart
<1>6. QED
    BY <1>1, <1>2, <1>4, <1>5

\* The request in hand is one of the documents.
LEMMA RequestIsDocument ==
    ASSUME TypeOK, Len(received) > 0
    PROVE  Request \in Document /\ Request \in Documents
BY ServerAssumption DEF TypeOK, Request

\* Replies.
LEMMA ReplyTypes ==
    /\ \A text \in Texts : Say(text) \in Reply
    /\ \A v \in Int : Hex(v) \in Reply
    /\ \A r \in Reply : WrapReply(r) \in Reply
<1>1. \A text \in Texts : Say(text) \in Reply
    BY DEF Say, Reply
<1>2. ASSUME NEW v \in Int PROVE Hex(v) \in Reply
    <2>1. v % (2 * IntHalf) \in Int
        BY ServerAssumption, ModRange
    <2>2. Hex(v) = [wraps |-> 0, text |-> "hex", n |-> v % (2 * IntHalf)]
        BY DEF Hex, Say
    <2>3. QED
        BY <2>1, <2>2 DEF Reply, Texts
<1>3. ASSUME NEW r \in Reply PROVE WrapReply(r) \in Reply
    BY DEF WrapReply, Reply
<1>4. QED
    BY <1>1, <1>2, <1>3

-----------------------------------------------------------------------------
(* What the steps of HandleCommand leave alone.                            *)

\* A handler step changes neither the owner's state nor the queues, ends in the
\* handler, at its reply or with the process, and notes at most one failure.
LEMMA HandlerFrame ==
    ASSUME Handler
    PROVE  /\ UNCHANGED <<owner, calls, stop, joinable, inbox, received, late, replies>>
           /\ pc \in BusySteps \ {"parse", "send"}
           /\ pc' \in (BusySteps \ {"parse", "handle"}) \cup {"terminated"}
           /\ \/ faults' = faults
              \/ \E kind \in FaultKinds : faults' = [faults EXCEPT ![Len(faults)] = kind]
<1> USE ServerAssumption DEF BusySteps, ownerVars, queueVars, Terminate, Return, Proceed,
                             Works, Fails, GiveUp
<1>1. CASE Handle
    <2>1. CASE Throws(Request)
        BY <1>1, <2>1 DEF Handle
    <2>2. CASE ~Throws(Request)
        BY <1>1, <2>2 DEF Handle, Dispatch
    <2>3. QED
        BY <2>1, <2>2
<1>2. CASE I2COpen
    BY <1>2 DEF I2COpen
<1>3. CASE I2CSlave
    BY <1>3 DEF I2CSlave
<1>4. CASE I2CTransfer
    BY <1>4 DEF I2CTransfer
<1>5. CASE I2CClose
    BY <1>5 DEF I2CClose
<1>6. CASE ExecOpen
    BY <1>6 DEF ExecOpen
<1>7. CASE ExecRead
    BY <1>7 DEF ExecRead
<1>8. CASE MemOpen
    BY <1>8 DEF MemOpen
<1>9. CASE MemMap
    BY <1>9 DEF MemMap
<1>10. CASE MemRead
    BY <1>10 DEF MemRead
<1>11. QED
    BY <1>1, <1>2, <1>3, <1>4, <1>5, <1>6, <1>7, <1>8, <1>9, <1>10 DEF Handler

\* MemRead looks at the address that was asked for.
LEMMA ByteAtAddress ==
    ASSUME NEW doc \in Document
    PROVE  PageStart(Address(doc)) + (Address(doc) - PageStart(Address(doc))) = Address(doc)
BY DocumentFacts

\* The contents of /dev/mem are bytes.
LEMMA MemoryBytes ==
    ASSUME NEW a \in 0 .. PtrSpace - 1
    PROVE  Memory[a] \in Byte
BY ServerAssumption DEF Byte

\* Bytes and -1 are integers.
LEMMA ByteIsInt == Byte \subseteq Int
BY ServerAssumption DEF Byte

-----------------------------------------------------------------------------
(* Types.                                                                  *)

\* The steps of HandleCommand keep the types.
LEMMA HandlerTypes ==
    ASSUME TypeOK, LockStep, HeldInv, Handler
    PROVE  TypeOK'
<1>1. Len(received) > 0 /\ Request \in Document
    <2>1. Len(received) > 0
        BY HandlerFrame DEF LockStep, TypeOK
    <2>2. QED
        BY <2>1, RequestIsDocument
<1>2. pc' \in Steps
    BY HandlerFrame DEF BusySteps, Steps
<1>3. faults' \in Seq(FaultKinds \cup {"none"})
    <2>1. faults \in Seq(FaultKinds \cup {"none"}) /\ Len(faults) \in DOMAIN faults
        BY <1>1 DEF TypeOK, LockStep
    <2>2. ASSUME NEW kind \in FaultKinds
          PROVE  [faults EXCEPT ![Len(faults)] = kind] \in Seq(FaultKinds \cup {"none"})
        BY <2>1
    <2>3. QED
        BY <2>1, <2>2, HandlerFrame
<1>4. regs' \in [Devices -> [Byte -> Byte]]
    <2>1. CASE I2CTransfer
        <3>1. Register(Request) \in Byte /\ Param(Request, "val") % ByteSpace \in Byte
            BY <1>1, DocumentFacts
        <3>2. CASE Transfer
            <4>1. CASE IsRead
                BY <3>2, <4>1 DEF Transfer, TypeOK
            <4>2. CASE ~IsRead
                <5> DEFINE d == Device(Request)
                           r == Register(Request)
                           v == Param(Request, "val") % ByteSpace
                <5>1. d \in Devices /\ regs' = [regs EXCEPT ![d][r] = v]
                    BY <3>2, <4>2 DEF Transfer
                <5> HIDE DEF d, r, v
                <5>2. QED
                    BY <3>1, <5>1 DEF TypeOK, d, r, v
            <4>3. QED
                BY <4>1, <4>2
        <3>3. CASE NoTransfer
            BY <3>3 DEF NoTransfer, TypeOK
        <3>4. QED
            BY <2>1, <3>2, <3>3 DEF I2CTransfer
    <2>2. CASE ~I2CTransfer
        <3>1. UNCHANGED regs
            BY <2>2 DEF Handler, Handle, Dispatch, I2COpen, I2CSlave, I2CClose, ExecOpen,
                ExecRead, MemOpen, MemMap, MemRead, GiveUp, Return, Proceed, Terminate
        <3>2. QED
            BY <3>1 DEF TypeOK
    <2>3. QED
        BY <2>1, <2>2
<1>5. data' \in Byte \cup {-1}
    <2>1. CASE I2CTransfer
        BY <1>1, <2>1, DocumentFacts DEF I2CTransfer, Transfer, NoTransfer, TypeOK
    <2>2. CASE ~I2CTransfer
        <3>1. UNCHANGED data
            BY <2>2 DEF Handler, Handle, Dispatch, I2COpen, I2CSlave, I2CClose, ExecOpen,
                ExecRead, MemOpen, MemMap, MemRead, GiveUp, Return, Proceed, Terminate
        <3>2. QED
            BY <3>1 DEF TypeOK
    <2>3. QED
        BY <2>1, <2>2
<1>6. response' \in Reply
    <2>1. response' = response \/ \E r \in Reply : response' = WrapReply(r)
        <3> USE DEF Terminate, Return, Proceed, GiveUp, Texts, TypeOK
        <3>1. CASE MemRead
            <4>1. mapped = PageStart(Address(Request))
                BY <3>1 DEF MemRead, HeldInv
            <4>2. Memory[mapped + (Address(Request) - PageStart(Address(Request)))] \in Int
                BY <1>1, <4>1, DocumentFacts, ByteAtAddress, MemoryBytes, ByteIsInt
            <4>3. QED
                BY <3>1, <4>2, ReplyTypes DEF MemRead
        <3>2. CASE I2CClose
            <4>1. data \in Int
                BY ByteIsInt
            <4>2. QED
                BY <3>2, <4>1, ReplyTypes DEF I2CClose
        <3>3. CASE Handle
            BY <3>3, ReplyTypes DEF Handle, Dispatch
        <3>4. CASE I2COpen
            BY <3>4, ReplyTypes DEF I2COpen
        <3>5. CASE I2CSlave
            BY <3>5, ReplyTypes DEF I2CSlave
        <3>6. CASE I2CTransfer
            BY <3>6 DEF I2CTransfer
        <3>7. CASE ExecOpen
            BY <3>7, ReplyTypes DEF ExecOpen
        <3>8. CASE ExecRead
            BY <3>8, ReplyTypes DEF ExecRead
        <3>9. CASE MemOpen
            BY <3>9, ReplyTypes DEF MemOpen
        <3>10. CASE MemMap
            BY <3>10, ReplyTypes DEF MemMap
        <3>11. QED
            BY <3>1, <3>2, <3>3, <3>4, <3>5, <3>6, <3>7, <3>8, <3>9, <3>10 DEF Handler
    <2>2. QED
        BY <2>1, ReplyTypes DEF TypeOK
<1>7. fds' \subseteq {"i2c", "pipe", "mem"}
    BY DEF TypeOK, Handler, Handle, I2COpen, I2CSlave, I2CTransfer, I2CClose, ExecOpen,
           ExecRead, MemOpen, MemMap, MemRead, Open, Close, Keep, Terminate
<1>8. mapped' \in -1 .. PtrSpace - 1
    <2>1. CASE MemMap
        <3>1. mapped' = PageStart(Address(Request)) \/ mapped' = mapped
            BY <2>1 DEF MemMap, Close
        <3>2. PageStart(Address(Request)) \in 0 .. PtrSpace - 1 /\ PtrSpace \in Nat
            BY <1>1, DocumentFacts, ServerAssumption
        <3>3. QED
            BY <3>1, <3>2 DEF TypeOK
    <2>2. CASE ~MemMap
        <3>1. mapped' = mapped \/ mapped' = -1
            BY <2>2 DEF Handler, Handle, I2COpen, I2CSlave, I2CTransfer, I2CClose, ExecOpen,
                ExecRead, MemOpen, MemRead, Open, Close, Keep, Terminate
        <3>2. PtrSpace \in Nat \ {0}
            BY ServerAssumption
        <3>3. QED
            BY <3>1, <3>2 DEF TypeOK
    <2>3. QED
        BY <2>1, <2>2
<1>9. QED
    BY <1>2, <1>3, <1>4, <1>5, <1>6, <1>7, <1>8, HandlerFrame DEF TypeOK

\* Every step keeps the types.
LEMMA TypeStep ==
    ASSUME TypeOK, LockStep, HeldInv, [Next]_vars
    PROVE  TypeOK'
<1> USE DEF ownerVars, queueVars
<1>1. CASE UNCHANGED vars
    BY <1>1 DEF TypeOK, vars
<1>2. CASE Start
    <2>1. calls' \in 0 .. MaxCalls
        BY <1>2, ServerAssumption DEF TypeOK, Start
    <2>2. joinable' \in BOOLEAN /\ pc' \in Steps
        BY <1>2 DEF Start, Steps
    <2>3. QED
        BY <1>2, <2>1, <2>2 DEF TypeOK, Start
<1>3. CASE StartTwice
    <2>1. calls' \in 0 .. MaxCalls
        BY <1>3, ServerAssumption DEF TypeOK, StartTwice
    <2>2. mapped' \in -1 .. PtrSpace - 1
        <3>1. PtrSpace \in Nat \ {0}
            BY ServerAssumption
        <3>2. QED
            BY <1>3, <3>1 DEF StartTwice, Terminate
    <2>3. QED
        BY <1>3, <2>1, <2>2 DEF TypeOK, StartTwice, Terminate, Steps
<1>4. CASE Stop
    <2>1. calls' \in 0 .. MaxCalls
        BY <1>4, ServerAssumption DEF TypeOK, Stop
    <2>2. stop' \in BOOLEAN /\ owner' \in {"ready", "joining"}
        BY <1>4 DEF Stop
    <2>3. QED
        BY <1>4, <2>1, <2>2 DEF TypeOK, Stop
<1>5. CASE Join
    <2>1. joinable' \in BOOLEAN
        BY <1>5 DEF Join
    <2>2. QED
        BY <1>5, <2>1 DEF TypeOK, Join
<1>6. CASE Loop
    BY <1>6 DEF TypeOK, Loop, Steps
<1>7. CASE Recv
    <2>1. Head(inbox) \in Documents /\ Tail(inbox) \in Seq(Documents)
        BY <1>7 DEF TypeOK, Recv
    <2>2. inbox' \in Seq(Documents) /\ received' \in Seq(Documents)
        BY <1>7, <2>1 DEF TypeOK, Recv
    <2>3. faults' \in Seq(FaultKinds \cup {"none"})
        BY <1>7 DEF TypeOK, Recv
    <2>4. late' \in Nat
        BY <1>7 DEF TypeOK, Recv
    <2>5. QED
        BY <1>7, <2>2, <2>3, <2>4 DEF TypeOK, Recv, Steps
<1>8. CASE Parse
    <2>1. -1 \in -1 .. PtrSpace - 1
        BY ServerAssumption
    <2>2. QED
        BY <1>8, <2>1 DEF TypeOK, Parse, Terminate, Proceed, Keep, Steps
<1>9. CASE Send
    <2>1. NoReply \in Reply
        BY ReplyTypes DEF NoReply, Texts
    <2>2. replies' \in Seq(Reply)
        BY <1>9 DEF TypeOK, Send
    <2>3. QED
        BY <1>9, <2>1, <2>2 DEF TypeOK, Send, Steps
<1>10. CASE RecvFail
    BY <1>10 DEF TypeOK, RecvFail, Steps
<1>11. ASSUME NEW doc \in Documents, Arrive(doc)
       PROVE  TypeOK'
    <2>1. inbox' \in Seq(Documents)
        BY <1>11 DEF TypeOK, Arrive
    <2>2. QED
        BY <1>11, <2>1 DEF TypeOK, Arrive
<1>12. QED
    BY <1>1, <1>2, <1>3, <1>4, <1>5, <1>6, <1>7, <1>8, <1>9, <1>10, <1>11, HandlerTypes
       DEF Next, Run

-----------------------------------------------------------------------------
(* Requests and replies stay in step.                                      *)

\* Every step keeps LockStep.
LEMMA LockStepStep ==
    ASSUME TypeOK, LockStep, StopInv, [Next]_vars
    PROVE  LockStep'
<1> USE DEF ownerVars, queueVars, LockStep, BusySteps
<1>1. CASE UNCHANGED vars
    BY <1>1 DEF vars
<1>2. CASE Start \/ StartTwice \/ Stop \/ Join
    BY <1>2 DEF StopInv, Start, StartTwice, Stop, Join, Terminate
<1>3. CASE Loop \/ RecvFail
    BY <1>3 DEF Loop, RecvFail
<1>4. CASE Recv
    <2>1. Len(received') = Len(received) + 1 /\ Len(faults') = Len(faults) + 1
        BY <1>4 DEF Recv, TypeOK
    <2>2. Len(received) = Len(replies) /\ Len(replies) \in Nat /\ replies' = replies
        BY <1>4 DEF Recv, TypeOK
    <2>3. QED
        BY <1>4, <2>1, <2>2 DEF Recv
<1>5. CASE Parse
    BY <1>5 DEF Parse, Terminate, Proceed
<1>6. CASE Handler
    <2>1. Len(faults') = Len(faults)
        BY HandlerFrame, <1>6 DEF TypeOK
    <2>2. QED
        BY <1>6, <2>1, HandlerFrame
<1>7. CASE Send
    <2>1. Len(replies') = Len(replies) + 1 /\ Len(replies) \in Nat
        BY <1>7 DEF Send, TypeOK
    <2>2. QED
        BY <1>7, <2>1 DEF Send
<1>8. ASSUME NEW doc \in Documents, Arrive(doc)
      PROVE  LockStep'
    BY <1>8 DEF Arrive
<1>9. QED
    BY <1>1, <1>2, <1>3, <1>4, <1>5, <1>6, <1>7, <1>8 DEF Next, Run

-----------------------------------------------------------------------------
(* What the handler holds.                                                 *)

\* Every step keeps HeldInv.
LEMMA HeldStep ==
    ASSUME TypeOK, LockStep, HeldInv, StopInv, [Next]_vars
    PROVE  HeldInv'
<1> USE DEF ownerVars, queueVars, HeldInv
<1>1. CASE UNCHANGED vars
    BY <1>1 DEF vars, Request
<1>2. CASE Start
    BY <1>2 DEF Start, StopInv
<1>3. CASE StartTwice
    BY <1>3 DEF StartTwice, Terminate
<1>4. CASE Stop \/ Join
    BY <1>4 DEF Stop, Join, Request
<1>5. CASE Loop \/ RecvFail \/ Recv \/ Send
    BY <1>5 DEF Loop, RecvFail, Recv, Send
<1>6. CASE Parse
    BY <1>6 DEF Parse, Terminate, Proceed, Keep
<1>7. ASSUME NEW doc \in Documents, Arrive(doc)
      PROVE  HeldInv'
    BY <1>7 DEF Arrive, Request
<1>8. CASE Handle
    BY <1>8 DEF Handle, Dispatch, Return, Proceed, Keep, Terminate
<1>9. CASE I2COpen \/ I2CSlave \/ I2CTransfer \/ I2CClose
    BY <1>9 DEF I2COpen, I2CSlave, I2CTransfer, I2CClose, GiveUp, Return, Proceed, Open,
                Close, Keep, Terminate
<1>10. CASE ExecOpen \/ ExecRead
    BY <1>10 DEF ExecOpen, ExecRead, Return, Proceed, Open, Close, Keep, Terminate
<1>11. CASE MemOpen
    BY <1>11 DEF MemOpen, Return, Proceed, Open, Keep
<1>12. CASE MemMap
    BY <1>12 DEF MemMap, Return, Proceed, Close, Request
<1>13. CASE MemRead
    BY <1>13 DEF MemRead, Return, Terminate
<1>14. QED
    BY <1>1, <1>2, <1>3, <1>4, <1>5, <1>6, <1>7, <1>8, <1>9, <1>10, <1>11, <1>12, <1>13
       DEF Next, Run, Handler

-----------------------------------------------------------------------------
(* Stop.                                                                   *)

\* Every step keeps StopInv.
LEMMA StopStep ==
    ASSUME TypeOK, StopInv, [Next]_vars
    PROVE  StopInv'
<1> USE DEF ownerVars, queueVars, StopInv
<1>1. CASE UNCHANGED vars
    BY <1>1 DEF vars
<1>2. CASE Start
    BY <1>2 DEF TypeOK, Start
<1>3. CASE StartTwice
    BY <1>3 DEF TypeOK, StartTwice, Terminate
<1>4. CASE Stop
    BY <1>4 DEF TypeOK, Stop
<1>5. CASE Join
    BY <1>5 DEF TypeOK, Join
<1>6. CASE Loop \/ RecvFail
    BY <1>6 DEF TypeOK, Loop, RecvFail
<1>7. CASE Recv
    BY <1>7 DEF TypeOK, Recv
<1>8. CASE Parse
    BY <1>8 DEF TypeOK, Parse, Terminate, Proceed
<1>9. CASE Handler
    BY <1>9, HandlerFrame DEF TypeOK, BusySteps
<1>10. CASE Send
    BY <1>10 DEF TypeOK, Send
<1>11. ASSUME NEW doc \in Documents, Arrive(doc)
       PROVE  StopInv'
    BY <1>11 DEF Arrive
<1>12. QED
    BY <1>1, <1>2, <1>3, <1>4, <1>5, <1>6, <1>7, <1>8, <1>9, <1>10, <1>11 DEF Next, Run

-----------------------------------------------------------------------------
(* The request in hand.                                                    *)

\* A handler step has a request in hand and keeps it; what it notes as failed is
\* what has failed for that request, and no other request's.
LEMMA SameRequest ==
    ASSUME TypeOK, LockStep, Handler
    PROVE  /\ Request \in Document /\ Request' = Request
           /\ Len(received) = Len(replies) + 1 /\ Len(faults) = Len(received)
           /\ Works => Fault' = Fault
           /\ \A kind \in FaultKinds : Fails(kind) => Fault' = kind
           /\ \A i \in 1 .. Len(received) - 1 : faults'[i] = faults[i]
           /\ Len(faults') = Len(faults)
<1>1. /\ Len(received) = Len(replies) + 1 /\ Len(faults) = Len(received)
      /\ Len(replies) \in Nat
    BY HandlerFrame DEF LockStep, TypeOK
<1>2. Request \in Document
    BY <1>1, RequestIsDocument
<1>3. Request' = Request
    BY HandlerFrame DEF Request
<1>4. Works => Fault' = Fault
    BY DEF Works, Fault
<1>5. ASSUME NEW kind \in FaultKinds, Fails(kind)
      PROVE  Fault' = kind
    BY <1>1, <1>5 DEF Fails, Fault, TypeOK
<1>6. ASSUME NEW i \in 1 .. Len(received) - 1
      PROVE  faults'[i] = faults[i]
    <2>1. i \in DOMAIN faults /\ i # Len(faults)
        BY <1>1 DEF TypeOK
    <2>2. QED
        BY <2>1, HandlerFrame
<1>7. Len(faults') = Len(faults)
    BY HandlerFrame DEF TypeOK
<1>8. QED
    BY <1>1, <1>2, <1>3, <1>4, <1>5, <1>6, <1>7

\* Every step of HandleCommand keeps RequestInv.
LEMMA HandlerRequestInv ==
    ASSUME TypeOK, LockStep, RequestInv, Handler
    PROVE  RequestInv'
<1> USE SameRequest, ServerAssumption DEF RequestInv, BusySteps, FaultKinds
<1>1. CASE Handle
    BY <1>1 DEF Handle, Dispatch, Return, Proceed, Terminate, Works
<1>2. CASE I2COpen
    BY <1>2 DEF I2COpen, GiveUp, Return, Proceed, Terminate
<1>3. CASE I2CSlave
    BY <1>3 DEF I2CSlave, GiveUp, Return, Proceed
<1>4. CASE I2CTransfer
    <2>1. pc = "i2c_xfer" /\ pc' = "i2c_close"
        BY <1>4 DEF I2CTransfer
    <2>2. Fault = "none" /\ Register(Request) \in Byte
        BY <2>1, DocumentFacts
    <2>3. CASE Transfer /\ Works
        <3>1. Device(Request) \in Devices /\ Fault' = "none"
            BY <2>2, <2>3 DEF Transfer
        <3>2. IsRead => data' \in Byte
            BY <2>2, <2>3 DEF Transfer, TypeOK
        <3>3. QED
            BY <2>1, <3>1, <3>2 DEF IsRead
    <2>4. CASE Device(Request) \notin Devices /\ NoTransfer /\ Works
        BY <2>1, <2>2, <2>4 DEF NoTransfer, IsRead
    <2>5. CASE Device(Request) \in Devices /\ NoTransfer /\ Fails("i2c_xfer")
        BY <2>1, <2>5 DEF NoTransfer, IsRead
    <2>6. QED
        BY <1>4, <2>3, <2>4, <2>5 DEF I2CTransfer
<1>5. CASE I2CClose
    BY <1>5 DEF I2CClose, Return, Terminate
<1>6. CASE ExecOpen \/ ExecRead
    BY <1>6 DEF ExecOpen, ExecRead, Return, Proceed, Terminate
<1>7. CASE MemOpen \/ MemMap \/ MemRead
    BY <1>7 DEF MemOpen, MemMap, MemRead, Return, Proceed, Terminate
<1>8. QED
    BY <1>1, <1>2, <1>3, <1>4, <1>5, <1>6, <1>7 DEF Handler

\* So does every other step.
LEMMA RequestStep ==
    ASSUME TypeOK, LockStep, StopInv, RequestInv, [Next]_vars
    PROVE  RequestInv'
<1> USE DEF ownerVars, queueVars, BusySteps
<1>1. ASSUME UNCHANGED <<pc, received, faults, data>>
      PROVE  RequestInv'
    BY <1>1 DEF RequestInv, Request, Fault, IsRead
<1>2. CASE UNCHANGED vars
    BY <1>1, <1>2 DEF vars
<1>3. CASE Start \/ StartTwice
    BY <1>3 DEF Start, StartTwice, Terminate, RequestInv
<1>4. CASE Stop \/ Join
    BY <1>1, <1>4 DEF Stop, Join
<1>5. CASE Loop \/ RecvFail \/ Send
    BY <1>5 DEF Loop, RecvFail, Send, RequestInv
<1>6. CASE Recv
    <2>1. Fault' = "none"
        BY <1>6 DEF Recv, TypeOK, Fault
    <2>2. QED
        BY <1>6, <2>1 DEF Recv, RequestInv
<1>7. CASE Parse
    <2>1. Fault' = Fault /\ pc' \in {"handle", "terminated"} /\ pc = "parse"
        BY <1>7 DEF Parse, Terminate, Proceed, Fault
    <2>2. QED
        BY <2>1 DEF RequestInv
<1>8. ASSUME NEW doc \in Documents, Arrive(doc)
      PROVE  RequestInv'
    BY <1>1, <1>8 DEF Arrive
<1>9. QED
    BY <1>2, <1>3, <1>4, <1>5, <1>6, <1>7, <1>8, HandlerRequestInv DEF Next, Run

-----------------------------------------------------------------------------
(* Replies.                                                                *)

\* The reply that Return prepares.
LEMMA Wrapped ==
    /\ \A text : WrapReply(Say(text)) = [wraps |-> 1, text |-> text, n |-> 0]
    /\ \A text : WrapReply(WrapReply(Say(text))) = [wraps |-> 2, text |-> text, n |-> 0]
    /\ \A v : WrapReply(Hex(v)) = [wraps |-> 1, text |-> "hex", n |-> v % (2 * IntHalf)]
<1>1. ASSUME NEW text
      PROVE  WrapReply(Say(text)) = [wraps |-> 1, text |-> text, n |-> 0]
    BY DEF WrapReply, Say
<1>2. ASSUME NEW text
      PROVE  WrapReply(WrapReply(Say(text))) = [wraps |-> 2, text |-> text, n |-> 0]
    <2>1. WrapReply([wraps |-> 1, text |-> text, n |-> 0]) = [wraps |-> 2, text |-> text, n |-> 0]
        BY DEF WrapReply
    <2>2. QED
        BY <1>1, <2>1
<1>3. ASSUME NEW v
      PROVE  WrapReply(Hex(v)) = [wraps |-> 1, text |-> "hex", n |-> v % (2 * IntHalf)]
    <2>1. Hex(v) = [wraps |-> 0, text |-> "hex", n |-> v % (2 * IntHalf)]
        BY DEF Hex, Say
    <2>2. WrapReply([wraps |-> 0, text |-> "hex", n |-> v % (2 * IntHalf)])
            = [wraps |-> 1, text |-> "hex", n |-> v % (2 * IntHalf)]
        BY DEF WrapReply
    <2>3. QED
        BY <2>1, <2>2
<1>4. QED
    BY <1>1, <1>2, <1>3

\* A byte is printed as it is, and -1 as the largest unsigned number.
LEMMA HexDigits ==
    /\ \A v \in Byte : v % (2 * IntHalf) = v
    /\ (-1) % (2 * IntHalf) = 2 * IntHalf - 1
<1> DEFINE b == 2 * IntHalf
<1>1. b \in Nat \ {0} /\ ByteSpace <= b /\ ByteSpace \in Nat
    BY ServerAssumption
<1> HIDE DEF b
<1>2. (-1) % b = b - 1
    BY <1>1, ModMinusOne
<1>3. ASSUME NEW v \in Byte
      PROVE  v % b = v
    <2>1. v \in 0 .. b - 1
        BY <1>1 DEF Byte
    <2>2. QED
        BY <1>1, <2>1, ModSmall
<1>4. QED
    BY <1>2, <1>3 DEF b

\* The cases of Answers.
LEMMA AnswersVersion ==
    ASSUME NEW doc, NEW fault, doc.command = "get_app_version"
    PROVE  Answers(doc, fault) = {WrapReply(Say("version"))}
BY Wrapped DEF Answers, I2CCommands, UsageCommands

LEMMA AnswersUnknown ==
    ASSUME NEW doc, NEW fault, doc.command = "absent" \/ doc.command = "unknown"
    PROVE  Answers(doc, fault) = {WrapReply(Say("Unknown command"))}
BY Wrapped DEF Answers, I2CCommands, UsageCommands

LEMMA AnswersInvalid ==
    ASSUME NEW doc, NEW fault, doc.command \in I2CCommands, InvalidParameters(doc)
    PROVE  Answers(doc, fault) = {WrapReply(Say("Invalid parameters"))}
BY Wrapped DEF Answers, I2CCommands, UsageCommands

LEMMA AnswersWrite ==
    ASSUME NEW doc, NEW fault, doc.command = "write_i2c_register", ~InvalidParameters(doc)
    PROVE  Answers(doc, fault) = {WrapReply(Say("ACK"))}
BY Wrapped DEF Answers, I2CCommands, UsageCommands

LEMMA AnswersReadError ==
    ASSUME NEW doc, NEW fault, doc.command = "read_i2c_register", ~InvalidParameters(doc),
           \/ Param(doc, "bus") \notin Buses
           \/ Param(doc, "address") \notin 0 .. MaxAddress
           \/ fault \in {"i2c_open", "i2c_slave"}
    PROVE  Answers(doc, fault) = {WrapReply(Say("Error"))}
BY Wrapped DEF Answers, I2CCommands, UsageCommands

LEMMA AnswersRead ==
    ASSUME NEW doc, NEW fault \in {"none", "i2c_xfer"}, NEW v,
           doc.command = "read_i2c_register", ~InvalidParameters(doc),
           Param(doc, "bus") \in Buses, Param(doc, "address") \in 0 .. MaxAddress,
           IF fault = "none" /\ Device(doc) \in Devices THEN v \in Byte ELSE v = -1
    PROVE  WrapReply(Hex(v)) \in Answers(doc, fault)
<1>1. WrapReply(Hex(v)) = [wraps |-> 1, text |-> "hex", n |-> v % (2 * IntHalf)]
    BY Wrapped
<1>2. CASE fault = "none" /\ Device(doc) \in Devices
    <2>1. v \in Byte /\ v % (2 * IntHalf) = v
        BY <1>2, HexDigits
    <2>2. QED
        BY <1>1, <1>2, <2>1 DEF Answers, I2CCommands, UsageCommands
<1>3. CASE ~(fault = "none" /\ Device(doc) \in Devices)
    <2>1. v % (2 * IntHalf) = 2 * IntHalf - 1
        BY <1>3, HexDigits
    <2>2. QED
        BY <1>1, <1>3, <2>1 DEF Answers, I2CCommands, UsageCommands
<1>4. QED
    BY <1>2, <1>3

LEMMA AnswersUsage ==
    ASSUME NEW doc, NEW fault, doc.command \in UsageCommands
    PROVE  Answers(doc, fault) =
                IF fault = "popen" THEN {WrapReply(Say("Error executing command"))}
                ELSE {WrapReply(WrapReply(Say("usage")))}
BY Wrapped DEF Answers, I2CCommands, UsageCommands

LEMMA AnswersMemory ==
    ASSUME NEW doc, NEW fault, doc.command = "read_memory_address"
    PROVE  /\ doc.memory.kind = "absent" /\ fault = "none" =>
                WrapReply(Say("Invalid address parameter")) \in Answers(doc, fault)
           /\ doc.memory.kind = "garbage" /\ fault = "none" =>
                WrapReply(Say("Error converting address")) \in Answers(doc, fault)
           /\ doc.memory.kind = "text" /\ fault = "mem_open" =>
                WrapReply(Say("Failed to open /dev/mem")) \in Answers(doc, fault)
           /\ doc.memory.kind = "text" /\ fault = "mem_map" =>
                WrapReply(Say("Failed to mmap")) \in Answers(doc, fault)
           /\ doc.memory.kind = "text" /\ fault = "none" =>
                Answers(doc, fault) = {[wraps |-> 1, text |-> "hex", n |-> Memory[Address(doc)]]}
<1> USE Wrapped DEF Answers, I2CCommands, UsageCommands
<1>1. ASSUME doc.memory.kind = "absent", fault = "none"
      PROVE  WrapReply(Say("Invalid address parameter")) \in Answers(doc, fault)
    BY <1>1
<1>2. ASSUME doc.memory.kind = "garbage", fault = "none"
      PROVE  WrapReply(Say("Error converting address")) \in Answers(doc, fault)
    BY <1>2
<1>3. ASSUME doc.memory.kind = "text", fault = "mem_open"
      PROVE  WrapReply(Say("Failed to open /dev/mem")) \in Answers(doc, fault)
    BY <1>3
<1>4. ASSUME doc.memory.kind = "text", fault = "mem_map"
      PROVE  WrapReply(Say("Failed to mmap")) \in Answers(doc, fault)
    BY <1>4
<1>5. ASSUME doc.memory.kind = "text", fault = "none"
      PROVE  Answers(doc, fault) = {[wraps |-> 1, text |-> "hex", n |-> Memory[Address(doc)]]}
    BY <1>5 DEF Address
<1> QED
    BY <1>1, <1>2, <1>3, <1>4, <1>5

\* What HandleCommand returns is an answer to the request in hand.
LEMMA HandlerAnswers ==
    ASSUME TypeOK, LockStep, HeldInv, RequestInv, Handler, pc' = "send"
    PROVE  response' \in Answers(Request, Fault')
<1> USE SameRequest DEF BusySteps, FaultKinds
<1>1. CASE Handle
    <2>1. /\ Fault' = "none" /\ ~Throws(Request) /\ Dispatch(Request)
          /\ Request.command \in Commands \cup {"absent", "unknown"}
          /\ Request.command = "read_memory_address" => Request.memory.kind # "other"
        BY <1>1 DEF Handle, RequestInv, Terminate, Throws, Document, Fault
    <2>2. CASE Request.command = "get_app_version"
        <3>1. Return(Say("version"))
            BY <2>1, <2>2 DEF Dispatch, I2CCommands, UsageCommands
        <3>2. QED
            BY <2>2, <3>1, AnswersVersion DEF Return
    <2>3. CASE Request.command \in I2CCommands
        <3>1. InvalidParameters(Request) /\ Return(Say("Invalid parameters"))
            BY <2>1, <2>3 DEF Dispatch, Proceed, I2CCommands, UsageCommands
        <3>2. QED
            BY <2>3, <3>1, AnswersInvalid DEF Return
    <2>4. CASE Request.command \in UsageCommands
        BY <2>1, <2>4 DEF Dispatch, Proceed, I2CCommands, UsageCommands
    <2>5. CASE Request.command = "read_memory_address"
        <3>1. \/ Request.memory.kind = "absent" /\ Return(Say("Invalid address parameter"))
              \/ Request.memory.kind = "garbage" /\ Return(Say("Error converting address"))
            BY <2>1, <2>5 DEF Dispatch, Proceed, I2CCommands, UsageCommands
        <3>2. QED
            BY <2>1, <2>5, <3>1, AnswersMemory DEF Return
    <2>6. CASE Request.command \in {"absent", "unknown"}
        <3>1. Return(Say("Unknown command"))
            BY <2>1, <2>6 DEF Dispatch, I2CCommands, UsageCommands
        <3>2. Answers(Request, Fault') = {WrapReply(Say("Unknown command"))}
            BY <2>6, AnswersUnknown
        <3>3. QED
            BY <3>1, <3>2 DEF Return
    <2>7. QED
        BY <2>1, <2>2, <2>3, <2>4, <2>5, <2>6 DEF Commands
<1>2. ASSUME GiveUp, Request.command \in I2CCommands, ~InvalidParameters(Request),
             \/ Param(Request, "bus") \notin Buses
             \/ Param(Request, "address") \notin 0 .. MaxAddress
             \/ Fault' \in {"i2c_open", "i2c_slave"}
      PROVE  response' \in Answers(Request, Fault')
    <2>1. CASE IsRead
        BY <1>2, <2>1, AnswersReadError DEF GiveUp, Return, IsRead
    <2>2. CASE ~IsRead
        BY <1>2, <2>2, AnswersWrite DEF GiveUp, Return, IsRead, I2CCommands
    <2>3. QED
        BY <2>1, <2>2
<1>3. CASE I2COpen
    <2>1. /\ Request.command \in I2CCommands /\ ~InvalidParameters(Request)
          /\ GiveUp
          /\ Param(Request, "bus") \notin Buses \/ Fails("i2c_open")
        BY <1>3 DEF I2COpen, RequestInv, Proceed, Terminate
    <2>2. QED
        BY <1>2, <2>1
<1>4. CASE I2CSlave
    <2>1. /\ Request.command \in I2CCommands /\ ~InvalidParameters(Request)
          /\ GiveUp
          /\ Param(Request, "address") \notin 0 .. MaxAddress \/ Fails("i2c_slave")
        BY <1>4 DEF I2CSlave, RequestInv, Proceed
    <2>2. QED
        BY <1>2, <2>1
<1>5. CASE I2CTransfer
    BY <1>5 DEF I2CTransfer
<1>6. CASE I2CClose
    <2>1. /\ Request.command \in I2CCommands /\ ~InvalidParameters(Request)
          /\ Param(Request, "bus") \in Buses /\ Param(Request, "address") \in 0 .. MaxAddress
          /\ Fault \in {"none", "i2c_xfer"} /\ Fault' = Fault
          /\ IsRead => IF Fault = "none" /\ Device(Request) \in Devices
                       THEN data \in Byte ELSE data = -1
        BY <1>6 DEF I2CClose, RequestInv, Fault
    <2>2. CASE IsRead
        BY <1>6, <2>1, <2>2, AnswersRead DEF I2CClose, Return, Terminate, IsRead
    <2>3. CASE ~IsRead
        BY <1>6, <2>1, <2>3, AnswersWrite DEF I2CClose, Return, IsRead, I2CCommands
    <2>4. QED
        BY <2>2, <2>3
<1>7. CASE ExecOpen
    <2>1. Request.command \in UsageCommands /\ Fault' = "popen"
          /\ Return(Say("Error executing command"))
        BY <1>7 DEF ExecOpen, RequestInv, Proceed, Terminate
    <2>2. QED
        BY <2>1, AnswersUsage DEF Return
<1>8. CASE ExecRead
    <2>1. Request.command \in UsageCommands /\ Fault' = "none"
          /\ Return(WrapReply(Say("usage")))
        BY <1>8 DEF ExecRead, RequestInv, Terminate
    <2>2. QED
        BY <2>1, AnswersUsage DEF Return
<1>9. CASE MemOpen
    <2>1. /\ Request.command = "read_memory_address" /\ Request.memory.kind = "text"
          /\ Fault' = "mem_open" /\ Return(Say("Failed to open /dev/mem"))
        BY <1>9 DEF MemOpen, RequestInv, Proceed
    <2>2. QED
        BY <2>1, AnswersMemory DEF Return
<1>10. CASE MemMap
    <2>1. /\ Request.command = "read_memory_address" /\ Request.memory.kind = "text"
          /\ Fault' = "mem_map" /\ Return(Say("Failed to mmap"))
        BY <1>10 DEF MemMap, RequestInv, Proceed
    <2>2. QED
        BY <2>1, AnswersMemory DEF Return
<1>11. CASE MemRead
    <2>1. /\ Request.command = "read_memory_address" /\ Request.memory.kind = "text"
          /\ Fault' = "none" /\ mapped = PageStart(Address(Request))
          /\ Return(Hex(Memory[mapped + (Address(Request) - PageStart(Address(Request)))]))
        BY <1>11 DEF MemRead, RequestInv, HeldInv, Terminate
    <2>2. /\ Memory[mapped + (Address(Request) - PageStart(Address(Request)))]
                = Memory[Address(Request)]
          /\ Memory[Address(Request)] \in Byte
        BY <2>1, ByteAtAddress, DocumentFacts, MemoryBytes
    <2>3. response' = [wraps |-> 1, text |-> "hex", n |-> Memory[Address(Request)]]
        BY <2>1, <2>2, Wrapped, HexDigits DEF Return
    <2>4. QED
        BY <2>1, <2>3, AnswersMemory
<1>12. QED
    BY <1>1, <1>3, <1>4, <1>5, <1>6, <1>7, <1>8, <1>9, <1>10, <1>11 DEF Handler

\* Every step keeps AnswerInv.
LEMMA AnswerStep ==
    ASSUME TypeOK, LockStep, HeldInv, RequestInv, AnswerInv, [Next]_vars
    PROVE  AnswerInv'
<1> USE DEF ownerVars, queueVars, BusySteps
<1>1. ASSUME UNCHANGED <<received, faults, replies, response>>, pc' = "send" => pc = "send"
      PROVE  AnswerInv'
    BY <1>1 DEF AnswerInv, Request, Fault
<1>2. CASE UNCHANGED vars
    BY <1>1, <1>2 DEF vars
<1>3. CASE Start \/ StartTwice \/ Stop \/ Join
    BY <1>1, <1>3 DEF Start, StartTwice, Stop, Join, Terminate
<1>4. CASE Loop \/ RecvFail
    BY <1>1, <1>4 DEF Loop, RecvFail
<1>5. CASE Parse
    BY <1>1, <1>5 DEF Parse, Terminate, Proceed
<1>6. CASE Recv
    <2>1. /\ \A i \in DOMAIN replies : received'[i] = received[i] /\ faults'[i] = faults[i]
          /\ replies' = replies /\ pc' # "send"
        BY <1>6 DEF Recv, LockStep, TypeOK
    <2>2. QED
        BY <2>1 DEF AnswerInv
<1>7. CASE Handler
    <2>1. /\ \A i \in DOMAIN replies : received'[i] = received[i] /\ faults'[i] = faults[i]
          /\ replies' = replies
        BY <1>7, HandlerFrame, SameRequest DEF TypeOK
    <2>2. pc' = "send" => response' \in Answers(Request', Fault')
        BY <1>7, HandlerAnswers, SameRequest
    <2>3. QED
        BY <2>1, <2>2 DEF AnswerInv
<1>8. CASE Send
    <2>1. /\ replies' = Append(replies, response) /\ pc' = "loop"
          /\ received' = received /\ faults' = faults
          /\ response \in Answers(Request, Fault)
          /\ Len(received) = Len(replies) + 1 /\ Len(faults) = Len(received)
        BY <1>8 DEF Send, AnswerInv, LockStep
    <2>2. ASSUME NEW i \in DOMAIN replies'
          PROVE  replies'[i] \in Answers(received[i], faults[i])
        <3>1. CASE i \in DOMAIN replies
            BY <2>1, <3>1 DEF TypeOK, AnswerInv
        <3>2. CASE i \notin DOMAIN replies
            <4>1. i = Len(replies) + 1
                BY <2>1, <3>2 DEF TypeOK
            <4>2. QED
                BY <2>1, <4>1 DEF TypeOK, Request, Fault
        <3>3. QED
            BY <3>1, <3>2
    <2>3. QED
        BY <2>1, <2>2 DEF AnswerInv
<1>9. ASSUME NEW doc \in Documents, Arrive(doc)
      PROVE  AnswerInv'
    BY <1>1, <1>9 DEF Arrive
<1>10. QED
    BY <1>2, <1>3, <1>4, <1>5, <1>6, <1>7, <1>8, <1>9 DEF Next, Run

-----------------------------------------------------------------------------
(* What ends the process.                                                  *)

\* A step of HandleCommand ends the process only for one of the stated reasons.
LEMMA HandlerSurvives ==
    ASSUME TypeOK, LockStep, RequestInv, Handler, pc' = "terminated"
    PROVE  ~Sound(Request) \/ Fault' \in FatalFaults
<1> USE SameRequest DEF BusySteps, FaultKinds
<1>1. CASE Handle
    <2>1. Throws(Request)
        BY <1>1 DEF Handle, Dispatch, Return, Proceed
    <2>2. QED
        BY <2>1 DEF Throws, Sound
<1>2. CASE I2COpen
    <2>1. Param(Request, "bus") <= -LongBus /\ Request.command \in I2CCommands
        BY <1>2 DEF I2COpen, RequestInv, GiveUp, Return, Proceed
    <2>2. Param(Request, "bus") \in Int /\ LongBus \in Nat
        BY DocumentFacts, ServerAssumption
    <2>3. ~(Param(Request, "bus") > -LongBus)
        BY <2>1, <2>2
    <2>4. QED
        BY <2>1, <2>3 DEF Sound
<1>3. CASE I2CSlave \/ I2CTransfer \/ MemOpen \/ MemMap
    BY <1>3 DEF I2CSlave, I2CTransfer, MemOpen, MemMap, GiveUp, Return, Proceed
<1>4. CASE I2CClose
    <2>1. /\ IsRead /\ data = -1 /\ Fault' = Fault /\ Fault \in {"none", "i2c_xfer"}
          /\ Request.command \in I2CCommands
          /\ Param(Request, "bus") \in Buses /\ Param(Request, "address") \in 0 .. MaxAddress
          /\ IF Fault = "none" /\ Device(Request) \in Devices THEN data \in Byte ELSE data = -1
        BY <1>4 DEF I2CClose, RequestInv, Return, Fault
    <2>2. -1 \notin Byte
        BY ServerAssumption DEF Byte
    <2>3. CASE Fault = "none"
        BY <2>1, <2>2, <2>3 DEF Sound
    <2>4. CASE Fault = "i2c_xfer"
        BY <2>1, <2>4 DEF FatalFaults
    <2>5. QED
        BY <2>1, <2>3, <2>4
<1>5. CASE ExecOpen \/ ExecRead \/ MemRead
    BY <1>5 DEF ExecOpen, ExecRead, MemRead, Return, Proceed, FatalFaults
<1>6. QED
    BY <1>1, <1>2, <1>3, <1>4, <1>5 DEF Handler

\* Every step keeps SoundRequestsSurvive.
LEMMA SurviveStep ==
    ASSUME TypeOK, LockStep, StopInv, RequestInv, SoundRequestsSurvive, [Next]_vars
    PROVE  SoundRequestsSurvive'
<1> USE DEF ownerVars, queueVars
<1>1. ASSUME pc' # "terminated"
      PROVE  SoundRequestsSurvive'
    BY <1>1 DEF SoundRequestsSurvive
<1>2. CASE UNCHANGED vars
    BY <1>2 DEF vars, SoundRequestsSurvive, Request
<1>3. CASE Start \/ Stop \/ Join
    BY <1>1, <1>3 DEF Start, Stop, Join
<1>4. CASE StartTwice
    BY <1>4 DEF StartTwice, StopInv, SoundRequestsSurvive, TypeOK
<1>5. CASE Loop \/ RecvFail \/ Recv \/ Send
    BY <1>1, <1>5 DEF Loop, RecvFail, Recv, Send
<1>6. CASE Parse
    <2>1. CASE Request.text = "malformed"
        <3>1. Len(received) > 0
            BY <1>6 DEF Parse, LockStep, BusySteps, TypeOK
        <3>2. ~Sound(Request) /\ received' = received
            BY <1>6, <2>1 DEF Sound, Parse, Terminate
        <3>3. QED
            BY <3>1, <3>2 DEF SoundRequestsSurvive, Request
    <2>2. CASE Request.text # "malformed"
        BY <1>1, <1>6, <2>2 DEF Parse, Proceed
    <2>3. QED
        BY <2>1, <2>2
<1>7. CASE Handler
    <2>1. Len(received') > 0
        BY <1>7, SameRequest, HandlerFrame DEF TypeOK
    <2>2. pc' = "terminated" => ~Sound(Request') \/ Fault' \in FatalFaults
        BY <1>7, HandlerSurvives, SameRequest
    <2>3. QED
        BY <2>1, <2>2 DEF SoundRequestsSurvive, Fault
<1>8. ASSUME NEW doc \in Documents, Arrive(doc)
      PROVE  SoundRequestsSurvive'
    BY <1>1, <1>8 DEF Arrive
<1>9. QED
    BY <1>2, <1>3, <1>4, <1>5, <1>6, <1>7, <1>8 DEF Next, Run

-----------------------------------------------------------------------------
(* Registers.                                                              *)

\* Only the documents before position i matter.
LEMMA HoldsSame ==
    ASSUME NEW i \in Nat, NEW docs1, NEW flts1, NEW docs2, NEW flts2, NEW d, NEW r, NEW v,
           \A j \in 1 .. i - 1 : docs2[j] = docs1[j] /\ flts2[j] = flts1[j],
           Holds(docs1, flts1, i, d, r, v)
    PROVE  Holds(docs2, flts2, i, d, r, v)
<1>1. \A j \in 1 .. i - 1 :
            /\ WroteBy(docs1[j], flts1[j], d, r) <=> WroteBy(docs2[j], flts2[j], d, r)
            /\ Param(docs1[j], "val") = Param(docs2[j], "val")
    OBVIOUS
<1>2. QED
    BY <1>1 DEF Holds

\* A document that does not write the register leaves its value.
LEMMA HoldsOther ==
    ASSUME NEW i \in Nat \ {0}, NEW docs, NEW flts, NEW d, NEW r, NEW v,
           Holds(docs, flts, i, d, r, v), ~WroteBy(docs[i], flts[i], d, r)
    PROVE  Holds(docs, flts, i + 1, d, r, v)
<1>1. \A j \in 1 .. (i + 1) - 1 : j = i \/ j \in 1 .. i - 1
    OBVIOUS
<1>2. 1 .. i - 1 \subseteq 1 .. (i + 1) - 1
    OBVIOUS
<1>3. CASE v = 0 /\ \A j \in 1 .. i - 1 : ~WroteBy(docs[j], flts[j], d, r)
    BY <1>1, <1>3 DEF Holds
<1>4. CASE ~(v = 0 /\ \A j \in 1 .. i - 1 : ~WroteBy(docs[j], flts[j], d, r))
    <2>1. PICK j \in 1 .. i - 1 :
            /\ WroteBy(docs[j], flts[j], d, r)
            /\ \A k \in 1 .. i - 1 : WroteBy(docs[k], flts[k], d, r) => k <= j
            /\ v = Param(docs[j], "val") % ByteSpace
        BY <1>4 DEF Holds
    <2>2. \A k \in 1 .. (i + 1) - 1 : WroteBy(docs[k], flts[k], d, r) => k <= j
        BY <1>1, <2>1
    <2>3. QED
        BY <1>2, <2>1, <2>2 DEF Holds
<1>5. QED
    BY <1>3, <1>4

\* A document that writes it decides the value.
LEMMA HoldsWritten ==
    ASSUME NEW i \in Nat \ {0}, NEW docs, NEW flts, NEW d, NEW r,
           WroteBy(docs[i], flts[i], d, r)
    PROVE  Holds(docs, flts, i + 1, d, r, Param(docs[i], "val") % ByteSpace)
<1>1. i \in 1 .. (i + 1) - 1 /\ \A k \in 1 .. (i + 1) - 1 : k <= i
    OBVIOUS
<1>2. QED
    BY <1>1 DEF Holds

\* Holds says what ValueAt computes.
LEMMA HoldsIsValue ==
    ASSUME NEW i \in Nat, NEW d, NEW r, NEW v, Holds(received, faults, i, d, r, v)
    PROVE  ValueAt(i, d, r) = v
<1> DEFINE W == {j \in 1 .. i - 1 : Wrote(j, d, r)}
<1>1. \A j : Wrote(j, d, r) <=> WroteBy(received[j], faults[j], d, r)
    BY DEF Wrote, WroteBy
<1>2. CASE W = {}
    <2>1. v = 0
        BY <1>1, <1>2 DEF Holds
    <2>2. QED
        BY <1>2, <2>1 DEF ValueAt
<1>3. CASE W # {}
    <2>1. PICK j \in W :
            /\ \A k \in W : k <= j
            /\ v = Param(received[j], "val") % ByteSpace
        BY <1>1, <1>3 DEF Holds
    <2> DEFINE last == CHOOSE m \in W : \A k \in W : k <= m
    <2>2. last \in W /\ \A k \in W : k <= last
        BY <2>1
    <2>3. last = j
        <3>1. last <= j /\ j <= last
            BY <2>1, <2>2
        <3>2. j \in Int /\ last \in Int
            BY <2>1, <2>2
        <3> HIDE DEF last, W
        <3>3. QED
            BY <3>1, <3>2
    <2>4. ValueAt(i, d, r) = Param(received[last], "val") % ByteSpace
        BY <1>3 DEF ValueAt
    <2>5. QED
        BY <2>1, <2>3, <2>4
<1>4. QED
    BY <1>2, <1>3

\* A reply that was prepared without a transfer belongs to a request that reached
\* no device.
LEMMA NoDeviceReached ==
    ASSUME TypeOK, LockStep, RequestInv, Handler, pc' = "send", pc # "i2c_close"
    PROVE  ~ReachesDevice(Request, Fault')
<1> USE SameRequest DEF FaultKinds
<1>1. Device(Request) \in Devices =>
        Param(Request, "bus") \in Buses /\ Param(Request, "address") \in 0 .. MaxAddress
    BY ServerAssumption DEF Device
<1>2. CASE Handle
    BY <1>2 DEF Handle, Dispatch, Terminate, Proceed, ReachesDevice, I2CCommands, UsageCommands
<1>3. CASE I2COpen
    BY <1>1, <1>3 DEF I2COpen, Terminate, Proceed, ReachesDevice
<1>4. CASE I2CSlave
    BY <1>1, <1>4 DEF I2CSlave, Proceed, ReachesDevice
<1>5. CASE I2CTransfer \/ I2CClose
    BY <1>5 DEF I2CTransfer, I2CClose
<1>6. CASE ExecOpen \/ ExecRead
    BY <1>6 DEF ExecOpen, ExecRead, RequestInv, ReachesDevice, I2CCommands, UsageCommands
<1>7. CASE MemOpen \/ MemMap \/ MemRead
    BY <1>7 DEF MemOpen, MemMap, MemRead, RequestInv, ReachesDevice, I2CCommands
<1>8. QED
    BY <1>2, <1>3, <1>4, <1>5, <1>6, <1>7 DEF Handler

\* The transfer keeps the registers at what the last writes left.
LEMMA TransferRegisters ==
    ASSUME TypeOK, LockStep, RequestInv, RegisterInv, I2CTransfer,
           NEW d \in Devices, NEW r \in Byte
    PROVE  Holds(received', faults', Len(received) + 1, d, r, regs'[d][r])
<1> DEFINE n == Len(received)
           rd == Device(Request)
           rr == Register(Request)
<1>1. Handler /\ pc = "i2c_xfer" /\ received' = received /\ n \in Nat \ {0}
    BY SameRequest, HandlerFrame DEF Handler, I2CTransfer, TypeOK
<1>2. /\ Request \in Document /\ rr \in Byte /\ Fault = "none"
      /\ Request.command \in I2CCommands /\ ~InvalidParameters(Request)
      /\ Request = received[n] /\ Request' = Request /\ Fault' = faults'[n]
    BY <1>1, SameRequest, DocumentFacts DEF RequestInv, BusySteps, Request, Fault
<1>3. Holds(received, faults, n, d, r, regs[d][r])
    BY <1>1 DEF RegisterInv, Settled, BusySteps
<1>4. \A j \in 1 .. n - 1 : faults'[j] = faults[j]
    BY <1>1, SameRequest
<1>5. Holds(received, faults', n, d, r, regs[d][r])
    BY <1>1, <1>3, <1>4, HoldsSame
<1>6. CASE ~WroteBy(Request, Fault', d, r) /\ regs'[d][r] = regs[d][r]
    BY <1>1, <1>2, <1>5, <1>6, HoldsOther
<1>7. CASE /\ WroteBy(Request, Fault', d, r)
           /\ regs'[d][r] = Param(Request, "val") % ByteSpace
    BY <1>1, <1>2, <1>7, HoldsWritten
<1>8. CASE Transfer /\ Works
    <2>1. CASE IsRead
        <3>1. regs' = regs /\ ~WroteBy(Request, Fault', d, r)
            BY <1>8, <2>1 DEF Transfer, IsRead, WroteBy
        <3>2. QED
            BY <1>6, <3>1
    <2>2. CASE ~IsRead
        <3>1. /\ regs' = [regs EXCEPT ![rd][rr] = Param(Request, "val") % ByteSpace]
              /\ rd \in Devices /\ Request.command = "write_i2c_register" /\ Fault' = "none"
            BY <1>1, <1>2, <1>8, <2>2, SameRequest DEF Transfer, IsRead, I2CCommands
        <3>2. CASE d = rd /\ r = rr
            <4>1. regs'[d][r] = Param(Request, "val") % ByteSpace
                BY <3>1, <3>2 DEF TypeOK
            <4>2. QED
                BY <1>2, <1>7, <3>1, <3>2, <4>1 DEF WroteBy
        <3>3. CASE ~(d = rd /\ r = rr)
            <4>1. regs'[d][r] = regs[d][r]
                BY <3>1, <3>3 DEF TypeOK
            <4>2. QED
                BY <1>6, <3>3, <4>1 DEF WroteBy
        <3>4. QED
            BY <3>2, <3>3
    <2>3. QED
        BY <2>1, <2>2
<1>9. CASE rd \notin Devices /\ NoTransfer
    BY <1>6, <1>9 DEF NoTransfer, WroteBy
<1>10. CASE NoTransfer /\ Fails("i2c_xfer")
    <2>1. Fault' = "i2c_xfer"
        BY <1>1, <1>10, SameRequest DEF FaultKinds
    <2>2. QED
        BY <1>6, <1>10, <2>1 DEF NoTransfer, WroteBy
<1>11. QED
    BY <1>8, <1>9, <1>10 DEF I2CTransfer

\* Every step of HandleCommand keeps RegisterInv.
LEMMA HandlerRegisters ==
    ASSUME TypeOK, LockStep, RequestInv, RegisterInv, Handler
    PROVE  RegisterInv'
<1> DEFINE n == Len(received)
<1>1. /\ received' = received /\ replies' = replies /\ n = Len(replies) + 1 /\ n \in Nat \ {0}
      /\ Request = received[n] /\ Request' = Request /\ Request \in Document
      /\ Fault' = faults'[n]
      /\ \A i \in 1 .. n - 1 : faults'[i] = faults[i]
    BY SameRequest, HandlerFrame DEF TypeOK, Request, Fault
<1>2. ASSUME NEW i \in DOMAIN replies, Reads(received[i], faults'[i])
      PROVE  Holds(received, faults', i, Device(received[i]), Register(received[i]),
                   replies[i].n)
    <2>1. i \in 1 .. n - 1 /\ i \in Nat
        BY <1>1 DEF TypeOK
    <2>2. Holds(received, faults, i, Device(received[i]), Register(received[i]), replies[i].n)
        BY <1>1, <1>2, <2>1 DEF RegisterInv
    <2>3. \A j \in 1 .. i - 1 : faults'[j] = faults[j]
        BY <1>1, <2>1
    <2>4. QED
        BY <2>1, <2>2, <2>3, HoldsSame
<1>3. CASE I2CTransfer
    <2>1. pc = "i2c_xfer" /\ pc' = "i2c_close" /\ Settled' = n + 1
        BY <1>1, <1>3 DEF I2CTransfer, Settled, BusySteps
    <2>2. \A d \in Devices, r \in Byte : Holds(received', faults', n + 1, d, r, regs'[d][r])
        BY <1>3, TransferRegisters
    <2>3. ASSUME Reads(Request, Fault')
          PROVE  Holds(received, faults', n, Device(Request), Register(Request), data')
        <3>1. /\ Device(Request) \in Devices /\ IsRead /\ Fault' = "none"
              /\ Register(Request) \in Byte
            BY <1>1, <2>3, DocumentFacts DEF Reads, ReachesDevice, IsRead
        <3>2. Transfer
            BY <1>3, <3>1, SameRequest DEF I2CTransfer, FaultKinds
        <3>3. data' = regs[Device(Request)][Register(Request)]
            BY <3>1, <3>2 DEF Transfer
        <3>4. Holds(received, faults, n, Device(Request), Register(Request), data')
            BY <2>1, <3>1, <3>3 DEF RegisterInv, Settled, BusySteps
        <3>5. QED
            BY <1>1, <3>4, HoldsSame
    <2>4. QED
        BY <1>1, <1>2, <2>1, <2>2, <2>3 DEF RegisterInv
<1>4. CASE I2CClose
    <2>1. /\ pc = "i2c_close" /\ faults' = faults /\ regs' = regs /\ Fault' = Fault
          /\ pc' \in {"send", "terminated"}
        BY <1>4 DEF I2CClose, Return, Terminate, Fault
    <2>2. pc' = "send" => Settled' = Settled
        BY <1>1, <2>1 DEF Settled, BusySteps
    <2>3. ASSUME pc' = "send", Reads(Request, Fault)
          PROVE  Holds(received, faults, n, Device(Request), Register(Request), response'.n)
        <3>1. IsRead /\ data \in Byte
            BY <2>1, <2>3 DEF RequestInv, Reads, ReachesDevice, IsRead
        <3>2. response' = WrapReply(Hex(data))
            BY <1>4, <2>3, <3>1 DEF I2CClose, Return, Terminate
        <3>3. response'.n = data
            BY <3>1, <3>2, Wrapped, HexDigits
        <3>4. QED
            BY <2>1, <2>3, <3>3 DEF RegisterInv
    <2>4. QED
        BY <1>1, <1>2, <2>1, <2>2, <2>3 DEF RegisterInv
<1>5. CASE ~I2CTransfer /\ ~I2CClose
    <2>1. regs' = regs /\ pc # "i2c_close" /\ pc' # "i2c_close"
        BY <1>5 DEF Handler, Handle, Dispatch, I2COpen, I2CSlave, ExecOpen, ExecRead,
            MemOpen, MemMap, MemRead, GiveUp, Return, Proceed, Terminate
    <2>2. pc \in BusySteps \ {"i2c_close", "send"} /\ Settled = n
        BY <2>1, HandlerFrame DEF Settled
    <2>3. ASSUME NEW d \in Devices, NEW r \in Byte, pc' # "terminated"
          PROVE  Holds(received, faults', Settled', d, r, regs[d][r])
        <3>1. Holds(received, faults, n, d, r, regs[d][r])
            BY <2>2 DEF RegisterInv, BusySteps
        <3>2. Holds(received, faults', n, d, r, regs[d][r])
            BY <1>1, <3>1, HoldsSame
        <3>3. CASE pc' = "send"
            <4>1. ~WroteBy(received[n], faults'[n], d, r)
                BY <1>1, <2>1, <3>3, NoDeviceReached DEF ReachesDevice, WroteBy, I2CCommands
            <4>2. Settled' = n + 1
                BY <1>1, <3>3 DEF Settled, BusySteps
            <4>3. QED
                BY <1>1, <3>2, <4>1, <4>2, HoldsOther
        <3>4. CASE pc' # "send"
            <4>1. Settled' = n
                BY <1>1, <2>1, <2>3, <3>4, HandlerFrame DEF Settled
            <4>2. QED
                BY <3>2, <4>1
        <3>5. QED
            BY <3>3, <3>4
    <2>4. pc' = "send" => ~Reads(Request, Fault')
        BY <2>1, NoDeviceReached DEF Reads
    <2>5. QED
        BY <1>1, <1>2, <2>1, <2>3, <2>4 DEF RegisterInv
<1>6. QED
    BY <1>3, <1>4, <1>5

\* So does every other step.
LEMMA RegisterStep ==
    ASSUME TypeOK, LockStep, StopInv, RequestInv, RegisterInv, [Next]_vars
    PROVE  RegisterInv'
<1> USE DEF ownerVars, queueVars
<1>1. ASSUME UNCHANGED <<received, faults, replies, regs>>,
             pc' = "terminated" \/ (pc # "terminated" /\ Settled' = Settled),
             pc' \notin {"i2c_close", "send"} \/ UNCHANGED <<pc, response, data>>
      PROVE  RegisterInv'
    BY <1>1 DEF RegisterInv, Request, Fault
<1>2. CASE UNCHANGED vars
    BY <1>2 DEF vars, RegisterInv, Settled, Request, Fault
<1>3. CASE Start
    BY <1>1, <1>3 DEF Start, StopInv, Settled, BusySteps
<1>4. CASE StartTwice
    BY <1>1, <1>4 DEF StartTwice, Terminate
<1>5. CASE Stop \/ Join
    BY <1>1, <1>5 DEF Stop, Join, Settled
<1>6. CASE Loop \/ RecvFail
    BY <1>1, <1>6 DEF Loop, RecvFail, Settled, BusySteps
<1>7. CASE Parse
    BY <1>1, <1>7 DEF Parse, Terminate, Proceed, Settled, BusySteps
<1>8. ASSUME NEW doc \in Documents, Arrive(doc)
      PROVE  RegisterInv'
    BY <1>1, <1>8 DEF Arrive, Settled
<1>9. CASE Recv
    <2>1. /\ pc = "recv" /\ pc' = "parse" /\ replies' = replies /\ regs' = regs
          /\ Len(received) \in Nat /\ Len(replies) = Len(received)
          /\ Len(received') = Len(received) + 1
          /\ \A j \in 1 .. Len(received) : received'[j] = received[j] /\ faults'[j] = faults[j]
        BY <1>9 DEF Recv, LockStep, TypeOK
    <2>2. Settled = Len(received) + 1 /\ Settled' = Len(received) + 1
        BY <2>1 DEF Settled, BusySteps
    <2>3. ASSUME NEW d \in Devices, NEW r \in Byte
          PROVE  Holds(received', faults', Settled', d, r, regs'[d][r])
        <3>1. Holds(received, faults, Len(received) + 1, d, r, regs[d][r])
            BY <2>1, <2>2 DEF RegisterInv
        <3>2. QED
            BY <2>1, <2>2, <3>1, HoldsSame
    <2>4. ASSUME NEW i \in DOMAIN replies, Reads(received'[i], faults'[i])
          PROVE  Holds(received', faults', i, Device(received'[i]), Register(received'[i]),
                       replies[i].n)
        <3>1. i \in Nat /\ i \in 1 .. Len(received)
            BY <2>1 DEF TypeOK
        <3>2. Holds(received, faults, i, Device(received'[i]), Register(received'[i]),
                    replies[i].n)
            BY <2>1, <2>4, <3>1 DEF RegisterInv
        <3>3. \A j \in 1 .. i - 1 : received'[j] = received[j] /\ faults'[j] = faults[j]
            BY <2>1, <3>1
        <3>4. QED
            BY <3>1, <3>2, <3>3, HoldsSame
    <2>5. QED
        BY <2>1, <2>3, <2>4 DEF RegisterInv
<1>10. CASE Send
    <2>1. /\ pc = "send" /\ pc' = "loop" /\ received' = received /\ faults' = faults
          /\ regs' = regs /\ replies' = Append(replies, response)
          /\ Len(received) = Len(replies) + 1 /\ Len(faults) = Len(received)
          /\ Len(replies) \in Nat
        BY <1>10 DEF Send, LockStep, BusySteps, TypeOK
    <2>2. Settled' = Settled
        BY <2>1 DEF Settled, BusySteps
    <2>3. ASSUME NEW i \in DOMAIN replies', Reads(received[i], faults[i])
          PROVE  Holds(received, faults, i, Device(received[i]), Register(received[i]),
                       replies'[i].n)
        <3>1. CASE i \in DOMAIN replies
            BY <2>1, <2>3, <3>1 DEF TypeOK, RegisterInv
        <3>2. CASE i \notin DOMAIN replies
            <4>1. i = Len(received) /\ replies'[i] = response
                BY <2>1, <3>2 DEF TypeOK
            <4>2. QED
                BY <2>1, <2>3, <4>1 DEF RegisterInv, Request, Fault
        <3>3. QED
            BY <3>1, <3>2
    <2>4. QED
        BY <2>1, <2>2, <2>3 DEF RegisterInv
<1>11. QED
    BY <1>2, <1>3, <1>4, <1>5, <1>6, <1>7, <1>8, <1>9, <1>10, HandlerRegisters DEF Next, Run

-----------------------------------------------------------------------------
(* The theorems.                                                           *)

\* The invariant holds when the server object has been made.
LEMMA InitInv == Init => Inv
<1> SUFFICES ASSUME Init PROVE Inv
    OBVIOUS
<1> USE DEF Init, BusySteps
<1>1. TypeOK
    <2>1. NoReply \in Reply
        BY ReplyTypes DEF NoReply, Texts
    <2>2. 0 \in Byte /\ -1 \in -1 .. PtrSpace - 1 /\ 0 \in 0 .. MaxCalls
        BY ServerAssumption DEF Byte
    <2>3. regs \in [Devices -> [Byte -> Byte]]
        BY <2>2
    <2>4. /\ inbox \in Seq(Documents) /\ received \in Seq(Documents)
          /\ replies \in Seq(Reply) /\ faults \in Seq(FaultKinds \cup {"none"})
        OBVIOUS
    <2>5. stop \in BOOLEAN /\ joinable \in BOOLEAN
        OBVIOUS
    <2>6. /\ pc \in Steps /\ late \in Nat /\ owner \in {"ready", "joining"}
          /\ fds \subseteq {"i2c", "pipe", "mem"}
        BY DEF Steps
    <2>7. calls \in 0 .. MaxCalls /\ response \in Reply /\ data \in Byte \cup {-1}
          /\ mapped \in -1 .. PtrSpace - 1
        BY <2>1, <2>2
    <2>8. QED
        BY <2>3, <2>4, <2>5, <2>6, <2>7 DEF TypeOK
<1>2. LockStep /\ HeldInv /\ StopInv
    BY DEF LockStep, HeldInv, StopInv
<1>3. RequestInv /\ AnswerInv /\ SoundRequestsSurvive
    BY DEF RequestInv, AnswerInv, SoundRequestsSurvive
<1>4. RegisterInv
    <2>1. Settled = 1
        BY DEF Settled
    <2>2. \A d \in Devices, r \in Byte : regs[d][r] = 0
        OBVIOUS
    <2>3. \A d, r : Holds(received, faults, 1, d, r, 0)
        BY DEF Holds
    <2>4. QED
        BY <2>1, <2>2, <2>3 DEF RegisterInv
<1>5. QED
    BY <1>1, <1>2, <1>3, <1>4 DEF Inv

\* Every step keeps the invariant.
LEMMA NextInv == Inv /\ [Next]_vars => Inv'
BY TypeStep, LockStepStep, HeldStep, StopStep, RequestStep, AnswerStep, SurviveStep,
   RegisterStep DEF Inv

\* It holds at all times.
LEMMA InvAlways == Spec => []Inv
<1>1. Init => Inv
    BY InitInv
<1>2. Inv /\ [Next]_vars => Inv'
    BY NextInv
<1>3. QED
    BY <1>1, <1>2, PTL DEF Spec

\* Every variable stays in its type: whatever numbers a document holds, the
\* registers, the byte in hand and the mapped page stay in the C types' ranges.
THEOREM ServerTypes == Spec => []TypeOK
<1>1. Inv => TypeOK
    BY DEF Inv
<1>2. QED
    BY InvAlways, <1>1, PTL

\* HandleCommand releases what it acquired on every path, for all documents and
\* all failures.
THEOREM HandlerReleases == Spec => []NothingLeaks
<1>1. Inv => NothingLeaks
    BY DEF Inv, HeldInv, NothingLeaks
<1>2. QED
    BY InvAlways, <1>1, PTL

\* The i-th reply is an answer to the i-th request and to what failed then.
THEOREM RepliesMatch == Spec => []ReplyMatchesRequest
<1>1. Inv => ReplyMatchesRequest
    BY DEF Inv, LockStep, AnswerInv, ReplyMatchesRequest
<1>2. QED
    BY InvAlways, <1>1, PTL

\* Only an unsound document, a fatal failure or a second Start ends the process.
THEOREM SoundSurvive == Spec => []SoundRequestsSurvive
<1>1. Inv => SoundRequestsSurvive
    BY DEF Inv
<1>2. QED
    BY InvAlways, <1>1, PTL

\* A register reads as the low byte of the last write that reached it.
THEOREM RegistersKeepLastWrite == Spec => []ReadSeesLastWrite
<1>1. ASSUME Inv
      PROVE  ReadSeesLastWrite
    <2>1. ASSUME NEW i \in DOMAIN replies,
                 received[i].command = "read_i2c_register",
                 ~InvalidParameters(received[i]),
                 faults[i] = "none",
                 Device(received[i]) \in Devices
          PROVE  replies[i].n = ValueAt(i, Device(received[i]), Register(received[i]))
        <3>1. Reads(received[i], faults[i])
            BY <2>1 DEF Reads, ReachesDevice, I2CCommands
        <3>2. Holds(received, faults, i, Device(received[i]), Register(received[i]),
                    replies[i].n)
            BY <1>1, <3>1 DEF Inv, RegisterInv
        <3>3. i \in Nat
            BY <1>1 DEF Inv, TypeOK
        <3>4. QED
            BY <3>2, <3>3, HoldsIsValue
    <2>2. QED
        BY <2>1 DEF ReadSeesLastWrite
<1>2. QED
    BY InvAlways, <1>1, PTL

\* After stop is set at most one more request is received, and none is received
\* or answered once Stop has returned, also if Start is called again.
THEOREM StopIsFinal == Spec => StoppedForGood
<1> DEFINE Quiet ==
        /\ late' <= 1
        /\ stop /\ owner = "ready" /\ calls > 0
                => received' = received /\ replies' = replies
<1>1. ASSUME Inv, [Next]_vars
      PROVE  Quiet
    <2>1. late' <= 1
        BY <1>1, NextInv DEF Inv, StopInv
    <2>2. ASSUME stop, owner = "ready"
          PROVE  received' = received /\ replies' = replies
        <3>1. pc \in {"idle", "loop", "exited", "terminated"}
            BY <1>1, <2>2 DEF Inv, StopInv
        <3>2. ~Handler
            BY <3>1, HandlerFrame DEF BusySteps
        <3>3. CASE Next
            BY <3>1, <3>2, <3>3 DEF Next, Run, Start, StartTwice, Stop, Join, Loop, Recv,
                RecvFail, Parse, Send, Arrive, Terminate, queueVars
        <3>4. CASE UNCHANGED vars
            BY <3>4 DEF vars
        <3>5. QED
            BY <1>1, <3>3, <3>4
    <2>3. QED
        BY <2>1, <2>2
<1>2. Inv /\ [Next]_vars => [Quiet]_vars
    BY <1>1
<1>3. QED
    BY InvAlways, <1>2, PTL DEF Spec, StoppedForGood
=============================================================================
