----------------------------- MODULE ZmqServer -----------------------------
(***************************************************************************)
(* The command server of the station, class ZmqServer                      *)
(* (zmq_server/zmq_server.cpp and zmq_server.h).                           *)
(*                                                                         *)
(* One thread runs Run(): while stop is not set, receive a request on the  *)
(* REP socket, parse it as JSON, HandleCommand, send the reply.  The       *)
(* thread's owner calls Start and Stop.  An exception that leaves Run, a   *)
(* failed assertion or a fault of the C library ends the process: pc is    *)
(* "terminated" then, whatever state the handler was in.                   *)
(*                                                                         *)
(* A request is abstracted to what HandleCommand tells apart: whether it   *)
(* parses, the command, and for each parameter whether it is absent, a     *)
(* number (or address text), or something of the wrong type.               *)
(*                                                                         *)
(* External, modelled from their use here: ZeroMQ's queue, the I2C bus and *)
(* its devices, /dev/mem, popen.  Faults says which of their operations    *)
(* may fail although the request is in order.                              *)
(***************************************************************************)
EXTENDS Integers, Sequences, FiniteSets

CONSTANTS
    Documents,    \* requests that clients may send
    MaxRequests,  \* bound: requests sent
    MaxCalls,     \* bound: calls of Start and Stop
    Faults,       \* external operations that may fail, a subset of FaultKinds
    Buses,        \* n such that /dev/i2c-n exists
    MaxAddress,   \* largest slave address the I2C driver takes (0x7f)
    Devices,      \* <<bus, address>> pairs at which a device acknowledges
    ByteSpace,    \* 2^8, the range of __u8 and uint8_t
    IntHalf,      \* 2^31: int is -IntHalf .. IntHalf - 1
    LongBus,      \* 10^9: with -LongBus or less, "/dev/i2c-%d" needs 21 bytes
    PtrSpace,     \* range of uintptr_t (2^32 on the board, 2^64 on a PC)
    PageSize,     \* getpagesize()
    Memory        \* contents of /dev/mem, a function on 0 .. PtrSpace - 1

FaultKinds == {"recv", "i2c_open", "i2c_slave", "i2c_xfer", "popen", "output",
               "mem_open", "mem_map", "mem_read"}

I2CCommands == {"read_i2c_register", "write_i2c_register"}
UsageCommands == {"read_disk_usage", "read_memory_usage"}
Commands == I2CCommands \cup UsageCommands
            \cup {"get_app_version", "read_memory_address"}

\* A member of "parameters"; n matters only when kind is "number" (a JSON
\* number, or a boolean, which the library converts to 0 or 1).
JsonInt == [kind : {"absent", "number", "other"}, n : Int]

\* "address": "text" is read by stoull as n, "garbage" is not; "absent" covers
\* the empty string, the default.
JsonAddress == [kind : {"absent", "text", "garbage", "other"}, n : Nat]

Document ==
    [text : {"malformed", "nonobject", "object"},
     command : Commands \cup {"absent", "unknown", "nonstring"},
     parameters : {"absent", "nonobject", "object"},
     bus : JsonInt, address : JsonInt, reg : JsonInt, val : JsonInt,
     memory : JsonAddress]

ASSUME ServerAssumption ==
    /\ Documents \subseteq Document
    /\ MaxRequests \in Nat
    /\ MaxCalls \in Nat
    /\ Faults \subseteq FaultKinds
    /\ Buses \subseteq Nat
    /\ MaxAddress \in Nat
    /\ Devices \subseteq Buses \X (0 .. MaxAddress)
    /\ ByteSpace \in Nat \ {0}
    /\ IntHalf \in Nat \ {0}
    /\ ByteSpace <= 2 * IntHalf
    /\ LongBus \in Nat
    /\ PtrSpace \in Nat \ {0}
    /\ PageSize \in Nat \ {0}
    /\ Memory \in [0 .. PtrSpace - 1 -> 0 .. ByteSpace - 1]

VARIABLES
    pc,         \* where the server thread is
    owner,      \* the caller of Start and Stop: "ready", or "joining" in Stop
    calls,      \* Start and Stop calls so far
    stop,       \* the atomic stop flag
    joinable,   \* thread.joinable()
    inbox,      \* requests queued at the REP socket
    received,   \* history: every document received, in order
    late,       \* history: requests received after stop was set
    replies,    \* replies sent, in order
    response,   \* the reply being prepared
    data,       \* ReadI2CRegister's data; -1 is the failure of the transfer
    faults,     \* history: for each received document, what failed, or "none"
    fds,        \* descriptors the handler holds open
    mapped,     \* start of the page mapped by readMemoryAddress, or -1
    regs        \* device registers: Devices -> register -> byte

ownerVars == <<owner, calls, stop, joinable>>
queueVars == <<inbox, received, late, replies>>
vars == <<pc, owner, calls, stop, joinable, inbox, received, late, replies,
          response, data, faults, fds, mapped, regs>>

Byte == 0 .. ByteSpace - 1

Texts == {"none", "version", "Invalid parameters", "Error", "hex", "ACK",
          "usage", "Invalid address parameter", "Error converting address",
          "Failed to open /dev/mem", "Failed to mmap", "Unknown command",
          "Error executing command"}

\* A reply: what the innermost "result" says, and how often it was wrapped.
Reply == [wraps : Nat, text : Texts, n : Int]

Say(text) == [wraps |-> 0, text |-> text, n |-> 0]

\* sprintf("%02x", v) prints an unsigned int.
Hex(v) == [Say("hex") EXCEPT !.n = v % (2 * IntHalf)]

WrapReply(result) == [result EXCEPT !.wraps = @ + 1]

NoReply == Say("none")

Steps == {"idle", "loop", "recv", "parse", "handle", "i2c_open", "i2c_slave",
          "i2c_xfer", "i2c_close", "exec_open", "exec_read", "mem_open",
          "mem_map", "mem_read", "send", "exited", "terminated"}

\* Every variable stays in its type: among others what the handler keeps of a
\* register, a reply's number and a mapping stay in the C types' ranges.
TypeOK ==
    /\ pc \in Steps
    /\ owner \in {"ready", "joining"}
    /\ calls \in 0 .. MaxCalls
    /\ stop \in BOOLEAN
    /\ joinable \in BOOLEAN
    /\ inbox \in Seq(Documents)
    /\ received \in Seq(Documents)
    /\ late \in Nat
    /\ replies \in Seq(Reply)
    /\ response \in Reply
    /\ data \in Byte \cup {-1}
    /\ faults \in Seq(FaultKinds \cup {"none"})
    /\ fds \subseteq {"i2c", "pipe", "mem"}
    /\ mapped \in -1 .. PtrSpace - 1
    /\ regs \in [Devices -> [Byte -> Byte]]

Init ==
    /\ pc = "idle"
    /\ owner = "ready"
    /\ calls = 0
    /\ stop = FALSE
    /\ joinable = FALSE
    /\ inbox = <<>>
    /\ received = <<>>
    /\ late = 0
    /\ replies = <<>>
    /\ response = NoReply
    /\ data = -1
    /\ faults = <<>>
    /\ fds = {}
    /\ mapped = -1
    /\ regs = [d \in Devices |-> [r \in Byte |-> 0]]

-----------------------------------------------------------------------------
(* The request in hand and its parameters.                                 *)

Request == received[Len(received)]

\* Conversion of a JSON integer to int.
ToInt(n) == ((n + IntHalf) % (2 * IntHalf)) - IntHalf

\* parameters.value(name, -1)
Param(doc, name) == IF doc[name].kind = "absent" THEN -1 ELSE ToInt(doc[name].n)

ParamNames(doc) == IF doc.command = "write_i2c_register"
                   THEN {"bus", "address", "reg", "val"}
                   ELSE {"bus", "address", "reg"}

\* The requests on which HandleCommand does not return: value() on something
\* that is not an object (306) or a member of the wrong type (302), and the
\* assertion of the const operator[] on a missing "parameters".
Throws(doc) ==
    \/ doc.text = "nonobject"
    \/ doc.command = "nonstring"
    \/ doc.command \in I2CCommands /\ doc.parameters # "object"
    \/ /\ doc.command \in I2CCommands
       /\ \E name \in ParamNames(doc) : doc[name].kind = "other"
    \/ doc.command = "read_memory_address" /\ doc.memory.kind = "other"

InvalidParameters(doc) == \E name \in ParamNames(doc) : Param(doc, name) = -1

Device(doc) == <<Param(doc, "bus"), Param(doc, "address")>>

\* The int parameter reg is passed as __u8 command.
Register(doc) == Param(doc, "reg") % ByteSpace

\* uintptr_t address = std::stoull(...), and its split into page and offset.
Address(doc) == doc.memory.n % PtrSpace
PageStart(a) == a - (a % PageSize)

IsRead == Request.command = "read_i2c_register"

-----------------------------------------------------------------------------
(* Building blocks of the actions.                                         *)

\* std::terminate, abort or a fatal signal; the kernel closes descriptors.
Terminate ==
    /\ pc' = "terminated"
    /\ fds' = {}
    /\ mapped' = -1
    /\ UNCHANGED <<inbox, received, late, replies, response, data, regs>>

\* HandleCommand returns WrapReply(r).
Return(r) ==
    /\ pc' = "send"
    /\ response' = WrapReply(r)
    /\ UNCHANGED <<inbox, received, late, replies, data, regs>>

\* The handler goes on at step.
Proceed(step) ==
    /\ pc' = step
    /\ UNCHANGED <<inbox, received, late, replies, response, data, regs>>

Open(fd) == fds' = fds \cup {fd} /\ UNCHANGED mapped
Close(fd) == fds' = fds \ {fd} /\ UNCHANGED mapped
Keep == UNCHANGED <<fds, mapped>>

\* An external operation fails; the history remembers it for this request.
Fails(kind) ==
    /\ kind \in Faults
    /\ faults' = [faults EXCEPT ![Len(faults)] = kind]

Works == UNCHANGED faults

-----------------------------------------------------------------------------
(* The owner of the server and its clients.                                *)

Start ==
    /\ owner = "ready"
    /\ pc # "terminated"
    /\ calls < MaxCalls
    /\ ~joinable
    /\ calls' = calls + 1
    /\ pc' = "loop"
    /\ joinable' = TRUE
    /\ UNCHANGED <<owner, stop, queueVars, response, data, faults, fds, mapped,
                   regs>>

\* Assigning to a std::thread that is joinable calls std::terminate.
StartTwice ==
    /\ owner = "ready"
    /\ pc # "terminated"
    /\ calls < MaxCalls
    /\ joinable
    /\ calls' = calls + 1
    /\ Terminate
    /\ UNCHANGED <<owner, stop, joinable, faults>>

\* Mutant of Stop: the join is missing.
Stop_NoJoin ==
    /\ owner = "ready"
    /\ pc # "terminated"
    /\ calls < MaxCalls
    /\ calls' = calls + 1
    /\ stop' = TRUE
    /\ UNCHANGED <<owner, pc, joinable, queueVars, response, data, faults, fds,
                   mapped, regs>>

\* Stop sets the flag and waits in join for a thread it has not joined before.
Stop ==
    /\ owner = "ready"
    /\ pc # "terminated"
    /\ calls < MaxCalls
    /\ calls' = calls + 1
    /\ stop' = TRUE
    /\ owner' = IF joinable THEN "joining" ELSE "ready"
    /\ UNCHANGED <<pc, joinable, queueVars, response, data, faults, fds, mapped,
                   regs>>

Join ==
    /\ owner = "joining"
    /\ pc = "exited"
    /\ owner' = "ready"
    /\ joinable' = FALSE
    /\ UNCHANGED <<pc, calls, stop, queueVars, response, data, faults, fds,
                   mapped, regs>>

Arrive(doc) ==
    /\ pc # "terminated"
    /\ Len(inbox) + Len(received) < MaxRequests
    /\ inbox' = Append(inbox, doc)
    /\ UNCHANGED <<pc, ownerVars, received, late, replies, response, data,
                   faults, fds, mapped, regs>>

-----------------------------------------------------------------------------
(* Run: the loop of the server thread.                                     *)

\* Mutant of Loop: while (true).
Loop_Forever ==
    /\ pc = "loop"
    /\ pc' = "recv"
    /\ UNCHANGED <<ownerVars, queueVars, response, data, faults, fds, mapped,
                   regs>>

\* while (!stop)
Loop ==
    /\ pc = "loop"
    /\ pc' = IF stop THEN "exited" ELSE "recv"
    /\ UNCHANGED <<ownerVars, queueVars, response, data, faults, fds, mapped,
                   regs>>

Recv ==
    /\ pc = "recv"
    /\ inbox # <<>>
    /\ pc' = "parse"
    /\ inbox' = Tail(inbox)
    /\ received' = Append(received, Head(inbox))
    /\ faults' = Append(faults, "none")
    /\ late' = IF stop THEN late + 1 ELSE late
    /\ UNCHANGED <<ownerVars, replies, response, data, fds, mapped, regs>>

\* recv has no message to give: report it and look at stop again.
RecvFail ==
    /\ pc = "recv"
    /\ "recv" \in Faults
    /\ pc' = "loop"
    /\ UNCHANGED <<ownerVars, queueVars, response, data, faults, fds, mapped,
                   regs>>

\* Mutant of Parse: an exception is caught and the request forgotten.
Parse_Swallows ==
    /\ pc = "parse"
    /\ Proceed(IF Request.text = "malformed" THEN "loop" ELSE "handle")
    /\ Keep
    /\ UNCHANGED <<ownerVars, faults>>

\* json::parse; its exception leaves Run.
Parse ==
    /\ pc = "parse"
    /\ IF Request.text = "malformed"
       THEN Terminate
       ELSE Proceed("handle") /\ Keep
    /\ UNCHANGED <<ownerVars, faults>>

Send ==
    /\ pc = "send"
    /\ pc' = "loop"
    /\ replies' = Append(replies, response)
    /\ response' = NoReply
    /\ UNCHANGED <<ownerVars, inbox, received, late, data, faults, fds, mapped,
                   regs>>

-----------------------------------------------------------------------------
(* HandleCommand.                                                          *)

\* The command and the parameters decide: an answer at once, or the first step
\* of the function that the command calls.
Dispatch(doc) ==
    \/ /\ doc.command = "get_app_version"
       /\ Return(Say("version"))
    \/ /\ doc.command \in I2CCommands
       /\ IF InvalidParameters(doc)
          THEN Return(Say("Invalid parameters"))
          ELSE Proceed("i2c_open")
    \/ /\ doc.command \in UsageCommands
       /\ Proceed("exec_open")
    \/ /\ doc.command = "read_memory_address"
       /\ \/ /\ doc.memory.kind = "absent"
             /\ Return(Say("Invalid address parameter"))
          \/ /\ doc.memory.kind = "garbage"
             /\ Return(Say("Error converting address"))
          \/ /\ doc.memory.kind = "text"
             /\ Proceed("mem_open")
    \/ /\ doc.command \in {"absent", "unknown"}
       /\ Return(Say("Unknown command"))

Handle ==
    /\ pc = "handle"
    /\ IF Throws(Request) THEN Terminate ELSE Dispatch(Request) /\ Keep
    /\ UNCHANGED <<ownerVars, faults>>

\* Mutant of GiveUp: the read, too, hides that it failed.
GiveUp_Silent == Return(Say("ACK"))

\* ReadI2CRegister and WriteI2CRegister give up: only the read can say so.
GiveUp == Return(Say(IF IsRead THEN "Error" ELSE "ACK"))

\* sprintf into filename[20], then open.  A bus name that is too long is a store
\* past the array: the process may end; if it does not, no such file exists.
I2COpen ==
    LET bus == Param(Request, "bus") IN
    /\ pc = "i2c_open"
    /\ \/ bus \in Buses /\ Works /\ Proceed("i2c_slave") /\ Open("i2c")
       \/ bus \notin Buses /\ Works /\ GiveUp /\ Keep
       \/ bus \in Buses /\ Fails("i2c_open") /\ GiveUp /\ Keep
       \/ bus <= -LongBus /\ Works /\ Terminate
    /\ UNCHANGED ownerVars

\* Mutant of I2CSlave: an early return without close(file).
I2CSlave_Leaks ==
    LET address == Param(Request, "address") IN
    /\ pc = "i2c_slave"
    /\ \/ address \in 0 .. MaxAddress /\ Works /\ Proceed("i2c_xfer") /\ Keep
       \/ address \notin 0 .. MaxAddress /\ Works /\ GiveUp /\ Keep
    /\ UNCHANGED ownerVars

\* ioctl(I2C_SLAVE_FORCE); the file is closed if the address is refused.
I2CSlave ==
    LET address == Param(Request, "address") IN
    /\ pc = "i2c_slave"
    /\ \/ address \in 0 .. MaxAddress /\ Works /\ Proceed("i2c_xfer") /\ Keep
       \/ address \notin 0 .. MaxAddress /\ Works /\ GiveUp /\ Close("i2c")
       \/ address \in 0 .. MaxAddress /\ Fails("i2c_slave") /\ GiveUp /\ Close("i2c")
    /\ UNCHANGED ownerVars

\* Mutant of Transfer: the value is not cut to a byte.
Transfer_Wide ==
    LET d == Device(Request)
        r == Register(Request)
    IN  /\ d \in Devices
        /\ data' = IF IsRead THEN regs[d][r] ELSE data
        /\ regs' = IF IsRead THEN regs
                   ELSE [regs EXCEPT ![d][r] = Param(Request, "val")]

\* Mutant of Transfer: the write's register and address are swapped.
Transfer_Swapped ==
    LET d == Device(Request)
        r == Register(Request)
        a == Param(Request, "address") % ByteSpace
    IN  /\ d \in Devices
        /\ data' = IF IsRead THEN regs[d][r] ELSE data
        /\ regs' = IF IsRead THEN regs
                   ELSE [regs EXCEPT ![d][a] = Param(Request, "val") % ByteSpace]

\* The SMBus transfer takes place: a byte is read, or a byte stored.
Transfer ==
    LET d == Device(Request)
        r == Register(Request)
        v == Param(Request, "val") % ByteSpace
    IN  /\ d \in Devices
        /\ data' = IF IsRead THEN regs[d][r] ELSE data
        /\ regs' = IF IsRead THEN regs ELSE [regs EXCEPT ![d][r] = v]

\* Nobody acknowledges, or the transfer fails.
NoTransfer ==
    /\ data' = IF IsRead THEN -1 ELSE data
    /\ UNCHANGED regs

I2CTransfer ==
    /\ pc = "i2c_xfer"
    /\ pc' = "i2c_close"
    /\ \/ Transfer /\ Works
       \/ Device(Request) \notin Devices /\ NoTransfer /\ Works
       \/ Device(Request) \in Devices /\ NoTransfer /\ Fails("i2c_xfer")
    /\ UNCHANGED <<ownerVars, queueVars, response, fds, mapped>>

\* sprintf of the byte, close, reply.  The 8 digits of -1 overflow result[3]:
\* the process ends, or the digits are the reply.
I2CClose ==
    /\ pc = "i2c_close"
    /\ \/ IsRead /\ Return(Hex(data)) /\ Close("i2c")
       \/ IsRead /\ data = -1 /\ Terminate
       \/ ~IsRead /\ Return(Say("ACK")) /\ Close("i2c")
    /\ UNCHANGED <<ownerVars, faults>>

\* popen; when it fails the deleter still calls pclose, on a null pointer.
ExecOpen ==
    /\ pc = "exec_open"
    /\ \/ Works /\ Proceed("exec_read") /\ Open("pipe")
       \/ Fails("popen") /\ Terminate
       \/ Fails("popen") /\ Return(Say("Error executing command")) /\ Keep
    /\ UNCHANGED ownerVars

\* fgets to the end of the output; ExecuteCommand wraps it, and its caller wraps
\* that once more.  dump() throws if the output is not UTF-8.
ExecRead ==
    /\ pc = "exec_read"
    /\ \/ Works /\ Return(WrapReply(Say("usage"))) /\ Close("pipe")
       \/ Fails("output") /\ Terminate
    /\ UNCHANGED ownerVars

\* Mutant of MemOpen: the runtime_error is not caught.
MemOpen_Throws ==
    /\ pc = "mem_open"
    /\ \/ Works /\ Proceed("mem_map") /\ Open("mem")
       \/ Fails("mem_open") /\ Terminate
    /\ UNCHANGED ownerVars

MemOpen ==
    /\ pc = "mem_open"
    /\ \/ Works /\ Proceed("mem_map") /\ Open("mem")
       \/ Fails("mem_open") /\ Return(Say("Failed to open /dev/mem")) /\ Keep
    /\ UNCHANGED ownerVars

MemMap ==
    /\ pc = "mem_map"
    /\ \/ /\ Works
          /\ Proceed("mem_read")
          /\ mapped' = PageStart(Address(Request))
          /\ UNCHANGED fds
       \/ Fails("mem_map") /\ Return(Say("Failed to mmap")) /\ Close("mem")
    /\ UNCHANGED ownerVars

\* The byte at the offset in the page; nothing behind the page is SIGBUS.
MemRead ==
    LET offset == Address(Request) - PageStart(Address(Request)) IN
    /\ pc = "mem_read"
    /\ \/ /\ Works
          /\ Return(Hex(Memory[mapped + offset]))
          /\ mapped' = -1
          /\ fds' = fds \ {"mem"}
       \/ Fails("mem_read") /\ Terminate
    /\ UNCHANGED ownerVars

-----------------------------------------------------------------------------
Handler ==
    \/ Handle \/ I2COpen \/ I2CSlave \/ I2CTransfer \/ I2CClose
    \/ ExecOpen \/ ExecRead \/ MemOpen \/ MemMap \/ MemRead

Run == Loop \/ Recv \/ Parse \/ Handler \/ Send

Next ==
    \/ Start \/ StartTwice \/ Stop \/ Join
    \/ Run \/ RecvFail
    \/ \E doc \in Documents : Arrive(doc)

Spec == Init /\ [][Next]_vars

\* The kernel schedules the server thread, and the owner once join can return.
\* Nothing promises that recv ever returns without a message.
Fairness == WF_vars(Run) /\ WF_vars(Join)

FairSpec == Spec /\ Fairness

-----------------------------------------------------------------------------
(* Properties.                                                             *)

\* Between two requests, and while the reply is sent, the server holds no I2C
\* file, pipe, /dev/mem descriptor or mapping: every error path of
\* ReadI2CRegister, WriteI2CRegister, ExecuteCommand and readMemoryAddress
\* releases what it acquired.
NothingLeaks ==
    pc \in {"loop", "recv", "parse", "handle", "send", "exited", "terminated"}
        => fds = {} /\ mapped = -1

\* The answers HandleCommand may give to a document when fault was met.
Answers(doc, fault) ==
    LET One(text) == [wraps |-> 1, text |-> text, n |-> 0]
        Digits(n) == [wraps |-> 1, text |-> "hex", n |-> n]
        Silent == Param(doc, "bus") \notin Buses
                  \/ Param(doc, "address") \notin 0 .. MaxAddress
                  \/ fault \in {"i2c_open", "i2c_slave"}
    IN CASE doc.command = "get_app_version" -> {One("version")}
         [] doc.command \in {"absent", "unknown"} -> {One("Unknown command")}
         [] doc.command \in I2CCommands /\ InvalidParameters(doc) ->
                {One("Invalid parameters")}
         [] doc.command = "write_i2c_register" /\ ~InvalidParameters(doc) -> {One("ACK")}
         [] doc.command = "read_i2c_register" /\ ~InvalidParameters(doc) ->
                IF Silent THEN {One("Error")}
                ELSE IF fault = "none" /\ Device(doc) \in Devices
                     THEN {Digits(n) : n \in Byte}
                     ELSE {Digits(2 * IntHalf - 1)}
         [] doc.command \in UsageCommands ->
                IF fault = "popen" THEN {One("Error executing command")}
                ELSE {[wraps |-> 2, text |-> "usage", n |-> 0]}
         [] doc.command = "read_memory_address" ->
                CASE doc.memory.kind = "absent" -> {One("Invalid address parameter")}
                  [] doc.memory.kind = "garbage" -> {One("Error converting address")}
                  [] fault = "mem_open" -> {One("Failed to open /dev/mem")}
                  [] fault = "mem_map" -> {One("Failed to mmap")}
                  [] OTHER -> {Digits(Memory[doc.memory.n % PtrSpace])}

\* REQ/REP lock-step: at most one request is unanswered, and the i-th reply is
\* one that the i-th request, with what failed while it was handled, allows.  In
\* particular a failure never leaks into the answer to a later request, and a
\* read of a register answers two digits exactly when the transfer worked.
ReplyMatchesRequest ==
    /\ Len(received) - Len(replies) \in {0, 1}
    /\ \A i \in DOMAIN replies : replies[i] \in Answers(received[i], faults[i])

\* Document i is a write that reached register r of device d.
Wrote(i, d, r) ==
    LET doc == received[i] IN
    /\ doc.command = "write_i2c_register"
    /\ ~InvalidParameters(doc)
    /\ Device(doc) = d
    /\ Register(doc) = r
    /\ faults[i] = "none"

\* The value register r of device d has for the request at position i.
ValueAt(i, d, r) ==
    LET W == {j \in 1 .. i - 1 : Wrote(j, d, r)} IN
    IF W = {} THEN 0
    ELSE LET last == CHOOSE j \in W : \A k \in W : k <= j
         IN  Param(received[last], "val") % ByteSpace

\* A register reads as the low byte of the last write that reached it, over any
\* sequence of requests, of failures and of other registers' writes (the int to
\* __u8 conversions of i2c_smbus_write_byte_data included).
ReadSeesLastWrite ==
    \A i \in DOMAIN replies :
        LET doc == received[i] IN
        /\ doc.command = "read_i2c_register"
        /\ ~InvalidParameters(doc)
        /\ faults[i] = "none"
        /\ Device(doc) \in Devices
        => replies[i].n = ValueAt(i, Device(doc), Register(doc))

\* Each part of the document has the JSON type that HandleCommand asks for, and
\* an I2C command names a bus whose file name fits and a device that is there.
Sound(doc) ==
    /\ doc.text = "object"
    /\ doc.command # "nonstring"
    /\ doc.command \in I2CCommands =>
        /\ doc.parameters = "object"
        /\ \A name \in ParamNames(doc) : doc[name].kind # "other"
        /\ Param(doc, "bus") > -LongBus
        /\ Param(doc, "bus") \in Buses /\ Param(doc, "address") \in 0 .. MaxAddress
            => Device(doc) \in Devices
    /\ doc.command = "read_memory_address" => doc.memory.kind # "other"

\* The failures that end the process: a failed transfer, a popen that fails,
\* output that is not UTF-8, a physical page with nothing behind it.
FatalFaults == {"i2c_xfer", "popen", "output", "mem_read"}

\* The process ends only on an unsound document, a fatal failure, or a second
\* Start while the thread is unjoined, which is not while Stop waits in join: a
\* failing open, ioctl or mmap and any numeric parameters are survived.
SoundRequestsSurvive ==
    pc = "terminated" =>
        \/ calls > 1 /\ joinable /\ owner = "ready"
        \/ Len(received) > 0 /\ ~Sound(Request)
        \/ Len(received) > 0 /\ faults[Len(faults)] \in FatalFaults

\* After stop is set at most one more request is taken from the socket, the one
\* whose arrival unblocks the recv that was already entered.  Once Stop has
\* returned none is received or answered, not even after a further Start: stop
\* is never cleared.
StoppedForGood ==
    [][/\ late' <= 1
       /\ stop /\ owner = "ready" /\ calls > 0
            => received' = received /\ replies' = replies]_vars

\* A request that has been received is answered, or the process ends, if the
\* commands it runs end.
Answered ==
    \A i \in 1 .. MaxRequests :
        Len(received) >= i ~> Len(replies) >= i \/ pc = "terminated"

\* Stop returns when a request comes to wake the thread (recv has no timeout, so
\* without one it may wait forever), or the process ends.
StopReturnsOnTraffic ==
    owner = "joining" /\ inbox # <<>> ~> owner = "ready" \/ pc = "terminated"

\* Readme.md:36 says that the server responds based on the command in the
\* message.
EveryRequestAnswered ==
    \A i \in 1 .. MaxRequests : Len(received) >= i ~> Len(replies) >= i
=============================================================================
