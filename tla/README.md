# Verification of the blockstream station

The station is a board with I2C devices. It is commanded over TCP, keeps a few
rows in a MySQL table, and has a small web login. This directory holds TLA+
modules of its programs, TLC configurations that check them on small instances,
and TLAPS proofs for instances of any size. Paths are relative to the
repository's root.

    tlc -config TcpGateway_safety.cfg MCTcpGateway     # one run
    tlapm TcpGatewayProofs.tla                         # the proofs of one module

## 1. Inventory

### 1.1 The parts

| Part | Source | State it keeps | Operations |
|---|---|---|---|
| TCP gateway | `zmq_client.cpp` | listening socket, one `clientSocket` shared by all threads, per thread: its socket, a 1024-byte buffer, a REQ socket per command | `main`: accept, create a thread; `handleClient`: recv, request, wait, send, close |
| Command server | `zmq_server/zmq_server.{cpp,h}` | `stop` flag, thread, REP socket; for one command: I2C file, pipe, `/dev/mem` descriptor and mapping | `Start`, `Stop`, `Run`, `HandleCommand` with six commands |
| Main program, database | `main.cpp`, `libs/database.cpp` | MySQL table `blockstreamst` | start the server; `database_on_get`, `database_on_set(25, 45)`, `database_on_get`; sleep for ever |
| Frame codec | `examples/frame_tester` | a `Frame` object | ten setters, `encodeFrame`, `calculateCRC`, `decodeFrame` |
| Settings file | `server/cgi-bin/general.h`, `settings.properties` | the file; the static buffer `file_ex_data` | `get_value`, `set_value`, `get_line` |
| CGI helpers | `server/cgi-bin/general.h` | descriptors, children, the callers' arrays, the serial port | `system_command`, `system_command_root`, `send_socket`, `read_file_to_buffer`, `fget_contents`, `read_rs232`, `read_rs232e`, string helpers |
| Login | `server/cgi-bin/login.c`, `server/html/Login.html` | cookie `cookie_login_status` | `cgiMain`; `login()` in the page |
| Examples | `examples/zeromq_*`, `helloworld` | none worth naming | hello-world request and reply; two threads with a mutex |
| Third party | `json`, `cgic`, `parson`, scripts and styles under `server/html` | | used by the parts above, or not built |
| Placeholders | `data_collector`, `fota`, `webserver`, `libs/conf_to_obj.*`, ... | | empty |

### 1.2 How they interact

A TCP client talks to the gateway. Each gateway thread opens a ZeroMQ REQ socket
for every piece of text it receives, sends it to `ipc:///tmp/test`, waits without
a timeout and sends the reply back. The command server owns the REP socket and
works off one request at a time in one thread. The main program owns the
`ZmqServer` object; its main thread uses MySQL and ends the process, server
thread included, on any database error. The gateway is a process of its own. The
login program is started once per web request and reads the settings file, which
other CGI programs may rewrite at the same time; nothing locks the file or the
serial port. The frame codec is a stand-alone example.

### 1.3 What is hard, and what correct means

* Gateway: threads read their descriptor through a pointer to a variable that the
  next `accept` overwrites; descriptors are reused; TCP cuts and joins commands;
  a send to a client that has gone kills the process; threads are never joined.
  Correct: each accepted connection is served by exactly one thread, a reply goes
  to whoever sent the command and in order, no byte is handled twice, one
  client's behaviour does not end the service of others, what arrives is read.
* Command server: many error paths that must release what they hold, exceptions
  that leave the thread, a blocking `recv` against `Stop`, narrowing conversions
  of register, value and address. Correct: every request gets the answer that
  fits it, a read returns the last write, nothing leaks, sound requests do not end
  the process, `Stop` means stop.
* Main and database: the connection can be lost after an `INSERT` took effect;
  several instances and other programs share the table; an empty table leaves a
  row pointer uninitialised. Correct: one row per boot, the second read sees it,
  an outage after start-up harms nobody.
* Frame codec: encoder and decoder disagree about the place of one byte; the
  decoder reads a footer it has not checked for, and returns early leaving fields
  of an earlier frame. Correct: what is decoded is what was encoded, the CRC
  tells a damaged frame.
* The whole: the station process can end in its boot or on a bad request while
  gateway threads wait for it without a timeout. Correct: no command is run twice,
  no answer is given for one that was not run, and what was sent while the station
  was down is served when it is back.
* Settings and login: the file is rewritten in place without truncation and
  without a lock; `set_value` matches prefixes; `get_value` returns a pointer into
  a stack frame that is gone, and writes to a string literal when the key is
  missing; name and password are looked up by separate reads. Correct: `get_value`
  after `set_value` returns the new value and leaves other keys alone; a cookie is
  handed out only for a pair that was right.
* CGI helpers: a buffer that grows once per read, arrays that are filled without
  a terminator, a pipe that is never closed and a child nobody waits for, a serial
  port whose answers belong to nobody. Correct: no store past the buffer, no
  descriptor lost, the caller gets its own output, a call returns unless the
  command it waits for does not.

`PROJECT.json` lists each hazard at its line with the properties aimed at it.

## 2. Modules

| Module | Models | Lines it corresponds to |
|---|---|---|
| `TcpGateway` | the gateway, its clients, the kernel's descriptor table, the server's end of the REQ socket | `zmq_client.cpp` |
| `CommandService` | what clients are promised, without threads and sockets; `TcpGateway` implements it | |
| `ZmqServer` | the class `ZmqServer` and everything it calls | `zmq_server/zmq_server.cpp` |
| `StationMain` | the main program and the database calls, several instances, several boots | `main.cpp`, `libs/database.cpp` |
| `Station` | gateway, main program and server loop composed over ZeroMQ | the three above |
| `Frame` | the class `Frame`: a sender, a line, a receiver that is used again | `examples/frame_tester` |
| `TextHelpers` | the string functions of `general.h` as operators on sequences of characters | `general.h:177-255`, `369-385` |
| `Settings` | the settings file and the processes that read and rewrite it | `general.h:199-220`, `256-308`, `417-455` |
| `Login` | `cgiMain` and the page's `login()` on top of `Settings` | `login.c`, `Login.html:48-60` |
| `SystemCommand` | the helpers that run commands or hold a descriptor for one call | `general.h:229-240`, `318-361`, `404-416`, `456-487` |
| `SerialPort` | the serial port functions on top of `SystemCommand` | `general.h:58-148` |
| `MC...` | model values, documents, inputs and, for the gateway, symmetry for TLC | |
| `...Proofs` | theorems about `TcpGateway`, `ZmqServer`, `Station`, `StationMain`, `Frame`, `Settings`, `Login` and `SerialPort` | |

### 2.1 TcpGateway

`apc` and `clientSocket` are `main`'s program counter and its local variable;
`tpc`, `socket`, `rxConn` and `chunk` are, per thread, the program counter,
`handleClient`'s local `socket`, the connection a blocked `recv` looked up, and
what the last `recv` returned. `fdTable` is the kernel's table; `queue`, `peer`,
`sent`, `taken` and `delivered` describe the connections. `ended` says what ended
the process, if anything did. `raced`, `unserved` and `impatient` are history:
whether an `accept` overwrote `clientSocket` before a thread had read it, which
connections got no thread because `pthread_create` failed, which clients closed
with commands unanswered.

Every system call is an action: `Accept`, `AcceptFail`, `CreateThread`,
`CreateFail`, then per thread `ReadSocket`, `RecvCall` (the kernel looks the
descriptor up when the call is entered), `RecvData`, `RecvEnd`, `ZmqSend`,
`ZmqReply`, `SendBack`, `CloseSocket`. Undefined and fatal outcomes are separate
actions: `RecvOverrun` (a full buffer makes `buffer[bytesRead]` a store one past
the end, which may or may not matter), `ZmqNoFds` (no descriptor for the REQ
socket: an uncaught exception), `SendKilled` (SIGPIPE), `ZmqDown` (the server's
uncaught parse error on a piece of text that is not one JSON value).

A stream is abstracted to numbered segments, two to a command, so that a `recv`
can return part of a command, one command, or several. What a command says does
not matter to the gateway and is left out.

### 2.2 ZmqServer

`pc` is the place of the server thread; `owner`, `calls`, `stop` and `joinable`
belong to the caller of `Start` and `Stop`. `received`, `faults` and `replies`
are histories that let a reply be compared with its request and with what failed
in between; `fds` and `mapped` are the resources a command holds; `regs` are the
device registers.

A request is a record of what `HandleCommand` distinguishes: whether the text
parses and is an object, the command, and for each parameter whether it is
absent, a number or of the wrong type. Numbers go through the conversions of the
code: to `int` (`ToInt`), to `__u8` (`Register`, `Transfer`), to `uintptr_t`
(`Address`), and through `%02x` (`Hex`). Each of `ReadI2CRegister`,
`WriteI2CRegister`, `ExecuteCommand` and `readMemoryAddress` is a chain of
actions, one per system call, and `Faults` names the calls that may fail.

What ends the process is modelled where the code makes it possible: exceptions
and the assertion of the JSON library (`Throws`), `-1` printed as eight digits
into `result[3]`, a bus number whose file name does not fit `filename[20]`,
`pclose` of a null pointer, output that is not UTF-8, SIGBUS. The board's build
has `-D_FORTIFY_SOURCE=2 -fstack-protector-strong` and the PC build has not, so
for stores past an array both outcomes are possible.

### 2.3 StationMain

Per instance, `call` and `step` are the position in `read_initial_configuration`
and inside the current database call; `table` is the MySQL table. A row carries,
as history, who inserted it and on which boot. `InsertUnconfirmed` is an `INSERT`
that took effect while the answer was lost. `FetchNothing` is the use of the
uninitialised `last_row`: a crash or an indeterminate line. `DbGoes`, `DbReturns`
and `OtherInsert` are the environment. That `SELECT *` gives the rows in the order
of insertion is assumed, as the code does when it takes the last one. A query fails
while the database is down, and may fail after any outage, which can have cost the
connection.

### 2.4 Frame

`tx` is filled in by the setters, `Encode` puts `encodeFrame(tx)` on the line,
`Damage` and `Cut` are the line's doing, and `DecodeRefused`, `DecodeShort` and
`DecodeFull` are the three ways through `decodeFrame`. All widths are the real
ones. `calculateCRC` is a recursive function over the bytes with eight shifts per
byte. Reading past the vector gives any byte of `Junk`. The private field `crc` is
never used by the code and left out. The receiver is one object for all frames,
which is how a class with a `data.clear()` in its decoder is meant to be used; the
example decodes only once.

### 2.5 CommandService and Station

`CommandService` has four variables that a client could observe: what was sent,
what was answered, who has left, and whether the service is broken. The refinement
mapping in `TcpGateway` takes `delivered` for `answered`, closed and reset
connections for `gone` and `raced` for `broken`. Every step of the accept loop, a
thread or a client is then a `Write`, `Leave`, `Break` or `Answer`, or none.

`Station` extends `TcpGateway`, instantiates `StationMain` for one process and
adds `link`, the place of each gateway thread's request: waiting in the gateway
(`queued`), received by the server, handled, or `lost` with a station process that
ended. `GatewayStep` and `MainStep` lift the steps of the parts; `Execute` and
`Reply` are the server's loop, `Abort` the exception that ends the process. Of
`ZmqServer` only this loop is used: what a command does is the business of the
`server` runs. ZeroMQ is external: it keeps a request while there is no peer and
never sends it twice.

### 2.6 Settings and Login

`versions` holds every state of the file, the last being the present one; that is
what a request is compared with afterwards. `set_value` is `SetRead` (read the
whole file, build the new text) and `SetWrite` (lay it over the old contents);
between the two the process may be overtaken, killed or fail to open the file
(`SetAbandoned`), and a text that does not fit an array ends it (`SetCrash`) or
does damage that is remembered in `mishaps`. Characters are kept, since what is at
stake are prefixes, tails of lines, blanks and comments; keys and values are two
or three of them. `get_line` goes over all lines and copies each hit into
`file_ex_data`; what the array holds afterwards is what `CopyLines` makes of it. If
`fopen` fails it leaves the array alone and its caller gets the line of an earlier
call (`GetLineNoFile`); after a line that fills the array no terminator is left in it
(`Terminated`). Three assumptions are stated in the module: `SettingsAssumption`, on
the texts and the arrays, `DeliveredAssumption`, on the file that is delivered, and
`NamesAssumption`, on the names `set_value` is called with.

`Login` runs `cgiMain` as up to four steps, each with its own read of the file.
The dead stack frame that `get_value` returns still holds the text, or something has
overwritten it, and then the comparison comes out either way (`Compare`); `lost`
remembers the keys whose frames were overwritten. `Submit` includes the cutting of what was entered
to `FormMax - 1` characters, `Respond` the page's test for "ok".

### 2.7 SystemCommand and SerialPort

A process makes one call at a time. `Popen`, `Fread` and `FreadEnd` are
`system_command`, with `comalloc` and `comlen` as in the code. The command runs in
`child`; while it does (`Awaiting`) `fread` returns only full buffers, and neither the
end of the loop nor `pclose` gets past it. `RootFork` and its
two failing forms are `system_command_root`: the pipe stays open in `leaked`, and
`child` records which pipe the child writes to and which read ends it inherited.
When `pipe` has failed, which the code does not test, `fd` is indeterminate, and
the child may write to an earlier pipe. `OpenFor`, `OpenFails` and `CloseAfter` are
the three functions that hold one descriptor.

In `SerialPort` several processes type commands to one console, press return, sleep
and read what has come. `typed`, `work` and `rxq` are the console's input, what it
is working on, and the kernel's queue. Cells carry the number of the call they
belong to, so that a result can be told from somebody else's. Without a port the
call goes on with -1 as the code does.

## 3. Runs

| Run | Checks | Distinct states |
|---|---|---|
| `gateway_safety` | `TypeOK`, `OneThreadPerConnection`, `RepliesReturn`, `NoChunkTwice`, `PatientClientsHarmless`, `ImplementsService` | 1,189,261 |
| `gateway_live` | `Served` | 172,411 |
| `gateway_goes_back` | `ResponseGoesBack`, violated | |
| `server` | `TypeOK`, `NothingLeaks`, `ReplyMatchesRequest`, `SoundRequestsSurvive`, `StoppedForGood`, `Answered`, `StopReturnsOnTraffic` | 65,055 |
| `server_registers` | `ReadSeesLastWrite` | 986,354 |
| `server_answers_all` | `EveryRequestAnswered`, violated | |
| `main` | `OneRowPerBoot`, `SecondGetIsFresh`, `GarbageOnlyAtFirst`, `BootSettles` | 365,140 |
| `station` | `ExecutedOnceInOrder`, `AnswersAreTrue`, `WaitIsAccounted`, `QueuedAreServed` | 1,540,180 |
| `frame_codec` | `FullFrameAgrees`, `DataSlips`, `OverreadOnlyAtEdge`, `ShortFrameKeepsFooter` | 54,842 |
| `frame_crc` | `CrcTells` | 26,683 |
| `login` | `LastSetWins`, `LinesNeverMerge`, `LineThenLeftovers`, `LoginExact`, `GrantedHalvesWereRight`, `CrashNeedsPrefix` | 365,828 |
| `cgi` | `BufferSuffices`, `OnlyRootLeaks`, `ReplyThenLeftovers`, `AnswerIsOwn`, `OrphansEnd`, `CallsReturn` | 506,431 |

### 3.1 What the passing runs show

* The race on `clientSocket` is the only way for the gateway to lose the
  one-to-one relation of threads and connections or to misroute a reply: every
  property of that kind holds as long as `raced` is false, through descriptor
  exhaustion, failing `pthread_create`, torn and joined commands. Handling a byte
  at most once survives even the race. SIGPIPE needs a client that closed early
  (a full buffer, or no descriptor for the REQ socket, can end the process without
  one). All of it together is a refinement: the gateway implements `CommandService`.
* In the whole station a command is run at most once and, per connection, in
  order, although the process may end between running it and answering; no answer
  is given for a command that was not run. A thread whose request a station
  process had received when it ended waits for ever, and this is the only way for
  a request to get lost; what was still queued is served by the next process.
* Whatever fails, the command server releases what it opened, gives the answer
  that fits the request and the failure, and keeps REQ/REP lock-step. It ends only
  on documents that are not sound, on four kinds of failure, or on a second
  `Start`. After `stop` is set it takes at most one more request, and after `Stop`
  has returned none, not even after another `Start`, because `stop` is never
  cleared. A register reads as the low byte of the last write that reached it,
  although failed writes are answered `ACK` too.
* A boot inserts at most one row, also when the answer to the insert is lost, and
  the second read of a boot sees its row or a later one. The uninitialised row is
  used only in a boot's first call.
* Of a frame, the register address always, and counter and flags exactly for
  frames of 13 words, decode to what was encoded; the data are shifted by a byte;
  a frame of exactly 11 words makes the decoder read past the end; shorter frames
  leave counter and flags of an earlier frame. The CRC fits its purpose, though
  `decodeFrame` does not look at it.
* As long as no two `set_value` overlap, no name is a proper prefix of a key and
  all texts fit, `get_value` returns what was last set, through any remains of
  longer texts at the end of the file. Overlapping and abandoned calls may lose
  updates but never run two lines into each other and never remove a key; only a
  name that is a prefix, or an overrun, does, and then `login.cgi` crashes on its
  next look at the key. A cookie needs a name and a password that were each right
  at some moment of the request, though they need not have been right together. A
  stack frame that is overwritten in time can stand in for one of them, the one it
  was compared with. What `get_line` leaves starts with the last line found, and is
  that line unless a longer one was copied earlier or a line filled the array.
* `system_command` never stores past its buffer; what follows its output in
  `reply` is the end of older and longer outputs, because there is no terminator.
  Descriptors are lost only in `system_command_root`. A serial call that had the
  port for itself returns only its own, and returns also when no answer comes; a call
  of `system_command` returns unless its command runs on. Commands that
  `system_command_root` left blocked on a full pipe end after their parent, though
  later children inherited the read end, unless one of those runs on and holds it.

### 3.2 What the violated runs show

Each run states what a comment or the Readme says, and has an entry under "findings"
in `PROJECT.json`.

* `gateway_goes_back`: "Send ZeroMQ server's response back over TCP"
  (`zmq_client.cpp:39`). Two accepts before the first thread runs: both threads
  serve the second connection and none the first. One of them closes the
  descriptor they share, `accept` gives the number to a new client, and the other
  thread sends it a reply that is not its own.
* `server_answers_all`: the server responds "based on the command specified in the
  JSON message" (`Readme.md:36`). Valid JSON without `"parameters"` ends it.

Some comments and texts differ from the code in ways that need no run:

* `main.cpp:17` says "Wait for some time and then stop the server", and `Stop` is
  called nowhere.
* `Readme.md:84-89`: the example of a write names `reg` twice and `val` never, so
  the answer is `Invalid parameters`; the text says "The server responds ACK."
* `Frame.cpp:120` puts "general" into the footer; `decodeFrame` takes it from byte
  2 of the header. `Frame.cpp:141` says "Changed the loop condition to iterate
  based on lengthCode"; the loop takes up to 13 words whatever `lengthCode` is.
* `general.h:256-258` says that `get_value` returns an empty string for a key that
  is not there. It stores one into `ret_buf`, for which `login.c` passes the literal
  `""`: `Crash` in `Login`.
* `OrphansEnd` has an exception that the code needs: after a failed `pipe` two
  children can each hold the read end of the pipe on which the other one is
  blocked, and neither ends.

### 3.3 Bounds

* Gateway: two threads, two descriptors, three connections (two for liveness), a
  listen queue of two, four segments per connection with a buffer of four. That is
  enough for two threads on one descriptor, for a third client to get a reused
  number, for no descriptor and for no thread to be left, for a full buffer, and
  for two commands that arrive cut or joined. Connections and threads are
  symmetric in the safety run; the liveness run uses no symmetry.
* Server: two requests (four for registers), three calls of `Start` and `Stop`,
  one device on one bus. The integer ranges are scaled down and keep their order:
  a byte has 4 values, an `int` 16, a pointer 8, a page 4 bytes, and bus -6 is the
  first whose file name is too long. The documents include for each range a value
  that is cut by the conversion (7 as a byte, 15 as an `int`, 13 as an address).
  Two requests are enough for one to leave something to the next; `Start`, `Stop`,
  `Start` is the shortest sequence that shows what a restart does.
* Main: two instances with two boots each, other programs add rows while the
  table has fewer than two, two outages. Two boots are needed for a row of an
  earlier boot, two instances for a row in between.
* Frame: 13 words as in the code, data of 2, 10, 11, 12, 13 and 14 words, three
  setter calls and two frames; in the CRC run every byte of a frame is changed by
  each of four patterns. The theorems of section 4 remove these bounds.
* Station: two clients that write four segments together, two threads, two starts
  of the station process. That is two commands by one client or one by each, whole
  or cut, and one end of the process at any point of either. The database is up or
  down from the start, which is enough for `exit(1)` at boot; rows and outages are
  the `main` run's.
* Login: two processes that together call `set_value` at most twice and, with
  `get_line`, make three calls (`MaxCalls`), and one login, for which one dead stack
  frame is overwritten (`MaxLost`). Names: a key, a proper prefix of two keys, and
  one that is neither; values: empty, longer with a blank and a comment, and one
  that does not fit a line. Lines are shorter than `file_ex_data`, as long, and longer. The second set works on the remains of the first, or
  overlaps it, or is laid over it; the array sizes are such that the longest
  texts, and no others, overrun them. Two keys share their first letter, as
  `username` and `userpw` do.
* CGI: two processes, three calls together, of which the first two may be to the
  serial port; outputs of less than one and of more than two buffers, a pipe that
  is smaller than the larger one, four descriptors, so that the third call of
  `system_command_root` finds none left. An answer is longer than half a command and
  shorter than a command.

Deadlock is not checked: a server that waits in `recv`, a gateway nobody connects
to, a main thread that sleeps, and a process that ended, are all legitimate.

### 3.4 Fairness

* Gateway: weak fairness of the accept loop, of each thread and of the server's
  answer to each waiting thread: the kernel runs what can run, and a server that
  is up answers. Nothing is assumed of clients. `Served` excepts the race, a
  failed `pthread_create`, and the end of either process.
* Server: weak fairness of `Run` and of `Join`. `RecvFail` has none: nothing makes
  `recv` return without a message, and with it `Stop` would return by itself. For
  `ExecuteCommand` this takes for granted that the command ends and closes its pipe:
  `Answered` does not hold of a command that runs for ever.
* Station: weak fairness of ZeroMQ and of the server thread, nothing else. That
  the process at last stays up is a premise of `QueuedAreServed`.
* CGI: weak fairness of the steps of each process, except while it waits for its
  command, and of SIGPIPE: the kernel runs what can run. `connect` and file reads come
  to an end, with an error if need be. Nothing makes a command end, and nothing is
  assumed of the console; `CallsReturn` and `OrphansEnd` except commands that run on.
* Main: weak fairness of each instance's main thread. Nothing obliges anybody to
  start a process or to bring the database back.

### 3.5 Mutants

Every property of a passing run has a mutant: an operator named
`<Definition>_<Bug>` beside the definition that it replaces, which is the code
with a plausible slip in it (a missing close, a swapped argument, an ignored end
of stream). TLC finds the property violated when the mutant takes its place.

## 4. Proofs

### 4.1 TcpGatewayProofs

For any sets of connections, threads and descriptors, and any bounds, from
`GatewayAssumption` alone (`NoConn` is no connection, descriptors are naturals,
the bounds are naturals and the buffer holds something):

| Theorem | States |
|---|---|
| `TypeCorrect` | `Spec => []TypeOK` |
| `ChunksHandledOnce` | `Spec => []NoChunkTwice` |
| `ConnectionsOwned` | `Spec => []OneThreadPerConnection` |
| `RepliesRouted` | `Spec => []RepliesReturn` |
| `PatienceIsSafe` | `Spec => []PatientClientsHarmless` |
| `GatewayImplementsService` | `Spec => ImplementsService` |

None of the properties is inductive. `TypeInv` adds that a blocked `recv` has a
connection. `ChunkInv` adds that whatever is held or answered lies below what
`recv` has taken, so the next `recv` cannot overlap it. `OwnershipInv` adds
`HandoverSafe`: without the race at most one thread is about to read
`clientSocket`, which then holds an open descriptor that no other thread uses; and
`EndedIsEmpty`, since the end of the process closes everything. `RouteInv` adds
that a thread holds bytes of the connection its own socket refers to and that they
come after all it was answered; for that `Unique` is needed: a connection is in
the listen queue or behind one descriptor, once. `PatientInv` adds `Settled`: while
all clients are patient no connection is reset and a closed one has nothing
pending. For the refinement `StreamInv` adds that `recv` never takes more than was
sent and returns at least one segment; with it, `ChunkInv` and `RouteInv`, the one
step that matters, `SendBack`, is an `Answer`, and every other step is a `Write`, a
`Leave`, a `Break` or a stutter. Each part was checked with TLC before it was proved. Each proof has one
step per action.

### 4.2 FrameProofs

For frames of any contents and any number of words, any `MaxWords`, any sequence
of setters, frames, damages and losses, from `FrameAssumption` (the setters get
values of their types):

| Theorem | States |
|---|---|
| `FullFramesAgree` | `Spec => []FullFrameAgrees` |
| `DataAlwaysSlips` | `Spec => []DataSlips` |
| `OverreadEdge` | `Spec => []OverreadOnlyAtEdge` |
| `FooterGoesStale` | `Spec => ShortFrameKeepsFooter` |
| `CrcAlwaysTells` | `Spec => []CrcTells` |

`Layout` gives the places of an encoded frame at which `decodeFrame` looks;
`CodecInv` says that what the line left alone is the encoding of `origin` and that
both objects are Frames; `DecodeClaims` is the argument for one decoding.

The last theorem is about `calculateCRC`, for frames of any length. `ShiftInjective`:
a shift of the register with or without the polynomial loses nothing, since the
polynomial makes the result odd and a plain shift makes it even. With `XorInjective`,
one byte of the frame gives different registers for different registers before it, and
for different bytes (`CrcByteWord`). So two frames that differ in one byte have the
same register up to it and different ones from there to the end (`RegistersSame`,
`RegistersDiffer`). That an intact frame gives zero follows from the order of the two
bytes of the CRC: the high one cancels the upper half of the register and moves the
lower half up, where the low one cancels it (`CrcHigh`, `CrcLow`). Masks are assumed to
be bytes that change something. `calculateCRC` and the loop over the bits are recursive
functions; `StepsExist` shows that they have values, and the inductions over the bytes
use `Induction`, which follows from the order of the naturals being well-founded.

### 4.3 StationMainProofs

For any number of instances, boots, rows of other programs and outages, from
`MainAssumption` (other programs are not instances, the bounds are naturals):

| Theorem | States |
|---|---|
| `MainTypes` | `Spec => []TypeOK` |
| `OneRow` | `Spec => []OneRowPerBoot` |
| `FreshGet` | `Spec => []SecondGetIsFresh` |
| `Garbage` | `Spec => []GarbageOnlyAtFirst` |

`PosInv` ties the position in the three calls to the number of lines printed.
`RowInv` says that the rows of an instance are of its boots so far, so that a new
boot starts without one, and are told apart by the boot. `ReadInv` is about the
result set that the client keeps while the table grows: in the third call it
reaches the own row, and in the first an empty one means that no earlier boot had
inserted. Rows that others add change none of this (`OthersRow`).

### 4.4 SerialPortProofs

For any number of processes and calls, any outputs and any sizes, from
`SystemAssumption`, of which `BufSize <= InitAlloc` is the part that matters (both
are 256 in the code), and `SerialAssumption` (lengths are naturals, a read takes
something):

| Theorem | States |
|---|---|
| `SystemCommandBuffer` | `Spec => []BufferSuffices` |
| `DescriptorsAccounted` | `Spec => []OnlyRootLeaks` |
| `ReplyHolds` | `Spec => []ReplyThenLeftovers` |
| `AnswersAreOwn` | `Spec => []AnswerIsOwn` |

`BufInv` adds to the first that `comalloc` never falls below its first size: then
one doubling makes room for a whole `buffer`. `FdInv` says what is open at each
place of a call, and that leaked pipes are calls made so far, so that they can be
counted. `ReplyInv` adds that the call in progress has a higher number than the one
whose output is in `reply`, so what stays behind it is older. Both `general.h`
modules are covered by these proofs, since `SerialPort` contains every step of
`SystemCommand`.

`AnswersAreOwn` has an invariant of its own, `ConsoleInv`, for it says nothing of
what is under way. `AloneInv` does: an undisturbed call is the only one that has the
port open; before its "\r" only its command is on the line, and afterwards the
console works for it and has sent for it alone. `QueueInv` is why a later call can
start from there: the kernel keeps nothing for a port that nobody has open. The rest
is about the text that is returned (`DataText`, `TrimmedText`): where the prompt is
and what is cut off is said by a least position, so no induction is needed.

### 4.5 ZmqServerProofs

For any documents, faults, buses, devices and integer ranges, and any number of
requests and of calls of `Start` and `Stop`, from `ServerAssumption` (the ranges are
not empty, devices have addresses that fit, and a byte fits an unsigned `int`):

| Theorem | States |
|---|---|
| `ServerTypes` | `Spec => []TypeOK` |
| `HandlerReleases` | `Spec => []NothingLeaks` |
| `RepliesMatch` | `Spec => []ReplyMatchesRequest` |
| `SoundSurvive` | `Spec => []SoundRequestsSurvive` |
| `RegistersKeepLastWrite` | `Spec => []ReadSeesLastWrite` |
| `StopIsFinal` | `Spec => StoppedForGood` |

The server thread has some fifteen places. `LockStep` says by place how many
requests, faults and replies there are, `HeldInv` what is open and mapped, and
`RequestInv` what has been found out about the request in hand (its command, that
its parameters are there, that nothing has failed yet). From these, `AnswerInv`: the
reply that is about to be sent answers the request in hand. `StopInv` relates flag,
thread and caller: once `Stop` has returned no thread is left that could receive, and
since `stop` is never cleared a new thread ends at its first test. `RegisterInv` is
the argument about writes. `Holds` says that a value is what the first requests left
in a register, without computing it, so one more request needs no induction over the
earlier ones; `Settled` counts the requests whose transfer is over, because a write
takes effect before its reply, and the byte a read has in hand stays true while the
descriptor is closed and the reply is sent.

### 4.6 StationProofs

For any numbers of connections, threads, descriptors and segments and any number of
starts of the station process, from `GatewayAssumption` alone:

| Theorem | States |
|---|---|
| `CommandsRunOnce` | `StationSpec => []ExecutedOnceInOrder` |
| `AnswersTrue` | `StationSpec => []AnswersAreTrue` |
| `WaitsAccounted` | `StationSpec => []WaitIsAccounted` |
| `StationImplementsService` | `StationSpec => ImplementsService` |

A step of the station is a step of the gateway, or changes nothing of the gateway but
whether there is a server (`Kinds`), so the invariants of `TcpGatewayProofs` carry
over and need not be proved again. `ProcessInv` and `LinkInv` tie the three parts
together: there is a server exactly while the process runs, a request is on the link
exactly while its thread waits, and in the server only while there is one. The hard
case is a gateway that has ended while the server still works on its request:
`FlightInv` speaks of whatever is in flight in either process. `RunInv` says that
all that may still be run comes after all that was, `TruthInv` that whatever is being
answered was run.

### 4.7 SettingsProofs and LoginProofs

For any files, texts and arrays and any numbers of requests and of processes that
rewrite the file meanwhile. The theorems are in `LoginProofs`, the lemmas about the
file in `SettingsProofs`:

| Theorem | States |
|---|---|
| `HalvesWereRight` | `Spec => []GrantedHalvesWereRight` |
| `LoginIsExact` | `Spec => []LoginExact` |
| `FileStaysInLines` | `Spec => []LinesNeverMerge` |
| `LastValueCounts` | `Spec => []LastSetWins` |
| `LinesLeaveRemains` | `Spec => []LineThenLeftovers` |
| `CrashHasReason` | `Spec => []CrashNeedsPrefix` |

The first two need no assumption on the constants. What `get_value` finds in a given
file is left open; that one file has one answer is enough. `SeenInv` says what the
lookups so far have established, each at some version between the first and the last
the request has seen, or by a frame that had been overwritten, whose key is then in
`lost`. `ExactInv` is the same for a file that did not change and no
lost stack frame, where each test has its converse, too. `AnswerInv` relates `buf`,
header, cookie and page.

The others are about what is in the file, and take from the code and from
`settings.properties`:

* `SettingsAssumption`: texts hold no NUL, names and values no newline, and the
  delivered file is lines that fit the array `line`. The longest delivered line has 81
  characters and `MAX_LINE` is 200 (`login.c:7`). Without the last, `LinesNeverMerge`
  is false: `fgets` would hand a line over in parts, and `set_value` would end each of
  them with a newline.
* `DeliveredAssumption`: a delivered line that assigns something starts with its key.
  `set_value` compares from the beginning of the line, `get_value` after trimming.
* `NamesAssumption`, for `LastValueCounts` only: a name passed to `set_value` has no
  blank at either end, no "=" and no "#"; with such a name `set_value` writes a line
  that `get_value` reads as one for another key, or for none. `set_value` has no
  caller in the repository, so this is what its callers have to keep to.
* `LoginAssumption`, for `CrashHasReason`: the keys that `login.c` looks up are
  delivered.

The functions that go over the file (`Pieces`, which cuts it as `fgets` does, the
joining of lines, `CopyLines`) are recursive. Each is shown to have a value and is then
unfolded, and every induction is made from the least number for which the claim would
fail. `Whole` says of a text that it consists of lines that end in a newline and fit
the array, and that each is the end of a delivered line or of one `set_value` made,
`Named` that every delivered key still has a line, `Holds` that the first line for a
key has a given value. `LinesRoundTrip`: lines that are put together are read again as
they were. `OverGood`: what a shorter text leaves of the old one behind it are lines of
the old, the first of them perhaps without its beginning. Then

* `JobInv` says that what a process is about to write was made from some version of
  the file, and from the present one if no other was written since;
* `WholeInv` and `NamedInv` say `Whole` and `Named` of the file and of all that may yet
  be written to it, which is why overlapping calls and abandoned ones do no harm to
  either;
* `HoldsInv` says that the file has the values last set; the remains behind the new
  text come after the lines that count;
* `LeftInv` says of `file_ex_data` that it starts with the last line copied into it, and
  that nothing but NULs is behind the longest one. A longest line that does not fill
  the array therefore leaves a terminator.

### 4.8 Only model-checked

* Liveness (`Served`, `Answered`, `StopReturnsOnTraffic`, `BootSettles`,
  `QueuedAreServed`, `OrphansEnd`, `CallsReturn`), which is out of the prover's reach.

All invariants and action properties of the passing runs are theorems.

## 5. Not modelled

* Of `general.h`: `myitoa`, `substr`, `extract`, `char_exists` and
  `check_snprintf`, which keep no state and which no program calls; `CookieSet`,
  `LoadEnvironment` and `SaveEnvironment`, calls of cgic and page text;
  `system_command_write`, a call of `system` and nothing else.
* In the modelled helpers: a failing `exec` of `/bin/sh` in
  `system_command_root`, after which a copy of the calling process would go on; a
  failing `malloc`; a baud rate other than the three that `general.h:77-84` knows,
  which leaves the rate indeterminate. Opening the port and writing to it are one
  step, since no other process sees what is between them. `set_value` reads the file
  in one step: the further `read` with which `fgets` finds its end could see a file
  that has grown meanwhile.
* In the gateway: the descriptors that a ZeroMQ context and socket take are not taken
  from the table; that there is none left for them is a step (`ZmqNoFds`). A failing
  `accept` is one without a free descriptor; other errors have the same effect. Bytes
  stand for commands, so what `std::string(buffer)` cuts off at a NUL
  (`zmq_client.cpp:20`) is not seen. Of the requests that end the station process,
  `Station` has the one that is not a command; the others are in `ZmqServer`.
* The transport of the form (URL encoding) between page and `login.cgi`.
* The ZeroMQ and thread examples: hello-world request and reply, and two threads
  that take one mutex in turn. They share no state with the station.
* Third-party code: `json`, `cgic` and `parson` (the latter is not compiled into
  any program), and the scripts under `server/html/js`, none of which is the
  station's own. What the modelled code relies on is part of the modules.
* The web page's assets, logging, formatting of console output, build files.
* Placeholders and empty files, and the empty functions `state_discovery`,
  `state_power_sequence` and `state_monitor` of `main.cpp`.

## 6. Plan

1. A failing `exec` in `system_command_root`, after which two processes run the rest of
   the CGI program, which no property covers. (The other hazard without one is the
   store past a full `buffer`, `zmq_client.cpp:16`, whose outcomes are in the model.)
2. Changes of more than one byte of a frame, of which the CRC cannot tell all.
3. The examples.
