--------------------------- MODULE SystemCommand ---------------------------
(***************************************************************************)
(* The functions of server/cgi-bin/general.h that run commands or use a    *)
(* descriptor for the time of one call: system_command,                    *)
(* system_command_root, send_socket, read_file_to_buffer, fget_contents.   *)
(*                                                                         *)
(* A CGI process makes one call at a time.  system_command runs a command  *)
(* and waits for it, however long it takes.  system_command_root makes a   *)
(* pipe and a child that writes to it, and returns: the pipe is neither    *)
(* read nor closed and nobody waits for the child.  The children of both   *)
(* inherit all pipes that the process has made before.                     *)
(*                                                                         *)
(* A byte of output is known by the number of the call it belongs to.      *)
(***************************************************************************)
EXTENDS Integers, FiniteSetsExt

CONSTANTS
    Procs,      \* CGI processes
    Commanders, \* those that call the functions of this module
    Outputs,    \* how many bytes commands may print
    BufSize,    \* size of the array buffer (256)
    InitAlloc,  \* size of comout at first (256)
    ReplyMax,   \* size of the caller's array reply
    PipeMax,    \* bytes that fit a pipe
    MaxFds,     \* descriptors that a process may have open
    MaxCalls    \* bound: calls of all functions together

ASSUME SystemAssumption ==
    /\ Commanders \subseteq Procs
    /\ Outputs \subseteq Nat
    /\ BufSize \in Nat \ {0} /\ InitAlloc \in Nat /\ BufSize <= InitAlloc
    /\ ReplyMax \in Nat /\ PipeMax \in Nat /\ MaxFds \in Nat /\ MaxCalls \in Nat

VARIABLES
    pc,         \* what each process is doing
    calls,      \* number of calls so far; a call's number
    call,       \* number of the call that each process is in, 0 for none
    open,       \* descriptors open for the call in progress
    leaked,     \* calls of system_command_root whose pipe the process has open
    left,       \* output of the command that fread has not returned yet
    comalloc,   \* as in system_command
    comlen,     \* as in system_command
    reply,      \* the caller's array: which call wrote each cell, 0 for '\0'
    got,        \* history: length of the last output copied to reply, its call,
                \*          and the length of the longest one
    child       \* command started by each call of the two

sysVars == <<pc, calls, call, open, leaked, left, comalloc, comlen, reply, got, child>>

CallIds == 1 .. MaxCalls
NoChild == [state |-> "none", by |-> "nobody", toWrite |-> 0, pipe |-> 0, holds |-> {}]

FreeFds(p) == MaxFds - open[p] - 2 * Cardinality(leaked[p])

Min2(a, b) == IF a < b THEN a ELSE b
Max2(a, b) == IF a < b THEN b ELSE a

SysInit ==
    /\ pc = [p \in Procs |-> "idle"]
    /\ calls = 0
    /\ call = [p \in Procs |-> 0]
    /\ open = [p \in Procs |-> 0]
    /\ leaked = [p \in Procs |-> {}]
    /\ left = [p \in Procs |-> 0]
    /\ comalloc = [p \in Procs |-> InitAlloc]
    /\ comlen = [p \in Procs |-> 0]
    /\ reply = [p \in Procs |-> [i \in 1 .. ReplyMax |-> 0]]
    /\ got = [p \in Procs |-> [len |-> 0, call |-> 0, longest |-> 0]]
    /\ child = [k \in CallIds |-> NoChild]

\* A process that is not in a call makes the next one.
Calling(p, next) ==
    /\ pc[p] = "idle"
    /\ calls < MaxCalls
    /\ calls' = calls + 1
    /\ call' = [call EXCEPT ![p] = IF next \in {"idle", "ended"} THEN 0 ELSE calls + 1]
    /\ pc' = [pc EXCEPT ![p] = next]

\* It returns from the call.
Returning(p) ==
    /\ pc' = [pc EXCEPT ![p] = "idle"]
    /\ call' = [call EXCEPT ![p] = 0]

-----------------------------------------------------------------------------
(* system_command.                                                         *)

\* A command that prints n bytes to a pipe nobody reads and has the read ends of
\* others.
Running(p, n, pipe, holds) ==
    [state |-> "run", by |-> p, toWrite |-> n, pipe |-> pipe, holds |-> holds]

\* popen makes a pipe and keeps one end of it.  What the command prints is read,
\* and counted by left.
Popen(p, n) ==
    LET k == calls + 1 IN
    /\ Calling(p, "reading")
    /\ FreeFds(p) >= 2
    /\ open' = [open EXCEPT ![p] = @ + 1]
    /\ left' = [left EXCEPT ![p] = n]
    /\ child' = [child EXCEPT ![k] = Running(p, 0, k, leaked[p])]
    /\ UNCHANGED <<leaked, comalloc, comlen, reply, got>>

\* The command that system_command waits for has not ended.
Awaiting(p) == pc[p] = "reading" /\ child[call[p]].state = "run"

\* return NULL: there is no descriptor, or no process.
PopenFail(p) ==
    /\ Calling(p, "idle")
    /\ UNCHANGED <<open, leaked, left, comalloc, comlen, reply, got, child>>

\* Mutant of Grown: the test leaves out what is stored already.
Grown_Fresh(alloc, len, chread) == IF chread >= alloc THEN 2 * alloc ELSE alloc

\* The size of comout when chread more bytes are to be stored.
Grown(alloc, len, chread) == IF len + chread >= alloc THEN 2 * alloc ELSE alloc

\* fread waits for a full buffer, and returns less only when the command has ended.
Fread(p) ==
    LET chread == Min2(BufSize, left[p]) IN
    /\ pc[p] = "reading"
    /\ left[p] > 0
    /\ Awaiting(p) => left[p] >= BufSize
    /\ comalloc' = [comalloc EXCEPT ![p] = Grown(@, comlen[p], chread)]
    /\ comlen' = [comlen EXCEPT ![p] = @ + chread]
    /\ left' = [left EXCEPT ![p] = @ - chread]
    /\ UNCHANGED <<pc, calls, call, open, leaked, reply, got, child>>

\* Mutant of Copied: one byte too few.
Copied_Short(cells, n, k) == [i \in 1 .. ReplyMax |-> IF i < n THEN k ELSE cells[i]]

\* memcpy of n bytes, without a terminator.
Copied(cells, n, k) == [i \in 1 .. ReplyMax |-> IF i <= n THEN k ELSE cells[i]]

\* fread returns 0: memcpy, free, and pclose, which waits for the command, too.
\* What does not fit reply may do no harm.
FreadEnd(p) ==
    /\ pc[p] = "reading"
    /\ left[p] = 0
    /\ ~Awaiting(p)
    /\ reply' = [reply EXCEPT ![p] = Copied(@, comlen[p], call[p])]
    /\ got' = [got EXCEPT ![p] = [len |-> comlen[p], call |-> call[p],
                                  longest |-> Max2(@.longest, comlen[p])]]
    /\ open' = [open EXCEPT ![p] = @ - 1]
    /\ comalloc' = [comalloc EXCEPT ![p] = InitAlloc]
    /\ comlen' = [comlen EXCEPT ![p] = 0]
    /\ Returning(p)
    /\ UNCHANGED <<calls, leaked, left, child>>

-----------------------------------------------------------------------------
(* system_command_root.                                                    *)

\* Mutant of Inherited: the child keeps the read end of its own pipe.
Inherited_Own(p, k) == leaked[p] \cup {k}

\* Pipes whose read end the child of call k has: close(fd[0]) closes its own.
Inherited(p, k) == leaked[p]

\* pipe and fork.  The process keeps both ends.
RootFork(p, n) ==
    LET k == calls + 1 IN
    /\ Calling(p, "idle")
    /\ FreeFds(p) >= 2
    /\ leaked' = [leaked EXCEPT ![p] = @ \cup {k}]
    /\ child' = [child EXCEPT ![k] = Running(p, n, k, Inherited(p, k))]
    /\ UNCHANGED <<open, left, comalloc, comlen, reply, got>>

\* pipe has failed, which is not tested: fd is indeterminate.  No descriptor has
\* its value, and what the child prints goes nowhere, or fd has an earlier pipe
\* in it, which the child then writes to.
RootForkNoPipe(p, n) ==
    LET k == calls + 1 IN
    /\ Calling(p, "idle")
    /\ FreeFds(p) < 2
    /\ \/ child' = [child EXCEPT ![k] = Running(p, 0, k, leaked[p])]
       \/ \E j \in leaked[p] :
            child' = [child EXCEPT ![k] = Running(p, n, j, leaked[p] \ {j})]
    /\ UNCHANGED <<open, leaked, left, comalloc, comlen, reply, got>>

\* "FORK failed": the pipe stays open, too.
RootForkFail(p) ==
    /\ Calling(p, "idle")
    /\ FreeFds(p) >= 2
    /\ leaked' = [leaked EXCEPT ![p] = @ \cup {calls + 1}]
    /\ UNCHANGED <<open, left, comalloc, comlen, reply, got, child>>

\* Somebody who is alive has the read end of the pipe of call k.
ReadEndOpen(k) ==
    \/ \E p \in Procs : k \in leaked[p]
    \/ \E j \in CallIds : child[j].state = "run" /\ k \in child[j].holds

ChildEnds(k, how) ==
    /\ child' = [child EXCEPT ![k].state = how]
    /\ UNCHANGED <<pc, calls, call, open, leaked, left, comalloc, comlen, reply, got>>

\* Nothing blocks the child of call k: its pipe takes all that it prints besides
\* what is in it.
Fits(k) ==
    LET before == {j \in CallIds : child[j].state = "done" /\ child[j].pipe = child[k].pipe}
    IN  child[k].toWrite + MapThenSumSet(LAMBDA j : child[j].toWrite, before) <= PipeMax

\* What fits is written whether or not anyone reads, and the command may end.
ChildDone(k) ==
    /\ child[k].state = "run"
    /\ Fits(k)
    /\ ChildEnds(k, "done")

\* More than that blocks, until SIGPIPE when the last read end is closed.
ChildKilled(k) ==
    /\ child[k].state = "run"
    /\ ~Fits(k)
    /\ ~ReadEndOpen(child[k].pipe)
    /\ ChildEnds(k, "killed")

-----------------------------------------------------------------------------
(* Functions that open one descriptor and close it before they return.     *)

\* What such a process is in the middle of.
Scoped == {"socket", "contents"}

\* socket in send_socket, as open in read_file_to_buffer; fopen in fget_contents.
OpenFor(p, what) ==
    /\ Calling(p, what)
    /\ FreeFds(p) >= 1
    /\ open' = [open EXCEPT ![p] = @ + 1]
    /\ UNCHANGED <<leaked, left, comalloc, comlen, reply, got, child>>

\* They return an error; fget_contents does not test and passes NULL to fseek.
OpenFails(p, what) ==
    /\ Calling(p, IF what = "contents" THEN "ended" ELSE "idle")
    /\ leaked' = IF what = "contents" THEN [leaked EXCEPT ![p] = {}] ELSE leaked
    /\ UNCHANGED <<open, left, comalloc, comlen, reply, got, child>>

\* Mutant of CloseAfter: send_socket returns without close if connect fails.
CloseAfter_Leaks(p) ==
    /\ pc[p] \in Scoped
    /\ open' \in {open, [open EXCEPT ![p] = @ - 1]}
    /\ Returning(p)
    /\ UNCHANGED <<calls, leaked, left, comalloc, comlen, reply, got, child>>

\* connect and write, or read; close, whether they succeeded or not.
CloseAfter(p) ==
    /\ pc[p] \in Scoped
    /\ open' = [open EXCEPT ![p] = @ - 1]
    /\ Returning(p)
    /\ UNCHANGED <<calls, leaked, left, comalloc, comlen, reply, got, child>>

-----------------------------------------------------------------------------
\* The process ends: cgiMain returns, or a signal.
Gone(p) ==
    /\ pc[p] # "ended"
    /\ pc' = [pc EXCEPT ![p] = "ended"]
    /\ call' = [call EXCEPT ![p] = 0]
    /\ open' = [open EXCEPT ![p] = 0]
    /\ leaked' = [leaked EXCEPT ![p] = {}]
    /\ UNCHANGED <<calls, left, comalloc, comlen, reply, got, child>>

\* The steps of a call in progress.
SysStep(p) == Fread(p) \/ FreadEnd(p) \/ CloseAfter(p)

SysCall(p) ==
    /\ p \in Commanders
    /\ \/ \E n \in Outputs : Popen(p, n) \/ RootFork(p, n) \/ RootForkNoPipe(p, n)
       \/ PopenFail(p) \/ RootForkFail(p)
       \/ \E what \in Scoped : OpenFor(p, what) \/ OpenFails(p, what)

ChildStep(k) == ChildDone(k) \/ ChildKilled(k)

-----------------------------------------------------------------------------
(* Properties.                                                             *)

\* system_command never stores past comout, though it doubles it at most once
\* for each read, and never keeps more than twice what it has stored.
BufferSuffices ==
    \A p \in Procs :
        /\ comlen[p] <= comalloc[p]
        /\ comalloc[p] <= Max2(InitAlloc, 2 * comlen[p])

\* Between calls a process has no descriptors open but the pipes of
\* system_command_root, whatever failed before: no more than two for each such
\* call and none for any other.
OnlyRootLeaks ==
    \A p \in Procs :
        /\ pc[p] \in {"idle", "ended"} => open[p] = 0
        /\ open[p] <= 1
        /\ FreeFds(p) >= 0

\* After system_command, reply starts with exactly the output of that command;
\* what follows it is a part of an older and longer one, since reply is not
\* terminated.
ReplyThenLeftovers ==
    \A p \in Procs : \A i \in 1 .. ReplyMax :
        /\ i <= got[p].len => reply[p][i] = got[p].call
        /\ got[p].len < i /\ i <= got[p].longest => reply[p][i] \in 1 .. got[p].call - 1
        /\ got[p].longest < i => reply[p][i] = 0

\* Once a process has ended, no command it started with system_command_root stays
\* blocked on a full pipe, though later children have inherited its read end;
\* unless a command that nothing blocks goes on running, or one was started when
\* no pipe could be made and writes to an earlier one.
OrphansEnd ==
    \A p \in Procs :
        pc[p] = "ended"
            ~> LET mine == {k \in CallIds : child[k].by = p}
               IN  \/ \A k \in mine : child[k].state \in {"done", "killed"}
                   \/ \E k \in mine : child[k].state = "run" /\ Fits(k)
                   \/ \E k \in mine : child[k].pipe # k
=============================================================================
