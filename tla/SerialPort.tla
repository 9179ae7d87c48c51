----------------------------- MODULE SerialPort -----------------------------
(***************************************************************************)
(* open_port, read_rs232 and read_rs232e of server/cgi-bin/general.h, for  *)
(* a console behind a serial port that several CGI processes may use, each *)
(* of which also makes the calls of SystemCommand.                         *)
(*                                                                         *)
(* A call writes the command and "\r", sleeps, reads what has come and     *)
(* closes the port.  Nothing locks the port, nothing tells whose answer is *)
(* read, and the sleep may be too short or the console silent.  Opening    *)
(* the port and writing the command are one step: between the two nothing  *)
(* comes to a call that finds the port unused and the console idle, unless *)
(* another call opens the port, and then both are disturbed.               *)
(*                                                                         *)
(* A cell of a text is a character with the number of the call it belongs  *)
(* to, 0 for an answer to anything but the command of one call.  "@"       *)
(* stands for the prompt "root@".  The caller's array is zero behind the   *)
(* command.                                                                *)
(*                                                                         *)
(* External: the console, which answers in order, and the kernel's queue,  *)
(* which is dropped when the last descriptor of the port is closed.        *)
(***************************************************************************)
EXTENDS SystemCommand, TextHelpers

CONSTANTS
    CommandLens,    \* lengths of commands
    AnswerLens,     \* lengths of answers, prompt included
    ReadMax,        \* what one read takes (1000)
    MaxSerial       \* bound: only the first calls may be to a serial port

ASSUME SerialAssumption ==
    /\ CommandLens \subseteq Nat \ {0}
    /\ AnswerLens \subseteq Nat
    /\ ReadMax \in Nat \ {0}
    /\ MaxSerial \in Nat

VARIABLES
    cmdLen,     \* length of the command of the call in progress
    typed,      \* calls whose command has reached the console without "\r" yet
    work,       \* answers the console has still to give
    rxq,        \* what the kernel holds for the next read
    result,     \* what the last call of each process returned in data
    disturbed   \* history: calls that did not have the port for themselves

serialVars == <<cmdLen, typed, work, rxq, result, disturbed>>
vars == <<sysVars, serialVars>>

Cell(k, ch) == [call |-> k, ch |-> ch]
Command(k, n) == [i \in 1 .. n |-> Cell(k, "c")]

NoResult == [call |-> 0, text |-> <<>>, e |-> FALSE]

InSerial == {"typed", "sleep"}

\* Processes that are in a call, and those that have the port open.
Users == {p \in Procs : pc[p] \in InSerial}
PortUsers == {p \in Users : open[p] = 1}

Init ==
    /\ SysInit
    /\ cmdLen = [p \in Procs |-> 0]
    /\ typed = <<>>
    /\ work = <<>>
    /\ rxq = <<>>
    /\ result = [p \in Procs |-> NoResult]
    /\ disturbed = {}

-----------------------------------------------------------------------------
\* If others use the port, or the console is still busy with an older call, the
\* call and those of the others are disturbed.
Disturbs(k) ==
    IF PortUsers # {} \/ work # <<>> \/ typed # <<>>
    THEN {k} \cup {call[p] : p \in PortUsers}
    ELSE {}

\* open_port, the settings, and write(fd, data, strlen(data)).
SerialWrite(p, n) ==
    /\ calls < MaxSerial
    /\ Calling(p, "typed")
    /\ FreeFds(p) >= 1
    /\ open' = [open EXCEPT ![p] = @ + 1]
    /\ cmdLen' = [cmdLen EXCEPT ![p] = n]
    /\ typed' = Append(typed, calls + 1)
    /\ disturbed' = disturbed \cup Disturbs(calls + 1)
    /\ UNCHANGED <<leaked, left, comalloc, comlen, reply, got, child, work, rxq, result>>

\* open fails; the call goes on with fd = -1, on which nothing has an effect.
SerialNoPort(p, n) ==
    /\ calls < MaxSerial
    /\ Calling(p, "typed")
    /\ cmdLen' = [cmdLen EXCEPT ![p] = n]
    /\ UNCHANGED <<open, leaked, left, comalloc, comlen, reply, got, child, typed, work,
                   rxq, result, disturbed>>

\* What the console takes the line for: the command of one call, or something
\* it does not know, or nothing.
Meant == IF Len(typed) = 1 THEN Head(typed) ELSE 0

\* write(fd, "\r", 1): the console starts on what has been typed.
SerialEnter(p) ==
    /\ pc[p] = "typed"
    /\ pc' = [pc EXCEPT ![p] = "sleep"]
    /\ IF open[p] = 1
       THEN /\ \E n \in AnswerLens : work' = Append(work, [call |-> Meant, left |-> n])
            /\ typed' = <<>>
       ELSE UNCHANGED <<work, typed>>
    /\ UNCHANGED <<calls, call, open, leaked, left, comalloc, comlen, reply, got, child,
                   cmdLen, rxq, result, disturbed>>

\* The console sends the next character of its oldest answer, the prompt last;
\* nobody gets it if nobody has the port open.
ConsoleSends ==
    LET job == Head(work) IN
    /\ work # <<>>
    /\ job.left > 0
    /\ work' = [work EXCEPT ![1].left = @ - 1]
    /\ rxq' = IF PortUsers = {} THEN rxq
              ELSE Append(rxq, Cell(job.call, IF job.left = 1 THEN "@" ELSE "a"))
    /\ UNCHANGED <<sysVars, cmdLen, typed, result, disturbed>>

ConsoleNext ==
    /\ work # <<>>
    /\ Head(work).left = 0
    /\ work' = Tail(work)
    /\ UNCHANGED <<sysVars, cmdLen, typed, rxq, result, disturbed>>

Chars(text) == [i \in DOMAIN text |-> text[i].ch]

\* trim_sring_at_str2(data, "root@") in read_rs232e.
Trimmed(text, e) ==
    IF e THEN SubSeq(text, 1, Len(trim_sring_at_str2(Chars(text), <<"@">>))) ELSE text

\* Mutant of Data: data[0] = '\0' is missing.
Data_Kept(k, n, bytes) == bytes \o SubSeq(Command(k, n), Len(bytes) + 1, n)

\* The string in data: bytes were read over the start of the command, whose
\* first character is '\0' by then, and no terminator follows them.
Data(k, n, bytes) ==
    IF bytes = <<>> THEN <<>> ELSE bytes \o SubSeq(Command(k, n), Len(bytes) + 1, n)

\* Mutant of SerialRead: without O_NDELAY and FNDELAY, read waits for an answer.
SerialRead_Blocks(p) ==
    LET bytes == SubSeq(rxq, 1, Min2(Len(rxq), ReadMax)) IN
    /\ pc[p] = "sleep"
    /\ open[p] = 1 /\ rxq # <<>>
    /\ \E e \in BOOLEAN :
        result' = [result EXCEPT ![p] =
            [call |-> call[p], e |-> e,
             text |-> Trimmed(Data(call[p], cmdLen[p], bytes), e)]]
    /\ rxq' = IF PortUsers = {p} THEN <<>> ELSE SubSeq(rxq, Len(bytes) + 1, Len(rxq))
    /\ open' = [open EXCEPT ![p] = 0]
    /\ cmdLen' = [cmdLen EXCEPT ![p] = 0]
    /\ Returning(p)
    /\ UNCHANGED <<calls, leaked, left, comalloc, comlen, reply, got, child, typed, work,
                   disturbed>>

\* After the sleep: read, close, and in read_rs232e (e) the trimming.
SerialRead(p) ==
    LET bytes == IF open[p] = 1 THEN SubSeq(rxq, 1, Min2(Len(rxq), ReadMax)) ELSE <<>> IN
    /\ pc[p] = "sleep"
    /\ \E e \in BOOLEAN :
        result' = [result EXCEPT ![p] =
            [call |-> call[p], e |-> e,
             text |-> Trimmed(Data(call[p], cmdLen[p], bytes), e)]]
    /\ rxq' = IF PortUsers \subseteq {p} THEN <<>> ELSE SubSeq(rxq, Len(bytes) + 1, Len(rxq))
    /\ open' = [open EXCEPT ![p] = 0]
    /\ cmdLen' = [cmdLen EXCEPT ![p] = 0]
    /\ Returning(p)
    /\ UNCHANGED <<calls, leaked, left, comalloc, comlen, reply, got, child, typed, work,
                   disturbed>>

\* The kernel closes the port of a process that ends.
End(p) ==
    /\ Gone(p)
    /\ rxq' = IF PortUsers \subseteq {p} THEN <<>> ELSE rxq
    /\ UNCHANGED <<cmdLen, typed, work, result, disturbed>>

-----------------------------------------------------------------------------
\* A process goes on with the call it is in.
Step(p) ==
    \/ SysStep(p) /\ UNCHANGED serialVars
    \/ SerialEnter(p) \/ SerialRead(p)

Next ==
    \/ \E p \in Procs :
        \/ Step(p)
        \/ SysCall(p) /\ UNCHANGED serialVars
        \/ \E n \in CommandLens : SerialWrite(p, n) \/ SerialNoPort(p, n)
        \/ End(p)
    \/ \E k \in CallIds : ChildStep(k) /\ UNCHANGED serialVars
    \/ ConsoleSends \/ ConsoleNext

Spec == Init /\ [][Next]_vars

\* The kernel runs every process that does not wait for a command, and ends one
\* that writes to a pipe without a reader.  Nothing makes a command end by itself.
FairSpec ==
    /\ Spec
    /\ \A p \in Procs : WF_vars(~Awaiting(p) /\ Step(p))
    /\ \A k \in CallIds : WF_vars(ChildKilled(k) /\ UNCHANGED serialVars)

-----------------------------------------------------------------------------
(* Properties.                                                             *)

\* A call that had the port for itself from open to close, with the console done
\* with everything before, returns nothing that belongs to another call, however
\* short the sleep was and whichever processes ended in the middle of theirs: a
\* part of its answer, and the end of its own command behind it.  No call, not
\* even a disturbed one, gives its own command for an answer, and read_rs232e
\* leaves no prompt in it, except one within the first two characters, which
\* trim_sring_at_str2 takes for none.
AnswerIsOwn ==
    \A p \in Procs :
        LET text == result[p].text
            prompts == Occurrences(Chars(text), <<"@">>)
        IN  /\ result[p].call \notin disturbed =>
                    \A i \in DOMAIN text : text[i].call = result[p].call
            /\ text # <<>> => text[1].ch # "c"
            /\ result[p].e => prompts = {} \/ Min(prompts) <= 1

\* Every call returns or the process ends, but for a system_command whose command
\* does not end: a call to the serial port waits neither for a console that is
\* silent nor for another user of the port, and no call for a command that
\* system_command_root has started or that has ended.
CallsReturn ==
    \A p \in Procs :
        pc[p] \notin {"idle", "ended"} ~> pc[p] \in {"idle", "ended"} \/ Awaiting(p)
=============================================================================
