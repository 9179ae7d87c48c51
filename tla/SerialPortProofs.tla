-------------------------- MODULE SerialPortProofs --------------------------
(***************************************************************************)
(* Proofs about the CGI helpers, for any numbers of processes and calls    *)
(* and any sizes of outputs, arrays and pipes: the buffer of               *)
(* system_command, the descriptors, what reply holds, and whose answer a   *)
(* call to a serial port returns.                                          *)
(***************************************************************************)
EXTENDS SerialPort, FiniteSetTheorems, SequenceTheorems, TLAPS

-----------------------------------------------------------------------------
(* The inductive invariant of the helpers.                                 *)

\* The buffer of system_command.  That it never shrinks below its first size is
\* why one doubling makes room for a whole array buffer.
BufInv ==
    /\ left \in [Procs -> Nat]
    /\ comlen \in [Procs -> Nat]
    /\ comalloc \in [Procs -> Nat]
    /\ \A p \in Procs :
        /\ comlen[p] <= comalloc[p]
        /\ InitAlloc <= comalloc[p]
        /\ comalloc[p] <= InitAlloc \/ comalloc[p] <= 2 * comlen[p]

\* Calls are numbered, and what a process is in has a number.
CallInv ==
    /\ pc \in [Procs -> {"idle", "reading", "ended"} \cup Scoped \cup InSerial]
    /\ calls \in 0 .. MaxCalls
    /\ call \in [Procs -> 0 .. MaxCalls]
    /\ \A p \in Procs : call[p] <= calls

\* What is open, by what the process is doing.
FdInv ==
    /\ open \in [Procs -> {0, 1}]
    /\ leaked \in [Procs -> SUBSET CallIds]
    /\ \A p \in Procs :
        /\ pc[p] \in {"idle", "ended"} => open[p] = 0
        /\ pc[p] \in {"reading"} \cup Scoped => open[p] = 1
        /\ FreeFds(p) >= 0

\* What reply holds, and that the call in progress is later than what it holds.
ReplyInv ==
    /\ reply \in [Procs -> [1 .. ReplyMax -> Nat]]
    /\ got \in [Procs -> [len : Nat, call : Nat, longest : Nat]]
    /\ \A p \in Procs :
        /\ got[p].call <= calls
        /\ got[p].len <= got[p].longest
        /\ got[p].len > 0 => got[p].call > 0
        /\ pc[p] = "reading" => got[p].call < call[p]
    /\ ReplyThenLeftovers

Inv == BufInv /\ CallInv /\ FdInv /\ ReplyInv

-----------------------------------------------------------------------------
(* Initially.                                                              *)

\* The invariant holds before the first call.
LEMMA InitInv == Init => Inv
<1> SUFFICES ASSUME Init PROVE Inv
    OBVIOUS
<1>1. BufInv
    BY SystemAssumption DEF Init, SysInit, BufInv
<1>2. CallInv
    BY SystemAssumption DEF Init, SysInit, CallInv
<1>3. FdInv
    BY FS_EmptySet, SystemAssumption DEF Init, SysInit, FdInv, FreeFds, Scoped
<1>4. ReplyInv
    BY SystemAssumption DEF Init, SysInit, ReplyInv, ReplyThenLeftovers
<1>5. QED
    BY <1>1, <1>2, <1>3, <1>4 DEF Inv

-----------------------------------------------------------------------------
(* Steps.                                                                  *)

\* The steps that leave the buffer and reply alone.
Quiet ==
    \/ \E p \in Procs :
        \/ CloseAfter(p) \/ SerialEnter(p) \/ SerialRead(p)
        \/ PopenFail(p) \/ RootForkFail(p) \/ End(p)
        \/ \E n \in Outputs : RootFork(p, n) \/ RootForkNoPipe(p, n)
        \/ \E what \in Scoped : OpenFor(p, what) \/ OpenFails(p, what)
        \/ \E n \in CommandLens : SerialWrite(p, n) \/ SerialNoPort(p, n)
    \/ \E k \in CallIds : ChildStep(k)
    \/ ConsoleSends \/ ConsoleNext

\* Every step is a quiet one or one of system_command's.
LEMMA StepForms ==
    ASSUME Next
    PROVE  \/ Quiet
           \/ \E p \in Procs : Fread(p) \/ FreadEnd(p) \/ \E n \in Outputs : Popen(p, n)
BY DEF Next, Step, SysStep, SysCall, Quiet

\* Quiet steps leave comout and reply alone.
LEMMA QuietKeeps ==
    ASSUME Quiet
    PROVE  UNCHANGED <<left, comalloc, comlen, reply, got>>
BY DEF Quiet, CloseAfter, SerialEnter, SerialRead, PopenFail, RootForkFail, End, Gone,
       RootFork, RootForkNoPipe, OpenFor, OpenFails, SerialWrite, SerialNoPort,
       ChildStep, ChildDone, ChildKilled, ChildEnds, ConsoleSends, ConsoleNext, sysVars

\* One doubling is enough.
LEMMA BufStep ==
    ASSUME BufInv, [Next]_vars
    PROVE  BufInv'
<1>1. CASE UNCHANGED vars
    BY <1>1 DEF BufInv, vars, sysVars
<1>2. CASE Quiet
    BY <1>2, QuietKeeps DEF BufInv
<1>3. ASSUME NEW p \in Procs, NEW n \in Outputs, Popen(p, n)
      PROVE  BufInv'
    BY <1>3, SystemAssumption DEF BufInv, Popen
<1>4. ASSUME NEW p \in Procs, Fread(p)
      PROVE  BufInv'
    <2> DEFINE chread == Min2(BufSize, left[p])
    <2>1. /\ chread \in Nat
          /\ chread <= BufSize
          /\ chread <= left[p]
          /\ left[p] \in Nat /\ comlen[p] \in Nat /\ comalloc[p] \in Nat
        BY SystemAssumption DEF BufInv, Min2
    <2> HIDE DEF chread
    <2>2. /\ left' = [left EXCEPT ![p] = left[p] - chread]
          /\ comlen' = [comlen EXCEPT ![p] = comlen[p] + chread]
          /\ comalloc' = [comalloc EXCEPT ![p] = Grown(comalloc[p], comlen[p], chread)]
        BY <1>4 DEF Fread, chread
    <2>3. /\ Grown(comalloc[p], comlen[p], chread) \in Nat
          /\ comlen[p] + chread <= Grown(comalloc[p], comlen[p], chread)
          /\ InitAlloc <= Grown(comalloc[p], comlen[p], chread)
          /\ \/ Grown(comalloc[p], comlen[p], chread) <= InitAlloc
             \/ Grown(comalloc[p], comlen[p], chread) <= 2 * (comlen[p] + chread)
        BY <2>1, SystemAssumption DEF BufInv, Grown
    <2>4. QED
        BY <2>1, <2>2, <2>3 DEF BufInv
<1>5. ASSUME NEW p \in Procs, FreadEnd(p)
      PROVE  BufInv'
    BY <1>5, SystemAssumption DEF BufInv, FreadEnd
<1>6. QED
    BY <1>1, <1>2, <1>3, <1>4, <1>5, StepForms

-----------------------------------------------------------------------------
\* A process starts a call.
LEMMA CallingStep ==
    ASSUME CallInv, NEW p \in Procs,
           NEW next \in {"idle", "reading", "ended"} \cup Scoped \cup InSerial,
           Calling(p, next)
    PROVE  CallInv'
BY SystemAssumption DEF CallInv, Calling

\* A process returns from a call.
LEMMA ReturningStep ==
    ASSUME CallInv, NEW p \in Procs, Returning(p), UNCHANGED calls
    PROVE  CallInv'
BY SystemAssumption DEF CallInv, Returning

\* Every step keeps the numbers of calls.
LEMMA CallStep ==
    ASSUME CallInv, [Next]_vars
    PROVE  CallInv'
<1>1. CASE UNCHANGED vars
    BY <1>1 DEF CallInv, vars, sysVars
<1>2. ASSUME NEW p \in Procs, NEW n, Popen(p, n) \/ RootFork(p, n) \/ RootForkNoPipe(p, n)
      PROVE  CallInv'
    BY <1>2, CallingStep DEF Popen, RootFork, RootForkNoPipe
<1>3. ASSUME NEW p \in Procs, PopenFail(p) \/ RootForkFail(p)
      PROVE  CallInv'
    BY <1>3, CallingStep DEF PopenFail, RootForkFail
<1>4. ASSUME NEW p \in Procs, NEW what \in Scoped, OpenFor(p, what) \/ OpenFails(p, what)
      PROVE  CallInv'
    BY <1>4, CallingStep DEF OpenFor, OpenFails
<1>5. ASSUME NEW p \in Procs, NEW n, SerialWrite(p, n) \/ SerialNoPort(p, n)
      PROVE  CallInv'
    BY <1>5, CallingStep DEF SerialWrite, SerialNoPort, InSerial
<1>6. ASSUME NEW p \in Procs, FreadEnd(p) \/ CloseAfter(p) \/ SerialRead(p)
      PROVE  CallInv'
    BY <1>6, ReturningStep DEF FreadEnd, CloseAfter, SerialRead
<1>7. ASSUME NEW p \in Procs, Fread(p)
      PROVE  CallInv'
    BY <1>7 DEF CallInv, Fread
<1>8. ASSUME NEW p \in Procs, SerialEnter(p)
      PROVE  CallInv'
    BY <1>8 DEF CallInv, SerialEnter, InSerial
<1>9. ASSUME NEW p \in Procs, End(p)
      PROVE  CallInv'
    BY <1>9, SystemAssumption DEF CallInv, End, Gone
<1>10. CASE \E k \in CallIds : ChildStep(k)
    BY <1>10, Zenon DEF CallInv, ChildStep, ChildDone, ChildKilled, ChildEnds
<1>11. CASE ConsoleSends \/ ConsoleNext
    BY <1>11 DEF CallInv, ConsoleSends, ConsoleNext, sysVars
<1>12. QED
    BY <1>1, <1>2, <1>3, <1>4, <1>5, <1>6, <1>7, <1>8, <1>9, <1>10, <1>11, StepForms
    DEF Quiet

-----------------------------------------------------------------------------
(* Descriptors.                                                            *)

\* Pipes that are leaked are finitely many, and one more counts for one more.
LEMMA LeakedCount ==
    ASSUME FdInv, NEW p \in Procs
    PROVE  /\ IsFiniteSet(leaked[p])
           /\ Cardinality(leaked[p]) \in Nat
           /\ \A k : Cardinality(leaked[p] \cup {k}) \in Nat
           /\ \A k : Cardinality(leaked[p] \cup {k}) <= Cardinality(leaked[p]) + 1
<1>1. IsFiniteSet(CallIds) /\ leaked[p] \subseteq CallIds
    BY FS_Interval, SystemAssumption DEF CallIds, FdInv
<1>2. IsFiniteSet(leaked[p])
    BY <1>1, FS_Subset
<1>3. Cardinality(leaked[p]) \in Nat
    BY <1>2, FS_CardinalityType
<1>4. ASSUME NEW k
      PROVE  /\ Cardinality(leaked[p] \cup {k}) \in Nat
             /\ Cardinality(leaked[p] \cup {k}) <= Cardinality(leaked[p]) + 1
    BY <1>2, <1>3, FS_AddElement
<1>5. QED
    BY <1>2, <1>3, <1>4

\* Nothing that the descriptors depend on changes, but the child of a call.
LEMMA FdSame ==
    ASSUME FdInv, UNCHANGED <<pc, open, leaked>>
    PROVE  FdInv'
BY DEF FdInv, FreeFds

\* A process that had nothing open but leaked pipes opens n more for a while.
LEMMA FdOpen ==
    ASSUME CallInv, FdInv, NEW p \in Procs, pc[p] = "idle", NEW next, NEW n \in {0, 1},
           pc' = [pc EXCEPT ![p] = next],
           open' = [open EXCEPT ![p] = @ + n],
           FreeFds(p) >= n,
           next \in {"idle", "ended"} => n = 0,
           next \in {"reading"} \cup Scoped => n = 1,
           UNCHANGED leaked
    PROVE  FdInv'
<1>1. /\ open[p] = 0 /\ open' \in [Procs -> {0, 1}]
      /\ open'[p] = n
      /\ \A q \in Procs : q # p => open'[q] = open[q] /\ pc'[q] = pc[q]
      /\ pc'[p] = next
    BY DEF FdInv, CallInv
<1>2. \A q \in Procs : Cardinality(leaked[q]) \in Nat
    BY LeakedCount
<1>3. \A q \in Procs : FreeFds(q)' >= 0
    BY <1>1, <1>2, SystemAssumption DEF FdInv, FreeFds
<1>4. QED
    BY <1>1, <1>3 DEF FdInv

\* It leaks one more pipe.
LEMMA FdLeak ==
    ASSUME CallInv, FdInv, NEW p \in Procs, pc' = [pc EXCEPT ![p] = pc[p]],
           calls < MaxCalls, FreeFds(p) >= 2,
           leaked' = [leaked EXCEPT ![p] = @ \cup {calls + 1}],
           UNCHANGED open
    PROVE  FdInv'
<1>1. /\ calls + 1 \in CallIds
      /\ leaked' \in [Procs -> SUBSET CallIds]
      /\ pc' = pc
    BY SystemAssumption DEF CallInv, CallIds, FdInv
<1>2. /\ \A q \in Procs : Cardinality(leaked[q]) \in Nat
      /\ Cardinality(leaked[p] \cup {calls + 1}) \in Nat
      /\ Cardinality(leaked[p] \cup {calls + 1}) <= Cardinality(leaked[p]) + 1
    BY LeakedCount
<1>3. /\ leaked'[p] = leaked[p] \cup {calls + 1}
      /\ \A q \in Procs : q # p => leaked'[q] = leaked[q]
    BY DEF FdInv
<1>4. ASSUME NEW q \in Procs
      PROVE  FreeFds(q)' >= 0
    <2>1. CASE q = p
        BY <1>2, <1>3, <2>1, SystemAssumption DEF FdInv, FreeFds
    <2>2. CASE q # p
        BY <1>2, <1>3, <2>2, SystemAssumption DEF FdInv, FreeFds
    <2>3. QED
        BY <2>1, <2>2
<1>5. QED
    BY <1>1, <1>4 DEF FdInv

\* It closes what it had open for a call, and perhaps all leaked pipes with it.
LEMMA FdClose ==
    ASSUME CallInv, FdInv, NEW p \in Procs, NEW next \in {"idle", "ended"},
           pc' = [pc EXCEPT ![p] = next],
           open' = [open EXCEPT ![p] = 0],
           leaked' \in {leaked, [leaked EXCEPT ![p] = {}]}
    PROVE  FdInv'
<1>1. /\ open' \in [Procs -> {0, 1}]
      /\ open'[p] = 0 /\ open[p] \in {0, 1}
      /\ \A q \in Procs : q # p => open'[q] = open[q] /\ pc'[q] = pc[q]
      /\ pc'[p] = next
    BY DEF FdInv, CallInv
<1>2. /\ leaked' \in [Procs -> SUBSET CallIds]
      /\ leaked'[p] = leaked[p] \/ leaked'[p] = {}
      /\ \A q \in Procs : q # p => leaked'[q] = leaked[q]
    BY DEF FdInv
<1>3. \A q \in Procs : Cardinality(leaked[q]) \in Nat
    BY LeakedCount
<1>4. ASSUME NEW q \in Procs
      PROVE  FreeFds(q)' >= 0
    <2>1. CASE leaked'[q] = leaked[q]
        <3>1. open'[q] <= open[q] /\ open[q] \in Int /\ open'[q] \in Int
            BY <1>1 DEF FdInv
        <3>2. QED
            BY <2>1, <3>1, <1>3, SystemAssumption DEF FdInv, FreeFds
    <2>2. CASE q = p /\ leaked'[p] = {}
        BY <1>1, <2>2, FS_EmptySet, SystemAssumption DEF FreeFds
    <2>3. QED
        BY <1>2, <2>1, <2>2
<1>5. QED
    BY <1>1, <1>2, <1>4 DEF FdInv, Scoped

\* Every step keeps the account of descriptors.
LEMMA FdStep ==
    ASSUME CallInv, FdInv, [Next]_vars
    PROVE  FdInv'
<1>1. CASE UNCHANGED vars
    BY <1>1, FdSame DEF vars, sysVars
<1>2. ASSUME NEW p \in Procs, NEW n, Popen(p, n)
      PROVE  FdInv'
    <2>1. /\ pc[p] = "idle" /\ pc' = [pc EXCEPT ![p] = "reading"]
          /\ open' = [open EXCEPT ![p] = @ + 1] /\ UNCHANGED leaked
          /\ FreeFds(p) >= 2
        BY <1>2 DEF Popen, Calling
    <2>2. FreeFds(p) >= 1
        BY <2>1, LeakedCount, SystemAssumption DEF FreeFds, FdInv
    <2>3. QED
        BY <2>1, <2>2, FdOpen
<1>3. ASSUME NEW p \in Procs, NEW n, RootFork(p, n)
      PROVE  FdInv'
    <2>1. pc' = [pc EXCEPT ![p] = pc[p]] /\ calls < MaxCalls
        BY <1>3 DEF RootFork, Calling
    <2>2. QED
        BY <1>3, <2>1, FdLeak DEF RootFork
<1>4. ASSUME NEW p \in Procs, RootForkFail(p)
      PROVE  FdInv'
    <2>1. pc' = [pc EXCEPT ![p] = pc[p]] /\ calls < MaxCalls
        BY <1>4 DEF RootForkFail, Calling
    <2>2. QED
        BY <1>4, <2>1, FdLeak DEF RootForkFail
<1>5. ASSUME NEW p \in Procs, NEW n, RootForkNoPipe(p, n) \/ PopenFail(p)
      PROVE  FdInv'
    <2>1. pc' = pc
        BY <1>5 DEF RootForkNoPipe, PopenFail, Calling, CallInv
    <2>2. QED
        BY <1>5, <2>1, FdSame DEF RootForkNoPipe, PopenFail
<1>6. ASSUME NEW p \in Procs, NEW what \in Scoped, OpenFor(p, what)
      PROVE  FdInv'
    BY <1>6, FdOpen DEF OpenFor, Calling, Scoped
<1>7. ASSUME NEW p \in Procs, NEW what \in Scoped, OpenFails(p, what)
      PROVE  FdInv'
    <2>1. PICK next \in {"idle", "ended"} :
            pc[p] = "idle" /\ pc' = [pc EXCEPT ![p] = next]
        BY <1>7 DEF OpenFails, Calling
    <2>2. open' = [open EXCEPT ![p] = 0]
        BY <1>7, <2>1 DEF OpenFails, FdInv
    <2>3. QED
        BY <1>7, <2>1, <2>2, FdClose DEF OpenFails
<1>8. ASSUME NEW p \in Procs, NEW n, SerialWrite(p, n)
      PROVE  FdInv'
    BY <1>8, FdOpen DEF SerialWrite, Calling, Scoped
<1>9. ASSUME NEW p \in Procs, NEW n, SerialNoPort(p, n)
      PROVE  FdInv'
    <2>1. open' = [open EXCEPT ![p] = @ + 0]
        BY <1>9 DEF SerialNoPort, FdInv
    <2>2. FreeFds(p) >= 0
        BY DEF FdInv
    <2>3. QED
        BY <1>9, <2>1, <2>2, FdOpen DEF SerialNoPort, Calling, Scoped
<1>10. ASSUME NEW p \in Procs, FreadEnd(p) \/ CloseAfter(p)
       PROVE  FdInv'
    <2>1. open[p] = 1
        BY <1>10 DEF FreadEnd, CloseAfter, FdInv
    <2>2. open' = [open EXCEPT ![p] = 0]
        BY <1>10, <2>1 DEF FreadEnd, CloseAfter
    <2>3. QED
        BY <1>10, <2>2, FdClose DEF FreadEnd, CloseAfter, Returning
<1>11. ASSUME NEW p \in Procs, SerialRead(p)
       PROVE  FdInv'
    BY <1>11, FdClose DEF SerialRead, Returning
<1>12. ASSUME NEW p \in Procs, End(p)
       PROVE  FdInv'
    BY <1>12, FdClose DEF End, Gone
<1>13. ASSUME NEW p \in Procs, SerialEnter(p)
       PROVE  FdInv'
    BY <1>13 DEF SerialEnter, FdInv, FreeFds, CallInv, Scoped
<1>14. ASSUME NEW p \in Procs, Fread(p)
       PROVE  FdInv'
    BY <1>14, FdSame DEF Fread
<1>15. CASE \E k \in CallIds : ChildStep(k)
    BY <1>15, FdSame, Zenon DEF ChildStep, ChildDone, ChildKilled, ChildEnds
<1>16. CASE ConsoleSends \/ ConsoleNext
    BY <1>16, FdSame DEF ConsoleSends, ConsoleNext, sysVars
<1>17. QED
    BY <1>1, <1>2, <1>3, <1>4, <1>5, <1>6, <1>7, <1>8, <1>9, <1>10, <1>11, <1>12,
       <1>13, <1>14, <1>15, <1>16, StepForms
    DEF Quiet

-----------------------------------------------------------------------------
(* reply.                                                                  *)

\* What stays if reply does: only the call in progress may change, and calls are
\* never counted back.
LEMMA ReplySame ==
    ASSUME ReplyInv, CallInv, CallInv', UNCHANGED <<reply, got>>, calls <= calls',
           \A p \in Procs : pc'[p] = "reading" =>
                (pc[p] = "reading" /\ call'[p] = call[p]) \/ calls < call'[p]
    PROVE  ReplyInv'
<1>1. /\ calls \in Nat /\ calls' \in Nat
      /\ \A p \in Procs : call[p] \in Nat /\ call'[p] \in Nat /\ got[p].call \in Nat
    BY SystemAssumption DEF CallInv, ReplyInv
<1>2. ASSUME NEW p \in Procs
      PROVE  /\ got'[p].call <= calls'
             /\ got'[p].len <= got'[p].longest
             /\ got'[p].len > 0 => got'[p].call > 0
             /\ pc'[p] = "reading" => got'[p].call < call'[p]
    <2>1. /\ got'[p] = got[p] /\ got[p].call <= calls
          /\ got[p].len <= got[p].longest
          /\ got[p].len > 0 => got[p].call > 0
          /\ pc[p] = "reading" => got[p].call < call[p]
        BY DEF ReplyInv
    <2>2. got'[p].call <= calls'
        BY <1>1, <2>1
    <2>3. pc'[p] = "reading" => got'[p].call < call'[p]
        BY <1>1, <2>1
    <2>4. QED
        BY <2>1, <2>2, <2>3
<1>3. ReplyThenLeftovers'
    BY DEF ReplyInv, ReplyThenLeftovers
<1>4. QED
    BY <1>2, <1>3 DEF ReplyInv

\* Every step keeps what is said of reply.
LEMMA ReplyStep ==
    ASSUME BufInv, CallInv, CallInv', ReplyInv, [Next]_vars
    PROVE  ReplyInv'
<1>1. CASE UNCHANGED vars
    BY <1>1, ReplySame DEF vars, sysVars, CallInv
<1>2. ASSUME NEW p \in Procs, NEW n, Popen(p, n)
      PROVE  ReplyInv'
    BY <1>2, ReplySame, SystemAssumption DEF Popen, Calling, CallInv
<1>3. ASSUME NEW p \in Procs, Fread(p)
      PROVE  ReplyInv'
    BY <1>3, ReplySame DEF Fread, CallInv
<1>4. ASSUME NEW p \in Procs, FreadEnd(p)
      PROVE  ReplyInv'
    <2> DEFINE L == comlen[p]
               k == call[p]
    <2>1. /\ L \in Nat /\ k \in Nat /\ k <= calls /\ got[p].call < k
          /\ got[p].call \in Nat /\ got[p].len \in Nat /\ got[p].longest \in Nat
          /\ calls \in Nat
        BY <1>4, SystemAssumption DEF BufInv, CallInv, ReplyInv, FreadEnd
    <2> HIDE DEF L, k
    <2>2. /\ reply' = [reply EXCEPT ![p] = Copied(reply[p], L, k)]
          /\ got' = [got EXCEPT ![p] = [len |-> L, call |-> k,
                                        longest |-> Max2(got[p].longest, L)]]
          /\ calls' = calls
          /\ pc' = [pc EXCEPT ![p] = "idle"] /\ call' = [call EXCEPT ![p] = 0]
        BY <1>4 DEF FreadEnd, Returning, L, k
    <2>3. /\ reply' \in [Procs -> [1 .. ReplyMax -> Nat]]
          /\ got' \in [Procs -> [len : Nat, call : Nat, longest : Nat]]
        BY <2>1, <2>2 DEF ReplyInv, Copied, Max2
    <2>4. ASSUME NEW q \in Procs
          PROVE  /\ got'[q].call <= calls'
                 /\ got'[q].len <= got'[q].longest
                 /\ got'[q].len > 0 => got'[q].call > 0
                 /\ pc'[q] = "reading" => got'[q].call < call'[q]
        <3>1. CASE q = p
            BY <2>1, <2>2, <3>1 DEF ReplyInv, CallInv, Max2
        <3>2. CASE q # p
            BY <2>2, <3>2 DEF ReplyInv, CallInv
        <3>3. QED
            BY <3>1, <3>2
    <2>5. ASSUME NEW q \in Procs, NEW i \in 1 .. ReplyMax
          PROVE  /\ i <= got'[q].len => reply'[q][i] = got'[q].call
                 /\ got'[q].len < i /\ i <= got'[q].longest
                        => reply'[q][i] \in 1 .. got'[q].call - 1
                 /\ got'[q].longest < i => reply'[q][i] = 0
        <3>1. CASE q = p
            <4>1. /\ got'[p].len = L /\ got'[p].call = k
                  /\ got'[p].longest = Max2(got[p].longest, L)
                  /\ reply'[p][i] = IF i <= L THEN k ELSE reply[p][i]
                BY <2>2, SystemAssumption DEF ReplyInv, Copied
            <4>2. /\ i <= got[p].len => reply[p][i] = got[p].call
                  /\ got[p].len < i /\ i <= got[p].longest
                        => reply[p][i] \in 1 .. got[p].call - 1
                  /\ got[p].longest < i => reply[p][i] = 0
                  /\ got[p].len <= got[p].longest
                  /\ got[p].len > 0 => got[p].call > 0
                  /\ i \in Nat /\ i > 0
                BY SystemAssumption DEF ReplyInv, ReplyThenLeftovers
            <4>3. QED
                BY <2>1, <3>1, <4>1, <4>2, SystemAssumption DEF Max2
        <3>2. CASE q # p
            BY <2>2, <3>2 DEF ReplyInv, ReplyThenLeftovers
        <3>3. QED
            BY <3>1, <3>2
    <2>6. QED
        BY <2>3, <2>4, <2>5 DEF ReplyInv, ReplyThenLeftovers
<1>5. CASE Quiet
    <2>1. UNCHANGED <<reply, got>>
        BY <1>5, QuietKeeps
    <2> DEFINE Goes == /\ calls <= calls'
                       /\ \A q \in Procs : pc'[q] = "reading" =>
                             pc[q] = "reading" /\ call'[q] = call[q]
    <2>2. ASSUME NEW p \in Procs,
                 CloseAfter(p) \/ SerialEnter(p) \/ SerialRead(p) \/ End(p)
          PROVE  Goes
        BY <2>2, SystemAssumption
        DEF CloseAfter, SerialEnter, SerialRead, End, Gone, Returning, CallInv
    <2>3. ASSUME NEW p \in Procs, NEW next, next # "reading", Calling(p, next)
          PROVE  Goes
        BY <2>3, SystemAssumption DEF Calling, CallInv
    <2>4. ASSUME NEW p \in Procs, PopenFail(p) \/ RootForkFail(p)
          PROVE  Goes
        BY <2>3, <2>4 DEF PopenFail, RootForkFail
    <2>5. ASSUME NEW p \in Procs, NEW n, RootFork(p, n) \/ RootForkNoPipe(p, n)
          PROVE  Goes
        BY <2>3, <2>5 DEF RootFork, RootForkNoPipe
    <2>6. ASSUME NEW p \in Procs, NEW what \in Scoped, OpenFor(p, what) \/ OpenFails(p, what)
          PROVE  Goes
        BY <2>3, <2>6 DEF OpenFor, OpenFails, Scoped
    <2>7. ASSUME NEW p \in Procs, NEW n, SerialWrite(p, n) \/ SerialNoPort(p, n)
          PROVE  Goes
        BY <2>3, <2>7 DEF SerialWrite, SerialNoPort
    <2>8. ASSUME UNCHANGED <<pc, calls, call>>
          PROVE  Goes
        BY <2>8, SystemAssumption DEF CallInv
    <2>9. ASSUME \E k \in CallIds : ChildStep(k)
          PROVE  Goes
        BY <2>8, <2>9, Zenon DEF ChildStep, ChildDone, ChildKilled, ChildEnds
    <2>10. ASSUME ConsoleSends \/ ConsoleNext
           PROVE  Goes
        BY <2>8, <2>10 DEF ConsoleSends, ConsoleNext, sysVars
    <2>11. Goes
        BY <1>5, <2>2, <2>4, <2>5, <2>6, <2>7, <2>9, <2>10 DEF Quiet
    <2>12. QED
        BY <2>1, <2>11, ReplySame
<1>6. QED
    BY <1>1, <1>2, <1>3, <1>4, <1>5, StepForms

-----------------------------------------------------------------------------
(* The theorems.                                                           *)

\* Every step keeps the invariant.
LEMMA NextInv ==
    ASSUME Inv, [Next]_vars
    PROVE  Inv'
BY BufStep, CallStep, FdStep, ReplyStep DEF Inv

\* The invariant holds in every reachable state.
LEMMA SpecInv == Spec => []Inv
BY InitInv, NextInv, PTL DEF Spec

\* system_command never stores past comout, for any output, any size of the
\* array buffer, and any first size of comout that is not smaller: the one
\* doubling after each fread is always enough.
THEOREM SystemCommandBuffer == Spec => []BufferSuffices
<1>1. Inv => BufferSuffices
    BY SystemAssumption DEF Inv, BufInv, BufferSuffices, Max2
<1>2. QED
    BY <1>1, SpecInv, PTL

\* No function of general.h but system_command_root leaves a descriptor open,
\* on any path, and no process ever has more than its limit, for any limit and
\* any calls.
THEOREM DescriptorsAccounted == Spec => []OnlyRootLeaks
<1>1. Inv => OnlyRootLeaks
    BY DEF Inv, FdInv, OnlyRootLeaks
<1>2. QED
    BY <1>1, SpecInv, PTL

\* After system_command, reply is the output followed by what older and longer
\* outputs left, for any array and any sequence of calls of any processes.
THEOREM ReplyHolds == Spec => []ReplyThenLeftovers
<1>1. Inv => ReplyThenLeftovers
    BY DEF Inv, ReplyInv
<1>2. QED
    BY <1>1, SpecInv, PTL

-----------------------------------------------------------------------------
(* The text of one call.                                                   *)

\* A set of natural numbers that is not empty has a smallest element.
LEMMA Smallest ==
    ASSUME NEW S \in SUBSET Nat, S # {}
    PROVE  Min(S) \in S /\ \A y \in S : Min(S) <= y
<1>1. \E x \in S : \A y \in S : ~(<<y, x>> \in OpToRel(<, Nat))
    BY NatLessThanWellFounded, WFMin, Zenon
<1> DEFINE R == {ss \in Nat \X Nat : ss[1] < ss[2]}
<1>2. OpToRel(<, Nat) = R
    BY Zenon DEF OpToRel
<1>3. \A x, y \in Nat : ~(<<y, x>> \in R) => x <= y
    OBVIOUS
<1> HIDE DEF R
<1>4. \E x \in S : \A y \in S : x <= y
  <2>1. \E x \in S : \A y \in S : ~(<<y, x>> \in R)
    BY <1>1, <1>2, Zenon
  <2> QED BY <1>3, <2>1, Zenon
<1>5. QED
    BY <1>4 DEF Min

-----------------------------------------------------------------------------
(* The inductive invariant of the console.                                 *)

\* What the console sends, what a call returns, and what the console has to do.
Sent == [call : Nat, ch : {"a", "@"}]
Cells == [call : Nat, ch : {"a", "@", "c"}]
Jobs == [call : Nat, left : Nat]

ConsoleTypes ==
    /\ cmdLen \in [Procs -> Nat]
    /\ typed \in Seq(Nat)
    /\ work \in Seq(Jobs)
    /\ rxq \in Seq(Sent)
    /\ result \in [Procs -> [call : Nat, text : Seq(Cells), e : BOOLEAN]]

\* The kernel keeps nothing for a port that nobody has open.
QueueInv == PortUsers = {} => rxq = <<>>

\* A call that nobody has disturbed has the port for itself: before "\r" only its
\* command is on the line, and after it the console works and has sent for it
\* alone.
AloneInv ==
    \A p \in PortUsers : call[p] \notin disturbed =>
        /\ PortUsers = {p}
        /\ pc[p] = "typed" => typed = <<call[p]>> /\ work = <<>> /\ rxq = <<>>
        /\ pc[p] = "sleep" => typed = <<>>
        /\ \A i \in DOMAIN work : work[i].call = call[p]
        /\ \A i \in DOMAIN rxq : rxq[i].call = call[p]

ConsoleInv == ConsoleTypes /\ QueueInv /\ AloneInv /\ AnswerIsOwn

-----------------------------------------------------------------------------
(* What a call returns.                                                    *)

\* The bytes read, with the end of the command behind them.
LEMMA DataText ==
    ASSUME NEW k \in Nat, NEW n \in Nat, NEW bytes \in Seq(Sent)
    PROVE  /\ Data(k, n, bytes) \in Seq(Cells)
           /\ Data(k, n, bytes) # <<>> => Data(k, n, bytes)[1].ch # "c"
           /\ (\A i \in DOMAIN bytes : bytes[i].call = k)
                => \A i \in DOMAIN Data(k, n, bytes) : Data(k, n, bytes)[i].call = k
<1> DEFINE rest == SubSeq(Command(k, n), Len(bytes) + 1, n)
           d == bytes \o rest
<1>1. CASE bytes = <<>>
    BY <1>1 DEF Data
<1>2. CASE bytes # <<>>
  <2>1. Command(k, n) \in Seq(Cells) /\ Len(Command(k, n)) = n
    BY DEF Command, Cell, Cells
  <2>2. \A i \in 1 .. n : Command(k, n)[i].call = k
    BY DEF Command, Cell
  <2>3. /\ Len(bytes) \in Nat \ {0} /\ bytes \in [1 .. Len(bytes) -> Sent]
    BY <1>2
  <2>4. Sent \subseteq Cells
    BY DEF Sent, Cells
  <2>5. /\ Len(bytes) \in Nat \ {0} /\ bytes \in Seq(Cells) /\ DOMAIN bytes = 1 .. Len(bytes)
        /\ \A i \in 1 .. Len(bytes) : bytes[i] \in Sent
    BY <2>3, <2>4
  <2>6. rest \in Seq(Cells) /\ \A i \in 1 .. Len(rest) : rest[i].call = k
    BY <2>1, <2>2, <2>5
  <2> HIDE DEF rest
  <2>7. /\ d \in Seq(Cells) /\ Len(d) = Len(bytes) + Len(rest) /\ DOMAIN d = 1 .. Len(d)
        /\ \A i \in 1 .. Len(d) : d[i] = IF i <= Len(bytes) THEN bytes[i] ELSE rest[i - Len(bytes)]
    BY <2>5, <2>6
  <2>8. d[1].ch # "c"
    BY <2>5, <2>6, <2>7 DEF Sent
  <2>9. ASSUME \A i \in DOMAIN bytes : bytes[i].call = k, NEW i \in DOMAIN d
        PROVE  d[i].call = k
    <3>1. Len(rest) \in Nat /\ i \in 1 .. Len(bytes) + Len(rest)
      BY <2>6, <2>7, <2>9
    <3>2. CASE i <= Len(bytes)
      BY <2>5, <2>7, <2>9, <3>1, <3>2
    <3>3. CASE ~(i <= Len(bytes))
      <4>1. i - Len(bytes) \in 1 .. Len(rest)
        BY <2>5, <3>1, <3>3
      <4> QED  BY <2>6, <2>7, <3>1, <3>3, <4>1
    <3> QED  BY <3>2, <3>3
  <2>10. Data(k, n, bytes) = d
    BY <1>2 DEF Data, rest
  <2> QED  BY <2>7, <2>8, <2>9, <2>10
<1> QED  BY <1>1, <1>2

\* The characters of a text.
LEMMA CharsText ==
    ASSUME NEW text \in Seq(Cells)
    PROVE  Chars(text) \in Seq({"a", "@", "c"}) /\ Len(Chars(text)) = Len(text)
<1>1. text \in [1 .. Len(text) -> Cells] /\ Len(text) \in Nat /\ DOMAIN text = 1 .. Len(text)
    OBVIOUS
<1>2. Chars(text) = [i \in 1 .. Len(text) |-> text[i].ch]
    BY <1>1 DEF Chars
<1>3. \A i \in 1 .. Len(text) : text[i].ch \in {"a", "@", "c"}
    BY <1>1 DEF Cells
<1> QED  BY <1>1, <1>2, <1>3

\* Where the prompt is.
LEMMA Prompts ==
    ASSUME NEW text \in Seq(Cells)
    PROVE  Occurrences(Chars(text), <<"@">>) = {i \in 0 .. Len(text) - 1 : text[i + 1].ch = "@"}
<1>1. Chars(text) \in Seq({"a", "@", "c"}) /\ Len(Chars(text)) = Len(text)
    BY CharsText
<1>2. \A i \in 1 .. Len(text) : Chars(text)[i] = text[i].ch
    BY DEF Chars
<1>3. Len(<<"@">>) = 1
    OBVIOUS
<1>4. ASSUME NEW i \in 0 .. Len(text) - 1
      PROVE  SubSeq(Chars(text), i + 1, i + 1) = <<"@">> <=> text[i + 1].ch = "@"
  <2>1. i + 1 \in 1 .. Len(text) /\ Len(text) \in Nat
    BY <1>4
  <2> DEFINE sub == SubSeq(Chars(text), i + 1, i + 1)
  <2>2. sub \in Seq({"a", "@", "c"}) /\ Len(sub) = 1 /\ sub[1] = Chars(text)[i + 1]
    BY <1>1, <2>1, SubSeqProperties
  <2> HIDE DEF sub
  <2>3. sub = <<sub[1]>>
    BY <2>2
  <2> QED  BY <1>2, <2>1, <2>2, <2>3 DEF sub
<1> QED  BY <1>1, <1>3, <1>4 DEF Occurrences

\* read_rs232e cuts its text in front of the first prompt, unless that is within
\* the first two characters.
LEMMA TrimmedText ==
    ASSUME NEW text \in Seq(Cells), NEW e \in BOOLEAN
    PROVE  /\ \E m \in 0 .. Len(text) : Trimmed(text, e) = SubSeq(text, 1, m)
           /\ e => \/ Occurrences(Chars(Trimmed(text, e)), <<"@">>) = {}
                   \/ Min(Occurrences(Chars(Trimmed(text, e)), <<"@">>)) <= 1
<1> DEFINE occ == Occurrences(Chars(text), <<"@">>)
           first == Min(occ)
<1>1. occ = {i \in 0 .. Len(text) - 1 : text[i + 1].ch = "@"} /\ Len(text) \in Nat
    BY Prompts
<1>2. /\ Chars(text) \in Seq({"a", "@", "c"}) /\ Len(Chars(text)) = Len(text)
      /\ text = SubSeq(text, 1, Len(text))
    BY CharsText, <1>1
<1>3. CASE ~e
    BY <1>1, <1>2, <1>3 DEF Trimmed
<1>4. CASE e /\ occ # {} /\ first > 1
  <2>1. first \in occ /\ \A y \in occ : first <= y
    BY <1>1, <1>4, Smallest
  <2>2. first \in 0 .. Len(text)
    BY <1>1, <2>1
  <2> HIDE DEF first
  <2>3. trim_sring_at_str2(Chars(text), <<"@">>) = SubSeq(Chars(text), 1, first)
    BY <1>4, <2>2 DEF trim_sring_at_str2, my_strstr, first
  <2>4. Len(SubSeq(Chars(text), 1, first)) = first
    BY <1>2, <2>2
  <2>5. Trimmed(text, e) = SubSeq(text, 1, first)
    BY <1>4, <2>3, <2>4 DEF Trimmed
  <2>6. /\ SubSeq(text, 1, first) \in Seq(Cells) /\ Len(SubSeq(text, 1, first)) = first
        /\ \A i \in 1 .. first : SubSeq(text, 1, first)[i] = text[i]
    BY <2>2
  <2> DEFINE cut == SubSeq(text, 1, first)
  <2>7. Occurrences(Chars(cut), <<"@">>) = {i \in 0 .. Len(cut) - 1 : cut[i + 1].ch = "@"}
    BY <2>6, Prompts
  <2>8. ASSUME NEW i \in 0 .. first - 1
        PROVE  cut[i + 1].ch # "@"
    <3>1. i + 1 \in 1 .. first /\ i \in 0 .. Len(text) - 1 /\ i < first
      BY <1>1, <2>1, <2>2, <2>8
    <3>2. i \notin occ
      BY <2>1, <2>2, <3>1
    <3> QED  BY <1>1, <2>6, <3>1, <3>2
  <2>9. Occurrences(Chars(Trimmed(text, e)), <<"@">>) = {}
    BY <2>5, <2>6, <2>7, <2>8
  <2> QED  BY <2>2, <2>5, <2>9
<1>5. CASE e /\ (occ = {} \/ ~(first > 1))
  <2>1. occ # {} => first \in Nat
    BY <1>1, Smallest
  <2>2. ~(my_strstr(Chars(text), <<"@">>) - 1 > 0)
    <3>1. CASE occ = {}
      BY <3>1 DEF my_strstr
    <3>2. CASE occ # {}
      <4>1. my_strstr(Chars(text), <<"@">>) = first
        BY <3>2 DEF my_strstr
      <4> QED  BY <1>5, <2>1, <3>2, <4>1
    <3> QED  BY <3>1, <3>2
  <2>3. trim_sring_at_str2(Chars(text), <<"@">>) = Chars(text)
    BY <2>2 DEF trim_sring_at_str2
  <2>4. Trimmed(text, e) = text
    BY <1>2, <1>5, <2>3 DEF Trimmed
  <2>5. occ = {} \/ first <= 1
    BY <1>5, <2>1
  <2>6. \E m \in 0 .. Len(text) : Trimmed(text, e) = SubSeq(text, 1, m)
    BY <1>1, <1>2, <2>4
  <2> QED  BY <2>4, <2>5, <2>6
<1> QED  BY <1>3, <1>4, <1>5

\* AnswerIsOwn for one result, if the calls in dist were disturbed.
IsOwn(res, dist) ==
    /\ res.call \notin dist => \A i \in DOMAIN res.text : res.text[i].call = res.call
    /\ res.text # <<>> => res.text[1].ch # "c"
    /\ res.e => \/ Occurrences(Chars(res.text), <<"@">>) = {}
                \/ Min(Occurrences(Chars(res.text), <<"@">>)) <= 1

LEMMA OwnAnswers == AnswerIsOwn <=> \A p \in Procs : IsOwn(result[p], disturbed)
BY DEF AnswerIsOwn, IsOwn

LEMMA OwnAnswersNext == AnswerIsOwn' <=> \A p \in Procs : IsOwn(result'[p], disturbed')
BY DEF AnswerIsOwn, IsOwn

\* What the call k returns is its own if all that was read is.
LEMMA ReadText ==
    ASSUME NEW k \in Nat, NEW n \in Nat, NEW bytes \in Seq(Sent), NEW e \in BOOLEAN, NEW dist,
           k \notin dist => \A i \in DOMAIN bytes : bytes[i].call = k
    PROVE  LET res == [call |-> k, e |-> e, text |-> Trimmed(Data(k, n, bytes), e)]
           IN  res.text \in Seq(Cells) /\ IsOwn(res, dist)
<1> DEFINE d == Data(k, n, bytes)
           t == Trimmed(d, e)
<1>1. /\ d \in Seq(Cells) /\ (d # <<>> => d[1].ch # "c")
      /\ k \notin dist => \A i \in DOMAIN d : d[i].call = k
    BY DataText
<1> HIDE DEF d
<1>2. /\ \E m \in 0 .. Len(d) : t = SubSeq(d, 1, m)
      /\ e => Occurrences(Chars(t), <<"@">>) = {} \/ Min(Occurrences(Chars(t), <<"@">>)) <= 1
    BY <1>1, TrimmedText
<1> HIDE DEF t
<1>3. PICK m \in 0 .. Len(d) : t = SubSeq(d, 1, m)
    BY <1>2
<1>4. Len(d) \in Nat /\ DOMAIN d = 1 .. Len(d)
    BY <1>1
<1>5. /\ t \in Seq(Cells) /\ Len(t) = m /\ DOMAIN t = 1 .. m
      /\ \A i \in 1 .. m : t[i] = d[i] /\ i \in DOMAIN d
    BY <1>1, <1>3, <1>4
<1>6. t # <<>> => d # <<>> /\ t[1] = d[1]
    BY <1>1, <1>4, <1>5
<1>7. /\ t # <<>> => t[1].ch # "c"
      /\ k \notin dist => \A i \in DOMAIN t : t[i].call = k
    BY <1>1, <1>5, <1>6
<1>8. IsOwn([call |-> k, e |-> e, text |-> t], dist)
    BY <1>2, <1>7 DEF IsOwn
<1> QED  BY <1>5, <1>8 DEF t, d

-----------------------------------------------------------------------------
(* Steps and the console.                                                  *)

\* Steps of a process that is in no call to a serial port.
LEMMA ConsoleSame ==
    ASSUME ConsoleInv, UNCHANGED serialVars,
           \A q \in Procs : pc[q] \in InSerial \/ pc'[q] \in InSerial =>
               pc'[q] = pc[q] /\ open'[q] = open[q] /\ call'[q] = call[q]
    PROVE  ConsoleInv'
<1>1. PortUsers' = PortUsers
    BY DEF PortUsers, Users
<1>2. ConsoleTypes' /\ QueueInv'
    BY <1>1 DEF ConsoleInv, ConsoleTypes, QueueInv, serialVars
<1>3. \A p \in PortUsers : pc'[p] = pc[p] /\ call'[p] = call[p]
    BY DEF PortUsers, Users
<1>4. AloneInv'
    BY <1>1, <1>3 DEF ConsoleInv, AloneInv, serialVars
<1>5. AnswerIsOwn'
    BY DEF ConsoleInv, AnswerIsOwn, serialVars
<1> QED  BY <1>2, <1>4, <1>5 DEF ConsoleInv

\* open_port and the command: if somebody has the port open, or the console is
\* not done, all who have it open are disturbed.
LEMMA ConsoleWrite ==
    ASSUME CallInv, FdInv, ConsoleInv, NEW p \in Procs, NEW n \in CommandLens, SerialWrite(p, n)
    PROVE  ConsoleInv'
<1> DEFINE k == calls + 1
<1>1. /\ pc[p] = "idle" /\ pc' = [pc EXCEPT ![p] = "typed"]
      /\ call' = [call EXCEPT ![p] = k]
      /\ open' = [open EXCEPT ![p] = open[p] + 1]
      /\ typed' = Append(typed, k) /\ disturbed' = disturbed \cup Disturbs(k)
      /\ cmdLen' = [cmdLen EXCEPT ![p] = n]
      /\ UNCHANGED <<work, rxq, result>>
    BY DEF SerialWrite, Calling
<1>2. open[p] = 0 /\ k \in Nat /\ n \in Nat
    BY <1>1, SerialAssumption DEF FdInv, CallInv
<1>3. p \notin PortUsers /\ PortUsers' = PortUsers \cup {p}
    BY <1>1, <1>2 DEF PortUsers, Users, InSerial, CallInv, FdInv
<1>4. ConsoleTypes'
    BY <1>1, <1>2 DEF ConsoleInv, ConsoleTypes
<1>5. QueueInv'
    BY <1>3 DEF QueueInv
<1>6. AloneInv'
  <2> SUFFICES ASSUME NEW q \in PortUsers', call'[q] \notin disturbed'
               PROVE  /\ PortUsers' = {q}
                      /\ pc'[q] = "typed" => typed' = <<call'[q]>> /\ work' = <<>> /\ rxq' = <<>>
                      /\ pc'[q] = "sleep" => typed' = <<>>
                      /\ \A i \in DOMAIN work' : work'[i].call = call'[q]
                      /\ \A i \in DOMAIN rxq' : rxq'[i].call = call'[q]
    BY DEF AloneInv
  <2>1. q = p
    <3>1. q \in PortUsers /\ q # p => call'[q] = call[q] /\ call[q] \in Disturbs(k)
      BY <1>1 DEF Disturbs, CallInv, PortUsers, Users
    <3> QED  BY <1>1, <1>3, <3>1
  <2>2. PortUsers = {} /\ work = <<>> /\ typed = <<>> /\ call'[p] = k
    BY <1>1, <2>1 DEF Disturbs, CallInv
  <2>3. rxq = <<>> /\ typed' = <<k>>
    BY <1>1, <2>2 DEF ConsoleInv, QueueInv
  <2>4. pc'[p] = "typed"
    BY <1>1 DEF CallInv
  <2> QED  BY <1>1, <1>3, <2>1, <2>2, <2>3, <2>4
<1>7. AnswerIsOwn'
  <2>1. \A q \in Procs : IsOwn(result[q], disturbed)
    BY OwnAnswers DEF ConsoleInv
  <2>2. disturbed \subseteq disturbed'
    BY <1>1
  <2>3. \A q \in Procs : IsOwn(result[q], disturbed')
    BY <2>1, <2>2 DEF IsOwn
  <2> QED  BY <1>1, <2>3, OwnAnswersNext
<1> QED  BY <1>4, <1>5, <1>6, <1>7 DEF ConsoleInv

\* Without the port a call has no effect.
LEMMA ConsoleNoPort ==
    ASSUME CallInv, FdInv, ConsoleInv, NEW p \in Procs, NEW n \in CommandLens, SerialNoPort(p, n)
    PROVE  ConsoleInv'
<1>1. /\ pc[p] = "idle" /\ pc' = [pc EXCEPT ![p] = "typed"]
      /\ cmdLen' = [cmdLen EXCEPT ![p] = n]
      /\ call' = [call EXCEPT ![p] = calls + 1]
      /\ UNCHANGED <<open, typed, work, rxq, result, disturbed>>
    BY DEF SerialNoPort, Calling
<1>2. open[p] = 0 /\ n \in Nat
    BY <1>1, SerialAssumption DEF FdInv
<1>3. PortUsers' = PortUsers /\ p \notin PortUsers
    BY <1>1, <1>2 DEF PortUsers, Users, InSerial, CallInv
<1>4. \A q \in PortUsers : pc'[q] = pc[q] /\ call'[q] = call[q]
    BY <1>1, <1>3 DEF PortUsers, Users, CallInv
<1>5. ConsoleTypes' /\ QueueInv'
    BY <1>1, <1>2, <1>3 DEF ConsoleInv, ConsoleTypes, QueueInv
<1>6. AloneInv'
    BY <1>1, <1>3, <1>4 DEF ConsoleInv, AloneInv
<1>7. AnswerIsOwn'
    BY <1>1 DEF ConsoleInv, AnswerIsOwn
<1> QED  BY <1>5, <1>6, <1>7 DEF ConsoleInv

\* "\r": the console takes an undisturbed command for what it is.
LEMMA ConsoleEnter ==
    ASSUME CallInv, FdInv, ConsoleInv, NEW p \in Procs, SerialEnter(p)
    PROVE  ConsoleInv'
<1>1. /\ pc[p] = "typed" /\ pc' = [pc EXCEPT ![p] = "sleep"]
      /\ UNCHANGED <<open, call, cmdLen, rxq, result, disturbed>>
    BY DEF SerialEnter
<1>2. PortUsers' = PortUsers
    BY <1>1 DEF PortUsers, Users, InSerial, CallInv
<1>3. QueueInv' /\ AnswerIsOwn'
    BY <1>1, <1>2 DEF ConsoleInv, QueueInv, AnswerIsOwn
<1>4. CASE open[p] # 1
  <2>1. UNCHANGED <<work, typed>>
    BY <1>4 DEF SerialEnter
  <2>2. \A q \in PortUsers : pc'[q] = pc[q]
    BY <1>1, <1>4 DEF PortUsers, Users, CallInv
  <2>3. ConsoleTypes'
    BY <1>1, <2>1 DEF ConsoleInv, ConsoleTypes
  <2>4. AloneInv'
    BY <1>1, <1>2, <2>1, <2>2 DEF ConsoleInv, AloneInv
  <2> QED  BY <1>3, <2>3, <2>4 DEF ConsoleInv
<1>5. CASE open[p] = 1
  <2>1. p \in PortUsers /\ pc'[p] = "sleep"
    BY <1>1, <1>5 DEF PortUsers, Users, InSerial, CallInv
  <2>2. PICK n \in AnswerLens : work' = Append(work, [call |-> Meant, left |-> n])
    BY <1>5 DEF SerialEnter
  <2>3. typed' = <<>> /\ n \in Nat
    BY <1>5, SerialAssumption DEF SerialEnter
  <2>4. Meant \in Nat
    BY DEF Meant, ConsoleInv, ConsoleTypes
  <2>5. ConsoleTypes'
    BY <1>1, <2>2, <2>3, <2>4 DEF ConsoleInv, ConsoleTypes, Jobs
  <2>6. AloneInv'
    <3> SUFFICES ASSUME NEW q \in PortUsers, call[q] \notin disturbed
                 PROVE  /\ PortUsers = {q}
                        /\ pc'[q] = "typed" => typed' = <<call[q]>> /\ work' = <<>> /\ rxq = <<>>
                        /\ pc'[q] = "sleep" => typed' = <<>>
                        /\ \A i \in DOMAIN work' : work'[i].call = call[q]
                        /\ \A i \in DOMAIN rxq : rxq[i].call = call[q]
      BY <1>1, <1>2 DEF AloneInv
    <3>1. PortUsers = {q} /\ q = p
      BY <2>1 DEF ConsoleInv, AloneInv
    <3>2. typed = <<call[p]>> /\ work = <<>> /\ rxq = <<>>
      BY <1>1, <3>1 DEF ConsoleInv, AloneInv
    <3>3. Meant = call[p]
      BY <3>2 DEF Meant
    <3>4. work' = <<[call |-> call[p], left |-> n]>>
      BY <2>2, <3>2, <3>3
    <3>5. \A i \in DOMAIN work' : work'[i].call = call[p]
      BY <3>4
    <3> QED  BY <2>1, <2>3, <3>1, <3>2, <3>5
  <2> QED  BY <1>3, <2>5, <2>6 DEF ConsoleInv
<1> QED  BY <1>4, <1>5

\* The console sends a character: to an undisturbed call, of that call's answer.
LEMMA ConsoleSend ==
    ASSUME CallInv, ConsoleInv, ConsoleSends
    PROVE  ConsoleInv'
<1>1. /\ work # <<>> /\ Head(work).left > 0
      /\ work' = [work EXCEPT ![1].left = @ - 1]
      /\ UNCHANGED <<pc, open, call, cmdLen, typed, result, disturbed>>
    BY DEF ConsoleSends, sysVars
<1>2. PortUsers' = PortUsers
    BY <1>1 DEF PortUsers, Users
<1>3. AnswerIsOwn'
    BY <1>1 DEF ConsoleInv, AnswerIsOwn
<1>4. /\ work \in Seq(Jobs) /\ rxq \in Seq(Sent) /\ Len(work) \in Nat \ {0}
      /\ DOMAIN work = 1 .. Len(work) /\ 1 \in DOMAIN work /\ work[1] \in Jobs
      /\ Head(work) = work[1]
    BY <1>1 DEF ConsoleInv, ConsoleTypes
<1>5. /\ work' \in Seq(Jobs) /\ DOMAIN work' = DOMAIN work
      /\ \A i \in DOMAIN work : work'[i].call = work[i].call
  <2>1. work' = [work EXCEPT ![1] = [work[1] EXCEPT !.left = work[1].left - 1]]
    BY <1>1, <1>4
  <2> DEFINE job == [work[1] EXCEPT !.left = work[1].left - 1]
  <2>2. job \in Jobs /\ job.call = work[1].call
    BY <1>1, <1>4 DEF Jobs
  <2> HIDE DEF job
  <2>3. work' = [work EXCEPT ![1] = job]
    BY <2>1 DEF job
  <2>4. work' \in Seq(Jobs) /\ DOMAIN work' = DOMAIN work
    BY <1>4, <2>2, <2>3, ExceptSeq
  <2>5. \A i \in DOMAIN work : work'[i].call = work[i].call
    BY <1>4, <2>2, <2>3
  <2> QED  BY <2>4, <2>5
<1>6. CASE PortUsers = {}
  <2>1. UNCHANGED rxq
    BY <1>6 DEF ConsoleSends
  <2>2. ConsoleTypes'
    BY <1>1, <1>5, <2>1 DEF ConsoleInv, ConsoleTypes
  <2>3. QueueInv' /\ AloneInv'
    BY <1>2, <1>6, <2>1 DEF ConsoleInv, QueueInv, AloneInv
  <2> QED  BY <1>3, <2>2, <2>3 DEF ConsoleInv
<1>7. CASE PortUsers # {}
  <2> DEFINE cell == Cell(work[1].call, IF work[1].left = 1 THEN "@" ELSE "a")
  <2>1. rxq' = Append(rxq, cell)
    BY <1>4, <1>7 DEF ConsoleSends
  <2>2. cell \in Sent /\ cell.call = work[1].call
    BY <1>4 DEF Cell, Sent, Jobs
  <2> HIDE DEF cell
  <2>3. /\ rxq' \in Seq(Sent) /\ Len(rxq) \in Nat /\ DOMAIN rxq = 1 .. Len(rxq)
        /\ DOMAIN rxq' = 1 .. Len(rxq) + 1
        /\ \A i \in 1 .. Len(rxq) : rxq'[i] = rxq[i]
        /\ rxq'[Len(rxq) + 1] = cell
    BY <1>4, <2>1, <2>2
  <2>4. ConsoleTypes'
    BY <1>1, <1>5, <2>3 DEF ConsoleInv, ConsoleTypes
  <2>5. QueueInv'
    BY <1>2, <1>7 DEF QueueInv
  <2>6. AloneInv'
    <3> SUFFICES ASSUME NEW q \in PortUsers, call[q] \notin disturbed
                 PROVE  /\ PortUsers = {q}
                        /\ pc[q] = "typed" => typed = <<call[q]>> /\ work' = <<>> /\ rxq' = <<>>
                        /\ pc[q] = "sleep" => typed = <<>>
                        /\ \A i \in DOMAIN work' : work'[i].call = call[q]
                        /\ \A i \in DOMAIN rxq' : rxq'[i].call = call[q]
      BY <1>1, <1>2 DEF AloneInv
    <3>1. /\ PortUsers = {q} /\ pc[q] # "typed"
          /\ pc[q] = "sleep" => typed = <<>>
          /\ \A i \in DOMAIN work : work[i].call = call[q]
          /\ \A i \in DOMAIN rxq : rxq[i].call = call[q]
      BY <1>1 DEF ConsoleInv, AloneInv
    <3>2. \A i \in DOMAIN work' : work'[i].call = call[q]
      BY <1>5, <3>1
    <3>3. \A i \in DOMAIN rxq' : i \in 1 .. Len(rxq) \/ i = Len(rxq) + 1
      BY <2>3
    <3>4. cell.call = call[q]
      BY <1>4, <2>2, <3>1
    <3>5. \A i \in DOMAIN rxq' : rxq'[i].call = call[q]
      BY <2>3, <3>1, <3>3, <3>4
    <3> QED  BY <3>1, <3>2, <3>5
  <2> QED  BY <1>3, <2>4, <2>5, <2>6 DEF ConsoleInv
<1> QED  BY <1>6, <1>7

\* The console goes on with the next line.
LEMMA ConsoleGoesOn ==
    ASSUME ConsoleInv, ConsoleNext
    PROVE  ConsoleInv'
<1>1. /\ work # <<>> /\ work' = Tail(work)
      /\ UNCHANGED <<pc, open, call, cmdLen, typed, rxq, result, disturbed>>
    BY DEF ConsoleNext, sysVars
<1>2. PortUsers' = PortUsers
    BY <1>1 DEF PortUsers, Users
<1>3. AnswerIsOwn' /\ QueueInv'
    BY <1>1, <1>2 DEF ConsoleInv, AnswerIsOwn, QueueInv
<1>4. work \in Seq(Jobs)
    BY DEF ConsoleInv, ConsoleTypes
<1>5. /\ work' \in Seq(Jobs)
      /\ \A i \in DOMAIN work' : i + 1 \in DOMAIN work /\ work'[i] = work[i + 1]
    BY <1>1, <1>4
<1>6. ConsoleTypes'
    BY <1>1, <1>5 DEF ConsoleInv, ConsoleTypes
<1>7. AloneInv'
  <2> SUFFICES ASSUME NEW q \in PortUsers, call[q] \notin disturbed
               PROVE  /\ PortUsers = {q}
                      /\ pc[q] = "typed" => typed = <<call[q]>> /\ work' = <<>> /\ rxq = <<>>
                      /\ pc[q] = "sleep" => typed = <<>>
                      /\ \A i \in DOMAIN work' : work'[i].call = call[q]
                      /\ \A i \in DOMAIN rxq : rxq[i].call = call[q]
    BY <1>1, <1>2 DEF AloneInv
  <2>1. /\ PortUsers = {q} /\ pc[q] # "typed"
        /\ pc[q] = "sleep" => typed = <<>>
        /\ \A i \in DOMAIN work : work[i].call = call[q]
        /\ \A i \in DOMAIN rxq : rxq[i].call = call[q]
    BY <1>1 DEF ConsoleInv, AloneInv
  <2>2. \A i \in DOMAIN work' : work'[i].call = call[q]
    BY <1>5, <2>1
  <2> QED  BY <2>1, <2>2
<1> QED  BY <1>3, <1>6, <1>7 DEF ConsoleInv

\* A process leaves the port: what is left concerns only who stays.
LEMMA PortLeft ==
    ASSUME CallInv, ConsoleInv, NEW p \in Procs,
           pc' = [pc EXCEPT ![p] = "idle"] \/ pc' = [pc EXCEPT ![p] = "ended"],
           call' = [call EXCEPT ![p] = 0], open' = [open EXCEPT ![p] = 0], FdInv,
           UNCHANGED <<typed, work, disturbed>>,
           PortUsers \subseteq {p} => rxq' = <<>>,
           p \notin PortUsers /\ ~(PortUsers \subseteq {p}) => rxq' = rxq
    PROVE  QueueInv' /\ AloneInv'
<1>1. PortUsers' = PortUsers \ {p}
    BY DEF PortUsers, Users, InSerial, CallInv, FdInv
<1>2. QueueInv'
    BY <1>1 DEF QueueInv
<1>3. AloneInv'
  <2> SUFFICES ASSUME NEW q \in PortUsers', call'[q] \notin disturbed
               PROVE  /\ PortUsers' = {q}
                      /\ pc'[q] = "typed" => typed = <<call'[q]>> /\ work = <<>> /\ rxq' = <<>>
                      /\ pc'[q] = "sleep" => typed = <<>>
                      /\ \A i \in DOMAIN work : work[i].call = call'[q]
                      /\ \A i \in DOMAIN rxq' : rxq'[i].call = call'[q]
    BY DEF AloneInv
  <2>1. q \in PortUsers /\ q # p /\ q \in Procs
    BY <1>1 DEF PortUsers, Users
  <2>2. call'[q] = call[q] /\ pc'[q] = pc[q]
    BY <2>1 DEF CallInv
  <2>3. PortUsers = {q}
    BY <2>1, <2>2 DEF ConsoleInv, AloneInv
  <2>4. PortUsers' = {q} /\ rxq' = rxq
    BY <1>1, <2>1, <2>3
  <2> QED  BY <2>1, <2>2, <2>4 DEF ConsoleInv, AloneInv
<1> QED  BY <1>2, <1>3

\* The read and the close.
LEMMA ConsoleRead ==
    ASSUME CallInv, FdInv, ConsoleInv, NEW p \in Procs, SerialRead(p)
    PROVE  ConsoleInv'
<1> DEFINE bytes == IF open[p] = 1 THEN SubSeq(rxq, 1, Min2(Len(rxq), ReadMax)) ELSE <<>>
<1>1. /\ pc[p] = "sleep" /\ pc' = [pc EXCEPT ![p] = "idle"]
      /\ call' = [call EXCEPT ![p] = 0] /\ open' = [open EXCEPT ![p] = 0]
      /\ cmdLen' = [cmdLen EXCEPT ![p] = 0]
      /\ rxq' = IF PortUsers \subseteq {p} THEN <<>> ELSE SubSeq(rxq, Len(bytes) + 1, Len(rxq))
      /\ UNCHANGED <<typed, work, disturbed>>
    BY DEF SerialRead, Returning
<1>2. PICK e \in BOOLEAN :
        result' = [result EXCEPT ![p] =
            [call |-> call[p], e |-> e, text |-> Trimmed(Data(call[p], cmdLen[p], bytes), e)]]
    BY DEF SerialRead
<1>3. /\ rxq \in Seq(Sent) /\ Len(rxq) \in Nat /\ DOMAIN rxq = 1 .. Len(rxq)
      /\ call[p] \in Nat /\ cmdLen[p] \in Nat
    BY DEF ConsoleInv, ConsoleTypes, CallInv
<1>4. /\ bytes \in Seq(Sent) /\ Len(bytes) \in 0 .. Len(rxq) /\ DOMAIN bytes = 1 .. Len(bytes)
      /\ \A i \in 1 .. Len(bytes) : bytes[i] = rxq[i]
      /\ open[p] # 1 => bytes = <<>>
  <2> DEFINE m == Min2(Len(rxq), ReadMax)
  <2>1. m \in 0 .. Len(rxq)
    BY <1>3, SerialAssumption DEF Min2
  <2> HIDE DEF m
  <2>2. CASE open[p] = 1
    <3>1. bytes = SubSeq(rxq, 1, m)
      BY <2>2 DEF m
    <3> HIDE DEF bytes
    <3>2. /\ SubSeq(rxq, 1, m) \in Seq(Sent) /\ Len(SubSeq(rxq, 1, m)) = m
          /\ DOMAIN SubSeq(rxq, 1, m) = 1 .. m
          /\ \A i \in 1 .. m : SubSeq(rxq, 1, m)[i] = rxq[i]
      BY <1>3, <2>1
    <3> QED  BY <2>1, <2>2, <3>1, <3>2
  <2>3. CASE open[p] # 1
    <3>1. bytes = <<>>
      BY <2>3
    <3> HIDE DEF bytes
    <3>2. bytes \in Seq(Sent) /\ Len(bytes) = 0 /\ DOMAIN bytes = 1 .. 0
      BY <3>1
    <3> QED  BY <1>3, <3>1, <3>2
  <2> QED  BY <2>2, <2>3
<1> HIDE DEF bytes
<1>5. /\ rxq' \in Seq(Sent)
      /\ p \notin PortUsers /\ ~(PortUsers \subseteq {p}) => rxq' = rxq
  <2>1. SubSeq(rxq, Len(bytes) + 1, Len(rxq)) \in Seq(Sent)
    BY <1>3, <1>4
  <2>2. bytes = <<>> => SubSeq(rxq, Len(bytes) + 1, Len(rxq)) = rxq
    BY <1>3
  <2>3. p \notin PortUsers => open[p] # 1
    BY <1>1 DEF PortUsers, Users, InSerial
  <2> QED  BY <1>1, <1>4, <2>1, <2>2, <2>3
<1>6. QueueInv' /\ AloneInv'
    BY <1>1, <1>5, PortLeft
<1>7. call[p] \notin disturbed => \A i \in DOMAIN bytes : bytes[i].call = call[p]
  <2>1. CASE open[p] = 1
    <3>1. p \in PortUsers
      BY <1>1, <2>1 DEF PortUsers, Users, InSerial
    <3>2. call[p] \notin disturbed => \A i \in DOMAIN rxq : rxq[i].call = call[p]
      BY <3>1 DEF ConsoleInv, AloneInv
    <3> QED  BY <1>3, <1>4, <3>2
  <2>2. CASE open[p] # 1
    BY <1>4, <2>2
  <2> QED  BY <2>1, <2>2
<1> DEFINE res == [call |-> call[p], e |-> e, text |-> Trimmed(Data(call[p], cmdLen[p], bytes), e)]
<1>8. res.text \in Seq(Cells) /\ IsOwn(res, disturbed)
    BY <1>3, <1>4, <1>7, ReadText
<1>9. res.call \in Nat /\ res.e \in BOOLEAN
    BY <1>3
<1>10. res \in [call : Nat, text : Seq(Cells), e : BOOLEAN]
    BY <1>3, <1>8
<1>11. result' = [result EXCEPT ![p] = res]
    BY <1>2
<1> HIDE DEF res
<1>12. ConsoleTypes'
    BY <1>1, <1>5, <1>10, <1>11 DEF ConsoleInv, ConsoleTypes
<1>13. AnswerIsOwn'
  <2>1. \A q \in Procs : IsOwn(result[q], disturbed)
    BY OwnAnswers DEF ConsoleInv
  <2>2. \A q \in Procs : result'[q] = IF q = p THEN res ELSE result[q]
    BY <1>11 DEF ConsoleInv, ConsoleTypes
  <2> QED  BY <1>1, <1>8, <2>1, <2>2, OwnAnswersNext
<1> QED  BY <1>6, <1>12, <1>13 DEF ConsoleInv

\* The end of a process.
LEMMA ConsoleEnd ==
    ASSUME CallInv, FdInv, ConsoleInv, NEW p \in Procs, End(p)
    PROVE  ConsoleInv'
<1>1. /\ pc' = [pc EXCEPT ![p] = "ended"] /\ call' = [call EXCEPT ![p] = 0]
      /\ open' = [open EXCEPT ![p] = 0]
      /\ rxq' = IF PortUsers \subseteq {p} THEN <<>> ELSE rxq
      /\ UNCHANGED <<cmdLen, typed, work, result, disturbed>>
    BY DEF End, Gone
<1>2. QueueInv' /\ AloneInv'
    BY <1>1, PortLeft
<1>3. ConsoleTypes'
    BY <1>1 DEF ConsoleInv, ConsoleTypes
<1>4. AnswerIsOwn'
    BY <1>1 DEF ConsoleInv, AnswerIsOwn
<1> QED  BY <1>2, <1>3, <1>4 DEF ConsoleInv

\* Steps of other functions leave alone who is in a call to a serial port.
LEMMA ConsoleOther ==
    ASSUME CallInv, FdInv, NEW p \in Procs, SysStep(p) \/ SysCall(p)
    PROVE  \A q \in Procs : pc[q] \in InSerial \/ pc'[q] \in InSerial =>
               pc'[q] = pc[q] /\ open'[q] = open[q] /\ call'[q] = call[q]
<1>1. CASE Fread(p)
    BY <1>1 DEF Fread
<1>2. CASE FreadEnd(p)
    BY <1>2 DEF FreadEnd, Returning, InSerial, CallInv, FdInv
<1>3. CASE CloseAfter(p)
    BY <1>3 DEF CloseAfter, Returning, InSerial, Scoped, CallInv, FdInv
<1>4. ASSUME NEW next, next \notin InSerial, Calling(p, next),
             open' = open \/ open' = [open EXCEPT ![p] = @ + 1]
      PROVE  \A q \in Procs : pc[q] \in InSerial \/ pc'[q] \in InSerial =>
                 pc'[q] = pc[q] /\ open'[q] = open[q] /\ call'[q] = call[q]
    BY <1>4 DEF Calling, InSerial, CallInv, FdInv
<1>5. CASE \E n \in Outputs : Popen(p, n)
    BY <1>4, <1>5 DEF Popen, InSerial
<1>6. CASE \E n \in Outputs : RootFork(p, n) \/ RootForkNoPipe(p, n)
    BY <1>4, <1>6 DEF RootFork, RootForkNoPipe, InSerial
<1>7. CASE PopenFail(p) \/ RootForkFail(p)
    BY <1>4, <1>7 DEF PopenFail, RootForkFail, InSerial
<1>8. CASE \E what \in Scoped : OpenFor(p, what) \/ OpenFails(p, what)
  <2>1. PICK what \in Scoped : OpenFor(p, what) \/ OpenFails(p, what)
    BY <1>8
  <2>2. CASE OpenFor(p, what)
    BY <1>4, <2>1, <2>2 DEF OpenFor, InSerial, Scoped
  <2>3. CASE OpenFails(p, what)
    BY <1>4, <2>3 DEF OpenFails, InSerial
  <2> QED  BY <2>1, <2>2, <2>3
<1> QED  BY <1>1, <1>2, <1>3, <1>5, <1>6, <1>7, <1>8 DEF SysStep, SysCall

\* The commands that system_command_root has started do not touch the port.
LEMMA ConsoleChild ==
    ASSUME NEW k \in CallIds, ChildStep(k)
    PROVE  UNCHANGED <<pc, call, open>>
BY Zenon DEF ChildStep, ChildDone, ChildKilled, ChildEnds

-----------------------------------------------------------------------------
(* The theorem about answers.                                              *)

\* Every step keeps the invariant.
LEMMA ConsoleStep ==
    ASSUME CallInv, FdInv, ConsoleInv, [Next]_vars
    PROVE  ConsoleInv'
<1>1. CASE UNCHANGED vars
    BY <1>1, ConsoleSame DEF vars, sysVars
<1>2. ASSUME NEW p \in Procs, (SysStep(p) \/ SysCall(p)) /\ UNCHANGED serialVars
      PROVE  ConsoleInv'
    BY <1>2, ConsoleOther, ConsoleSame
<1>3. ASSUME NEW p \in Procs, SerialEnter(p) \/ SerialRead(p) \/ End(p)
      PROVE  ConsoleInv'
    BY <1>3, ConsoleEnter, ConsoleRead, ConsoleEnd
<1>4. ASSUME NEW p \in Procs, NEW n \in CommandLens, SerialWrite(p, n) \/ SerialNoPort(p, n)
      PROVE  ConsoleInv'
    BY <1>4, ConsoleWrite, ConsoleNoPort
<1>5. ASSUME NEW k \in CallIds, ChildStep(k) /\ UNCHANGED serialVars
      PROVE  ConsoleInv'
    BY <1>5, ConsoleChild, ConsoleSame
<1>6. CASE ConsoleSends \/ ConsoleNext
    BY <1>6, ConsoleSend, ConsoleGoesOn
<1>7. QED
    BY <1>1, <1>2, <1>3, <1>4, <1>5, <1>6 DEF Next, Step

\* The invariant holds before the first call.
LEMMA ConsoleStart == Init => ConsoleInv
<1> SUFFICES ASSUME Init PROVE ConsoleInv
    OBVIOUS
<1>1. NoResult \in [call : Nat, text : Seq(Cells), e : BOOLEAN]
    BY DEF NoResult
<1>2. ConsoleTypes /\ QueueInv
    BY <1>1 DEF Init, ConsoleTypes, QueueInv
<1>3. PortUsers = {}
    BY DEF Init, SysInit, PortUsers, Users, InSerial
<1>4. AloneInv
    BY <1>3 DEF AloneInv
<1>5. AnswerIsOwn
    BY DEF Init, NoResult, AnswerIsOwn
<1>6. QED
    BY <1>2, <1>4, <1>5 DEF ConsoleInv

\* A call of read_rs232 or read_rs232e that had the port for itself, with the
\* console done with everything before, returns nothing that belongs to another
\* call; no call returns its own command for an answer; and read_rs232e leaves
\* no prompt behind the second character: for any processes, any lengths, any
\* time the console takes, and whatever other processes do or when they end.
THEOREM AnswersAreOwn == Spec => []AnswerIsOwn
<1>1. Inv /\ ConsoleInv /\ [Next]_vars => ConsoleInv'
    BY ConsoleStep DEF Inv
<1>2. Spec => []ConsoleInv
    BY <1>1, ConsoleStart, SpecInv, PTL DEF Spec
<1>3. ConsoleInv => AnswerIsOwn
    BY DEF ConsoleInv
<1>4. QED
    BY <1>2, <1>3, PTL
=============================================================================
