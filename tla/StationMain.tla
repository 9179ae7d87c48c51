---------------------------- MODULE StationMain ----------------------------
(***************************************************************************)
(* The station's main program, main.cpp, and its database calls,           *)
(* libs/database.cpp.                                                      *)
(*                                                                         *)
(* main() starts the command server, then read_initial_configuration()     *)
(* calls database_on_get, database_on_set(25, 45), database_on_get, and    *)
(* state_machine() sleeps for ever.  Every database call opens its own     *)
(* connection; every error ends the whole process with exit(1), command    *)
(* server included.                                                        *)
(*                                                                         *)
(* Several processes may run: nothing keeps a second instance from being   *)
(* started, and an instance that ended may be started again.  They share   *)
(* the table, which other programs write too.                              *)
(*                                                                         *)
(* A row carries, as history, the run that inserted it (its two columns do *)
(* not matter to any step).  External, modelled from its use here: MySQL.  *)
(* SELECT * returns the rows in the order of insertion, which is what      *)
(* taking the last one relies on.                                          *)
(***************************************************************************)
EXTENDS Integers, Sequences, FiniteSets

CONSTANTS
    Procs,      \* instances of the program
    Foreign,    \* writer of the rows that other programs insert
    MaxBoots,   \* bound: starts of one instance
    MaxRows,    \* bound: rows at which other programs stop inserting
    MaxOutages  \* bound: times the database goes away

ASSUME MainAssumption ==
    /\ Foreign \notin Procs
    /\ MaxBoots \in Nat
    /\ MaxRows \in Nat
    /\ MaxOutages \in Nat

VARIABLES
    dbUp,       \* the database accepts connections and queries
    outages,    \* outages so far
    table,      \* rows of blockstreamst
    proc,       \* "off", "running", "exited" (exit(1)) or "crashed"
    boot,       \* starts of each instance so far
    server,     \* the command server thread runs
    call,       \* position in read_initial_configuration's three calls
    step,       \* where the current database call is
    rs,         \* number of rows in the result set of database_on_get
    printed,    \* history: for each database_on_get of this boot, the position
                \* in the table of the row it printed, 0 for an indeterminate one
    garbage     \* history: the uninitialised last_row was used on this boot

dbVars == <<dbUp, outages, table>>
vars == <<dbUp, outages, table, proc, boot, server, call, step, rs, printed,
          garbage>>

\* Mutant of Calls: the set comes last.
Calls_SetLast == <<"get", "get", "set">>

\* read_initial_configuration
Calls == <<"get", "set", "get">>

Row == [by : Procs \cup {Foreign}, boot : Nat]

\* Every variable stays in its type: among others each database_on_get prints a
\* row of the table or an indeterminate one.
TypeOK ==
    /\ dbUp \in BOOLEAN
    /\ outages \in 0 .. MaxOutages
    /\ table \in Seq(Row)
    /\ proc \in [Procs -> {"off", "running", "exited", "crashed"}]
    /\ boot \in [Procs -> 0 .. MaxBoots]
    /\ server \in [Procs -> BOOLEAN]
    /\ call \in [Procs -> 1 .. Len(Calls) + 1]
    /\ step \in [Procs -> {"connect", "query", "store", "fetch", "sleep"}]
    /\ rs \in [Procs -> Nat]
    /\ printed \in [Procs -> Seq(Nat)]
    /\ garbage \in [Procs -> BOOLEAN]

Init ==
    /\ dbUp \in BOOLEAN
    /\ outages = 0
    /\ table = <<>>
    /\ proc = [p \in Procs |-> "off"]
    /\ boot = [p \in Procs |-> 0]
    /\ server = [p \in Procs |-> FALSE]
    /\ call = [p \in Procs |-> 1]
    /\ step = [p \in Procs |-> "connect"]
    /\ rs = [p \in Procs |-> 0]
    /\ printed = [p \in Procs |-> <<>>]
    /\ garbage = [p \in Procs |-> FALSE]

-----------------------------------------------------------------------------
(* The database and its other users.                                       *)

DbGoes ==
    /\ dbUp
    /\ outages < MaxOutages
    /\ dbUp' = FALSE
    /\ outages' = outages + 1
    /\ UNCHANGED <<table, proc, boot, server, call, step, rs, printed, garbage>>

DbReturns ==
    /\ ~dbUp
    /\ dbUp' = TRUE
    /\ UNCHANGED <<outages, table, proc, boot, server, call, step, rs, printed,
                   garbage>>

OtherInsert ==
    /\ dbUp
    /\ Len(table) < MaxRows
    /\ table' = Append(table, [by |-> Foreign, boot |-> 0])
    /\ UNCHANGED <<dbUp, outages, proc, boot, server, call, step, rs, printed,
                   garbage>>

-----------------------------------------------------------------------------
(* One instance: main and the database calls.                              *)

\* main up to read_initial_configuration: bind, Start.
Start(p) ==
    /\ proc[p] # "running"
    /\ boot[p] < MaxBoots
    /\ proc' = [proc EXCEPT ![p] = "running"]
    /\ boot' = [boot EXCEPT ![p] = @ + 1]
    /\ server' = [server EXCEPT ![p] = TRUE]
    /\ call' = [call EXCEPT ![p] = 1]
    /\ step' = [step EXCEPT ![p] = "connect"]
    /\ rs' = [rs EXCEPT ![p] = 0]
    /\ printed' = [printed EXCEPT ![p] = <<>>]
    /\ garbage' = [garbage EXCEPT ![p] = FALSE]
    /\ UNCHANGED dbVars

At(p, s) == proc[p] = "running" /\ step[p] = s

Op(p) == Calls[call[p]]

Goto(p, s) ==
    /\ step' = [step EXCEPT ![p] = s]
    /\ UNCHANGED <<proc, boot, server, call, garbage>>

\* mysql_close and return: the next call, or state_machine after the last.
Finish(p) ==
    /\ call' = [call EXCEPT ![p] = @ + 1]
    /\ step' = [step EXCEPT ![p] = IF call[p] = Len(Calls) THEN "sleep" ELSE "connect"]
    /\ UNCHANGED <<proc, boot, server>>

\* exit(1), or the end by a signal: the server thread ends with the process.
End(p, how) ==
    /\ proc' = [proc EXCEPT ![p] = how]
    /\ server' = [server EXCEPT ![p] = FALSE]
    /\ UNCHANGED <<boot, call, step>>

\* mysql_real_connect
Connect(p) ==
    /\ At(p, "connect")
    /\ dbUp
    /\ Goto(p, "query")
    /\ UNCHANGED <<dbVars, rs, printed>>

\* A connection may have been lost over any outage there was.
ConnectionLost(p) == outages > 0 /\ ~At(p, "connect")

\* Mutant of Fail: an error leads to another try instead of exit(1).
Fail_Retries(p) ==
    /\ \E s \in {"connect", "query", "store"} : At(p, s)
    /\ ~dbUp \/ ConnectionLost(p)
    /\ Goto(p, "connect")
    /\ UNCHANGED <<dbVars, rs, printed>>

\* mysql_real_connect, mysql_query or mysql_store_result fails: the database is
\* down, or an outage, which may have ended by now, has cost the connection.
Fail(p) ==
    /\ \E s \in {"connect", "query", "store"} : At(p, s)
    /\ ~dbUp \/ ConnectionLost(p)
    /\ End(p, "exited")
    /\ UNCHANGED <<dbVars, rs, printed, garbage>>

\* SELECT: the server fixes the result.
Select(p) ==
    /\ At(p, "query")
    /\ Op(p) = "get"
    /\ dbUp
    /\ rs' = [rs EXCEPT ![p] = Len(table)]
    /\ Goto(p, "store")
    /\ UNCHANGED <<dbVars, printed>>

Store(p) ==
    /\ At(p, "store")
    /\ dbUp
    /\ Goto(p, "fetch")
    /\ UNCHANGED <<dbVars, rs, printed>>

\* The loop over the rows leaves the last one in last_row; it is printed.
Fetch(p) ==
    /\ At(p, "fetch")
    /\ rs[p] > 0
    /\ printed' = [printed EXCEPT ![p] = Append(@, rs[p])]
    /\ Finish(p)
    /\ UNCHANGED <<dbVars, rs, garbage>>

\* No row: last_row is uninitialised.  The process ends, or prints something.
FetchNothing(p) ==
    /\ At(p, "fetch")
    /\ rs[p] = 0
    /\ garbage' = [garbage EXCEPT ![p] = TRUE]
    /\ \/ End(p, "crashed") /\ UNCHANGED printed
       \/ Finish(p) /\ printed' = [printed EXCEPT ![p] = Append(@, 0)]
    /\ UNCHANGED <<dbVars, rs>>

Inserted(p) == Append(table, [by |-> p, boot |-> boot[p]])

\* Mutant of Insert: the insertion is never committed.
Insert_Uncommitted(p) ==
    /\ At(p, "query")
    /\ Op(p) = "set"
    /\ dbUp
    /\ Finish(p)
    /\ UNCHANGED <<dbVars, rs, printed, garbage>>

\* INSERT succeeds.
Insert(p) ==
    /\ At(p, "query")
    /\ Op(p) = "set"
    /\ dbUp
    /\ table' = Inserted(p)
    /\ Finish(p)
    /\ UNCHANGED <<dbUp, outages, rs, printed, garbage>>

\* Mutant of InsertUnconfirmed: a lost answer leads to another try.
InsertUnconfirmed_Retries(p) ==
    /\ At(p, "query")
    /\ Op(p) = "set"
    /\ dbUp
    /\ table' = Inserted(p)
    /\ Goto(p, "connect")
    /\ UNCHANGED <<dbUp, outages, rs, printed>>

\* INSERT is done but the connection is lost before the answer: mysql_query
\* reports an error and the process exits, although the row is in the table.
InsertUnconfirmed(p) ==
    /\ At(p, "query")
    /\ Op(p) = "set"
    /\ dbUp
    /\ outages < MaxOutages
    /\ table' = Inserted(p)
    /\ dbUp' = FALSE
    /\ outages' = outages + 1
    /\ End(p, "exited")
    /\ UNCHANGED <<rs, printed, garbage>>

-----------------------------------------------------------------------------
Main(p) ==
    \/ Connect(p) \/ Fail(p) \/ Select(p) \/ Store(p) \/ Fetch(p)
    \/ FetchNothing(p) \/ Insert(p) \/ InsertUnconfirmed(p)

Next ==
    \/ DbGoes \/ DbReturns \/ OtherInsert
    \/ \E p \in Procs : Start(p) \/ Main(p)

Spec == Init /\ [][Next]_vars

\* The kernel schedules the main thread.  Nobody is bound to restart a process.
FairSpec == Spec /\ \A p \in Procs : WF_vars(Main(p))

-----------------------------------------------------------------------------
(* Properties.                                                             *)

\* Positions of the rows that boot b of p inserted.
RowsOf(p, b) == {i \in DOMAIN table : table[i].by = p /\ table[i].boot = b}

\* database_on_set(25, 45) runs once per boot: a boot that got past it has put
\* exactly one row in the table, an earlier boot at most one, whatever outages,
\* unconfirmed inserts and restarts happened.
OneRowPerBoot ==
    \A p \in Procs :
        /\ \A b \in 0 .. boot[p] : Cardinality(RowsOf(p, b)) <= 1
        /\ proc[p] = "running" => (call[p] > 2 <=> RowsOf(p, boot[p]) # {})

\* The second database_on_get prints the row that this boot inserted or one that
\* was inserted after it, never an older one and never an indeterminate one,
\* although each call uses a connection of its own and others write meanwhile.
SecondGetIsFresh ==
    \A p \in Procs :
        Len(printed[p]) = 2 =>
            \E i \in RowsOf(p, boot[p]) : i <= printed[p][2]

\* The uninitialised row is used only in the first call of a boot, and only if
\* no earlier boot of this instance had inserted its row.
GarbageOnlyAtFirst ==
    \A p \in Procs :
        /\ proc[p] = "crashed" => call[p] = 1
        /\ garbage[p] => \A b \in 1 .. boot[p] - 1 : RowsOf(p, b) = {}

\* Every start ends in the state machine's loop, or the process ends.
BootSettles ==
    \A p \in Procs :
        proc[p] = "running" ~> proc[p] # "running" \/ step[p] = "sleep"
=============================================================================
