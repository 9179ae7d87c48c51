------------------------- MODULE StationMainProofs -------------------------
(***************************************************************************)
(* Proofs about the main program and its database calls, for any number of *)
(* instances, starts, rows and outages.                                    *)
(***************************************************************************)
EXTENDS StationMain, FiniteSetTheorems, TLAPS

-----------------------------------------------------------------------------
(* The inductive invariant.                                                *)

\* Row i is one that boot b of p inserted.
Mine(i, p, b) == i \in DOMAIN table /\ table[i].by = p /\ table[i].boot = b

\* Where an instance is in its three calls, and what it has printed by then.
PosInv(p) ==
    /\ proc[p] = "running" => boot[p] > 0
    /\ step[p] = "sleep" <=> call[p] = 4
    /\ step[p] \in {"store", "fetch"} => call[p] \in {1, 3}
    /\ proc[p] = "crashed" => call[p] = 1
    /\ call[p] = 1 => Len(printed[p]) = 0
    /\ call[p] \in {2, 3} => Len(printed[p]) = 1
    /\ call[p] = 4 => Len(printed[p]) = 2

\* The rows of an instance: from its boots so far, and one for each at most.
RowInv(p) ==
    /\ \A i \in DOMAIN table : table[i].by = p => table[i].boot \in 1 .. boot[p]
    /\ \A i, j \in DOMAIN table :
            table[i].by = p /\ table[j].by = p /\ table[i].boot = table[j].boot => i = j
    /\ proc[p] = "running" => (call[p] > 2 <=> \E i \in DOMAIN table : Mine(i, p, boot[p]))

\* What a result set, kept by the client while the table grows, still says.
ReadInv(p) ==
    /\ step[p] \in {"store", "fetch"} /\ call[p] = 3 =>
            \E i \in DOMAIN table : Mine(i, p, boot[p]) /\ i <= rs[p]
    /\ step[p] \in {"store", "fetch"} /\ call[p] = 1 /\ rs[p] = 0 =>
            \A i \in DOMAIN table : \A b \in 1 .. boot[p] - 1 : ~Mine(i, p, b)
    /\ call[p] = 4 =>
            \E i \in DOMAIN table : Mine(i, p, boot[p]) /\ i <= printed[p][2]
    /\ garbage[p] => \A i \in DOMAIN table : \A b \in 1 .. boot[p] - 1 : ~Mine(i, p, b)

Inv == TypeOK /\ \A p \in Procs : PosInv(p) /\ RowInv(p) /\ ReadInv(p)

-----------------------------------------------------------------------------
\* read_initial_configuration gets, sets and gets.
LEMMA CallsFacts ==
    /\ Len(Calls) = 3
    /\ Calls[1] = "get" /\ Calls[2] = "set" /\ Calls[3] = "get"
BY DEF Calls

\* The invariant holds before the first start.
LEMMA InitInv == Init => Inv
<1> SUFFICES ASSUME Init PROVE Inv
    OBVIOUS
<1>1. TypeOK
    BY CallsFacts, MainAssumption DEF Init, TypeOK
<1>2. ASSUME NEW p \in Procs
      PROVE  PosInv(p) /\ RowInv(p) /\ ReadInv(p)
    BY DEF Init, PosInv, RowInv, ReadInv, Mine
<1>3. QED
    BY <1>1, <1>2 DEF Inv

-----------------------------------------------------------------------------
(* Types.                                                                  *)

\* Every step keeps every variable in its type.
LEMMA TypeStep ==
    ASSUME TypeOK, [Next]_vars,
           \A p \in Procs : step[p] = "sleep" <=> call[p] = 4
    PROVE  TypeOK'
<1> USE CallsFacts, MainAssumption
<1>1. CASE UNCHANGED vars
    BY <1>1 DEF TypeOK, vars
<1>2. CASE DbGoes \/ DbReturns
    <2>1. outages' \in 0 .. MaxOutages
        BY <1>2 DEF TypeOK, DbGoes, DbReturns
    <2>2. dbUp' \in BOOLEAN
        BY <1>2 DEF DbGoes, DbReturns
    <2>3. QED
        BY <1>2, <2>1, <2>2 DEF TypeOK, DbGoes, DbReturns
<1>3. CASE OtherInsert
    <2>1. [by |-> Foreign, boot |-> 0] \in Row
        BY DEF Row
    <2>2. QED
        BY <1>3, <2>1 DEF TypeOK, OtherInsert
<1>4. ASSUME NEW p \in Procs, Start(p)
      PROVE  TypeOK'
    BY <1>4 DEF TypeOK, Start, dbVars
<1>5. ASSUME NEW p \in Procs, Connect(p) \/ Select(p) \/ Store(p)
      PROVE  TypeOK'
    <2>1. Len(table) \in Nat
        BY DEF TypeOK
    <2>2. QED
        BY <1>5, <2>1 DEF TypeOK, Connect, Select, Store, Goto, dbVars
<1>6. ASSUME NEW p \in Procs, Fail(p)
      PROVE  TypeOK'
    BY <1>6 DEF TypeOK, Fail, End, dbVars
<1>7. ASSUME NEW p \in Procs, Finish(p), At(p, step[p]), step[p] # "sleep",
             dbUp' \in BOOLEAN, outages' = outages, table' \in Seq(Row), rs' = rs,
             printed' \in [Procs -> Seq(Nat)], garbage' \in [Procs -> BOOLEAN]
      PROVE  TypeOK'
    <2>1. call[p] \in 1 .. 4 /\ call[p] # 4
        BY <1>7 DEF TypeOK
    <2>2. call[p] + 1 \in 1 .. 4
        BY <2>1
    <2>3. call' \in [Procs -> 1 .. Len(Calls) + 1]
        BY <1>7, <2>2 DEF TypeOK, Finish
    <2>4. QED
        BY <1>7, <2>3 DEF TypeOK, Finish
<1>8. ASSUME NEW p \in Procs, Fetch(p)
      PROVE  TypeOK'
    <2>1. printed' \in [Procs -> Seq(Nat)]
        BY <1>8 DEF TypeOK, Fetch
    <2>2. QED
        BY <1>7, <1>8, <2>1 DEF TypeOK, Fetch, At, dbVars
<1>9. ASSUME NEW p \in Procs, FetchNothing(p)
      PROVE  TypeOK'
    <2>1. garbage' \in [Procs -> BOOLEAN]
        BY <1>9 DEF TypeOK, FetchNothing
    <2>2. CASE End(p, "crashed") /\ UNCHANGED printed
        BY <1>9, <2>1, <2>2 DEF TypeOK, FetchNothing, End, dbVars
    <2>3. CASE Finish(p) /\ printed' = [printed EXCEPT ![p] = Append(@, 0)]
        <3>1. printed' \in [Procs -> Seq(Nat)]
            BY <2>3 DEF TypeOK
        <3>2. QED
            BY <1>7, <1>9, <2>1, <2>3, <3>1 DEF TypeOK, FetchNothing, At, dbVars
    <2>4. QED
        BY <1>9, <2>2, <2>3 DEF FetchNothing
<1>10. ASSUME NEW p \in Procs
       PROVE  Inserted(p) \in Seq(Row)
    <2>1. [by |-> p, boot |-> boot[p]] \in Row
        BY DEF TypeOK, Row
    <2>2. QED
        BY <2>1 DEF TypeOK, Inserted
<1>11. ASSUME NEW p \in Procs, Insert(p)
       PROVE  TypeOK'
    BY <1>7, <1>10, <1>11 DEF TypeOK, Insert, At
<1>12. ASSUME NEW p \in Procs, InsertUnconfirmed(p)
       PROVE  TypeOK'
    <2>1. outages' \in 0 .. MaxOutages
        BY <1>12 DEF TypeOK, InsertUnconfirmed
    <2>2. dbUp' \in BOOLEAN
        BY <1>12 DEF InsertUnconfirmed
    <2>3. table' \in Seq(Row)
        BY <1>10, <1>12 DEF InsertUnconfirmed
    <2>4. QED
        BY <1>12, <2>1, <2>2, <2>3 DEF TypeOK, InsertUnconfirmed, End
<1>13. QED
    BY <1>1, <1>2, <1>3, <1>4, <1>5, <1>6, <1>8, <1>9, <1>11, <1>12 DEF Next, Main

-----------------------------------------------------------------------------
(* Steps that leave the table alone.                                       *)

\* What is said of one instance depends on its own variables and the table.
LEMMA SameInstance ==
    ASSUME NEW p \in Procs, PosInv(p), RowInv(p), ReadInv(p), table' = table,
           proc'[p] = proc[p], boot'[p] = boot[p], call'[p] = call[p],
           step'[p] = step[p], rs'[p] = rs[p], printed'[p] = printed[p],
           garbage'[p] = garbage[p]
    PROVE  PosInv(p)' /\ RowInv(p)' /\ ReadInv(p)'
BY DEF PosInv, RowInv, ReadInv, Mine

\* main starts again: no row is of the new boot.
LEMMA StartStep ==
    ASSUME Inv, NEW p \in Procs, Start(p)
    PROVE  PosInv(p)' /\ RowInv(p)' /\ ReadInv(p)'
<1>1. /\ table' = table /\ boot[p] \in Nat /\ boot'[p] = boot[p] + 1
      /\ proc'[p] = "running" /\ call'[p] = 1 /\ step'[p] = "connect"
      /\ printed'[p] = <<>> /\ ~garbage'[p]
    BY DEF Inv, TypeOK, Start, dbVars
<1>2. RowInv(p)
    BY DEF Inv
<1>3. PosInv(p)'
    BY <1>1 DEF PosInv
<1>4. \A i \in DOMAIN table : table[i].by = p => table[i].boot \in 1 .. boot[p]
    BY <1>2 DEF RowInv
<1>5. RowInv(p)'
    BY <1>1, <1>2, <1>4 DEF RowInv, Mine
<1>6. ReadInv(p)'
    BY <1>1 DEF ReadInv
<1>7. QED
    BY <1>3, <1>5, <1>6

\* A database call goes on, or the process ends in it.
LEMMA WithinCall ==
    ASSUME Inv, NEW p \in Procs, Connect(p) \/ Store(p) \/ Fail(p)
    PROVE  PosInv(p)' /\ RowInv(p)' /\ ReadInv(p)'
<1>1. /\ table' = table /\ boot'[p] = boot[p] /\ call'[p] = call[p]
      /\ rs'[p] = rs[p] /\ printed'[p] = printed[p] /\ garbage'[p] = garbage[p]
      /\ proc[p] = "running" /\ proc'[p] \in {"running", "exited"}
      /\ \/ step[p] = "connect" /\ step'[p] = "query"
         \/ step[p] = "store" /\ step'[p] = "fetch"
         \/ step'[p] = step[p]
    BY DEF Inv, TypeOK, Connect, Store, Fail, Goto, End, At, dbVars
<1>2. PosInv(p) /\ RowInv(p) /\ ReadInv(p)
    BY DEF Inv
<1>3. QED
    BY <1>1, <1>2 DEF PosInv, RowInv, ReadInv, Mine

\* The result of SELECT is the whole table: the own row is in it after the set,
\* and an empty one means that no boot has inserted a row.
LEMMA SelectStep ==
    ASSUME Inv, NEW p \in Procs, Select(p)
    PROVE  PosInv(p)' /\ RowInv(p)' /\ ReadInv(p)'
<1>1. /\ table' = table /\ boot'[p] = boot[p] /\ call'[p] = call[p]
      /\ rs'[p] = Len(table) /\ printed'[p] = printed[p] /\ garbage'[p] = garbage[p]
      /\ proc[p] = "running" /\ proc'[p] = "running"
      /\ step[p] = "query" /\ step'[p] = "store"
    BY DEF Inv, TypeOK, Select, Goto, At, dbVars
<1>2. PosInv(p) /\ RowInv(p) /\ ReadInv(p)
    BY DEF Inv
<1>3. call[p] \in {1, 3}
    <2>1. call[p] \in 1 .. 4 /\ call[p] # 4 /\ Calls[call[p]] = "get"
        BY <1>1, <1>2, CallsFacts DEF Inv, TypeOK, PosInv, Select, Op
    <2>2. call[p] # 2
        BY <2>1, CallsFacts
    <2>3. QED
        BY <2>1, <2>2
<1>4. Len(table) \in Nat /\ DOMAIN table = 1 .. Len(table)
    BY DEF Inv, TypeOK
<1>5. PosInv(p)' /\ RowInv(p)'
    BY <1>1, <1>2, <1>3 DEF PosInv, RowInv, Mine
<1>6. ReadInv(p)'
    <2>1. ASSUME call[p] = 3
          PROVE  \E i \in DOMAIN table : Mine(i, p, boot[p]) /\ i <= Len(table)
        BY <1>1, <1>2, <1>4, <2>1 DEF RowInv
    <2>2. ASSUME Len(table) = 0
          PROVE  DOMAIN table = {}
        BY <1>4, <2>2
    <2>3. QED
        BY <1>1, <1>2, <2>1, <2>2 DEF ReadInv, Mine
<1>7. QED
    BY <1>5, <1>6

\* The last row is printed.
LEMMA FetchStep ==
    ASSUME Inv, NEW p \in Procs, Fetch(p)
    PROVE  PosInv(p)' /\ RowInv(p)' /\ ReadInv(p)'
<1>1. /\ table' = table /\ boot'[p] = boot[p] /\ call'[p] = call[p] + 1
      /\ rs'[p] = rs[p] /\ printed'[p] = Append(printed[p], rs[p])
      /\ garbage'[p] = garbage[p]
      /\ proc[p] = "running" /\ proc'[p] = "running" /\ step[p] = "fetch"
      /\ step'[p] = IF call[p] = 3 THEN "sleep" ELSE "connect"
    BY CallsFacts DEF Inv, TypeOK, Fetch, Finish, At, dbVars
<1>2. PosInv(p) /\ RowInv(p) /\ ReadInv(p)
    BY DEF Inv
<1>3. /\ call[p] \in {1, 3} /\ printed[p] \in Seq(Nat) /\ rs[p] \in Nat
      /\ call[p] = 1 => Len(printed[p]) = 0
      /\ call[p] = 3 => Len(printed[p]) = 1
    BY <1>1, <1>2 DEF Inv, TypeOK, PosInv
<1>4. /\ Len(printed'[p]) = Len(printed[p]) + 1
      /\ call[p] = 3 => printed'[p][2] = rs[p]
    BY <1>1, <1>3
<1>5. PosInv(p)'
    BY <1>1, <1>2, <1>3, <1>4 DEF PosInv
<1>6. RowInv(p)'
    BY <1>1, <1>2, <1>3 DEF RowInv, Mine
<1>7. ReadInv(p)'
    BY <1>1, <1>2, <1>3, <1>4 DEF ReadInv, Mine
<1>8. QED
    BY <1>5, <1>6, <1>7

\* last_row is indeterminate: this is the first call, since the second finds at
\* least the row that this boot inserted.
LEMMA FetchNothingStep ==
    ASSUME Inv, NEW p \in Procs, FetchNothing(p)
    PROVE  PosInv(p)' /\ RowInv(p)' /\ ReadInv(p)'
<1>1. /\ table' = table /\ boot'[p] = boot[p] /\ rs'[p] = rs[p] /\ rs[p] = 0
      /\ garbage'[p] /\ proc[p] = "running" /\ step[p] = "fetch"
    BY DEF Inv, TypeOK, FetchNothing, Finish, End, At, dbVars
<1>2. PosInv(p) /\ RowInv(p) /\ ReadInv(p)
    BY DEF Inv
<1>3. call[p] = 1
    <2>1. DOMAIN table \subseteq Nat \ {0}
        BY DEF Inv, TypeOK
    <2>2. call[p] # 3
        BY <1>1, <1>2, <2>1 DEF ReadInv
    <2>3. QED
        BY <1>1, <1>2, <2>2 DEF PosInv
<1>4. \/ /\ proc'[p] = "crashed" /\ call'[p] = 1 /\ step'[p] = "fetch"
         /\ printed'[p] = printed[p]
      \/ /\ proc'[p] = "running" /\ call'[p] = 2 /\ step'[p] = "connect"
         /\ printed'[p] = Append(printed[p], 0)
    BY <1>1, <1>3, CallsFacts DEF Inv, TypeOK, FetchNothing, Finish, End
<1>5. printed[p] \in Seq(Nat) /\ Len(printed[p]) = 0 /\ Len(Append(printed[p], 0)) = 1
    BY <1>2, <1>3 DEF Inv, TypeOK, PosInv
<1>6. PosInv(p)'
    <2>1. boot[p] > 0 /\ boot'[p] = boot[p]
        BY <1>1, <1>2 DEF PosInv
    <2>2. Len(printed'[p]) = IF call'[p] = 1 THEN 0 ELSE 1
        BY <1>4, <1>5
    <2>3. QED
        BY <1>4, <2>1, <2>2 DEF PosInv
<1>7. RowInv(p)'
    BY <1>1, <1>2, <1>3, <1>4 DEF RowInv, Mine
<1>8. ReadInv(p)'
    BY <1>1, <1>2, <1>3, <1>4 DEF ReadInv, Mine
<1>9. QED
    BY <1>6, <1>7, <1>8

-----------------------------------------------------------------------------
(* Steps that add a row.                                                   *)

\* The rows after an insertion.
LEMMA AppendedRow ==
    ASSUME TypeOK, NEW r, table' = Append(table, r)
    PROVE  /\ DOMAIN table \subseteq Nat \ {0}
           /\ DOMAIN table' = DOMAIN table \cup {Len(table) + 1}
           /\ Len(table) + 1 \notin DOMAIN table
           /\ \A i \in DOMAIN table : table'[i] = table[i] /\ i < Len(table) + 1
           /\ table'[Len(table) + 1] = r
BY DEF TypeOK

\* A row that another inserts changes nothing for an instance that stays where
\* it is, whatever result set it has.
LEMMA OthersRow ==
    ASSUME TypeOK, NEW p \in Procs, PosInv(p), RowInv(p), ReadInv(p),
           NEW r, table' = Append(table, r), r.by # p,
           proc'[p] = proc[p], boot'[p] = boot[p], call'[p] = call[p],
           step'[p] = step[p], rs'[p] = rs[p], printed'[p] = printed[p],
           garbage'[p] = garbage[p]
    PROVE  PosInv(p)' /\ RowInv(p)' /\ ReadInv(p)'
<1>1. \A i, b : (i \in DOMAIN table' /\ table'[i].by = p /\ table'[i].boot = b)
                    <=> Mine(i, p, b)
    BY AppendedRow DEF Mine
<1>2. PosInv(p)'
    BY DEF PosInv
<1>3. RowInv(p)'
    <2>1. \A i \in DOMAIN table' : table'[i].by = p => table'[i].boot \in 1 .. boot'[p]
        BY AppendedRow DEF RowInv
    <2>2. ASSUME NEW i \in DOMAIN table', NEW j \in DOMAIN table',
                 table'[i].by = p, table'[j].by = p, table'[i].boot = table'[j].boot
          PROVE  i = j
        <3>1. i \in DOMAIN table /\ j \in DOMAIN table
            BY <2>2, AppendedRow
        <3>2. QED
            BY <2>2, <3>1, AppendedRow DEF RowInv
    <2>3. (\E i \in DOMAIN table : Mine(i, p, boot[p]))
             <=> (\E i \in DOMAIN table' : Mine(i, p, boot[p])')
        BY <1>1 DEF Mine
    <2>4. QED
        BY <2>1, <2>2, <2>3 DEF RowInv, Mine
<1>4. ReadInv(p)'
    <2>1. \A i, b : Mine(i, p, b)' <=> Mine(i, p, b)
        BY <1>1 DEF Mine
    <2>2. \A i, b : Mine(i, p, b) => i \in DOMAIN table /\ i \in DOMAIN table'
        BY AppendedRow DEF Mine
    <2>3. ASSUME NEW n, \E i \in DOMAIN table : Mine(i, p, boot[p]) /\ i <= n
          PROVE  \E i \in DOMAIN table' : Mine(i, p, boot[p])' /\ i <= n
        <3>1. PICK i \in DOMAIN table : Mine(i, p, boot[p]) /\ i <= n
            BY <2>3
        <3>2. i \in DOMAIN table' /\ Mine(i, p, boot[p])'
            BY <1>1, <2>2, <3>1 DEF Mine
        <3>3. QED
            BY <3>1, <3>2
    <2>4. ASSUME \A i \in DOMAIN table : \A b \in 1 .. boot[p] - 1 : ~Mine(i, p, b)
          PROVE  \A i \in DOMAIN table' : \A b \in 1 .. boot'[p] - 1 : ~Mine(i, p, b)'
        BY <2>1, <2>2, <2>4
    <2>5. QED
        BY <2>3, <2>4 DEF ReadInv
<1>5. QED
    BY <1>2, <1>3, <1>4

\* INSERT: it is the only row of this boot, since the process is in its second
\* call; the process goes on or, not knowing, exits.
LEMMA OwnRow ==
    ASSUME Inv, NEW p \in Procs, Insert(p) \/ InsertUnconfirmed(p)
    PROVE  PosInv(p)' /\ RowInv(p)' /\ ReadInv(p)'
<1> DEFINE r == [by |-> p, boot |-> boot[p]]
<1>1. /\ table' = Append(table, r) /\ boot'[p] = boot[p]
      /\ printed'[p] = printed[p] /\ garbage'[p] = garbage[p]
      /\ proc[p] = "running" /\ step[p] = "query" /\ Calls[call[p]] = "set"
    BY DEF Inv, TypeOK, Insert, InsertUnconfirmed, Inserted, Finish, End, At, Op
<1>2. TypeOK /\ PosInv(p) /\ RowInv(p) /\ ReadInv(p) /\ boot[p] \in Nat
    BY DEF Inv, TypeOK
<1>3. call[p] = 2
    <2>1. call[p] \in 1 .. 4 /\ call[p] # 4
        BY <1>1, <1>2, CallsFacts DEF TypeOK, PosInv
    <2>2. QED
        BY <1>1, <2>1, CallsFacts
<1>4. \/ proc'[p] = "running" /\ call'[p] = 3 /\ step'[p] = "connect"
      \/ proc'[p] = "exited" /\ call'[p] = 2 /\ step'[p] = "query"
    BY <1>1, <1>2, <1>3, CallsFacts DEF TypeOK, Insert, InsertUnconfirmed, Finish, End
<1>5. \A i \in DOMAIN table : table[i].by = p => table[i].boot # boot[p]
    BY <1>1, <1>2, <1>3 DEF RowInv, Mine
<1>6. r.by = p /\ r.boot = boot[p]
    OBVIOUS
<1> HIDE DEF r
<1>7. PosInv(p)'
    BY <1>1, <1>2, <1>3, <1>4 DEF PosInv
<1>8. RowInv(p)'
    <2>1. boot[p] \in 1 .. boot[p]
        BY <1>1, <1>2 DEF PosInv
    <2>2. \A i \in DOMAIN table' : table'[i].by = p => table'[i].boot \in 1 .. boot'[p]
        BY <1>1, <1>2, <1>6, <2>1, AppendedRow DEF RowInv
    <2>3. ASSUME NEW i \in DOMAIN table', NEW j \in DOMAIN table',
                 table'[i].by = p, table'[j].by = p, table'[i].boot = table'[j].boot
          PROVE  i = j
        <3>1. /\ \/ i \in DOMAIN table /\ table'[i] = table[i]
                 \/ i = Len(table) + 1 /\ table'[i] = r
              /\ \/ j \in DOMAIN table /\ table'[j] = table[j]
                 \/ j = Len(table) + 1 /\ table'[j] = r
            BY <1>1, <1>2, AppendedRow
        <3>2. QED
            BY <1>2, <1>5, <1>6, <2>3, <3>1 DEF RowInv
    <2>4. \E i \in DOMAIN table' : Mine(i, p, boot[p])'
        BY <1>1, <1>2, <1>6, AppendedRow DEF Mine
    <2>5. QED
        BY <1>1, <1>4, <2>2, <2>3, <2>4 DEF RowInv, Mine
<1>9. ReadInv(p)'
    <2>1. ASSUME NEW b \in 1 .. boot[p] - 1, NEW i \in DOMAIN table', garbage[p]
          PROVE  ~Mine(i, p, b)'
        <3>1. b # boot[p] /\ b \in 1 .. boot[p] - 1
            BY <1>2, <2>1
        <3>2. \A n \in DOMAIN table : ~Mine(n, p, b)
            BY <1>2, <2>1 DEF ReadInv
        <3>3. QED
            BY <1>1, <1>2, <1>6, <3>1, <3>2, AppendedRow DEF Mine
    <2>2. QED
        BY <1>1, <1>4, <2>1 DEF ReadInv, Mine
<1>10. QED
    BY <1>7, <1>8, <1>9

-----------------------------------------------------------------------------
(* The theorems.                                                           *)

\* Every step keeps the invariant.
LEMMA NextInv ==
    ASSUME Inv, [Next]_vars
    PROVE  Inv'
<1>1. TypeOK'
    BY TypeStep DEF Inv, PosInv
<1> DEFINE Ok(q) == PosInv(q)' /\ RowInv(q)' /\ ReadInv(q)'
<1>2. TypeOK /\ \A q \in Procs : PosInv(q) /\ RowInv(q) /\ ReadInv(q)
    BY DEF Inv
<1>3. ASSUME UNCHANGED vars \/ DbGoes \/ DbReturns, NEW q \in Procs
      PROVE  Ok(q)
    BY <1>2, <1>3, SameInstance DEF vars, DbGoes, DbReturns
<1>4. ASSUME OtherInsert, NEW q \in Procs
      PROVE  Ok(q)
    <2>1. Foreign # q /\ [by |-> Foreign, boot |-> 0].by = Foreign
        BY MainAssumption
    <2>2. QED
        BY <1>2, <1>4, <2>1, OthersRow DEF OtherInsert
<1>5. ASSUME NEW p \in Procs, Start(p) \/ Main(p)
      PROVE  Ok(p)
    BY <1>5, StartStep, WithinCall, SelectStep, FetchStep, FetchNothingStep, OwnRow DEF Main
<1>6. ASSUME NEW p \in Procs, Start(p) \/ Main(p), NEW q \in Procs, q # p
      PROVE  Ok(q)
    <2>1. /\ proc'[q] = proc[q] /\ boot'[q] = boot[q] /\ call'[q] = call[q]
          /\ step'[q] = step[q] /\ rs'[q] = rs[q] /\ printed'[q] = printed[q]
          /\ garbage'[q] = garbage[q]
        BY <1>6 DEF Start, Main, Connect, Fail, Select, Store, Fetch, FetchNothing, Insert,
                    InsertUnconfirmed, Goto, Finish, End, dbVars, Inv, TypeOK
    <2>2. table' = table \/ table' = Inserted(p)
        BY <1>6 DEF Start, Main, Connect, Fail, Select, Store, Fetch, FetchNothing, Insert,
                    InsertUnconfirmed, dbVars
    <2>3. [by |-> p, boot |-> boot[p]].by # q
        BY <1>6
    <2>4. QED
        BY <1>2, <2>1, <2>2, <2>3, SameInstance, OthersRow DEF Inserted
<1>7. ASSUME NEW q \in Procs
      PROVE  Ok(q)
    BY <1>3, <1>4, <1>5, <1>6 DEF Next
<1>8. QED
    BY <1>1, <1>7 DEF Inv

\* The invariant holds in every reachable state.
LEMMA SpecInv == Spec => []Inv
BY InitInv, NextInv, PTL DEF Spec

\* Whatever instances, outages and restarts there are, every variable of the
\* main program stays in its type.
THEOREM MainTypes == Spec => []TypeOK
BY SpecInv, PTL DEF Inv

\* A set of one index at most has one element at most.
LEMMA AtMostOne ==
    ASSUME NEW S, \A i, j \in S : i = j
    PROVE  Cardinality(S) <= 1
<1>1. CASE S = {}
    BY <1>1, FS_EmptySet
<1>2. CASE S # {}
    <2>1. PICK i \in S : TRUE
        BY <1>2
    <2>2. S = {i}
        BY <2>1
    <2>3. Cardinality({i}) = 1
        BY FS_Singleton
    <2>4. QED
        BY <2>2, <2>3
<1>3. QED
    BY <1>1, <1>2

\* database_on_set inserts one row for each boot that gets past it, and none is
\* inserted twice, for any number of instances, boots and outages.
THEOREM OneRow == Spec => []OneRowPerBoot
<1>1. ASSUME Inv
      PROVE  OneRowPerBoot
    <2>1. ASSUME NEW p \in Procs, NEW b \in 0 .. boot[p]
          PROVE  Cardinality(RowsOf(p, b)) <= 1
        <3>1. \A i, j \in RowsOf(p, b) : i = j
            BY <1>1 DEF Inv, RowInv, RowsOf
        <3>2. QED
            BY <3>1, AtMostOne
    <2>2. ASSUME NEW p \in Procs, proc[p] = "running"
          PROVE  call[p] > 2 <=> RowsOf(p, boot[p]) # {}
        BY <1>1, <2>2 DEF Inv, RowInv, RowsOf, Mine
    <2>3. QED
        BY <2>1, <2>2 DEF OneRowPerBoot
<1>2. QED
    BY <1>1, SpecInv, PTL

\* The second database_on_get of a boot prints the row of this boot or a later
\* one, for any number of instances and of other programs' insertions.
THEOREM FreshGet == Spec => []SecondGetIsFresh
<1>1. ASSUME Inv
      PROVE  SecondGetIsFresh
    <2>1. ASSUME NEW p \in Procs, Len(printed[p]) = 2
          PROVE  \E i \in RowsOf(p, boot[p]) : i <= printed[p][2]
        <3>1. call[p] \in 1 .. 4
            BY <1>1, CallsFacts DEF Inv, TypeOK
        <3>2. call[p] = 4
            BY <1>1, <2>1, <3>1 DEF Inv, PosInv
        <3>3. QED
            BY <1>1, <3>2 DEF Inv, ReadInv, RowsOf, Mine
    <2>2. QED
        BY <2>1 DEF SecondGetIsFresh
<1>2. QED
    BY <1>1, SpecInv, PTL

\* The uninitialised last_row is read only in the first call of a boot, by an
\* instance none of whose earlier boots got a row into the table.
THEOREM Garbage == Spec => []GarbageOnlyAtFirst
<1>1. ASSUME Inv
      PROVE  GarbageOnlyAtFirst
    BY <1>1 DEF Inv, PosInv, ReadInv, GarbageOnlyAtFirst, RowsOf, Mine
<1>2. QED
    BY <1>1, SpecInv, PTL
=============================================================================
