------------------------------ MODULE Settings ------------------------------
(***************************************************************************)
(* The settings file and the functions of server/cgi-bin/general.h that    *)
(* read and write it: get_value, set_value and get_line.                   *)
(*                                                                         *)
(* CGI processes run at the same time and nothing locks the file.          *)
(* set_value reads the file, changes every line that starts with the name, *)
(* and writes the result back over the old contents without truncating     *)
(* them: what the new text does not cover stays behind it.                 *)
(*                                                                         *)
(* The file is smaller than a stdio buffer, so the first fgets reads all   *)
(* of it and fclose writes all of the new text: each is one step.          *)
(***************************************************************************)
EXTENDS TextHelpers, FiniteSets

CONSTANTS
    Procs,        \* CGI processes that call set_value
    Readers,      \* those that call get_line, too
    Names,        \* names they pass
    Values,       \* values they pass to set_value
    InitialFile,  \* settings.properties as it is delivered
    LineMax,      \* MAX_LINE, the size of the array line
    FileMax,      \* size of write_file_data (1000)
    ExMax,        \* size of file_ex_data (80)
    MaxSets,      \* bound: calls of set_value
    MaxCalls      \* bound: calls of set_value and get_line together

\* Texts are C strings.  Neither names nor values contain a line's end, and every
\* delivered line has one and fits the array line.
ASSUME SettingsAssumption ==
    /\ {InitialFile} \cup Names \cup Values \subseteq Seq(STRING \ {"nul"})
    /\ \A s \in Names \cup Values : ~Contains(s, "nl")
    /\ \A n \in Names : n # <<>>
    /\ InitialFile # <<>> /\ Last(InitialFile) = "nl"
    /\ LineMax \in Nat /\ LineMax > 1
    /\ \A i \in DOMAIN InitialFile :
            \E j \in i .. i + LineMax - 2 : j <= Len(InitialFile) /\ InitialFile[j] = "nl"
    /\ FileMax \in Nat /\ Len(InitialFile) < FileMax
    /\ ExMax \in Nat \ {0}
    /\ MaxSets \in Nat /\ MaxCalls \in Nat
    /\ Readers \subseteq Procs

VARIABLES
    versions,   \* every state of the file, the last one is the present one
    wpc,        \* set_value in each process: "idle", "write" or "ended"
    job,        \* its name and value, write_file_data, and the version it read
    expected,   \* history: for each delivered key, what it was last set to
    sets, gets, \* calls so far
    exData,     \* file_ex_data of each process
    want,       \* history: the line that get_line was to find when it last could
                \*          open the file
    longest,    \* history: length of the longest line get_line has copied
    mishaps     \* history: what went wrong, of MishapKinds

setVars == <<wpc, job, expected, sets>>
lineVars == <<gets, exData, want, longest>>
settingsVars == <<versions, wpc, job, expected, sets, gets, exData, want, longest,
                  mishaps>>

\* Two calls of set_value overlapped; a name was a proper prefix of a key; a
\* text did not fit an array; fopen failed.
MishapKinds == {"overlap", "prefix", "overrun", "nofile"}

file == Last(versions)

-----------------------------------------------------------------------------
(* Reading: fgets and get_value.                                           *)

\* End of the piece that fgets reads from position i on.
PieceEnd(f, i) ==
    LET newlines == {j \in i .. Len(f) : f[j] = "nl"}
    IN  Min(newlines \cup {i + LineMax - 2, Len(f)})

\* What successive calls of fgets return.
Pieces(f) ==
    LET from[i \in Nat] ==
            IF i > Len(f) THEN <<>>
            ELSE <<SubSeq(f, i, PieceEnd(f, i))>> \o from[PieceEnd(f, i) + 1]
    IN  from[1]

\* The line without white space at its ends, and the place of its '='.
Stripped(line) == lskip(rstrip(line))
Equals(start) == find_char_or_comment(start, "=")

\* A line with a name: not empty, no comment, and with '=' before any '#'.
Assigns(line) ==
    LET start == Stripped(line)
        end == Equals(start)
    IN  end <= Len(start) /\ start[end] = "="

Key(line) ==
    LET start == Stripped(line)
    IN  rstrip(Before(start, Equals(start)))

ValueOf(line) ==
    LET whole == Stripped(line)
        start == lskip(After(whole, Equals(whole)))
    IN  rstrip(Before(start, find_char_or_comment(start, "#")))

\* The first line with the name decides.
get_value(f, name) ==
    LET lines == Pieces(f)
        Matches(line) == Assigns(line) /\ Key(line) = name
        first == SelectInSeq(lines, Matches)
    IN  IF first = 0 THEN [found |-> FALSE, text |-> <<>>]
        ELSE [found |-> TRUE, text |-> ValueOf(lines[first])]

Keys(f) == {Key(line) : line \in {l \in ToSet(Pieces(f)) : Assigns(l)}}

-----------------------------------------------------------------------------
(* Writing: set_value.                                                     *)

\* Mutant of NewLine: the newline is missing.
NewLine_Open(name, value) == name \o <<"=">> \o value

NewLine(name, value) == name \o <<"=">> \o value \o <<"nl">>

\* strncmp(line, name, strlen(name)) == 0
StartsWith(line, name) == IsPrefix(name, line)

Rewritten(f, name, value) ==
    LET lines == Pieces(f)
    IN  FlattenSeq([i \in DOMAIN lines |->
            IF StartsWith(lines[i], name) THEN NewLine(name, value)
            ELSE lines[i]])

\* new is written over old, from its start on.
Over(new, old) == new \o SubSeq(old, Len(new) + 1, Len(old))

\* A changed line does not fit line, or the text does not fit write_file_data.
Overruns(f, name, value) ==
    \/ /\ \E line \in ToSet(Pieces(f)) : StartsWith(line, name)
       /\ Len(NewLine(name, value)) >= LineMax
    \/ Len(Rewritten(f, name, value)) >= FileMax

Delivered == Keys(InitialFile)

\* Each delivered line with a name starts with it.
ASSUME DeliveredAssumption ==
    \A line \in ToSet(Pieces(InitialFile)) :
        Assigns(line) => Key(line) # <<>> /\ StartsWith(line, Key(line))

\* set_value is called with names that get_value can find.
ASSUME NamesAssumption ==
    \A n \in Names :
        /\ IsText(n[1]) /\ IsText(n[Len(n)])
        /\ ~Contains(n, "=") /\ ~Contains(n, "#")

Mishaps(f, name, value) ==
    {k \in {"prefix"} : \E key \in Delivered : IsStrictPrefix(name, key)}
    \cup {k \in {"overrun"} : Overruns(f, name, value)}

NoJob == [name |-> <<>>, value |-> <<>>, content |-> <<>>, based |-> 0]

SettingsInit ==
    /\ versions = <<InitialFile>>
    /\ wpc = [p \in Procs |-> "idle"]
    /\ job = [p \in Procs |-> NoJob]
    /\ expected = [k \in Delivered |-> get_value(InitialFile, k).text]
    /\ sets = 0
    /\ gets = 0
    /\ exData = [p \in Procs |-> [i \in 1 .. ExMax |-> "nul"]]
    /\ want = [p \in Procs |-> <<>>]
    /\ longest = [p \in Procs |-> 0]
    /\ mishaps = {}

\* set_value up to the first fclose.  Stores past an array may do no harm.
SetRead(p, name, value) ==
    /\ wpc[p] = "idle"
    /\ sets < MaxSets /\ sets + gets < MaxCalls
    /\ sets' = sets + 1
    /\ wpc' = [wpc EXCEPT ![p] = "write"]
    /\ job' = [job EXCEPT ![p] =
            [name |-> name, value |-> value,
             content |-> Rewritten(file, name, value), based |-> Len(versions)]]
    /\ mishaps' = mishaps \cup Mishaps(file, name, value)
    /\ UNCHANGED <<versions, expected, lineVars>>

\* Or they end the process.
SetCrash(p, name, value) ==
    /\ wpc[p] = "idle"
    /\ sets < MaxSets /\ sets + gets < MaxCalls
    /\ Overruns(file, name, value)
    /\ sets' = sets + 1
    /\ wpc' = [wpc EXCEPT ![p] = "ended"]
    /\ mishaps' = mishaps \cup {"overrun"}
    /\ UNCHANGED <<versions, job, expected, lineVars>>

\* The history after name was set: get_value strips the value and cuts comments.
Expecting(name, value) ==
    [k \in Delivered |->
        IF k = name THEN ValueOf(NewLine(name, value)) ELSE expected[k]]

\* Mutant of SetWrite: fopen with "a" instead of "r+".
SetWrite_Appends(p) ==
    /\ wpc[p] = "write"
    /\ wpc' = [wpc EXCEPT ![p] = "idle"]
    /\ versions' = Append(versions, file \o job[p].content)
    /\ mishaps' = mishaps \cup {k \in {"overlap"} : job[p].based # Len(versions)}
    /\ expected' = Expecting(job[p].name, job[p].value)
    /\ job' = [job EXCEPT ![p] = NoJob]
    /\ UNCHANGED <<sets, lineVars>>

\* The second fopen, fputs and fclose.
SetWrite(p) ==
    /\ wpc[p] = "write"
    /\ wpc' = [wpc EXCEPT ![p] = "idle"]
    /\ versions' = Append(versions, Over(job[p].content, file))
    /\ mishaps' = mishaps \cup {k \in {"overlap"} : job[p].based # Len(versions)}
    /\ expected' = Expecting(job[p].name, job[p].value)
    /\ job' = [job EXCEPT ![p] = NoJob]
    /\ UNCHANGED <<sets, lineVars>>

\* The second fopen fails, or the process is killed between the two.
SetAbandoned(p) ==
    /\ wpc[p] = "write"
    /\ wpc' \in {[wpc EXCEPT ![p] = "idle"], [wpc EXCEPT ![p] = "ended"]}
    /\ job' = [job EXCEPT ![p] = NoJob]
    /\ UNCHANGED <<versions, expected, sets, lineVars, mishaps>>

-----------------------------------------------------------------------------
(* get_line.                                                               *)

\* A string ends within the buffer, at the first null character.
Terminated(buffer) == Contains(buffer, "nul")

CString(buffer) == Before(buffer, SelectInSeq(buffer, LAMBDA ch : ch = "nul"))

\* The lines that start with the name.
Hits(lines, name) == {i \in DOMAIN lines : StartsWith(lines[i], name)}

\* Mutant of CopyLines: the loop ends with the first line found.
CopyLines_First(buffer, lines, name) ==
    IF Hits(lines, name) = {} THEN buffer
    ELSE Over(lines[Min(Hits(lines, name))], buffer)

\* Every line that starts with the name is copied to the buffer's start, none
\* with a terminator.
CopyLines(buffer, lines, name) ==
    LET copied[i \in 0 .. Len(lines)] ==
            IF i = 0 THEN buffer
            ELSE IF i \in Hits(lines, name) THEN Over(lines[i], copied[i - 1])
            ELSE copied[i - 1]
    IN  copied[Len(lines)]

\* file_ex_data[0] = '\0'.
Emptied(buffer) == Over(<<"nul">>, buffer)

\* Lines longer than file_ex_data are stored past its end; one that fills it
\* leaves no null character in it.
get_line(p, name) ==
    LET lines == Pieces(file)
        hits == Hits(lines, name)
        lengths == {Len(lines[i]) : i \in hits}
    IN
    /\ p \in Readers
    /\ wpc[p] = "idle"
    /\ sets + gets < MaxCalls
    /\ gets' = gets + 1
    /\ exData' = [exData EXCEPT ![p] = CopyLines(Emptied(@), lines, name)]
    /\ want' = [want EXCEPT ![p] = IF hits = {} THEN <<>> ELSE lines[Max(hits)]]
    /\ longest' = [longest EXCEPT ![p] = Max({@} \cup lengths)]
    /\ mishaps' = mishaps \cup {k \in {"overrun"} : \E n \in lengths : n > ExMax}
    /\ UNCHANGED <<versions, setVars>>

\* fopen fails: the answer is what file_ex_data held before the call.
GetLineNoFile(p) ==
    /\ p \in Readers
    /\ wpc[p] = "idle"
    /\ sets + gets < MaxCalls
    /\ gets' = gets + 1
    /\ UNCHANGED <<versions, setVars, exData, want, longest, mishaps>>

SettingsNext ==
    \E p \in Procs :
        \/ \E n \in Names, v \in Values : SetRead(p, n, v) \/ SetCrash(p, n, v)
        \/ SetWrite(p) \/ SetAbandoned(p)
        \/ \E n \in Names : get_line(p, n)
        \/ GetLineNoFile(p)

-----------------------------------------------------------------------------
(* Properties.                                                             *)

\* get_value returns what set_value last wrote for the key and the delivered
\* value for all others, although set_value leaves remains of the old text at
\* the end of the file and changes every line that starts with the name: as long
\* as no calls overlap, no name is a proper prefix of a key and all texts fit.
LastSetWins ==
    mishaps \subseteq {"nofile"} =>
        \A k \in Delivered : get_value(file, k) = [found |-> TRUE, text |-> expected[k]]

\* The ends of the lines that were delivered or that set_value can make.
Tails ==
    LET Made == {NewLine(n, v) : n \in Names, v \in Values}
    IN  UNION {{SubSeq(w, i, Len(w)) : i \in DOMAIN w} :
                w \in ToSet(Pieces(InitialFile)) \cup Made}

\* Even if calls overlap, get abandoned or use any name, no two lines are run
\* into each other: every line of the file is the end of a line that was
\* delivered or that some set_value made.
LinesNeverMerge ==
    "overrun" \notin mishaps =>
        /\ Last(file) = "nl"
        /\ ToSet(Pieces(file)) \subseteq Tails

\* get_line's answer starts with the last line that has the name, and is that
\* line if the process has never copied a longer one: file_ex_data is not
\* terminated after it.  A call that cannot open the file has the answer of the
\* last one that could.  A process that has copied a line as long as
\* file_ex_data, or a longer one, gets a string that may not end in it.
LineThenLeftovers ==
    "overrun" \notin mishaps =>
        \A p \in Procs :
            longest[p] < ExMax =>
                /\ Terminated(exData[p])
                /\ IsPrefix(want[p], CString(exData[p]))
                /\ want[p] = <<>> \/ longest[p] = Len(want[p])
                        => CString(exData[p]) = want[p]
=============================================================================
