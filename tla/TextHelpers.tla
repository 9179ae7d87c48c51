---------------------------- MODULE TextHelpers ----------------------------
(***************************************************************************)
(* The string functions of server/cgi-bin/general.h.                       *)
(*                                                                         *)
(* A C string is a sequence of characters without its terminator; a        *)
(* character is a one-letter string, and "nl" stands for '\n'.  Positions  *)
(* are TLA+'s, one more than C's, except in what my_strstr returns.        *)
(***************************************************************************)
EXTENDS Integers, SequencesExt

isspace(ch) == ch \in {" ", "nl"}
IsText(ch) == ~isspace(ch)

\* Cut white space off the end.
rstrip(s) == SubSeq(s, 1, SelectLastInSeq(s, IsText))

\* Skip white space at the start.
lskip(s) ==
    LET first == SelectInSeq(s, IsText)
    IN  IF first = 0 THEN <<>> ELSE SubSeq(s, first, Len(s))

\* Position of the first c or '#', or one past the end.
find_char_or_comment(s, c) ==
    LET Stops(ch) == ch \in {c, "#"}
        first == SelectInSeq(s, Stops)
    IN  IF first = 0 THEN Len(s) + 1 ELSE first

\* What is left of position i, and what is right of it.
Before(s, i) == SubSeq(s, 1, i - 1)
After(s, i) == SubSeq(s, i + 1, Len(s))

\* Offsets, from 0, at which sub occurs in s.
Occurrences(s, sub) ==
    {i \in 0 .. Len(s) - Len(sub) : SubSeq(s, i + 1, i + Len(sub)) = sub}

\* The first of them; 0, too, if there is none.
my_strstr(s, sub) ==
    IF Occurrences(s, sub) = {} THEN 0 ELSE Min(Occurrences(s, sub))

trim_sring_at_str(s, sub) ==
    LET location_to_trim == my_strstr(s, sub)
    IN  IF location_to_trim > 0 THEN SubSeq(s, 1, location_to_trim + 1) ELSE s

trim_sring_at_str2(s, sub) ==
    LET location_to_trim == my_strstr(s, sub) - 1
    IN  IF location_to_trim > 0 THEN SubSeq(s, 1, location_to_trim + 1) ELSE s
=============================================================================
