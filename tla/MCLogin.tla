------------------------------ MODULE MCLogin ------------------------------
(* A small instance of Login: keys of two letters, of which the first is   *)
(* shared by two keys as in username and userpw.                           *)
EXTENDS Login

Line(key, value) == key \o <<"=">> \o value \o <<"nl">>

un == <<"u", "n">>
up == <<"u", "p">>
an == <<"a", "n">>
ap == <<"a", "p">>

\* Like the delivered file; the administrator's password is the longest text
\* that a form can hold.
DeliveredFile ==
    Line(un, <<"x">>) \o Line(up, <<"y">>) \o Line(an, <<"z">>) \o Line(ap, <<"y", "y">>)

\* A key, a proper prefix of two keys, and the end of two.
SetNames == {un, <<"a">>, <<"n">>}

\* An empty text, a longer one with blanks and a comment, and one that does not
\* fit the line.
SetValues == {<<>>, <<" ", "z", "#">>, <<"y", "=", "y", "y", "y">>}

\* The administrator's pair as it is after being cut, and one that is right for
\* the user once set_value has changed the name.
SomeForms ==
    {[username |-> <<"z">>, password |-> <<"y", "y", "y">>],
     [username |-> <<"z">>, password |-> <<"y">>]}
=============================================================================
