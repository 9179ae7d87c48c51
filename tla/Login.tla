------------------------------- MODULE Login -------------------------------
(***************************************************************************)
(* The login program, server/cgi-bin/login.c, and the page that calls it,  *)
(* server/html/Login.html, on top of the settings file that other CGI      *)
(* processes change meanwhile.                                             *)
(*                                                                         *)
(* cgiMain looks up to four keys up, each with a get_value of its own that *)
(* reads the file anew.  get_value returns a pointer into its own stack    *)
(* frame, which is gone when strcmp looks at it: the text is still there,  *)
(* or anything else is, and strcmp finds it equal or not.  For a key that  *)
(* is not there get_value stores into ret_buf, and login.c passes it a     *)
(* string literal: the process ends.                                       *)
(***************************************************************************)
EXTENDS Settings

CONSTANTS
    Requests,   \* calls of login() in browsers
    Forms,      \* pairs of texts that a user may enter
    FormMax,    \* size of the arrays username and password (20)
    MaxLost,    \* bound: dead stack frames that are overwritten in one request
    User, UserPw, Admin, AdminPw   \* the keys username, userpw, adminname, adminpw

LoginKeys == {User, UserPw, Admin, AdminPw}

ASSUME LoginAssumption ==
    /\ FormMax \in Nat \ {0} /\ MaxLost \in Nat
    /\ LoginKeys \subseteq Delivered

VARIABLES
    lpc,        \* where cgiMain is
    form,       \* username and password as cgiMain has them
    buf,        \* the answer being prepared
    header,     \* value of the last Set-Cookie header written, 0 for none
    page,       \* what the browser shows
    cookie,     \* cookie_login_status in the browser, 0 for none
    span,       \* history: first and last version of the file in cgiMain's life
    lost        \* history: keys whose text was overwritten in the dead stack frame

loginVars == <<lpc, form, buf, header, page, cookie, span, lost>>
vars == <<settingsVars, loginVars>>

NoForm == [username |-> <<>>, password |-> <<>>]

\* cgiFormStringNoNewlines into an array of FormMax characters: what does not
\* fit is cut off, and the program does not ask.
Entered(text) ==
    LET kept == SelectSeq(text, LAMBDA ch : ch # "nl")
    IN  SubSeq(kept, 1, Min({Len(kept), FormMax - 1}))

Init ==
    /\ SettingsInit
    /\ lpc = [r \in Requests |-> "none"]
    /\ form = [r \in Requests |-> NoForm]
    /\ buf = [r \in Requests |-> "error"]
    /\ header = [r \in Requests |-> 0]
    /\ page = [r \in Requests |-> "login"]
    /\ cookie = [r \in Requests |-> 0]
    /\ span = [r \in Requests |-> [first |-> 0, last |-> 0]]
    /\ lost = [r \in Requests |-> {}]

\* The button: login() asks for login.cgi, whose cgiMain takes the form.
Submit(r) ==
    /\ lpc[r] = "none"
    /\ lpc' = [lpc EXCEPT ![r] = "username"]
    /\ \E f \in Forms :
        form' = [form EXCEPT ![r] = [username |-> Entered(f.username),
                                     password |-> Entered(f.password)]]
    /\ span' = [span EXCEPT ![r] = [first |-> Len(versions), last |-> Len(versions)]]
    /\ UNCHANGED <<settingsVars, buf, header, page, cookie, lost>>

\* Mutant of Missing: an empty value is taken for no value.
Missing_Empty(key) == get_value(file, key).text = <<>>

Missing(key) == ~get_value(file, key).found

\* if (strcmp(get_value(..., key, ""), entered) == 0): goes on at yes or at no.
Compare(r, key, entered, yes, no) ==
    LET equal == get_value(file, key).text = entered IN
    /\ ~Missing(key)
    /\ \/ lpc' = [lpc EXCEPT ![r] = IF equal THEN yes ELSE no] /\ UNCHANGED lost
       \/ /\ Cardinality(lost[r]) < MaxLost
          /\ lpc' \in {[lpc EXCEPT ![r] = yes], [lpc EXCEPT ![r] = no]}
          /\ lost' = [lost EXCEPT ![r] = @ \cup {key}]
    /\ span' = [span EXCEPT ![r].last = Len(versions)]
    /\ UNCHANGED <<settingsVars, form, page, cookie>>

\* The two inner blocks: strcpy(buf, ok_msg) and the cookie.
Accepts(r, level, at) ==
    IF lpc'[r] = at
    THEN /\ buf' = [buf EXCEPT ![r] = "ok"]
         /\ header' = [header EXCEPT ![r] = level]
    ELSE UNCHANGED <<buf, header>>

\* Mutant of CheckUser: the cookie is set in the outer block.
CheckUser_Early(r) ==
    /\ lpc[r] = "username"
    /\ Compare(r, User, form[r].username, "userpw", "adminname")
    /\ Accepts(r, 1, "userpw")

CheckUser(r) ==
    /\ lpc[r] = "username"
    /\ Compare(r, User, form[r].username, "userpw", "adminname")
    /\ UNCHANGED <<buf, header>>

CheckUserPw(r) ==
    /\ lpc[r] = "userpw"
    /\ Compare(r, UserPw, form[r].password, "user", "adminname")
    /\ Accepts(r, 1, "user")

\* After either outcome of the first pair.
CheckAdmin(r) ==
    /\ lpc[r] \in {"user", "adminname"}
    /\ Compare(r, Admin, form[r].username, "adminpw", "respond")
    /\ UNCHANGED <<buf, header>>

\* Mutant of CheckAdminPw: the password of the user is taken.
CheckAdminPw_User(r) ==
    /\ lpc[r] = "adminpw"
    /\ Compare(r, UserPw, form[r].password, "admin", "respond")
    /\ Accepts(r, 2, "admin")

CheckAdminPw(r) ==
    /\ lpc[r] = "adminpw"
    /\ Compare(r, AdminPw, form[r].password, "admin", "respond")
    /\ Accepts(r, 2, "admin")

\* The key that cgiMain is about to look up.
NextKey(r) ==
    CASE lpc[r] = "username" -> User
      [] lpc[r] = "userpw" -> UserPw
      [] lpc[r] \in {"user", "adminname"} -> Admin
      [] lpc[r] = "adminpw" -> AdminPw

LookingUp(r) == lpc[r] \in {"username", "userpw", "user", "adminname", "adminpw"}

\* ret_buf[0] = '\0' on the literal "": nothing of the answer is sent.
Crash(r) ==
    /\ LookingUp(r)
    /\ Missing(NextKey(r))
    /\ lpc' = [lpc EXCEPT ![r] = "crashed"]
    /\ UNCHANGED <<settingsVars, form, buf, header, page, cookie, span, lost>>

\* The same if fopen fails.
NoFile(r) ==
    /\ LookingUp(r)
    /\ lpc' = [lpc EXCEPT ![r] = "crashed"]
    /\ mishaps' = mishaps \cup {"nofile"}
    /\ UNCHANGED <<versions, setVars, lineVars, form, buf, header, page, cookie,
                   span, lost>>

\* Headers and body go to the browser; the page looks for "ok" in the body.
Respond(r) ==
    /\ lpc[r] \in {"admin", "respond"}
    /\ lpc' = [lpc EXCEPT ![r] = "done"]
    /\ cookie' = [cookie EXCEPT ![r] = header[r]]
    /\ page' = [page EXCEPT ![r] = IF buf[r] = "ok" THEN "status" ELSE "alert"]
    /\ UNCHANGED <<settingsVars, form, buf, header, span, lost>>

cgiMain(r) ==
    \/ NoFile(r) \/ Respond(r)
    \/ CheckUser(r) \/ CheckUserPw(r) \/ CheckAdmin(r) \/ CheckAdminPw(r)
    \/ Crash(r)

Next ==
    \/ SettingsNext /\ UNCHANGED loginVars
    \/ \E r \in Requests : Submit(r) \/ cgiMain(r)

Spec == Init /\ [][Next]_vars

-----------------------------------------------------------------------------
(* Properties.                                                             *)

\* The texts that the key had while cgiMain of r ran.
Had(r, key) == {get_value(versions[i], key).text : i \in span[r].first .. span[r].last}

\* A file grants a level to what was entered.
Grants(f, level, e) ==
    LET pair == IF level = 1 THEN <<User, UserPw>> ELSE <<Admin, AdminPw>>
    IN  /\ get_value(f, pair[1]).text = e.username
        /\ get_value(f, pair[2]).text = e.password

\* If the file did not change between the first and the last look at it, and no
\* dead stack frame was overwritten, the answer is what that file says: the
\* administrator's cookie for the administrator's pair, else the user's for the
\* user's, else none and an alert.
LoginExact ==
    \A r \in Requests :
        /\ lpc[r] = "done"
        /\ span[r].first = span[r].last
        /\ lost[r] = {}
        => LET f == versions[span[r].first] IN
           /\ cookie[r] = IF Grants(f, 2, form[r]) THEN 2
                          ELSE IF Grants(f, 1, form[r]) THEN 1 ELSE 0
           /\ page[r] = IF cookie[r] = 0 THEN "alert" ELSE "status"

\* Text entered for a key was right at some moment of the request, or there was
\* something else in the dead stack frame when it was compared.
WasRight(r, key, entered) == entered \in Had(r, key) \/ key \in lost[r]

\* Whatever set_value does meanwhile: a cookie is given only if name and password
\* were each the right one at some moment of the request, though perhaps not at
\* the same.  What overwrites a dead stack frame may get past the one comparison
\* it spoils, but past no other.
GrantedHalvesWereRight ==
    \A r \in Requests :
        /\ cookie[r] = 1 => /\ WasRight(r, User, form[r].username)
                            /\ WasRight(r, UserPw, form[r].password)
        /\ cookie[r] = 2 => /\ WasRight(r, Admin, form[r].username)
                            /\ WasRight(r, AdminPw, form[r].password)
        /\ page[r] = "status" <=> cookie[r] > 0

\* login.cgi ends in the middle of a request only if the file cannot be opened,
\* or after some set_value with a name that is a proper prefix of a key, or with
\* a text that does not fit, has removed a key: overlapping calls and abandoned
\* ones never do.
CrashNeedsPrefix ==
    (\E r \in Requests : lpc[r] = "crashed")
        => mishaps \cap {"prefix", "overrun", "nofile"} # {}
=============================================================================
