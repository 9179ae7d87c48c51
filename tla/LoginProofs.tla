---------------------------- MODULE LoginProofs ----------------------------
(***************************************************************************)
(* Proofs about the login program and the settings file it reads, for any  *)
(* number of requests, of CGI processes that call set_value and get_line   *)
(* meanwhile, and of calls.                                                *)
(*                                                                         *)
(* LoginInv leaves open what get_value finds in a given file: one file has *)
(* one answer, and nothing is assumed of the texts.  What the file holds   *)
(* is the matter of FileInv, whose parts are those of SettingsProofs.      *)
(***************************************************************************)
EXTENDS Login, SettingsProofs, TLAPS

-----------------------------------------------------------------------------
(* The inductive invariant.                                                *)

Positions == {"none", "username", "userpw", "user", "adminname", "adminpw", "admin",
              "respond", "crashed", "done"}

RequestTypes ==
    /\ lpc \in [Requests -> Positions]
    /\ DOMAIN form = Requests
    /\ buf \in [Requests -> {"error", "ok"}]
    /\ header \in [Requests -> 0 .. 2]
    /\ page \in [Requests -> {"login", "status", "alert"}]
    /\ cookie \in [Requests -> 0 .. 2]
    /\ span \in [Requests -> [first : Nat, last : Nat]]
    /\ DOMAIN lost = Requests

\* The history in which get_value of r has looked so far: vs, between s.first and
\* s.last, which were in it when cgiMain looked.
WasIn(vs, s, key, text) == \E i \in s.first .. s.last : get_value(vs[i], key).text = text

\* A test of text against the value of key that cgiMain can have passed, if l are
\* the keys for which the stack frame was overwritten.
Passed(vs, s, l, key, text) == WasIn(vs, s, key, text) \/ key \in l

\* What cgiMain has seen when it is at pc with the header h, if e was entered:
\* the halves that it has passed were right at some moment, or lost.
Seen(pc, h, vs, s, l, e) ==
    /\ pc # "none" => 1 <= s.first /\ s.first <= s.last /\ s.last <= Len(vs)
    /\ pc \in {"userpw", "user"} => Passed(vs, s, l, User, e.username)
    /\ pc \in {"adminpw", "admin"} => Passed(vs, s, l, Admin, e.username)
    /\ h = 1 => /\ Passed(vs, s, l, User, e.username)
                /\ Passed(vs, s, l, UserPw, e.password)
    /\ h = 2 => /\ Passed(vs, s, l, Admin, e.username)
                /\ Passed(vs, s, l, AdminPw, e.password)

\* The header that the file f gives for the user's pair alone.
UserLevel(f, e) == IF Grants(f, 1, e) THEN 1 ELSE 0

\* Where cgiMain is, and with which header, if all it has seen is f and no dead
\* stack frame was overwritten.
Exactly(pc, h, f, e) ==
    /\ pc \in {"username", "userpw"} => h = 0
    /\ pc = "userpw" => get_value(f, User).text = e.username
    /\ pc = "user" => h = 1 /\ Grants(f, 1, e)
    /\ pc = "adminname" => h = 0 /\ ~Grants(f, 1, e)
    /\ pc = "adminpw" => h = UserLevel(f, e) /\ get_value(f, Admin).text = e.username
    /\ pc = "admin" => h = 2 /\ Grants(f, 2, e)
    /\ pc = "respond" => h = UserLevel(f, e) /\ ~Grants(f, 2, e)
    /\ pc = "done" => h = IF Grants(f, 2, e) THEN 2 ELSE UserLevel(f, e)

\* The answer: prepared in buf and header, and in the browser at the end.
Answer(pc, b, h, c, pg) ==
    /\ b = "ok" <=> h > 0
    /\ pc = "none" => h = 0
    /\ pc # "done" => c = 0 /\ pg = "login"
    /\ pc = "done" => c = h /\ pg = IF b = "ok" THEN "status" ELSE "alert"

SeenInv == \A r \in Requests : Seen(lpc[r], header[r], versions, span[r], lost[r], form[r])

ExactInv ==
    \A r \in Requests :
        lpc[r] # "none" /\ span[r].first = span[r].last /\ lost[r] = {}
            => Exactly(lpc[r], header[r], versions[span[r].first], form[r])

AnswerInv == \A r \in Requests : Answer(lpc[r], buf[r], header[r], cookie[r], page[r])

LoginInv == HistoryInv /\ RequestTypes /\ SeenInv /\ ExactInv /\ AnswerInv

-----------------------------------------------------------------------------
(* The file changes.                                                       *)

\* set_value adds a version behind those that were there.
LEMMA SettingsGrow ==
    ASSUME SettingsNext
    PROVE  UNCHANGED versions \/ \E new : versions' = Append(versions, new)
BY DEF SettingsNext, SetRead, SetCrash, SetWrite, SetAbandoned, get_line,
       GetLineNoFile

\* What a request has seen it has still seen.
LEMMA SettingsStep ==
    ASSUME LoginInv, SettingsNext, UNCHANGED loginVars
    PROVE  LoginInv'
<1> USE DEF LoginInv, loginVars
<1>1. RequestTypes' /\ AnswerInv'
  BY DEF RequestTypes, AnswerInv, Answer
<1>2. CASE UNCHANGED versions
  BY <1>1, <1>2 DEF HistoryInv, SeenInv, ExactInv
<1>3. ASSUME NEW new, versions' = Append(versions, new) PROVE LoginInv'
  <2>1. /\ HistoryInv'
        /\ Len(versions') = Len(versions) + 1 /\ Len(versions) \in Nat
        /\ \A i \in 1 .. Len(versions) : versions'[i] = versions[i]
    BY <1>3, HistoryGrows
  <2>2. ASSUME NEW r \in Requests, lpc[r] # "none"
        PROVE  /\ span[r].first \in Nat /\ span[r].last \in Nat
               /\ \A i \in span[r].first .. span[r].last :
                     i \in 1 .. Len(versions) /\ versions'[i] = versions[i]
               /\ span[r].first \in span[r].first .. span[r].last
               /\ 1 <= span[r].first /\ span[r].first <= span[r].last
               /\ span[r].last <= Len(versions')
    <3>1. /\ 1 <= span[r].first /\ span[r].first <= span[r].last
          /\ span[r].last <= Len(versions)
          /\ span[r].first \in Nat /\ span[r].last \in Nat
      BY <2>2 DEF SeenInv, Seen, RequestTypes
    <3> QED  BY <2>1, <3>1
  <2>3. SeenInv'
    <3> SUFFICES ASSUME NEW r \in Requests
                 PROVE  Seen(lpc[r], header[r], versions', span[r], lost[r], form[r])
      BY DEF SeenInv
    <3>1. Seen(lpc[r], header[r], versions, span[r], lost[r], form[r])
      BY DEF SeenInv
    <3>2. CASE lpc[r] # "none"
      <4>1. ASSUME NEW key, NEW text, WasIn(versions, span[r], key, text)
            PROVE  WasIn(versions', span[r], key, text)
        BY <2>2, <3>2, <4>1 DEF WasIn
      <4>2. ASSUME NEW key, NEW text, Passed(versions, span[r], lost[r], key, text)
            PROVE  Passed(versions', span[r], lost[r], key, text)
        BY <4>1, <4>2 DEF Passed
      <4> QED  BY <2>2, <3>1, <3>2, <4>2 DEF Seen
    <3>3. CASE lpc[r] = "none"
      <4>1. header[r] = 0
        BY <3>3 DEF AnswerInv, Answer
      <4> QED  BY <3>3, <4>1 DEF Seen
    <3> QED  BY <3>2, <3>3
  <2>4. ExactInv'
    BY <2>2 DEF ExactInv
  <2> QED  BY <1>1, <2>1, <2>3, <2>4
<1> QED  BY <1>2, <1>3, SettingsGrow

-----------------------------------------------------------------------------
(* One request goes on.                                                    *)

\* It is enough to look at the request that takes the step.
LEMMA RequestFrame ==
    ASSUME LoginInv, UNCHANGED versions, RequestTypes', NEW r \in Requests,
           \A u \in Requests \ {r} :
              /\ lpc'[u] = lpc[u] /\ form'[u] = form[u] /\ buf'[u] = buf[u]
              /\ header'[u] = header[u] /\ page'[u] = page[u] /\ cookie'[u] = cookie[u]
              /\ span'[u] = span[u] /\ lost'[u] = lost[u],
           Seen(lpc'[r], header'[r], versions, span'[r], lost'[r], form'[r]),
           lpc'[r] # "none" /\ span'[r].first = span'[r].last /\ lost'[r] = {}
              => Exactly(lpc'[r], header'[r], versions[span'[r].first], form'[r]),
           Answer(lpc'[r], buf'[r], header'[r], cookie'[r], page'[r])
    PROVE  LoginInv'
<1> USE DEF LoginInv
<1>1. HistoryInv'
  BY DEF HistoryInv
<1>2. SeenInv'
  BY DEF SeenInv
<1>3. ExactInv'
  BY DEF ExactInv
<1>4. AnswerInv'
  BY DEF AnswerInv
<1> QED  BY <1>1, <1>2, <1>3, <1>4

\* What a Compare does to its request: it goes on at yes if what was entered is
\* what the present file says, and at no if it is not, unless the stack frame was
\* overwritten.
Compared(r, key, entered, yes, no) ==
    LET equal == get_value(versions[Len(versions)], key).text = entered IN
    /\ UNCHANGED <<versions, form, page, cookie>>
    /\ lpc' \in [Requests -> Positions]
    /\ span' \in [Requests -> [first : Nat, last : Nat]]
    /\ DOMAIN lost' = Requests
    /\ \A u \in Requests \ {r} : lpc'[u] = lpc[u] /\ span'[u] = span[u] /\ lost'[u] = lost[u]
    /\ span'[r].first = span[r].first /\ span'[r].last = Len(versions)
    /\ lpc'[r] = no \/ (lpc'[r] = yes /\ (equal \/ key \in lost'[r]))
    /\ lost[r] \subseteq lost'[r]
    /\ key \in lost'[r] \/ (lost'[r] = lost[r] /\ lpc'[r] = IF equal THEN yes ELSE no)

\* What one comparison does.
LEMMA CompareOutcome ==
    ASSUME LoginInv, NEW r \in Requests, NEW key, NEW entered,
           NEW yes \in Positions, NEW no \in Positions,
           Compare(r, key, entered, yes, no)
    PROVE  Compared(r, key, entered, yes, no)
<1> DEFINE equal == get_value(versions[Len(versions)], key).text = entered
<1>1. Len(versions) \in Nat /\ RequestTypes
  BY DEF LoginInv, HistoryInv
<1>2. UNCHANGED <<versions, form, page, cookie>>
  BY DEF Compare, settingsVars
<1>3. /\ span' \in [Requests -> [first : Nat, last : Nat]]
      /\ span'[r].first = span[r].first /\ span'[r].last = Len(versions)
      /\ \A u \in Requests \ {r} : span'[u] = span[u]
  <2>1. span' = [span EXCEPT ![r].last = Len(versions)] /\ span \in [Requests -> [first : Nat, last : Nat]]
    BY <1>1 DEF Compare, RequestTypes
  <2> QED  BY <1>1, <2>1
<1>4. \/ lpc' = [lpc EXCEPT ![r] = IF equal THEN yes ELSE no] /\ UNCHANGED lost
      \/ /\ lpc' = [lpc EXCEPT ![r] = yes] \/ lpc' = [lpc EXCEPT ![r] = no]
         /\ lost' = [lost EXCEPT ![r] = lost[r] \cup {key}]
  BY DEF Compare, file, Last
<1> HIDE DEF equal
<1>5. lpc \in [Requests -> Positions] /\ DOMAIN lost = Requests
  BY <1>1 DEF RequestTypes
<1>6. lpc' \in [Requests -> Positions]
  BY <1>4, <1>5
<1>7. DOMAIN lost' = Requests /\ lost[r] \subseteq lost'[r]
  BY <1>4, <1>5
<1>8. \A u \in Requests \ {r} : lpc'[u] = lpc[u] /\ lost'[u] = lost[u]
  BY <1>4, <1>5
<1>9. lpc'[r] = no \/ (lpc'[r] = yes /\ (equal \/ key \in lost'[r]))
  BY <1>4, <1>5
<1>10. key \in lost'[r] \/ (lost'[r] = lost[r] /\ lpc'[r] = IF equal THEN yes ELSE no)
  BY <1>4, <1>5
<1> QED  BY <1>2, <1>3, <1>6, <1>7, <1>8, <1>9, <1>10 DEF equal, Compared

\* cgiMain looks at the present file: what it had seen it has still seen, and if
\* the file is still the one of the start, it has seen no other.
LEMMA Looked ==
    ASSUME HistoryInv, NEW s \in [first : Nat, last : Nat], NEW t,
           1 <= s.first, s.first <= s.last, s.last <= Len(versions),
           t.first = s.first, t.last = Len(versions)
    PROVE  /\ 1 <= t.first /\ t.first <= t.last /\ t.last <= Len(versions)
           /\ \A key, text : WasIn(versions, s, key, text) => WasIn(versions, t, key, text)
           /\ \A key : WasIn(versions, t, key, get_value(versions[Len(versions)], key).text)
           /\ t.first = t.last => s.first = s.last /\ t.first = Len(versions)
<1>1. Len(versions) \in Nat /\ s.first \in Nat /\ s.last \in Nat
  BY DEF HistoryInv
<1>2. \A i \in s.first .. s.last : i \in t.first .. t.last
  BY <1>1
<1>3. Len(versions) \in t.first .. t.last
  BY <1>1
<1> QED  BY <1>1, <1>2, <1>3 DEF WasIn

\* One comparison of key with what was entered, which goes on at yes with the
\* header hy or at no with the header as it was: it is enough that the positions
\* say of one file what the comparison finds out of it.
LEMMA CheckFrame ==
    ASSUME LoginInv, NEW r \in Requests, NEW key, NEW entered, NEW hy \in 0 .. 2,
           NEW yes \in Positions, NEW no \in Positions,
           {lpc[r], yes, no} \cap {"none", "done"} = {},
           Compared(r, key, entered, yes, no),
           buf' \in [Requests -> {"error", "ok"}], header' \in [Requests -> 0 .. 2],
           \A u \in Requests \ {r} : buf'[u] = buf[u] /\ header'[u] = header[u],
           buf'[r] = "ok" <=> header'[r] > 0,
           lpc'[r] = yes => header'[r] = hy,
           lpc'[r] = no => header'[r] = header[r],
           \A vs, s, l : Seen(lpc[r], header[r], vs, s, l, form[r]) =>
              /\ Seen(no, header[r], vs, s, l, form[r])
              /\ Passed(vs, s, l, key, entered) => Seen(yes, hy, vs, s, l, form[r]),
           \A f : Exactly(lpc[r], header[r], f, form[r]) =>
              IF get_value(f, key).text = entered THEN Exactly(yes, hy, f, form[r])
              ELSE Exactly(no, header[r], f, form[r])
    PROVE  LoginInv'
<1> DEFINE now == versions[Len(versions)]
<1>1. /\ HistoryInv /\ RequestTypes
      /\ Seen(lpc[r], header[r], versions, span[r], lost[r], form[r])
      /\ Answer(lpc[r], buf[r], header[r], cookie[r], page[r])
  BY DEF LoginInv, SeenInv, AnswerInv
<1>2. /\ UNCHANGED <<versions, form, page, cookie>>
      /\ lpc' \in [Requests -> Positions]
      /\ span' \in [Requests -> [first : Nat, last : Nat]]
      /\ DOMAIN lost' = Requests /\ lost[r] \subseteq lost'[r]
      /\ \A u \in Requests \ {r} : lpc'[u] = lpc[u] /\ span'[u] = span[u] /\ lost'[u] = lost[u]
      /\ span'[r].first = span[r].first /\ span'[r].last = Len(versions)
  BY DEF Compared
<1>3. \/ lpc'[r] = no
      \/ lpc'[r] = yes /\ (get_value(now, key).text = entered \/ key \in lost'[r])
  BY DEF Compared
<1>4. \/ key \in lost'[r]
      \/ lost'[r] = lost[r] /\ lpc'[r] = IF get_value(now, key).text = entered THEN yes ELSE no
  BY DEF Compared
<1>5. /\ span[r] \in [first : Nat, last : Nat]
      /\ 1 <= span[r].first /\ span[r].first <= span[r].last /\ span[r].last <= Len(versions)
  BY <1>1 DEF Seen, RequestTypes
<1>6. /\ 1 <= span'[r].first /\ span'[r].first <= span'[r].last
      /\ span'[r].last <= Len(versions)
      /\ \A k, text : WasIn(versions, span[r], k, text) => WasIn(versions, span'[r], k, text)
      /\ \A k : WasIn(versions, span'[r], k, get_value(now, k).text)
      /\ span'[r].first = span'[r].last =>
            span[r].first = span[r].last /\ span'[r].first = Len(versions)
  BY <1>1, <1>2, <1>5, Looked
<1> HIDE DEF now
<1>7. RequestTypes'
  BY <1>1, <1>2 DEF RequestTypes
<1>8. Seen(lpc'[r], header'[r], versions, span'[r], lost'[r], form'[r])
  <2>1. \A k, text : Passed(versions, span[r], lost[r], k, text)
                        => Passed(versions, span'[r], lost'[r], k, text)
    BY <1>2, <1>6 DEF Passed
  <2>2. Seen(lpc[r], header[r], versions, span'[r], lost'[r], form[r])
    BY <1>1, <1>6, <2>1 DEF Seen
  <2>3. CASE lpc'[r] = no
    BY <1>2, <2>2, <2>3
  <2>4. CASE lpc'[r] = yes /\ (get_value(now, key).text = entered \/ key \in lost'[r])
    <3>1. Passed(versions, span'[r], lost'[r], key, entered)
      BY <1>6, <2>4 DEF Passed
    <3> QED  BY <1>2, <2>2, <2>4, <3>1
  <2> QED  BY <1>3, <2>3, <2>4
<1>9. ASSUME span'[r].first = span'[r].last, lost'[r] = {}
      PROVE  Exactly(lpc'[r], header'[r], versions[span'[r].first], form'[r])
  <2>1. versions[span'[r].first] = now /\ span[r].first = span[r].last
        /\ versions[span[r].first] = now
    BY <1>2, <1>6, <1>9 DEF now
  <2>2. lost[r] = {} /\ lpc'[r] = IF get_value(now, key).text = entered THEN yes ELSE no
    BY <1>4, <1>9
  <2>3. Exactly(lpc[r], header[r], now, form[r])
    BY <2>1, <2>2 DEF LoginInv, ExactInv
  <2> QED  BY <1>2, <2>1, <2>2, <2>3
<1>10. Answer(lpc'[r], buf'[r], header'[r], cookie'[r], page'[r])
  <2>1. lpc'[r] # "none" /\ lpc'[r] # "done"
    BY <1>3
  <2>2. cookie'[r] = 0 /\ page'[r] = "login"
    BY <1>1, <1>2 DEF Answer
  <2> QED  BY <2>1, <2>2 DEF Answer
<1>11. \A u \in Requests \ {r} :
          /\ lpc'[u] = lpc[u] /\ form'[u] = form[u] /\ buf'[u] = buf[u]
          /\ header'[u] = header[u] /\ page'[u] = page[u] /\ cookie'[u] = cookie[u]
          /\ span'[u] = span[u] /\ lost'[u] = lost[u]
  BY <1>2
<1> QED  BY <1>2, <1>7, <1>8, <1>9, <1>10, <1>11, RequestFrame

\* The headers that the two inner blocks leave.
LEMMA AcceptsOutcome ==
    ASSUME RequestTypes, NEW r \in Requests, NEW level \in 1 .. 2, NEW at, Accepts(r, level, at),
           buf[r] = "ok" <=> header[r] > 0
    PROVE  /\ buf' \in [Requests -> {"error", "ok"}] /\ header' \in [Requests -> 0 .. 2]
           /\ \A u \in Requests \ {r} : buf'[u] = buf[u] /\ header'[u] = header[u]
           /\ buf'[r] = "ok" <=> header'[r] > 0
           /\ lpc'[r] = at => header'[r] = level
           /\ lpc'[r] # at => header'[r] = header[r]
BY DEF RequestTypes, Accepts

\* The user's name.
LEMMA CheckUserStep ==
    ASSUME LoginInv, NEW r \in Requests, CheckUser(r)
    PROVE  LoginInv'
<1>1. lpc[r] = "username" /\ UNCHANGED <<buf, header>>
  BY DEF CheckUser
<1>2. Compared(r, User, form[r].username, "userpw", "adminname")
  BY CompareOutcome DEF CheckUser, Positions
<1>3. RequestTypes /\ (buf[r] = "ok" <=> header[r] > 0)
  BY DEF LoginInv, AnswerInv, Answer
<1>4. \A vs, s, l : Seen("username", header[r], vs, s, l, form[r]) =>
        /\ Seen("adminname", header[r], vs, s, l, form[r])
        /\ Passed(vs, s, l, User, form[r].username) => Seen("userpw", header[r], vs, s, l, form[r])
  BY DEF Seen
<1>5. \A f : Exactly("username", header[r], f, form[r]) =>
        IF get_value(f, User).text = form[r].username THEN Exactly("userpw", header[r], f, form[r])
        ELSE Exactly("adminname", header[r], f, form[r])
  BY DEF Exactly, Grants
<1>6. "userpw" \in Positions /\ "adminname" \in Positions /\ header[r] \in 0 .. 2
  BY <1>3 DEF Positions, RequestTypes
<1>7. /\ buf' \in [Requests -> {"error", "ok"}] /\ header' \in [Requests -> 0 .. 2]
      /\ \A u \in Requests : buf'[u] = buf[u] /\ header'[u] = header[u]
  BY <1>1, <1>3 DEF RequestTypes
<1> QED  BY <1>1, <1>2, <1>3, <1>4, <1>5, <1>6, <1>7, CheckFrame

\* The user's password.
LEMMA CheckUserPwStep ==
    ASSUME LoginInv, NEW r \in Requests, CheckUserPw(r)
    PROVE  LoginInv'
<1>1. lpc[r] = "userpw" /\ Accepts(r, 1, "user")
  BY DEF CheckUserPw
<1>2. Compared(r, UserPw, form[r].password, "user", "adminname")
  BY CompareOutcome DEF CheckUserPw, Positions
<1>3. RequestTypes /\ (buf[r] = "ok" <=> header[r] > 0)
  BY DEF LoginInv, AnswerInv, Answer
<1>4. \A vs, s, l : Seen("userpw", header[r], vs, s, l, form[r]) =>
        /\ Seen("adminname", header[r], vs, s, l, form[r])
        /\ Passed(vs, s, l, UserPw, form[r].password) => Seen("user", 1, vs, s, l, form[r])
  BY DEF Seen
<1>5. \A f : Exactly("userpw", header[r], f, form[r]) =>
        IF get_value(f, UserPw).text = form[r].password THEN Exactly("user", 1, f, form[r])
        ELSE Exactly("adminname", header[r], f, form[r])
  BY DEF Exactly, Grants
<1>6. "user" \in Positions /\ "adminname" \in Positions /\ 1 \in 0 .. 2
  BY DEF Positions
<1>7. /\ buf' \in [Requests -> {"error", "ok"}] /\ header' \in [Requests -> 0 .. 2]
      /\ \A u \in Requests \ {r} : buf'[u] = buf[u] /\ header'[u] = header[u]
      /\ buf'[r] = "ok" <=> header'[r] > 0
      /\ lpc'[r] = "user" => header'[r] = 1
      /\ lpc'[r] # "user" => header'[r] = header[r]
  BY <1>1, <1>3, AcceptsOutcome
<1> QED  BY <1>1, <1>2, <1>4, <1>5, <1>6, <1>7, CheckFrame

\* The administrator's name.
LEMMA CheckAdminStep ==
    ASSUME LoginInv, NEW r \in Requests, CheckAdmin(r)
    PROVE  LoginInv'
<1>1. lpc[r] \in {"user", "adminname"} /\ UNCHANGED <<buf, header>>
  BY DEF CheckAdmin
<1>2. Compared(r, Admin, form[r].username, "adminpw", "respond")
  BY CompareOutcome DEF CheckAdmin, Positions
<1>3. RequestTypes /\ (buf[r] = "ok" <=> header[r] > 0)
  BY DEF LoginInv, AnswerInv, Answer
<1>4. \A vs, s, l : Seen(lpc[r], header[r], vs, s, l, form[r]) =>
        /\ Seen("respond", header[r], vs, s, l, form[r])
        /\ Passed(vs, s, l, Admin, form[r].username) => Seen("adminpw", header[r], vs, s, l, form[r])
  BY <1>1 DEF Seen
<1>5. \A f : Exactly(lpc[r], header[r], f, form[r]) =>
        IF get_value(f, Admin).text = form[r].username THEN Exactly("adminpw", header[r], f, form[r])
        ELSE Exactly("respond", header[r], f, form[r])
  BY <1>1 DEF Exactly, Grants, UserLevel
<1>6. "adminpw" \in Positions /\ "respond" \in Positions /\ header[r] \in 0 .. 2
  BY <1>3 DEF Positions, RequestTypes
<1>7. /\ buf' \in [Requests -> {"error", "ok"}] /\ header' \in [Requests -> 0 .. 2]
      /\ \A u \in Requests : buf'[u] = buf[u] /\ header'[u] = header[u]
  BY <1>1, <1>3 DEF RequestTypes
<1> QED  BY <1>1, <1>2, <1>3, <1>4, <1>5, <1>6, <1>7, CheckFrame

\* The administrator's password.
LEMMA CheckAdminPwStep ==
    ASSUME LoginInv, NEW r \in Requests, CheckAdminPw(r)
    PROVE  LoginInv'
<1>1. lpc[r] = "adminpw" /\ Accepts(r, 2, "admin")
  BY DEF CheckAdminPw
<1>2. Compared(r, AdminPw, form[r].password, "admin", "respond")
  BY CompareOutcome DEF CheckAdminPw, Positions
<1>3. RequestTypes /\ (buf[r] = "ok" <=> header[r] > 0)
  BY DEF LoginInv, AnswerInv, Answer
<1>4. \A vs, s, l : Seen("adminpw", header[r], vs, s, l, form[r]) =>
        /\ Seen("respond", header[r], vs, s, l, form[r])
        /\ Passed(vs, s, l, AdminPw, form[r].password) => Seen("admin", 2, vs, s, l, form[r])
  BY DEF Seen
<1>5. \A f : Exactly("adminpw", header[r], f, form[r]) =>
        IF get_value(f, AdminPw).text = form[r].password THEN Exactly("admin", 2, f, form[r])
        ELSE Exactly("respond", header[r], f, form[r])
  BY DEF Exactly, Grants
<1>6. "admin" \in Positions /\ "respond" \in Positions /\ 2 \in 0 .. 2
  BY DEF Positions
<1>7. /\ buf' \in [Requests -> {"error", "ok"}] /\ header' \in [Requests -> 0 .. 2]
      /\ \A u \in Requests \ {r} : buf'[u] = buf[u] /\ header'[u] = header[u]
      /\ buf'[r] = "ok" <=> header'[r] > 0
      /\ lpc'[r] = "admin" => header'[r] = 2
      /\ lpc'[r] # "admin" => header'[r] = header[r]
  BY <1>1, <1>3, AcceptsOutcome
<1> QED  BY <1>1, <1>2, <1>4, <1>5, <1>6, <1>7, CheckFrame

\* The button: nothing has been seen yet but the file is there.
LEMMA SubmitStep ==
    ASSUME LoginInv, NEW r \in Requests, Submit(r)
    PROVE  LoginInv'
<1>1. HistoryInv /\ RequestTypes /\ Answer("none", buf[r], header[r], cookie[r], page[r])
  BY DEF LoginInv, AnswerInv, Submit
<1>2. Len(versions) \in Nat /\ Len(versions) > 0
  BY <1>1 DEF HistoryInv
<1>3. /\ lpc' = [lpc EXCEPT ![r] = "username"]
      /\ span' = [span EXCEPT ![r] = [first |-> Len(versions), last |-> Len(versions)]]
      /\ UNCHANGED <<versions, buf, header, page, cookie, lost>>
  BY DEF Submit, settingsVars
<1>4. PICK entered : form' = [form EXCEPT ![r] = entered]
  BY DEF Submit
<1>5. RequestTypes'
  BY <1>1, <1>2, <1>3, <1>4 DEF RequestTypes, Positions
<1>6. \A u \in Requests \ {r} :
          /\ lpc'[u] = lpc[u] /\ form'[u] = form[u] /\ buf'[u] = buf[u]
          /\ header'[u] = header[u] /\ page'[u] = page[u] /\ cookie'[u] = cookie[u]
          /\ span'[u] = span[u] /\ lost'[u] = lost[u]
  BY <1>1, <1>3, <1>4 DEF RequestTypes
<1>7. /\ lpc'[r] = "username" /\ header'[r] = 0
      /\ span'[r].first = Len(versions) /\ span'[r].last = Len(versions)
  BY <1>1, <1>3 DEF RequestTypes, Answer
<1>8. Seen(lpc'[r], header'[r], versions, span'[r], lost'[r], form'[r])
  BY <1>2, <1>7 DEF Seen
<1>9. Exactly(lpc'[r], header'[r], versions[span'[r].first], form'[r])
  BY <1>7 DEF Exactly
<1>10. Answer(lpc'[r], buf'[r], header'[r], cookie'[r], page'[r])
  BY <1>1, <1>3, <1>7 DEF Answer
<1> QED  BY <1>3, <1>5, <1>6, <1>8, <1>9, <1>10, RequestFrame

\* The end of cgiMain in the middle of a request, and the answer.
LEMMA EndStep ==
    ASSUME LoginInv, NEW r \in Requests, Crash(r) \/ NoFile(r) \/ Respond(r)
    PROVE  LoginInv'
<1>1. /\ HistoryInv /\ RequestTypes
      /\ Seen(lpc[r], header[r], versions, span[r], lost[r], form[r])
      /\ Answer(lpc[r], buf[r], header[r], cookie[r], page[r])
      /\ lpc[r] # "none" /\ span[r].first = span[r].last /\ lost[r] = {}
            => Exactly(lpc[r], header[r], versions[span[r].first], form[r])
  BY DEF LoginInv, SeenInv, ExactInv, AnswerInv
<1>2. UNCHANGED <<versions, form, buf, header, span, lost>>
  BY DEF Crash, NoFile, Respond, settingsVars
<1>3. CASE Crash(r) \/ NoFile(r)
  <2>1. /\ lpc[r] # "none" /\ lpc[r] # "done"
        /\ lpc' = [lpc EXCEPT ![r] = "crashed"] /\ UNCHANGED <<page, cookie>>
    BY <1>3 DEF Crash, NoFile, LookingUp
  <2>2. RequestTypes' /\ lpc'[r] = "crashed"
    BY <1>1, <1>2, <2>1 DEF RequestTypes, Positions
  <2>3. Seen("crashed", header[r], versions, span[r], lost[r], form[r])
    BY <1>1, <2>1 DEF Seen
  <2>4. Exactly("crashed", header[r], versions[span[r].first], form[r])
    BY DEF Exactly
  <2>5. Answer("crashed", buf[r], header[r], cookie[r], page[r])
    BY <1>1, <2>1 DEF Answer
  <2>6. \A u \in Requests \ {r} :
            /\ lpc'[u] = lpc[u] /\ form'[u] = form[u] /\ buf'[u] = buf[u]
            /\ header'[u] = header[u] /\ page'[u] = page[u] /\ cookie'[u] = cookie[u]
            /\ span'[u] = span[u] /\ lost'[u] = lost[u]
    BY <1>1, <1>2, <2>1 DEF RequestTypes
  <2> QED  BY <1>2, <2>1, <2>2, <2>3, <2>4, <2>5, <2>6, RequestFrame
<1>4. CASE Respond(r)
  <2>1. /\ lpc[r] \in {"admin", "respond"}
        /\ lpc' = [lpc EXCEPT ![r] = "done"]
        /\ cookie' = [cookie EXCEPT ![r] = header[r]]
        /\ page' = [page EXCEPT ![r] = IF buf[r] = "ok" THEN "status" ELSE "alert"]
    BY <1>4 DEF Respond
  <2>2. /\ lpc'[r] = "done" /\ cookie'[r] = header[r]
        /\ page'[r] = IF buf[r] = "ok" THEN "status" ELSE "alert"
    BY <1>1, <2>1 DEF RequestTypes
  <2>3. RequestTypes'
    BY <1>1, <1>2, <2>1 DEF RequestTypes, Positions
  <2>4. Seen("done", header[r], versions, span[r], lost[r], form[r])
    BY <1>1, <2>1 DEF Seen
  <2>5. lpc'[r] # "none" /\ span'[r].first = span'[r].last /\ lost'[r] = {}
            => Exactly("done", header[r], versions[span[r].first], form[r])
    BY <1>1, <1>2, <2>1 DEF Exactly
  <2>6. Answer("done", buf[r], header[r], cookie'[r], page'[r])
    BY <1>1, <2>1, <2>2 DEF Answer
  <2>7. \A u \in Requests \ {r} :
            /\ lpc'[u] = lpc[u] /\ form'[u] = form[u] /\ buf'[u] = buf[u]
            /\ header'[u] = header[u] /\ page'[u] = page[u] /\ cookie'[u] = cookie[u]
            /\ span'[u] = span[u] /\ lost'[u] = lost[u]
    BY <1>1, <1>2, <2>1 DEF RequestTypes
  <2> QED  BY <1>2, <2>2, <2>3, <2>4, <2>5, <2>6, <2>7, RequestFrame
<1> QED  BY <1>3, <1>4

-----------------------------------------------------------------------------
(* The theorems.                                                           *)

\* No request has begun.
LEMMA InitLogin == Init => LoginInv
<1> SUFFICES ASSUME Init PROVE LoginInv
  OBVIOUS
<1>1. HistoryInv
  BY DEF Init, SettingsInit, HistoryInv
<1>2. RequestTypes
  BY DEF Init, RequestTypes, Positions
<1>3. \A r \in Requests : /\ lpc[r] = "none" /\ header[r] = 0 /\ buf[r] = "error"
                          /\ cookie[r] = 0 /\ page[r] = "login"
  BY DEF Init
<1> QED  BY <1>1, <1>2, <1>3 DEF LoginInv, SeenInv, Seen, ExactInv, AnswerInv, Answer

\* Every step of cgiMain, of the browser and of set_value keeps the invariant.
LEMMA NextLogin == LoginInv /\ [Next]_vars => LoginInv'
<1> SUFFICES ASSUME LoginInv, [Next]_vars PROVE LoginInv'
  OBVIOUS
<1>1. CASE SettingsNext /\ UNCHANGED loginVars
  BY <1>1, SettingsStep
<1>2. ASSUME NEW r \in Requests, Submit(r) \/ cgiMain(r) PROVE LoginInv'
  BY <1>2, SubmitStep, EndStep, CheckUserStep, CheckUserPwStep, CheckAdminStep,
     CheckAdminPwStep DEF cgiMain
<1>3. CASE UNCHANGED vars
  BY <1>3 DEF vars, settingsVars, loginVars, LoginInv, HistoryInv, RequestTypes, SeenInv,
              ExactInv, AnswerInv
<1> QED  BY <1>1, <1>2, <1>3 DEF Next

\* The invariant of the requests.
LEMMA LoginInvariant == Spec => []LoginInv
BY InitLogin, NextLogin, PTL DEF Spec

\* Whatever set_value does while login.c runs: a cookie is given only for a name
\* and a password of which each was the right one at some moment of the request,
\* or was compared with a dead stack frame that something had been written over.
THEOREM HalvesWereRight == Spec => []GrantedHalvesWereRight
<1>1. LoginInv => GrantedHalvesWereRight
  <2> SUFFICES ASSUME LoginInv, NEW r \in Requests
               PROVE  /\ cookie[r] = 1 => /\ WasRight(r, User, form[r].username)
                                          /\ WasRight(r, UserPw, form[r].password)
                      /\ cookie[r] = 2 => /\ WasRight(r, Admin, form[r].username)
                                          /\ WasRight(r, AdminPw, form[r].password)
                      /\ page[r] = "status" <=> cookie[r] > 0
    BY DEF GrantedHalvesWereRight
  <2>1. /\ Seen(lpc[r], header[r], versions, span[r], lost[r], form[r])
        /\ Answer(lpc[r], buf[r], header[r], cookie[r], page[r])
    BY DEF LoginInv, SeenInv, AnswerInv
  <2>2. \A key, text : Passed(versions, span[r], lost[r], key, text)
                          => WasRight(r, key, text)
    BY DEF Passed, WasIn, WasRight, Had
  <2>3. cookie[r] > 0 => cookie[r] = header[r]
    BY <2>1 DEF Answer
  <2>4. page[r] = "status" <=> cookie[r] > 0
    BY <2>1 DEF Answer
  <2> QED  BY <2>1, <2>2, <2>3, <2>4 DEF Seen
<1> QED  BY <1>1, LoginInvariant, PTL

\* If the file did not change while login.c looked its keys up and no dead stack
\* frame was overwritten, the four separate lookups together answer what that one
\* file says.
THEOREM LoginIsExact == Spec => []LoginExact
<1>1. LoginInv => LoginExact
  <2> SUFFICES ASSUME LoginInv, NEW r \in Requests, lpc[r] = "done",
                      span[r].first = span[r].last, lost[r] = {}
               PROVE  LET f == versions[span[r].first] IN
                      /\ cookie[r] = IF Grants(f, 2, form[r]) THEN 2
                                     ELSE IF Grants(f, 1, form[r]) THEN 1 ELSE 0
                      /\ page[r] = IF cookie[r] = 0 THEN "alert" ELSE "status"
    BY DEF LoginExact
  <2>1. /\ Exactly("done", header[r], versions[span[r].first], form[r])
        /\ Answer("done", buf[r], header[r], cookie[r], page[r])
        /\ header[r] \in 0 .. 2
    BY DEF LoginInv, ExactInv, AnswerInv, RequestTypes
  <2> QED  BY <2>1 DEF Exactly, Answer, UserLevel
<1> QED  BY <1>1, LoginInvariant, PTL

-----------------------------------------------------------------------------
(* The file.                                                               *)

FileInv == SetInv /\ LeftInv /\ CrashNeedsPrefix

\* What went wrong is not forgotten.
LEMMA MishapsStay ==
    ASSUME SettingsNext
    PROVE  mishaps \subseteq mishaps'
BY DEF SettingsNext, SetRead, SetCrash, SetWrite, SetAbandoned, get_line,
       GetLineNoFile

\* Steps of requests that none of them ends in the middle of.
LEMMA FileFrame ==
    ASSUME FileInv, UNCHANGED <<versions, setVars, lineVars>>, mishaps \subseteq mishaps',
           \A r \in Requests : lpc'[r] = "crashed" => lpc[r] = "crashed"
    PROVE  FileInv'
<1>1. /\ UNCHANGED <<versions, expected>> /\ UNCHANGED <<wpc, job>>
      /\ UNCHANGED <<exData, want, longest>>
    BY DEF setVars, lineVars
<1>2. SetInv'
    BY <1>1, SetFrame DEF FileInv, SetInv, SetDomains
<1>3. LeftInv'
    BY <1>1, LeftFrame DEF FileInv
<1>4. CrashNeedsPrefix'
    BY DEF FileInv, CrashNeedsPrefix
<1> QED  BY <1>2, <1>3, <1>4 DEF FileInv

\* cgiMain ends where it looks for a key that is not there.
LEMMA CrashStep ==
    ASSUME FileInv, NEW r \in Requests, Crash(r) \/ NoFile(r)
    PROVE  FileInv'
<1>1. UNCHANGED <<versions, setVars, lineVars>> /\ mishaps \subseteq mishaps'
    BY DEF Crash, NoFile, settingsVars, setVars, lineVars
<1>2. /\ UNCHANGED <<versions, expected>> /\ UNCHANGED <<wpc, job>>
      /\ UNCHANGED <<exData, want, longest>>
    BY <1>1 DEF setVars, lineVars
<1>3. SetInv'
    BY <1>1, <1>2, SetFrame DEF FileInv, SetInv, SetDomains
<1>4. LeftInv'
    BY <1>1, <1>2, LeftFrame DEF FileInv
<1>5. mishaps' \cap {"prefix", "overrun", "nofile"} # {}
  <2>1. CASE Crash(r)
    <3>1. NextKey(r) \in Delivered /\ ~get_value(file, NextKey(r)).found
      BY <2>1, LoginAssumption DEF Crash, LookingUp, NextKey, Missing, LoginKeys
    <3>2. mishaps \cap {"prefix", "overrun"} # {}
      BY <3>1, NothingMissing DEF FileInv
    <3> QED  BY <1>1, <3>2
  <2>2. CASE NoFile(r)
    BY <2>2 DEF NoFile
  <2> QED  BY <2>1, <2>2
<1> QED  BY <1>3, <1>4, <1>5 DEF FileInv, CrashNeedsPrefix

\* The delivered file, and no request.
LEMMA InitFile == Init => FileInv
<1> SUFFICES ASSUME Init PROVE FileInv
    OBVIOUS
<1>1. SettingsInit /\ \A r \in Requests : lpc[r] # "crashed"
    BY DEF Init
<1> QED  BY <1>1, InitSet, InitLeft DEF FileInv, CrashNeedsPrefix

\* Every step of every process keeps the invariant of the file.
LEMMA NextFile == LoginInv /\ FileInv /\ [Next]_vars => FileInv'
<1> SUFFICES ASSUME LoginInv, FileInv, [Next]_vars PROVE FileInv'
    OBVIOUS
<1>1. CASE SettingsNext /\ UNCHANGED loginVars
  <2>1. SetInv' /\ LeftInv'
    BY <1>1, SettingsKeepSet, SettingsKeepLeft DEF FileInv
  <2>2. mishaps \subseteq mishaps' /\ lpc' = lpc
    BY <1>1, MishapsStay DEF loginVars
  <2> QED  BY <2>1, <2>2 DEF FileInv, CrashNeedsPrefix
<1>2. ASSUME NEW r \in Requests, Submit(r) \/ cgiMain(r) PROVE FileInv'
  <2>1. CASE Crash(r) \/ NoFile(r)
    BY <2>1, CrashStep
  <2>2. CASE ~(Crash(r) \/ NoFile(r))
    <3>1. UNCHANGED settingsVars
      BY <1>2, <2>2 DEF cgiMain, Submit, CheckUser, CheckUserPw, CheckAdmin, CheckAdminPw,
                        Compare, Respond
    <3>2. \E pc \in Positions \ {"crashed"} : lpc' = [lpc EXCEPT ![r] = pc]
      BY <1>2, <2>2 DEF cgiMain, Submit, CheckUser, CheckUserPw, CheckAdmin, CheckAdminPw,
                        Compare, Respond, Positions
    <3>3. \A u \in Requests : lpc'[u] = "crashed" => lpc[u] = "crashed"
      BY <3>2 DEF LoginInv, RequestTypes
    <3>4. UNCHANGED <<versions, setVars, lineVars>> /\ mishaps \subseteq mishaps'
      BY <3>1 DEF settingsVars, setVars, lineVars
    <3> QED  BY <3>3, <3>4, FileFrame
  <2> QED  BY <2>1, <2>2
<1>3. CASE UNCHANGED vars
  <2>1. /\ UNCHANGED <<versions, setVars, lineVars>> /\ mishaps \subseteq mishaps'
        /\ lpc' = lpc
    BY <1>3 DEF vars, settingsVars, loginVars, setVars, lineVars
  <2> QED  BY <2>1, FileFrame
<1> QED  BY <1>1, <1>2, <1>3 DEF Next

\* The invariant of the file.
LEMMA FileInvariant == Spec => []FileInv
BY InitFile, NextFile, LoginInvariant, PTL DEF Spec

\* Whatever calls of set_value overlap or are abandoned and whatever names they
\* use: the remains that they leave behind the new text are whole lines but for
\* the first, and no two lines are run into each other.
THEOREM FileStaysInLines == Spec => []LinesNeverMerge
<1>1. FileInv => LinesNeverMerge
  BY SetSafe DEF FileInv
<1> QED  BY <1>1, FileInvariant, PTL

\* As long as calls of set_value do not overlap, no name is a proper prefix of a
\* key and all texts fit: get_value returns what was last set, and the delivered
\* value of all other keys, in spite of the remains at the end of the file.
THEOREM LastValueCounts == Spec => []LastSetWins
<1>1. FileInv => LastSetWins
  BY SetSafe DEF FileInv
<1> QED  BY <1>1, FileInvariant, PTL

\* get_line's answer starts with the last line that has the name, and ends with it
\* if the process has never copied a longer one into file_ex_data, nor one that
\* fills it; and a call that cannot open the file leaves the answer as it was.
THEOREM LinesLeaveRemains == Spec => []LineThenLeftovers
<1>1. FileInv => LineThenLeftovers
  BY LeftSafe DEF FileInv
<1> QED  BY <1>1, FileInvariant, PTL

\* login.c ends in the middle of a request only if the file cannot be opened, or a
\* set_value with a proper prefix of a key or a text that does not fit has removed
\* a key: overlapping and abandoned calls never do.
THEOREM CrashHasReason == Spec => []CrashNeedsPrefix
<1>1. FileInv => CrashNeedsPrefix
  BY DEF FileInv
<1> QED  BY <1>1, FileInvariant, PTL
=============================================================================
