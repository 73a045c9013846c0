---------------------------- MODULE SignInProofs ----------------------------
(***************************************************************************)
(* A login gives one session, and a session that was signed out does not   *)
(* come back, for any pages, addresses, people, logins, codes and faults.  *)
(* The argument is SInv: a login is at one stage only, pending, being      *)
(* exchanged or in a session (LoginsUsedOnce), and the session it gives is *)
(* named by a code that is spent from then on, so that a token which is    *)
(* gone stays gone (Gone).                                                 *)
(***************************************************************************)
EXTENDS SignIn, FiniteSetTheorems, TLAPS

PageAts  == {"boot", "signin", "provider", "back", "waiting", "failed", "desktop", "leaving"}
PageWhos == {"none", "asking", "ready", "failed"}
PageOuts == {"no", "asking", "failed", "done"}
PageCalls == {"none", "WhoAmI", "SignOut", "ending"}

Pages == [at : PageAts, login : Nat, code : Nat, who : PageWhos, out : PageOuts,
          rechecked : BOOLEAN, call : PageCalls, sent : Nat, left : Nat]

Code == [person : People, addr : Addresses, sso : Nat, spent : BOOLEAN]

\* A session that was, and can be no more: its code gives no other.
Gone(token, cs, ss) == token \in DOMAIN cs /\ cs[token].spent /\ token \notin DOMAIN ss

Exchanges == {j \in work : j.kind = "exchange"}

CodesOK ==
    /\ codes \in [DOMAIN codes -> Code]
    /\ \E n \in Nat : DOMAIN codes = 1 .. n

CookiesOK ==
    /\ jar \in [Addresses -> {0} \cup DOMAIN codes]
    /\ sso \in [Addresses -> {0} \cup DOMAIN codes]

SessionsOK ==
    /\ asked \in Nat
    /\ DOMAIN pending \subseteq 1 .. asked
    /\ \A s \in DOMAIN sessions :
        s \in DOMAIN codes /\ codes[s].spent /\ sessions[s].via \in 1 .. asked

\* A callback waits for the exchange of a code it was given; a sign-out waits
\* only once its session is gone.
WorkOK ==
    \A j \in work :
        /\ j.kind \in {"exchange", "end"} /\ j.tab \in Tabs
        /\ j.kind = "exchange" => /\ j.code \in DOMAIN codes /\ j.addr \in Addresses
                                  /\ j.login \in 1 .. asked
        /\ j.kind = "end" => Gone(j.token, codes, sessions)

\* A login is pending, or being exchanged by one callback, or of one session.
LoginsUsedOnce ==
    /\ \A j \in Exchanges : j.login \notin DOMAIN pending
    /\ \A i, j \in Exchanges : i.login = j.login => i = j
    /\ \A s \in DOMAIN sessions :
        /\ sessions[s].via \notin DOMAIN pending
        /\ \A j \in Exchanges : sessions[s].via # j.login
        /\ \A o \in DOMAIN sessions : sessions[s].via = sessions[o].via => s = o

GoodPage(p, cs, ss) ==
    /\ p \in Pages
    /\ p.code \in {0} \cup DOMAIN cs
    /\ p.at = "back" => p.code # 0
    /\ p.out = "done" => Gone(p.left, cs, ss)

PagesOK ==
    /\ tabs \in [Tabs -> Pages]
    /\ \A t \in Tabs : GoodPage(tabs[t], codes, sessions)

SInv == CodesOK /\ CookiesOK /\ SessionsOK /\ WorkOK /\ LoginsUsedOnce /\ PagesOK

-----------------------------------------------------------------------------
(* Tables, pages and tokens. *)

LEMMA LiveTable ==
  ASSUME NEW table
  PROVE  /\ DOMAIN Live(table) \subseteq DOMAIN table
         /\ \A k \in DOMAIN Live(table) : Live(table)[k] = table[k]
  BY DEF Live, Restrict

LEMMA Added ==
  ASSUME NEW table, NEW k, NEW v
  PROVE  LET new == With(table, k, v) IN
         /\ DOMAIN new = DOMAIN table \cup {k}
         /\ \A o \in DOMAIN table : o # k => new[o] = table[o]
         /\ new[k] = v
  BY DEF With

\* Codes are not given back, and no session starts with one that was spent.
Follows ==
    /\ DOMAIN codes \subseteq DOMAIN codes'
    /\ \A k \in DOMAIN codes : codes[k].spent => codes'[k].spent
    /\ \A k \in DOMAIN sessions' : k \in DOMAIN sessions \/ (k \in DOMAIN codes => ~codes[k].spent)

LEMMA GoneStays ==
  ASSUME Follows, NEW token, Gone(token, codes, sessions)
  PROVE  Gone(token, codes', sessions')
  BY DEF Follows, Gone

LEMMA PageStays ==
  ASSUME Follows, NEW p, GoodPage(p, codes, sessions)
  PROVE  GoodPage(p, codes', sessions')
  BY GoneStays DEF Follows, GoodPage

LEMMA PagesStay ==
  ASSUME SInv, Follows, UNCHANGED tabs
  PROVE  PagesOK'
  BY PageStays DEF SInv, PagesOK

LEMMA PageGoes ==
  ASSUME SInv, Follows, NEW t \in Tabs, NEW p, PageGoesTo(t, p), GoodPage(p, codes', sessions')
  PROVE  PagesOK'
<1>1. p \in Pages
  BY DEF GoodPage
<1>2. /\ tabs' \in [Tabs -> Pages]
      /\ \A o \in Tabs : tabs'[o] = IF o = t THEN p ELSE tabs[o]
  BY <1>1 DEF SInv, PagesOK, PageGoesTo
<1>3. ASSUME NEW o \in Tabs PROVE GoodPage(tabs[o], codes', sessions')
  BY PageStays DEF SInv, PagesOK
<1> QED
  BY <1>2, <1>3 DEF PagesOK

\* A page that starts afresh.
LEMMA FreshPage ==
  ASSUME NEW at \in PageAts, at # "back", NEW cs, NEW ss
  PROVE  GoodPage(Page(at), cs, ss)
  BY DEF GoodPage, Page, Pages, PageAts, PageWhos, PageOuts, PageCalls

-----------------------------------------------------------------------------
(* Steps at which the tables only shrink. *)

LEMMA Shrinks ==
  ASSUME SInv, UNCHANGED <<codes, asked>>, work' \subseteq work,
         pending' = pending \/ pending' = Live(pending),
         sessions' = sessions \/ sessions' = Live(sessions)
  PROVE  Follows /\ CodesOK' /\ SessionsOK' /\ WorkOK' /\ LoginsUsedOnce'
<1>1. /\ DOMAIN pending' \subseteq DOMAIN pending
      /\ DOMAIN sessions' \subseteq DOMAIN sessions
      /\ \A s \in DOMAIN sessions' : sessions'[s] = sessions[s]
  BY LiveTable
<1>2. Follows
  BY <1>1 DEF Follows
<1>3. CodesOK'
  BY DEF SInv, CodesOK
<1>4. SessionsOK'
  BY <1>1 DEF SInv, SessionsOK
<1>5. WorkOK'
  BY <1>2, GoneStays DEF SInv, WorkOK
<1>6. LoginsUsedOnce'
  BY <1>1 DEF SInv, LoginsUsedOnce, Exchanges
<1> QED
  BY <1>2, <1>3, <1>4, <1>5, <1>6

LEMMA PageMoves ==
  ASSUME SInv, NEW t \in Tabs, NEW p, PageGoesTo(t, p), GoodPage(p, codes, sessions),
         UNCHANGED <<codes, asked, work, sso, jar>>,
         pending' = pending \/ pending' = Live(pending),
         sessions' = sessions \/ sessions' = Live(sessions)
  PROVE  SInv'
<1>1. Follows /\ CodesOK' /\ SessionsOK' /\ WorkOK' /\ LoginsUsedOnce'
  BY Shrinks
<1>2. PagesOK'
  BY <1>1, PageStays, PageGoes
<1>3. CookiesOK'
  BY DEF SInv, CookiesOK
<1> QED
  BY <1>1, <1>2, <1>3 DEF SInv


LEMMA SameTables ==
  ASSUME SInv, UNCHANGED <<codes, asked, work, sso, jar, pending, sessions>>,
         NEW t \in Tabs, NEW p, PageGoesTo(t, p), GoodPage(p, codes, sessions)
  PROVE  SInv'
  BY PageMoves

\* A session is removed, and its sign-out waits for the provider.
LEMMA EndsSession ==
  ASSUME SInv, NEW t \in Tabs, NEW token, NEW table, table = sessions \/ table = Live(sessions),
         token \in DOMAIN table, EndSession(t, token, table),
         UNCHANGED <<codes, asked, pending, sso, jar>>,
         NEW p, PageGoesTo(t, p), GoodPage(p, codes, sessions)
  PROVE  SInv'
<1> DEFINE new == Telling(t, token)
<1>1. /\ token \in DOMAIN sessions
      /\ DOMAIN sessions' \subseteq DOMAIN sessions \ {token}
      /\ \A s \in DOMAIN sessions' : sessions'[s] = sessions[s]
  BY LiveTable DEF EndSession, Restrict
<1>2. Follows
  BY <1>1 DEF Follows
<1>3. CodesOK' /\ CookiesOK'
  BY DEF SInv, CodesOK, CookiesOK
<1>4. SessionsOK'
  BY <1>1 DEF SInv, SessionsOK
<1>5. work' = work \cup {new} /\ new.kind = "end" /\ new.tab = t /\ new.token = token
  BY DEF EndSession, Telling
<1>6. Gone(token, codes', sessions')
  BY <1>1 DEF SInv, SessionsOK, Gone
<1> HIDE DEF new
<1>7. WorkOK'
  BY <1>2, <1>5, <1>6, GoneStays DEF SInv, WorkOK
<1>8. Exchanges' = Exchanges
  BY <1>5 DEF Exchanges
<1>9. LoginsUsedOnce'
  BY <1>1, <1>8 DEF SInv, LoginsUsedOnce
<1>10. PagesOK'
  BY <1>2, PageStays, PageGoes
<1> QED
  BY <1>3, <1>4, <1>7, <1>9, <1>10 DEF SInv

-----------------------------------------------------------------------------
(* The way in. *)

LEMMA SInit ==
  ASSUME Init PROVE SInv
<1>1. DOMAIN codes = 1 .. 0 /\ DOMAIN pending = {} /\ DOMAIN sessions = {} /\ work = {}
  BY DEF Init
<1>2. CodesOK
  BY <1>1 DEF CodesOK
<1>3. CookiesOK /\ SessionsOK /\ WorkOK /\ LoginsUsedOnce
  BY <1>1 DEF Init, CookiesOK, SessionsOK, WorkOK, LoginsUsedOnce, Exchanges
<1>4. PagesOK
  <2>1. GoodPage(Page("boot"), codes, sessions)
    BY FreshPage DEF PageAts
  <2> QED
    BY <2>1 DEF Init, PagesOK, GoodPage
<1> QED
  BY <1>2, <1>3, <1>4 DEF SInv

\* What a page is, and what it may become without leaving its invariant.
LEMMA ThisPage ==
  ASSUME SInv, NEW t \in Tabs
  PROVE  tabs[t] \in Pages /\ GoodPage(tabs[t], codes, sessions)
  BY DEF SInv, PagesOK

At(p, at) == [p EXCEPT !.at = at]

LEMMA PageAt ==
  ASSUME NEW p, NEW cs, NEW ss, GoodPage(p, cs, ss), NEW at \in PageAts,
         at = "back" => p.code # 0
  PROVE  GoodPage(At(p, at), cs, ss) /\ At(p, at).code = p.code
<1>1. At(p, at) \in Pages /\ At(p, at).code = p.code /\ At(p, at).out = p.out
      /\ At(p, at).left = p.left /\ At(p, at).at = at
  BY DEF At, GoodPage, Pages
<1> QED
  BY <1>1 DEF GoodPage

LEMMA SAskMe ==
  ASSUME SInv, NEW t \in Tabs, AskMe(t) PROVE SInv'
<1>1. PICK at \in {"signin", "desktop"} : PageGoesTo(t, At(tabs[t], at))
  BY DEF AskMe, At
<1>2. GoodPage(At(tabs[t], at), codes, sessions)
  BY ThisPage, PageAt DEF PageAts
<1> QED
  BY <1>1, <1>2, PageMoves DEF AskMe

LEMMA SDecline ==
  ASSUME SInv, NEW t \in Tabs, Decline(t) \/ Unreachable(t) PROVE SInv'
<1>1. PageGoesTo(t, At(tabs[t], "failed"))
  BY DEF Decline, Unreachable, At
<1>2. GoodPage(At(tabs[t], "failed"), codes, sessions)
  BY ThisPage, PageAt DEF PageAts
<1> QED
  BY <1>1, <1>2, SameTables DEF Decline, Unreachable

LEMMA SReload ==
  ASSUME SInv, NEW t \in Tabs, Reload(t) \/ Refused(t) PROVE SInv'
<1>1. GoodPage(Page("boot"), codes, sessions)
  BY FreshPage DEF PageAts
<1> QED
  BY <1>1, PageMoves DEF Reload, Refused

For(p, n) == [p EXCEPT !.login = n]

LEMMA LoginPage ==
  ASSUME NEW p, NEW n \in Nat, NEW cs, NEW ss, GoodPage(p, cs, ss)
  PROVE  GoodPage(For(p, n), cs, ss)
<1>1. For(p, n) \in Pages /\ For(p, n).code = p.code /\ For(p, n).at = p.at
      /\ For(p, n).out = p.out /\ For(p, n).left = p.left
  BY DEF For, GoodPage, Pages
<1> QED
  BY <1>1 DEF GoodPage

\* A login no one has used is pending.
LEMMA SLogin ==
  ASSUME SInv, NEW t \in Tabs, Login(t) PROVE SInv'
<1> DEFINE p == For(Page("provider"), asked')
<1>1. asked \in Nat /\ asked' = asked + 1
  BY DEF Login, SInv, SessionsOK
<1>2. DOMAIN pending' = DOMAIN pending \cup {asked + 1}
  BY <1>1, Added DEF Login
<1>3. Follows
  BY DEF Login, Follows
<1>4. GoodPage(p, codes', sessions')
  <2>1. GoodPage(Page("provider"), codes', sessions')
    BY FreshPage DEF PageAts
  <2> QED
    BY <1>1, <2>1, LoginPage
<1>5. PageGoesTo(t, p)
  BY DEF Login, For
<1> HIDE DEF p
<1>6. PagesOK'
  BY <1>3, <1>4, <1>5, PageGoes
<1>7. CodesOK' /\ CookiesOK'
  BY DEF Login, SInv, CodesOK, CookiesOK
<1>8. 1 .. asked \subseteq 1 .. asked' /\ asked + 1 \in 1 .. asked' /\ asked + 1 \notin 1 .. asked
  BY <1>1
<1>9. SessionsOK'
  BY <1>1, <1>2, <1>8 DEF Login, SInv, SessionsOK
<1>10. WorkOK'
  BY <1>3, <1>8, GoneStays DEF Login, SInv, WorkOK
<1>11. \A j \in Exchanges : j.login # asked + 1
  BY <1>8 DEF SInv, WorkOK, Exchanges
<1>12. \A s \in DOMAIN sessions : sessions[s].via # asked + 1
  BY <1>8 DEF SInv, SessionsOK
<1>13. LoginsUsedOnce'
  BY <1>2, <1>11, <1>12 DEF Login, SInv, LoginsUsedOnce, Exchanges
<1> QED
  BY <1>6, <1>7, <1>9, <1>10, <1>13 DEF SInv

\* A page of the provider's, or the callback with the code it has.
Again(p) == [p EXCEPT !.at = "provider", !.code = 0]
Back(p, c) == [p EXCEPT !.at = "back", !.code = c]

LEMMA AgainPage ==
  ASSUME NEW p, NEW cs, NEW ss, GoodPage(p, cs, ss)
  PROVE  GoodPage(Again(p), cs, ss)
<1>1. Again(p) \in Pages /\ Again(p).at = "provider" /\ Again(p).code = 0
      /\ Again(p).out = p.out /\ Again(p).left = p.left
  BY DEF Again, GoodPage, Pages, PageAts
<1> QED
  BY <1>1 DEF GoodPage

LEMMA BackPage ==
  ASSUME NEW p, NEW cs, NEW ss, GoodPage(p, cs, ss), NEW c \in DOMAIN cs, c \in Nat \ {0}
  PROVE  GoodPage(Back(p, c), cs, ss)
<1>1. Back(p, c) \in Pages /\ Back(p, c).code = c
      /\ Back(p, c).out = p.out /\ Back(p, c).left = p.left
  BY DEF Back, GoodPage, Pages, PageAts
<1> QED
  BY <1>1 DEF GoodPage

LEMMA SGoBack ==
  ASSUME SInv, NEW t \in Tabs, GoBack(t) PROVE SInv'
<1>1. CASE PageGoesTo(t, Again(tabs[t]))
  BY <1>1, ThisPage, AgainPage, SameTables DEF GoBack
<1>2. CASE tabs[t].code # 0 /\ PageGoesTo(t, At(tabs[t], "back"))
  <2>1. GoodPage(At(tabs[t], "back"), codes, sessions)
    BY <1>2, ThisPage, PageAt DEF PageAts
  <2> QED
    BY <1>2, <2>1, SameTables DEF GoBack
<1> QED
  BY <1>1, <1>2 DEF GoBack, Again, At

\* The next code is new: no session is named by it, none was.
LEMMA SProvide ==
  ASSUME SInv, NEW t \in Tabs, Provide(t) PROVE SInv'
<1> DEFINE a == AddressOf[t]
           c == Cardinality(DOMAIN codes) + 1
<1>1. PICK n \in Nat : DOMAIN codes = 1 .. n
  BY DEF SInv, CodesOK
<1>2. c = n + 1
  <2>1. Cardinality(1 .. n) = n
    BY FS_Interval
  <2> QED
    BY <1>1, <2>1
<1>3. c \in Nat \ {0} /\ c \notin DOMAIN codes
  BY <1>1, <1>2
<1>4. PICK p \in People :
        /\ codes' = With(codes, c, [person |-> p, addr |-> a, sso |-> sso'[a], spent |-> FALSE])
        /\ sso' = sso \/ sso' = [sso EXCEPT ![a] = c]
        /\ PageGoesTo(t, Back(tabs[t], c))
  BY DEF Provide, Back
<1> DEFINE new == [person |-> p, addr |-> a, sso |-> sso'[a], spent |-> FALSE]
<1> HIDE DEF c
<1>5. /\ DOMAIN codes' = DOMAIN codes \cup {c}
      /\ \A k \in DOMAIN codes : codes'[k] = codes[k]
      /\ codes'[c] = new
  BY <1>3, <1>4 DEF With
<1>6. CookiesOK'
  BY <1>4, <1>5 DEF Provide, SInv, CookiesOK
<1>7. a \in Addresses
  BY SignInAssumption DEF SignInAssumption
<1>8. new \in Code
  <2>1. sso'[a] \in {0} \cup DOMAIN codes'
    BY <1>6, <1>7 DEF CookiesOK
  <2>2. sso'[a] \in Nat
    BY <2>1, <1>1, <1>3, <1>5
  <2> QED
    BY <1>4, <1>7, <2>2 DEF Code
<1> HIDE DEF new
<1>9. CodesOK'
  <2>1. DOMAIN codes' = 1 .. (n + 1) /\ n + 1 \in Nat
    BY <1>1, <1>2, <1>5
  <2>2. codes' = [k \in DOMAIN codes' |-> codes'[k]]
    BY <1>4 DEF With
  <2>3. \A k \in DOMAIN codes' : codes'[k] \in Code
    BY <1>5, <1>8 DEF SInv, CodesOK
  <2> QED
    BY <2>1, <2>2, <2>3 DEF CodesOK
<1>10. Follows
  BY <1>5 DEF Provide, Follows
<1>11. SessionsOK'
  BY <1>5 DEF Provide, SInv, SessionsOK
<1>12. WorkOK'
  BY <1>5, <1>10, GoneStays DEF Provide, SInv, WorkOK
<1>13. LoginsUsedOnce'
  BY DEF Provide, SInv, LoginsUsedOnce, Exchanges
<1>14. PagesOK'
  <2>1. GoodPage(tabs[t], codes', sessions')
    BY <1>10, ThisPage, PageStays
  <2>2. GoodPage(Back(tabs[t], c), codes', sessions')
    BY <2>1, <1>3, <1>5, BackPage
  <2> QED
    BY <2>2, <1>4, <1>10, PageGoes
<1> QED
  BY <1>6, <1>9, <1>11, <1>12, <1>13, <1>14 DEF SInv

\* The login taken is pending no more, and no one else has it.
LEMMA SCallback ==
  ASSUME SInv, NEW t \in Tabs, Callback(t) PROVE SInv'
<1> DEFINE login == tabs[t].login
           new == [kind |-> "exchange", login |-> login, code |-> tabs[t].code,
                   addr |-> AddressOf[t], tab |-> t]
<1>1. GoodPage(tabs[t], codes, sessions)
  BY ThisPage
<1>2. CASE /\ login \notin DOMAIN Live(pending)
           /\ pending' = Live(pending)
           /\ PageGoesTo(t, At(tabs[t], "failed"))
           /\ UNCHANGED work
  <2>1. GoodPage(At(tabs[t], "failed"), codes, sessions)
    BY <1>1, PageAt DEF PageAts
  <2> QED
    BY <1>2, <2>1, PageMoves DEF Callback
<1>3. CASE /\ TakeLogin(login)
           /\ work' = work \cup {new}
           /\ PageGoesTo(t, At(tabs[t], "waiting"))
  <2>1. /\ login \in DOMAIN pending
        /\ DOMAIN pending' \subseteq DOMAIN pending \ {login}
    BY <1>3, LiveTable DEF TakeLogin, Restrict
  <2>2. /\ new.kind = "exchange" /\ new.tab = t /\ new.login = login
        /\ new.code \in DOMAIN codes /\ new.addr \in Addresses
    BY <1>1, SignInAssumption DEF SignInAssumption, Callback, GoodPage
  <2> HIDE DEF new, login
  <2>3. Follows
    BY DEF Callback, Follows
  <2>4. CodesOK' /\ CookiesOK'
    BY DEF Callback, SInv, CodesOK, CookiesOK
  <2>5. SessionsOK'
    BY <2>1 DEF Callback, SInv, SessionsOK
  <2>6. WorkOK'
    BY <1>3, <2>1, <2>2, <2>3, GoneStays DEF Callback, SInv, WorkOK, SessionsOK
  <2>7. Exchanges' = Exchanges \cup {new}
    BY <1>3, <2>2 DEF Exchanges
  <2>8. LoginsUsedOnce'
    BY <2>1, <2>2, <2>7 DEF Callback, SInv, LoginsUsedOnce
  <2>9. GoodPage(At(tabs[t], "waiting"), codes', sessions')
    BY <1>1, <2>3, PageAt, PageStays DEF PageAts
  <2> QED
    BY <1>3, <2>3, <2>4, <2>5, <2>6, <2>8, <2>9, PageGoes DEF SInv
<1> QED
  BY <1>2, <1>3 DEF Callback, At

\* A callback that fails shows it, if its page still waits for it.
LEMMA CallbackFailsPages ==
  ASSUME SInv, Follows, NEW j \in work, CallbackFails(j)
  PROVE  PagesOK'
<1>1. CASE PageGoesTo(j.tab, At(tabs[j.tab], "failed"))
  <2>1. j.tab \in Tabs
    BY DEF SInv, WorkOK
  <2>2. GoodPage(At(tabs[j.tab], "failed"), codes', sessions')
    BY <2>1, ThisPage, PageAt, PageStays DEF PageAts
  <2> QED
    BY <1>1, <2>1, <2>2, PageGoes
<1>2. CASE UNCHANGED tabs
  BY <1>2, PagesStay
<1> QED
  BY <1>1, <1>2 DEF CallbackFails, PageGoesTo, At

SpentAs(c, s) == [c EXCEPT !.spent = s]

LEMMA SpentCode ==
  ASSUME NEW c \in Code, NEW s \in BOOLEAN
  PROVE  SpentAs(c, s) \in Code /\ SpentAs(c, s).spent = s
  BY DEF SpentAs, Code

\* A code is spent, or left as it was.
LEMMA Spends ==
  ASSUME SInv, NEW c \in DOMAIN codes, NEW s \in BOOLEAN, codes[c].spent => s,
         codes' = [codes EXCEPT ![c].spent = s]
  PROVE  /\ DOMAIN codes' = DOMAIN codes
         /\ CodesOK'
         /\ \A k \in DOMAIN codes : codes'[k].spent = IF k = c THEN s ELSE codes[k].spent
<1> DEFINE new == SpentAs(codes[c], s)
<1>1. codes' = [k \in DOMAIN codes |-> IF k = c THEN new ELSE codes[k]]
  BY Zenon DEF SpentAs
<1>2. new \in Code /\ new.spent = s
  BY SpentCode DEF SInv, CodesOK
<1> HIDE DEF new
<1>3. DOMAIN codes' = DOMAIN codes
  BY <1>1
<1>4. CodesOK'
  BY <1>1, <1>2, <1>3 DEF SInv, CodesOK
<1> QED
  BY <1>1, <1>2, <1>3, <1>4

\* The exchange is over without a session.
LEMMA ExchangeFails ==
  ASSUME SInv, NEW j \in work, j.kind = "exchange", work' = work \ {j},
         NEW s \in BOOLEAN, codes[j.code].spent => s,
         codes' = [codes EXCEPT ![j.code].spent = s], CallbackFails(j),
         UNCHANGED <<asked, pending, sso>>
  PROVE  SInv'
<1>1. j.code \in DOMAIN codes
  BY DEF SInv, WorkOK
<1>2. /\ DOMAIN codes' = DOMAIN codes
      /\ CodesOK'
      /\ \A k \in DOMAIN codes : codes'[k].spent = IF k = j.code THEN s ELSE codes[k].spent
  BY <1>1, Spends
<1>3. Follows
  BY <1>2 DEF CallbackFails, Follows
<1>4. PagesOK'
  BY <1>3, CallbackFailsPages
<1>5. CookiesOK'
  BY <1>2 DEF CallbackFails, SInv, CookiesOK
<1>6. SessionsOK'
  BY <1>2 DEF CallbackFails, SInv, SessionsOK
<1>7. WorkOK'
  BY <1>2, <1>3, GoneStays DEF CallbackFails, SInv, WorkOK
<1>8. LoginsUsedOnce'
  BY DEF CallbackFails, SInv, LoginsUsedOnce, Exchanges
<1> QED
  BY <1>2, <1>4, <1>5, <1>6, <1>7, <1>8 DEF SInv

\* The session it gives is the only one of its login, and the code that names
\* it was not spent before, so it is none that is gone.
LEMMA ExchangeSucceeds ==
  ASSUME SInv, NEW j \in work, j.kind = "exchange", work' = work \ {j},
         ~codes[j.code].spent, codes' = [codes EXCEPT ![j.code].spent = TRUE],
         NEW session, session.via = j.login, sessions' = With(sessions, j.code, session),
         \/ /\ jar' = [jar EXCEPT ![j.addr] = j.code]
            /\ PageGoesTo(j.tab, Page("boot"))
         \/ UNCHANGED <<jar, tabs>>,
         UNCHANGED <<asked, pending, sso>>
  PROVE  SInv'
<1>1. /\ j.code \in DOMAIN codes /\ j.tab \in Tabs /\ j.addr \in Addresses
      /\ j.login \in 1 .. asked /\ j \in Exchanges
  BY DEF SInv, WorkOK, Exchanges
<1>2. /\ DOMAIN codes' = DOMAIN codes
      /\ CodesOK'
      /\ \A k \in DOMAIN codes : codes'[k].spent = IF k = j.code THEN TRUE ELSE codes[k].spent
  BY <1>1, Spends
<1>3. j.code \notin DOMAIN sessions
  BY DEF SInv, SessionsOK
<1>4. /\ DOMAIN sessions' = DOMAIN sessions \cup {j.code}
      /\ \A s \in DOMAIN sessions : sessions'[s] = sessions[s]
      /\ sessions'[j.code] = session
  BY <1>3 DEF With
<1>5. Follows
  BY <1>2, <1>4 DEF Follows
<1>6. PagesOK'
  <2>1. GoodPage(Page("boot"), codes', sessions')
    BY FreshPage DEF PageAts
  <2> QED
    BY <1>1, <1>5, <2>1, PageGoes, PagesStay
<1>7. CookiesOK'
  BY <1>1, <1>2 DEF SInv, CookiesOK
<1>8. SessionsOK'
  BY <1>1, <1>2, <1>4 DEF SInv, SessionsOK
<1>9. WorkOK'
  BY <1>2, <1>5, GoneStays DEF SInv, WorkOK
<1>10. LoginsUsedOnce'
  <2>1. Exchanges' = Exchanges \ {j}
    BY <1>1 DEF Exchanges
  <2>2. /\ j.login \notin DOMAIN pending
        /\ \A i \in Exchanges : i.login = j.login => i = j
        /\ \A s \in DOMAIN sessions : sessions[s].via # j.login
    BY <1>1 DEF SInv, LoginsUsedOnce
  <2>3. \A i \in Exchanges' : i.login \notin DOMAIN pending'
    BY <2>1 DEF SInv, LoginsUsedOnce
  <2>4. \A i, o \in Exchanges' : i.login = o.login => i = o
    BY <2>1 DEF SInv, LoginsUsedOnce
  <2>5. ASSUME NEW s \in DOMAIN sessions'
        PROVE  /\ sessions'[s].via \notin DOMAIN pending'
               /\ \A i \in Exchanges' : sessions'[s].via # i.login
               /\ \A o \in DOMAIN sessions' : sessions'[s].via = sessions'[o].via => s = o
    BY <1>4, <2>1, <2>2 DEF SInv, LoginsUsedOnce
  <2> QED
    BY <2>3, <2>4, <2>5 DEF LoginsUsedOnce
<1> QED
  BY <1>2, <1>6, <1>7, <1>8, <1>9, <1>10 DEF SInv

LEMMA SExchange ==
  ASSUME SInv, NEW j \in work, Exchange(j) PROVE SInv'
<1> DEFINE c == codes[j.code]
<1>1. /\ j.kind = "exchange" /\ work' = work \ {j}
      /\ UNCHANGED <<asked, pending, sso>>
  BY DEF Exchange
<1>2. c.spent \in BOOLEAN
  BY <1>1 DEF SInv, WorkOK, CodesOK, Code
<1>3. CASE \E spent \in {c.spent, TRUE} : /\ codes' = [codes EXCEPT ![j.code].spent = spent]
                                          /\ CallbackFails(j)
  <2>1. PICK s \in {c.spent, TRUE} : codes' = [codes EXCEPT ![j.code].spent = s]
    BY <1>3
  <2>2. s \in BOOLEAN /\ (codes[j.code].spent => s)
    BY <1>2
  <2> QED
    BY <1>1, <1>3, <2>1, <2>2, ExchangeFails
<1>4. CASE codes' = [codes EXCEPT ![j.code].spent = TRUE] /\ CallbackFails(j)
  BY <1>1, <1>4, ExchangeFails
<1>5. CASE /\ codes' = [codes EXCEPT ![j.code].spent = TRUE]
           /\ ~c.spent
           /\ \E refresh \in BOOLEAN :
                sessions' = With(sessions, j.code,
                        [login |-> c.person, addr |-> j.addr, sso |-> c.sso, via |-> j.login,
                         refresh |-> refresh, expires |-> clock + SessionTtl])
           /\ \/ /\ jar' = [jar EXCEPT ![j.addr] = j.code]
                 /\ PageGoesTo(j.tab, Page("boot"))
              \/ UNCHANGED <<jar, tabs>>
  <2>1. PICK refresh \in BOOLEAN :
          sessions' = With(sessions, j.code,
                        [login |-> c.person, addr |-> j.addr, sso |-> c.sso, via |-> j.login,
                         refresh |-> refresh, expires |-> clock + SessionTtl])
    BY <1>5
  <2> DEFINE session == [login |-> c.person, addr |-> j.addr, sso |-> c.sso, via |-> j.login,
                         refresh |-> refresh, expires |-> clock + SessionTtl]
  <2>2. session.via = j.login
    OBVIOUS
  <2>3. sessions' = With(sessions, j.code, session)
    BY <2>1
  <2> HIDE DEF session
  <2> QED
    BY <1>1, <1>5, <2>2, <2>3, ExchangeSucceeds
<1> QED
  BY <1>3, <1>4, <1>5 DEF Exchange

-----------------------------------------------------------------------------
(* A desktop and its Account app. *)

Asks(p, kind, n) == [p EXCEPT !.call = kind, !.sent = n]
Who(p, who)      == [p EXCEPT !.who = who]
Out(p, out)      == [p EXCEPT !.out = out]
Rechecks(p)      == [p EXCEPT !.who = "asking", !.rechecked = TRUE]
Knows(p)         == [p EXCEPT !.call = "none", !.sent = 0, !.who = "ready"]
Ends(p)          == [p EXCEPT !.call = "ending"]
IsOut(p, token)  == [p EXCEPT !.call = "none", !.sent = 0, !.out = "done", !.left = token]

LEMMA AppPages ==
  ASSUME NEW p, NEW cs, NEW ss, GoodPage(p, cs, ss)
  PROVE  /\ GoodPage(Who(p, "asking"), cs, ss)
         /\ GoodPage(Out(p, "asking"), cs, ss)
         /\ GoodPage(Rechecks(p), cs, ss)
         /\ GoodPage(Knows(p), cs, ss)
         /\ GoodPage(Ends(p), cs, ss)
<1>1. GoodPage(Who(p, "asking"), cs, ss)
  <2>1. Who(p, "asking") \in Pages /\ Who(p, "asking").code = p.code /\ Who(p, "asking").at = p.at
        /\ Who(p, "asking").out = p.out /\ Who(p, "asking").left = p.left
    BY DEF Who, GoodPage, Pages, PageWhos
  <2> QED
    BY <2>1 DEF GoodPage
<1>2. GoodPage(Out(p, "asking"), cs, ss)
  <2>1. Out(p, "asking") \in Pages /\ Out(p, "asking").code = p.code /\ Out(p, "asking").at = p.at
        /\ Out(p, "asking").out = "asking"
    BY DEF Out, GoodPage, Pages, PageOuts
  <2> QED
    BY <2>1 DEF GoodPage
<1>3. GoodPage(Rechecks(p), cs, ss)
  <2>1. Rechecks(p) \in Pages /\ Rechecks(p).code = p.code /\ Rechecks(p).at = p.at
        /\ Rechecks(p).out = p.out /\ Rechecks(p).left = p.left
    BY DEF Rechecks, GoodPage, Pages, PageWhos
  <2> QED
    BY <2>1 DEF GoodPage
<1>4. GoodPage(Knows(p), cs, ss)
  <2>1. Knows(p) \in Pages /\ Knows(p).code = p.code /\ Knows(p).at = p.at
        /\ Knows(p).out = p.out /\ Knows(p).left = p.left
    BY DEF Knows, GoodPage, Pages, PageWhos, PageCalls
  <2> QED
    BY <2>1 DEF GoodPage
<1>5. GoodPage(Ends(p), cs, ss)
  <2>1. Ends(p) \in Pages /\ Ends(p).code = p.code /\ Ends(p).at = p.at
        /\ Ends(p).out = p.out /\ Ends(p).left = p.left
    BY DEF Ends, GoodPage, Pages, PageCalls
  <2> QED
    BY <2>1 DEF GoodPage
<1> QED
  BY <1>1, <1>2, <1>3, <1>4, <1>5

LEMMA AsksPage ==
  ASSUME NEW p, NEW cs, NEW ss, GoodPage(p, cs, ss), NEW kind \in PageCalls, NEW n \in Nat
  PROVE  GoodPage(Asks(p, kind, n), cs, ss)
<1>1. Asks(p, kind, n) \in Pages /\ Asks(p, kind, n).code = p.code /\ Asks(p, kind, n).at = p.at
      /\ Asks(p, kind, n).out = p.out /\ Asks(p, kind, n).left = p.left
  BY DEF Asks, GoodPage, Pages
<1> QED
  BY <1>1 DEF GoodPage

LEMMA CallsPage ==
  ASSUME SInv, NEW t \in Tabs, NEW kind \in PageCalls, NEW p, GoodPage(p, codes, sessions),
         Calls(t, kind, p), UNCHANGED <<clock, pending, sessions, work, codes, sso, jar, asked>>
  PROVE  SInv'
<1> DEFINE n == jar[AddressOf[t]]
<1>1. PICK m \in Nat : DOMAIN codes = 1 .. m
  BY DEF SInv, CodesOK
<1>2. n \in Nat
  <2>1. n \in {0} \cup DOMAIN codes
    BY SignInAssumption DEF SignInAssumption, SInv, CookiesOK
  <2> QED
    BY <1>1, <2>1
<1>3. PageGoesTo(t, Asks(p, kind, n))
  BY DEF Calls, Asks
<1> HIDE DEF n
<1> QED
  BY <1>2, <1>3, AsksPage, SameTables

LEMMA SAsks ==
  ASSUME SInv, NEW t \in Tabs, AskWho(t) \/ SignOut(t) \/ Recheck(t) PROVE SInv'
<1> USE DEF PageCalls
<1>1. CASE AskWho(t)
  <2>1. Calls(t, "WhoAmI", Who(tabs[t], "asking"))
    BY <1>1 DEF AskWho, Who
  <2> QED
    BY <1>1, <2>1, ThisPage, AppPages, CallsPage DEF AskWho
<1>2. CASE SignOut(t)
  <2>1. Calls(t, "SignOut", Out(tabs[t], "asking"))
    BY <1>2 DEF SignOut, Out
  <2> QED
    BY <1>2, <2>1, ThisPage, AppPages, CallsPage DEF SignOut
<1>3. CASE Recheck(t)
  <2>1. Calls(t, "WhoAmI", Rechecks(tabs[t]))
    BY <1>3 DEF Recheck, Rechecks
  <2> QED
    BY <1>3, <2>1, ThisPage, AppPages, CallsPage DEF Recheck
<1> QED
  BY <1>1, <1>2, <1>3

LEMMA SServe ==
  ASSUME SInv, NEW t \in Tabs, Serve(t) PROVE SInv'
<1> DEFINE token == tabs[t].sent
<1>1. GoodPage(tabs[t], codes, sessions)
  BY ThisPage
<1>2. CASE PageGoesTo(t, Page("boot")) /\ sessions' = Live(sessions) /\ UNCHANGED work
  <2>1. GoodPage(Page("boot"), codes, sessions)
    BY FreshPage DEF PageAts
  <2> QED
    BY <1>2, <2>1, PageMoves DEF Serve
<1>3. CASE PageGoesTo(t, Knows(tabs[t])) /\ sessions' = Live(sessions) /\ UNCHANGED work
  BY <1>1, <1>3, AppPages, PageMoves DEF Serve
<1>4. CASE /\ SessionLogin(token) # None
           /\ EndSession(t, token, Live(sessions))
           /\ PageGoesTo(t, Ends(tabs[t]))
  <2>1. token \in DOMAIN Live(sessions)
    BY <1>4 DEF SessionLogin
  <2> HIDE DEF token
  <2> QED
    BY <1>1, <1>4, <2>1, AppPages, EndsSession DEF Serve
<1> QED
  BY <1>2, <1>3, <1>4 DEF Serve, Knows, Ends

LEMMA SLogout ==
  ASSUME SInv, NEW t \in Tabs, Logout(t) PROVE SInv'
<1> DEFINE token == jar[AddressOf[t]]
<1>1. CASE /\ token \in DOMAIN sessions /\ EndSession(t, token, sessions)
           /\ PageGoesTo(t, Page("leaving")) /\ UNCHANGED jar
  <2>1. GoodPage(Page("leaving"), codes, sessions)
    BY FreshPage DEF PageAts
  <2> HIDE DEF token
  <2> QED
    BY <1>1, <2>1, EndsSession DEF Logout
<1>2. CASE /\ jar' = [jar EXCEPT ![AddressOf[t]] = 0]
           /\ PageGoesTo(t, Page("boot")) /\ UNCHANGED <<sessions, work>>
  <2>1. GoodPage(Page("boot"), codes', sessions')
    BY FreshPage DEF PageAts
  <2>2. Follows /\ CodesOK' /\ SessionsOK' /\ WorkOK' /\ LoginsUsedOnce'
    BY <1>2, Shrinks DEF Logout
  <2>3. CookiesOK'
    BY <1>2 DEF Logout, SInv, CookiesOK
  <2>4. PagesOK'
    BY <1>2, <2>1, <2>2, PageGoes
  <2> QED
    BY <2>2, <2>3, <2>4 DEF SInv
<1> QED
  BY <1>1, <1>2 DEF Logout

Drops(p, who, out) == [p EXCEPT !.call = "none", !.sent = 0, !.who = who, !.out = out]

LEMMA UnansweredPage ==
  ASSUME NEW p, NEW cs, NEW ss, GoodPage(p, cs, ss)
  PROVE  GoodPage(Unanswered(p), cs, ss)
<1> DEFINE who == IF p.call = "WhoAmI" THEN "failed" ELSE p.who
           out == IF p.call \in {"SignOut", "ending"} THEN "failed" ELSE p.out
           q == Drops(p, who, out)
<1>1. p \in Pages
  BY DEF GoodPage
<1>2. Unanswered(p) = q
  BY Zenon DEF Unanswered, Drops
<1>3. who \in PageWhos /\ out \in PageOuts /\ (out = "done" => p.out = "done")
  BY <1>1 DEF Pages, PageWhos, PageOuts
<1> HIDE DEF who, out
<1>4. q \in Pages /\ q.code = p.code /\ q.at = p.at /\ q.out = out /\ q.left = p.left
  BY <1>1, <1>3 DEF Drops, Pages, PageCalls
<1> HIDE DEF q
<1> QED
  BY <1>2, <1>3, <1>4 DEF GoodPage

LEMMA SLoseCall ==
  ASSUME SInv, NEW t \in Tabs, LoseCall(t) PROVE SInv'
  BY ThisPage, UnansweredPage, SameTables DEF LoseCall

LEMMA IsOutPage ==
  ASSUME NEW p, NEW cs, NEW ss, GoodPage(p, cs, ss), NEW token \in Nat, Gone(token, cs, ss)
  PROVE  GoodPage(IsOut(p, token), cs, ss)
<1>1. IsOut(p, token) \in Pages /\ IsOut(p, token).code = p.code /\ IsOut(p, token).at = p.at
      /\ IsOut(p, token).left = token
  BY DEF IsOut, GoodPage, Pages, PageCalls, PageOuts
<1> QED
  BY <1>1 DEF GoodPage

LEMMA SEnded ==
  ASSUME SInv, NEW j \in work, Ended(j) PROVE SInv'
<1> DEFINE page == tabs[j.tab]
           a == j.session.addr
<1>1. /\ j.kind = "end" /\ j.tab \in Tabs /\ Gone(j.token, codes, sessions)
      /\ work' = work \ {j}
      /\ UNCHANGED <<pending, sessions, codes, asked>>
  BY DEF Ended, SInv, WorkOK
<1>2. Follows /\ CodesOK' /\ SessionsOK' /\ WorkOK' /\ LoginsUsedOnce'
  BY <1>1, Shrinks
<1>3. GoodPage(page, codes, sessions)
  BY <1>1, ThisPage
<1>4. sso' = sso \/ sso' = [sso EXCEPT ![a] = 0]
  BY DEF Ended
<1>5. CASE UNCHANGED jar /\ PageGoesTo(j.tab, IsOut(page, j.token))
  <2>0. PICK n \in Nat : DOMAIN codes = 1 .. n
    BY DEF SInv, CodesOK
  <2>1. j.token \in Nat
    BY <1>1, <2>0 DEF Gone
  <2>2. GoodPage(IsOut(page, j.token), codes', sessions')
    BY <1>1, <1>3, <2>1, IsOutPage
  <2>3. PagesOK'
    BY <1>1, <1>2, <1>5, <2>2, PageGoes
  <2>4. CookiesOK'
    BY <1>1, <1>4, <1>5 DEF SInv, CookiesOK
  <2> QED
    BY <1>2, <2>3, <2>4 DEF SInv
<1>6. CASE PageGoesTo(j.tab, Page("boot")) /\ jar' = [jar EXCEPT ![AddressOf[j.tab]] = 0]
  <2>1. GoodPage(Page("boot"), codes', sessions')
    BY FreshPage DEF PageAts
  <2>2. PagesOK'
    BY <1>1, <1>2, <1>6, <2>1, PageGoes
  <2>3. CookiesOK'
    BY <1>1, <1>4, <1>6 DEF SInv, CookiesOK
  <2> QED
    BY <1>2, <2>2, <2>3 DEF SInv
<1>7. CASE UNCHANGED <<tabs, jar>>
  <2>1. PagesOK'
    BY <1>2, <1>7, PagesStay
  <2>2. CookiesOK'
    BY <1>1, <1>4, <1>7 DEF SInv, CookiesOK
  <2> QED
    BY <1>2, <2>1, <2>2 DEF SInv
<1> QED
  BY <1>5, <1>6, <1>7 DEF Ended, IsOut

-----------------------------------------------------------------------------
(* Restarts, and every step. *)

LEMMA SRestart ==
  ASSUME SInv, Restart PROVE SInv'
<1>1. DOMAIN pending' = {} /\ DOMAIN sessions' = {} /\ work' = {}
  BY DEF Restart
<1>2. CodesOK' /\ CookiesOK'
  BY DEF Restart, SInv, CodesOK, CookiesOK
<1>3. SessionsOK' /\ WorkOK' /\ LoginsUsedOnce'
  BY <1>1 DEF Restart, SInv, SessionsOK, WorkOK, LoginsUsedOnce, Exchanges
<1>4. Follows
  BY <1>1 DEF Restart, Follows
<1>5. ASSUME NEW t \in Tabs
      PROVE  GoodPage(tabs'[t], codes', sessions')
  <2>1. GoodPage(tabs[t], codes', sessions')
    BY <1>4, ThisPage, PageStays
  <2>2. tabs'[t] = IF tabs[t].at \in {"waiting", "leaving"} THEN At(tabs[t], "failed")
                   ELSE IF tabs[t].call # "none" THEN Unanswered(tabs[t])
                   ELSE tabs[t]
    BY DEF Restart, At
  <2>3. GoodPage(At(tabs[t], "failed"), codes', sessions')
    BY <2>1, PageAt DEF PageAts
  <2>4. GoodPage(Unanswered(tabs[t]), codes', sessions')
    BY <2>1, UnansweredPage
  <2> QED
    BY <2>1, <2>2, <2>3, <2>4
<1>6. PagesOK'
  <2>1. tabs' = [t \in Tabs |-> tabs'[t]]
    BY DEF Restart
  <2>2. \A t \in Tabs : tabs'[t] \in Pages
    BY <1>5 DEF GoodPage
  <2> QED
    BY <1>5, <2>1, <2>2 DEF PagesOK
<1> QED
  BY <1>2, <1>3, <1>6 DEF SInv

LEMMA SStutter ==
  ASSUME SInv, UNCHANGED <<pending, sessions, work, codes, sso, jar, tabs, asked>> PROVE SInv'
<1>1. Follows /\ CodesOK' /\ SessionsOK' /\ WorkOK' /\ LoginsUsedOnce'
  BY Shrinks
<1>2. PagesOK'
  BY <1>1, PagesStay
<1>3. CookiesOK'
  BY DEF SInv, CookiesOK
<1> QED
  BY <1>1, <1>2, <1>3 DEF SInv

LEMMA SStep ==
  ASSUME SInv, [Next]_vars PROVE SInv'
<1>1. ASSUME NEW t \in Tabs,
             \/ AskMe(t) \/ Login(t) \/ Provide(t) \/ Decline(t) \/ Unreachable(t)
             \/ GoBack(t) \/ Callback(t)
      PROVE  SInv'
  BY <1>1, SAskMe, SLogin, SProvide, SDecline, SGoBack, SCallback
<1>2. ASSUME NEW t \in Tabs,
             \/ AskWho(t) \/ SignOut(t) \/ Recheck(t) \/ Refused(t) \/ Serve(t) \/ Logout(t)
             \/ LoseCall(t) \/ Reload(t)
      PROVE  SInv'
  BY <1>2, SAsks, SReload, SServe, SLogout, SLoseCall
<1>3. ASSUME NEW j \in work, Exchange(j) \/ Ended(j)
      PROVE  SInv'
  BY <1>3, SExchange, SEnded
<1>4. CASE Restart
  BY <1>4, SRestart
<1>5. CASE Tick \/ UNCHANGED vars
  BY <1>5, SStutter DEF Tick, vars
<1> QED
  BY <1>1, <1>2, <1>3, <1>4, <1>5 DEF Next

\* What the tables hold, what is under way and what the pages show fit together.
THEOREM SignInInvariant == Spec => []SInv
<1>1. Init => SInv
  BY SInit
<1>2. SInv /\ [Next]_vars => SInv'
  BY SStep
<1> QED
  BY <1>1, <1>2, PTL DEF Spec

\* Whatever callbacks are loaded again while the provider is being asked, and
\* whatever is lost or restarted, a sign-in that was started gives at most one
\* session (callback() in auth.rs).
THEOREM OneSession == Spec => []OneSessionPerLogin
<1>1. SInv => OneSessionPerLogin
  <2> SUFFICES ASSUME SInv PROVE OneSessionPerLogin
    OBVIOUS
  <2>1. \A t \in Tabs : tabs[t] \in Pages
    BY DEF SInv, PagesOK
  <2>2. \A k \in DOMAIN codes : codes[k].person \in People
    BY DEF SInv, CodesOK, Code
  <2>3. WellFormed
    BY <2>1, <2>2 DEF SInv, SessionsOK, CookiesOK, WellFormed,
                      Pages, PageAts, PageWhos, PageOuts, PageCalls
  <2> QED
    BY <2>3 DEF SInv, LoginsUsedOnce, OneSessionPerLogin
<1> QED
  BY <1>1, SignInInvariant, PTL

\* A page that says it is signed out speaks the truth from then on: the session
\* it signed out is not on the server, and no exchange brings it back
\* (end_session() in auth.rs, the Account app).
THEOREM SignedOut == Spec => []SignedOutIsOut
<1>1. SInv => SignedOutIsOut
  BY DEF SInv, PagesOK, GoodPage, Gone, SignedOutIsOut
<1> QED
  BY <1>1, SignInInvariant, PTL

=============================================================================
