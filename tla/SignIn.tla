------------------------------- MODULE SignIn -------------------------------
(***************************************************************************)
(* Signing in and out: the server's sessions and the logins under way      *)
(* (auth.rs), the pages of one browser, which share a cookie for each      *)
(* address they reach the server at, and the Account app on a desktop,     *)
(* which signs out and then asks who it is, so that the refusal sends the  *)
(* page to the sign-in button (apps/account, http_wire.rs, index.html).    *)
(* The provider is Keycloak as this code uses it: it hands out codes that  *)
(* are good once, and refuses calls that claim another address than the    *)
(* one the browser signed in through.  A callback and a sign-out wait for  *)
(* it in the middle, and anything may happen meanwhile.                    *)
(***************************************************************************)
EXTENDS Integers, FiniteSets, Functions, SequencesExt

CONSTANTS
    Tabs,           \* the pages open in the browser
    Addresses,      \* where the server can be reached: localhost, a tunnel
    AddressOf,      \* the address each page is at, which never changes
    People,         \* accounts in the realm
    None,           \* no cookie, no session at the provider, no login
    LoginTtl,       \* how long a login may take
    SessionTtl,     \* how long a session lasts
    MaxLogins,      \* bound: logins started, which are numbered
    MaxCodes,       \* bound: codes handed out, which are numbered
    MaxTime,        \* bound: ticks of the clock
    MaxFaults       \* bound: calls and answers lost, and restarts of the server

ASSUME SignInAssumption ==
    /\ AddressOf \in [Tabs -> Addresses]
    /\ None \notin People
    /\ {LoginTtl, SessionTtl} \subseteq Nat \ {0}
    /\ {MaxLogins, MaxCodes, MaxTime, MaxFaults} \subseteq Nat

VARIABLES
    clock,      \* time, in ticks
    pending,    \* sign-ins under way: login -> when it expires
    sessions,   \* session -> who, at which address, for which login, until when
    work,       \* callbacks and sign-outs that wait for the provider's answer
    codes,      \* codes handed out: code -> for whom, at which address, spent or not
    sso,        \* at each address, the browser's session at the provider
    jar,        \* at each address, the session in the browser's cookie
    tabs,       \* the pages
    asked,      \* the login last started, which numbers them
    faults      \* faults so far

vars == <<clock, pending, sessions, work, codes, sso, jar, tabs, asked, faults>>

Logins == 1 .. MaxLogins
Codes  == 1 .. MaxCodes

(***************************************************************************)
(* A page.  login and code are those of the address it is at.  On a        *)
(* desktop there is the Account app: who is what its cache holds for       *)
(* WhoAmI, out how far SignOut is, rechecked whether it has asked who it   *)
(* is again; call is its call in flight, sent the cookie that went with    *)
(* it, and left the session it signed out.  The page it goes back to after *)
(* signing in is the one it was, and is left out.                          *)
(***************************************************************************)
Page(at) == [at |-> at, login |-> 0, code |-> 0, who |-> "none",
             out |-> "no", rechecked |-> FALSE, call |-> "none", sent |-> 0, left |-> 0]

Init ==
    /\ clock = 0
    /\ pending = << >>
    /\ sessions = << >>
    /\ work = {}
    /\ codes = << >>
    /\ sso = [a \in Addresses |-> 0]
    /\ jar = [a \in Addresses |-> 0]
    /\ tabs = [t \in Tabs |-> Page("boot")]
    /\ asked = 0
    /\ faults = 0

-----------------------------------------------------------------------------
(* The server's tables. *)

With(table, k, entry) == [x \in DOMAIN table \cup {k} |-> IF x = k THEN entry ELSE table[x]]

Live(table) == Restrict(table, {k \in DOMAIN table : table[k].expires > clock})

\* The account signed in with a cookie; expired sessions are swept first.
SessionLogin(token) ==
    IF token \in DOMAIN Live(sessions) THEN sessions[token].login ELSE None

\* As it would be if the login were forgotten only once its session exists.
TakeLoginLater(login) ==
    /\ login \in DOMAIN Live(pending)
    /\ pending' = Live(pending)

\* Only the login's own entry is taken, and only once.
TakeLogin(login) ==
    LET kept == Live(pending) IN
    /\ login \in DOMAIN kept
    /\ pending' = Restrict(kept, DOMAIN kept \ {login})

\* The rest of a sign-out, as it waits for the provider.
Telling(t, token) ==
    [kind |-> "end", session |-> sessions[token], token |-> token, tab |-> t]

\* As it would be with the provider's part looked at first.
EndSessionRefreshFirst(t, token, table) ==
    /\ sessions' = IF table[token].refresh THEN Restrict(table, DOMAIN table \ {token}) ELSE table
    /\ work' = work \cup {Telling(t, token)}

\* end_session: ours is removed first, then the provider is told, if it gave
\* us what that takes.  The answer to the page comes after that.
EndSession(t, token, table) ==
    /\ sessions' = Restrict(table, DOMAIN table \ {token})
    /\ work' = work \cup {Telling(t, token)}

\* What the provider is told of the address: where this browser signed in.
Claimed(addr) == addr

-----------------------------------------------------------------------------
(* The way in: /auth/me, /auth/login, the provider, /auth/callback. *)

PageGoesTo(t, page) == tabs' = [tabs EXCEPT ![t] = page]

\* main and checkAuth of index.html: a signed-in browser gets the desktop, and
\* one that cannot find out gets it too.
AskMe(t) ==
    /\ tabs[t].at = "boot"
    /\ \/ /\ sessions' = Live(sessions)
          /\ PageGoesTo(t, [tabs[t] EXCEPT !.at = IF SessionLogin(jar[AddressOf[t]]) = None
                                                  THEN "signin" ELSE "desktop"])
          /\ UNCHANGED faults
       \/ /\ faults < MaxFaults
          /\ faults' = faults + 1
          /\ PageGoesTo(t, [tabs[t] EXCEPT !.at = "desktop"])
          /\ UNCHANGED sessions
    /\ UNCHANGED <<clock, pending, work, codes, sso, jar, asked>>

\* The sign-in button: login() remembers a new state token and where to go back
\* to, and redirects to the provider.
Login(t) ==
    /\ tabs[t].at = "signin"
    /\ asked < MaxLogins
    /\ asked' = asked + 1
    /\ pending' = With(pending, asked', [expires |-> clock + LoginTtl])
    /\ PageGoesTo(t, [Page("provider") EXCEPT !.login = asked'])
    /\ UNCHANGED <<clock, sessions, work, codes, sso, jar, faults>>

\* The provider asks for a password unless the browser has a session there,
\* which is named by the code it began with, and redirects back with a code.
Provide(t) ==
    LET a == AddressOf[t]
        c == Cardinality(DOMAIN codes) + 1
    IN
    /\ tabs[t].at = "provider"
    /\ c <= MaxCodes
    /\ \E p \in People :
        /\ IF sso[a] = 0 THEN sso' = [sso EXCEPT ![a] = c]
                         ELSE p = codes[sso[a]].person /\ UNCHANGED sso
        /\ codes' = With(codes, c, [person |-> p, addr |-> a, sso |-> sso'[a], spent |-> FALSE])
        /\ PageGoesTo(t, [tabs[t] EXCEPT !.at = "back", !.code = c])
    /\ UNCHANGED <<clock, pending, sessions, work, jar, asked, faults>>

\* The user says no at the provider, which says so instead of giving a code.
Decline(t) ==
    /\ tabs[t].at = "provider"
    /\ PageGoesTo(t, [tabs[t] EXCEPT !.at = "failed"])
    /\ UNCHANGED <<clock, pending, sessions, work, codes, sso, jar, asked, faults>>

\* forward() passes the provider's pages on, and answers 502 while it is down.
Unreachable(t) ==
    /\ tabs[t].at = "provider"
    /\ faults < MaxFaults
    /\ faults' = faults + 1
    /\ PageGoesTo(t, [tabs[t] EXCEPT !.at = "failed"])
    /\ UNCHANGED <<clock, pending, sessions, work, codes, sso, jar, asked>>

\* The user goes back to the provider's page, or loads the callback again:
\* while it is being answered, or after it was.
GoBack(t) ==
    /\ tabs[t].at \in {"waiting", "failed"}
    /\ tabs[t].login # 0
    /\ \/ PageGoesTo(t, [tabs[t] EXCEPT !.at = "provider", !.code = 0])
       \/ /\ tabs[t].code # 0
          /\ PageGoesTo(t, [tabs[t] EXCEPT !.at = "back"])
    /\ UNCHANGED <<clock, pending, sessions, work, codes, sso, jar, asked, faults>>

\* callback(), as far as it goes without the provider.
Callback(t) ==
    LET login == tabs[t].login IN
    /\ tabs[t].at = "back"
    /\ \/ /\ TakeLogin(login)
          /\ work' = work \cup {[kind |-> "exchange", login |-> login, code |-> tabs[t].code,
                                 addr |-> AddressOf[t], tab |-> t]}
          /\ PageGoesTo(t, [tabs[t] EXCEPT !.at = "waiting"])
       \/ /\ login \notin DOMAIN Live(pending)
          /\ pending' = Live(pending)
          /\ PageGoesTo(t, [tabs[t] EXCEPT !.at = "failed"])
          /\ UNCHANGED work
    /\ UNCHANGED <<clock, sessions, codes, sso, jar, asked, faults>>

\* Whether a page still waits for the answer to a callback.
Waits(j) ==
    /\ tabs[j.tab].at = "waiting"
    /\ <<tabs[j.tab].login, tabs[j.tab].code>> = <<j.login, j.code>>

\* A callback that fails is answered 502, which its page shows.
CallbackFails(j) ==
    /\ tabs' = IF Waits(j) THEN [tabs EXCEPT ![j.tab].at = "failed"] ELSE tabs
    /\ UNCHANGED <<sessions, jar>>

\* exchange_and_fetch_login, and the session: the code is spent, unless it
\* never reached the provider, and it is worth nothing a second time or at
\* another address than its own.
Exchange(j) ==
    LET c == codes[j.code]
        token == j.code      \* a random one: no two codes give the same
        a == j.addr
    IN
    /\ j \in work /\ j.kind = "exchange"
    /\ work' = work \ {j}
    /\ \/ /\ faults < MaxFaults
          /\ faults' = faults + 1
          /\ \E spent \in {c.spent, TRUE} : codes' = [codes EXCEPT ![j.code].spent = spent]
          /\ CallbackFails(j)
       \/ /\ codes' = [codes EXCEPT ![j.code].spent = TRUE]
          /\ UNCHANGED faults
          /\ \/ /\ c.spent \/ Claimed(a) # c.addr
                /\ CallbackFails(j)
             \/ /\ sso[a] # c.sso       \* ended since: it may refuse
                /\ CallbackFails(j)
             \/ /\ ~c.spent /\ Claimed(a) = c.addr
                /\ \E refresh \in BOOLEAN :
                    sessions' = With(sessions, token,
                        [login |-> c.person, addr |-> a, sso |-> c.sso, via |-> j.login,
                         refresh |-> refresh, expires |-> clock + SessionTtl])
                /\ IF Waits(j)
                   THEN /\ jar' = [jar EXCEPT ![a] = token]
                        /\ PageGoesTo(j.tab, Page("boot"))
                   ELSE UNCHANGED <<jar, tabs>>
    /\ UNCHANGED <<clock, pending, sso, asked>>

-----------------------------------------------------------------------------
(* A desktop and its Account app. *)

Calls(t, kind, page) ==
    PageGoesTo(t, [page EXCEPT !.call = kind, !.sent = jar[AddressOf[t]]])

\* update(), while signed in: who it is, asked for until it is known.
AskWho(t) ==
    /\ tabs[t].at = "desktop" /\ tabs[t].call = "none"
    /\ tabs[t].out = "no" /\ tabs[t].who = "none"
    /\ Calls(t, "WhoAmI", [tabs[t] EXCEPT !.who = "asking"])
    /\ UNCHANGED <<clock, pending, sessions, work, codes, sso, jar, asked, faults>>

\* The Sign out button, and Try again once it has failed.
SignOut(t) ==
    /\ tabs[t].at = "desktop" /\ tabs[t].call = "none"
    /\ <<tabs[t].out, tabs[t].who>> = <<"no", "ready">> \/ tabs[t].out = "failed"
    /\ Calls(t, "SignOut", [tabs[t] EXCEPT !.out = "asking"])
    /\ UNCHANGED <<clock, pending, sessions, work, codes, sso, jar, asked, faults>>

\* As it would be with the cached answer left in place, and used.
RecheckCached(t) ==
    /\ tabs[t].at = "desktop" /\ tabs[t].call = "none"
    /\ tabs[t].out = "done" /\ ~tabs[t].rechecked
    /\ PageGoesTo(t, [tabs[t] EXCEPT !.rechecked = TRUE])
    /\ UNCHANGED <<clock, pending, sessions, work, codes, sso, jar, asked, faults>>

\* update(), once it is signed out: the cached WhoAmI is given up and asked for
\* again, once.
Recheck(t) ==
    /\ tabs[t].at = "desktop" /\ tabs[t].call = "none"
    /\ tabs[t].out = "done" /\ ~tabs[t].rechecked
    /\ Calls(t, "WhoAmI", [tabs[t] EXCEPT !.who = "asking", !.rechecked = TRUE])
    /\ UNCHANGED <<clock, pending, sessions, work, codes, sso, jar, asked, faults>>

\* A call of another app, or the autosave, finds the session gone.
Refused(t) ==
    /\ tabs[t].at = "desktop"
    /\ SessionLogin(jar[AddressOf[t]]) = None
    /\ PageGoesTo(t, Page("boot"))
    /\ sessions' = Live(sessions)
    /\ UNCHANGED <<clock, pending, work, codes, sso, jar, asked, faults>>

\* require_session, and the call: a page whose call is refused loads again.
Serve(t) ==
    LET token == tabs[t].sent IN
    /\ tabs[t].call \in {"WhoAmI", "SignOut"}
    /\ IF SessionLogin(token) = None
       THEN /\ PageGoesTo(t, Page("boot"))
            /\ sessions' = Live(sessions)
            /\ UNCHANGED work
       ELSE \/ /\ tabs[t].call = "SignOut"
               /\ EndSession(t, token, Live(sessions))
               /\ PageGoesTo(t, [tabs[t] EXCEPT !.call = "ending"])
            \/ /\ tabs[t].call = "WhoAmI"
               /\ PageGoesTo(t, [tabs[t] EXCEPT !.call = "none", !.sent = 0, !.who = "ready"])
               /\ sessions' = Live(sessions)
               /\ UNCHANGED work
    /\ UNCHANGED <<clock, pending, codes, sso, jar, asked, faults>>

\* GET /auth/logout: the same, and the browser is told to drop its cookie.
Logout(t) ==
    LET token == jar[AddressOf[t]] IN
    /\ tabs[t].at = "desktop" /\ tabs[t].call = "none"
    /\ IF token \in DOMAIN sessions
       THEN /\ EndSession(t, token, sessions)
            /\ PageGoesTo(t, Page("leaving"))
            /\ UNCHANGED jar
       ELSE /\ jar' = [jar EXCEPT ![AddressOf[t]] = 0]
            /\ PageGoesTo(t, Page("boot"))
            /\ UNCHANGED <<sessions, work>>
    /\ UNCHANGED <<clock, pending, codes, sso, asked, faults>>

\* The rest of end_session: the provider is told, at the address the browser
\* signed in through, and whatever it says the page is answered.
Ended(j) ==
    LET a    == j.session.addr
        page == tabs[j.tab]
    IN
    /\ j \in work /\ j.kind = "end"
    /\ work' = work \ {j}
    /\ \/ /\ j.session.refresh
          /\ sso' = IF sso[a] = j.session.sso /\ Claimed(a) = a
                    THEN [sso EXCEPT ![a] = 0] ELSE sso
          /\ UNCHANGED faults
       \/ /\ j.session.refresh /\ faults < MaxFaults
          /\ faults' = faults + 1
          /\ UNCHANGED sso
       \/ /\ ~j.session.refresh
          /\ UNCHANGED <<sso, faults>>
    /\ IF page.call = "ending" /\ page.sent = j.token
       THEN /\ PageGoesTo(j.tab, [page EXCEPT !.call = "none", !.sent = 0, !.out = "done",
                                          !.left = j.token])
            /\ UNCHANGED jar
       ELSE IF page.at = "leaving"
            THEN /\ PageGoesTo(j.tab, Page("boot"))
                 /\ jar' = [jar EXCEPT ![AddressOf[j.tab]] = 0]
            ELSE UNCHANGED <<tabs, jar>>
    /\ UNCHANGED <<clock, pending, sessions, codes, asked>>

\* A call or its answer is lost, or too late: the cache holds a failure.
Unanswered(page) ==
    [page EXCEPT !.call = "none", !.sent = 0,
        !.who = IF page.call = "WhoAmI" THEN "failed" ELSE @,
        !.out = IF page.call \in {"SignOut", "ending"} THEN "failed" ELSE @]

LoseCall(t) ==
    /\ tabs[t].call # "none"
    /\ faults < MaxFaults
    /\ faults' = faults + 1
    /\ PageGoesTo(t, Unanswered(tabs[t]))
    /\ UNCHANGED <<clock, pending, sessions, work, codes, sso, jar, asked>>

\* The user loads a page again.
Reload(t) ==
    /\ tabs[t].at \in {"signin", "desktop", "failed"}
    /\ PageGoesTo(t, Page("boot"))
    /\ UNCHANGED <<clock, pending, sessions, work, codes, sso, jar, asked, faults>>

\* The server keeps all of this in memory, and what it was doing is lost.
Restart ==
    /\ faults < MaxFaults
    /\ faults' = faults + 1
    /\ pending' = << >>
    /\ sessions' = << >>
    /\ work' = {}
    /\ tabs' = [t \in Tabs |->
                   IF tabs[t].at \in {"waiting", "leaving"} THEN [tabs[t] EXCEPT !.at = "failed"]
                   ELSE IF tabs[t].call # "none" THEN Unanswered(tabs[t])
                   ELSE tabs[t]]
    /\ UNCHANGED <<clock, codes, sso, jar, asked>>

Tick ==
    /\ clock < MaxTime
    /\ clock' = clock + 1
    /\ UNCHANGED <<pending, sessions, work, codes, sso, jar, tabs, asked, faults>>

-----------------------------------------------------------------------------

Next ==
    \/ \E t \in Tabs :
        \/ AskMe(t) \/ Login(t) \/ Provide(t) \/ Decline(t) \/ Unreachable(t)
        \/ GoBack(t) \/ Callback(t)
        \/ AskWho(t) \/ SignOut(t) \/ Recheck(t) \/ Refused(t) \/ Serve(t) \/ Logout(t)
        \/ LoseCall(t) \/ Reload(t)
    \/ \E j \in work : Exchange(j) \/ Ended(j)
    \/ Restart
    \/ Tick

Spec == Init /\ [][Next]_vars

\* A frame of the app follows every change, and the server answers.
FairSpec ==
    /\ Spec
    /\ \A t \in Tabs : WF_vars(Recheck(t)) /\ WF_vars(Serve(t))

-----------------------------------------------------------------------------

WellFormed ==
    /\ DOMAIN pending \subseteq 1 .. asked
    /\ DOMAIN sessions \subseteq DOMAIN codes
    /\ \A k \in DOMAIN codes : codes[k].person \in People
    /\ \A a \in Addresses : {jar[a], sso[a]} \subseteq {0} \cup DOMAIN codes
    /\ \A t \in Tabs :
        /\ tabs[t].at \in {"boot", "signin", "provider", "back", "waiting", "failed",
                           "desktop", "leaving"}
        /\ tabs[t].who \in {"none", "asking", "ready", "failed"}
        /\ tabs[t].out \in {"no", "asking", "failed", "done"}
        /\ tabs[t].call \in {"none", "WhoAmI", "SignOut", "ending"}

\* A sign-in that was started gives at most one session, whatever is loaded
\* again while the provider is being asked: the state token is forgotten before
\* callback() waits, not after.
OneSessionPerLogin ==
    /\ WellFormed
    /\ \A s1, s2 \in DOMAIN sessions : sessions[s1].via = sessions[s2].via => s1 = s2

\* A page that says "Signed out." is: its session is gone from the server,
\* whether or not the provider could be told, and does not come back.
SignedOutIsOut ==
    \A t \in Tabs : tabs[t].out = "done" => tabs[t].left \notin DOMAIN sessions

\* A page that has signed out leaves the desktop, because asking who is signed
\* in is refused, unless that call is lost or the browser has signed in again
\* by then.
SignOutLeaves ==
    \A t \in Tabs :
        tabs[t].at = "desktop" /\ tabs[t].out = "done"
            ~> \/ tabs[t].at # "desktop"
               \/ tabs[t].who = "failed"
               \/ jar[AddressOf[t]] # tabs[t].left

=============================================================================
