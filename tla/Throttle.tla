------------------------------ MODULE Throttle ------------------------------
(***************************************************************************)
(* The WebDAV sign-in (dav.rs) and the throttle that counts the failed     *)
(* ones (app_passwords.rs).  A request notes the time, looks whether its   *)
(* login or its address is blocked, checks the password and then counts a  *)
(* failure: each under a lock of its own, so that other requests come in   *)
(* between, and a failure is counted for an earlier time than it is found. *)
(***************************************************************************)
EXTENDS Integers, FiniteSets, Functions, SequencesExt

CONSTANTS
    Requests,       \* requests under way at once
    Logins,         \* the user names tried
    Sources,        \* the addresses they come from
    Failures,       \* THROTTLE_FAILURES
    Window,         \* THROTTLE_WINDOW
    MaxNow,         \* bound: ticks of the clock
    MaxWrong        \* bound: wrong passwords

ASSUME ThrottleAssumption ==
    /\ {Failures, Window} \subseteq Nat \ {0}
    /\ {MaxNow, MaxWrong} \subseteq Nat
    /\ Logins \cap Sources = {}
    /\ IsFiniteSet(Requests)

VARIABLES
    now,        \* time, in ticks
    failures,   \* key -> failures counted, and when its window started
    request,    \* each request: where it is, its keys, when it began
    wrong       \* history: when passwords were found wrong, and for which keys

tvars == <<now, failures, request, wrong>>

Nothing == [at |-> "none", keys |-> {}, began |-> 0]

TInit ==
    /\ now = 0
    /\ failures = << >>
    /\ request = [r \in Requests |-> Nothing]
    /\ wrong = << >>

Since(t, start) == IF t > start THEN t - start ELSE 0

\* require_app_password: credentials it can read, and the time.
Begin(r) ==
    /\ request[r].at = "none"
    /\ \E l \in Logins, a \in Sources :
        request' = [request EXCEPT ![r] = [at |-> "begun", keys |-> {l, a}, began |-> now]]
    /\ UNCHANGED <<now, failures, wrong>>

\* As it would be without the sweep.
RunningAll(t) == failures

\* What blocked() keeps of the table: the windows that have not ended.
Running(t) ==
    Restrict(failures, {k \in DOMAIN failures : Since(t, failures[k].start) < Window})

Blocked(r) ==
    LET kept == Running(request[r].began)
        over == \E k \in request[r].keys \cap DOMAIN kept : kept[k].count >= Failures
    IN
    /\ request[r].at = "begun"
    /\ failures' = kept
    /\ request' = [request EXCEPT ![r].at = IF over THEN "refused" ELSE "checked"]
    /\ UNCHANGED <<now, wrong>>

\* The password is right: nothing is counted, and nothing forgotten.
LetIn(r) ==
    /\ request[r].at = "checked"
    /\ request' = [request EXCEPT ![r] = Nothing]
    /\ UNCHANGED <<now, failures, wrong>>

\* It is wrong, and fail() counts it for each key, in its window or a new one.
Counted(k, t) ==
    IF k \in DOMAIN failures /\ Since(t, failures[k].start) < Window
    THEN [failures[k] EXCEPT !.count = @ + 1]
    ELSE [count |-> 1, start |-> t]

Fail(r) ==
    /\ request[r].at = "checked"
    /\ Len(wrong) < MaxWrong
    /\ failures' = [k \in DOMAIN failures \cup request[r].keys |->
                       IF k \in request[r].keys THEN Counted(k, request[r].began) ELSE failures[k]]
    /\ wrong' = Append(wrong, [keys |-> request[r].keys, at |-> now])
    /\ request' = [request EXCEPT ![r] = Nothing]
    /\ UNCHANGED now

\* The 429 has been sent.
Answered(r) ==
    /\ request[r].at = "refused"
    /\ request' = [request EXCEPT ![r] = Nothing]
    /\ UNCHANGED <<now, failures, wrong>>

Tick ==
    /\ now < MaxNow
    /\ now' = now + 1
    /\ UNCHANGED <<failures, request, wrong>>

TNext ==
    \/ \E r \in Requests : Begin(r) \/ Blocked(r) \/ LetIn(r) \/ Fail(r) \/ Answered(r)
    \/ Tick

TSpec == TInit /\ [][TNext]_tvars

-----------------------------------------------------------------------------

ThrottleWellFormed ==
    /\ \A r \in Requests : request[r].at \in {"none", "begun", "checked", "refused"}
    /\ \A k \in DOMAIN failures : failures[k].start <= now /\ failures[k].count >= 1

Recent(k, t) == {i \in DOMAIN wrong : k \in wrong[i].keys /\ wrong[i].at > t - Window}

\* A request is refused only for failures of the last window, enough of them
\* and for one and the same key; and requests that were let through together
\* cannot bring a key over its limit by more than their number.
RefusedForCause ==
    /\ ThrottleWellFormed
    /\ \A r \in Requests :
        request[r].at = "refused" =>
            \E k \in request[r].keys : Cardinality(Recent(k, request[r].began)) >= Failures
    /\ \A k \in DOMAIN failures : failures[k].count < Failures + Cardinality(Requests)

=============================================================================
