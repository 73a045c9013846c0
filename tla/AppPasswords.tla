---------------------------- MODULE AppPasswords ----------------------------
(***************************************************************************)
(* App passwords: the server's store (app_passwords.rs), kept in memory    *)
(* and saved whole after every change, and the Account windows that make   *)
(* and revoke them (apps/account).  A save may fail, a call or its answer  *)
(* may be lost, the server may stop at any time and comes back with what   *)
(* was saved, and a window shows a list that may be old.                   *)
(***************************************************************************)
EXTENDS Integers, FiniteSets, Functions, SequencesExt

CONSTANTS
    Windows,        \* Account windows, of any page and user
    Users,
    UserOf,         \* who is signed in where the window is
    Limit,          \* MAX_APP_PASSWORDS
    MaxMade,        \* bound: passwords made; each is named by its number
    MaxFaults       \* bound: saves that fail, calls lost, restarts

ASSUME AppPasswordsAssumption ==
    /\ UserOf \in [Windows -> Users]
    /\ {Limit, MaxMade, MaxFaults} \subseteq Nat

VARIABLES
    records,    \* the store in memory, oldest first
    disk,       \* the store as last saved
    made,       \* passwords made so far
    app,        \* the Account windows
    told,       \* history: what the server has answered of each password
    faults      \* faults so far

avars == <<records, disk, made, app, told, faults>>

\* A window: its change in flight, the password it shows, the list it has.
Fresh == [pending |-> "none", id |-> 0, answer |-> 0, shows |-> 0, list |-> "none", seen |-> {}]

AInit ==
    /\ records = << >> /\ disk = << >>
    /\ made = 0
    /\ app = [w \in Windows |-> Fresh]
    /\ told = << >>
    /\ faults = 0

-----------------------------------------------------------------------------
(* The store.  Each of these holds the lock, so it is one step. *)

Of(user, rs) == {i \in DOMAIN rs : rs[i].user = user}
Ids(rs)      == {rs[i].id : i \in DOMAIN rs}
Place(rs, id) == CHOOSE i \in DOMAIN rs : rs[i].id = id

\* As it would be with what was taken out put back at the end.
UndoneAtEnd(old, new) ==
    IF Len(old) > Len(new)
    THEN new \o SelectSeq(old, LAMBDA r : r.id \notin Ids(new)) ELSE old

\* What is left in memory of a change whose save failed: everything as it was,
\* and in its place.
Undone(old, new) == old

\* save: the new file replaces the old one only once it is complete.
Save(new) ==
    \/ /\ records' = new /\ disk' = new
       /\ UNCHANGED faults
    \/ /\ faults < MaxFaults
       /\ faults' = faults + 1
       /\ records' = Undone(records, new)
       /\ UNCHANGED disk

Saved == faults' = faults

BecomesWindow(w, window) == app' = [app EXCEPT ![w] = window]

\* The answer to window w's change.
Answer(w, ok, id) ==
    BecomesWindow(w, [app[w] EXCEPT !.pending = IF ok THEN "done" ELSE "failed", !.answer = id])

Create(w) ==
    LET user == UserOf[w] IN
    /\ app[w].pending = "create"
    /\ IF Cardinality(Of(user, records)) >= Limit
       THEN /\ Answer(w, FALSE, 0)
            /\ UNCHANGED <<records, disk, made, told, faults>>
       ELSE /\ made < MaxMade
            /\ made' = made + 1
            /\ Save(Append(records, [id |-> made', user |-> user, used |-> FALSE]))
            /\ Answer(w, Saved, made')
            /\ told' = IF Saved
                       THEN [i \in DOMAIN told \cup {made'} |-> IF i = made' THEN "made" ELSE told[i]]
                       ELSE told

Revoke(w) ==
    LET user == UserOf[w]
        id   == app[w].id
    IN
    /\ app[w].pending = "revoke"
    /\ IF id \notin {records[i].id : i \in Of(user, records)}
       THEN /\ Answer(w, FALSE, 0)
            /\ UNCHANGED <<records, disk, told, faults>>
       ELSE /\ Save(RemoveAt(records, Place(records, id)))
            /\ Answer(w, Saved, 0)
            /\ told' = IF Saved THEN [told EXCEPT ![id] = "revoked"] ELSE told
    /\ UNCHANGED made

\* A WebDAV client signs in with a password: that it was used is saved too,
\* and only that is lost if it cannot be.
Verify(id) ==
    LET noted == [records EXCEPT ![Place(records, id)].used = TRUE] IN
    /\ id \in Ids(records)
    /\ ~records[Place(records, id)].used
    /\ records' = noted
    /\ \/ disk' = noted /\ UNCHANGED faults
       \/ faults < MaxFaults /\ faults' = faults + 1 /\ UNCHANGED disk
    /\ UNCHANGED <<made, app, told>>

-----------------------------------------------------------------------------
(* The window. *)

\* The list is asked for while there is none, and answered.
List(w) ==
    /\ app[w].list = "none"
    /\ \/ /\ BecomesWindow(w, [app[w] EXCEPT !.list = "ready",
                                !.seen = {records[i] : i \in Of(UserOf[w], records)}])
          /\ UNCHANGED faults
       \/ /\ faults < MaxFaults
          /\ faults' = faults + 1
          /\ BecomesWindow(w, [app[w] EXCEPT !.list = "failed"])
    /\ UNCHANGED <<records, disk, made, told>>

TryAgain(w) ==
    /\ app[w].list = "failed"
    /\ BecomesWindow(w, [app[w] EXCEPT !.list = "none"])
    /\ UNCHANGED <<records, disk, made, told, faults>>

\* The buttons are there while nothing is in flight and the list is known.
PressCreate(w) ==
    /\ app[w].list = "ready" /\ app[w].pending = "none"
    /\ Cardinality(app[w].seen) < Limit
    /\ BecomesWindow(w, [app[w] EXCEPT !.pending = "create"])
    /\ UNCHANGED <<records, disk, made, told, faults>>

PressRevoke(w) ==
    /\ app[w].list = "ready" /\ app[w].pending = "none"
    /\ \E r \in app[w].seen :
        BecomesWindow(w, [app[w] EXCEPT !.pending = "revoke", !.id = r.id])
    /\ UNCHANGED <<records, disk, made, told, faults>>

PressDone(w) ==
    /\ app[w].shows # 0
    /\ BecomesWindow(w, [app[w] EXCEPT !.shows = 0])
    /\ UNCHANGED <<records, disk, made, told, faults>>

\* poll_pending: a password made is shown, the list is asked for again.
PollPending(w) ==
    /\ app[w].pending \in {"done", "failed"}
    /\ BecomesWindow(w, [app[w] EXCEPT !.pending = "none", !.id = 0, !.answer = 0,
                         !.shows = IF app[w].answer # 0 /\ app[w].pending = "done"
                                   THEN app[w].answer ELSE app[w].shows,
                         !.list = "none", !.seen = {}])
    /\ UNCHANGED <<records, disk, made, told, faults>>

\* A change, or its answer, is lost: the window is told it failed.
Lose(w) ==
    /\ app[w].pending \in {"create", "revoke", "done"}
    /\ faults < MaxFaults
    /\ faults' = faults + 1
    /\ Answer(w, FALSE, 0)
    /\ UNCHANGED <<records, disk, made, told>>

\* The server comes back with what it saved; calls on their way to it fail.
Restart ==
    /\ faults < MaxFaults
    /\ faults' = faults + 1
    /\ records' = disk
    /\ app' = [w \in Windows |->
                  IF app[w].pending \in {"create", "revoke"}
                  THEN [app[w] EXCEPT !.pending = "failed"] ELSE app[w]]
    /\ UNCHANGED <<disk, made, told>>

ANext ==
    \/ \E w \in Windows :
        \/ Create(w) \/ Revoke(w) \/ List(w) \/ TryAgain(w) \/ PressCreate(w)
        \/ PressRevoke(w) \/ PressDone(w) \/ PollPending(w) \/ Lose(w)
    \/ \E id \in Ids(records) : Verify(id)
    \/ Restart

ASpec == AInit /\ [][ANext]_avars

-----------------------------------------------------------------------------

AppPasswordsWellFormed ==
    /\ made \in 0 .. MaxMade
    /\ Ids(records) \subseteq 1 .. made
    /\ \A w \in Windows : app[w].pending \in {"none", "create", "revoke", "done", "failed"}

\* What the server has answered is so, and stays so over failed saves and
\* restarts: a password it gave out works until it says it is revoked, one it
\* could not save does not, no user has too many, and the list keeps its order.
StoreAsAnswered ==
    /\ AppPasswordsWellFormed
    /\ Ids(records) = {id \in DOMAIN told : told[id] = "made"}
    /\ [i \in DOMAIN records |-> records[i].id] = [i \in DOMAIN disk |-> disk[i].id]
    /\ \A u \in Users : Cardinality(Of(u, records)) <= Limit

=============================================================================
