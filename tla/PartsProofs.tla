---------------------------- MODULE PartsProofs -----------------------------
(***************************************************************************)
(* The app passwords and the throttle of the WebDAV sign-in, the uploads   *)
(* and what they leave out, and the Viewer, for any windows, users,        *)
(* requests, limits, files, faults and clock, and for any patterns and     *)
(* tables.                                                                 *)
(*                                                                         *)
(* The throttle refuses for cause.  The argument is TInv: each failure     *)
(* counted for a key is one that happened, in that key's window            *)
(* (CountedHappened), and those that may still be counted for it, of       *)
(* requests let through before, are part of the bound from the start       *)
(* (FewOver).                                                              *)
(*                                                                         *)
(* The store is as it was answered.  The argument is AInv: the store in    *)
(* memory and the one on disk differ in nothing but which passwords were   *)
(* used (Alike), no two passwords have one name (EachOnce), and a new one  *)
(* has a name no one was told (TypeOK's bounds).                           *)
(*                                                                         *)
(* What is said of an upload is true.  The argument is UInv: of the files  *)
(* an upload is for, those whose turn has been are stored or counted as    *)
(* failed, and what is counted as done is stored or failed (FilesOK).      *)
(*                                                                         *)
(* The rows a Viewer shows are those that were written.  The argument runs *)
(* along the text of a table: after each written cell the parser has that  *)
(* cell (QuotedCell, PlainCell), so after each line that row (RowRead).    *)
(*                                                                         *)
(* A project's upload sends what git would take.  The matcher finds a fit  *)
(* where there is one (MatchesIs), the rules are the lines of the files,   *)
(* the deeper file's later (Ranked, RulesAre), and so the last that        *)
(* applies is the last line of the deepest file that speaks of the path    *)
(* (DecideIs).                                                             *)
(***************************************************************************)
EXTENDS AppPasswords, Throttle, Uploads, ProjectFiles, Viewer, FiniteSetTheorems,
        FunctionTheorems, SequenceTheorems, WellFoundedInduction, TLAPS

Keys == Logins \cup Sources

Request == [at : {"none", "begun", "checked", "refused"}, keys : SUBSET Keys, began : Nat]
Entry   == [count : Nat \ {0}, start : Nat]
Wrong   == [keys : SUBSET Keys, at : Nat]

TTypeOK ==
    /\ now \in Nat
    /\ failures \in [DOMAIN failures -> Entry]
    /\ \A k \in DOMAIN failures : failures[k].start <= now
    /\ request \in [Requests -> Request]
    /\ \A r \in Requests : request[r].began <= now
    /\ wrong \in Seq(Wrong)

\* The wrong passwords for a key since a time.
WrongSince(w, k, t) == {i \in DOMAIN w : k \in w[i].keys /\ w[i].at >= t}

CountedHappened ==
    \A k \in DOMAIN failures : failures[k].count <= Cardinality(WrongSince(wrong, k, failures[k].start))

\* Requests let through, whose failure may still be counted for a key.
LetThrough(k) == {r \in Requests : request[r].at = "checked" /\ k \in request[r].keys}

FewOver ==
    \A k \in DOMAIN failures :
        failures[k].count + Cardinality(LetThrough(k)) < Failures + Cardinality(Requests)

Caused(r) ==
    request[r].at = "refused" =>
        \E k \in request[r].keys : Cardinality(Recent(k, request[r].began)) >= Failures

TInv == TTypeOK /\ CountedHappened /\ FewOver /\ \A r \in Requests : Caused(r)

-----------------------------------------------------------------------------
(* Counting. *)

LEMMA FailuresNumber ==
  /\ Failures \in Nat \ {0} /\ Window \in Nat \ {0}
  /\ IsFiniteSet(Requests) /\ Cardinality(Requests) \in Nat
  BY ThrottleAssumption, FS_CardinalityType DEF ThrottleAssumption

LEMMA WrongFinite ==
  ASSUME wrong \in Seq(Wrong), NEW S \in SUBSET DOMAIN wrong
  PROVE  IsFiniteSet(S) /\ Cardinality(S) \in Nat
<1>1. IsFiniteSet(1 .. Len(wrong)) /\ DOMAIN wrong = 1 .. Len(wrong)
  BY FS_Interval
<1> QED
  BY <1>1, FS_Subset, FS_CardinalityType

LEMMA LetThroughFinite ==
  ASSUME NEW S \in SUBSET Requests
  PROVE  IsFiniteSet(S) /\ Cardinality(S) \in Nat /\ Cardinality(S) <= Cardinality(Requests)
  BY FailuresNumber, FS_Subset, FS_CardinalityType

\* Fewer requests let through, no more failures counted.
LEMMA FewerLetThrough ==
  ASSUME NEW k, LetThrough(k)' \subseteq LetThrough(k)
  PROVE  /\ Cardinality(LetThrough(k)') \in Nat /\ Cardinality(LetThrough(k)) \in Nat
         /\ Cardinality(LetThrough(k)') <= Cardinality(LetThrough(k))
<1>1. LetThrough(k) \in SUBSET Requests
  BY DEF LetThrough
<1> QED
  BY <1>1, LetThroughFinite, FS_Subset

\* A request that moves on, in one way or another.
LEMMA RequestMoves ==
  ASSUME TInv, NEW r \in Requests, NEW q \in Request, request' = [request EXCEPT ![r] = q]
  PROVE  /\ request' \in [Requests -> Request]
         /\ \A o \in Requests : request'[o] = IF o = r THEN q ELSE request[o]
  BY DEF TInv, TTypeOK

\* What happened stays so, and what caused a refusal is not forgotten.
LEMMA CauseStays ==
  ASSUME TInv, NEW r \in Requests, request'[r] = request[r], UNCHANGED wrong
  PROVE  Caused(r)'
  BY DEF TInv, Caused, Recent

LEMMA CountsStay ==
  ASSUME TInv, UNCHANGED wrong, DOMAIN failures' \subseteq DOMAIN failures,
         \A k \in DOMAIN failures' : failures'[k] = failures[k]
  PROVE  CountedHappened'
  BY DEF TInv, CountedHappened, WrongSince

-----------------------------------------------------------------------------
(* The steps. *)

LEMMA TInit_TInv ==
  ASSUME TInit PROVE TInv
<1>1. DOMAIN failures = {}
  BY DEF TInit
<1>2. TTypeOK
  BY <1>1 DEF TInit, TTypeOK, Nothing, Request
<1> QED
  BY <1>1, <1>2 DEF TInit, TInv, CountedHappened, FewOver, Caused, Nothing

\* A request that is neither let through nor refused by the step.
LEMMA Leaves ==
  ASSUME TInv, NEW r \in Requests, NEW q \in Request, q.at \in {"none", "begun"}, q.began <= now,
         request' = [request EXCEPT ![r] = q], UNCHANGED <<now, failures, wrong>>
  PROVE  TInv'
<1>1. /\ request' \in [Requests -> Request]
      /\ \A o \in Requests : request'[o] = IF o = r THEN q ELSE request[o]
  BY RequestMoves
<1>2. TTypeOK'
  BY <1>1 DEF TInv, TTypeOK
<1>3. CountedHappened'
  BY CountsStay
<1>4. FewOver'
  <2>1. \A k : LetThrough(k)' \subseteq LetThrough(k)
    BY <1>1 DEF LetThrough
  <2>2. \A k \in DOMAIN failures : failures[k].count \in Nat
    BY DEF TInv, TTypeOK, Entry
  <2> QED
    BY <2>1, <2>2, FewerLetThrough, FailuresNumber DEF TInv, FewOver
<1>5. \A o \in Requests : Caused(o)'
  BY <1>1, CauseStays DEF Caused
<1> QED
  BY <1>2, <1>3, <1>4, <1>5 DEF TInv

LEMMA TBegin ==
  ASSUME TInv, NEW r \in Requests, Begin(r) PROVE TInv'
<1>1. PICK l \in Logins, a \in Sources :
        request' = [request EXCEPT ![r] = [at |-> "begun", keys |-> {l, a}, began |-> now]]
  BY DEF Begin
<1> DEFINE q == [at |-> "begun", keys |-> {l, a}, began |-> now]
<1>2. q \in Request /\ q.at = "begun" /\ q.began <= now
  BY DEF Request, Keys, TInv, TTypeOK
<1> HIDE DEF q
<1>3. request' = [request EXCEPT ![r] = q]
  BY <1>1 DEF q
<1> QED
  BY <1>2, <1>3, Leaves DEF Begin

LEMMA TLeaves ==
  ASSUME TInv, NEW r \in Requests, LetIn(r) \/ Answered(r) PROVE TInv'
<1>1. Nothing \in Request /\ Nothing.at = "none" /\ Nothing.began <= now
  BY DEF Request, Nothing, TInv, TTypeOK
<1> QED
  BY <1>1, Leaves DEF LetIn, Answered

Judged(q, at) == [q EXCEPT !.at = at]

LEMMA JudgedRequest ==
  ASSUME NEW q \in Request, NEW at \in {"refused", "checked"}
  PROVE  /\ Judged(q, at) \in Request /\ Judged(q, at).at = at
         /\ Judged(q, at).keys = q.keys /\ Judged(q, at).began = q.began
  BY DEF Request, Judged

\* A key is blocked by failures that happened in the window before the request;
\* a request let through is one of those that may be counted.
LEMMA TBlocked ==
  ASSUME TInv, NEW r \in Requests, Blocked(r) PROVE TInv'
<1> DEFINE t == request[r].began
           kept == Running(t)
           over == \E k \in request[r].keys \cap DOMAIN kept : kept[k].count >= Failures
           at == IF over THEN "refused" ELSE "checked"
           q == Judged(request[r], at)
<1>1. request' = [request EXCEPT ![r] = q]
  BY Zenon DEF Blocked, Judged
<1>2. request[r] \in Request /\ t \in Nat /\ t <= now /\ now \in Nat
  BY DEF TInv, TTypeOK, Request
<1>3. q \in Request /\ q.at = at /\ q.keys = request[r].keys /\ q.began = t
  BY <1>2, JudgedRequest
<1> HIDE DEF q
<1>4. /\ request' \in [Requests -> Request]
      /\ \A o \in Requests : request'[o] = IF o = r THEN q ELSE request[o]
  BY <1>1, <1>3, RequestMoves
<1>5. /\ failures' = kept /\ UNCHANGED <<now, wrong>>
      /\ DOMAIN kept = {k \in DOMAIN failures : Since(t, failures[k].start) < Window}
      /\ \A k \in DOMAIN kept : kept[k] = failures[k]
  BY DEF Blocked, Running, Restrict
<1> HIDE DEF kept
<1>6. TTypeOK'
  <2>1. failures' = [k \in DOMAIN failures' |-> failures'[k]]
    BY DEF Blocked, Running, Restrict
  <2> QED
    BY <1>2, <1>3, <1>4, <1>5, <2>1 DEF TInv, TTypeOK
<1>7. CountedHappened'
  BY <1>5, CountsStay
<1>8. FewOver'
  <2> SUFFICES ASSUME NEW k \in DOMAIN failures'
               PROVE  failures'[k].count + Cardinality(LetThrough(k)') < Failures + Cardinality(Requests)
    BY DEF FewOver
  <2>1. failures'[k] = failures[k] /\ failures[k].count \in Nat /\ k \in DOMAIN failures
    BY <1>5 DEF TInv, TTypeOK, Entry
  <2>2. CASE ~over /\ k \in request[r].keys
    <3>1. failures[k].count < Failures
      BY <1>5, <2>1, <2>2, FailuresNumber
    <3>2. LetThrough(k)' \in SUBSET Requests
      BY DEF LetThrough
    <3> QED
      BY <2>1, <3>1, <3>2, LetThroughFinite, FailuresNumber
  <2>3. CASE over \/ k \notin request[r].keys
    <3>1. LetThrough(k)' \subseteq LetThrough(k)
      BY <1>3, <1>4, <2>3 DEF LetThrough
    <3> QED
      BY <2>1, <3>1, FewerLetThrough, FailuresNumber DEF TInv, FewOver
  <2> QED
    BY <2>2, <2>3
<1>9. Caused(r)'
  <2> SUFFICES ASSUME over
               PROVE  \E k \in request'[r].keys : Cardinality(Recent(k, request[r].began)') >= Failures
    BY <1>3, <1>4 DEF Caused
  <2>1. PICK k \in request[r].keys \cap DOMAIN kept : kept[k].count >= Failures
    OBVIOUS
  <2>2. /\ k \in DOMAIN failures /\ failures[k].count >= Failures
        /\ Since(t, failures[k].start) < Window
        /\ failures[k].start \in Nat /\ failures[k].count \in Nat
    BY <1>5, <2>1 DEF TInv, TTypeOK, Entry
  <2>3. failures[k].start > t - Window
    BY <1>2, <2>2, FailuresNumber DEF Since
  <2>4. WrongSince(wrong, k, failures[k].start) \subseteq Recent(k, t)
    <3>1. ASSUME NEW i \in DOMAIN wrong PROVE wrong[i].at \in Nat
      <4>1. wrong[i] \in Wrong
        BY DEF TInv, TTypeOK
      <4> QED
        BY <4>1 DEF Wrong
    <3> QED
      BY <1>2, <2>2, <2>3, <3>1, FailuresNumber DEF WrongSince, Recent
  <2>5. /\ IsFiniteSet(Recent(k, t)) /\ Cardinality(Recent(k, t)) \in Nat
        /\ Cardinality(WrongSince(wrong, k, failures[k].start)) \in Nat
    BY WrongFinite DEF TInv, TTypeOK, Recent, WrongSince
  <2>6. Cardinality(WrongSince(wrong, k, failures[k].start)) <= Cardinality(Recent(k, t))
    BY <2>4, <2>5, FS_Subset
  <2>7. Cardinality(Recent(k, t)) >= Failures
    BY <2>2, <2>5, <2>6, FailuresNumber DEF TInv, CountedHappened
  <2>8. /\ request'[r].began = t /\ request'[r].keys = request[r].keys
        /\ Recent(k, request[r].began)' = Recent(k, t)
    BY <1>3, <1>4, <1>5 DEF Recent
  <2> QED
    BY <2>7, <2>8
<1>10. \A o \in Requests : Caused(o)'
  BY <1>4, <1>5, <1>9, CauseStays
<1> QED
  BY <1>6, <1>7, <1>8, <1>10 DEF TInv

\* One more wrong password, for some keys.
LEMMA OneMoreWrong ==
  ASSUME NEW w \in Seq(Wrong), NEW x \in Wrong, NEW k, NEW t \in Nat
  PROVE  LET old == WrongSince(w, k, t)
             new == WrongSince(Append(w, x), k, t)
         IN  /\ Append(w, x) \in Seq(Wrong)
             /\ Cardinality(old) \in Nat /\ Cardinality(new) \in Nat
             /\ Cardinality(new) >= Cardinality(old)
             /\ k \in x.keys /\ x.at >= t => Cardinality(new) = Cardinality(old) + 1
<1> DEFINE y == Append(w, x)
           n == Len(w) + 1
           old == WrongSince(w, k, t)
           new == WrongSince(y, k, t)
<1>1. /\ y \in Seq(Wrong) /\ DOMAIN w = 1 .. Len(w) /\ DOMAIN y = DOMAIN w \cup {n}
      /\ n \notin DOMAIN w
      /\ \A i \in DOMAIN w : y[i] = w[i]
      /\ y[n] = x
  OBVIOUS
<1> HIDE DEF y, n
<1>2. old \subseteq new /\ new \subseteq old \cup {n} /\ n \notin old
  BY <1>1 DEF WrongSince
<1>3. k \in x.keys /\ x.at >= t => n \in new
  BY <1>1 DEF WrongSince
<1>4. IsFiniteSet(old)
  <2>1. old \in SUBSET (1 .. Len(w)) /\ IsFiniteSet(1 .. Len(w))
    BY <1>1, FS_Interval DEF WrongSince
  <2> QED
    BY <2>1, FS_Subset
<1> HIDE DEF old, new
<1>5. /\ IsFiniteSet(old \cup {n}) /\ Cardinality(old) \in Nat
      /\ Cardinality(old \cup {n}) = Cardinality(old) + 1
  BY <1>2, <1>4, FS_AddElement, FS_CardinalityType
<1>6. IsFiniteSet(new) /\ Cardinality(new) \in Nat /\ Cardinality(old) <= Cardinality(new)
  BY <1>2, <1>5, FS_Subset, FS_CardinalityType
<1>7. n \in new => new = old \cup {n}
  BY <1>2
<1> QED
  BY <1>1, <1>3, <1>5, <1>6, <1>7 DEF old, new, y

LEMMA OneLessLetThrough ==
  ASSUME NEW r \in Requests, NEW k, LetThrough(k)' = LetThrough(k) \ {r}
  PROVE  /\ Cardinality(LetThrough(k)') \in Nat /\ Cardinality(LetThrough(k)) \in Nat
         /\ Cardinality(LetThrough(k)') < Cardinality(Requests)
         /\ r \in LetThrough(k) => Cardinality(LetThrough(k)') = Cardinality(LetThrough(k)) - 1
         /\ Cardinality(LetThrough(k)') <= Cardinality(LetThrough(k))
<1>1. LetThrough(k) \in SUBSET Requests /\ LetThrough(k) \ {r} \in SUBSET (Requests \ {r})
  BY DEF LetThrough
<1>2. /\ IsFiniteSet(Requests \ {r})
      /\ Cardinality(Requests \ {r}) = Cardinality(Requests) - 1
  BY FailuresNumber, FS_RemoveElement
<1>3. Cardinality(LetThrough(k) \ {r}) <= Cardinality(Requests) - 1
  BY <1>1, <1>2, FS_Subset
<1>4. /\ IsFiniteSet(LetThrough(k)) /\ Cardinality(LetThrough(k)) \in Nat
      /\ IsFiniteSet(LetThrough(k) \ {r}) /\ Cardinality(LetThrough(k) \ {r}) \in Nat
  BY <1>1, LetThroughFinite
<1>5. Cardinality(LetThrough(k) \ {r}) =
        IF r \in LetThrough(k) THEN Cardinality(LetThrough(k)) - 1 ELSE Cardinality(LetThrough(k))
  BY <1>4, FS_RemoveElement
<1> QED
  BY <1>3, <1>4, <1>5, FailuresNumber

CountedOn(e) == [e EXCEPT !.count = @ + 1]

LEMMA CountedOnEntry ==
  ASSUME NEW e \in Entry
  PROVE  CountedOn(e) \in Entry /\ CountedOn(e).count = e.count + 1 /\ CountedOn(e).start = e.start
  BY DEF Entry, CountedOn

\* A failure is counted in the window it falls in, or opens one; the request
\* that brings it was let through before, and is now done with.
LEMMA TFail ==
  ASSUME TInv, NEW r \in Requests, Fail(r) PROVE TInv'
<1> DEFINE t == request[r].began
           keys == request[r].keys
           x == [keys |-> keys, at |-> now]
<1>1. request[r] \in Request /\ t \in Nat /\ t <= now /\ now \in Nat /\ keys \in SUBSET Keys
  BY DEF TInv, TTypeOK, Request
<1>2. x \in Wrong /\ x.keys = keys /\ x.at = now
  BY <1>1 DEF Wrong
<1>3. wrong' = Append(wrong, x) /\ wrong \in Seq(Wrong) /\ UNCHANGED now /\ request[r].at = "checked"
  BY DEF Fail, TInv, TTypeOK
<1>4. /\ Nothing \in Request /\ Nothing.at = "none" /\ Nothing.began <= now
  BY <1>1 DEF Request, Nothing
<1>5. /\ request' \in [Requests -> Request]
      /\ \A o \in Requests : request'[o] = IF o = r THEN Nothing ELSE request[o]
  BY <1>4, RequestMoves DEF Fail
<1>6. /\ failures' = [k \in DOMAIN failures' |-> failures'[k]]
      /\ DOMAIN failures' = DOMAIN failures \cup keys
      /\ \A k \in DOMAIN failures' :
            failures'[k] = IF k \in keys THEN Counted(k, t) ELSE failures[k]
  BY DEF Fail
<1> HIDE DEF t, keys, x
<1>7. \A k \in DOMAIN failures : /\ failures[k] \in Entry /\ failures[k].start <= now
                                 /\ failures[k].start \in Nat /\ failures[k].count \in Nat
  BY DEF TInv, TTypeOK, Entry
<1>8. ASSUME NEW k \in keys
      PROVE  \/ /\ k \in DOMAIN failures /\ Counted(k, t) = CountedOn(failures[k])
             \/ Counted(k, t) = [count |-> 1, start |-> t]
  BY Zenon DEF Counted, CountedOn
<1>9. \A k \in DOMAIN failures' : failures'[k] \in Entry /\ failures'[k].start <= now
  <2> SUFFICES ASSUME NEW k \in DOMAIN failures'
               PROVE  failures'[k] \in Entry /\ failures'[k].start <= now
    OBVIOUS
  <2>1. CASE k \notin keys
    BY <1>6, <1>7, <2>1
  <2>2. CASE k \in DOMAIN failures /\ failures'[k] = CountedOn(failures[k])
    BY <1>7, <2>2, CountedOnEntry
  <2>3. CASE failures'[k] = [count |-> 1, start |-> t]
    BY <1>1, <2>3 DEF Entry
  <2> QED
    BY <1>6, <1>8, <2>1, <2>2, <2>3
<1>10. TTypeOK'
  <2>1. wrong' \in Seq(Wrong)
    BY <1>2, <1>3
  <2>2. \A o \in Requests : request'[o].began <= now'
    BY <1>3, <1>4, <1>5 DEF TInv, TTypeOK
  <2> QED
    BY <1>1, <1>3, <1>5, <1>6, <1>9, <2>1, <2>2 DEF TTypeOK
<1>11. CountedHappened'
  <2> SUFFICES ASSUME NEW k \in DOMAIN failures'
               PROVE  failures'[k].count <= Cardinality(WrongSince(wrong', k, failures'[k].start))
    BY DEF CountedHappened
  <2>1. CASE k \notin keys
    <3>1. k \in DOMAIN failures /\ failures'[k] = failures[k]
      BY <1>6, <2>1
    <3>2. failures[k].count <= Cardinality(WrongSince(wrong, k, failures[k].start))
      BY <3>1 DEF TInv, CountedHappened
    <3> QED
      BY <1>2, <1>3, <1>7, <3>1, <3>2, OneMoreWrong
  <2>2. CASE k \in keys /\ k \in DOMAIN failures /\ failures'[k] = CountedOn(failures[k])
    <3>1. failures[k].count <= Cardinality(WrongSince(wrong, k, failures[k].start))
      BY <2>2 DEF TInv, CountedHappened
    <3>2. /\ failures'[k].count = failures[k].count + 1 /\ failures'[k].start = failures[k].start
          /\ failures[k].start \in Nat /\ failures[k].start <= now /\ failures[k].count \in Nat
      BY <1>7, <2>2, CountedOnEntry
    <3> QED
      BY <1>2, <1>3, <2>2, <3>1, <3>2, OneMoreWrong
  <2>3. CASE k \in keys /\ failures'[k] = [count |-> 1, start |-> t]
    <3>1. failures'[k].count = 1 /\ failures'[k].start = t
      BY <2>3
    <3>2. Cardinality(WrongSince(wrong', k, t)) >= 1
      BY <1>1, <1>2, <1>3, <2>3, OneMoreWrong
    <3> QED
      BY <3>1, <3>2
  <2> QED
    BY <1>6, <1>8, <2>1, <2>2, <2>3
<1>12. FewOver'
  <2> SUFFICES ASSUME NEW k \in DOMAIN failures'
               PROVE  failures'[k].count + Cardinality(LetThrough(k)') < Failures + Cardinality(Requests)
    BY DEF FewOver
  <2>1. LetThrough(k)' = LetThrough(k) \ {r}
    BY <1>4, <1>5 DEF LetThrough
  <2>2. k \in DOMAIN failures =>
            failures[k].count + Cardinality(LetThrough(k)) < Failures + Cardinality(Requests)
    BY DEF TInv, FewOver
  <2> DEFINE before == Cardinality(LetThrough(k))
             after == Cardinality(LetThrough(k)')
  <2>0. /\ after \in Nat /\ before \in Nat /\ after <= before
        /\ after < Cardinality(Requests)
        /\ r \in LetThrough(k) => after = before - 1
    BY <2>1, OneLessLetThrough
  <2> HIDE DEF before, after
  <2>3. CASE k \notin keys
    <3>1. k \in DOMAIN failures /\ failures'[k] = failures[k] /\ failures[k].count \in Nat
      BY <1>6, <1>7, <2>3
    <3> QED
      BY <2>0, <2>2, <3>1, FailuresNumber DEF before, after
  <2>4. CASE k \in keys /\ k \in DOMAIN failures /\ failures'[k] = CountedOn(failures[k])
    <3>1. failures'[k].count = failures[k].count + 1 /\ failures[k].count \in Nat
      BY <1>7, <2>4, CountedOnEntry
    <3>2. r \in LetThrough(k)
      BY <1>3, <2>4 DEF LetThrough, keys
    <3> QED
      BY <2>0, <2>2, <2>4, <3>1, <3>2, FailuresNumber DEF before, after
  <2>5. CASE failures'[k] = [count |-> 1, start |-> t]
    <3>1. failures'[k].count = 1
      BY <2>5
    <3> QED
      BY <2>0, <3>1, FailuresNumber DEF after
  <2> QED
    BY <1>6, <1>8, <2>3, <2>4, <2>5
<1>13. ASSUME NEW o \in Requests PROVE Caused(o)'
  <2>1. CASE o = r
    BY <1>4, <1>5, <2>1 DEF Caused
  <2>2. CASE o # r
    <3>1. request'[o] = request[o]
      BY <1>5, <2>2
    <3> SUFFICES ASSUME request[o].at = "refused"
                 PROVE  \E k \in request[o].keys : Cardinality(Recent(k, request[o].began)') >= Failures
      BY <3>1 DEF Caused
    <3>2. PICK k \in request[o].keys : Cardinality(Recent(k, request[o].began)) >= Failures
      BY DEF TInv, Caused
    <3>3. DOMAIN wrong \subseteq DOMAIN wrong' /\ \A i \in DOMAIN wrong : wrong'[i] = wrong[i]
      BY <1>2, <1>3
    <3>4. Recent(k, request[o].began) \subseteq Recent(k, request[o].began)'
      BY <3>1, <3>3 DEF Recent
    <3>5. Recent(k, request[o].began)' \in SUBSET (1 .. Len(wrong'))
      BY <1>10 DEF TTypeOK, Recent
    <3>6. IsFiniteSet(Recent(k, request[o].began)')
      <4>1. Len(wrong') \in Nat
        BY <1>10 DEF TTypeOK
      <4>2. \A n \in Nat : IsFiniteSet(1 .. n)
        BY FS_Interval
      <4>3. IsFiniteSet(1 .. Len(wrong'))
        BY <4>1, <4>2
      <4> QED
        BY <3>5, <4>3, FS_Subset
    <3>7. /\ Cardinality(Recent(k, request[o].began)) <= Cardinality(Recent(k, request[o].began)')
          /\ Cardinality(Recent(k, request[o].began)') \in Nat
          /\ Cardinality(Recent(k, request[o].began)) \in Nat
      BY <3>4, <3>6, FS_Subset, FS_CardinalityType
    <3> QED
      BY <3>2, <3>7, FailuresNumber
  <2> QED
    BY <2>1, <2>2
<1> QED
  BY <1>10, <1>11, <1>12, <1>13 DEF TInv

LEMMA TTick ==
  ASSUME TInv, Tick \/ UNCHANGED tvars PROVE TInv'
<1>1. UNCHANGED <<failures, request, wrong>> /\ now \in Nat /\ now' \in Nat /\ now <= now'
  BY DEF Tick, tvars, TInv, TTypeOK
<1>2. TTypeOK'
  <2>1. \A k \in DOMAIN failures : failures[k].start \in Nat
    BY DEF TInv, TTypeOK, Entry
  <2>2. \A r \in Requests : request[r].began \in Nat
    BY DEF TInv, TTypeOK, Request
  <2> QED
    BY <1>1, <2>1, <2>2 DEF TInv, TTypeOK
<1> QED
  BY <1>1, <1>2 DEF TInv, CountedHappened, FewOver, Caused, LetThrough, Recent

\* What the throttle holds is what happened.
THEOREM ThrottleInvariant == TSpec => []TInv
<1>1. TInit => TInv
  BY TInit_TInv
<1>2. TInv /\ [TNext]_tvars => TInv'
  BY TBegin, TBlocked, TLeaves, TFail, TTick DEF TNext
<1> QED
  BY <1>1, <1>2, PTL DEF TSpec

\* Whatever requests come in between its steps, the WebDAV sign-in refuses a
\* request only for enough failures of one key in the window before it, and the
\* count of a key exceeds the limit by less than the number of requests under
\* way (blocked() and fail() in app_passwords.rs).
THEOREM Refusals == TSpec => []RefusedForCause
<1>1. TInv => RefusedForCause
  <2> SUFFICES ASSUME TInv PROVE RefusedForCause
    OBVIOUS
  <2>1. ThrottleWellFormed
    <3>1. \A r \in Requests : request[r].at \in {"none", "begun", "checked", "refused"}
      BY DEF TInv, TTypeOK, Request
    <3>2. \A k \in DOMAIN failures : failures[k].start <= now /\ failures[k].count >= 1
      BY DEF TInv, TTypeOK, Entry
    <3> QED
      BY <3>1, <3>2 DEF ThrottleWellFormed
  <2>2. ASSUME NEW k \in DOMAIN failures
        PROVE  failures[k].count < Failures + Cardinality(Requests)
    <3>1. LetThrough(k) \in SUBSET Requests /\ failures[k].count \in Nat
      BY DEF TInv, TTypeOK, Entry, LetThrough
    <3> QED
      BY <3>1, LetThroughFinite, FailuresNumber DEF TInv, FewOver
  <2> QED
    BY <2>1, <2>2 DEF TInv, Caused, RefusedForCause
<1> QED
  BY <1>1, ThrottleInvariant, PTL

-----------------------------------------------------------------------------
(* The store of app passwords. *)

Record == [id : Nat, user : Users, used : BOOLEAN]

App == [pending : {"none", "create", "revoke", "done", "failed"}, id : Nat, answer : Nat,
        shows : Nat, list : {"none", "ready", "failed"}, seen : SUBSET Record]

ATypeOK ==
    /\ made \in 0 .. MaxMade
    /\ records \in Seq(Record) /\ disk \in Seq(Record)
    /\ Ids(records) \subseteq 1 .. made
    /\ told \in [DOMAIN told -> {"made", "revoked"}]
    /\ DOMAIN told \subseteq 1 .. made
    /\ app \in [Windows -> App]
    /\ faults \in Nat

\* Two stores that differ in nothing but which passwords were used.
Alike(rs, ds) ==
    /\ Len(rs) = Len(ds)
    /\ \A i \in 1 .. Len(rs) : rs[i].id = ds[i].id /\ rs[i].user = ds[i].user

EachOnce(rs) == \A i, j \in 1 .. Len(rs) : rs[i].id = rs[j].id => i = j

FewEnough(rs) == \A u \in Users : Cardinality(Of(u, rs)) <= Limit

AsTold == Ids(records) = {id \in DOMAIN told : told[id] = "made"}

AInv == ATypeOK /\ Alike(records, disk) /\ EachOnce(records) /\ FewEnough(records) /\ AsTold

-----------------------------------------------------------------------------
(* Sequences of records. *)

LEMMA OfFinite ==
  ASSUME NEW rs \in Seq(Record), NEW u
  PROVE  IsFiniteSet(Of(u, rs)) /\ Cardinality(Of(u, rs)) \in Nat
<1>1. Of(u, rs) \in SUBSET (1 .. Len(rs)) /\ Len(rs) \in Nat
  BY DEF Of
<1>2. IsFiniteSet(1 .. Len(rs))
  BY <1>1, FS_Interval
<1> QED
  BY <1>1, <1>2, FS_Subset, FS_CardinalityType

LEMMA PlaceOf ==
  ASSUME NEW rs \in Seq(Record), NEW id \in Ids(rs)
  PROVE  Place(rs, id) \in 1 .. Len(rs) /\ rs[Place(rs, id)].id = id
<1>1. \E i \in DOMAIN rs : rs[i].id = id
  BY DEF Ids
<1>2. Place(rs, id) \in DOMAIN rs /\ rs[Place(rs, id)].id = id
  BY <1>1 DEF Place
<1> QED
  BY <1>2

LEMMA RemoveAtGives ==
  ASSUME NEW rs \in Seq(Record), NEW n \in 1 .. Len(rs)
  PROVE  /\ RemoveAt(rs, n) \in Seq(Record)
         /\ Len(RemoveAt(rs, n)) = Len(rs) - 1
         /\ \A i \in 1 .. (Len(rs) - 1) :
                RemoveAt(rs, n)[i] = IF i < n THEN rs[i] ELSE rs[i + 1]
<1> DEFINE front == SubSeq(rs, 1, n - 1)
           back == SubSeq(rs, n + 1, Len(rs))
<1>1. /\ front \in Seq(Record) /\ Len(front) = n - 1
      /\ \A i \in 1 .. (n - 1) : front[i] = rs[i]
  BY SubSeqProperties
<1>2. /\ back \in Seq(Record) /\ Len(back) = Len(rs) - n
      /\ \A i \in 1 .. (Len(rs) - n) : back[i] = rs[n + i]
  BY SubSeqProperties
<1> HIDE DEF front, back
<1>3. RemoveAt(rs, n) = front \o back
  BY DEF RemoveAt, front, back
<1>4. /\ front \o back \in Seq(Record) /\ Len(front \o back) = Len(front) + Len(back)
      /\ \A i \in 1 .. (Len(front) + Len(back)) :
            (front \o back)[i] = IF i <= Len(front) THEN front[i] ELSE back[i - Len(front)]
  BY <1>1, <1>2, ConcatProperties
<1>5. Len(rs) \in Nat /\ n \in Nat
  OBVIOUS
<1>6. ASSUME NEW i \in 1 .. (Len(rs) - 1)
      PROVE  (front \o back)[i] = IF i < n THEN rs[i] ELSE rs[i + 1]
  <2>1. CASE i < n
    <3>1. i \in 1 .. (n - 1) /\ i <= Len(front)
      BY <1>1, <1>5, <2>1
    <3> QED
      BY <1>1, <1>2, <1>4, <2>1, <3>1
  <2>2. CASE ~(i < n)
    <3>1. /\ i \in 1 .. (Len(front) + Len(back)) /\ ~(i <= Len(front))
          /\ i - (n - 1) \in 1 .. (Len(rs) - n) /\ n + (i - (n - 1)) = i + 1
      BY <1>1, <1>2, <1>5, <2>2
    <3>2. (front \o back)[i] = back[i - (n - 1)]
      BY <1>1, <1>4, <3>1
    <3>3. back[i - (n - 1)] = rs[i + 1]
      BY <1>2, <3>1
    <3> QED
      BY <2>2, <3>2, <3>3
  <2> QED
    BY <2>1, <2>2
<1> QED
  BY <1>1, <1>2, <1>3, <1>4, <1>5, <1>6

\* Stores that are alike hold the same passwords.
LEMMA AlikeHold ==
  ASSUME NEW rs \in Seq(Record), NEW ds \in Seq(Record), Alike(rs, ds)
  PROVE  /\ Ids(ds) = Ids(rs)
         /\ \A u : Of(u, ds) = Of(u, rs)
         /\ EachOnce(rs) => EachOnce(ds)
         /\ FewEnough(rs) => FewEnough(ds)
         /\ Alike(ds, ds)
<1>1. \A u : Of(u, ds) = Of(u, rs)
  BY DEF Of, Alike
<1> QED
  BY <1>1 DEF Alike, Ids, EachOnce, FewEnough

LEMMA LimitNumber == Limit \in Nat /\ MaxMade \in Nat
  BY AppPasswordsAssumption DEF AppPasswordsAssumption

LEMMA AppendStore ==
  ASSUME NEW rs \in Seq(Record), NEW x \in Record, x.id \notin Ids(rs),
         EachOnce(rs), FewEnough(rs), ~(Cardinality(Of(x.user, rs)) >= Limit)
  PROVE  LET new == Append(rs, x) IN
         /\ new \in Seq(Record) /\ Ids(new) = Ids(rs) \cup {x.id}
         /\ EachOnce(new) /\ FewEnough(new)
<1> DEFINE new == Append(rs, x)
           n == Len(rs) + 1
<1>1. /\ new \in Seq(Record) /\ DOMAIN rs = 1 .. Len(rs) /\ DOMAIN new = 1 .. n /\ Len(new) = n
      /\ 1 .. n = (1 .. Len(rs)) \cup {n} /\ n \notin 1 .. Len(rs)
      /\ \A i \in 1 .. Len(rs) : new[i] = rs[i]
      /\ new[n] = x
  OBVIOUS
<1> HIDE DEF new, n
<1>2. Ids(new) = Ids(rs) \cup {x.id}
  BY <1>1 DEF Ids
<1>3. \A i \in 1 .. Len(rs) : rs[i].id # x.id
  BY <1>1 DEF Ids
<1>4. EachOnce(new)
  BY <1>1, <1>3 DEF EachOnce
<1>5. ASSUME NEW u \in Users PROVE Cardinality(Of(u, new)) <= Limit
  <2>1. IsFiniteSet(Of(u, rs)) /\ Cardinality(Of(u, rs)) \in Nat
    BY OfFinite
  <2>2. CASE x.user = u
    <3>1. Of(u, new) = Of(u, rs) \cup {n} /\ n \notin Of(u, rs)
      BY <1>1, <2>2 DEF Of
    <3>2. Cardinality(Of(u, new)) = Cardinality(Of(u, rs)) + 1
      BY <2>1, <3>1, FS_AddElement
    <3> QED
      BY <2>1, <2>2, <3>2, LimitNumber
  <2>3. CASE x.user # u
    <3>1. Of(u, new) = Of(u, rs)
      BY <1>1, <2>3 DEF Of
    <3> QED
      BY <3>1 DEF FewEnough
  <2> QED
    BY <2>2, <2>3
<1> QED
  BY <1>1, <1>2, <1>4, <1>5 DEF FewEnough, new

LEMMA RemoveStore ==
  ASSUME NEW rs \in Seq(Record), NEW id \in Ids(rs), EachOnce(rs), FewEnough(rs)
  PROVE  LET new == RemoveAt(rs, Place(rs, id)) IN
         /\ new \in Seq(Record) /\ Ids(new) = Ids(rs) \ {id}
         /\ EachOnce(new) /\ FewEnough(new)
<1> DEFINE n == Place(rs, id)
           new == RemoveAt(rs, n)
           old(i) == IF i < n THEN i ELSE i + 1
<1>1. n \in 1 .. Len(rs) /\ rs[n].id = id
  BY PlaceOf
<1>2. /\ new \in Seq(Record) /\ Len(new) = Len(rs) - 1
      /\ \A i \in 1 .. (Len(rs) - 1) : new[i] = IF i < n THEN rs[i] ELSE rs[i + 1]
  BY <1>1, RemoveAtGives
<1> HIDE DEF n, new
<1>3. Len(rs) \in Nat /\ DOMAIN rs = 1 .. Len(rs) /\ DOMAIN new = 1 .. (Len(rs) - 1)
  BY <1>1, <1>2
<1>4. /\ \A i \in 1 .. (Len(rs) - 1) : old(i) \in 1 .. Len(rs) /\ old(i) # n /\ new[i] = rs[old(i)]
      /\ \A i, j \in 1 .. (Len(rs) - 1) : old(i) = old(j) => i = j
  BY <1>1, <1>2, <1>3
<1>5. \A k \in 1 .. Len(rs) : k # n => \E i \in 1 .. (Len(rs) - 1) : old(i) = k
  <2> SUFFICES ASSUME NEW k \in 1 .. Len(rs), k # n
               PROVE  \E i \in 1 .. (Len(rs) - 1) : old(i) = k
    OBVIOUS
  <2>1. CASE k < n
    <3>1. k \in 1 .. (Len(rs) - 1) /\ old(k) = k
      BY <1>1, <1>3, <2>1
    <3> QED
      BY <3>1
  <2>2. CASE ~(k < n)
    <3>1. k - 1 \in 1 .. (Len(rs) - 1) /\ old(k - 1) = k
      BY <1>1, <1>3, <2>2
    <3> QED
      BY <3>1
  <2> QED
    BY <2>1, <2>2
<1> HIDE DEF old
<1>6. Ids(new) = Ids(rs) \ {id}
  <2>1. \A k \in 1 .. Len(rs) : rs[k].id = id => k = n
    BY <1>1 DEF EachOnce
  <2>2. ASSUME NEW y \in Ids(new) PROVE y \in Ids(rs) \ {id}
    <3>1. PICK i \in 1 .. (Len(rs) - 1) : y = new[i].id
      BY <1>3 DEF Ids
    <3>2. y = rs[old(i)].id /\ old(i) \in 1 .. Len(rs) /\ old(i) # n
      BY <1>4, <3>1
    <3> QED
      BY <1>3, <2>1, <3>2 DEF Ids
  <2>3. ASSUME NEW y \in Ids(rs) \ {id} PROVE y \in Ids(new)
    <3>1. PICK k \in 1 .. Len(rs) : y = rs[k].id
      BY <1>3 DEF Ids
    <3>2. k # n
      BY <1>1, <3>1
    <3>3. PICK i \in 1 .. (Len(rs) - 1) : old(i) = k
      BY <1>5, <3>2
    <3> QED
      BY <1>3, <1>4, <3>1, <3>3 DEF Ids
  <2> QED
    BY <2>2, <2>3
<1>7. EachOnce(new)
  BY <1>2, <1>4 DEF EachOnce
<1>8. ASSUME NEW u \in Users PROVE Cardinality(Of(u, new)) <= Limit
  <2> DEFINE f == [i \in Of(u, new) |-> old(i)]
  <2>1. f \in Injection(Of(u, new), Of(u, rs))
    <3>1. ASSUME NEW i \in Of(u, new) PROVE old(i) \in Of(u, rs) /\ i \in 1 .. (Len(rs) - 1)
      BY <1>3, <1>4 DEF Of
    <3>2. f \in [Of(u, new) -> Of(u, rs)]
      BY <3>1
    <3>3. \A i, j \in Of(u, new) : f[i] = f[j] => i = j
      BY <1>4, <3>1
    <3> HIDE DEF f
    <3> QED
      BY <3>2, <3>3 DEF Injection, IsInjective
  <2>2. IsFiniteSet(Of(u, rs)) /\ Cardinality(Of(u, rs)) \in Nat
    BY OfFinite
  <2> HIDE DEF f
  <2>3. Cardinality(Of(u, new)) <= Cardinality(Of(u, rs)) /\ Cardinality(Of(u, new)) \in Nat
    BY <1>2, <2>1, <2>2, OfFinite, FS_Injection
  <2> QED
    BY <2>2, <2>3, LimitNumber DEF FewEnough
<1> QED
  BY <1>2, <1>6, <1>7, <1>8 DEF FewEnough, new, n

Noted(r) == [r EXCEPT !.used = TRUE]

LEMMA NotedRecord ==
  ASSUME NEW r \in Record
  PROVE  Noted(r) \in Record /\ Noted(r).id = r.id /\ Noted(r).user = r.user
  BY DEF Record, Noted

LEMMA NoteStore ==
  ASSUME NEW rs \in Seq(Record), NEW id \in Ids(rs)
  PROVE  LET new == [rs EXCEPT ![Place(rs, id)].used = TRUE] IN
         new \in Seq(Record) /\ Alike(rs, new) /\ Alike(new, new)
<1> DEFINE n == Place(rs, id)
           new == [rs EXCEPT ![n].used = TRUE]
           x == Noted(rs[n])
<1>1. new = [rs EXCEPT ![n] = x]
  BY Zenon DEF Noted
<1>2. n \in 1 .. Len(rs)
  BY PlaceOf
<1> HIDE DEF n
<1>3. x \in Record /\ x.id = rs[n].id /\ x.user = rs[n].user
  BY <1>2, NotedRecord
<1> HIDE DEF new, x
<1>4. /\ new \in Seq(Record) /\ Len(new) = Len(rs)
      /\ \A i \in 1 .. Len(rs) : new[i] = IF i = n THEN x ELSE rs[i]
  BY <1>1, <1>2, <1>3
<1>5. Alike(rs, new) /\ Alike(new, new)
  BY <1>3, <1>4 DEF Alike
<1> QED
  BY <1>4, <1>5 DEF new, n

-----------------------------------------------------------------------------
(* The steps of the store and of the windows. *)

LEMMA AInit_AInv ==
  ASSUME AInit PROVE AInv
<1>1. records = <<>> /\ disk = <<>> /\ DOMAIN told = {} /\ Len(<<>>) = 0 /\ DOMAIN <<>> = {}
  BY DEF AInit
<1>2. ATypeOK
  <2>1. Fresh \in App
    BY DEF Fresh, App
  <2>2. Ids(records) = {}
    BY <1>1 DEF Ids
  <2>3. records \in Seq(Record) /\ disk \in Seq(Record)
    BY <1>1
  <2> QED
    BY <1>1, <2>1, <2>2, <2>3, LimitNumber DEF AInit, ATypeOK
<1>3. FewEnough(records)
  <2>1. \A u : Of(u, records) = {}
    BY <1>1 DEF Of
  <2> QED
    BY <2>1, FS_EmptySet, LimitNumber DEF FewEnough
<1>4. Alike(records, disk) /\ EachOnce(records) /\ AsTold
  BY <1>1 DEF Alike, EachOnce, AsTold, Ids
<1> QED
  BY <1>2, <1>3, <1>4 DEF AInv

LEMMA WindowBecomes ==
  ASSUME AInv, NEW w \in Windows, NEW p \in App, BecomesWindow(w, p)
  PROVE  app' \in [Windows -> App]
  BY DEF AInv, ATypeOK, BecomesWindow

\* A step of a window alone.
LEMMA WindowStep ==
  ASSUME AInv, app' \in [Windows -> App], faults' \in Nat, UNCHANGED <<records, disk, made, told>>
  PROVE  AInv'
  BY DEF AInv, ATypeOK, Alike, EachOnce, FewEnough, AsTold

Answers(p, pending, id) == [p EXCEPT !.pending = pending, !.answer = id]

LEMMA AnswersWindow ==
  ASSUME NEW p \in App, NEW pending \in {"done", "failed"}, NEW id \in Nat
  PROVE  Answers(p, pending, id) \in App
  BY DEF App, Answers

LEMMA AnswerGives ==
  ASSUME AInv, NEW w \in Windows, NEW ok, NEW id \in Nat, Answer(w, ok, id)
  PROVE  app' \in [Windows -> App]
<1> DEFINE pending == IF ok THEN "done" ELSE "failed"
<1>1. pending \in {"done", "failed"}
  OBVIOUS
<1>2. BecomesWindow(w, Answers(app[w], pending, id))
  BY Zenon DEF Answer, Answers
<1>3. app[w] \in App
  BY DEF AInv, ATypeOK
<1> HIDE DEF pending
<1> QED
  BY <1>1, <1>2, <1>3, AnswersWindow, WindowBecomes

\* A save is done, or the store is as before and the step knows.
LEMMA SaveGives ==
  ASSUME AInv, NEW new, Save(new)
  PROVE  /\ faults' \in Nat
         /\ \/ Saved /\ records' = new /\ disk' = new
            \/ ~Saved /\ UNCHANGED <<records, disk>>
  BY DEF AInv, ATypeOK, Save, Saved, Undone

LEMMA ACreate ==
  ASSUME AInv, NEW w \in Windows, Create(w) PROVE AInv'
<1> DEFINE user == UserOf[w]
           id == made + 1
           x == [id |-> id, user |-> user, used |-> FALSE]
<1>1. made \in Nat /\ made \in 0 .. MaxMade /\ user \in Users
  BY AppPasswordsAssumption DEF AppPasswordsAssumption, AInv, ATypeOK
<1>2. CASE Answer(w, FALSE, 0) /\ UNCHANGED <<records, disk, made, told, faults>>
  BY <1>2, AnswerGives, WindowStep DEF AInv, ATypeOK
<1>3. CASE /\ ~(Cardinality(Of(user, records)) >= Limit)
           /\ made < MaxMade
           /\ made' = id
           /\ Save(Append(records, x))
           /\ Answer(w, Saved, id)
           /\ told' = IF Saved
                      THEN [i \in DOMAIN told \cup {id} |-> IF i = id THEN "made" ELSE told[i]]
                      ELSE told
  <2>1. x \in Record /\ x.id = id /\ x.user = user
    BY <1>1 DEF Record
  <2>2. id \in Nat /\ id \in 0 .. MaxMade /\ 1 .. made \subseteq 1 .. id
        /\ id \in 1 .. id /\ id \notin 1 .. made
    BY <1>1, <1>3, LimitNumber
  <2>3. app' \in [Windows -> App]
    BY <1>3, <2>2, AnswerGives
  <2> DEFINE new == Append(records, x)
  <2>4. /\ new \in Seq(Record) /\ Ids(new) = Ids(records) \cup {id}
        /\ EachOnce(new) /\ FewEnough(new)
    BY <1>3, <2>1, <2>2, AppendStore DEF AInv, ATypeOK
  <2>5. Save(new)
    BY <1>3
  <2> HIDE DEF x, new, id, user
  <2>6. CASE Saved /\ records' = new /\ disk' = new
    <3>1. told' = [i \in DOMAIN told \cup {id} |-> IF i = id THEN "made" ELSE told[i]]
      BY <1>3, <2>6
    <3>2. /\ DOMAIN told' = DOMAIN told \cup {id}
          /\ \A i \in DOMAIN told' : told'[i] = IF i = id THEN "made" ELSE told[i]
          /\ told' \in [DOMAIN told' -> {"made", "revoked"}]
      BY <3>1 DEF AInv, ATypeOK
    <3>3. ATypeOK'
      <4>1. made' \in 0 .. MaxMade
        BY <1>3, <2>2
      <4>2. Ids(records') \subseteq 1 .. made'
        <5>1. Ids(records') = Ids(records) \cup {id}
          BY <2>4, <2>6
        <5> QED
          BY <1>3, <2>2, <5>1 DEF AInv, ATypeOK
      <4>3. DOMAIN told' \subseteq 1 .. made'
        BY <1>3, <2>2, <3>2 DEF AInv, ATypeOK
      <4> QED
        BY <2>3, <2>4, <2>5, <2>6, <3>2, <4>1, <4>2, <4>3, SaveGives DEF ATypeOK
    <3>4. AsTold'
      <4>1. Ids(records') = Ids(records) \cup {id} /\ id \notin DOMAIN told
        BY <2>2, <2>4, <2>6 DEF AInv, ATypeOK
      <4> QED
        BY <3>2, <4>1 DEF AInv, AsTold
    <3>5. Alike(records, disk)' /\ EachOnce(records)' /\ FewEnough(records)'
      BY <2>4, <2>6 DEF Alike, EachOnce, FewEnough
    <3> QED
      BY <3>3, <3>4, <3>5 DEF AInv
  <2>7. CASE ~Saved /\ UNCHANGED <<records, disk>>
    <3>1. UNCHANGED <<records, disk, told>>
      BY <1>3, <2>7
    <3>2. ATypeOK'
      BY <1>3, <2>2, <2>3, <2>5, <3>1, SaveGives DEF AInv, ATypeOK
    <3> QED
      BY <3>1, <3>2 DEF AInv, Alike, EachOnce, FewEnough, AsTold
  <2> QED
    BY <2>5, <2>6, <2>7, SaveGives
<1> QED
  BY <1>2, <1>3 DEF Create

LEMMA ARevoke ==
  ASSUME AInv, NEW w \in Windows, Revoke(w) PROVE AInv'
<1> DEFINE id == app[w].id
           new == RemoveAt(records, Place(records, id))
<1>1. UNCHANGED made
  BY DEF Revoke
<1>2. CASE Answer(w, FALSE, 0) /\ UNCHANGED <<records, disk, told, faults>>
  BY <1>1, <1>2, AnswerGives, WindowStep DEF AInv, ATypeOK
<1>3. CASE /\ id \in {records[i].id : i \in Of(UserOf[w], records)}
           /\ Save(new)
           /\ Answer(w, Saved, 0)
           /\ told' = IF Saved THEN [told EXCEPT ![id] = "revoked"] ELSE told
  <2>1. id \in Ids(records)
    BY <1>3 DEF Ids, Of
  <2>2. id \in DOMAIN told
    BY <2>1 DEF AInv, AsTold
  <2> HIDE DEF id
  <2>3. /\ new \in Seq(Record) /\ Ids(new) = Ids(records) \ {id}
        /\ EachOnce(new) /\ FewEnough(new)
    BY <2>1, RemoveStore DEF AInv, ATypeOK
  <2>4. app' \in [Windows -> App]
    BY <1>3, AnswerGives
  <2>5. Save(new)
    BY <1>3
  <2> HIDE DEF new
  <2>6. CASE Saved /\ records' = new /\ disk' = new
    <3>1. /\ told' \in [DOMAIN told -> {"made", "revoked"}]
          /\ \A i \in DOMAIN told : told'[i] = IF i = id THEN "revoked" ELSE told[i]
      BY <1>3, <2>6 DEF AInv, ATypeOK
    <3>2. ATypeOK'
      <4>1. Ids(records)' \subseteq 1 .. made
        BY <2>3, <2>6 DEF AInv, ATypeOK, Ids
      <4>2. /\ DOMAIN told' = DOMAIN told
            /\ told' \in [DOMAIN told' -> {"made", "revoked"}]
        BY <3>1
      <4> QED
        BY <1>1, <2>3, <2>4, <2>5, <2>6, <4>1, <4>2, SaveGives DEF AInv, ATypeOK
    <3>3. AsTold'
      <4>1. Ids(records') = Ids(records) \ {id}
        BY <2>3, <2>6
      <4> QED
        BY <3>1, <4>1 DEF AInv, AsTold
    <3>4. Alike(records, disk)' /\ EachOnce(records)' /\ FewEnough(records)'
      BY <2>3, <2>6 DEF Alike, EachOnce, FewEnough
    <3> QED
      BY <3>2, <3>3, <3>4 DEF AInv
  <2>7. CASE ~Saved /\ UNCHANGED <<records, disk>>
    <3>1. UNCHANGED told
      BY <1>3, <2>7
    <3> QED
      BY <1>1, <2>4, <2>5, <2>7, <3>1, SaveGives, WindowStep
  <2> QED
    BY <2>5, <2>6, <2>7, SaveGives
<1> QED
  BY <1>2, <1>3 DEF Revoke

\* That a password was used is all that may be lost.
LEMMA AVerify ==
  ASSUME AInv, NEW id \in Ids(records), Verify(id) PROVE AInv'
<1> DEFINE new == [records EXCEPT ![Place(records, id)].used = TRUE]
<1>1. /\ records' = new /\ disk' \in {new, disk}
      /\ UNCHANGED <<made, app, told>> /\ faults' \in Nat
  BY DEF Verify, AInv, ATypeOK
<1>2. new \in Seq(Record) /\ Alike(records, new) /\ Alike(new, new)
  BY NoteStore DEF AInv, ATypeOK
<1> HIDE DEF new
<1>3. /\ Ids(new) = Ids(records) /\ EachOnce(new) /\ FewEnough(new)
  BY <1>2, AlikeHold DEF AInv, ATypeOK
<1>4. Alike(new, disk')
  BY <1>1, <1>2 DEF AInv, Alike
<1>5. ATypeOK'
  <2>1. Ids(records)' \subseteq 1 .. made'
    BY <1>1, <1>3 DEF AInv, ATypeOK, Ids
  <2> QED
    BY <1>1, <1>2, <2>1 DEF AInv, ATypeOK
<1>6. AsTold'
  <2>1. Ids(records') = Ids(records)
    BY <1>1, <1>3
  <2> QED
    BY <1>1, <2>1 DEF AInv, AsTold
<1> QED
  BY <1>1, <1>3, <1>4, <1>5, <1>6 DEF AInv, EachOnce, FewEnough, Alike

Listing(p, shown, seen) == [p EXCEPT !.list = shown, !.seen = seen]
ListIs(p, shown)         == [p EXCEPT !.list = shown]
Creates(p)           == [p EXCEPT !.pending = "create"]
Revokes(p, id)       == [p EXCEPT !.pending = "revoke", !.id = id]
Dismisses(p)         == [p EXCEPT !.shows = 0]
Polled(p, shows)     == [p EXCEPT !.pending = "none", !.id = 0, !.answer = 0, !.shows = shows,
                                  !.list = "none", !.seen = {}]
FailsCall(p)         == [p EXCEPT !.pending = "failed"]

LEMMA Moves ==
  ASSUME NEW p \in App
  PROVE  /\ \A seen \in SUBSET Record : Listing(p, "ready", seen) \in App
         /\ ListIs(p, "failed") \in App /\ ListIs(p, "none") \in App
         /\ Creates(p) \in App
         /\ \A id \in Nat : Revokes(p, id) \in App
         /\ Dismisses(p) \in App
         /\ \A shows \in Nat : Polled(p, shows) \in App
         /\ FailsCall(p) \in App
<1>1. \A seen \in SUBSET Record : Listing(p, "ready", seen) \in App
  BY DEF App, Listing
<1>2. ListIs(p, "failed") \in App /\ ListIs(p, "none") \in App
  BY DEF App, ListIs
<1>3. Creates(p) \in App
  BY DEF App, Creates
<1>4. \A id \in Nat : Revokes(p, id) \in App
  BY DEF App, Revokes
<1>5. Dismisses(p) \in App
  BY DEF App, Dismisses
<1>6. \A shows \in Nat : Polled(p, shows) \in App
  BY DEF App, Polled
<1>7. FailsCall(p) \in App
  BY DEF App, FailsCall
<1> QED
  BY <1>1, <1>2, <1>3, <1>4, <1>5, <1>6, <1>7

LEMMA AWindow ==
  ASSUME AInv, NEW w \in Windows,
         \/ List(w) \/ TryAgain(w) \/ PressCreate(w) \/ PressRevoke(w)
         \/ PressDone(w) \/ PollPending(w) \/ Lose(w)
  PROVE  AInv'
<1>1. /\ UNCHANGED <<records, disk, made, told>> /\ faults' \in Nat
  <2>1. /\ UNCHANGED <<records, disk, made, told>>
        /\ faults' = faults \/ faults' = faults + 1
    <3>1. CASE List(w)
      BY <3>1 DEF List
    <3>2. CASE TryAgain(w) \/ PressCreate(w) \/ PressRevoke(w) \/ PressDone(w)
      BY <3>2 DEF TryAgain, PressCreate, PressRevoke, PressDone
    <3>3. CASE PollPending(w)
      BY <3>3 DEF PollPending
    <3>4. CASE Lose(w)
      BY <3>4 DEF Lose
    <3> QED
      BY <3>1, <3>2, <3>3, <3>4
  <2> QED
    BY <2>1 DEF AInv, ATypeOK
<1>2. app[w] \in App
  BY DEF AInv, ATypeOK
<1>3. CASE List(w)
  <2> DEFINE seen == {records[i] : i \in Of(UserOf[w], records)}
  <2>1. seen \in SUBSET Record
    BY DEF AInv, ATypeOK, Of
  <2>2. \/ BecomesWindow(w, Listing(app[w], "ready", seen))
        \/ BecomesWindow(w, ListIs(app[w], "failed"))
    BY <1>3, Zenon DEF List, Listing, ListIs
  <2> HIDE DEF seen
  <2> QED
    BY <1>1, <1>2, <2>1, <2>2, Moves, WindowBecomes, WindowStep
<1>4. CASE TryAgain(w)
  <2>1. BecomesWindow(w, ListIs(app[w], "none"))
    BY <1>4 DEF TryAgain, ListIs
  <2> QED
    BY <1>1, <1>2, <2>1, Moves, WindowBecomes, WindowStep
<1>5. CASE PressCreate(w)
  <2>1. BecomesWindow(w, Creates(app[w]))
    BY <1>5 DEF PressCreate, Creates
  <2> QED
    BY <1>1, <1>2, <2>1, Moves, WindowBecomes, WindowStep
<1>6. CASE PressRevoke(w)
  <2>1. PICK r \in app[w].seen : BecomesWindow(w, Revokes(app[w], r.id))
    BY <1>6, Zenon DEF PressRevoke, Revokes
  <2>2. r \in Record
    BY <1>2 DEF App
  <2>3. r.id \in Nat
    BY <2>2 DEF Record
  <2> QED
    BY <1>1, <1>2, <2>1, <2>3, Moves, WindowBecomes, WindowStep
<1>7. CASE PressDone(w)
  <2>1. BecomesWindow(w, Dismisses(app[w]))
    BY <1>7 DEF PressDone, Dismisses
  <2> QED
    BY <1>1, <1>2, <2>1, Moves, WindowBecomes, WindowStep
<1>8. CASE PollPending(w)
  <2> DEFINE shows == IF app[w].answer # 0 /\ app[w].pending = "done"
                      THEN app[w].answer ELSE app[w].shows
  <2>1. BecomesWindow(w, Polled(app[w], shows))
    BY <1>8, Zenon DEF PollPending, Polled
  <2>2. shows \in Nat
    BY <1>2 DEF App
  <2> HIDE DEF shows
  <2> QED
    BY <1>1, <1>2, <2>1, <2>2, Moves, WindowBecomes, WindowStep
<1>9. CASE Lose(w)
  <2>1. Answer(w, FALSE, 0)
    BY <1>9 DEF Lose
  <2> QED
    BY <1>1, <2>1, AnswerGives, WindowStep
<1> QED
  BY <1>3, <1>4, <1>5, <1>6, <1>7, <1>8, <1>9

\* What comes back is alike what was there.
LEMMA ARestart ==
  ASSUME AInv, Restart PROVE AInv'
<1>1. records' = disk /\ UNCHANGED <<disk, made, told>> /\ faults' \in Nat
  BY DEF Restart, AInv, ATypeOK
<1>2. app' \in [Windows -> App]
  <2>1. app' = [w \in Windows |->
                  IF app[w].pending \in {"create", "revoke"} THEN FailsCall(app[w]) ELSE app[w]]
    BY Zenon DEF Restart, FailsCall
  <2>2. \A w \in Windows : app[w] \in App /\ FailsCall(app[w]) \in App
    BY Moves DEF AInv, ATypeOK
  <2> QED
    BY <2>1, <2>2
<1>3. /\ Ids(disk) = Ids(records) /\ EachOnce(disk) /\ FewEnough(disk) /\ Alike(disk, disk)
  BY AlikeHold DEF AInv, ATypeOK
<1>4. ATypeOK'
  <2>1. Ids(records)' \subseteq 1 .. made'
    BY <1>1, <1>3 DEF AInv, ATypeOK, Ids
  <2> QED
    BY <1>1, <1>2, <2>1 DEF AInv, ATypeOK
<1>5. AsTold'
  <2>1. Ids(records') = Ids(records)
    BY <1>1, <1>3
  <2> QED
    BY <1>1, <2>1 DEF AInv, AsTold
<1> QED
  BY <1>1, <1>3, <1>4, <1>5 DEF AInv, EachOnce, FewEnough, Alike

\* What is saved and what was told fit together.
THEOREM StoreInvariant == ASpec => []AInv
<1>1. AInit => AInv
  BY AInit_AInv
<1>2. AInv /\ [ANext]_avars => AInv'
  <2> SUFFICES ASSUME AInv, [ANext]_avars PROVE AInv'
    OBVIOUS
  <2>1. CASE UNCHANGED avars
    BY <2>1 DEF avars, AInv, ATypeOK, Alike, EachOnce, FewEnough, AsTold
  <2> QED
    BY <2>1, ACreate, ARevoke, AVerify, AWindow, ARestart DEF ANext
<1> QED
  BY <1>1, <1>2, PTL DEF ASpec

\* Over any number of failed saves, lost calls and restarts, the server's app
\* passwords are those it has given out and not said it revoked, in the order
\* they are saved in, and no user has too many (app_passwords.rs).
THEOREM StoreKept == ASpec => []StoreAsAnswered
<1>1. AInv => StoreAsAnswered
  <2> SUFFICES ASSUME AInv PROVE StoreAsAnswered
    OBVIOUS
  <2>1. \A w \in Windows : app[w].pending \in {"none", "create", "revoke", "done", "failed"}
    BY DEF AInv, ATypeOK, App
  <2>2. [i \in DOMAIN records |-> records[i].id] = [i \in DOMAIN disk |-> disk[i].id]
    BY DEF AInv, ATypeOK, Alike
  <2> QED
    BY <2>1, <2>2 DEF AInv, ATypeOK, AsTold, FewEnough, StoreAsAnswered, AppPasswordsWellFormed
<1> QED
  BY <1>1, StoreInvariant, PTL

-----------------------------------------------------------------------------
(* Uploads.                                                                *)

Meant(t) == t.chosen \ (IF t.project THEN Ignored ELSE {})

Places == {"picking", "dropped", "filter", "scratch", "sending", "over"}
Tasks == [window : AppWindows, project : BOOLEAN, at : Places,
          chosen : SUBSET Files, left : SUBSET Files]
Entries == [done : Nat, total : Nat, failures : Nat, skipped : Int, scratch : BOOLEAN,
            finished : BOOLEAN]
Notices == [window : BOOLEAN, claimed : Nat, failures : Nat]

\* An upload's files: those whose turn has been are stored or counted as failed.
FilesOK(t, e, st) ==
    /\ t.left \subseteq Meant(t)
    /\ st \subseteq Meant(t) \ t.left
    /\ e.done + Cardinality(t.left) <= e.total
    /\ e.done <= Cardinality(st) + e.failures
    /\ Cardinality((Meant(t) \ t.left) \ st) <= e.failures

\* What is said of an upload that is over.
Outcome(t, e, st) ==
    /\ e.done <= e.total
    /\ e.done <= Cardinality(st) + e.failures
    /\ (t.project => e.scratch) => /\ t.left = {}
                                   /\ Cardinality(Meant(t) \ st) <= e.failures

ToldTrue(t, n, st) ==
    /\ n.claimed <= Cardinality(st)
    /\ n.window => t.left = {} /\ Cardinality(Meant(t) \ st) <= n.failures

\* One upload: its task, whether it is in the list, its entry there, what is
\* stored of it and what was heard of it.
UploadOK(t, there, e, st, h) ==
    /\ there => e \in Entries
    /\ t.at \in {"picking", "dropped"} => ~there /\ st = {}
    /\ t.at \in {"filter", "scratch", "sending"} => there /\ ~e.finished
    /\ t.at \in {"filter", "scratch"} =>
         /\ t.project /\ ~e.scratch /\ e.done = 0 /\ st = {}
         /\ t.left = IF t.at = "filter" THEN t.chosen ELSE Meant(t)
    /\ t.at = "sending" => FilesOK(t, e, st)
    /\ t.at = "over" /\ there => e.finished /\ Outcome(t, e, st)
    /\ t.at # "over" \/ there => h = << >>
    /\ h # << >> => Len(h) = 1 /\ ToldTrue(t, h[1], st)

UTypeOK ==
    /\ open \subseteq AppWindows
    /\ task \in Seq(Tasks)
    /\ Len(task) <= MaxUploads
    /\ DOMAIN list \subseteq Started
    /\ stored \in [Numbers -> SUBSET Files]
    /\ heard \in [Numbers -> Seq(Notices)]

Untouched == \A u \in Numbers \ Started : stored[u] = {} /\ heard[u] = << >>

Uploaded(u) == UploadOK(task[u], u \in DOMAIN list, list[u], stored[u], heard[u])

UInv ==
    /\ UTypeOK
    /\ Untouched
    /\ \A u \in Started : Uploaded(u)

-----------------------------------------------------------------------------

LEMMA MeantFiles ==
  ASSUME NEW t \in Tasks
  PROVE  Meant(t) \subseteq Files /\ IsFiniteSet(Meant(t)) /\ IsFiniteSet(t.left)
<1>1. Meant(t) \subseteq Files /\ t.left \subseteq Files
  BY DEF Meant, Tasks
<1> QED BY <1>1, FS_Subset, UploadsAssumption

\* What the steps make of a task and of an entry.
Where(t, where) == [t EXCEPT !.at = where]
ChosenTask(t, where, files) == [t EXCEPT !.at = where, !.chosen = files, !.left = files]
Sifted(t) == [t EXCEPT !.at = "scratch", !.left = @ \ Ignored]
Without(t, f) == [t EXCEPT !.left = @ \ {f}]
Ended(e) == [e EXCEPT !.failures = @ + 1, !.finished = TRUE]
Tallied(e, n, k) == [e EXCEPT !.done = n, !.failures = k]
Done(e) == [e EXCEPT !.finished = TRUE]
InScratch(e, kept) == [e EXCEPT !.skipped = e.total - kept, !.total = kept, !.scratch = TRUE]

LEMMA WhereTask ==
  ASSUME NEW t \in Tasks, NEW where \in Places
  PROVE  /\ Where(t, where) \in Tasks /\ Where(t, where).at = where
         /\ Where(t, where).left = t.left /\ Where(t, where).project = t.project
         /\ Meant(Where(t, where)) = Meant(t)
  BY DEF Tasks, Where, Meant

LEMMA ChosenTaskIs ==
  ASSUME NEW t \in Tasks, NEW where \in Places, NEW files \in SUBSET Files
  PROVE  /\ ChosenTask(t, where, files) \in Tasks /\ ChosenTask(t, where, files).at = where
         /\ ChosenTask(t, where, files).left = files
         /\ ChosenTask(t, where, files).chosen = files
         /\ ChosenTask(t, where, files).project = t.project
  BY DEF Tasks, ChosenTask

LEMMA SortedTask ==
  ASSUME NEW t \in Tasks
  PROVE  /\ Sifted(t) \in Tasks /\ Sifted(t).at = "scratch"
         /\ Sifted(t).project = t.project /\ Meant(Sifted(t)) = Meant(t)
         /\ Sifted(t).left = t.left \ Ignored
<1>1. "scratch" \in Places
  BY DEF Places
<1> QED BY <1>1 DEF Tasks, Sifted, Meant

LEMMA WithoutTask ==
  ASSUME NEW t \in Tasks, NEW f \in Files
  PROVE  /\ Without(t, f) \in Tasks /\ Without(t, f).at = t.at
         /\ Without(t, f).left = t.left \ {f}
         /\ Without(t, f).project = t.project /\ Meant(Without(t, f)) = Meant(t)
  BY DEF Tasks, Without, Meant

LEMMA EndedEntry ==
  ASSUME NEW e \in Entries
  PROVE  /\ Ended(e) \in Entries /\ Ended(e).finished = TRUE
         /\ Ended(e).failures = e.failures + 1
         /\ Ended(e).done = e.done /\ Ended(e).total = e.total /\ Ended(e).scratch = e.scratch
<1>1. ASSUME NEW n \in Nat, NEW x, x = [e EXCEPT !.failures = n, !.finished = TRUE]
      PROVE  /\ x \in Entries /\ x.finished = TRUE /\ x.failures = n
             /\ x.done = e.done /\ x.total = e.total /\ x.scratch = e.scratch
  BY <1>1 DEF Entries
<1>2. e.failures + 1 \in Nat
  BY DEF Entries
<1> DEFINE n == e.failures + 1
<1>3. Ended(e) = [e EXCEPT !.failures = n, !.finished = TRUE]
  BY Zenon DEF Ended
<1> HIDE DEF n
<1>4. n \in Nat /\ n = e.failures + 1
  BY <1>2 DEF n
<1> QED BY <1>1, <1>3, <1>4

LEMMA DoneEntry ==
  ASSUME NEW e \in Entries
  PROVE  /\ Done(e) \in Entries /\ Done(e).finished = TRUE
         /\ Done(e).failures = e.failures
         /\ Done(e).done = e.done /\ Done(e).total = e.total /\ Done(e).scratch = e.scratch
  BY DEF Entries, Done

LEMMA InScratchEntry ==
  ASSUME NEW e \in Entries, NEW kept \in Nat
  PROVE  /\ InScratch(e, kept) \in Entries /\ InScratch(e, kept).total = kept
         /\ InScratch(e, kept).done = e.done /\ InScratch(e, kept).failures = e.failures
         /\ InScratch(e, kept).finished = e.finished /\ InScratch(e, kept).scratch = TRUE
<1>1. ASSUME NEW n \in Int, NEW x,
             x = [e EXCEPT !.skipped = n, !.total = kept, !.scratch = TRUE]
      PROVE  /\ x \in Entries /\ x.total = kept /\ x.done = e.done
             /\ x.failures = e.failures /\ x.finished = e.finished /\ x.scratch = TRUE
  BY <1>1 DEF Entries
<1>2. e.total - kept \in Int
  BY DEF Entries
<1> DEFINE n == e.total - kept
<1>3. InScratch(e, kept) = [e EXCEPT !.skipped = n, !.total = kept, !.scratch = TRUE]
  BY Zenon DEF InScratch
<1> HIDE DEF n
<1>4. n \in Int
  BY <1>2 DEF n
<1> QED BY <1>1, <1>3, <1>4

LEMMA CountedEntry ==
  ASSUME NEW e \in Entries, NEW n \in Nat, NEW k \in Nat
  PROVE  /\ Tallied(e, n, k) \in Entries
         /\ Tallied(e, n, k).done = n /\ Tallied(e, n, k).failures = k
         /\ Tallied(e, n, k).total = e.total /\ Tallied(e, n, k).finished = e.finished
         /\ Tallied(e, n, k).scratch = e.scratch
  BY DEF Entries, Tallied

LEMMA NewUploadEntry ==
  ASSUME NEW n \in Nat, NEW k \in Nat
  PROVE  /\ NewUpload(n, k) \in Entries
         /\ NewUpload(n, k).done = 0 /\ NewUpload(n, k).total = n
         /\ NewUpload(n, k).failures = k
         /\ ~NewUpload(n, k).scratch /\ ~NewUpload(n, k).finished
  BY DEF NewUpload, Entries

\* A file's turn takes it from those left, and it is stored or counted.
LEMMA SentCounts ==
  ASSUME NEW t \in Tasks, NEW e \in Entries, NEW st \in SUBSET Files, NEW f \in t.left,
         FilesOK(t, e, st), NEW miss \in {0, 1}, NEW got \in {{}, {f}}, miss = 0 => got = {f}
  PROVE  FilesOK(Without(t, f), Tallied(e, e.done + 1, e.failures + miss), st \cup got)
<1> DEFINE missed == (Meant(t) \ t.left) \ st
           missed2 == (Meant(t) \ (t.left \ {f})) \ (st \cup got)
<1>1. f \in Files /\ f \in Meant(t) /\ f \notin st /\ f \notin missed
  BY DEF Tasks, FilesOK
<1>2. IsFiniteSet(t.left) /\ IsFiniteSet(st) /\ IsFiniteSet(missed)
  <2>1. IsFiniteSet(Meant(t)) /\ IsFiniteSet(t.left)
    BY MeantFiles
  <2>2. IsFiniteSet(st)
    BY UploadsAssumption, FS_Subset
  <2>3. IsFiniteSet(missed)
    BY <2>1, FS_Subset
  <2> QED BY <2>1, <2>2, <2>3
<1>3. Cardinality(t.left \ {f}) = Cardinality(t.left) - 1 /\ Cardinality(t.left) \in Nat
  BY <1>2, FS_RemoveElement, FS_CardinalityType
<1>4. Cardinality(st \cup {f}) = Cardinality(st) + 1 /\ Cardinality(st) \in Nat
  BY <1>1, <1>2, FS_AddElement, FS_CardinalityType
<1>5. Cardinality(missed \cup {f}) = Cardinality(missed) + 1 /\ Cardinality(missed) \in Nat
  BY <1>1, <1>2, FS_AddElement, FS_CardinalityType
<1>6. got = {f} => missed2 = missed
  BY DEF FilesOK
<1>7. got = {} => missed2 = missed \cup {f}
  BY <1>1 DEF FilesOK
<1>8. st \cup {} = st
  OBVIOUS
<1>9. /\ e.done \in Nat /\ e.failures \in Nat /\ e.total \in Nat
      /\ e.done + Cardinality(t.left) <= e.total
      /\ e.done <= Cardinality(st) + e.failures
      /\ Cardinality(missed) <= e.failures
  BY DEF FilesOK, Entries
<1>10. /\ t.left \ {f} \subseteq Meant(t)
       /\ st \cup got \subseteq Meant(t) \ (t.left \ {f})
  BY <1>1 DEF FilesOK
<1>11. /\ Cardinality(missed2) <= e.failures + miss
       /\ e.done + 1 <= Cardinality(st \cup got) + e.failures + miss
  <2> HIDE DEF missed, missed2
  <2>1. CASE got = {f}
    BY <2>1, <1>4, <1>5, <1>6, <1>9
  <2>2. CASE got = {}
    <3>1. miss = 1
      BY <2>2
    <3>2. st \cup got = st
      BY <2>2
    <3>3. Cardinality(missed2) = Cardinality(missed) + 1
      BY <2>2, <1>5, <1>7
    <3>4. Cardinality(st \cup got) = Cardinality(st)
      BY <3>1, <3>2
    <3>5. Cardinality(st) \in Nat /\ Cardinality(missed) \in Nat
      BY <1>4, <1>5
    <3>6. Cardinality(missed2) <= e.failures + miss
      BY <3>1, <3>3, <3>5, <1>9
    <3>7. e.done + 1 <= Cardinality(st \cup got) + e.failures + miss
      BY <3>1, <3>4, <3>5, <1>9
    <3> QED BY <3>6, <3>7
  <2> QED BY <2>1, <2>2
<1> DEFINE t2 == Without(t, f)
           e2 == Tallied(e, e.done + 1, e.failures + miss)
           st2 == st \cup got
<1>12. e2.done = e.done + 1 /\ e2.total = e.total /\ e2.failures = e.failures + miss
  <2>1. e.done + 1 \in Nat /\ e.failures + miss \in Nat
    BY <1>9
  <2> QED BY <2>1, CountedEntry
<1>13. Without(t, f).left = t.left \ {f} /\ Meant(Without(t, f)) = Meant(t)
  BY <1>1, WithoutTask
<1>14. (e.done + 1) + Cardinality(t.left \ {f}) <= e.total
  BY <1>3, <1>9
<1>15. /\ t2.left \subseteq Meant(t2) /\ st2 \subseteq Meant(t2) \ t2.left
       /\ (Meant(t2) \ t2.left) \ st2 = missed2
  BY <1>10, <1>13
<1>16. /\ e2.done + Cardinality(t2.left) <= e2.total
       /\ e2.done <= Cardinality(st2) + e2.failures
       /\ Cardinality(missed2) <= e2.failures
  <2> HIDE DEF missed2
  <2>1. e2.done + Cardinality(t2.left) = (e.done + 1) + Cardinality(t.left \ {f})
    BY <1>12, <1>13
  <2>2. Cardinality(st2) + e2.failures = Cardinality(st2) + e.failures + miss
    <3>1. Cardinality(st2) \in Nat
      <4>1. st2 = st \/ st2 = st \cup {f}
        OBVIOUS
      <4>2. Cardinality(st) \in Nat /\ Cardinality(st \cup {f}) \in Nat
        BY <1>4
      <4> HIDE DEF st2
      <4> QED BY <4>1, <4>2
    <3> HIDE DEF st2
    <3> QED BY <1>9, <1>12, <3>1
  <2> QED BY <1>11, <1>12, <1>14, <2>1, <2>2
<1> HIDE DEF t2, e2, st2, missed2
<1>17. FilesOK(t2, e2, st2)
  BY <1>15, <1>16 DEF FilesOK
<1> QED BY <1>17 DEF t2, e2, st2

\* A step of one upload: nothing else changes.
OthersKept(u) ==
    \A v \in Numbers \ {u} :
        /\ (v \in DOMAIN list') = (v \in DOMAIN list)
        /\ v \in DOMAIN list => list'[v] = list[v]
        /\ stored'[v] = stored[v]

LEMMA OneUpload ==
  ASSUME UInv, NEW u \in Started, NEW t \in Tasks, task' = [task EXCEPT ![u] = t],
         OthersKept(u), DOMAIN list' \subseteq Started,
         stored' \in [Numbers -> SUBSET Files], heard' = heard, open' = open,
         UploadOK(t, u \in DOMAIN list', list'[u], stored'[u], heard[u])
  PROVE  UInv'
<1> USE DEF UInv, UTypeOK
<1>1. /\ task' \in Seq(Tasks) /\ Len(task') = Len(task) /\ Started' = Started
      /\ task'[u] = t
      /\ \A v \in Started \ {u} : task'[v] = task[v]
  BY DEF Started
<1>2. Started \subseteq Numbers
  BY UploadsAssumption DEF Started, Numbers
<1>3. ASSUME NEW v \in Started PROVE Uploaded(v)'
  <2>1. CASE v = u
    BY <1>1, <2>1 DEF Uploaded
  <2>2. CASE v # u
    <3>1. Uploaded(v) /\ task'[v] = task[v] /\ heard'[v] = heard[v] /\ stored'[v] = stored[v]
      BY <1>1, <1>2, <2>2 DEF OthersKept
    <3>2. (v \in DOMAIN list') = (v \in DOMAIN list)
      BY <1>2, <2>2 DEF OthersKept
    <3>3. v \in DOMAIN list => list'[v] = list[v]
      BY <1>2, <2>2 DEF OthersKept
    <3>4. CASE v \in DOMAIN list
      BY <3>1, <3>2, <3>3, <3>4 DEF Uploaded
    <3>5. CASE v \notin DOMAIN list
      BY <3>1, <3>2, <3>5 DEF Uploaded, UploadOK
    <3> QED BY <3>4, <3>5
  <2> QED BY <2>1, <2>2
<1>4. Untouched'
  BY <1>1, <1>2 DEF Untouched, OthersKept
<1>5. UTypeOK'
  BY <1>1
<1> QED BY <1>1, <1>3, <1>4, <1>5
LEMMA ListsEntry ==
  ASSUME NEW u, NEW e, Lists(u, e)
  PROVE  /\ DOMAIN list' = DOMAIN list \cup {u} /\ list'[u] = e
         /\ \A v \in DOMAIN list : v # u => list'[v] = list[v]
  BY DEF Lists

\* The same for a step that puts one entry in the list, or none.
LEMMA OneEntry ==
  ASSUME UInv, NEW u \in Started, NEW t \in Tasks, task' = [task EXCEPT ![u] = t],
         NEW e \in Entries, Lists(u, e), UNCHANGED <<open, heard>>,
         NEW st \in SUBSET Files, stored' = [stored EXCEPT ![u] = st],
         UploadOK(t, TRUE, e, st, heard[u])
  PROVE  UInv'
<1>1. u \in Numbers /\ stored \in [Numbers -> SUBSET Files] /\ DOMAIN list \subseteq Started
  BY UploadsAssumption DEF UInv, UTypeOK, Started, Numbers
<1>2. /\ DOMAIN list' = DOMAIN list \cup {u} /\ list'[u] = e
      /\ \A v \in DOMAIN list : v # u => list'[v] = list[v]
  BY ListsEntry
<1>3. /\ stored' \in [Numbers -> SUBSET Files] /\ stored'[u] = st
      /\ \A v \in Numbers \ {u} : stored'[v] = stored[v]
  BY <1>1
<1>4. OthersKept(u)
  BY <1>2, <1>3 DEF OthersKept
<1>5. UploadOK(t, u \in DOMAIN list', list'[u], stored'[u], heard[u])
  <2>1. u \in DOMAIN list'
    BY <1>2
  <2> QED BY <1>2, <1>3, <2>1 DEF UploadOK
<1>6. DOMAIN list' \subseteq Started
  BY <1>1, <1>2
<1> QED BY <1>3, <1>4, <1>5, <1>6, OneUpload

LEMMA NoEntry ==
  ASSUME UInv, NEW u \in Started, NEW t \in Tasks, task' = [task EXCEPT ![u] = t],
         UNCHANGED <<open, heard, list, stored>>,
         UploadOK(t, u \in DOMAIN list, list[u], stored[u], heard[u])
  PROVE  UInv'
<1>1. DOMAIN list \subseteq Started /\ stored \in [Numbers -> SUBSET Files]
  BY DEF UInv, UTypeOK
<1>2. OthersKept(u)
  BY DEF OthersKept
<1> QED BY <1>1, <1>2, OneUpload

\* What is known of an upload under way.
LEMMA OneStarted ==
  ASSUME UInv, NEW u \in Started
  PROVE  /\ task[u] \in Tasks /\ stored[u] \in SUBSET Files /\ Uploaded(u)
         /\ stored = [stored EXCEPT ![u] = stored[u]]
         /\ task[u].at \in {"filter", "scratch", "sending"} =>
              u \in DOMAIN list /\ list[u] \in Entries /\ heard[u] = << >>
         /\ task[u].at \in {"picking", "dropped"} =>
              u \notin DOMAIN list /\ stored[u] = {} /\ heard[u] = << >>
<1>1. task[u] \in Tasks /\ Uploaded(u)
  BY DEF UInv, UTypeOK, Started
<1>2. u \in Numbers /\ stored \in [Numbers -> SUBSET Files]
  BY UploadsAssumption DEF UInv, UTypeOK, Started, Numbers
<1>3. stored[u] \in SUBSET Files /\ stored = [stored EXCEPT ![u] = stored[u]]
  BY <1>2
<1> QED BY <1>1, <1>3 DEF Uploaded, UploadOK

LEMMA ChosenOK ==
  ASSUME UInv, NEW u \in Started, task[u].at \in {"picking", "dropped"},
         NEW files \in SUBSET Files, NEW k \in Nat, Chosen(u, files, k),
         UNCHANGED <<open, stored, heard>>
  PROVE  UInv'
<1> DEFINE where == IF task[u].project THEN "filter" ELSE "sending"
           t == ChosenTask(task[u], where, files)
           e == NewUpload(Cardinality(files), k)
<1>1. /\ task[u] \in Tasks /\ stored[u] = {} /\ heard[u] = << >>
      /\ stored = [stored EXCEPT ![u] = stored[u]]
  BY OneStarted
<1>2. task' = [task EXCEPT ![u] = t] /\ Lists(u, e)
  BY Zenon DEF Chosen, ChosenTask
<1>3. where \in Places /\ (where = "filter") = task[u].project /\ where \in {"filter", "sending"}
  BY <1>1 DEF Places, Tasks
<1>4. Cardinality(files) \in Nat
  BY FS_Subset, FS_CardinalityType, UploadsAssumption
<1>5. /\ t \in Tasks /\ t.at = where /\ t.left = files /\ t.chosen = files
      /\ t.project = task[u].project
  <2> HIDE DEF where
  <2> QED BY <1>1, <1>3, ChosenTaskIs
<1>6. /\ e \in Entries /\ e.done = 0 /\ e.total = Cardinality(files) /\ e.failures = k
      /\ ~e.scratch /\ ~e.finished
  BY <1>4, NewUploadEntry
<1> HIDE DEF t, e, where
<1>7. ASSUME ~t.project PROVE FilesOK(t, e, {})
  <2>1. Meant(t) = files /\ (Meant(t) \ t.left) \ {} = {}
    BY <1>5, <1>7 DEF Meant
  <2>2. Cardinality({}) = 0
    BY FS_EmptySet
  <2> QED BY <1>4, <1>5, <1>6, <2>1, <2>2 DEF FilesOK
<1>8. UploadOK(t, TRUE, e, {}, heard[u])
  BY <1>1, <1>3, <1>5, <1>6, <1>7 DEF UploadOK
<1>9. stored' = [stored EXCEPT ![u] = {}]
  BY <1>1
<1> QED BY <1>2, <1>5, <1>6, <1>8, <1>9, OneEntry

LEMMA EndsEarlyOK ==
  ASSUME UInv, NEW u \in Started, task[u].at \in {"filter", "scratch"}, EndsEarly(u),
         UNCHANGED <<open, stored, heard>>
  PROVE  UInv'
<1> DEFINE t == Where(task[u], "over")
           e == Ended(list[u])
<1>1. /\ task[u] \in Tasks /\ list[u] \in Entries /\ Uploaded(u) /\ heard[u] = << >>
      /\ stored[u] \in SUBSET Files /\ stored = [stored EXCEPT ![u] = stored[u]]
      /\ u \in DOMAIN list
  BY OneStarted
<1>2. task' = [task EXCEPT ![u] = t] /\ Lists(u, e)
  BY Zenon DEF EndsEarly, At, Where, Ended
<1>3. "over" \in Places
  BY DEF Places
<1>4. t \in Tasks /\ t.at = "over" /\ t.project = task[u].project
  BY <1>1, <1>3, WhereTask
<1>5. /\ e \in Entries /\ e.finished = TRUE /\ e.failures = list[u].failures + 1
      /\ e.done = list[u].done /\ e.total = list[u].total /\ e.scratch = list[u].scratch
  BY <1>1, EndedEntry
<1>6. task[u].project /\ ~list[u].scratch /\ list[u].done = 0
  BY <1>1 DEF Uploaded, UploadOK
<1>7. Cardinality(stored[u]) \in Nat
  BY <1>1, FS_Subset, FS_CardinalityType, UploadsAssumption
<1> HIDE DEF t, e
<1>8. Outcome(t, e, stored[u])
  BY <1>4, <1>5, <1>6, <1>7 DEF Outcome, Entries
<1>9. UploadOK(t, TRUE, e, stored[u], heard[u])
  BY <1>1, <1>4, <1>5, <1>8 DEF UploadOK
<1>10. stored' = [stored EXCEPT ![u] = stored[u]]
  BY <1>1
<1> QED BY <1>1, <1>2, <1>4, <1>5, <1>9, <1>10, OneEntry
LEMMA FilterOK ==
  ASSUME UInv, NEW u \in Started, Filter(u) PROVE UInv'
<1>1. UNCHANGED <<open, stored, heard>> /\ task[u].at = "filter"
  BY DEF Filter
<1>2. CASE EndsEarly(u)
  BY <1>1, <1>2, EndsEarlyOK
<1>3. CASE /\ task' = [task EXCEPT ![u] = [task[u] EXCEPT !.at = "scratch", !.left = @ \ Ignored]]
           /\ UNCHANGED list
  <2> DEFINE t == Sifted(task[u])
  <2>1. /\ task[u] \in Tasks /\ Uploaded(u) /\ heard[u] = << >>
    BY <1>1, OneStarted
  <2>2. task' = [task EXCEPT ![u] = t]
    BY <1>3, Zenon DEF Sifted
  <2>3. /\ t \in Tasks /\ t.at = "scratch" /\ t.project = task[u].project
        /\ t.left = task[u].left \ Ignored /\ Meant(t) = Meant(task[u])
    BY <2>1, SortedTask
  <2> HIDE DEF t
  <2>4. UploadOK(t, u \in DOMAIN list, list[u], stored[u], heard[u])
    <3>1. task[u].left = task[u].chosen /\ task[u].project
      BY <1>1, <2>1 DEF Uploaded, UploadOK
    <3>2. t.left = Meant(t)
      BY <2>3, <3>1 DEF Meant
    <3> QED BY <1>1, <2>1, <2>3, <3>2 DEF Uploaded, UploadOK
  <2> QED BY <1>1, <1>3, <2>2, <2>3, <2>4, NoEntry
<1> QED BY <1>2, <1>3 DEF Filter

LEMMA NewScratchOK ==
  ASSUME UInv, NEW u \in Started, NewScratch(u) PROVE UInv'
<1>1. UNCHANGED <<open, stored, heard>> /\ task[u].at = "scratch"
  BY DEF NewScratch
<1>2. CASE EndsEarly(u)
  BY <1>1, <1>2, EndsEarlyOK
<1>3. CASE ~EndsEarly(u)
  <2> DEFINE kept == Cardinality(task[u].left)
             t == Where(task[u], "sending")
             e == InScratch(list[u], kept)
  <2>1. /\ task[u] \in Tasks /\ list[u] \in Entries /\ Uploaded(u) /\ heard[u] = << >>
        /\ stored = [stored EXCEPT ![u] = stored[u]] /\ u \in DOMAIN list
    BY <1>1, OneStarted
  <2>2. task' = [task EXCEPT ![u] = t] /\ Lists(u, e)
    BY <1>3, Zenon DEF NewScratch, At, Where, InScratch
  <2>3. "sending" \in Places
    BY DEF Places
  <2>4. /\ t \in Tasks /\ t.at = "sending" /\ t.left = task[u].left
        /\ t.project = task[u].project /\ Meant(t) = Meant(task[u])
    BY <2>1, <2>3, WhereTask
  <2>5. kept \in Nat
    BY <2>1, MeantFiles, FS_CardinalityType
  <2>6. /\ e \in Entries /\ e.total = kept /\ e.done = list[u].done
        /\ e.failures = list[u].failures /\ e.finished = list[u].finished
    <3> HIDE DEF kept
    <3> QED BY <2>1, <2>5, InScratchEntry
  <2>7. /\ list[u].done = 0 /\ stored[u] = {} /\ ~list[u].finished
        /\ task[u].left = Meant(task[u])
    BY <1>1, <2>1 DEF Uploaded, UploadOK
  <2> HIDE DEF t, e
  <2>8. FilesOK(t, e, {})
    <3>1. (Meant(t) \ t.left) \ {} = {}
      BY <2>4, <2>7
    <3>2. Cardinality({}) = 0
      BY FS_EmptySet
    <3> QED BY <2>4, <2>5, <2>6, <2>7, <3>1, <3>2, SMTT(30) DEF FilesOK, Entries
  <2>9. UploadOK(t, TRUE, e, {}, heard[u])
    BY <2>1, <2>4, <2>6, <2>7, <2>8 DEF UploadOK
  <2>10. stored' = [stored EXCEPT ![u] = {}]
    BY <1>1, <2>1, <2>7
  <2> QED BY <1>1, <2>2, <2>4, <2>6, <2>9, <2>10, OneEntry
<1> QED BY <1>2, <1>3

LEMMA SendOK ==
  ASSUME UInv, NEW u \in Started, NEW f \in Files, Send(u, f) PROVE UInv'
<1>1. UNCHANGED <<open, heard>> /\ task[u].at = "sending" /\ f \in task[u].left
  BY DEF Send
<1> DEFINE t == Without(task[u], f)
<1>2. /\ task[u] \in Tasks /\ list[u] \in Entries /\ Uploaded(u) /\ heard[u] = << >>
      /\ stored[u] \in SUBSET Files /\ stored = [stored EXCEPT ![u] = stored[u]]
      /\ u \in DOMAIN list
  BY <1>1, OneStarted
<1>3. task' = [task EXCEPT ![u] = t]
  BY Zenon DEF Send, Without
<1>4. t \in Tasks /\ t.at = "sending"
  BY <1>1, <1>2, WithoutTask
<1>5. FilesOK(task[u], list[u], stored[u]) /\ ~list[u].finished
  BY <1>1, <1>2 DEF Uploaded, UploadOK
<1> DEFINE Counts(miss) == Lists(u, Tallied(list[u], list[u].done + 1, list[u].failures + miss))
           Stores(got) == stored' = [stored EXCEPT ![u] = @ \cup got]
<1>6. ASSUME NEW miss \in {0, 1}, NEW got \in {{}, {f}}, miss = 0 => got = {f},
             Counts(miss), Stores(got)
      PROVE  UInv'
  <2> DEFINE e == Tallied(list[u], list[u].done + 1, list[u].failures + miss)
             st == stored[u] \cup got
  <2>1. FilesOK(t, e, st)
    BY <1>1, <1>2, <1>5, <1>6, SentCounts
  <2>2. list[u].done + 1 \in Nat /\ list[u].failures + miss \in Nat
    BY <1>2 DEF Entries
  <2>3. e \in Entries /\ e.finished = list[u].finished
    BY <1>2, <2>2, CountedEntry
  <2>4. st \in SUBSET Files /\ stored' = [stored EXCEPT ![u] = st] /\ Lists(u, e)
    BY <1>2, <1>6
  <2> HIDE DEF t, e, st
  <2>5. UploadOK(t, TRUE, e, st, heard[u])
    BY <1>2, <1>4, <1>5, <2>1, <2>3 DEF UploadOK
  <2> QED BY <1>1, <1>3, <1>4, <2>3, <2>4, <2>5, OneEntry
<1>7. Lists(u, Sent(list[u], FALSE)) => Counts(1)
  BY Zenon DEF Sent, Tallied
<1>8. Lists(u, Sent(list[u], TRUE)) => Counts(0)
  <2>1. Lists(u, Sent(list[u], TRUE)) =>
          Lists(u, Tallied(list[u], list[u].done + 1, list[u].failures))
    BY Zenon DEF Sent, Tallied
  <2>2. list[u].failures + 0 = list[u].failures
    BY <1>2 DEF Entries
  <2> QED BY <2>1, <2>2
<1>9. UNCHANGED stored => Stores({})
  BY <1>2
<1>10. \/ Counts(1) /\ \E got \in {{}, {f}} : Stores(got)
       \/ Counts(0) /\ Stores({f})
  <2>1. CASE f \in Refused /\ Lists(u, Sent(list[u], FALSE)) /\ UNCHANGED stored
    <3> HIDE DEF Counts, Stores
    <3> QED BY <1>7, <1>9, <2>1
  <2>2. CASE /\ Lists(u, Sent(list[u], FALSE))
             /\ \E got \in {{}, {f}} : stored' = [stored EXCEPT ![u] = @ \cup got]
    <3> HIDE DEF Counts
    <3> QED BY <1>7, <2>2
  <2>3. CASE Lists(u, Sent(list[u], TRUE)) /\ stored' = [stored EXCEPT ![u] = @ \cup {f}]
    <3> HIDE DEF Counts
    <3> QED BY <1>8, <2>3
  <2> HIDE DEF Counts, Stores
  <2> QED BY <2>1, <2>2, <2>3 DEF Send
<1> HIDE DEF Counts, Stores
<1> QED BY <1>6, <1>10

LEMMA FinishOK ==
  ASSUME UInv, NEW u \in Started, UploadOver(u) PROVE UInv'
<1> DEFINE t == Where(task[u], "over")
           e == Done(list[u])
<1>1. UNCHANGED <<open, heard, stored>> /\ task[u].at = "sending" /\ task[u].left = {}
  BY DEF UploadOver
<1>2. /\ task[u] \in Tasks /\ list[u] \in Entries /\ Uploaded(u) /\ heard[u] = << >>
      /\ stored[u] \in SUBSET Files /\ stored = [stored EXCEPT ![u] = stored[u]]
      /\ u \in DOMAIN list
  BY <1>1, OneStarted
<1>3. task' = [task EXCEPT ![u] = t] /\ Lists(u, e)
  BY Zenon DEF UploadOver, At, Where, Done
<1>4. "over" \in Places
  BY DEF Places
<1>5. /\ t \in Tasks /\ t.at = "over" /\ t.left = {} /\ t.project = task[u].project
      /\ Meant(t) = Meant(task[u])
  BY <1>1, <1>2, <1>4, WhereTask
<1>6. /\ e \in Entries /\ e.finished = TRUE /\ e.failures = list[u].failures
      /\ e.done = list[u].done /\ e.total = list[u].total
  BY <1>2, DoneEntry
<1>7. FilesOK(task[u], list[u], stored[u])
  BY <1>1, <1>2 DEF Uploaded, UploadOK
<1> HIDE DEF t, e
<1>8. Outcome(t, e, stored[u])
  <2>1. Cardinality({}) = 0
    BY FS_EmptySet
  <2>2. Meant(t) \ stored[u] = (Meant(task[u]) \ task[u].left) \ stored[u]
    BY <1>1, <1>5
  <2>3. e.done <= e.total
    BY <1>1, <1>6, <1>7, <2>1 DEF FilesOK, Entries
  <2> QED BY <1>5, <1>6, <1>7, <2>2, <2>3 DEF FilesOK, Outcome
<1>9. UploadOK(t, TRUE, e, stored[u], heard[u])
  BY <1>2, <1>5, <1>6, <1>8 DEF UploadOK
<1>10. stored' = [stored EXCEPT ![u] = stored[u]]
  BY <1>1, <1>2
<1> QED BY <1>1, <1>2, <1>3, <1>5, <1>6, <1>9, <1>10, OneEntry

\* The next upload.
LEMMA BeginsTask ==
  ASSUME UInv, NEW w \in open, NEW where \in Places, Begins(w, where)
  PROVE  \E t \in Tasks :
           /\ t.at = where /\ t.chosen = {} /\ t.left = {}
           /\ task' \in Seq(Tasks) /\ Len(task') = Len(task) + 1 /\ Len(task') <= MaxUploads
           /\ Started' = Started \cup {Len(task')}
           /\ Len(task') \in Numbers \ Started
           /\ task'[Len(task')] = t
           /\ \A v \in Started : task'[v] = task[v]
<1> DEFINE t == [window |-> w, project |-> Button[w] = "project", at |-> where,
                 chosen |-> {}, left |-> {}]
<1>1. task \in Seq(Tasks) /\ Len(task) <= MaxUploads /\ open \subseteq AppWindows
  BY DEF UInv, UTypeOK
<1>2. t \in Tasks /\ t.at = where /\ t.chosen = {} /\ t.left = {}
  BY <1>1 DEF Tasks
<1>3. task' = Append(task, t) /\ Len(task) < MaxUploads
  BY DEF Begins
<1> HIDE DEF t
<1>4. /\ task' \in Seq(Tasks) /\ Len(task') = Len(task) + 1
      /\ task'[Len(task')] = t
      /\ \A v \in 1 .. Len(task) : task'[v] = task[v]
  BY <1>1, <1>2, <1>3
<1>5. Started = 1 .. Len(task) /\ Started' = 1 .. Len(task')
  BY <1>1, <1>4 DEF Started
<1>6. Len(task) \in Nat /\ MaxUploads \in Nat
  BY <1>1, UploadsAssumption
<1>7. Len(task') <= MaxUploads /\ Len(task') \in Numbers \ Started
  BY <1>3, <1>4, <1>5, <1>6 DEF Numbers
<1>8. Started' = Started \cup {Len(task')}
  BY <1>4, <1>5, <1>6
<1> QED BY <1>2, <1>4, <1>5, <1>7, <1>8

LEMMA BeginsOK ==
  ASSUME UInv, NEW w \in open, UNCHANGED <<open, stored, heard>>,
         \/ \E where \in {"picking", "dropped"} : Begins(w, where) /\ UNCHANGED list
         \/ /\ Begins(w, "over")
            /\ Lists(Len(task'), [NewUpload(0, 1) EXCEPT !.finished = TRUE])
  PROVE  UInv'
<1> DEFINE n == Len(task')
<1>1. PICK where \in {"picking", "dropped", "over"} :
        /\ Begins(w, where)
        /\ \/ where # "over" /\ UNCHANGED list
           \/ /\ where = "over"
              /\ Lists(n, [NewUpload(0, 1) EXCEPT !.finished = TRUE])
  OBVIOUS
<1>2. where \in Places
  BY DEF Places
<1>3. PICK t \in Tasks :
        /\ t.at = where /\ t.chosen = {} /\ t.left = {}
        /\ task' \in Seq(Tasks) /\ n <= MaxUploads
        /\ Started' = Started \cup {n} /\ n \in Numbers \ Started /\ task'[n] = t
        /\ \A v \in Started : task'[v] = task[v]
  BY <1>1, <1>2, BeginsTask
<1>4. stored[n] = {} /\ heard[n] = << >> /\ DOMAIN list \subseteq Started
  BY <1>3 DEF UInv, UTypeOK, Untouched
<1>5. /\ DOMAIN list \subseteq DOMAIN list' /\ DOMAIN list' \subseteq DOMAIN list \cup {n}
      /\ \A v \in DOMAIN list : v # n => list'[v] = list[v]
  <2> HIDE DEF n
  <2> DEFINE e == [NewUpload(0, 1) EXCEPT !.finished = TRUE]
  <2>1. UNCHANGED list \/ Lists(n, e)
    BY DEF n
  <2> HIDE DEF e
  <2> QED BY <2>1, ListsEntry
<1> HIDE DEF n
<1>6. UploadOK(t, n \in DOMAIN list', list'[n], {}, << >>)
  <2>1. CASE UNCHANGED list /\ where \in {"picking", "dropped"}
    <3>1. n \notin DOMAIN list'
      BY <1>3, <1>4, <2>1
    <3> QED BY <1>3, <2>1, <3>1 DEF UploadOK
  <2>2. CASE Lists(n, Done(NewUpload(0, 1))) /\ where = "over"
    <3> DEFINE e == Done(NewUpload(0, 1))
    <3>0. /\ NewUpload(0, 1) \in Entries /\ NewUpload(0, 1).done = 0
          /\ NewUpload(0, 1).total = 0 /\ NewUpload(0, 1).failures = 1
      <4>1. 0 \in Nat /\ 1 \in Nat
        OBVIOUS
      <4> QED BY <4>1, NewUploadEntry
    <3>1. e \in Entries /\ e.finished = TRUE /\ e.done = 0 /\ e.failures = 1 /\ e.total = 0
      BY <3>0, DoneEntry
    <3> HIDE DEF e
    <3>2. n \in DOMAIN list' /\ list'[n] = e
      BY <2>2, ListsEntry DEF e
    <3>3. Cardinality(Meant(t) \ {}) = 0 /\ Cardinality({}) = 0
      <4>1. Meant(t) \ {} = {}
        BY <1>3 DEF Meant
      <4> QED BY <4>1, FS_EmptySet
    <3>4. Outcome(t, e, {})
      BY <1>3, <3>1, <3>3 DEF Outcome
    <3> QED BY <1>3, <2>2, <3>1, <3>2, <3>4 DEF UploadOK
  <2>3. Done(NewUpload(0, 1)) = [NewUpload(0, 1) EXCEPT !.finished = TRUE]
    BY Zenon DEF Done
  <2>4. \/ UNCHANGED list /\ where \in {"picking", "dropped"}
        \/ Lists(n, Done(NewUpload(0, 1))) /\ where = "over"
    BY <1>1, <2>3
  <2> QED BY <2>1, <2>2, <2>4
<1>7. ASSUME NEW v \in Started' PROVE Uploaded(v)'
  <2>1. CASE v = n
    BY <1>3, <1>4, <1>6, <2>1 DEF Uploaded
  <2>2. CASE v # n
    <3>1. v \in Started /\ Uploaded(v) /\ task'[v] = task[v]
      BY <1>3, <1>7, <2>2 DEF UInv
    <3>2. (v \in DOMAIN list') = (v \in DOMAIN list)
      BY <1>5, <2>2
    <3>3. CASE v \in DOMAIN list
      BY <1>5, <2>2, <3>1, <3>2, <3>3 DEF Uploaded
    <3>4. CASE v \notin DOMAIN list
      BY <3>1, <3>2, <3>4 DEF Uploaded, UploadOK
    <3> QED BY <3>3, <3>4
  <2> QED BY <2>1, <2>2
<1>8. Untouched'
  BY <1>3 DEF UInv, Untouched
<1>9. UTypeOK'
  BY <1>3, <1>4, <1>5 DEF UInv, UTypeOK, n
<1> QED BY <1>7, <1>8, <1>9 DEF UInv
LEMMA DrainUploadsOK ==
  ASSUME UInv, DrainUploads PROVE UInv'
<1> USE DEF UInv, UTypeOK
<1> DEFINE done == {u \in DOMAIN list : list[u].finished}
           hears(u) == task[u].window \in open /\ (task[u].project => list[u].scratch)
           notice(u) == [window |-> hears(u), claimed |-> Claimed(list[u]),
                         failures |-> list[u].failures]
<1>1. /\ UNCHANGED <<open, task, stored>>
      /\ list' = [u \in DOMAIN list \ done |-> list[u]]
      /\ heard' = [u \in Numbers |-> IF u \in done THEN Append(heard[u], notice(u)) ELSE heard[u]]
  BY DEF DrainUploads
<1>2. Started \subseteq Numbers /\ DOMAIN list \subseteq Started
  BY UploadsAssumption DEF Started, Numbers
<1>3. ASSUME NEW u \in done
      PROVE  /\ u \in Numbers /\ heard[u] = << >> /\ notice(u) \in Notices
             /\ task[u].at = "over" /\ ToldTrue(task[u], notice(u), stored[u])
  <2>1. u \in Started /\ u \in Numbers /\ list[u] \in Entries /\ Uploaded(u) /\ list[u].finished
    BY <1>2 DEF Uploaded, UploadOK
  <2>2. task[u] \in Tasks /\ stored[u] \in SUBSET Files
    BY <2>1, OneStarted
  <2>3. task[u].at = "over" /\ heard[u] = << >> /\ Outcome(task[u], list[u], stored[u])
    BY <2>1, <2>2 DEF Uploaded, UploadOK, Tasks, Places
  <2>4. Cardinality(stored[u]) \in Nat
    BY <2>2, FS_Subset, FS_CardinalityType, UploadsAssumption
  <2>5. Claimed(list[u]) \in Nat /\ Claimed(list[u]) <= Cardinality(stored[u])
    BY <2>1, <2>3, <2>4 DEF Claimed, Outcome, Entries
  <2>6. list[u].failures \in Nat
    BY <2>1 DEF Entries
  <2>7. hears(u) \in BOOLEAN
    OBVIOUS
  <2>8. hears(u) => task[u].left = {}
                    /\ Cardinality(Meant(task[u]) \ stored[u]) <= list[u].failures
    BY <2>3 DEF Outcome
  <2> HIDE DEF hears
  <2>9. notice(u) \in Notices
    BY <2>5, <2>6, <2>7 DEF Notices
  <2>10. ToldTrue(task[u], notice(u), stored[u])
    BY <2>5, <2>8 DEF ToldTrue
  <2> QED BY <2>1, <2>3, <2>9, <2>10
<1> HIDE DEF done, notice
<1>4. /\ heard' \in [Numbers -> Seq(Notices)]
      /\ \A u \in done : heard'[u] = <<notice(u)>>
      /\ \A u \in Numbers \ done : heard'[u] = heard[u]
  <2>1. ASSUME NEW u \in done PROVE Append(heard[u], notice(u)) = <<notice(u)>>
    <3>1. \A n \in Notices : Append(<< >>, n) = <<n>>
      OBVIOUS
    <3>2. notice(u) \in Notices /\ heard[u] = << >>
      BY <1>3
    <3> QED BY <3>1, <3>2
  <2>2. \A u \in done : <<notice(u)>> \in Seq(Notices)
    BY <1>3
  <2>3. \A u \in Numbers : heard[u] \in Seq(Notices)
    OBVIOUS
  <2>4. heard' = [u \in Numbers |-> IF u \in done THEN <<notice(u)>> ELSE heard[u]]
    BY <1>1, <2>1
  <2> QED BY <1>3, <2>2, <2>3, <2>4
<1>5. DOMAIN list' = DOMAIN list \ done /\ \A u \in DOMAIN list' : list'[u] = list[u]
  BY <1>1
<1>6. Started' = Started
  BY <1>1 DEF Started
<1>7. ASSUME NEW u \in Started PROVE Uploaded(u)'
  <2>1. CASE u \in done
    <3>1. /\ heard'[u] = <<notice(u)>> /\ u \notin DOMAIN list'
          /\ task'[u].at = "over" /\ ToldTrue(task'[u], notice(u), stored'[u])
      BY <1>1, <1>3, <1>4, <1>5, <2>1
    <3>2. Len(heard'[u]) = 1 /\ heard'[u][1] = notice(u)
      BY <3>1
    <3> QED BY <3>1, <3>2 DEF Uploaded, UploadOK
  <2>2. CASE u \notin done
    <3>1. u \in Numbers /\ heard'[u] = heard[u] /\ (u \in DOMAIN list') = (u \in DOMAIN list)
      BY <1>2, <1>4, <1>5, <2>2
    <3>2. Uploaded(u) /\ task' = task /\ stored' = stored
      BY <1>1
    <3>3. CASE u \in DOMAIN list
      BY <1>5, <3>1, <3>2, <3>3 DEF Uploaded
    <3>4. CASE u \notin DOMAIN list
      BY <3>1, <3>2, <3>4 DEF Uploaded, UploadOK
    <3> QED BY <3>3, <3>4
  <2> QED BY <2>1, <2>2
<1>8. done \subseteq Started
  BY <1>2 DEF done
<1>9. Untouched'
  BY <1>1, <1>4, <1>6, <1>8 DEF Untouched
<1> QED BY <1>1, <1>2, <1>4, <1>5, <1>6, <1>7, <1>9

LEMMA UInit_UInv == UInit => UInv
<1> SUFFICES ASSUME UInit PROVE UInv
  OBVIOUS
<1>1. Started = {} /\ DOMAIN list = {}
  BY DEF UInit, Started
<1>2. UTypeOK
  BY <1>1, UploadsAssumption DEF UInit, UTypeOK
<1>3. Untouched
  BY DEF UInit, Untouched
<1> QED BY <1>1, <1>2, <1>3 DEF UInv

LEMMA UNext_UInv == UInv /\ [UNext]_uvars => UInv'
<1> SUFFICES ASSUME UInv, [UNext]_uvars PROVE UInv'
  OBVIOUS
<1> DEFINE rest == <<task, list, stored, heard>>
<1>1. ASSUME open' \subseteq open, UNCHANGED rest PROVE UInv'
  <2>1. UTypeOK' /\ Started' = Started
    BY <1>1 DEF UInv, UTypeOK, Started
  <2>2. Untouched'
    BY <1>1, <2>1 DEF UInv, Untouched
  <2>3. \A u \in Started : Uploaded(u)'
    BY <1>1 DEF UInv, Uploaded
  <2> QED BY <2>1, <2>2, <2>3 DEF UInv
<1>2. ASSUME NEW w \in AppWindows, Close(w) PROVE UInv'
  BY <1>1, <1>2 DEF Close
<1>3. ASSUME NEW w \in AppWindows, Click(w) PROVE UInv'
  BY <1>3, BeginsOK DEF Click
<1>4. ASSUME NEW where \in AppWindows \cup {Desktop}, Drop(where) PROVE UInv'
  BY <1>1, <1>4 DEF Drop
<1>5. ASSUME NEW u \in Started, TaskStep(u) PROVE UInv'
  <2>1. CASE ReadDropped(u)
    <3>1. PICK files \in SUBSET Files, k \in {0, 1} : Chosen(u, files, k)
      BY <2>1 DEF ReadDropped
    <3>2. k \in Nat
      OBVIOUS
    <3> QED BY <2>1, <3>1, <3>2, ChosenOK DEF ReadDropped
  <2>2. CASE Filter(u)
    BY <2>2, FilterOK
  <2>3. CASE NewScratch(u)
    BY <2>3, NewScratchOK
  <2>4. CASE UploadOver(u)
    BY <2>4, FinishOK
  <2>5. CASE \E f \in Files : Send(u, f)
    BY <2>5, SendOK
  <2> QED BY <1>5, <2>1, <2>2, <2>3, <2>4, <2>5 DEF TaskStep
<1>6. ASSUME NEW u \in Started, Pick(u) PROVE UInv'
  <2>1. UNCHANGED <<open, stored, heard>> /\ task[u].at = "picking"
    BY <1>6 DEF Pick
  <2>2. CASE \E files \in SUBSET Files \ {{}} : Chosen(u, files, 0)
    <3>1. 0 \in Nat
      OBVIOUS
    <3> QED BY <2>1, <2>2, <3>1, ChosenOK
  <2>3. CASE At(u, "over") /\ UNCHANGED list
    <3> DEFINE t == Where(task[u], "over")
    <3>1. /\ task[u] \in Tasks /\ u \notin DOMAIN list
          /\ stored[u] = {} /\ heard[u] = << >>
      BY <2>1, OneStarted
    <3>2. task' = [task EXCEPT ![u] = t]
      BY <2>3, Zenon DEF At, Where
    <3>3. t \in Tasks /\ t.at = "over"
      BY <3>1, WhereTask DEF Places
    <3> HIDE DEF t
    <3>4. UploadOK(t, u \in DOMAIN list, list[u], stored[u], heard[u])
      BY <3>1, <3>3 DEF UploadOK
    <3> QED BY <2>1, <2>3, <3>2, <3>3, <3>4, NoEntry
  <2> QED BY <1>6, <2>2, <2>3 DEF Pick
<1>7. ASSUME RouteDrops PROVE UInv'
  BY <1>1, <1>7, BeginsOK DEF RouteDrops
<1>8. ASSUME DrainUploads PROVE UInv'
  BY <1>8, DrainUploadsOK
<1>9. ASSUME UNCHANGED uvars PROVE UInv'
  BY <1>1, <1>9 DEF uvars
<1> QED
  BY <1>2, <1>3, <1>4, <1>5, <1>6, <1>7, <1>8, <1>9 DEF UNext

\* Every upload is as UploadOK says, at every moment.
THEOREM UploadsInvariant == USpec => []UInv
BY UInit_UInv, UNext_UInv, PTL DEF USpec

\* What the user is told of an upload is true and told once: no file is said to
\* be uploaded that has not reached the server, and a window that hears of its
\* upload hears when every file has had its turn, with those that are not there
\* counted (drain_uploads, desktop.rs).
THEOREM NoticesAreTrue == USpec => []NoticesTrue
<1>1. UInv => NoticesTrue
  <2> SUFFICES ASSUME UInv PROVE NoticesTrue
    OBVIOUS
  <2>1. UploadsWellFormed
    <3>1. \A u \in Started : task[u].at \in Places
      BY OneStarted DEF Tasks
    <3>2. ASSUME NEW u \in DOMAIN list PROVE list[u].done <= list[u].total
      <4>1. u \in Started /\ list[u] \in Entries /\ Uploaded(u) /\ task[u].at \in Places
        BY <3>1 DEF UInv, UTypeOK, Uploaded, UploadOK
      <4>2. CASE task[u].at \in {"filter", "scratch"}
        BY <4>1, <4>2 DEF Uploaded, UploadOK, Entries
      <4>3. CASE task[u].at = "sending"
        <5>1. FilesOK(task[u], list[u], stored[u])
          BY <4>1, <4>3 DEF Uploaded, UploadOK
        <5>2. Cardinality(task[u].left) \in Nat
          BY OneStarted, MeantFiles, FS_CardinalityType, <4>1
        <5> QED BY <4>1, <5>1, <5>2 DEF FilesOK, Entries
      <4>4. CASE task[u].at = "over"
        BY <4>1, <4>4 DEF Uploaded, UploadOK, Outcome
      <4>5. CASE task[u].at \in {"picking", "dropped"}
        BY <4>1, <4>5 DEF Uploaded, UploadOK
      <4> QED BY <4>1, <4>2, <4>3, <4>4, <4>5 DEF Places
    <3> QED BY <3>1, <3>2 DEF UploadsWellFormed, UInv, UTypeOK, Places
  <2>2. ASSUME NEW u \in Started, NEW i \in DOMAIN heard[u]
        PROVE  /\ i = 1
               /\ heard[u][i].claimed <= Cardinality(stored[u])
               /\ heard[u][i].window =>
                   LET meant == task[u].chosen \ (IF task[u].project THEN Ignored ELSE {}) IN
                   /\ task[u].left = {}
                   /\ Cardinality(meant \ stored[u]) <= heard[u][i].failures
    <3>1. u \in Numbers
      BY UploadsAssumption DEF UInv, UTypeOK, Started, Numbers
    <3>2. heard[u] \in Seq(Notices)
      BY <3>1 DEF UInv, UTypeOK
    <3>3. heard[u] # << >>
      BY <3>2
    <3>4. Len(heard[u]) = 1 /\ ToldTrue(task[u], heard[u][1], stored[u])
      BY <3>3, OneStarted DEF Uploaded, UploadOK
    <3>5. i = 1
      BY <3>2, <3>4
    <3> QED BY <3>4, <3>5 DEF ToldTrue, Meant
  <2> QED BY <2>1, <2>2 DEF NoticesTrue
<1> QED BY UploadsInvariant, <1>1, PTL

-----------------------------------------------------------------------------
(* A step at a time: what holds at 0, and after a number if it holds at it, *)
(* holds up to N; and a run of a step function is what its definition says. *)

LEMMA LeastOf ==
  ASSUME NEW S, S \subseteq Nat, S # {}
  PROVE  \E n \in S : \A o \in S : n <= o
<1>1. PICK n \in S : \A o \in S : ~(<<o, n>> \in OpToRel(<, Nat))
  BY WFMin, NatLessThanWellFounded, Zenon
<1>2. \A o \in S : ~(o < n)
  BY <1>1 DEF OpToRel
<1> QED BY <1>2

LEMMA UpTo ==
  ASSUME NEW N \in Nat, NEW G, 0 \in G,
         \A n \in 0..N : n # N /\ n \in G => n + 1 \in G
  PROVE  0..N \subseteq G
<1>1. SUFFICES ASSUME (0..N) \ G # {} PROVE FALSE
  OBVIOUS
<1> DEFINE S == (0..N) \ G
<1>2. S # {} /\ S \subseteq Nat
  BY <1>1
<1>3. PICK n \in S : \A o \in S : n <= o
  BY <1>2, LeastOf
<1>4. n \in 0..N /\ n # 0 /\ n \notin G
  OBVIOUS
<1>5. n - 1 \in 0..N /\ n - 1 < n /\ n - 1 # N /\ (n - 1) + 1 = n
  BY <1>4
<1>6. n - 1 \in G
  BY <1>3, <1>5
<1> QED BY <1>4, <1>5, <1>6

IsRun(f, N, S, b, g) == f \in [0..N -> S] /\ f[0] = b /\ \A n \in 1..N : f[n] = g[n][f[n - 1]]

LEMMA RunIs ==
  ASSUME NEW N \in Nat, NEW S, NEW b \in S, NEW g \in [1..N -> [S -> S]]
  PROVE  \E f : IsRun(f, N, S, b, g)
<1> DEFINE Runs(m, f) == IsRun(f, m, S, b, g)
           G == {m \in 0..N : \E f : Runs(m, f)}
<1>1. 0 \in G
  <2> DEFINE f == [n \in 0..0 |-> b]
  <2>1. Runs(0, f)
    BY DEF IsRun
  <2> HIDE DEF f, Runs
  <2>2. 0 \in 0..N
    OBVIOUS
  <2> QED BY <2>1, <2>2
<1>2. ASSUME NEW m \in 0..N, m # N, m \in G PROVE m + 1 \in G
  <2>1. PICK f : Runs(m, f)
    BY <1>2
  <2> DEFINE h == [n \in 0..m + 1 |-> IF n = m + 1 THEN g[m + 1][f[m]] ELSE f[n]]
  <2>2. m + 1 \in 1..N /\ m + 1 \in 0..N /\ m \in 0..m
    BY <1>2
  <2>3. f[m] \in S
    BY <2>1, <2>2 DEF IsRun
  <2>4. g[m + 1][f[m]] \in S
    BY <2>2, <2>3
  <2>5. \A n \in 0..m + 1 : n # m + 1 => n \in 0..m
    BY <1>2
  <2>6. h \in [0..m + 1 -> S]
    BY <2>1, <2>4, <2>5 DEF IsRun
  <2>7. h[0] = b
    BY <2>1, <1>2 DEF IsRun
  <2>8. ASSUME NEW n \in 1..m + 1 PROVE h[n] = g[n][h[n - 1]]
    <3>1. CASE n = m + 1
      <4>1. n - 1 = m /\ m # m + 1 /\ m \in 0..m + 1 /\ n \in 0..m + 1
        BY <3>1, <1>2
      <4> QED BY <3>1, <4>1
    <3>2. CASE n # m + 1
      <4>1. n \in 1..m /\ n - 1 # m + 1 /\ n - 1 \in 0..m + 1 /\ n \in 0..m + 1
        BY <3>2, <1>2
      <4> QED BY <3>2, <4>1, <2>1 DEF IsRun
    <3> QED BY <3>1, <3>2
  <2>9. Runs(m + 1, h)
    BY <2>6, <2>7, <2>8 DEF IsRun
  <2> QED BY <2>2, <2>9
<1> HIDE DEF G
<1>3. 0..N \subseteq G
  BY <1>1, <1>2, UpTo
<1>4. N \in G
  BY <1>3
<1>5. PICK f : Runs(N, f)
  BY <1>4 DEF G
<1> QED BY <1>5

-----------------------------------------------------------------------------
(* Words in a text.                                                        *)

\* The word w is in the text right after its first p characters.
Has(text, p, w) == p + Len(w) <= Len(text) /\ \A i \in 1..Len(w) : text[p + i] = w[i]

\* The words are one after the other in the text, the k-th ends at at[k].
Laid(text, p, words, at) ==
    /\ at \in [0..Len(words) -> Nat] /\ at[0] = p
    /\ \A k \in 1..Len(words) : at[k] = at[k - 1] + Len(words[k]) /\ Has(text, at[k - 1], words[k])

LEMMA HasConcat ==
  ASSUME NEW S, NEW text \in Seq(S), NEW p \in Nat, NEW v \in Seq(S), NEW w \in Seq(S)
  PROVE  Has(text, p, v \o w) <=> Has(text, p, v) /\ Has(text, p + Len(v), w)
<1>1. /\ Len(v) \in Nat /\ Len(w) \in Nat /\ Len(text) \in Nat
      /\ v \o w \in Seq(S) /\ Len(v \o w) = Len(v) + Len(w)
      /\ \A i \in 1..Len(v) + Len(w) : (v \o w)[i] = IF i <= Len(v) THEN v[i] ELSE w[i - Len(v)]
  BY ConcatProperties
<1>2. ASSUME Has(text, p, v \o w) PROVE Has(text, p, v) /\ Has(text, p + Len(v), w)
  <2>1. ASSUME NEW i \in 1..Len(v) PROVE text[p + i] = v[i]
    BY <1>1, <1>2, <2>1 DEF Has
  <2>2. ASSUME NEW i \in 1..Len(w) PROVE text[p + Len(v) + i] = w[i]
    <3>1. Len(v) + i \in 1..Len(v) + Len(w) /\ ~(Len(v) + i <= Len(v)) /\ Len(v) + i - Len(v) = i
          /\ p + (Len(v) + i) = p + Len(v) + i
      BY <1>1, <2>2
    <3>2. text[p + (Len(v) + i)] = (v \o w)[Len(v) + i]
      BY <1>1, <1>2, <3>1 DEF Has
    <3> DEFINE q == Len(v) + i
    <3>3. (v \o w)[q] = IF q <= Len(v) THEN v[q] ELSE w[q - Len(v)]
      BY <1>1, <3>1
    <3>4. ~(q <= Len(v)) /\ q - Len(v) = i
      BY <3>1
    <3> HIDE DEF q
    <3>5. (v \o w)[q] = w[i]
      BY <3>3, <3>4
    <3> QED BY <3>1, <3>2, <3>5 DEF q
  <2> QED BY <1>1, <1>2, <2>1, <2>2 DEF Has
<1>3. ASSUME Has(text, p, v), Has(text, p + Len(v), w) PROVE Has(text, p, v \o w)
  <2>1. ASSUME NEW i \in 1..Len(v) + Len(w) PROVE text[p + i] = (v \o w)[i]
    <3>1. CASE i <= Len(v)
      <4>1. i \in 1..Len(v)
        BY <1>1, <3>1
      <4> QED BY <1>1, <1>3, <3>1, <4>1 DEF Has
    <3>2. CASE ~(i <= Len(v))
      <4>1. i - Len(v) \in 1..Len(w) /\ p + Len(v) + (i - Len(v)) = p + i
        BY <1>1, <3>2
      <4>2. text[p + Len(v) + (i - Len(v))] = w[i - Len(v)]
        BY <1>3, <4>1 DEF Has
      <4> QED BY <1>1, <3>2, <4>1, <4>2
    <3> QED BY <3>1, <3>2
  <2> QED BY <1>1, <1>3, <2>1 DEF Has
<1> QED BY <1>2, <1>3

LEMMA FlattenIs ==
  ASSUME NEW S, NEW words \in Seq(Seq(S))
  PROVE  \E f \in [0..Len(words) -> Seq(S)] :
           /\ f[0] = << >> /\ \A k \in 1..Len(words) : f[k] = f[k - 1] \o words[k]
           /\ FlattenSeq(words) = f[Len(words)]
<1> DEFINE b == << >>
           g == [n \in 1..Len(words) |-> [s \in Seq(S) |-> s \o words[n]]]
<1>1. Len(words) \in Nat /\ b \in Seq(S) /\ \A n \in 1..Len(words) : words[n] \in Seq(S)
  OBVIOUS
<1>2. \A s \in Seq(S), n \in 1..Len(words) : s \o words[n] \in Seq(S)
  BY <1>1
<1>3. g \in [1..Len(words) -> [Seq(S) -> Seq(S)]]
  BY <1>2
<1>4. \A s \in Seq(S), n \in 1..Len(words) : g[n][s] = s \o words[n]
  OBVIOUS
<1> HIDE DEF g
<1> DEFINE T == Seq(S)
           N == Len(words)
<1>5. PICK f : IsRun(f, N, T, b, g)
  BY <1>1, <1>3, RunIs
<1>6. f \in [0..N -> Seq(S)] /\ f[0] = << >>
  BY <1>5 DEF IsRun
<1>7. \A n \in 1..N : n - 1 \in 0..N /\ n \in 0..N
  BY <1>1
<1>8. \A n \in 1..N : f[n - 1] \in Seq(S) /\ f[n] = f[n - 1] \o words[n]
  BY <1>4, <1>5, <1>6, <1>7 DEF IsRun
<1>9. CASE N = 0
  <2>1. FlattenSeq(words) = words /\ words = << >>
    BY <1>1, <1>9, EmptySeq DEF FlattenSeq
  <2> QED BY <1>6, <1>8, <1>9, <2>1
<1>10. CASE N # 0
  <2> DEFINE Eq(h) == h = [i \in 1..N |-> IF i = 1 THEN words[i] ELSE h[i - 1] \o words[i]]
             flat  == CHOOSE h : Eq(h)
             f1    == [i \in 1..N |-> f[i]]
  <2>1. Eq(f1)
    <3>1. ASSUME NEW i \in 1..N PROVE f[i] = IF i = 1 THEN words[i] ELSE f1[i - 1] \o words[i]
      <4>1. CASE i = 1
        <5>1. f[1 - 1] = << >>
          BY <1>6
        <5>2. << >> \o words[i] = words[i]
          BY <1>1
        <5> QED BY <1>8, <4>1, <5>1, <5>2
      <4>2. CASE i # 1
        <5>1. i - 1 \in 1..N
          BY <1>1, <4>2
        <5> QED BY <1>8, <4>2, <5>1
      <4> QED BY <4>1, <4>2
    <3> QED BY <3>1
  <2> HIDE DEF f1
  <2>2. Eq(flat)
    BY <2>1
  <2>3. FlattenSeq(words) = flat[N]
    BY <1>10 DEF FlattenSeq
  <2> HIDE DEF flat
  <2> DEFINE G == {n \in 0..N : n = 0 \/ flat[n] = f[n]}
  <2>4. 0 \in G
    BY <1>1
  <2>5. ASSUME NEW n \in 0..N, n # N, n \in G PROVE n + 1 \in G
    <3>1. n + 1 \in 1..N /\ n + 1 \in 0..N /\ (n + 1) - 1 = n
      BY <1>1, <2>5
    <3>2. flat[n + 1] = IF n + 1 = 1 THEN words[n + 1] ELSE flat[n] \o words[n + 1]
      BY <2>2, <3>1
    <3>3. f[n + 1] = f[n] \o words[n + 1]
      BY <1>8, <3>1
    <3>4. CASE n = 0
      <4>1. << >> \o words[n + 1] = words[n + 1]
        BY <1>1, <3>1
      <4>2. f[n] = << >> /\ n + 1 = 1
        BY <1>6, <3>4
      <4>3. flat[n + 1] = words[n + 1]
        BY <3>2, <4>2
      <4> QED BY <3>1, <3>3, <4>1, <4>2, <4>3
    <3>5. CASE n # 0
      <4>1. flat[n] = f[n] /\ n + 1 # 1
        BY <2>5, <3>5
      <4>2. flat[n + 1] = f[n + 1]
        BY <3>2, <3>3, <4>1
      <4> QED BY <3>1, <4>2
    <3> QED BY <3>4, <3>5
  <2> HIDE DEF G
  <2>6. 0..N \subseteq G
    BY <1>1, <2>4, <2>5, UpTo
  <2>7. flat[N] = f[N]
    BY <1>1, <1>10, <2>6 DEF G
  <2> QED BY <1>6, <1>8, <2>3, <2>7
<1> QED BY <1>9, <1>10

LEMMA FlattenIn ==
  ASSUME NEW S, NEW words \in Seq(Seq(S))
  PROVE  FlattenSeq(words) \in Seq(S)
<1>1. Len(words) \in 0..Len(words)
  OBVIOUS
<1>2. PICK f \in [0..Len(words) -> Seq(S)] : FlattenSeq(words) = f[Len(words)]
  BY FlattenIs
<1> QED BY <1>1, <1>2

\* Words that are joined are in the text one after the other.
LEMMA Joined ==
  ASSUME NEW S, NEW words \in Seq(Seq(S)), NEW text \in Seq(S), NEW p \in Nat,
         Has(text, p, FlattenSeq(words))
  PROVE  /\ FlattenSeq(words) \in Seq(S)
         /\ \E at : Laid(text, p, words, at) /\ at[Len(words)] = p + Len(FlattenSeq(words))
<1> DEFINE N == Len(words)
<1>1. N \in Nat /\ Len(text) \in Nat /\ \A n \in 1..N : words[n] \in Seq(S) /\ Len(words[n]) \in Nat
  OBVIOUS
<1>2. PICK f \in [0..N -> Seq(S)] :
           /\ f[0] = << >> /\ \A k \in 1..N : f[k] = f[k - 1] \o words[k]
           /\ FlattenSeq(words) = f[N]
  BY FlattenIs
<1>3. \A n \in 0..N : f[n] \in Seq(S) /\ Len(f[n]) \in Nat
  BY <1>2
<1>4. \A n \in 1..N : n - 1 \in 0..N /\ n \in 0..N
  BY <1>1
<1> DEFINE G == {n \in 0..N : Has(text, p, f[N - n])}
<1>5. 0 \in G
  BY <1>1, <1>2
<1>6. ASSUME NEW n \in 0..N, n # N, n \in G PROVE n + 1 \in G
  <2>1. N - n \in 1..N /\ n + 1 \in 0..N /\ N - (n + 1) = (N - n) - 1 /\ (N - n) - 1 \in 0..N
    BY <1>1, <1>6
  <2>2. f[N - n] = f[(N - n) - 1] \o words[N - n]
    BY <1>2, <2>1
  <2>3. f[(N - n) - 1] \in Seq(S) /\ words[N - n] \in Seq(S)
    BY <1>1, <1>3, <2>1
  <2>4. Has(text, p, f[(N - n) - 1])
    BY <1>6, <2>2, <2>3, HasConcat
  <2> QED BY <2>1, <2>4
<1> HIDE DEF G
<1>7. 0..N \subseteq G
  BY <1>1, <1>5, <1>6, UpTo
<1>8. \A k \in 0..N : Has(text, p, f[k])
  <2> TAKE k \in 0..N
  <2>1. N - k \in 0..N /\ N - (N - k) = k
    BY <1>1
  <2> QED BY <1>7, <2>1 DEF G
<1> DEFINE at == [k \in 0..N |-> p + Len(f[k])]
<1>9. at \in [0..N -> Nat] /\ at[0] = p /\ at[N] = p + Len(FlattenSeq(words))
  BY <1>1, <1>2, <1>3
<1>10. ASSUME NEW k \in 1..N PROVE at[k] = at[k - 1] + Len(words[k]) /\ Has(text, at[k - 1], words[k])
  <2>1. f[k] = f[k - 1] \o words[k] /\ f[k - 1] \in Seq(S) /\ words[k] \in Seq(S)
    BY <1>1, <1>2, <1>3, <1>4
  <2>2. Len(f[k]) = Len(f[k - 1]) + Len(words[k])
    BY <2>1
  <2>3. Has(text, p, f[k - 1] \o words[k])
    BY <1>4, <1>8, <2>1
  <2>4. Has(text, p + Len(f[k - 1]), words[k])
    BY <2>1, <2>3, HasConcat
  <2>5. at[k] = p + Len(f[k]) /\ at[k - 1] = p + Len(f[k - 1])
    BY <1>4
  <2>6. Len(f[k - 1]) \in Nat /\ Len(words[k]) \in Nat
    BY <2>1
  <2> HIDE DEF at
  <2>7. at[k] = at[k - 1] + Len(words[k])
    <3>1. \A x, y \in Nat : p + (x + y) = (p + x) + y
      OBVIOUS
    <3>2. p + (Len(f[k - 1]) + Len(words[k])) = (p + Len(f[k - 1])) + Len(words[k])
      BY <2>6, <3>1
    <3> QED BY <2>2, <2>5, <3>2, Zenon
  <2>8. Has(text, at[k - 1], words[k])
    BY <2>4, <2>5
  <2> QED BY <2>7, <2>8
<1>11. FlattenSeq(words) \in Seq(S)
  <2>1. N \in 0..N
    BY <1>1
  <2> QED BY <1>2, <1>3, <2>1
<1> HIDE DEF at
<1> QED BY <1>9, <1>10, <1>11 DEF Laid

-----------------------------------------------------------------------------
(* The table parser, a character at a time.                                *)

Cell == Seq(Characters)
Row  == Seq(Cell)
ReadStates == [rows : Seq(Row), row : Row, cell : Cell, quoted : BOOLEAN, skips : BOOLEAN]

LEMMA ReadingIs ==
  ASSUME NEW rows \in Seq(Row), NEW row \in Row, NEW cell \in Cell, NEW q \in BOOLEAN, NEW k \in BOOLEAN
  PROVE  Reading(rows, row, cell, q, k) \in ReadStates
  BY DEF Reading, ReadStates

LEMMA ReadCharIs ==
  ASSUME NEW text \in Cell, NEW i \in 1..Len(text), NEW s \in ReadStates
  PROVE  ReadChar(text, s, i) \in ReadStates
<1>1. text[i] \in Characters
  BY DEF Cell
<1>2. s.rows \in Seq(Row) /\ s.row \in Row /\ s.cell \in Cell
  BY DEF ReadStates
<1>3. [s EXCEPT !.skips = FALSE] \in ReadStates /\ [s EXCEPT !.quoted = FALSE] \in ReadStates
      /\ [s EXCEPT !.quoted = TRUE] \in ReadStates
  BY DEF ReadStates
<1>4. WithChar(s, text[i]) \in ReadStates
  <2>1. Append(s.cell, text[i]) \in Cell
    BY <1>1, <1>2 DEF Cell
  <2> QED BY <2>1 DEF WithChar, ReadStates
<1>5. [WithChar(s, text[i]) EXCEPT !.skips = TRUE] \in ReadStates
  BY <1>4 DEF ReadStates
<1>6. EndCell(s) \in ReadStates
  <2>1. Append(s.row, s.cell) \in Row /\ << >> \in Cell
    BY <1>2 DEF Cell, Row
  <2> QED BY <2>1 DEF EndCell, ReadStates
<1>7. \A t \in ReadStates : EndRow(t) \in ReadStates
  <2> TAKE t \in ReadStates
  <2>1. t.rows \in Seq(Row) /\ t.row \in Row
    BY DEF ReadStates
  <2>2. Append(t.rows, t.row) \in Seq(Row) /\ << >> \in Row
    BY <2>1 DEF Row
  <2> QED BY <2>2 DEF EndRow, ReadStates
<1>8. EndRow(EndCell(s)) \in ReadStates
  BY <1>6, <1>7
<1> QED BY <1>3, <1>4, <1>5, <1>6, <1>8 DEF ReadChar

LEMMA ReadIs ==
  ASSUME NEW text \in Cell
  PROVE  /\ Read(text)[0] = Reading(<< >>, << >>, << >>, FALSE, FALSE)
         /\ \A i \in 1..Len(text) : Read(text)[i] = ReadChar(text, Read(text)[i - 1], i)
<1> DEFINE b == Reading(<< >>, << >>, << >>, FALSE, FALSE)
           g == [n \in 1..Len(text) |-> [s \in ReadStates |-> ReadChar(text, s, n)]]
           one(s, n) == CHOOSE next \in {ReadChar(text, t, n) : t \in {s}} : TRUE
<1>1. Len(text) \in Nat /\ b \in ReadStates
  BY DEF Cell, Row, Reading, ReadStates
<1>2. \A s, n : one(s, n) = ReadChar(text, s, n)
  <2> TAKE s, n
  <2>1. one(s, n) \in {ReadChar(text, t, n) : t \in {s}}
    OBVIOUS
  <2> HIDE DEF one
  <2> QED BY <2>1
<1>3. g \in [1..Len(text) -> [ReadStates -> ReadStates]]
  BY ReadCharIs
<1>4. \A s \in ReadStates, n \in 1..Len(text) : g[n][s] = ReadChar(text, s, n)
  OBVIOUS
<1> HIDE DEF b, g, one
<1> DEFINE N == Len(text)
<1>5. PICK f : IsRun(f, N, ReadStates, b, g)
  BY <1>1, <1>3, RunIs
<1>6. \A n \in 0..N : n # 0 => f[n - 1] \in ReadStates /\ n \in 1..N
  BY <1>1, <1>5 DEF IsRun
<1>7. f = [n \in 0..N |-> IF n = 0 THEN b ELSE one(f[n - 1], n)]
  <2>1. f = [n \in 0..N |-> f[n]]
    BY <1>5 DEF IsRun
  <2>2. \A n \in 0..N : f[n] = IF n = 0 THEN b ELSE one(f[n - 1], n)
    BY <1>2, <1>4, <1>5, <1>6 DEF IsRun
  <2> QED BY <2>1, <2>2
<1> DEFINE run == CHOOSE h : h = [n \in 0..N |-> IF n = 0 THEN b ELSE one(h[n - 1], n)]
<1>8. run = [n \in 0..N |-> IF n = 0 THEN b ELSE one(run[n - 1], n)]
  BY <1>7
<1>9. Read(text) = run
  BY DEF Read, b, one
<1> HIDE DEF run
<1>10. run[0] = b
  BY <1>1, <1>8
<1>11. \A n \in 1..N : run[n] = one(run[n - 1], n)
  BY <1>1, <1>8
<1> QED BY <1>2, <1>9, <1>10, <1>11 DEF b

\* Where the reading is: outside quotes, in them, and before a doubled one.
Between(a, r, c)  == Reading(a, r, c, FALSE, FALSE)
InQuotes(a, r, c) == Reading(a, r, c, TRUE, FALSE)
Skipping(a, r, c) == Reading(a, r, c, TRUE, TRUE)

\* What one character does, by what was read before it.
LEMMA NextChar ==
  ASSUME NEW text \in Cell, NEW i \in Nat, i + 1 <= Len(text)
  PROVE  Read(text)[i + 1] = ReadChar(text, Read(text)[i], i + 1)
<1>1. Len(text) \in Nat
  BY DEF Cell
<1>2. i + 1 \in 1..Len(text) /\ (i + 1) - 1 = i
  BY <1>1
<1> QED BY <1>2, ReadIs

LEMMA PlainChar ==
  ASSUME NEW text \in Cell, NEW i \in Nat, i + 1 <= Len(text), NEW a, NEW r, NEW c,
         text[i + 1] \notin Special, Read(text)[i] = Between(a, r, c)
  PROVE  Read(text)[i + 1] = Between(a, r, Append(c, text[i + 1]))
<1>1. ASSUME NEW n, text[n] \notin Special
      PROVE  ReadChar(text, Between(a, r, c), n) = Between(a, r, Append(c, text[n]))
  BY <1>1 DEF ReadChar, Reading, Between, InQuotes, Skipping, WithChar, Special
<1>2. ReadChar(text, Between(a, r, c), i + 1) = Between(a, r, Append(c, text[i + 1]))
  BY <1>1
<1> QED BY <1>2, NextChar

LEMMA OpenQuote ==
  ASSUME NEW text \in Cell, NEW i \in Nat, i + 1 <= Len(text), NEW a, NEW r,
         text[i + 1] = "quote", Read(text)[i] = Between(a, r, << >>)
  PROVE  Read(text)[i + 1] = InQuotes(a, r, << >>)
<1>1. ASSUME NEW n, text[n] = "quote"
      PROVE  ReadChar(text, Between(a, r, << >>), n) = InQuotes(a, r, << >>)
  BY <1>1 DEF ReadChar, Reading, Between, InQuotes, Skipping
<1>2. ReadChar(text, Between(a, r, << >>), i + 1) = InQuotes(a, r, << >>)
  BY <1>1
<1> QED BY <1>2, NextChar

LEMMA CharInQuotes ==
  ASSUME NEW text \in Cell, NEW i \in Nat, i + 1 <= Len(text), NEW a, NEW r, NEW c,
         text[i + 1] # "quote", Read(text)[i] = InQuotes(a, r, c)
  PROVE  Read(text)[i + 1] = InQuotes(a, r, Append(c, text[i + 1]))
<1>1. ASSUME NEW n, text[n] # "quote"
      PROVE  ReadChar(text, InQuotes(a, r, c), n) = InQuotes(a, r, Append(c, text[n]))
  BY <1>1 DEF ReadChar, Reading, Between, InQuotes, Skipping, WithChar
<1>2. ReadChar(text, InQuotes(a, r, c), i + 1) = InQuotes(a, r, Append(c, text[i + 1]))
  BY <1>1
<1> QED BY <1>2, NextChar

LEMMA DoubledQuote ==
  ASSUME NEW text \in Cell, NEW i \in Nat, i + 1 <= Len(text), NEW a, NEW r, NEW c,
         text[i + 1] = "quote", Peek(text, i + 1) = "quote", Read(text)[i] = InQuotes(a, r, c)
  PROVE  Read(text)[i + 1] = Skipping(a, r, Append(c, "quote"))
<1>1. ASSUME NEW n, text[n] = "quote", Peek(text, n) = "quote"
      PROVE  ReadChar(text, InQuotes(a, r, c), n) = Skipping(a, r, Append(c, "quote"))
  BY <1>1 DEF ReadChar, Reading, Between, InQuotes, Skipping, WithChar, Doubled
<1>2. ReadChar(text, InQuotes(a, r, c), i + 1) = Skipping(a, r, Append(c, "quote"))
  BY <1>1
<1> QED BY <1>2, NextChar

LEMMA SecondQuote ==
  ASSUME NEW text \in Cell, NEW i \in Nat, i + 1 <= Len(text), NEW a, NEW r, NEW c,
         Read(text)[i] = Skipping(a, r, c)
  PROVE  Read(text)[i + 1] = InQuotes(a, r, c)
<1>1. ASSUME NEW n
      PROVE  ReadChar(text, Skipping(a, r, c), n) = InQuotes(a, r, c)
  BY DEF ReadChar, Reading, Between, InQuotes, Skipping
<1>2. ReadChar(text, Skipping(a, r, c), i + 1) = InQuotes(a, r, c)
  BY <1>1
<1> QED BY <1>2, NextChar

LEMMA CloseQuote ==
  ASSUME NEW text \in Cell, NEW i \in Nat, i + 1 <= Len(text), NEW a, NEW r, NEW c,
         text[i + 1] = "quote", Peek(text, i + 1) # "quote", Read(text)[i] = InQuotes(a, r, c)
  PROVE  Read(text)[i + 1] = Between(a, r, c)
<1>1. ASSUME NEW n, text[n] = "quote", Peek(text, n) # "quote"
      PROVE  ReadChar(text, InQuotes(a, r, c), n) = Between(a, r, c)
  BY <1>1 DEF ReadChar, Reading, Between, InQuotes, Skipping, Doubled
<1>2. ReadChar(text, InQuotes(a, r, c), i + 1) = Between(a, r, c)
  BY <1>1
<1> QED BY <1>2, NextChar

LEMMA SepChar ==
  ASSUME NEW text \in Cell, NEW i \in Nat, i + 1 <= Len(text), NEW a, NEW r, NEW c,
         text[i + 1] = "sep", Read(text)[i] = Between(a, r, c)
  PROVE  Read(text)[i + 1] = Between(a, Append(r, c), << >>)
<1>1. ASSUME NEW n, text[n] = "sep"
      PROVE  ReadChar(text, Between(a, r, c), n) = Between(a, Append(r, c), << >>)
  BY <1>1 DEF ReadChar, Reading, Between, InQuotes, Skipping, EndCell
<1>2. ReadChar(text, Between(a, r, c), i + 1) = Between(a, Append(r, c), << >>)
  BY <1>1
<1> QED BY <1>2, NextChar

LEMMA ReturnChar ==
  ASSUME NEW text \in Cell, NEW i \in Nat, i + 1 <= Len(text), NEW a, NEW r, NEW c,
         text[i + 1] = "return", Peek(text, i + 1) = "newline", Read(text)[i] = Between(a, r, c)
  PROVE  Read(text)[i + 1] = Between(a, r, c)
<1>1. ASSUME NEW n, text[n] = "return", Peek(text, n) = "newline"
      PROVE  ReadChar(text, Between(a, r, c), n) = Between(a, r, c)
  BY <1>1 DEF ReadChar, Reading, Between, InQuotes, Skipping
<1>2. ReadChar(text, Between(a, r, c), i + 1) = Between(a, r, c)
  BY <1>1
<1> QED BY <1>2, NextChar

LEMMA NewlineChar ==
  ASSUME NEW text \in Cell, NEW i \in Nat, i + 1 <= Len(text), NEW a, NEW r, NEW c,
         text[i + 1] = "newline", Read(text)[i] = Between(a, r, c)
  PROVE  Read(text)[i + 1] = Between(Append(a, Append(r, c)), << >>, << >>)
<1>1. ASSUME NEW n, text[n] = "newline"
      PROVE  ReadChar(text, Between(a, r, c), n) = Between(Append(a, Append(r, c)), << >>, << >>)
  BY <1>1 DEF ReadChar, Reading, Between, InQuotes, Skipping, EndCell, EndRow
<1>2. ReadChar(text, Between(a, r, c), i + 1) = Between(Append(a, Append(r, c)), << >>, << >>)
  BY <1>1
<1> QED BY <1>2, NextChar

-----------------------------------------------------------------------------
(* A cell, a row, and the rows as they were written.                       *)

LEMMA NextPart ==
  ASSUME NEW S, NEW w \in Seq(S), NEW k \in 0..Len(w), k # Len(w)
  PROVE  k + 1 \in 1..Len(w) /\ SubSeq(w, 1, k + 1) = Append(SubSeq(w, 1, k), w[k + 1])
<1>1. Len(w) \in Nat /\ k + 1 \in 1..Len(w) /\ k \in 0..Len(w)
  OBVIOUS
<1>2. \A n \in 1..Len(w) : w[n] \in S
  OBVIOUS
<1>3. \A n \in 0..Len(w) : SubSeq(w, 1, n) \in Seq(S) /\ Len(SubSeq(w, 1, n)) = n
                           /\ \A j \in 1..n : SubSeq(w, 1, n)[j] = w[j]
  <2> TAKE n \in 0..Len(w)
  <2>1. 1 \in Int /\ n \in Int /\ \A j \in 1..n : w[j] \in S
    BY <1>1, <1>2
  <2>2. /\ SubSeq(w, 1, n) \in Seq(S)
        /\ Len(SubSeq(w, 1, n)) = IF 1 <= n THEN n - 1 + 1 ELSE 0
        /\ \A j \in 1..n - 1 + 1 : SubSeq(w, 1, n)[j] = w[1 + j - 1]
    BY <2>1, SubSeqProperties
  <2>3. n \in Nat /\ n - 1 + 1 = n /\ \A j \in 1..n : 1 + j - 1 = j
    BY <1>1
  <2> QED BY <2>2, <2>3
<1> DEFINE x == SubSeq(w, 1, k + 1)
           y == Append(SubSeq(w, 1, k), w[k + 1])
<1>4. x \in Seq(S) /\ Len(x) = k + 1 /\ \A j \in 1..k + 1 : x[j] = w[j]
  BY <1>1, <1>3
<1>5. SubSeq(w, 1, k) \in Seq(S) /\ Len(SubSeq(w, 1, k)) = k /\ w[k + 1] \in S
      /\ \A j \in 1..k : SubSeq(w, 1, k)[j] = w[j]
  BY <1>1, <1>2, <1>3
<1>6. y \in Seq(S) /\ Len(y) = k + 1 /\ \A j \in 1..k + 1 : y[j] = w[j]
  <2>1. y \in Seq(S) /\ Len(y) = k + 1
    BY <1>5
  <2>2. ASSUME NEW j \in 1..k + 1 PROVE y[j] = w[j]
    <3>1. CASE j = k + 1
      BY <1>5, <3>1
    <3>2. CASE j # k + 1
      <4>1. j \in 1..k
        BY <1>1, <2>2, <3>2
      <4> QED BY <1>5, <4>1
    <3> QED BY <3>1, <3>2
  <2> QED BY <2>1, <2>2
<1> HIDE DEF x, y
<1>7. x = y
  BY <1>1, <1>4, <1>6, SeqEqual
<1> QED BY <1>1, <1>7 DEF x, y

LEMMA Parts0 ==
  ASSUME NEW S, NEW w \in Seq(S)
  PROVE  SubSeq(w, 1, 0) = << >> /\ SubSeq(w, 1, Len(w)) = w
  BY Len(w) \in Nat

LEMMA FunctionSeq ==
  ASSUME NEW S, NEW N \in Nat, NEW q \in [1..N -> S]
  PROVE  q \in Seq(S) /\ Len(q) = N
<1>1. q \in Seq(S)
  BY SeqDef
<1>2. DOMAIN q = 1..N /\ DOMAIN q = 1..Len(q) /\ Len(q) \in Nat
  BY <1>1, LenProperties
<1> QED BY <1>1, <1>2

LEMMA ShortSeq ==
  ASSUME NEW S, NEW e \in S, NEW e2 \in S
  PROVE  /\ <<e>> \in Seq(S) /\ Len(<<e>>) = 1 /\ <<e>>[1] = e
         /\ <<e, e2>> \in Seq(S) /\ Len(<<e, e2>>) = 2 /\ <<e, e2>>[1] = e /\ <<e, e2>>[2] = e2
  OBVIOUS

LEMMA PlainCell ==
  ASSUME NEW text \in Cell, NEW p \in Nat, NEW w \in Cell, Has(text, p, w),
         \A i \in 1..Len(w) : w[i] \notin Special,
         NEW a, NEW r, Read(text)[p] = Between(a, r, << >>)
  PROVE  Read(text)[p + Len(w)] = Between(a, r, w)
<1>1. Len(w) \in Nat /\ Len(text) \in Nat /\ w \in Seq(Characters)
  BY DEF Cell
<1> DEFINE G == {k \in 0..Len(w) : Read(text)[p + k] = Between(a, r, SubSeq(w, 1, k))}
<1>2. 0 \in G
  <2>1. p + 0 = p /\ 0 \in 0..Len(w)
    BY <1>1
  <2> QED BY <1>1, <2>1, Parts0
<1>3. ASSUME NEW k \in 0..Len(w), k # Len(w), k \in G PROVE k + 1 \in G
  <2>1. k + 1 \in 1..Len(w) /\ SubSeq(w, 1, k + 1) = Append(SubSeq(w, 1, k), w[k + 1])
    BY <1>1, <1>3, NextPart
  <2>2. p + (k + 1) \in 1..Len(text) /\ (p + (k + 1)) - 1 = p + k /\ k + 1 \in 0..Len(w)
    BY <1>1, <2>1 DEF Has
  <2>3. text[p + (k + 1)] = w[k + 1] /\ w[k + 1] \notin Special
    BY <2>1 DEF Has
  <2>4. p + k \in Nat /\ (p + k) + 1 = p + (k + 1) /\ (p + k) + 1 <= Len(text)
        /\ text[(p + k) + 1] = w[k + 1]
    BY <1>1, <1>3, <2>2, <2>3
  <2>5. Read(text)[p + k] = Between(a, r, SubSeq(w, 1, k))
    BY <1>3
  <2>6. Read(text)[p + (k + 1)] = Between(a, r, Append(SubSeq(w, 1, k), w[k + 1]))
    BY <2>3, <2>4, <2>5, PlainChar
  <2>7. Read(text)[p + (k + 1)] = Between(a, r, SubSeq(w, 1, k + 1))
    BY <2>1, <2>6
  <2> QED BY <2>2, <2>7
<1> HIDE DEF G
<1>4. 0..Len(w) \subseteq G
  BY <1>1, <1>2, <1>3, UpTo
<1>5. Len(w) \in G
  BY <1>1, <1>4
<1> QED BY <1>1, <1>5, Parts0 DEF G

LEMMA QuotedIs ==
  ASSUME NEW w \in Cell
  PROVE  /\ [i \in DOMAIN w |-> QuotedChar(w[i])] \in Seq(Seq(Characters))
         /\ Len([i \in DOMAIN w |-> QuotedChar(w[i])]) = Len(w)
<1>1. DOMAIN w = 1..Len(w) /\ Len(w) \in Nat /\ \A i \in 1..Len(w) : w[i] \in Characters
  BY DEF Cell
<1>2. \A c \in Characters : QuotedChar(c) \in Seq(Characters)
  <2>1. "quote" \in Characters
    BY DEF Characters, Special
  <2>2. \A S : \A c, d \in S : <<c>> \in Seq(S) /\ <<c, d>> \in Seq(S)
    OBVIOUS
  <2> QED BY <2>1, <2>2 DEF QuotedChar
<1> DEFINE q == [i \in DOMAIN w |-> QuotedChar(w[i])]
<1>3. q = [i \in 1..Len(w) |-> QuotedChar(w[i])]
  BY <1>1
<1>4. q \in [1..Len(w) -> Seq(Characters)]
  BY <1>1, <1>2, <1>3
<1> HIDE DEF q
<1>5. q \in Seq(Seq(Characters)) /\ Len(q) = Len(w)
  BY <1>1, <1>4, FunctionSeq
<1> QED BY <1>5 DEF q

LEMMA QuotedCell ==
  ASSUME NEW text \in Cell, NEW p \in Nat, NEW w \in Cell, Has(text, p, Quoted(w)),
         Quoted(w) \in Cell, Peek(text, p + Len(Quoted(w))) # "quote",
         NEW a, NEW r, Read(text)[p] = Between(a, r, << >>)
  PROVE  Read(text)[p + Len(Quoted(w))] = Between(a, r, w)
<1> DEFINE q    == [i \in DOMAIN w |-> QuotedChar(w[i])]
           flat == FlattenSeq(q)
           N    == Len(w)
<1>1. N \in Nat /\ Len(text) \in Nat /\ w \in Seq(Characters) /\ text \in Seq(Characters) /\ DOMAIN w = 1..N
  BY DEF Cell
<1>2. q \in Seq(Seq(Characters)) /\ Len(q) = N /\ \A i \in 1..N : q[i] = QuotedChar(w[i])
  BY <1>1, QuotedIs
<1> HIDE DEF q
<1>3. flat \in Seq(Characters)
  BY <1>2, FlattenIn
<1>4. Quoted(w) = (<<"quote">> \o flat) \o <<"quote">>
  BY DEF Quoted, q
<1> HIDE DEF flat
<1> DEFINE Q1 == <<"quote">>
<1>5. Q1 \in Seq(Characters) /\ Len(Q1) = 1 /\ Q1[1] = "quote" /\ 1 \in 1..1
  <2>1. "quote" \in Characters /\ 1 \in 1..1
    BY DEF Characters, Special
  <2> QED BY <2>1, ShortSeq
<1> HIDE DEF Q1
<1>6. Q1 \o flat \in Seq(Characters) /\ Len(Q1 \o flat) = 1 + Len(flat) /\ Len(flat) \in Nat
  <2>1. Q1 \in Seq(Characters) /\ Len(Q1) = 1
    BY <1>5
  <2>2. Q1 \o flat \in Seq(Characters) /\ Len(Q1 \o flat) = Len(Q1) + Len(flat)
    BY <1>3, <2>1, ConcatProperties
  <2>3. Len(flat) \in Nat
    BY <1>3, LenProperties
  <2> QED BY <2>1, <2>2, <2>3, Zenon
<1>7. Has(text, p, Q1) /\ Has(text, p + 1, flat) /\ Has(text, p + (1 + Len(flat)), Q1)
  <2>1. Has(text, p, (Q1 \o flat) \o Q1)
    BY <1>4 DEF Q1
  <2>2. Has(text, p, Q1 \o flat) /\ Has(text, p + (1 + Len(flat)), Q1)
    BY <1>1, <1>5, <1>6, <2>1, HasConcat
  <2> QED BY <1>1, <1>3, <1>5, <2>2, HasConcat
<1>8. Len(Quoted(w)) = 1 + Len(flat) + 1
  <2>1. Quoted(w) = (Q1 \o flat) \o Q1
    BY <1>4 DEF Q1
  <2> QED BY <1>5, <1>6, <2>1
<1>9. PICK at : Laid(text, p + 1, q, at) /\ at[N] = (p + 1) + Len(flat)
  <2>1. p + 1 \in Nat
    OBVIOUS
  <2>2. Has(text, p + 1, FlattenSeq(q))
    BY <1>7 DEF flat
  <2> QED BY <1>1, <1>2, <2>1, <2>2, Joined DEF flat
<1>10. /\ \A k \in 0..N : at[k] \in Nat
       /\ at[0] = p + 1
       /\ \A k \in 1..N : at[k] = at[k - 1] + Len(QuotedChar(w[k])) /\ Has(text, at[k - 1], QuotedChar(w[k]))
  BY <1>2, <1>9 DEF Laid
<1>11. Read(text)[p + 1] = InQuotes(a, r, << >>)
  <2>1. p + 1 <= Len(text) /\ text[p + 1] = "quote"
    BY <1>1, <1>5, <1>7 DEF Has
  <2> QED BY <2>1, OpenQuote
<1> DEFINE G == {k \in 0..N : Read(text)[at[k]] = InQuotes(a, r, SubSeq(w, 1, k))}
<1>12. 0 \in G
  <2>1. 0 \in 0..N
    BY <1>1
  <2> QED BY <1>1, <1>10, <1>11, <2>1, Parts0
<1>13. ASSUME NEW k \in 0..N, k # N, k \in G PROVE k + 1 \in G
  <2>1. k + 1 \in 1..N /\ SubSeq(w, 1, k + 1) = Append(SubSeq(w, 1, k), w[k + 1])
    BY <1>1, <1>13, NextPart
  <2>2. k + 1 \in 0..N /\ (k + 1) - 1 = k
    BY <1>1, <2>1
  <2> DEFINE c == w[k + 1]
             m == at[k]
  <2>3. m \in Nat /\ at[k + 1] = m + Len(QuotedChar(c)) /\ Has(text, m, QuotedChar(c))
    BY <1>10, <2>1, <2>2
  <2>4. Read(text)[m] = InQuotes(a, r, SubSeq(w, 1, k))
    BY <1>13
  <2>5. Read(text)[at[k + 1]] = InQuotes(a, r, Append(SubSeq(w, 1, k), c))
    <3> HIDE DEF m, c
    <3>1. CASE c = "quote"
      <4>1. Len(QuotedChar(c)) = 2 /\ QuotedChar(c)[1] = "quote" /\ QuotedChar(c)[2] = "quote"
        BY <3>1 DEF QuotedChar
      <4>2. m + 2 <= Len(text) /\ text[m + 1] = "quote" /\ text[m + 2] = "quote"
        <5>1. 1 \in 1..2 /\ 2 \in 1..2
          OBVIOUS
        <5> QED BY <2>3, <4>1, <5>1 DEF Has
      <4>3. m \in Nat /\ m + 1 \in Nat /\ m + 1 <= Len(text) /\ (m + 1) + 1 <= Len(text)
            /\ (m + 1) + 1 = m + 2 /\ m + 1 < Len(text)
        BY <1>1, <2>3, <4>2
      <4>4. Peek(text, m + 1) = "quote"
        BY <4>2, <4>3 DEF Peek
      <4>6. Read(text)[m + 1] = Skipping(a, r, Append(SubSeq(w, 1, k), "quote"))
        BY <2>4, <4>2, <4>3, <4>4, DoubledQuote
      <4>7. Read(text)[(m + 1) + 1] = InQuotes(a, r, Append(SubSeq(w, 1, k), "quote"))
        BY <4>3, <4>6, SecondQuote
      <4>8. Read(text)[m + 2] = InQuotes(a, r, Append(SubSeq(w, 1, k), "quote"))
        BY <4>3, <4>7
      <4>9. at[k + 1] = m + 2
        BY <2>3, <4>1
      <4> QED BY <3>1, <4>8, <4>9
    <3>2. CASE c # "quote"
      <4>1. Len(QuotedChar(c)) = 1 /\ QuotedChar(c)[1] = c
        BY <3>2 DEF QuotedChar
      <4>2. m + 1 <= Len(text) /\ text[m + 1] = c
        <5>1. 1 \in 1..1
          OBVIOUS
        <5> QED BY <2>3, <4>1, <5>1 DEF Has
      <4>3. m \in Nat /\ m + 1 <= Len(text) /\ text[m + 1] # "quote"
        BY <2>3, <3>2, <4>2
      <4>5. Read(text)[m + 1] = InQuotes(a, r, Append(SubSeq(w, 1, k), text[m + 1]))
        BY <2>4, <4>3, CharInQuotes
      <4>6. at[k + 1] = m + 1
        BY <2>3, <4>1
      <4> QED BY <4>2, <4>5, <4>6
    <3> QED BY <3>1, <3>2
  <2>6. Read(text)[at[k + 1]] = InQuotes(a, r, SubSeq(w, 1, k + 1))
    BY <2>1, <2>5
  <2> QED BY <2>2, <2>6
<1> HIDE DEF G
<1>14. 0..N \subseteq G
  BY <1>1, <1>12, <1>13, UpTo
<1>15. Read(text)[at[N]] = InQuotes(a, r, w)
  <2>1. N \in G
    BY <1>1, <1>14
  <2> QED BY <1>1, <2>1, Parts0 DEF G
<1> DEFINE e == p + (1 + Len(flat))
<1>16. at[N] = e /\ e \in Nat /\ p + Len(Quoted(w)) = e + 1
  <2>1. \A x \in Nat : (p + 1) + x = p + (1 + x) /\ p + (1 + x + 1) = (p + (1 + x)) + 1 /\ p + (1 + x) \in Nat
    OBVIOUS
  <2> QED BY <1>6, <1>8, <1>9, <2>1
<1>17. Has(text, e, Q1)
  BY <1>7
<1> HIDE DEF e
<1>18. e + 1 <= Len(text) /\ text[e + 1] = "quote" /\ Peek(text, e + 1) # "quote"
  BY <1>1, <1>5, <1>16, <1>17 DEF Has
<1>19. Read(text)[e] = InQuotes(a, r, w) /\ e \in Nat
  BY <1>15, <1>16
<1>20. Read(text)[e + 1] = Between(a, r, w)
  BY <1>18, <1>19, CloseQuote
<1> QED BY <1>16, <1>20

LEMMA WrittenIs ==
  ASSUME NEW w \in Cell
  PROVE  Written(w) \in Cell /\ Quoted(w) \in Cell
<1> DEFINE q == [i \in DOMAIN w |-> QuotedChar(w[i])]
<1>1. q \in Seq(Seq(Characters))
  BY QuotedIs
<1>2. FlattenSeq(q) \in Seq(Characters)
  BY <1>1, FlattenIn
<1>3. <<"quote">> \in Seq(Characters)
  <2>1. "quote" \in Characters
    BY DEF Characters, Special
  <2> QED BY <2>1, ShortSeq
<1>4. (<<"quote">> \o FlattenSeq(q)) \o <<"quote">> \in Seq(Characters)
  BY <1>2, <1>3, ConcatProperties
<1>5. Quoted(w) \in Cell
  BY <1>4 DEF Quoted, Cell
<1> QED BY <1>5 DEF Written

\* However a cell was written, it is read as it was.
LEMMA CellRead ==
  ASSUME NEW text \in Cell, NEW p \in Nat, NEW w \in Cell, Has(text, p, Written(w)),
         Peek(text, p + Len(Written(w))) # "quote",
         NEW a, NEW r, Read(text)[p] = Between(a, r, << >>)
  PROVE  Read(text)[p + Len(Written(w))] = Between(a, r, w)
<1>1. CASE ToSet(w) \cap Special # {}
  <2>1. Written(w) = Quoted(w) /\ Quoted(w) \in Cell
    BY <1>1, WrittenIs DEF Written
  <2>2. Has(text, p, Quoted(w)) /\ Peek(text, p + Len(Quoted(w))) # "quote"
    BY <2>1
  <2> HIDE <1>1
  <2>3. Read(text)[p + Len(Quoted(w))] = Between(a, r, w)
    BY <2>1, <2>2, QuotedCell
  <2> QED BY <2>1, <2>3
<1>2. CASE ToSet(w) \cap Special = {}
  <2>1. Written(w) = w
    BY <1>2 DEF Written
  <2>2. \A i \in 1..Len(w) : w[i] \notin Special
    <3>1. DOMAIN w = 1..Len(w)
      BY DEF Cell
    <3> QED BY <1>2, <3>1 DEF ToSet
  <2>3. Has(text, p, w)
    BY <2>1
  <2>4. Read(text)[p + Len(w)] = Between(a, r, w)
    BY <2>2, <2>3, PlainCell
  <2> QED BY <2>1, <2>4
<1> QED BY <1>1, <1>2

RowWords(row) == [i \in DOMAIN row |-> IF i = 1 THEN Written(row[i]) ELSE <<"sep">> \o Written(row[i])]

LEMMA RowWordsIs ==
  ASSUME NEW row \in Row
  PROVE  /\ RowWords(row) \in Seq(Cell) /\ Len(RowWords(row)) = Len(row)
         /\ \A i \in 1..Len(row) :
              RowWords(row)[i] = IF i = 1 THEN Written(row[i]) ELSE <<"sep">> \o Written(row[i])
<1>1. DOMAIN row = 1..Len(row) /\ Len(row) \in Nat /\ \A i \in 1..Len(row) : row[i] \in Cell
  BY DEF Row
<1>2. \A i \in 1..Len(row) : Written(row[i]) \in Seq(Characters)
  BY <1>1, WrittenIs DEF Cell
<1>3. <<"sep">> \in Seq(Characters)
  <2>1. "sep" \in Characters
    BY DEF Characters, Special
  <2> QED BY <2>1, ShortSeq
<1>4. \A i \in 1..Len(row) : <<"sep">> \o Written(row[i]) \in Seq(Characters)
  BY <1>2, <1>3, ConcatProperties
<1>5. RowWords(row) \in [1..Len(row) -> Cell]
  BY <1>1, <1>2, <1>4 DEF RowWords, Cell
<1>6. RowWords(row) \in Seq(Cell) /\ Len(RowWords(row)) = Len(row)
  BY <1>1, <1>5, FunctionSeq
<1>7. \A i \in 1..Len(row) :
        RowWords(row)[i] = IF i = 1 THEN Written(row[i]) ELSE <<"sep">> \o Written(row[i])
  BY <1>1 DEF RowWords
<1> QED BY <1>6, <1>7

LineEnds == {<<"newline">>, <<"return", "newline">>}

LEMMA EndIs ==
  ASSUME NEW end \in LineEnds
  PROVE  end \in Cell /\ Len(end) \in 1..2 /\ end[1] # "quote" /\ end[1] # "sep"
<1>1. "newline" \in Characters /\ "return" \in Characters
  BY DEF Characters, Special
<1>2. /\ <<"newline">> \in Seq(Characters) /\ Len(<<"newline">>) = 1 /\ <<"newline">>[1] = "newline"
      /\ <<"return", "newline">> \in Seq(Characters) /\ Len(<<"return", "newline">>) = 2
      /\ <<"return", "newline">>[1] = "return"
  BY <1>1, ShortSeq
<1>3. CASE end = <<"newline">>
  <2>1. Len(end) = 1 /\ end[1] = "newline" /\ end \in Cell
    BY <1>2, <1>3 DEF Cell
  <2> QED BY <2>1
<1>4. CASE end = <<"return", "newline">>
  <2>1. Len(end) = 2 /\ end[1] = "return" /\ end \in Cell
    BY <1>2, <1>4 DEF Cell
  <2> QED BY <2>1
<1> QED BY <1>3, <1>4 DEF LineEnds

LEMMA WrittenRowIs ==
  ASSUME NEW row \in Row, NEW end \in LineEnds
  PROVE  /\ WrittenRow(row, end) = FlattenSeq(RowWords(row)) \o end
         /\ FlattenSeq(RowWords(row)) \in Cell /\ WrittenRow(row, end) \in Cell
<1>1. WrittenRow(row, end) = FlattenSeq(RowWords(row)) \o end
  BY DEF WrittenRow, RowWords
<1>2. FlattenSeq(RowWords(row)) \in Cell
  BY RowWordsIs, FlattenIn DEF Cell
<1>3. FlattenSeq(RowWords(row)) \o end \in Seq(Characters)
  BY <1>2, EndIs, ConcatProperties DEF Cell
<1> QED BY <1>1, <1>2, <1>3 DEF Cell

\* The end of a line ends the row, and nothing of it is in the last cell.
LEMMA EndRead ==
  ASSUME NEW text \in Cell, NEW p \in Nat, NEW end \in LineEnds, Has(text, p, end),
         NEW a, NEW r, NEW c, Read(text)[p] = Between(a, r, c)
  PROVE  Read(text)[p + Len(end)] = Between(Append(a, Append(r, c)), << >>, << >>)
<1>1. Len(text) \in Nat
  BY DEF Cell
<1>2. CASE end = <<"newline">>
  <2>1. Len(end) = 1 /\ end[1] = "newline" /\ 1 \in 1..1
    BY <1>2
  <2>2. p + 1 <= Len(text) /\ text[p + 1] = "newline"
    BY <2>1 DEF Has
  <2>3. Read(text)[p + 1] = Between(Append(a, Append(r, c)), << >>, << >>)
    BY <2>2, NewlineChar
  <2> QED BY <2>1, <2>3
<1>3. CASE end = <<"return", "newline">>
  <2>1. Len(end) = 2 /\ end[1] = "return" /\ end[2] = "newline" /\ 1 \in 1..2 /\ 2 \in 1..2
    BY <1>3
  <2>2. p + 2 <= Len(text) /\ text[p + 1] = "return" /\ text[p + 2] = "newline"
    BY <2>1 DEF Has
  <2>3. p + 1 \in Nat /\ p + 1 <= Len(text) /\ (p + 1) + 1 = p + 2 /\ (p + 1) + 1 <= Len(text) /\ p + 1 < Len(text)
    BY <1>1, <2>2
  <2>4. Peek(text, p + 1) = "newline" /\ text[(p + 1) + 1] = "newline"
    BY <2>2, <2>3 DEF Peek
  <2>5. Read(text)[p + 1] = Between(a, r, c)
    BY <2>2, <2>3, <2>4, ReturnChar
  <2>6. Read(text)[(p + 1) + 1] = Between(Append(a, Append(r, c)), << >>, << >>)
    BY <2>3, <2>4, <2>5, NewlineChar
  <2> QED BY <2>1, <2>3, <2>6
<1> QED BY <1>2, <1>3 DEF LineEnds

LEMMA RowRead ==
  ASSUME NEW text \in Cell, NEW p \in Nat, NEW row \in Row, row # << >>, NEW end \in LineEnds,
         Has(text, p, WrittenRow(row, end)),
         NEW a, Read(text)[p] = Between(a, << >>, << >>)
  PROVE  Read(text)[p + Len(WrittenRow(row, end))] = Between(Append(a, row), << >>, << >>)
<1> DEFINE words == RowWords(row)
           flat  == FlattenSeq(words)
           N     == Len(row)
<1>1. N \in Nat \ {0} /\ Len(text) \in Nat /\ row \in Seq(Cell) /\ text \in Seq(Characters)
  BY EmptySeq DEF Row, Cell
<1>2. /\ words \in Seq(Seq(Characters)) /\ Len(words) = N
      /\ \A i \in 1..N : words[i] = IF i = 1 THEN Written(row[i]) ELSE <<"sep">> \o Written(row[i])
  BY RowWordsIs DEF Cell
<1>3. WrittenRow(row, end) = flat \o end /\ flat \in Seq(Characters) /\ end \in Seq(Characters)
      /\ Len(flat) \in Nat /\ Len(end) \in Nat /\ Len(end) >= 1
  <2>1. end \in Cell /\ Len(end) \in 1..2
    BY EndIs
  <2>2. WrittenRow(row, end) = flat \o end /\ flat \in Cell
    BY WrittenRowIs
  <2> HIDE DEF words, flat
  <2>3. end \in Seq(Characters) /\ flat \in Seq(Characters)
    BY <2>1, <2>2 DEF Cell
  <2>4. Len(flat) \in Nat
    BY <2>3, LenProperties
  <2>5. Len(end) \in Nat /\ Len(end) >= 1
    BY <2>1
  <2> QED BY <2>2, <2>3, <2>4, <2>5, Zenon
<1> HIDE DEF words
<1>4. Has(text, p, flat) /\ Has(text, p + Len(flat), end)
  BY <1>1, <1>3, HasConcat
<1>5. PICK at : Laid(text, p, words, at) /\ at[N] = p + Len(flat)
  <2>1. Has(text, p, FlattenSeq(words))
    BY <1>4
  <2>2. PICK at : Laid(text, p, words, at) /\ at[Len(words)] = p + Len(FlattenSeq(words))
    BY <1>1, <1>2, <2>1, Joined
  <2> QED BY <1>2, <2>2
<1> HIDE DEF flat
<1>6. /\ \A k \in 0..N : at[k] \in Nat
      /\ at[0] = p
      /\ \A k \in 1..N : at[k] = at[k - 1] + Len(words[k]) /\ Has(text, at[k - 1], words[k])
  BY <1>2, <1>5 DEF Laid
\* What comes after a cell is no quote.
<1>7. \A k \in 1..N : Peek(text, at[k]) # "quote"
  <2> TAKE k \in 1..N
  <2>1. k \in 0..N /\ at[k] \in Nat
    BY <1>1, <1>6
  <2>2. CASE k = N
    <3>1. 1 \in 1..Len(end) /\ at[k] + Len(end) <= Len(text) /\ text[at[k] + 1] = end[1]
      <4>1. Has(text, at[k], end)
        BY <1>4, <1>5, <2>2
      <4>2. 1 \in 1..Len(end)
        BY <1>3
      <4> QED BY <4>1, <4>2 DEF Has
    <3>2. end[1] # "quote"
      BY EndIs
    <3>3. at[k] < Len(text)
      BY <1>1, <1>3, <2>1, <3>1
    <3> QED BY <3>1, <3>2, <3>3 DEF Peek
  <2>3. CASE k # N
    <3>1. k + 1 \in 1..N /\ (k + 1) - 1 = k /\ k + 1 # 1
      BY <1>1, <2>3
    <3>2. Has(text, at[k], words[k + 1]) /\ words[k + 1] = <<"sep">> \o Written(row[k + 1])
      BY <1>2, <1>6, <3>1
    <3>3. Has(text, at[k], <<"sep">>)
      <4>1. "sep" \in Characters
        BY DEF Characters, Special
      <4>2. <<"sep">> \in Seq(Characters) /\ row[k + 1] \in Cell
        BY <1>1, <3>1, <4>1, ShortSeq
      <4>3. Written(row[k + 1]) \in Seq(Characters)
        BY <4>2, WrittenIs DEF Cell
      <4>4. Has(text, at[k], <<"sep">> \o Written(row[k + 1]))
        BY <3>2
      <4> QED BY <1>1, <2>1, <4>2, <4>3, <4>4, HasConcat
    <3>4. at[k] + 1 <= Len(text) /\ text[at[k] + 1] = "sep"
      <4>1. Len(<<"sep">>) = 1 /\ <<"sep">>[1] = "sep" /\ 1 \in 1..1
        OBVIOUS
      <4> QED BY <3>3, <4>1 DEF Has
    <3>5. at[k] < Len(text)
      BY <1>1, <2>1, <3>4
    <3> QED BY <3>4, <3>5 DEF Peek
  <2> QED BY <2>2, <2>3
<1> DEFINE G == {k \in 0..N :
                   Read(text)[at[k]] = IF k = 0 THEN Between(a, << >>, << >>)
                                       ELSE Between(a, SubSeq(row, 1, k - 1), row[k])}
<1>8. 0 \in G
  <2>1. 0 \in 0..N
    BY <1>1
  <2> QED BY <1>6, <2>1
<1>9. ASSUME NEW k \in 0..N, k # N, k \in G PROVE k + 1 \in G
  <2>1. k + 1 \in 1..N /\ k + 1 \in 0..N /\ (k + 1) - 1 = k /\ k + 1 # 0
    BY <1>1, <1>9
  <2> DEFINE m == at[k]
             w == row[k + 1]
  <2>2. m \in Nat /\ w \in Cell /\ Written(w) \in Seq(Characters) /\ Len(Written(w)) \in Nat
    <3>1. w \in Cell
      BY <1>1, <2>1
    <3> QED BY <1>6, <3>1, WrittenIs, LenProperties DEF Cell
  <2>3. at[k + 1] = m + Len(words[k + 1]) /\ Has(text, m, words[k + 1])
        /\ words[k + 1] = IF k + 1 = 1 THEN Written(w) ELSE <<"sep">> \o Written(w)
    BY <1>2, <1>6, <2>1
  <2>4. Peek(text, at[k + 1]) # "quote"
    BY <1>7, <2>1
  <2>5. Read(text)[m] = IF k = 0 THEN Between(a, << >>, << >>)
                        ELSE Between(a, SubSeq(row, 1, k - 1), row[k])
    BY <1>9
  <2>6. Read(text)[at[k + 1]] = Between(a, SubSeq(row, 1, k), w)
    <3>1. CASE k = 0
      <4>1. words[k + 1] = Written(w) /\ SubSeq(row, 1, k) = << >>
        <5>1. k + 1 = 1
          BY <3>1
        <5> QED BY <1>1, <2>3, <3>1, <5>1, Parts0
      <4>2. Read(text)[m] = Between(a, << >>, << >>)
        BY <2>5, <3>1
      <4> HIDE DEF m, w
      <4>3. Has(text, m, Written(w)) /\ at[k + 1] = m + Len(Written(w))
        BY <2>3, <4>1
      <4>4. Peek(text, m + Len(Written(w))) # "quote"
        BY <2>4, <4>3
      <4>5. Read(text)[m + Len(Written(w))] = Between(a, << >>, w)
        BY <2>2, <4>2, <4>3, <4>4, CellRead
      <4> QED BY <4>1, <4>3, <4>5
    <3>2. CASE k # 0
      <4>1. words[k + 1] = <<"sep">> \o Written(w)
        <5>1. k + 1 # 1
          BY <3>2
        <5> QED BY <2>3, <5>1
      <4>2. Read(text)[m] = Between(a, SubSeq(row, 1, k - 1), row[k])
        BY <2>5, <3>2
      <4>3. SubSeq(row, 1, k) = Append(SubSeq(row, 1, k - 1), row[k])
        <5>1. k - 1 \in 0..N /\ k - 1 # N /\ (k - 1) + 1 = k
          BY <1>1, <1>9, <3>2
        <5> QED BY <1>1, <5>1, NextPart
      <4> HIDE DEF m, w
      <4>4. Len(<<"sep">>) = 1 /\ <<"sep">>[1] = "sep" /\ 1 \in 1..1 /\ <<"sep">> \in Seq(Characters)
        <5>1. "sep" \in Characters
          BY DEF Characters, Special
        <5>2. 1 \in 1..1
          OBVIOUS
        <5> QED BY <5>1, <5>2, ShortSeq
      <4>5. Has(text, m, <<"sep">>) /\ Has(text, m + 1, Written(w))
        <5>1. Has(text, m, <<"sep">> \o Written(w))
          BY <2>3, <4>1
        <5> QED BY <1>1, <2>2, <4>4, <5>1, HasConcat
      <4>6. m + 1 <= Len(text) /\ text[m + 1] = "sep" /\ m + 1 \in Nat
        BY <2>2, <4>4, <4>5 DEF Has
      <4>7. Read(text)[m + 1] = Between(a, SubSeq(row, 1, k), << >>)
        <5> DEFINE r == SubSeq(row, 1, k - 1)
                   c == row[k]
        <5>1. Read(text)[m] = Between(a, r, c)
          BY <4>2
        <5> HIDE DEF r, c
        <5>2. Read(text)[m + 1] = Between(a, Append(r, c), << >>)
          BY <2>2, <4>6, <5>1, SepChar
        <5> QED BY <4>3, <5>2 DEF r, c
      <4>8. at[k + 1] = (m + 1) + Len(Written(w))
        <5>1. Len(words[k + 1]) = 1 + Len(Written(w))
          BY <2>2, <4>1, <4>4, ConcatProperties
        <5> QED BY <2>2, <2>3, <5>1
      <4> DEFINE r == SubSeq(row, 1, k)
                 n == m + 1
      <4>9. n \in Nat /\ Has(text, n, Written(w)) /\ Peek(text, n + Len(Written(w))) # "quote"
            /\ Read(text)[n] = Between(a, r, << >>)
        BY <2>4, <4>5, <4>6, <4>7, <4>8
      <4> HIDE DEF r, n
      <4>10. Read(text)[n + Len(Written(w))] = Between(a, r, w)
        BY <2>2, <4>9, CellRead
      <4> QED BY <4>8, <4>10 DEF r, n
    <3> QED BY <3>1, <3>2
  <2>7. Read(text)[at[k + 1]] = Between(a, SubSeq(row, 1, (k + 1) - 1), row[k + 1])
    BY <2>1, <2>6
  <2> QED BY <2>1, <2>7
<1> HIDE DEF G
<1>10. 0..N \subseteq G
  BY <1>1, <1>8, <1>9, UpTo
<1> DEFINE m == at[N]
           r == SubSeq(row, 1, N - 1)
           c == row[N]
<1>11. Read(text)[m] = Between(a, r, c)
  <2>1. N \in G /\ N # 0
    BY <1>1, <1>10
  <2> QED BY <2>1 DEF G
<1>12. Append(r, c) = row
  <2>1. N - 1 \in 0..N /\ N - 1 # N /\ (N - 1) + 1 = N
    BY <1>1
  <2>2. SubSeq(row, 1, N) = Append(r, c)
    BY <1>1, <2>1, NextPart
  <2> QED BY <1>1, <2>2, Parts0
<1>13. m \in Nat /\ Has(text, m, end) /\ m = p + Len(flat)
  BY <1>1, <1>4, <1>5, <1>6
<1> HIDE DEF m, r, c
<1>14. Read(text)[m + Len(end)] = Between(Append(a, Append(r, c)), << >>, << >>)
  BY <1>11, <1>13, EndRead
<1>15. p + Len(WrittenRow(row, end)) = m + Len(end)
  <2>1. Len(WrittenRow(row, end)) = Len(flat) + Len(end)
    BY <1>3, ConcatProperties
  <2>2. \A x, y \in Nat : p + (x + y) = (p + x) + y
    OBVIOUS
  <2> QED BY <1>3, <1>13, <2>1, <2>2
<1> QED BY <1>12, <1>14, <1>15

\* A file is read as the rows that were written.
LEMMA TableRead ==
  ASSUME NEW d, d.rows \in Seq(Row \ {<< >>}), d.crlf \in BOOLEAN
  PROVE  Parsed(Contents(d)) = d.rows
<1> DEFINE rows  == d.rows
           end   == LineEnd(d.crlf)
           words == [i \in DOMAIN rows |-> WrittenRow(rows[i], end)]
           N     == Len(rows)
           text  == Contents(d)
<1>1. end \in LineEnds
  BY DEF LineEnd, LineEnds
<1>2. N \in Nat /\ DOMAIN rows = 1..N /\ rows \in Seq(Row) /\ \A i \in 1..N : rows[i] \in Row /\ rows[i] # << >>
  OBVIOUS
<1>3. text = FlattenSeq(words)
  BY DEF Contents
<1> HIDE DEF end, rows
<1>4. words \in [1..N -> Seq(Characters)]
  BY <1>1, <1>2, WrittenRowIs DEF Cell
<1>5. words \in Seq(Seq(Characters)) /\ Len(words) = N
  <2> HIDE DEF words, N
  <2> QED BY <1>2, <1>4, FunctionSeq
<1>6. \A i \in 1..N : words[i] = WrittenRow(rows[i], end)
  BY <1>2
<1> HIDE DEF words, text
<1>7. text \in Seq(Characters) /\ Len(text) \in Nat /\ text \in Cell
  BY <1>3, <1>5, FlattenIn DEF Cell
<1>8. Has(text, 0, text)
  BY <1>7 DEF Has
<1>9. PICK at : Laid(text, 0, words, at) /\ at[N] = Len(text)
  <2>1. 0 \in Nat /\ Has(text, 0, FlattenSeq(words))
    BY <1>3, <1>8
  <2>2. PICK at : Laid(text, 0, words, at) /\ at[Len(words)] = 0 + Len(FlattenSeq(words))
    BY <1>5, <1>7, <2>1, Joined
  <2> QED BY <1>3, <1>5, <1>7, <2>2
<1>10. /\ \A k \in 0..N : at[k] \in Nat
       /\ at[0] = 0
       /\ \A k \in 1..N : at[k] = at[k - 1] + Len(words[k]) /\ Has(text, at[k - 1], words[k])
  BY <1>5, <1>9 DEF Laid
<1> DEFINE G == {k \in 0..N : Read(text)[at[k]] = Between(SubSeq(rows, 1, k), << >>, << >>)}
<1>11. 0 \in G
  <2>1. 0 \in 0..N /\ SubSeq(rows, 1, 0) = << >>
    BY <1>2, Parts0
  <2>2. Read(text)[0] = Between(<< >>, << >>, << >>)
    BY <1>7, ReadIs DEF Between
  <2> QED BY <1>10, <2>1, <2>2
<1>12. ASSUME NEW k \in 0..N, k # N, k \in G PROVE k + 1 \in G
  <2>1. k + 1 \in 1..N /\ k + 1 \in 0..N /\ (k + 1) - 1 = k
        /\ SubSeq(rows, 1, k + 1) = Append(SubSeq(rows, 1, k), rows[k + 1])
    <3>1. k + 1 \in 1..N /\ k + 1 \in 0..N /\ (k + 1) - 1 = k
      <4> HIDE DEF N, G
      <4> QED BY <1>2, <1>12
    <3>2. SubSeq(rows, 1, k + 1) = Append(SubSeq(rows, 1, k), rows[k + 1])
      BY <1>2, <1>12, NextPart
    <3> QED BY <3>1, <3>2
  <2> DEFINE m   == at[k]
             row == rows[k + 1]
             a   == SubSeq(rows, 1, k)
  <2>2. m \in Nat /\ row \in Row /\ row # << >> /\ Read(text)[m] = Between(a, << >>, << >>)
    BY <1>2, <1>10, <1>12, <2>1
  <2>3. Has(text, m, WrittenRow(row, end)) /\ at[k + 1] = m + Len(WrittenRow(row, end))
    BY <1>6, <1>10, <2>1
  <2> HIDE DEF m, row, a
  <2>4. Read(text)[m + Len(WrittenRow(row, end))] = Between(Append(a, row), << >>, << >>)
    BY <1>1, <1>7, <2>2, <2>3, RowRead
  <2>5. Read(text)[at[k + 1]] = Between(SubSeq(rows, 1, k + 1), << >>, << >>)
    BY <2>1, <2>3, <2>4 DEF a, row
  <2> QED BY <2>1, <2>5
<1> HIDE DEF G
<1>13. 0..N \subseteq G
  BY <1>2, <1>11, <1>12, UpTo
<1>14. Read(text)[Len(text)] = Between(rows, << >>, << >>)
  <2>1. N \in G
    BY <1>2, <1>13
  <2> QED BY <1>2, <1>9, <2>1, Parts0 DEF G
<1>15. Parsed(text) = rows
  BY <1>14 DEF Parsed, Between, Reading
<1> QED BY <1>15 DEF rows, text

-----------------------------------------------------------------------------
(* The Viewer.                                                             *)

ViewType ==
    [file : BOOLEAN, query : {"short", "long"}, converting : BOOLEAN, loaded : BOOLEAN,
     rows : Seq(Row), asText : BOOLEAN, details : BOOLEAN]

SlotType == [Asks -> {"unasked", "sent", "unfinished", "ready", "failed"}]

Screens == Final \cup {"blank", "search", "searching", "hits", "no search", "opening", "loading", "converting"}

\* What a Viewer has taken of a table is its rows, and a table on the screen has
\* been taken.
Holds(a)      == a.loaded /\ doc.name = "table" => a.rows = doc.rows
TableShown(a, what) == what = "table" => doc.name = "table" /\ a.loaded

VInv ==
    /\ doc \in Documents /\ contents = Contents(doc)
    /\ view \in ViewType /\ slot \in SlotType /\ screen \in Screens
    /\ Holds(view) /\ TableShown(view, screen)

\* What a frame may leave.
FrameOK(x) ==
    x.view \in ViewType /\ x.slot \in SlotType /\ x.screen \in Screens /\ Holds(x.view) /\ TableShown(x.view, x.screen)

LEMMA PresentsOK ==
  ASSUME NEW a \in ViewType, NEW s \in SlotType, NEW what \in Screens, Holds(a), TableShown(a, what)
  PROVE  FrameOK(Presents(a, s, what))
  BY DEF FrameOK, Presents

LEMMA GetOK ==
  ASSUME NEW s \in SlotType, NEW r \in Asks
  PROVE  Get(s, r) \in SlotType /\ Get(s, r)[r] # "unasked"
  BY DEF Get, SlotType

LEMMA DocumentIs ==
  ASSUME NEW d \in Documents
  PROVE  /\ d.name \in {"media", "unknown", "pdf", "table", "text"}
         /\ d.entry \in {"file", "dir", "missing", "cut off"}
         /\ d.really \in {"picture", "animated", "video", "audio", "not media", "broken"}
         /\ d.rows \in Seq(Row \ {<< >>}) /\ d.rows \in Seq(Row) /\ d.crlf \in BOOLEAN
<1>1. DocumentShape(d)
  BY ViewerAssumption
<1>2. d.rows \in Seq(Row \ {<< >>})
  BY <1>1 DEF DocumentShape, Row, Cell
<1>3. \A S, T : S \subseteq T => Seq(S) \subseteq Seq(T)
  OBVIOUS
<1>4. d.rows \in Seq(Row)
  BY <1>2, <1>3
<1> QED BY <1>1, <1>2, <1>4 DEF DocumentShape

LEMMA TakenOK ==
  ASSUME VInv, NEW a \in ViewType, Holds(a), NEW table \in BOOLEAN, table = (doc.name = "table")
  PROVE  Taken(a, table) \in ViewType /\ Holds(Taken(a, table)) /\ Taken(a, table).loaded
<1>1. CASE a.loaded
  BY <1>1 DEF Taken
<1>2. CASE ~a.loaded
  <2>1. table => Parsed(contents) = doc.rows
    BY DocumentIs, TableRead DEF VInv
  <2>2. doc.rows \in Seq(Row) /\ << >> \in Seq(Row)
    <3>1. << >> \in Seq(Row)
      OBVIOUS
    <3> QED BY <3>1, DocumentIs DEF VInv
  <2> DEFINE rs == IF table THEN Parsed(contents) ELSE << >>
  <2>3. rs \in Seq(Row) /\ (doc.name = "table" => rs = doc.rows)
    BY <2>1, <2>2
  <2>4. Taken(a, table) = [a EXCEPT !.loaded = TRUE, !.asText = FALSE, !.rows = rs]
    BY <1>2 DEF Taken
  <2> HIDE DEF rs
  <2>5. Taken(a, table) \in ViewType /\ Taken(a, table).loaded /\ Taken(a, table).rows = rs
    BY <2>3, <2>4 DEF ViewType
  <2> QED BY <2>3, <2>5 DEF Holds
<1> QED BY <1>1, <1>2

LEMMA TextViewOK ==
  ASSUME VInv, NEW a \in ViewType, Holds(a), NEW s \in SlotType,
         NEW table \in BOOLEAN, table = (doc.name = "table")
  PROVE  FrameOK(TextView(a, s, table))
<1> DEFINE s1 == Get(s, "read")
           a1 == Taken(a, table)
           what == IF contents = << >> THEN "empty" ELSE IF table /\ ~a1.asText THEN "table" ELSE "text"
<1>1. s1 \in SlotType
  BY GetOK DEF Asks
<1>2. a1 \in ViewType /\ Holds(a1) /\ a1.loaded
  BY TakenOK
<1>3. \A x \in {"too big", "loading", "cannot be shown"} : x \in Screens /\ TableShown(a, x)
  BY DEF Screens, Final, TableShown
<1>4. what \in Screens /\ TableShown(a1, what)
  BY <1>2 DEF Screens, Final, TableShown
<1> HIDE DEF s1, a1, what
<1>5. FrameOK(Presents(a, s, "too big")) /\ FrameOK(Presents(a, s1, "loading"))
      /\ FrameOK(Presents(a, s1, "cannot be shown"))
  BY <1>1, <1>3, PresentsOK
<1>6. FrameOK(Presents(a1, s1, what))
  BY <1>1, <1>2, <1>4, PresentsOK
<1> QED BY <1>5, <1>6 DEF TextView, s1, a1, what

LEMMA MediaViewOK ==
  ASSUME VInv, NEW a \in ViewType, Holds(a), NEW s \in SlotType, doc.name \in {"media", "unknown"}
  PROVE  FrameOK(MediaView(a, s))
<1> DEFINE s1 == Get(s, "copy")
           ac == [a EXCEPT !.converting = TRUE]
<1>1. s1 \in SlotType /\ s1["copy"] # "unasked" /\ s1["copy"] \in {"unasked", "sent", "unfinished", "ready", "failed"}
  BY GetOK DEF Asks, SlotType
<1>2. ac \in ViewType /\ Holds(ac)
  BY DEF ViewType, Holds
<1>3. AskAgain(s1) \in SlotType
  BY <1>1 DEF AskAgain, SlotType
<1>4. \A x \in {"opening", "problem", "converting", "player", "picture"}, b \in {a, ac} : x \in Screens /\ TableShown(b, x)
  BY DEF Screens, Final, TableShown
<1> HIDE DEF s1, ac
<1>5. FrameOK(Presents(a, s1, "opening")) /\ FrameOK(Presents(a, s1, "problem")) /\ FrameOK(Presents(a, s1, "player"))
  BY <1>1, <1>4, PresentsOK
<1>6. FrameOK(Presents(ac, AskAgain(s1), "converting"))
  BY <1>2, <1>3, <1>4, PresentsOK
<1>7. FrameOK(PictureView(a, s1))
  <2>1. Get(s1, "info") \in SlotType
    BY <1>1, GetOK DEF Asks
  <2>2. (IF a.details THEN Get(s1, "info") ELSE s1) \in SlotType
    BY <1>1, <2>1
  <2> QED BY <1>4, <2>2, PresentsOK DEF PictureView
<1>8. FrameOK(TextView(a, s1, FALSE))
  <2>1. FALSE = (doc.name = "table")
    OBVIOUS
  <2> QED BY <1>1, <2>1, TextViewOK
<1>9. doc.really \in {"picture", "animated", "video", "audio", "not media", "broken"}
  BY DocumentIs DEF VInv
<1> QED BY <1>1, <1>5, <1>6, <1>7, <1>8, <1>9 DEF MediaView, s1, ac

LEMMA FileViewOK ==
  ASSUME VInv, NEW a \in ViewType, Holds(a), NEW s \in SlotType
  PROVE  FrameOK(FileView(a, s))
<1> DEFINE s1 == Get(s, "list")
           a1 == [a EXCEPT !.converting = FALSE]
<1>1. s1 \in SlotType
  BY GetOK DEF Asks
<1>2. a1 \in ViewType /\ Holds(a1)
  BY DEF ViewType, Holds
<1>3. \A x \in {"opening", "problem", "document"}, b \in {a, a1} : x \in Screens /\ TableShown(b, x)
  BY DEF Screens, Final, TableShown
<1> HIDE DEF s1, a1
<1>4. FrameOK(Presents(a, s1, "opening")) /\ FrameOK(Presents(a, s1, "problem")) /\ FrameOK(Presents(a1, s1, "document"))
  BY <1>1, <1>2, <1>3, PresentsOK
<1>5. doc.name \in {"media", "unknown"} => FrameOK(MediaView(a1, s1))
  BY <1>1, <1>2, MediaViewOK
<1>6. FrameOK(TextView(a1, s1, doc.name = "table"))
  BY <1>1, <1>2, TextViewOK
<1>7. doc.name \in {"media", "unknown", "pdf", "table", "text"}
  BY DocumentIs DEF VInv
<1> QED BY <1>4, <1>5, <1>6, <1>7 DEF FileView, s1, a1

LEMMA SearchViewOK ==
  ASSUME VInv, NEW a \in ViewType, Holds(a), NEW s \in SlotType
  PROVE  FrameOK(SearchView(a, s))
<1> DEFINE s1 == IF a.query = "short" THEN s ELSE Get(s, "search")
           what == IF a.query = "short" THEN "search"
                     ELSE IF s1["search"] = "ready" THEN "hits"
                     ELSE IF s1["search"] = "failed" THEN "no search" ELSE "searching"
<1>1. s1 \in SlotType
  BY GetOK DEF Asks
<1>2. what \in Screens /\ TableShown(a, what)
  BY DEF Screens, TableShown
<1> HIDE DEF s1, what
<1>3. FrameOK(Presents(a, s1, what))
  BY <1>1, <1>2, PresentsOK
<1> QED BY <1>3 DEF SearchView, s1, what

LEMMA DrawsOK ==
  ASSUME VInv, NEW a \in ViewType, Holds(a), Draws(a), UNCHANGED <<doc, contents>>
  PROVE  VInv'
<1>1. FrameOK(View(a))
  BY FileViewOK, SearchViewOK DEF View, VInv
<1>2. view' = View(a).view /\ slot' = View(a).slot /\ screen' = View(a).screen
  BY DEF Draws
<1>3. view' \in ViewType /\ slot' \in SlotType /\ screen' \in Screens
  BY <1>1, <1>2 DEF FrameOK
<1>4. Holds(view)' /\ TableShown(view, screen)'
  BY <1>1, <1>2 DEF FrameOK, Holds, TableShown
<1> QED BY <1>3, <1>4 DEF VInv

\* For any files and characters: what a Viewer has taken of a table file, on the
\* screen or not, is the rows that were saved in it.
THEOREM ViewerInvariant == VInit /\ [][VNext]_vvars => []VInv
<1>1. VInit => VInv
  <2> SUFFICES ASSUME VInit PROVE VInv
    OBVIOUS
  <2>1. << >> \in Seq(Row)
    OBVIOUS
  <2>2. view \in ViewType /\ ~view.loaded
    BY <2>1 DEF VInit, ViewType
  <2>3. slot \in SlotType
    BY DEF VInit, SlotType
  <2> QED BY <2>2, <2>3 DEF VInit, VInv, Holds, TableShown, Screens
<1>2. VInv /\ [VNext]_vvars => VInv'
  <2> SUFFICES ASSUME VInv, [VNext]_vvars PROVE VInv'
    OBVIOUS
  <2>1. CASE Update
    BY <2>1, DrawsOK DEF Update, VInv
  <2>2. CASE ClickFrame
    <3>1. PICK a \in {[view EXCEPT !.query = "long"], [view EXCEPT !.file = TRUE],
                      [view EXCEPT !.asText = ~@], [view EXCEPT !.details = ~@]} : ClickOn(a) /\ Draws(a)
      BY <2>2 DEF ClickFrame
    <3>2. view \in ViewType /\ Holds(view)
      BY DEF VInv
    <3>3. a \in ViewType /\ a.rows = view.rows /\ a.loaded = view.loaded
      BY <3>1, <3>2 DEF ViewType
    <3>4. Holds(a)
      BY <3>2, <3>3 DEF Holds
    <3> QED BY <2>2, <3>1, <3>3, <3>4, DrawsOK DEF ClickFrame
  <2>3. CASE Timer
    BY <2>3 DEF Timer, VInv, Holds, TableShown
  <2>4. CASE Convert
    BY <2>4 DEF Convert, VInv, Holds, TableShown
  <2>5. ASSUME NEW r \in Asks, NEW answer \in {"failed", "unfinished", "ready"}, Heard(r, answer)
        PROVE  VInv'
    <3>1. slot' \in SlotType
      BY <2>5 DEF Heard, VInv, SlotType
    <3> QED BY <2>5, <3>1 DEF Heard, VInv, Holds, TableShown
  <2>6. ASSUME NEW r \in Asks, Replied(r) \/ Lost(r) PROVE VInv'
    <3>1. PICK answer \in {"failed", "unfinished", "ready"} : Heard(r, answer)
      BY <2>6 DEF Replied, Lost
    <3> QED BY <2>5, <3>1
  <2>7. CASE UNCHANGED vvars
    BY <2>7 DEF vvars, VInv, Holds, TableShown
  <2> QED BY <2>1, <2>2, <2>3, <2>4, <2>6, <2>7 DEF VNext
<1> QED BY <1>1, <1>2, PTL

\* The table that a Viewer shows is the one that was saved, whatever its cells
\* hold and however its lines end.
THEOREM TablesRead == VFairSpec => []RowsAreTheTable
<1>1. VInv => RowsAreTheTable
  BY DEF VInv, Holds, TableShown, RowsAreTheTable, ViewerWellFormed, SlotType, Screens
<1>2. VFairSpec => []VInv
  BY ViewerInvariant, PTL DEF VFairSpec
<1> QED BY <1>1, <1>2, PTL

-----------------------------------------------------------------------------
(* What a pattern fits.                                                    *)

\* The parts of the pattern after the first g stand for the names after the
\* first i: at[k] is how many of the names the first k parts stand for.
FitsAt(glob, s, at, k) ==
    IF glob[k] = Stars THEN at[k - 1] + (IF k = Len(glob) THEN 1 ELSE 0) <= at[k]
                       ELSE at[k] = at[k - 1] + 1 /\ s[at[k]] \in glob[k]

FitBy(glob, s, g, i, at) ==
    /\ at \in [g..Len(glob) -> 0..Len(s)]
    /\ at[g] = i /\ at[Len(glob)] = Len(s)
    /\ \A k \in g + 1..Len(glob) : FitsAt(glob, s, at, k)

FitFrom(glob, s, g, i) == \E at : FitBy(glob, s, g, i, at)

\* How far a fit has come never goes back.
LEMMA FitGrows ==
  ASSUME NEW glob, Len(glob) \in Nat, NEW s, Len(s) \in Nat,
         NEW g \in 0..Len(glob), NEW i \in 0..Len(s), NEW at, FitBy(glob, s, g, i, at),
         NEW k \in g..Len(glob)
  PROVE  i <= at[k]
<1> DEFINE L == Len(glob)
           N == Len(s)
           G == {n \in 0..L - g : i <= at[g + n]}
<1>1. L \in Nat /\ N \in Nat /\ g \in Nat /\ g <= L /\ i \in Nat /\ L - g \in Nat
  OBVIOUS
<1>2. at \in [g..L -> 0..N] /\ at[g] = i
  BY DEF FitBy
<1>3. 0 \in G
  BY <1>1, <1>2
<1>4. ASSUME NEW n \in 0..L - g, n # L - g, n \in G PROVE n + 1 \in G
  <2>1. n + 1 \in 0..L - g /\ g + (n + 1) \in g + 1..L /\ (g + (n + 1)) - 1 = g + n
        /\ g + n \in g..L /\ g + (n + 1) \in g..L
    BY <1>1, <1>4
  <2>2. FitsAt(glob, s, at, g + (n + 1))
    BY <2>1 DEF FitBy
  <2>3. at[g + n] \in 0..N /\ at[g + (n + 1)] \in 0..N
    BY <1>2, <2>1
  <2>4. at[g + n] <= at[g + (n + 1)]
    <3> DEFINE x == at[g + n]
               y == at[g + (n + 1)]
    <3>1. x + (IF g + (n + 1) = L THEN 1 ELSE 0) <= y \/ y = x + 1
      BY <2>1, <2>2 DEF FitsAt
    <3> HIDE DEF x, y
    <3>2. x \in Nat /\ y \in Nat
      BY <1>1, <2>3 DEF x, y
    <3>3. x <= y
      BY <3>1, <3>2
    <3> QED BY <3>3 DEF x, y
  <2>5. i <= at[g + n]
    BY <1>4
  <2>6. i <= at[g + (n + 1)]
    BY <1>1, <2>3, <2>4, <2>5
  <2> QED BY <2>1, <2>6
<1> HIDE DEF G
<1>5. 0..L - g \subseteq G
  BY <1>1, <1>3, <1>4, UpTo
<1>6. k - g \in 0..L - g /\ g + (k - g) = k
  BY <1>1
<1> QED BY <1>5, <1>6 DEF G

\* Where something of the pattern is left, a name is.
LEMMA FitNeeds ==
  ASSUME NEW glob, Len(glob) \in Nat, NEW s, Len(s) \in Nat,
         NEW g \in 0..Len(glob), g # Len(glob), NEW i \in 0..Len(s), FitFrom(glob, s, g, i)
  PROVE  i < Len(s)
<1> DEFINE L == Len(glob)
           N == Len(s)
<1>1. PICK at : FitBy(glob, s, g, i, at)
  BY DEF FitFrom
<1>2. L - 1 \in g..L /\ L \in g + 1..L /\ L \in Nat /\ N \in Nat /\ L \in g..L
  OBVIOUS
<1>3. i <= at[L - 1]
  BY <1>1, <1>2, FitGrows
<1>4. FitsAt(glob, s, at, L) /\ at[L] = N /\ at[L - 1] \in 0..N
  BY <1>1, <1>2 DEF FitBy
<1>5. at[L - 1] + 1 <= N
  <2>1. at[L - 1] + 1 <= at[L] \/ at[L] = at[L - 1] + 1
    BY <1>4 DEF FitsAt
  <2> QED BY <1>2, <1>4, <2>1
<1> QED BY <1>2, <1>3, <1>4, <1>5

LEMMA FitAtEnd ==
  ASSUME NEW glob, Len(glob) \in Nat, NEW s, Len(s) \in Nat, NEW i \in 0..Len(s)
  PROVE  FitFrom(glob, s, Len(glob), i) <=> i = Len(s)
<1> DEFINE L == Len(glob)
           N == Len(s)
<1>1. ASSUME i = N PROVE FitFrom(glob, s, L, i)
  <2> DEFINE at == [k \in L..L |-> i]
  <2>1. L..L = {L} /\ L + 1..L = {}
    OBVIOUS
  <2>2. at \in [L..L -> 0..N] /\ at[L] = i
    BY <2>1
  <2>3. FitBy(glob, s, L, i, at)
    BY <1>1, <2>1, <2>2 DEF FitBy
  <2> QED BY <2>3 DEF FitFrom
<1> QED BY <1>1 DEF FitFrom, FitBy

\* A fit of what is left after one more part, for which another part is put.
LEMMA FitMore ==
  ASSUME NEW glob, Len(glob) \in Nat, NEW s, Len(s) \in Nat,
         NEW g \in 0..Len(glob), g # Len(glob), NEW i \in 0..Len(s), NEW j \in 0..Len(s),
         NEW at, FitBy(glob, s, g + 1, j, at),
         FitsAt(glob, s, [k \in g..Len(glob) |-> IF k = g THEN i ELSE at[k]], g + 1)
  PROVE  FitFrom(glob, s, g, i)
<1> DEFINE L == Len(glob)
           N == Len(s)
           b == [k \in g..L |-> IF k = g THEN i ELSE at[k]]
<1>1. L \in Nat /\ g \in g..L /\ L \in g..L /\ L # g
  OBVIOUS
<1>2. \A k \in g..L : k # g => k \in g + 1..L
  OBVIOUS
<1>3. at \in [g + 1..L -> 0..N] /\ at[L] = N
  BY DEF FitBy
<1>4. b \in [g..L -> 0..N] /\ b[g] = i /\ b[L] = N
  BY <1>1, <1>2, <1>3
<1>5. ASSUME NEW k \in g + 1..L PROVE FitsAt(glob, s, b, k)
  <2>1. CASE k = g + 1
    BY <2>1
  <2>2. CASE k # g + 1
    <3>1. k \in (g + 1) + 1..L /\ k \in g..L /\ k - 1 \in g..L /\ k # g /\ k - 1 # g
      BY <2>2
    <3>2. FitsAt(glob, s, at, k)
      BY <3>1 DEF FitBy
    <3>3. b[k] = at[k] /\ b[k - 1] = at[k - 1]
      BY <3>1
    <3> QED BY <3>2, <3>3 DEF FitsAt
  <2> QED BY <2>1, <2>2
<1> HIDE DEF b
<1>6. FitBy(glob, s, g, i, b)
  BY <1>4, <1>5 DEF FitBy
<1> QED BY <1>6 DEF FitFrom

\* What is left of a fit after one part.
LEMMA FitLess ==
  ASSUME NEW glob, Len(glob) \in Nat, NEW s, Len(s) \in Nat,
         NEW g \in 0..Len(glob), g # Len(glob), NEW i \in 0..Len(s), NEW at, FitBy(glob, s, g, i, at)
  PROVE  /\ at[g + 1] \in 0..Len(s) /\ at[g] = i /\ FitsAt(glob, s, at, g + 1)
         /\ FitFrom(glob, s, g + 1, at[g + 1])
<1> DEFINE L == Len(glob)
           N == Len(s)
           b == [k \in g + 1..L |-> at[k]]
<1>1. L \in Nat /\ g + 1 \in g + 1..L /\ g + 1 \in g..L /\ L \in g + 1..L
  OBVIOUS
<1>2. \A k \in g + 1..L : k \in g..L
  OBVIOUS
<1>3. at \in [g..L -> 0..N] /\ at[L] = N /\ at[g] = i /\ \A k \in g + 1..L : FitsAt(glob, s, at, k)
  BY DEF FitBy
<1>4. b \in [g + 1..L -> 0..N] /\ b[g + 1] = at[g + 1] /\ b[L] = N
  BY <1>1, <1>2, <1>3
<1>5. ASSUME NEW k \in (g + 1) + 1..L PROVE FitsAt(glob, s, b, k)
  <2>1. k \in g + 1..L /\ k - 1 \in g + 1..L
    BY <1>1
  <2>2. b[k] = at[k] /\ b[k - 1] = at[k - 1]
    BY <2>1
  <2> QED BY <1>3, <2>1, <2>2 DEF FitsAt
<1> HIDE DEF b
<1>6. FitBy(glob, s, g + 1, at[g + 1], b)
  BY <1>4, <1>5 DEF FitBy
<1> QED BY <1>1, <1>3, <1>6 DEF FitFrom

\* The cases of the matcher are those of a fit.
FitStep(glob, s, from, g, i) ==
    IF g = Len(glob) THEN i = Len(s)
    ELSE IF glob[g + 1] # Stars
         THEN i < Len(s) /\ s[i + 1] \in glob[g + 1] /\ from[<<g + 1, i + 1>>]
    ELSE IF g + 1 = Len(glob) THEN i < Len(s)
    ELSE from[<<g + 1, i>>] \/ (i + 1 < Len(s) /\ from[<<g, i + 1>>])

Spots(glob, s) == (0..Len(glob)) \X (0..Len(s))

LEMMA FitOne ==
  ASSUME NEW glob, Len(glob) \in Nat, NEW s, Len(s) \in Nat,
         NEW g \in 0..Len(glob), g # Len(glob), NEW i \in 0..Len(s), glob[g + 1] # Stars
  PROVE  FitFrom(glob, s, g, i) <=> i < Len(s) /\ s[i + 1] \in glob[g + 1] /\ FitFrom(glob, s, g + 1, i + 1)
<1> DEFINE L == Len(glob)
           N == Len(s)
<1>1. ASSUME FitFrom(glob, s, g, i)
      PROVE  i < N /\ s[i + 1] \in glob[g + 1] /\ FitFrom(glob, s, g + 1, i + 1)
  <2>1. PICK at : FitBy(glob, s, g, i, at)
    BY <1>1 DEF FitFrom
  <2>2. /\ at[g + 1] \in 0..N /\ at[g] = i /\ FitsAt(glob, s, at, g + 1)
        /\ FitFrom(glob, s, g + 1, at[g + 1])
    BY <2>1, FitLess
  <2>3. (g + 1) - 1 = g
    OBVIOUS
  <2>4. at[g + 1] = i + 1 /\ s[at[g + 1]] \in glob[g + 1]
    BY <2>2, <2>3 DEF FitsAt
  <2>5. i < N
    BY <2>2, <2>4
  <2> QED BY <2>2, <2>4, <2>5
<1>2. ASSUME i < N, s[i + 1] \in glob[g + 1], FitFrom(glob, s, g + 1, i + 1)
      PROVE  FitFrom(glob, s, g, i)
  <2>1. PICK at : FitBy(glob, s, g + 1, i + 1, at)
    BY <1>2 DEF FitFrom
  <2> DEFINE b == [k \in g..L |-> IF k = g THEN i ELSE at[k]]
  <2>2. g + 1 \in g..L /\ g \in g..L /\ (g + 1) - 1 = g /\ g + 1 # g /\ i + 1 \in 0..N
    BY <1>2
  <2>3. b[g + 1] = i + 1 /\ b[g] = i
    BY <2>1, <2>2 DEF FitBy
  <2>4. FitsAt(glob, s, b, g + 1)
    BY <1>2, <2>2, <2>3 DEF FitsAt
  <2> QED BY <2>1, <2>2, <2>4, FitMore
<1> QED BY <1>1, <1>2

LEMMA FitRest ==
  ASSUME NEW glob, Len(glob) \in Nat, NEW s, Len(s) \in Nat,
         NEW g \in 0..Len(glob), g + 1 = Len(glob), NEW i \in 0..Len(s), glob[g + 1] = Stars
  PROVE  FitFrom(glob, s, g, i) <=> i < Len(s)
<1> DEFINE L == Len(glob)
           N == Len(s)
<1>1. FitFrom(glob, s, g, i) => i < N
  BY FitNeeds
<1>2. ASSUME i < N PROVE FitFrom(glob, s, g, i)
  <2>1. FitFrom(glob, s, g + 1, N)
    BY FitAtEnd
  <2>2. PICK at : FitBy(glob, s, g + 1, N, at)
    BY <2>1 DEF FitFrom
  <2> DEFINE b == [k \in g..L |-> IF k = g THEN i ELSE at[k]]
  <2>3. g + 1 \in g..L /\ g \in g..L /\ (g + 1) - 1 = g /\ g + 1 # g /\ N \in 0..N /\ i + 1 <= N
    BY <1>2
  <2>4. b[g + 1] = N /\ b[g] = i
    BY <2>2, <2>3 DEF FitBy
  <2>5. FitsAt(glob, s, b, g + 1)
    BY <2>3, <2>4 DEF FitsAt
  <2> QED BY <2>2, <2>3, <2>5, FitMore
<1> QED BY <1>1, <1>2

LEMMA FitDirs ==
  ASSUME NEW glob, Len(glob) \in Nat, NEW s, Len(s) \in Nat,
         NEW g \in 0..Len(glob), g # Len(glob), g + 1 # Len(glob), NEW i \in 0..Len(s),
         glob[g + 1] = Stars
  PROVE  FitFrom(glob, s, g, i)
         <=> FitFrom(glob, s, g + 1, i) \/ (i + 1 < Len(s) /\ FitFrom(glob, s, g, i + 1))
<1> DEFINE L == Len(glob)
           N == Len(s)
<1>0. g + 1 \in 0..L /\ (g + 1) - 1 = g /\ g + 1 \in g..L /\ g \in g..L /\ g + 1 # g
  OBVIOUS
<1>1. ASSUME FitFrom(glob, s, g, i), ~FitFrom(glob, s, g + 1, i)
      PROVE  i + 1 < N /\ FitFrom(glob, s, g, i + 1)
  <2>1. PICK at : FitBy(glob, s, g, i, at)
    BY <1>1 DEF FitFrom
  <2>2. /\ at[g + 1] \in 0..N /\ at[g] = i /\ FitsAt(glob, s, at, g + 1)
        /\ FitFrom(glob, s, g + 1, at[g + 1])
    BY <2>1, FitLess
  <2> DEFINE j == at[g + 1]
  <2>3. j \in 0..N /\ i <= j /\ i # j
    BY <1>0, <1>1, <2>2 DEF FitsAt
  <2>4. FitFrom(glob, s, g + 1, j)
    BY <2>2
  <2> HIDE DEF j
  <2>5. j < N
    BY <1>0, <2>3, <2>4, FitNeeds
  <2>6. i + 1 < N /\ i + 1 \in 0..N /\ i + 1 <= j
    BY <2>3, <2>5
  <2>7. PICK c : FitBy(glob, s, g + 1, j, c)
    BY <2>4 DEF FitFrom
  <2> DEFINE b == [k \in g..L |-> IF k = g THEN i + 1 ELSE c[k]]
  <2>8. b[g + 1] = j /\ b[g] = i + 1
    BY <1>0, <2>7 DEF FitBy
  <2>9. FitsAt(glob, s, b, g + 1)
    BY <1>0, <2>6, <2>8 DEF FitsAt
  <2>10. FitFrom(glob, s, g, i + 1)
    BY <2>3, <2>6, <2>7, <2>9, FitMore
  <2> QED BY <2>6, <2>10
<1>2. ASSUME FitFrom(glob, s, g + 1, i) PROVE FitFrom(glob, s, g, i)
  <2>1. PICK at : FitBy(glob, s, g + 1, i, at)
    BY <1>2 DEF FitFrom
  <2> DEFINE b == [k \in g..L |-> IF k = g THEN i ELSE at[k]]
  <2>2. b[g + 1] = i /\ b[g] = i
    BY <1>0, <2>1 DEF FitBy
  <2>3. FitsAt(glob, s, b, g + 1)
    BY <1>0, <2>2 DEF FitsAt
  <2> QED BY <2>1, <2>3, FitMore
<1>3. ASSUME i + 1 < N, FitFrom(glob, s, g, i + 1) PROVE FitFrom(glob, s, g, i)
  <2>0. i + 1 \in 0..N
    BY <1>3
  <2>1. PICK at : FitBy(glob, s, g, i + 1, at)
    BY <1>3 DEF FitFrom
  <2>2. /\ at[g + 1] \in 0..N /\ at[g] = i + 1 /\ FitsAt(glob, s, at, g + 1)
        /\ FitFrom(glob, s, g + 1, at[g + 1])
    BY <2>0, <2>1, FitLess
  <2> DEFINE j == at[g + 1]
  <2>3. j \in 0..N /\ i + 1 <= j
    BY <1>0, <2>2 DEF FitsAt
  <2>4. PICK c : FitBy(glob, s, g + 1, j, c)
    BY <2>2 DEF FitFrom
  <2> HIDE DEF j
  <2> DEFINE b == [k \in g..L |-> IF k = g THEN i ELSE c[k]]
  <2>5. b[g + 1] = j /\ b[g] = i
    BY <1>0, <2>4 DEF FitBy
  <2>6. FitsAt(glob, s, b, g + 1)
    BY <1>0, <2>3, <2>5 DEF FitsAt
  <2> QED BY <2>3, <2>4, <2>6, FitMore
<1> QED BY <1>1, <1>2, <1>3

\* Whether there is a fit answers the matcher's recursion,
LEMMA FitAnswers ==
  ASSUME NEW glob, Len(glob) \in Nat, NEW s, Len(s) \in Nat, NEW g \in 0..Len(glob), NEW i \in 0..Len(s),
         NEW from, \A h \in 0..Len(glob), j \in 0..Len(s) :
                     h >= g /\ j >= i /\ (h # g \/ j # i) => from[<<h, j>>] = FitFrom(glob, s, h, j)
  PROVE  FitStep(glob, s, from, g, i) = FitFrom(glob, s, g, i)
<1> DEFINE L == Len(glob)
           N == Len(s)
<1>1. L \in Nat /\ N \in Nat /\ g \in Nat /\ i \in Nat /\ g <= L /\ i <= N
  OBVIOUS
<1>2. CASE g = L
  <2>1. FitFrom(glob, s, g, i) <=> i = N
    BY <1>2, FitAtEnd
  <2> QED BY <1>2, <2>1 DEF FitStep, FitFrom
<1>3. CASE g # L /\ glob[g + 1] # Stars
  <2>1. FitFrom(glob, s, g, i) <=> i < N /\ s[i + 1] \in glob[g + 1] /\ FitFrom(glob, s, g + 1, i + 1)
    BY <1>3, FitOne
  <2>2. i < N => from[<<g + 1, i + 1>>] = FitFrom(glob, s, g + 1, i + 1)
    <3>1. SUFFICES ASSUME i < N PROVE from[<<g + 1, i + 1>>] = FitFrom(glob, s, g + 1, i + 1)
      OBVIOUS
    <3>2. g + 1 \in 0..L /\ i + 1 \in 0..N /\ g + 1 # g /\ g + 1 >= g /\ i + 1 >= i
      BY <1>1, <1>3, <3>1
    <3> QED BY <3>2
  <2>3. FitStep(glob, s, from, g, i) = (i < N /\ s[i + 1] \in glob[g + 1] /\ from[<<g + 1, i + 1>>])
    BY <1>3 DEF FitStep
  <2>4. FitFrom(glob, s, g, i) \in BOOLEAN
    BY DEF FitFrom
  <2> QED BY <2>1, <2>2, <2>3, <2>4
<1>4. CASE g + 1 = L /\ glob[g + 1] = Stars
  <2>1. FitFrom(glob, s, g, i) <=> i < N
    BY <1>4, FitRest
  <2>2. FitStep(glob, s, from, g, i) = (i < N)
    BY <1>1, <1>4 DEF FitStep
  <2>3. FitFrom(glob, s, g, i) \in BOOLEAN
    BY DEF FitFrom
  <2> QED BY <2>1, <2>2, <2>3
<1>5. CASE g # L /\ g + 1 # L /\ glob[g + 1] = Stars
  <2>1. FitFrom(glob, s, g, i)
         <=> FitFrom(glob, s, g + 1, i) \/ (i + 1 < N /\ FitFrom(glob, s, g, i + 1))
    BY <1>5, FitDirs
  <2>2. from[<<g + 1, i>>] = FitFrom(glob, s, g + 1, i)
    <3>1. g + 1 \in 0..L /\ g + 1 # g /\ g + 1 >= g /\ i >= i
      BY <1>1, <1>5
    <3> QED BY <3>1
  <2>3. i + 1 < N => from[<<g, i + 1>>] = FitFrom(glob, s, g, i + 1)
    <3>1. SUFFICES ASSUME i + 1 < N PROVE from[<<g, i + 1>>] = FitFrom(glob, s, g, i + 1)
      OBVIOUS
    <3>2. i + 1 \in 0..N /\ i + 1 # i /\ i + 1 >= i /\ g >= g
      BY <1>1, <3>1
    <3> QED BY <3>2
  <2>4. FitStep(glob, s, from, g, i) = (from[<<g + 1, i>>] \/ (i + 1 < N /\ from[<<g, i + 1>>]))
    BY <1>5 DEF FitStep
  <2>5. FitFrom(glob, s, g, i) \in BOOLEAN /\ FitFrom(glob, s, g + 1, i) \in BOOLEAN
    BY DEF FitFrom
  <2> QED BY <2>1, <2>2, <2>3, <2>4, <2>5
<1> QED BY <1>1, <1>2, <1>3, <1>4, <1>5

\* and is the only answer there is.
LEMMA MatchesIs ==
  ASSUME NEW glob, Len(glob) \in Nat, NEW s, Len(s) \in Nat
  PROVE  Matches(glob, s) <=> FitFrom(glob, s, 0, 0)
<1> DEFINE L == Len(glob)
           N == Len(s)
           D == Spots(glob, s)
           Eq(f) == f = [p \in D |-> FitStep(glob, s, f, p[1], p[2])]
           fit == [p \in D |-> FitFrom(glob, s, p[1], p[2])]
           from == CHOOSE f : Eq(f)
<1>1. L \in Nat /\ N \in Nat /\ D = (0..L) \X (0..N)
  BY DEF Spots
<1>2. \A h \in 0..L, j \in 0..N : <<h, j>> \in D /\ <<h, j>>[1] = h /\ <<h, j>>[2] = j
  BY <1>1
<1>3. \A h \in 0..L, j \in 0..N : fit[<<h, j>>] = FitFrom(glob, s, h, j)
  BY <1>2
<1>4. \A p \in D : p[1] \in 0..L /\ p[2] \in 0..N /\ p = <<p[1], p[2]>>
  BY <1>1
<1> HIDE DEF fit, D
<1>5. Eq(fit)
  <2>1. ASSUME NEW p \in D PROVE FitStep(glob, s, fit, p[1], p[2]) = FitFrom(glob, s, p[1], p[2])
    <3> DEFINE g == p[1]
               i == p[2]
    <3>1. g \in 0..L /\ i \in 0..N
      BY <1>4
    <3> HIDE DEF g, i
    <3>2. FitStep(glob, s, fit, g, i) = FitFrom(glob, s, g, i)
      BY <1>3, <3>1, FitAnswers
    <3> QED BY <3>2 DEF g, i
  <2>2. fit = [p \in D |-> FitFrom(glob, s, p[1], p[2])]
    BY DEF fit
  <2> QED BY <2>1, <2>2
<1>6. Eq(from)
  BY <1>5
<1>7. Matches(glob, s) = from[<<0, 0>>]
  BY DEF Matches, FitStep, D, Spots
<1> HIDE DEF from
<1>8. \A h \in 0..L, j \in 0..N : from[<<h, j>>] = FitStep(glob, s, from, h, j)
  <2> TAKE h \in 0..L, j \in 0..N
  <2> DEFINE p == <<h, j>>
  <2>1. p \in D /\ p[1] = h /\ p[2] = j
    BY <1>2
  <2> HIDE DEF p
  <2>2. from[p] = FitStep(glob, s, from, p[1], p[2])
    BY <1>6, <2>1
  <2> QED BY <2>1, <2>2 DEF p
<1> HIDE DEF Eq
<1> DEFINE Left(h, j) == (L - h) + (N - j)
           G == {n \in 0..L + N : \A h \in 0..L, j \in 0..N :
                                    Left(h, j) <= n => from[<<h, j>>] = FitFrom(glob, s, h, j)}
<1>9. ASSUME NEW h \in 0..L, NEW j \in 0..N,
             \A h2 \in 0..L, j2 \in 0..N :
               h2 >= h /\ j2 >= j /\ (h2 # h \/ j2 # j) => from[<<h2, j2>>] = FitFrom(glob, s, h2, j2)
      PROVE  from[<<h, j>>] = FitFrom(glob, s, h, j)
  <2>1. FitStep(glob, s, from, h, j) = FitFrom(glob, s, h, j)
    BY <1>9, FitAnswers
  <2> QED BY <1>8, <2>1
<1>10. 0 \in G
  <2>1. ASSUME NEW h \in 0..L, NEW j \in 0..N, Left(h, j) <= 0
        PROVE  from[<<h, j>>] = FitFrom(glob, s, h, j)
    <3>1. h = L /\ j = N
      BY <1>1, <2>1
    <3>2. \A h2 \in 0..L, j2 \in 0..N : ~(h2 >= h /\ j2 >= j /\ (h2 # h \/ j2 # j))
      BY <1>1, <3>1
    <3> QED BY <1>9, <3>2
  <2> QED BY <1>1, <2>1
<1>11. ASSUME NEW n \in 0..L + N, n # L + N, n \in G PROVE n + 1 \in G
  <2>1. ASSUME NEW h \in 0..L, NEW j \in 0..N, Left(h, j) <= n + 1
        PROVE  from[<<h, j>>] = FitFrom(glob, s, h, j)
    <3>1. ASSUME NEW h2 \in 0..L, NEW j2 \in 0..N, h2 >= h, j2 >= j, h2 # h \/ j2 # j
          PROVE  from[<<h2, j2>>] = FitFrom(glob, s, h2, j2)
      <4>1. Left(h2, j2) <= n
        BY <1>1, <2>1, <3>1
      <4> QED BY <1>11, <4>1
    <3> QED BY <1>9, <3>1
  <2>2. n + 1 \in 0..L + N
    BY <1>1, <1>11
  <2> QED BY <2>1, <2>2
<1>12. L + N \in Nat /\ L + N \in 0..L + N /\ Left(0, 0) <= L + N /\ 0 \in 0..L /\ 0 \in 0..N
  BY <1>1
<1> HIDE DEF G
<1>13. 0..L + N \subseteq G
  BY <1>10, <1>11, <1>12, UpTo
<1>14. from[<<0, 0>>] = FitFrom(glob, s, 0, 0)
  BY <1>12, <1>13 DEF G
<1> QED BY <1>7, <1>14

-----------------------------------------------------------------------------
(* What one rule says.                                                     *)

\* The pattern of a line as it is looked for below the line's own folder.
Whole(line) == IF line.lead \/ Len(line.pattern) > 1 THEN line.pattern ELSE <<Stars>> \o line.pattern

LEMMA FitsIs ==
  ASSUME NEW line, NEW s
  PROVE  Fits(line, s) <=> FitFrom(Whole(line), s, 0, 0)
<1> DEFINE w == Whole(line)
<1>1. 0 + 1 = 1
  OBVIOUS
<1>2. Fits(line, s) <=> \E at \in [0..Len(w) -> 0..Len(s)] :
                          /\ at[0] = 0 /\ at[Len(w)] = Len(s)
                          /\ \A k \in 1..Len(w) : FitsAt(w, s, at, k)
  BY DEF Fits, Whole, FitsAt
<1> HIDE DEF w
<1>3. FitFrom(w, s, 0, 0) <=> \E at \in [0..Len(w) -> 0..Len(s)] :
                          /\ at[0] = 0 /\ at[Len(w)] = Len(s)
                          /\ \A k \in 1..Len(w) : FitsAt(w, s, at, k)
  BY <1>1 DEF FitFrom, FitBy
<1> QED BY <1>2, <1>3 DEF w

Parts == (SUBSET Names) \cup {Stars}

\* A pattern without a slash fits where it fits the last name.
LEMMA LoneFits ==
  ASSUME NEW P \in Parts, NEW s \in Seq(Names), s # << >>,
         NEW w, Len(w) = 2, w[1] = Stars, w[2] = P
  PROVE  FitFrom(w, s, 0, 0) <=> FitFrom(<<P>>, <<Last(s)>>, 0, 0)
<1> DEFINE v == <<P>>
           t == <<Last(s)>>
           N == Len(s)
           Ends == P # Stars => s[N] \in P
<1>1. /\ Len(w) = 2 /\ w[1] = Stars /\ w[2] = P /\ Len(v) = 1 /\ v[1] = P
      /\ Len(t) = 1 /\ t[1] = s[N] /\ N \in Nat \ {0}
  BY EmptySeq DEF Last
<1> HIDE DEF v, t, N
<1>2. ASSUME FitFrom(w, s, 0, 0) PROVE Ends
  <2>1. PICK at : FitBy(w, s, 0, 0, at)
    BY <1>2 DEF FitFrom
  <2>2. 2 \in 0 + 1..2 /\ 2 - 1 = 1
    OBVIOUS
  <2>3. FitsAt(w, s, at, 2) /\ at[2] = N
    BY <1>1, <2>1, <2>2 DEF FitBy, N
  <2> QED BY <1>1, <2>3 DEF FitsAt
<1>3. ASSUME Ends PROVE FitFrom(w, s, 0, 0)
  <2> DEFINE at == [k \in 0..2 |-> IF k = 0 THEN 0 ELSE IF k = 1 THEN N - 1 ELSE N]
  <2>1. at \in [0..2 -> 0..N] /\ at[0] = 0 /\ at[1] = N - 1 /\ at[2] = N
    BY <1>1
  <2> HIDE DEF at
  <2>2. FitsAt(w, s, at, 1)
    BY <1>1, <2>1 DEF FitsAt
  <2>3. FitsAt(w, s, at, 2)
    <3>1. CASE P = Stars
      BY <1>1, <2>1, <3>1 DEF FitsAt
    <3>2. CASE P # Stars
      BY <1>1, <1>3, <2>1, <3>2 DEF FitsAt
    <3> QED BY <3>1, <3>2
  <2>4. \A k \in 0 + 1..2 : k = 1 \/ k = 2
    OBVIOUS
  <2>5. FitBy(w, s, 0, 0, at)
    BY <1>1, <2>1, <2>2, <2>3, <2>4 DEF FitBy, N
  <2> QED BY <2>5 DEF FitFrom
<1>4. ASSUME FitFrom(v, t, 0, 0) PROVE Ends
  <2>1. PICK at : FitBy(v, t, 0, 0, at)
    BY <1>4 DEF FitFrom
  <2>2. 1 \in 0 + 1..1
    OBVIOUS
  <2>3. FitsAt(v, t, at, 1) /\ at[1] = 1
    BY <1>1, <2>1, <2>2 DEF FitBy
  <2> QED BY <1>1, <2>3 DEF FitsAt
<1>5. ASSUME Ends PROVE FitFrom(v, t, 0, 0)
  <2> DEFINE at == [k \in 0..1 |-> k]
  <2>1. at \in [0..1 -> 0..1] /\ at[0] = 0 /\ at[1] = 1
    OBVIOUS
  <2> HIDE DEF at
  <2>2. FitsAt(v, t, at, 1)
    BY <1>1, <1>5, <2>1 DEF FitsAt
  <2>3. \A k \in 0 + 1..1 : k = 1
    OBVIOUS
  <2>4. FitBy(v, t, 0, 0, at)
    BY <1>1, <2>1, <2>2, <2>3 DEF FitBy
  <2> QED BY <2>4 DEF FitFrom
<1> QED BY <1>2, <1>3, <1>4, <1>5 DEF v, t

\* A rule applies to what is in its folder and what its line speaks of.
LEMMA AppliesIs ==
  ASSUME NEW line \in Lines, NEW dir \in Seq(Names), NEW path \in Seq(Names), NEW isDir \in BOOLEAN
  PROVE  Applies(Parse(dir, line), path, isDir)
         <=> Inside(path, dir) /\ LineSays(line, dir, path, isDir)
<1> DEFINE rel == SubSeq(path, Len(dir) + 1, Len(path))
           anchored == line.lead \/ Len(line.pattern) > 1
           names == IF anchored THEN rel ELSE <<Last(path)>>
<1>1. line.pattern \in Seq(Parts) /\ line.pattern # << >>
  BY ProjectAssumption DEF Lines, Parts
<1>2. Applies(Parse(dir, line), path, isDir)
      <=> (line.dirOnly => isDir) /\ Inside(path, dir) /\ Matches(line.pattern, names)
  BY DEF Applies, Parse
<1>3. LineSays(line, dir, path, isDir) <=> (line.dirOnly => isDir) /\ Fits(line, rel)
  BY DEF LineSays
<1>4. ASSUME Inside(path, dir) PROVE Matches(line.pattern, names) <=> Fits(line, rel)
  <2>1. Len(dir) \in Nat /\ Len(path) \in Nat /\ Len(dir) + 1 <= Len(path)
    BY <1>4 DEF Inside
  <2>2. rel \in Seq(Names) /\ Len(rel) = Len(path) - Len(dir) /\ Len(rel) # 0
        /\ rel[Len(path) - Len(dir)] = path[Len(path)]
    <3>1. /\ rel \in Seq(Names)
          /\ Len(rel) = Len(path) - (Len(dir) + 1) + 1
          /\ \A i \in 1..Len(path) - (Len(dir) + 1) + 1 : rel[i] = path[Len(dir) + 1 + i - 1]
      <4> DEFINE m == Len(dir) + 1
                 n == Len(path)
      <4>1. m \in 1..n + 1 /\ n \in m - 1..n
        BY <2>1
      <4> HIDE DEF m, n
      <4>2. SubSeq(path, m, n) \in Seq(Names)
            /\ Len(SubSeq(path, m, n)) = n - m + 1
            /\ \A i \in 1..n - m + 1 : SubSeq(path, m, n)[i] = path[m + i - 1]
        BY <4>1, SubSeqProperties DEF n
      <4> QED BY <4>2 DEF m, n
    <3>2. Len(path) - (Len(dir) + 1) + 1 = Len(path) - Len(dir) /\ Len(path) - Len(dir) # 0
          /\ Len(path) - Len(dir) \in 1..Len(path) - (Len(dir) + 1) + 1
          /\ Len(dir) + 1 + (Len(path) - Len(dir)) - 1 = Len(path)
      BY <2>1
    <3> QED BY <3>1, <3>2
  <2>3. rel # << >> /\ Last(rel) = Last(path)
    <3> HIDE DEF rel
    <3>1. Last(rel) = rel[Len(rel)] /\ Last(path) = path[Len(path)]
      BY DEF Last
    <3>2. Last(rel) = Last(path)
      BY <2>2, <3>1, Zenon
    <3> QED BY <2>2, <3>2, EmptySeq
  <2> HIDE DEF rel
  <2>4. CASE anchored
    <3>1. Whole(line) = line.pattern
      BY <2>4 DEF Whole
    <3>2. Len(line.pattern) \in Nat /\ Len(rel) \in Nat
      BY <1>1, <2>2
    <3> QED BY <2>4, <3>1, <3>2, MatchesIs, FitsIs
  <2>5. CASE ~anchored
    <3>1. Len(line.pattern) = 1 /\ line.pattern = <<line.pattern[1]>> /\ line.pattern[1] \in Parts
      <4>1. Len(line.pattern) = 1
        <5>1. Len(line.pattern) \in Nat /\ Len(line.pattern) # 0
          BY <1>1, EmptySeq
        <5>2. ~(Len(line.pattern) > 1)
          BY <2>5
        <5> DEFINE n == Len(line.pattern)
        <5> HIDE DEF n
        <5>3. n \in Nat /\ n # 0 /\ ~(n > 1) => n = 1
          OBVIOUS
        <5> QED BY <5>1, <5>2, <5>3 DEF n
      <4> QED BY <1>1, <4>1
    <3> DEFINE P == line.pattern[1]
    <3>2. Whole(line) = <<Stars>> \o <<P>>
      BY <2>5, <3>1 DEF Whole
    <3> DEFINE w == Whole(line)
    <3>3. Len(w) = 2 /\ w[1] = Stars /\ w[2] = P
      BY <3>2
    <3>4. Fits(line, rel) <=> FitFrom(w, rel, 0, 0)
      BY FitsIs
    <3> HIDE DEF w, P
    <3>5. FitFrom(w, rel, 0, 0) <=> FitFrom(<<P>>, <<Last(rel)>>, 0, 0)
      BY <2>2, <2>3, <3>1, <3>3, LoneFits DEF P
    <3>6. Len(<<P>>) \in Nat /\ Len(<<Last(rel)>>) \in Nat
      OBVIOUS
    <3>7. Matches(<<P>>, <<Last(rel)>>) <=> FitFrom(<<P>>, <<Last(rel)>>, 0, 0)
      BY <3>6, MatchesIs
    <3>8. names = <<Last(rel)>>
      BY <2>3, <2>5
    <3> QED BY <3>1, <3>4, <3>5, <3>7, <3>8 DEF P
  <2> QED BY <2>4, <2>5
<1> QED BY <1>2, <1>3, <1>4

-----------------------------------------------------------------------------
(* What the rules decide together.                                         *)

\* The last rule that applies decides.
LEMMA LastDecides ==
  ASSUME NEW rules, Len(rules) \in Nat, NEW path, NEW isDir
  PROVE  \/ /\ ~Decide(rules, path, isDir)
            /\ \A m \in 1..Len(rules) : ~Applies(rules[m], path, isDir)
         \/ \E m \in 1..Len(rules) :
              /\ Applies(rules[m], path, isDir)
              /\ \A o \in 1..Len(rules) : o > m => ~Applies(rules[o], path, isDir)
              /\ Decide(rules, path, isDir) <=> ~rules[m].negate
<1> DEFINE N == Len(rules)
           One(n, was) == IF Applies(rules[n], path, isDir) THEN ~rules[n].negate ELSE was
           S == {FALSE} \cup {~rules[n].negate : n \in 1..N}
           g == [n \in 1..N |-> [was \in S |-> One(n, was)]]
           b == FALSE
<1>1. b \in S /\ \A n \in 1..N, was \in S : One(n, was) \in S
  OBVIOUS
<1>2. g \in [1..N -> [S -> S]] /\ \A n \in 1..N, was \in S : g[n][was] = One(n, was)
  BY <1>1
<1> HIDE DEF g, S, One, b
<1>3. PICK f : IsRun(f, N, S, b, g)
  BY <1>1, <1>2, RunIs
<1>4. f \in [0..N -> S] /\ f[0] = b /\ \A n \in 0..N : n # 0 => f[n - 1] \in S /\ n \in 1..N
  BY <1>3 DEF IsRun
<1>5. f = [n \in 0..N |-> IF n = 0 THEN b ELSE One(n, f[n - 1])]
  <2>1. f = [n \in 0..N |-> f[n]]
    BY <1>4
  <2>2. \A n \in 0..N : f[n] = IF n = 0 THEN b ELSE One(n, f[n - 1])
    BY <1>2, <1>3, <1>4 DEF IsRun
  <2> QED BY <2>1, <2>2
<1> DEFINE run == CHOOSE h : h = [n \in 0..N |-> IF n = 0 THEN b ELSE One(n, h[n - 1])]
<1>6. run = [n \in 0..N |-> IF n = 0 THEN b ELSE One(n, run[n - 1])]
  BY <1>5
<1>7. Decide(rules, path, isDir) = run[N]
  BY DEF Decide, One, b
<1> HIDE DEF run
<1> DEFINE Last1(n) ==
             \/ /\ ~run[n]
                /\ \A m \in 1..n : ~Applies(rules[m], path, isDir)
             \/ \E m \in 1..n :
                  /\ Applies(rules[m], path, isDir)
                  /\ \A o \in 1..n : o > m => ~Applies(rules[o], path, isDir)
                  /\ run[n] <=> ~rules[m].negate
           G == {n \in 0..N : Last1(n)}
<1>8. 0 \in G
  BY <1>6 DEF b
<1>9. ASSUME NEW n \in 0..N, n # N, n \in G PROVE n + 1 \in G
  <2>1. n + 1 \in 1..N /\ n + 1 \in 0..N /\ n + 1 # 0 /\ (n + 1) - 1 = n
        /\ n + 1 \in 1..n + 1
        /\ (\A m \in 1..n + 1 : m = n + 1 \/ m \in 1..n)
        /\ (\A m \in 1..n : m \in 1..n + 1)
        /\ (\A m \in 1..n + 1 : ~(m > n + 1))
    BY <1>9
  <2>2. run[n + 1] = IF Applies(rules[n + 1], path, isDir) THEN ~rules[n + 1].negate ELSE run[n]
    BY <1>6, <2>1 DEF One
  <2>3. CASE Applies(rules[n + 1], path, isDir)
    <3>1. \A o \in 1..n + 1 : o > n + 1 => ~Applies(rules[o], path, isDir)
      BY <2>1
    <3>2. run[n + 1] <=> ~rules[n + 1].negate
      BY <2>2, <2>3
    <3>3. Last1(n + 1)
      BY <2>1, <2>3, <3>1, <3>2
    <3> QED BY <2>1, <3>3
  <2>4. CASE ~Applies(rules[n + 1], path, isDir)
    <3>1. run[n + 1] = run[n]
      BY <2>2, <2>4
    <3>2. Last1(n)
      BY <1>9
    <3>3. CASE ~run[n] /\ \A m \in 1..n : ~Applies(rules[m], path, isDir)
      <4>1. Last1(n + 1)
        BY <2>1, <2>4, <3>1, <3>3
      <4> QED BY <2>1, <4>1
    <3>4. CASE \E m \in 1..n :
                  /\ Applies(rules[m], path, isDir)
                  /\ \A o \in 1..n : o > m => ~Applies(rules[o], path, isDir)
                  /\ run[n] <=> ~rules[m].negate
      <4>1. PICK m \in 1..n :
                  /\ Applies(rules[m], path, isDir)
                  /\ \A o \in 1..n : o > m => ~Applies(rules[o], path, isDir)
                  /\ run[n] <=> ~rules[m].negate
        BY <3>4
      <4>2. \A o \in 1..n + 1 : o > m => ~Applies(rules[o], path, isDir)
        BY <2>1, <2>4, <4>1
      <4>3. Last1(n + 1)
        BY <2>1, <3>1, <4>1, <4>2
      <4> QED BY <2>1, <4>3
    <3> QED BY <3>2, <3>3, <3>4
  <2> QED BY <2>3, <2>4
<1>10. N \in 0..N
  OBVIOUS
<1> HIDE DEF G
<1>11. 0..N \subseteq G
  BY <1>8, <1>9, UpTo
<1>12. Last1(N)
  BY <1>10, <1>11 DEF G
<1> QED BY <1>7, <1>12

-----------------------------------------------------------------------------
(* The files in the order of their rules.                                  *)

LEMMA Ranked ==
  ASSUME NEW files, Len(files) \in Nat, DOMAIN files = 1..Len(files),
         \A i \in DOMAIN files : Len(files[i].dir) \in Nat
  PROVE  /\ DOMAIN Sorted(files) = 1..Len(files)
         /\ \A k \in DOMAIN files : \E i \in DOMAIN files : Sorted(files)[k] = files[i]
         /\ \A i \in DOMAIN files : \E k \in DOMAIN files : Sorted(files)[k] = files[i]
         /\ \A k, l \in DOMAIN files :
              k <= l => Len(Sorted(files)[k].dir) <= Len(Sorted(files)[l].dir)
<1> DEFINE N == Len(files)
           B(i) == {j \in DOMAIN files : Before(files, j, i)}
           rank == [i \in 1..N |-> Rank(files, i)]
<1>1. \A i \in 1..N : ~Before(files, i, i)
  BY DEF Before
<1>2. \A i, j, k \in 1..N : Before(files, i, j) /\ Before(files, j, k) => Before(files, i, k)
  BY DEF Before
<1>3. \A i, j \in 1..N : i # j => Before(files, i, j) \/ Before(files, j, i)
  BY DEF Before
<1>4. IsFiniteSet(1..N) /\ Cardinality(1..N) = N
  <2>1. 1 \in Int /\ N \in Int /\ (1 > N => N = 0)
    OBVIOUS
  <2>2. IsFiniteSet(1..N) /\ Cardinality(1..N) = IF 1 > N THEN 0 ELSE N - 1 + 1
    BY <2>1, FS_Interval
  <2> QED BY <2>1, <2>2
<1>5. ASSUME NEW i \in 1..N
      PROVE  IsFiniteSet(B(i)) /\ Cardinality(B(i)) \in Nat /\ Cardinality(B(i)) < N
  <2>1. B(i) \in SUBSET (1..N) /\ i \notin B(i)
    BY <1>1
  <2> HIDE DEF B
  <2>2. IsFiniteSet(B(i)) /\ Cardinality(B(i)) <= N /\ (N = Cardinality(B(i)) => 1..N = B(i))
    BY <1>4, <2>1, FS_Subset
  <2>3. Cardinality(B(i)) \in Nat
    BY <2>2, FS_CardinalityType
  <2> QED BY <2>1, <2>2, <2>3
<1>6. ASSUME NEW i \in 1..N, NEW j \in 1..N, Before(files, i, j) PROVE rank[i] < rank[j]
  <2>1. B(i) \in SUBSET B(j) /\ i \in B(j) /\ i \notin B(i)
    BY <1>1, <1>2, <1>6
  <2>2. rank[i] = Cardinality(B(i)) + 1 /\ rank[j] = Cardinality(B(j)) + 1
    BY DEF Rank
  <2> HIDE DEF B
  <2>3. Cardinality(B(i)) <= Cardinality(B(j)) /\ Cardinality(B(i)) # Cardinality(B(j))
    BY <1>5, <2>1, FS_Subset
  <2>4. Cardinality(B(i)) \in Nat /\ Cardinality(B(j)) \in Nat
    BY <1>5
  <2> QED BY <2>2, <2>3, <2>4
<1>7. rank \in [1..N -> 1..N]
  <2>1. \A i \in 1..N : Rank(files, i) = Cardinality(B(i)) + 1
    BY DEF Rank
  <2> HIDE DEF B
  <2>2. \A i \in 1..N : Cardinality(B(i)) + 1 \in 1..N
    BY <1>5
  <2> QED BY <2>1, <2>2
<1> HIDE DEF rank, B
<1>8. rank \in Surjection(1..N, 1..N)
  <2>1. \A i, j \in 1..N : i # j => rank[i] # rank[j]
    BY <1>3, <1>6, <1>7
  <2>2. rank \in Injection(1..N, 1..N)
    BY <1>7, <2>1 DEF Injection, IsInjective
  <2> QED BY <1>4, <2>2, FS_Injection
<1> DEFINE from(k) == CHOOSE i \in DOMAIN files : Rank(files, i) = k
<1>9. \A k \in 1..N : from(k) \in 1..N /\ rank[from(k)] = k
  <2> TAKE k \in 1..N
  <2>1. \E i \in 1..N : rank[i] = k
    BY <1>8 DEF Surjection
  <2>2. \E i \in DOMAIN files : Rank(files, i) = k
    BY <2>1 DEF rank
  <2>3. from(k) \in 1..N /\ Rank(files, from(k)) = k
    BY <2>2
  <2> QED BY <2>3 DEF rank
<1>10. DOMAIN Sorted(files) = 1..N /\ \A k \in 1..N : Sorted(files)[k] = files[from(k)]
  BY DEF Sorted
<1> HIDE DEF from
<1>11. ASSUME NEW i \in 1..N PROVE \E k \in 1..N : Sorted(files)[k] = files[i]
  <2>1. rank[i] \in 1..N
    BY <1>7
  <2> DEFINE j == from(rank[i])
  <2>2. j \in 1..N /\ rank[j] = rank[i] /\ rank[i] \in Nat
    BY <1>9, <2>1
  <2> HIDE DEF j
  <2>3. ~Before(files, i, j) /\ ~Before(files, j, i)
    BY <1>6, <2>2
  <2>4. j = i
    BY <1>3, <2>2, <2>3
  <2> QED BY <1>10, <2>1, <2>4 DEF j
<1>12. ASSUME NEW k \in 1..N, NEW l \in 1..N, k <= l
       PROVE  Len(Sorted(files)[k].dir) <= Len(Sorted(files)[l].dir)
  <2> DEFINE i == from(k)
             j == from(l)
  <2>1. i \in 1..N /\ j \in 1..N /\ rank[i] = k /\ rank[j] = l
        /\ Sorted(files)[k] = files[i] /\ Sorted(files)[l] = files[j]
    BY <1>9, <1>10
  <2> HIDE DEF i, j
  <2>2. ASSUME Before(files, j, i) PROVE FALSE
    <3>1. rank[j] < rank[i]
      BY <1>6, <2>1, <2>2
    <3> QED BY <1>12, <2>1, <3>1
  <2>3. i = j \/ Before(files, i, j)
    BY <1>3, <2>1, <2>2
  <2>4. Len(files[i].dir) \in Nat /\ Len(files[j].dir) \in Nat
    BY <2>1
  <2>5. Len(files[i].dir) <= Len(files[j].dir)
    BY <2>3, <2>4 DEF Before
  <2> QED BY <2>1, <2>5
<1> QED BY <1>9, <1>10, <1>11, <1>12

IgnoreFile == [dir : Folders, lines : Seq(Lines)]

\* Rules() lists the lines of the files, one file after the other: the n-th line
\* of the k-th file is the rule at[k - 1] + n.
LEMMA RulesAre ==
  ASSUME NEW files \in Seq(IgnoreFile)
  PROVE  /\ Len(Rules(files)) \in Nat
         /\ \E at \in [0..Len(files) -> Nat] :
              /\ \A k \in DOMAIN files : \A n \in DOMAIN Sorted(files)[k].lines :
                   /\ at[k - 1] + n \in 1..Len(Rules(files))
                   /\ Rules(files)[at[k - 1] + n] = Parse(Sorted(files)[k].dir, Sorted(files)[k].lines[n])
              /\ \A m \in 1..Len(Rules(files)) :
                   \E k \in DOMAIN files : \E n \in DOMAIN Sorted(files)[k].lines : m = at[k - 1] + n
              /\ \A k, l \in DOMAIN files :
                   k < l => \A n \in DOMAIN Sorted(files)[k].lines, o \in DOMAIN Sorted(files)[l].lines :
                              at[k - 1] + n < at[l - 1] + o
<1> DEFINE N == Len(files)
           sorted == Sorted(files)
           S == {Parse(d, line) : d \in Folders, line \in Lines}
           words == [k \in DOMAIN files |-> RulesOf(sorted[k])]
           rules == Rules(files)
<1>1. N \in Nat /\ DOMAIN files = 1..N /\ \A i \in 1..N : files[i] \in IgnoreFile
  OBVIOUS
<1>2. \A i \in 1..N : Len(files[i].dir) \in Nat
  BY <1>1, ProjectAssumption DEF IgnoreFile
<1>3. DOMAIN sorted = 1..N /\ \A k \in 1..N : sorted[k] \in IgnoreFile
  <2>1. /\ DOMAIN sorted = 1..N
        /\ \A k \in 1..N : \E i \in 1..N : sorted[k] = files[i]
    <3>1. \A i \in DOMAIN files : Len(files[i].dir) \in Nat
      BY <1>1, <1>2
    <3>2. /\ DOMAIN Sorted(files) = 1..N
          /\ \A k \in DOMAIN files : \E i \in DOMAIN files : Sorted(files)[k] = files[i]
      BY <1>1, <3>1, Ranked
    <3> QED BY <1>1, <3>2
  <2> QED BY <1>1, <2>1
<1> HIDE DEF sorted
<1>4. ASSUME NEW k \in 1..N
      PROVE  /\ words[k] \in Seq(S) /\ DOMAIN sorted[k].lines = 1..Len(words[k])
             /\ \A n \in 1..Len(words[k]) : words[k][n] = Parse(sorted[k].dir, sorted[k].lines[n])
  <2> DEFINE file == sorted[k]
  <2>1. file.dir \in Folders /\ file.lines \in Seq(Lines)
    BY <1>3 DEF IgnoreFile
  <2> DEFINE M == Len(file.lines)
  <2>2. M \in Nat /\ DOMAIN file.lines = 1..M /\ \A n \in 1..M : file.lines[n] \in Lines
    BY <2>1
  <2>3. words[k] = [n \in 1..M |-> Parse(file.dir, file.lines[n])]
    BY <1>1, <2>2 DEF RulesOf
  <2> HIDE DEF file, M, words
  <2>4. \A n \in 1..M : Parse(file.dir, file.lines[n]) \in S
    BY <2>1, <2>2
  <2> HIDE DEF S
  <2>5. words[k] \in [1..M -> S]
    BY <2>3, <2>4
  <2>6. words[k] \in Seq(S) /\ Len(words[k]) = M
    BY <2>2, <2>5
  <2> QED BY <2>2, <2>3, <2>6 DEF file
<1>5. words \in Seq(Seq(S)) /\ Len(words) = N
  <2> HIDE DEF S
  <2>1. words \in [1..N -> Seq(S)]
    BY <1>1, <1>4
  <2> QED BY <1>1, <2>1
<1>6. rules = FlattenSeq(words)
  BY DEF Rules, sorted
<1> HIDE DEF rules, words, S
<1>7. rules \in Seq(S)
  BY <1>5, <1>6, FlattenIn
<1>8. Has(rules, 0, FlattenSeq(words))
  BY <1>6, <1>7 DEF Has
<1>9. PICK at : Laid(rules, 0, words, at) /\ at[N] = 0 + Len(FlattenSeq(words))
  <2>1. 0 \in Nat
    OBVIOUS
  <2> QED BY <1>5, <1>7, <1>8, <2>1, Joined
<1>10. /\ at \in [0..N -> Nat] /\ at[0] = 0 /\ at[N] = Len(rules) /\ Len(rules) \in Nat
       /\ \A k \in 1..N : at[k] = at[k - 1] + Len(words[k]) /\ Has(rules, at[k - 1], words[k])
  BY <1>5, <1>6, <1>7, <1>9 DEF Laid
<1>11. \A k \in 1..N : Len(words[k]) \in Nat
  BY <1>4
<1>12. ASSUME NEW k \in 1..N, NEW n \in 1..Len(words[k])
       PROVE  /\ at[k - 1] + n \in 1..Len(rules)
              /\ rules[at[k - 1] + n] = Parse(sorted[k].dir, sorted[k].lines[n])
  <2>1. Has(rules, at[k - 1], words[k]) /\ k - 1 \in 0..N
    BY <1>1, <1>10
  <2>2. rules[at[k - 1] + n] = words[k][n] /\ at[k - 1] + Len(words[k]) <= Len(rules)
    BY <2>1 DEF Has
  <2>3. at[k - 1] \in Nat
    BY <1>10, <2>1
  <2> QED BY <1>4, <1>10, <1>11, <2>2, <2>3
<1>13. ASSUME NEW m \in 1..Len(rules) PROVE \E k \in 1..N : \E n \in 1..Len(words[k]) : m = at[k - 1] + n
  <2> DEFINE H == {k \in 0..N : m <= at[k]}
  <2>1. N \in H /\ H \subseteq Nat
    BY <1>1, <1>10
  <2>2. PICK k \in H : \A l \in H : k <= l
    BY <2>1, LeastOf
  <2>3. k \in 1..N /\ k - 1 \in 0..N /\ k - 1 \notin H
    BY <1>1, <1>10, <2>2
  <2>4. ~(m <= at[k - 1]) /\ m <= at[k - 1] + Len(words[k]) /\ at[k - 1] \in Nat
    BY <1>10, <2>2, <2>3
  <2>5. m - at[k - 1] \in 1..Len(words[k]) /\ m = at[k - 1] + (m - at[k - 1])
    BY <1>11, <2>3, <2>4
  <2> QED BY <2>3, <2>5
<1>14. ASSUME NEW k \in 1..N, NEW l \in 1..N, k < l PROVE at[k] <= at[l - 1]
  <2> DEFINE G == {d \in 0..(l - 1) - k : at[k] <= at[k + d]}
  <2>0. (l - 1) - k \in Nat /\ k \in 0..N
    BY <1>1, <1>14
  <2>1. (l - 1) - k \in Nat /\ k \in 0..N /\ at[k] \in Nat
    BY <1>10, <2>0
  <2>2. 0 \in G
    BY <2>1
  <2>3. ASSUME NEW d \in 0..(l - 1) - k, d # (l - 1) - k, d \in G PROVE d + 1 \in G
    <3>1. d + 1 \in 0..(l - 1) - k /\ k + (d + 1) \in 1..N /\ (k + (d + 1)) - 1 = k + d /\ k + d \in 0..N
      BY <1>1, <2>1, <2>3
    <3>2. at[k + (d + 1)] = at[k + d] + Len(words[k + (d + 1)]) /\ Len(words[k + (d + 1)]) \in Nat
          /\ at[k + d] \in Nat
      BY <1>10, <1>11, <3>1
    <3>3. at[k] <= at[k + d]
      BY <2>3
    <3>4. at[k] <= at[k + (d + 1)]
      BY <2>1, <3>2, <3>3
    <3> QED BY <3>1, <3>4
  <2> HIDE DEF G
  <2>4. 0..(l - 1) - k \subseteq G
    BY <2>1, <2>2, <2>3, UpTo
  <2>5. (l - 1) - k \in 0..(l - 1) - k /\ k + ((l - 1) - k) = l - 1
    BY <2>1
  <2> QED BY <2>4, <2>5 DEF G
<1>15. ASSUME NEW k \in 1..N, NEW l \in 1..N, k < l, NEW n \in 1..Len(words[k]), NEW o \in 1..Len(words[l])
       PROVE  at[k - 1] + n < at[l - 1] + o
  <2>1. at[k] <= at[l - 1]
    BY <1>14, <1>15
  <2>2. at[k] = at[k - 1] + Len(words[k]) /\ k - 1 \in 0..N /\ l - 1 \in 0..N
    BY <1>1, <1>10
  <2>3. at[k - 1] \in Nat /\ at[l - 1] \in Nat /\ Len(words[k]) \in Nat /\ Len(words[l]) \in Nat
    BY <1>10, <1>11, <2>2
  <2>4. \A a, b, w \in Nat : a + w <= b => \A i \in 1..w, j \in Nat : j > 0 => a + i < b + j
    OBVIOUS
  <2>5. at[k - 1] + Len(words[k]) <= at[l - 1] /\ o \in Nat /\ o > 0
    BY <2>1, <2>2, <2>3
  <2> QED BY <2>3, <2>4, <2>5
<1>16. \A k \in 1..N : DOMAIN sorted[k].lines = 1..Len(words[k])
  BY <1>4
<1>17. \A k \in DOMAIN files : \A n \in DOMAIN sorted[k].lines :
         /\ at[k - 1] + n \in 1..Len(rules)
         /\ rules[at[k - 1] + n] = Parse(sorted[k].dir, sorted[k].lines[n])
  BY <1>1, <1>12, <1>16
<1>18. \A m \in 1..Len(rules) :
         \E k \in DOMAIN files : \E n \in DOMAIN sorted[k].lines : m = at[k - 1] + n
  BY <1>1, <1>13, <1>16
<1>19. \A k, l \in DOMAIN files :
         k < l => \A n \in DOMAIN sorted[k].lines, o \in DOMAIN sorted[l].lines :
                    at[k - 1] + n < at[l - 1] + o
  BY <1>1, <1>15, <1>16
<1> QED BY <1>10, <1>17, <1>18, <1>19, Zenon DEF rules, sorted

\* A folder that a path is in is names by its depth.
LEMMA OneFolder ==
  ASSUME NEW path \in Seq(Names), NEW d \in Seq(Names), NEW e \in Seq(Names),
         Inside(path, d), Inside(path, e), Len(d) = Len(e)
  PROVE  d = e
<1>1. SubSeq(d, 1, Len(d)) = SubSeq(path, 1, Len(d)) /\ SubSeq(e, 1, Len(e)) = SubSeq(path, 1, Len(e))
  BY DEF Inside, IsPrefix
<1>2. SubSeq(d, 1, Len(d)) = d /\ SubSeq(e, 1, Len(e)) = e
  OBVIOUS
<1> QED BY <1>1, <1>2, Zenon

\* A project has one .gitignore file in a folder.
PInv ==
    /\ ignores \in Seq(IgnoreFile)
    /\ \A i, j \in DOMAIN ignores : ignores[i].dir = ignores[j].dir => i = j

\* decide() is what git says of one path by its files.
LEMMA DecideIs ==
  ASSUME PInv, NEW path \in Seq(Names), NEW isDir \in BOOLEAN
  PROVE  Decide(Rules(ignores), path, isDir) <=> Excluded(path, isDir)
<1> DEFINE files == ignores
           N == Len(files)
           sorted == Sorted(files)
           rules == Rules(files)
           says(f) == {n \in DOMAIN f.lines : LineSays(f.lines[n], f.dir, path, isDir)}
           Asked == {f \in Range(ignores) : Inside(path, f.dir) /\ says(f) # {}}
           last(f) == CHOOSE n \in says(f) : \A o \in says(f) : o <= n
<1>1. N \in Nat /\ DOMAIN files = 1..N /\ \A i \in DOMAIN files : files[i] \in IgnoreFile
  BY DEF PInv
<1>2. ASSUME NEW f \in IgnoreFile
      PROVE  /\ f.dir \in Seq(Names) /\ Len(f.dir) \in Nat /\ DOMAIN f.lines \subseteq Nat
             /\ \A n \in DOMAIN f.lines : f.lines[n] \in Lines
  <2>1. f.dir \in Folders /\ f.lines \in Seq(Lines)
    BY DEF IgnoreFile
  <2> QED BY <2>1, ProjectAssumption
<1>3. /\ DOMAIN sorted = 1..N
      /\ \A k \in DOMAIN files : \E i \in DOMAIN files : sorted[k] = files[i]
      /\ \A i \in DOMAIN files : \E k \in DOMAIN files : sorted[k] = files[i]
      /\ \A k, l \in DOMAIN files : k <= l => Len(sorted[k].dir) <= Len(sorted[l].dir)
  <2>1. \A i \in DOMAIN files : Len(files[i].dir) \in Nat
    BY <1>1, <1>2
  <2> QED BY <1>1, <2>1, Ranked
<1>4. \A k \in DOMAIN files : sorted[k] \in IgnoreFile
  BY <1>1, <1>3
<1>5. Range(ignores) = {files[i] : i \in DOMAIN files}
  BY DEF Range
<1>6. /\ \A k \in DOMAIN files : sorted[k] \in Range(ignores)
      /\ \A f \in Range(ignores) : \E k \in DOMAIN files : sorted[k] = f
  BY <1>3, <1>5
<1>7. /\ Len(rules) \in Nat
      /\ \E at \in [0..N -> Nat] :
              /\ \A k \in DOMAIN files : \A n \in DOMAIN sorted[k].lines :
                   /\ at[k - 1] + n \in 1..Len(rules)
                   /\ rules[at[k - 1] + n] = Parse(sorted[k].dir, sorted[k].lines[n])
              /\ \A m \in 1..Len(rules) :
                   \E k \in DOMAIN files : \E n \in DOMAIN sorted[k].lines : m = at[k - 1] + n
              /\ \A k, l \in DOMAIN files :
                   k < l => \A n \in DOMAIN sorted[k].lines, o \in DOMAIN sorted[l].lines :
                              at[k - 1] + n < at[l - 1] + o
  BY RulesAre DEF PInv
<1>8. PICK at \in [0..N -> Nat] :
              /\ \A k \in DOMAIN files : \A n \in DOMAIN sorted[k].lines :
                   /\ at[k - 1] + n \in 1..Len(rules)
                   /\ rules[at[k - 1] + n] = Parse(sorted[k].dir, sorted[k].lines[n])
              /\ \A m \in 1..Len(rules) :
                   \E k \in DOMAIN files : \E n \in DOMAIN sorted[k].lines : m = at[k - 1] + n
              /\ \A k, l \in DOMAIN files :
                   k < l => \A n \in DOMAIN sorted[k].lines, o \in DOMAIN sorted[l].lines :
                              at[k - 1] + n < at[l - 1] + o
  BY <1>7
<1> HIDE DEF sorted, rules
<1> DEFINE Hit(k, n) == n \in says(sorted[k]) /\ Inside(path, sorted[k].dir)
\* The rules that apply are the lines that speak of the path.
<1>9. ASSUME NEW k \in DOMAIN files, NEW n \in DOMAIN sorted[k].lines
      PROVE  /\ Applies(rules[at[k - 1] + n], path, isDir) <=> Hit(k, n)
             /\ rules[at[k - 1] + n].negate = sorted[k].lines[n].negate
  <2>1. rules[at[k - 1] + n] = Parse(sorted[k].dir, sorted[k].lines[n])
    BY <1>8
  <2> DEFINE line == sorted[k].lines[n]
             dir == sorted[k].dir
  <2>2. line \in Lines /\ dir \in Seq(Names)
    BY <1>2, <1>4
  <2>3. Hit(k, n) <=> Inside(path, dir) /\ LineSays(line, dir, path, isDir)
    OBVIOUS
  <2> HIDE DEF line, dir
  <2>4. Applies(Parse(dir, line), path, isDir) <=> Inside(path, dir) /\ LineSays(line, dir, path, isDir)
    BY <2>2, AppliesIs
  <2>5. Parse(dir, line).negate = line.negate
    BY DEF Parse
  <2>6. rules[at[k - 1] + n] = Parse(dir, line)
    BY <2>1 DEF dir, line
  <2>7. rules[at[k - 1] + n].negate = line.negate
    BY <2>5, <2>6
  <2> HIDE DEF Hit
  <2>8. Applies(rules[at[k - 1] + n], path, isDir) <=> Hit(k, n)
    BY <2>3, <2>4, <2>6
  <2> QED BY <2>7, <2>8 DEF line
<1>10. Excluded(path, isDir) <=> \E f \in Asked : /\ \A g \in Asked : Len(g.dir) <= Len(f.dir)
                                                 /\ ~f.lines[last(f)].negate
  BY DEF Excluded
<1>11. \A f \in Asked : \E k \in DOMAIN files : \E n \in DOMAIN sorted[k].lines : f = sorted[k] /\ Hit(k, n)
  BY <1>6
<1>12. \A k \in DOMAIN files : \A n : Hit(k, n) => sorted[k] \in Asked /\ n \in DOMAIN sorted[k].lines
  BY <1>6
<1>13. CASE ~Decide(rules, path, isDir) /\ \A m \in 1..Len(rules) : ~Applies(rules[m], path, isDir)
  <2>1. ASSUME NEW f \in Asked PROVE FALSE
    <3>1. PICK k \in DOMAIN files : \E n \in DOMAIN sorted[k].lines : f = sorted[k] /\ Hit(k, n)
      BY <1>11
    <3>2. PICK n \in DOMAIN sorted[k].lines : Hit(k, n)
      BY <3>1
    <3>3. at[k - 1] + n \in 1..Len(rules) /\ Applies(rules[at[k - 1] + n], path, isDir)
      BY <1>8, <1>9, <3>2
    <3> QED BY <1>13, <3>3
  <2> QED BY <1>10, <1>13, <2>1 DEF rules
<1>14. CASE \E m \in 1..Len(rules) :
              /\ Applies(rules[m], path, isDir)
              /\ \A o \in 1..Len(rules) : o > m => ~Applies(rules[o], path, isDir)
              /\ Decide(rules, path, isDir) <=> ~rules[m].negate
  <2>1. PICK m \in 1..Len(rules) :
              /\ Applies(rules[m], path, isDir)
              /\ \A o \in 1..Len(rules) : o > m => ~Applies(rules[o], path, isDir)
              /\ Decide(rules, path, isDir) <=> ~rules[m].negate
    BY <1>14
  <2>2. PICK k \in DOMAIN files : \E n \in DOMAIN sorted[k].lines : m = at[k - 1] + n
    BY <1>8
  <2>3. PICK n \in DOMAIN sorted[k].lines : m = at[k - 1] + n
    BY <2>2
  <2>4. Hit(k, n) /\ rules[m].negate = sorted[k].lines[n].negate
    BY <1>9, <2>1, <2>3
  <2>5. sorted[k] \in Asked
    BY <1>12, <2>4
  \* No line after it speaks of the path.
  <2>6. ASSUME NEW l \in DOMAIN files, NEW o \in DOMAIN sorted[l].lines, Hit(l, o)
        PROVE  l <= k /\ (l = k => o <= n)
    <3>1. at[l - 1] + o \in 1..Len(rules) /\ Applies(rules[at[l - 1] + o], path, isDir)
      BY <1>8, <1>9, <2>6
    <3>2. ~(at[l - 1] + o > m) /\ m \in Nat
      BY <2>1, <3>1
    <3>3. ~(k < l)
      <4>1. SUFFICES ASSUME k < l PROVE FALSE
        OBVIOUS
      <4>2. at[k - 1] + n < at[l - 1] + o
        BY <1>8, <4>1
      <4>3. at[l - 1] + o \in Nat
        BY <3>1
      <4> QED BY <2>3, <3>2, <4>2, <4>3
    <3>4. k \in Nat /\ l \in Nat
      BY <1>1
    <3>5. l = k => o <= n
      <4>1. SUFFICES ASSUME l = k PROVE o <= n
        OBVIOUS
      <4>2. n \in Nat /\ o \in Nat
        BY <1>2, <1>4, <2>3, <4>1
      <4>3. at[k - 1] \in Nat
        BY <1>1
      <4>4. ~(at[k - 1] + o > at[k - 1] + n)
        BY <2>3, <3>2, <4>1
      <4> QED BY <4>2, <4>3, <4>4
    <3> QED BY <3>3, <3>4, <3>5
  <2>7. last(sorted[k]) = n
    <3>1. says(sorted[k]) \subseteq DOMAIN sorted[k].lines /\ n \in says(sorted[k])
          /\ says(sorted[k]) \subseteq Nat
      BY <1>2, <1>4, <2>4
    <3>2. \A o \in says(sorted[k]) : Hit(k, o)
      BY <2>4
    <3>3. \A o \in says(sorted[k]) : o <= n
      BY <2>6, <3>1, <3>2
    <3> HIDE DEF says
    <3>4. \A o \in says(sorted[k]) : (\A a \in says(sorted[k]) : a <= o) => o = n
      BY <3>1, <3>3
    <3>5. last(sorted[k]) \in says(sorted[k]) /\ \A a \in says(sorted[k]) : a <= last(sorted[k])
      BY <3>1, <3>3
    <3> HIDE DEF last
    <3> QED BY <3>4, <3>5
  <2> HIDE DEF last, Hit, Asked
  <2>8. \A g \in Asked : Len(g.dir) <= Len(sorted[k].dir)
    BY <1>3, <1>11, <2>6
  <2>9. ASSUME NEW f \in Asked, \A g \in Asked : Len(g.dir) <= Len(f.dir) PROVE f = sorted[k]
    <3>1. f \in Range(ignores) /\ Inside(path, f.dir) /\ sorted[k] \in Range(ignores)
          /\ Inside(path, sorted[k].dir)
      BY <2>5 DEF Asked
    <3>2. PICK i \in DOMAIN files, j \in DOMAIN files : f = files[i] /\ sorted[k] = files[j]
      BY <1>5, <3>1
    <3>3. f.dir \in Seq(Names) /\ sorted[k].dir \in Seq(Names) /\ Len(f.dir) \in Nat /\ Len(sorted[k].dir) \in Nat
      BY <1>1, <1>2, <3>2
    <3>4. Len(f.dir) = Len(sorted[k].dir)
      BY <2>5, <2>8, <2>9, <3>3
    <3>5. f.dir = sorted[k].dir
      BY <3>1, <3>3, <3>4, OneFolder
    <3>6. i = j
      BY <3>2, <3>5 DEF PInv
    <3> QED BY <3>2, <3>6
  <2>10. Excluded(path, isDir) <=> ~sorted[k].lines[n].negate
    BY <1>10, <2>5, <2>7, <2>8, <2>9
  <2> QED BY <2>1, <2>4, <2>10 DEF rules
<1>15. \/ ~Decide(rules, path, isDir) /\ \A m \in 1..Len(rules) : ~Applies(rules[m], path, isDir)
       \/ \E m \in 1..Len(rules) :
              /\ Applies(rules[m], path, isDir)
              /\ \A o \in 1..Len(rules) : o > m => ~Applies(rules[o], path, isDir)
              /\ Decide(rules, path, isDir) <=> ~rules[m].negate
  BY <1>7, LastDecides DEF rules
<1> QED BY <1>13, <1>14, <1>15

\* For any project: a folder has one .gitignore file at most, in which each line
\* is one that was written.
THEOREM ProjectInvariant == PInit /\ [][PNext]_ignores => []PInv
<1>1. PInit => PInv
  <2>1. << >> \in Seq(IgnoreFile) /\ DOMAIN << >> = {}
    OBVIOUS
  <2> QED BY <2>1 DEF PInit, PInv
<1>2. PInv /\ [PNext]_ignores => PInv'
  <2> SUFFICES ASSUME PInv, [PNext]_ignores PROVE PInv'
    OBVIOUS
  <2>1. CASE UNCHANGED ignores
    BY <2>1 DEF PInv
  <2>2. ASSUME NEW dir \in Folders, NEW line \in Lines, Write(dir, line) PROVE PInv'
    <3> DEFINE at == {i \in DOMAIN ignores : ignores[i].dir = dir}
               N == Len(ignores)
    <3>1. N \in Nat /\ DOMAIN ignores = 1..N /\ ignores \in Seq(IgnoreFile)
          /\ \A i \in 1..N : ignores[i] \in IgnoreFile
      BY DEF PInv
    <3>2. CASE at = {}
      <4> DEFINE new == [dir |-> dir, lines |-> <<line>>]
      <4>1. ignores' = Append(ignores, new)
        BY <2>2, <3>2 DEF Write
      <4>2. new \in IgnoreFile
        <5>1. <<line>> \in Seq(Lines)
          OBVIOUS
        <5> QED BY <5>1 DEF IgnoreFile
      <4>3. new.dir = dir
        OBVIOUS
      <4> HIDE DEF new
      <4>4. /\ ignores' \in Seq(IgnoreFile) /\ DOMAIN ignores' = 1..N + 1
            /\ \A i \in 1..N : ignores'[i] = ignores[i]
            /\ ignores'[N + 1] = new
        <5>1. ignores' \in Seq(IgnoreFile) /\ Len(ignores') = N + 1
          BY <3>1, <4>1, <4>2, AppendProperties
        <5> DEFINE longer == Append(ignores, new)
        <5>2. longer[N + 1] = new /\ \A i \in 1..N : longer[i] = ignores[i]
          BY <3>1, <4>2, AppendProperties
        <5>3. ignores' = longer
          BY <4>1
        <5> HIDE DEF longer
        <5> QED BY <5>1, <5>2, <5>3
      <4>5. \A i \in 1..N + 1 : i # N + 1 => i \in 1..N
        BY <3>1
      <4>6. \A i \in 1..N : ignores[i].dir # dir
        BY <3>1, <3>2
      <4>7. \A i, j \in 1..N + 1 : ignores'[i].dir = ignores'[j].dir => i = j
        BY <3>1, <4>3, <4>4, <4>5, <4>6 DEF PInv
      <4> QED BY <4>4, <4>7 DEF PInv
    <3>3. CASE at # {}
      <4> DEFINE c == CHOOSE i \in at : TRUE
                 new == [ignores[c] EXCEPT !.lines = Append(@, line)]
      <4>1. c \in 1..N
        BY <3>1, <3>3
      <4> HIDE DEF c
      <4>2. ignores' = [ignores EXCEPT ![c] = new]
        BY <2>2, <3>1, <3>3, <4>1 DEF Write, c
      <4>3. new \in IgnoreFile /\ new.dir = ignores[c].dir
        <5>1. ignores[c] \in IgnoreFile
          BY <3>1, <4>1
        <5>2. Append(ignores[c].lines, line) \in Seq(Lines)
          BY <5>1 DEF IgnoreFile
        <5> QED BY <5>1, <5>2 DEF IgnoreFile
      <4> HIDE DEF new
      <4>4. /\ ignores' \in Seq(IgnoreFile) /\ DOMAIN ignores' = 1..N
            /\ \A i \in 1..N : ignores'[i] = IF i = c THEN new ELSE ignores[i]
        BY <3>1, <4>1, <4>2, <4>3
      <4>5. \A i \in 1..N : ignores'[i].dir = ignores[i].dir
        BY <4>3, <4>4
      <4> QED BY <3>1, <4>4, <4>5 DEF PInv
    <3> QED BY <3>2, <3>3
  <2> QED BY <2>1, <2>2 DEF PNext
<1> QED BY <1>1, <1>2, PTL

\* A project's upload sends what git would take of it, for any project, any
\* .gitignore files and patterns, and any order the browser lists them in.
THEOREM ProjectAsGit == PInit /\ [][PNext]_ignores => []SentAsGit
<1>1. PInv => SentAsGit
  <2> SUFFICES ASSUME PInv, NEW path \in Paths
               PROVE  Sends(ignores, path) <=> DotGit \notin Range(path) /\ Reaches(path)
    BY DEF SentAsGit
  <2> DEFINE rules == Rules(ignores)
             N == Len(path)
             Out(n) == Decide(rules, SubSeq(path, 1, n), n < N)
  <2>1. path \in Seq(Names) /\ N \in Nat
    BY ProjectAssumption
  <2>2. ASSUME NEW n \in 1..N PROVE SubSeq(path, 1, n) \in Seq(Names) /\ (n = N => SubSeq(path, 1, n) = path)
    BY <2>1
  <2>3. ASSUME NEW n \in 1..N PROVE Excluded(SubSeq(path, 1, n), n < N) <=> Out(n)
    <3>1. (n < N) \in BOOLEAN
      OBVIOUS
    <3> QED BY <2>2, <3>1, DecideIs
  <2>4. Reaches(path) <=> \A n \in 1..N : ~Out(n)
    BY <2>3 DEF Reaches
  <2>5. CASE N = 0
    <3>1. 1..N = {} /\ 1..N - 1 = {}
      BY <2>5
    <3>2. ~Excluded(path, FALSE)
      <4>1. ASSUME NEW f \in Range(ignores) PROVE ~Inside(path, f.dir)
        <5>1. f \in IgnoreFile
          BY DEF PInv, Range
        <5>2. Len(f.dir) \in Nat
          BY <5>1, ProjectAssumption DEF IgnoreFile
        <5> QED BY <2>5, <5>2 DEF Inside
      <4> QED BY <4>1 DEF Excluded
    <3>3. ~Decide(rules, path, FALSE)
      BY <2>1, <3>2, DecideIs
    <3>4. ~IsIgnored(rules, path)
      BY <3>1, <3>3 DEF IsIgnored
    <3> QED BY <2>4, <3>1, <3>4 DEF Sends
  <2>6. CASE N # 0
    <3>1. \A n \in 1..N - 1 : n \in 1..N /\ (n < N) = TRUE
      BY <2>1
    <3>2. N \in 1..N /\ (N < N) = FALSE /\ SubSeq(path, 1, N) = path
      BY <2>1, <2>2, <2>6
    <3>3. \A n \in 1..N : n = N \/ n \in 1..N - 1
      BY <2>1
    <3>4. IsIgnored(rules, path) <=> \E n \in 1..N : Out(n)
      BY <3>1, <3>2, <3>3 DEF IsIgnored
    <3> QED BY <2>4, <3>4 DEF Sends
  <2> QED BY <2>5, <2>6
<1>2. PInit /\ [][PNext]_ignores => []PInv
  BY ProjectInvariant
<1> QED BY <1>1, <1>2, PTL
=============================================================================
