------------------------------ MODULE WebCopies ------------------------------
(***************************************************************************)
(* Copies of media in a form every browser shows (ccosel-server,            *)
(* web_copy.rs): a request finds a file's copy in the cache, or takes the   *)
(* job making it, starting one if there is none; a worker thread decides,   *)
(* converts, keeps the result and evicts what has not been used for longest.*)
(* Requests run at the same time, on threads of their own, and files change *)
(* underneath.                                                             *)
(*                                                                         *)
(* A file is its version; what is decided or converted from it is the       *)
(* version it was read from.  A Job's Arc is a number, reused once nothing  *)
(* holds it.                                                               *)
(***************************************************************************)
EXTENDS Naturals, FiniteSets

CONSTANTS
  Files,       \* media files
  Converted,   \* <<file, version>>s a browser does not show as they are
  Callers,     \* requests that may run at once
  JobIds,      \* numbers for jobs
  CopySize, PlanSize,
  MaxBytes,    \* the cache's limit
  MaxVersion,  \* bound on the versions of a file
  MaxStops     \* bound on stops of the server

ASSUME CopiesAssumption ==
  /\ Converted \subseteq Files \X (1..MaxVersion)
  /\ 0 \notin JobIds
  /\ CopySize \in Nat /\ PlanSize \in Nat /\ MaxBytes \in Nat
  /\ MaxVersion \in Nat \ {0} /\ MaxStops \in Nat

VARIABLES
  edition,  \* of each file
  cache,    \* the cache folder: <<key, kind>> -> [of, age]
  map,      \* WebCopies::jobs: key -> job
  job,      \* the jobs: see FreeJob
  caller,   \* the requests: see IdleCaller
  stops     \* of the server

cvars == <<edition, cache, map, job, caller, stops>>

NoKey   == <<>>
Nothing == [x \in {} |-> 0]
None    == [st |-> "none", plan |-> 0, copy |-> 0]
Ok(plan, copy) == [st |-> "ok", plan |-> plan, copy |-> copy]
Failed  == [st |-> "failed", plan |-> 0, copy |-> 0]
Running == [st |-> "running", plan |-> 0, copy |-> 0]

\* A job: what its worker has to do next, what it decided from which version,
\* its result once it has one, whether that is set (done), whether a failure's
\* retention has passed, and what eviction found in the cache.
FreeJob == [key |-> NoKey, next |-> "rest", plan |-> 0, result |-> None, done |-> FALSE,
            old |-> FALSE, found |-> Nothing]

\* A request: the file it is for, which version that had when it was asked, the
\* job it holds, and whether its last answer was about the file as it was before
\* that (history).
IdleCaller == [pc |-> "idle", file |-> NoKey, asked |-> 0, job |-> 0, stale |-> FALSE]

CInit ==
  /\ edition = [f \in Files |-> 1]
  /\ cache = Nothing
  /\ map = Nothing
  /\ job = [j \in JobIds |-> FreeJob]
  /\ caller = [c \in Callers |-> IdleCaller]
  /\ stops = 0

\* key(): any change to the file is a different name.
Key(f) == <<f, edition[f]>>

\* A cache by use: a file's age is how many of the others were used since.
Ranked(c) == [x \in DOMAIN c |->
  [of |-> c[x].of, age |-> Cardinality({y \in DOMAIN c : c[y].age < c[x].age})]]

Plan(k) == <<k, "plan">>
Copy(k) == <<k, "copy">>

\* x is written, what it holds made from version `of'; x is used; S is removed.
Kept(c, x, of) ==
  Ranked([y \in DOMAIN c \cup {x} |->
            IF y = x THEN [of |-> of, age |-> 0] ELSE [of |-> c[y].of, age |-> c[y].age + 1]])
Marked(c, x) == IF x \in DOMAIN c THEN Kept(c, x, c[x].of) ELSE c
Removed(c, S) == Ranked([x \in DOMAIN c \ S |-> c[x]])

\* What was decided from a version of f: whether it needs a copy.
Converts(f, of) == <<f, of>> \in Converted

\* cached(): the decision, and the copy if that says there is one.
Cached(f) ==
  /\ Plan(Key(f)) \in DOMAIN cache
  /\ Converts(f, cache[Plan(Key(f))].of) => Copy(Key(f)) \in DOMAIN cache

\* Request c is for f, which had version `asked', and is answered.
Replied(c, f, asked, answer) ==
  [caller EXCEPT ![c] =
    [IdleCaller EXCEPT
       !.stale = answer.st = "ok" /\
                   (answer.plan < asked \/ (Converts(f, answer.plan) /\ answer.copy < asked))]]

-----------------------------------------------------------------------------
(* A request: status(), and wait(), which differs only in waiting.         *)

\* The first look in the cache finds it, and marks it as used.
Hit(c, f) ==
  LET k    == Key(f)
      plan == cache[Plan(k)].of
  IN /\ caller[c].pc = "idle"
     /\ Cached(f)
     /\ IF Converts(f, plan)
        THEN /\ cache' = Marked(Marked(cache, Copy(k)), Plan(k))
             /\ caller' = Replied(c, f, edition[f], Ok(plan, cache[Copy(k)].of))
        ELSE /\ cache' = Marked(cache, Plan(k))
             /\ caller' = Replied(c, f, edition[f], Ok(plan, 0))
     /\ UNCHANGED <<edition, map, job, stops>>

Miss(c, f) ==
  /\ caller[c].pc = "idle"
  /\ ~Cached(f)
  /\ caller' = [caller EXCEPT ![c].pc = "missed", ![c].file = f, ![c].asked = edition[f]]
  /\ UNCHANGED <<edition, cache, map, job, stops>>

\* Mutant: a job still running is dropped from the map as well.
ForgottenRunning(j) == ~(job[j].done /\ job[j].result.st = "failed" /\ ~job[j].old)

\* job() drops finished jobs from the map, failures after a while only.
Forgotten(j) == job[j].done /\ (job[j].result.st = "ok" \/ job[j].old)

Held == {caller[c].job : c \in Callers} \cup {j \in JobIds : job[j].next # "rest"}

\* Under the lock: the job for the file's key, a new one with a worker of its
\* own if there is none.  The key was made at some time since the miss, when the
\* file had version v.
TakeJob(c, v) ==
  LET k    == <<caller[c].file, v>>
      keep == {x \in DOMAIN map : ~Forgotten(map[x])}
      left == [x \in keep |-> map[x]]
      free == {j \in JobIds : j \notin Held /\ \A x \in keep : map[x] # j}
      new  == CHOOSE j \in free : TRUE
  IN /\ caller[c].pc = "missed"
     /\ v \in caller[c].asked..edition[caller[c].file]
     /\ k \in keep \/ free # {}
     /\ map' = IF k \in keep THEN left
               ELSE [x \in keep \cup {k} |-> IF x = k THEN new ELSE map[x]]
     /\ job' = [j \in JobIds |->
                  IF k \notin keep /\ j = new THEN [FreeJob EXCEPT !.key = k, !.next = "decide"]
                  ELSE IF j \in free THEN FreeJob ELSE job[j]]
     /\ caller' = [caller EXCEPT ![c].pc = "holds", ![c].job = map'[k]]
     /\ UNCHANGED <<edition, cache, stops>>

\* The job's result, or, from status() at once and from wait() at its limit,
\* that it is still running.
Look(c) ==
  LET j == job[caller[c].job]
  IN /\ caller[c].pc = "holds"
     /\ caller' = Replied(c, caller[c].file, caller[c].asked,
                         IF j.done THEN j.result ELSE Running)
     /\ UNCHANGED <<edition, cache, map, job, stops>>

-----------------------------------------------------------------------------
(* A worker.                                                               *)

Step(j, from) == job[j].next = from
After(j, next) == [job EXCEPT ![j].next = next]
FileOf(j) == job[j].key[1]

Decide(j) ==
  LET f == FileOf(j)
  IN /\ Step(j, "decide")
     /\ IF Key(f) \in Converted
        THEN job' = [After(j, "convert") EXCEPT ![j].plan = edition[f]]
        ELSE job' = [After(j, "keep") EXCEPT ![j].plan = edition[f],
                                             ![j].result = Ok(edition[f], 0)]
     /\ UNCHANGED <<edition, cache, map, caller, stops>>

\* The copy is made beside its place and renamed into it.
Convert(j) ==
  LET of == edition[FileOf(j)]
  IN /\ Step(j, "convert")
     /\ cache' = Kept(cache, Copy(job[j].key), of)
     /\ job' = [After(j, "keep") EXCEPT ![j].result = Ok(job[j].plan, of)]
     /\ UNCHANGED <<edition, map, caller, stops>>

ConvertFails(j) ==
  /\ Step(j, "convert")
  /\ job' = [After(j, "evict") EXCEPT ![j].result = Failed, ![j].plan = 0]
  /\ UNCHANGED <<edition, cache, map, caller, stops>>

\* Mutant: the decision is kept under the name the file has by now.
PlanKeyNow(j) == Key(FileOf(j))

PlanKey(j) == job[j].key

KeepPlan(j) ==
  /\ Step(j, "keep")
  /\ cache' = Kept(cache, Plan(PlanKey(j)), job[j].plan)
  /\ job' = [After(j, "evict") EXCEPT ![j].plan = 0]
  /\ UNCHANGED <<edition, map, caller, stops>>

Copies(S) == {x \in S : x[2] = "copy"}
Total(S)  == CopySize * Cardinality(Copies(S)) + PlanSize * Cardinality(S \ Copies(S))

\* evict() lists the folder...
EvictList(j) ==
  /\ Step(j, "evict")
  /\ job' = [After(j, "remove") EXCEPT ![j].found = cache]
  /\ UNCHANGED <<edition, cache, map, caller, stops>>

\* What is left of the total it found when x's turn comes: one that it could not
\* remove before, because it is gone, still counts.
Remaining(found, x) ==
  Total({y \in DOMAIN found : found[y].age <= found[x].age \/ y \notin DOMAIN cache})

\* Mutant: it stops one file early.
OverByOne(found, x) ==
  Total({y \in DOMAIN found : found[y].age < found[x].age \/ y \notin DOMAIN cache}) > MaxBytes

Over(found, x) == Remaining(found, x) > MaxBytes

\* ... and removes the files it found, oldest first, until what is left fits.
EvictRemove(j) ==
  LET found == job[j].found
  IN /\ Step(j, "remove")
     /\ cache' = Removed(cache, {x \in DOMAIN found : Over(found, x)})
     /\ job' = [After(j, "finish") EXCEPT ![j].found = Nothing]
     /\ UNCHANGED <<edition, map, caller, stops>>

\* The result is set; the worker's key is not needed any more.
Done(j) ==
  /\ Step(j, "finish")
  /\ job' = [After(j, "rest") EXCEPT ![j].done = TRUE, ![j].key = NoKey]
  /\ UNCHANGED <<edition, cache, map, caller, stops>>

-----------------------------------------------------------------------------
Change(f) ==
  /\ edition[f] < MaxVersion
  /\ edition' = [edition EXCEPT ![f] = @ + 1]
  /\ UNCHANGED <<cache, map, job, caller, stops>>

\* FAILURE_RETENTION passes for a failed job.
Expire(j) ==
  /\ job[j].done /\ job[j].result.st = "failed" /\ ~job[j].old
  /\ job' = [job EXCEPT ![j].old = TRUE]
  /\ UNCHANGED <<edition, cache, map, caller, stops>>

\* The server stops and starts again: the cache folder is all that is left.
Restarted ==
  /\ stops < MaxStops
  /\ stops' = stops + 1
  /\ map' = Nothing
  /\ job' = [j \in JobIds |-> FreeJob]
  /\ caller' = [c \in Callers |-> IdleCaller]
  /\ UNCHANGED <<edition, cache>>

Work(j) ==
  \/ Decide(j) \/ Convert(j) \/ ConvertFails(j) \/ KeepPlan(j)
  \/ EvictList(j) \/ EvictRemove(j) \/ Done(j)

Request(c) ==
  \/ Look(c)
  \/ \E v \in 1..MaxVersion : TakeJob(c, v)
  \/ \E f \in Files : Hit(c, f) \/ Miss(c, f)

CNext ==
  \/ \E c \in Callers : Request(c)
  \/ \E j \in JobIds : Work(j) \/ Expire(j)
  \/ \E f \in Files : Change(f)
  \/ Restarted

CSpec == CInit /\ [][CNext]_cvars

-----------------------------------------------------------------------------
FileKeys == Files \X (1..MaxVersion)

CTypeOK ==
  /\ edition \in [Files -> 1..MaxVersion]
  /\ DOMAIN cache \subseteq FileKeys \X {"plan", "copy"}
  /\ DOMAIN map \subseteq FileKeys
  /\ \A j \in JobIds : /\ job[j].key \in FileKeys \cup {NoKey}
                       /\ job[j].done => job[j].result.st \in {"ok", "failed"}
  /\ \A c \in Callers : caller[c].job \in JobIds \cup {0}

\* Two workers never make the same copy at once: they would write the same
\* .part. file.
OneWorkerPerKey ==
  /\ CTypeOK
  /\ \A i, j \in JobIds :
       job[i].next # "rest" /\ job[j].next # "rest" /\ job[i].key = job[j].key => i = j

\* "Changing the file means deciding again": what a request is shown was
\* decided, and converted, from the file as it was when it asked, or later.
AnswersCurrent == \A c \in Callers : ~caller[c].stale

\* What the cache has for a file as it is now is about that file, although the
\* worker that kept it may have begun when it was another.
CacheIsCurrent ==
  \A x \in DOMAIN cache : LET f == x[1][1]
                          IN x[1] = Key(f) => cache[x].of = edition[f]

\* No answer, and nothing kept, is of the file as it no longer is.
NothingStale == AnswersCurrent /\ CacheIsCurrent

\* "The cache has a size limit": once a worker has evicted and no other is
\* running, it is kept, however their evictions overlapped.  (A server stopped
\* before an eviction leaves the cache over it, until the next one.)
EvictionBounds ==
  [][(\E j \in JobIds : job[j].next = "remove" /\ job'[j].next = "finish")
       /\ (\A j \in JobIds : job'[j].next \in {"rest", "finish"})
     => Total(DOMAIN cache') <= MaxBytes]_cvars

=============================================================================
