------------------------------- MODULE Builds -------------------------------
(***************************************************************************)
(* Building a project on the server: the Compiler app (apps/rust-compiler), *)
(* which polls a build by its folder and generation; the job table          *)
(* (ccosel-server, build_api.rs), whose jobs run on threads of their own;   *)
(* and the scratch folders uploaded projects are built in (scratch.rs).     *)
(*                                                                         *)
(* A project is its version.  Of a window's request cache and its call on   *)
(* the way, RpcCtx and Transport promise what is used here: one call for    *)
(* the query it polls with, whose answer is its own.  Time is in ticks: a   *)
(* poll, `cargo metadata' and the end of a thread take less than one, and a *)
(* window that polls and is not minimised has polled at least once in each. *)
(***************************************************************************)
EXTENDS Naturals

CONSTANTS
  Windows,    \* windows of the Compiler app
  Shared,     \* projects in the jail's folders
  Scratch,    \* scratch folders that may be made
  BuildLimit, \* BUILD_TIMEOUT
  Retention,  \* JOB_RETENTION
  Ttl,        \* TTL_SECS
  MaxPresses,    \* bound on what users do
  MaxRestarts \* bound on restarts of the server

ASSUME BuildsAssumption ==
  /\ {BuildLimit, Retention, Ttl, MaxPresses, MaxRestarts} \subseteq Nat
  /\ BuildLimit < Ttl
  /\ "none" \notin Shared \cup Scratch

VARIABLES
  win,      \* the windows: see NewWindow
  jobs,     \* Jobs::map: <<dir, generation>> -> job
  stray,    \* requests at the server nobody waits for: [key, by]
  idle,     \* Scratch::used: live scratch folder -> time left to it
  made,     \* the scratch folders made so far
  version,  \* of each project
  presses,
  restarts

bvars == <<win, jobs, stray, idle, made, version, presses, restarts>>

Dirs == Shared \cup Scratch

\* The app's cache entry for the build it shows: not asked for, asked, answered
\* but the answer still on its way, ready, or failed.
NoSlot        == [st |-> "none"]
Slot(st, ans) == [st |-> st, ans |-> ans]
Refused       == [ok |-> FALSE, finished |-> FALSE, of |-> 0, by |-> <<>>]

\* A window: which instance of the app it is (history), whether it is minimised
\* (it gets no frames then), RustCompiler's generation, building and polling, the
\* entry, whether its poll of this tick is still to come, and the version its
\* project had when Build was pressed (history).
NewWindow(life) ==
  [life |-> life, hidden |-> FALSE, gen |-> 0, building |-> "none", slot |-> NoSlot,
   polling |-> FALSE, due |-> FALSE, pressed |-> 0]

BInit ==
  /\ win = [w \in Windows |-> NewWindow(0)]
  /\ jobs = [k \in {} |-> 0]
  /\ stray = {}
  /\ idle = [d \in {} |-> 0]
  /\ made = {}
  /\ version = [d \in Dirs |-> 1]
  /\ presses = 0
  /\ restarts = 0

KeyOf(w) == <<win[w].building, win[w].gen>>
By(w)    == <<w, win[w].life>>
With(f, x, y) == [z \in DOMAIN f \cup {x} |-> IF z = x THEN y ELSE f[z]]

\* The requests left at the server when a window drops its entry.
LeftAt(w) == IF win[w].slot.st = "sent" THEN {[key |-> KeyOf(w), by |-> By(w)]} ELSE {}

-----------------------------------------------------------------------------
(* The app: one frame of a window.                                         *)

Press(x, d) ==
  [x EXCEPT !.building = d, !.gen = @ + 1, !.slot = NoSlot, !.pressed = version[d]]

\* An upload has landed: the app opens it, and drops what it built before.
Open(x) == [x EXCEPT !.building = "none", !.slot = NoSlot]

\* Mutant: a finished build is asked for again as well.
PollOn(x) ==
  IF x.building = "none" THEN [x EXCEPT !.polling = FALSE, !.due = FALSE]
  ELSE IF x.slot.st = "none" THEN [x EXCEPT !.polling = TRUE, !.slot = [st |-> "sent"]]
  ELSE IF x.slot.st = "ready" THEN [x EXCEPT !.polling = TRUE, !.slot = NoSlot]
  ELSE IF x.slot.st \in {"sent", "served"} THEN [x EXCEPT !.polling = TRUE]
  ELSE [x EXCEPT !.polling = FALSE, !.due = FALSE]

\* The end of update(): ask, and while the build is not finished ask again the
\* next frame.
Poll(x) ==
  IF x.building = "none" THEN [x EXCEPT !.polling = FALSE, !.due = FALSE]
  ELSE IF x.slot.st = "none" THEN [x EXCEPT !.polling = TRUE, !.slot = [st |-> "sent"]]
  ELSE IF x.slot.st = "ready" /\ ~x.slot.ans.finished
       THEN [x EXCEPT !.polling = TRUE, !.slot = NoSlot]
  ELSE IF x.slot.st \in {"sent", "served"} THEN [x EXCEPT !.polling = TRUE]
  ELSE [x EXCEPT !.polling = FALSE, !.due = FALSE]

FrameOf(w) ==
  /\ ~win[w].hidden
  /\ win' = [win EXCEPT ![w] = Poll(win[w])]
  /\ UNCHANGED <<jobs, stray, idle, made, version, presses, restarts>>

Does(w, x) ==
  /\ presses < MaxPresses
  /\ ~win[w].hidden
  /\ presses' = presses + 1
  /\ win' = [win EXCEPT ![w] = x]
  /\ stray' = stray \cup LeftAt(w)

\* The folder's listing may be an old one, so it need not be there any more.
Build(w, d) ==
  /\ d \in Shared \cup made
  /\ Does(w, Poll(Press(win[w], d)))
  /\ UNCHANGED <<jobs, idle, made, version, restarts>>

Upload(w, d) ==
  /\ d \in Scratch \ made
  /\ made' = made \cup {d}
  /\ idle' = With(idle, d, Ttl)
  /\ Does(w, Poll(Open(win[w])))
  /\ UNCHANGED <<jobs, version, restarts>>

\* The window is closed and another opened, or the page is loaded again.
Reopen(w) ==
  /\ Does(w, NewWindow(win[w].life + 1))
  /\ UNCHANGED <<jobs, idle, made, version, restarts>>

\* Mutant: building does not count as use.
TouchedNot(d) == idle

\* Scratch::touch.
Touched(d) == IF d \in DOMAIN idle THEN [idle EXCEPT ![d] = Ttl] ELSE idle

\* Someone lists or downloads from a scratch folder.
Use(d) ==
  /\ presses < MaxPresses
  /\ presses' = presses + 1
  /\ d \in DOMAIN idle
  /\ idle' = Touched(d)
  /\ UNCHANGED <<win, jobs, stray, made, version, restarts>>

\* Minimised, or shown again.
Minimise(w) ==
  /\ presses < MaxPresses
  /\ presses' = presses + 1
  /\ win' = [win EXCEPT ![w].hidden = ~@]
  /\ UNCHANGED <<jobs, stray, idle, made, version, restarts>>

EditProject(d) ==
  /\ presses < MaxPresses
  /\ presses' = presses + 1
  /\ version' = [version EXCEPT ![d] = @ + 1]
  /\ UNCHANGED <<win, jobs, stray, idle, made, restarts>>

-----------------------------------------------------------------------------
(* The server.                                                             *)

There(d) == d \in Shared \/ d \in DOMAIN idle

NewJob(by) == [st |-> "counting", of |-> 0, by |-> by, left |-> 0]

\* Jobs::sweep: what has been finished for long enough goes.
Expired(k) == jobs[k].st = "done" /\ jobs[k].left = 0
Swept      == [k \in {x \in DOMAIN jobs : ~Expired(x)} |-> jobs[k]]

\* compile(): under the lock, sweep and take the job for the key, a new one
\* with a thread of its own if there is none.  A folder that is gone is refused
\* before that.
Compile(key, by) ==
  /\ idle' = Touched(key[1])
  /\ jobs' = IF ~There(key[1]) THEN jobs
             ELSE IF key \in DOMAIN Swept THEN Swept ELSE With(Swept, key, NewJob(by))

\* snapshot(), of the job just taken.
Snapshot(key) ==
  IF ~There(key[1]) THEN Refused
  ELSE [ok |-> TRUE, finished |-> jobs'[key].st \in {"reported", "done"},
        of |-> jobs'[key].of, by |-> jobs'[key].by]

Serve(w) ==
  /\ win[w].slot.st = "sent"
  /\ Compile(KeyOf(w), By(w))
  /\ win' = [win EXCEPT ![w].slot = Slot("served", Snapshot(KeyOf(w)))]
  /\ UNCHANGED <<stray, made, version, presses, restarts>>

ServeStray(r) ==
  /\ Compile(r.key, r.by)
  /\ stray' = stray \ {r}
  /\ UNCHANGED <<win, made, version, presses, restarts>>

\* The poll is over, with what was heard.
Heard(x, ans) ==
  [x EXCEPT !.due = FALSE, !.slot = Slot(IF ans.ok THEN "ready" ELSE "failed", ans)]

Answer(w) ==
  /\ win[w].slot.st = "served"
  /\ win' = [win EXCEPT ![w] = Heard(win[w], win[w].slot.ans)]
  /\ UNCHANGED <<jobs, stray, idle, made, version, presses, restarts>>

\* The poll is lost or late: its deadline passes, or its POST fails.
FailPoll(w) ==
  /\ win[w].slot.st \in {"sent", "served"}
  /\ win' = [win EXCEPT ![w] = Heard(win[w], Refused)]  \* what it says does not matter
  /\ stray' = stray \cup LeftAt(w)
  /\ UNCHANGED <<jobs, idle, made, version, presses, restarts>>

Becomes(k, job) ==
  /\ jobs' = [jobs EXCEPT ![k] = job]
  /\ UNCHANGED <<win, stray, idle, made, version, presses, restarts>>

\* The thread has counted the packages, and cargo reads the project.  (One that
\* cannot be run ends at once.)
StartCargo(k) ==
  /\ jobs[k].st = "counting"
  /\ Becomes(k, [jobs[k] EXCEPT !.st = "building", !.of = version[k[1]], !.left = BuildLimit])

Report(k) == Becomes(k, [jobs[k] EXCEPT !.st = "reported", !.left = 0])

CargoEnds(k) == jobs[k].st = "building" /\ Report(k)

\* Mutant: there is no deadline.
NoDeadline(k) == FALSE

AtDeadline(k) == jobs[k].st = "building" /\ jobs[k].left = 0

Kill(k) == AtDeadline(k) /\ Report(k)

\* The result is set first, and the time it was finished after it.
Finish(k) ==
  /\ jobs[k].st = "reported"
  /\ Becomes(k, [jobs[k] EXCEPT !.st = "done", !.left = Retention])

\* Scratch::sweep, once a minute.
SweepScratch ==
  /\ \E d \in DOMAIN idle : idle[d] = 0
  /\ idle' = [d \in {x \in DOMAIN idle : idle[x] > 0} |-> idle[d]]
  /\ UNCHANGED <<win, jobs, stray, made, version, presses, restarts>>

\* Everything is lost but the jail's own folders.
Restart ==
  /\ restarts < MaxRestarts
  /\ restarts' = restarts + 1
  /\ jobs' = [k \in {} |-> 0]
  /\ idle' = [d \in {} |-> 0]
  /\ UNCHANGED <<win, stray, made, version, presses>>

Sooner(n) == IF n = 0 THEN 0 ELSE n - 1

Elapse ==
  /\ \A k \in DOMAIN jobs : jobs[k].st \in {"building", "done"} /\ ~AtDeadline(k)
  /\ \A w \in Windows : win[w].due => win[w].hidden
  /\ win' = [w \in Windows |-> [win[w] EXCEPT !.due = win[w].polling]]
  /\ jobs' = [k \in DOMAIN jobs |-> [jobs[k] EXCEPT !.left = Sooner(@)]]
  /\ idle' = [d \in DOMAIN idle |-> Sooner(idle[d])]
  /\ UNCHANGED <<stray, made, version, presses, restarts>>

Network(w) == Serve(w) \/ Answer(w) \/ FailPoll(w)
Thread(k)  == StartCargo(k) \/ Kill(k) \/ Finish(k)

BNext ==
  \/ \E w \in Windows :
       \/ FrameOf(w) \/ Reopen(w) \/ Minimise(w) \/ Network(w)
       \/ \E d \in Dirs : Build(w, d) \/ Upload(w, d)
  \/ \E d \in Shared : EditProject(d)
  \/ \E d \in Scratch : Use(d)
  \/ \E r \in stray : ServeStray(r)
  \/ \E k \in DOMAIN jobs : Thread(k) \/ CargoEnds(k)
  \/ SweepScratch \/ Restart \/ Elapse

\* A window that polls asks for a frame every POLL_MS, a poll is answered or
\* times out, a thread goes on, and time passes.  Nothing says cargo ends.
BFairness ==
  /\ \A w \in Windows : WF_bvars(FrameOf(w)) /\ WF_bvars(Network(w))
  /\ WF_bvars(\E k \in DOMAIN jobs : Thread(k))
  /\ WF_bvars(SweepScratch)
  /\ WF_bvars(Elapse)

BSpec == BInit /\ [][BNext]_bvars /\ BFairness

-----------------------------------------------------------------------------
Keys == Dirs \X (0..MaxPresses)

BuildsWellFormed ==
  /\ \A w \in Windows : /\ win[w].building \in Dirs \cup {"none"}
                        /\ win[w].gen \in 0..MaxPresses
                        /\ win[w].slot.st \in {"none", "sent", "served", "ready", "failed"}
  /\ DOMAIN jobs \subseteq Keys
  /\ \A k \in DOMAIN jobs : jobs[k].st \in {"counting", "building", "reported", "done"}
  /\ \A r \in stray : r.key \in Keys
  /\ DOMAIN idle \subseteq made
  /\ \A d \in DOMAIN idle : idle[d] \in 0..Ttl

Shows(w) == win[w].slot.st = "ready" /\ win[w].slot.ans.finished

\* A build this window started, however often it was pressed and polled and
\* whatever came late, is of the project as it was when Build was pressed, or
\* later.
OwnBuildIsFresh ==
  \A w \in Windows :
    Shows(w) /\ win[w].slot.ans.by = By(w) => win[w].slot.ans.of >= win[w].pressed

\* "A new generation is a new job, so this is what makes Build mean build again
\* rather than show me the last result."
BuildMeansBuildAgain ==
  \A w \in Windows : Shows(w) => win[w].slot.ans.of >= win[w].pressed

\* A project is not deleted under a build: its folder was used when the build
\* began, and a build is stopped before it counts as unused.
BuildKeepsFolder ==
  \A k \in DOMAIN jobs : jobs[k].st \in {"counting", "building"} => There(k[1])

\* A build is as new as its press, and its project is there as long as it is built.
BuildsAreOwn == BuildsWellFormed /\ OwnBuildIsFresh /\ BuildKeepsFolder

\* A window that is shown stops polling, whether the build ends or not.
PollingEnds == \A w \in Windows : win[w].polling ~> ~win[w].polling \/ win[w].hidden

\* "Nothing lingers": an uploaded project is deleted in the end.
NothingLingers == \A d \in Scratch : d \in DOMAIN idle ~> d \notin DOMAIN idle

=============================================================================
