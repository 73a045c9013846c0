------------------------------ MODULE Uploads ------------------------------
(***************************************************************************)
(* Uploads of the shell (upload.rs, desktop.rs): files picked with an      *)
(* app's upload button, or dropped on its window, are sent one at a time   *)
(* by a task of their own while the user goes on; each frame the desktop   *)
(* routes the drops, takes the uploads that have finished and tells their  *)
(* windows.  A project goes without what its .gitignore files exclude,     *)
(* into a new folder that the server makes for it.                         *)
(***************************************************************************)
EXTENDS Integers, FiniteSets, Sequences

CONSTANTS
    AppWindows,        \* windows of apps
    Desktop,        \* where there is no window
    Button,         \* what each one's upload button sends: "folder" or "project"
    Files,          \* what can be chosen
    Ignored,        \* the files a project leaves out
    Refused,        \* the files whose path or size is refused before sending
    MaxUploads,     \* bound: uploads, numbered in the order they are asked for
    MaxFailures       \* bound: files and requests that fail

ASSUME UploadsAssumption ==
    /\ Button \in [AppWindows -> {"folder", "project"}]
    /\ Desktop \notin AppWindows
    /\ IsFiniteSet(Files)
    /\ Ignored \cup Refused \subseteq Files
    /\ {MaxUploads, MaxFailures} \subseteq Nat

VARIABLES
    open,       \* windows that are open
    drops,      \* things dropped, not yet routed: the window under each, or Desktop
    task,       \* each upload's task, in the order of their numbers
    list,       \* the uploads the desktop knows of: number -> how far it is
    stored,     \* what has reached the server of each upload
    heard,      \* history: what each upload's window was told, and the notice
    failed      \* failures so far

uvars == <<open, drops, task, list, stored, heard, failed>>

Numbers == 1 .. MaxUploads
Started == DOMAIN task

\* An upload in the list: how many files it has sent or failed to, of how many.
NewUpload(n, failures) ==
    [done |-> 0, total |-> n, failures |-> failures, skipped |-> 0, scratch |-> FALSE,
     finished |-> FALSE]

UInit ==
    /\ open = AppWindows
    /\ drops = << >>
    /\ task = << >>
    /\ list = [u \in {} |-> << >>]
    /\ stored = [u \in Numbers |-> {}]
    /\ heard = [u \in Numbers |-> << >>]
    /\ failed = 0

Lists(u, entry) == list' = [v \in DOMAIN list \cup {u} |-> IF v = u THEN entry ELSE list[v]]
At(u, where) == task' = [task EXCEPT ![u].at = where]

\* A task that ends early as it would if it said why and no more.
EndsEarlySilently(u) ==
    /\ At(u, "over")
    /\ Lists(u, [list[u] EXCEPT !.failures = @ + 1])

\* A task ends early: its upload says why, and is finished.
EndsEarly(u) ==
    /\ At(u, "over")
    /\ Lists(u, [list[u] EXCEPT !.failures = @ + 1, !.finished = TRUE])

Fails == failed < MaxFailures /\ failed' = failed + 1

-----------------------------------------------------------------------------
(* The user. *)

Close(w) ==
    /\ w \in open
    /\ open' = open \ {w}
    /\ UNCHANGED <<drops, task, list, stored, heard, failed>>

\* The next upload's number, and its task.
Begins(w, where) ==
    /\ Len(task) < MaxUploads
    /\ task' = Append(task, [window |-> w, project |-> Button[w] = "project", at |-> where,
                             chosen |-> {}, left |-> {}])

\* pick: the file picker opens, or the upload ends there and then.
Click(w) ==
    /\ w \in open
    /\ \/ /\ Begins(w, "picking")
          /\ UNCHANGED <<list, failed>>
       \/ /\ Begins(w, "over")
          /\ Fails
          /\ Lists(Len(task'), [NewUpload(0, 1) EXCEPT !.finished = TRUE])
    /\ UNCHANGED <<open, drops, stored, heard>>

\* Something is dropped on the page.
Drop(where) ==
    /\ Len(drops) = 0 /\ Len(task) < MaxUploads
    /\ where \in open \cup {Desktop}
    /\ drops' = Append(drops, where)
    /\ UNCHANGED <<open, task, list, stored, heard, failed>>

-----------------------------------------------------------------------------
(* upload_all, from the first await to the last. *)

\* The upload appears in the list.
Chosen(u, files, failures) ==
    /\ task' = [task EXCEPT ![u] = [task[u] EXCEPT !.at = IF task[u].project THEN "filter" ELSE "sending",
                                                  !.chosen = files, !.left = files]]
    /\ Lists(u, NewUpload(Cardinality(files), failures))

\* The picker closes with a choice, or is cancelled, which nobody is told.
Pick(u) ==
    /\ task[u].at = "picking"
    /\ \/ \E files \in SUBSET Files \ {{}} : Chosen(u, files, 0)
       \/ At(u, "over") /\ UNCHANGED list
    /\ UNCHANGED <<open, drops, stored, heard, failed>>

\* What was dropped is read into a tree, as far as it can be.
ReadDropped(u) ==
    /\ task[u].at = "dropped"
    /\ \/ \E files \in SUBSET Files : Chosen(u, files, 0) /\ UNCHANGED failed
       \/ \E files \in SUBSET Files : Chosen(u, files, 1) /\ Fails
    /\ UNCHANGED <<open, drops, stored, heard>>

\* only_project_files: a .gitignore that cannot be read ends the upload.
Filter(u) ==
    /\ task[u].at = "filter"
    /\ \/ /\ task' = [task EXCEPT ![u] = [task[u] EXCEPT !.at = "scratch", !.left = @ \ Ignored]]
          /\ UNCHANGED <<list, failed>>
       \/ Fails /\ EndsEarly(u)
    /\ UNCHANGED <<open, drops, stored, heard>>

\* new_scratch: the server makes a folder and says which.
NewScratch(u) ==
    LET kept == Cardinality(task[u].left) IN
    /\ task[u].at = "scratch"
    /\ \/ /\ At(u, "sending")
          /\ Lists(u, [list[u] EXCEPT !.skipped = list[u].total - kept, !.total = kept, !.scratch = TRUE])
          /\ UNCHANGED failed
       \/ Fails /\ EndsEarly(u)
    /\ UNCHANGED <<open, drops, stored, heard>>

\* As it would be with the answer not looked at.
SentAnyway(entry, ok) == [entry EXCEPT !.done = @ + 1]

\* What a file's turn adds to its upload.
Sent(entry, ok) ==
    [entry EXCEPT !.done = @ + 1, !.failures = IF ok THEN @ ELSE @ + 1]

\* One file: refused before it is sent, not readable, not accepted, accepted
\* but the answer lost, or sent.
Send(u, f) ==
    /\ task[u].at = "sending" /\ f \in task[u].left
    /\ task' = [task EXCEPT ![u].left = @ \ {f}]
    /\ \/ /\ f \in Refused
          /\ Lists(u, Sent(list[u], FALSE))
          /\ UNCHANGED <<stored, failed>>
       \/ /\ f \notin Refused
          /\ Fails
          /\ Lists(u, Sent(list[u], FALSE))
          /\ \E got \in {{}, {f}} : stored' = [stored EXCEPT ![u] = @ \cup got]
       \/ /\ f \notin Refused
          /\ Lists(u, Sent(list[u], TRUE))
          /\ stored' = [stored EXCEPT ![u] = @ \cup {f}]
          /\ UNCHANGED failed
    /\ UNCHANGED <<open, drops, heard>>

UploadOver(u) ==
    /\ task[u].at = "sending" /\ task[u].left = {}
    /\ At(u, "over")
    /\ Lists(u, [list[u] EXCEPT !.finished = TRUE])
    /\ UNCHANGED <<open, drops, stored, heard, failed>>

-----------------------------------------------------------------------------
(* The frame. *)

\* route_drops: to the window that is there now, if it is not minimized and
\* shows an upload button by now.
RouteDrops ==
    LET w == Head(drops) IN
    /\ drops # << >>
    /\ drops' = Tail(drops)
    /\ \/ w \in open /\ Begins(w, "dropped")
       \/ UNCHANGED task
    /\ UNCHANGED <<open, list, stored, heard, failed>>

\* Status: how many files the notice says were uploaded.
Claimed(entry) ==
    IF entry.done > entry.failures THEN entry.done - entry.failures ELSE 0

\* drain_uploads: every upload that has finished leaves the list, its window
\* hears of it, a project's only if there is a folder to hear of, and a notice
\* says how it went.
DrainUploads ==
    LET done == {u \in DOMAIN list : list[u].finished}
        hears(u) == /\ task[u].window \in open
                    /\ task[u].project => list[u].scratch
    IN
    /\ done # {}
    /\ list' = [u \in DOMAIN list \ done |-> list[u]]
    /\ heard' = [u \in Numbers |->
                   IF u \in done
                   THEN Append(heard[u], [window |-> hears(u), claimed |-> Claimed(list[u]),
                                         failures |-> list[u].failures])
                   ELSE heard[u]]
    /\ UNCHANGED <<open, drops, task, stored, failed>>

TaskStep(u) ==
    \/ ReadDropped(u) \/ Filter(u) \/ NewScratch(u) \/ UploadOver(u)
    \/ \E f \in Files : Send(u, f)

UNext ==
    \/ \E w \in AppWindows : Close(w) \/ Click(w)
    \/ \E where \in AppWindows \cup {Desktop} : Drop(where)
    \/ \E u \in Started : TaskStep(u) \/ Pick(u)
    \/ RouteDrops
    \/ DrainUploads

\* Every update asks for a frame, and a task goes on once what it waits for is
\* answered.
UFairness ==
    /\ \A u \in Numbers : WF_uvars(u \in Started /\ TaskStep(u))
    /\ WF_uvars(RouteDrops) /\ WF_uvars(DrainUploads)

USpec == UInit /\ [][UNext]_uvars
UFairSpec == USpec /\ UFairness

-----------------------------------------------------------------------------

UploadsWellFormed ==
    /\ DOMAIN list \subseteq Started
    /\ \A u \in DOMAIN list : list[u].done <= list[u].total
    /\ \A u \in Started :
        task[u].at \in {"picking", "dropped", "filter", "scratch", "sending", "over"}

\* What the user is told of an upload is true, and told once: no more files
\* are said to be uploaded than have reached the server, every file meant to
\* be sent that is not there is counted as a failure, and a window that hears
\* of it hears after the last file.
NoticesTrue ==
    /\ UploadsWellFormed
    /\ \A u \in Started : \A i \in DOMAIN heard[u] :
        /\ i = 1
        /\ heard[u][i].claimed <= Cardinality(stored[u])
        /\ heard[u][i].window =>
            LET meant == task[u].chosen \ (IF task[u].project THEN Ignored ELSE {}) IN
            /\ task[u].left = {}
            /\ Cardinality(meant \ stored[u]) <= heard[u][i].failures

\* Every upload that appears in the status bar leaves it again, and its outcome
\* is told: whatever fails on the way, as long as what it waits for is answered.
UploadsEnd ==
    \A u \in Numbers : u \in DOMAIN list ~> heard[u] # << >>

=============================================================================
