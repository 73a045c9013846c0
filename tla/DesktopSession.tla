--------------------------- MODULE DesktopSession ---------------------------
(***************************************************************************)
(* Remembering someone's desktop between visits (ccosel-shell: session.rs,  *)
(* and the frame of desktop.rs around it; ccosel-server: desktop.rs): the   *)
(* desktop is loaded when the page starts, its windows are opened again,    *)
(* and after that a change is saved once it is SaveDelay old.  The load and *)
(* the saves are the shell's own calls, made through the pending-call table.*)
(*                                                                         *)
(* A layout is the set of its windows: of a saved window's place, only      *)
(* whether it is there matters here; maximised windows are left out.        *)
(* Frames happen when something asks for one, or when the user does         *)
(* something; nothing else draws.                                          *)
(***************************************************************************)
EXTENDS PendingTable, Integers, FiniteSets

CONSTANTS
  Shell,      \* SHELL_INSTANCE
  Apps,       \* the windows there may be
  Installed,  \* those whose app still exists
  Remembered, \* what may be stored as the first page is loaded
  SaveDelay,  \* SAVE_DELAY_MS, in ticks
  MaxActs     \* bound on what the user does in one run

\* A saved window is its app's, and may be minimised; two alike count as one.
Saved(a, min) == [app |-> a, min |-> min]
AppsOf(layout) == {w.app : w \in layout}
Layouts == SUBSET [app : Apps, min : BOOLEAN]
Load    == [op |-> "load", layout |-> {}]
Save(l) == [op |-> "save", layout |-> l]

ASSUME SessionAssumption ==
  /\ Windows = {Shell}
  /\ Requests = {Load} \cup {Save(l) : l \in Layouts}
  /\ Merged = {Load}
  /\ CallIds = 1..MaxCalls
  /\ Installed \subseteq Apps /\ Remembered \subseteq Layouts
  /\ IsFiniteSet(Apps)
  /\ {SaveDelay, MaxCalls} \subseteq Nat \ {0} /\ MaxActs \in Nat

VARIABLES
  page,    \* the page's desktop: see FreshPage
  table,   \* the pending-call table
  wire,    \* requests sent: at the server, or answered and on the way back
  inbox,   \* replies that have come for the next frame
  stored,  \* the layout file
  acts,    \* how often the user did something
  removed  \* the apps whose window was closed, or could not be opened (history)

vars == <<page, table, wire, inbox, stored, acts, removed>>

NoWait  == -1
Unknown == [known |-> FALSE, layout |-> {}]
Known(l) == [known |-> TRUE, layout |-> l]

FreshPage ==
  [open      |-> {},       \* windows: [app, min, drawn], drawn if they ever were
   opening   |-> {},       \* launches on the way: [app, restored, min]
   landed    |-> {},       \* launches done, for the next frame: [launch, ok]
   restoring |-> 0,        \* remembered windows still opening
   loadCall  |-> 1,        \* the call loading the desktop, 0 once it is answered
   nextCall  |-> 2,
   saved     |-> Unknown,  \* Autosave::saved
   left      |-> NoWait,   \* time until a change may be saved (Autosave::since)
   events    |-> {},       \* what the shell's sink holds
   owed      |-> 2,        \* frames asked for now (a request is owed two)
   wake      |-> FALSE,    \* a frame is asked for when left is 0
   loaded    |-> Unknown,  \* what this page loaded (history)
   lastSave  |-> 0]        \* the last save made (history)

Shells(id) == <<Shell, id>>

\* Desktop::new asks for the desktop before the first frame.
FreshTable == EnqueueIn(EmptyTable, Shells(1), 1, Load)

Init ==
  /\ page = FreshPage
  /\ table = FreshTable
  /\ wire = {}
  /\ inbox = {}
  /\ stored \in Remembered
  /\ acts = 0
  /\ removed = {}

-----------------------------------------------------------------------------
(* One frame, Desktop::ui, as steps of the page, or of [pg, t] where they   *)
(* change its table too.                                                   *)

Launch(a, restored, min) == [app |-> a, restored |-> restored, min |-> min]
Window(l) == [app |-> l.app, min |-> l.min, drawn |-> FALSE]

LandedWindows(pg) == {Window(l.launch) : l \in {x \in pg.landed : x.ok}}

\* Mutant: a remembered window that could not be opened is not counted off.
DrainInboxOpened(pg) ==
  [pg EXCEPT !.open      = @ \cup LandedWindows(pg),
             !.restoring = @ - Cardinality({l \in pg.landed : l.launch.restored /\ l.ok}),
             !.landed    = {}]

\* drain_inbox(): windows that have opened, and launches that have failed.
\* The windows are stacked again after the last one; a set has no stacking.
DrainInbox(pg) ==
  [pg EXCEPT !.open      = @ \cup LandedWindows(pg),
             !.restoring = @ - Cardinality({l \in pg.landed : l.launch.restored}),
             !.landed    = {}]

EventOf(k, ok, layout) == [call |-> k[2], ok |-> ok, layout |-> layout]

TakeReplies(f) ==
  LET S == {r.seq : r \in inbox}
      reply(k) == CHOOSE r \in inbox : r.seq \in DOMAIN f.t.groups /\ k \in f.t.groups[r.seq]
  IN IF inbox = {} THEN f
     ELSE [pg |-> [f.pg EXCEPT !.events = @ \cup
                     {EventOf(k, reply(k).ok, reply(k).layout) : k \in Members(f.t, S)}],
           t  |-> ResolveIn(f.t, S)]

Openable(layout) == {w \in layout : w.app \in Installed}

\* restore(): open the remembered windows whose app exists; what was loaded
\* counts as saved.
Restore(pg, layout) ==
  [pg EXCEPT
    !.opening   = @ \cup {Launch(w.app, TRUE, w.min) : w \in Openable(layout)},
    !.restoring = @ + Cardinality(Openable(layout)),
    !.saved     = Known(layout),
    !.loaded    = Known(layout),
    !.left      = NoWait]

\* drain_shell_calls(): the answer to the load; a failed save is only told of.
DrainShellCalls(pg) ==
  LET loads == {e \in pg.events : e.call = pg.loadCall}
      heard == [pg EXCEPT !.events = {}, !.loadCall = IF loads = {} THEN @ ELSE 0]
  IN IF \E e \in loads : e.ok
     THEN Restore(heard, (CHOOSE e \in loads : TRUE).layout) ELSE heard

\* tick(): too late for this frame's drain_shell_calls.
TickPage(f) ==
  LET expired == Overdue(f.t)
  IN [pg |-> [f.pg EXCEPT !.events = @ \cup {EventOf(k, FALSE, {}) : k \in expired}],
      t  |-> Without(f.t, expired)]

\* What the user does in a frame: open a window from the menu, bring a minimised
\* one back from the dock, minimise or close one.
Acts == {[do |-> d, app |-> a] : d \in {"open", "dock", "minimise", "close"}, a \in Apps}
Idle == [do |-> "nothing", app |-> "none"]

Showing(ws) == {w.app : w \in {x \in ws : ~x.min}}

CanDo(act) ==
  \/ act = Idle
  \/ act.do = "open" /\ act.app \in Installed \ AppsOf(page.open)
       /\ act.app \notin AppsOf({l \in page.opening : ~l.restored})
  \/ act.do = "dock" /\ act.app \in AppsOf(page.open) \ Showing(page.open)
  \/ act.do \in {"minimise", "close"} /\ act.app \in Showing(page.open)

Opened(ws, act) ==
  {[w EXCEPT !.min = @ /\ act # [do |-> "dock", app |-> w.app]] : w \in ws}

\* The windows that are not minimised are drawn, and their title bars pressed.
DrawWindows(ws, act) ==
  {[w EXCEPT !.drawn = @ \/ ~w.min, !.min = @ \/ act = [do |-> "minimise", app |-> w.app]] :
     w \in {x \in ws : act # [do |-> "close", app |-> x.app]}}

Act(pg, act) ==
  [pg EXCEPT
    !.open    = DrawWindows(Opened(@, act), act),
    !.opening = @ \cup {Launch(a, FALSE, FALSE) : a \in {x \in Apps : act = [do |-> "open", app |-> x]}}]

\* current_layout() and session::layout: a window never drawn has no place, and
\* is left out.
Layout(pg) == {Saved(w.app, w.min) : w \in {x \in pg.open : x.drawn}}

\* Whether nothing is still opening.
Settled(pg) == pg.restoring = 0 /\ pg.opening = {}

\* Mutant: nothing remembered yet counts as an empty desktop.
DiffersFromNothing(pg) == Layout(pg) # pg.saved.layout

Differs(pg) == pg.saved.known /\ Layout(pg) # pg.saved.layout

\* autosave() and Autosave::tick, the last thing in a frame: the save is made
\* after the frame's flush, and asks for no other frame.
Autosave(f) ==
  LET pg == [f.pg EXCEPT !.wake = FALSE]
      quiet == [pg EXCEPT !.left = NoWait]
  IN IF ~Settled(pg) THEN [pg |-> pg, t |-> f.t]
     ELSE IF ~Differs(pg) THEN [pg |-> quiet, t |-> f.t]
     ELSE IF pg.left = NoWait
          THEN [pg |-> [pg EXCEPT !.left = SaveDelay, !.wake = TRUE], t |-> f.t]
     ELSE IF pg.left > 0 THEN [pg |-> [pg EXCEPT !.wake = TRUE], t |-> f.t]
     ELSE [pg |-> [quiet EXCEPT !.saved = Known(Layout(pg)),
                                !.lastSave = pg.nextCall, !.nextCall = @ + 1],
           t  |-> EnqueueIn(f.t, Shells(pg.nextCall), pg.nextCall, Save(Layout(pg)))]

\* The steps in turn: each p or f is what the page, or it and its table, are after
\* one.  (MaxCalls bounds the saves of a page.)
Frame(act) ==
  /\ CanDo(act)
  /\ \E p1 \in {DrainInbox(page)} :
     \E f2 \in {TakeReplies([pg |-> p1, t |-> table])} :
     \E p3 \in {DrainShellCalls(f2.pg)} :
     \E f4 \in {TickPage([pg |-> p3, t |-> f2.t])} :
     \E p5 \in {Act(f4.pg, act)} :
     \E f6 \in {Autosave([pg |-> p5, t |-> FlushIn(f4.t)])} :
       /\ f6.pg.nextCall <= MaxCalls + 1
       /\ page' = [f6.pg EXCEPT !.owed = IF @ = 0 THEN 0 ELSE @ - 1]
       /\ table' = f6.t
       /\ wire' = wire \cup {[seq |-> o.seq, req |-> o.req, st |-> "sent", ok |-> FALSE,
                              layout |-> {}, heard |-> TRUE] : o \in f4.t.staged}
  /\ inbox' = {}
  /\ removed' = removed
       \cup {l.launch.app : l \in {x \in page.landed : ~x.ok}}
       \cup (IF act.do = "close" THEN {act.app} ELSE {})
  /\ UNCHANGED stored

\* A frame something asked for, and one the user causes.
Due == page.owed > 0 \/ (page.wake /\ page.left = 0)
Redraw == Due /\ Frame(Idle) /\ UNCHANGED acts
UserActs(act) ==
  /\ acts < MaxActs
  /\ acts' = acts + 1
  /\ Frame(act)

\* The pointer moves over the desktop: a frame, and nothing else.
Nudge == Frame(Idle) /\ UNCHANGED acts

-----------------------------------------------------------------------------
(* Everything outside the frame.                                           *)

Ask(pg) == [pg EXCEPT !.owed = 2]

\* A launch finishes, either way.
Land(l, ok) ==
  /\ l \in page.opening
  /\ page' = Ask([page EXCEPT !.opening = @ \ {l},
                              !.landed = @ \cup {[launch |-> l, ok |-> ok]}])
  /\ UNCHANGED <<table, wire, inbox, stored, acts, removed>>

Elapse ==
  /\ page.left > 0 \/ \E k \in Live(table) : table.entries[k].left > 0
  /\ table' = ElapseIn(table)
  /\ page' = [page EXCEPT !.left = IF @ > 0 THEN @ - 1 ELSE @]
  /\ UNCHANGED <<wire, inbox, stored, acts, removed>>

\* The server loads or saves; a save may fail there.
Serve(m, ok) ==
  LET saves == ok /\ m.req.op = "save"
  IN /\ m.st = "sent"
     /\ ok \/ m.req.op = "save"
     /\ stored' = IF saves THEN m.req.layout ELSE stored
     /\ wire' = (wire \ {m}) \cup
          (IF m.heard
           THEN {[m EXCEPT !.st = "done", !.ok = ok,
                           !.layout = IF m.req.op = "load" THEN stored ELSE {}]}
           ELSE {})
     /\ UNCHANGED <<page, table, inbox, acts, removed>>

\* Its answer comes, or the POST fails: before, or after the server has done it.
Answer(m) ==
  /\ m.st = "done" /\ m.heard
  /\ inbox' = inbox \cup {[seq |-> m.seq, ok |-> m.ok, layout |-> m.layout]}
  /\ wire' = wire \ {m}
  /\ page' = Ask(page)
  /\ UNCHANGED <<table, stored, acts, removed>>

Unheard(m) == IF m.st = "sent" THEN {[m EXCEPT !.heard = FALSE]} ELSE {}

FailPost(m) ==
  /\ m.heard
  /\ inbox' = inbox \cup {[seq |-> m.seq, ok |-> FALSE, layout |-> {}]}
  /\ wire' = (wire \ {m}) \cup Unheard(m)
  /\ page' = Ask(page)
  /\ UNCHANGED <<table, stored, acts, removed>>

\* The page is loaded again: by the user, or by the wire on a lost session.
Reload ==
  /\ acts < MaxActs
  /\ acts' = acts + 1
  /\ page' = FreshPage
  /\ table' = FreshTable
  /\ inbox' = {}
  /\ wire' = UNION {Unheard(m) : m \in wire}
  /\ UNCHANGED <<stored, removed>>

Next ==
  \/ Redraw
  \/ Nudge
  \/ \E act \in Acts : UserActs(act)
  \/ \E l \in page.opening : \E ok \in BOOLEAN : Land(l, ok)
  \/ Elapse
  \/ \E m \in wire : Answer(m) \/ FailPost(m) \/ \E ok \in BOOLEAN : Serve(m, ok)
  \/ Reload

\* Frames that are asked for are drawn, time passes, launches finish, and the
\* network answers or fails.
Fairness ==
  /\ WF_vars(Redraw)
  /\ WF_vars(Elapse)
  /\ WF_vars(\E l \in page.opening : \E ok \in BOOLEAN : Land(l, ok))
  /\ WF_vars(\E m \in wire : Answer(m) \/ FailPost(m) \/ (m.heard /\ Serve(m, TRUE)))

Spec == Init /\ [][Next]_vars /\ Fairness

-----------------------------------------------------------------------------
TypeOK ==
  /\ page.open \subseteq [app : Apps, min : BOOLEAN, drawn : BOOLEAN]
  /\ page.restoring \in Nat
  /\ page.left \in NoWait..SaveDelay
  /\ page.saved.layout \in Layouts
  /\ TableType(table)
  /\ stored \in Layouts

\* `restoring' counts the remembered windows on their way: were it too low, a
\* desktop with some of them missing would be saved (or the count would
\* underflow); too high, and nothing would ever be saved again.
RestoringCounts ==
  /\ TypeOK
  /\ page.restoring =
       Cardinality({l \in page.opening \cup {x.launch : x \in page.landed} : l.restored})

Kept(save, saved) == AppsOf(Openable(saved)) \subseteq AppsOf(save) \cup removed

Saves == {table.entries[k].req.layout : k \in {x \in Live(table) : table.entries[x].req.op = "save"}}

\* "Nothing is saved before then, or a slow load would be overwritten with an
\* empty desktop"; "not while windows are still opening, which would save a
\* desktop with some of them missing": a page saves only once it has loaded,
\* and what it saves has every window it loaded that the user has not closed
\* and that could be opened; but not a minimised one, see SavesKeepMinimised.
SavesKeepLoaded ==
  \A save \in Saves :
    page.loaded.known /\ Kept(save, {w \in page.loaded.layout : ~w.min})

\* The count is right, and so nothing is saved too early: both of the above.
SessionInv == RestoringCounts /\ SavesKeepLoaded

\* "Every open window", minimised ones too.
SavesKeepMinimised == \A save \in Saves : Kept(save, page.loaded.layout)

\* "A save replaces the last one": the remembered desktop loses a window that
\* was not minimised only when the user closed it, or it could not be opened.
LosesOnlyClosed ==
  [][\A w \in stored : ~w.min /\ w.app \notin AppsOf(stored')
       => w.app \in removed \/ w.app \notin Installed]_vars

\* Every remembered window finishes opening, one way or the other, so that the
\* desktop is saved again.
RestoreFinishes == page.restoring > 0 ~> page.restoring = 0

Staged(n) == \E o \in table.staged : o.req.op = "save" /\ page.lastSave = n

\* What autosave() says of the frame it asks for: nothing else may be redrawing
\* by then, and the save must still happen.
SaveStillHappens == \A n \in CallNo : Staged(n) ~> ~Staged(n)
=============================================================================
