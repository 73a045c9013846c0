------------------------------ MODULE Windows ------------------------------
(***************************************************************************)
(* The shell's windows (ccosel-shell: chrome.rs, media.rs, and the frame of *)
(* desktop.rs around them): where each is, maximised, minimised and back    *)
(* again, how an app sizes its own, and the browser's players laid over     *)
(* them.                                                                   *)
(*                                                                         *)
(* A rect is a place and a size; every size of Sizes fits the desktop at    *)
(* every place of Places.  Stacking, looks and the pointer are left out: an *)
(* act is what the user's press and release come to in one frame.           *)
(***************************************************************************)
EXTENDS Integers, FiniteSets, Sequences

CONSTANTS
    AppIds,     \* the apps there are
    Placed,     \* remembered windows, being opened as the page starts
    Places,     \* where a window's top left corner may be
    Sizes,      \* how large it may be
    Start,      \* where egui puts a new window
    Draws,      \* what apps draw, see Blank
    None,
    MaxWindows, \* bound on the windows opened in one visit
    MaxUserActs,\* bound on what the user does in one visit
    MaxChanges  \* bound on how often an app draws something else

VARIABLES
    wins,    \* Desktop::windows, by instance id: see NewWin
    started, \* Desktop::inbox: launches that have loaded, in that order
    players, \* MediaOverlay::elements: what plays in which window
    opened,  \* how many windows have been opened
    userActs,
    changes  \* how often apps drew something else

wvars == <<wins, started, players, opened, userActs, changes>>

Ids     == 1..MaxWindows
Corner  == 0
Rect    == [pos : Places, size : Sizes]
WholeDesktop == [pos |-> Corner, size |-> "full"]

\* What an app draws: the size it asks for, what it plays, and whether that is
\* scrolled out of the window.
Blank == [asks |-> None, plays |-> None, scrolled |-> FALSE]

\* A launch, with Placement::default() or Placement::restored().
Fresh(app) ==
    [app |-> app, min |-> FALSE, from |-> None, restore |-> None, sized |-> FALSE]

Restored(app, rect, min, max) ==
    [app |-> app, min |-> min, from |-> IF max THEN rect ELSE None,
     restore |-> IF max THEN None ELSE rect, sized |-> TRUE]

ASSUME WindowsAssumption ==
    /\ Start \in Rect
    /\ Placed \subseteq {Restored(app, rect, min, max) :
                            app \in AppIds, rect \in Rect, min \in BOOLEAN, max \in BOOLEAN}
    /\ Draws \subseteq [asks : Sizes \cup {None}, plays : {d.plays : d \in Draws},
                        scrolled : BOOLEAN]
    /\ "full" \notin Sizes
    /\ None \notin [pos : Places \cup {Corner}, size : Sizes \cup {"full"}]
    /\ None \notin Places \cup {Corner} /\ None \notin Sizes
    /\ MaxWindows \in Nat /\ MaxUserActs \in Nat /\ MaxChanges \in Nat

NewWin(l, number) ==
    [app     |-> l.app,
     number  |-> number,      \* after the app's name in its title; 1 is left out
     min     |-> l.min,
     from    |-> l.from,      \* maximized_from
     restore |-> l.restore,   \* restore_to
     repos   |-> None,        \* reposition_to
     sized   |-> l.sized,
     rect    |-> None,        \* egui's area_rect
     draws   |-> Blank,       \* what its app draws in its next frame
     asked   |-> None,        \* what it asked for and played in its last one
     slot    |-> None,
     home    |-> IF l.from # None THEN l.from ELSE l.restore, \* (history) see GoesBack
     late    |-> FALSE]       \* (history) sized on its way back from full size

-----------------------------------------------------------------------------
(* One frame.                                                              *)

\* drain_inbox(): a number tells windows of one app apart, those that land together too.
Landed ==
    LET number(n) == 1 + Cardinality({i \in DOMAIN wins : wins[i].app = started[n].app})
                       + Cardinality({m \in 1..n - 1 : started[m].app = started[n].app})
    IN [i \in DOMAIN wins \cup {opened + n : n \in DOMAIN started} |->
          IF i \in DOMAIN wins THEN wins[i]
          ELSE NewWin(started[i - opened], number(i - opened))]

\* Placement::size_once.
SizeOnce(w) ==
    IF w.sized \/ w.from # None \/ w.rect = None \/ w.asked = None THEN w
    ELSE [w EXCEPT !.sized = TRUE,
                   !.restore = [pos |-> w.rect.pos, size |-> w.asked],
                   !.home.size = w.asked,
                   !.late = w.rect.size = "full" \/ w.repos # None]

\* Mutant: a window just back from full size is not moved to its place again.
PlaceOnce(w, egui, pushed) ==
    IF w.from # None THEN [w EXCEPT !.rect = WholeDesktop]
    ELSE IF w.restore # None
         THEN [w EXCEPT !.restore = None,
                        !.rect = IF pushed /\ w.rect # None /\ w.rect.size = "full"
                                 THEN [w.restore EXCEPT !.pos = Corner] ELSE w.restore]
    ELSE [w EXCEPT !.rect = egui, !.home = IF w.home = None THEN egui ELSE @]

\* Placement::place, with where egui would have the window: the frame that gives
\* a maximised window its old size back may push it to the corner.
Place(w, egui, pushed) ==
    IF w.from # None THEN [w EXCEPT !.rect = WholeDesktop]
    ELSE IF w.restore # None
         THEN [w EXCEPT !.restore = None, !.repos = w.restore.pos,
                        !.rect = IF pushed /\ w.rect # None /\ w.rect.size = "full"
                                 THEN [w.restore EXCEPT !.pos = Corner] ELSE w.restore]
    ELSE IF w.repos # None
         THEN [w EXCEPT !.repos = None, !.rect.pos = w.repos]
    ELSE [w EXCEPT !.rect = egui, !.home = IF w.home = None THEN egui ELSE @]

NoAct == [do |-> "nothing"]
Does(act, what, i) == act.do = what /\ act.id = i

Free(w) == w.from = None /\ w.restore = None /\ w.repos = None

\* Drawn by the app inside: a player that cannot be seen has no slot.
DrawnByApp(w) ==
    [w EXCEPT !.asked = w.draws.asks,
              !.slot  = IF w.draws.scrolled THEN None ELSE w.draws.plays]

\* Placement::toggle_maximized.
ToggleMaximized(w) ==
    IF w.from # None THEN [w EXCEPT !.restore = w.from, !.from = None]
    ELSE [w EXCEPT !.from = w.rect]

\* What the user drags or resizes, its home moves with.
Moved(w, act, i) ==
    IF Does(act, "move", i) /\ Free(w) /\ w.rect # None
    THEN [w EXCEPT !.rect = act.to, !.home = act.to] ELSE w

\* show_window(): placed, drawn, and then its title bar's buttons.
Show(w, i, act, pushed) ==
    LET sized == Moved(SizeOnce(w), act, i)
        drawn == DrawnByApp(Place(sized, IF sized.rect = None THEN Start ELSE sized.rect, pushed))
    IN IF Does(act, "maximise", i) THEN ToggleMaximized(drawn)
       ELSE IF Does(act, "minimise", i) THEN [drawn EXCEPT !.min = TRUE]
       ELSE drawn

\* sync_media(): the players of a minimised window are gone with it.
Visible(ws) == {i \in DOMAIN ws : ~ws[i].min}

\* Mutant: players are told apart by the app's widget alone.
SyncByWidget(ws) ==
    [i \in Ids |->
       IF i \in Visible(ws)
          /\ \A j \in Visible(ws) : j > i => ws[j].slot \in {None, ws[i].slot}
       THEN ws[i].slot ELSE None]

\* MediaOverlay::sync.
Sync(ws) == [i \in Ids |-> IF i \in Visible(ws) THEN ws[i].slot ELSE None]

\* Desktop::ui.  A click on the dock comes before the windows are drawn.
DesktopFrame(act, pushed) ==
    LET docked == [i \in DOMAIN Landed |->
                     [Landed[i] EXCEPT !.min = IF Does(act, "dock", i) THEN FALSE ELSE @]]
        shown  == [i \in DOMAIN docked |->
                     IF docked[i].min THEN docked[i]
                     ELSE Show(docked[i], i, act, pushed)]
        open   == [i \in {j \in DOMAIN shown : ~Does(act, "close", j)} |-> shown[i]]
    IN /\ wins' = open
       /\ players' = Sync(open)
       /\ started' = << >>
       /\ opened' = opened + Len(started)

\* Only what is drawn can be pressed, and a window that has just come back from
\* full size not in the one frame in which it may be pushed aside.
Pressable(act) ==
    IF act.do = "dock" THEN act.id \in DOMAIN wins
    ELSE /\ act.id \in DOMAIN wins
         /\ wins[act.id].rect # None /\ ~wins[act.id].min
         /\ act.do = "maximise" => wins[act.id].restore = None
         /\ act.do = "move" => act.to # wins[act.id].rect

Repaint == \E pushed \in BOOLEAN : DesktopFrame(NoAct, pushed) /\ UNCHANGED <<userActs, changes>>

Press(act) ==
    /\ userActs < MaxUserActs
    /\ userActs' = userActs + 1
    /\ Pressable(act)
    /\ \E pushed \in BOOLEAN : DesktopFrame(act, pushed)
    /\ UNCHANGED changes

-----------------------------------------------------------------------------
(* Everything outside the frame.                                           *)

\* A launch has loaded: from the app menu, from another app, or remembered.
Loaded(app) ==
    /\ opened + Len(started) < MaxWindows
    /\ started' = Append(started, Fresh(app))
    /\ UNCHANGED <<wins, players, opened, userActs, changes>>

\* The app will draw something else: it learns a picture's size, another file
\* is chosen, its view is scrolled.
Changes(i, d) ==
    /\ i \in DOMAIN wins /\ changes < MaxChanges
    /\ changes' = changes + 1
    /\ d # wins[i].draws
    /\ wins[i].draws.asks # None => d.asks = wins[i].draws.asks
    /\ wins' = [wins EXCEPT ![i].draws = d]
    /\ UNCHANGED <<started, players, opened, userActs>>

WInit ==
    /\ wins = << >>
    /\ started \in {<< >>} \cup {<<l>> : l \in Placed}
    /\ players = [i \in Ids |-> None]
    /\ opened = 0
    /\ userActs = 0
    /\ changes = 0

WNext ==
    \/ Repaint
    \/ \E i \in Ids, do \in {"dock", "minimise", "maximise", "close"} :
         Press([do |-> do, id |-> i])
    \/ \E i \in Ids, to \in Rect : Press([do |-> "move", id |-> i, to |-> to])
    \/ \E app \in AppIds : Loaded(app)
    \/ \E i \in Ids, d \in Draws : Changes(i, d)

WSpec == WInit /\ [][WNext]_wvars

-----------------------------------------------------------------------------
\* Where a window was: wherever the user, the app's one sizing, or the visit
\* before left it.
AtHome(w) ==
    /\ w.from # None => w.from = w.home
    /\ w.restore # None => w.restore = w.home
    /\ Free(w) /\ w.rect # None => w.rect = w.home

\* "The rect to go back to": however a window was maximised, minimised, sized
\* and remembered, once it is none of that any more it is where it was. Not so
\* for one that its app sizes on the way back from full size: see
\* KeepsItsCorner.
GoesBack == \A i \in DOMAIN wins : ~wins[i].late => AtHome(wins[i])

\* "Kept at the same top-left corner", said of every window.
KeepsItsCorner == \A i \in DOMAIN wins : AtHome(wins[i])

Stops(i, seen) ==
    \/ i \notin DOMAIN wins'
    \/ wins'[i].min
    \/ seen /\ wins'[i].draws.scrolled
    \/ wins'[i].draws.plays # players[i]

\* "Music isn't cut off by opening another window": a player is taken away only
\* if its window is closed or minimised, or its app plays something else, or
\* has scrolled it out of the window.
PlayersPlayOn ==
    [][\A i \in Ids : players[i] \notin {None, players'[i]} => Stops(i, TRUE)]_wvars

\* "The window closed or minimised, or the app stopped drawing it": and for no
\* other reason.
PlayersGoOnlyThen ==
    [][\A i \in Ids : players[i] \notin {None, players'[i]} => Stops(i, FALSE)]_wvars

\* "Two windows of the same app need distinguishable taskbar entries."
TitlesDistinct ==
    \A i, j \in DOMAIN wins :
      i # j => <<wins[i].app, wins[i].number>> # <<wins[j].app, wins[j].number>>

=============================================================================
