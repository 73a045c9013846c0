---------------------------- MODULE SessionProofs ----------------------------
(***************************************************************************)
(* The remembered desktop: the windows on their way are counted right, and *)
(* no save leaves out a window that was loaded, for any apps, remembered   *)
(* desktops and times, and whatever the user, the launches and the network *)
(* do meanwhile.  The argument is SInv; a frame is followed step by step   *)
(* (PageInv), with `gone' what will have been removed by its end.          *)
(*                                                                         *)
(* And the windows' places: each goes back to where it was, for any apps,   *)
(* places, sizes and presses.  The argument is PlaceInv; a window is        *)
(* followed through the steps of show_window().                            *)
(***************************************************************************)
EXTENDS DesktopSession, Windows, PendingTableProofs, FiniteSetTheorems, TLAPS

WindowSet == [app : Apps, min : BOOLEAN, drawn : BOOLEAN]
LaunchSet == [app : Apps, restored : BOOLEAN, min : BOOLEAN]
LandedSet == [launch : LaunchSet, ok : BOOLEAN]
EventSet  == [call : CallIds, ok : BOOLEAN, layout : Layouts]
LayoutSet == [known : BOOLEAN, layout : Layouts]
ReplySet  == [seq : Nat, ok : BOOLEAN, layout : Layouts]
WireSet   == [seq : Nat, req : Requests, st : {"sent", "done"}, ok : BOOLEAN,
              layout : Layouts, heard : BOOLEAN]

Page == [open : SUBSET WindowSet, opening : SUBSET LaunchSet, landed : SUBSET LandedSet,
         restoring : Nat, loadCall : Nat, nextCall : 1 .. MaxCalls + 1, saved : LayoutSet,
         left : NoWait .. SaveDelay, events : SUBSET EventSet, owed : Nat, wake : BOOLEAN,
         loaded : LayoutSet, lastSave : Nat]

\* The remembered windows on their way.
Returning(pg) == {l \in pg.opening \cup {x.launch : x \in pg.landed} : l.restored}

\* A remembered window is at one place only on its way.
OnWayOnce(pg) ==
  \A x \in pg.landed : x.launch.restored =>
    /\ x.launch \notin pg.opening
    /\ \A y \in pg.landed : x.launch = y.launch => x = y

Counted(pg) == IsFiniteSet(Returning(pg)) /\ pg.restoring = Cardinality(Returning(pg))

LoadedOnce(pg) ==
  /\ IF pg.loaded.known THEN pg.loadCall = 0 ELSE Returning(pg) = {}
  /\ pg.saved.known => pg.loaded.known

NotMin(layout) == {w \in layout : ~w.min}
Wanted(pg)     == AppsOf(Openable(NotMin(pg.loaded.layout)))

\* Windows that have been drawn, or will be in their first frame.
Shown(pg)     == {w \in pg.open : w.drawn \/ ~w.min}
AllDrawn(pg)  == \A w \in Shown(pg) : w.drawn

\* What was loaded, and not minimised, is open, on its way or gone.
Coming(pg, gone) == Wanted(pg) \subseteq gone \cup AppsOf(Shown(pg)) \cup AppsOf(NotMin(Returning(pg)))

PageInv(pg, gone) ==
  pg \in Page /\ OnWayOnce(pg) /\ Counted(pg) /\ LoadedOnce(pg) /\ Coming(pg, gone)

\* No save in the table leaves out what was loaded.
SavesOK(pg, t, gone) ==
  \A k \in Live(t) : t.entries[k].req.op = "save" =>
    /\ pg.loaded.known
    /\ Wanted(pg) \subseteq AppsOf(t.entries[k].req.layout) \cup gone

FrameInv(pg, t, gone) == PageInv(pg, gone) /\ TableType(t) /\ SavesOK(pg, t, gone)

NetworkOK == wire \subseteq WireSet /\ inbox \subseteq ReplySet /\ stored \in Layouts

SInv == FrameInv(page, table, removed) /\ NetworkOK

-----------------------------------------------------------------------------
(* Sets of windows and launches.                                           *)

LEMMA Numbers ==
  /\ MaxCalls \in Nat /\ MaxCalls >= 1 /\ SaveDelay \in Nat /\ SaveDelay >= 1
  /\ CallIds = 1 .. MaxCalls /\ CallNo = 1 .. MaxCalls /\ NoWait = -1
  /\ Windows = {Shell} /\ Installed \subseteq Apps /\ Remembered \subseteq Layouts
  BY SessionAssumption DEF SessionAssumption, CallNo, NoWait

LEMMA SameSize ==
  ASSUME NEW S, NEW T, IsFiniteSet(S), NEW f \in [S -> T],
         \A x, y \in S : f[x] = f[y] => x = y, \A z \in T : \E x \in S : f[x] = z
  PROVE  IsFiniteSet(T) /\ Cardinality(T) = Cardinality(S)
<1>1. f \in Injection(S, T) /\ f \in Surjection(S, T)
  BY DEF Injection, Surjection, IsInjective
<1> QED
  BY <1>1, FS_Surjection

LEMMA LayoutFinite ==
  ASSUME NEW layout \in Layouts
  PROVE  IsFiniteSet(Openable(layout)) /\ Cardinality(Openable(layout)) \in Nat
<1> DEFINE pairs == Apps \X BOOLEAN
           f == [w \in Openable(layout) |-> <<w.app, w.min>>]
<1>1. IsFiniteSet(BOOLEAN)
  <2>1. BOOLEAN = {TRUE} \cup {FALSE}
    OBVIOUS
  <2>2. IsFiniteSet({TRUE}) /\ IsFiniteSet({FALSE})
    BY FS_Singleton
  <2> QED
    BY <2>1, <2>2, FS_Union
<1>2. IsFiniteSet(pairs)
  BY <1>1, SessionAssumption, FS_Product DEF SessionAssumption
<1>3. \A w \in Openable(layout) : w \in [app : Apps, min : BOOLEAN]
  BY DEF Openable, Layouts
<1>4. f \in [Openable(layout) -> pairs]
  BY <1>3
<1>5. \A v, w \in Openable(layout) : f[v] = f[w] => v = w
  BY <1>3
<1> HIDE DEF f, pairs
<1>6. f \in Injection(Openable(layout), pairs)
  BY <1>4, <1>5 DEF Injection, IsInjective
<1> QED
  BY <1>2, <1>6, FS_Injection, FS_CardinalityType

-----------------------------------------------------------------------------
(* The steps of a frame, each from a page to a page.                       *)

LEMMA DrainCounts ==
  ASSUME NEW pg \in Page, OnWayOnce(pg), Counted(pg)
  PROVE  LET back == {l \in pg.landed : l.launch.restored}
             way  == {l \in pg.opening : l.restored}
         IN /\ pg.restoring - Cardinality(back) \in Nat
            /\ IsFiniteSet(way)
            /\ pg.restoring - Cardinality(back) = Cardinality(way)
<1> DEFINE back == {l \in pg.landed : l.launch.restored}
           way  == {l \in pg.opening : l.restored}
           came == {x.launch : x \in back}
           f == [l \in back |-> l.launch]
<1>1. /\ came \subseteq Returning(pg)
      /\ way = Returning(pg) \ came
  BY DEF Returning, OnWayOnce
<1>2. IsFiniteSet(came) /\ Cardinality(way) = Cardinality(Returning(pg)) - Cardinality(came)
  <2>1. Returning(pg) \cap came = came /\ came \in SUBSET Returning(pg)
    BY <1>1
  <2> HIDE DEF came, way
  <2>2. IsFiniteSet(Returning(pg))
    BY DEF Counted
  <2>3. IsFiniteSet(came)
    BY <2>1, <2>2, FS_Subset
  <2>4. Cardinality(Returning(pg) \ came) = Cardinality(Returning(pg)) - Cardinality(Returning(pg) \cap came)
    BY <2>2, FS_Difference
  <2> QED
    BY <1>1, <2>1, <2>3, <2>4
<1>3. Cardinality(back) = Cardinality(came)
  <2> DEFINE g == [l \in came |-> CHOOSE x \in back : x.launch = l]
  <2>1. \A l \in came : g[l] \in back /\ g[l].launch = l
    OBVIOUS
  <2>2. \A x \in back : g[x.launch] = x
    BY <2>1 DEF OnWayOnce
  <2> HIDE DEF g
  <2>3. DOMAIN g = came
    BY DEF g
  <2>4. g \in [came -> back]
    BY <2>1, <2>3 DEF g
  <2>5. \A x, y \in came : g[x] = g[y] => x = y
    BY <2>1
  <2>6. \A z \in back : \E x \in came : g[x] = z
    BY <2>2
  <2> HIDE DEF back, came
  <2> QED
    BY <1>2, <2>4, <2>5, <2>6, SameSize
<1>4. IsFiniteSet(way) /\ Cardinality(way) \in Nat /\ Cardinality(Returning(pg)) \in Nat
  BY <1>1, FS_Subset, FS_CardinalityType DEF Counted
<1>5. Cardinality(came) \in Nat
  BY <1>2, FS_CardinalityType
<1> HIDE DEF back, way, came
<1>6. pg.restoring - Cardinality(back) = Cardinality(way)
  BY <1>2, <1>3, <1>4, <1>5 DEF Counted
<1> QED
  BY <1>4, <1>6 DEF back, way

LEMMA DrainPage ==
  ASSUME NEW pg, NEW gone, PageInv(pg, gone), NEW g,
         gone \cup {x.launch.app : x \in {y \in pg.landed : ~y.ok}} \subseteq g
  PROVE  LET q == DrainInbox(pg) IN
         /\ PageInv(q, g) /\ q.landed = {}
         /\ q.loaded = pg.loaded
<1> DEFINE q == DrainInbox(pg)
           open == pg.open \cup LandedWindows(pg)
           n == pg.restoring - Cardinality({l \in pg.landed : l.launch.restored})
<1>1. q = [pg EXCEPT !.open = open, !.restoring = n, !.landed = {}]
  BY Zenon DEF DrainInbox
<1>2. n \in Nat /\ IsFiniteSet({l \in pg.opening : l.restored})
      /\ n = Cardinality({l \in pg.opening : l.restored})
  BY DrainCounts DEF PageInv
<1>3. LandedWindows(pg) \subseteq WindowSet
  <2>1. \A x \in pg.landed : x.launch \in LaunchSet
    BY DEF PageInv, Page, LandedSet
  <2>2. \A l \in LaunchSet : Window(l) \in WindowSet
    BY DEF LaunchSet, WindowSet, Window
  <2> QED
    BY <2>1, <2>2 DEF LandedWindows
<1>4. open \in SUBSET WindowSet
  <2>1. pg.open \in SUBSET WindowSet
    BY DEF PageInv, Page
  <2> QED
    BY <1>3, <2>1
<1> HIDE DEF q, open, n
<1>5. /\ q \in Page /\ q.open = open /\ q.restoring = n /\ q.landed = {}
      /\ q.opening = pg.opening /\ q.loaded = pg.loaded /\ q.saved = pg.saved
      /\ q.loadCall = pg.loadCall
  BY <1>1, <1>2, <1>4 DEF PageInv, Page
<1>6. Returning(q) = {l \in pg.opening : l.restored}
  BY <1>5 DEF Returning
<1>7. OnWayOnce(q) /\ Counted(q)
  BY <1>2, <1>5, <1>6 DEF OnWayOnce, Counted
<1>8. LoadedOnce(q)
  BY <1>5, <1>6 DEF PageInv, LoadedOnce, Returning
<1>9. Coming(q, g)
  <2> SUFFICES ASSUME NEW a \in Wanted(q), a \notin g
               PROVE  a \in AppsOf(Shown(q)) \cup AppsOf(NotMin(Returning(q)))
    BY DEF Coming
  <2>1. a \in AppsOf(Shown(pg)) \cup AppsOf(NotMin(Returning(pg)))
    BY <1>5 DEF PageInv, Coming, Wanted
  <2>2. CASE a \in AppsOf(Shown(pg))
    BY <1>5, <2>2 DEF AppsOf, Shown, open
  <2>3. CASE a \in AppsOf(NotMin(Returning(pg)))
    <3>1. PICK l \in Returning(pg) : ~l.min /\ l.app = a
      BY <2>3 DEF AppsOf, NotMin
    <3>2. CASE l \in pg.opening
      BY <1>6, <3>1, <3>2 DEF AppsOf, NotMin, Returning
    <3>3. CASE l \notin pg.opening
      <4>1. PICK x \in pg.landed : x.launch = l
        BY <3>1, <3>3 DEF Returning
      <4>2. x.ok
        BY <3>1, <4>1
      <4>3. Window(l) \in open
        BY <4>1, <4>2 DEF open, LandedWindows
      <4>4. Window(l).app = a /\ ~Window(l).min
        BY <3>1 DEF Window
      <4> QED
        BY <1>5, <4>3, <4>4 DEF AppsOf, Shown
    <3> QED
      BY <3>2, <3>3
  <2> QED
    BY <2>1, <2>2, <2>3
<1> QED
  BY <1>5, <1>7, <1>8, <1>9 DEF PageInv, q

\* A page that only hears of something, or is to be drawn again.
Hears(pg, events, owed, wake, left) ==
  [pg EXCEPT !.events = events, !.owed = owed, !.wake = wake, !.left = left]

LEMMA HearsPage ==
  ASSUME NEW pg, NEW gone, PageInv(pg, gone), NEW events \in SUBSET EventSet,
         NEW owed \in Nat, NEW wake \in BOOLEAN, NEW left \in NoWait .. SaveDelay
  PROVE  LET q == Hears(pg, events, owed, wake, left) IN
         PageInv(q, gone) /\ q.landed = pg.landed /\ q.loaded = pg.loaded
<1> DEFINE q == Hears(pg, events, owed, wake, left)
<1>1. /\ q \in Page /\ q.open = pg.open /\ q.restoring = pg.restoring /\ q.landed = pg.landed
      /\ q.opening = pg.opening /\ q.loaded = pg.loaded /\ q.saved = pg.saved
      /\ q.loadCall = pg.loadCall
  BY DEF PageInv, Page, Hears
<1> HIDE DEF q
<1>2. Returning(q) = Returning(pg) /\ Shown(q) = Shown(pg) /\ Wanted(q) = Wanted(pg)
  BY <1>1 DEF Returning, Shown, Wanted
<1> QED
  BY <1>1, <1>2 DEF PageInv, OnWayOnce, Counted, LoadedOnce, Coming, q

LEMMA RestorePage ==
  ASSUME NEW pg \in Page, NEW layout \in Layouts, pg.landed = {}, Returning(pg) = {},
         Counted(pg), pg.loadCall = 0, NEW gone
  PROVE  LET q == Restore(pg, layout) IN
         PageInv(q, gone) /\ q.landed = {}
<1> DEFINE q == Restore(pg, layout)
           O == Openable(layout)
           new == {Launch(w.app, TRUE, w.min) : w \in O}
           n == pg.restoring + Cardinality(O)
<1>1. q = [pg EXCEPT !.opening = @ \cup new, !.restoring = n, !.saved = Known(layout),
                     !.loaded = Known(layout), !.left = NoWait]
  BY Zenon DEF Restore
<1>2. O \subseteq [app : Apps, min : BOOLEAN] /\ IsFiniteSet(O) /\ Cardinality(O) \in Nat
  BY LayoutFinite DEF Openable, Layouts
<1>3. new \subseteq LaunchSet /\ \A l \in new : l.restored
  <2>1. \A w \in O : /\ Launch(w.app, TRUE, w.min) \in LaunchSet
                     /\ Launch(w.app, TRUE, w.min).restored
    BY <1>2 DEF Launch, LaunchSet
  <2> HIDE DEF O
  <2> QED
    BY <2>1
<1>4. IsFiniteSet(new) /\ Cardinality(new) = Cardinality(O)
  <2> DEFINE f == [w \in O |-> Launch(w.app, TRUE, w.min)]
  <2>1. f \in [O -> new] /\ \A z \in new : \E x \in O : f[x] = z
    OBVIOUS
  <2>2. \A x, y \in O : f[x] = f[y] => x = y
    BY <1>2 DEF Launch
  <2> HIDE DEF f, O, new
  <2> QED
    BY <1>2, <2>1, <2>2, SameSize
<1>5. pg.restoring = 0
  BY FS_EmptySet DEF Counted
<1>6. Known(layout) \in LayoutSet /\ Known(layout).known /\ Known(layout).layout = layout
  BY DEF Known, LayoutSet
<1> HIDE DEF q, new, n, O
<1>7. n \in Nat /\ n = Cardinality(new) /\ NoWait \in NoWait .. SaveDelay
  BY <1>2, <1>4, <1>5, Numbers DEF n
<1>8. /\ q \in Page /\ q.open = pg.open /\ q.restoring = n /\ q.landed = {}
      /\ q.opening = pg.opening \cup new /\ q.loaded = Known(layout) /\ q.saved = Known(layout)
      /\ q.loadCall = 0
  BY <1>1, <1>3, <1>6, <1>7 DEF Page
<1>9. Returning(q) = new
  BY <1>3, <1>8 DEF Returning
<1>10. OnWayOnce(q) /\ Counted(q) /\ LoadedOnce(q)
  BY <1>4, <1>6, <1>7, <1>8, <1>9 DEF OnWayOnce, Counted, LoadedOnce
<1>11. Coming(q, gone)
  <2> SUFFICES ASSUME NEW a \in Wanted(q) PROVE a \in AppsOf(NotMin(new))
    BY <1>9 DEF Coming
  <2>1. PICK w \in layout : ~w.min /\ w.app = a /\ w.app \in Installed
    BY <1>6, <1>8 DEF Wanted, AppsOf, Openable, NotMin
  <2>2. Launch(w.app, TRUE, w.min) \in new
    BY <2>1 DEF new, O, Openable
  <2> QED
    BY <2>1, <2>2 DEF AppsOf, NotMin, Launch
<1> QED
  BY <1>8, <1>10, <1>11 DEF PageInv, q

LEMMA ShellCallsPage ==
  ASSUME NEW pg, NEW gone, PageInv(pg, gone), pg.landed = {}
  PROVE  LET q == DrainShellCalls(pg) IN
         /\ PageInv(q, gone) /\ q.landed = {}
         /\ q.loaded = pg.loaded \/ ~pg.loaded.known
<1> DEFINE q == DrainShellCalls(pg)
           loads == {e \in pg.events : e.call = pg.loadCall}
           n == IF loads = {} THEN pg.loadCall ELSE 0
           heard == [pg EXCEPT !.events = {}, !.loadCall = n]
           one == CHOOSE e \in loads : TRUE
<1>1. q = IF \E e \in loads : e.ok THEN Restore(heard, one.layout) ELSE heard
  BY Zenon DEF DrainShellCalls
<1>2. \A e \in pg.events : e.call \in CallIds /\ e.layout \in Layouts
  BY DEF PageInv, Page, EventSet
<1>3. loads # {} => /\ ~pg.loaded.known /\ Returning(pg) = {} /\ n = 0
                    /\ one.layout \in Layouts
  <2> SUFFICES ASSUME loads # {} PROVE ~pg.loaded.known /\ one \in loads
    BY <1>2 DEF PageInv, LoadedOnce
  <2>1. one \in loads
    OBVIOUS
  <2>2. pg.loadCall \in 1 .. MaxCalls
    BY <1>2, <2>1, Numbers
  <2> QED
    BY <2>1, <2>2, Numbers DEF PageInv, LoadedOnce
<1> HIDE DEF one
<1>4. n \in Nat /\ (pg.loadCall = 0 => n = 0)
  BY DEF PageInv, Page
<1> HIDE DEF n, loads
<1>5. /\ heard \in Page /\ heard.open = pg.open /\ heard.restoring = pg.restoring
      /\ heard.landed = {} /\ heard.opening = pg.opening /\ heard.loaded = pg.loaded
      /\ heard.saved = pg.saved /\ heard.loadCall = n
  BY <1>4 DEF PageInv, Page
<1> HIDE DEF heard
<1>6. Returning(heard) = Returning(pg) /\ Shown(heard) = Shown(pg) /\ Wanted(heard) = Wanted(pg)
  BY <1>5 DEF Returning, Shown, Wanted, PageInv
<1>7. PageInv(heard, gone)
  BY <1>4, <1>5, <1>6 DEF PageInv, OnWayOnce, Counted, LoadedOnce, Coming
<1>8. CASE \E e \in loads : e.ok
  <2>1. loads # {}
    BY <1>8
  <2> QED
    BY <1>1, <1>3, <1>5, <1>6, <1>7, <1>8, <2>1, RestorePage DEF PageInv
<1>9. CASE ~ \E e \in loads : e.ok
  BY <1>1, <1>5, <1>7, <1>9
<1> QED
  BY <1>8, <1>9

\* The window w after a frame in which it is drawn, and after the dock's turn.
Undocked(w, act) == [w EXCEPT !.min = @ /\ act # [do |-> "dock", app |-> w.app]]
Drawn(w, act) ==
  [w EXCEPT !.drawn = @ \/ ~w.min, !.min = @ \/ act = [do |-> "minimise", app |-> w.app]]

LEMMA DrawnWindow ==
  ASSUME NEW w \in WindowSet, NEW act
  PROVE  LET v == Drawn(Undocked(w, act), act) IN
         /\ v \in WindowSet /\ v.app = w.app
         /\ v.drawn \/ v.min
         /\ w.drawn \/ ~w.min => v.drawn
<1> DEFINE m == w.min /\ act # [do |-> "dock", app |-> w.app]
           u == [w EXCEPT !.min = m]
           n == m \/ act = [do |-> "minimise", app |-> w.app]
<1>1. m \in BOOLEAN /\ n \in BOOLEAN /\ (m => n) /\ (~w.min => ~m)
  BY DEF WindowSet
<1>2. Undocked(w, act) = u
  BY Zenon DEF Undocked
<1> HIDE DEF m, n
<1>3. u \in WindowSet /\ u.app = w.app /\ u.min = m /\ u.drawn = w.drawn
  BY <1>1 DEF WindowSet
<1> HIDE DEF u
<1>4. Drawn(u, act) = [u EXCEPT !.drawn = u.drawn \/ ~u.min,
                                !.min = u.min \/ act = [do |-> "minimise", app |-> u.app]]
  BY Zenon DEF Drawn
<1>5. (u.min \/ act = [do |-> "minimise", app |-> u.app]) = n
  BY <1>1, <1>3 DEF n
<1>6. Drawn(u, act) = [u EXCEPT !.drawn = u.drawn \/ ~u.min, !.min = n]
  BY <1>4, <1>5
<1>7. /\ Drawn(u, act) \in WindowSet /\ Drawn(u, act).app = u.app
      /\ Drawn(u, act).drawn = (u.drawn \/ ~u.min) /\ Drawn(u, act).min = n
  BY <1>1, <1>3, <1>6 DEF WindowSet
<1> QED
  BY <1>1, <1>2, <1>3, <1>7

LEMMA ActPage ==
  ASSUME NEW pg, NEW gone, PageInv(pg, gone), pg.landed = {}, NEW act,
         act.do = "close" => act.app \in gone
  PROVE  LET q == Act(pg, act) IN
         /\ PageInv(q, gone) /\ AllDrawn(q) /\ q.landed = {}
         /\ q.loaded = pg.loaded
<1> DEFINE q == Act(pg, act)
           closes(w) == act = [do |-> "close", app |-> w.app]
           open == DrawWindows(Opened(pg.open, act), act)
           new == {Launch(a, FALSE, FALSE) : a \in {x \in Apps : act = [do |-> "open", app |-> x]}}
<1>1. q = [pg EXCEPT !.open = open, !.opening = pg.opening \cup new]
  BY Zenon DEF Act
<1>2. pg.open \subseteq WindowSet
  BY DEF PageInv, Page
<1>3. /\ \A v \in open : \E w \in pg.open : v = Drawn(Undocked(w, act), act)
      /\ \A w \in pg.open : closes(w) \/ Drawn(Undocked(w, act), act) \in open
  <2>1. Opened(pg.open, act) = {Undocked(w, act) : w \in pg.open}
    BY Zenon DEF Opened, Undocked
  <2>2. open = {Drawn(u, act) : u \in {x \in Opened(pg.open, act) : ~closes(x)}}
    BY Zenon DEF DrawWindows, Drawn
  <2>3. \A w \in pg.open : Undocked(w, act).app = w.app
    BY <1>2 DEF Undocked, WindowSet
  <2> HIDE DEF open
  <2> QED
    BY <2>1, <2>2, <2>3
<1>4. open \in SUBSET WindowSet /\ \A v \in open : v.drawn \/ v.min
  BY <1>2, <1>3, DrawnWindow
<1>5. new \subseteq LaunchSet /\ \A l \in new : ~l.restored
  <2>1. \A a \in Apps : Launch(a, FALSE, FALSE) \in LaunchSet /\ ~Launch(a, FALSE, FALSE).restored
    BY DEF Launch, LaunchSet
  <2> QED
    BY <2>1
<1> HIDE DEF q, open, new
<1>6. /\ q \in Page /\ q.open = open /\ q.restoring = pg.restoring /\ q.landed = {}
      /\ q.opening = pg.opening \cup new /\ q.loaded = pg.loaded /\ q.saved = pg.saved
      /\ q.loadCall = pg.loadCall
  BY <1>1, <1>4, <1>5 DEF PageInv, Page
<1>7. Returning(q) = Returning(pg) /\ Wanted(q) = Wanted(pg)
  BY <1>5, <1>6 DEF Returning, Wanted
<1>8. AllDrawn(q)
  BY <1>4, <1>6 DEF AllDrawn, Shown
<1>9. AppsOf(Shown(pg)) \subseteq gone \cup AppsOf(Shown(q))
  <2> SUFFICES ASSUME NEW w \in Shown(pg), w.app \notin gone
               PROVE  \E v \in Shown(q) : v.app = w.app
    BY DEF AppsOf
  <2>1. w \in pg.open /\ w \in WindowSet /\ (w.drawn \/ ~w.min)
    BY <1>2 DEF Shown
  <2>2. ~closes(w)
    OBVIOUS
  <2>3. Drawn(Undocked(w, act), act) \in open
    BY <1>3, <2>1, <2>2
  <2> QED
    BY <1>6, <2>1, <2>3, DrawnWindow DEF Shown
<1>10. Coming(q, gone)
  BY <1>7, <1>9 DEF PageInv, Coming
<1> QED
  BY <1>6, <1>7, <1>8, <1>10 DEF PageInv, OnWayOnce, Counted, LoadedOnce, q

LEMMA LayoutOf ==
  ASSUME NEW pg \in Page
  PROVE  /\ Layout(pg) \in Layouts
         /\ AllDrawn(pg) => AppsOf(Shown(pg)) \subseteq AppsOf(Layout(pg))
<1>1. pg.open \subseteq WindowSet
  BY DEF Page
<1>2. \A w \in WindowSet : /\ Saved(w.app, w.min) \in [app : Apps, min : BOOLEAN]
                          /\ Saved(w.app, w.min).app = w.app
  BY DEF WindowSet, Saved
<1> QED
  BY <1>1, <1>2 DEF Layout, Layouts, AllDrawn, Shown, AppsOf

\* The page that has just made a save.
SavedNow(pg, layout) ==
  [pg EXCEPT !.wake = FALSE, !.left = NoWait, !.saved = Known(layout),
             !.lastSave = pg.nextCall, !.nextCall = @ + 1]

LEMMA SavedPage ==
  ASSUME NEW pg, NEW gone, PageInv(pg, gone), pg.loaded.known, NEW layout \in Layouts,
         pg.nextCall <= MaxCalls
  PROVE  LET q == SavedNow(pg, layout) IN
         PageInv(q, gone) /\ q.loaded = pg.loaded
<1> DEFINE q == SavedNow(pg, layout)
<1>1. Known(layout) \in LayoutSet /\ NoWait \in NoWait .. SaveDelay
  BY Numbers DEF Known, LayoutSet
<1>2. pg.nextCall \in Nat /\ pg.nextCall + 1 \in 1 .. MaxCalls + 1
  BY Numbers DEF PageInv, Page
<1>3. /\ q \in Page /\ q.open = pg.open /\ q.restoring = pg.restoring /\ q.landed = pg.landed
      /\ q.opening = pg.opening /\ q.loaded = pg.loaded /\ q.loadCall = pg.loadCall
  BY <1>1, <1>2 DEF PageInv, Page, SavedNow
<1> HIDE DEF q
<1>4. Returning(q) = Returning(pg) /\ Shown(q) = Shown(pg) /\ Wanted(q) = Wanted(pg)
  BY <1>3 DEF Returning, Shown, Wanted
<1> QED
  BY <1>3, <1>4 DEF PageInv, OnWayOnce, Counted, LoadedOnce, Coming, q

-----------------------------------------------------------------------------
(* The steps of a frame that change the table as well.                     *)

LEMMA SavesStay ==
  ASSUME NEW pg, NEW q, NEW t, NEW u, NEW gone, NEW g, SavesOK(pg, t, gone), gone \subseteq g,
         q.loaded = pg.loaded \/ ~pg.loaded.known,
         Live(u) \subseteq Live(t), \A k \in Live(u) : u.entries[k].req = t.entries[k].req
  PROVE  SavesOK(q, u, g)
  BY DEF SavesOK, Wanted

LEMMA WithoutEntries ==
  ASSUME NEW t, NEW K
  PROVE  /\ Live(Without(t, K)) \subseteq Live(t)
         /\ \A k \in Live(Without(t, K)) : Without(t, K).entries[k] = t.entries[k]
  BY DEF Without, Live, Except

LEMMA ResolveEntries ==
  ASSUME NEW t, NEW S
  PROVE  /\ Live(ResolveIn(t, S)) \subseteq Live(t)
         /\ \A k \in Live(ResolveIn(t, S)) : ResolveIn(t, S).entries[k] = t.entries[k]
<1>1. DropGroups(t, S).entries = t.entries
  BY DEF DropGroups
<1> QED
  BY <1>1, WithoutEntries DEF ResolveIn, Live

LEMMA EventOfCall ==
  ASSUME NEW k \in Key, NEW ok \in BOOLEAN, NEW layout \in Layouts
  PROVE  EventOf(k, ok, layout) \in EventSet
  BY DEF Key, EventOf, EventSet

LEMMA EventsPage ==
  ASSUME NEW pg, NEW gone, PageInv(pg, gone), NEW events \in SUBSET EventSet
  PROVE  LET q == [pg EXCEPT !.events = pg.events \cup events] IN
         /\ PageInv(q, gone) /\ q.landed = pg.landed /\ q.loaded = pg.loaded
<1> DEFINE q == [pg EXCEPT !.events = pg.events \cup events]
<1>1. /\ pg.events \cup events \in SUBSET EventSet /\ pg.owed \in Nat /\ pg.wake \in BOOLEAN
      /\ pg.left \in NoWait .. SaveDelay
  BY DEF PageInv, Page
<1>2. q = Hears(pg, pg.events \cup events, pg.owed, pg.wake, pg.left)
  BY DEF PageInv, Page, Hears
<1> HIDE DEF q
<1> QED
  BY <1>1, <1>2, HearsPage DEF q

LEMMA RepliesFrame ==
  ASSUME NetworkOK, NEW pg, NEW t, NEW gone, FrameInv(pg, t, gone)
  PROVE  LET f == TakeReplies([pg |-> pg, t |-> t]) IN
         /\ FrameInv(f.pg, f.t, gone) /\ f.pg.landed = pg.landed
<1> DEFINE f == TakeReplies([pg |-> pg, t |-> t])
           S == {r.seq : r \in inbox}
           reply(k) == CHOOSE r \in inbox : r.seq \in DOMAIN t.groups /\ k \in t.groups[r.seq]
           events == {EventOf(k, reply(k).ok, reply(k).layout) : k \in Members(t, S)}
           q == [pg EXCEPT !.events = pg.events \cup events]
<1>1. CASE inbox = {}
  BY <1>1 DEF TakeReplies
<1>2. CASE inbox # {}
  <2>1. f.pg = q /\ f.t = ResolveIn(t, S)
    BY <1>2 DEF TakeReplies
  <2>2. \A k \in Members(t, S) : k \in Key /\ reply(k) \in inbox
    BY DEF Members, FrameInv, TableType
  <2> HIDE DEF reply
  <2>3. \A k \in Members(t, S) : EventOf(k, reply(k).ok, reply(k).layout) \in EventSet
    BY <2>2, EventOfCall DEF NetworkOK, ReplySet
  <2>4. events \in SUBSET EventSet
    BY <2>3
  <2> HIDE DEF events, S, f
  <2>5. PageInv(q, gone) /\ q.landed = pg.landed /\ q.loaded = pg.loaded
    BY <2>4, EventsPage DEF FrameInv
  <2> HIDE DEF q
  <2> QED
    BY <2>1, <2>5, ResolveType, ResolveEntries, SavesStay DEF FrameInv, f
<1> QED
  BY <1>1, <1>2

LEMMA TickFrame ==
  ASSUME NEW pg, NEW t, NEW gone, FrameInv(pg, t, gone)
  PROVE  LET f == TickPage([pg |-> pg, t |-> t]) IN
         /\ FrameInv(f.pg, f.t, gone) /\ f.pg.landed = pg.landed
<1> DEFINE f == TickPage([pg |-> pg, t |-> t])
           expired == Overdue(t)
           events == {EventOf(k, FALSE, {}) : k \in expired}
           q == [pg EXCEPT !.events = pg.events \cup events]
<1>1. f.pg = q /\ f.t = Without(t, expired)
  BY DEF TickPage
<1>2. expired \subseteq Key /\ {} \in Layouts
  BY DEF Overdue, FrameInv, TableType, Layouts
<1>3. events \in SUBSET EventSet
  BY <1>2, EventOfCall
<1> HIDE DEF events, expired, f
<1>4. PageInv(q, gone) /\ q.landed = pg.landed /\ q.loaded = pg.loaded
  BY <1>3, EventsPage DEF FrameInv
<1> HIDE DEF q
<1> QED
  BY <1>1, <1>4, WithoutType, WithoutEntries, SavesStay DEF FrameInv, f

LEMMA EnqueueEntries ==
  ASSUME NEW t, NEW k, NEW n, NEW r
  PROVE  LET u == EnqueueIn(t, k, n, r) IN
         /\ k \in Live(u) /\ u.entries[k].req = r
         /\ \A j \in Live(u) : j # k => j \in Live(t) /\ u.entries[j] = t.entries[j]
<1>1. ASSUME NEW x
      PROVE  /\ Live(Insert(x, k, n, r)) = Live(x) \cup {k}
             /\ Insert(x, k, n, r).entries[k].req = r
             /\ \A j \in Live(x) : j # k => Insert(x, k, n, r).entries[j] = x.entries[j]
  BY DEF Insert, With, Live
<1> QED
  BY <1>1, WithoutEntries DEF EnqueueIn

LEMMA AutosaveFrame ==
  ASSUME NEW pg, NEW t, NEW gone, FrameInv(pg, t, gone), pg.landed = {}, AllDrawn(pg),
         Autosave([pg |-> pg, t |-> t]).pg.nextCall <= MaxCalls + 1
  PROVE  LET f == Autosave([pg |-> pg, t |-> t]) IN FrameInv(f.pg, f.t, gone)
<1> DEFINE f == Autosave([pg |-> pg, t |-> t])
           drowsy == [pg EXCEPT !.wake = FALSE]
           layout == Layout(pg)
           saved == SavedNow(pg, layout)
<1>1. pg \in Page /\ PageInv(pg, gone)
  BY DEF FrameInv, PageInv
<1>2. /\ drowsy \in Page /\ drowsy.restoring = pg.restoring /\ drowsy.opening = pg.opening
      /\ drowsy.open = pg.open /\ drowsy.saved = pg.saved /\ drowsy.nextCall = pg.nextCall
      /\ drowsy.left = pg.left
  BY <1>1 DEF Page
<1>3. /\ Settled(drowsy) = Settled(pg) /\ Differs(drowsy) = Differs(pg) /\ Layout(drowsy) = layout
  BY <1>2 DEF Settled, Differs, Layout
<1>4. \/ \E left \in NoWait .. SaveDelay, wake \in BOOLEAN :
            f.pg = Hears(pg, pg.events, pg.owed, wake, left) /\ f.t = t
      \/ /\ Settled(pg) /\ Differs(pg)
         /\ f.pg = saved /\ f.t = EnqueueIn(t, Shells(pg.nextCall), pg.nextCall, Save(layout))
  <2> DEFINE as(wake, left) == Hears(pg, pg.events, pg.owed, wake, left)
  <2>1. pg.left \in NoWait .. SaveDelay /\ NoWait \in NoWait .. SaveDelay /\ SaveDelay \in NoWait .. SaveDelay
    BY <1>1, Numbers DEF Page
  <2>2. /\ drowsy = as(FALSE, pg.left)
        /\ [drowsy EXCEPT !.left = NoWait] = as(FALSE, NoWait)
        /\ [drowsy EXCEPT !.left = SaveDelay, !.wake = TRUE] = as(TRUE, SaveDelay)
        /\ [drowsy EXCEPT !.wake = TRUE] = as(TRUE, pg.left)
    BY <1>1 DEF Page, Hears
  <2>3. [[drowsy EXCEPT !.left = NoWait] EXCEPT !.saved = Known(layout), !.lastSave = drowsy.nextCall,
                                               !.nextCall = @ + 1] = saved
    BY <1>1, <1>2 DEF Page, SavedNow
  <2>4. \/ f = [pg |-> drowsy, t |-> t]
        \/ f = [pg |-> [drowsy EXCEPT !.left = NoWait], t |-> t]
        \/ f = [pg |-> [drowsy EXCEPT !.left = SaveDelay, !.wake = TRUE], t |-> t]
        \/ f = [pg |-> [drowsy EXCEPT !.wake = TRUE], t |-> t]
        \/ /\ Settled(drowsy) /\ Differs(drowsy)
           /\ f = [pg |-> [[drowsy EXCEPT !.left = NoWait] EXCEPT
                             !.saved = Known(Layout(drowsy)), !.lastSave = drowsy.nextCall,
                             !.nextCall = @ + 1],
                   t |-> EnqueueIn(t, Shells(drowsy.nextCall), drowsy.nextCall, Save(Layout(drowsy)))]
    BY Zenon DEF Autosave
  <2>5. \/ f = [pg |-> as(FALSE, pg.left), t |-> t]
        \/ f = [pg |-> as(FALSE, NoWait), t |-> t]
        \/ f = [pg |-> as(TRUE, SaveDelay), t |-> t]
        \/ f = [pg |-> as(TRUE, pg.left), t |-> t]
        \/ /\ Settled(pg) /\ Differs(pg)
           /\ f = [pg |-> saved,
                   t |-> EnqueueIn(t, Shells(pg.nextCall), pg.nextCall, Save(layout))]
    <3> HIDE DEF f, saved, layout
    <3> QED
      BY Zenon, <1>2, <1>3, <2>2, <2>3, <2>4
  <2> HIDE DEF f, saved, layout
  <2>6. ASSUME NEW p, NEW u, f = [pg |-> p, t |-> u] PROVE f.pg = p /\ f.t = u
    BY <2>6
  <2> HIDE DEF as
  <2>7. ASSUME NEW left \in NoWait .. SaveDelay, NEW wake \in BOOLEAN, f = [pg |-> as(wake, left), t |-> t]
        PROVE  \E l \in NoWait .. SaveDelay, w \in BOOLEAN : f.pg = as(w, l) /\ f.t = t
    BY <2>6, <2>7
  <2>8. FALSE \in BOOLEAN /\ TRUE \in BOOLEAN
    OBVIOUS
  <2>9. \/ \E left \in NoWait .. SaveDelay, wake \in BOOLEAN : f.pg = as(wake, left) /\ f.t = t
        \/ /\ Settled(pg) /\ Differs(pg)
           /\ f.pg = saved /\ f.t = EnqueueIn(t, Shells(pg.nextCall), pg.nextCall, Save(layout))
    BY Zenon, <2>1, <2>5, <2>6, <2>7, <2>8
  <2> QED
    BY <2>9 DEF as
<1> HIDE DEF f, drowsy
<1>5. ASSUME NEW left \in NoWait .. SaveDelay, NEW wake \in BOOLEAN,
             f.pg = Hears(pg, pg.events, pg.owed, wake, left),
             f.t = t
      PROVE  FrameInv(f.pg, f.t, gone)
  <2>1. pg.events \in SUBSET EventSet /\ pg.owed \in Nat
    BY <1>1 DEF Page
  <2>2. PageInv(f.pg, gone) /\ f.pg.loaded = pg.loaded
    BY <1>1, <1>5, <2>1, HearsPage
  <2> QED
    BY <1>5, <2>2, SavesStay DEF FrameInv
<1>6. ASSUME Settled(pg), Differs(pg), f.pg = saved,
             f.t = EnqueueIn(t, Shells(pg.nextCall), pg.nextCall, Save(layout))
      PROVE  FrameInv(f.pg, f.t, gone)
  <2>1. layout \in Layouts /\ AppsOf(Shown(pg)) \subseteq AppsOf(layout)
    BY <1>1, LayoutOf
  <2>2. pg.nextCall \in 1 .. MaxCalls
    <3>1. saved.nextCall = pg.nextCall + 1 /\ pg.nextCall \in 1 .. MaxCalls + 1
      BY <1>1 DEF Page, SavedNow
    <3>2. saved.nextCall <= MaxCalls + 1
      BY <1>6 DEF f
    <3> QED
      BY <3>1, <3>2, Numbers
  <2>3. pg.loaded.known
    BY <1>1, <1>6 DEF Differs, PageInv, LoadedOnce
  <2> HIDE DEF layout, saved
  <2>4. PageInv(saved, gone) /\ saved.loaded = pg.loaded
    BY <1>1, <2>1, <2>2, <2>3, SavedPage, Numbers DEF saved
  <2>5. Save(layout) \in Requests /\ Save(layout).layout = layout
    BY <2>1, SessionAssumption DEF SessionAssumption, Save
  <2>6. Shells(pg.nextCall) \in Key /\ pg.nextCall \in CallNo
    BY <2>2, Numbers DEF Shells, Key
  <2>7. TableType(f.t)
    BY <1>6, <2>5, <2>6, EnqueueType DEF FrameInv
  <2>8. Wanted(pg) \subseteq AppsOf(layout) \cup gone
    <3>1. Returning(pg) = {}
      BY <1>6 DEF Settled, Returning
    <3>2. Wanted(pg) \subseteq gone \cup AppsOf(Shown(pg)) \cup AppsOf(NotMin({}))
      BY <1>1, <3>1 DEF PageInv, Coming
    <3>3. AppsOf(NotMin({})) = {}
      BY DEF AppsOf, NotMin
    <3> QED
      BY <2>1, <3>2, <3>3
  <2>9. SavesOK(f.pg, f.t, gone)
    <3> SUFFICES ASSUME NEW k \in Live(f.t), f.t.entries[k].req.op = "save"
                 PROVE  /\ f.pg.loaded.known
                        /\ Wanted(f.pg) \subseteq AppsOf(f.t.entries[k].req.layout) \cup gone
      BY DEF SavesOK
    <3>1. Wanted(f.pg) = Wanted(pg) /\ f.pg.loaded.known
      BY <1>6, <2>3, <2>4 DEF Wanted
    <3>2. CASE k = Shells(pg.nextCall)
      BY <1>6, <2>5, <2>8, <3>1, <3>2, EnqueueEntries
    <3>3. CASE k # Shells(pg.nextCall)
      <4>1. k \in Live(t) /\ f.t.entries[k] = t.entries[k]
        BY <1>6, <3>3, EnqueueEntries
      <4> QED
        BY <3>1, <4>1 DEF FrameInv, SavesOK
    <3> QED
      BY <3>2, <3>3
  <2> QED
    BY <1>6, <2>4, <2>7, <2>9 DEF FrameInv
<1> QED
  BY <1>4, <1>5, <1>6 DEF f

-----------------------------------------------------------------------------
(* The steps.                                                              *)

LEMMA FreshOK == FrameInv(FreshPage, FreshTable, removed)
<1>1. TableType(EmptyTable) /\ Live(EmptyTable) = {}
  BY DEF TableType, EmptyTable, Live
<1>2. Shells(1) \in Key /\ 1 \in CallNo
  BY Numbers DEF Key, Shells
<1>3. Load \in Requests /\ Load.op = "load"
  BY SessionAssumption DEF SessionAssumption, Load
<1>4. TableType(FreshTable)
  BY <1>1, <1>2, <1>3, EnqueueType DEF FreshTable
<1>5. \A k \in Live(FreshTable) : FreshTable.entries[k].req = Load
  BY <1>1, EnqueueEntries DEF FreshTable
<1>6. FreshPage \in Page
  <2>1. /\ Unknown \in LayoutSet /\ NoWait \in NoWait .. SaveDelay /\ 2 \in 1 .. MaxCalls + 1
    BY Numbers DEF Unknown, LayoutSet, Layouts
  <2> HIDE DEF Unknown, NoWait
  <2> QED
    BY <2>1 DEF FreshPage, Page
<1>7. /\ Returning(FreshPage) = {} /\ FreshPage.restoring = 0 /\ FreshPage.landed = {}
      /\ FreshPage.loaded = Unknown /\ FreshPage.saved = Unknown
  BY DEF FreshPage, Returning
<1>8. Unknown.known = FALSE /\ Unknown.layout = {}
  BY DEF Unknown
<1>9. Wanted(FreshPage) = {}
  BY <1>7, <1>8 DEF Wanted, AppsOf, Openable, NotMin
<1> QED
  BY <1>3, <1>4, <1>5, <1>6, <1>7, <1>8, <1>9, FS_EmptySet
     DEF FrameInv, PageInv, OnWayOnce, Counted, LoadedOnce, Coming, SavesOK

LEMMA SInit ==
  ASSUME Init PROVE SInv
<1>1. NetworkOK
  BY Numbers DEF Init, NetworkOK
<1> QED
  BY <1>1, FreshOK DEF Init, SInv

LEMMA SFrame ==
  ASSUME SInv, NEW act, Frame(act)
  PROVE  SInv'
<1> DEFINE gone == removed'
           p1 == DrainInbox(page)
           f2 == TakeReplies([pg |-> p1, t |-> table])
           p3 == DrainShellCalls(f2.pg)
           f4 == TickPage([pg |-> p3, t |-> f2.t])
           p5 == Act(f4.pg, act)
           t5 == FlushIn(f4.t)
           f6 == Autosave([pg |-> p5, t |-> t5])
           owed == IF f6.pg.owed = 0 THEN 0 ELSE f6.pg.owed - 1
           sent == {[seq |-> o.seq, req |-> o.req, st |-> "sent", ok |-> FALSE,
                     layout |-> {}, heard |-> TRUE] : o \in f4.t.staged}
<1>1. /\ f6.pg.nextCall <= MaxCalls + 1 /\ page' = [f6.pg EXCEPT !.owed = owed] /\ table' = f6.t
      /\ wire' = wire \cup sent /\ inbox' = {} /\ UNCHANGED stored
  BY Zenon DEF Frame
<1>2. /\ removed \cup {l.launch.app : l \in {x \in page.landed : ~x.ok}} \subseteq gone
      /\ act.do = "close" => act.app \in gone
  BY DEF Frame
<1>3. FrameInv(p1, table, gone) /\ p1.landed = {}
  <2>1. PageInv(p1, gone) /\ p1.landed = {} /\ p1.loaded = page.loaded
    BY <1>2, DrainPage DEF SInv, FrameInv
  <2> HIDE DEF p1, gone
  <2> QED
    BY <1>2, <2>1, SavesStay DEF SInv, FrameInv
<1> HIDE DEF p1, gone
<1>4. FrameInv(f2.pg, f2.t, gone) /\ f2.pg.landed = {}
  BY <1>3, RepliesFrame DEF SInv
<1> HIDE DEF f2
<1>5. FrameInv(p3, f2.t, gone) /\ p3.landed = {}
  <2>1. PageInv(p3, gone) /\ p3.landed = {} /\ (p3.loaded = f2.pg.loaded \/ ~f2.pg.loaded.known)
    BY <1>4, ShellCallsPage DEF FrameInv
  <2> HIDE DEF p3
  <2> QED
    BY <1>4, <2>1, SavesStay DEF FrameInv
<1> HIDE DEF p3
<1>6. FrameInv(f4.pg, f4.t, gone) /\ f4.pg.landed = {}
  BY <1>5, TickFrame
<1> HIDE DEF f4
<1>7. FrameInv(p5, t5, gone) /\ p5.landed = {} /\ AllDrawn(p5)
  <2>1. PageInv(p5, gone) /\ AllDrawn(p5) /\ p5.landed = {} /\ p5.loaded = f4.pg.loaded
    BY <1>2, <1>6, ActPage DEF FrameInv
  <2>2. TableType(t5) /\ t5.entries = f4.t.entries
    BY <1>6, FlushType DEF FrameInv, FlushIn
  <2> HIDE DEF p5, t5
  <2> QED
    BY <1>6, <2>1, <2>2, SavesStay DEF FrameInv, Live
<1> HIDE DEF p5, t5
<1>8. FrameInv(f6.pg, f6.t, gone)
  BY <1>1, <1>7, AutosaveFrame
<1> HIDE DEF f6
<1>9. PageInv(page', gone) /\ page'.loaded = f6.pg.loaded
  <2>1. /\ f6.pg \in Page /\ f6.pg.owed \in Nat /\ f6.pg.events \in SUBSET EventSet
        /\ f6.pg.wake \in BOOLEAN /\ f6.pg.left \in NoWait .. SaveDelay
    BY <1>8 DEF FrameInv, PageInv, Page
  <2>2. owed \in Nat
    BY <2>1
  <2> HIDE DEF owed
  <2>3. page' = Hears(f6.pg, f6.pg.events, owed, f6.pg.wake, f6.pg.left)
    BY <1>1, <2>1 DEF Hears, Page
  <2> QED
    BY <1>8, <2>1, <2>2, <2>3, HearsPage DEF FrameInv
<1>10. sent \subseteq WireSet
  <2>1. \A o \in f4.t.staged : o.seq \in Nat /\ o.req \in Requests
    BY <1>6 DEF FrameInv, TableType, Outgoing
  <2>2. {} \in Layouts
    BY DEF Layouts
  <2>3. \A o \in f4.t.staged :
          [seq |-> o.seq, req |-> o.req, st |-> "sent", ok |-> FALSE,
           layout |-> {}, heard |-> TRUE] \in WireSet
    BY <2>1, <2>2 DEF WireSet
  <2> QED
    BY <2>3
<1> HIDE DEF sent
<1>11. NetworkOK'
  BY <1>1, <1>10 DEF SInv, NetworkOK
<1>12. FrameInv(page', table', removed')
  BY <1>1, <1>8, <1>9, SavesStay DEF FrameInv, gone
<1> QED
  BY <1>11, <1>12 DEF SInv

\* A launch that has landed is still one on its way.
LandedNow(pg, l, ok) ==
  [pg EXCEPT !.opening = @ \ {l}, !.landed = @ \cup {[launch |-> l, ok |-> ok]}]

LEMMA LandPage ==
  ASSUME NEW pg, NEW gone, PageInv(pg, gone), NEW l \in pg.opening, NEW ok \in BOOLEAN
  PROVE  LET q == LandedNow(pg, l, ok) IN
         PageInv(q, gone) /\ q.loaded = pg.loaded
<1> DEFINE q == LandedNow(pg, l, ok)
           x == [launch |-> l, ok |-> ok]
<1>1. l \in LaunchSet /\ x \in LandedSet /\ x.launch = l
  BY DEF PageInv, Page, LandedSet
<1>2. q = [pg EXCEPT !.opening = @ \ {l}, !.landed = @ \cup {x}]
  BY Zenon DEF LandedNow
<1> HIDE DEF x, q
<1>3. /\ q \in Page /\ q.open = pg.open /\ q.restoring = pg.restoring
      /\ q.landed = pg.landed \cup {x} /\ q.opening = pg.opening \ {l}
      /\ q.loaded = pg.loaded /\ q.saved = pg.saved /\ q.loadCall = pg.loadCall
  BY <1>1, <1>2 DEF PageInv, Page
<1>4. Returning(q) = Returning(pg) /\ Shown(q) = Shown(pg) /\ Wanted(q) = Wanted(pg)
  BY <1>1, <1>3 DEF Returning, Shown, Wanted
<1>5. OnWayOnce(q)
  BY <1>1, <1>3 DEF PageInv, OnWayOnce
<1> QED
  BY <1>3, <1>4, <1>5 DEF PageInv, Counted, LoadedOnce, Coming, q

LEMMA AskPage ==
  ASSUME NEW pg, NEW gone, PageInv(pg, gone)
  PROVE  PageInv(Ask(pg), gone) /\ Ask(pg).loaded = pg.loaded
<1>1. /\ pg \in Page /\ pg.events \in SUBSET EventSet /\ pg.wake \in BOOLEAN
      /\ pg.left \in NoWait .. SaveDelay
  BY DEF PageInv, Page
<1>2. Ask(pg) = Hears(pg, pg.events, 2, pg.wake, pg.left)
  BY <1>1 DEF Ask, Hears, Page
<1> QED
  BY <1>1, <1>2, HearsPage

LEMMA SLand ==
  ASSUME SInv, NEW l \in page.opening, NEW ok \in BOOLEAN, Land(l, ok)
  PROVE  SInv'
<1>1. page' = Ask(LandedNow(page, l, ok)) /\ UNCHANGED <<table, wire, inbox, stored, removed>>
  BY Zenon DEF Land, LandedNow
<1>2. PageInv(LandedNow(page, l, ok), removed) /\ LandedNow(page, l, ok).loaded = page.loaded
  BY LandPage DEF SInv, FrameInv
<1>3. PageInv(page', removed) /\ page'.loaded = page.loaded
  BY <1>1, <1>2, AskPage
<1>4. FrameInv(page', table, removed)
  BY <1>3, SavesStay DEF SInv, FrameInv
<1> QED
  BY <1>1, <1>4 DEF SInv, NetworkOK

LEMMA SElapse ==
  ASSUME SInv, Elapse
  PROVE  SInv'
<1> DEFINE left == IF page.left > 0 THEN page.left - 1 ELSE page.left
<1>1. table' = ElapseIn(table) /\ page' = [page EXCEPT !.left = left]
      /\ UNCHANGED <<wire, inbox, stored, removed>>
  BY Zenon DEF Elapse
<1>2. /\ page \in Page /\ page.events \in SUBSET EventSet /\ page.wake \in BOOLEAN
      /\ page.left \in NoWait .. SaveDelay /\ page.owed \in Nat
  BY DEF SInv, FrameInv, PageInv, Page
<1>3. left \in NoWait .. SaveDelay
  BY <1>2, Numbers
<1> HIDE DEF left
<1>4. page' = Hears(page, page.events, page.owed, page.wake, left)
  BY <1>1, <1>2 DEF Hears, Page
<1>5. PageInv(page', removed) /\ page'.loaded = page.loaded
  BY <1>2, <1>3, <1>4, HearsPage DEF SInv, FrameInv
<1>6. /\ Live(ElapseIn(table)) = Live(table)
      /\ \A k \in Live(table) : ElapseIn(table).entries[k].req = table.entries[k].req
  BY DEF ElapseIn, Live, Sooner
<1>7. FrameInv(page', table', removed)
  BY <1>1, <1>5, <1>6, ElapseType, SavesStay DEF SInv, FrameInv
<1> QED
  BY <1>1, <1>7 DEF SInv, NetworkOK

LEMMA SServe ==
  ASSUME SInv, NEW m \in wire, NEW ok \in BOOLEAN, Serve(m, ok)
  PROVE  SInv'
<1> DEFINE layout == IF m.req.op = "load" THEN stored ELSE {}
           n == [m EXCEPT !.st = "done", !.ok = ok, !.layout = layout]
<1>1. /\ stored' = m.req.layout \/ stored' = stored
      /\ wire' \subseteq wire \cup {n}
      /\ UNCHANGED <<page, table, inbox, removed>>
  BY Zenon DEF Serve
<1>2. m \in WireSet /\ layout \in Layouts
  BY DEF SInv, NetworkOK, Layouts
<1> HIDE DEF layout
<1>3. n \in WireSet
  BY <1>2 DEF WireSet
<1> HIDE DEF n
<1>4. m.req.layout \in Layouts
  <2>1. m.req \in Requests
    BY <1>2 DEF WireSet
  <2> QED
    BY <2>1, SessionAssumption DEF SessionAssumption, Load, Save, Layouts
<1>5. NetworkOK'
  BY <1>1, <1>3, <1>4 DEF SInv, NetworkOK
<1> QED
  BY <1>1, <1>5 DEF SInv

LEMMA UnheardWire ==
  ASSUME NEW m \in WireSet
  PROVE  Unheard(m) \subseteq WireSet
  BY DEF Unheard, WireSet

LEMMA SReply ==
  ASSUME SInv, NEW r \in ReplySet, inbox' = inbox \cup {r}, wire' \subseteq WireSet,
         page' = Ask(page), UNCHANGED <<table, stored, removed>>
  PROVE  SInv'
<1>1. PageInv(page', removed) /\ page'.loaded = page.loaded
  BY AskPage DEF SInv, FrameInv
<1>2. FrameInv(page', table, removed)
  BY <1>1, SavesStay DEF SInv, FrameInv
<1> QED
  BY <1>2 DEF SInv, NetworkOK

LEMMA SAnswer ==
  ASSUME SInv, NEW m \in wire, Answer(m)
  PROVE  SInv'
<1> DEFINE r == [seq |-> m.seq, ok |-> m.ok, layout |-> m.layout]
<1>1. inbox' = inbox \cup {r} /\ wire' = wire \ {m} /\ page' = Ask(page)
      /\ UNCHANGED <<table, stored, removed>>
  BY Zenon DEF Answer
<1>2. m \in WireSet /\ wire' \subseteq WireSet
  BY <1>1 DEF SInv, NetworkOK
<1>3. r \in ReplySet
  BY <1>2 DEF WireSet, ReplySet
<1> HIDE DEF r
<1> QED
  BY <1>1, <1>2, <1>3, SReply

LEMMA SFailPost ==
  ASSUME SInv, NEW m \in wire, FailPost(m)
  PROVE  SInv'
<1> DEFINE r == [seq |-> m.seq, ok |-> FALSE, layout |-> {}]
<1>1. inbox' = inbox \cup {r} /\ wire' = (wire \ {m}) \cup Unheard(m) /\ page' = Ask(page)
      /\ UNCHANGED <<table, stored, removed>>
  BY Zenon DEF FailPost
<1>2. m \in WireSet /\ wire' \subseteq WireSet
  BY <1>1, UnheardWire DEF SInv, NetworkOK
<1>3. r \in ReplySet
  BY <1>2 DEF WireSet, ReplySet, Layouts
<1> HIDE DEF r
<1> QED
  BY <1>1, <1>2, <1>3, SReply

LEMMA SReload ==
  ASSUME SInv, Reload
  PROVE  SInv'
<1>1. /\ page' = FreshPage /\ table' = FreshTable /\ inbox' = {} /\ UNCHANGED <<stored, removed>>
      /\ wire' = UNION {Unheard(m) : m \in wire}
  BY DEF Reload
<1>2. wire' \subseteq WireSet
  BY <1>1, UnheardWire DEF SInv, NetworkOK
<1>3. NetworkOK'
  BY <1>1, <1>2 DEF SInv, NetworkOK
<1>4. FrameInv(page', table', removed')
  BY <1>1, FreshOK
<1> QED
  BY <1>3, <1>4 DEF SInv

LEMMA SStep ==
  ASSUME SInv, [Next]_vars
  PROVE  SInv'
<1>1. CASE Redraw
  BY <1>1, SFrame DEF Redraw
<1>2. CASE Nudge
  BY <1>2, SFrame DEF Nudge
<1>3. CASE \E act \in Acts : UserActs(act)
  BY <1>3, SFrame DEF UserActs
<1>4. CASE \E l \in page.opening : \E ok \in BOOLEAN : Land(l, ok)
  BY <1>4, SLand
<1>5. CASE Elapse
  BY <1>5, SElapse
<1>6. CASE \E m \in wire : Answer(m) \/ FailPost(m) \/ \E ok \in BOOLEAN : Serve(m, ok)
  BY <1>6, SAnswer, SFailPost, SServe
<1>7. CASE Reload
  BY <1>7, SReload
<1>8. CASE UNCHANGED vars
  BY <1>8 DEF vars, SInv, NetworkOK
<1> QED
  BY <1>1, <1>2, <1>3, <1>4, <1>5, <1>6, <1>7, <1>8 DEF Next

(* The inductive invariant holds throughout.                               *)
THEOREM SessionInvariant == Spec => []SInv
  BY SInit, SStep, PTL DEF Spec

-----------------------------------------------------------------------------

LEMMA SInvGives ==
  ASSUME SInv PROVE SessionInv
<1>1. page \in Page /\ Counted(page) /\ NetworkOK /\ TableType(table)
  BY DEF SInv, FrameInv, PageInv
<1>2. RestoringCounts
  <2>1. TypeOK
    BY <1>1 DEF Page, WindowSet, LayoutSet, NetworkOK, TypeOK
  <2> QED
    BY <1>1, <2>1 DEF Counted, Returning, RestoringCounts
<1>3. SavesKeepLoaded
  <2> SUFFICES ASSUME NEW k \in Live(table), table.entries[k].req.op = "save"
               PROVE  /\ page.loaded.known
                      /\ Kept(table.entries[k].req.layout, {w \in page.loaded.layout : ~w.min})
    BY DEF SavesKeepLoaded, Saves
  <2> QED
    BY DEF SInv, FrameInv, SavesOK, Wanted, NotMin, Kept
<1> QED
  BY <1>2, <1>3 DEF SessionInv

(* `restoring' counts the remembered windows on their way, and no save,     *)
(* staged or sent, leaves out a window that was loaded: Desktop::restore,   *)
(* drain_inbox and autosave, in any order of launches, answers, failures,   *)
(* reloads and the user's doings.                                          *)
THEOREM SessionKept == Spec => []SessionInv
  BY SessionInvariant, SInvGives, PTL

-----------------------------------------------------------------------------
(* The windows' places.                                                     *)

Songs     == {d.plays : d \in Draws} \cup {None}
DrawSet   == [asks : Sizes \cup {None}, plays : Songs, scrolled : BOOLEAN]
Spots     == [pos : Places \cup {Corner}, size : Sizes]
MaybeSpot == Spots \cup {None}
WinSet    == [app : AppIds, number : Nat, min : BOOLEAN, from : MaybeSpot, restore : MaybeSpot,
              repos : Places \cup {Corner, None}, sized : BOOLEAN,
              rect : MaybeSpot \cup {WholeDesktop}, draws : DrawSet, asked : Sizes \cup {None},
              slot : Songs, home : MaybeSpot, late : BOOLEAN]
StartedSet == {Fresh(app) : app \in AppIds}
              \cup {Restored(app, rect, min, max) :
                      app \in AppIds, rect \in Rect, min \in BOOLEAN, max \in BOOLEAN}

\* What a window has shown is what its app draws.
Shows(w) == w.slot = IF w.draws.scrolled THEN None ELSE w.draws.plays

\* What goes with what in a window: at full size it is maximised, or about to get its old
\* rect back, and never both; it has a home once it has a place, or one to go to;
\* what was sized late was sized.
Coherent(w) ==
  /\ w.rect = WholeDesktop => w.from # None \/ w.restore # None
  /\ w.from # None => w.restore = None
  /\ w.home = None => w.rect = None /\ w.from = None /\ w.restore = None
  /\ w.rect = None => w.repos = None
  /\ w.late => w.sized
  /\ w.rect = None /\ w.from = None /\ w.restore = None => w.home = None

\* A window on its way home has the size already, and will have the place.
OnItsWay(w) ==
  w.from = None /\ w.restore = None /\ w.repos # None =>
    w.rect # None /\ w.repos = w.home.pos /\ w.rect.size = w.home.size

\* As it is while it is being drawn, and between frames.
Sound(w)  == w \in WinSet /\ Coherent(w) /\ (~w.late => AtHome(w) /\ OnItsWay(w))
AtRest(w) == Sound(w) /\ (w.restore # None => w.rect \in {None, WholeDesktop})

\* The inductive invariant of the windows.  That each is at home says nothing of how
\* it gets there: what it was made for and where it is agree (Coherent), and between
\* the frame that sizes it and the one that puts it back it is OnItsWay.  A window to
\* be given its old rect has not been drawn since it was maximised (AtRest).
PlaceInv ==
  /\ opened \in Nat
  /\ DOMAIN wins \subseteq 1..opened
  /\ wins = [i \in DOMAIN wins |-> wins[i]]
  /\ \A i \in DOMAIN wins : AtRest(wins[i])
  /\ started \in Seq(StartedSet)

-----------------------------------------------------------------------------
LEMMA SpotIs ==
  /\ None \notin Spots
  /\ \A s \in Spots : s.size # "full" /\ s # WholeDesktop /\ s.pos # None
                      /\ s = [pos |-> s.pos, size |-> s.size]
  /\ WholeDesktop.size = "full" /\ WholeDesktop # None
  /\ Start \in Spots /\ Rect \subseteq Spots
<1>1. \A s \in Spots : s.size # "full" /\ s.pos # None /\ s = [pos |-> s.pos, size |-> s.size]
  BY WindowsAssumption DEF Spots
<1>2. WholeDesktop.size = "full" /\ WholeDesktop # None
  BY WindowsAssumption DEF WholeDesktop
<1>4. None \notin Spots
  BY WindowsAssumption DEF Spots
<1>3. Start \in Spots /\ Rect \subseteq Spots
  BY WindowsAssumption DEF Rect, Spots
<1> QED BY <1>1, <1>2, <1>3, <1>4

LEMMA NewWinOK ==
  ASSUME NEW l \in StartedSet, NEW n \in Nat
  PROVE  AtRest(NewWin(l, n))
<1>1. Blank \in DrawSet
  BY DEF Blank, DrawSet, Songs
<1>2. CASE \E app \in AppIds : l = Fresh(app)
  BY <1>1, <1>2, SpotIs
  DEF Fresh, NewWin, AtRest, Sound, WinSet, Coherent, OnItsWay, AtHome, Free, MaybeSpot, Songs
<1>3. CASE \E app \in AppIds, rect \in Rect, min \in BOOLEAN, max \in BOOLEAN :
             l = Restored(app, rect, min, max)
  BY <1>1, <1>3, SpotIs
  DEF Restored, NewWin, AtRest, Sound, WinSet, Coherent, OnItsWay, AtHome, Free, MaybeSpot, Songs
<1> QED BY <1>2, <1>3 DEF StartedSet

\* The app's one sizing.
LEMMA SizeOnceOK ==
  ASSUME NEW w, AtRest(w)
  PROVE  /\ Sound(SizeOnce(w))
         /\ SizeOnce(w).from = w.from /\ SizeOnce(w).rect = w.rect
         /\ w.restore = None /\ ~SizeOnce(w).late /\ SizeOnce(w).restore # None =>
              SizeOnce(w).rect # WholeDesktop
<1>1. CASE w.sized \/ w.from # None \/ w.rect = None \/ w.asked = None
  BY <1>1 DEF SizeOnce, AtRest
<1>2. CASE ~(w.sized \/ w.from # None \/ w.rect = None \/ w.asked = None)
  <2> DEFINE spot == [pos |-> w.rect.pos, size |-> w.asked]
             home == [w.home EXCEPT !.size = w.asked]
             late == w.rect.size = "full" \/ w.repos # None
             x    == [w EXCEPT !.sized = TRUE, !.restore = spot, !.home = home, !.late = late]
  <2>1. w \in WinSet /\ Coherent(w)
    BY DEF AtRest, Sound
  <2>2. w.home \in Spots /\ w.rect \in Spots \cup {WholeDesktop}
    BY <1>2, <2>1 DEF Coherent, WinSet, MaybeSpot
  <2>3. spot \in Spots /\ home \in Spots /\ late \in BOOLEAN
    BY <1>2, <2>1, <2>2 DEF Spots, WholeDesktop, WinSet
  <2>4. SizeOnce(w) = x
    BY <1>2, <2>1 DEF SizeOnce, WinSet
  <2>5. ASSUME ~late PROVE spot = home /\ w.rect # WholeDesktop
    <3>1. w.rect \in Spots /\ w.repos = None
      BY <2>2, <2>5 DEF WholeDesktop
    <3>2. ~w.late
      BY <1>2, <2>1 DEF Coherent
    <3>3. w.rect = w.home
      BY <1>2, <2>1, <3>1, <3>2, SpotIs DEF AtRest, Sound, AtHome, Free
    <3> QED BY <2>2, <3>1, <3>3, SpotIs DEF Spots
  <2> HIDE DEF spot, home, late
  <2>6. x \in WinSet /\ x.restore = spot /\ x.home = home /\ x.late = late /\ x.from = w.from
        /\ x.rect = w.rect /\ x.repos = w.repos /\ x.sized
    BY <2>1, <2>3 DEF WinSet, MaybeSpot
  <2> HIDE DEF x
  <2>7. spot # None /\ home # None
    BY <2>3, SpotIs
  <2>8. Coherent(x)
    BY <1>2, <2>1, <2>6, <2>7 DEF Coherent
  <2> QED BY <1>2, <2>4, <2>5, <2>6, <2>7, <2>8 DEF Sound, AtHome, OnItsWay, Free
<1> QED BY <1>1, <1>2

\* The user's own move.
LEMMA MovedOK ==
  ASSUME NEW w, Sound(w), NEW act, NEW i, act.do = "move" => act.to \in Rect
  PROVE  /\ Sound(Moved(w, act, i))
         /\ Moved(w, act, i).restore = w.restore /\ Moved(w, act, i).late = w.late
         /\ Moved(w, act, i).rect = WholeDesktop => w.rect = WholeDesktop
         /\ Moved(w, act, i).rect = None <=> w.rect = None
<1>1. CASE Does(act, "move", i) /\ Free(w) /\ w.rect # None
  <2> DEFINE x == [w EXCEPT !.rect = act.to, !.home = act.to]
  <2>1. act.to \in Spots /\ act.to # None /\ act.to # WholeDesktop
    BY <1>1, SpotIs DEF Does
  <2>2. Moved(w, act, i) = x
    BY <1>1 DEF Moved
  <2>3. x \in WinSet /\ x.rect = act.to /\ x.home = act.to /\ x.restore = w.restore
        /\ x.from = w.from /\ x.repos = w.repos /\ x.late = w.late /\ x.sized = w.sized
    BY <2>1 DEF Sound, WinSet, MaybeSpot
  <2> HIDE DEF x
  <2> QED BY <1>1, <2>1, <2>2, <2>3 DEF Sound, Coherent, AtHome, OnItsWay, Free
<1>2. CASE ~(Does(act, "move", i) /\ Free(w) /\ w.rect # None)
  BY <1>2 DEF Moved
<1> QED BY <1>1, <1>2

\* Placement::place: a window that gets its old rect back has the size at once, and the
\* place at once or, if pushed aside, in the next frame.
LEMMA PlaceOK ==
  ASSUME NEW w, Sound(w), NEW pushed \in BOOLEAN,
         NEW x, x = Place(w, IF w.rect = None THEN Start ELSE w.rect, pushed)
  PROVE  /\ Sound(x) /\ x.rect # None /\ x.restore = None
         /\ ~x.late /\ x.from = None /\ (w.restore # None => w.rect # WholeDesktop) =>
              x.rect = x.home
<1>1. w \in WinSet /\ Coherent(w)
  BY DEF Sound
<1>2. CASE w.from # None
  <2>1. x = [w EXCEPT !.rect = WholeDesktop]
    BY <1>2 DEF Place
  <2>2. x \in WinSet /\ x.rect = WholeDesktop /\ x.home = w.home /\ x.restore = w.restore
        /\ x.from = w.from /\ x.repos = w.repos /\ x.late = w.late /\ x.sized = w.sized
    BY <1>1, <2>1 DEF WinSet
  <2> QED BY <1>1, <1>2, <2>2, SpotIs DEF Sound, Coherent, AtHome, OnItsWay, Free
<1>3. CASE w.from = None /\ w.restore # None
  <2> DEFINE r == IF pushed /\ w.rect # None /\ w.rect.size = "full"
                  THEN [w.restore EXCEPT !.pos = Corner] ELSE w.restore
  <2>1. x = [w EXCEPT !.restore = None, !.repos = w.restore.pos, !.rect = r]
    BY <1>3 DEF Place
  <2>2. w.restore \in Spots /\ w.rect \in Spots \cup {None, WholeDesktop}
    BY <1>1, <1>3 DEF WinSet, MaybeSpot
  <2>3. r \in Spots /\ r.size = w.restore.size /\ (w.rect # WholeDesktop => r = w.restore)
    BY <2>2, SpotIs DEF Spots
  <2>4. w.restore.pos \in Places \cup {Corner}
    BY <2>2 DEF Spots
  <2> HIDE DEF r
  <2>5. x \in WinSet /\ x.rect = r /\ x.home = w.home /\ x.restore = None /\ x.from = w.from
        /\ x.repos = w.restore.pos /\ x.late = w.late /\ x.sized = w.sized
    BY <1>1, <2>1, <2>3, <2>4 DEF WinSet, MaybeSpot
  <2>6. r # None /\ r # WholeDesktop /\ x.repos # None
    BY <2>2, <2>3, <2>5, SpotIs
  <2> QED BY <1>1, <1>3, <2>3, <2>5, <2>6 DEF Sound, Coherent, AtHome, OnItsWay, Free
<1>4. CASE w.from = None /\ w.restore = None /\ w.repos # None
  <2>1. x = [w EXCEPT !.repos = None, !.rect.pos = w.repos]
    BY <1>4 DEF Place
  <2>2. w.rect \in Spots /\ w.repos \in Places \cup {Corner} /\ w.home \in Spots
    BY <1>1, <1>4 DEF WinSet, MaybeSpot, Coherent
  <2> DEFINE r == [w.rect EXCEPT !.pos = w.repos]
  <2>3. r \in Spots /\ r.pos = w.repos /\ r.size = w.rect.size
    BY <2>2 DEF Spots
  <2>4. x = [w EXCEPT !.repos = None, !.rect = r]
    BY <1>1, <2>1 DEF WinSet
  <2>5. ~w.late => r = w.home
    BY <1>4, <2>2, <2>3, SpotIs DEF Sound, OnItsWay
  <2> HIDE DEF r
  <2>6. x \in WinSet /\ x.rect = r /\ x.home = w.home /\ x.restore = None /\ x.from = w.from
        /\ x.repos = None /\ x.late = w.late /\ x.sized = w.sized
    BY <1>1, <1>4, <2>3, <2>4 DEF WinSet, MaybeSpot
  <2>7. r # None /\ r # WholeDesktop
    BY <2>3, SpotIs
  <2> QED BY <1>1, <1>4, <2>2, <2>5, <2>6, <2>7, SpotIs DEF Sound, Coherent, AtHome, OnItsWay, Free
<1>5. CASE Free(w)
  <2> DEFINE egui == IF w.rect = None THEN Start ELSE w.rect
             home == IF w.home = None THEN egui ELSE w.home
  <2>1. x = [w EXCEPT !.rect = egui, !.home = home]
    BY <1>1, <1>5 DEF Place, Free, WinSet
  <2>2. egui \in Spots /\ home \in Spots
    BY <1>1, <1>5, SpotIs DEF WinSet, MaybeSpot, Coherent, Free
  <2>3. ~w.late => egui = home
    BY <1>1, <1>5 DEF Sound, AtHome, Coherent, Free
  <2> HIDE DEF egui, home
  <2>4. x \in WinSet /\ x.rect = egui /\ x.home = home /\ x.restore = w.restore /\ x.from = w.from
        /\ x.repos = w.repos /\ x.late = w.late /\ x.sized = w.sized
    BY <1>1, <2>1, <2>2 DEF WinSet, MaybeSpot
  <2>5. egui # None /\ egui # WholeDesktop /\ home # None
    BY <2>2, SpotIs
  <2> QED BY <1>1, <1>5, <2>3, <2>4, <2>5 DEF Sound, Coherent, AtHome, OnItsWay, Free
<1> QED BY <1>2, <1>3, <1>4, <1>5 DEF Free

\* show_window(): a press of the button to maximise finds the window at home.
LEMMA ShowOK ==
  ASSUME NEW w, AtRest(w), NEW act, NEW i, NEW pushed \in BOOLEAN,
         act.do = "move" => act.to \in Rect,
         Does(act, "maximise", i) => w.restore = None
  PROVE  AtRest(Show(w, i, act, pushed)) /\ Shows(Show(w, i, act, pushed))
<1> DEFINE s == SizeOnce(w)
           m == Moved(s, act, i)
           p == Place(m, IF m.rect = None THEN Start ELSE m.rect, pushed)
           d == DrawnByApp(p)
<1>1. Sound(s) /\ (w.restore = None /\ ~s.late /\ s.restore # None => s.rect # WholeDesktop)
  BY SizeOnceOK
<1>2. Show(w, i, act, pushed) =
        IF Does(act, "maximise", i) THEN ToggleMaximized(d)
        ELSE IF Does(act, "minimise", i) THEN [d EXCEPT !.min = TRUE]
        ELSE d
  BY DEF Show
<1> HIDE DEF s
<1>3. Sound(m) /\ m.restore = s.restore /\ m.late = s.late
      /\ (m.rect = WholeDesktop => s.rect = WholeDesktop)
  BY <1>1, MovedOK
<1> HIDE DEF m
<1>4. /\ Sound(p) /\ p.rect # None /\ p.restore = None
      /\ ~p.late /\ p.from = None /\ (m.restore # None => m.rect # WholeDesktop) => p.rect = p.home
  BY <1>3, PlaceOK
<1>5. p.late = m.late
  BY <1>3 DEF Place, Sound, WinSet
<1>6. p.draws.asks \in Sizes \cup {None} /\ p.draws.plays \in Songs /\ p \in WinSet
  BY <1>4 DEF Sound, WinSet, DrawSet
<1> HIDE DEF p
<1>7. /\ d \in WinSet /\ d.rect = p.rect /\ d.home = p.home /\ d.restore = None /\ d.from = p.from
      /\ d.repos = p.repos /\ d.late = p.late /\ d.sized = p.sized
      /\ Shows(d)
  BY <1>4, <1>6 DEF DrawnByApp, WinSet, Songs, Shows
<1> HIDE DEF d
<1>8. AtRest(d)
  BY <1>4, <1>7 DEF AtRest, Sound, Coherent, AtHome, OnItsWay, Free
<1>9. CASE ~Does(act, "maximise", i)
  <2> DEFINE x == [d EXCEPT !.min = TRUE]
  <2>1. x \in WinSet /\ x.rect = d.rect /\ x.home = d.home /\ x.restore = d.restore /\ x.from = d.from
        /\ x.repos = d.repos /\ x.late = d.late /\ x.sized = d.sized
        /\ Shows(x)
    BY <1>7 DEF WinSet, Shows
  <2> HIDE DEF x
  <2>2. AtRest(x)
    BY <1>8, <2>1 DEF AtRest, Sound, Coherent, AtHome, OnItsWay, Free
  <2> QED BY <1>2, <1>7, <1>8, <1>9, <2>1, <2>2 DEF x
<1>10. CASE Does(act, "maximise", i)
  <2> DEFINE x == ToggleMaximized(d)
  <2>1. ~d.late /\ d.from = None => d.rect = d.home
    BY <1>1, <1>3, <1>4, <1>5, <1>7, <1>10
  <2>2. CASE d.from # None
    <3>1. x = [d EXCEPT !.restore = d.from, !.from = None]
      BY <2>2 DEF ToggleMaximized
    <3>2. x \in WinSet /\ x.rect = d.rect /\ x.home = d.home /\ x.restore = d.from /\ x.from = None
        /\ x.repos = d.repos /\ x.late = d.late /\ x.sized = d.sized
        /\ Shows(x)
      BY <1>7, <3>1 DEF WinSet, MaybeSpot, Shows
    <3>3. d.rect = WholeDesktop
      BY <1>3, <1>4, <1>7, <2>2 DEF p, Place, Sound, WinSet
    <3> HIDE DEF x
    <3>4. AtRest(x)
      BY <1>8, <2>2, <3>2, <3>3 DEF AtRest, Sound, Coherent, AtHome, OnItsWay, Free
    <3> QED BY <1>2, <1>10, <3>2, <3>4 DEF x
  <2>3. CASE d.from = None
    <3>1. x = [d EXCEPT !.from = d.rect]
      BY <2>3 DEF ToggleMaximized
    <3>2. d.rect \in Spots /\ d.rect # None
      BY <1>4, <1>7, <1>8, <2>3 DEF AtRest, Sound, Coherent, WinSet, MaybeSpot
    <3>3. x \in WinSet /\ x.rect = d.rect /\ x.home = d.home /\ x.restore = d.restore /\ x.from = d.rect
        /\ x.repos = d.repos /\ x.late = d.late /\ x.sized = d.sized
        /\ Shows(x)
      BY <1>7, <3>1, <3>2 DEF WinSet, MaybeSpot, Shows
    <3> HIDE DEF x
    <3>4. AtRest(x)
      BY <1>7, <1>8, <2>1, <2>3, <3>2, <3>3 DEF AtRest, Sound, Coherent, AtHome, OnItsWay, Free
    <3> QED BY <1>2, <1>10, <3>3, <3>4 DEF x
  <2> QED BY <2>2, <2>3
<1> QED BY <1>9, <1>10

\* What has loaded takes numbers after those of the windows there are.
LEMMA LandedOK ==
  ASSUME PlaceInv
  PROVE  /\ DOMAIN Landed \subseteq 1..opened + Len(started)
         /\ \A i \in DOMAIN Landed : AtRest(Landed[i])
<1> DEFINE number(n) == 1 + Cardinality({i \in DOMAIN wins : wins[i].app = started[n].app})
                          + Cardinality({m \in 1..n - 1 : started[m].app = started[n].app})
<1>1. opened \in Nat /\ DOMAIN wins \subseteq 1..opened /\ Len(started) \in Nat
      /\ DOMAIN started = 1..Len(started) /\ \A n \in DOMAIN started : started[n] \in StartedSet
  BY DEF PlaceInv
<1>2. ASSUME NEW n \in DOMAIN started PROVE number(n) \in Nat
  <2>1. IsFiniteSet(DOMAIN wins) /\ IsFiniteSet(1..n - 1)
    <3>1. n - 1 \in Int /\ 1 \in Int /\ opened \in Int
      BY <1>1
    <3>2. IsFiniteSet(1..opened) /\ IsFiniteSet(1..n - 1)
      BY <3>1, FS_Interval
    <3> QED BY <1>1, <3>2, FS_Subset
  <2>2. /\ Cardinality({i \in DOMAIN wins : wins[i].app = started[n].app}) \in Nat
        /\ Cardinality({m \in 1..n - 1 : started[m].app = started[n].app}) \in Nat
    BY <2>1, FS_Subset, FS_CardinalityType
  <2> QED BY <2>2
<1>3. Landed = [i \in DOMAIN wins \cup {opened + n : n \in DOMAIN started} |->
                  IF i \in DOMAIN wins THEN wins[i]
                  ELSE NewWin(started[i - opened], number(i - opened))]
  BY DEF Landed
<1> HIDE DEF number
<1>4. ASSUME NEW i \in DOMAIN Landed PROVE i \in 1..opened + Len(started) /\ AtRest(Landed[i])
  <2>1. CASE i \in DOMAIN wins
    <3>1. Landed[i] = wins[i]
      BY <1>3, <2>1
    <3> QED BY <1>1, <2>1, <3>1 DEF PlaceInv
  <2>2. CASE i \notin DOMAIN wins
    <3>1. PICK n \in DOMAIN started : i = opened + n
      BY <1>3, <2>2
    <3>2. n \in 1..Len(started) /\ i - opened = n
      BY <1>1, <3>1
    <3>3. Landed[i] = NewWin(started[n], number(n))
      BY <1>3, <2>2, <3>1, <3>2
    <3> QED BY <1>1, <1>2, <3>1, <3>2, <3>3, NewWinOK
  <2> QED BY <2>1, <2>2
<1> QED BY <1>4

LEMMA MinChanges ==
  ASSUME NEW w, AtRest(w), NEW b \in BOOLEAN
  PROVE  AtRest([w EXCEPT !.min = b]) /\ [w EXCEPT !.min = b].restore = w.restore
<1> DEFINE x == [w EXCEPT !.min = b]
<1>1. x \in WinSet /\ x.rect = w.rect /\ x.home = w.home /\ x.restore = w.restore /\ x.from = w.from
      /\ x.repos = w.repos /\ x.late = w.late /\ x.sized = w.sized
  BY DEF AtRest, Sound, WinSet
<1> HIDE DEF x
<1>2. AtRest(x)
  BY <1>1 DEF AtRest, Sound, Coherent, AtHome, OnItsWay, Free
<1> QED BY <1>1, <1>2 DEF x

LEMMA FrameKeeps ==
  ASSUME PlaceInv, NEW act, NEW pushed \in BOOLEAN, DesktopFrame(act, pushed),
         act = NoAct \/ Pressable(act), act.do = "move" => act.to \in Rect
  PROVE  PlaceInv' /\ (\A i \in DOMAIN wins' : wins'[i].min \/ Shows(wins'[i]))
<1> DEFINE docked == [i \in DOMAIN Landed |->
                        [Landed[i] EXCEPT !.min = IF Does(act, "dock", i) THEN FALSE ELSE @]]
           shown  == [i \in DOMAIN docked |->
                        IF docked[i].min THEN docked[i]
                        ELSE Show(docked[i], i, act, pushed)]
           open   == [i \in {j \in DOMAIN shown : ~Does(act, "close", j)} |-> shown[i]]
<1>1. wins' = open /\ started' = << >> /\ opened' = opened + Len(started)
  BY DEF DesktopFrame
<1>2. \A i \in DOMAIN Landed : AtRest(docked[i]) /\ docked[i].restore = Landed[i].restore
  <2> SUFFICES ASSUME NEW i \in DOMAIN Landed
               PROVE  AtRest(docked[i]) /\ docked[i].restore = Landed[i].restore
    OBVIOUS
  <2> DEFINE b == IF Does(act, "dock", i) THEN FALSE ELSE Landed[i].min
  <2>1. AtRest(Landed[i]) /\ b \in BOOLEAN
    BY LandedOK DEF AtRest, Sound, WinSet
  <2>2. docked[i] = [Landed[i] EXCEPT !.min = b]
    OBVIOUS
  <2> HIDE DEF b, docked
  <2> QED BY <2>1, <2>2, MinChanges
<1>3. DOMAIN docked = DOMAIN Landed
  OBVIOUS
<1>4. ASSUME NEW i \in DOMAIN Landed, Does(act, "maximise", i) PROVE Landed[i].restore = None
  <2>1. act.id = i /\ act.do = "maximise"
    BY <1>4 DEF Does
  <2>2. i \in DOMAIN wins /\ wins[i].restore = None
    BY <2>1 DEF Pressable, NoAct
  <2> QED BY <2>2 DEF Landed
<1> HIDE DEF docked
<1>5. \A i \in DOMAIN Landed : AtRest(shown[i]) /\ (shown[i].min \/ Shows(shown[i]))
  <2> SUFFICES ASSUME NEW i \in DOMAIN Landed
               PROVE  AtRest(shown[i]) /\ (shown[i].min \/ Shows(shown[i]))
    OBVIOUS
  <2>1. shown[i] = IF docked[i].min THEN docked[i] ELSE Show(docked[i], i, act, pushed)
    BY <1>3
  <2>2. AtRest(Show(docked[i], i, act, pushed)) /\ Shows(Show(docked[i], i, act, pushed))
    BY <1>2, <1>4, ShowOK
  <2> QED BY <1>2, <2>1, <2>2
<1>6. DOMAIN shown = DOMAIN Landed
  BY <1>3
<1> HIDE DEF shown
<1>7. DOMAIN open \subseteq DOMAIN Landed
      /\ (\A i \in DOMAIN open : AtRest(open[i]) /\ (open[i].min \/ Shows(open[i])))
      /\ open = [i \in DOMAIN open |-> open[i]]
  BY <1>5, <1>6
<1> HIDE DEF open
<1>8. opened' \in Nat /\ DOMAIN open \subseteq 1..opened'
  BY <1>1, <1>7, LandedOK DEF PlaceInv
<1>9. started' \in Seq(StartedSet)
  BY <1>1
<1>10. \A i \in DOMAIN wins' : AtRest(wins'[i])
  BY <1>1, <1>7
<1> QED BY <1>1, <1>7, <1>8, <1>9, <1>10 DEF PlaceInv

LEMMA PlacesInit == WInit => PlaceInv
<1> SUFFICES ASSUME WInit PROVE PlaceInv
  OBVIOUS
<1>1. started \in Seq(StartedSet)
  <2>1. Placed \subseteq StartedSet
    BY WindowsAssumption DEF StartedSet
  <2>2. started = <<>> \/ \E l \in Placed : started = <<l>>
    BY DEF WInit
  <2>3. ASSUME NEW l \in Placed PROVE <<l>> \in Seq(StartedSet)
    BY <2>1
  <2>4. CASE started = <<>>
    BY <2>4
  <2>5. ASSUME NEW l \in Placed, started = <<l>> PROVE started \in Seq(StartedSet)
    BY <2>3, <2>5
  <2> QED BY <2>2, <2>4, <2>5
<1> QED BY <1>1 DEF WInit, PlaceInv

LEMMA PlacesStep == PlaceInv /\ [WNext]_wvars => PlaceInv'
<1> SUFFICES ASSUME PlaceInv, [WNext]_wvars PROVE PlaceInv'
  OBVIOUS
<1>1. CASE Repaint
  BY <1>1, FrameKeeps DEF Repaint, NoAct
<1>2. ASSUME NEW i \in Ids, NEW do \in {"dock", "minimise", "maximise", "close"},
             Press([do |-> do, id |-> i])
      PROVE  PlaceInv'
  BY <1>2, FrameKeeps DEF Press
<1>3. ASSUME NEW i \in Ids, NEW to \in Rect, Press([do |-> "move", id |-> i, to |-> to])
      PROVE  PlaceInv'
  BY <1>3, FrameKeeps DEF Press
<1>4. ASSUME NEW app \in AppIds, Loaded(app) PROVE PlaceInv'
  <2>1. started' = Append(started, Fresh(app)) /\ UNCHANGED <<wins, opened>>
    BY <1>4 DEF Loaded
  <2>2. started' \in Seq(StartedSet)
    BY <2>1 DEF PlaceInv, StartedSet
  <2> QED BY <2>1, <2>2 DEF PlaceInv
<1>5. ASSUME NEW i \in Ids, NEW d \in Draws, Changes(i, d) PROVE PlaceInv'
  <2> DEFINE w == wins[i]
             x == [w EXCEPT !.draws = d]
  <2>1. i \in DOMAIN wins /\ wins' = [wins EXCEPT ![i].draws = d] /\ UNCHANGED <<started, opened>>
    BY <1>5 DEF Changes
  <2>2. AtRest(w) /\ d \in DrawSet
    BY <2>1, WindowsAssumption DEF PlaceInv, DrawSet, Songs
  <2>3. x \in WinSet /\ x.rect = w.rect /\ x.home = w.home /\ x.restore = w.restore /\ x.from = w.from
        /\ x.repos = w.repos /\ x.late = w.late /\ x.sized = w.sized
    BY <2>2 DEF AtRest, Sound, WinSet
  <2>4. wins' = [wins EXCEPT ![i] = x]
    BY <2>1 DEF PlaceInv
  <2> HIDE DEF x, w
  <2>5. AtRest(x)
    BY <2>2, <2>3 DEF AtRest, Sound, Coherent, AtHome, OnItsWay, Free
  <2>6. DOMAIN wins' = DOMAIN wins /\ wins' = [k \in DOMAIN wins' |-> wins'[k]]
        /\ \A k \in DOMAIN wins : wins'[k] = IF k = i THEN x ELSE wins[k]
    BY <2>4 DEF PlaceInv
  <2> QED BY <2>1, <2>5, <2>6 DEF PlaceInv
<1>6. CASE UNCHANGED wvars
  BY <1>6 DEF wvars, PlaceInv
<1> QED BY <1>1, <1>2, <1>3, <1>4, <1>5, <1>6 DEF WNext

\* The invariant of the shell's windows between frames (Placement of chrome.rs): where a window
\* is, is to go, and what it was made for agree.
THEOREM WindowsInvariant == WSpec => []PlaceInv
  BY PlacesInit, PlacesStep, PTL DEF WSpec

\* However a window was maximised, minimised, sized and remembered, it goes back to where it was
\* (maximized_from, restore_to and reposition_to of chrome.rs).
THEOREM WindowsGoBack == WSpec => []GoesBack
<1>1. PlaceInv => GoesBack
  BY DEF PlaceInv, AtRest, Sound, GoesBack
<1> QED BY <1>1, WindowsInvariant, PTL

\* A player plays on until its window is closed or minimised, or its app plays something else
\* or has scrolled it out of sight (sync_media() and MediaOverlay::sync).
THEOREM PlayersGoOn == WSpec => PlayersPlayOn
<1> DEFINE Plays == \A i \in Ids : players[i] \notin {None, players'[i]} => Stops(i, TRUE)
<1>1. ASSUME PlaceInv, NEW act, NEW pushed \in BOOLEAN, DesktopFrame(act, pushed),
             act = NoAct \/ Pressable(act), act.do = "move" => act.to \in Rect,
             NEW i \in Ids, players[i] # players'[i]
      PROVE  Stops(i, TRUE)
  <2> SUFFICES ASSUME i \in DOMAIN wins', ~wins'[i].min, ~wins'[i].draws.scrolled
               PROVE  wins'[i].draws.plays # players[i]
    BY DEF Stops
  <2>1. players' = Sync(wins')
    BY <1>1 DEF DesktopFrame
  <2>2. players'[i] = wins'[i].slot
    BY <2>1 DEF Sync, Visible
  <2>3. Shows(wins'[i])
    BY <1>1, FrameKeeps
  <2> QED BY <1>1, <2>2, <2>3 DEF Shows
<1>2. PlaceInv /\ [WNext]_wvars => Plays
  <2> SUFFICES ASSUME PlaceInv, [WNext]_wvars, NEW i \in Ids, players[i] # players'[i]
               PROVE  Stops(i, TRUE)
    OBVIOUS
  <2>1. CASE Repaint
    BY <1>1, <2>1 DEF Repaint, NoAct
  <2>2. ASSUME NEW j \in Ids, NEW do \in {"dock", "minimise", "maximise", "close"},
               Press([do |-> do, id |-> j])
        PROVE  Stops(i, TRUE)
    BY <1>1, <2>2 DEF Press
  <2>3. ASSUME NEW j \in Ids, NEW to \in Rect, Press([do |-> "move", id |-> j, to |-> to])
        PROVE  Stops(i, TRUE)
    BY <1>1, <2>3 DEF Press
  <2> QED BY <2>1, <2>2, <2>3 DEF WNext, Loaded, Changes, wvars
<1> QED BY <1>2, WindowsInvariant, PTL DEF WSpec, PlayersPlayOn
=====
