------------------------------- MODULE Frames -------------------------------
(***************************************************************************)
(* One app's frames (ccosel-sdk: ui.rs, recorder.rs; ccosel-abi: decode.rs; *)
(* ccosel-host: replay.rs; ccosel-shell: app_window.rs, and the part of     *)
(* desktop.rs that acts on its clicks): the app calls Ui, which records     *)
(* commands; the host refuses a stream that is not balanced, and draws one  *)
(* that is; and the clicks of a frame go to the shell in that frame, and to *)
(* the app in the next.                                                     *)
(*                                                                         *)
(* An id is the path of the salts it is hashed from.  Of the widgets there  *)
(* are a button, and a link, on whose click the shell acts (OpenUrl,        *)
(* OpenApp, CopyLink and the upload buttons alike); of the scopes a row     *)
(* (every kind that only lays out its children), a table and a context      *)
(* menu.  Tooltips, looks and sizes are left out.                           *)
(***************************************************************************)
EXTENDS Integers, SequencesExt

CONSTANTS
    MaxDepth,   \* MAX_SCOPE_DEPTH
    Apps,       \* each a sequence: how many calls it makes in its first frame, its second...
    DeepWindows,\* whether apps open a window inside scopes nested to the limit
    Unshowable, \* whether a frame that shows nothing may come after a click
    RawIds      \* the ids in the streams of a guest that was not built with the SDK

ASSUME FramesAssumption == MaxDepth \in Nat \ {0} /\ Apps \subseteq Seq(Nat)

VARIABLES
    rec,   \* the guest's frame being recorded: see NoCalls
    win,   \* the AppWindow: see NewWindow
    clicks \* what became of each click (history)

fvars == <<rec, win, clicks>>

Root == << >>

-----------------------------------------------------------------------------
(* Recording: Ui's calls.                                                  *)

\* The Ui's at work, the innermost last.
NewUi(id, kind, emit) == [id |-> id, kind |-> kind, emit |-> emit, next |-> 1]

NoCalls(app, frame) ==
    [app   |-> app,
     buf   |-> << >>,
     uis   |-> <<NewUi(Root, "row", FALSE)>>,
     sdk   |-> TRUE,     \* whether the SDK records it
     frame |-> frame,
     calls |-> 0]

More == rec.frame \in DOMAIN rec.app /\ rec.calls < rec.app[rec.frame]

Cmd(op, id, kind) == [op |-> op, id |-> id, kind |-> kind]

Ui       == Last(rec.uis)
Depth    == Len(rec.uis) - 1
AutoId   == Append(Ui.id, Ui.next)
Salted   == [rec.uis EXCEPT ![Len(rec.uis)].next = @ + 1]

\* A window's id comes from its title; there is one title.
WindowId == Append(Ui.id, 0)

Drawing == rec.sdk /\ More

AddCommands(cmds, uis) ==
    rec' = [rec EXCEPT !.buf = @ \o cmds, !.uis = uis, !.calls = @ + 1]

Widget(kind) ==
    /\ Drawing
    /\ AddCommands(<<Cmd("widget", AutoId, kind)>>, Salted)
    /\ UNCHANGED <<win, clicks>>

Separator ==
    /\ Drawing
    /\ AddCommands(<<Cmd("line", Root, "line")>>, rec.uis)
    /\ UNCHANGED <<win, clicks>>

\* Mutant: the limit is passed by one.
ShallowOrAt == Depth <= MaxDepth

Shallow == Depth < MaxDepth

\* Ui::scope.  A menu is on the widget added just before, and what is in a
\* table directly is its rows and single widgets.
Scope(kind) ==
    /\ Drawing
    /\ kind = "menu" => rec.buf # << >> /\ Last(rec.buf).op = "widget"
    /\ Ui.kind = "table" => kind = "row"
    /\ AddCommands(IF Shallow THEN <<Cmd("begin scope", AutoId, kind)>> ELSE << >>,
              Append(Salted, NewUi(AutoId, kind, Shallow)))
    /\ UNCHANGED <<win, clicks>>

\* Ui::window, which does not look at the depth.
ShowWindow ==
    /\ Drawing
    /\ DeepWindows \/ Shallow
    /\ Ui.kind # "table"
    /\ \A i \in DOMAIN rec.buf : rec.buf[i].id # WindowId
    /\ AddCommands(<<Cmd("begin window", WindowId, "window")>>,
              Append(rec.uis, NewUi(WindowId, "window", TRUE)))
    /\ UNCHANGED <<win, clicks>>

Leave ==
    /\ rec.sdk /\ Depth > 0
    /\ rec' = [rec EXCEPT
         !.buf = IF ~Ui.emit THEN @
                 ELSE Append(@, Cmd(IF Ui.kind = "window" THEN "end window" ELSE "end scope",
                                    Ui.id, Ui.kind)),
         !.uis = Front(@)]
    /\ UNCHANGED <<win, clicks>>

\* A guest that was not built with the SDK puts any commands together.
Raw(op, id) ==
    /\ More
    /\ rec.sdk => rec.calls = 0
    /\ rec' = [rec EXCEPT !.buf = Append(@, Cmd(op, id, "row")), !.sdk = FALSE,
                          !.calls = @ + 1]
    /\ UNCHANGED <<win, clicks>>

-----------------------------------------------------------------------------
(* The host: validate, match_scopes, and Cx::render.                       *)

Opening == {"begin scope", "begin window"}
Closing == {"end scope", "end window"}
Closes(c, o) == c.id = o.id /\ (c.op = "end scope") = (o.op = "begin scope")

Malformed == [ok |-> FALSE, open |-> << >>]

Check(s, c) ==
    IF ~s.ok THEN s
    ELSE CASE c.op \in Opening ->
                IF Len(s.open) >= MaxDepth THEN Malformed ELSE [s EXCEPT !.open = Append(@, c)]
           [] c.op \in Closing ->
                IF s.open # << >> /\ Closes(c, Last(s.open))
                THEN [s EXCEPT !.open = Front(@)] ELSE Malformed
           [] OTHER -> s

\* What validate() has found after each command.
Checked(buf) ==
    LET run[n \in 0..Len(buf)] ==
          IF n = 0 THEN [ok |-> TRUE, open |-> << >>] ELSE Check(run[n - 1], buf[n])
    IN run

Validate(buf) == Checked(buf)[Len(buf)] = [ok |-> TRUE, open |-> << >>]

\* match_scopes(): a stack of what is open.  0 is usize::MAX.
Match(s, i, buf) ==
    IF buf[i].op \in Opening THEN [s EXCEPT !.stack = Append(@, i)]
    ELSE IF buf[i].op \in Closing /\ s.stack # << >>
         THEN [stack |-> Front(s.stack), at |-> [s.at EXCEPT ![Last(s.stack)] = i]]
         ELSE s

Matched(buf) ==
    LET run[n \in 0..Len(buf)] ==
          IF n = 0 THEN [stack |-> << >>, at |-> [i \in DOMAIN buf |-> 0]]
          ELSE Match(run[n - 1], n, buf)
    IN run

MatchScopes(buf) == Matched(buf)[Len(buf)].at

\* Cx: what has been drawn, the containers being drawn, the widget drawn last,
\* and what each menu was put on.
NewCx == [out |-> << >>, within |-> {}, last |-> Root, menus |-> {}]

Into(cx, id)     == [cx EXCEPT !.within = @ \cup {id}]
OutTo(cx, outer) == [cx EXCEPT !.within = outer.within]

\* Mutant: a link is drawn without becoming the widget drawn last.
FinishForgets(cx, c) ==
    [cx EXCEPT !.out = Append(@, [id |-> c.id, within |-> cx.within]),
               !.last = IF c.kind = "link" THEN @ ELSE c.id]

Finish(cx, c) ==
    [cx EXCEPT !.out = Append(@, [id |-> c.id, within |-> cx.within]), !.last = c.id]

IdsOf(cmds) == {Root} \cup {cmds[i].id : i \in DOMAIN cmds}

Cxs(ids) ==
    [out : Seq([id : ids, within : SUBSET ids]), within : SUBSET ids, last : ids,
     menus : SUBSET (ids \X ids)]

\* What can be drawn next: the commands from at to before end, with each scope
\* among them whole, as a table's or not.
Spans(cmds, closes) ==
    {s \in [table : BOOLEAN, at : Nat \ {0}, end : 1..Len(cmds) + 1, cx : Cxs(IdsOf(cmds))] :
       \A i \in s.at..s.end - 1 : cmds[i].op \in Opening => closes[i] \in i + 1..s.end - 1}

\* Cx::render and table_rows, with the menu of the widget open open.  A row's scope
\* only says where the row ends; its id stands here for the row.
DrawSpan(draw, cmds, closes, open, s) ==
    LET cx      == s.cx
        c       == cmds[s.at]
        next(x) == draw[[s EXCEPT !.at = @ + 1, !.cx = x]]
        rest(x) == draw[[s EXCEPT !.at = closes[@] + 1, !.cx = OutTo(x, cx)]]
        inside(x, table) ==
          draw[[table |-> table, at |-> s.at + 1, end |-> closes[s.at], cx |-> Into(x, c.id)]]
        owned   == [cx EXCEPT !.menus = @ \cup {<<c.id, cx.last>>}]
    IN CASE s.at >= s.end -> cx
         [] s.at < s.end /\ c.op = "widget" -> next(Finish(cx, c))
         [] s.at < s.end /\ c.op \notin {"widget"} \cup Opening -> next(cx)
         [] s.at < s.end /\ c.op \in Opening ->
              IF s.table \/ c.kind \notin {"table", "menu"} THEN rest(inside(cx, FALSE))
              ELSE IF c.kind = "table" THEN rest(inside(cx, TRUE))
              ELSE IF cx.last = Root THEN rest(cx)
              ELSE IF cx.last # open THEN rest(owned)
              ELSE rest(inside(owned, FALSE))

Render(cmds, closes, open) ==
    LET draw[s \in Spans(cmds, closes)] == DrawSpan(draw, cmds, closes, open, s) IN draw

Drawn(buf, open) ==
    Render(buf, MatchScopes(buf), open)
      [[table |-> FALSE, at |-> 1, end |-> Len(buf) + 1, cx |-> NewCx]]

-----------------------------------------------------------------------------
(* The window: AppWindow::ui, and what Desktop::ui does after it.          *)

NoClick == 0

NewWindow ==
    [responses |-> {},      \* [id, click]: what each widget drawn last did
     last      |-> << >>,   \* last_commands
     links     |-> {},      \* Replayer::open_url_ids and its like
     error     |-> FALSE]

Links(buf) == {buf[i].id : i \in {j \in DOMAIN buf : buf[j].kind = "link"}}

Clicked(w) == {r.click : r \in w.responses} \ {NoClick}

\* Mutant: the links of the frames before are kept.
ReplayOnto(w, at, open) ==
    IF ~Validate(w.last) THEN [w EXCEPT !.error = TRUE]
    ELSE [w EXCEPT
            !.links = @ \cup Links(w.last),
            !.responses = @ \cup
              {[id |-> r.id, click |-> IF r.id \in at THEN Len(clicks) + 1 ELSE NoClick] :
                 r \in Range(Drawn(w.last, open).out)}]

\* Replayer::replay(), in a frame in which the user clicks the widget in at, if any.
Replay(w, at, open) ==
    IF ~Validate(w.last) THEN [w EXCEPT !.error = TRUE]
    ELSE [w EXCEPT
            !.links = Links(w.last),
            !.responses =
              {[id |-> r.id, click |-> IF r.id \in at THEN Len(clicks) + 1 ELSE NoClick] :
                 r \in Range(Drawn(w.last, open).out)}]

\* The window after a frame: what the guest sent, or what it sent before if it
\* failed, is drawn, unless that is nothing.
AfterFrame(traps, at, open) ==
    LET w == [win EXCEPT !.error = traps, !.last = IF traps THEN @ ELSE rec.buf]
    IN IF w.last = << >> THEN w ELSE Replay(w, at, open)

Acted(w) == {r.click : r \in {x \in w.responses : x.id \in w.links}} \ {NoClick}

\* A frame: the guest is handed the responses of the last one and draws, or
\* fails; the user, who may have a menu open, may click; and the shell acts.
Frame(traps, at, open) ==
    LET w    == AfterFrame(traps, at, open)
        new  == at # {} /\ at \subseteq {r.id : r \in w.responses} /\ Len(clicks) + 1 \in Clicked(w)
        then == IF new THEN Append(clicks, [link |-> at \subseteq w.links, acts |-> 0, told |-> 0])
                ELSE clicks
    IN /\ rec.sdk => Depth = 0
       /\ rec.frame \in DOMAIN rec.app
       /\ Unshowable \/ clicks = << >> \/ traps \/ (rec.buf # << >> /\ Validate(rec.buf))
       /\ at # {} => clicks = << >> /\ new
       /\ open # Root => open \in {r.id : r \in win.responses}
       /\ win' = w
       /\ clicks' = [n \in DOMAIN then |->
            [then[n] EXCEPT !.told = IF n \in Clicked(win) THEN @ + 1 ELSE @,
                            !.acts = IF n \in Acted(w) THEN @ + 1 ELSE @]]
       /\ \/ rec' = [rec EXCEPT !.frame = @ + 1]   \* it will draw the same again
          \/ rec' = NoCalls(rec.app, rec.frame + 1)

-----------------------------------------------------------------------------
FInit ==
    /\ \E app \in Apps : rec = NoCalls(app, 1)
    /\ win = NewWindow
    /\ clicks = << >>

Widgets == {rec.buf[i].id : i \in {j \in DOMAIN rec.buf : rec.buf[j].op = "widget"}}
        \cup {r.id : r \in win.responses}

FNext ==
    \/ \E kind \in {"button", "link"} : Widget(kind)
    \/ Separator
    \/ \E kind \in {"row", "table", "menu"} : Scope(kind)
    \/ ShowWindow
    \/ Leave
    \/ \E op \in Opening \cup Closing \cup {"widget"}, id \in RawIds : Raw(op, id)
    \/ \E traps \in BOOLEAN, at \in {{}} \cup {{id} : id \in Widgets}, open \in Widgets \cup {Root} :
          Frame(traps, at, open)

FSpec == FInit /\ [][FNext]_fvars

-----------------------------------------------------------------------------
(* What a stream must be, said without a stack: its opening and closing     *)
(* commands are paired, pairs never cross, and at most MaxDepth are open.   *)

Openings(buf) == {i \in DOMAIN buf : buf[i].op \in Opening}
Closings(buf) == {i \in DOMAIN buf : buf[i].op \in Closing}

Pairings(buf) ==
    {m \in [Openings(buf) -> Closings(buf)] :
       /\ \A j \in Closings(buf) : \E i \in Openings(buf) : m[i] = j
       /\ \A i \in Openings(buf) : i < m[i] /\ Closes(buf[m[i]], buf[i])
       /\ \A i, k \in Openings(buf) :
            i < k => m[k] < m[i] \/ m[i] < k
       /\ \A k \in Openings(buf) :
            Cardinality({i \in Openings(buf) : i <= k /\ k < m[i]}) <= MaxDepth}

\* "Validating up front means a bad frame is discarded whole": the host accepts
\* exactly the streams that pair up within the depth, finds the pairs, and
\* accepts all that the SDK records: an app nested too deep loses the layout of
\* that part, and not its frame.
BalancedAccepted ==
    /\ Validate(rec.buf) <=> Pairings(rec.buf) # {}
    /\ Validate(rec.buf) =>
         \E m \in Pairings(rec.buf) : \A i \in Openings(rec.buf) : MatchScopes(rec.buf)[i] = m[i]
    /\ rec.sdk /\ Depth = 0 => Validate(rec.buf)

\* The ids of what a thing is in.
Above(id) == {SubSeq(id, 1, n) : n \in 0..Len(id) - 1}

Emitted == {rec.buf[i].id : i \in Openings(rec.buf)}
InMenu(id) == {rec.buf[i].id : i \in {j \in Openings(rec.buf) : rec.buf[j].kind = "menu"}}
                \cap Above(id)

\* The menu at i belongs to the widget recorded just before it.
Owner(i) == rec.buf[i - 1].id
OwnerOf(menu) == Owner(CHOOSE i \in Openings(rec.buf) : rec.buf[i].id = menu)

\* What is drawn of a frame is what was recorded, in that order, each widget in
\* the scopes it was added to (those that are not too deep), each menu on the
\* widget added just before it; the widgets of a menu only while it is open.
ReplayFaithful ==
    rec.sdk /\ Depth = 0 /\ Validate(rec.buf) =>
      \A open \in Widgets \cup {Root} :
        LET cx    == Drawn(rec.buf, open)
            shown == {i \in DOMAIN rec.buf : /\ rec.buf[i].op = "widget"
                                            /\ \A m \in InMenu(rec.buf[i].id) : OwnerOf(m) = open}
        IN /\ Len(cx.out) = Cardinality(shown)
           /\ \A i \in shown : cx.out[Cardinality({j \in shown : j <= i})] =
                [id |-> rec.buf[i].id, within |-> Emitted \cap Above(rec.buf[i].id)]
           /\ \A o \in cx.menus : o[2] = OwnerOf(o[1])

\* "Acted on in the frame the click is drawn", and in no other: the shell acts
\* once on a click on a link, on no other click, and the app hears of a click
\* in one frame at most, although a guest that fails has its last frame drawn
\* again.
ClicksActedOnce ==
    \A n \in DOMAIN clicks :
      /\ clicks[n].acts = IF clicks[n].link THEN 1 ELSE 0
      /\ clicks[n].told <= 1

=============================================================================
