-------------------------------- MODULE Docs --------------------------------
(***************************************************************************)
(* The Docs app (apps/docs): reading, editing, saving, creating and leaving *)
(* documents, over the server's files.  A frame is App::update: the outcome *)
(* of the write under way, drawing, then the user's click, which is the     *)
(* response of a widget the last frame drew.                                *)
(*                                                                         *)
(* A text says of which document it is.  There is one folder; search, which *)
(* is one more view without a document, is left out.                        *)
(*                                                                         *)
(* The editor's text field is that of TextSync without its versions: as     *)
(* AppServerProofs shows, an edit reaches the app when it next draws the    *)
(* field, unless the app has set the text, provided that it sets it where   *)
(* it draws it in another place.  EditorInStep is the check that it does.   *)
(***************************************************************************)
EXTENDS Naturals, Sequences, SequencesExt

CONSTANTS
  Docs,     \* paths of documents
  First,    \* those there are at first
  Ns,       \* what tells texts of one document apart; 0 is that of a new one
  MaxClicks   \* bound on clicks

ASSUME DocsAssumption == First \subseteq Docs /\ 0 \in Ns /\ MaxClicks \in Nat

NoText    == <<>>
Text      == [of : Docs, n : Ns]
Fresh(d)  == [of |-> d, n |-> 0]
TextsAs(t) == IF t = NoText THEN {} ELSE {[t EXCEPT !.n = n] : n \in Ns}

Browse   == [at |-> "browse"]
Read(d)  == [at |-> "read", doc |-> d]
Edit(d)  == [at |-> "edit", doc |-> d]
Views    == {Browse} \cup {Read(d) : d \in Docs} \cup {Edit(d) : d \in Docs}

\* The entry of ReadFile in the app's request cache, and its call: asked, answered by
\* the server, ready or failed.
NotAsked == [st |-> "none", text |-> NoText]
ReadSlot == [st : {"none", "asked", "answered", "ready", "failed"}, text : Text \cup {NoText}]

\* Docs::pending, and its call: sent, done or refused by the server, heard of.
NoWrite == [op |-> "none", doc |-> NoText, text |-> NoText, st |-> "none"]
Write(op, d, t) == [op |-> op, doc |-> d, text |-> t, st |-> "sent"]

\* A widget's id is its view's, but for the sidebar and Back.
NoClick   == [op |-> "none"]
In(v, op) == [op |-> op, in |-> v]

VARIABLES
  app,     \* Docs, with its requests
  shown,   \* document -> what its editor shows (NoText: never drawn)
  typed,   \* documents whose editor has edits the app has not taken
  click,   \* the response the next frame finds
  files,   \* document -> its text on the server, or NoText
  late,    \* writes given up, which the server may still do
  clicks

dvars == <<app, shown, typed, click, files, late, clicks>>

DInit ==
  /\ app = [view |-> Browse, hist |-> <<>>, ed |-> NoText, push |-> FALSE,
            saved |-> NoText, loaded |-> FALSE, pend |-> NoWrite,
            read |-> [d \in Docs |-> NotAsked],
            kept |-> {}]   \* the text loaded, and those given to a save since (history)
  /\ shown = [d \in Docs |-> NoText]
  /\ typed = {}
  /\ click = NoClick
  /\ files = [d \in Docs |-> IF d \in First THEN Fresh(d) ELSE NoText]
  /\ late = {}
  /\ clicks = 0

Editing(a) == a.view.at = "edit" /\ a.loaded
Dirty(a)   == Editing(a) /\ a.ed # a.saved

-----------------------------------------------------------------------------
(* What the app does in a frame.                                           *)

\* Mutant: the editor is not loaded again.
OpenedLoaded(a, v) ==
  LET from == IF a.view.at = "edit" THEN Read(a.view.doc) ELSE a.view
      told == a.hist # <<>> /\ Last(a.hist) = from
  IN IF v = a.view THEN a
     ELSE [a EXCEPT !.view = v, !.hist = IF told THEN @ ELSE Append(@, from)]

Opened(a, v) ==
  LET from == IF a.view.at = "edit" THEN Read(a.view.doc) ELSE a.view
      told == a.hist # <<>> /\ Last(a.hist) = from
  IN IF v = a.view THEN a
     ELSE [a EXCEPT !.view = v, !.loaded = FALSE,
                    !.hist = IF told THEN @ ELSE Append(@, from)]

Back(a) ==
  IF a.hist = <<>> THEN a
  ELSE [a EXCEPT !.view = Last(a.hist), !.hist = Front(a.hist), !.loaded = FALSE]

Forget(a, d) == [a EXCEPT !.read[d] = NotAsked]

\* Mutant: a write that failed stays pending.
PolledDone(a) ==
  LET b == [a EXCEPT !.pend = NoWrite]
  IN IF a.pend.st # "ok" THEN a
     ELSE CASE a.pend.op = "save" -> [b EXCEPT !.saved = b.ed]
            [] a.pend.op = "newdoc" -> Opened(b, Edit(a.pend.doc))
            [] a.pend.op = "newfolder" -> Opened(b, Browse)

\* poll_pending(): a save that has landed makes the editor's text the saved one; a
\* document created is opened.
Polled(a) ==
  LET b == [a EXCEPT !.pend = NoWrite]
  IN CASE a.pend.st \notin {"ok", "err"} -> a
       [] a.pend.st = "err" -> b
       [] a.pend.st = "ok" /\ a.pend.op = "save" ->
            [(IF b.view.at = "edit" THEN Forget(b, b.view.doc) ELSE b) EXCEPT !.saved = b.ed]
       [] a.pend.st = "ok" /\ a.pend.op = "newdoc" -> Opened(b, Edit(a.pend.doc))
       [] a.pend.st = "ok" /\ a.pend.op = "newfolder" -> Opened(b, Browse)

Load(a, t) == [a EXCEPT !.ed = t, !.push = TRUE, !.saved = t, !.loaded = TRUE, !.kept = {t}]

\* read() and edit() ask for the document, and an editor not filled yet is.
Asked(a) ==
  LET d == a.view.doc
  IN IF a.view = Browse \/ Editing(a) THEN a
     ELSE IF a.read[d].st = "none" THEN [a EXCEPT !.read[d].st = "asked"]
     ELSE IF a.view.at = "edit" /\ a.read[d].st = "ready" THEN Load(a, a.read[d].text)
     ELSE a

\* The widgets drawn.
Offered(a) ==
  LET v == a.view
      here == CASE v = Browse ->
                     {[op |-> "newdoc", doc |-> d] : d \in Docs} \cup {[op |-> "newfolder"]}
                [] v.at = "read" /\ a.read[v.doc].st = "ready"    -> {In(v, "edit")}
                [] v.at # "browse" /\ ~a.loaded /\ a.read[v.doc].st = "failed" ->
                     {In(v, IF v.at = "read" THEN "retry" ELSE "close")}
                [] Editing(a) ->
                     {In(v, "close")}
                     \cup {In(v, op) : op \in {x \in {"save"} : a.pend.op # "save"}
                                         \cup {x \in {"discard"} : Dirty(a)}}
                     \cup {[op |-> "insert", in |-> v, text |-> t] : t \in TextsAs(a.ed)}
                [] OTHER -> {}
  IN here
     \cup {[op |-> "go", view |-> w] : w \in {Browse} \cup {Read(d) : d \in Docs}}
     \cup {[op |-> "back"] : h \in {x \in {a.hist} : x # <<>>}}

\* text_edit_multiline(): the edits waiting, unless the app has set the text.
Taken(a) ==
  IF ~Editing(a) THEN a
  ELSE [a EXCEPT !.push = FALSE,
                 !.ed = IF ~a.push /\ a.view.doc \in typed THEN shown[a.view.doc] ELSE @]

\* apply(): "Leaving the editor by any route would lose unsaved changes".
Apply(a, c) ==
  CASE c.op = "discard" -> [a EXCEPT !.view = Read(a.view.doc), !.loaded = FALSE]
    [] c.op \in {"back", "go", "close"} /\ Dirty(a) -> a
    [] c.op = "back" /\ ~Dirty(a) -> Back(a)
    [] c.op = "go" /\ ~Dirty(a) -> Opened(a, c.view)
    [] c.op = "close" /\ ~Dirty(a) -> [a EXCEPT !.view = Read(a.view.doc), !.loaded = FALSE]
    [] c.op = "insert" -> [a EXCEPT !.ed = c.text, !.push = TRUE]
    [] c.op = "retry" -> Forget(a, a.view.doc)
    [] c.op = "edit" -> Opened(a, Edit(a.view.doc))
    [] c.op = "save" /\ a.pend = NoWrite ->
         [a EXCEPT !.pend = Write("save", a.view.doc, a.ed), !.kept = @ \cup {a.ed}]
    [] c.op = "newdoc" /\ a.pend = NoWrite ->
         [a EXCEPT !.pend = Write("newdoc", c.doc, Fresh(c.doc))]
    [] c.op = "newfolder" /\ a.pend = NoWrite ->
         [a EXCEPT !.pend = Write("newfolder", NoText, NoText)]
    [] OTHER -> a

\* Mutant: what the user types is taken after what they click.
ClickedTyping(a) ==
  LET o == Offered(a)
      b == Apply(a, IF click \in o THEN click ELSE NoClick)
  IN [Taken(a) EXCEPT !.view = b.view, !.loaded = b.loaded, !.pend = b.pend,
                      !.hist = b.hist, !.read = b.read]

\* The click counts if its widget is drawn again, and comes after the edits.
Clicked(a) == Apply(Taken(a), IF click \in Offered(a) THEN click ELSE NoClick)

\* A frame in which the user types, if the editor is drawn, and clicks.
Show(a) ==
  IF ~Editing(a) THEN UNCHANGED <<shown, typed>>
  ELSE LET d == a.view.doc
           t == IF a.push THEN a.ed ELSE shown[d]
       IN \E u \in {t} \cup TextsAs(t) :
            /\ shown' = [shown EXCEPT ![d] = u]
            /\ typed' = IF u = t THEN typed \ {d} ELSE typed \cup {d}

Frame ==
  \E a \in {Asked(Polled(app))} :
    /\ app' = Clicked(a)
    /\ Show(a)
    /\ \/ click' = NoClick /\ clicks' = clicks
       \/ click' \in Offered(a) /\ clicks < MaxClicks /\ clicks' = clicks + 1
    /\ UNCHANGED <<files, late>>

\* begin_frame() drops a document not asked for in a while.
Sweep(d) ==
  /\ app.read[d].st # "none"
  /\ ~(app.view.at # "browse" /\ app.view.doc = d /\ ~app.loaded)
  /\ app' = Forget(app, d)
  /\ UNCHANGED <<shown, typed, click, files, late, clicks>>

-----------------------------------------------------------------------------
(* The server and the network.                                             *)

\* read_file() and write_file().
ServeRead(d) ==
  /\ app.read[d].st = "asked"
  /\ app' = [app EXCEPT !.read[d] = [st |-> "answered", text |-> files[d]]]
  /\ UNCHANGED <<shown, typed, click, files, late, clicks>>

Declined(w) == w.op = "newdoc" /\ files[w.doc] # NoText

AfterWrite(w) ==
  IF Declined(w) \/ w.op = "newfolder" THEN files
  ELSE [files EXCEPT ![w.doc] = w.text]

ServeWrite ==
  /\ app.pend.st = "sent"
  /\ app' = [app EXCEPT !.pend.st = IF Declined(app.pend) THEN "refused" ELSE "done"]
  /\ files' = AfterWrite(app.pend)
  /\ UNCHANGED <<shown, typed, click, late, clicks>>

\* The answers come, or the calls fail: the connection is lost, or their time is up.
HearRead(d) ==
  /\ app.read[d].st \in {"asked", "answered"}
  /\ \E st \in {"failed"} \cup {x \in {"ready"} : app.read[d].text # NoText} :
       app' = [app EXCEPT !.read[d] =
                 [st |-> st, text |-> IF st = "ready" THEN @.text ELSE NoText]]
  /\ UNCHANGED <<shown, typed, click, files, late, clicks>>

HearWrite ==
  /\ app.pend.st \in {"done", "refused"}
  /\ app' = [app EXCEPT !.pend.st = IF @ = "done" THEN "ok" ELSE "err"]
  /\ UNCHANGED <<shown, typed, click, files, late, clicks>>

FailWrite ==
  /\ app.pend.st \in {"sent", "done", "refused"}
  /\ app' = [app EXCEPT !.pend.st = "err"]
  /\ late' = IF app.pend.st = "sent" THEN late \cup {app.pend} ELSE late
  /\ UNCHANGED <<shown, typed, click, files, clicks>>

\* A write nobody waits for is done, if ever.
ServeLate(w) ==
  /\ w \in late
  /\ files' = AfterWrite(w)
  /\ late' = late \ {w}
  /\ UNCHANGED <<app, shown, typed, click, clicks>>

DNext ==
  \/ Frame
  \/ \E d \in Docs : Sweep(d) \/ ServeRead(d) \/ HearRead(d)
  \/ ServeWrite \/ HearWrite \/ FailWrite
  \/ \E w \in late : ServeLate(w)

\* Frames that would draw anything new are drawn, and a call is answered or fails.
DFairness == WF_dvars(Frame) /\ WF_dvars(HearWrite \/ FailWrite)

DSpec == DInit /\ [][DNext]_dvars /\ DFairness

-----------------------------------------------------------------------------
DTypeOK ==
  /\ app.view \in Views
  /\ app.hist \in Seq({Browse} \cup {Read(d) : d \in Docs})
  /\ {app.ed, app.saved} \cup app.kept \subseteq Text \cup {NoText}
  /\ app.push \in BOOLEAN
  /\ app.loaded \in BOOLEAN /\ (app.loaded => app.view.at = "edit")
  /\ app.read \in [Docs -> ReadSlot]
  /\ app.pend.op \in {"none", "save", "newdoc", "newfolder"}
  /\ app.pend.st \in {"none", "sent", "done", "refused", "ok", "err"}
  /\ shown \in [Docs -> Text \cup {NoText}]
  /\ typed \subseteq Docs
  /\ files \in [Docs -> Text \cup {NoText}]
  /\ clicks \in 0..MaxClicks

\* What the user has in the editor: what it shows, unless the app has just set it.
Has == IF app.push THEN app.ed ELSE shown[app.view.doc]

\* TextSync's SetsOnMove, for the editor: wherever it is drawn, it shows the app's text
\* once the edits of it are taken, in each document anew.
EditorInStep ==
  Editing(app) /\ ~app.push /\ app.view.doc \notin typed => shown[app.view.doc] = app.ed

\* A document's text stays its own: however views, loads, saves and creations cross, no
\* editor shows, and no file is given, the text of another document.
FilesKeepOwnText ==
  \A d \in Docs : {files[d], shown[d]} \subseteq {NoText} \cup [of : {d}, n : Ns]

\* No editor shows anything but its own document's text, in step with the app,
\* whatever views, loads, saves and creations cross.
DocsKeepTexts == DTypeOK /\ EditorInStep /\ FilesKeepOwnText

\* The user leaves the editor by a click.  (A document created meanwhile is opened, too.)
LeavesByClick ==
  /\ Editing(app) /\ app.view' # app.view
  /\ ~(app.pend.op \in {"newdoc", "newfolder"} /\ app.pend.st = "ok")

\* "Leaving the editor by any route would lose unsaved changes", so no click but Discard
\* does: what the user has then, the last edit included, is what the app has for saved.
ClicksLeaveClean ==
  [][LeavesByClick /\ click.op # "discard" /\ app.pend.st # "ok" => Has = app.saved]_dvars

\* And what they have was loaded, or given to a save.
LeavesOnlySaved ==
  [][LeavesByClick /\ click.op # "discard" => Has \in app.kept]_dvars

\* A save or creation ends, one way or the other, so that another can be made.
WritesEnd == app.pend # NoWrite ~> app.pend = NoWrite
=============================================================================
