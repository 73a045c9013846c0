------------------------------- MODULE Viewer -------------------------------
(***************************************************************************)
(* The Viewer app (apps/viewer): a window that searches for a file or is   *)
(* opened on one, and shows it read-only as a picture, a player, a         *)
(* document, a table or text.  It draws a frame when the user does         *)
(* something, when an answer arrives and, while the server converts the    *)
(* file, on a timer; between frames it does nothing.                       *)
(***************************************************************************)
EXTENDS Integers, SequencesExt

CONSTANTS
    Documents,      \* the files there may be, see DocumentShape
    Letters,        \* the characters that mean nothing in a table
    MaxLost         \* bound: calls that are lost or refused for another reason

\* Characters, of a table file, by what they mean in one.
Special    == {"sep", "quote", "newline", "return"}
Characters == Special \cup Letters

\* A file: what its name says it is, what its folder's listing says of it,
\* whether that is too big to show as text, what the server finds it to be,
\* how long it takes to have that ready, whether it is text, the table it
\* holds (its rows, of at least a cell each), and whether its lines end with a
\* carriage return too.
DocumentShape(d) ==
    /\ d.name \in {"media", "unknown", "pdf", "table", "text"}
    /\ d.entry \in {"file", "dir", "missing", "cut off"}
    /\ {d.big, d.isText, d.crlf} \subseteq BOOLEAN /\ d.work \in Nat
    /\ d.rows \in Seq(Seq(Seq(Characters)) \ {<< >>})
    /\ d.really \in {"picture", "animated", "video", "audio", "not media", "broken"}

ASSUME ViewerAssumption ==
    /\ \A d \in Documents : DocumentShape(d)
    /\ MaxLost \in Nat

VARIABLES
    doc,        \* the file
    contents,   \* its text
    view,       \* the Viewer
    slot,       \* its requests in the request cache, one of each kind
    work,       \* how far the server is from having the copy
    screen,     \* what the last frame drew
    due,        \* a frame will be drawn
    lost        \* calls lost so far

vvars == <<doc, contents, view, slot, work, screen, due, lost>>

-----------------------------------------------------------------------------
(* The rows of a table file. *)

\* As a spreadsheet writes a cell: in quotes if it holds what would end it.
QuotedChar(c) == IF c = "quote" THEN <<"quote", "quote">> ELSE <<c>>

Quoted(cell) ==
    <<"quote">> \o FlattenSeq([i \in DOMAIN cell |-> QuotedChar(cell[i])]) \o <<"quote">>

Written(cell) == IF ToSet(cell) \cap Special # {} THEN Quoted(cell) ELSE cell

WrittenRow(row, end) ==
    FlattenSeq([i \in DOMAIN row |-> IF i = 1 THEN Written(row[i])
                                              ELSE <<"sep">> \o Written(row[i])]) \o end

LineEnd(crlf) == IF crlf THEN <<"return", "newline">> ELSE <<"newline">>

\* The text of a file that holds those rows.
Contents(d) ==
    FlattenSeq([i \in DOMAIN d.rows |-> WrittenRow(d.rows[i], LineEnd(d.crlf))])

\* parse_table: its rows, row and cell, whether it is within quotes, and whether
\* it has taken the next character already.
Reading(rows, row, cell, quoted, skips) ==
    [rows |-> rows, row |-> row, cell |-> cell, quoted |-> quoted, skips |-> skips]

\* What follows a character, or nothing.
Peek(text, i) == IF i < Len(text) THEN text[i + 1] ELSE "end"

\* A quote inside quotes that is the first of two is one quote of the cell.
NotDoubled(text, i) == FALSE
Doubled(text, i) == Peek(text, i) = "quote"

WithChar(s, c) == [s EXCEPT !.cell = Append(@, c)]
EndCell(s)     == [s EXCEPT !.row = Append(@, s.cell), !.cell = << >>]
EndRow(s)      == [s EXCEPT !.rows = Append(@, s.row), !.row = << >>]

ReadChar(text, s, i) ==
    LET c == text[i] IN
    CASE s.skips -> [s EXCEPT !.skips = FALSE]
      [] ~s.skips /\ s.quoted /\ c = "quote" /\ Doubled(text, i) ->
            [WithChar(s, c) EXCEPT !.skips = TRUE]
      [] ~s.skips /\ s.quoted /\ c = "quote" /\ ~Doubled(text, i) -> [s EXCEPT !.quoted = FALSE]
      [] ~s.skips /\ ~s.quoted /\ c = "quote" /\ s.cell = << >> -> [s EXCEPT !.quoted = TRUE]
      [] ~s.skips /\ ~s.quoted /\ c = "sep" -> EndCell(s)
      [] ~s.skips /\ ~s.quoted /\ c = "return" /\ Peek(text, i) = "newline" -> s
      [] ~s.skips /\ ~s.quoted /\ c = "newline" -> EndRow(EndCell(s))
      [] OTHER -> WithChar(s, c)

\* What it has read after each character (the one element of a set, so that
\* each is worked out once).
Read(text) ==
    LET run[i \in 0..Len(text)] ==
          IF i = 0 THEN Reading(<< >>, << >>, << >>, FALSE, FALSE)
          ELSE CHOOSE next \in {ReadChar(text, s, i) : s \in {run[i - 1]}} : TRUE
    IN run

Parsed(text) ==
    LET s == Read(text)[Len(text)]
    IN IF s.cell = << >> /\ s.row = << >> THEN s.rows ELSE EndRow(EndCell(s)).rows

-----------------------------------------------------------------------------

Asks == {"list", "copy", "read", "info", "search"}

VInit ==
    /\ doc \in Documents
    /\ contents = Contents(doc)
    /\ \E opened \in BOOLEAN :
        view = [file |-> opened, query |-> "short", converting |-> FALSE, loaded |-> FALSE,
               rows |-> << >>, asText |-> FALSE, details |-> FALSE]
    /\ slot = [r \in Asks |-> "unasked"]
    /\ work = doc.work
    /\ screen = "blank"
    /\ due = TRUE
    /\ lost = 0

\* What a frame leaves: the app, its requests, and what is on the screen.
Presents(a, s, what) == [view |-> a, slot |-> s, screen |-> what]

\* RpcCtx::get: asks what was not asked before.
Get(s, r) == IF s[r] = "unasked" THEN [s EXCEPT ![r] = "sent"] ELSE s

\* text_view: the file's text is taken once, when it arrives.
Taken(a, table) ==
    IF a.loaded THEN a
    ELSE [a EXCEPT !.loaded = TRUE, !.asText = FALSE,
                   !.rows = IF table THEN Parsed(contents) ELSE << >>]

TextView(a, s, table) ==
    LET s1 == Get(s, "read")
        a1 == Taken(a, table)
    IN  CASE doc.entry = "file" /\ doc.big -> Presents(a, s, "too big")
          [] (doc.entry = "file" => ~doc.big) /\ s1["read"] = "sent" -> Presents(a, s1, "loading")
          [] (doc.entry = "file" => ~doc.big) /\ s1["read"] = "failed" ->
                Presents(a, s1, "cannot be shown")
          [] OTHER -> Presents(a1, s1, IF contents = << >> THEN "empty"
                                      ELSE IF table /\ ~a1.asText THEN "table" ELSE "text")

\* The answer that a copy is not ready is thrown away, so that it is asked for
\* again; as it would be if it were kept.
AskedOnce(s) == s
AskAgain(s) == [s EXCEPT !["copy"] = "unasked"]

\* picture_view: its details are asked for only once they are shown.
PictureView(a, s) == Presents(a, IF a.details THEN Get(s, "info") ELSE s, "picture")

\* media_view: as the server says it is.
MediaView(a, s) ==
    LET s1 == Get(s, "copy") IN
    CASE s1["copy"] = "sent"       -> Presents(a, s1, "opening")
      [] s1["copy"] = "failed"     -> Presents(a, s1, "problem")
      [] s1["copy"] = "unfinished" ->
            Presents([a EXCEPT !.converting = TRUE], AskAgain(s1), "converting")
      [] s1["copy"] = "ready" /\ doc.really = "broken" -> Presents(a, s1, "problem")
      [] s1["copy"] = "ready" /\ doc.really \in {"picture", "animated"} -> PictureView(a, s1)
      [] s1["copy"] = "ready" /\ doc.really \in {"video", "audio"} -> Presents(a, s1, "player")
      [] s1["copy"] = "ready" /\ doc.really = "not media" -> TextView(a, s1, FALSE)

\* file_view: the folder's listing says whether the file is there.
FileView(a, s) ==
    LET s1 == Get(s, "list")
        a1 == [a EXCEPT !.converting = FALSE]
        problem == s1["list"] = "failed" \/ doc.entry \in {"dir", "missing"}
    IN  CASE s1["list"] = "sent"            -> Presents(a, s1, "opening")
          [] s1["list"] # "sent" /\ problem -> Presents(a, s1, "problem")
          [] s1["list"] # "sent" /\ ~problem /\ doc.name \in {"media", "unknown"} ->
                MediaView(a1, s1)
          [] s1["list"] # "sent" /\ ~problem /\ doc.name = "pdf" -> Presents(a1, s1, "document")
          [] s1["list"] # "sent" /\ ~problem /\ doc.name \in {"table", "text"} ->
                TextView(a1, s1, doc.name = "table")

\* search_view: a short query is not searched for.
SearchView(a, s) ==
    LET s1 == IF a.query = "short" THEN s ELSE Get(s, "search")
    IN  Presents(a, s1, IF a.query = "short" THEN "search"
                     ELSE IF s1["search"] = "ready" THEN "hits"
                     ELSE IF s1["search"] = "failed" THEN "no search" ELSE "searching")

View(a) == IF a.file THEN FileView(a, slot) ELSE SearchView(a, slot)

Draws(a) ==
    \E drawn \in {View(a)} :
        /\ view' = drawn.view
        /\ slot' = drawn.slot
        /\ screen' = drawn.screen

\* A frame nobody asked for with a click: an answer, the timer, the mouse.
Update ==
    /\ due
    /\ Draws(view)
    /\ due' = FALSE
    /\ UNCHANGED <<doc, contents, work, lost>>

\* A frame with a click on what the last one drew.
ClickOn(a) ==
    \/ screen \in {"search", "searching", "hits", "no search"} /\ view.query = "short"
       /\ a = [view EXCEPT !.query = "long"]
    \/ screen = "hits" /\ a = [view EXCEPT !.file = TRUE]
    \/ screen = "table" /\ a = [view EXCEPT !.asText = TRUE]
    \/ screen = "text" /\ doc.name = "table" /\ a = [view EXCEPT !.asText = FALSE]
    \/ screen = "picture" /\ a = [view EXCEPT !.details = ~@]

ClickFrame ==
    /\ \E a \in {[view EXCEPT !.query = "long"], [view EXCEPT !.file = TRUE],
                 [view EXCEPT !.asText = ~@], [view EXCEPT !.details = ~@]} :
        ClickOn(a) /\ Draws(a)
    /\ due' = TRUE
    /\ UNCHANGED <<doc, contents, work, lost>>

\* wants_repaint_after_ms: the next frame of a file that is being converted.
Timer ==
    /\ view.converting /\ ~due
    /\ due' = TRUE
    /\ UNCHANGED <<doc, contents, view, slot, work, screen, lost>>

-----------------------------------------------------------------------------
(* The server, and the calls. *)

Heard(r, answer) ==
    /\ slot[r] = "sent"
    /\ slot' = [slot EXCEPT ![r] = answer]
    /\ due' = TRUE
    /\ UNCHANGED <<doc, contents, view, screen>>

\* ReadFile refuses what is not text or too big; WebCopy says how far it is.
Replied(r) ==
    /\ Heard(r, CASE r = "read" /\ (doc.big \/ ~doc.isText) -> "failed"
                  [] r = "copy" /\ work > 0 -> "unfinished"
                  [] OTHER -> "ready")
    /\ UNCHANGED <<work, lost>>

\* The call is lost, and counts as failed at its deadline.
Lost(r) ==
    /\ lost < MaxLost
    /\ lost' = lost + 1
    /\ Heard(r, "failed")
    /\ UNCHANGED work

\* The server goes on with the copy, once it was asked for one.
Convert ==
    /\ work > 0
    /\ slot["copy"] # "unasked" \/ view.converting
    /\ work' = work - 1
    /\ UNCHANGED <<doc, contents, view, slot, screen, due, lost>>

VNext ==
    \/ Update \/ ClickFrame \/ Timer \/ Convert
    \/ \E r \in Asks : Replied(r) \/ Lost(r)

\* A frame asked for is drawn, the timer fires, a call is answered or fails,
\* and a conversion goes on.
VFairness ==
    /\ WF_vvars(Update) /\ WF_vvars(Timer) /\ WF_vvars(Convert)
    /\ \A r \in Asks : WF_vvars(Replied(r) \/ Lost(r))

VFairSpec == VInit /\ [][VNext]_vvars /\ VFairness

-----------------------------------------------------------------------------

Final == {"problem", "too big", "cannot be shown", "empty", "table", "text", "picture",
          "player", "document"}

ViewerWellFormed ==
    /\ slot \in [Asks -> {"unasked", "sent", "unfinished", "ready", "failed"}]
    /\ screen \in Final \cup {"blank", "search", "searching", "hits", "no search", "opening", "loading",
                              "converting"}

\* The table a window shows is the one that was saved, cell by cell: whatever
\* its cells hold (separators, quotes, line breaks) and however its lines end.
RowsAreTheTable ==
    /\ ViewerWellFormed
    /\ screen = "table" => view.rows = doc.rows

\* A window with a file shows it in the end, or says why not, and then goes on
\* showing it: nothing but the answers and the window's own timer brings the
\* next frame, so a request that is neither repeated nor waited for would leave
\* it at "Converting" for good.
ShowsInTheEnd == view.file ~> [](screen \in Final)

\* "It is small enough, so it isn't text: there is nothing here to show it
\* with" (text_view): a file said not to be showable is not text.
UnshowableIsTrue == screen = "cannot be shown" => ~doc.isText \/ doc.big

=============================================================================
