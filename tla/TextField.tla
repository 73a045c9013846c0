------------------------------ MODULE TextField ------------------------------
(***************************************************************************)
(* One text field, kept twice: the app's Text (ccosel-sdk, ui.rs) and the   *)
(* shell's TextState (ccosel-host, replay.rs), which owns what the user     *)
(* sees.  Neither sends the other the text as long as it need not: the app  *)
(* draws a field by id and version, and sends a text only after Text::set;  *)
(* the shell sends the app the difference the user has made.                *)
(*                                                                         *)
(* A text is a value, and a difference is the pair of texts it was taken    *)
(* between: applied to the first it gives the second, and applied to        *)
(* another text some mixture of the two.                                    *)
(***************************************************************************)
EXTENDS Naturals

\* Text: version, and whether a set is still to be sent.
NewText(t, empty) == [buf |-> t, ver |-> 1, push |-> t # empty]

\* Text::set.
SetText(x, t) == [buf |-> t, ver |-> x.ver + 1, push |-> TRUE]

\* What applying the difference d to a text gives.
Spliced(t, d, mixed) == IF t = d.from THEN d.to ELSE mixed

\* text_field() and Text::apply_delta: an edit older than the text is left out, and
\* so is any edit if the app has just set the text.
ApplyDelta(x, d, mixed) ==
  IF x.push \/ d.ver <= x.ver THEN x
  ELSE [x EXCEPT !.buf = Spliced(@, d, mixed), !.ver = d.ver]

\* The command that draws the field.
Drawn(id, x) == [id |-> id, ver |-> x.ver, set |-> x.push, text |-> x.buf]

\* What is drawn needs no sending any more.
Sent(x) == [x EXCEPT !.push = FALSE]

\* TextState, for a field not seen yet.  The version of the last set is 0 if none.
NoField         == [seen |-> FALSE]
NewField(empty) == [seen |-> TRUE, buf |-> empty, ver |-> 0, setv |-> 0]

\* Mutant: a set is taken again if its frame is drawn again.
SyncAgain(f, c, empty) ==
  IF c.set THEN [seen |-> TRUE, buf |-> c.text, ver |-> c.ver, setv |-> c.ver]
  ELSE IF f.seen THEN f ELSE [NewField(empty) EXCEPT !.ver = c.ver]

\* Mutant: a new field keeps a version of its own.
SyncUnversioned(f, c, empty) ==
  IF c.set /\ ~(f.seen /\ f.setv = c.ver)
  THEN [seen |-> TRUE, buf |-> c.text, ver |-> c.ver, setv |-> c.ver]
  ELSE IF f.seen THEN f ELSE NewField(empty)

\* sync_from_guest: a set is taken once; a new field adopts the app's version.
Sync(f, c, empty) ==
  IF c.set /\ ~(f.seen /\ f.setv = c.ver)
  THEN [seen |-> TRUE, buf |-> c.text, ver |-> c.ver, setv |-> c.ver]
  ELSE IF f.seen THEN f ELSE [NewField(empty) EXCEPT !.ver = c.ver]

\* The user edits the field; the shell sends the difference before the next
\* frame, so it knows the app's copy to be what it shows.
Typed(f, t)   == [f EXCEPT !.buf = t, !.ver = @ + 1]
DeltaOf(f, t) == [from |-> f.buf, to |-> t, ver |-> f.ver + 1]
=============================================================================
