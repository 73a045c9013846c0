------------------------------ MODULE TextSync ------------------------------
(***************************************************************************)
(* An app with one Text, which it draws under the id of its choice, or not  *)
(* at all, and sets when it likes, and the shell, whose user types.  Ids    *)
(* differ where the app draws the Text in another place: Docs draws its     *)
(* name field inside the id of the folder shown (apps/docs, 380 and 869),   *)
(* and its editor inside that of the document.                              *)
(***************************************************************************)
EXTENDS TextField, Sequences

CONSTANTS
  Ids, Texts,
  Empty,       \* the text of a new field
  Initial,     \* the text the app begins with
  Mixed,       \* any text that was never anybody's
  SetsOnMove,  \* whether the app sets the text when it draws it in another place
  Bound        \* on versions

NoId == <<>>

ASSUME SyncAssumption ==
  /\ {Empty, Initial, Mixed} \subseteq Texts
  /\ SetsOnMove \in BOOLEAN
  /\ NoId \notin Ids
  /\ Bound \in Nat

VARIABLES
  text,   \* the app's Text
  field,  \* Replayer::text: id -> the shell's copy
  queue,  \* Recorder::deltas, and those on their way to it: id -> edits, oldest first
  at,     \* the id the app has drawn last, or is drawing
  taking, \* whether the app is drawing it: taking its edits, one by one
  last    \* what the last frame drew, the field's command or nothing

vars == <<text, field, queue, at, taking, last>>

Unset == [id |-> NoId]

Init ==
  /\ text = NewText(Initial, Empty)
  /\ field = [i \in Ids |-> NoField]
  /\ queue = [i \in Ids |-> <<>>]
  /\ at = NoId
  /\ taking = FALSE
  /\ last = Unset

-----------------------------------------------------------------------------
\* The app sets the text, outside drawing it.
Set(t) ==
  /\ ~taking
  /\ text.ver < Bound
  /\ text' = SetText(text, t)
  /\ UNCHANGED <<field, queue, at, taking, last>>

\* The app draws the field...
StartDraw(i) ==
  /\ ~taking
  /\ SetsOnMove => at \in {NoId, i} \/ text.push
  /\ at' = i
  /\ taking' = TRUE
  /\ UNCHANGED <<text, field, queue, last>>

\* ... takes the edits waiting for it...
Take ==
  /\ taking /\ queue[at] # <<>>
  /\ text' = ApplyDelta(text, Head(queue[at]), Mixed)
  /\ queue' = [queue EXCEPT ![at] = Tail(@)]
  /\ UNCHANGED <<field, at, taking, last>>

\* The shell draws what the app, or an earlier frame, drew, while the user types t,
\* or nothing more than is there already.
Replay(c, f, t) ==
  \/ /\ t = f.buf
     /\ field' = [field EXCEPT ![c.id] = f]
     /\ queue' = queue
  \/ /\ f.ver < Bound
     /\ field' = [field EXCEPT ![c.id] = Typed(f, t)]
     /\ queue' = [queue EXCEPT ![c.id] = Append(@, DeltaOf(f, t))]

\* ... and has drawn it.
Draw(t) ==
  /\ taking /\ queue[at] = <<>>
  /\ text' = Sent(text)
  /\ taking' = FALSE
  /\ last' = Drawn(at, text)
  /\ Replay(Drawn(at, text), Sync(field[at], Drawn(at, text), Empty), t)
  /\ UNCHANGED at

\* A frame without the field.
DrawOther ==
  /\ ~taking
  /\ last' = Unset
  /\ UNCHANGED <<text, field, queue, at, taking>>

\* The app fails to draw, and the shell shows its last frame again.
Redraw(t) ==
  /\ ~taking
  /\ last # Unset
  /\ Replay(last, Sync(field[last.id], last, Empty), t)
  /\ UNCHANGED <<text, at, taking, last>>

Next ==
  \/ \E t \in Texts : Set(t) \/ Draw(t) \/ Redraw(t)
  \/ \E i \in Ids : StartDraw(i)
  \/ Take \/ DrawOther

Spec == Init /\ [][Next]_vars

-----------------------------------------------------------------------------
\* The shell "remembers what the guest holds": whenever no edit is waiting and the
\* app has set nothing, the app's text and version are those of the field it drew
\* last, which the user sees.
InStep ==
  ~taking /\ at # NoId /\ ~text.push /\ queue[at] = <<>> =>
    text.buf = field[at].buf /\ text.ver = field[at].ver

\* A frame shown twice "cannot clobber what the user typed": what a field shows
\* changes only as the user types, or as the app's set of it arrives.
ShownKept ==
  [][\A i \in Ids :
       field[i].seen /\ field'[i] # field[i] =>
         \/ Len(queue'[i]) > Len(queue[i])
         \/ taking /\ at = i /\ text.push]_vars

-----------------------------------------------------------------------------
(* The inductive invariant: see AppServerProofs.                           *)

Delta    == [from : Texts, to : Texts, ver : Nat]
Field   == [seen : {TRUE}, buf : Texts, ver : Nat, setv : Nat]
Command == [id : Ids, ver : Nat, set : BOOLEAN, text : Texts]

TypeOK ==
  /\ text \in [buf : Texts, ver : Nat, push : BOOLEAN]
  /\ field \in [Ids -> Field \cup {NoField}]
  /\ queue \in [Ids -> Seq(Delta)]
  /\ at \in Ids \cup {NoId}
  /\ taking \in BOOLEAN /\ (taking => at # NoId)
  /\ last \in Command \cup {Unset}

\* The shell has not seen the version of a set still to be sent.
SetsAreNew ==
  \A i \in Ids : field[i].seen =>
    field[i].setv <= text.ver /\ (text.push => field[i].setv < text.ver)

\* What the last frame drew is the field at hand, and its set has been taken.
LastWasTaken ==
  last # Unset =>
    /\ ~taking => last.id = at
    /\ field[last.id].seen
    /\ last.set => field[last.id].setv = last.ver

\* "Both sides start empty."
StartsEmpty ==
  /\ \A i \in Ids : ~field[i].seen => queue[i] = <<>>
  /\ at = NoId => \A i \in Ids : ~field[i].seen
  /\ at # NoId /\ ~taking => field[at].seen
  /\ ~text.push /\ (at # NoId => ~field[at].seen) => text.buf = Empty

\* The edits waiting lead from the app's text to the one shown, each newer than
\* the one before.
Leads(x, q, f) ==
  IF q = <<>> THEN x.buf = f.buf /\ x.ver = f.ver
  ELSE /\ q[1].from = x.buf /\ x.ver < q[1].ver
       /\ \A i \in 1..(Len(q) - 1) : q[i].to = q[i + 1].from /\ q[i].ver < q[i + 1].ver
       /\ q[Len(q)].to = f.buf /\ q[Len(q)].ver = f.ver

EditsLead ==
  at # NoId /\ ~text.push /\ field[at].seen => Leads(text, queue[at], field[at])

IInv == TypeOK /\ SetsAreNew /\ LastWasTaken /\ StartsEmpty /\ EditsLead
=============================================================================
