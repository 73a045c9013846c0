------------------------------ MODULE RpcSystem ------------------------------
(***************************************************************************)
(* A call's whole way: apps with their request caches (RpcCtx), the shell's *)
(* frame loop and pending-call table (PendingTable), one POST per flush,    *)
(* and the server's /rpc handler.                                          *)
(*                                                                         *)
(* The apps are Files windows: each shows one folder, listing it every      *)
(* frame, and deletes in it.  A folder is the number of deletions done in   *)
(* it, which is what a listing of it shows.  A frame is one call of         *)
(* Desktop::ui, a step per window, and nothing of the network happens in    *)
(* it: a page runs one callback at a time.                                 *)
(***************************************************************************)
EXTENDS PendingTable, RpcCtx

CONSTANTS
  Dirs,   \* the folders
  Root,   \* the folder a new window opens on
  Order   \* the windows, in the order the desktop draws them

List(d) == [op |-> "list", dir |-> d]
Rm(d)   == [op |-> "remove", dir |-> d]

ASSUME SystemAssumption ==
  /\ Requests = {List(d) : d \in Dirs} \cup {Rm(d) : d \in Dirs}
  /\ Merged = {List(d) : d \in Dirs}
  /\ CallIds = 1..MaxCalls
  /\ Root \in Dirs
  /\ Order \in Seq(Windows) \ {<<>>}
  /\ \A w \in Windows : \E i \in DOMAIN Order : Order[i] = w

VARIABLES
  turn,     \* 0 between frames; i in a frame whose i'th window is next
  wins,     \* the windows: see Fresh
  table,    \* the pending-call table
  issued,   \* how many calls were made (history)
  posts,    \* POSTs at the server: what is left to do and the replies so far
  inbox,    \* replies that have come for the next frame
  ver,      \* the folders, at the server
  reported  \* the deletions windows were told have been done (history)

vars == <<turn, wins, table, issued, posts, inbox, ver, reported>>

NoCall == [call |-> 0, dir |-> "none"]

\* A window: its app's RpcCtx, the folder it shows, whether an entry of it may
\* be up for deletion (an entry is picked in a listing drawn, and the deletion
\* confirmed in a later frame), the deletion it watches, AppWindow::open (and
\* its sink's alive), and the events delivered to it and not handed to the app
\* yet.
Fresh == [cache |-> EmptyCache, shows |-> Root, listed |-> FALSE, deleting |-> NoCall,
          open |-> TRUE, queue |-> {}]
Gone  == [Fresh EXCEPT !.open = FALSE]

Init ==
  /\ turn = 0
  /\ wins = [w \in Windows |-> Fresh]
  /\ table = EmptyTable
  /\ issued = 0
  /\ posts = {}
  /\ inbox = {}
  /\ ver = [d \in Dirs |-> 0]
  /\ reported = {}

-----------------------------------------------------------------------------
(* A frame, as a sequence of operators on the page p: the variables the     *)
(* frame changes but inbox and posts.                                      *)

Page == [wins |-> wins, table |-> table, issued |-> issued, reported |-> reported]

Hears(win, E) == [win EXCEPT !.queue = @ \cup E]

\* The page with event[k] delivered to each call k of K in an open window.
Tell(p, K, event) ==
  [p EXCEPT !.wins = [w \in Windows |->
     IF p.wins[w].open THEN Hears(p.wins[w], {event[k] : k \in {j \in K : j[1] = w}})
     ELSE p.wins[w]]]

\* on_replies(), for all that has come since the last frame.
ReplyTo(p, k) ==
  CHOOSE r \in inbox : r.seq \in DOMAIN p.table.groups /\ k \in p.table.groups[r.seq]
Heeded(k, r) == [call |-> k[2], ok |-> r.ok, req |-> r.req, val |-> r.val]

TakeReplies(p) ==
  LET S == {r.seq : r \in inbox}
      K == Members(p.table, S)
  IN IF inbox = {} THEN p
     ELSE [Tell(p, K, [k \in K |-> Heeded(k, ReplyTo(p, k))])
             EXCEPT !.table = ResolveIn(p.table, S)]

\* tick(): deadlines, and the calls of windows that have gone.
Lapsed(k, entry) == [call |-> k[2], ok |-> FALSE, req |-> entry.req, val |-> 0]

TickPage(p) ==
  LET expired == Overdue(p.table) \cup {k \in Live(p.table) : ~p.wins[k[1]].open}
  IN IF expired = {} THEN p
     ELSE [Tell(p, expired, [k \in expired |-> Lapsed(k, p.table.entries[k])])
             EXCEPT !.table = Without(p.table, expired)]

\* poll_delete(): collect the outcome and list the folder again.
PollDelete(c, del) ==
  IF Finished(c, del.call) THEN Invalidate(Collect(c, del.call), List(del.dir)) ELSE c

\* What a user may do in a window in one frame: refresh, retry a listing that
\* failed, confirm a deletion, go to the top folder or enter one below it, close
\* the window.  "hidden" is a minimised window, which gets no frames.
Inputs == {"none", "hidden", "refresh", "retry", "delete", "close"} \cup Dirs

Listing(c, d) == c.entries[List(d)].slot.st

\* The app's part of a frame: its events, begin_frame(), and update(), in its
\* order.  Record of the cache before and after update(), the folder shown, the
\* deletion watched, and whether there is an entry to confirm deleting.  Going
\* up is done before the folder is listed, entering one after.
Update(win, input) ==
  LET here   == IF input = Root THEN Root ELSE win.shows
      begun  == BeginFrame(Deliver(win.cache, win.queue))
      fresh  == IF input = "refresh" THEN Invalidate(begun, List(here)) ELSE begun
      polled == PollDelete(fresh, win.deleting)
      sends  == input = "delete" /\ win.listed
      sent   == IF sends THEN Send(polled, Rm(here)) ELSE polled
      drawn  == Get(sent, List(here))
      shown  == Listing(drawn, here)
      enters == input \in Dirs \ {Root} /\ here = Root /\ shown = "ready"
      stays  == ~enters /\ here = win.shows /\ ~sends
  IN [begun    |-> begun,
      cache    |-> IF input = "retry" /\ shown = "failed"
                   THEN Invalidate(drawn, List(here)) ELSE drawn,
      shows    |-> IF enters THEN input ELSE here,
      listed   |-> ~enters /\ (shown = "ready" \/ (win.listed /\ stays)),
      deleting |-> IF sends THEN [call |-> NextId(polled), dir |-> here]
                   ELSE IF Finished(fresh, win.deleting.call) THEN NoCall
                   ELSE win.deleting]

\* The calls of the outbox, in order: update() sends a deletion and a listing at most.
Enqueued(t, w, box) ==
  LET made(u, o) == EnqueueIn(u, <<w, o.call>>, o.call, o.req)
      first      == made(t, box[1])
  IN IF Len(box) = 0 THEN t ELSE IF Len(box) = 1 THEN first ELSE made(first, box[2])

\* And after them the cancellations.
Cancelled(t, w, ids) ==
  LET taken == {<<w, id>> : id \in ids} \cap Live(t)
  IN IF taken = {} THEN t ELSE Without(t, taken)

\* Window w's part of a frame: the app runs (u), and the host takes its calls.
HostWindow(p, w, input, u) ==
  LET del  == p.wins[w].deleting
      done == Finished(u.begun, del.call) /\ u.begun.commands[del.call].st = "ready"
  IN [wins     |-> [p.wins EXCEPT ![w] =
                      IF input = "close" THEN Gone
                      ELSE [cache |-> Flushed(u.cache), shows |-> u.shows,
                            listed |-> u.listed, deleting |-> u.deleting,
                            open |-> TRUE, queue |-> {}]],
      table    |-> Cancelled(Enqueued(p.table, w, u.cache.outbox), w, u.cache.cancels),
      issued   |-> p.issued + Len(u.cache.outbox),
      reported |-> IF done
                   THEN p.reported \cup
                          {[win |-> w, call |-> del.call, dir |-> del.dir,
                            val |-> u.begun.commands[del.call].val]}
                   ELSE p.reported]

DrawWindow(p, w, input) ==
  IF input = "hidden" \/ ~p.wins[w].open THEN p
  ELSE HostWindow(p, w, input, Update(p.wins[w], input))

\* The frame begins: replies, then deadlines.
StartFrame ==
  /\ turn = 0
  /\ turn' = 1
  /\ \E p \in {TickPage(TakeReplies(Page))} : wins' = p.wins /\ table' = p.table
  /\ inbox' = {}
  /\ UNCHANGED <<issued, posts, ver, reported>>

\* The end of a frame: the flush, and the calls of windows closed in it forgotten.
EndPage(p) ==
  [p EXCEPT !.table = Without(FlushIn(@), {k \in Live(@) : ~p.wins[k[1]].open})]
Posted(t) ==
  IF t.staged = {} THEN {} ELSE {[todo |-> t.staged, done |-> {}, heard |-> TRUE]}

\* The next window's part of the frame, the last one's with the end of it.
Draw(act) ==
  /\ turn \in DOMAIN Order
  /\ turn' = IF turn = Len(Order) THEN 0 ELSE turn + 1
  /\ \E p \in {DrawWindow(Page, Order[turn], act)} :
     \E q \in {IF turn = Len(Order) THEN EndPage(p) ELSE p} :
       /\ p.issued <= MaxCalls
       /\ wins' = q.wins
       /\ table' = q.table
       /\ issued' = q.issued
       /\ reported' = q.reported
       /\ posts' = IF turn = Len(Order) THEN posts \cup Posted(p.table) ELSE posts
  /\ UNCHANGED <<inbox, ver>>

Elapse ==
  /\ turn = 0
  /\ \E k \in Live(table) : table.entries[k].left > 0
  /\ table' = ElapseIn(table)
  /\ UNCHANGED <<turn, wins, issued, posts, inbox, ver, reported>>

\* Mutant: a call the server refused is answered as if done.
ReplyOk(o, ok, val) == [seq |-> o.seq, ok |-> TRUE, req |-> o.req, val |-> val]

Reply(o, ok, val) == [seq |-> o.seq, ok |-> ok, req |-> o.req, val |-> val]

\* rpc::handle runs a batch in order, one call (o) at a time; other batches may
\* run meanwhile.  A deletion the server refuses is a failed entry of its
\* batch; a listing it refuses is to its callers what a failed POST is.
Following(todo) == {x \in todo : \A y \in todo : x.seq <= y.seq}

Serve(p, o, ok) ==
  LET d    == o.req.dir
      now  == IF ok /\ o.req.op = "remove" THEN ver[d] + 1 ELSE ver[d]
      left == p.todo \ {o}
  IN /\ turn = 0
     /\ ok \/ o.req.op = "remove"
     /\ ver' = [ver EXCEPT ![d] = now]
     /\ posts' = (posts \ {p}) \cup
          (IF left = {} /\ ~p.heard THEN {}
           ELSE {[todo |-> left, heard |-> p.heard,
                  done |-> p.done \cup {Reply(o, ok, now)}]})
     /\ UNCHANGED <<turn, wins, table, issued, inbox, reported>>

\* A POST's answer comes: the whole batch.
Answer(p) ==
  /\ turn = 0
  /\ p.todo = {} /\ p.heard
  /\ inbox' = inbox \cup p.done
  /\ posts' = posts \ {p}
  /\ UNCHANGED <<turn, wins, table, issued, ver, reported>>

\* A POST fails on its way: every call of it fails, whether the server has done
\* it, does it later, or never does.
FailPost(p) ==
  /\ turn = 0
  /\ p.heard
  /\ inbox' = inbox \cup {Reply(o, FALSE, 0) : o \in p.todo \cup p.done}
  /\ posts' = (posts \ {p}) \cup
       (IF p.todo = {} THEN {} ELSE {[todo |-> p.todo, done |-> {}, heard |-> FALSE]})
  /\ UNCHANGED <<turn, wins, table, issued, ver, reported>>

Next ==
  \/ StartFrame
  \/ \E act \in Inputs : Draw(act)
  \/ Elapse
  \/ \E p \in posts :
       \/ Answer(p) \/ FailPost(p)
       \/ \E o \in Following(p.todo), ok \in BOOLEAN : Serve(p, o, ok)

Spec == Init /\ [][Next]_vars
-----------------------------------------------------------------------------
TypeOK ==
  /\ turn \in 0..Len(Order)
  /\ \A w \in Windows : wins[w].shows \in Dirs /\ wins[w].open \in BOOLEAN
  /\ TableType(table)
  /\ issued \in 0..MaxCalls
  /\ ver \in [Dirs -> 0..MaxCalls]

CallsOf(w)  == {k[2] : k \in KeysOf(table, w)}
EventsOf(w) == {e.call : e \in wins[w].queue}

\* No call is lost between the app, the shell and the network, and none is
\* orphaned: between frames the calls an open window waits on are exactly those
\* in the pending-call table and those answered in its queue, and no call is in
\* both.  A closed window has none.
CallsAccounted ==
  turn = 0 => \A w \in Windows :
    IF wins[w].open THEN /\ Awaited(wins[w].cache) = CallsOf(w) \cup EventsOf(w)
                         /\ CallsOf(w) \cap EventsOf(w) = {}
                    ELSE CallsOf(w) = {}

\* A reply can always find its entry, and only that one.
CachesConsistent == \A w \in Windows : CacheConsistent(wins[w].cache)

\* "The app cannot express the bug": what is cached for a query is an answer to
\* that query, wherever the app has navigated since.
CachedAnswersOwn ==
  \A w \in Windows : \A q \in DOMAIN wins[w].cache.entries :
    LET slot == wins[w].cache.entries[q].slot
    IN slot.st = "ready" => slot.req = q

\* What holds of the layers between the app and the network in every state.
RpcInv == TypeOK /\ CallsAccounted /\ CachesConsistent /\ CachedAnswersOwn

\* The deletions windows have been told are done: those reported to the user,
\* and those the app has yet to hear of or to collect.
Told ==
  reported
  \cup (UNION {{[win |-> w, call |-> e.call, dir |-> e.req.dir, val |-> e.val] :
                e \in {x \in wins[w].queue : x.ok /\ x.req.op = "remove"}} : w \in Windows})
  \cup (UNION {LET c == wins[w].cache.commands
               IN {[win |-> w, call |-> id, dir |-> c[id].req.dir, val |-> c[id].val] :
                   id \in {i \in DOMAIN c : c[i].st = "ready"}} : w \in Windows})

\* "Every call goes out, exactly once": two deletions windows were told are done
\* were both done, whatever was shared, refused or lost on the way.
EachDeletionDone ==
  \A x, y \in Told : x.dir = y.dir /\ x.val = y.val => x = y

\* What poll_delete() says of itself: once a deletion is done the folder is
\* listed again, so it disappears from the list.
OwnDeletionShown ==
  \A r \in reported : LET c == wins[r.win].cache
                      IN List(r.dir) \in DOMAIN c.entries =>
                           LET slot == c.entries[List(r.dir)].slot
                           IN slot.st = "ready" => slot.val >= r.val
=============================================================================
