----------------------------- MODULE RpcProofs ------------------------------
(***************************************************************************)
(* A call's whole way, for any windows, folders and number of calls: its    *)
(* invariant RpcInv by the inductive RpcIInv, and EachDeletionDone by       *)
(* DeletionsInv beside it.                                                 *)
(*                                                                         *)
(* Each method of the request cache is first shown to return a record (the *)
(* lemmas named ...Is), then to keep the cache within a frame (...Within),  *)
(* from which follows what a window's frame makes of the table.            *)
(***************************************************************************)
EXTENDS RpcSystem, PendingTableProofs, FiniteSetTheorems

\* The types of a cache.
Slots == [st : {"flight"}, call : Nat] \cup [st : {"ready"}, req : Requests, val : Nat]
         \cup [st : {"failed"}]
CacheEntries == [slot : Slots, idle : Nat]
Events == [call : Nat, ok : BOOLEAN, req : Requests, val : Nat]
Calls == [call : Nat, req : Requests]

CacheType(c) ==
  /\ c = [entries |-> c.entries, byCall |-> c.byCall, commands |-> c.commands,
          outbox |-> c.outbox, cancels |-> c.cancels, nextId |-> c.nextId]
  /\ DOMAIN c.entries \subseteq Requests
  /\ c.entries \in [DOMAIN c.entries -> CacheEntries]
  /\ c.byCall \in [DOMAIN c.byCall -> Requests]
  /\ c.commands \in [DOMAIN c.commands -> Slots]
  /\ c.outbox \in Seq(Calls)
  /\ c.nextId \in Nat
  /\ DOMAIN c.byCall \cup DOMAIN c.commands \cup c.cancels \subseteq 1..c.nextId

\* The index is exact, and a command waits on its own call.
Indexed(c) ==
  /\ \A q \in DOMAIN c.entries : IsInFlight(c.entries[q].slot) =>
        c.entries[q].slot.call \in DOMAIN c.byCall /\ c.byCall[c.entries[q].slot.call] = q
  /\ \A id \in DOMAIN c.byCall :
        c.byCall[id] \in DOMAIN c.entries /\ c.entries[c.byCall[id]].slot = InFlight(id)
  /\ DOMAIN c.byCall \cap DOMAIN c.commands = {}
  /\ \A id \in DOMAIN c.commands : IsInFlight(c.commands[id]) => c.commands[id].call = id

\* What is cached for a query answers that query.
Own(c) ==
  \A q \in DOMAIN c.entries :
    c.entries[q].slot.st = "ready" => c.entries[q].slot.req = q

\* Entries are swept before they are older than that.
UsedLately(c) == \A q \in DOMAIN c.entries : c.entries[q].idle <= SweepAfter

\* What every method of the cache keeps.
CacheOK(c) == CacheType(c) /\ Indexed(c) /\ Own(c)

\* The cache within a frame, before which the app had made m calls, of which those
\* of X are in the table, for the requests R: it waits on those and on the calls it
\* has made, but for what it takes back.
Within(c, m, X, R) ==
  /\ CacheOK(c)
  /\ c.nextId = m + Len(c.outbox)
  /\ \A i \in 1..Len(c.outbox) :
       /\ c.outbox[i].call = m + i
       /\ m + i \in DOMAIN c.byCall => c.outbox[i].req = c.byCall[m + i]
  /\ Awaited(c) = (X \cup ((m + 1)..c.nextId)) \ c.cancels
  /\ \A id \in X \cap DOMAIN c.byCall : R[id] = c.byCall[id]

-----------------------------------------------------------------------------
\* The inductive invariant.

\* The replies, and the requests they answer.
Replies == [seq : Nat, ok : BOOLEAN, req : Requests, val : Nat]
Asked(S) == {[seq |-> r.seq, req |-> r.req] : r \in S}

\* The requests whose replies may still come.
Wire(ps, in) ==
  Asked(in) \cup UNION {p.todo \cup Asked(p.done) : p \in {x \in ps : x.heard}}

\* The requests the server may still carry out, and their sequence numbers.
ToDo(ps) == UNION {p.todo : p \in ps}
Unserved(t, ps) == {o.seq : o \in t.staged \cup ToDo(ps)}

\* A request is sent once: it is staged or to do in one POST, under its own number.
PostsOK(t, ps) ==
  /\ \A p \in ps : /\ p = [todo |-> p.todo, done |-> p.done, heard |-> p.heard]
                   /\ p.todo \subseteq Outgoing
                   /\ p.done \subseteq Replies
                   /\ p.heard \in BOOLEAN
  /\ \A o \in ToDo(ps) : o.seq <= t.nextSeq
  /\ \A p \in ps, q \in ps : \A x \in p.todo, y \in q.todo :
        x.seq = y.seq => x = y /\ p = q
  /\ \A p \in ps : \A x \in p.todo, y \in t.staged : x.seq # y.seq

\* A deletion done was one call, which no longer waits to be done.
VerOK(t, ps, v) ==
  /\ v \in [Dirs -> Nat]
  /\ \A d \in Dirs : v[d] + Cardinality(Unserved(t, ps)) <= t.nextSeq

\* The calls of window w in the table, and those answered in its queue.
CallsIn(t, w) == {k[2] : k \in KeysOf(t, w)}
CallsFor(win) == {e.call : e \in win.queue}

\* What holds of window w and its calls in the table t, of n calls made.
WinType(win) ==
  win = [cache |-> win.cache, shows |-> win.shows, listed |-> win.listed,
         deleting |-> win.deleting, open |-> win.open, queue |-> win.queue]
OpenOK(w, win, t, n) ==
  /\ CacheOK(win.cache)
  /\ UsedLately(win.cache)
  /\ win.cache.outbox = <<>> /\ win.cache.cancels = {}
  /\ win.cache.nextId <= n
  /\ win.shows \in Dirs
  /\ win.queue \subseteq Events
  /\ Awaited(win.cache) = CallsIn(t, w) \cup CallsFor(win)
  /\ CallsIn(t, w) \cap CallsFor(win) = {}
  /\ \A e \in win.queue : e.ok /\ e.call \in DOMAIN win.cache.byCall
                            => e.req = win.cache.byCall[e.call]
  /\ \A id \in CallsIn(t, w) \cap DOMAIN win.cache.byCall :
        t.entries[<<w, id>>].req = win.cache.byCall[id]
WinOK(w, win, t, n) ==
  /\ WinType(win)
  /\ win.open \in BOOLEAN
  /\ ~win.open => win = Gone
  /\ win.open => OpenOK(w, win, t, n)

\* All windows.
WinsOK(ws, t, n) ==
  /\ ws = [w \in Windows |-> ws[w]]
  /\ \A w \in Windows : WinOK(w, ws[w], t, n)

RpcIInv ==
  /\ turn \in 0..Len(Order)
  /\ issued \in 0..MaxCalls
  /\ table.nextSeq <= issued
  /\ inbox \subseteq Replies
  /\ TableServed(table, Wire(posts, inbox))
  /\ PostsOK(table, posts)
  /\ VerOK(table, posts, ver)
  /\ WinsOK(wins, table, issued)
  /\ turn = 0 => \A w \in Windows : ~wins[w].open => CallsIn(table, w) = {}
-----------------------------------------------------------------------------
\* What the methods make of a cache.

\* The calls of the entries Q.
IdsOf(c, Q) == {id \in DOMAIN c.byCall : c.byCall[id] \in Q}

LEMMA RetireIs ==
  ASSUME NEW c, CacheType(c), NEW Q
  PROVE  Retire(c, Q) =
           [entries |-> Cut(c.entries, Q), byCall |-> Cut(c.byCall, IdsOf(c, Q)),
            commands |-> c.commands, outbox |-> c.outbox,
            cancels |-> c.cancels \cup IdsOf(c, Q), nextId |-> c.nextId]
<1> DEFINE e == c.entries
           b == c.byCall
           d == c.commands
           o == c.outbox
           k == c.cancels
           n == c.nextId
           g == IdsOf(c, Q)
<1>1. c = [entries |-> e, byCall |-> b, commands |-> d, outbox |-> o, cancels |-> k, nextId |-> n]
  BY DEF CacheType
<1>2. Retire(c, Q) = [c EXCEPT !.entries = Cut(e, Q), !.byCall = Cut(b, g), !.cancels = k \cup g]
  BY Zenon DEF Retire, IdsOf
<1> HIDE DEF e, b, d, o, k, n, g
<1>3. Retire(c, Q) = [entries |-> Cut(e, Q), byCall |-> Cut(b, g), commands |-> d, outbox |-> o,
                      cancels |-> k \cup g, nextId |-> n]
  BY <1>1, <1>2
<1> QED BY <1>3 DEF e, b, d, o, k, n, g

LEMMA RetireOK ==
  ASSUME NEW c, CacheOK(c), NEW Q
  PROVE  CacheOK(Retire(c, Q))
<1> DEFINE u == Retire(c, Q)
<1>1. u = [entries |-> Cut(c.entries, Q), byCall |-> Cut(c.byCall, IdsOf(c, Q)),
           commands |-> c.commands, outbox |-> c.outbox,
           cancels |-> c.cancels \cup IdsOf(c, Q), nextId |-> c.nextId]
  BY RetireIs DEF CacheOK
<1> HIDE DEF u
<1>2. CacheType(u)
  BY <1>1 DEF CacheOK, CacheType, Cut, IdsOf
<1>3. Indexed(u)
  BY <1>1 DEF CacheOK, Indexed, Cut, IdsOf, InFlight, IsInFlight
<1>4. Own(u)
  BY <1>1 DEF CacheOK, Own, Cut
<1> QED BY <1>2, <1>3, <1>4 DEF CacheOK, u

\* Entries dropped take their calls with them, and nothing else.
LEMMA RetireWithin ==
  ASSUME NEW c, NEW m \in Nat, NEW X, NEW R, Within(c, m, X, R), NEW Q
  PROVE  Within(Retire(c, Q), m, X, R) /\ Retire(c, Q).outbox = c.outbox
         /\ (UsedLately(c) => UsedLately(Retire(c, Q)))
<1> DEFINE u == Retire(c, Q)
<1>1. u = [entries |-> Cut(c.entries, Q), byCall |-> Cut(c.byCall, IdsOf(c, Q)),
           commands |-> c.commands, outbox |-> c.outbox,
           cancels |-> c.cancels \cup IdsOf(c, Q), nextId |-> c.nextId]
  BY RetireIs DEF Within, CacheOK
<1>2. CacheOK(u)
  BY RetireOK DEF Within
<1> HIDE DEF u
<1>3. Awaited(u) = Awaited(c) \ IdsOf(c, Q)
  BY <1>1 DEF Within, CacheOK, Indexed, Awaited, Cut, IdsOf
<1>4. Awaited(u) = (X \cup ((m + 1)..u.nextId)) \ u.cancels
  BY <1>1, <1>3 DEF Within
<1>5. \A i \in 1..Len(u.outbox) :
       /\ u.outbox[i].call = m + i
       /\ m + i \in DOMAIN u.byCall => u.outbox[i].req = u.byCall[m + i]
  BY <1>1 DEF Within, Cut
<1>6. \A id \in X \cap DOMAIN u.byCall : R[id] = u.byCall[id]
  BY <1>1 DEF Within, Cut
<1>7. UsedLately(c) => UsedLately(u)
  BY <1>1 DEF UsedLately, Cut
<1>8. u.nextId = m + Len(u.outbox) /\ u.outbox = c.outbox
  BY <1>1 DEF Within
<1> QED BY <1>2, <1>4, <1>5, <1>6, <1>7, <1>8 DEF Within, u

\* A new call: the entry or command that waits on it, and its place in the outbox.
Made(c, r) == Append(c.outbox, [call |-> c.nextId + 1, req |-> r])

LEMMA IssuedIs ==
  ASSUME NEW c, CacheType(c), NEW r
  PROVE  Issued(c, r) =
           [entries |-> c.entries, byCall |-> c.byCall, commands |-> c.commands,
            outbox |-> Made(c, r), cancels |-> c.cancels, nextId |-> c.nextId + 1]
<1> DEFINE e == c.entries
           b == c.byCall
           d == c.commands
           o == c.outbox
           o1 == Made(c, r)
           k == c.cancels
           n == c.nextId
           n1 == c.nextId + 1
<1>1. c = [entries |-> e, byCall |-> b, commands |-> d, outbox |-> o, cancels |-> k, nextId |-> n]
  BY DEF CacheType
<1>2. Issued(c, r) = [c EXCEPT !.outbox = o1, !.nextId = n1]
  BY Zenon DEF Issued, NextId, Made
<1> HIDE DEF e, b, d, o, k, n, o1, n1
<1>3. Issued(c, r) = [entries |-> e, byCall |-> b, commands |-> d, outbox |-> o1,
                      cancels |-> k, nextId |-> n1]
  BY <1>1, <1>2
<1> QED BY <1>3 DEF e, b, d, o1, k, n1

LEMMA SendIs ==
  ASSUME NEW c, CacheType(c), NEW r
  PROVE  Send(c, r) =
           [entries |-> c.entries, byCall |-> c.byCall,
            commands |-> Put(c.commands, c.nextId + 1, InFlight(c.nextId + 1)),
            outbox |-> Made(c, r), cancels |-> c.cancels, nextId |-> c.nextId + 1]
<1> DEFINE x == Issued(c, r)
           d1 == Put(c.commands, c.nextId + 1, InFlight(c.nextId + 1))
           e == c.entries
           b == c.byCall
           d == c.commands
           o == Made(c, r)
           k == c.cancels
           n == c.nextId + 1
<1>1. x = [entries |-> e, byCall |-> b, commands |-> d, outbox |-> o, cancels |-> k, nextId |-> n]
  BY IssuedIs
<1>2. x.commands = d
  BY <1>1
<1>3. Send(c, r) = [x EXCEPT !.commands = d1]
  BY <1>2, Zenon DEF Send, NextId
<1> HIDE DEF x, d1, e, b, d, o, k, n
<1>4. Send(c, r) = [entries |-> e, byCall |-> b, commands |-> d1, outbox |-> o,
                    cancels |-> k, nextId |-> n]
  BY <1>1, <1>3
<1> QED BY <1>4 DEF d1, e, b, o, k, n

LEMMA GetIs ==
  ASSUME NEW c, CacheType(c), NEW q
  PROVE  /\ q \in DOMAIN c.entries => Get(c, q) =
              [entries |-> Put(c.entries, q, [slot |-> c.entries[q].slot, idle |-> 0]),
               byCall |-> c.byCall, commands |-> c.commands, outbox |-> c.outbox,
               cancels |-> c.cancels, nextId |-> c.nextId]
         /\ q \notin DOMAIN c.entries => Get(c, q) =
              [entries |-> Put(c.entries, q, [slot |-> InFlight(c.nextId + 1), idle |-> 0]),
               byCall |-> Put(c.byCall, c.nextId + 1, q), commands |-> c.commands,
               outbox |-> Made(c, q), cancels |-> c.cancels, nextId |-> c.nextId + 1]
<1> DEFINE x == Issued(c, q)
           e == c.entries
           e0 == Put(c.entries, q, [slot |-> c.entries[q].slot, idle |-> 0])
           e1 == Put(c.entries, q, [slot |-> InFlight(c.nextId + 1), idle |-> 0])
           b == c.byCall
           b1 == Put(c.byCall, c.nextId + 1, q)
           d == c.commands
           o == c.outbox
           o1 == Made(c, q)
           k == c.cancels
           n == c.nextId
           n1 == c.nextId + 1
<1>1. c = [entries |-> e, byCall |-> b, commands |-> d, outbox |-> o, cancels |-> k, nextId |-> n]
  BY DEF CacheType
<1>2. x = [entries |-> e, byCall |-> b, commands |-> d, outbox |-> o1, cancels |-> k, nextId |-> n1]
  BY IssuedIs
<1>3. x.entries = e /\ x.byCall = b
  BY <1>2
<1>4. ASSUME q \in DOMAIN c.entries PROVE Get(c, q) = [c EXCEPT !.entries = e0]
  BY <1>4, Zenon DEF Get
<1>5. ASSUME q \notin DOMAIN c.entries
      PROVE  Get(c, q) = [x EXCEPT !.entries = e1, !.byCall = b1]
  BY <1>3, <1>5, Zenon DEF Get, NextId
<1> HIDE DEF x, e, b, d, o, k, n, e0, e1, b1, o1, n1
<1> DEFINE y == [x EXCEPT !.entries = e1]
<1>8. y = [entries |-> e1, byCall |-> b, commands |-> d, outbox |-> o1, cancels |-> k,
           nextId |-> n1]
  BY <1>2
<1>9. [x EXCEPT !.entries = e1, !.byCall = b1] = [y EXCEPT !.byCall = b1]
  BY Zenon
<1> HIDE DEF y
<1>6. [c EXCEPT !.entries = e0] = [entries |-> e0, byCall |-> b, commands |-> d, outbox |-> o,
                                   cancels |-> k, nextId |-> n]
  BY <1>1
<1>7. [y EXCEPT !.byCall = b1] =
        [entries |-> e1, byCall |-> b1, commands |-> d, outbox |-> o1, cancels |-> k,
         nextId |-> n1]
  BY <1>8
<1> QED BY <1>4, <1>5, <1>6, <1>7, <1>9 DEF e0, e1, b, b1, d, o, o1, k, n, n1

LEMMA CollectIs ==
  ASSUME NEW c, CacheType(c), NEW id
  PROVE  Collect(c, id) =
           [entries |-> c.entries, byCall |-> c.byCall,
            commands |-> Cut(c.commands, {id} \cap DOMAIN c.commands), outbox |-> c.outbox,
            cancels |-> c.cancels, nextId |-> c.nextId]
<1> DEFINE e == c.entries
           b == c.byCall
           d == c.commands
           d1 == Cut(c.commands, {id} \cap DOMAIN c.commands)
           o == c.outbox
           k == c.cancels
           n == c.nextId
<1>1. c = [entries |-> e, byCall |-> b, commands |-> d, outbox |-> o, cancels |-> k, nextId |-> n]
  BY DEF CacheType
<1>2. Collect(c, id) = [c EXCEPT !.commands = d1]
  BY Zenon DEF Collect
<1> HIDE DEF e, b, d, o, k, n, d1
<1>3. Collect(c, id) = [entries |-> e, byCall |-> b, commands |-> d1, outbox |-> o,
                        cancels |-> k, nextId |-> n]
  BY <1>1, <1>2
<1> QED BY <1>3 DEF e, b, d1, o, k, n

LEMMA AgedIs ==
  ASSUME NEW c, CacheType(c)
  PROVE  Aged(c) =
           [entries |-> [q \in DOMAIN c.entries |->
                           [slot |-> c.entries[q].slot, idle |-> c.entries[q].idle + 1]],
            byCall |-> c.byCall, commands |-> c.commands, outbox |-> c.outbox,
            cancels |-> c.cancels, nextId |-> c.nextId]
<1> DEFINE e == c.entries
           e1 == [q \in DOMAIN c.entries |->
                   [slot |-> c.entries[q].slot, idle |-> c.entries[q].idle + 1]]
           b == c.byCall
           d == c.commands
           o == c.outbox
           k == c.cancels
           n == c.nextId
<1>1. c = [entries |-> e, byCall |-> b, commands |-> d, outbox |-> o, cancels |-> k, nextId |-> n]
  BY DEF CacheType
<1>2. Aged(c) = [c EXCEPT !.entries = e1]
  BY Zenon DEF Aged
<1> HIDE DEF e, b, d, o, k, n, e1
<1>3. Aged(c) = [entries |-> e1, byCall |-> b, commands |-> d, outbox |-> o,
                 cancels |-> k, nextId |-> n]
  BY <1>1, <1>2
<1> QED BY <1>3 DEF e1, b, d, o, k, n

LEMMA FlushedIs ==
  ASSUME NEW c, CacheType(c)
  PROVE  Flushed(c) = [entries |-> c.entries, byCall |-> c.byCall, commands |-> c.commands,
                       outbox |-> <<>>, cancels |-> {}, nextId |-> c.nextId]
<1> DEFINE e == c.entries
           b == c.byCall
           d == c.commands
           o == c.outbox
           k == c.cancels
           n == c.nextId
<1>1. c = [entries |-> e, byCall |-> b, commands |-> d, outbox |-> o, cancels |-> k, nextId |-> n]
  BY DEF CacheType
<1>2. Flushed(c) = [c EXCEPT !.outbox = <<>>, !.cancels = {}]
  BY Zenon DEF Flushed
<1> HIDE DEF e, b, d, o, k, n
<1>3. Flushed(c) = [entries |-> e, byCall |-> b, commands |-> d, outbox |-> <<>>,
                    cancels |-> {}, nextId |-> n]
  BY <1>1, <1>2
<1> QED BY <1>3 DEF e, b, d, n

\* The entries, index and commands after the events E.
EntriesAfter(c, E) ==
  [q \in DOMAIN c.entries |->
     IF \E id \in {e.call : e \in E} \cap DOMAIN c.byCall : c.byCall[id] = q
     THEN [slot |-> After(E, c.entries[q].slot), idle |-> c.entries[q].idle]
     ELSE c.entries[q]]
IndexAfter(c, E) == Cut(c.byCall, {e.call : e \in E} \cap DOMAIN c.byCall)
CommandsAfter(c, E) == [id \in DOMAIN c.commands |-> After(E, c.commands[id])]

LEMMA DeliverIs ==
  ASSUME NEW c, CacheType(c), NEW E, E # {}
  PROVE  Deliver(c, E) =
           [entries |-> EntriesAfter(c, E), byCall |-> IndexAfter(c, E),
            commands |-> CommandsAfter(c, E), outbox |-> c.outbox, cancels |-> c.cancels,
            nextId |-> c.nextId]
<1> DEFINE e == c.entries
           e1 == EntriesAfter(c, E)
           b == c.byCall
           b1 == IndexAfter(c, E)
           d == c.commands
           d1 == CommandsAfter(c, E)
           o == c.outbox
           k == c.cancels
           n == c.nextId
<1>1. c = [entries |-> e, byCall |-> b, commands |-> d, outbox |-> o, cancels |-> k, nextId |-> n]
  BY DEF CacheType
<1>2. Deliver(c, E) = [c EXCEPT !.commands = d1, !.entries = e1, !.byCall = b1]
  BY Zenon DEF Deliver, EntriesAfter, IndexAfter, CommandsAfter
<1> HIDE DEF e, b, d, o, k, n, e1, b1, d1
<1>3. Deliver(c, E) = [entries |-> e1, byCall |-> b1, commands |-> d1, outbox |-> o,
                       cancels |-> k, nextId |-> n]
  BY <1>1, <1>2
<1> QED BY <1>3 DEF e1, b1, d1, o, k, n

\* A slot after the events: settled if it waited on one of them.
LEMMA AfterIs ==
  ASSUME NEW E \in SUBSET Events, NEW slot \in Slots
  PROVE  /\ After(E, slot) \in Slots
         /\ ~(IsInFlight(slot) /\ Heard(E, slot.call)) => After(E, slot) = slot
         /\ IsInFlight(slot) /\ Heard(E, slot.call) =>
              /\ ~IsInFlight(After(E, slot))
              /\ After(E, slot).st = "ready" =>
                   \E e \in E : /\ e.call = slot.call /\ e.ok
                              /\ After(E, slot).req = e.req /\ After(E, slot).val = e.val
<1>1. CASE IsInFlight(slot) /\ Heard(E, slot.call)
  <2> DEFINE x == CHOOSE e \in E : e.call = slot.call
  <2>1. x \in E /\ x.call = slot.call
    BY <1>1 DEF Heard
  <2>2. After(E, slot) = Done(x)
    BY <1>1 DEF After
  <2> HIDE DEF x
  <2>3. x \in Events
    BY <2>1
  <2>4. CASE x.ok
    <3>1. After(E, slot) = [st |-> "ready", req |-> x.req, val |-> x.val]
      BY <2>2, <2>4 DEF Done
    <3> QED BY <1>1, <2>1, <2>3, <2>4, <3>1 DEF Slots, Events, IsInFlight
  <2>5. CASE ~x.ok
    <3>1. After(E, slot) = [st |-> "failed"]
      BY <2>2, <2>5 DEF Done
    <3> QED BY <1>1, <3>1 DEF Slots, IsInFlight
  <2> QED BY <2>4, <2>5
<1>2. CASE ~(IsInFlight(slot) /\ Heard(E, slot.call))
  BY <1>2 DEF After
<1> QED BY <1>1, <1>2

\* The events delivered begin the frame.
LEMMA DeliverWithin ==
  ASSUME NEW c, CacheOK(c), c.outbox = <<>>, c.cancels = {}, NEW E \in SUBSET Events,
         NEW X, NEW R,
         Awaited(c) = X \cup {e.call : e \in E}, X \cap {e.call : e \in E} = {},
         \A e \in E : e.ok /\ e.call \in DOMAIN c.byCall => e.req = c.byCall[e.call],
         \A id \in X \cap DOMAIN c.byCall : R[id] = c.byCall[id]
  PROVE  Within(Deliver(c, E), c.nextId, X, R) /\ Deliver(c, E).outbox = <<>>
<1>1. CASE E = {}
  <2>1. Deliver(c, E) = c
    BY <1>1 DEF Deliver
  <2>2. c.nextId \in Nat /\ Len(c.outbox) = 0
    BY DEF CacheOK, CacheType
  <2>3. Awaited(c) = (X \cup ((c.nextId + 1)..c.nextId)) \ c.cancels
    BY <1>1, <2>2
  <2> QED BY <2>1, <2>2, <2>3 DEF Within
<1>2. CASE E # {}
  <2> DEFINE u == Deliver(c, E)
             heard == {e.call : e \in E}
  <2>1. u = [entries |-> EntriesAfter(c, E), byCall |-> IndexAfter(c, E),
             commands |-> CommandsAfter(c, E), outbox |-> c.outbox, cancels |-> c.cancels,
             nextId |-> c.nextId]
    BY <1>2, DeliverIs DEF CacheOK
  <2> HIDE DEF u
  <2>2. \A id : Heard(E, id) <=> id \in heard
    BY DEF Heard
  <2>3. /\ DOMAIN u.byCall = DOMAIN c.byCall \ heard
        /\ \A id \in DOMAIN u.byCall : u.byCall[id] = c.byCall[id]
        /\ u.byCall = [id \in DOMAIN c.byCall \ heard |-> c.byCall[id]]
    BY <2>1 DEF IndexAfter, Cut
  <2>4. /\ u.commands = [id \in DOMAIN c.commands |-> After(E, c.commands[id])]
        /\ \A id \in DOMAIN c.commands :
             /\ u.commands[id] \in Slots
             /\ IsInFlight(u.commands[id]) <=> IsInFlight(c.commands[id]) /\ id \notin heard
             /\ IsInFlight(u.commands[id]) => u.commands[id] = c.commands[id]
    <3>1. u.commands = [id \in DOMAIN c.commands |-> After(E, c.commands[id])]
      BY <2>1 DEF CommandsAfter
    <3>2. \A id \in DOMAIN c.commands : c.commands[id] \in Slots
               /\ (IsInFlight(c.commands[id]) => c.commands[id].call = id)
      BY DEF CacheOK, CacheType, Indexed
    <3>3. \A id \in DOMAIN c.commands : u.commands[id] = After(E, c.commands[id])
      BY <3>1
    <3> QED BY <2>2, <3>1, <3>2, <3>3, AfterIs
  <2>5. /\ DOMAIN u.entries = DOMAIN c.entries
        /\ u.entries = [q \in DOMAIN u.entries |-> u.entries[q]]
        /\ \A q \in DOMAIN c.entries :
             /\ u.entries[q] \in CacheEntries
             /\ u.entries[q].idle = c.entries[q].idle
             /\ IsInFlight(u.entries[q].slot) =>
                  /\ IsInFlight(c.entries[q].slot) /\ c.entries[q].slot.call \notin heard
                  /\ u.entries[q].slot = c.entries[q].slot
             /\ IsInFlight(c.entries[q].slot) /\ c.entries[q].slot.call \notin heard =>
                  u.entries[q].slot = c.entries[q].slot
             /\ u.entries[q].slot.st = "ready" => u.entries[q].slot.req = q
    <3>1. u.entries = EntriesAfter(c, E)
      BY <2>1
    <3>2. DOMAIN u.entries = DOMAIN c.entries /\ u.entries = [q \in DOMAIN u.entries |-> u.entries[q]]
      BY <3>1 DEF EntriesAfter
    <3>3. ASSUME NEW q \in DOMAIN c.entries
          PROVE  /\ u.entries[q] \in CacheEntries
                 /\ u.entries[q].idle = c.entries[q].idle
                 /\ IsInFlight(u.entries[q].slot) =>
                      /\ IsInFlight(c.entries[q].slot) /\ c.entries[q].slot.call \notin heard
                      /\ u.entries[q].slot = c.entries[q].slot
                 /\ IsInFlight(c.entries[q].slot) /\ c.entries[q].slot.call \notin heard =>
                      u.entries[q].slot = c.entries[q].slot
                 /\ u.entries[q].slot.st = "ready" => u.entries[q].slot.req = q
      <4> DEFINE old == c.entries[q].slot
                 found == \E id \in heard \cap DOMAIN c.byCall : c.byCall[id] = q
      <4>1. c.entries[q] \in CacheEntries /\ old \in Slots
            /\ c.entries[q] = [slot |-> old, idle |-> c.entries[q].idle]
        BY DEF CacheOK, CacheType, CacheEntries
      <4>3. IsInFlight(old) => old.call \in DOMAIN c.byCall /\ c.byCall[old.call] = q
        BY DEF CacheOK, Indexed
      <4>2. found <=> IsInFlight(old) /\ old.call \in heard
        <5>1. ASSUME NEW id \in heard \cap DOMAIN c.byCall, c.byCall[id] = q
              PROVE  IsInFlight(old) /\ old.call \in heard
          <6>1. old = InFlight(id)
            BY <5>1 DEF CacheOK, Indexed
          <6> QED BY <5>1, <6>1 DEF InFlight, IsInFlight
        <5> QED BY <4>3, <5>1
      <4>4. old.st = "ready" => old.req = q
        BY DEF CacheOK, Own
      <4>5. CASE found
        <5>1. u.entries[q] = [slot |-> After(E, old), idle |-> c.entries[q].idle]
          BY <3>1, <4>5 DEF EntriesAfter
        <5> HIDE DEF old
        <5>2. /\ After(E, old) \in Slots /\ ~IsInFlight(After(E, old))
              /\ After(E, old).st = "ready" =>
                   \E e \in E : e.call = old.call /\ e.ok /\ After(E, old).req = e.req
          BY <2>2, <4>1, <4>2, <4>5, AfterIs
        <5>3. After(E, old).st = "ready" => After(E, old).req = q
          BY <4>2, <4>3, <4>5, <5>2
        <5>4. c.entries[q].idle \in Nat
          BY <4>1 DEF CacheEntries
        <5>5. u.entries[q].slot = After(E, old) /\ u.entries[q].idle = c.entries[q].idle
          BY <5>1
        <5>6. u.entries[q] \in CacheEntries
          BY <5>1, <5>2, <5>4 DEF CacheEntries
        <5>7. ~(IsInFlight(old) /\ old.call \notin heard)
          BY <4>2, <4>5
        <5> QED BY <5>2, <5>3, <5>5, <5>6, <5>7 DEF old
      <4>6. CASE ~found
        <5>1. u.entries[q] = c.entries[q]
          BY <3>1, <4>6 DEF EntriesAfter
        <5> QED BY <4>1, <4>2, <4>4, <4>6, <5>1
      <4> QED BY <4>5, <4>6
    <3> QED BY <3>2, <3>3
  <2>6. CacheType(u)
    <3>1. u = [entries |-> u.entries, byCall |-> u.byCall, commands |-> u.commands,
               outbox |-> u.outbox, cancels |-> u.cancels, nextId |-> u.nextId]
      BY <2>1
    <3>2. u.entries \in [DOMAIN u.entries -> CacheEntries]
      BY <2>5
    <3>3. u.byCall \in [DOMAIN u.byCall -> Requests]
      BY <2>3 DEF CacheOK, CacheType
    <3>4. u.commands \in [DOMAIN u.commands -> Slots]
      BY <2>4
    <3>5. u.outbox = c.outbox /\ u.cancels = c.cancels /\ u.nextId = c.nextId
      BY <2>1
    <3>6. DOMAIN u.commands = DOMAIN c.commands
      BY <2>4
    <3> QED BY <2>3, <2>5, <3>1, <3>2, <3>3, <3>4, <3>5, <3>6 DEF CacheOK, CacheType
  <2>7. Indexed(u)
    <3>1. \A q \in DOMAIN u.entries : IsInFlight(u.entries[q].slot) =>
            u.entries[q].slot.call \in DOMAIN u.byCall /\ u.byCall[u.entries[q].slot.call] = q
      BY <2>3, <2>5 DEF CacheOK, Indexed
    <3>2. \A id \in DOMAIN u.byCall :
            u.byCall[id] \in DOMAIN u.entries /\ u.entries[u.byCall[id]].slot = InFlight(id)
      <4>1. ASSUME NEW id \in DOMAIN u.byCall
            PROVE  u.byCall[id] \in DOMAIN u.entries /\ u.entries[u.byCall[id]].slot = InFlight(id)
        <5>1. /\ id \in DOMAIN c.byCall /\ id \notin heard /\ u.byCall[id] = c.byCall[id]
              /\ c.byCall[id] \in DOMAIN c.entries /\ c.entries[c.byCall[id]].slot = InFlight(id)
          BY <2>3 DEF CacheOK, Indexed
        <5>2. IsInFlight(InFlight(id)) /\ InFlight(id).call = id
          BY DEF InFlight, IsInFlight
        <5> QED BY <2>5, <5>1, <5>2
      <4> QED BY <4>1
    <3>3. DOMAIN u.byCall \cap DOMAIN u.commands = {}
      BY <2>3, <2>4 DEF CacheOK, Indexed
    <3>4. \A id \in DOMAIN u.commands : IsInFlight(u.commands[id]) => u.commands[id].call = id
      BY <2>4 DEF CacheOK, Indexed
    <3> QED BY <3>1, <3>2, <3>3, <3>4 DEF Indexed
  <2>8. Own(u)
    BY <2>5 DEF Own
  <2>9. Awaited(u) = Awaited(c) \ heard
    BY <2>3, <2>4 DEF Awaited
  <2>10. u.nextId = c.nextId /\ u.outbox = <<>> /\ u.cancels = {}
    BY <2>1
  <2>11. c.nextId \in Nat
    BY DEF CacheOK, CacheType
  <2>12. Awaited(u) = (X \cup ((c.nextId + 1)..u.nextId)) \ u.cancels
    BY <2>9, <2>10, <2>11
  <2>13. \A id \in X \cap DOMAIN u.byCall : R[id] = u.byCall[id]
    BY <2>3
  <2> QED BY <2>6, <2>7, <2>8, <2>10, <2>11, <2>12, <2>13 DEF Within, CacheOK, u
<1> QED BY <1>1, <1>2

LEMMA BeginFrameWithin ==
  ASSUME NEW c, NEW m \in Nat, NEW X, NEW R, Within(c, m, X, R)
  PROVE  /\ Within(BeginFrame(c), m, X, R)
         /\ BeginFrame(c).outbox = c.outbox
         /\ UsedLately(BeginFrame(c))
<1> DEFINE u == Aged(c)
           stale == {q \in DOMAIN c.entries : c.entries[q].idle >= SweepAfter}
<1>1. u = [entries |-> [q \in DOMAIN c.entries |->
                          [slot |-> c.entries[q].slot, idle |-> c.entries[q].idle + 1]],
           byCall |-> c.byCall, commands |-> c.commands, outbox |-> c.outbox,
           cancels |-> c.cancels, nextId |-> c.nextId]
  BY AgedIs DEF Within, CacheOK
<1> HIDE DEF u
<1>2. \A q \in DOMAIN c.entries : c.entries[q].slot \in Slots /\ c.entries[q].idle \in Nat
  BY DEF Within, CacheOK, CacheType, CacheEntries
<1>3. /\ DOMAIN u.entries = DOMAIN c.entries
      /\ u.entries = [q \in DOMAIN u.entries |-> u.entries[q]]
      /\ \A q \in DOMAIN c.entries :
           u.entries[q] = [slot |-> c.entries[q].slot, idle |-> c.entries[q].idle + 1]
  BY <1>1
<1>4. \A q \in DOMAIN c.entries :
        /\ u.entries[q] \in CacheEntries
        /\ u.entries[q].slot = c.entries[q].slot
        /\ u.entries[q].idle = c.entries[q].idle + 1
  <2> SUFFICES ASSUME NEW q \in DOMAIN c.entries
               PROVE  /\ u.entries[q] \in CacheEntries
                      /\ u.entries[q].slot = c.entries[q].slot
                      /\ u.entries[q].idle = c.entries[q].idle + 1
    OBVIOUS
  <2> DEFINE s == c.entries[q].slot
             i == c.entries[q].idle
             x == u.entries[q]
  <2>1. s \in Slots /\ i \in Nat /\ x = [slot |-> s, idle |-> i + 1]
    BY <1>2, <1>3
  <2> HIDE DEF s, i, x
  <2>2. x \in CacheEntries /\ x.slot = s /\ x.idle = i + 1
    BY <2>1 DEF CacheEntries
  <2> QED BY <2>2 DEF s, i, x
<1>5. /\ u.byCall = c.byCall /\ u.commands = c.commands /\ u.outbox = c.outbox
      /\ u.cancels = c.cancels /\ u.nextId = c.nextId
  BY <1>1
<1>6. CacheType(u)
  <2>1. u.entries \in [DOMAIN u.entries -> CacheEntries]
    BY <1>3, <1>4
  <2>2. u = [entries |-> u.entries, byCall |-> u.byCall, commands |-> u.commands,
             outbox |-> u.outbox, cancels |-> u.cancels, nextId |-> u.nextId]
    BY <1>1
  <2> QED BY <1>3, <1>5, <2>1, <2>2 DEF Within, CacheOK, CacheType
<1>7. Indexed(u)
  BY <1>3, <1>4, <1>5 DEF Within, CacheOK, Indexed
<1>8. Own(u)
  BY <1>3, <1>4 DEF Within, CacheOK, Own
<1>9. Within(u, m, X, R)
  <2>1. Awaited(u) = Awaited(c)
    BY <1>5 DEF Awaited
  <2> QED BY <1>5, <1>6, <1>7, <1>8, <2>1 DEF Within, CacheOK
<1>10. CASE stale = {}
  <2>1. BeginFrame(c) = u
    BY <1>10 DEF BeginFrame, u
  <2>2. UsedLately(u)
    BY <1>2, <1>3, <1>4, <1>10, SweepAssumption DEF UsedLately
  <2> QED BY <1>5, <1>9, <2>1, <2>2
<1>11. CASE stale # {}
  <2>1. BeginFrame(c) = Retire(u, stale)
    BY <1>11 DEF BeginFrame, u
  <2>2. Within(Retire(u, stale), m, X, R) /\ Retire(u, stale).outbox = c.outbox
    BY <1>5, <1>9, RetireWithin
  <2>3. Retire(u, stale).entries = Cut(u.entries, stale)
    BY <1>6, RetireIs
  <2>4. \A q \in DOMAIN Cut(u.entries, stale) :
          q \in DOMAIN c.entries /\ q \notin stale /\ Cut(u.entries, stale)[q] = u.entries[q]
    BY <1>3 DEF Cut
  <2>5. UsedLately(Retire(u, stale))
    BY <1>2, <1>4, <2>3, <2>4, SweepAssumption DEF UsedLately
  <2> QED BY <2>1, <2>2, <2>5
<1> QED BY <1>10, <1>11

LEMMA CollectWithin ==
  ASSUME NEW c, NEW m \in Nat, NEW X, NEW R, Within(c, m, X, R), NEW id, Finished(c, id)
  PROVE  /\ Within(Collect(c, id), m, X, R)
         /\ Collect(c, id).outbox = c.outbox
         /\ UsedLately(c) => UsedLately(Collect(c, id))
<1> DEFINE u == Collect(c, id)
           d == Cut(c.commands, {id} \cap DOMAIN c.commands)
<1>1. u = [entries |-> c.entries, byCall |-> c.byCall, commands |-> d,
           outbox |-> c.outbox, cancels |-> c.cancels, nextId |-> c.nextId]
  BY CollectIs DEF Within, CacheOK
<1>2. /\ DOMAIN d = DOMAIN c.commands \ {id}
      /\ d = [i \in DOMAIN d |-> d[i]]
      /\ \A i \in DOMAIN d : d[i] = c.commands[i]
  BY DEF Cut
<1> HIDE DEF u, d
<1>3. /\ u.entries = c.entries /\ u.byCall = c.byCall /\ u.commands = d /\ u.outbox = c.outbox
      /\ u.cancels = c.cancels /\ u.nextId = c.nextId
  BY <1>1
<1>4. CacheType(u)
  <2>1. u = [entries |-> u.entries, byCall |-> u.byCall, commands |-> u.commands,
             outbox |-> u.outbox, cancels |-> u.cancels, nextId |-> u.nextId]
    BY <1>1
  <2>2. u.commands \in [DOMAIN u.commands -> Slots]
    BY <1>2, <1>3 DEF Within, CacheOK, CacheType
  <2> QED BY <1>2, <1>3, <2>1, <2>2 DEF Within, CacheOK, CacheType
<1>5. Indexed(u)
  BY <1>2, <1>3 DEF Within, CacheOK, Indexed
<1>6. Own(u) /\ (UsedLately(c) => UsedLately(u))
  BY <1>3 DEF Within, CacheOK, Own, UsedLately
<1>7. Awaited(u) = Awaited(c)
  BY <1>2, <1>3 DEF Awaited, Finished
<1> QED BY <1>3, <1>4, <1>5, <1>6, <1>7 DEF Within, CacheOK, u

\* The table's calls are among those the app has made.
LEMMA WithinBound ==
  ASSUME NEW c, NEW m \in Nat, NEW X, NEW R, Within(c, m, X, R)
  PROVE  /\ c.nextId \in Nat /\ Len(c.outbox) \in Nat /\ m <= c.nextId
         /\ c.outbox \in Seq(Calls)
         /\ X \subseteq 1..c.nextId /\ c.cancels \subseteq 1..c.nextId
         /\ DOMAIN c.byCall \subseteq 1..c.nextId /\ DOMAIN c.commands \subseteq 1..c.nextId
<1>1. /\ c.nextId \in Nat /\ Len(c.outbox) \in Nat /\ c.outbox \in Seq(Calls)
      /\ c.cancels \subseteq 1..c.nextId /\ DOMAIN c.byCall \subseteq 1..c.nextId
      /\ DOMAIN c.commands \subseteq 1..c.nextId
  BY DEF Within, CacheOK, CacheType
<1>2. Awaited(c) \subseteq 1..c.nextId
  BY <1>1 DEF Awaited
<1>3. X \subseteq Awaited(c) \cup c.cancels
  BY DEF Within
<1> QED BY <1>1, <1>2, <1>3 DEF Within

\* The outbox after one more call.
LEMMA MadeIs ==
  ASSUME NEW c, NEW m \in Nat, NEW X, NEW R, Within(c, m, X, R), NEW r \in Requests
  PROVE  /\ Made(c, r) \in Seq(Calls)
         /\ Len(Made(c, r)) = Len(c.outbox) + 1
         /\ \A i \in 1..Len(c.outbox) : Made(c, r)[i] = c.outbox[i]
         /\ Made(c, r)[Len(c.outbox) + 1] = [call |-> c.nextId + 1, req |-> r]
         /\ c.nextId + 1 = m + Len(Made(c, r))
<1>1. c.outbox \in Seq(Calls) /\ c.nextId \in Nat /\ c.nextId = m + Len(c.outbox)
  BY WithinBound DEF Within
<1>2. [call |-> c.nextId + 1, req |-> r] \in Calls
  BY <1>1 DEF Calls
<1> QED BY <1>1, <1>2 DEF Made

LEMMA SendWithin ==
  ASSUME NEW c, NEW m \in Nat, NEW X, NEW R, Within(c, m, X, R), NEW r \in Requests
  PROVE  /\ Within(Send(c, r), m, X, R)
         /\ Len(Send(c, r).outbox) = Len(c.outbox) + 1
         /\ UsedLately(c) => UsedLately(Send(c, r))
<1> DEFINE u == Send(c, r)
           n == c.nextId + 1
           d == Put(c.commands, n, InFlight(n))
<1>1. u = [entries |-> c.entries, byCall |-> c.byCall, commands |-> d,
           outbox |-> Made(c, r), cancels |-> c.cancels, nextId |-> n]
  BY SendIs DEF Within, CacheOK
<1>2. /\ DOMAIN d = DOMAIN c.commands \cup {n}
      /\ d = [i \in DOMAIN d |-> d[i]]
      /\ d[n] = InFlight(n)
      /\ \A i \in DOMAIN d : i # n => d[i] = c.commands[i]
  BY DEF Put
<1> HIDE DEF u, d
<1>3. /\ u.entries = c.entries /\ u.byCall = c.byCall /\ u.commands = d
      /\ u.outbox = Made(c, r) /\ u.cancels = c.cancels /\ u.nextId = n
  BY <1>1
<1>4. /\ c.nextId \in Nat /\ n \in Nat /\ X \subseteq 1..c.nextId
      /\ c.cancels \subseteq 1..c.nextId /\ DOMAIN c.byCall \subseteq 1..c.nextId
      /\ DOMAIN c.commands \subseteq 1..c.nextId /\ m <= c.nextId
  BY WithinBound
<1>5. /\ Made(c, r) \in Seq(Calls)
      /\ Len(Made(c, r)) = Len(c.outbox) + 1
      /\ \A i \in 1..Len(c.outbox) : Made(c, r)[i] = c.outbox[i]
      /\ Made(c, r)[Len(c.outbox) + 1] = [call |-> n, req |-> r]
      /\ n = m + Len(Made(c, r))
  BY MadeIs
<1>6. InFlight(n) \in Slots /\ IsInFlight(InFlight(n)) /\ InFlight(n).call = n
  BY <1>4 DEF Slots, InFlight, IsInFlight
<1>7. CacheType(u)
  <2>1. u = [entries |-> u.entries, byCall |-> u.byCall, commands |-> u.commands,
             outbox |-> u.outbox, cancels |-> u.cancels, nextId |-> u.nextId]
    BY <1>1
  <2>2. \A i \in DOMAIN d : d[i] \in Slots
    BY <1>2, <1>6 DEF Within, CacheOK, CacheType
  <2>3. u.commands \in [DOMAIN u.commands -> Slots]
    BY <1>2, <1>3, <2>2
  <2>4. DOMAIN u.byCall \cup DOMAIN u.commands \cup u.cancels \subseteq 1..u.nextId
    BY <1>2, <1>3, <1>4
  <2> QED BY <1>3, <1>4, <1>5, <2>1, <2>3, <2>4 DEF Within, CacheOK, CacheType
<1>8. n \notin DOMAIN c.byCall /\ n \notin DOMAIN c.commands /\ n \notin c.cancels
  BY <1>4
<1>9. Indexed(u)
  BY <1>2, <1>3, <1>6, <1>8 DEF Within, CacheOK, Indexed
<1>10. Own(u) /\ (UsedLately(c) => UsedLately(u))
  BY <1>3 DEF Within, CacheOK, Own, UsedLately
<1>11. Awaited(u) = Awaited(c) \cup {n}
  BY <1>2, <1>3, <1>6, <1>8 DEF Awaited
<1>12. Awaited(u) = (X \cup ((m + 1)..u.nextId)) \ u.cancels
  <2>1. (m + 1)..n = ((m + 1)..c.nextId) \cup {n}
    BY <1>4
  <2> QED BY <1>3, <1>8, <1>11, <2>1 DEF Within
<1>13. \A i \in 1..Len(u.outbox) :
        /\ u.outbox[i].call = m + i
        /\ m + i \in DOMAIN u.byCall => u.outbox[i].req = u.byCall[m + i]
  <2>1. \A i \in 1..Len(c.outbox) :
          /\ u.outbox[i].call = m + i
          /\ m + i \in DOMAIN u.byCall => u.outbox[i].req = u.byCall[m + i]
    BY <1>3, <1>5 DEF Within
  <2>2. Len(c.outbox) \in Nat
    BY WithinBound
  <2>3. m + (Len(c.outbox) + 1) = n /\ u.outbox[Len(c.outbox) + 1].call = n
    BY <1>3, <1>5, <2>2
  <2>4. m + (Len(c.outbox) + 1) \notin DOMAIN u.byCall
    BY <1>3, <1>8, <2>3
  <2>5. \A i \in 1..Len(u.outbox) : i \in 1..Len(c.outbox) \/ i = Len(c.outbox) + 1
    BY <1>3, <1>5, <2>2
  <2> QED BY <2>1, <2>3, <2>4, <2>5
<1>14. \A id \in X \cap DOMAIN u.byCall : R[id] = u.byCall[id]
  BY <1>3 DEF Within
<1> QED BY <1>3, <1>5, <1>7, <1>9, <1>10, <1>12, <1>13, <1>14 DEF Within, CacheOK, u

LEMMA GetWithin ==
  ASSUME NEW c, NEW m \in Nat, NEW X, NEW R, Within(c, m, X, R), UsedLately(c),
         NEW q \in Requests
  PROVE  /\ Within(Get(c, q), m, X, R)
         /\ Len(Get(c, q).outbox) <= Len(c.outbox) + 1
         /\ UsedLately(Get(c, q))
<1> DEFINE u == Get(c, q)
           n == c.nextId + 1
           s == IF q \in DOMAIN c.entries THEN c.entries[q].slot ELSE InFlight(n)
           e == Put(c.entries, q, [slot |-> s, idle |-> 0])
<1>1. /\ c.nextId \in Nat /\ n \in Nat /\ X \subseteq 1..c.nextId
      /\ c.cancels \subseteq 1..c.nextId /\ DOMAIN c.byCall \subseteq 1..c.nextId
      /\ DOMAIN c.commands \subseteq 1..c.nextId /\ m <= c.nextId /\ Len(c.outbox) \in Nat
  BY WithinBound
<1>2. s \in Slots
  BY <1>1 DEF Within, CacheOK, CacheType, CacheEntries, Slots, InFlight
<1>3. /\ DOMAIN e = DOMAIN c.entries \cup {q}
      /\ e = [x \in DOMAIN e |-> e[x]]
      /\ e[q].slot = s /\ e[q].idle = 0 /\ e[q] \in CacheEntries
      /\ \A x \in DOMAIN e : x # q => e[x] = c.entries[x]
  <2>1. [slot |-> s, idle |-> 0] \in CacheEntries
    BY <1>2 DEF CacheEntries
  <2> HIDE DEF s
  <2> QED BY <2>1 DEF Put
<1>4. e \in [DOMAIN e -> CacheEntries] /\ DOMAIN e \subseteq Requests
  <2> HIDE DEF e
  <2> QED BY <1>3 DEF Within, CacheOK, CacheType
<1>5. \A x \in DOMAIN e : e[x].idle <= SweepAfter
  <2> HIDE DEF e
  <2> QED BY <1>3, SweepAssumption DEF UsedLately
<1>6. CASE q \in DOMAIN c.entries
  <2>1. u = [entries |-> e, byCall |-> c.byCall, commands |-> c.commands, outbox |-> c.outbox,
             cancels |-> c.cancels, nextId |-> c.nextId]
    BY <1>6, GetIs DEF Within, CacheOK
  <2>2. s = c.entries[q].slot
    BY <1>6
  <2> HIDE DEF e, u, s
  <2>3. /\ u.entries = e /\ u.byCall = c.byCall /\ u.commands = c.commands
        /\ u.outbox = c.outbox /\ u.cancels = c.cancels /\ u.nextId = c.nextId
    BY <2>1
  <2>4. CacheType(u)
    BY <1>4, <2>1, <2>3 DEF Within, CacheOK, CacheType
  <2>5. \A x \in DOMAIN e : x \in DOMAIN c.entries /\ e[x].slot = c.entries[x].slot
    BY <1>3, <1>6, <2>2
  <2>6. Indexed(u)
    BY <1>3, <2>3, <2>5 DEF Within, CacheOK, Indexed
  <2>7. Own(u)
    BY <2>3, <2>5 DEF Within, CacheOK, Own
  <2>8. UsedLately(u)
    BY <1>5, <2>3 DEF UsedLately
  <2>9. Awaited(u) = Awaited(c)
    BY <2>3 DEF Awaited
  <2> QED BY <1>1, <2>3, <2>4, <2>6, <2>7, <2>8, <2>9 DEF Within, CacheOK, u
<1>7. CASE q \notin DOMAIN c.entries
  <2> DEFINE b == Put(c.byCall, n, q)
  <2>1. u = [entries |-> e, byCall |-> b, commands |-> c.commands, outbox |-> Made(c, q),
             cancels |-> c.cancels, nextId |-> n]
    BY <1>7, GetIs DEF Within, CacheOK
  <2>2. s = InFlight(n)
    BY <1>7
  <2>3. /\ DOMAIN b = DOMAIN c.byCall \cup {n}
        /\ b = [x \in DOMAIN b |-> b[x]]
        /\ b[n] = q
        /\ \A x \in DOMAIN b : x # n => b[x] = c.byCall[x]
    BY DEF Put
  <2> HIDE DEF e, u, s, b
  <2>4. /\ u.entries = e /\ u.byCall = b /\ u.commands = c.commands
        /\ u.outbox = Made(c, q) /\ u.cancels = c.cancels /\ u.nextId = n
    BY <2>1
  <2>5. /\ Made(c, q) \in Seq(Calls)
        /\ Len(Made(c, q)) = Len(c.outbox) + 1
        /\ \A i \in 1..Len(c.outbox) : Made(c, q)[i] = c.outbox[i]
        /\ Made(c, q)[Len(c.outbox) + 1] = [call |-> n, req |-> q]
        /\ n = m + Len(Made(c, q))
    BY MadeIs
  <2>6. n \notin DOMAIN c.byCall /\ n \notin DOMAIN c.commands /\ n \notin c.cancels
    BY <1>1
  <2>7. IsInFlight(s) /\ s.call = n /\ s.st = "flight"
    BY <2>2 DEF InFlight, IsInFlight
  <2>8. CacheType(u)
    <3>1. u = [entries |-> u.entries, byCall |-> u.byCall, commands |-> u.commands,
               outbox |-> u.outbox, cancels |-> u.cancels, nextId |-> u.nextId]
      BY <2>1
    <3>2. u.byCall \in [DOMAIN u.byCall -> Requests]
      BY <2>3, <2>4 DEF Within, CacheOK, CacheType
    <3>3. DOMAIN u.byCall \cup DOMAIN u.commands \cup u.cancels \subseteq 1..u.nextId
      BY <1>1, <2>3, <2>4
    <3> QED BY <1>1, <1>4, <2>4, <2>5, <3>1, <3>2, <3>3 DEF Within, CacheOK, CacheType
  <2>9. Indexed(u)
    <3>1. \A x \in DOMAIN e : IsInFlight(e[x].slot) =>
            e[x].slot.call \in DOMAIN b /\ b[e[x].slot.call] = x
      BY <1>3, <2>3, <2>6, <2>7 DEF Within, CacheOK, Indexed
    <3>2. \A id \in DOMAIN b : b[id] \in DOMAIN e /\ e[b[id]].slot = InFlight(id)
      BY <1>3, <1>7, <2>2, <2>3 DEF Within, CacheOK, Indexed
    <3>3. DOMAIN b \cap DOMAIN c.commands = {}
      BY <2>3, <2>6 DEF Within, CacheOK, Indexed
    <3> QED BY <2>4, <3>1, <3>2, <3>3 DEF Within, CacheOK, Indexed
  <2>10. Own(u)
    BY <1>3, <2>4, <2>7 DEF Within, CacheOK, Own
  <2>11. UsedLately(u)
    BY <1>5, <2>4 DEF UsedLately
  <2>12. Awaited(u) = Awaited(c) \cup {n}
    BY <2>3, <2>4 DEF Awaited
  <2>13. Awaited(u) = (X \cup ((m + 1)..u.nextId)) \ u.cancels
    <3>1. (m + 1)..n = ((m + 1)..c.nextId) \cup {n}
      BY <1>1
    <3> QED BY <2>4, <2>6, <2>12, <3>1 DEF Within
  <2>14. \A i \in 1..Len(u.outbox) :
          /\ u.outbox[i].call = m + i
          /\ m + i \in DOMAIN u.byCall => u.outbox[i].req = u.byCall[m + i]
    <3>1. \A i \in 1..Len(c.outbox) : m + i \in 1..c.nextId /\ m + i # n
      BY <1>1 DEF Within
    <3>2. \A i \in 1..Len(c.outbox) :
            /\ u.outbox[i].call = m + i
            /\ m + i \in DOMAIN u.byCall => u.outbox[i].req = u.byCall[m + i]
      <4>1. \A i \in 1..Len(c.outbox) : u.outbox[i] = c.outbox[i] /\ c.outbox[i].call = m + i
        BY <2>4, <2>5 DEF Within
      <4>2. \A i \in 1..Len(c.outbox) : m + i \in DOMAIN u.byCall =>
              m + i \in DOMAIN c.byCall /\ u.byCall[m + i] = c.byCall[m + i]
        BY <2>3, <2>4, <3>1
      <4>3. \A i \in 1..Len(c.outbox) : m + i \in DOMAIN c.byCall => c.outbox[i].req = c.byCall[m + i]
        BY DEF Within
      <4> QED BY <4>1, <4>2, <4>3
    <3>3. /\ m + (Len(c.outbox) + 1) = n
          /\ u.outbox[Len(c.outbox) + 1].call = n /\ u.outbox[Len(c.outbox) + 1].req = q
      BY <1>1, <2>4, <2>5
    <3> QED BY <1>1, <2>3, <2>4, <2>5, <3>2, <3>3
  <2>15. \A id \in X \cap DOMAIN u.byCall : R[id] = u.byCall[id]
    BY <1>1, <2>3, <2>4, <2>6 DEF Within
  <2>16. u.nextId = m + Len(u.outbox) /\ Len(u.outbox) = Len(c.outbox) + 1
    BY <2>4, <2>5
  <2> QED BY <1>1, <2>8, <2>9, <2>10, <2>11, <2>13, <2>14, <2>15, <2>16 DEF Within, CacheOK, u
<1> QED BY <1>6, <1>7

-----------------------------------------------------------------------------
\* An app's part of a frame.

LEMMA InvalidateWithin ==
  ASSUME NEW c, NEW m \in Nat, NEW X, NEW R, Within(c, m, X, R), NEW q
  PROVE  /\ Within(Invalidate(c, q), m, X, R)
         /\ Invalidate(c, q).outbox = c.outbox
         /\ UsedLately(c) => UsedLately(Invalidate(c, q))
<1> DEFINE Q == {q} \cap DOMAIN c.entries
<1>1. Invalidate(c, q) = Retire(c, Q)
  BY DEF Invalidate
<1> HIDE DEF Q
<1> QED BY <1>1, RetireWithin

LEMMA PollWithin ==
  ASSUME NEW c, NEW m \in Nat, NEW X, NEW R, Within(c, m, X, R), UsedLately(c), NEW del
  PROVE  /\ Within(PollDelete(c, del), m, X, R)
         /\ PollDelete(c, del).outbox = c.outbox
         /\ UsedLately(PollDelete(c, del))
<1>1. CASE Finished(c, del.call)
  <2> DEFINE b == Collect(c, del.call)
             q == List(del.dir)
  <2>1. PollDelete(c, del) = Invalidate(b, q)
    BY <1>1 DEF PollDelete
  <2>2. Within(b, m, X, R) /\ b.outbox = c.outbox /\ UsedLately(b)
    BY <1>1, CollectWithin
  <2> HIDE DEF b, q
  <2> QED BY <2>1, <2>2, InvalidateWithin
<1>2. CASE ~Finished(c, del.call)
  BY <1>2 DEF PollDelete
<1> QED BY <1>1, <1>2

-----------------------------------------------------------------------------
\* What update() makes of the window's deletions.

\* The commands of d are commands of c.
Keeps(c, d) ==
  \A id \in DOMAIN d.commands : id \in DOMAIN c.commands /\ d.commands[id] = c.commands[id]

LEMMA InvalidateKeeps ==
  ASSUME NEW c, CacheType(c), NEW q
  PROVE  Invalidate(c, q).commands = c.commands /\ Invalidate(c, q).outbox = c.outbox
<1> DEFINE Q == {q} \cap DOMAIN c.entries
<1>1. Invalidate(c, q) = Retire(c, Q)
  BY DEF Invalidate
<1> HIDE DEF Q
<1>2. Retire(c, Q) =
           [entries |-> Cut(c.entries, Q), byCall |-> Cut(c.byCall, IdsOf(c, Q)),
            commands |-> c.commands, outbox |-> c.outbox,
            cancels |-> c.cancels \cup IdsOf(c, Q), nextId |-> c.nextId]
  BY RetireIs
<1> QED BY <1>1, <1>2

LEMMA BeginFrameKeeps ==
  ASSUME NEW c, CacheType(c)
  PROVE  BeginFrame(c).commands = c.commands
<1> DEFINE a == Aged(c)
           Q == {q \in DOMAIN c.entries : c.entries[q].idle >= SweepAfter}
<1>1. a = [entries |-> [q \in DOMAIN c.entries |->
                          [slot |-> c.entries[q].slot, idle |-> c.entries[q].idle + 1]],
           byCall |-> c.byCall, commands |-> c.commands, outbox |-> c.outbox,
           cancels |-> c.cancels, nextId |-> c.nextId]
  BY AgedIs
<1>2. BeginFrame(c) = IF Q = {} THEN a ELSE Retire(a, Q)
  BY DEF BeginFrame
<1> HIDE DEF a, Q
<1>3. CacheType(a)
  <2> DEFINE e == [q \in DOMAIN c.entries |->
                     [slot |-> c.entries[q].slot, idle |-> c.entries[q].idle + 1]]
  <2>1. DOMAIN e = DOMAIN c.entries /\ e \in [DOMAIN e -> CacheEntries]
    BY DEF CacheType, CacheEntries
  <2> HIDE DEF e
  <2>2. a = [entries |-> e, byCall |-> c.byCall, commands |-> c.commands,
             outbox |-> c.outbox, cancels |-> c.cancels, nextId |-> c.nextId]
    BY <1>1 DEF e
  <2> QED BY <2>1, <2>2 DEF CacheType
<1>4. Retire(a, Q) =
           [entries |-> Cut(a.entries, Q), byCall |-> Cut(a.byCall, IdsOf(a, Q)),
            commands |-> a.commands, outbox |-> a.outbox,
            cancels |-> a.cancels \cup IdsOf(a, Q), nextId |-> a.nextId]
  BY <1>3, RetireIs
<1>5. a.commands = c.commands
  BY <1>1
<1>6. Retire(a, Q).commands = c.commands
  BY <1>4, <1>5
<1> QED BY <1>2, <1>5, <1>6

LEMMA PollKeeps ==
  ASSUME NEW c, CacheOK(c), NEW del
  PROVE  Keeps(c, PollDelete(c, del))
<1> DEFINE id == del.call
           x == Collect(c, id)
           q == List(del.dir)
<1>1. CASE ~Finished(c, id)
  BY <1>1 DEF PollDelete, Keeps
<1>2. CASE Finished(c, id)
  <2>1. PollDelete(c, del) = Invalidate(x, q)
    BY <1>2 DEF PollDelete
  <2>2. x = [entries |-> c.entries, byCall |-> c.byCall,
             commands |-> Cut(c.commands, {id} \cap DOMAIN c.commands), outbox |-> c.outbox,
             cancels |-> c.cancels, nextId |-> c.nextId]
    <3> HIDE DEF id
    <3> QED BY CollectIs DEF CacheOK
  <2> HIDE DEF x, q, id
  <2>3. CacheType(x)
    BY <2>2 DEF CacheOK, CacheType, Cut
  <2>4. Invalidate(x, q).commands = x.commands
    BY <2>3, InvalidateKeeps
  <2>5. Keeps(c, x)
    BY <2>2 DEF Keeps, Cut
  <2> QED BY <2>1, <2>4, <2>5 DEF Keeps
<1> QED BY <1>1, <1>2

LEMMA GetKeeps ==
  ASSUME NEW c, CacheType(c), NEW q \in Requests
  PROVE  LET d == Get(c, q)
         IN /\ d.commands = c.commands
            /\ Len(c.outbox) >= 1 => Len(d.outbox) >= 1 /\ d.outbox[1] = c.outbox[1]
<1> DEFINE d == Get(c, q)
<1>1. CASE q \in DOMAIN c.entries
  <2>1. d = [entries |-> Put(c.entries, q, [slot |-> c.entries[q].slot, idle |-> 0]),
             byCall |-> c.byCall, commands |-> c.commands, outbox |-> c.outbox,
             cancels |-> c.cancels, nextId |-> c.nextId]
    BY <1>1, GetIs
  <2> HIDE DEF d
  <2> QED BY <2>1 DEF d
<1>2. CASE q \notin DOMAIN c.entries
  <2>1. d = [entries |-> Put(c.entries, q, [slot |-> InFlight(c.nextId + 1), idle |-> 0]),
               byCall |-> Put(c.byCall, c.nextId + 1, q), commands |-> c.commands,
               outbox |-> Made(c, q), cancels |-> c.cancels, nextId |-> c.nextId + 1]
    BY <1>2, GetIs
  <2> DEFINE o == c.outbox
             x == [call |-> c.nextId + 1, req |-> q]
  <2>2. o \in Seq(Calls) /\ x \in Calls /\ Made(c, q) = Append(o, x)
    BY DEF CacheType, Calls, Made
  <2> HIDE DEF d, o, x
  <2>3. Len(Append(o, x)) = Len(o) + 1 /\ Len(o) \in Nat
    BY <2>2
  <2>4. Len(o) >= 1 => Append(o, x)[1] = o[1]
    BY <2>2
  <2>5. d.commands = c.commands /\ d.outbox = Append(o, x)
    BY <2>1, <2>2
  <2> QED BY <2>3, <2>4, <2>5 DEF d, o
<1> QED BY <1>1, <1>2

\* After update() in a window of m calls made: its commands are those the events left,
\* but for what it has collected and a deletion confirmed, the first call it makes,
\* which is then the one it watches.
Sent(win, m, u) ==
  /\ u.begun.commands = Deliver(win.cache, win.queue).commands
  /\ \/ u.deleting \in {NoCall, win.deleting} /\ Keeps(u.begun, u.cache)
     \/ /\ u.deleting.call = m + 1 /\ u.deleting.dir \in Dirs
        /\ Len(u.cache.outbox) >= 1 /\ u.cache.outbox[1].req = Rm(u.deleting.dir)
        /\ \A id \in DOMAIN u.cache.commands :
             \/ id = m + 1 /\ IsInFlight(u.cache.commands[id])
             \/ id \in DOMAIN u.begun.commands /\ u.cache.commands[id] = u.begun.commands[id]

\* update() as a whole, from the events on.
LEMMA UpdateWithin ==
  ASSUME NEW win, NEW input \in Inputs, win.shows \in Dirs,
         NEW X, NEW R, CacheOK(win.cache), win.cache.outbox = <<>>, win.cache.cancels = {},
         win.queue \in SUBSET Events,
         Awaited(win.cache) = X \cup CallsFor(win), X \cap CallsFor(win) = {},
         \A e \in win.queue : e.ok /\ e.call \in DOMAIN win.cache.byCall
                               => e.req = win.cache.byCall[e.call],
         \A id \in X \cap DOMAIN win.cache.byCall : R[id] = win.cache.byCall[id]
  PROVE  LET u == Update(win, input)
         IN /\ Within(u.cache, win.cache.nextId, X, R)
            /\ UsedLately(u.cache)
            /\ Len(u.cache.outbox) \in {0, 1, 2}
            /\ u.shows \in Dirs
            /\ Sent(win, win.cache.nextId, u)
<1> DEFINE m      == win.cache.nextId
           here   == IF input = Root THEN Root ELSE win.shows
           sends  == input = "delete" /\ win.listed
           given  == Deliver(win.cache, win.queue)
           begun  == BeginFrame(given)
           fresh  == IF input = "refresh" THEN Invalidate(begun, List(here)) ELSE begun
           polled == PollDelete(fresh, win.deleting)
           sent   == IF sends THEN Send(polled, Rm(here)) ELSE polled
           drawn  == Get(sent, List(here))
           shown  == Listing(drawn, here)
           enters == input \in Dirs \ {Root} /\ here = Root /\ shown = "ready"
           last   == IF input = "retry" /\ shown = "failed"
                     THEN Invalidate(drawn, List(here)) ELSE drawn
           u      == Update(win, input)
<1>1. /\ u.cache = last
      /\ u.shows = IF enters THEN input ELSE here
      /\ u.begun = begun
      /\ u.deleting = IF sends THEN [call |-> NextId(polled), dir |-> here]
                      ELSE IF Finished(fresh, win.deleting.call) THEN NoCall
                      ELSE win.deleting
  BY DEF Update
<1>2. m \in Nat /\ here \in Dirs /\ List(here) \in Requests /\ Rm(here) \in Requests
  BY SystemAssumption DEF CacheOK, CacheType
<1>3. u.shows \in Dirs
  BY <1>1, <1>2
<1>4. Within(given, m, X, R) /\ given.outbox = <<>>
  <2>1. CallsFor(win) = {e.call : e \in win.queue}
    BY DEF CallsFor
  <2> DEFINE c == win.cache
             E == win.queue
  <2>2. /\ CacheOK(c) /\ c.outbox = <<>> /\ c.cancels = {} /\ E \in SUBSET Events
        /\ Awaited(c) = X \cup {e.call : e \in E} /\ X \cap {e.call : e \in E} = {}
        /\ \A e \in E : e.ok /\ e.call \in DOMAIN c.byCall => e.req = c.byCall[e.call]
        /\ \A id \in X \cap DOMAIN c.byCall : R[id] = c.byCall[id]
    BY <2>1
  <2> HIDE DEF c, E
  <2>3. Within(Deliver(c, E), c.nextId, X, R) /\ Deliver(c, E).outbox = <<>>
    BY <2>2, DeliverWithin
  <2> QED BY <2>3 DEF c, E
<1> HIDE DEF given, m, here, sends, u
<1>5. Within(begun, m, X, R) /\ begun.outbox = <<>> /\ UsedLately(begun)
  BY <1>2, <1>4, BeginFrameWithin
<1>11. begun.commands = given.commands
  BY <1>4, BeginFrameKeeps DEF Within, CacheOK
<1> HIDE DEF begun
<1>6. Within(fresh, m, X, R) /\ fresh.outbox = <<>> /\ UsedLately(fresh)
  BY <1>2, <1>5, InvalidateWithin
<1>12. fresh.commands = begun.commands
  <2> DEFINE q == List(here)
  <2>1. fresh = begun \/ fresh = Invalidate(begun, q)
    OBVIOUS
  <2> HIDE DEF fresh, q
  <2> QED BY <1>5, <2>1, InvalidateKeeps DEF Within, CacheOK
<1> HIDE DEF fresh
<1>7. Within(polled, m, X, R) /\ polled.outbox = <<>> /\ UsedLately(polled)
  BY <1>2, <1>6, PollWithin
<1>13. Keeps(fresh, polled)
  <2> DEFINE del == win.deleting
  <2> HIDE DEF del
  <2>1. polled = PollDelete(fresh, del)
    BY DEF del
  <2> HIDE DEF polled
  <2> QED BY <1>6, <2>1, PollKeeps DEF Within
<1> HIDE DEF polled
<1>8. Within(sent, m, X, R) /\ Len(sent.outbox) \in {0, 1} /\ UsedLately(sent)
  <2>1. Len(polled.outbox) = 0
    BY <1>7
  <2>2. CASE sends
    <3>1. sent = Send(polled, Rm(here))
      BY <2>2
    <3> DEFINE r == Rm(here)
    <3>2. r \in Requests
      BY <1>2
    <3> HIDE DEF sent, r
    <3>3. /\ Within(Send(polled, r), m, X, R) /\ UsedLately(Send(polled, r))
          /\ Len(Send(polled, r).outbox) = Len(polled.outbox) + 1
      BY <1>2, <1>7, <3>2, SendWithin
    <3>4. Len(Send(polled, r).outbox) = 1
      BY <2>1, <3>3
    <3>5. sent = Send(polled, r)
      BY <3>1 DEF r
    <3> QED BY <3>3, <3>4, <3>5
  <2>3. CASE ~sends
    BY <1>7, <2>1, <2>3
  <2> QED BY <2>2, <2>3
<1>14. sends => /\ sent.commands = Put(polled.commands, m + 1, InFlight(m + 1))
                /\ Len(sent.outbox) >= 1 /\ sent.outbox[1].req = Rm(here)
                /\ polled.nextId = m
  <2> SUFFICES ASSUME sends
               PROVE  /\ sent.commands = Put(polled.commands, m + 1, InFlight(m + 1))
                      /\ Len(sent.outbox) >= 1 /\ sent.outbox[1].req = Rm(here)
                      /\ polled.nextId = m
    OBVIOUS
  <2> DEFINE r == Rm(here)
             x == [call |-> m + 1, req |-> r]
  <2>1. polled.nextId = m
    BY <1>2, <1>7 DEF Within
  <2>2. sent = Send(polled, r)
    OBVIOUS
  <2> HIDE DEF sent
  <2>3. x \in Calls /\ x.req = Rm(here)
    BY <1>2 DEF Calls
  <2> HIDE DEF r
  <2>4. sent = [entries |-> polled.entries, byCall |-> polled.byCall,
                commands |-> Put(polled.commands, m + 1, InFlight(m + 1)),
                outbox |-> Made(polled, r), cancels |-> polled.cancels, nextId |-> m + 1]
    BY <1>7, <2>1, <2>2, SendIs DEF Within, CacheOK
  <2>5. Made(polled, r) = Append(<<>>, x)
    BY <1>7, <2>1 DEF Made
  <2> HIDE DEF x
  <2>6. Len(Append(<<>>, x)) = 1 /\ Append(<<>>, x)[1] = x
    BY <2>3
  <2> QED BY <2>1, <2>3, <2>4, <2>5, <2>6
<1> HIDE DEF sent
<1>9. Within(drawn, m, X, R) /\ Len(drawn.outbox) \in {0, 1, 2} /\ UsedLately(drawn)
  <2>1. Within(drawn, m, X, R) /\ Len(drawn.outbox) <= Len(sent.outbox) + 1 /\ UsedLately(drawn)
    BY <1>2, <1>8, GetWithin
  <2>2. Len(drawn.outbox) \in Nat
    BY <1>2, <2>1, WithinBound
  <2> HIDE DEF drawn
  <2>3. Len(drawn.outbox) \in {0, 1, 2}
    <3> DEFINE a == Len(sent.outbox)
               b == Len(drawn.outbox)
    <3>1. a \in {0, 1} /\ b \in Nat /\ b <= a + 1
      BY <1>8, <2>1, <2>2
    <3> HIDE DEF a, b
    <3>2. b \in {0, 1, 2}
      BY <3>1
    <3> QED BY <3>2 DEF b
  <2> QED BY <2>1, <2>3
<1>15. /\ drawn.commands = sent.commands
       /\ Len(sent.outbox) >= 1 => Len(drawn.outbox) >= 1 /\ drawn.outbox[1] = sent.outbox[1]
  <2> DEFINE q == List(here)
  <2>1. q \in Requests /\ drawn = Get(sent, q)
    BY <1>2
  <2> HIDE DEF drawn, q
  <2> QED BY <1>8, <2>1, GetKeeps DEF Within, CacheOK
<1> HIDE DEF drawn, shown
<1>10. Within(last, m, X, R) /\ Len(last.outbox) \in {0, 1, 2} /\ UsedLately(last)
  <2>1. CASE input = "retry" /\ shown = "failed"
    <3>1. last = Invalidate(drawn, List(here))
      BY <2>1
    <3> HIDE DEF last
    <3> QED BY <1>2, <1>9, <3>1, InvalidateWithin
  <2>2. CASE ~(input = "retry" /\ shown = "failed")
    BY <1>9, <2>2
  <2> QED BY <2>1, <2>2
<1>16. last.commands = drawn.commands /\ last.outbox = drawn.outbox
  <2> DEFINE q == List(here)
  <2>1. last = drawn \/ last = Invalidate(drawn, q)
    OBVIOUS
  <2> HIDE DEF last, q
  <2> QED BY <1>9, <2>1, InvalidateKeeps DEF Within, CacheOK
<1> HIDE DEF last
<1>17. Sent(win, m, u)
  <2>1. u.begun.commands = Deliver(win.cache, win.queue).commands
    BY <1>1, <1>11 DEF given
  <2>2. Keeps(u.begun, polled)
    BY <1>1, <1>12, <1>13 DEF Keeps
  <2>3. CASE sends
    <3> DEFINE d == [call |-> m + 1, dir |-> here]
    <3>1. u.deleting = d
      BY <1>1, <1>14, <2>3 DEF NextId
    <3>2. d.call = m + 1 /\ d.dir = here
      OBVIOUS
    <3> HIDE DEF d
    <3>3. u.deleting.call = m + 1 /\ u.deleting.dir = here
      BY <3>1, <3>2
    <3>4. Len(u.cache.outbox) >= 1 /\ u.cache.outbox[1].req = Rm(here)
      BY <1>1, <1>14, <1>15, <1>16, <2>3
    <3>5. u.cache.commands = Put(polled.commands, m + 1, InFlight(m + 1))
      BY <1>1, <1>14, <1>15, <1>16, <2>3
    <3>6. IsInFlight(InFlight(m + 1))
      BY DEF IsInFlight, InFlight
    <3>7. \A id \in DOMAIN u.cache.commands :
             \/ id = m + 1 /\ IsInFlight(u.cache.commands[id])
             \/ id \in DOMAIN u.begun.commands /\ u.cache.commands[id] = u.begun.commands[id]
      BY <2>2, <3>5, <3>6 DEF Put, Keeps
    <3> QED BY <1>2, <2>1, <3>3, <3>4, <3>7 DEF Sent
  <2>4. CASE ~sends
    <3>1. u.deleting \in {NoCall, win.deleting}
      BY <1>1, <2>4
    <3>2. u.cache.commands = polled.commands
      BY <1>1, <1>15, <1>16, <2>4 DEF sent
    <3>3. Keeps(u.begun, u.cache)
      BY <2>2, <3>2 DEF Keeps
    <3> QED BY <2>1, <3>1, <3>3 DEF Sent
  <2> QED BY <2>3, <2>4
<1> QED BY <1>1, <1>3, <1>10, <1>17 DEF m, u

-----------------------------------------------------------------------------
\* What the calls and cancellations of a frame make of the table.

LEMMA CallsInIs ==
  ASSUME NEW t, TableType(t), NEW w
  PROVE  \A id : id \in CallsIn(t, w) <=> <<w, id>> \in Live(t)
<1>1. \A k \in Live(t) : k = <<k[1], k[2]>>
  BY DEF TableType, Key
<1> QED BY <1>1 DEF CallsIn, KeysOf

LEMMA WithoutIs ==
  ASSUME NEW t, NEW K
  PROVE  LET u == Without(t, K)
         IN /\ Live(u) = Live(t) \ K
            /\ \A k \in Live(u) : u.entries[k] = t.entries[k]
            /\ u.staged \subseteq t.staged
            /\ u.nextSeq = t.nextSeq
BY DEF Without, Except, Live

\* A call made is in the table, beside those there were.
LEMMA EnqueueIs ==
  ASSUME NEW t, NEW out \in SUBSET Outgoing, TableServed(t, out),
         NEW k \in Key, k \notin Live(t), NEW n \in CallNo, NEW r \in Requests
  PROVE  LET u == EnqueueIn(t, k, n, r)
         IN /\ TableServed(u, out)
            /\ Live(u) = Live(t) \cup {k}
            /\ \A j \in Live(t) : u.entries[j] = t.entries[j]
            /\ u.entries[k].req = r
            /\ u.nextSeq \in t.nextSeq..(t.nextSeq + 1)
            /\ \A o \in u.staged : o \in t.staged \/ o.seq \in (t.nextSeq + 1)..u.nextSeq
<1> DEFINE u == Insert(t, k, n, r)
           e == [no |-> n, req |-> r, left |-> Patience[r]]
<1>1. EnqueueIn(t, k, n, r) = u
  BY DEF EnqueueIn
<1>2. TableServed(u, out)
  BY InsertServed
<1>3. u.entries = With(t.entries, k, e)
  BY DEF Insert
<1>4. t.nextSeq \in Nat
  BY DEF TableServed, TableOK, TableType
<1>5. \/ u.nextSeq = t.nextSeq /\ u.staged = t.staged
      \/ /\ u.nextSeq = t.nextSeq + 1
         /\ u.staged = t.staged \cup {[seq |-> t.nextSeq + 1, req |-> r]}
  BY DEF Insert
<1> HIDE DEF u
<1>6. /\ Live(u) = Live(t) \cup {k}
      /\ \A j \in Live(t) : u.entries[j] = t.entries[j]
      /\ u.entries[k].req = r
  BY <1>3 DEF With, Live
<1>7. /\ u.nextSeq \in t.nextSeq..(t.nextSeq + 1)
      /\ \A o \in u.staged : o \in t.staged \/ o.seq \in (t.nextSeq + 1)..u.nextSeq
  BY <1>4, <1>5
<1> QED BY <1>1, <1>2, <1>6, <1>7

\* The calls of an outbox, in order.
LEMMA EnqueuedIs ==
  ASSUME NEW t, NEW out \in SUBSET Outgoing, TableServed(t, out),
         NEW w \in Windows, NEW m \in Nat, CallsIn(t, w) \subseteq 1..m,
         NEW box \in Seq(Calls), Len(box) \in {0, 1, 2}, m + Len(box) <= MaxCalls,
         \A i \in 1..Len(box) : box[i].call = m + i
  PROVE  LET u == Enqueued(t, w, box)
         IN /\ TableServed(u, out)
            /\ Live(u) = Live(t) \cup {<<w, m + i>> : i \in 1..Len(box)}
            /\ \A j \in Live(t) : u.entries[j] = t.entries[j]
            /\ \A i \in 1..Len(box) : u.entries[<<w, m + i>>].req = box[i].req
            /\ u.nextSeq \in t.nextSeq..(t.nextSeq + Len(box))
            /\ \A o \in u.staged : o \in t.staged \/ o.seq \in (t.nextSeq + 1)..u.nextSeq
<1> DEFINE u == Enqueued(t, w, box)
           a == EnqueueIn(t, <<w, m + 1>>, m + 1, box[1].req)
           b == EnqueueIn(a, <<w, m + 2>>, m + 2, box[2].req)
<1>1. t.nextSeq \in Nat /\ TableType(t) /\ MaxCalls \in Nat
  BY PolicyAssumption DEF TableServed, TableOK, TableType
<1>2. <<w, m + 1>> \notin Live(t) /\ <<w, m + 2>> \notin Live(t)
  BY <1>1, CallsInIs
<1>7. \A i \in 1..Len(box) : box[i].call = m + i /\ box[i].req \in Requests
  <2>1. \A i \in 1..Len(box) : box[i] \in Calls
    OBVIOUS
  <2> QED BY <2>1 DEF Calls
<1>3. CASE Len(box) = 0
  <2>1. u = t
    BY <1>3 DEF Enqueued
  <2> HIDE DEF u
  <2> QED BY <1>1, <1>3, <2>1 DEF u
<1>4. ASSUME Len(box) \in {1, 2}
      PROVE  /\ box[1].call = m + 1 /\ box[1].req \in Requests
             /\ TableServed(a, out)
             /\ Live(a) = Live(t) \cup {<<w, m + 1>>}
             /\ \A j \in Live(t) : a.entries[j] = t.entries[j]
             /\ a.entries[<<w, m + 1>>].req = box[1].req
             /\ a.nextSeq \in t.nextSeq..(t.nextSeq + 1)
             /\ \A o \in a.staged : o \in t.staged \/ o.seq \in (t.nextSeq + 1)..a.nextSeq
  <2> DEFINE k == <<w, m + 1>>
             n == m + 1
             r == box[1].req
  <2>0. 1 \in 1..Len(box)
    <3> DEFINE l == Len(box)
    <3>1. l \in {1, 2}
      BY <1>4
    <3> HIDE DEF l
    <3>2. 1 \in 1..l
      BY <3>1
    <3> QED BY <3>2 DEF l
  <2>1. box[1].call = n /\ r \in Requests
    BY <1>7, <2>0
  <2>2. n \in 1..MaxCalls
    <3> DEFINE l == Len(box)
    <3>1. l \in {1, 2} /\ m + l <= MaxCalls
      BY <1>4
    <3> HIDE DEF l
    <3> QED BY <1>1, <3>1
  <2>3. k \in Key /\ n \in CallNo /\ k \notin Live(t)
    BY <1>2, <2>2, SystemAssumption DEF Key, CallNo
  <2> HIDE DEF k, n, r
  <2>4. LET x == EnqueueIn(t, k, n, r)
        IN /\ TableServed(x, out)
           /\ Live(x) = Live(t) \cup {k}
           /\ \A j \in Live(t) : x.entries[j] = t.entries[j]
           /\ x.entries[k].req = r
           /\ x.nextSeq \in t.nextSeq..(t.nextSeq + 1)
           /\ \A o \in x.staged : o \in t.staged \/ o.seq \in (t.nextSeq + 1)..x.nextSeq
    BY <2>1, <2>3, EnqueueIs
  <2> QED BY <2>1, <2>4 DEF k, n, r
<1>5. CASE Len(box) = 1
  <2>1. u = a
    BY <1>4, <1>5 DEF Enqueued
  <2>2. 1..Len(box) = {1}
    BY <1>5
  <2> HIDE DEF u, a
  <2> QED BY <1>4, <1>5, <2>1, <2>2 DEF u
<1>6. CASE Len(box) = 2
  <2> DEFINE k == <<w, m + 2>>
             n == m + 2
             r == box[2].req
  <2>0. 2 \in 1..Len(box)
    BY <1>6
  <2>1. box[2].call = n /\ r \in Requests
    BY <1>7, <2>0
  <2>2. n \in 1..MaxCalls
    BY <1>1, <1>6
  <2>3. k \in Key /\ n \in CallNo
    BY <2>2, SystemAssumption DEF Key, CallNo
  <2>4. k \notin Live(a)
    <3>1. k # <<w, m + 1>>
      OBVIOUS
    <3>2. Live(a) = Live(t) \cup {<<w, m + 1>>}
      BY <1>4, <1>6
    <3> QED BY <1>2, <3>1, <3>2
  <2>5. u = EnqueueIn(a, k, n, r)
    <3>1. box[1].call = m + 1
      BY <1>4, <1>6
    <3>2. Len(box) # 0 /\ Len(box) # 1
      BY <1>6
    <3> QED BY <2>1, <3>1, <3>2 DEF Enqueued
  <2>6. 1..Len(box) = {1, 2} /\ k # <<w, m + 1>>
    BY <1>6
  <2> HIDE DEF k, n, r, u, a
  <2>7. /\ TableServed(u, out)
        /\ Live(u) = Live(a) \cup {k}
        /\ \A j \in Live(a) : u.entries[j] = a.entries[j]
        /\ u.entries[k].req = r
        /\ u.nextSeq \in a.nextSeq..(a.nextSeq + 1)
        /\ \A o \in u.staged : o \in a.staged \/ o.seq \in (a.nextSeq + 1)..u.nextSeq
    BY <1>4, <1>6, <2>1, <2>3, <2>4, <2>5, EnqueueIs
  <2>8. Live(u) = Live(t) \cup {<<w, m + i>> : i \in 1..Len(box)}
    BY <1>4, <1>6, <2>6, <2>7 DEF k
  <2>9. \A j \in Live(t) : u.entries[j] = t.entries[j]
    BY <1>4, <1>6, <2>7
  <2>10. \A i \in 1..Len(box) : u.entries[<<w, m + i>>].req = box[i].req
    <3>1. u.entries[<<w, m + 2>>].req = box[2].req
      BY <2>7 DEF k, r
    <3>2. u.entries[<<w, m + 1>>].req = box[1].req
      BY <1>4, <1>6, <2>7
    <3> QED BY <2>6, <3>1, <3>2
  <2>11. u.nextSeq \in t.nextSeq..(t.nextSeq + Len(box))
    BY <1>1, <1>4, <1>6, <2>7
  <2>12. \A o \in u.staged : o \in t.staged \/ o.seq \in (t.nextSeq + 1)..u.nextSeq
    BY <1>1, <1>4, <1>6, <2>7
  <2> QED BY <2>7, <2>8, <2>9, <2>10, <2>11, <2>12 DEF u
<1> QED BY <1>3, <1>5, <1>6

LEMMA CancelledIs ==
  ASSUME NEW t, NEW out, TableServed(t, out), NEW w, NEW ids
  PROVE  LET u == Cancelled(t, w, ids)
         IN /\ TableServed(u, out)
            /\ Live(u) = Live(t) \ {<<w, id>> : id \in ids}
            /\ \A k \in Live(u) : u.entries[k] = t.entries[k]
            /\ u.staged \subseteq t.staged
            /\ u.nextSeq = t.nextSeq
<1> DEFINE K == {<<w, id>> : id \in ids} \cap Live(t)
           u == Cancelled(t, w, ids)
<1>1. CASE K = {}
  <2>1. u = t
    BY <1>1 DEF Cancelled
  <2> HIDE DEF u
  <2> QED BY <1>1, <2>1 DEF u
<1>2. CASE K # {}
  <2>1. u = Without(t, K)
    BY <1>2 DEF Cancelled
  <2>2. Live(t) \ K = Live(t) \ {<<w, id>> : id \in ids}
    OBVIOUS
  <2> HIDE DEF u, K
  <2> QED BY <2>1, <2>2, WithoutIs, WithoutServed DEF u
<1> QED BY <1>1, <1>2

\* A window's standing rests on its own calls in the table, and on no other.
LEMMA SameCalls ==
  ASSUME NEW w, NEW win, NEW t, NEW n \in Nat, WinOK(w, win, t, n), TableType(t),
         NEW u, TableType(u), NEW k \in Nat, n <= k,
         \A id : <<w, id>> \in Live(u) <=> <<w, id>> \in Live(t),
         \A id : <<w, id>> \in Live(u) => u.entries[<<w, id>>].req = t.entries[<<w, id>>].req
  PROVE  WinOK(w, win, u, k)
<1>1. CallsIn(u, w) = CallsIn(t, w)
  <2>1. \A id : id \in CallsIn(u, w) <=> id \in CallsIn(t, w)
    BY CallsInIs
  <2> QED BY <2>1
<1>2. \A id \in CallsIn(u, w) : u.entries[<<w, id>>].req = t.entries[<<w, id>>].req
  BY CallsInIs
<1>3. win.open => win.cache.nextId \in Nat
  BY DEF WinOK, OpenOK, CacheOK, CacheType
<1> QED BY <1>1, <1>2, <1>3 DEF WinOK, OpenOK

-----------------------------------------------------------------------------
\* The parts of a frame.

\* The windows told of the calls K.
WinsTold(p, K, event) ==
  [w \in Windows |->
     IF p.wins[w].open THEN Hears(p.wins[w], {event[k] : k \in {j \in K : j[1] = w}})
     ELSE p.wins[w]]

LEMMA HearsIs ==
  ASSUME NEW win, WinType(win), NEW E
  PROVE  Hears(win, E) =
           [cache |-> win.cache, shows |-> win.shows, listed |-> win.listed,
            deleting |-> win.deleting, open |-> win.open, queue |-> win.queue \cup E]
<1> DEFINE Q == win.queue \cup E
<1>1. Hears(win, E) = [win EXCEPT !.queue = Q]
  BY Zenon DEF Hears
<1> HIDE DEF Q
<1>2. [win EXCEPT !.queue = Q] =
        [cache |-> win.cache, shows |-> win.shows, listed |-> win.listed,
         deleting |-> win.deleting, open |-> win.open, queue |-> Q]
  BY DEF WinType
<1> QED BY <1>1, <1>2 DEF Q

LEMMA ToldOpen ==
  ASSUME NEW p, NEW K, NEW event, \A w \in Windows : WinType(p.wins[w])
  PROVE  \A w \in Windows : WinsTold(p, K, event)[w].open = p.wins[w].open
<1> SUFFICES ASSUME NEW w \in Windows
             PROVE  WinsTold(p, K, event)[w].open = p.wins[w].open
  OBVIOUS
<1> DEFINE win == p.wins[w]
           E == {event[k] : k \in {j \in K : j[1] = w}}
<1>1. WinsTold(p, K, event)[w] = IF win.open THEN Hears(win, E) ELSE win
  BY DEF WinsTold
<1>2. WinType(win)
  OBVIOUS
<1> HIDE DEF win, E
<1>3. Hears(win, E) =
        [cache |-> win.cache, shows |-> win.shows, listed |-> win.listed,
         deleting |-> win.deleting, open |-> win.open, queue |-> win.queue \cup E]
  BY <1>2, HearsIs
<1>4. Hears(win, E).open = win.open
  BY <1>3
<1> QED BY <1>1, <1>4 DEF win

\* Telling the windows of the calls K, which leave the table: a call told of is
\* no longer in the table, but waits in its window's queue.
LEMMA TellOK ==
  ASSUME NEW p, NEW t, NEW n \in Nat, WinsOK(p.wins, t, n), TableType(t),
         NEW K \in SUBSET Live(t), NEW event,
         \A k \in K : /\ event[k] \in Events /\ event[k].call = k[2]
                      /\ event[k].ok => event[k].req = t.entries[k].req,
         NEW u, TableType(u), Live(u) = Live(t) \ K,
         \A k \in Live(u) : u.entries[k] = t.entries[k]
  PROVE  /\ WinsOK(WinsTold(p, K, event), u, n)
         /\ \A w \in Windows : WinsTold(p, K, event)[w].open = p.wins[w].open
<1> DEFINE E(w) == {event[k] : k \in {j \in K : j[1] = w}}
           W(w) == IF p.wins[w].open THEN Hears(p.wins[w], E(w)) ELSE p.wins[w]
           ws == [w \in Windows |-> W(w)]
<1> SUFFICES ASSUME NEW w \in Windows
             PROVE  WinOK(w, W(w), u, n) /\ W(w).open = p.wins[w].open
  <2>1. WinsTold(p, K, event) = ws
    BY DEF WinsTold
  <2> QED BY <2>1 DEF WinsOK
<1> DEFINE win == p.wins[w]
           c == win.cache
           D == E(w)
           new == W(w)
<1>1. WinOK(w, win, t, n)
  BY DEF WinsOK
<1>2. CASE ~win.open
  <2>1. new = win
    BY <1>2
  <2> HIDE DEF win, new
  <2> QED BY <1>1, <1>2, <2>1 DEF WinOK, win, new
<1>3. CASE win.open
  <2>1. \A k \in K : k = <<k[1], k[2]>> /\ (k[1] = w => k[2] \in CallsIn(t, w))
    <3>1. \A k \in Live(t) : k = <<k[1], k[2]>>
      BY DEF TableType, Key
    <3> QED BY <3>1, CallsInIs
  <2>2. {e.call : e \in D} = CallsIn(t, w) \ CallsIn(u, w)
    <3>1. \A id : id \in CallsIn(t, w) \ CallsIn(u, w) <=> <<w, id>> \in K
      BY CallsInIs
    <3>2. \A id : <<w, id>> \in K <=> \E k \in K : k[1] = w /\ k[2] = id
      BY <2>1
    <3>3. \A id : id \in {e.call : e \in D} <=> \E k \in K : k[1] = w /\ k[2] = id
      OBVIOUS
    <3> QED BY <3>1, <3>2, <3>3
  <2>3. CallsIn(u, w) \subseteq CallsIn(t, w)
    BY CallsInIs
  <2>4. D \subseteq Events
    OBVIOUS
  <2>5. \A e \in D : e.call \in CallsIn(t, w) /\ (e.ok => e.req = t.entries[<<w, e.call>>].req)
    BY <2>1
  <2>6. \A id \in CallsIn(u, w) : u.entries[<<w, id>>] = t.entries[<<w, id>>]
    BY CallsInIs
  <2>7. WinType(win)
    BY <1>1 DEF WinOK
  <2>8. new = Hears(win, D)
    BY <1>3
  <2> HIDE DEF D, new, win
  <2>9. new = [cache |-> c, shows |-> win.shows, listed |-> win.listed,
               deleting |-> win.deleting, open |-> win.open, queue |-> win.queue \cup D]
    BY <2>7, <2>8, HearsIs
  <2>10. /\ new.cache = c /\ new.shows = win.shows /\ new.open = win.open
         /\ new.queue = win.queue \cup D /\ WinType(new)
    BY <2>9 DEF WinType
  <2>11. OpenOK(w, win, t, n)
    BY <1>1, <1>3 DEF WinOK, win
  <2>12. CallsFor(new) = CallsFor(win) \cup {e.call : e \in D}
    BY <2>10 DEF CallsFor
  <2> HIDE DEF c
  <2>13. c = win.cache
    BY DEF c
  <2>14. /\ Awaited(c) = CallsIn(u, w) \cup CallsFor(new)
         /\ CallsIn(u, w) \cap CallsFor(new) = {}
    BY <2>2, <2>3, <2>11, <2>12, <2>13 DEF OpenOK
  <2>15. \A e \in new.queue : e.ok /\ e.call \in DOMAIN c.byCall => e.req = c.byCall[e.call]
    <3>1. \A e \in win.queue : e.ok /\ e.call \in DOMAIN c.byCall => e.req = c.byCall[e.call]
      BY <2>11, <2>13 DEF OpenOK
    <3>2. \A id \in CallsIn(t, w) \cap DOMAIN c.byCall : t.entries[<<w, id>>].req = c.byCall[id]
      BY <2>11, <2>13 DEF OpenOK
    <3>3. \A e \in D : e.ok /\ e.call \in DOMAIN c.byCall => e.req = c.byCall[e.call]
      BY <2>5, <3>2
    <3> QED BY <2>10, <3>1, <3>3
  <2>16. \A id \in CallsIn(u, w) \cap DOMAIN c.byCall :
           u.entries[<<w, id>>].req = c.byCall[id]
    BY <2>3, <2>6, <2>11, <2>13 DEF OpenOK
  <2>17. OpenOK(w, new, u, n)
    BY <2>4, <2>10, <2>11, <2>13, <2>14, <2>15, <2>16 DEF OpenOK
  <2> QED BY <1>3, <2>10, <2>17 DEF WinOK, win, new
<1> QED BY <1>2, <1>3

\* The table u, after window w of m calls made those of box in the table t and took
\* some back: nothing else has changed.
Taken(w, m, box, t, u) ==
  /\ \A x : x # w => \A id : <<x, id>> \in Live(u) <=> <<x, id>> \in Live(t)
  /\ \A x : x # w => \A id : <<x, id>> \in Live(u) => u.entries[<<x, id>>] = t.entries[<<x, id>>]
  /\ \A id : <<w, id>> \in Live(u) =>
       \/ <<w, id>> \in Live(t) /\ u.entries[<<w, id>>] = t.entries[<<w, id>>]
       \/ \E i \in 1..Len(box) : id = m + i /\ u.entries[<<w, id>>].req = box[i].req

\* update() in a window as it is between its frames.
LEMMA UpdateIn ==
  ASSUME NEW w, NEW win, NEW t, NEW n, OpenOK(w, win, t, n), NEW input \in Inputs,
         NEW u, u = Update(win, input), NEW X, X = CallsIn(t, w),
         NEW R, R = [id \in X |-> t.entries[<<w, id>>].req]
  PROVE  /\ Within(u.cache, win.cache.nextId, X, R)
         /\ UsedLately(u.cache)
         /\ Len(u.cache.outbox) \in {0, 1, 2}
         /\ u.shows \in Dirs
         /\ Sent(win, win.cache.nextId, u)
<1>1. \A id \in X \cap DOMAIN win.cache.byCall : R[id] = win.cache.byCall[id]
  BY DEF OpenOK
<1>2. /\ win.shows \in Dirs /\ CacheOK(win.cache) /\ win.cache.outbox = <<>>
      /\ win.cache.cancels = {} /\ win.queue \in SUBSET Events
      /\ Awaited(win.cache) = X \cup CallsFor(win) /\ X \cap CallsFor(win) = {}
      /\ \A e \in win.queue : e.ok /\ e.call \in DOMAIN win.cache.byCall
                            => e.req = win.cache.byCall[e.call]
  BY DEF OpenOK
<1>3. LET v == Update(win, input)
      IN /\ Within(v.cache, win.cache.nextId, X, R)
         /\ UsedLately(v.cache)
         /\ Len(v.cache.outbox) \in {0, 1, 2}
         /\ v.shows \in Dirs
         /\ Sent(win, win.cache.nextId, v)
  BY <1>1, <1>2, UpdateWithin
<1> QED BY <1>3

\* Window w's part of a frame, given that w is open and drawn.
LEMMA HostOK ==
  ASSUME NEW p, NEW out \in SUBSET Outgoing, TableServed(p.table, out), p.issued \in Nat,
         WinsOK(p.wins, p.table, p.issued),
         NEW w \in Windows, p.wins[w].open, NEW input \in Inputs,
         NEW u, u = Update(p.wins[w], input),
         NEW q, q = HostWindow(p, w, input, u), q.issued <= MaxCalls
  PROVE  /\ TableServed(q.table, out)
         /\ q.issued \in p.issued..MaxCalls
         /\ WinsOK(q.wins, q.table, q.issued)
         /\ q.table.nextSeq \in p.table.nextSeq..(p.table.nextSeq + (q.issued - p.issued))
         /\ \A o \in q.table.staged :
              o \in p.table.staged \/ o.seq \in (p.table.nextSeq + 1)..q.table.nextSeq
         /\ Taken(w, p.wins[w].cache.nextId, u.cache.outbox, p.table, q.table)
<1> DEFINE win == p.wins[w]
           t == p.table
           m == win.cache.nextId
           c == u.cache
           X == CallsIn(t, w)
           R == [id \in X |-> t.entries[<<w, id>>].req]
           a == Enqueued(t, w, c.outbox)
           b == Cancelled(a, w, c.cancels)
           l == Len(c.outbox)
           new == IF input = "close" THEN Gone
                  ELSE [cache |-> Flushed(c), shows |-> u.shows, listed |-> u.listed,
                        deleting |-> u.deleting, open |-> TRUE, queue |-> {}]
<1>1. q.wins = [p.wins EXCEPT ![w] = new] /\ q.table = b /\ q.issued = p.issued + l
  BY DEF HostWindow
<1>2. WinOK(w, win, t, p.issued) /\ OpenOK(w, win, t, p.issued)
  BY DEF WinsOK, WinOK
<1>3. m \in Nat /\ m <= p.issued /\ TableType(t) /\ t.nextSeq \in Nat
  BY <1>2 DEF OpenOK, CacheOK, CacheType, TableServed, TableOK, TableType
<1>4. /\ Within(c, m, X, R) /\ UsedLately(c) /\ l \in {0, 1, 2} /\ u.shows \in Dirs
  <2>1. u = Update(win, input) /\ X = CallsIn(t, w) /\ R = [id \in X |-> t.entries[<<w, id>>].req]
    OBVIOUS
  <2> HIDE DEF win, X, R, t
  <2> QED BY <1>2, <2>1, UpdateIn
<1>5. X \subseteq 1..m
  <2>1. Awaited(win.cache) \subseteq 1..m
    BY <1>2 DEF OpenOK, CacheOK, CacheType, Awaited
  <2> QED BY <1>2, <2>1 DEF OpenOK
<1>6. \A id \in X : R[id] = t.entries[<<w, id>>].req
  OBVIOUS
<1> HIDE DEF win, t, m, c, X, R, l, new, a, b
<1>7. c.outbox \in Seq(Calls) /\ \A i \in 1..l : c.outbox[i].call = m + i
  BY <1>3, <1>4, WithinBound DEF Within, l
<1>8. MaxCalls \in Nat /\ p.issued + l <= MaxCalls /\ m + l <= MaxCalls
  BY <1>1, <1>3, <1>4, PolicyAssumption
<1>9. /\ TableServed(a, out)
      /\ Live(a) = Live(t) \cup {<<w, m + i>> : i \in 1..l}
      /\ \A j \in Live(t) : a.entries[j] = t.entries[j]
      /\ \A i \in 1..l : a.entries[<<w, m + i>>].req = c.outbox[i].req
      /\ a.nextSeq \in t.nextSeq..(t.nextSeq + l)
      /\ \A o \in a.staged : o \in t.staged \/ o.seq \in (t.nextSeq + 1)..a.nextSeq
  <2> DEFINE box == c.outbox
  <2>1. /\ TableServed(t, out) /\ CallsIn(t, w) \subseteq 1..m /\ box \in Seq(Calls)
        /\ Len(box) \in {0, 1, 2} /\ m + Len(box) <= MaxCalls
        /\ \A i \in 1..Len(box) : box[i].call = m + i
    BY <1>4, <1>5, <1>7, <1>8 DEF t, X, l
  <2> HIDE DEF box
  <2>2. LET v == Enqueued(t, w, box)
        IN /\ TableServed(v, out)
           /\ Live(v) = Live(t) \cup {<<w, m + i>> : i \in 1..Len(box)}
           /\ \A j \in Live(t) : v.entries[j] = t.entries[j]
           /\ \A i \in 1..Len(box) : v.entries[<<w, m + i>>].req = box[i].req
           /\ v.nextSeq \in t.nextSeq..(t.nextSeq + Len(box))
           /\ \A o \in v.staged : o \in t.staged \/ o.seq \in (t.nextSeq + 1)..v.nextSeq
    BY <1>3, <2>1, EnqueuedIs
  <2> QED BY <2>2 DEF box, a, l
<1>10. /\ TableServed(b, out)
       /\ Live(b) = Live(a) \ {<<w, id>> : id \in c.cancels}
       /\ \A k \in Live(b) : b.entries[k] = a.entries[k]
       /\ b.staged \subseteq a.staged
       /\ b.nextSeq = a.nextSeq
  <2> DEFINE ids == c.cancels
  <2> HIDE DEF ids
  <2>1. b = Cancelled(a, w, ids)
    BY DEF b, ids
  <2> QED BY <1>9, <2>1, CancelledIs DEF ids
<1>11. TableType(b)
  BY <1>10 DEF TableServed, TableOK
<1>12. q.issued \in p.issued..MaxCalls /\ q.issued - p.issued = l
  BY <1>1, <1>4, <1>8
<1>13. \A x \in Windows : x # w => WinOK(x, p.wins[x], b, q.issued)
  <2> SUFFICES ASSUME NEW x \in Windows, x # w
               PROVE  WinOK(x, p.wins[x], b, q.issued)
    OBVIOUS
  <2>1. WinOK(x, p.wins[x], t, p.issued)
    BY DEF WinsOK, t
  <2>2. \A id : <<x, id>> \in Live(b) <=> <<x, id>> \in Live(t)
    BY <1>9, <1>10
  <2>3. \A id : <<x, id>> \in Live(b) => b.entries[<<x, id>>].req = t.entries[<<x, id>>].req
    BY <1>9, <1>10, <2>2
  <2> DEFINE xw == p.wins[x]
             k == q.issued
             n == p.issued
  <2>4. n \in Nat /\ k \in Nat /\ n <= k
    BY <1>12
  <2> HIDE DEF xw, k, n
  <2>5. WinOK(x, xw, t, n)
    BY <2>1 DEF xw, n
  <2>6. WinOK(x, xw, b, k)
    BY <1>3, <1>11, <2>2, <2>3, <2>4, <2>5, SameCalls
  <2> QED BY <2>6 DEF xw, k
<1>14. WinOK(w, new, b, q.issued)
  <2>1. CASE input = "close"
    <3>1. new = Gone
      BY <2>1 DEF new
    <3>2. Gone = [cache |-> EmptyCache, shows |-> Root, listed |-> FALSE, deleting |-> NoCall,
                  open |-> FALSE, queue |-> {}]
      <4> DEFINE f == Fresh
                 y == TRUE
                 z == FALSE
      <4>1. f = [cache |-> EmptyCache, shows |-> Root, listed |-> z, deleting |-> NoCall,
                 open |-> y, queue |-> {}]
        BY DEF Fresh
      <4>2. Gone = [f EXCEPT !.open = z]
        BY DEF Gone
      <4> HIDE DEF f, y, z
      <4>3. Gone = [cache |-> EmptyCache, shows |-> Root, listed |-> z, deleting |-> NoCall,
                    open |-> z, queue |-> {}]
        BY <4>1, <4>2
      <4> QED BY <4>3 DEF z
    <3> QED BY <3>1, <3>2 DEF WinOK, WinType
  <2>2. CASE input # "close"
    <3> DEFINE f == Flushed(c)
    <3>1. new = [cache |-> f, shows |-> u.shows, listed |-> u.listed,
                 deleting |-> u.deleting, open |-> TRUE, queue |-> {}]
      BY <2>2 DEF new
    <3>2. f = [entries |-> c.entries, byCall |-> c.byCall, commands |-> c.commands,
               outbox |-> <<>>, cancels |-> {}, nextId |-> c.nextId]
      BY <1>4, FlushedIs DEF Within, CacheOK
    <3> HIDE DEF f
    <3>3. /\ f.entries = c.entries /\ f.byCall = c.byCall /\ f.commands = c.commands
          /\ f.outbox = <<>> /\ f.cancels = {} /\ f.nextId = c.nextId
      BY <3>2
    <3>4. CacheType(f)
      BY <1>4, <3>2, <3>3 DEF Within, CacheOK, CacheType
    <3>5. Indexed(f) /\ Own(f) /\ UsedLately(f)
      BY <1>4, <3>3 DEF Within, CacheOK, Indexed, Own, UsedLately
    <3>6. Awaited(f) = (X \cup ((m + 1)..c.nextId)) \ c.cancels
      BY <1>4, <3>3 DEF Within, Awaited
    <3>7. c.nextId = m + l
      BY <1>4 DEF Within, l
    <3>8. CallsIn(b, w) = (X \cup ((m + 1)..c.nextId)) \ c.cancels
      <4>1. \A id : <<w, id>> \in Live(t) <=> id \in X
        BY <1>3, CallsInIs DEF X
      <4>2. \A id : <<w, id>> \in {<<w, m + i>> : i \in 1..l} <=> id \in (m + 1)..(m + l)
        <5>1. \A id : id \in (m + 1)..(m + l) <=> \E i \in 1..l : id = m + i
          <6>1. l \in Nat
            BY <1>4
          <6>2. \A id \in (m + 1)..(m + l) : id - m \in 1..l /\ id = m + (id - m)
            BY <1>3, <6>1
          <6>3. \A i \in 1..l : m + i \in (m + 1)..(m + l)
            BY <1>3, <6>1
          <6> QED BY <6>2, <6>3
        <5> QED BY <5>1
      <4>3. \A id : id \in CallsIn(b, w) <=> <<w, id>> \in Live(b)
        BY <1>11, CallsInIs
      <4>4. \A id : <<w, id>> \in Live(b) <=>
              id \in (X \cup ((m + 1)..(m + l))) /\ id \notin c.cancels
        BY <1>9, <1>10, <4>1, <4>2
      <4> QED BY <3>7, <4>3, <4>4
    <3>9. /\ new.cache = f /\ new.shows = u.shows /\ new.open = TRUE /\ new.queue = {}
          /\ WinType(new)
      BY <3>1 DEF WinType
    <3>10. CallsFor(new) = {}
      BY <3>9 DEF CallsFor
    <3>11. \A id \in CallsIn(b, w) \cap DOMAIN f.byCall :
             b.entries[<<w, id>>].req = f.byCall[id]
      <4> SUFFICES ASSUME NEW id \in CallsIn(b, w), id \in DOMAIN c.byCall
                   PROVE  b.entries[<<w, id>>].req = c.byCall[id]
        BY <3>3
      <4>1. <<w, id>> \in Live(b) /\ b.entries[<<w, id>>] = a.entries[<<w, id>>]
        BY <1>10, <1>11, CallsInIs
      <4>2. CASE id \in X
        <5>1. <<w, id>> \in Live(t)
          BY <1>3, <4>2, CallsInIs DEF X
        <5>2. a.entries[<<w, id>>].req = R[id]
          BY <1>6, <1>9, <4>2, <5>1
        <5>3. R[id] = c.byCall[id]
          BY <1>4, <4>2 DEF Within
        <5> QED BY <4>1, <5>2, <5>3
      <4>3. CASE id \in (m + 1)..c.nextId
        <5>1. PICK i \in 1..l : id = m + i
          <6>1. id - m \in 1..l /\ id = m + (id - m)
            BY <1>3, <1>4, <3>7, <4>3
          <6> QED BY <6>1
        <5>2. a.entries[<<w, id>>].req = c.outbox[i].req
          BY <1>9, <5>1
        <5>3. c.outbox[i].req = c.byCall[id]
          BY <1>4, <5>1 DEF Within, l
        <5> QED BY <4>1, <5>2, <5>3
      <4> QED BY <3>8, <4>2, <4>3
    <3>12. c.nextId <= q.issued
      BY <1>1, <1>3, <1>4, <3>7
    <3>13. OpenOK(w, new, b, q.issued)
      BY <1>4, <3>3, <3>4, <3>5, <3>6, <3>8, <3>9, <3>10, <3>11, <3>12 DEF OpenOK, CacheOK
    <3> QED BY <3>9, <3>13 DEF WinOK
  <2> QED BY <2>1, <2>2
<1>15. WinsOK(q.wins, b, q.issued)
  <2>1. q.wins = [x \in Windows |-> IF x = w THEN new ELSE p.wins[x]]
    BY <1>1 DEF WinsOK
  <2> QED BY <1>13, <1>14, <2>1 DEF WinsOK
<1>16. b.nextSeq \in t.nextSeq..(t.nextSeq + (q.issued - p.issued))
  BY <1>9, <1>10, <1>12
<1>17. \A o \in b.staged : o \in t.staged \/ o.seq \in (t.nextSeq + 1)..b.nextSeq
  BY <1>9, <1>10
<1>18. Taken(w, m, c.outbox, t, b)
  <2>1. \A id : <<w, id>> \in Live(b) =>
          \/ <<w, id>> \in Live(t) /\ b.entries[<<w, id>>] = t.entries[<<w, id>>]
          \/ \E i \in 1..l : id = m + i /\ b.entries[<<w, id>>].req = c.outbox[i].req
    <3> SUFFICES ASSUME NEW id, <<w, id>> \in Live(b), <<w, id>> \notin Live(t)
                 PROVE  \E i \in 1..l : id = m + i /\ b.entries[<<w, id>>].req = c.outbox[i].req
      BY <1>9, <1>10
    <3>1. PICK i \in 1..l : <<w, id>> = <<w, m + i>>
      BY <1>9, <1>10
    <3>2. id = m + i
      BY <3>1
    <3> QED BY <1>9, <1>10, <3>1, <3>2
  <2>2. \A x : x # w => \A id : <<x, id>> \in Live(b) <=> <<x, id>> \in Live(t)
    BY <1>9, <1>10
  <2>3. \A x : x # w => \A id : <<x, id>> \in Live(b) => b.entries[<<x, id>>] = t.entries[<<x, id>>]
    BY <1>9, <1>10, <2>2
  <2> QED BY <2>1, <2>2, <2>3 DEF Taken, l
<1> QED BY <1>1, <1>10, <1>12, <1>15, <1>16, <1>17, <1>18 DEF t, m, c, win

\* Drawing a window, whatever its state and the user's input.
LEMMA DrawOK ==
  ASSUME NEW p, NEW out \in SUBSET Outgoing, TableServed(p.table, out),
         p.issued \in 0..MaxCalls, WinsOK(p.wins, p.table, p.issued),
         NEW w \in Windows, NEW input \in Inputs,
         NEW q, q = DrawWindow(p, w, input), q.issued <= MaxCalls
  PROVE  /\ TableServed(q.table, out)
         /\ q.issued \in p.issued..MaxCalls
         /\ WinsOK(q.wins, q.table, q.issued)
         /\ q.table.nextSeq \in p.table.nextSeq..(p.table.nextSeq + (q.issued - p.issued))
         /\ \A o \in q.table.staged :
              o \in p.table.staged \/ o.seq \in (p.table.nextSeq + 1)..q.table.nextSeq
<1>1. MaxCalls \in Nat /\ p.issued \in Nat
  BY PolicyAssumption
<1>2. p.table.nextSeq \in Nat
  BY DEF TableServed, TableOK, TableType
<1>3. CASE input = "hidden" \/ ~p.wins[w].open
  <2>1. q = p
    BY <1>3 DEF DrawWindow
  <2> QED BY <1>1, <1>2, <2>1
<1>4. CASE ~(input = "hidden" \/ ~p.wins[w].open)
  <2> DEFINE u == Update(p.wins[w], input)
  <2>1. q = HostWindow(p, w, input, u)
    BY <1>4 DEF DrawWindow
  <2>2. u = Update(p.wins[w], input)
    OBVIOUS
  <2> HIDE DEF u
  <2> QED BY <1>1, <1>4, <2>1, <2>2, HostOK
<1> QED BY <1>3, <1>4

\* The table after the flush, with the calls of closed windows forgotten.
Ended(p, out, n, q) ==
  /\ TableServed(q.table, out \cup p.table.staged)
  /\ q.table.nextSeq = p.table.nextSeq /\ q.table.staged = {}
  /\ q.wins = p.wins /\ q.issued = n
  /\ WinsOK(q.wins, q.table, n)
  /\ \A w \in Windows : ~q.wins[w].open => CallsIn(q.table, w) = {}

LEMMA EndOK ==
  ASSUME NEW p, NEW out, TableServed(p.table, out), NEW n \in Nat, p.issued = n,
         WinsOK(p.wins, p.table, n), NEW q, q = EndPage(p),
         p = [wins |-> p.wins, table |-> p.table, issued |-> p.issued, reported |-> p.reported]
  PROVE  Ended(p, out, n, q)
<1> DEFINE t == p.table
           f == FlushIn(t)
           K == {k \in Live(t) : ~p.wins[k[1]].open}
           u == Without(f, K)
<1>1. Live(f) = Live(t) /\ f.entries = t.entries /\ f.staged = {} /\ f.nextSeq = t.nextSeq
  BY DEF FlushIn, Live
<1>2. q = [p EXCEPT !.table = Without(f, {k \in Live(t) : ~p.wins[k[1]].open})]
  BY Zenon DEF EndPage
<1>3. q = [p EXCEPT !.table = u]
  BY <1>2
<1>4. TableServed(f, out \cup t.staged)
  BY FlushServed
<1> HIDE DEF t, f, u, K
<1>5. TableServed(u, out \cup t.staged)
  BY <1>4, WithoutServed DEF u
<1>6. /\ Live(u) = Live(f) \ K /\ (\A k \in Live(u) : u.entries[k] = f.entries[k])
      /\ u.staged \subseteq f.staged /\ u.nextSeq = f.nextSeq
  BY WithoutIs DEF u
<1>7. q.wins = p.wins /\ q.table = u /\ q.issued = p.issued
  BY <1>3
<1>8. TableType(u) /\ TableType(t)
  BY <1>5 DEF TableServed, TableOK, t
<1>9. \A w : \A id : <<w, id>> \in Live(u) <=> <<w, id>> \in Live(t) /\ p.wins[w].open
  <2>1. \A w : \A id : <<w, id>> \in K <=> <<w, id>> \in Live(t) /\ ~p.wins[w].open
    BY DEF K
  <2> QED BY <1>1, <1>6, <2>1
<1>10. \A w \in Windows : WinOK(w, p.wins[w], u, n)
  <2> SUFFICES ASSUME NEW w \in Windows
               PROVE  WinOK(w, p.wins[w], u, n)
    OBVIOUS
  <2> DEFINE win == p.wins[w]
  <2>1. WinOK(w, win, t, n)
    BY DEF WinsOK, t
  <2>2. CASE win.open
    <3>1. \A id : <<w, id>> \in Live(u) <=> <<w, id>> \in Live(t)
      BY <1>9, <2>2
    <3>2. \A id : <<w, id>> \in Live(u) => u.entries[<<w, id>>].req = t.entries[<<w, id>>].req
      BY <1>1, <1>6
    <3> HIDE DEF win
    <3>3. WinOK(w, win, u, n)
      BY <1>8, <2>1, <3>1, <3>2, SameCalls
    <3> QED BY <3>3 DEF win
  <2>3. CASE ~win.open
    BY <2>1, <2>3 DEF WinOK
  <2> QED BY <2>2, <2>3
<1>11. \A w \in Windows : ~p.wins[w].open => CallsIn(u, w) = {}
  BY <1>8, <1>9, CallsInIs
<1>12. WinsOK(p.wins, u, n)
  BY <1>10 DEF WinsOK
<1> QED BY <1>1, <1>5, <1>6, <1>7, <1>11, <1>12 DEF Ended, t

-----------------------------------------------------------------------------
\* The count of deletions done and calls that wait to be served.

\* The numbers of the requests not served yet are finitely many.
LEMMA UnservedBound ==
  ASSUME NEW t, NEW out, TableServed(t, out), NEW ps, PostsOK(t, ps)
  PROVE  /\ t.nextSeq \in Nat
         /\ \A s \in Unserved(t, ps) : s \in Nat /\ s <= t.nextSeq
         /\ IsFiniteSet(Unserved(t, ps))
         /\ Cardinality(Unserved(t, ps)) \in Nat
<1>1. t.nextSeq \in Nat /\ \A o \in t.staged : o.seq \in Nat /\ o.seq <= t.nextSeq
  BY DEF TableServed, TableOK, TableType, SentOnce, Outgoing
<1>2. \A o \in ToDo(ps) : o.seq \in Nat /\ o.seq <= t.nextSeq
  BY DEF PostsOK, ToDo, Outgoing
<1>3. Unserved(t, ps) \subseteq 0..t.nextSeq
  BY <1>1, <1>2 DEF Unserved
<1>4. IsFiniteSet(0..t.nextSeq)
  BY <1>1, FS_Interval
<1>5. IsFiniteSet(Unserved(t, ps))
  BY <1>3, <1>4, FS_Subset
<1> QED BY <1>1, <1>3, <1>5, FS_CardinalityType

LEMMA VerFewer ==
  ASSUME NEW t, NEW out, TableServed(t, out), NEW ps, PostsOK(t, ps), NEW v, VerOK(t, ps, v),
         NEW u, NEW us, NEW k \in Nat, u.nextSeq = t.nextSeq + k,
         \A s \in Unserved(u, us) : s \in Unserved(t, ps) \/ s \in (t.nextSeq + 1)..u.nextSeq
  PROVE  VerOK(u, us, v)
<1> DEFINE S == Unserved(t, ps)
           T == (t.nextSeq + 1)..u.nextSeq
           V == Unserved(u, us)
           n == t.nextSeq
<1>1. n \in Nat /\ IsFiniteSet(S) /\ Cardinality(S) \in Nat
  BY UnservedBound
<1>2. IsFiniteSet(T) /\ Cardinality(T) = k
  <2>1. T = (n + 1)..(n + k) /\ n + 1 \in Int /\ n + k \in Int
    BY <1>1
  <2> HIDE DEF T, n
  <2>2. /\ IsFiniteSet(T)
        /\ Cardinality(T) = IF n + 1 > n + k THEN 0 ELSE (n + k) - (n + 1) + 1
    BY <2>1, FS_Interval
  <2> QED BY <1>1, <2>2
<1>3. V \subseteq S \cup T
  OBVIOUS
<1> HIDE DEF S, T, V
<1>4. IsFiniteSet(S \cup T) /\ Cardinality(S \cup T) <= Cardinality(S) + Cardinality(T)
  <2>1. /\ IsFiniteSet(S \cup T)
        /\ Cardinality(S \cup T) = Cardinality(S) + Cardinality(T) - Cardinality(S \cap T)
    BY <1>1, <1>2, FS_Union
  <2>2. IsFiniteSet(S \cap T)
    BY <1>1, FS_Subset
  <2>3. Cardinality(S \cap T) \in Nat
    BY <2>2, FS_CardinalityType
  <2> QED BY <1>1, <1>2, <2>1, <2>3
<1>5. IsFiniteSet(V) /\ Cardinality(V) <= Cardinality(S \cup T)
  BY <1>3, <1>4, FS_Subset
<1>6. Cardinality(V) \in Nat /\ Cardinality(S \cup T) \in Nat
  BY <1>4, <1>5, FS_CardinalityType
<1>7. Cardinality(V) <= Cardinality(S) + k
  BY <1>1, <1>2, <1>4, <1>5, <1>6
<1>8. \A d \in Dirs : v[d] + Cardinality(V) <= u.nextSeq
  <2>1. \A d \in Dirs : v[d] \in Nat /\ v[d] + Cardinality(S) <= n
    BY DEF VerOK, S
  <2> HIDE DEF n
  <2>2. u.nextSeq = n + k
    BY DEF n
  <2> QED BY <1>1, <1>6, <1>7, <2>1, <2>2
<1> QED BY <1>8 DEF VerOK, V

\* A call served.
LEMMA VerServed ==
  ASSUME NEW t, NEW out, TableServed(t, out), NEW ps, PostsOK(t, ps), NEW v, VerOK(t, ps, v),
         NEW us, NEW o, o.seq \in Unserved(t, ps), NEW d \in Dirs,
         \A s \in Unserved(t, us) : s \in Unserved(t, ps) /\ s # o.seq,
         NEW now, now \in {v[d], v[d] + 1}
  PROVE  VerOK(t, us, [v EXCEPT ![d] = now])
<1> DEFINE S == Unserved(t, ps)
           V == Unserved(t, us)
           n == t.nextSeq
           x == o.seq
           v1 == [v EXCEPT ![d] = now]
<1>1. n \in Nat /\ IsFiniteSet(S) /\ Cardinality(S) \in Nat
  BY UnservedBound
<1>2. V \subseteq S \ {x} /\ x \in S
  OBVIOUS
<1>3. v \in [Dirs -> Nat] /\ \A e \in Dirs : v[e] + Cardinality(S) <= n
  BY DEF VerOK
<1> HIDE DEF S, V, n, x
<1>4. IsFiniteSet(S \ {x}) /\ Cardinality(S \ {x}) = Cardinality(S) - 1
  BY <1>1, <1>2, FS_RemoveElement
<1>5. IsFiniteSet(V) /\ Cardinality(V) <= Cardinality(S \ {x})
  BY <1>2, <1>4, FS_Subset
<1>6. Cardinality(V) \in Nat /\ Cardinality(V) + 1 <= Cardinality(S)
  <2>1. Cardinality(V) \in Nat
    BY <1>5, FS_CardinalityType
  <2> QED BY <1>1, <1>4, <1>5, <2>1
<1>7. now \in Nat /\ now <= v[d] + 1
  BY <1>3
<1>8. v1 \in [Dirs -> Nat] /\ \A e \in Dirs : v1[e] \in Nat /\ v1[e] <= v[e] + 1
  BY <1>3, <1>7
<1>9. \A e \in Dirs : v1[e] + Cardinality(V) <= n
  <2> HIDE DEF v1
  <2> SUFFICES ASSUME NEW e \in Dirs
               PROVE  v1[e] + Cardinality(V) <= n
    OBVIOUS
  <2>1. /\ v1[e] \in Nat /\ v[e] \in Nat /\ v1[e] <= v[e] + 1
        /\ v[e] + Cardinality(S) <= n
    BY <1>3, <1>8
  <2> QED BY <1>1, <1>6, <2>1
<1> QED BY <1>8, <1>9 DEF VerOK, V, n

LEMMA WireIn ==
  ASSUME NEW ps, NEW in
  PROVE  \A o : o \in Wire(ps, in) <=>
           \/ o \in Asked(in)
           \/ \E p \in ps : p.heard /\ (o \in p.todo \/ o \in Asked(p.done))
BY DEF Wire

\* A post makes way for others, and some of its replies have come: the same
\* requests are accounted for.
Accounts(p, after, come) ==
  \A x : (x \in come \/ \E q \in after : q.heard /\ (x \in q.todo \/ x \in Asked(q.done)))
         <=> (p.heard /\ (x \in p.todo \/ x \in Asked(p.done)))

LEMMA WireSwap ==
  ASSUME NEW ps, NEW p \in ps, NEW after, NEW in, NEW in2, NEW come,
         Asked(in2) = Asked(in) \cup come, Accounts(p, after, come)
  PROVE  Wire((ps \ {p}) \cup after, in2) = Wire(ps, in)
<1> DEFINE us == (ps \ {p}) \cup after
           Has(q, x) == q.heard /\ (x \in q.todo \/ x \in Asked(q.done))
<1>1. \A x : (\E q \in us : Has(q, x)) <=>
             (\E q \in ps \ {p} : Has(q, x)) \/ (\E q \in after : Has(q, x))
  BY Zenon
<1>2. \A x : (\E q \in ps : Has(q, x)) <=> (\E q \in ps \ {p} : Has(q, x)) \/ Has(p, x)
  BY Zenon
<1>3. \A x : x \in Wire(us, in2) <=> x \in Asked(in2) \/ \E q \in us : Has(q, x)
  BY WireIn
<1>4. \A x : x \in Wire(ps, in) <=> x \in Asked(in) \/ \E q \in ps : Has(q, x)
  BY WireIn
<1>5. \A x : (x \in come \/ \E q \in after : Has(q, x)) <=> Has(p, x)
  BY DEF Accounts
<1> HIDE DEF Has, us
<1>6. \A x : x \in Wire(us, in2) <=> x \in Wire(ps, in)
  BY <1>1, <1>2, <1>3, <1>4, <1>5
<1> QED BY <1>6 DEF us

LEMMA WireType ==
  ASSUME NEW t, NEW ps, PostsOK(t, ps), NEW in \in SUBSET Replies
  PROVE  Wire(ps, in) \subseteq Outgoing
<1>1. \A S \in SUBSET Replies : Asked(S) \subseteq Outgoing
  BY DEF Asked, Replies, Outgoing
<1>2. \A p \in ps : p.todo \subseteq Outgoing /\ p.done \in SUBSET Replies
  BY DEF PostsOK
<1> QED BY <1>1, <1>2, WireIn

\* What comes back of a request that was sent may be forgotten.
LEMMA ServedLess ==
  ASSUME NEW t, NEW B, TableServed(t, B), NEW u, NEW A, TableServed(u, A),
         u.staged \subseteq t.staged, u.nextSeq = t.nextSeq,
         NEW C, A \subseteq C, C \subseteq B
  PROVE  TableServed(u, C)
<1>1. SentOnce(u, C)
  <2>1. u.staged \cup C \subseteq t.staged \cup B
    OBVIOUS
  <2>2. SentOnce(t, B)
    BY DEF TableServed
  <2> QED BY <2>1, <2>2 DEF SentOnce
<1>2. Served(u, C)
  <2>1. u.staged \cup A \subseteq u.staged \cup C
    OBVIOUS
  <2> QED BY <2>1 DEF TableServed, Served
<1> QED BY <1>1, <1>2 DEF TableServed

-----------------------------------------------------------------------------
\* The steps.

LEMMA InitOK == Init => RpcIInv
<1> SUFFICES ASSUME Init
             PROVE  RpcIInv
  OBVIOUS
<1>1. Wire(posts, inbox) = {}
  BY DEF Init, Wire, Asked
<1>2. TableServed(table, {})
  <2> DEFINE e == [k \in {} |-> 0]
             z == 0
  <2>1. table = EmptyTable
    BY DEF Init
  <2>2. /\ DOMAIN table.entries = {} /\ DOMAIN table.groups = {} /\ DOMAIN table.byArgs = {}
        /\ DOMAIN table.argsOf = {} /\ table.staged = {} /\ table.nextSeq = 0
    BY <2>1 DEF EmptyTable
  <2>3. TableType(table)
    BY <2>1, Zenon DEF EmptyTable, TableType, Live
  <2> QED BY <2>2, <2>3 DEF TableServed, TableOK, GroupsPartition, IndexExact, GroupsAgree,
             StagedWanted, SentOnce, Served, Live
<1>3. table.nextSeq = 0 /\ table.staged = {} /\ Live(table) = {}
  BY DEF Init, EmptyTable, Live
<1>4. PostsOK(table, posts)
  BY DEF Init, PostsOK, ToDo
<1>5. VerOK(table, posts, ver)
  <2>1. Unserved(table, posts) = {}
    BY <1>3 DEF Init, Unserved, ToDo
  <2>2. Cardinality(Unserved(table, posts)) = 0
    BY <2>1, FS_EmptySet
  <2>3. ver = [d \in Dirs |-> 0]
    BY DEF Init
  <2> QED BY <1>3, <2>2, <2>3 DEF VerOK
<1>6. \A w : CallsIn(table, w) = {}
  BY <1>3 DEF CallsIn, KeysOf
<1>7. \A w \in Windows : WinOK(w, Fresh, table, 0)
  <2> DEFINE c == EmptyCache
             win == Fresh
  <2>1. /\ win = [cache |-> c, shows |-> Root, listed |-> FALSE, deleting |-> NoCall,
                  open |-> TRUE, queue |-> {}]
    BY DEF Fresh
  <2>2. /\ DOMAIN c.entries = {} /\ DOMAIN c.byCall = {} /\ DOMAIN c.commands = {}
        /\ c.outbox = <<>> /\ c.cancels = {} /\ c.nextId = 0
    BY DEF EmptyCache
  <2>3. CacheType(c)
    <3>1. c = [entries |-> c.entries, byCall |-> c.byCall, commands |-> c.commands,
               outbox |-> c.outbox, cancels |-> c.cancels, nextId |-> c.nextId]
      BY Zenon DEF EmptyCache
    <3>2. /\ c.entries = [q \in {} |-> 0] /\ c.byCall = [id \in {} |-> 0]
          /\ c.commands = [id \in {} |-> 0]
      BY DEF EmptyCache
    <3> HIDE DEF c
    <3> QED BY <2>2, <3>1, <3>2 DEF CacheType
  <2> HIDE DEF c, win
  <2>4. Indexed(c) /\ Own(c) /\ UsedLately(c) /\ Awaited(c) = {}
    BY <2>2 DEF Indexed, Own, UsedLately, Awaited
  <2>5. /\ win.cache = c /\ win.shows = Root /\ win.open = TRUE /\ win.queue = {}
        /\ WinType(win)
    BY <2>1 DEF WinType
  <2>6. CallsFor(win) = {}
    BY <2>5 DEF CallsFor
  <2>7. \A w \in Windows : OpenOK(w, win, table, 0)
    <3> SUFFICES ASSUME NEW w \in Windows
                 PROVE  OpenOK(w, win, table, 0)
      OBVIOUS
    <3>1. win.cache = c /\ win.queue = {} /\ win.shows \in Dirs
      BY <2>5, SystemAssumption
    <3>2. /\ CacheOK(win.cache) /\ UsedLately(win.cache)
          /\ win.cache.outbox = <<>> /\ win.cache.cancels = {} /\ win.cache.nextId <= 0
      BY <2>2, <2>3, <2>4, <3>1 DEF CacheOK
    <3>3. /\ Awaited(win.cache) = CallsIn(table, w) \cup CallsFor(win)
          /\ CallsIn(table, w) \cap CallsFor(win) = {}
      BY <1>6, <2>4, <2>6, <3>1
    <3>4. \A id \in CallsIn(table, w) \cap DOMAIN win.cache.byCall :
            table.entries[<<w, id>>].req = win.cache.byCall[id]
      BY <1>6
    <3> QED BY <3>1, <3>2, <3>3, <3>4 DEF OpenOK
  <2>8. \A w \in Windows : WinOK(w, win, table, 0)
    BY <2>5, <2>7 DEF WinOK
  <2> QED BY <2>8 DEF win
<1>8. WinsOK(wins, table, issued)
  BY <1>7 DEF Init, WinsOK
<1>9. Len(Order) \in Nat /\ MaxCalls \in Nat
  BY SystemAssumption, PolicyAssumption
<1>10. TableServed(table, Wire(posts, inbox))
  BY <1>1, <1>2
<1>11. turn \in 0..Len(Order) /\ issued \in 0..MaxCalls /\ inbox \subseteq Replies
  BY <1>9 DEF Init
<1>12. table.nextSeq <= issued
  BY <1>3 DEF Init
<1> QED BY <1>4, <1>5, <1>6, <1>8, <1>10, <1>11, <1>12 DEF RpcIInv

\* Steps that leave the page alone: the server's and the network's.
LEMMA NetworkOK ==
  ASSUME RpcIInv, UNCHANGED <<turn, wins, table, issued>>, inbox' \subseteq Replies,
         Wire(posts', inbox') = Wire(posts, inbox), PostsOK(table, posts'),
         VerOK(table, posts', ver')
  PROVE  RpcIInv'
BY DEF RpcIInv, CallsIn, KeysOf, WinsOK

\* A call served is answered or, if its POST has failed, done in silence.
LEMMA ServeOK ==
  ASSUME RpcIInv, NEW p \in posts, NEW o \in Following(p.todo), NEW ok \in BOOLEAN,
         Serve(p, o, ok)
  PROVE  RpcIInv'
<1> DEFINE d == o.req.dir
           now == IF ok /\ o.req.op = "remove" THEN ver[d] + 1 ELSE ver[d]
           left == p.todo \ {o}
           r == Reply(o, ok, now)
           new == [todo |-> left, heard |-> p.heard, done |-> p.done \cup {r}]
           after == IF left = {} /\ ~p.heard THEN {} ELSE {new}
<1>1. /\ ver' = [ver EXCEPT ![d] = now]
      /\ posts' = (posts \ {p}) \cup after
      /\ UNCHANGED <<turn, wins, table, issued, inbox>>
  BY DEF Serve
<1>2. o \in p.todo /\ o \in Outgoing /\ p.todo \subseteq Outgoing /\ p.done \subseteq Replies
      /\ p.heard \in BOOLEAN
  BY DEF RpcIInv, PostsOK, Following
<1>3. d \in Dirs /\ o.req \in Requests /\ o.seq \in Nat /\ o = [seq |-> o.seq, req |-> o.req]
  <2>1. o.req \in Requests /\ o.seq \in Nat /\ o = [seq |-> o.seq, req |-> o.req]
    BY <1>2 DEF Outgoing
  <2>2. \A e \in Dirs : List(e).dir = e /\ Rm(e).dir = e
    BY DEF List, Rm
  <2> QED BY <2>1, <2>2, SystemAssumption
<1>4. ver \in [Dirs -> Nat] /\ now \in {ver[d], ver[d] + 1} /\ now \in Nat
  BY <1>3 DEF RpcIInv, VerOK
<1> HIDE DEF d, now, left
<1>5. r = [seq |-> o.seq, ok |-> ok, req |-> o.req, val |-> now] /\ r \in Replies
  BY <1>3, <1>4 DEF Reply, Replies
<1>6. Asked({r}) = {o}
  <2>1. r.seq = o.seq /\ r.req = o.req
    BY <1>5
  <2> HIDE DEF r
  <2> QED BY <1>3, <2>1 DEF Asked
<1> HIDE DEF r
<1>7. /\ new.todo = left /\ new.heard = p.heard /\ new.done = p.done \cup {r}
      /\ new = [todo |-> new.todo, done |-> new.done, heard |-> new.heard]
      /\ left \subseteq p.todo /\ o \notin left /\ p.todo = left \cup {o}
  BY <1>2 DEF left
<1> HIDE DEF new
<1>8. Asked(new.done) = Asked(p.done) \cup {o}
  BY <1>6, <1>7 DEF Asked
<1>9. Wire(posts', inbox') = Wire(posts, inbox)
  <2>1. \A x : x \in new.todo \/ x \in Asked(new.done) <=> x \in p.todo \/ x \in Asked(p.done)
    BY <1>7, <1>8
  <2>2. p.heard => after = {new}
    OBVIOUS
  <2>3. \A q \in after : q = new
    OBVIOUS
  <2> HIDE DEF after
  <2>4. Accounts(p, after, {})
    BY <1>7, <2>1, <2>2, <2>3 DEF Accounts
  <2>5. Asked(inbox) = Asked(inbox) \cup {}
    OBVIOUS
  <2>6. Wire((posts \ {p}) \cup after, inbox) = Wire(posts, inbox)
    BY <2>4, <2>5, WireSwap
  <2> QED BY <1>1, <2>6
<1>10. \A q \in posts' : q \in posts \ {p} \/ q = new
  BY <1>1
<1>11. \A q1 \in posts, q2 \in posts : \A x \in q1.todo, y \in q2.todo :
         x.seq = y.seq => x = y /\ q1 = q2
  BY DEF RpcIInv, PostsOK
<1>12. PostsOK(table, posts')
  <2>1. \A q \in posts' : /\ q = [todo |-> q.todo, done |-> q.done, heard |-> q.heard]
                          /\ q.todo \subseteq Outgoing
                          /\ q.done \subseteq Replies
                          /\ q.heard \in BOOLEAN
    <3>1. /\ new.todo \subseteq Outgoing /\ new.done \subseteq Replies /\ new.heard \in BOOLEAN
          /\ new = [todo |-> new.todo, done |-> new.done, heard |-> new.heard]
      BY <1>2, <1>5, <1>7
    <3> QED BY <1>10, <3>1 DEF RpcIInv, PostsOK
  <2>2. ToDo(posts') \subseteq ToDo(posts)
    BY <1>7, <1>10 DEF ToDo
  <2>3. \A q1 \in posts', q2 \in posts' : \A x \in q1.todo, y \in q2.todo :
          x.seq = y.seq => x = y /\ q1 = q2
    <3> SUFFICES ASSUME NEW q1 \in posts', NEW q2 \in posts', NEW x \in q1.todo,
                        NEW y \in q2.todo, x.seq = y.seq
                 PROVE  x = y /\ q1 = q2
      OBVIOUS
    <3>1. CASE q1 = new /\ q2 = new
      BY <1>7, <1>11, <3>1
    <3>2. CASE q1 = new /\ q2 \in posts \ {p}
      BY <1>7, <1>11, <3>2
    <3>3. CASE q1 \in posts \ {p} /\ q2 = new
      BY <1>7, <1>11, <3>3
    <3>4. CASE q1 \in posts \ {p} /\ q2 \in posts \ {p}
      BY <1>11, <3>4
    <3> QED BY <1>10, <3>1, <3>2, <3>3, <3>4
  <2>4. \A q \in posts' : \A x \in q.todo, y \in table.staged : x.seq # y.seq
    BY <1>7, <1>10 DEF RpcIInv, PostsOK
  <2>5. \A x \in ToDo(posts') : x.seq <= table.nextSeq
    BY <2>2 DEF RpcIInv, PostsOK
  <2> QED BY <2>1, <2>3, <2>4, <2>5 DEF PostsOK
<1>13. o.seq \in Unserved(table, posts)
  BY <1>2 DEF Unserved, ToDo
<1>14. \A s \in Unserved(table, posts') : s \in Unserved(table, posts) /\ s # o.seq
  <2>1. \A x \in table.staged : x.seq # o.seq
    BY <1>2 DEF RpcIInv, PostsOK
  <2>2. \A x \in ToDo(posts') : x \in ToDo(posts) /\ x.seq # o.seq
    <3>1. \A q \in posts' : \A x \in q.todo : x.seq # o.seq /\ x \in ToDo(posts)
      <4> SUFFICES ASSUME NEW q \in posts', NEW x \in q.todo
                   PROVE  x.seq # o.seq /\ x \in ToDo(posts)
        OBVIOUS
      <4>1. CASE q = new
        BY <1>2, <1>7, <1>11, <4>1 DEF ToDo
      <4>2. CASE q \in posts \ {p}
        BY <1>2, <1>11, <4>2 DEF ToDo
      <4> QED BY <1>10, <4>1, <4>2
    <3> QED BY <3>1 DEF ToDo
  <2> QED BY <2>1, <2>2 DEF Unserved
<1>15. VerOK(table, posts', ver')
  <2> DEFINE t == table
             ps == posts
             us == posts'
             v == ver
             out == Wire(posts, inbox)
  <2>1. TableServed(t, out) /\ PostsOK(t, ps) /\ VerOK(t, ps, v)
    BY DEF RpcIInv
  <2>2. o.seq \in Unserved(t, ps) /\ \A s \in Unserved(t, us) : s \in Unserved(t, ps) /\ s # o.seq
    BY <1>13, <1>14
  <2>3. now \in {v[d], v[d] + 1}
    BY <1>4
  <2> HIDE DEF t, ps, us, v, out
  <2>4. VerOK(t, us, [v EXCEPT ![d] = now])
    BY <1>3, <2>1, <2>2, <2>3, VerServed
  <2> QED BY <1>1, <2>4 DEF t, us, v
<1>16. inbox' \subseteq Replies
  BY <1>1 DEF RpcIInv
<1> QED BY <1>1, <1>9, <1>12, <1>15, <1>16, NetworkOK

LEMMA AnswerOK ==
  ASSUME RpcIInv, NEW p \in posts, Answer(p)
  PROVE  RpcIInv'
<1>1. /\ p.todo = {} /\ p.heard /\ inbox' = inbox \cup p.done /\ posts' = posts \ {p}
      /\ UNCHANGED <<turn, wins, table, issued, ver>>
  BY DEF Answer
<1>2. inbox' \subseteq Replies
  BY <1>1 DEF RpcIInv, PostsOK
<1>3. Asked(inbox') = Asked(inbox) \cup Asked(p.done)
  BY <1>1 DEF Asked
<1>4. Wire(posts', inbox') = Wire(posts, inbox)
  <2> DEFINE none == {}
             come == Asked(p.done)
             in2 == inbox'
  <2>1. Accounts(p, none, come)
    BY <1>1 DEF Accounts
  <2>2. posts' = (posts \ {p}) \cup none
    BY <1>1
  <2>3. Asked(in2) = Asked(inbox) \cup come
    BY <1>3
  <2> HIDE DEF none, come, in2
  <2>4. Wire((posts \ {p}) \cup none, in2) = Wire(posts, inbox)
    BY <2>1, <2>3, WireSwap
  <2> QED BY <2>2, <2>4 DEF in2
<1>5. ToDo(posts') = ToDo(posts)
  BY <1>1 DEF ToDo
<1>6. PostsOK(table, posts')
  BY <1>1, <1>5 DEF RpcIInv, PostsOK
<1>7. VerOK(table, posts', ver')
  BY <1>1, <1>5 DEF RpcIInv, VerOK, Unserved
<1> QED BY <1>1, <1>2, <1>4, <1>6, <1>7, NetworkOK

\* A POST that fails answers its calls, and the server may still do what is left.
LEMMA FailOK ==
  ASSUME RpcIInv, NEW p \in posts, FailPost(p)
  PROVE  RpcIInv'
<1> DEFINE failed == {Reply(o, FALSE, 0) : o \in p.todo \cup p.done}
           new == [todo |-> p.todo, done |-> {}, heard |-> FALSE]
           after == IF p.todo = {} THEN {} ELSE {new}
<1>1. /\ p.heard /\ inbox' = inbox \cup failed /\ posts' = (posts \ {p}) \cup after
      /\ UNCHANGED <<turn, wins, table, issued, ver>>
  BY DEF FailPost
<1>2. /\ p.todo \subseteq Outgoing /\ p.done \subseteq Replies
  BY DEF RpcIInv, PostsOK
<1>3. \A o \in p.todo \cup p.done : o.seq \in Nat /\ o.req \in Requests
  BY <1>2 DEF Outgoing, Replies
<1>4. failed \subseteq Replies
  <2>1. \A o \in p.todo \cup p.done : Reply(o, FALSE, 0) \in Replies
    BY <1>3 DEF Reply, Replies
  <2> QED BY <2>1
<1>5. Asked(failed) = p.todo \cup Asked(p.done)
  <2>1. \A o \in p.todo \cup p.done :
          Reply(o, FALSE, 0).seq = o.seq /\ Reply(o, FALSE, 0).req = o.req
    BY DEF Reply
  <2>2. Asked(failed) = {[seq |-> o.seq, req |-> o.req] : o \in p.todo \cup p.done}
    BY <2>1 DEF Asked
  <2>3. \A o \in p.todo : o = [seq |-> o.seq, req |-> o.req]
    BY <1>2 DEF Outgoing
  <2> HIDE DEF failed
  <2> QED BY <2>2, <2>3 DEF Asked
<1> HIDE DEF failed
<1>6. Asked(inbox') = Asked(inbox) \cup Asked(failed)
  BY <1>1 DEF Asked
<1>7. new.todo = p.todo /\ new.done = {} /\ new.heard = FALSE
  OBVIOUS
<1>8. \A q \in posts' : q \in posts \ {p} \/ q = new
  BY <1>1
<1>9. p.todo # {} => new \in posts'
  BY <1>1
<1> HIDE DEF new
<1>10. Wire(posts', inbox') = Wire(posts, inbox)
  <2> DEFINE come == Asked(failed)
             in2 == inbox'
  <2>1. \A q \in after : q.heard = FALSE
    BY <1>7
  <2>2. Accounts(p, after, come)
    BY <1>1, <1>5, <2>1 DEF Accounts
  <2>3. Asked(in2) = Asked(inbox) \cup come
    BY <1>6
  <2> HIDE DEF after, come, in2
  <2>4. Wire((posts \ {p}) \cup after, in2) = Wire(posts, inbox)
    BY <2>2, <2>3, WireSwap
  <2> QED BY <1>1, <2>4 DEF in2
<1>11. ToDo(posts') = ToDo(posts)
  BY <1>1, <1>7, <1>8, <1>9 DEF ToDo
<1>12. PostsOK(table, posts')
  <2>1. \A q \in posts' : /\ q = [todo |-> q.todo, done |-> q.done, heard |-> q.heard]
                          /\ q.todo \subseteq Outgoing
                          /\ q.done \subseteq Replies
                          /\ q.heard \in BOOLEAN
    <3>1. new = [todo |-> new.todo, done |-> new.done, heard |-> new.heard]
      BY DEF new
    <3> QED BY <1>2, <1>7, <1>8, <3>1 DEF RpcIInv, PostsOK
  <2>2. \A q1 \in posts', q2 \in posts' : \A x \in q1.todo, y \in q2.todo :
          x.seq = y.seq => x = y /\ q1 = q2
    <3> SUFFICES ASSUME NEW q1 \in posts', NEW q2 \in posts', NEW x \in q1.todo,
                        NEW y \in q2.todo, x.seq = y.seq
                 PROVE  x = y /\ q1 = q2
      OBVIOUS
    <3>0. \A p1 \in posts, p2 \in posts : \A a \in p1.todo, b \in p2.todo :
           a.seq = b.seq => a = b /\ p1 = p2
      BY DEF RpcIInv, PostsOK
    <3>1. CASE q1 = new /\ q2 = new
      BY <1>7, <3>0, <3>1
    <3>2. CASE q1 = new /\ q2 \in posts \ {p}
      BY <1>7, <3>0, <3>2
    <3>3. CASE q1 \in posts \ {p} /\ q2 = new
      BY <1>7, <3>0, <3>3
    <3>4. CASE q1 \in posts \ {p} /\ q2 \in posts \ {p}
      BY <3>0, <3>4
    <3> QED BY <1>8, <3>1, <3>2, <3>3, <3>4
  <2>3. \A q \in posts' : \A x \in q.todo, y \in table.staged : x.seq # y.seq
    BY <1>7, <1>8 DEF RpcIInv, PostsOK
  <2> QED BY <1>11, <2>1, <2>2, <2>3 DEF RpcIInv, PostsOK
<1>13. VerOK(table, posts', ver')
  BY <1>1, <1>11 DEF RpcIInv, VerOK, Unserved
<1>14. inbox' \subseteq Replies
  BY <1>1, <1>4 DEF RpcIInv
<1> QED BY <1>1, <1>10, <1>12, <1>13, <1>14, NetworkOK

LEMMA ElapseStepOK ==
  ASSUME RpcIInv, Elapse
  PROVE  RpcIInv'
<1> DEFINE u == ElapseIn(table)
<1>1. table' = u /\ UNCHANGED <<turn, wins, issued, posts, inbox, ver>>
  BY DEF Elapse
<1>2. TableServed(u, Wire(posts, inbox))
  BY ElapseServed DEF RpcIInv
<1>3. /\ Live(u) = Live(table) /\ u.staged = table.staged /\ u.nextSeq = table.nextSeq
      /\ \A k \in Live(u) : u.entries[k].req = table.entries[k].req
  BY DEF ElapseIn, Live, Sooner
<1> HIDE DEF u
<1>4. TableType(u) /\ TableType(table)
  BY <1>2 DEF RpcIInv, TableServed, TableOK
<1>5. \A w \in Windows : WinOK(w, wins[w], u, issued)
  <2> SUFFICES ASSUME NEW w \in Windows
               PROVE  WinOK(w, wins[w], u, issued)
    OBVIOUS
  <2> DEFINE win == wins[w]
             n == issued
             t == table
  <2>1. WinOK(w, win, t, n) /\ n \in Nat /\ n <= n
    BY DEF RpcIInv, WinsOK
  <2>2. /\ \A id : <<w, id>> \in Live(u) <=> <<w, id>> \in Live(t)
        /\ \A id : <<w, id>> \in Live(u) => u.entries[<<w, id>>].req = t.entries[<<w, id>>].req
        /\ TableType(t)
    BY <1>3, <1>4
  <2> HIDE DEF win, n, t
  <2>3. WinOK(w, win, u, n)
    BY <1>4, <2>1, <2>2, SameCalls
  <2> QED BY <2>3 DEF win, n
<1>6. WinsOK(wins, u, issued)
  BY <1>5 DEF RpcIInv, WinsOK
<1>7. PostsOK(u, posts) /\ VerOK(u, posts, ver)
  BY <1>3 DEF RpcIInv, PostsOK, VerOK, Unserved
<1>8. \A w : CallsIn(u, w) = CallsIn(table, w)
  BY <1>3 DEF CallsIn, KeysOf
<1> QED BY <1>1, <1>2, <1>3, <1>6, <1>7, <1>8 DEF RpcIInv

\* A page told of the calls K, with the table u.
LEMMA ToldIs ==
  ASSUME NEW p, p = [wins |-> p.wins, table |-> p.table, issued |-> p.issued,
                     reported |-> p.reported],
         NEW K, NEW event, NEW u
  PROVE  [Tell(p, K, event) EXCEPT !.table = u] =
           [wins |-> WinsTold(p, K, event), table |-> u, issued |-> p.issued,
            reported |-> p.reported]
<1> DEFINE ws == WinsTold(p, K, event)
           x == Tell(p, K, event)
<1>1. x = [p EXCEPT !.wins = ws]
  BY Zenon DEF Tell, WinsTold
<1> HIDE DEF ws, x
<1>2. x = [wins |-> ws, table |-> p.table, issued |-> p.issued, reported |-> p.reported]
  BY <1>1
<1>3. [x EXCEPT !.table = u] = [wins |-> ws, table |-> u, issued |-> p.issued,
                                reported |-> p.reported]
  BY <1>2
<1> QED BY <1>3 DEF ws, x

\* tick().
LEMMA TickOK ==
  ASSUME NEW p, p = [wins |-> p.wins, table |-> p.table, issued |-> p.issued,
                     reported |-> p.reported],
         NEW out, TableServed(p.table, out), NEW n \in Nat, WinsOK(p.wins, p.table, n),
         NEW q, q = TickPage(p)
  PROVE  /\ TableServed(q.table, out)
         /\ WinsOK(q.wins, q.table, n)
         /\ q.table.staged \subseteq p.table.staged /\ q.table.nextSeq = p.table.nextSeq
         /\ Live(q.table) \subseteq Live(p.table)
         /\ \A w \in Windows : q.wins[w].open = p.wins[w].open
<1> DEFINE t == p.table
           K == Overdue(t) \cup {k \in Live(t) : ~p.wins[k[1]].open}
           event == [k \in K |-> Lapsed(k, t.entries[k])]
           u == Without(t, K)
           ws == WinsTold(p, K, event)
<1>1. CASE K = {}
  <2>1. q = p
    BY <1>1 DEF TickPage
  <2> QED BY <2>1
<1>2. CASE K # {}
  <2>1. q = [Tell(p, K, event) EXCEPT !.table = u]
    BY <1>2 DEF TickPage
  <2>2. q = [wins |-> ws, table |-> u, issued |-> p.issued, reported |-> p.reported]
    <3>1. [Tell(p, K, event) EXCEPT !.table = u] =
            [wins |-> ws, table |-> u, issued |-> p.issued, reported |-> p.reported]
      <4> HIDE DEF K, event, u
      <4> QED BY ToldIs
    <3> QED BY <2>1, <3>1
  <2>3. K \subseteq Live(t)
    BY DEF Overdue
  <2>4. TableType(t) /\ GroupsPartition(t)
    BY DEF TableServed, TableOK
  <2>5. \A k \in K : /\ event[k] \in Events /\ event[k].call = k[2]
                     /\ event[k].ok => event[k].req = t.entries[k].req
    <3> SUFFICES ASSUME NEW k \in K
                 PROVE  /\ event[k] \in Events /\ event[k].call = k[2]
                        /\ event[k].ok => event[k].req = t.entries[k].req
      OBVIOUS
    <3>1. k \in Key /\ t.entries[k] \in Entry
      BY <2>3, <2>4 DEF TableType, Live
    <3>2. k[2] \in Nat /\ t.entries[k].req \in Requests
      BY <3>1, SystemAssumption, PolicyAssumption DEF Key, Entry
    <3>3. event[k] = [call |-> k[2], ok |-> FALSE, req |-> t.entries[k].req, val |-> 0]
      BY DEF Lapsed
    <3> HIDE DEF event
    <3> QED BY <3>2, <3>3 DEF Events
  <2>6. TableServed(u, out) /\ TableType(u)
    <3>1. TableServed(u, out)
      BY WithoutServed
    <3> QED BY <3>1 DEF TableServed, TableOK
  <2> HIDE DEF K, event, u, t
  <2>7. /\ Live(u) = Live(t) \ K /\ (\A k \in Live(u) : u.entries[k] = t.entries[k])
        /\ u.staged \subseteq t.staged /\ u.nextSeq = t.nextSeq
    BY WithoutIs DEF u
  <2>8. WinsOK(ws, u, n) /\ \A w \in Windows : ws[w].open = p.wins[w].open
    <3>1. WinsOK(p.wins, t, n)
      BY DEF t
    <3> QED BY <2>3, <2>4, <2>5, <2>6, <2>7, <3>1, TellOK
  <2> HIDE DEF ws
  <2>9. q.wins = ws /\ q.table = u
    BY <2>2
  <2> QED BY <2>6, <2>7, <2>8, <2>9 DEF t
<1> QED BY <1>1, <1>2

\* The reply a call is told of is one to its request.
LEMMA ReplyIs ==
  ASSUME RpcIInv, NEW p, p.table = table,
         NEW k, k \in Members(table, {r.seq : r \in inbox})
  PROVE  LET r == ReplyTo(p, k)
         IN /\ k \in Live(table)
            /\ r \in inbox /\ r.seq \in DOMAIN table.groups /\ k \in table.groups[r.seq]
            /\ r.req = table.entries[k].req
<1> DEFINE t == table
           S == {r.seq : r \in inbox}
           out == Wire(posts, inbox)
           r == ReplyTo(p, k)
<1>1. GroupsPartition(t) /\ SentOnce(t, out) /\ Served(t, out)
  BY DEF RpcIInv, TableServed, TableOK
<1>2. k \in Live(t)
  BY <1>1 DEF Members, GroupsPartition
<1>3. \E x \in inbox : x.seq \in DOMAIN t.groups /\ k \in t.groups[x.seq]
  BY DEF Members
<1>4. r \in inbox /\ r.seq \in DOMAIN t.groups /\ k \in t.groups[r.seq]
  BY <1>3 DEF ReplyTo
<1> HIDE DEF r, S
<1>5. [seq |-> r.seq, req |-> r.req] \in out
  <2>1. [seq |-> r.seq, req |-> r.req] \in Asked(inbox)
    BY <1>4 DEF Asked
  <2> QED BY <2>1, WireIn DEF out
<1>6. PICK o \in t.staged \cup out :
        o.seq = r.seq /\ \A j \in t.groups[r.seq] : t.entries[j].req = o.req
  BY <1>1, <1>4 DEF Served
<1> DEFINE x == [seq |-> r.seq, req |-> r.req]
<1>7. x \in t.staged \cup out /\ x.seq = r.seq /\ x.req = r.req
  BY <1>5
<1> HIDE DEF x, out
<1>8. o = x
  BY <1>1, <1>6, <1>7 DEF SentOnce
<1> QED BY <1>2, <1>4, <1>6, <1>7, <1>8 DEF r

\* on_replies().
LEMMA TakeOK ==
  ASSUME RpcIInv, NEW q, q = TakeReplies(Page)
  PROVE  /\ q = [wins |-> q.wins, table |-> q.table, issued |-> q.issued,
                 reported |-> q.reported]
         /\ TableServed(q.table, Wire(posts, {}))
         /\ WinsOK(q.wins, q.table, issued)
         /\ q.table.staged \subseteq table.staged /\ q.table.nextSeq = table.nextSeq
         /\ Live(q.table) \subseteq Live(table)
         /\ \A w \in Windows : q.wins[w].open = wins[w].open
<1> DEFINE t == table
           n == issued
           p == Page
           S == {r.seq : r \in inbox}
           K == Members(t, S)
           event == [k \in K |-> Heeded(k, ReplyTo(p, k))]
           u == ResolveIn(t, S)
           ws == WinsTold(p, K, event)
           out == Wire(posts, inbox)
<1>1. /\ p = [wins |-> p.wins, table |-> p.table, issued |-> p.issued, reported |-> p.reported]
      /\ p.wins = wins /\ p.table = t /\ p.issued = n /\ p.reported = reported
  BY DEF Page
<1>2. TableServed(t, out) /\ WinsOK(wins, t, n) /\ n \in Nat /\ inbox \subseteq Replies
  BY DEF RpcIInv
<1>3. CASE inbox = {}
  <2>1. q = p
    BY <1>3 DEF TakeReplies
  <2>2. out = Wire(posts, {})
    BY <1>3
  <2> HIDE DEF p, out
  <2> QED BY <1>1, <1>2, <2>1, <2>2
<1>4. CASE inbox # {}
  <2>1. q = [Tell(p, K, event) EXCEPT !.table = u]
    BY <1>1, <1>4 DEF TakeReplies
  <2> HIDE DEF p, t, n
  <2>2. q = [wins |-> ws, table |-> u, issued |-> p.issued, reported |-> p.reported]
    <3>1. [Tell(p, K, event) EXCEPT !.table = u] =
            [wins |-> ws, table |-> u, issued |-> p.issued, reported |-> p.reported]
      <4> HIDE DEF K, event, u
      <4> QED BY <1>1, ToldIs
    <3> QED BY <2>1, <3>1
  <2>4. TableType(t) /\ GroupsPartition(t) /\ SentOnce(t, out) /\ Served(t, out) /\ TableOK(t)
    BY <1>2 DEF TableServed, TableOK
  <2>3. K \subseteq Live(t)
    BY <2>4 DEF Members, GroupsPartition
  <2>5. \A k \in K : /\ event[k] \in Events /\ event[k].call = k[2]
                     /\ event[k].ok => event[k].req = t.entries[k].req
    <3> SUFFICES ASSUME NEW k \in K
                 PROVE  /\ event[k] \in Events /\ event[k].call = k[2]
                        /\ event[k].ok => event[k].req = t.entries[k].req
      OBVIOUS
    <3>1. k \in Key /\ t.entries[k] \in Entry
      BY <2>3, <2>4 DEF TableType, Live
    <3>2. k[2] \in Nat /\ t.entries[k].req \in Requests
      BY <3>1, SystemAssumption, PolicyAssumption DEF Key, Entry
    <3> DEFINE r == ReplyTo(p, k)
    <3>4. r \in inbox /\ r.req = t.entries[k].req
      <4>1. k \in Members(table, {x.seq : x \in inbox}) /\ p.table = table
        BY <1>1 DEF t
      <4> HIDE DEF S, K
      <4> QED BY <4>1, ReplyIs DEF t
    <3>5. event[k] = [call |-> k[2], ok |-> r.ok, req |-> r.req, val |-> r.val]
      BY DEF Heeded
    <3> HIDE DEF r, event, K, S, u
    <3>6. r \in Replies
      BY <1>2, <3>4
    <3>9. event[k] \in Events /\ event[k].call = k[2] /\ event[k].req = r.req
      BY <3>2, <3>5, <3>6 DEF Events, Replies
    <3> QED BY <3>4, <3>9
  <2>6. /\ Live(u) = Live(t) \ K /\ (\A k \in Live(u) : u.entries[k] = t.entries[k])
        /\ u.staged = t.staged /\ u.nextSeq = t.nextSeq
    <3>1. u = [entries |-> Except(t.entries, K), groups |-> Except(t.groups, S),
               byArgs |-> Except(t.byArgs, {t.argsOf[s] : s \in S \cap DOMAIN t.argsOf}),
               argsOf |-> Except(t.argsOf, S), staged |-> t.staged, nextSeq |-> t.nextSeq]
      <4> HIDE DEF S
      <4> QED BY <2>4, ResolveFields
    <3> HIDE DEF u, K, S
    <3>2. u.entries = Except(t.entries, K) /\ u.staged = t.staged /\ u.nextSeq = t.nextSeq
      BY <3>1
    <3> QED BY <3>2 DEF Except, Live
  <2>7. TableServed(u, Wire(posts, {})) /\ TableType(u)
    <3> DEFINE rs == Asked(inbox)
    <3>1. rs \subseteq out
      BY WireIn
    <3>2. S = {o.seq : o \in rs}
      <4>1. \A r \in inbox : [seq |-> r.seq, req |-> r.req].seq = r.seq
        OBVIOUS
      <4> QED BY <4>1 DEF Asked
    <3> HIDE DEF rs, S
    <3>3. TableServed(u, out \ rs)
      BY <1>2, <3>1, <3>2, ResolveServed
    <3> HIDE DEF u
    <3> DEFINE C == Wire(posts, {})
    <3>4. out \ rs \subseteq C /\ C \subseteq out
      <4>1. Asked({}) = {}
        BY DEF Asked
      <4>2. \A x : x \in C => x \in out
        BY <4>1, WireIn
      <4>3. \A x : x \in out /\ x \notin rs => x \in C
        BY <4>1, WireIn DEF rs
      <4> QED BY <4>2, <4>3
    <3> HIDE DEF C, out
    <3>5. TableServed(u, C)
      BY <1>2, <2>6, <3>3, <3>4, ServedLess
    <3> QED BY <3>5 DEF C, TableServed, TableOK
  <2> HIDE DEF K, event, u, out
  <2>8. WinsOK(ws, u, n) /\ \A w \in Windows : ws[w].open = p.wins[w].open
    <3>1. WinsOK(p.wins, t, n)
      BY <1>1, <1>2
    <3>2. /\ n \in Nat /\ TableType(t) /\ K \in SUBSET Live(t) /\ TableType(u)
          /\ Live(u) = Live(t) \ K /\ \A k \in Live(u) : u.entries[k] = t.entries[k]
      BY <1>2, <2>3, <2>4, <2>6, <2>7
    <3> HIDE DEF S, ws
    <3>3. WinsOK(WinsTold(p, K, event), u, n)
      BY <2>5, <3>1, <3>2, TellOK
    <3>4. \A w \in Windows : WinsTold(p, K, event)[w].open = p.wins[w].open
      <4>1. \A w \in Windows : WinType(p.wins[w])
        BY <3>1 DEF WinsOK, WinOK
      <4> QED BY <4>1, ToldOpen
    <3> QED BY <3>3, <3>4 DEF ws
  <2> HIDE DEF ws
  <2>9. /\ q.wins = ws /\ q.table = u
        /\ q = [wins |-> q.wins, table |-> q.table, issued |-> q.issued, reported |-> q.reported]
    BY <2>2
  <2> QED BY <1>1, <2>6, <2>7, <2>8, <2>9 DEF t, n
<1> QED BY <1>3, <1>4

\* A table with fewer requests waiting, of those there were.
LEMMA FewerOK ==
  ASSUME NEW t, NEW out, TableServed(t, out), NEW ps, PostsOK(t, ps), NEW v, VerOK(t, ps, v),
         NEW u, u.staged \subseteq t.staged, u.nextSeq = t.nextSeq
  PROVE  PostsOK(u, ps) /\ VerOK(u, ps, v)
<1>1. PostsOK(u, ps)
  BY DEF PostsOK
<1>2. Unserved(u, ps) \subseteq Unserved(t, ps)
  BY DEF Unserved
<1>3. t.nextSeq \in Nat
  BY UnservedBound
<1> DEFINE k == 0
<1>4. k \in Nat /\ u.nextSeq = t.nextSeq + k
  BY <1>3
<1>5. \A s \in Unserved(u, ps) : s \in Unserved(t, ps) \/ s \in (t.nextSeq + 1)..u.nextSeq
  BY <1>2
<1> HIDE DEF k
<1>6. VerOK(u, ps, v)
  BY <1>4, <1>5, VerFewer
<1> QED BY <1>1, <1>6

\* The beginning of a frame.
LEMMA StartOK ==
  ASSUME RpcIInv, StartFrame
  PROVE  RpcIInv'
<1> DEFINE p == TakeReplies(Page)
           q == TickPage(p)
           out == Wire(posts, {})
           n == issued
<1>1. /\ turn = 0 /\ turn' = 1 /\ wins' = q.wins /\ table' = q.table /\ inbox' = {}
      /\ UNCHANGED <<issued, posts, ver>>
  BY DEF StartFrame
<1>2. /\ p = [wins |-> p.wins, table |-> p.table, issued |-> p.issued, reported |-> p.reported]
      /\ TableServed(p.table, out)
      /\ WinsOK(p.wins, p.table, n)
      /\ p.table.staged \subseteq table.staged /\ p.table.nextSeq = table.nextSeq
      /\ Live(p.table) \subseteq Live(table)
      /\ \A w \in Windows : p.wins[w].open = wins[w].open
  BY TakeOK
<1>3. n \in Nat
  BY DEF RpcIInv
<1> HIDE DEF p, out, n
<1>4. /\ TableServed(q.table, out)
      /\ WinsOK(q.wins, q.table, n)
      /\ q.table.staged \subseteq p.table.staged /\ q.table.nextSeq = p.table.nextSeq
  BY <1>2, <1>3, TickOK
<1> HIDE DEF q
<1>5. TableServed(table', Wire(posts', inbox')) /\ WinsOK(wins', table', issued')
  BY <1>1, <1>4 DEF out, n
<1>6. table'.staged \subseteq table.staged /\ table'.nextSeq = table.nextSeq
  BY <1>1, <1>2, <1>4
<1>7. PostsOK(table', posts') /\ VerOK(table', posts', ver')
  <2> DEFINE t == table
             B == Wire(posts, inbox)
             ps == posts
             v == ver
             u == table'
  <2>1. TableServed(t, B) /\ PostsOK(t, ps) /\ VerOK(t, ps, v)
        /\ u.staged \subseteq t.staged /\ u.nextSeq = t.nextSeq
    BY <1>6 DEF RpcIInv
  <2> HIDE DEF t, B, ps, v, u
  <2>2. PostsOK(u, ps) /\ VerOK(u, ps, v)
    BY <2>1, FewerOK
  <2> QED BY <1>1, <2>2 DEF ps, v, u
<1>8. turn' \in 0..Len(Order) /\ turn' # 0
  <2>1. Len(Order) \in Nat /\ Len(Order) # 0
    BY SystemAssumption
  <2> QED BY <1>1, <2>1
<1>9. issued' \in 0..MaxCalls /\ table'.nextSeq <= issued' /\ inbox' \subseteq Replies
  BY <1>1, <1>6 DEF RpcIInv
<1> QED BY <1>5, <1>7, <1>8, <1>9 DEF RpcIInv

\* A window drawn, the frame going on.
LEMMA DrawnOK ==
  ASSUME RpcIInv, NEW p,
         TableServed(p.table, Wire(posts, inbox)), p.issued \in issued..MaxCalls,
         WinsOK(p.wins, p.table, p.issued),
         p.table.nextSeq \in table.nextSeq..(table.nextSeq + (p.issued - issued)),
         \A o \in p.table.staged :
           o \in table.staged \/ o.seq \in (table.nextSeq + 1)..p.table.nextSeq
  PROVE  /\ PostsOK(p.table, posts)
         /\ VerOK(p.table, posts, ver)
         /\ p.issued \in 0..MaxCalls
         /\ p.table.nextSeq <= p.issued
<1> DEFINE t == table
           u == p.table
           ps == posts
           out == Wire(posts, inbox)
           k == u.nextSeq - t.nextSeq
           n == issued
           m == p.issued
           v == ver
<1>1. /\ TableServed(t, out) /\ PostsOK(t, ps) /\ VerOK(t, ps, v)
      /\ n \in Nat /\ t.nextSeq <= n /\ m \in n..MaxCalls
      /\ u.nextSeq \in t.nextSeq..(t.nextSeq + (m - n))
      /\ \A o \in u.staged : o \in t.staged \/ o.seq \in (t.nextSeq + 1)..u.nextSeq
  BY DEF RpcIInv
<1>2. MaxCalls \in Nat
  BY PolicyAssumption
<1> HIDE DEF t, u, ps, out, n, m, v
<1>3. t.nextSeq \in Nat /\ \A s \in Unserved(t, ps) : s \in Nat /\ s <= t.nextSeq
  BY <1>1, UnservedBound
<1>4. /\ k \in Nat /\ u.nextSeq = t.nextSeq + k /\ m \in 0..MaxCalls /\ u.nextSeq <= m
      /\ u.nextSeq \in Nat
  BY <1>1, <1>2, <1>3
<1>5. PostsOK(u, ps)
  <2>1. \A o \in ToDo(ps) : o.seq \in Nat /\ o.seq <= t.nextSeq /\ o.seq <= u.nextSeq
    <3>1. \A o \in ToDo(ps) : o.seq \in Unserved(t, ps)
      BY DEF Unserved
    <3> QED BY <1>3, <1>4, <3>1
  <2>2. \A p1 \in ps : \A x \in p1.todo, y \in u.staged : x.seq # y.seq
    <3> SUFFICES ASSUME NEW p1 \in ps, NEW x \in p1.todo, NEW y \in u.staged
                 PROVE  x.seq # y.seq
      OBVIOUS
    <3>1. x.seq \in Nat /\ x.seq <= t.nextSeq
      BY <2>1 DEF ToDo
    <3>2. CASE y \in t.staged
      BY <1>1, <3>2 DEF PostsOK
    <3>3. CASE y.seq \in (t.nextSeq + 1)..u.nextSeq
      BY <1>3, <3>1, <3>3
    <3> QED BY <1>1, <3>2, <3>3
  <2> QED BY <1>1, <2>1, <2>2 DEF PostsOK
<1>6. \A s \in Unserved(u, ps) : s \in Unserved(t, ps) \/ s \in (t.nextSeq + 1)..u.nextSeq
  BY <1>1 DEF Unserved
<1> HIDE DEF k
<1>7. VerOK(u, ps, v)
  BY <1>1, <1>4, <1>6, VerFewer
<1> QED BY <1>4, <1>5, <1>7 DEF u, ps, v, m

\* The staged requests go out in a POST of their own.
LEMMA PostOK ==
  ASSUME NEW t, NEW ps, NEW in \in SUBSET Replies, TableServed(t, Wire(ps, in)),
         PostsOK(t, ps), NEW v, VerOK(t, ps, v),
         NEW u, u.staged = {}, u.nextSeq = t.nextSeq
  PROVE  LET us == ps \cup Posted(t)
         IN /\ Wire(us, in) = Wire(ps, in) \cup t.staged
            /\ PostsOK(u, us)
            /\ VerOK(u, us, v)
<1> DEFINE new == [todo |-> t.staged, done |-> {}, heard |-> TRUE]
           us == ps \cup Posted(t)
<1>1. Posted(t) = IF t.staged = {} THEN {} ELSE {new}
  BY DEF Posted
<1>2. /\ new.todo = t.staged /\ new.done = {} /\ new.heard = TRUE
      /\ new = [todo |-> new.todo, done |-> new.done, heard |-> new.heard]
  OBVIOUS
<1> HIDE DEF new
<1>3. /\ t.staged \subseteq Outgoing /\ SentOnce(t, Wire(ps, in))
      /\ \A o \in t.staged : o.seq <= t.nextSeq
      /\ \A x, y \in t.staged : x.seq = y.seq => x = y
  BY DEF TableServed, TableOK, TableType, SentOnce
<1>4. \A q \in us : q \in ps \/ (q = new /\ t.staged # {})
  BY <1>1
<1>5. ToDo(us) = ToDo(ps) \cup t.staged
  <2>1. \A o : o \in ToDo(us) <=> \E q \in us : o \in q.todo
    BY DEF ToDo
  <2>2. \A o : o \in ToDo(ps) <=> \E q \in ps : o \in q.todo
    BY DEF ToDo
  <2>3. t.staged # {} => new \in us
    BY <1>1
  <2>4. \A q \in ps : q \in us
    OBVIOUS
  <2> HIDE DEF us
  <2>5. \A o : o \in ToDo(us) <=> o \in ToDo(ps) \/ o \in t.staged
    BY <1>2, <1>4, <2>1, <2>2, <2>3, <2>4
  <2> QED BY <2>5
<1>6. Wire(us, in) = Wire(ps, in) \cup t.staged
  <2>1. Asked(new.done) = {}
    BY <1>2 DEF Asked
  <2>2. t.staged # {} => new \in us
    BY <1>1
  <2>3. \A q \in ps : q \in us
    OBVIOUS
  <2> HIDE DEF us
  <2>4. \A o : o \in Wire(us, in) => o \in Wire(ps, in) \/ o \in t.staged
    <3> SUFFICES ASSUME NEW o, o \in Wire(us, in)
                 PROVE  o \in Wire(ps, in) \/ o \in t.staged
      OBVIOUS
    <3>1. CASE o \in Asked(in)
      BY <3>1, WireIn
    <3>2. ASSUME NEW q \in us, q.heard /\ (o \in q.todo \/ o \in Asked(q.done))
          PROVE  o \in Wire(ps, in) \/ o \in t.staged
      <4>1. CASE q \in ps
        BY <3>2, <4>1, WireIn
      <4>2. CASE q = new
        BY <1>2, <2>1, <3>2, <4>2
      <4> QED BY <1>4, <4>1, <4>2
    <3> QED BY <3>1, <3>2, WireIn
  <2>5. \A o : o \in Wire(ps, in) => o \in Wire(us, in)
    BY <2>3, WireIn
  <2>6. \A o : o \in t.staged => o \in Wire(us, in)
    BY <1>2, <2>2, WireIn
  <2> QED BY <2>4, <2>5, <2>6
<1> HIDE DEF us
<1>7. PostsOK(u, us)
  <2>1. \A q \in us : /\ q = [todo |-> q.todo, done |-> q.done, heard |-> q.heard]
                      /\ q.todo \subseteq Outgoing
                      /\ q.done \subseteq Replies
                      /\ q.heard \in BOOLEAN
    BY <1>2, <1>3, <1>4 DEF PostsOK
  <2>2. \A o \in ToDo(us) : o.seq <= u.nextSeq
    BY <1>3, <1>5 DEF PostsOK
  <2>3. \A p \in us, q \in us : \A x \in p.todo, y \in q.todo : x.seq = y.seq => x = y /\ p = q
    <3> SUFFICES ASSUME NEW p \in us, NEW q \in us, NEW x \in p.todo, NEW y \in q.todo,
                        x.seq = y.seq
                 PROVE  x = y /\ p = q
      OBVIOUS
    <3>1. CASE p \in ps /\ q \in ps
      BY <3>1 DEF PostsOK
    <3>2. CASE p \in ps /\ q = new
      BY <1>2, <3>2 DEF PostsOK
    <3>3. CASE p = new /\ q \in ps
      BY <1>2, <3>3 DEF PostsOK
    <3>4. CASE p = new /\ q = new
      BY <1>2, <1>3, <3>4
    <3> QED BY <1>4, <3>1, <3>2, <3>3, <3>4
  <2> QED BY <2>1, <2>2, <2>3 DEF PostsOK
<1>8. VerOK(u, us, v)
  <2>1. Unserved(u, us) = Unserved(t, ps)
    BY <1>5 DEF Unserved
  <2> QED BY <2>1 DEF VerOK
<1> QED BY <1>6, <1>7, <1>8 DEF us

LEMMA DrawStepOK ==
  ASSUME RpcIInv, NEW act \in Inputs, Draw(act)
  PROVE  RpcIInv'
<1> DEFINE w == Order[turn]
           p == DrawWindow(Page, w, act)
           out == Wire(posts, inbox)
           P == Page
<1>1. turn \in DOMAIN Order /\ w \in Windows /\ turn \in 1..Len(Order) /\ Len(Order) \in Nat
  BY SystemAssumption DEF Draw
<1>2. p.issued <= MaxCalls /\ UNCHANGED <<inbox, ver>>
  BY DEF Draw
<1>3. /\ P = [wins |-> P.wins, table |-> P.table, issued |-> P.issued, reported |-> P.reported]
      /\ P.wins = wins /\ P.table = table /\ P.issued = issued
  BY DEF Page
<1>4. /\ out \in SUBSET Outgoing /\ TableServed(P.table, out) /\ P.issued \in 0..MaxCalls
      /\ WinsOK(P.wins, P.table, P.issued)
  <2>1. out \subseteq Outgoing
    BY WireType DEF RpcIInv
  <2> HIDE DEF P
  <2> QED BY <1>3, <2>1 DEF RpcIInv
<1>5. p = DrawWindow(P, w, act)
  OBVIOUS
<1> HIDE DEF P, p, w, out
<1>6. /\ TableServed(p.table, out)
      /\ p.issued \in P.issued..MaxCalls
      /\ WinsOK(p.wins, p.table, p.issued)
      /\ p.table.nextSeq \in P.table.nextSeq..(P.table.nextSeq + (p.issued - P.issued))
      /\ \A o \in p.table.staged :
           o \in P.table.staged \/ o.seq \in (P.table.nextSeq + 1)..p.table.nextSeq
  BY <1>1, <1>2, <1>4, <1>5, DrawOK
<1>7. /\ PostsOK(p.table, posts) /\ VerOK(p.table, posts, ver)
      /\ p.issued \in 0..MaxCalls /\ p.table.nextSeq <= p.issued
  BY <1>3, <1>6, DrawnOK DEF out
<1>8. CASE turn # Len(Order)
  <2>1. /\ turn' = turn + 1 /\ wins' = p.wins /\ table' = p.table /\ issued' = p.issued
        /\ posts' = posts
    BY <1>8, Zenon DEF Draw, p, w
  <2>2. turn' \in 0..Len(Order) /\ turn' # 0
    BY <1>1, <1>8, <2>1
  <2>3. TableServed(table', Wire(posts', inbox')) /\ inbox' \subseteq Replies
    BY <1>2, <1>6, <2>1 DEF out, RpcIInv
  <2> QED BY <1>2, <1>6, <1>7, <2>1, <2>2, <2>3 DEF RpcIInv
<1>9. CASE turn = Len(Order)
  <2> DEFINE q == EndPage(p)
             us == posts \cup Posted(p.table)
  <2>1. /\ turn' = 0 /\ wins' = q.wins /\ table' = q.table /\ issued' = q.issued
        /\ posts' = us
    BY <1>9, Zenon DEF Draw, p, w
  <2>2. p = [wins |-> p.wins, table |-> p.table, issued |-> p.issued, reported |-> p.reported]
    <3>1. CASE act = "hidden" \/ ~P.wins[w].open
      BY <1>3, <1>5, <3>1 DEF DrawWindow
    <3>2. CASE ~(act = "hidden" \/ ~P.wins[w].open)
      <4> DEFINE u == Update(P.wins[w], act)
      <4>1. p = HostWindow(P, w, act, u)
        BY <1>5, <3>2 DEF DrawWindow
      <4> HIDE DEF u
      <4> QED BY <4>1 DEF HostWindow
    <3> QED BY <3>1, <3>2
  <2>3. /\ TableServed(q.table, out \cup p.table.staged)
        /\ q.table.nextSeq = p.table.nextSeq /\ q.table.staged = {}
        /\ q.wins = p.wins /\ q.issued = p.issued
        /\ WinsOK(q.wins, q.table, p.issued)
        /\ \A x \in Windows : ~q.wins[x].open => CallsIn(q.table, x) = {}
    <3> DEFINE n == p.issued
    <3>1. n \in Nat /\ p.issued = n /\ WinsOK(p.wins, p.table, n)
      BY <1>6, <1>7
    <3> HIDE DEF n, q
    <3>2. q = EndPage(p)
      BY DEF q
    <3>3. Ended(p, out, n, q)
      BY <1>6, <2>2, <3>1, <3>2, EndOK
    <3> QED BY <3>3 DEF n, Ended
  <2> HIDE DEF q
  <2>4. /\ Wire(us, inbox) = out \cup p.table.staged
        /\ PostsOK(q.table, us) /\ VerOK(q.table, us, ver)
    <3> DEFINE t == p.table
               u == q.table
               ps == posts
               in == inbox
               v == ver
    <3>1. /\ in \in SUBSET Replies /\ TableServed(t, Wire(ps, in)) /\ PostsOK(t, ps)
          /\ VerOK(t, ps, v) /\ u.staged = {} /\ u.nextSeq = t.nextSeq
      BY <1>6, <1>7, <2>3 DEF RpcIInv, out
    <3> HIDE DEF t, u, ps, in, v
    <3>2. LET vs == ps \cup Posted(t)
          IN /\ Wire(vs, in) = Wire(ps, in) \cup t.staged
             /\ PostsOK(u, vs)
             /\ VerOK(u, vs, v)
      BY <3>1, PostOK
    <3> QED BY <3>2 DEF t, u, ps, in, v, out
  <2> HIDE DEF us
  <2>5. TableServed(table', Wire(posts', inbox')) /\ inbox' \subseteq Replies
    <3>1. inbox' = inbox
      BY <1>2
    <3> QED BY <2>1, <2>3, <2>4, <3>1 DEF RpcIInv
  <2>6. PostsOK(table', posts') /\ VerOK(table', posts', ver')
    BY <1>2, <2>1, <2>4
  <2>7. WinsOK(wins', table', issued') /\ issued' \in 0..MaxCalls /\ table'.nextSeq <= issued'
    BY <1>7, <2>1, <2>3
  <2>8. \A x \in Windows : ~wins'[x].open => CallsIn(table', x) = {}
    BY <2>1, <2>3
  <2>9. turn' \in 0..Len(Order)
    BY <1>1, <2>1
  <2> QED BY <2>5, <2>6, <2>7, <2>8, <2>9 DEF RpcIInv, CallsIn, KeysOf
<1> QED BY <1>8, <1>9

\* Every step.
LEMMA StepOK ==
  ASSUME RpcIInv, [Next]_vars
  PROVE  RpcIInv'
<1>1. CASE StartFrame
  BY <1>1, StartOK
<1>2. ASSUME NEW act \in Inputs, Draw(act) PROVE RpcIInv'
  BY <1>2, DrawStepOK
<1>3. CASE Elapse
  BY <1>3, ElapseStepOK
<1>4. ASSUME NEW p \in posts, Answer(p) PROVE RpcIInv'
  BY <1>4, AnswerOK
<1>5. ASSUME NEW p \in posts, FailPost(p) PROVE RpcIInv'
  BY <1>5, FailOK
<1>6. ASSUME NEW p \in posts, NEW o \in Following(p.todo), NEW ok \in BOOLEAN, Serve(p, o, ok)
      PROVE  RpcIInv'
  BY <1>6, ServeOK
<1>7. CASE UNCHANGED vars
  BY <1>7 DEF vars, RpcIInv, CallsIn, KeysOf, WinsOK
<1> QED BY <1>1, <1>2, <1>3, <1>4, <1>5, <1>6, <1>7 DEF Next

-----------------------------------------------------------------------------
LEMMA IInvImplies == RpcIInv => RpcInv
<1> SUFFICES ASSUME RpcIInv
             PROVE  RpcInv
  OBVIOUS
<1>1. \A w \in Windows : WinOK(w, wins[w], table, issued)
  BY DEF RpcIInv, WinsOK
<1>2. Gone.shows = Root /\ Gone.cache = EmptyCache
  BY DEF Gone, Fresh
<1>3. /\ DOMAIN EmptyCache.entries = {} /\ DOMAIN EmptyCache.byCall = {}
      /\ DOMAIN EmptyCache.commands = {}
  BY DEF EmptyCache
<1>4. TypeOK
  <2>1. \A w \in Windows : wins[w].shows \in Dirs /\ wins[w].open \in BOOLEAN
    BY <1>1, <1>2, SystemAssumption DEF WinOK, OpenOK
  <2>2. TableType(table)
    BY DEF RpcIInv, TableServed, TableOK
  <2>3. ver \in [Dirs -> 0..MaxCalls]
    <3> DEFINE k == Cardinality(Unserved(table, posts))
               n == table.nextSeq
    <3>1. n \in Nat /\ k \in Nat
      BY UnservedBound DEF RpcIInv
    <3>2. ver \in [Dirs -> Nat] /\ \A d \in Dirs : ver[d] + k <= n
      BY DEF RpcIInv, VerOK
    <3>3. issued \in Nat /\ n <= issued /\ issued <= MaxCalls /\ MaxCalls \in Nat
      BY PolicyAssumption DEF RpcIInv
    <3> HIDE DEF k, n
    <3>4. \A d \in Dirs : ver[d] \in 0..MaxCalls
      BY <3>1, <3>2, <3>3
    <3> QED BY <3>2, <3>4
  <2> QED BY <2>1, <2>2, <2>3 DEF TypeOK, RpcIInv
<1>5. CallsAccounted
  <2> SUFFICES ASSUME turn = 0, NEW w \in Windows
               PROVE  IF wins[w].open
                      THEN /\ Awaited(wins[w].cache) = CallsOf(w) \cup EventsOf(w)
                           /\ CallsOf(w) \cap EventsOf(w) = {}
                      ELSE CallsOf(w) = {}
    BY DEF CallsAccounted
  <2>1. CallsOf(w) = CallsIn(table, w) /\ EventsOf(w) = CallsFor(wins[w])
    BY DEF CallsOf, CallsIn, EventsOf, CallsFor
  <2>2. CASE wins[w].open
    BY <1>1, <2>1, <2>2 DEF WinOK, OpenOK
  <2>3. CASE ~wins[w].open
    BY <2>1, <2>3 DEF RpcIInv
  <2> QED BY <2>2, <2>3
<1>6. CachesConsistent
  <2> SUFFICES ASSUME NEW w \in Windows
               PROVE  CacheConsistent(wins[w].cache)
    BY DEF CachesConsistent
  <2>1. CASE wins[w].open
    <3>1. Indexed(wins[w].cache) /\ UsedLately(wins[w].cache)
      BY <1>1, <2>1 DEF WinOK, OpenOK, CacheOK
    <3> QED BY <3>1 DEF CacheConsistent, Indexed, UsedLately
  <2>2. CASE ~wins[w].open
    <3>1. wins[w].cache = EmptyCache
      BY <1>1, <1>2, <2>2 DEF WinOK
    <3> QED BY <1>3, <3>1 DEF CacheConsistent
  <2> QED BY <2>1, <2>2
<1>7. CachedAnswersOwn
  <2> SUFFICES ASSUME NEW w \in Windows, NEW q \in DOMAIN wins[w].cache.entries,
                      wins[w].cache.entries[q].slot.st = "ready"
               PROVE  wins[w].cache.entries[q].slot.req = q
    BY DEF CachedAnswersOwn
  <2>1. wins[w].open
    BY <1>1, <1>2, <1>3 DEF WinOK
  <2>2. Own(wins[w].cache)
    BY <1>1, <2>1 DEF WinOK, OpenOK, CacheOK
  <2> QED BY <2>2 DEF Own
<1> QED BY <1>4, <1>5, <1>6, <1>7 DEF RpcInv

\* The inductive invariant of a call's whole way.
THEOREM RpcInvariant == Spec => []RpcIInv
BY InitOK, StepOK, PTL DEF Spec

\* Between frames the calls an open window waits on are those in the table and
\* those answered in its queue, each in one place; every reply can find its cache
\* entry, and only that one; and what is cached for a query answers that query.
THEOREM RpcInvHolds == Spec => []RpcInv
BY RpcInvariant, IInvImplies, PTL

-----------------------------------------------------------------------------
\* Each deletion reported was one call: what it takes beside the above.

\* The requests that delete.
Removals == {Rm(d) : d \in Dirs}

\* What window win may be told of its command id.
Fits(win, id, r) ==
  r \in Removals /\ (win.deleting.call = id => r = Rm(win.deleting.dir))

\* A command is a deletion, from the call to its result; the one the window
\* watches is in the folder it notes.
CommandsOK(w, win, t) ==
  /\ win.deleting.call \in 0..win.cache.nextId
  /\ \A id \in DOMAIN win.cache.commands :
       /\ <<w, id>> \in Live(t) => Fits(win, id, t.entries[<<w, id>>].req)
       /\ \A e \in win.queue : e.ok /\ e.call = id => Fits(win, id, e.req)
       /\ win.cache.commands[id].st = "ready" => Fits(win, id, win.cache.commands[id].req)

\* A reply that reports a deletion, and two that report the same one.
Deletes(r) == r.ok /\ r.req.op = "remove"
Alike(r, s) == r.req.dir = s.req.dir /\ r.val = s.val

\* No two replies on their way report one deletion.
RepliesOK(ps, in, v) ==
  LET heard == {p \in ps : p.heard}
  IN /\ \A r \in in \cup UNION {p.done : p \in heard} : Deletes(r) => r.val <= v[r.req.dir]
     /\ \A r, s \in in : Deletes(r) /\ Deletes(s) /\ Alike(r, s) => r = s
     /\ \A p, q \in heard : \A r \in p.done, s \in q.done :
          Deletes(r) /\ Deletes(s) /\ Alike(r, s) => r = s /\ p = q
     /\ \A p \in heard : \A r \in p.done, s \in in : Deletes(r) /\ Deletes(s) => ~Alike(r, s)

\* Nor does one on its way report what a window was told of already.
ToldApart(T, S) ==
  \A x \in T, r \in S : Deletes(r) => ~(x.dir = r.req.dir /\ x.val = r.val)
ToldOK(T, ps, in, v) ==
  /\ \A x \in T : x.dir \in Dirs /\ x.val \in Nat /\ x.val <= v[x.dir]
  /\ \A x, y \in T : x.dir = y.dir /\ x.val = y.val => x = y
  /\ ToldApart(T, in) /\ \A p \in ps : p.heard => ToldApart(T, p.done)

\* What a window has been told is done and has not reported: T as a set.
Token(w, id, r) == [win |-> w, call |-> id, dir |-> r.req.dir, val |-> r.val]
ToldTo(w, win, x) ==
  \/ \E e \in win.queue : Deletes(e) /\ x = Token(w, e.call, e)
  \/ \E id \in DOMAIN win.cache.commands :
       win.cache.commands[id].st = "ready" /\ x = Token(w, id, win.cache.commands[id])

\* Beside RpcIInv, inductive.
DeletionsInv ==
  /\ \A w \in Windows : wins[w].open => CommandsOK(w, wins[w], table)
  /\ RepliesOK(posts, inbox, ver)
  /\ ToldOK(Told, posts, inbox, ver)

\* What the windows ws have been told, rep being reported.
ToldBy(ws, rep, y) == y \in rep \/ \E w \in Windows : ToldTo(w, ws[w], y)

\* Told, of any windows.
HeardOf(w, win) ==
  {[win |-> w, call |-> e.call, dir |-> e.req.dir, val |-> e.val] :
   e \in {x \in win.queue : x.ok /\ x.req.op = "remove"}}
KeptBy(w, win) ==
  LET c == win.cache.commands
  IN {[win |-> w, call |-> id, dir |-> c[id].req.dir, val |-> c[id].val] :
      id \in {i \in DOMAIN c : c[i].st = "ready"}}
ToldOf(ws, rep) ==
  rep \cup (UNION {HeardOf(w, ws[w]) : w \in Windows})
      \cup (UNION {KeptBy(w, ws[w]) : w \in Windows})

\* Member by member.
LEMMA ToldOfIs ==
  ASSUME NEW ws, NEW rep
  PROVE  \A x : x \in ToldOf(ws, rep) <=> ToldBy(ws, rep, x)
<1>1. \A w, x : x \in HeardOf(w, ws[w]) <=>
               \E e \in ws[w].queue : Deletes(e) /\ x = Token(w, e.call, e)
  BY DEF Deletes, Token, HeardOf
<1>2. \A w, x : x \in KeptBy(w, ws[w]) <=>
        \E id \in DOMAIN ws[w].cache.commands :
          ws[w].cache.commands[id].st = "ready" /\ x = Token(w, id, ws[w].cache.commands[id])
  BY DEF Token, KeptBy
<1>3. \A w, x : ToldTo(w, ws[w], x) <=> x \in HeardOf(w, ws[w]) \/ x \in KeptBy(w, ws[w])
  BY <1>1, <1>2 DEF ToldTo
<1> DEFINE A == UNION {HeardOf(w, ws[w]) : w \in Windows}
           B == UNION {KeptBy(w, ws[w]) : w \in Windows}
<1>4. \A x : x \in A <=> \E w \in Windows : x \in HeardOf(w, ws[w])
  OBVIOUS
<1>5. \A x : x \in B <=> \E w \in Windows : x \in KeptBy(w, ws[w])
  OBVIOUS
<1>6. ToldOf(ws, rep) = rep \cup A \cup B
  BY DEF ToldOf
<1> HIDE DEF A, B
<1>7. \A x : x \in ToldOf(ws, rep) <=> x \in rep \/ x \in A \/ x \in B
  BY <1>6
<1>8. \A x : x \in A \/ x \in B <=> \E w \in Windows : ToldTo(w, ws[w], x)
  BY <1>3, <1>4, <1>5
<1> QED BY <1>7, <1>8 DEF ToldBy

LEMMA ToldAs ==
  /\ \A x : x \in Told <=> ToldBy(wins, reported, x)
  /\ \A x : x \in Told' <=> ToldBy(wins', reported', x)
<1>1. Told = ToldOf(wins, reported)
  BY Zenon DEF Told, ToldOf, HeardOf, KeptBy
<1>2. Told' = ToldOf(wins', reported')
  BY Zenon DEF Told, ToldOf, HeardOf, KeptBy
<1>3. \A x : x \in ToldOf(wins', reported') <=> ToldBy(wins', reported', x)
  BY ToldOfIs
<1> QED BY <1>1, <1>2, <1>3, ToldOfIs

\* The server and the network tell nobody anything.
LEMMA NetworkTold ==
  ASSUME DeletionsInv, UNCHANGED <<wins, table, reported>>,
         RepliesOK(posts', inbox', ver'), ToldOK(Told, posts', inbox', ver')
  PROVE  DeletionsInv'
<1>1. Told' = Told
  BY DEF Told
<1>2. \A w \in Windows : wins'[w].open => CommandsOK(w, wins'[w], table')
  BY DEF DeletionsInv
<1> QED BY <1>1, <1>2 DEF DeletionsInv

LEMMA AnswerTold ==
  ASSUME RpcIInv, DeletionsInv, NEW p \in posts, Answer(p)
  PROVE  DeletionsInv'
<1>1. /\ p.heard /\ inbox' = inbox \cup p.done /\ posts' = posts \ {p}
      /\ UNCHANGED <<wins, table, reported, ver>>
  BY DEF Answer
<1>2. RepliesOK(posts', inbox', ver')
  BY <1>1 DEF DeletionsInv, RepliesOK, Alike
<1>3. ToldOK(Told, posts', inbox', ver')
  BY <1>1 DEF DeletionsInv, ToldOK, ToldApart
<1> QED BY <1>1, <1>2, <1>3, NetworkTold

LEMMA FailTold ==
  ASSUME RpcIInv, DeletionsInv, NEW p \in posts, FailPost(p)
  PROVE  DeletionsInv'
<1> DEFINE failed == {Reply(o, FALSE, 0) : o \in p.todo \cup p.done}
           new == [todo |-> p.todo, done |-> {}, heard |-> FALSE]
<1>1. /\ inbox' = inbox \cup failed
      /\ posts' = (posts \ {p}) \cup (IF p.todo = {} THEN {} ELSE {new})
      /\ UNCHANGED <<wins, table, reported, ver>>
  BY DEF FailPost
<1>2. \A r \in failed : ~Deletes(r)
  BY DEF Reply, Deletes
<1>3. \A q \in posts' : q.heard => q \in posts
  BY <1>1
<1> HIDE DEF failed, new
<1>4. \A r \in inbox' : Deletes(r) => r \in inbox
  BY <1>1, <1>2
<1>5. RepliesOK(posts', inbox', ver')
  BY <1>1, <1>3, <1>4 DEF DeletionsInv, RepliesOK
<1>6. ToldOK(Told, posts', inbox', ver')
  BY <1>1, <1>3, <1>4 DEF DeletionsInv, ToldOK, ToldApart
<1> QED BY <1>1, <1>5, <1>6, NetworkTold

\* A deletion served is one more than any reported.
LEMMA ServeTold ==
  ASSUME RpcIInv, DeletionsInv, NEW p \in posts, NEW o \in Following(p.todo),
         NEW ok \in BOOLEAN, Serve(p, o, ok)
  PROVE  DeletionsInv'
<1> DEFINE d == o.req.dir
           rm == ok /\ o.req.op = "remove"
           now == IF rm THEN ver[d] + 1 ELSE ver[d]
           r == Reply(o, ok, now)
           left == p.todo \ {o}
           new == [todo |-> left, heard |-> p.heard, done |-> p.done \cup {r}]
           after == IF left = {} /\ ~p.heard THEN {} ELSE {new}
           H == {q \in posts : q.heard}
           H1 == {q \in posts' : q.heard}
<1>1. /\ ver' = [ver EXCEPT ![d] = now] /\ posts' = (posts \ {p}) \cup after
      /\ UNCHANGED <<wins, table, reported, inbox>>
  BY DEF Serve
<1>2. o \in Outgoing /\ \A q \in posts : q.done \subseteq Replies
  BY DEF RpcIInv, PostsOK, Following
<1>3. d \in Dirs /\ \A x \in Requests : x.dir \in Dirs
  <2>1. \A e \in Dirs : List(e).dir = e /\ Rm(e).dir = e
    BY DEF List, Rm
  <2> QED BY <1>2, <2>1, SystemAssumption DEF Outgoing
<1>4. ver \in [Dirs -> Nat]
  BY DEF RpcIInv, VerOK
<1>5. /\ \A e \in Dirs : ver'[e] \in Nat /\ ver[e] <= ver'[e]
      /\ rm => ver'[d] = now /\ now = ver[d] + 1
  BY <1>1, <1>3, <1>4
<1> HIDE DEF now
<1>6. r.req = o.req /\ r.val = now /\ (Deletes(r) <=> rm)
  BY DEF Reply, Deletes
<1>7. new.done = p.done \cup {r} /\ new.heard = p.heard
  OBVIOUS
<1>8. \A q \in H1 : q \in H \ {p} \/ (q = new /\ p \in H)
  <2>1. \A q \in after : q = new
    OBVIOUS
  <2> HIDE DEF new, after
  <2> QED BY <1>1, <1>7, <2>1
<1> HIDE DEF r, new, after, left, d, rm
<1>9. /\ \A q \in H : \A s \in q.done : Deletes(s) => s.val <= ver[s.req.dir]
      /\ \A s \in inbox : Deletes(s) => s.val <= ver[s.req.dir]
  BY DEF DeletionsInv, RepliesOK
<1>10. /\ \A q \in posts : \A s \in q.done : s.req.dir \in Dirs /\ s.val \in Nat
       /\ \A s \in inbox : s.req.dir \in Dirs /\ s.val \in Nat
  BY <1>2, <1>3 DEF RpcIInv, Replies
<1>11. \A s : Deletes(r) /\ s.req.dir \in Dirs /\ s.val \in Nat /\ s.val <= ver[s.req.dir]
               => ~Alike(r, s) /\ ~Alike(s, r)
  BY <1>3, <1>4, <1>5, <1>6 DEF Alike, d
<1>12. RepliesOK(posts', inbox', ver')
  <2>1. \A q \in H1 : \A s \in q.done : Deletes(s) => s.val <= ver'[s.req.dir]
    <3> SUFFICES ASSUME NEW q \in H1, NEW s \in q.done, Deletes(s)
                 PROVE  s.val <= ver'[s.req.dir]
      OBVIOUS
    <3>1. CASE s = r
      BY <1>3, <1>4, <1>5, <1>6, <3>1 DEF d
    <3>2. CASE s # r
      <4>1. PICK q0 \in H : s \in q0.done
        BY <1>7, <1>8, <3>2
      <4>2. s.val <= ver[s.req.dir] /\ s.req.dir \in Dirs /\ s.val \in Nat
        BY <1>9, <1>10, <4>1
      <4> QED BY <1>4, <1>5, <4>2
    <3> QED BY <3>1, <3>2
  <2>2. \A s \in inbox : Deletes(s) => s.val <= ver'[s.req.dir]
    BY <1>4, <1>5, <1>9, <1>10
  <2>3. \A q1, q2 \in H : \A x \in q1.done, y \in q2.done :
          Deletes(x) /\ Deletes(y) /\ Alike(x, y) => x = y /\ q1 = q2
    BY DEF DeletionsInv, RepliesOK
  <2>4. \A q1, q2 \in H1 : \A x \in q1.done, y \in q2.done :
          Deletes(x) /\ Deletes(y) /\ Alike(x, y) => x = y /\ q1 = q2
    <3> SUFFICES ASSUME NEW q1 \in H1, NEW q2 \in H1, NEW x \in q1.done, NEW y \in q2.done,
                        Deletes(x), Deletes(y), Alike(x, y)
                 PROVE  x = y /\ q1 = q2
      OBVIOUS
    <3> DEFINE p1 == IF q1 = new THEN p ELSE q1
               p2 == IF q2 = new THEN p ELSE q2
    <3>1. /\ p1 \in H /\ (x \in p1.done \/ (x = r /\ q1 = new))
          /\ p2 \in H /\ (y \in p2.done \/ (y = r /\ q2 = new))
      <4>1. \A q \in H1 : q = new => p \in H
        BY <1>7
      <4>2. \A q \in H1 : q # new => q \in H
        BY <1>8
      <4> QED BY <1>7, <4>1, <4>2
    <3>2. CASE x = r /\ q1 = new /\ x \notin p1.done
      <4>1. y \notin p2.done
        BY <1>9, <1>10, <1>11, <3>1, <3>2
      <4> QED BY <3>1, <3>2, <4>1
    <3>3. CASE y = r /\ q2 = new /\ y \notin p2.done
      <4>1. x \notin p1.done
        BY <1>9, <1>10, <1>11, <3>1, <3>3
      <4> QED BY <3>1, <3>3, <4>1
    <3>4. CASE x \in p1.done /\ y \in p2.done
      <4>1. x = y /\ p1 = p2
        BY <2>3, <3>1, <3>4
      <4>2. q1 # new => q1 \in H \ {p}
        BY <1>8
      <4>3. q2 # new => q2 \in H \ {p}
        BY <1>8
      <4> QED BY <4>1, <4>2, <4>3
    <3> QED BY <3>1, <3>2, <3>3, <3>4
  <2>5. \A q \in H1 : \A x \in q.done, y \in inbox : Deletes(x) /\ Deletes(y) => ~Alike(x, y)
    <3> SUFFICES ASSUME NEW q \in H1, NEW x \in q.done, NEW y \in inbox, Deletes(x), Deletes(y)
                 PROVE  ~Alike(x, y)
      OBVIOUS
    <3>1. CASE x = r
      BY <1>9, <1>10, <1>11, <3>1
    <3>2. CASE x # r
      <4>1. PICK q0 \in H : x \in q0.done
        BY <1>7, <1>8, <3>2
      <4> QED BY <4>1 DEF DeletionsInv, RepliesOK
    <3> QED BY <3>1, <3>2
  <2>6. \A x, y \in inbox : Deletes(x) /\ Deletes(y) /\ Alike(x, y) => x = y
    BY DEF DeletionsInv, RepliesOK
  <2> QED BY <1>1, <2>1, <2>2, <2>4, <2>5, <2>6 DEF RepliesOK
<1>13. ToldOK(Told, posts', inbox', ver')
  <2>1. \A x \in Told : x.dir \in Dirs /\ x.val \in Nat /\ x.val <= ver[x.dir]
    BY DEF DeletionsInv, ToldOK
  <2>2. \A x \in Told : x.dir \in Dirs /\ x.val \in Nat /\ x.val <= ver'[x.dir]
    BY <1>4, <1>5, <2>1
  <2>3. \A q \in posts' : q.heard => ToldApart(Told, q.done)
    <3> SUFFICES ASSUME NEW q \in H1, NEW x \in Told, NEW s \in q.done, Deletes(s)
                 PROVE  ~(x.dir = s.req.dir /\ x.val = s.val)
      BY DEF ToldApart
    <3>1. CASE s = r
      BY <1>3, <1>4, <1>5, <1>6, <2>1, <3>1 DEF d
    <3>2. CASE s # r
      <4>1. PICK q0 \in H : s \in q0.done
        BY <1>7, <1>8, <3>2
      <4> QED BY <4>1 DEF DeletionsInv, ToldOK, ToldApart
    <3> QED BY <3>1, <3>2
  <2> QED BY <1>1, <2>2, <2>3 DEF DeletionsInv, ToldOK
<1> QED BY <1>1, <1>12, <1>13, NetworkTold

LEMMA ElapseTold ==
  ASSUME RpcIInv, DeletionsInv, Elapse
  PROVE  DeletionsInv'
<1> DEFINE u == ElapseIn(table)
<1>1. table' = u /\ UNCHANGED <<wins, reported, posts, inbox, ver>>
  BY DEF Elapse
<1>2. Live(u) = Live(table) /\ \A k \in Live(u) : u.entries[k].req = table.entries[k].req
  BY DEF ElapseIn, Live, Sooner
<1> HIDE DEF u
<1>3. \A w \in Windows : wins[w].open => CommandsOK(w, wins[w], u)
  BY <1>2 DEF DeletionsInv, CommandsOK
<1>4. Told' = Told
  BY <1>1 DEF Told
<1> QED BY <1>1, <1>3, <1>4 DEF DeletionsInv

\* Events settle commands, and neither add one nor drop one.
LEMMA DeliverDomain ==
  ASSUME NEW c, CacheType(c), NEW E
  PROVE  DOMAIN Deliver(c, E).commands = DOMAIN c.commands
<1>1. CASE E = {}
  BY <1>1 DEF Deliver
<1>2. CASE E # {}
  <2> DEFINE u == Deliver(c, E)
  <2>1. u = [entries |-> EntriesAfter(c, E), byCall |-> IndexAfter(c, E),
             commands |-> CommandsAfter(c, E), outbox |-> c.outbox, cancels |-> c.cancels,
             nextId |-> c.nextId]
    BY <1>2, DeliverIs
  <2> HIDE DEF u
  <2>2. DOMAIN u.commands = DOMAIN c.commands
    BY <2>1 DEF CommandsAfter
  <2> QED BY <2>2 DEF u
<1> QED BY <1>1, <1>2

\* The commands an app finds once its events are delivered.
LEMMA DeliverCommands ==
  ASSUME NEW c, CacheOK(c), NEW E \in SUBSET Events,
         NEW id \in DOMAIN Deliver(c, E).commands, NEW d, d = Deliver(c, E).commands[id],
         d.st = "ready"
  PROVE  /\ id \in DOMAIN c.commands
         /\ \/ d = c.commands[id]
            \/ \E e \in E : e.call = id /\ e.ok /\ d.req = e.req /\ d.val = e.val
<1>1. CASE E = {}
  BY <1>1 DEF Deliver
<1>2. CASE E # {}
  <2> DEFINE u == Deliver(c, E)
  <2>1. u = [entries |-> EntriesAfter(c, E), byCall |-> IndexAfter(c, E),
             commands |-> CommandsAfter(c, E), outbox |-> c.outbox, cancels |-> c.cancels,
             nextId |-> c.nextId]
    BY <1>2, DeliverIs DEF CacheOK
  <2>2. id \in DOMAIN u.commands /\ d = u.commands[id]
    OBVIOUS
  <2> HIDE DEF u
  <2>3. id \in DOMAIN c.commands /\ d = After(E, c.commands[id])
    BY <2>1, <2>2 DEF CommandsAfter
  <2> DEFINE slot == c.commands[id]
  <2>4. slot \in Slots /\ (IsInFlight(slot) => slot.call = id)
    BY <2>3 DEF CacheOK, CacheType, Indexed
  <2> HIDE DEF slot
  <2>5. d = After(E, slot)
    BY <2>3 DEF slot
  <2>6. CASE IsInFlight(slot) /\ Heard(E, slot.call)
    BY <2>3, <2>4, <2>5, <2>6, AfterIs
  <2>7. CASE ~(IsInFlight(slot) /\ Heard(E, slot.call))
    BY <2>3, <2>4, <2>5, <2>7, AfterIs DEF slot
  <2> QED BY <2>6, <2>7
<1> QED BY <1>1, <1>2

LEMMA RemovalsDelete == \A r \in Removals : r.op = "remove" /\ r.dir \in Dirs
BY DEF Removals, Rm

\* Of those, a result was told of before.
LEMMA Collected ==
  ASSUME NEW w, NEW win, NEW t, CacheOK(win.cache), win.queue \in SUBSET Events,
         CommandsOK(w, win, t),
         NEW id \in DOMAIN Deliver(win.cache, win.queue).commands,
         NEW d, d = Deliver(win.cache, win.queue).commands[id], d.st = "ready"
  PROVE  /\ Fits(win, id, d.req)
         /\ ToldTo(w, win, Token(w, id, d))
<1> DEFINE c == win.cache
           E == win.queue
<1>1. /\ id \in DOMAIN c.commands
      /\ \/ d = c.commands[id]
         \/ \E e \in E : e.call = id /\ e.ok /\ d.req = e.req /\ d.val = e.val
  <2>1. /\ CacheOK(c) /\ E \in SUBSET Events /\ id \in DOMAIN Deliver(c, E).commands
        /\ d = Deliver(c, E).commands[id]
    OBVIOUS
  <2> HIDE DEF c, E
  <2> QED BY <2>1, DeliverCommands
<1>2. CASE d = c.commands[id]
  BY <1>1, <1>2 DEF CommandsOK, ToldTo
<1>3. CASE \E e \in E : e.call = id /\ e.ok /\ d.req = e.req /\ d.val = e.val
  <2>1. PICK e \in E : e.call = id /\ e.ok /\ d.req = e.req /\ d.val = e.val
    BY <1>3
  <2>2. Fits(win, id, e.req)
    BY <1>1, <2>1 DEF CommandsOK
  <2>3. Deletes(e)
    BY <2>1, <2>2, RemovalsDelete DEF Fits, Deletes
  <2>4. Token(w, id, d) = Token(w, e.call, e)
    BY <2>1 DEF Token
  <2> QED BY <2>1, <2>2, <2>3, <2>4 DEF ToldTo
<1> QED BY <1>1, <1>2, <1>3

\* The commands of every open window.
AllCommandsOK(ws, t) == \A w \in Windows : ws[w].open => CommandsOK(w, ws[w], t)

\* No more is told in page q than in page p.
NoneTold(p, q) == \A y : ToldBy(q.wins, q.reported, y) => ToldBy(p.wins, p.reported, y)

LEMMA GoneTold == \A w, y : ~ToldTo(w, Gone, y)
<1>1. Gone.queue = {} /\ Gone.cache = EmptyCache
  BY DEF Gone, Fresh
<1>2. DOMAIN EmptyCache.commands = {}
  BY DEF EmptyCache
<1> QED BY <1>1, <1>2 DEF ToldTo

\* Window w's part of a frame: what it was told of it reports or keeps.
LEMMA HostTold ==
  ASSUME NEW p, NEW out \in SUBSET Outgoing, TableServed(p.table, out), p.issued \in Nat,
         WinsOK(p.wins, p.table, p.issued), AllCommandsOK(p.wins, p.table),
         NEW w \in Windows, p.wins[w].open, NEW input \in Inputs,
         NEW u, u = Update(p.wins[w], input),
         NEW q, q = HostWindow(p, w, input, u), q.issued <= MaxCalls
  PROVE  /\ AllCommandsOK(q.wins, q.table)
         /\ NoneTold(p, q)
<1> DEFINE win == p.wins[w]
           t == p.table
           b == q.table
           m == win.cache.nextId
           c == u.cache
           del == win.deleting
           D == Deliver(win.cache, win.queue).commands
           X == CallsIn(t, w)
           R == [id \in X |-> t.entries[<<w, id>>].req]
           new == IF input = "close" THEN Gone
                  ELSE [cache |-> Flushed(c), shows |-> u.shows, listed |-> u.listed,
                        deleting |-> u.deleting, open |-> TRUE, queue |-> {}]
           told == [win |-> w, call |-> del.call, dir |-> del.dir,
                    val |-> u.begun.commands[del.call].val]
<1>1. /\ q.wins = [p.wins EXCEPT ![w] = new]
      /\ \A y \in q.reported : \/ y \in p.reported
                               \/ /\ Finished(u.begun, del.call)
                                  /\ u.begun.commands[del.call].st = "ready"
                                  /\ y = told
  BY DEF HostWindow
<1>2. WinOK(w, win, t, p.issued) /\ OpenOK(w, win, t, p.issued)
  BY DEF WinsOK, WinOK
<1>3. /\ m \in Nat /\ TableType(t) /\ CacheOK(win.cache) /\ win.queue \in SUBSET Events
      /\ CommandsOK(w, win, t)
  BY <1>2 DEF OpenOK, CacheOK, CacheType, TableServed, TableOK, AllCommandsOK
<1>4. /\ Within(c, m, X, R) /\ Len(c.outbox) \in {0, 1, 2} /\ Sent(win, m, u)
  <2>1. u = Update(win, input) /\ X = CallsIn(t, w) /\ R = [id \in X |-> t.entries[<<w, id>>].req]
    OBVIOUS
  <2> HIDE DEF win, X, R, t
  <2> QED BY <1>2, <2>1, UpdateIn DEF m
<1>5. X \subseteq 1..m /\ DOMAIN win.cache.commands \subseteq 1..m
  <2>1. /\ Awaited(win.cache) \subseteq 1..m
        /\ DOMAIN win.cache.commands \subseteq 1..m
    BY <1>2 DEF OpenOK, CacheOK, CacheType, Awaited
  <2> QED BY <1>2, <2>1 DEF OpenOK
<1>6. Taken(w, m, c.outbox, t, b)
  BY HostOK
<1>7. u.begun.commands = D
  BY <1>4 DEF Sent
<1>8. \A id \in DOMAIN D : D[id].st = "ready" =>
        Fits(win, id, D[id].req) /\ ToldTo(w, win, Token(w, id, D[id]))
  <2> SUFFICES ASSUME NEW id \in DOMAIN D, D[id].st = "ready"
               PROVE  Fits(win, id, D[id].req) /\ ToldTo(w, win, Token(w, id, D[id]))
    OBVIOUS
  <2> DEFINE d == D[id]
  <2>1. id \in DOMAIN Deliver(win.cache, win.queue).commands
        /\ d = Deliver(win.cache, win.queue).commands[id] /\ d.st = "ready"
    OBVIOUS
  <2> HIDE DEF d, D, win, t
  <2>2. Fits(win, id, d.req) /\ ToldTo(w, win, Token(w, id, d))
    BY <1>3, <2>1, Collected
  <2> QED BY <2>2 DEF d
<1>9. DOMAIN D = DOMAIN win.cache.commands
  BY <1>3, DeliverDomain DEF CacheOK
<1> HIDE DEF D, X, R, told
<1>10. \A id \in DOMAIN c.commands :
          \/ /\ id = m + 1 /\ IsInFlight(c.commands[id])
             /\ u.deleting.call = id /\ u.deleting.dir \in Dirs
             /\ Len(c.outbox) >= 1 /\ c.outbox[1].req = Rm(u.deleting.dir)
          \/ id \in DOMAIN D /\ c.commands[id] = D[id]
  BY <1>4, <1>7 DEF Sent, Keeps
<1> DEFINE f == Flushed(c)
<1>11. f.commands = c.commands /\ f.nextId = m + Len(c.outbox)
  <2>1. f = [entries |-> c.entries, byCall |-> c.byCall, commands |-> c.commands,
             outbox |-> <<>>, cancels |-> {}, nextId |-> c.nextId]
    BY <1>4, FlushedIs DEF Within, CacheOK
  <2> HIDE DEF f
  <2> QED BY <1>4, <2>1 DEF Within
<1> HIDE DEF f
<1>12. input # "close" =>
         /\ new.cache.commands = c.commands /\ new.cache.nextId = m + Len(c.outbox)
         /\ new.deleting = u.deleting /\ new.queue = {}
  <2> SUFFICES ASSUME input # "close"
               PROVE  /\ new.cache.commands = c.commands
                      /\ new.cache.nextId = m + Len(c.outbox)
                      /\ new.deleting = u.deleting /\ new.queue = {}
    OBVIOUS
  <2>1. new = [cache |-> f, shows |-> u.shows, listed |-> u.listed,
               deleting |-> u.deleting, open |-> TRUE, queue |-> {}]
    BY DEF f
  <2> HIDE DEF new
  <2>2. new.cache = f /\ new.deleting = u.deleting /\ new.queue = {}
    BY <2>1
  <2> QED BY <1>11, <2>2
<1>13. input = "close" => new = Gone
  OBVIOUS
<1> HIDE DEF new, win, t, b, m, c, del
<1>14. \A y : ToldTo(w, new, y) => ToldTo(w, win, y)
  <2>1. CASE input = "close"
    BY <1>13, <2>1, GoneTold
  <2>2. CASE input # "close"
    <3> SUFFICES ASSUME NEW y, ToldTo(w, new, y)
                 PROVE  ToldTo(w, win, y)
      OBVIOUS
    <3>1. PICK id \in DOMAIN c.commands :
            c.commands[id].st = "ready" /\ y = Token(w, id, c.commands[id])
      BY <1>12, <2>2 DEF ToldTo
    <3>2. id \in DOMAIN D /\ c.commands[id] = D[id]
      BY <1>10, <3>1 DEF IsInFlight
    <3> QED BY <1>8, <3>1, <3>2
  <2> QED BY <2>1, <2>2
<1>15. new.open => CommandsOK(w, new, b)
  <2>1. CASE input = "close"
    <3>1. ~Gone.open
      <4> DEFINE g == Fresh
                 y == FALSE
      <4>1. Gone = [g EXCEPT !.open = y] /\ g = [cache |-> EmptyCache, shows |-> Root,
                      listed |-> FALSE, deleting |-> NoCall, open |-> TRUE, queue |-> {}]
        BY DEF Gone, Fresh
      <4> HIDE DEF g, y
      <4>2. Gone.open = y
        BY <4>1
      <4> QED BY <4>2 DEF y
    <3> QED BY <1>13, <2>1, <3>1
  <2>2. CASE input # "close"
    <3> DEFINE l == Len(c.outbox)
    <3>1. l \in Nat
      BY <1>4
    <3>2. u.deleting.call \in 0..(m + l)
      <4>1. CASE u.deleting \in {NoCall, win.deleting}
        <5>1. win.deleting.call \in 0..m
          BY <1>3 DEF CommandsOK, m
        <5>2. NoCall.call = 0
          BY DEF NoCall
        <5>3. u.deleting.call \in 0..m
          BY <1>3, <4>1, <5>1, <5>2
        <5> HIDE DEF l
        <5> QED BY <1>3, <3>1, <5>3
      <4>2. CASE u.deleting.call = m + 1 /\ l >= 1
        <5> HIDE DEF l
        <5> QED BY <1>3, <3>1, <4>2
      <4>3. u.deleting \in {NoCall, win.deleting} \/ (u.deleting.call = m + 1 /\ l >= 1)
        BY <1>4 DEF Sent, c
      <4> HIDE DEF l
      <4> QED BY <4>1, <4>2, <4>3
    <3>3. \A id \in DOMAIN D : id \in 1..m
      BY <1>5, <1>9
    <3>4. \A id \in DOMAIN D : \A r : Fits(win, id, r) => Fits(new, id, r)
      <4> SUFFICES ASSUME NEW id \in DOMAIN D, NEW r, Fits(win, id, r)
                   PROVE  Fits(new, id, r)
        OBVIOUS
      <4>1. CASE u.deleting = win.deleting
        BY <1>12, <2>2, <4>1 DEF Fits
      <4>2. CASE u.deleting = NoCall
        <5>1. NoCall.call # id
          BY <1>3, <3>3 DEF NoCall
        <5> QED BY <1>12, <2>2, <4>2, <5>1 DEF Fits
      <4>3. CASE u.deleting.call = m + 1
        <5>1. u.deleting.call # id
          BY <1>3, <3>3, <4>3
        <5> QED BY <1>12, <2>2, <5>1 DEF Fits
      <4> QED BY <1>4, <4>1, <4>2, <4>3 DEF Sent
    <3>5. ASSUME NEW id \in DOMAIN c.commands
          PROVE  /\ <<w, id>> \in Live(b) => Fits(new, id, b.entries[<<w, id>>].req)
                 /\ c.commands[id].st = "ready" => Fits(new, id, c.commands[id].req)
      <4>1. CASE id \in DOMAIN D /\ c.commands[id] = D[id]
        <5>1. id \in 1..m
          BY <3>3, <4>1
        <5>2. c.commands[id].st = "ready" => Fits(new, id, c.commands[id].req)
          BY <1>8, <3>4, <4>1
        <5>3. ASSUME <<w, id>> \in Live(b) PROVE Fits(new, id, b.entries[<<w, id>>].req)
          <6>1. \A i \in 1..l : id # m + i
            BY <1>3, <3>1, <5>1
          <6>2. <<w, id>> \in Live(t) /\ b.entries[<<w, id>>] = t.entries[<<w, id>>]
            BY <1>6, <5>3, <6>1 DEF Taken
          <6>3. Fits(win, id, t.entries[<<w, id>>].req)
            BY <1>3, <1>9, <4>1, <6>2 DEF CommandsOK
          <6> QED BY <3>4, <4>1, <6>2, <6>3
        <5> QED BY <5>2, <5>3
      <4>2. CASE /\ id = m + 1 /\ IsInFlight(c.commands[id])
                 /\ u.deleting.call = id /\ u.deleting.dir \in Dirs
                 /\ l >= 1 /\ c.outbox[1].req = Rm(u.deleting.dir)
        <5>1. c.commands[id].st # "ready"
          BY <4>2 DEF IsInFlight
        <5>2. ASSUME <<w, id>> \in Live(b) PROVE Fits(new, id, b.entries[<<w, id>>].req)
          <6>1. <<w, id>> \notin Live(t)
            <7>1. id \notin X
              BY <1>3, <1>5, <4>2
            <7> QED BY <1>3, <7>1, CallsInIs DEF X
          <6>2. PICK i \in 1..l : id = m + i /\ b.entries[<<w, id>>].req = c.outbox[i].req
            BY <1>6, <5>2, <6>1 DEF Taken
          <6>3. i = 1
            BY <1>3, <4>2, <6>2
          <6>4. b.entries[<<w, id>>].req = Rm(u.deleting.dir)
            BY <4>2, <6>2, <6>3
          <6>5. Rm(u.deleting.dir) \in Removals
            BY <4>2 DEF Removals
          <6> QED BY <1>12, <2>2, <6>4, <6>5 DEF Fits
        <5> QED BY <5>1, <5>2
      <4> QED BY <1>10, <4>1, <4>2
    <3> QED BY <1>12, <2>2, <3>2, <3>5 DEF CommandsOK
  <2> QED BY <2>1, <2>2
<1>16. \A y \in q.reported : y \in p.reported \/ ToldTo(w, win, y)
  <2> SUFFICES ASSUME Finished(u.begun, del.call), u.begun.commands[del.call].st = "ready"
               PROVE  ToldTo(w, win, told)
    BY <1>1
  <2> DEFINE id == del.call
             d == D[id]
  <2>1. id \in DOMAIN D /\ d.st = "ready"
    BY <1>7 DEF Finished
  <2>2. Fits(win, id, d.req) /\ ToldTo(w, win, Token(w, id, d))
    BY <1>8, <2>1
  <2>3. d.req.dir = del.dir
    BY <2>2 DEF Fits, Rm, del
  <2>4. told = Token(w, id, d)
    BY <1>7, <2>3 DEF told, Token
  <2> QED BY <2>2, <2>4
<1>17. q.wins = [x \in Windows |-> IF x = w THEN new ELSE p.wins[x]]
  BY <1>1 DEF WinsOK
<1>18. AllCommandsOK(q.wins, q.table)
  <2> SUFFICES ASSUME NEW x \in Windows, q.wins[x].open
               PROVE  CommandsOK(x, q.wins[x], b)
    BY DEF AllCommandsOK, b
  <2>1. CASE x = w
    BY <1>15, <1>17, <2>1
  <2>2. CASE x # w
    <3>1. q.wins[x] = p.wins[x]
      BY <1>17, <2>2
    <3>2. CommandsOK(x, p.wins[x], t)
      BY <3>1 DEF AllCommandsOK, t
    <3>3. \A id : <<x, id>> \in Live(b) =>
            <<x, id>> \in Live(t) /\ b.entries[<<x, id>>] = t.entries[<<x, id>>]
      BY <1>6, <2>2 DEF Taken
    <3> QED BY <3>1, <3>2, <3>3 DEF CommandsOK
  <2> QED BY <2>1, <2>2
<1>19. \A y : ToldBy(q.wins, q.reported, y) => ToldBy(p.wins, p.reported, y)
  <2> SUFFICES ASSUME NEW y, ToldBy(q.wins, q.reported, y)
               PROVE  ToldBy(p.wins, p.reported, y)
    OBVIOUS
  <2>1. ASSUME NEW x \in Windows, ToldTo(x, q.wins[x], y)
        PROVE  ToldTo(x, p.wins[x], y)
    BY <1>14, <1>17, <2>1 DEF win
  <2> QED BY <1>16, <2>1 DEF ToldBy, win
<1> QED BY <1>18, <1>19 DEF NoneTold

LEMMA DrawTold ==
  ASSUME NEW p, NEW out \in SUBSET Outgoing, TableServed(p.table, out),
         p.issued \in 0..MaxCalls, WinsOK(p.wins, p.table, p.issued), AllCommandsOK(p.wins, p.table),
         NEW w \in Windows, NEW input \in Inputs,
         NEW q, q = DrawWindow(p, w, input), q.issued <= MaxCalls
  PROVE  /\ AllCommandsOK(q.wins, q.table)
         /\ NoneTold(p, q)
<1>1. p.issued \in Nat
  BY PolicyAssumption
<1>2. CASE input = "hidden" \/ ~p.wins[w].open
  <2>1. q = p
    BY <1>2 DEF DrawWindow
  <2> QED BY <2>1 DEF NoneTold
<1>3. CASE ~(input = "hidden" \/ ~p.wins[w].open)
  <2> DEFINE u == Update(p.wins[w], input)
  <2>1. q = HostWindow(p, w, input, u)
    BY <1>3 DEF DrawWindow
  <2>2. u = Update(p.wins[w], input)
    OBVIOUS
  <2> HIDE DEF u
  <2> QED BY <1>1, <1>3, <2>1, <2>2, HostTold
<1> QED BY <1>2, <1>3

LEMMA FewerCommands ==
  ASSUME NEW ws, NEW t, AllCommandsOK(ws, t), NEW u,
         Live(u) \subseteq Live(t), \A k \in Live(u) : u.entries[k] = t.entries[k]
  PROVE  AllCommandsOK(ws, u)
BY DEF AllCommandsOK, CommandsOK

LEMMA EndTold ==
  ASSUME NEW p, AllCommandsOK(p.wins, p.table), NEW q, q = EndPage(p),
         p = [wins |-> p.wins, table |-> p.table, issued |-> p.issued, reported |-> p.reported]
  PROVE  AllCommandsOK(q.wins, q.table) /\ q.wins = p.wins /\ q.reported = p.reported
<1> DEFINE t == p.table
           f == FlushIn(t)
           K == {k \in Live(t) : ~p.wins[k[1]].open}
           u == Without(f, K)
<1>1. Live(f) = Live(t) /\ f.entries = t.entries
  BY DEF FlushIn, Live
<1>2. q = [p EXCEPT !.table = Without(f, {k \in Live(t) : ~p.wins[k[1]].open})]
  BY Zenon DEF EndPage
<1>3. q = [p EXCEPT !.table = u]
  BY <1>2
<1> HIDE DEF t, f, u, K
<1>4. Live(u) = Live(f) \ K /\ \A k \in Live(u) : u.entries[k] = f.entries[k]
  BY WithoutIs DEF u
<1>5. q.wins = p.wins /\ q.table = u /\ q.reported = p.reported
  BY <1>3
<1>6. Live(u) \subseteq Live(t) /\ \A k \in Live(u) : u.entries[k] = t.entries[k]
  BY <1>1, <1>4
<1>7. AllCommandsOK(p.wins, u)
  <2> DEFINE ws == p.wins
  <2>1. AllCommandsOK(ws, t)
    BY DEF t
  <2> HIDE DEF ws
  <2>2. AllCommandsOK(ws, u)
    BY <1>6, <2>1, FewerCommands
  <2> QED BY <2>2 DEF ws
<1> QED BY <1>5, <1>7

\* Nothing new is told, and the new POSTs have no replies yet.
LEMMA ToldFewer ==
  ASSUME NEW T, NEW ps, NEW in, NEW v, ToldOK(T, ps, in, v), RepliesOK(ps, in, v),
         NEW T1, \A y \in T1 : y \in T,
         NEW us, \A p \in us : p.heard => p \in ps \/ p.done = {}
  PROVE  ToldOK(T1, us, in, v) /\ RepliesOK(us, in, v)
<1>1. ToldOK(T1, us, in, v)
  BY DEF ToldOK, ToldApart
<1>2. RepliesOK(us, in, v)
  <2> DEFINE H == {p \in ps : p.heard}
             H1 == {p \in us : p.heard}
  <2>1. \A p \in H1 : \A r \in p.done : p \in H
    OBVIOUS
  <2>2. /\ \A r \in in \cup UNION {p.done : p \in H} : Deletes(r) => r.val <= v[r.req.dir]
        /\ \A r, s \in in : Deletes(r) /\ Deletes(s) /\ Alike(r, s) => r = s
        /\ \A p, q \in H : \A r \in p.done, s \in q.done :
             Deletes(r) /\ Deletes(s) /\ Alike(r, s) => r = s /\ p = q
        /\ \A p \in H : \A r \in p.done, s \in in : Deletes(r) /\ Deletes(s) => ~Alike(r, s)
    BY DEF RepliesOK
  <2> HIDE DEF H, H1
  <2>3. /\ \A r \in in \cup (UNION {p.done : p \in H1}) : Deletes(r) => r.val <= v[r.req.dir]
        /\ \A r, s \in in : Deletes(r) /\ Deletes(s) /\ Alike(r, s) => r = s
    BY <2>1, <2>2
  <2>4. \A p, q \in H1 : \A r \in p.done, s \in q.done :
             Deletes(r) /\ Deletes(s) /\ Alike(r, s) => r = s /\ p = q
    BY <2>1, <2>2
  <2>5. \A p \in H1 : \A r \in p.done, s \in in : Deletes(r) /\ Deletes(s) => ~Alike(r, s)
    BY <2>1, <2>2
  <2> QED BY <2>3, <2>4, <2>5 DEF RepliesOK, H1
<1> QED BY <1>1, <1>2

LEMMA DrawStepTold ==
  ASSUME RpcIInv, DeletionsInv, NEW act \in Inputs, Draw(act)
  PROVE  DeletionsInv'
<1> DEFINE w == Order[turn]
           p == DrawWindow(Page, w, act)
           q == IF turn = Len(Order) THEN EndPage(p) ELSE p
           out == Wire(posts, inbox)
           P == Page
<1>1. turn \in DOMAIN Order /\ w \in Windows
  BY SystemAssumption DEF Draw
<1>2. /\ p.issued <= MaxCalls /\ UNCHANGED <<inbox, ver>>
      /\ wins' = q.wins /\ table' = q.table /\ reported' = q.reported
      /\ posts' = IF turn = Len(Order) THEN posts \cup Posted(p.table) ELSE posts
  BY Zenon DEF Draw
<1>3. /\ P = [wins |-> P.wins, table |-> P.table, issued |-> P.issued, reported |-> P.reported]
      /\ P.wins = wins /\ P.table = table /\ P.issued = issued /\ P.reported = reported
  BY DEF Page
<1>4. /\ out \in SUBSET Outgoing /\ TableServed(P.table, out) /\ P.issued \in 0..MaxCalls
      /\ WinsOK(P.wins, P.table, P.issued) /\ AllCommandsOK(P.wins, P.table)
  <2>1. out \subseteq Outgoing
    BY WireType DEF RpcIInv
  <2> HIDE DEF P
  <2> QED BY <1>3, <2>1 DEF RpcIInv, DeletionsInv, AllCommandsOK
<1>5. p = DrawWindow(P, w, act)
  OBVIOUS
<1>6. p = [wins |-> p.wins, table |-> p.table, issued |-> p.issued, reported |-> p.reported]
  BY DEF DrawWindow, HostWindow, Page
<1>7. q = IF turn = Len(Order) THEN EndPage(p) ELSE p
  OBVIOUS
<1> HIDE DEF P, p, q, w, out
<1>8. /\ AllCommandsOK(p.wins, p.table)
      /\ NoneTold(P, p)
  BY <1>1, <1>2, <1>4, <1>5, DrawTold
<1>9. /\ AllCommandsOK(q.wins, q.table)
      /\ q.wins = p.wins /\ q.reported = p.reported
  <2>1. CASE turn = Len(Order)
    BY <1>6, <1>7, <1>8, <2>1, EndTold
  <2>2. CASE turn # Len(Order)
    BY <1>7, <1>8, <2>2
  <2> QED BY <2>1, <2>2
<1>10. \A y \in Told' : y \in Told
  <2>1. \A y : ToldBy(wins', reported', y) => ToldBy(wins, reported, y)
    BY <1>2, <1>3, <1>8, <1>9 DEF NoneTold
  <2> QED BY <2>1, ToldAs
<1>11. \A x \in posts' : x.heard => x \in posts \/ x.done = {}
  BY <1>2 DEF Posted
<1>12. ToldOK(Told', posts', inbox', ver') /\ RepliesOK(posts', inbox', ver')
  <2> DEFINE T == Told
             T1 == Told'
             us == posts'
  <2>1. /\ ToldOK(T, posts, inbox, ver) /\ RepliesOK(posts, inbox, ver)
        /\ (\A y \in T1 : y \in T) /\ \A x \in us : x.heard => x \in posts \/ x.done = {}
    BY <1>10, <1>11 DEF DeletionsInv
  <2> HIDE DEF T, T1, us
  <2>2. ToldOK(T1, us, inbox, ver) /\ RepliesOK(us, inbox, ver)
    BY <2>1, ToldFewer
  <2> QED BY <1>2, <2>2 DEF T1, us
<1>13. AllCommandsOK(wins', table')
  BY <1>2, <1>9
<1> QED BY <1>12, <1>13 DEF DeletionsInv, AllCommandsOK

\* Calls told of, each of its own request.
EventsFor(K, event, t) ==
  \A k \in K : /\ k = <<k[1], k[2]>> /\ event[k].call = k[2]
               /\ event[k].ok => event[k].req = t.entries[k].req

\* A window is told no more than before and of the calls K.
ToldOnly(p, K, event, ws) ==
  \A w \in Windows : \A y : ToldTo(w, ws[w], y) =>
    \/ ToldTo(w, p.wins[w], y)
    \/ \E k \in K : k[1] = w /\ Deletes(event[k]) /\ y = Token(w, k[2], event[k])

LEMMA TellTold ==
  ASSUME NEW p, NEW t, \A w \in Windows : WinType(p.wins[w]), AllCommandsOK(p.wins, t),
         NEW K \in SUBSET Live(t), NEW event, EventsFor(K, event, t),
         NEW u, Live(u) \subseteq Live(t), \A k \in Live(u) : u.entries[k] = t.entries[k]
  PROVE  /\ AllCommandsOK(WinsTold(p, K, event), u)
         /\ ToldOnly(p, K, event, WinsTold(p, K, event))
<1> DEFINE ws == WinsTold(p, K, event)
<1> SUFFICES ASSUME NEW w \in Windows
             PROVE  /\ ws[w].open => CommandsOK(w, ws[w], u)
                    /\ \A y : ToldTo(w, ws[w], y) =>
                         \/ ToldTo(w, p.wins[w], y)
                         \/ \E k \in K : /\ k[1] = w /\ Deletes(event[k])
                                         /\ y = Token(w, k[2], event[k])
  BY DEF AllCommandsOK, ToldOnly
<1> DEFINE win == p.wins[w]
           E == {event[k] : k \in {j \in K : j[1] = w}}
           new == ws[w]
<1>6. \A k \in K : /\ k = <<k[1], k[2]>> /\ event[k].call = k[2]
                   /\ event[k].ok => event[k].req = t.entries[k].req
  BY DEF EventsFor
<1>1. new = IF win.open THEN Hears(win, E) ELSE win
  BY DEF WinsTold
<1>2. WinType(win) /\ (win.open => CommandsOK(w, win, t))
  BY DEF AllCommandsOK
<1>3. \A e \in E : \E k \in K : k[1] = w /\ k = <<w, k[2]>> /\ e = event[k]
  BY <1>6
<1> HIDE DEF win, E, ws
<1>4. CASE ~win.open
  BY <1>1, <1>4 DEF win
<1>5. CASE win.open
  <2>1. new = [cache |-> win.cache, shows |-> win.shows, listed |-> win.listed,
               deleting |-> win.deleting, open |-> win.open, queue |-> win.queue \cup E]
    BY <1>1, <1>2, <1>5, HearsIs
  <2> HIDE DEF new
  <2>2. new.cache = win.cache /\ new.deleting = win.deleting /\ new.queue = win.queue \cup E
    BY <2>1
  <2>3. CommandsOK(w, new, u)
    <3>1. \A id, r : Fits(new, id, r) <=> Fits(win, id, r)
      BY <2>2 DEF Fits
    <3>2. \A id \in DOMAIN win.cache.commands : \A e \in E :
            e.ok /\ e.call = id => Fits(win, id, e.req)
      <4> SUFFICES ASSUME NEW id \in DOMAIN win.cache.commands, NEW e \in E, e.ok, e.call = id
                   PROVE  Fits(win, id, e.req)
        OBVIOUS
      <4>1. PICK k \in K : k[1] = w /\ k = <<w, k[2]>> /\ e = event[k]
        BY <1>3
      <4>2. k = <<w, id>> /\ e.req = t.entries[<<w, id>>].req /\ <<w, id>> \in Live(t)
        BY <1>6, <4>1
      <4> QED BY <1>2, <1>5, <4>2 DEF CommandsOK
    <3>3. \A id : <<w, id>> \in Live(u) =>
            <<w, id>> \in Live(t) /\ u.entries[<<w, id>>] = t.entries[<<w, id>>]
      OBVIOUS
    <3> QED BY <1>2, <1>5, <2>2, <3>1, <3>2, <3>3 DEF CommandsOK
  <2>4. ASSUME NEW y, ToldTo(w, new, y)
        PROVE  \/ ToldTo(w, win, y)
               \/ \E k \in K : k[1] = w /\ Deletes(event[k]) /\ y = Token(w, k[2], event[k])
    <3>1. CASE \E e \in E : Deletes(e) /\ y = Token(w, e.call, e)
      <4>1. PICK e \in E : Deletes(e) /\ y = Token(w, e.call, e)
        BY <3>1
      <4>2. PICK k \in K : k[1] = w /\ e = event[k]
        BY <1>3
      <4> QED BY <1>6, <4>1, <4>2
    <3>2. CASE ~\E e \in E : Deletes(e) /\ y = Token(w, e.call, e)
      BY <2>2, <2>4, <3>2 DEF ToldTo
    <3> QED BY <3>1, <3>2
  <2> QED BY <2>3, <2>4 DEF new, win
<1> QED BY <1>4, <1>5

LEMMA TickTold ==
  ASSUME NEW p, p = [wins |-> p.wins, table |-> p.table, issued |-> p.issued,
                     reported |-> p.reported],
         NEW out, TableServed(p.table, out), NEW n \in Nat, WinsOK(p.wins, p.table, n),
         AllCommandsOK(p.wins, p.table), NEW q, q = TickPage(p)
  PROVE  AllCommandsOK(q.wins, q.table) /\ NoneTold(p, q) /\ q.reported = p.reported
<1> DEFINE t == p.table
           K == Overdue(t) \cup {k \in Live(t) : ~p.wins[k[1]].open}
           event == [k \in K |-> Lapsed(k, t.entries[k])]
           u == Without(t, K)
           ws == WinsTold(p, K, event)
<1>1. CASE K = {}
  <2>1. q = p
    BY <1>1 DEF TickPage
  <2> QED BY <2>1 DEF NoneTold
<1>2. CASE K # {}
  <2>1. q = [Tell(p, K, event) EXCEPT !.table = u]
    BY <1>2 DEF TickPage
  <2>2. q = [wins |-> ws, table |-> u, issued |-> p.issued, reported |-> p.reported]
    <3>1. [Tell(p, K, event) EXCEPT !.table = u] =
            [wins |-> ws, table |-> u, issued |-> p.issued, reported |-> p.reported]
      <4> HIDE DEF K, event, u
      <4> QED BY ToldIs
    <3> QED BY <2>1, <3>1
  <2>3. K \subseteq Live(t)
    BY DEF Overdue
  <2>4. EventsFor(K, event, t)
    <3>1. \A k \in Live(t) : k = <<k[1], k[2]>>
      BY DEF TableServed, TableOK, TableType, Key
    <3> QED BY <2>3, <3>1 DEF Lapsed, EventsFor
  <2>5. \A k \in K : ~Deletes(event[k])
    BY DEF Lapsed, Deletes
  <2>6. Live(u) \subseteq Live(t) /\ \A k \in Live(u) : u.entries[k] = t.entries[k]
    <3> HIDE DEF K, t
    <3> QED BY WithoutIs
  <2>7. (\A w \in Windows : WinType(p.wins[w])) /\ AllCommandsOK(p.wins, t)
    BY DEF WinsOK, WinOK
  <2> HIDE DEF K, event, u, t, ws
  <2>8. AllCommandsOK(ws, u) /\ ToldOnly(p, K, event, ws)
    BY <2>3, <2>4, <2>6, <2>7, TellTold DEF ws
  <2>9. q.wins = ws /\ q.table = u /\ q.reported = p.reported
    BY <2>2
  <2> QED BY <2>5, <2>8, <2>9 DEF NoneTold, ToldBy, ToldOnly
<1> QED BY <1>1, <1>2

\* A deletion's reply is one caller's.
LEMMA OneCaller ==
  ASSUME RpcIInv, NEW p, p.table = table,
         NEW j \in Members(table, {r.seq : r \in inbox}),
         NEW k \in Members(table, {r.seq : r \in inbox}),
         ReplyTo(p, j) = ReplyTo(p, k), Deletes(ReplyTo(p, k))
  PROVE  j = k
<1> DEFINE t == table
           r == ReplyTo(p, k)
           s == r.seq
<1>1. /\ s \in DOMAIN t.groups /\ j \in t.groups[s] /\ k \in t.groups[s]
      /\ r.req = t.entries[k].req
  BY ReplyIs
<1>2. r.req \notin Merged
  <2>1. \A d : List(d).op # "remove"
    BY DEF List
  <2> QED BY <2>1, SystemAssumption DEF Deletes
<1> HIDE DEF r, s
<1>3. IndexExact(t) /\ GroupsAgree(t) /\ TableType(t)
  BY DEF RpcIInv, TableServed, TableOK
<1>4. s \notin DOMAIN t.argsOf
  <2> SUFFICES ASSUME s \in DOMAIN t.argsOf
               PROVE  FALSE
    OBVIOUS
  <2>1. t.argsOf[s] \in Merged
    BY <1>3 DEF IndexExact, TableType
  <2>2. t.entries[k].req = t.argsOf[s]
    BY <1>1, <1>3 DEF GroupsAgree
  <2> QED BY <1>1, <1>2, <2>1, <2>2
<1> QED BY <1>1, <1>3, <1>4 DEF GroupsAgree

\* The replies taken: what they report moves from the network to the windows.
LEMMA TakeTold ==
  ASSUME RpcIInv, DeletionsInv, NEW q, q = TakeReplies(Page)
  PROVE  /\ AllCommandsOK(q.wins, q.table) /\ q.reported = reported
         /\ ToldOK(ToldOf(q.wins, q.reported), posts, {}, ver)
<1> DEFINE t == table
           p == Page
           S == {r.seq : r \in inbox}
           K == Members(t, S)
           event == [k \in K |-> Heeded(k, ReplyTo(p, k))]
           u == ResolveIn(t, S)
           ws == WinsTold(p, K, event)
           T1 == ToldOf(q.wins, q.reported)
<1>1. /\ p = [wins |-> p.wins, table |-> p.table, issued |-> p.issued, reported |-> p.reported]
      /\ p.wins = wins /\ p.table = t /\ p.reported = reported
  BY DEF Page
<1>2. /\ AllCommandsOK(wins, t) /\ RepliesOK(posts, inbox, ver)
      /\ ToldOK(Told, posts, inbox, ver)
  BY DEF DeletionsInv, AllCommandsOK
<1>3. CASE inbox = {}
  <2>1. q = p
    BY <1>3 DEF TakeReplies
  <2>2. q.wins = wins /\ q.table = t /\ q.reported = reported
    BY <1>1, <2>1
  <2>3. \A y \in T1 : y \in Told
    BY <2>2, ToldAs, ToldOfIs
  <2> HIDE DEF T1
  <2>4. ToldOK(T1, posts, {}, ver)
    BY <1>2, <1>3, <2>3 DEF ToldOK, ToldApart
  <2> QED BY <1>2, <2>2, <2>4 DEF T1
<1>4. CASE inbox # {}
  <2>1. q = [Tell(p, K, event) EXCEPT !.table = u]
    BY <1>1, <1>4 DEF TakeReplies
  <2> HIDE DEF p, t
  <2>2. q = [wins |-> ws, table |-> u, issued |-> p.issued, reported |-> p.reported]
    <3>1. [Tell(p, K, event) EXCEPT !.table = u] =
            [wins |-> ws, table |-> u, issued |-> p.issued, reported |-> p.reported]
      <4> HIDE DEF K, event, u
      <4> QED BY <1>1, ToldIs
    <3> QED BY <2>1, <3>1
  <2>3. TableType(t) /\ GroupsPartition(t)
    BY DEF t, RpcIInv, TableServed, TableOK
  <2>4. K \subseteq Live(t)
    BY <2>3 DEF Members, GroupsPartition
  <2>5. \A k \in K : /\ k = <<k[1], k[2]>>
                     /\ ReplyTo(p, k) \in inbox /\ ReplyTo(p, k).req = t.entries[k].req
    <3> SUFFICES ASSUME NEW k \in K
                 PROVE  /\ k = <<k[1], k[2]>>
                        /\ ReplyTo(p, k) \in inbox /\ ReplyTo(p, k).req = t.entries[k].req
      OBVIOUS
    <3>1. k = <<k[1], k[2]>>
      BY <2>3, <2>4 DEF TableType, Key
    <3>2. k \in Members(table, {r.seq : r \in inbox}) /\ p.table = table
      BY <1>1 DEF t
    <3> HIDE DEF K, S
    <3> QED BY <3>1, <3>2, ReplyIs DEF t
  <2>6. \A k \in K : /\ event[k].call = k[2] /\ event[k].ok = ReplyTo(p, k).ok
                     /\ event[k].req = ReplyTo(p, k).req /\ event[k].val = ReplyTo(p, k).val
    BY DEF Heeded
  <2>7. Live(u) \subseteq Live(t) /\ \A k \in Live(u) : u.entries[k] = t.entries[k]
    <3>1. u = [entries |-> Except(t.entries, K), groups |-> Except(t.groups, S),
               byArgs |-> Except(t.byArgs, {t.argsOf[s] : s \in S \cap DOMAIN t.argsOf}),
               argsOf |-> Except(t.argsOf, S), staged |-> t.staged, nextSeq |-> t.nextSeq]
      <4>1. TableOK(t)
        BY DEF t, RpcIInv, TableServed
      <4> HIDE DEF S
      <4> QED BY <4>1, ResolveFields
    <3> HIDE DEF u, K, S
    <3>2. u.entries = Except(t.entries, K)
      BY <3>1
    <3> QED BY <3>2 DEF Except, Live
  <2> HIDE DEF event, u, ws
  <2>8. EventsFor(K, event, t)
    BY <2>5, <2>6 DEF EventsFor
  <2>9. AllCommandsOK(ws, u) /\ ToldOnly(p, K, event, ws)
    <3>1. \A w \in Windows : WinType(p.wins[w])
      BY <1>1 DEF RpcIInv, WinsOK, WinOK
    <3>2. AllCommandsOK(p.wins, t)
      BY <1>1, <1>2
    <3> HIDE DEF K
    <3> QED BY <2>4, <2>7, <2>8, <3>1, <3>2, TellTold DEF ws
  <2>10. q.wins = ws /\ q.table = u /\ q.reported = reported
    BY <1>1, <2>2
  \* What is told now was told before, or is of one of the replies taken.
  <2> DEFINE New(k, y) == Deletes(ReplyTo(p, k)) /\ y = Token(k[1], k[2], ReplyTo(p, k))
  <2>11. \A y \in T1 : y \in Told \/ \E k \in K : New(k, y)
    <3> SUFFICES ASSUME NEW y, ToldBy(ws, reported, y), y \notin Told
                 PROVE  \E k \in K : New(k, y)
      BY <2>10, ToldOfIs
    <3>1. PICK w \in Windows : ToldTo(w, ws[w], y) /\ ~ToldTo(w, wins[w], y)
      BY ToldAs DEF ToldBy
    <3>2. PICK k \in K : k[1] = w /\ Deletes(event[k]) /\ y = Token(w, k[2], event[k])
      BY <1>1, <2>9, <3>1 DEF ToldOnly
    <3>3. New(k, y)
      BY <2>6, <3>2 DEF Deletes, Token
    <3> QED BY <3>3
  <2>12. \A k \in K : \A y : New(k, y) =>
           /\ ReplyTo(p, k) \in inbox /\ Deletes(ReplyTo(p, k))
           /\ y.dir = ReplyTo(p, k).req.dir /\ y.val = ReplyTo(p, k).val
    BY <2>5 DEF Token
  <2>13. \A j \in K, k \in K :
           Deletes(ReplyTo(p, k)) /\ ReplyTo(p, j) = ReplyTo(p, k) => j = k
    <3> SUFFICES ASSUME NEW j \in K, NEW k \in K, Deletes(ReplyTo(p, k)),
                        ReplyTo(p, j) = ReplyTo(p, k)
                 PROVE  j = k
      OBVIOUS
    <3>1. /\ j \in Members(table, {r.seq : r \in inbox})
          /\ k \in Members(table, {r.seq : r \in inbox}) /\ p.table = table
      BY <1>1 DEF t
    <3> HIDE DEF K
    <3> QED BY <3>1, OneCaller
  <2>14. \A r \in inbox : r.req.dir \in Dirs /\ r.val \in Nat
                          /\ (Deletes(r) => r.val <= ver[r.req.dir])
    <3>1. \A e \in Dirs : List(e).dir = e /\ Rm(e).dir = e
      BY DEF List, Rm
    <3>2. \A x \in Requests : x.dir \in Dirs
      BY <3>1, SystemAssumption
    <3> QED BY <1>2, <3>2 DEF RpcIInv, Replies, RepliesOK
  <2> HIDE DEF T1, New, K
  <2>15. \A x \in T1 : x.dir \in Dirs /\ x.val \in Nat /\ x.val <= ver[x.dir]
    <3> SUFFICES ASSUME NEW x \in T1
                 PROVE  x.dir \in Dirs /\ x.val \in Nat /\ x.val <= ver[x.dir]
      OBVIOUS
    <3>1. CASE x \in Told
      BY <1>2, <3>1 DEF ToldOK
    <3>2. CASE \E k \in K : New(k, x)
      BY <2>12, <2>14, <3>2
    <3> QED BY <2>11, <3>1, <3>2
  <2>16. \A x \in Told : \A k \in K : \A y : New(k, y) => ~(x.dir = y.dir /\ x.val = y.val)
    <3>1. ToldApart(Told, inbox)
      BY <1>2 DEF ToldOK
    <3> QED BY <2>12, <3>1 DEF ToldApart
  <2>17. \A x, y \in T1 : x.dir = y.dir /\ x.val = y.val => x = y
    <3> SUFFICES ASSUME NEW x \in T1, NEW y \in T1, x.dir = y.dir, x.val = y.val
                 PROVE  x = y
      OBVIOUS
    <3>1. CASE x \in Told /\ y \in Told
      BY <1>2, <3>1 DEF ToldOK
    <3>2. CASE (\E j \in K : New(j, x)) /\ \E k \in K : New(k, y)
      <4>1. PICK j \in K : New(j, x)
        BY <3>2
      <4>2. PICK k \in K : New(k, y)
        BY <3>2
      <4>3. /\ ReplyTo(p, j) \in inbox /\ Deletes(ReplyTo(p, j))
            /\ ReplyTo(p, k) \in inbox /\ Deletes(ReplyTo(p, k))
            /\ Alike(ReplyTo(p, j), ReplyTo(p, k))
        BY <2>12, <4>1, <4>2 DEF Alike
      <4>4. ReplyTo(p, j) = ReplyTo(p, k)
        BY <1>2, <4>3 DEF RepliesOK
      <4>5. j = k
        BY <2>13, <4>3, <4>4
      <4> QED BY <4>1, <4>2, <4>5 DEF New
    <3>3. CASE x \in Told /\ \E k \in K : New(k, y)
      BY <2>16, <3>3
    <3>4. CASE y \in Told /\ \E k \in K : New(k, x)
      BY <2>16, <3>4
    <3> QED BY <2>11, <3>1, <3>2, <3>3, <3>4
  <2>18. \A z \in posts : z.heard => ToldApart(T1, z.done)
    <3> SUFFICES ASSUME NEW z \in posts, z.heard, NEW x \in T1, NEW r \in z.done, Deletes(r)
                 PROVE  ~(x.dir = r.req.dir /\ x.val = r.val)
      BY DEF ToldApart
    <3>1. CASE x \in Told
      <4>1. ToldApart(Told, z.done)
        BY <1>2 DEF ToldOK
      <4> QED BY <3>1, <4>1 DEF ToldApart
    <3>2. CASE \E k \in K : New(k, x)
      <4>1. PICK k \in K : New(k, x)
        BY <3>2
      <4>2. /\ ReplyTo(p, k) \in inbox /\ Deletes(ReplyTo(p, k))
            /\ x.dir = ReplyTo(p, k).req.dir /\ x.val = ReplyTo(p, k).val
        BY <2>12, <4>1
      <4>3. ~Alike(r, ReplyTo(p, k))
        BY <1>2, <4>2 DEF RepliesOK
      <4> QED BY <4>2, <4>3 DEF Alike
    <3> QED BY <2>11, <3>1, <3>2
  <2>19. ToldOK(T1, posts, {}, ver)
    BY <2>15, <2>17, <2>18 DEF ToldOK, ToldApart
  <2> QED BY <2>9, <2>10, <2>19 DEF T1
<1> QED BY <1>3, <1>4

\* The beginning of a frame.
LEMMA StartTold ==
  ASSUME RpcIInv, DeletionsInv, StartFrame
  PROVE  DeletionsInv'
<1> DEFINE p == TakeReplies(Page)
           q == TickPage(p)
           out == Wire(posts, {})
           n == issued
<1>1. /\ wins' = q.wins /\ table' = q.table /\ inbox' = {}
      /\ UNCHANGED <<issued, posts, ver, reported>>
  BY DEF StartFrame
<1>2. /\ p = [wins |-> p.wins, table |-> p.table, issued |-> p.issued, reported |-> p.reported]
      /\ TableServed(p.table, out)
      /\ WinsOK(p.wins, p.table, n)
  BY TakeOK
<1>3. n \in Nat
  BY DEF RpcIInv
<1>4. /\ AllCommandsOK(p.wins, p.table) /\ p.reported = reported
      /\ ToldOK(ToldOf(p.wins, p.reported), posts, {}, ver)
  BY TakeTold
<1> HIDE DEF p, out, n
<1>5. AllCommandsOK(q.wins, q.table) /\ NoneTold(p, q) /\ q.reported = p.reported
  BY <1>2, <1>3, <1>4, TickTold
<1> HIDE DEF q
<1>6. \A y \in Told' : y \in ToldOf(p.wins, p.reported)
  <2>1. \A y : ToldBy(wins', reported', y) => ToldBy(p.wins, p.reported, y)
    BY <1>1, <1>4, <1>5 DEF NoneTold
  <2>2. \A y : y \in ToldOf(p.wins, p.reported) <=> ToldBy(p.wins, p.reported, y)
    BY ToldOfIs
  <2> QED BY <2>1, <2>2, ToldAs
<1>7. RepliesOK(posts, {}, ver)
  BY DEF DeletionsInv, RepliesOK
<1>8. ToldOK(Told', posts, {}, ver) /\ RepliesOK(posts, {}, ver)
  <2> DEFINE T == ToldOf(p.wins, p.reported)
             T1 == Told'
             in == {}
  <2>1. /\ ToldOK(T, posts, in, ver) /\ RepliesOK(posts, in, ver)
        /\ (\A y \in T1 : y \in T) /\ \A x \in posts : x.heard => x \in posts \/ x.done = {}
    BY <1>4, <1>6, <1>7
  <2> HIDE DEF T, T1, in
  <2>2. ToldOK(T1, posts, in, ver)
    BY <2>1, ToldFewer
  <2> QED BY <1>7, <2>2 DEF T1, in
<1>9. AllCommandsOK(wins', table')
  BY <1>1, <1>5
<1> QED BY <1>1, <1>8, <1>9 DEF DeletionsInv, AllCommandsOK

LEMMA InitTold == Init => DeletionsInv
<1> SUFFICES ASSUME Init
             PROVE  DeletionsInv
  OBVIOUS
<1>1. /\ wins = [w \in Windows |-> Fresh] /\ posts = {} /\ inbox = {} /\ reported = {}
  BY DEF Init
<1>2. /\ Fresh.queue = {} /\ Fresh.cache = EmptyCache /\ Fresh.deleting = NoCall
  BY DEF Fresh
<1>3. DOMAIN EmptyCache.commands = {} /\ EmptyCache.nextId = 0 /\ NoCall.call = 0
  BY DEF EmptyCache, NoCall
<1>4. \A w \in Windows : CommandsOK(w, wins[w], table)
  <2> SUFFICES ASSUME NEW w \in Windows
               PROVE  CommandsOK(w, Fresh, table)
    BY <1>1
  <2>1. Fresh.deleting.call \in 0..Fresh.cache.nextId
    BY <1>2, <1>3
  <2>2. DOMAIN Fresh.cache.commands = {}
    BY <1>2, <1>3
  <2> QED BY <2>1, <2>2 DEF CommandsOK
<1>5. \A y : y \notin Told
  <2>1. \A w \in Windows : \A y : ~ToldTo(w, wins[w], y)
    BY <1>1, <1>2, <1>3 DEF ToldTo
  <2> QED BY <1>1, <2>1, ToldAs DEF ToldBy
<1>6. ToldOK(Told, posts, inbox, ver)
  BY <1>1, <1>5 DEF ToldOK, ToldApart
<1>7. RepliesOK(posts, inbox, ver)
  BY <1>1 DEF RepliesOK
<1> QED BY <1>4, <1>6, <1>7 DEF DeletionsInv

\* Every step.
LEMMA StepTold ==
  ASSUME RpcIInv, DeletionsInv, [Next]_vars
  PROVE  DeletionsInv'
<1>1. CASE StartFrame
  BY <1>1, StartTold
<1>2. ASSUME NEW act \in Inputs, Draw(act) PROVE DeletionsInv'
  BY <1>2, DrawStepTold
<1>3. CASE Elapse
  BY <1>3, ElapseTold
<1>4. ASSUME NEW p \in posts, Answer(p) PROVE DeletionsInv'
  BY <1>4, AnswerTold
<1>5. ASSUME NEW p \in posts, FailPost(p) PROVE DeletionsInv'
  BY <1>5, FailTold
<1>6. ASSUME NEW p \in posts, NEW o \in Following(p.todo), NEW ok \in BOOLEAN, Serve(p, o, ok)
      PROVE  DeletionsInv'
  BY <1>6, ServeTold
<1>7. CASE UNCHANGED vars
  <2>1. Told' = Told
    BY <1>7 DEF vars, Told
  <2> QED BY <1>7, <2>1 DEF vars, DeletionsInv
<1> QED BY <1>1, <1>2, <1>3, <1>4, <1>5, <1>6, <1>7 DEF Next

\* Of the deletions windows have been told are done - reported to the user, or on
\* their way from the shell to the app - no two were one deletion at the server.
THEOREM DeletionsHold == Spec => []EachDeletionDone
<1>1. DeletionsInv => EachDeletionDone
  BY DEF DeletionsInv, ToldOK, EachDeletionDone
<1>2. Spec => []DeletionsInv
  BY RpcInvariant, InitTold, StepTold, PTL DEF Spec
<1> QED BY <1>1, <1>2, PTL
=============================================================================
