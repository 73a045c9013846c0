------------------------------- MODULE RpcCtx -------------------------------
(***************************************************************************)
(* The request cache inside an app (ccosel-sdk, RpcCtx) as a value, and its *)
(* methods as operators from a cache to a cache.  RpcSystem runs one of     *)
(* these in each window, over the shell's pending-call table.              *)
(*                                                                         *)
(* A query is one (method, args) pair.  An entry's last_used_frame is kept  *)
(* as the number of frames since then (idle).  Events are delivered as a    *)
(* set: each call has one at most, and an event touches its own call only,  *)
(* so their order in a batch cannot be seen.                               *)
(***************************************************************************)
EXTENDS Naturals, Sequences

CONSTANT SweepAfter  \* SWEEP_AFTER_FRAMES
ASSUME SweepAssumption == SweepAfter \in Nat

InFlight(id) == [st |-> "flight", call |-> id]
Done(e)      == IF e.ok THEN [st |-> "ready", req |-> e.req, val |-> e.val] ELSE [st |-> "failed"]
IsInFlight(slot) == slot.st = "flight"

EmptyCache ==
  [entries  |-> [q \in {} |-> 0],   \* query -> [slot, idle]
   byCall   |-> [id \in {} |-> 0],  \* call id -> query, of entries in flight
   commands |-> [id \in {} |-> 0],  \* call id -> slot
   outbox   |-> <<>>,               \* calls to make, in order
   cancels  |-> {},                 \* calls to take back
   nextId   |-> 0]

Put(f, x, y) == [z \in DOMAIN f \cup {x} |-> IF z = x THEN y ELSE f[z]]
Cut(f, S)    == [x \in DOMAIN f \ S |-> f[x]]

NextId(c) == c.nextId + 1

\* Mutant: an entry is dropped without cancelling its call.
RetireUncancelled(c, Q) ==
  [c EXCEPT !.entries = Cut(@, Q),
            !.byCall  = [id \in {i \in DOMAIN @ : @[i] \notin Q} |-> @[id]]]

\* Drop the entries Q, cancelling those still in flight.
Retire(c, Q) ==
  LET gone == {id \in DOMAIN c.byCall : c.byCall[id] \in Q}
  IN [c EXCEPT !.entries = Cut(@, Q),
               !.byCall  = Cut(@, gone),
               !.cancels = @ \cup gone]

\* A call for r, to be taken by the host when the frame ends.
Issued(c, r) ==
  [c EXCEPT !.outbox = Append(@, [call |-> NextId(c), req |-> r]), !.nextId = NextId(c)]

\* get(): issue the query on a miss, and mark the entry used.
Get(c, q) ==
  IF q \in DOMAIN c.entries
  THEN [c EXCEPT !.entries = Put(@, q, [slot |-> @[q].slot, idle |-> 0])]
  ELSE [Issued(c, q) EXCEPT !.entries = Put(@, q, [slot |-> InFlight(NextId(c)), idle |-> 0]),
                            !.byCall  = Put(@, NextId(c), q)]

Invalidate(c, q) == Retire(c, {q} \cap DOMAIN c.entries)

Send(c, r) ==
  [Issued(c, r) EXCEPT !.commands = Put(@, NextId(c), InFlight(NextId(c)))]

\* outcome() hands a finished command's result over once and forgets it.
Finished(c, id) == id \in DOMAIN c.commands /\ ~IsInFlight(c.commands[id])
Collect(c, id)  == [c EXCEPT !.commands = Cut(@, {id} \cap DOMAIN @)]

\* deliver(), for each event of E: a command's result is kept for outcome(); a
\* query's reply finds its entry through byCall, or is dropped.
Heard(E, id) == \E e \in E : e.call = id
After(E, slot) ==
  IF IsInFlight(slot) /\ Heard(E, slot.call)
  THEN Done(CHOOSE e \in E : e.call = slot.call) ELSE slot

Deliver(c, E) ==
  LET found == {e.call : e \in E} \cap DOMAIN c.byCall
  IN IF E = {} THEN c
     ELSE [c EXCEPT !.commands = [id \in DOMAIN @ |-> After(E, @[id])],
               !.entries  = [q \in DOMAIN @ |->
                               IF \E id \in found : c.byCall[id] = q
                               THEN [slot |-> After(E, @[q].slot), idle |-> @[q].idle]
                               ELSE @[q]],
               !.byCall   = Cut(@, found)]

\* begin_frame(): entries not asked for in the last SweepAfter frames go.
Aged(c) ==
  [c EXCEPT !.entries = [q \in DOMAIN @ |-> [slot |-> @[q].slot, idle |-> @[q].idle + 1]]]
BeginFrame(c) ==
  LET stale == {q \in DOMAIN c.entries : c.entries[q].idle >= SweepAfter}
  IN IF stale = {} THEN Aged(c) ELSE Retire(Aged(c), stale)

\* flush_rpc(), once the host has taken the calls and the cancellations.
Flushed(c) == [c EXCEPT !.outbox = <<>>, !.cancels = {}]

\* The calls an app waits on.
Awaited(c) ==
  DOMAIN c.byCall \cup {id \in DOMAIN c.commands : IsInFlight(c.commands[id])}

-----------------------------------------------------------------------------
\* The cache between two frames: byCall is exactly the index of the entries in
\* flight, so a reply can always find its entry, and only that one.
CacheConsistent(c) ==
  /\ \A q \in DOMAIN c.entries : IsInFlight(c.entries[q].slot) =>
        c.entries[q].slot.call \in DOMAIN c.byCall /\ c.byCall[c.entries[q].slot.call] = q
  /\ \A id \in DOMAIN c.byCall : c.byCall[id] \in DOMAIN c.entries
        /\ c.entries[c.byCall[id]].slot = InFlight(id)
  /\ DOMAIN c.byCall \cap DOMAIN c.commands = {}
  /\ \A q \in DOMAIN c.entries : c.entries[q].idle <= SweepAfter
=============================================================================
