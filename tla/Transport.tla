------------------------------ MODULE Transport ------------------------------
(***************************************************************************)
(* The transport as a component: the pending-call table with its windows   *)
(* (event sinks), its wire, and time.  One action per public method of     *)
(* Transport; the callers may use them in any order.  A reply on the wire  *)
(* may be lost (never taken) or come in any order; requests flushed        *)
(* together may be answered apart, since each POST resolves on its own.    *)
(***************************************************************************)
EXTENDS PendingTable, Sequences

VARIABLES
  table,    \* the pending-call table
  alive,    \* EventSink::alive of each window
  wire,     \* requests flushed and not answered yet
  issued,   \* number of calls made so far (history)
  heard,    \* the events delivered for each call (history)
  dropped   \* the calls taken back unanswered: cancelled, or their window gone
            \* (history)

vars == <<table, alive, wire, issued, heard, dropped>>

\* A terminal event: its kind and, for a reply, the request it answers.
Failure(kind) == [kind |-> kind, req |-> "none"]
Event == [kind: {"ok", "server"}, req: Requests]
           \cup {Failure(k) : k \in {"shed", "timeout", "transport"}}

NosOf(K) == {table.entries[k].no : k \in K}

\* The key a waiting call has.
KeyOf(n) == CHOOSE k \in Live(table) : table.entries[k].no = n

\* Mutant: the event is delivered without asking whether the sink is alive.
CompleteToClosed(K, ev) ==
  /\ heard' = [n \in CallNo |-> IF n \in NosOf(K) THEN Append(heard[n], ev[KeyOf(n)])
                                                ELSE heard[n]]
  /\ UNCHANGED dropped

\* The entries of K are completed with the event ev[k]: delivered when the
\* window's sink is still alive, discarded otherwise.
Complete(K, ev) ==
  LET hears == {k \in K : alive[k[1]]}
  IN /\ heard' = [n \in CallNo |-> IF n \in NosOf(hears)
                                    THEN Append(heard[n], ev[KeyOf(n)])
                                    ELSE heard[n]]
     /\ dropped' = dropped \cup NosOf(K \ hears)

Init ==
  /\ table = EmptyTable
  /\ alive = [w \in Windows |-> TRUE]
  /\ wire = {}
  /\ issued = 0
  /\ heard = [n \in CallNo |-> <<>>]
  /\ dropped = {}

Enqueue(k, r) ==
  /\ alive[k[1]]
  /\ issued < MaxCalls
  /\ issued' = issued + 1
  /\ table' = EnqueueIn(table, k, issued + 1, r)
  /\ Complete({k} \cap Live(table), [j \in {k} \cap Live(table) |-> Failure("shed")])
  /\ UNCHANGED <<alive, wire>>

Flush ==
  /\ table.staged # {}
  /\ wire' = wire \cup table.staged
  /\ table' = FlushIn(table)
  /\ UNCHANGED <<alive, issued, heard, dropped>>

Drop(K) ==
  /\ table' = Without(table, K)
  /\ dropped' = dropped \cup NosOf(K)
  /\ UNCHANGED <<alive, wire, issued, heard>>

Cancel(k) ==
  /\ k \in Live(table)
  /\ Drop({k})

ForgetInstance(w) ==
  /\ KeysOf(table, w) # {}
  /\ Drop(KeysOf(table, w))

\* AppWindow::close: the sink of a window that is closed takes nothing more.
Close(w) ==
  /\ alive[w]
  /\ alive' = [alive EXCEPT ![w] = FALSE]
  /\ UNCHANGED <<table, wire, issued, heard, dropped>>

Elapse ==
  /\ \E k \in Live(table) : table.entries[k].left > 0
  /\ table' = ElapseIn(table)
  /\ UNCHANGED <<alive, wire, issued, heard, dropped>>

\* tick: a call whose window has gone is cancelled, one past its deadline
\* times out.
Tick ==
  LET expired == Overdue(table) \cup {k \in Live(table) : ~alive[k[1]]}
  IN /\ expired # {}
     /\ table' = Without(table, expired)
     /\ Complete(expired, [j \in expired |-> Failure("timeout")])
     /\ UNCHANGED <<alive, wire, issued>>

\* Replies for some requests on the wire, `good' the successful ones.
OnReplies(replies, good) ==
  LET S == {o.seq : o \in replies}
      told(k) == CHOOSE o \in replies :
                   o.seq \in DOMAIN table.groups /\ k \in table.groups[o.seq]
      answer == [k \in Members(table, S) |->
                   [kind |-> IF told(k) \in good THEN "ok" ELSE "server",
                    req  |-> told(k).req]]
  IN /\ replies # {}
     /\ wire' = wire \ replies
     /\ table' = ResolveIn(table, S)
     /\ Complete(Members(table, S), answer)
     /\ UNCHANGED <<alive, issued>>

FailAllInFlight ==
  /\ Live(table) # {}
  /\ table' = Without(table, Live(table))
  /\ Complete(Live(table), [j \in Live(table) |-> Failure("transport")])
  /\ UNCHANGED <<alive, wire, issued>>

Next ==
  \/ \E k \in Key, r \in Requests : Enqueue(k, r)
  \/ Flush
  \/ \E k \in Key : Cancel(k)
  \/ \E w \in Windows : ForgetInstance(w) \/ Close(w)
  \/ Elapse
  \/ Tick
  \/ \E replies \in SUBSET wire : \E good \in SUBSET replies : OnReplies(replies, good)
  \/ FailAllInFlight

\* Time passes and the desktop ticks the table every frame; nothing says a
\* reply ever comes.
Spec == Init /\ [][Next]_vars /\ WF_vars(Elapse) /\ WF_vars(Tick)

-----------------------------------------------------------------------------
Pending == NosOf(Live(table))

TypeOK ==
  /\ TableType(table)
  /\ alive \in [Windows -> BOOLEAN]
  /\ wire \subseteq Outgoing
  /\ issued \in 0..MaxCalls
  /\ heard \in [CallNo -> Seq(Event)]
  /\ dropped \subseteq CallNo

\* The table's maps agree with each other after every method (TableOK), and
\* every call in it has its one request on the way (Served, SentOnce).
TableConsistent == TableServed(table, wire)

\* "Exactly one terminal event per call ... unless it was cancelled, which
\* delivers nothing": a call made is waiting, or has had one event, or was
\* dropped without one, and never two of these.
ExactlyOneFate ==
  \A n \in 1..issued :
    \/ n \in Pending /\ heard[n] = <<>> /\ n \notin dropped
    \/ n \notin Pending /\ Len(heard[n]) = 1 /\ n \notin dropped
    \/ n \notin Pending /\ heard[n] = <<>> /\ n \in dropped

\* The inductive invariant: beside the properties, calls are numbered once and
\* one not made yet has no history.
UnmadeUntouched == \A n \in CallNo : n > issued => heard[n] = <<>> /\ n \notin dropped

IInv ==
  /\ TypeOK
  /\ TableConsistent
  /\ NumbersUnique(table, issued)
  /\ UnmadeUntouched
  /\ ExactlyOneFate

\* No window hears more after it was closed, whatever is still in flight.
ClosedHearsNothing ==
  [][\A k \in Live(table) : ~alive[k[1]] =>
        heard'[table.entries[k].no] = heard[table.entries[k].no]]_vars

\* An answer delivered to a call is the answer to the request it made, however
\* many callers shared it and whatever was cancelled or reused meanwhile.
AnswersOwnRequest ==
  [][\A k \in Live(table) :
       LET n == table.entries[k].no
       IN heard'[n] # heard[n] =>
            \A i \in DOMAIN heard'[n] :
              heard'[n][i].req \in {table.entries[k].req, "none"}]_vars

\* What a window is told is its own, as long as it is there to be told.
HearsOnlyOwn == ClosedHearsNothing /\ AnswersOwnRequest

\* The transport keeps the promise of CallLedger.
StateOf(n) ==
  IF n \in Pending THEN "pending"
  ELSE IF n > issued THEN "unmade"
  ELSE IF n \in dropped THEN "dropped" ELSE "answered"

Ledger == INSTANCE CallLedger WITH
  Calls <- CallNo,
  state <- [n \in CallNo |-> StateOf(n)],
  told  <- [n \in CallNo |-> Len(heard[n])]

TransportPromise == Ledger!Spec
=============================================================================
