----------------------------- MODULE PageProofs -----------------------------
(***************************************************************************)
(* The transport and the frames of an app, in the page, for any windows,   *)
(* calls and answers, and for any apps, depth and guests.                  *)
(*                                                                         *)
(* No call gets the answer to another. The transport's proofs rest on      *)
(* those of its table (IInv), and go on to the ledger it implements, a     *)
(* step at a time (StepMaps).                                              *)
(*                                                                         *)
(* The host accepts the streams of commands that pair up. The argument     *)
(* runs along a stream: what its two passes keep agrees (OpenIs), the      *)
(* pairs found so far are right (PairsAre), and they are those of any      *)
(* pairing there is (Follows). What the SDK records is such a stream,      *)
(* whose open commands are the scopes at work (RecInv). And a click that   *)
(* the app has to hear of is in a frame that the next one replaces         *)
(* (ClickInv).                                                             *)
(*                                                                         *)
(* The host draws what the SDK recorded. Drawing a span draws only shorter *)
(* ones, so it is what DrawSpan says of it (RenderIs); and of a stream     *)
(* that pairs up it draws each widget in no menu but the open one, in      *)
(* order, within the scopes around it (SpanDrawn). That those are the      *)
(* scopes it was recorded in is told by its id: an id is the path to it,   *)
(* so that what a thing is in has an id that its own begins with (Stream,  *)
(* PathsNest), as the scopes at work have (AtWork). And each command is    *)
(* emitted once, under an id that no other has (PathInv).                  *)
(***************************************************************************)
EXTENDS Transport, PendingTableProofs, Frames, FiniteSetTheorems, FunctionTheorems,
        SequenceTheorems, WellFoundedInduction, TLAPS

(* The transport's inductive invariant.                                    *)

\* The calls under the keys K, and no other, have had an event or been dropped.
SettlesCalls(K) ==
  /\ heard' \in [CallNo -> Seq(Event)]
  /\ dropped' \subseteq CallNo
  /\ \A n \in CallNo \ NosOf(K) :
        heard'[n] = heard[n] /\ (n \in dropped' <=> n \in dropped)
  /\ \A n \in NosOf(K) :
        \/ Len(heard'[n]) = 1 /\ n \notin dropped'
        \/ heard'[n] = <<>> /\ n \in dropped'

\* Completing live calls settles them.
LEMMA CompleteSettles ==
  ASSUME IInv, NEW K, K \subseteq Live(table), NEW ev \in [K -> Event], Complete(K, ev)
  PROVE  SettlesCalls(K)
<1> DEFINE hears == {k \in K : alive[k[1]]}
<1>1. /\ heard \in [CallNo -> Seq(Event)]
      /\ dropped \subseteq CallNo
      /\ \A k \in Live(table) : table.entries[k].no \in CallNo
  BY DEF IInv, TypeOK, TableConsistent, TableServed, TableOK, TableType, Entry, Live
<1>2. \A k \in Live(table) : KeyOf(table.entries[k].no) = k
  BY DEF KeyOf, IInv, NumbersUnique
<1>3. \A k \in Live(table) : /\ heard[table.entries[k].no] = <<>>
                            /\ table.entries[k].no \notin dropped
  <2> TAKE k \in Live(table)
  <2>1. table.entries[k].no \in Pending /\ table.entries[k].no \in 1..issued
    BY <1>1 DEF Pending, NosOf, IInv, NumbersUnique, CallNo, TypeOK
  <2> QED
    BY <2>1 DEF IInv, ExactlyOneFate
<1>4. \A n \in CallNo : heard'[n] = IF n \in NosOf(hears) THEN Append(heard[n], ev[KeyOf(n)])
                                                      ELSE heard[n]
  BY DEF Complete
<1>5. \A n \in NosOf(hears) : KeyOf(n) \in K /\ ev[KeyOf(n)] \in Event
  BY <1>2 DEF NosOf
<1>6. heard' \in [CallNo -> Seq(Event)]
  BY <1>1, <1>5 DEF Complete
<1>7. dropped' \subseteq CallNo
  BY <1>1 DEF Complete, NosOf
<1>8. ASSUME NEW n \in CallNo \ NosOf(K)
      PROVE  heard'[n] = heard[n] /\ (n \in dropped' <=> n \in dropped)
  BY <1>8, <1>4 DEF NosOf, Complete
<1>9. ASSUME NEW n \in NosOf(K)
      PROVE  \/ Len(heard'[n]) = 1 /\ n \notin dropped'
             \/ heard'[n] = <<>> /\ n \in dropped'
  <2>1. PICK k \in K : n = table.entries[k].no
    BY DEF NosOf
  <2>2. n \in CallNo /\ heard[n] = <<>> /\ n \notin dropped
    BY <2>1, <1>1, <1>3
  <2>3. \A j \in K : table.entries[j].no = n => j = k
    BY <2>1, <1>2
  <2>4. CASE alive[k[1]]
    <3>1. n \in NosOf(hears) /\ n \notin NosOf(K \ hears)
      BY <2>1, <2>3, <2>4 DEF NosOf
    <3>2. heard'[n] = Append(<<>>, ev[KeyOf(n)])
      BY <3>1, <2>2, <1>4
    <3>3. Len(heard'[n]) = 1
      BY <3>2, <3>1, <1>5
    <3> QED
      BY <3>1, <3>3, <2>2 DEF Complete
  <2>5. CASE ~alive[k[1]]
    <3>1. n \notin NosOf(hears) /\ n \in NosOf(K \ hears)
      BY <2>1, <2>3, <2>5 DEF NosOf
    <3> QED
      BY <3>1, <2>2, <1>4 DEF Complete
  <2> QED
    BY <2>4, <2>5
<1> QED
  BY <1>6, <1>7, <1>8, <1>9 DEF SettlesCalls

\* So does dropping them, which delivers nothing.
LEMMA DropSettles ==
  ASSUME IInv, NEW K, K \subseteq Live(table), Drop(K)
  PROVE  SettlesCalls(K)
<1>1. \A k \in K : table.entries[k].no \in CallNo /\ table.entries[k].no \in 1..issued
  BY DEF IInv, TypeOK, NumbersUnique, TableConsistent, TableServed, TableOK, TableType, Entry, Live, CallNo
<1>2. \A n \in NosOf(K) : heard[n] = <<>>
  BY <1>1 DEF NosOf, Pending, IInv, ExactlyOneFate
<1> QED
  BY <1>1, <1>2 DEF SettlesCalls, Drop, NosOf, IInv, TypeOK

\* The history part of the invariant, after a step that settles the calls of
\* K and leaves in the table the live calls but these.
LEMMA HistoryStep ==
  ASSUME IInv, NEW K, K \subseteq Live(table), SettlesCalls(K), issued' = issued,
         Live(table') = Live(table) \ K,
         \A k \in Live(table') : table'.entries[k].no = table.entries[k].no
  PROVE  NumbersUnique(table, issued)' /\ UnmadeUntouched' /\ ExactlyOneFate'
<1>1. \A j, k \in Live(table) : table.entries[j].no = table.entries[k].no => j = k
  BY DEF IInv, NumbersUnique
<1>2. Pending' = Pending \ NosOf(K)
  BY <1>1 DEF Pending, NosOf
<1>3. NumbersUnique(table, issued)'
  BY DEF IInv, NumbersUnique
<1>4. UnmadeUntouched'
  <2>1. \A n \in NosOf(K) : n <= issued
    BY DEF NosOf, IInv, NumbersUnique
  <2> QED
    BY <2>1 DEF IInv, UnmadeUntouched, SettlesCalls, TypeOK, CallNo
<1>5. ASSUME NEW n \in 1..issued
      PROVE  \/ n \in Pending' /\ heard'[n] = <<>> /\ n \notin dropped'
             \/ n \notin Pending' /\ Len(heard'[n]) = 1 /\ n \notin dropped'
             \/ n \notin Pending' /\ heard'[n] = <<>> /\ n \in dropped'
  <2>1. n \in CallNo
    BY <1>5, PolicyAssumption DEF IInv, TypeOK, CallNo
  <2> QED
    BY <2>1, <1>5, <1>2 DEF SettlesCalls, IInv, ExactlyOneFate
<1> QED
  BY <1>3, <1>4, <1>5 DEF ExactlyOneFate

LEMMA RemoveStep ==
  ASSUME IInv, NEW K, K \subseteq Live(table), table' = Without(table, K),
         SettlesCalls(K), UNCHANGED <<alive, wire, issued>>
  PROVE  IInv'
<1>1. TableServed(table', wire')
  BY WithoutServed DEF IInv, TableConsistent
<1>2. /\ Live(table') = Live(table) \ K
      /\ \A k \in Live(table') : table'.entries[k] = table.entries[k]
  BY DEF Without, Except, Live
<1>3. NumbersUnique(table, issued)' /\ UnmadeUntouched' /\ ExactlyOneFate'
  BY <1>2, HistoryStep
<1>4. TypeOK'
  BY <1>1 DEF IInv, TypeOK, SettlesCalls, TableServed, TableOK
<1> QED
  BY <1>1, <1>3, <1>4 DEF IInv, TableConsistent

LEMMA EnqueueStep ==
  ASSUME IInv, NEW k \in Key, NEW r \in Requests, Enqueue(k, r)
  PROVE  IInv'
<1> DEFINE K == {k} \cap Live(table)
           t == IF k \in Live(table) THEN Without(table, {k}) ELSE table
           n == issued + 1
<1>1. n \in CallNo /\ issued \in Nat /\ issued' = n /\ issued' \in 0..MaxCalls
  BY PolicyAssumption DEF IInv, TypeOK, Enqueue, CallNo
<1>2. SettlesCalls(K)
  <2>1. [j \in K |-> Failure("shed")] \in [K -> Event]
    BY DEF Event, Failure
  <2> QED
    BY <2>1, CompleteSettles DEF Enqueue
<1>3. TableServed(t, wire) /\ k \in Key \ Live(t)
  <2>1. CASE k \in Live(table)
    BY <2>1, WithoutServed DEF IInv, TableConsistent, Without, Except, Live
  <2>2. CASE k \notin Live(table)
    BY <2>2 DEF IInv, TableConsistent
  <2> QED
    BY <2>1, <2>2
<1>4. table' = Insert(t, k, n, r)
  BY DEF Enqueue, EnqueueIn
<1>5. \A o \in wire : o \in Outgoing
  BY DEF IInv, TypeOK
<1> HIDE DEF n
<1>6. TableServed(table', wire')
  BY <1>1, <1>3, <1>4, <1>5, InsertServed DEF Enqueue
<1>7. /\ Live(table') = Live(table) \cup {k}
      /\ table'.entries[k].no = n
      /\ \A j \in Live(table) \ {k} : table'.entries[j] = table.entries[j]
  BY <1>4 DEF Insert, With, Without, Except, Live
<1>8. NosOf(K) \subseteq 1..issued
  BY DEF NosOf, IInv, NumbersUnique, TableConsistent, TableServed, TableOK, TableType, Entry, Live, CallNo
<1>9. NumbersUnique(table, issued)'
  <2>1. \A j \in Live(table) : table.entries[j].no <= issued /\ table.entries[j].no \in Nat
    BY DEF IInv, NumbersUnique, TableConsistent, TableServed, TableOK, TableType, Entry, Live, CallNo
  <2>2. \A j \in Live(table) : table.entries[j].no <= n /\ table.entries[j].no # n
    BY <2>1, <1>1 DEF n
  <2>3. n <= n
    BY <1>1 DEF n
  <2> QED
    BY <2>2, <2>3, <1>1, <1>7 DEF IInv, NumbersUnique
<1>10. Pending' = (Pending \ NosOf(K)) \cup {n}
  <2>1. \A j \in Live(table) \ {k} : table.entries[j].no \notin NosOf(K)
    BY DEF NosOf, IInv, NumbersUnique
  <2>2. Live(table) = (Live(table) \ {k}) \cup K
    OBVIOUS
  <2> QED
    BY <2>1, <2>2, <1>7 DEF Pending, NosOf
<1>11. heard'[n] = <<>> /\ n \notin dropped'
  <2>1. issued + 1 \notin 1..issued /\ issued + 1 > issued
    BY <1>1
  <2>2. n \notin NosOf(K) /\ n > issued
    BY <2>1, <1>8 DEF n
  <2> QED
    BY <2>2, <1>1, <1>2 DEF SettlesCalls, IInv, UnmadeUntouched
<1>12. UnmadeUntouched'
  <2>1. ASSUME NEW m \in CallNo, m > n PROVE heard'[m] = <<>> /\ m \notin dropped'
    <3>1. m > issued /\ m \notin NosOf(K)
      BY <2>1, <1>1, <1>8 DEF n, CallNo
    <3> QED
      BY <3>1, <1>2 DEF SettlesCalls, IInv, UnmadeUntouched
  <2> QED
    BY <2>1, <1>1 DEF UnmadeUntouched
<1>13. ExactlyOneFate'
  <2>1. ASSUME NEW m \in 1..issued'
        PROVE  \/ m \in Pending' /\ heard'[m] = <<>> /\ m \notin dropped'
               \/ m \notin Pending' /\ Len(heard'[m]) = 1 /\ m \notin dropped'
               \/ m \notin Pending' /\ heard'[m] = <<>> /\ m \in dropped'
    <3>1. CASE m = n
      BY <3>1, <1>10, <1>11
    <3>2. CASE m # n
      <4>1. m \in 1..issued /\ m \in CallNo
        BY <3>2, <2>1, <1>1, PolicyAssumption DEF n, CallNo
      <4> QED
        BY <4>1, <3>2, <1>2, <1>10 DEF SettlesCalls, IInv, ExactlyOneFate
    <3> QED
      BY <3>1, <3>2
  <2> QED
    BY <2>1 DEF ExactlyOneFate
<1>14. TypeOK'
  BY <1>1, <1>2, <1>6 DEF IInv, TypeOK, SettlesCalls, TableServed, TableOK, Enqueue
<1> QED
  BY <1>6, <1>9, <1>12, <1>13, <1>14 DEF IInv, TableConsistent

\* Replies settle the callers of the requests they answer.
LEMMA RepliesSettle ==
  ASSUME IInv, NEW replies \in SUBSET wire, NEW good \in SUBSET replies,
         OnReplies(replies, good)
  PROVE  /\ Members(table, {o.seq : o \in replies}) \subseteq Live(table)
         /\ SettlesCalls(Members(table, {o.seq : o \in replies}))
<1> DEFINE S == {o.seq : o \in replies}
           K == Members(table, S)
           told(k) == CHOOSE o \in replies :
                        o.seq \in DOMAIN table.groups /\ k \in table.groups[o.seq]
           answer == [k \in K |-> [kind |-> IF told(k) \in good THEN "ok" ELSE "server",
                                   req  |-> told(k).req]]
<1>1. TableOK(table)
  BY DEF IInv, TableConsistent, TableServed
<1>2. K \subseteq Live(table)
  BY <1>1 DEF Members, TableOK, GroupsPartition
<1>3. \A k \in K : told(k) \in replies
  BY DEF Members
<1>4. answer \in [K -> Event]
  <2>1. \A k \in K : told(k).req \in Requests
    BY <1>3 DEF IInv, TypeOK, Outgoing
  <2>2. \A k \in K : [kind |-> IF told(k) \in good THEN "ok" ELSE "server",
                      req  |-> told(k).req] \in Event
    <3> HIDE DEF told, K
    <3> QED
      BY <2>1 DEF Event
  <2> HIDE DEF told, K
  <2> QED
    BY <2>2
<1>5. SettlesCalls(K)
  BY <1>2, <1>4, CompleteSettles DEF OnReplies
<1> QED
  BY <1>2, <1>5

LEMMA RepliesStep ==
  ASSUME IInv, NEW replies \in SUBSET wire, NEW good \in SUBSET replies,
         OnReplies(replies, good)
  PROVE  IInv'
<1> DEFINE K == Members(table, {o.seq : o \in replies})
<1>1. K \subseteq Live(table) /\ SettlesCalls(K)
  BY RepliesSettle
<1>2. TableServed(table', wire')
  BY ResolveServed DEF OnReplies, IInv, TableConsistent
<1>3. /\ Live(table') = Live(table) \ K
      /\ \A k \in Live(table') : table'.entries[k] = table.entries[k]
  <2>1. table'.entries = Except(table.entries, K)
    BY DEF OnReplies, ResolveIn, Without, DropGroups
  <2> QED
    BY <2>1 DEF Except, Live
<1>4. issued' = issued /\ alive' = alive /\ wire' \subseteq wire
  BY DEF OnReplies
<1> HIDE DEF K
<1>5. NumbersUnique(table, issued)' /\ UnmadeUntouched' /\ ExactlyOneFate'
  BY <1>1, <1>3, <1>4, HistoryStep
<1>6. TypeOK'
  BY <1>1, <1>2, <1>4 DEF IInv, TypeOK, SettlesCalls, TableServed, TableOK
<1> QED
  BY <1>2, <1>5, <1>6 DEF IInv, TableConsistent

\* Every step keeps the inductive invariant.
LEMMA NextStep ==
  ASSUME IInv, [Next]_vars
  PROVE  IInv'
<1>1. ASSUME NEW k \in Key, NEW r \in Requests, Enqueue(k, r) PROVE IInv'
  BY <1>1, EnqueueStep
<1>2. CASE Flush
  <2>1. TableServed(table', wire')
    BY <1>2, FlushServed DEF Flush, IInv, TableConsistent
  <2>2. /\ Live(table') = Live(table) /\ table'.entries = table.entries
        /\ wire' \subseteq Outgoing
    BY <1>2 DEF Flush, FlushIn, Live, IInv, TypeOK, TableType
  <2>3. NumbersUnique(table, issued)' /\ UnmadeUntouched' /\ ExactlyOneFate'
    BY <1>2, <2>2 DEF Flush, IInv, NumbersUnique, UnmadeUntouched, ExactlyOneFate, Pending, NosOf
  <2>4. TypeOK'
    BY <1>2, <2>1, <2>2 DEF Flush, IInv, TypeOK, TableServed, TableOK
  <2> QED
    BY <2>1, <2>3, <2>4 DEF IInv, TableConsistent
<1>3. ASSUME NEW k \in Key, Cancel(k) PROVE IInv'
  BY <1>3, DropSettles, RemoveStep DEF Cancel, Drop
<1>4. ASSUME NEW w \in Windows, ForgetInstance(w) PROVE IInv'
  BY <1>4, DropSettles, RemoveStep DEF ForgetInstance, Drop, KeysOf
<1>5. ASSUME NEW w \in Windows, Close(w) PROVE IInv'
  BY <1>5 DEF Close, IInv, TypeOK, TableConsistent, NumbersUnique, UnmadeUntouched,
              ExactlyOneFate, Pending, NosOf
<1>6. CASE Elapse
  <2>1. TableServed(table', wire')
    BY <1>6, ElapseServed DEF Elapse, IInv, TableConsistent
  <2>2. /\ Live(table') = Live(table)
        /\ \A k \in Live(table) : table'.entries[k].no = table.entries[k].no
    BY <1>6 DEF Elapse, ElapseIn, Sooner, Live
  <2>3. NumbersUnique(table, issued)' /\ UnmadeUntouched' /\ ExactlyOneFate'
    <3>1. Pending' = Pending
      BY <2>2 DEF Pending, NosOf
    <3> QED
      BY <1>6, <2>2, <3>1 DEF Elapse, IInv, NumbersUnique, UnmadeUntouched, ExactlyOneFate
  <2>4. TypeOK'
    BY <1>6, <2>1 DEF Elapse, IInv, TypeOK, TableServed, TableOK
  <2> QED
    BY <2>1, <2>3, <2>4 DEF IInv, TableConsistent
<1>7. CASE Tick
  <2> DEFINE K == Overdue(table) \cup {k \in Live(table) : ~alive[k[1]]}
  <2>1. K \subseteq Live(table) /\ [j \in K |-> Failure("timeout")] \in [K -> Event]
    BY DEF Overdue, Event, Failure
  <2> QED
    BY <1>7, <2>1, CompleteSettles, RemoveStep DEF Tick
<1>8. ASSUME NEW replies \in SUBSET wire, NEW good \in SUBSET replies,
             OnReplies(replies, good)
      PROVE  IInv'
  BY <1>8, RepliesStep
<1>9. CASE FailAllInFlight
  <2>1. [j \in Live(table) |-> Failure("transport")] \in [Live(table) -> Event]
    BY DEF Event, Failure
  <2> QED
    BY <1>9, <2>1, CompleteSettles, RemoveStep DEF FailAllInFlight
<1>10. CASE UNCHANGED vars
  BY <1>10 DEF vars, IInv, TypeOK, TableConsistent, NumbersUnique, UnmadeUntouched,
               ExactlyOneFate, Pending, NosOf
<1> QED
  BY <1>1, <1>2, <1>3, <1>4, <1>5, <1>6, <1>7, <1>8, <1>9, <1>10 DEF Next

LEMMA InitOK ==
  ASSUME Init
  PROVE  IInv
<1>1. TableServed(EmptyTable, {})
  BY DEF EmptyTable, TableServed, SentOnce, Served, TableOK, TableType, GroupsPartition,
         IndexExact, GroupsAgree, StagedWanted, Live
<1>2. Live(table) = {} /\ Pending = {}
  BY DEF Init, EmptyTable, Live, Pending, NosOf
<1>3. TypeOK
  BY <1>1, PolicyAssumption DEF Init, TypeOK, TableServed, TableOK
<1> QED
  BY <1>1, <1>2, <1>3 DEF Init, IInv, TableConsistent, NumbersUnique, UnmadeUntouched,
                          ExactlyOneFate

THEOREM Inductive == Spec => []IInv
<1>1. Init => IInv
  BY InitOK
<1>2. IInv /\ [Next]_vars => IInv'
  BY NextStep
<1> QED
  BY <1>1, <1>2, PTL DEF Spec

\* The state of the transport keeps its types (struct Transport).
THEOREM TypeCorrect == Spec => []TypeOK
<1>1. IInv => TypeOK
  BY DEF IInv
<1> QED
  BY <1>1, Inductive, PTL

\* For any windows, requests and policy, the table's maps never disagree and
\* every pending call has exactly one request on the way.
THEOREM TableIsConsistent == Spec => []TableConsistent
<1>1. IInv => TableConsistent
  BY DEF IInv
<1> QED
  BY <1>1, Inductive, PTL

\* Every call made has one terminal event, or was dropped without one, or is
\* still pending: the crate's "Exactly one terminal event per call".
THEOREM OneFatePerCall == Spec => []ExactlyOneFate
<1>1. IInv => ExactlyOneFate
  BY DEF IInv
<1> QED
  BY <1>1, Inductive, PTL

-----------------------------------------------------------------------------
(* The transport implements the safety part of CallLedger.                 *)

\* Settling some of the calls is a step of the ledger that settles them.
LEMMA SettleMaps ==
  ASSUME IInv, IInv', NEW K, K \subseteq Live(table), K # {}, SettlesCalls(K),
         issued' = issued, Pending' = Pending \ NosOf(K)
  PROVE  Ledger!Next
<1> DEFINE A == {m \in NosOf(K) : m \notin dropped'}
           D == NosOf(K) \ A
           state == [n \in CallNo |-> StateOf(n)]
           told == [n \in CallNo |-> Len(heard[n])]
<1>1. NosOf(K) \subseteq Pending
  BY DEF NosOf, Pending
<1>2. \A n \in Pending : n \in CallNo /\ n <= issued
  BY DEF Pending, NosOf, IInv, NumbersUnique, TypeOK, TableType, Entry, Live
<1>3. \A n \in CallNo : state[n] = StateOf(n) /\ state'[n] = StateOf(n)'
  OBVIOUS
<1>4. \A n \in CallNo : n \in Pending => state[n] = "pending"
  BY DEF StateOf
<1>5. NosOf(K) \subseteq Ledger!Waiting
  BY <1>1, <1>2, <1>4 DEF Ledger!Waiting
<1>6. ASSUME NEW n \in CallNo
      PROVE  /\ n \in A => StateOf(n)' = "answered" /\ Len(heard'[n]) = Len(heard[n]) + 1
             /\ n \in D => StateOf(n)' = "dropped" /\ Len(heard'[n]) = Len(heard[n])
             /\ n \notin A \cup D => StateOf(n)' = StateOf(n) /\ heard'[n] = heard[n]
  <2>1. issued \in Nat /\ n \in Nat
    BY DEF IInv, TypeOK, CallNo
  <2>2. CASE n \in NosOf(K)
    <3>1. n \notin Pending' /\ ~(n > issued)
      BY <1>1, <1>2, <2>1, <2>2
    <3>2. heard[n] = <<>>
      BY <1>1, <1>2, <2>2 DEF IInv, ExactlyOneFate, CallNo
    <3> QED
      BY <2>2, <3>1, <3>2 DEF SettlesCalls, StateOf
  <2>3. CASE n \notin NosOf(K)
    BY <2>3 DEF SettlesCalls, StateOf
  <2> QED
    BY <2>2, <2>3
<1>7. PICK n \in NosOf(K) : TRUE
  BY DEF NosOf
<1> HIDE DEF A, D
<1>8. Ledger!Step({}, A, D)
  BY <1>6 DEF Ledger!Step
<1>9. A \in SUBSET Ledger!Waiting /\ D \in SUBSET (Ledger!Waiting \ A) /\ n \in A \cup D
  BY <1>5, <1>7 DEF A, D
<1>10. n \in CallNo /\ n \in Ledger!Waiting
  BY <1>5, <1>7, <1>1, <1>2
<1>11. Ledger!SettleCall(n)
  BY <1>8, <1>9, <1>10 DEF Ledger!SettleCall, Ledger!Step
<1> QED
  BY <1>10, <1>11 DEF Ledger!Next

\* What a step that takes the entries K out does to Pending.
LEMMA PendingShrinks ==
  ASSUME IInv, NEW K, K \subseteq Live(table),
         table'.entries = Except(table.entries, K)
  PROVE  Pending' = Pending \ NosOf(K)
<1>1. \A j, k \in Live(table) : table.entries[j].no = table.entries[k].no => j = k
  BY DEF IInv, NumbersUnique
<1> QED
  BY <1>1 DEF Pending, NosOf, Except, Live

\* A new call, which may supersede one under its key.
LEMMA EnqueueMaps ==
  ASSUME IInv, IInv', NEW k \in Key, NEW r \in Requests, Enqueue(k, r)
  PROVE  Ledger!Next
<1> DEFINE K == {k} \cap Live(table)
           A == NosOf(K)
           n == issued + 1
<1>1. n \in CallNo /\ issued \in Nat /\ issued' = n /\ n > issued
  BY PolicyAssumption DEF IInv, TypeOK, Enqueue, CallNo
<1>2. \A m \in Pending : m \in CallNo /\ m <= issued
  BY DEF Pending, NosOf, IInv, NumbersUnique, TypeOK, TableType, Entry, Live
<1>3. A \subseteq Pending
  BY DEF NosOf, Pending
<1>4. A \in {{}} \cup {{m} : m \in Ledger!Waiting}
  <2>1. Pending \subseteq Ledger!Waiting
    BY <1>2 DEF Ledger!Waiting, StateOf
  <2>2. K = {} \/ K = {k}
    OBVIOUS
  <2>3. K = {k} => A = {table.entries[k].no}
    BY DEF NosOf
  <2>4. K = {} => A = {}
    BY DEF NosOf
  <2> HIDE DEF A
  <2> QED
    BY <1>3, <2>1, <2>2, <2>3, <2>4
<1>5. Pending' = (Pending \ A) \cup {n}
  <2>1. /\ Live(table') = Live(table) \cup {k}
        /\ table'.entries[k].no = n
        /\ \A j \in Live(table) \ {k} : table'.entries[j] = table.entries[j]
    BY DEF Enqueue, EnqueueIn, Insert, With, Without, Except, Live
  <2>2. \A j \in Live(table) \ {k} : table.entries[j].no \notin A
    BY DEF NosOf, IInv, NumbersUnique
  <2>3. Live(table) = (Live(table) \ {k}) \cup K
    OBVIOUS
  <2> QED
    BY <2>1, <2>2, <2>3 DEF Pending, NosOf
<1>6. \A j \in Live(table) : KeyOf(table.entries[j].no) = j
  BY DEF KeyOf, IInv, NumbersUnique
<1>7. /\ dropped' = dropped
      /\ \A m \in CallNo : heard'[m] = IF m \in A THEN Append(heard[m], Failure("shed")) ELSE heard[m]
  <2>1. {j \in K : alive[j[1]]} = K
    BY DEF Enqueue
  <2>2. NosOf(K \ K) = {}
    BY DEF NosOf
  <2>3. ASSUME NEW m \in A PROVE [j \in K |-> Failure("shed")][KeyOf(m)] = Failure("shed")
    BY <1>6 DEF NosOf
  <2> QED
    BY <2>1, <2>2, <2>3 DEF Enqueue, Complete
<1>8. ASSUME NEW m \in CallNo
      PROVE  /\ m = n => StateOf(m)' = "pending"
             /\ m \in A => StateOf(m)' = "answered"
             /\ m # n /\ m \notin A => StateOf(m)' = StateOf(m)
             /\ m \in A => Len(heard'[m]) = Len(heard[m]) + 1
             /\ m \notin A => heard'[m] = heard[m]
  <2>1. m \in Nat /\ (m # n => (m > n <=> m > issued))
    BY <1>1 DEF CallNo
  <2>2. m \in A => m # n /\ ~(m > n) /\ m \notin dropped /\ heard[m] = <<>>
    BY <1>1, <1>2, <1>3, <2>1 DEF IInv, ExactlyOneFate, CallNo
  <2>3. /\ m = n => StateOf(m)' = "pending"
        /\ m \in A => StateOf(m)' = "answered"
        /\ m # n /\ m \notin A => StateOf(m)' = StateOf(m)
    BY <1>1, <1>5, <1>7, <2>1, <2>2 DEF StateOf
  <2>4. m \in A => Len(heard'[m]) = 1
    <3>1. m \in A => heard'[m] = Append(<<>>, Failure("shed"))
      BY <1>7, <2>2
    <3>2. Failure("shed") \in Event
      BY DEF Failure, Event
    <3> QED
      BY <3>1, <3>2
  <2>5. m \in A => Len(heard[m]) = 0
    BY <2>2
  <2>6. ASSUME m \in A PROVE Len(heard'[m]) = Len(heard[m]) + 1
    <3>1. Len(heard'[m]) = 1 /\ Len(heard[m]) = 0
      BY <2>4, <2>5, <2>6
    <3> QED
      BY <3>1
  <2>7. m \notin A => heard'[m] = heard[m]
    <3> HIDE DEF A
    <3> QED
      BY <1>7
  <2> QED
    BY <2>3, <2>6, <2>7
<1>9. StateOf(n) = "unmade" /\ n \notin A
  BY <1>1, <1>2, <1>3 DEF StateOf
<1> HIDE DEF A, n
<1>10. Ledger!Step({n}, A, {})
  BY <1>8, <1>9 DEF Ledger!Step
<1>11. Ledger!Make(n)
  BY <1>1, <1>4, <1>9, <1>10 DEF Ledger!Make
<1> QED
  BY <1>1, <1>11 DEF Ledger!Next

\* The ledger sees nothing of a step that settles no call and makes none.
LEMMA QuietMaps ==
  ASSUME UNCHANGED <<issued, heard, dropped>>, Pending' = Pending
  PROVE  UNCHANGED Ledger!ledger
  BY DEF Ledger!ledger, StateOf

LEMMA StepMaps ==
  ASSUME IInv, IInv', [Next]_vars
  PROVE  [Ledger!Next]_(Ledger!ledger)
<1>1. ASSUME NEW k \in Key, NEW r \in Requests, Enqueue(k, r) PROVE Ledger!Next
  BY <1>1, EnqueueMaps
<1>2. CASE Flush
  <2>1. Pending' = Pending
    BY <1>2 DEF Flush, FlushIn, Pending, NosOf, Live
  <2> QED
    BY <1>2, <2>1, QuietMaps DEF Flush
<1>3. ASSUME NEW K, K \subseteq Live(table), K # {}, Drop(K) PROVE Ledger!Next
  <2>1. table'.entries = Except(table.entries, K)
    BY <1>3 DEF Drop, Without
  <2> QED
    BY <1>3, <2>1, DropSettles, PendingShrinks, SettleMaps DEF Drop
<1>4. ASSUME NEW K, K \subseteq Live(table), K # {}, NEW ev \in [K -> Event], Complete(K, ev),
             table' = Without(table, K), issued' = issued
      PROVE  Ledger!Next
  <2>1. table'.entries = Except(table.entries, K)
    BY <1>4 DEF Without
  <2> QED
    BY <1>4, <2>1, CompleteSettles, PendingShrinks, SettleMaps
<1>5. ASSUME NEW k \in Key, Cancel(k) PROVE Ledger!Next
  BY <1>3, <1>5 DEF Cancel
<1>6. ASSUME NEW w \in Windows, ForgetInstance(w) PROVE Ledger!Next
  BY <1>3, <1>6 DEF ForgetInstance, KeysOf
<1>7. ASSUME NEW w \in Windows, Close(w) PROVE UNCHANGED Ledger!ledger
  <2>1. Pending' = Pending
    BY <1>7 DEF Close, Pending, NosOf
  <2> QED
    BY <1>7, <2>1, QuietMaps DEF Close
<1>8. CASE Elapse
  <2>1. Live(table') = Live(table) /\ \A k \in Live(table) : table'.entries[k].no = table.entries[k].no
    BY <1>8 DEF Elapse, ElapseIn, Sooner, Live
  <2>2. Pending' = Pending
    BY <2>1 DEF Pending, NosOf
  <2> QED
    BY <1>8, <2>2, QuietMaps DEF Elapse
<1>9. CASE Tick
  <2> DEFINE K == Overdue(table) \cup {k \in Live(table) : ~alive[k[1]]}
  <2>1. K \subseteq Live(table) /\ [j \in K |-> Failure("timeout")] \in [K -> Event]
    BY DEF Overdue, Event, Failure
  <2>2. /\ K # {} /\ table' = Without(table, K) /\ issued' = issued
        /\ Complete(K, [j \in K |-> Failure("timeout")])
    BY <1>9 DEF Tick
  <2> QED
    BY <1>4, <2>1, <2>2
<1>10. ASSUME NEW replies \in SUBSET wire, NEW good \in SUBSET replies, OnReplies(replies, good)
       PROVE  [Ledger!Next]_(Ledger!ledger)
  <2> DEFINE K == Members(table, {o.seq : o \in replies})
  <2>1. K \subseteq Live(table) /\ SettlesCalls(K)
    BY <1>10, RepliesSettle
  <2>2. table'.entries = Except(table.entries, K) /\ issued' = issued
    BY <1>10 DEF OnReplies, ResolveIn, Without, DropGroups
  <2>3. Pending' = Pending \ NosOf(K)
    BY <2>1, <2>2, PendingShrinks
  <2>4. CASE K = {}
    <3>1. NosOf(K) = {}
      BY <2>4 DEF NosOf
    <3>2. heard' = heard /\ dropped' = dropped
      BY <2>1, <3>1 DEF SettlesCalls, IInv, TypeOK
    <3> QED
      BY <2>2, <2>3, <3>1, <3>2, QuietMaps
  <2>5. CASE K # {}
    BY <2>1, <2>2, <2>3, <2>5, SettleMaps
  <2> QED
    BY <2>4, <2>5
<1>11. CASE FailAllInFlight
  <2>1. [j \in Live(table) |-> Failure("transport")] \in [Live(table) -> Event]
    BY DEF Event, Failure
  <2> QED
    BY <1>4, <1>11, <2>1 DEF FailAllInFlight
<1>12. CASE UNCHANGED vars
  <2>1. Pending' = Pending
    BY <1>12 DEF vars, Pending, NosOf
  <2> QED
    BY <1>12, <2>1, QuietMaps DEF vars
<1> QED
  BY <1>1, <1>2, <1>5, <1>6, <1>7, <1>8, <1>9, <1>10, <1>11, <1>12 DEF Next

LEMMA InitMaps ==
  ASSUME Init
  PROVE  Ledger!Init
<1>1. Pending = {}
  BY DEF Init, EmptyTable, Live, Pending, NosOf
<1>2. \A n \in CallNo : n > issued /\ heard[n] = <<>>
  BY DEF Init, CallNo
<1> QED
  BY <1>1, <1>2 DEF Ledger!Init, StateOf

\* The transport implements the safety part of CallLedger: a call is answered
\* once or dropped, never both, never twice, and never comes back.
THEOREM ImplementsLedger == Spec => Ledger!Safety
<1>1. Init => Ledger!Init
  BY InitMaps
<1>2. IInv /\ IInv' /\ [Next]_vars => [Ledger!Next]_(Ledger!ledger)
  BY StepMaps
<1> QED
  BY <1>1, <1>2, Inductive, PTL DEF Spec, Ledger!Safety

-----------------------------------------------------------------------------
(* What a step may tell a window.                                          *)

\* A live call hears something only when completed, and only in a live window.
LEMMA CompleteTells ==
  ASSUME IInv, NEW K, K \subseteq Live(table), NEW ev \in [K -> Event], Complete(K, ev),
         NEW k \in Live(table)
  PROVE  LET n == table.entries[k].no
         IN \/ heard'[n] = heard[n]
            \/ k \in K /\ alive[k[1]] /\ heard'[n] = Append(<<>>, ev[k])
<1> DEFINE n == table.entries[k].no
           hears == {j \in K : alive[j[1]]}
<1>1. n \in CallNo /\ n \in 1..issued /\ n \in Pending
  BY DEF IInv, TypeOK, TableType, NumbersUnique, Entry, Live, CallNo, Pending, NosOf
<1>2. heard[n] = <<>>
  BY <1>1 DEF IInv, ExactlyOneFate
<1>3. \A j \in Live(table) : table.entries[j].no = n => j = k
  BY DEF IInv, NumbersUnique
<1>4. KeyOf(n) = k
  BY <1>3 DEF KeyOf
<1>5. n \in NosOf(hears) => k \in hears
  BY <1>3 DEF NosOf
<1>6. heard'[n] = IF n \in NosOf(hears) THEN Append(heard[n], ev[KeyOf(n)]) ELSE heard[n]
  BY <1>1 DEF Complete
<1> QED
  BY <1>2, <1>4, <1>5, <1>6

\* The reply a call gets is the one to the request its group sent.
LEMMA ToldOwnRequest ==
  ASSUME IInv, NEW replies \in SUBSET wire,
         NEW k \in Members(table, {o.seq : o \in replies}), NEW o \in replies,
         o.seq \in DOMAIN table.groups, k \in table.groups[o.seq]
  PROVE  o.req = table.entries[k].req
<1>1. PICK p \in table.staged \cup wire :
         p.seq = o.seq /\ \A j \in table.groups[o.seq] : table.entries[j].req = p.req
  BY DEF IInv, TableConsistent, TableServed, Served
<1>2. p = o
  BY <1>1 DEF IInv, TableConsistent, TableServed, SentOnce
<1> QED
  BY <1>1, <1>2

\* What each kind of step tells the live calls.
LEMMA StepTells ==
  ASSUME IInv, [Next]_vars, NEW k \in Live(table)
  PROVE  LET n == table.entries[k].no
         IN \/ heard'[n] = heard[n]
            \/ /\ alive[k[1]]
               /\ \E e \in Event : /\ heard'[n] = Append(<<>>, e)
                                  /\ e.req \in {table.entries[k].req, "none"}
<1> DEFINE Told == LET n == table.entries[k].no
                   IN \/ heard'[n] = heard[n]
                      \/ /\ alive[k[1]]
                         /\ \E e \in Event : /\ heard'[n] = Append(<<>>, e)
                                            /\ e.req \in {table.entries[k].req, "none"}
<1>1. ASSUME NEW K, K \subseteq Live(table), NEW ev \in [K -> Event], Complete(K, ev),
             \A j \in K : ev[j].req \in {table.entries[j].req, "none"}
      PROVE  Told
  BY <1>1, CompleteTells
<1>2. ASSUME NEW K, K \subseteq Live(table), NEW kind \in {"shed", "timeout", "transport"},
             Complete(K, [j \in K |-> Failure(kind)])
      PROVE  Told
  <2> DEFINE ev == [j \in K |-> Failure(kind)]
  <2>1. ev \in [K -> Event] /\ \A j \in K : ev[j].req \in {table.entries[j].req, "none"}
    BY <1>2 DEF Event, Failure
  <2> HIDE DEF ev
  <2>2. Complete(K, ev)
    BY <1>2 DEF ev
  <2> QED
    BY <1>1, <1>2, <2>1, <2>2
<1>3. ASSUME NEW j \in Key, NEW r \in Requests, Enqueue(j, r) PROVE Told
  <2>1. {j} \cap Live(table) \subseteq Live(table)
    OBVIOUS
  <2> QED
    BY <1>2, <1>3, <2>1 DEF Enqueue
<1>4. ASSUME Tick PROVE Told
  <2> DEFINE K == Overdue(table) \cup {j \in Live(table) : ~alive[j[1]]}
  <2>1. K \subseteq Live(table)
    BY DEF Overdue
  <2> QED
    BY <1>2, <1>4, <2>1 DEF Tick
<1>5. ASSUME FailAllInFlight PROVE Told
  BY <1>2, <1>5 DEF FailAllInFlight
<1>6. ASSUME NEW replies \in SUBSET wire, NEW good \in SUBSET replies, OnReplies(replies, good)
      PROVE  Told
  <2> DEFINE K == Members(table, {o.seq : o \in replies})
             told(j) == CHOOSE o \in replies :
                          o.seq \in DOMAIN table.groups /\ j \in table.groups[o.seq]
             answer == [j \in K |-> [kind |-> IF told(j) \in good THEN "ok" ELSE "server",
                                     req  |-> told(j).req]]
  <2>1. \A j \in K : /\ told(j) \in replies
                     /\ told(j).seq \in DOMAIN table.groups
                     /\ j \in table.groups[told(j).seq]
    BY DEF Members
  <2>2. \A j \in K : told(j).req = table.entries[j].req
    BY <2>1, ToldOwnRequest
  <2>3. \A j \in K : answer[j].req \in {table.entries[j].req, "none"}
    BY <2>2
  <2>4. K \subseteq Live(table)
    BY DEF Members, IInv, TableConsistent, TableServed, TableOK, GroupsPartition
  <2>5. \A j \in K : [kind |-> IF told(j) \in good THEN "ok" ELSE "server",
                      req  |-> told(j).req] \in Event
    <3>1. \A j \in K : told(j).req \in Requests
      BY <2>1 DEF IInv, TypeOK, Outgoing
    <3> HIDE DEF told, K
    <3> QED
      BY <3>1 DEF Event
  <2>6. answer \in [K -> Event]
    <3> HIDE DEF told, K
    <3> QED
      BY <2>5
  <2>7. Complete(K, answer)
    BY <1>6 DEF OnReplies
  <2> HIDE DEF K, answer
  <2> QED
    BY <1>1, <2>3, <2>4, <2>6, <2>7
<1>7. ASSUME heard' = heard PROVE Told
  BY <1>7
<1>8. ASSUME NEW j \in Key, Cancel(j) PROVE Told
  BY <1>7, <1>8 DEF Cancel, Drop
<1>9. ASSUME NEW w \in Windows, ForgetInstance(w) \/ Close(w) PROVE Told
  BY <1>7, <1>9 DEF ForgetInstance, Close, Drop
<1>10. ASSUME Flush \/ Elapse \/ UNCHANGED vars PROVE Told
  BY <1>7, <1>10 DEF Flush, Elapse, vars
<1> HIDE DEF Told
<1>11. Told
  BY <1>3, <1>4, <1>5, <1>6, <1>8, <1>9, <1>10 DEF Next
<1> QED
  BY <1>11 DEF Told

\* A window that is closed hears no more, whatever is still in flight: a sink
\* that is not alive gets nothing (tick, complete).
THEOREM ClosedWindowHearsNothing == Spec => ClosedHearsNothing
<1>1. IInv /\ [Next]_vars =>
        [\A k \in Live(table) : ~alive[k[1]] =>
           heard'[table.entries[k].no] = heard[table.entries[k].no]]_vars
  BY StepTells
<1> QED
  BY <1>1, Inductive, PTL DEF Spec, ClosedHearsNothing

\* However many callers shared a request and whatever was cancelled, repeated or
\* answered late, no call ever gets the answer to a request it did not make.
THEOREM AnswersAreOwn == Spec => AnswersOwnRequest
<1> DEFINE Own == \A k \in Live(table) :
                    LET n == table.entries[k].no
                    IN heard'[n] # heard[n] =>
                         \A i \in DOMAIN heard'[n] :
                           heard'[n][i].req \in {table.entries[k].req, "none"}
<1>1. ASSUME IInv, [Next]_vars PROVE Own
  <2>1. ASSUME NEW e \in Event, NEW i \in DOMAIN Append(<<>>, e)
        PROVE  Append(<<>>, e)[i] = e
    BY <2>1
  <2>2. ASSUME NEW k \in Live(table), heard'[table.entries[k].no] # heard[table.entries[k].no],
               NEW i \in DOMAIN heard'[table.entries[k].no]
        PROVE  heard'[table.entries[k].no][i].req \in {table.entries[k].req, "none"}
    <3>1. PICK e \in Event : /\ heard'[table.entries[k].no] = Append(<<>>, e)
                             /\ e.req \in {table.entries[k].req, "none"}
      BY <1>1, <2>2, StepTells
    <3> QED
      BY <2>1, <2>2, <3>1
  <2> QED
    BY <2>2
<1>2. IInv /\ [Next]_vars => [Own]_vars
  BY <1>1
<1> HIDE DEF Own
<1>3. Spec => [][Own]_vars
  BY <1>2, Inductive, PTL DEF Spec
<1> QED
  BY <1>3 DEF AnswersOwnRequest, Own

\* Both together: a sink hears the answers to its own calls, or that they
\* failed, and nothing once it is closed.
THEOREM HearsOnlyOwnHolds == Spec => HearsOnlyOwn
  BY ClosedWindowHearsNothing, AnswersAreOwn, PTL DEF HearsOnlyOwn
-----------------------------------------------------------------------------
(* A step at a time: what holds at 0, and after a number if it holds at it, *)
(* holds up to N; and a run of a step function is what its definition says. *)

LEMMA LeastOf ==
  ASSUME NEW S, S \subseteq Nat, S # {}
  PROVE  \E n \in S : \A o \in S : n <= o
<1>1. PICK n \in S : \A o \in S : ~(<<o, n>> \in OpToRel(<, Nat))
  BY WFMin, NatLessThanWellFounded, Zenon
<1>2. \A o \in S : ~(o < n)
  BY <1>1 DEF OpToRel
<1> QED BY <1>2

LEMMA UpTo ==
  ASSUME NEW N \in Nat, NEW G, 0 \in G,
         \A n \in 0..N : n # N /\ n \in G => n + 1 \in G
  PROVE  0..N \subseteq G
<1>1. SUFFICES ASSUME (0..N) \ G # {} PROVE FALSE
  OBVIOUS
<1> DEFINE S == (0..N) \ G
<1>2. S # {} /\ S \subseteq Nat
  BY <1>1
<1>3. PICK n \in S : \A o \in S : n <= o
  BY <1>2, LeastOf
<1>4. n \in 0..N /\ n # 0 /\ n \notin G
  OBVIOUS
<1>5. n - 1 \in 0..N /\ n - 1 < n /\ n - 1 # N /\ (n - 1) + 1 = n
  BY <1>4
<1>6. n - 1 \in G
  BY <1>3, <1>5
<1> QED BY <1>4, <1>5, <1>6

IsRun(f, N, S, b, g) == f \in [0..N -> S] /\ f[0] = b /\ \A n \in 1..N : f[n] = g[n][f[n - 1]]

LEMMA RunIs ==
  ASSUME NEW N \in Nat, NEW S, NEW b \in S, NEW g \in [1..N -> [S -> S]]
  PROVE  \E f : IsRun(f, N, S, b, g)
<1> DEFINE Runs(m, f) == IsRun(f, m, S, b, g)
           G == {m \in 0..N : \E f : Runs(m, f)}
<1>1. 0 \in G
  <2> DEFINE f == [n \in 0..0 |-> b]
  <2>1. Runs(0, f)
    BY DEF IsRun
  <2> HIDE DEF f, Runs
  <2>2. 0 \in 0..N
    OBVIOUS
  <2> QED BY <2>1, <2>2
<1>2. ASSUME NEW m \in 0..N, m # N, m \in G PROVE m + 1 \in G
  <2>1. PICK f : Runs(m, f)
    BY <1>2
  <2> DEFINE h == [n \in 0..m + 1 |-> IF n = m + 1 THEN g[m + 1][f[m]] ELSE f[n]]
  <2>2. m + 1 \in 1..N /\ m + 1 \in 0..N /\ m \in 0..m
    BY <1>2
  <2>3. f[m] \in S
    BY <2>1, <2>2 DEF IsRun
  <2>4. g[m + 1][f[m]] \in S
    BY <2>2, <2>3
  <2>5. \A n \in 0..m + 1 : n # m + 1 => n \in 0..m
    BY <1>2
  <2>6. h \in [0..m + 1 -> S]
    BY <2>1, <2>4, <2>5 DEF IsRun
  <2>7. h[0] = b
    BY <2>1, <1>2 DEF IsRun
  <2>8. ASSUME NEW n \in 1..m + 1 PROVE h[n] = g[n][h[n - 1]]
    <3>1. CASE n = m + 1
      <4>1. n - 1 = m /\ m # m + 1 /\ m \in 0..m + 1 /\ n \in 0..m + 1
        BY <3>1, <1>2
      <4> QED BY <3>1, <4>1
    <3>2. CASE n # m + 1
      <4>1. n \in 1..m /\ n - 1 # m + 1 /\ n - 1 \in 0..m + 1 /\ n \in 0..m + 1
        BY <3>2, <1>2
      <4> QED BY <3>2, <4>1, <2>1 DEF IsRun
    <3> QED BY <3>1, <3>2
  <2>9. Runs(m + 1, h)
    BY <2>6, <2>7, <2>8 DEF IsRun
  <2> QED BY <2>2, <2>9
<1> HIDE DEF G
<1>3. 0..N \subseteq G
  BY <1>1, <1>2, UpTo
<1>4. N \in G
  BY <1>3
<1>5. PICK f : Runs(N, f)
  BY <1>4 DEF G
<1> QED BY <1>5

-----------------------------------------------------------------------------
(* The host's two passes over a stream of commands.                        *)

LEMMA FrontOf ==
  ASSUME NEW S, NEW s \in Seq(S), s # << >>
  PROVE  /\ Front(s) \in Seq(S) /\ Len(s) \in Nat \ {0} /\ Len(Front(s)) = Len(s) - 1
         /\ \A k \in 1..Len(s) - 1 : Front(s)[k] = s[k]
         /\ Last(s) = s[Len(s)] /\ Last(s) \in S
<1>1. Len(s) \in Nat /\ Len(s) # 0 /\ \A k \in 1..Len(s) : s[k] \in S
  BY EmptySeq
<1>2. 1 \in Int /\ Len(s) - 1 \in Int /\ \A k \in 1..Len(s) - 1 : s[k] \in S /\ 1 + k - 1 = k
  BY <1>1
<1>3. /\ SubSeq(s, 1, Len(s) - 1) \in Seq(S)
      /\ Len(SubSeq(s, 1, Len(s) - 1)) = IF 1 <= Len(s) - 1 THEN Len(s) - 1 - 1 + 1 ELSE 0
      /\ \A k \in 1..Len(s) - 1 - 1 + 1 : SubSeq(s, 1, Len(s) - 1)[k] = s[1 + k - 1]
  BY <1>1, <1>2, SubSeqProperties
<1>4. Len(s) \in 1..Len(s)
  BY <1>1
<1>5. Front(s) \in Seq(S) /\ Len(Front(s)) = Len(s) - 1
  <2>1. \A n \in Nat \ {0} : (IF 1 <= n - 1 THEN n - 1 - 1 + 1 ELSE 0) = n - 1
    OBVIOUS
  <2> QED BY <1>1, <1>3, <2>1 DEF Front
<1>6. \A k \in 1..Len(s) - 1 : Front(s)[k] = s[k]
  BY <1>1, <1>2, <1>3 DEF Front
<1>7. Last(s) = s[Len(s)] /\ Last(s) \in S
  BY <1>1, <1>4 DEF Last
<1> QED BY <1>1, <1>5, <1>6, <1>7

States(C) == [ok : BOOLEAN, open : Seq(C)]

LEMMA CheckIs ==
  ASSUME NEW C, NEW s \in States(C), NEW c \in C
  PROVE  Check(s, c) \in States(C)
<1>1. s.ok \in BOOLEAN /\ s.open \in Seq(C)
  BY DEF States
<1>2. Malformed \in States(C)
  BY DEF Malformed, States
<1>3. [s EXCEPT !.open = Append(@, c)] \in States(C)
  BY <1>1 DEF States
<1>4. s.open # << >> => Front(s.open) \in Seq(C)
  BY <1>1, FrontOf
<1>5. s.open # << >> => [s EXCEPT !.open = Front(@)] \in States(C)
  BY <1>1, <1>4 DEF States
<1> QED BY <1>2, <1>3, <1>5 DEF Check, Opening, Closing

LEMMA CheckedIs ==
  ASSUME NEW C, NEW buf \in Seq(C)
  PROVE  /\ Checked(buf) \in [0..Len(buf) -> States(C)]
         /\ Checked(buf)[0] = [ok |-> TRUE, open |-> << >>]
         /\ \A n \in 1..Len(buf) : Checked(buf)[n] = Check(Checked(buf)[n - 1], buf[n])
<1> DEFINE b == [ok |-> TRUE, open |-> << >>]
           g == [n \in 1..Len(buf) |-> [s \in States(C) |-> Check(s, buf[n])]]
<1>1. Len(buf) \in Nat /\ b \in States(C) /\ \A n \in 1..Len(buf) : buf[n] \in C
  BY DEF States
<1>2. \A s \in States(C), n \in 1..Len(buf) : Check(s, buf[n]) \in States(C)
  BY <1>1, CheckIs
<1>3. g \in [1..Len(buf) -> [States(C) -> States(C)]]
  BY <1>2
<1>4. \A s \in States(C), n \in 1..Len(buf) : g[n][s] = Check(s, buf[n])
  OBVIOUS
<1> HIDE DEF b, g
<1> DEFINE S == States(C)
           N == Len(buf)
<1>5. PICK f : IsRun(f, N, S, b, g)
  BY <1>1, <1>3, RunIs
<1>6. \A n \in 0..Len(buf) : n # 0 => f[n - 1] \in States(C) /\ n \in 1..Len(buf)
  BY <1>1, <1>5 DEF IsRun
<1>7. f = [n \in 0..Len(buf) |-> IF n = 0 THEN b ELSE Check(f[n - 1], buf[n])]
  <2>1. f = [n \in 0..Len(buf) |-> f[n]]
    BY <1>5 DEF IsRun
  <2>2. \A n \in 0..Len(buf) : f[n] = IF n = 0 THEN b ELSE Check(f[n - 1], buf[n])
    BY <1>4, <1>5, <1>6 DEF IsRun
  <2> QED BY <2>1, <2>2
<1> DEFINE run == CHOOSE h : h = [n \in 0..Len(buf) |-> IF n = 0 THEN b ELSE Check(h[n - 1], buf[n])]
<1>8. run = [n \in 0..Len(buf) |-> IF n = 0 THEN b ELSE Check(run[n - 1], buf[n])]
  BY <1>7
<1>9. Checked(buf) = run
  BY DEF Checked, b
<1> HIDE DEF run
<1>10. run[0] = b
  BY <1>1, <1>8
<1>11. \A n \in 1..Len(buf) : run[n] = Check(run[n - 1], buf[n])
  BY <1>1, <1>8
<1>12. run \in [0..Len(buf) -> States(C)]
  <2> DEFINE G == {n \in 0..Len(buf) : run[n] \in States(C)}
  <2>1. 0 \in G
    BY <1>1, <1>10
  <2>2. ASSUME NEW n \in 0..Len(buf), n # Len(buf), n \in G PROVE n + 1 \in G
    <3>1. n + 1 \in 1..Len(buf) /\ n + 1 \in 0..Len(buf) /\ (n + 1) - 1 = n
      BY <1>1, <2>2
    <3>2. run[n + 1] = Check(run[n], buf[n + 1])
      BY <1>11, <3>1
    <3> QED BY <1>2, <2>2, <3>1, <3>2
  <2> HIDE DEF G
  <2>3. 0..Len(buf) \subseteq G
    BY <1>1, <2>1, <2>2, UpTo
  <2>4. \A n \in 0..Len(buf) : run[n] \in States(C)
    BY <2>3 DEF G
  <2>5. run = [n \in 0..Len(buf) |-> run[n]]
    BY <1>8
  <2> QED BY <2>4, <2>5
<1> QED BY <1>9, <1>10, <1>11, <1>12 DEF b

MatchStates(N) == [stack : Seq(1..N), at : [1..N -> 0..N]]

LEMMA MatchIs ==
  ASSUME NEW C, NEW buf \in Seq(C), NEW i \in 1..Len(buf), NEW s \in MatchStates(Len(buf))
  PROVE  Match(s, i, buf) \in MatchStates(Len(buf))
<1> DEFINE N == Len(buf)
<1>1. N \in Nat /\ i \in 1..N /\ i \in 0..N /\ s.stack \in Seq(1..N) /\ s.at \in [1..N -> 0..N]
  BY DEF MatchStates
<1>2. s \in [stack : Seq(1..N), at : [1..N -> 0..N]]
  BY DEF MatchStates
<1> HIDE DEF N
<1>3. s.stack # << >> => Front(s.stack) \in Seq(1..N) /\ Last(s.stack) \in 1..N
  BY <1>1, FrontOf
<1>5. Append(s.stack, i) \in Seq(1..N)
  BY <1>1
<1>6. s.stack # << >> => [s.at EXCEPT ![Last(s.stack)] = i] \in [1..N -> 0..N]
  BY <1>1, <1>3
<1>7. \A x \in Seq(1..N), y \in [1..N -> 0..N] : [stack |-> x, at |-> y] \in MatchStates(N)
  BY DEF MatchStates
<1>8. [s EXCEPT !.stack = Append(@, i)] \in MatchStates(N)
  BY <1>1, <1>2, <1>5 DEF MatchStates
<1>9. s.stack # << >> =>
        [stack |-> Front(s.stack), at |-> [s.at EXCEPT ![Last(s.stack)] = i]] \in MatchStates(N)
  BY <1>3, <1>6, <1>7
<1> QED BY <1>8, <1>9 DEF Match, N

LEMMA MatchedIs ==
  ASSUME NEW C, NEW buf \in Seq(C)
  PROVE  /\ Matched(buf) \in [0..Len(buf) -> MatchStates(Len(buf))]
         /\ Matched(buf)[0] = [stack |-> << >>, at |-> [i \in 1..Len(buf) |-> 0]]
         /\ \A n \in 1..Len(buf) : Matched(buf)[n] = Match(Matched(buf)[n - 1], n, buf)
<1> DEFINE N == Len(buf)
           S == MatchStates(N)
           b == [stack |-> << >>, at |-> [i \in DOMAIN buf |-> 0]]
           g == [n \in 1..N |-> [s \in S |-> Match(s, n, buf)]]
<1>1. N \in Nat /\ DOMAIN buf = 1..N
  OBVIOUS
<1>2. b \in S
  BY <1>1 DEF MatchStates
<1>3. \A s \in S, n \in 1..N : Match(s, n, buf) \in S
  BY MatchIs
<1>4. g \in [1..N -> [S -> S]]
  BY <1>3
<1>5. \A s \in S, n \in 1..N : g[n][s] = Match(s, n, buf)
  OBVIOUS
<1> HIDE DEF b, g, S
<1>6. PICK f : IsRun(f, N, S, b, g)
  BY <1>1, <1>2, <1>4, RunIs
<1>7. f \in [0..N -> S] /\ f[0] = b /\ \A n \in 1..N : f[n] = g[n][f[n - 1]]
  BY <1>6 DEF IsRun
<1>8. \A n \in 0..N : n # 0 => f[n - 1] \in S /\ n \in 1..N
  BY <1>1, <1>7
<1>9. f = [n \in 0..N |-> IF n = 0 THEN b ELSE Match(f[n - 1], n, buf)]
  <2>1. f = [n \in 0..N |-> f[n]]
    BY <1>7
  <2>2. \A n \in 0..N : f[n] = IF n = 0 THEN b ELSE Match(f[n - 1], n, buf)
    BY <1>5, <1>7, <1>8
  <2> QED BY <2>1, <2>2
<1> DEFINE run == CHOOSE h : h = [n \in 0..N |-> IF n = 0 THEN b ELSE Match(h[n - 1], n, buf)]
<1>10. run = [n \in 0..N |-> IF n = 0 THEN b ELSE Match(run[n - 1], n, buf)]
  BY <1>9
<1>11. Matched(buf) = run
  BY DEF Matched, b
<1> HIDE DEF run
<1>12. run[0] = b
  BY <1>1, <1>10
<1>13. \A n \in 1..N : run[n] = Match(run[n - 1], n, buf)
  BY <1>1, <1>10
<1>14. run \in [0..N -> S]
  <2> DEFINE G == {n \in 0..N : run[n] \in S}
  <2>1. 0 \in G
    BY <1>1, <1>2, <1>12
  <2>2. ASSUME NEW n \in 0..N, n # N, n \in G PROVE n + 1 \in G
    <3>1. n + 1 \in 1..N /\ n + 1 \in 0..N /\ (n + 1) - 1 = n
      <4>1. \A m \in Nat : \A o \in 0..m : o # m => o + 1 \in 1..m /\ o + 1 \in 0..m /\ (o + 1) - 1 = o
        OBVIOUS
      <4> QED BY <1>1, <2>2, <4>1
    <3>2. run[n + 1] = Match(run[n], n + 1, buf)
      BY <1>13, <3>1
    <3> QED BY <1>3, <2>2, <3>1, <3>2
  <2> HIDE DEF G
  <2>3. 0..N \subseteq G
    BY <1>1, <2>1, <2>2, UpTo
  <2>4. \A n \in 0..N : run[n] \in S
    BY <2>3 DEF G
  <2>5. run = [n \in 0..N |-> run[n]]
    BY <1>10
  <2> QED BY <2>4, <2>5
<1> QED BY <1>1, <1>11, <1>12, <1>13, <1>14 DEF b, S

\* An increasing sequence has as many elements as it is long.
LEMMA Increasing ==
  ASSUME NEW s \in Seq(Nat), \A k, l \in 1..Len(s) : k < l => s[k] < s[l]
  PROVE  Cardinality({s[k] : k \in 1..Len(s)}) = Len(s)
<1> DEFINE S == {s[k] : k \in 1..Len(s)}
           f == [k \in 1..Len(s) |-> s[k]]
<1>1. Len(s) \in Nat /\ \A k \in 1..Len(s) : s[k] \in Nat
  OBVIOUS
<1>2. \A k, l \in 1..Len(s) : k < l \/ l < k \/ k = l
  BY <1>1
<1>3. \A k, l \in 1..Len(s) : s[k] = s[l] => k = l
  BY <1>1, <1>2
<1>4. f \in [1..Len(s) -> S]
  OBVIOUS
<1>5. \A k, l \in 1..Len(s) : f[k] = f[l] => k = l
  BY <1>3
<1>6. \A x \in S : \E k \in 1..Len(s) : f[k] = x
  OBVIOUS
<1>7. f \in Bijection(1..Len(s), S)
  BY <1>4, <1>5, <1>6, Fun_IsBij
<1>8. ExistsBijection(1..Len(s), S)
  BY <1>7 DEF ExistsBijection
<1> QED BY <1>1, <1>8, FS_CountingElements

-----------------------------------------------------------------------------
(* The two passes agree, and what the second finds is what has been paired. *)

\* The openings up to k whose closing, if it has been found, is after k.
Around(buf, at, k) == {i \in Openings(buf) : i <= k /\ (at[i] = 0 \/ k < at[i])}

\* After n commands, all accepted.
OpenIs(buf, n, opened, s) ==
  /\ Len(s.stack) = Len(opened) /\ Len(opened) <= MaxDepth
  /\ \A k \in 1..Len(s.stack) :
       /\ s.stack[k] \in Openings(buf) /\ s.stack[k] <= n
       /\ opened[k] = buf[s.stack[k]] /\ s.at[s.stack[k]] = 0
  /\ \A k, l \in 1..Len(s.stack) : k < l => s.stack[k] < s.stack[l]
  /\ \A i \in Openings(buf) : i <= n => s.at[i] # 0 \/ \E k \in 1..Len(s.stack) : s.stack[k] = i

PairsAre(buf, n, at) ==
  /\ \A i \in 1..Len(buf) : at[i] # 0 =>
       /\ i \in Openings(buf) /\ at[i] \in Closings(buf) /\ i < at[i] /\ at[i] <= n
       /\ Closes(buf[at[i]], buf[i])
  /\ \A j \in Closings(buf) : j <= n => \E i \in Openings(buf) : at[i] = j
  /\ \A i, k \in Openings(buf) : i < k /\ k <= n /\ at[i] # 0 => at[i] < k \/ (at[k] # 0 /\ at[k] < at[i])
  /\ \A k \in Openings(buf) : k <= n => Cardinality(Around(buf, at, k)) <= MaxDepth

LEMMA Kinds ==
  ASSUME NEW C, NEW buf \in Seq(C), NEW i
  PROVE  /\ Openings(buf) \subseteq 1..Len(buf) /\ Closings(buf) \subseteq 1..Len(buf)
         /\ ~(i \in Openings(buf) /\ i \in Closings(buf))
         /\ i \in 1..Len(buf) => (i \in Openings(buf) <=> buf[i].op \in Opening)
                                   /\ (i \in Closings(buf) <=> buf[i].op \in Closing)
<1>1. DOMAIN buf = 1..Len(buf)
  OBVIOUS
<1>2. ASSUME NEW op, op \in Opening PROVE op \notin Closing
  BY <1>2 DEF Opening, Closing
<1>3. Openings(buf) = {k \in 1..Len(buf) : buf[k].op \in Opening}
  BY <1>1 DEF Openings
<1>4. Closings(buf) = {k \in 1..Len(buf) : buf[k].op \in Closing}
  BY <1>1 DEF Closings
<1> QED BY <1>2, <1>3, <1>4

\* What is open is what is around the next opening.
LEMMA OpenCount ==
  ASSUME NEW C, NEW buf \in Seq(C), NEW n \in 0..Len(buf), NEW opened \in Seq(C),
         NEW s \in MatchStates(Len(buf)), OpenIs(buf, n, opened, s), PairsAre(buf, n, s.at),
         n + 1 \in Openings(buf)
  PROVE  /\ Around(buf, s.at, n + 1) = {Append(s.stack, n + 1)[k] : k \in 1..Len(s.stack) + 1}
         /\ Cardinality(Around(buf, s.at, n + 1)) = Len(opened) + 1
         /\ s.at[n + 1] = 0
         /\ \A k, l \in 1..Len(s.stack) + 1 :
              k < l => Append(s.stack, n + 1)[k] < Append(s.stack, n + 1)[l]
<1> DEFINE t == Append(s.stack, n + 1)
<1>1. /\ Len(buf) \in Nat /\ n \in Nat /\ s.stack \in Seq(1..Len(buf)) /\ s.at \in [1..Len(buf) -> 0..Len(buf)]
      /\ Len(s.stack) \in Nat /\ Openings(buf) \subseteq 1..Len(buf)
  BY Kinds DEF MatchStates
<1>2. n + 1 \in 1..Len(buf) /\ t \in Seq(1..Len(buf)) /\ t \in Seq(Nat) /\ Len(t) = Len(s.stack) + 1
  BY <1>1
<1>3. t[Len(t)] = n + 1 /\ \A k \in 1..Len(s.stack) : t[k] = s.stack[k]
  BY <1>1, <1>2
<1>4. \A k \in 1..Len(s.stack) : s.stack[k] < n + 1 /\ s.stack[k] \in Nat
  BY <1>1 DEF OpenIs
<1>5. \A k \in 1..Len(t) : k = Len(t) \/ k \in 1..Len(s.stack)
  <2>1. \A m \in Nat : \A k \in 1..m + 1 : k = m + 1 \/ k \in 1..m
    OBVIOUS
  <2> HIDE DEF t
  <2> QED BY <1>1, <1>2, <2>1
<1> HIDE DEF t
<1>6. ASSUME NEW k \in 1..Len(t), NEW l \in 1..Len(t), k < l PROVE t[k] < t[l]
  <2>1. k \in 1..Len(s.stack)
    BY <1>1, <1>2, <1>6
  <2>2. CASE l \in 1..Len(s.stack)
    BY <1>3, <1>6, <2>1, <2>2 DEF OpenIs
  <2>3. CASE l = Len(t)
    BY <1>3, <1>4, <2>1, <2>3
  <2> QED BY <1>5, <2>2, <2>3
<1>7. Cardinality({t[k] : k \in 1..Len(t)}) = Len(t)
  BY <1>2, <1>6, Increasing
<1>8. s.at[n + 1] = 0
  <2>1. s.at[n + 1] # 0 => n + 1 < s.at[n + 1] /\ s.at[n + 1] <= n /\ s.at[n + 1] \in Nat
    BY <1>1, <1>2 DEF PairsAre
  <2> QED BY <1>1, <2>1
<1>9. ASSUME NEW i \in Around(buf, s.at, n + 1) PROVE \E k \in 1..Len(t) : t[k] = i
  <2>1. i \in Openings(buf) /\ i \in 1..Len(buf) /\ i <= n + 1 /\ (s.at[i] = 0 \/ n + 1 < s.at[i])
    BY <1>1, <1>9 DEF Around
  <2>2. s.at[i] # 0 => s.at[i] <= n /\ s.at[i] \in Nat
    BY <1>1, <2>1 DEF PairsAre
  <2>3. s.at[i] = 0
    BY <1>1, <2>1, <2>2
  <2>4. CASE i = n + 1
    <3>1. Len(t) \in 1..Len(t)
      BY <1>1, <1>2
    <3> QED BY <1>3, <2>4, <3>1
  <2>5. CASE i # n + 1
    <3>1. i <= n
      BY <1>1, <2>1, <2>5
    <3>2. PICK k \in 1..Len(s.stack) : s.stack[k] = i
      BY <2>1, <2>3, <3>1 DEF OpenIs
    <3>3. k \in 1..Len(t)
      BY <1>1, <1>2
    <3>4. t[k] = i
      BY <1>3, <3>2
    <3> QED BY <3>3, <3>4
  <2> QED BY <2>4, <2>5
<1>10. ASSUME NEW k \in 1..Len(t) PROVE t[k] \in Around(buf, s.at, n + 1)
  <2>1. CASE k = Len(t)
    BY <1>1, <1>2, <1>3, <1>8, <2>1 DEF Around
  <2>2. CASE k \in 1..Len(s.stack)
    <3>1. s.stack[k] \in Openings(buf) /\ s.stack[k] < n + 1 /\ s.at[s.stack[k]] = 0 /\ s.stack[k] \in Nat
      BY <1>4, <2>2 DEF OpenIs
    <3>2. s.stack[k] <= n + 1
      BY <1>1, <3>1
    <3> QED BY <1>3, <2>2, <3>1, <3>2 DEF Around
  <2> QED BY <1>5, <2>1, <2>2
<1>11. Around(buf, s.at, n + 1) = {t[k] : k \in 1..Len(t)}
  BY <1>9, <1>10
<1>12. Len(t) = Len(opened) + 1
  BY <1>2 DEF OpenIs
<1> QED BY <1>2, <1>6, <1>7, <1>8, <1>11, <1>12 DEF t

LEMMA OpeningKeeps ==
  ASSUME NEW C, NEW buf \in Seq(C), NEW n \in 0..Len(buf), NEW opened \in Seq(C),
         NEW s \in MatchStates(Len(buf)), OpenIs(buf, n, opened, s), PairsAre(buf, n, s.at),
         n + 1 \in Openings(buf), Len(opened) < MaxDepth
  PROVE  /\ OpenIs(buf, n + 1, Append(opened, buf[n + 1]), [s EXCEPT !.stack = Append(@, n + 1)])
         /\ PairsAre(buf, n + 1, s.at)
<1> DEFINE t == Append(s.stack, n + 1)
           o == Append(opened, buf[n + 1])
           z == [s EXCEPT !.stack = Append(@, n + 1)]
<1>1. /\ Len(buf) \in Nat /\ n \in Nat /\ s.stack \in Seq(1..Len(buf)) /\ s.at \in [1..Len(buf) -> 0..Len(buf)]
      /\ Len(s.stack) \in Nat /\ Openings(buf) \subseteq 1..Len(buf) /\ MaxDepth \in Nat
      /\ Closings(buf) \subseteq 1..Len(buf) /\ n + 1 \notin Closings(buf)
  BY Kinds, FramesAssumption DEF MatchStates
<1>2. n + 1 \in 1..Len(buf) /\ Len(t) = Len(s.stack) + 1 /\ buf[n + 1] \in C
  BY <1>1
<1>3. t[Len(t)] = n + 1 /\ \A k \in 1..Len(s.stack) : t[k] = s.stack[k]
  BY <1>1, <1>2
<1>4. Len(s.stack) = Len(opened)
  BY DEF OpenIs
<1>5. o[Len(t)] = buf[n + 1] /\ Len(o) = Len(t) /\ \A k \in 1..Len(s.stack) : o[k] = opened[k]
  BY <1>2, <1>4
<1>6. \A k \in 1..Len(t) : k = Len(t) \/ k \in 1..Len(s.stack)
  <2>1. \A m \in Nat : \A k \in 1..m + 1 : k = m + 1 \/ k \in 1..m
    OBVIOUS
  <2> QED BY <1>1, <1>2, <2>1
<1>7. z.stack = t /\ z.at = s.at
  BY DEF MatchStates
<1>8. /\ \A k, l \in 1..Len(t) : k < l => t[k] < t[l]
      /\ s.at[n + 1] = 0
      /\ Cardinality(Around(buf, s.at, n + 1)) = Len(opened) + 1
  <2>1. /\ \A k, l \in 1..Len(s.stack) + 1 : k < l => t[k] < t[l]
        /\ s.at[n + 1] = 0
        /\ Cardinality(Around(buf, s.at, n + 1)) = Len(opened) + 1
    <3>1. \A k, l \in 1..Len(s.stack) + 1 :
             k < l => Append(s.stack, n + 1)[k] < Append(s.stack, n + 1)[l]
      BY OpenCount, Zenon
    <3>2. s.at[n + 1] = 0
      BY OpenCount, SMTT(30)
    <3>3. Cardinality(Around(buf, s.at, n + 1)) = Len(opened) + 1
      BY OpenCount, SMTT(30)
    <3> QED BY <3>1, <3>2, <3>3
  <2> QED BY <1>2, <2>1
<1>9. \A k \in 1..Len(s.stack) : k \in 1..Len(t)
  BY <1>1, <1>2
<1>10. Len(t) \in 1..Len(t) /\ Len(o) <= MaxDepth
  BY <1>1, <1>2, <1>4, <1>5
<1> HIDE DEF t, o, z
<1>11. ASSUME NEW k \in 1..Len(t)
       PROVE  t[k] \in Openings(buf) /\ t[k] <= n + 1 /\ o[k] = buf[t[k]] /\ s.at[t[k]] = 0
  <2>1. CASE k = Len(t)
    BY <1>1, <1>2, <1>3, <1>5, <1>8, <2>1
  <2>2. CASE k \in 1..Len(s.stack)
    <3>1. /\ s.stack[k] \in Openings(buf) /\ s.stack[k] <= n
          /\ opened[k] = buf[s.stack[k]] /\ s.at[s.stack[k]] = 0
      BY <2>2 DEF OpenIs
    <3>2. s.stack[k] \in Nat
      BY <1>1, <3>1
    <3>3. s.stack[k] <= n + 1
      BY <1>1, <3>1, <3>2
    <3> QED BY <1>3, <1>5, <2>2, <3>1, <3>3
  <2> QED BY <1>6, <2>1, <2>2
<1>12. ASSUME NEW i \in Openings(buf), i <= n + 1
       PROVE  s.at[i] # 0 \/ \E k \in 1..Len(t) : t[k] = i
  <2>1. CASE i = n + 1
    BY <1>3, <1>10, <2>1
  <2>2. CASE i # n + 1
    <3>1. i <= n
      BY <1>1, <1>12, <2>2
    <3>2. s.at[i] # 0 \/ \E k \in 1..Len(s.stack) : s.stack[k] = i
      BY <3>1 DEF OpenIs
    <3> QED BY <1>3, <1>9, <3>2
  <2> QED BY <2>1, <2>2
<1>13. OpenIs(buf, n + 1, o, z)
  BY <1>5, <1>7, <1>8, <1>10, <1>11, <1>12 DEF OpenIs
<1>14. ASSUME NEW i \in 1..Len(buf), s.at[i] # 0
       PROVE  /\ i \in Openings(buf) /\ s.at[i] \in Closings(buf) /\ i < s.at[i] /\ s.at[i] <= n
              /\ Closes(buf[s.at[i]], buf[i]) /\ s.at[i] <= n + 1 /\ s.at[i] < n + 1
  <2>1. /\ i \in Openings(buf) /\ s.at[i] \in Closings(buf) /\ i < s.at[i] /\ s.at[i] <= n
        /\ Closes(buf[s.at[i]], buf[i])
    BY <1>14 DEF PairsAre
  <2>2. s.at[i] \in 0..Len(buf) /\ 0..Len(buf) \subseteq Nat
    BY <1>1
  <2> QED BY <1>1, <2>1, <2>2
<1>15. ASSUME NEW j \in Closings(buf), j <= n + 1 PROVE \E i \in Openings(buf) : s.at[i] = j
  <2>1. j <= n
    BY <1>1, <1>15
  <2> QED BY <2>1 DEF PairsAre
<1>16. ASSUME NEW i \in Openings(buf), NEW k \in Openings(buf), i < k, k <= n + 1, s.at[i] # 0
       PROVE  s.at[i] < k \/ (s.at[k] # 0 /\ s.at[k] < s.at[i])
  <2>1. CASE k = n + 1
    BY <1>1, <1>14, <1>16, <2>1
  <2>2. CASE k # n + 1
    <3>1. k <= n
      BY <1>1, <1>16, <2>2
    <3> QED BY <1>16, <3>1 DEF PairsAre
  <2> QED BY <2>1, <2>2
<1>17. ASSUME NEW k \in Openings(buf), k <= n + 1
       PROVE  Cardinality(Around(buf, s.at, k)) <= MaxDepth
  <2>1. CASE k = n + 1
    <3>1. Len(opened) + 1 <= MaxDepth
      BY <1>1, <1>4
    <3> QED BY <1>8, <2>1, <3>1
  <2>2. CASE k # n + 1
    <3>1. k <= n
      BY <1>1, <1>17, <2>2
    <3> QED BY <3>1 DEF PairsAre
  <2> QED BY <2>1, <2>2
<1>18. PairsAre(buf, n + 1, s.at)
  BY <1>14, <1>15, <1>16, <1>17 DEF PairsAre
<1> QED BY <1>13, <1>18 DEF o, z

LEMMA ClosingKeeps ==
  ASSUME NEW C, NEW buf \in Seq(C), NEW n \in 0..Len(buf), NEW opened \in Seq(C),
         NEW s \in MatchStates(Len(buf)), OpenIs(buf, n, opened, s), PairsAre(buf, n, s.at),
         n + 1 \in Closings(buf), opened # << >>, Closes(buf[n + 1], Last(opened)),
         NEW z, z = [stack |-> Front(s.stack), at |-> [s.at EXCEPT ![Last(s.stack)] = n + 1]]
  PROVE  /\ s.stack # << >> /\ Last(s.stack) \in Openings(buf) /\ s.at[Last(s.stack)] = 0
         /\ Last(s.stack) <= n
         /\ \A k \in Openings(buf) : Last(s.stack) < k /\ k <= n => s.at[k] # 0
         /\ OpenIs(buf, n + 1, Front(opened), z)
         /\ PairsAre(buf, n + 1, z.at)
<1> DEFINE x == Last(s.stack)
           L == Len(s.stack)
           t == Front(s.stack)
           o == Front(opened)
<1>1. /\ Len(buf) \in Nat /\ n \in Nat /\ s.stack \in Seq(1..Len(buf)) /\ s.at \in [1..Len(buf) -> 0..Len(buf)]
      /\ Openings(buf) \subseteq 1..Len(buf) /\ MaxDepth \in Nat
      /\ Closings(buf) \subseteq 1..Len(buf) /\ n + 1 \notin Openings(buf)
  BY Kinds, FramesAssumption DEF MatchStates
<1>2. Len(opened) = L /\ L <= MaxDepth
  BY DEF OpenIs
<1>3. Len(opened) # 0
  BY EmptySeq
<1>4. s.stack # << >>
  BY <1>1, <1>2, <1>3, EmptySeq
<1>5. /\ L \in Nat \ {0} /\ Len(t) = L - 1 /\ x = s.stack[L] /\ x \in 1..Len(buf)
      /\ \A k \in 1..L - 1 : t[k] = s.stack[k]
  BY <1>1, <1>4, FrontOf
<1>6. Len(o) = L - 1 /\ Last(opened) = opened[L] /\ \A k \in 1..L - 1 : o[k] = opened[k]
  BY <1>2, FrontOf
<1>7. L \in 1..L /\ \A k \in 1..L - 1 : k \in 1..L /\ k < L
  BY <1>5
<1>8. x \in Openings(buf) /\ x <= n /\ opened[L] = buf[x] /\ s.at[x] = 0
  BY <1>5, <1>7 DEF OpenIs
<1>9. z.stack = t /\ z.at = [s.at EXCEPT ![x] = n + 1]
  OBVIOUS
<1>10. z.at[x] = n + 1 /\ \A i \in 1..Len(buf) : i # x => z.at[i] = s.at[i]
  BY <1>1, <1>5, <1>9
<1>11. \A k \in 1..L : k = L \/ k \in 1..L - 1
  BY <1>5
<1>12. \A k, l \in 1..L : k < l => s.stack[k] < s.stack[l]
  BY DEF OpenIs
<1> HIDE DEF x, L, t, o
<1>13. \A k \in 1..L - 1 : t[k] < x
  BY <1>5, <1>7, <1>12
<1>14. \A i \in Openings(buf) : i <= n + 1 => i <= n /\ i \in 1..Len(buf) /\ i \in Nat
  BY <1>1
<1>15. \A i \in 1..Len(buf) : s.at[i] \in Nat
  <2>1. \A i \in 1..Len(buf) : s.at[i] \in 0..Len(buf)
    BY <1>1
  <2>2. 0..Len(buf) \subseteq Nat
    BY <1>1
  <2> QED BY <2>1, <2>2
<1>16. ASSUME NEW k \in 1..L - 1
       PROVE  t[k] \in Openings(buf) /\ t[k] <= n + 1 /\ o[k] = buf[t[k]] /\ z.at[t[k]] = 0
  <2>1. /\ s.stack[k] \in Openings(buf) /\ s.stack[k] <= n
        /\ opened[k] = buf[s.stack[k]] /\ s.at[s.stack[k]] = 0
    BY <1>7 DEF OpenIs, L
  <2>2. t[k] = s.stack[k] /\ o[k] = opened[k] /\ t[k] < x
    BY <1>5, <1>6, <1>13
  <2>3. t[k] \in Nat /\ t[k] \in 1..Len(buf) /\ x \in Nat
    <3>1. x \in Nat
      BY <1>5
    <3>2. t[k] \in 1..Len(buf)
      BY <1>1, <2>1, <2>2
    <3> QED BY <3>1, <3>2
  <2>4. t[k] # x /\ t[k] <= n + 1
    BY <1>1, <2>1, <2>2, <2>3
  <2> QED BY <1>10, <2>1, <2>2, <2>3, <2>4
<1>17. \A k, l \in 1..L - 1 : k < l => t[k] < t[l]
  BY <1>5, <1>7, <1>12
<1>18. ASSUME NEW i \in Openings(buf), i <= n, s.at[i] = 0
       PROVE  i = x \/ \E k \in 1..L - 1 : t[k] = i
  <2>1. PICK k \in 1..L : s.stack[k] = i
    BY <1>18 DEF OpenIs, L
  <2> QED BY <1>5, <1>11, <2>1
<1>19. ASSUME NEW i \in Openings(buf), i <= n + 1
       PROVE  z.at[i] # 0 \/ \E k \in 1..L - 1 : t[k] = i
  <2>1. i <= n /\ i \in 1..Len(buf)
    BY <1>14, <1>19
  <2>2. CASE i = x
    BY <1>1, <1>10, <2>2
  <2>3. CASE i # x
    BY <1>10, <1>18, <2>1, <2>3
  <2> QED BY <2>2, <2>3
<1>20. L - 1 <= MaxDepth
  BY <1>1, <1>2, <1>5
<1>21. OpenIs(buf, n + 1, o, z)
  BY <1>5, <1>6, <1>9, <1>16, <1>17, <1>19, <1>20 DEF OpenIs
<1>22. ASSUME NEW k \in Openings(buf), x < k, k <= n PROVE s.at[k] # 0
  <2>1. k # x /\ x \in Nat /\ k \in Nat
    <3>1. x \in Nat
      BY <1>5
    <3>2. k \in 1..Len(buf)
      BY <1>1, <1>22
    <3>3. k \in Nat
      BY <3>2
    <3> QED BY <1>22, <3>1, <3>3
  <2>2. \A l \in 1..L - 1 : t[l] # k
    <3>1. SUFFICES ASSUME NEW l \in 1..L - 1, t[l] = k PROVE FALSE
      OBVIOUS
    <3>2. k < x
      BY <1>13, <3>1
    <3> QED BY <1>22, <2>1, <3>2
  <2> QED BY <1>18, <1>22, <2>1, <2>2
<1>23. ASSUME NEW i \in 1..Len(buf), s.at[i] # 0
       PROVE  /\ i \in Openings(buf) /\ s.at[i] \in Closings(buf) /\ i < s.at[i] /\ s.at[i] <= n
              /\ Closes(buf[s.at[i]], buf[i]) /\ s.at[i] <= n + 1 /\ s.at[i] < n + 1
              /\ i # x /\ z.at[i] = s.at[i]
  <2>1. /\ i \in Openings(buf) /\ s.at[i] \in Closings(buf) /\ i < s.at[i] /\ s.at[i] <= n
        /\ Closes(buf[s.at[i]], buf[i])
    BY <1>23 DEF PairsAre
  <2>2. s.at[i] \in Nat /\ i # x
    BY <1>8, <1>15, <1>23
  <2>3. s.at[i] <= n + 1 /\ s.at[i] < n + 1
    BY <1>1, <2>1, <2>2
  <2> QED BY <1>10, <2>1, <2>2, <2>3
<1>24. ASSUME NEW i \in 1..Len(buf), z.at[i] # 0
       PROVE  /\ i \in Openings(buf) /\ z.at[i] \in Closings(buf) /\ i < z.at[i] /\ z.at[i] <= n + 1
              /\ Closes(buf[z.at[i]], buf[i])
  <2>1. CASE i = x
    <3>1. x < n + 1 /\ n + 1 <= n + 1
      <4>1. x \in Nat
        BY <1>5
      <4> QED BY <1>1, <1>8, <4>1
    <3> QED BY <1>6, <1>8, <1>10, <2>1, <3>1
  <2>2. CASE i # x
    BY <1>10, <1>23, <1>24, <2>2
  <2> QED BY <2>1, <2>2
<1>25. ASSUME NEW j \in Closings(buf), j <= n + 1 PROVE \E i \in Openings(buf) : z.at[i] = j
  <2>1. CASE j = n + 1
    BY <1>8, <1>10, <2>1
  <2>2. CASE j # n + 1
    <3>1. j <= n /\ j # 0
      BY <1>1, <1>25, <2>2
    <3>2. PICK i \in Openings(buf) : s.at[i] = j
      BY <3>1 DEF PairsAre
    <3> QED BY <1>1, <1>23, <3>1, <3>2
  <2> QED BY <2>1, <2>2
<1>26. ASSUME NEW i \in Openings(buf), NEW k \in Openings(buf), i < k, k <= n + 1, z.at[i] # 0
       PROVE  z.at[i] < k \/ (z.at[k] # 0 /\ z.at[k] < z.at[i])
  <2>1. k <= n /\ i \in 1..Len(buf) /\ k \in 1..Len(buf)
    BY <1>1, <1>14, <1>26
  <2>2. CASE i = x
    <3>1. s.at[k] # 0
      BY <1>22, <1>26, <2>1, <2>2
    <3> QED BY <1>10, <1>23, <2>1, <2>2, <3>1
  <2>3. CASE i # x
    <3>1. s.at[i] # 0 /\ z.at[i] = s.at[i]
      BY <1>10, <1>26, <2>1, <2>3
    <3>2. s.at[i] < k \/ (s.at[k] # 0 /\ s.at[k] < s.at[i])
      BY <1>26, <2>1, <3>1 DEF PairsAre
    <3> QED BY <1>23, <2>1, <3>1, <3>2
  <2> QED BY <2>2, <2>3
<1>27. ASSUME NEW k \in Openings(buf), k <= n + 1
       PROVE  Cardinality(Around(buf, z.at, k)) <= MaxDepth
  <2>1. k <= n /\ k < n + 1 /\ n + 1 # 0
    BY <1>1, <1>14, <1>27
  <2>2. ASSUME NEW i \in Openings(buf)
        PROVE  (z.at[i] = 0 \/ k < z.at[i]) <=> (s.at[i] = 0 \/ k < s.at[i])
    <3>1. CASE i = x
      BY <1>8, <1>10, <2>1, <3>1
    <3>2. CASE i # x
      BY <1>1, <1>10, <3>2
    <3> QED BY <3>1, <3>2
  <2>3. Around(buf, z.at, k) = Around(buf, s.at, k)
    BY <2>2 DEF Around
  <2>4. Cardinality(Around(buf, s.at, k)) <= MaxDepth
    BY <2>1 DEF PairsAre
  <2> QED BY <2>3, <2>4
<1>28. PairsAre(buf, n + 1, z.at)
  BY <1>24, <1>25, <1>26, <1>27 DEF PairsAre
<1> QED BY <1>4, <1>8, <1>21, <1>22, <1>28 DEF x, o

LEMMA OthersKeep ==
  ASSUME NEW C, NEW buf \in Seq(C), NEW n \in 0..Len(buf), NEW opened \in Seq(C),
         NEW s \in MatchStates(Len(buf)), OpenIs(buf, n, opened, s), PairsAre(buf, n, s.at),
         n + 1 \notin Openings(buf), n + 1 \notin Closings(buf)
  PROVE  OpenIs(buf, n + 1, opened, s) /\ PairsAre(buf, n + 1, s.at)
<1>1. /\ Len(buf) \in Nat /\ n \in Nat /\ s.stack \in Seq(1..Len(buf)) /\ s.at \in [1..Len(buf) -> 0..Len(buf)]
      /\ Openings(buf) \subseteq 1..Len(buf) /\ Closings(buf) \subseteq 1..Len(buf)
  BY Kinds DEF MatchStates
<1>2. \A i \in 1..Len(buf) : i <= n => i <= n + 1
  BY <1>1
<1>3. \A i \in 1..Len(buf) : i <= n + 1 => i <= n \/ i = n + 1
  BY <1>1
<1>4. \A i \in Openings(buf) : i <= n + 1 => i <= n
  BY <1>1, <1>3
<1>5. \A i \in Closings(buf) : i <= n + 1 => i <= n
  BY <1>1, <1>3
<1>6. \A i \in Openings(buf) : i <= n => i <= n + 1
  BY <1>1, <1>2
<1>7. \A i \in Closings(buf) : i <= n => i <= n + 1
  BY <1>1, <1>2
<1>8. OpenIs(buf, n + 1, opened, s)
  BY <1>4, <1>6 DEF OpenIs
<1>9. PairsAre(buf, n + 1, s.at)
  BY <1>4, <1>5, <1>7 DEF PairsAre
<1> QED BY <1>8, <1>9

\* One command more, and the two passes still agree, unless it is refused.
LEMMA StepKeeps ==
  ASSUME NEW C, NEW buf \in Seq(C), NEW n \in 0..Len(buf), n # Len(buf),
         NEW v \in States(C), v.ok, NEW s \in MatchStates(Len(buf)),
         OpenIs(buf, n, v.open, s), PairsAre(buf, n, s.at), Check(v, buf[n + 1]).ok
  PROVE  /\ OpenIs(buf, n + 1, Check(v, buf[n + 1]).open, Match(s, n + 1, buf))
         /\ PairsAre(buf, n + 1, Match(s, n + 1, buf).at)
<1>1. n + 1 \in 1..Len(buf) /\ v.open \in Seq(C) /\ s.stack \in Seq(1..Len(buf))
  <2>1. Len(buf) \in Nat
    OBVIOUS
  <2>2. n + 1 \in 1..Len(buf)
    BY <2>1
  <2> QED BY <2>2 DEF States, MatchStates
<1>2. /\ n + 1 \in Openings(buf) <=> buf[n + 1].op \in Opening
      /\ n + 1 \in Closings(buf) <=> buf[n + 1].op \in Closing
      /\ ~(n + 1 \in Openings(buf) /\ n + 1 \in Closings(buf))
  BY <1>1, Kinds
<1>3. CASE n + 1 \in Openings(buf)
  <2>1. Len(v.open) < MaxDepth /\ Check(v, buf[n + 1]).open = Append(v.open, buf[n + 1])
    <3>1. Len(v.open) \in Nat /\ MaxDepth \in Nat
      BY <1>1, FramesAssumption
    <3>2. ~(Len(v.open) >= MaxDepth)
      BY <1>2, <1>3 DEF Check, Malformed
    <3>3. Check(v, buf[n + 1]).open = Append(v.open, buf[n + 1])
      BY <1>2, <1>3, <3>2 DEF Check, States
    <3> QED BY <3>1, <3>2, <3>3
  <2>2. Match(s, n + 1, buf) = [s EXCEPT !.stack = Append(@, n + 1)]
    BY <1>2, <1>3 DEF Match
  <2>3. [s EXCEPT !.stack = Append(@, n + 1)].at = s.at
    BY DEF MatchStates
  <2>4. /\ OpenIs(buf, n + 1, Append(v.open, buf[n + 1]), [s EXCEPT !.stack = Append(@, n + 1)])
        /\ PairsAre(buf, n + 1, s.at)
    BY <1>1, <1>3, <2>1, OpeningKeeps
  <2> QED BY <2>1, <2>2, <2>3, <2>4
<1>4. CASE n + 1 \in Closings(buf)
  <2> DEFINE z == [stack |-> Front(s.stack), at |-> [s.at EXCEPT ![Last(s.stack)] = n + 1]]
  <2>1. buf[n + 1].op \in Closing /\ buf[n + 1].op \notin Opening
    BY <1>2, <1>4
  <2>2. v.open # << >> /\ Closes(buf[n + 1], Last(v.open))
    BY <2>1 DEF Check, Malformed
  <2>3. Check(v, buf[n + 1]).open = Front(v.open)
    BY <2>1, <2>2 DEF Check, States
  <2>4. s.stack # << >> /\ OpenIs(buf, n + 1, Front(v.open), z) /\ PairsAre(buf, n + 1, z.at)
    <3> DEFINE opened == v.open
    <3>1. z = [stack |-> Front(s.stack), at |-> [s.at EXCEPT ![Last(s.stack)] = n + 1]]
      BY DEF z
    <3>2. opened \in Seq(C) /\ opened # << >> /\ Closes(buf[n + 1], Last(opened)) /\ OpenIs(buf, n, opened, s)
      BY <1>1, <2>2
    <3> HIDE DEF z, opened
    <3>3. s.stack # << >>
      BY <1>4, <3>1, <3>2, ClosingKeeps
    <3>4. OpenIs(buf, n + 1, Front(opened), z)
      BY <1>4, <3>1, <3>2, ClosingKeeps, ZenonT(30)
    <3>5. PairsAre(buf, n + 1, z.at)
      BY <1>4, <3>1, <3>2, ClosingKeeps, SMTT(30)
    <3> QED BY <3>3, <3>4, <3>5 DEF opened
  <2>5. Match(s, n + 1, buf) = z
    BY <2>1, <2>4 DEF Match
  <2> HIDE DEF z
  <2> QED BY <2>3, <2>4, <2>5
<1>5. CASE n + 1 \notin Openings(buf) /\ n + 1 \notin Closings(buf)
  <2>1. buf[n + 1].op \notin Opening /\ buf[n + 1].op \notin Closing
    BY <1>2, <1>5
  <2>2. Check(v, buf[n + 1]) = v /\ Match(s, n + 1, buf) = s
    BY <2>1 DEF Check, Match
  <2> QED BY <1>1, <1>5, <2>2, OthersKeep
<1> QED BY <1>3, <1>4, <1>5

\* Before the first command.
LEMMA NoneYet ==
  ASSUME NEW C, NEW buf \in Seq(C), NEW s \in MatchStates(Len(buf)),
         s = [stack |-> << >>, at |-> [i \in 1..Len(buf) |-> 0]]
  PROVE  OpenIs(buf, 0, << >>, s) /\ PairsAre(buf, 0, s.at)
<1>1. /\ Len(s.stack) = 0 /\ Len(<< >>) = 0 /\ MaxDepth \in Nat /\ Len(buf) \in Nat
      /\ Openings(buf) \subseteq 1..Len(buf) /\ Closings(buf) \subseteq 1..Len(buf)
  BY FramesAssumption, Kinds
<1>2. 1..Len(s.stack) = {} /\ 0 <= MaxDepth /\ \A i \in 1..Len(buf) : ~(i <= 0)
  BY <1>1
<1>3. \A i \in 1..Len(buf) : s.at[i] = 0
  OBVIOUS
<1>4. OpenIs(buf, 0, << >>, s)
  BY <1>1, <1>2, <1>3 DEF OpenIs
<1>5. PairsAre(buf, 0, s.at)
  BY <1>1, <1>2, <1>3 DEF PairsAre
<1> QED BY <1>4, <1>5

Agree(buf, n) ==
  /\ OpenIs(buf, n, Checked(buf)[n].open, Matched(buf)[n])
  /\ PairsAre(buf, n, Matched(buf)[n].at)

LEMMA AgreeSteps ==
  ASSUME NEW C, NEW buf \in Seq(C)
  PROVE  /\ Checked(buf)[0].ok /\ Agree(buf, 0)
         /\ \A n \in 0..Len(buf) :
              n # Len(buf) /\ Checked(buf)[n + 1].ok
                => Checked(buf)[n].ok /\ (Agree(buf, n) => Agree(buf, n + 1))
<1>1. /\ Checked(buf) \in [0..Len(buf) -> States(C)]
      /\ Checked(buf)[0] = [ok |-> TRUE, open |-> << >>]
      /\ \A n \in 1..Len(buf) : Checked(buf)[n] = Check(Checked(buf)[n - 1], buf[n])
  BY CheckedIs
<1>2. /\ Matched(buf) \in [0..Len(buf) -> MatchStates(Len(buf))]
      /\ Matched(buf)[0] = [stack |-> << >>, at |-> [i \in 1..Len(buf) |-> 0]]
      /\ \A n \in 1..Len(buf) : Matched(buf)[n] = Match(Matched(buf)[n - 1], n, buf)
  BY MatchedIs
<1>3. Len(buf) \in Nat /\ 0 \in 0..Len(buf)
  OBVIOUS
<1>4. Agree(buf, 0)
  <2> DEFINE s == Matched(buf)[0]
  <2>1. s \in MatchStates(Len(buf)) /\ s = [stack |-> << >>, at |-> [i \in 1..Len(buf) |-> 0]]
    BY <1>2, <1>3
  <2>2. Checked(buf)[0].open = << >>
    BY <1>1
  <2> HIDE DEF s
  <2>3. OpenIs(buf, 0, << >>, s) /\ PairsAre(buf, 0, s.at)
    BY <2>1, NoneYet
  <2> QED BY <2>2, <2>3 DEF Agree, s
<1>5. ASSUME NEW n \in 0..Len(buf), n # Len(buf), Checked(buf)[n + 1].ok
      PROVE  Checked(buf)[n].ok /\ (Agree(buf, n) => Agree(buf, n + 1))
  <2>1. n + 1 \in 1..Len(buf) /\ (n + 1) - 1 = n
    BY <1>3, <1>5
  <2>2. /\ Checked(buf)[n + 1] = Check(Checked(buf)[n], buf[n + 1])
        /\ Matched(buf)[n + 1] = Match(Matched(buf)[n], n + 1, buf)
    BY <1>1, <1>2, <2>1
  <2>3. Checked(buf)[n].ok
    BY <1>5, <2>2 DEF Check
  <2>4. ASSUME Agree(buf, n) PROVE Agree(buf, n + 1)
    <3> DEFINE v == Checked(buf)[n]
               s == Matched(buf)[n]
    <3>1. v \in States(C) /\ s \in MatchStates(Len(buf))
      BY <1>1, <1>2
    <3>2. OpenIs(buf, n, v.open, s) /\ PairsAre(buf, n, s.at)
      BY <2>4 DEF Agree
    <3>3. v.ok /\ Check(v, buf[n + 1]).ok
      BY <1>5, <2>2, <2>3
    <3>4. /\ Checked(buf)[n + 1] = Check(v, buf[n + 1])
          /\ Matched(buf)[n + 1] = Match(s, n + 1, buf)
      BY <2>2
    <3> HIDE DEF v, s
    <3>5. /\ OpenIs(buf, n + 1, Check(v, buf[n + 1]).open, Match(s, n + 1, buf))
          /\ PairsAre(buf, n + 1, Match(s, n + 1, buf).at)
      BY <1>5, <3>1, <3>2, <3>3, StepKeeps
    <3> QED BY <3>4, <3>5 DEF Agree
  <2> QED BY <2>3, <2>4
<1> QED BY <1>1, <1>4, <1>5

LEMMA AcceptedAgrees ==
  ASSUME NEW C, NEW buf \in Seq(C), Checked(buf)[Len(buf)].ok
  PROVE  Agree(buf, Len(buf))
<1> DEFINE N == Len(buf)
           G == {n \in 0..N : Checked(buf)[n].ok => Agree(buf, n)}
<1>1. N \in Nat /\ 0 \in 0..N /\ N \in 0..N
  OBVIOUS
<1>2. 0 \in G
  BY <1>1, AgreeSteps
<1>3. ASSUME NEW n \in 0..N, n # N, n \in G PROVE n + 1 \in G
  <2>1. n + 1 \in 0..N
    BY <1>1, <1>3
  <2>2. Checked(buf)[n + 1].ok => Checked(buf)[n].ok /\ (Agree(buf, n) => Agree(buf, n + 1))
    BY <1>3, AgreeSteps
  <2> QED BY <1>3, <2>1, <2>2
<1> HIDE DEF N, G
<1>4. 0..N \subseteq G
  BY <1>1, <1>2, <1>3, UpTo
<1> QED BY <1>1, <1>4 DEF N, G

\* What the host accepts pairs up, and match_scopes finds the pairs.
LEMMA AcceptedPairs ==
  ASSUME NEW C, NEW buf \in Seq(C), Validate(buf)
  PROVE  \E m \in Pairings(buf) : \A i \in Openings(buf) : MatchScopes(buf)[i] = m[i]
<1> DEFINE at == MatchScopes(buf)
           s  == Matched(buf)[Len(buf)]
           m  == [i \in Openings(buf) |-> at[i]]
<1>1. /\ Len(buf) \in Nat /\ Openings(buf) \subseteq 1..Len(buf) /\ Closings(buf) \subseteq 1..Len(buf)
  BY Kinds
<1>2. Checked(buf)[Len(buf)] = [ok |-> TRUE, open |-> << >>]
  BY DEF Validate
<1>3. Agree(buf, Len(buf))
  BY <1>2, AcceptedAgrees
<1>4. OpenIs(buf, Len(buf), << >>, s) /\ PairsAre(buf, Len(buf), at)
  BY <1>2, <1>3 DEF Agree, MatchScopes
<1>5. at = s.at
  BY DEF MatchScopes
<1>6. \A i \in Openings(buf) : i <= Len(buf) /\ i \in 1..Len(buf)
  BY <1>1
<1>7. \A i \in Closings(buf) : i <= Len(buf) /\ i \in 1..Len(buf)
  BY <1>1
<1> HIDE DEF at, s
<1>8. ASSUME NEW i \in Openings(buf) PROVE at[i] # 0
  <2>1. Len(s.stack) = 0
    BY <1>4 DEF OpenIs
  <2>2. 1..Len(s.stack) = {}
    BY <2>1
  <2> QED BY <1>4, <1>5, <1>6, <2>2 DEF OpenIs
<1>9. ASSUME NEW i \in Openings(buf)
      PROVE  at[i] \in Closings(buf) /\ i < at[i] /\ Closes(buf[at[i]], buf[i])
  BY <1>4, <1>6, <1>8 DEF PairsAre
<1>10. m \in [Openings(buf) -> Closings(buf)] /\ \A i \in Openings(buf) : m[i] = at[i]
  BY <1>9
<1> HIDE DEF m
<1>11. ASSUME NEW j \in Closings(buf) PROVE \E i \in Openings(buf) : m[i] = j
  BY <1>4, <1>7, <1>10 DEF PairsAre
<1>12. \A i \in Openings(buf) : i < m[i] /\ Closes(buf[m[i]], buf[i])
  BY <1>9, <1>10
<1>13. ASSUME NEW i \in Openings(buf), NEW k \in Openings(buf), i < k
       PROVE  m[k] < m[i] \/ m[i] < k
  <2>1. at[i] < k \/ (at[k] # 0 /\ at[k] < at[i])
    BY <1>4, <1>6, <1>8, <1>13 DEF PairsAre
  <2> QED BY <1>10, <2>1
<1>14. ASSUME NEW k \in Openings(buf)
       PROVE  Cardinality({i \in Openings(buf) : i <= k /\ k < m[i]}) <= MaxDepth
  <2>1. {i \in Openings(buf) : i <= k /\ k < m[i]} = Around(buf, at, k)
    BY <1>8, <1>10 DEF Around
  <2>2. Cardinality(Around(buf, at, k)) <= MaxDepth
    BY <1>4, <1>6 DEF PairsAre
  <2> QED BY <2>1, <2>2
<1>15. m \in Pairings(buf)
  BY <1>10, <1>11, <1>12, <1>13, <1>14 DEF Pairings
<1> QED BY <1>10, <1>15 DEF at

\* After n commands, the host has found the pairs of m that are complete.
Follows(buf, m, n) ==
  /\ Checked(buf)[n].ok /\ Agree(buf, n)
  /\ \A i \in Openings(buf) :
       /\ Matched(buf)[n].at[i] = 0 \/ Matched(buf)[n].at[i] = m[i]
       /\ i <= n => (Matched(buf)[n].at[i] = 0 <=> n < m[i])

LEMMA FollowsOpening ==
  ASSUME NEW C, NEW buf \in Seq(C), NEW m \in Pairings(buf), NEW n \in 0..Len(buf), n # Len(buf),
         NEW v \in States(C), NEW s \in MatchStates(Len(buf)), v.ok,
         OpenIs(buf, n, v.open, s), PairsAre(buf, n, s.at),
         \A i \in Openings(buf) : i <= n => (s.at[i] = 0 <=> n < m[i]),
         n + 1 \in Openings(buf)
  PROVE  Check(v, buf[n + 1]).ok /\ Match(s, n + 1, buf).at = s.at /\ s.at[n + 1] = 0
<1>1. /\ Len(buf) \in Nat /\ n \in Nat /\ v.open \in Seq(C) /\ MaxDepth \in Nat
      /\ Openings(buf) \subseteq 1..Len(buf) /\ Closings(buf) \subseteq 1..Len(buf)
      /\ n + 1 \in 1..Len(buf) /\ n + 1 \notin Closings(buf)
      /\ buf[n + 1].op \in Opening /\ buf[n + 1].op \notin Closing
  <2>1. n + 1 \in 1..Len(buf)
    BY Kinds
  <2>2. /\ n + 1 \notin Closings(buf) /\ buf[n + 1].op \in Opening
        /\ buf[n + 1].op \notin Closing
    BY <2>1, Kinds
  <2> QED BY <2>1, <2>2, Kinds, FramesAssumption DEF States
<1>2. m \in [Openings(buf) -> Closings(buf)] /\ n + 1 < m[n + 1]
  BY DEF Pairings
<1> DEFINE opened == v.open
           A == {i \in Openings(buf) : i <= n + 1 /\ n + 1 < m[i]}
<1>3. opened \in Seq(C) /\ OpenIs(buf, n, opened, s)
  BY <1>1
<1> HIDE DEF opened
<1>4. Cardinality(Around(buf, s.at, n + 1)) = Len(opened) + 1
  BY <1>3, OpenCount, SMTT(30)
<1>5. s.at[n + 1] = 0
  BY <1>3, OpenCount, SMTT(30)
<1>6. Cardinality(A) <= MaxDepth
  BY DEF Pairings
<1>7. ASSUME NEW i \in Openings(buf), i <= n + 1
      PROVE  (s.at[i] = 0 \/ n + 1 < s.at[i]) <=> n + 1 < m[i]
  <2>1. CASE i = n + 1
    BY <1>2, <1>5, <2>1
  <2>2. CASE i # n + 1
    <3>1. i <= n /\ i \in 1..Len(buf)
      BY <1>1, <1>7, <2>2
    <3>2. m[i] \in Closings(buf) /\ m[i] \in 1..Len(buf) /\ m[i] # n + 1
      BY <1>1, <1>2
    <3>3. m[i] \in Nat
      BY <1>1, <3>2
    <3>4. n < m[i] <=> n + 1 < m[i]
      BY <1>1, <3>2, <3>3
    <3>5. s.at[i] # 0 => s.at[i] <= n /\ s.at[i] \in Nat
      <4>1. s.at[i] \in 0..Len(buf) /\ 0..Len(buf) \subseteq Nat
        BY <1>1, <3>1 DEF MatchStates
      <4> QED BY <3>1, <4>1 DEF PairsAre
    <3>6. ~(s.at[i] # 0 /\ n + 1 < s.at[i])
      BY <1>1, <3>5
    <3>7. s.at[i] = 0 <=> n < m[i]
      BY <3>1
    <3> QED BY <1>1, <3>4, <3>6, <3>7
  <2> QED BY <2>1, <2>2
<1>8. A = Around(buf, s.at, n + 1)
  BY <1>7 DEF Around
<1>9. Len(opened) + 1 <= MaxDepth /\ Len(opened) \in Nat
  <2> HIDE DEF A
  <2>1. Len(opened) + 1 <= MaxDepth
    BY <1>4, <1>6, <1>8
  <2> QED BY <1>3, <2>1
<1>10. ~(Len(opened) >= MaxDepth)
  BY <1>1, <1>9
<1>11. Check(v, buf[n + 1]).ok
  <2>1. ~(Len(v.open) >= MaxDepth)
    BY <1>10 DEF opened
  <2>2. Check(v, buf[n + 1]) = [v EXCEPT !.open = Append(@, buf[n + 1])]
    BY <1>1, <2>1 DEF Check
  <2> QED BY <2>2 DEF States
<1>12. Match(s, n + 1, buf).at = s.at
  BY <1>1 DEF Match, MatchStates
<1> QED BY <1>5, <1>11, <1>12

LEMMA FollowsClosing ==
  ASSUME NEW C, NEW buf \in Seq(C), NEW m \in Pairings(buf), NEW n \in 0..Len(buf), n # Len(buf),
         NEW v \in States(C), NEW s \in MatchStates(Len(buf)), v.ok,
         OpenIs(buf, n, v.open, s), PairsAre(buf, n, s.at),
         \A i \in Openings(buf) : i <= n => (s.at[i] = 0 <=> n < m[i]),
         n + 1 \in Closings(buf)
  PROVE  \E o \in Openings(buf) :
           /\ o <= n /\ m[o] = n + 1 /\ Check(v, buf[n + 1]).ok
           /\ Match(s, n + 1, buf).at = [s.at EXCEPT ![o] = n + 1]
<1>1. /\ Len(buf) \in Nat /\ n \in Nat /\ v.open \in Seq(C) /\ s.stack \in Seq(1..Len(buf))
      /\ Openings(buf) \subseteq 1..Len(buf) /\ Closings(buf) \subseteq 1..Len(buf)
      /\ buf[n + 1].op \in Closing /\ buf[n + 1].op \notin Opening
  <2>1. n + 1 \in 1..Len(buf)
    BY Kinds
  <2>2. buf[n + 1].op \in Closing /\ buf[n + 1].op \notin Opening
    BY <2>1, Kinds
  <2> QED BY <2>1, <2>2, Kinds DEF States, MatchStates
<1>2. /\ m \in [Openings(buf) -> Closings(buf)]
      /\ \A i \in Openings(buf) : i < m[i] /\ Closes(buf[m[i]], buf[i])
      /\ \A i, k \in Openings(buf) : i < k => m[k] < m[i] \/ m[i] < k
  BY DEF Pairings
<1>3. PICK i \in Openings(buf) : m[i] = n + 1
  BY DEF Pairings
<1>4. i \in 1..Len(buf) /\ i \in Nat /\ i <= n /\ n < m[i]
  <2>1. i \in Nat /\ i < n + 1
    BY <1>1, <1>2, <1>3
  <2>2. i <= n /\ n < n + 1
    BY <1>1, <2>1
  <2> QED BY <1>1, <1>3, <2>1, <2>2
<1>5. s.at[i] = 0
  BY <1>3, <1>4
<1> DEFINE opened == v.open
           L == Len(s.stack)
           x == Last(s.stack)
<1>6. opened \in Seq(C) /\ Len(opened) = L /\ L \in Nat
  BY <1>1 DEF OpenIs
<1>7. PICK k \in 1..L : s.stack[k] = i
  BY <1>3, <1>4, <1>5 DEF OpenIs
<1>8. opened # << >> /\ s.stack # << >>
  <2>1. L # 0
    BY <1>6, <1>7
  <2> QED BY <1>1, <1>6, <2>1, EmptySeq
<1>9. L \in 1..L /\ x = s.stack[L] /\ Last(opened) = opened[L]
  <2>1. L \in 1..L
    BY <1>6, <1>7
  <2>2. Last(s.stack) = s.stack[Len(s.stack)]
    BY DEF Last
  <2> HIDE DEF opened
  <2>3. Last(opened) = opened[Len(opened)]
    BY DEF Last
  <2> QED BY <1>6, <2>1, <2>2, <2>3
<1>10. /\ x \in Openings(buf) /\ x <= n /\ opened[L] = buf[x] /\ s.at[x] = 0
       /\ \A l \in 1..L : l < L => s.stack[l] < x
  BY <1>9 DEF OpenIs
<1> HIDE DEF opened, L, x
<1>11. x = i
  <2>1. CASE k = L
    BY <1>7, <1>9, <2>1
  <2>2. CASE k # L
    <3>1. k < L
      BY <1>6, <1>7, <2>2
    <3>2. i < x
      BY <1>7, <1>10, <3>1
    <3>3. m[x] < m[i] \/ m[i] < x
      BY <1>2, <1>3, <1>10, <3>2
    <3>4. n < m[x]
      BY <1>10
    <3>5. m[x] \in Nat /\ x \in Nat
      BY <1>1, <1>2, <1>10
    <3> QED BY <1>1, <1>3, <1>10, <3>3, <3>4, <3>5
  <2> QED BY <2>1, <2>2
<1>12. Closes(buf[n + 1], Last(opened))
  BY <1>2, <1>3, <1>9, <1>10, <1>11
<1>13. Check(v, buf[n + 1]).ok
  <2>1. Check(v, buf[n + 1]) = [v EXCEPT !.open = Front(@)]
    BY <1>1, <1>8, <1>12 DEF Check, opened
  <2> QED BY <2>1 DEF States
<1>14. Match(s, n + 1, buf).at = [s.at EXCEPT ![i] = n + 1]
  BY <1>1, <1>8, <1>11 DEF Match, x
<1> QED BY <1>3, <1>4, <1>13, <1>14

LEMMA FollowsStep ==
  ASSUME NEW C, NEW buf \in Seq(C), NEW m \in Pairings(buf), NEW n \in 0..Len(buf), n # Len(buf),
         Follows(buf, m, n)
  PROVE  Follows(buf, m, n + 1)
<1> DEFINE v == Checked(buf)[n]
           s == Matched(buf)[n]
           w == Checked(buf)[n + 1]
           z == Matched(buf)[n + 1]
<1>1. /\ Len(buf) \in Nat /\ n \in Nat /\ n + 1 \in 1..Len(buf) /\ (n + 1) - 1 = n
      /\ Openings(buf) \subseteq 1..Len(buf) /\ Closings(buf) \subseteq 1..Len(buf)
  BY Kinds
<1>2. v \in States(C) /\ w = Check(v, buf[n + 1])
  BY <1>1, CheckedIs
<1>3. s \in MatchStates(Len(buf)) /\ z = Match(s, n + 1, buf)
  BY <1>1, MatchedIs
<1>4. /\ v.ok /\ OpenIs(buf, n, v.open, s) /\ PairsAre(buf, n, s.at)
      /\ \A i \in Openings(buf) :
           /\ s.at[i] = 0 \/ s.at[i] = m[i]
           /\ i <= n => (s.at[i] = 0 <=> n < m[i])
  BY DEF Follows, Agree
<1>5. w.ok => Agree(buf, n + 1)
  BY AgreeSteps DEF Follows
<1>6. /\ m \in [Openings(buf) -> Closings(buf)]
      /\ \A i \in Openings(buf) : i < m[i]
      /\ \A i, k \in Openings(buf) : i < k => m[k] < m[i] \/ m[i] < k
  BY DEF Pairings
<1> HIDE DEF v, s, w, z
<1>7. s.at \in [1..Len(buf) -> 0..Len(buf)]
  BY <1>3 DEF MatchStates
<1>8. ASSUME NEW i \in Openings(buf), i <= n + 1
      PROVE  (i = n + 1 \/ i <= n) /\ m[i] \in Nat /\ (n < m[i] <=> n + 1 = m[i] \/ n + 1 < m[i])
  <2>1. i \in Nat /\ m[i] \in Nat
    BY <1>1, <1>6
  <2> QED BY <1>1, <1>8, <2>1
<1>9. CASE n + 1 \in Openings(buf)
  <2>1. w.ok /\ z.at = s.at /\ s.at[n + 1] = 0
    BY <1>2, <1>3, <1>4, <1>9, FollowsOpening
  <2>2. n + 1 \notin Closings(buf)
    BY <1>9, Kinds
  <2>3. ASSUME NEW i \in Openings(buf), i <= n + 1 PROVE z.at[i] = 0 <=> n + 1 < m[i]
    <3>1. m[i] # n + 1
      BY <1>6, <2>2
    <3>2. CASE i = n + 1
      BY <1>6, <2>1, <3>2
    <3>3. CASE i <= n
      BY <1>4, <1>8, <2>1, <2>3, <3>1, <3>3
    <3> QED BY <1>8, <2>3, <3>2, <3>3
  <2>4. \A i \in Openings(buf) : z.at[i] = 0 \/ z.at[i] = m[i]
    BY <1>4, <2>1
  <2> QED BY <1>5, <2>1, <2>3, <2>4 DEF Follows, w, z
<1>10. CASE n + 1 \in Closings(buf)
  <2>1. PICK o \in Openings(buf) :
          o <= n /\ m[o] = n + 1 /\ w.ok /\ z.at = [s.at EXCEPT ![o] = n + 1]
    BY <1>2, <1>3, <1>4, <1>10, FollowsClosing
  <2>2. z.at[o] = n + 1 /\ \A i \in Openings(buf) : i # o => z.at[i] = s.at[i]
    BY <1>1, <1>7, <2>1
  <2>3. \A i \in Openings(buf) : z.at[i] = 0 \/ z.at[i] = m[i]
    BY <1>4, <2>1, <2>2
  <2>4. n + 1 \notin Openings(buf)
    BY <1>10, Kinds
  <2>5. ASSUME NEW i \in Openings(buf), i # o PROVE m[i] # n + 1
    <3>1. i \in Nat /\ o \in Nat /\ m[i] \in Nat
      BY <1>1, <1>6
    <3>2. CASE i < o
      <4>1. m[o] < m[i] \/ m[i] < o
        BY <1>6, <3>2
      <4> QED BY <1>1, <2>1, <3>1, <4>1
    <3>3. CASE o < i
      <4>1. m[i] < m[o] \/ m[o] < i
        BY <1>6, <3>3
      <4>2. i < m[i]
        BY <1>6
      <4> QED BY <1>1, <2>1, <3>1, <4>1, <4>2
    <3> QED BY <2>5, <3>1, <3>2, <3>3
  <2>6. ASSUME NEW i \in Openings(buf), i <= n + 1 PROVE z.at[i] = 0 <=> n + 1 < m[i]
    <3>1. i <= n
      BY <1>8, <2>4, <2>6
    <3>2. CASE i = o
      BY <1>1, <2>1, <2>2, <3>2
    <3>3. CASE i # o
      BY <1>4, <1>8, <2>2, <2>5, <2>6, <3>1, <3>3
    <3> QED BY <3>2, <3>3
  <2> QED BY <1>5, <2>1, <2>3, <2>6 DEF Follows, w, z
<1>11. CASE n + 1 \notin Openings(buf) /\ n + 1 \notin Closings(buf)
  <2>1. buf[n + 1].op \notin Opening /\ buf[n + 1].op \notin Closing
    BY <1>1, <1>11, Kinds
  <2>2. w = v /\ z = s
    BY <1>2, <1>3, <2>1 DEF Check, Match
  <2>3. ASSUME NEW i \in Openings(buf), i <= n + 1 PROVE z.at[i] = 0 <=> n + 1 < m[i]
    <3>1. i <= n /\ m[i] # n + 1
      BY <1>6, <1>8, <1>11, <2>3
    <3> QED BY <1>4, <1>8, <2>2, <2>3, <3>1
  <2>4. w.ok /\ \A i \in Openings(buf) : z.at[i] = 0 \/ z.at[i] = m[i]
    BY <1>4, <2>2
  <2> QED BY <1>5, <2>3, <2>4 DEF Follows, w, z
<1> QED BY <1>9, <1>10, <1>11

\* The host accepts what pairs up.
LEMMA PairsAccepted ==
  ASSUME NEW C, NEW buf \in Seq(C), NEW m \in Pairings(buf)
  PROVE  Validate(buf)
<1> DEFINE N == Len(buf)
           G == {n \in 0..N : Follows(buf, m, n)}
           s == Matched(buf)[N]
           v == Checked(buf)[N]
<1>1. /\ N \in Nat /\ 0 \in 0..N /\ N \in 0..N
      /\ Openings(buf) \subseteq 1..N /\ Closings(buf) \subseteq 1..N
  BY Kinds
<1>2. m \in [Openings(buf) -> Closings(buf)]
  BY DEF Pairings
<1>3. 0 \in G
  <2>1. Checked(buf)[0].ok /\ Agree(buf, 0)
    BY AgreeSteps
  <2>2. \A i \in 1..N : Matched(buf)[0].at[i] = 0 /\ ~(i <= 0)
    <3>1. Matched(buf)[0] = [stack |-> << >>, at |-> [i \in 1..Len(buf) |-> 0]]
      BY MatchedIs
    <3>2. Matched(buf)[0].at = [i \in 1..Len(buf) |-> 0]
      BY <3>1
    <3> QED BY <1>1, <3>2
  <2>3. Follows(buf, m, 0)
    BY <1>1, <2>1, <2>2 DEF Follows
  <2> QED BY <1>1, <2>3
<1>4. ASSUME NEW n \in 0..N, n # N, n \in G PROVE n + 1 \in G
  <2>1. Follows(buf, m, n + 1)
    BY <1>4, FollowsStep
  <2> QED BY <1>1, <1>4, <2>1
<1> HIDE DEF G
<1>5. 0..N \subseteq G
  BY <1>1, <1>3, <1>4, UpTo
<1>6. Follows(buf, m, N)
  BY <1>1, <1>5 DEF G
<1>7. v \in States(C) /\ s \in MatchStates(N)
  BY <1>1, CheckedIs, MatchedIs
<1>8. /\ v.ok /\ OpenIs(buf, N, v.open, s)
      /\ \A i \in Openings(buf) : i <= N => (s.at[i] = 0 <=> N < m[i])
  BY <1>6 DEF Follows, Agree
<1>9. \A i \in Openings(buf) : i <= N /\ ~(N < m[i])
  BY <1>1, <1>2
<1> HIDE DEF s, v
<1>10. Len(s.stack) \in Nat /\ v.open \in Seq(C)
  BY <1>7 DEF States, MatchStates
<1>11. ~\E k \in 1..Len(s.stack) : TRUE
  BY <1>8, <1>9 DEF OpenIs
<1>12. Len(v.open) = 0
  BY <1>8, <1>10, <1>11 DEF OpenIs
<1>13. v.open = << >>
  BY <1>10, <1>12, EmptySeq
<1>14. v = [ok |-> TRUE, open |-> << >>]
  BY <1>7, <1>8, <1>13 DEF States
<1> QED BY <1>14 DEF Validate, v

\* The host accepts exactly the streams that pair up, and finds the pairs.
LEMMA AcceptsPairings ==
  ASSUME NEW C, NEW buf \in Seq(C)
  PROVE  /\ Validate(buf) <=> Pairings(buf) # {}
         /\ Validate(buf) =>
              \E m \in Pairings(buf) : \A i \in Openings(buf) : MatchScopes(buf)[i] = m[i]
BY AcceptedPairs, PairsAccepted

-----------------------------------------------------------------------------
(* What the SDK records: a stream whose open commands are the scopes at     *)
(* work, of those the ones that are not too deep.                           *)

IdPaths == Seq(Nat)

Ops     == Opening \cup Closing \cup {"widget", "line"}
UiKinds == {"row", "table", "menu", "window", "button", "link", "line"}
Cmds    == [op : Ops, id : IdPaths \cup RawIds, kind : UiKinds]
Uis     == [id : IdPaths, kind : UiKinds, emit : BOOLEAN, next : Nat]

Seen(buf) == Checked(buf)[Len(buf)]

OpensAs(kind) == IF kind = "window" THEN "begin window" ELSE "begin scope"
ClosesAs(kind) == IF kind = "window" THEN "end window" ELSE "end scope"

Recorded(buf, uis) ==
  /\ Seen(buf).ok
  /\ Len(Seen(buf).open) = IF Len(uis) - 1 <= MaxDepth THEN Len(uis) - 1 ELSE MaxDepth
  /\ \A k \in 1..Len(uis) - 1 : uis[k + 1].emit = (k <= MaxDepth)
  /\ \A k \in 1..Len(Seen(buf).open) :
       /\ Seen(buf).open[k].id = uis[k + 1].id
       /\ Seen(buf).open[k].op = OpensAs(uis[k + 1].kind)

AlikeUis(uis, other) ==
  /\ Len(uis) = Len(other)
  /\ \A k \in 1..Len(uis) :
       other[k].id = uis[k].id /\ other[k].kind = uis[k].kind /\ other[k].emit = uis[k].emit

LEMMA SeenAppend ==
  ASSUME NEW C, NEW buf \in Seq(C), NEW c \in C
  PROVE  /\ Seen(buf) \in States(C)
         /\ Seen(Append(buf, c)) = Check(Seen(buf), c)
<1> DEFINE N == Len(buf)
           b == Append(buf, c)
           G == {n \in 0..N : Checked(b)[n] = Checked(buf)[n]}
<1>1. /\ N \in Nat /\ b \in Seq(C) /\ Len(b) = N + 1 /\ b[N + 1] = c
      /\ \A n \in 1..N : b[n] = buf[n]
  OBVIOUS
<1>2. /\ Checked(buf) \in [0..N -> States(C)]
      /\ Checked(buf)[0] = [ok |-> TRUE, open |-> << >>]
      /\ \A n \in 1..N : Checked(buf)[n] = Check(Checked(buf)[n - 1], buf[n])
  BY CheckedIs
<1> HIDE DEF b, N
<1>3. /\ Checked(b)[0] = [ok |-> TRUE, open |-> << >>]
      /\ \A n \in 1..Len(b) : Checked(b)[n] = Check(Checked(b)[n - 1], b[n])
  BY <1>1, CheckedIs
<1>4. 0 \in 0..N /\ N \in 0..N /\ N + 1 \in 1..Len(b) /\ (N + 1) - 1 = N
  BY <1>1
<1>5. 0 \in G
  BY <1>2, <1>3, <1>4
<1>6. ASSUME NEW n \in 0..N, n # N, n \in G PROVE n + 1 \in G
  <2>1. n + 1 \in 1..N /\ n + 1 \in 0..N /\ (n + 1) - 1 = n /\ n + 1 \in 1..Len(b)
    BY <1>1, <1>6
  <2>2. Checked(buf)[n + 1] = Check(Checked(buf)[n], buf[n + 1])
    BY <1>2, <2>1
  <2>3. Checked(b)[n + 1] = Check(Checked(b)[n], b[n + 1])
    BY <1>3, <2>1
  <2> QED BY <1>1, <1>6, <2>1, <2>2, <2>3
<1> HIDE DEF G
<1>7. 0..N \subseteq G
  BY <1>1, <1>5, <1>6, UpTo
<1>8. Checked(b)[N] = Checked(buf)[N]
  BY <1>4, <1>7 DEF G
<1>9. Checked(b)[N + 1] = Check(Checked(b)[N], b[N + 1])
  BY <1>3, <1>4
<1> QED BY <1>1, <1>2, <1>4, <1>8, <1>9 DEF Seen, b, N

LEMMA RecordsAlike ==
  ASSUME NEW buf \in Seq(Cmds), NEW uis \in Seq(Uis), NEW other \in Seq(Uis), uis # << >>,
         Recorded(buf, uis), AlikeUis(uis, other)
  PROVE  Recorded(buf, other)
<1>1. Len(uis) \in Nat /\ Len(uis) # 0 /\ MaxDepth \in Nat /\ Len(other) = Len(uis)
  BY EmptySeq, FramesAssumption DEF AlikeUis
<1>2. \A k \in 1..Len(uis) - 1 : k + 1 \in 1..Len(uis)
  BY <1>1
<1>3. \A k \in 1..Len(Seen(buf).open) : k + 1 \in 1..Len(uis)
  BY <1>1 DEF Recorded
<1> QED BY <1>1, <1>2, <1>3 DEF Recorded, AlikeUis

LEMMA RecordsOther ==
  ASSUME NEW buf \in Seq(Cmds), NEW uis, NEW c \in Cmds, Recorded(buf, uis),
         c.op \notin Opening, c.op \notin Closing
  PROVE  Recorded(Append(buf, c), uis)
<1>1. Seen(Append(buf, c)) = Check(Seen(buf), c)
  BY SeenAppend
<1>2. Check(Seen(buf), c) = Seen(buf)
  BY DEF Check
<1> QED BY <1>1, <1>2 DEF Recorded

LEMMA RecordsOpening ==
  ASSUME NEW buf \in Seq(Cmds), NEW uis \in Seq(Uis), uis # << >>, Recorded(buf, uis),
         Len(uis) - 1 < MaxDepth,
         NEW c \in Cmds, NEW u \in Uis, c.id = u.id, c.op = OpensAs(u.kind), u.emit
  PROVE  Recorded(Append(buf, c), Append(uis, u))
<1> DEFINE opened == Seen(buf).open
           D == Len(uis) - 1
           ups == Append(uis, u)
           ops == Append(opened, c)
<1>1. Len(uis) \in Nat /\ Len(uis) # 0 /\ MaxDepth \in Nat
  BY EmptySeq, FramesAssumption
<1>2. Seen(buf) \in States(Cmds) /\ Seen(Append(buf, c)) = Check(Seen(buf), c)
  BY SeenAppend
<1>3. opened \in Seq(Cmds) /\ Len(opened) = D /\ D \in Nat /\ D < MaxDepth
  BY <1>1, <1>2 DEF Recorded, States
<1>4. c.op \in Opening /\ c.op \notin Closing
  BY DEF OpensAs, Opening, Closing
<1>5. Check(Seen(buf), c) = [Seen(buf) EXCEPT !.open = Append(@, c)]
  <2>1. ~(Len(opened) >= MaxDepth)
    BY <1>1, <1>3
  <2> QED BY <1>4, <2>1 DEF Check, Recorded
<1>6. Seen(Append(buf, c)).ok /\ Seen(Append(buf, c)).open = ops
  BY <1>2, <1>5 DEF Recorded, States
<1>7. Len(ups) = Len(uis) + 1 /\ ups[Len(uis) + 1] = u /\ \A k \in 1..Len(uis) : ups[k] = uis[k]
  BY <1>1
<1>8. Len(ops) = D + 1 /\ ops[D + 1] = c /\ \A k \in 1..D : ops[k] = opened[k]
  BY <1>3
<1>9. Len(uis) = D + 1
  BY <1>1
<1>10. \A k \in 1..D + 1 : k = D + 1 \/ k \in 1..D
  BY <1>3
<1>11. \A k \in 1..D : k + 1 \in 1..D + 1 /\ k <= MaxDepth
  BY <1>1, <1>3
<1>12. \A k \in 1..D : uis[k + 1].emit = (k <= MaxDepth) /\ opened[k].id = uis[k + 1].id
                        /\ opened[k].op = OpensAs(uis[k + 1].kind)
  BY <1>3 DEF Recorded
<1> HIDE DEF opened, D, ups, ops
<1>13. Len(ups) - 1 = D + 1 /\ D + 1 <= MaxDepth
  BY <1>1, <1>3, <1>7, <1>9
<1>14. ASSUME NEW k \in 1..D + 1
       PROVE  ups[k + 1].emit = (k <= MaxDepth) /\ ops[k].id = ups[k + 1].id
                /\ ops[k].op = OpensAs(ups[k + 1].kind)
  <2>1. CASE k = D + 1
    <3>1. ups[k + 1] = u /\ ops[k] = c /\ k <= MaxDepth
      BY <1>7, <1>8, <1>9, <1>13, <2>1
    <3> QED BY <3>1
  <2>2. CASE k \in 1..D
    <3>1. ups[k + 1] = uis[k + 1] /\ ops[k] = opened[k]
      BY <1>7, <1>8, <1>9, <1>11, <2>2
    <3> QED BY <1>12, <2>2, <3>1
  <2> QED BY <1>10, <2>1, <2>2
<1>15. Recorded(Append(buf, c), ups)
  BY <1>6, <1>8, <1>13, <1>14 DEF Recorded
<1> QED BY <1>15 DEF ups

LEMMA RecordsTooDeep ==
  ASSUME NEW buf, NEW uis \in Seq(Uis), uis # << >>, Recorded(buf, uis),
         ~(Len(uis) - 1 < MaxDepth), NEW u \in Uis, ~u.emit
  PROVE  Recorded(buf, Append(uis, u))
<1> DEFINE ups == Append(uis, u)
<1>1. Len(uis) \in Nat /\ Len(uis) # 0 /\ MaxDepth \in Nat
  BY EmptySeq, FramesAssumption
<1>2. Len(ups) = Len(uis) + 1 /\ ups[Len(uis) + 1] = u /\ \A k \in 1..Len(uis) : ups[k] = uis[k]
  BY <1>1
<1>3. Len(Seen(buf).open) = MaxDepth
  BY <1>1 DEF Recorded
<1> HIDE DEF ups
<1>4. \A k \in 1..Len(ups) - 1 : k = Len(uis) \/ (k \in 1..Len(uis) - 1 /\ k + 1 \in 1..Len(uis))
  BY <1>1, <1>2
<1>5. \A k \in 1..MaxDepth : k + 1 \in 1..Len(uis)
  BY <1>1
<1>6. ~(Len(uis) <= MaxDepth) /\ ~(Len(ups) - 1 <= MaxDepth)
  BY <1>1, <1>2
<1>7. ASSUME NEW k \in 1..Len(ups) - 1 PROVE ups[k + 1].emit = (k <= MaxDepth)
  <2>1. CASE k = Len(uis)
    <3>1. ups[k + 1] = u /\ ~(k <= MaxDepth)
      BY <1>2, <1>6, <2>1
    <3>2. u.emit \in BOOLEAN
      BY DEF Uis
    <3> QED BY <3>1, <3>2
  <2>2. CASE k # Len(uis)
    BY <1>2, <1>4, <2>2 DEF Recorded
  <2> QED BY <2>1, <2>2
<1>8. \A k \in 1..MaxDepth : ups[k + 1] = uis[k + 1]
  BY <1>2, <1>5
<1>9. Recorded(buf, ups)
  BY <1>3, <1>6, <1>7, <1>8 DEF Recorded
<1> QED BY <1>9 DEF ups

\* Leaving the innermost scope, with its closing command if it was opened.
LEMMA RecordsLeaving ==
  ASSUME NEW buf \in Seq(Cmds), NEW uis \in Seq(Uis), 1 < Len(uis), Recorded(buf, uis),
         NEW c \in Cmds, c.op = ClosesAs(Last(uis).kind), c.id = Last(uis).id
  PROVE  /\ ~Last(uis).emit => Recorded(buf, Front(uis))
         /\ Last(uis).emit => Recorded(Append(buf, c), Front(uis))
<1> DEFINE opened == Seen(buf).open
           D == Len(uis) - 1
           ups == Front(uis)
           ops == Front(opened)
           u == Last(uis)
<1>1. Len(uis) \in Nat /\ MaxDepth \in Nat /\ MaxDepth # 0 /\ uis # << >>
  <2>1. Len(uis) \in Nat /\ Len(uis) # 0
    OBVIOUS
  <2>2. uis # << >>
    BY <2>1, EmptySeq
  <2> QED BY <2>1, <2>2, FramesAssumption
<1>2. Seen(buf) \in States(Cmds) /\ Seen(Append(buf, c)) = Check(Seen(buf), c)
  BY SeenAppend
<1>3. /\ opened \in Seq(Cmds) /\ Len(opened) = (IF D <= MaxDepth THEN D ELSE MaxDepth)
      /\ D \in Nat /\ D # 0 /\ Len(uis) = D + 1
  <2>1. opened \in Seq(Cmds)
    BY <1>2 DEF States
  <2>2. Len(opened) = (IF D <= MaxDepth THEN D ELSE MaxDepth)
    BY DEF Recorded
  <2>3. D \in Nat /\ D # 0 /\ Len(uis) = D + 1
    <3>1. \A l \in Nat : 1 < l => l - 1 \in Nat /\ l - 1 # 0 /\ l = (l - 1) + 1
      OBVIOUS
    <3> QED BY <1>1, <3>1
  <2> QED BY <2>1, <2>2, <2>3
<1>4. Len(ups) = D /\ (\A k \in 1..D : ups[k] = uis[k]) /\ u = uis[D + 1]
  BY <1>1, <1>3, FrontOf
<1>5. \A k \in 1..D : uis[k + 1].emit = (k <= MaxDepth)
  BY <1>3 DEF Recorded
<1>6. \A k \in 1..Len(opened) : opened[k].id = uis[k + 1].id /\ opened[k].op = OpensAs(uis[k + 1].kind)
  BY DEF Recorded
<1>7. Seen(buf).ok
  BY DEF Recorded
<1> HIDE DEF opened, ups, D, u
<1>8. D \in 1..D /\ u.emit = (D <= MaxDepth)
  <2>1. D \in 1..D
    BY <1>3
  <2> QED BY <1>4, <1>5, <2>1
<1>9. \A k \in 1..D - 1 : k \in 1..D /\ k + 1 \in 1..D /\ ups[k + 1] = uis[k + 1]
  <2>1. \A k \in 1..D - 1 : k \in 1..D /\ k + 1 \in 1..D
    BY <1>3
  <2> QED BY <1>4, <2>1
<1>10. ASSUME ~u.emit PROVE Recorded(buf, ups)
  <2>1. ~(D <= MaxDepth)
    BY <1>8, <1>10
  <2>2. Len(opened) = MaxDepth /\ MaxDepth <= D - 1 /\ (D - 1 <= MaxDepth => D - 1 = MaxDepth)
    BY <1>1, <1>3, <2>1
  <2>3. Len(opened) = IF D - 1 <= MaxDepth THEN D - 1 ELSE MaxDepth
    BY <2>2
  <2>4. \A k \in 1..Len(opened) : k \in 1..D - 1
    BY <1>1, <1>3, <2>2
  <2> QED BY <1>4, <1>5, <1>6, <1>7, <1>9, <2>3, <2>4 DEF Recorded, opened
<1>11. ASSUME u.emit PROVE Recorded(Append(buf, c), ups)
  <2>1. D <= MaxDepth /\ Len(opened) = D
    BY <1>3, <1>8, <1>11
  <2>2. opened # << >>
    BY <1>3, <2>1, EmptySeq
  <2>3. Last(opened) = opened[D] /\ Len(ops) = D - 1 /\ \A k \in 1..D - 1 : ops[k] = opened[k]
    BY <1>3, <2>1, <2>2, FrontOf
  <2>4. Last(opened).id = u.id /\ Last(opened).op = OpensAs(u.kind)
    BY <1>3, <1>4, <1>6, <2>1, <2>3
  <2>5. c.op \in Closing /\ c.op \notin Opening /\ Closes(c, Last(opened))
    BY <2>4 DEF Closes, OpensAs, ClosesAs, Opening, Closing, u
  <2>6. Check(Seen(buf), c) = [Seen(buf) EXCEPT !.open = Front(@)]
    BY <1>7, <2>2, <2>5 DEF Check, opened
  <2>7. Seen(Append(buf, c)).ok /\ Seen(Append(buf, c)).open = ops
    BY <1>2, <1>7, <2>6 DEF States, opened
  <2> HIDE DEF ops
  <2>8. D - 1 <= MaxDepth
    BY <1>1, <1>3, <2>1
  <2>9. \A k \in 1..D - 1 : k \in 1..Len(opened)
    BY <1>9, <2>1
  <2> DEFINE new == Append(buf, c)
  <2>10. Len(Seen(new).open) = IF Len(ups) - 1 <= MaxDepth THEN Len(ups) - 1 ELSE MaxDepth
    BY <1>4, <2>3, <2>7, <2>8
  <2>11. \A k \in 1..Len(ups) - 1 : ups[k + 1].emit = (k <= MaxDepth)
    BY <1>4, <1>5, <1>9
  <2>12. ASSUME NEW k \in 1..Len(Seen(new).open)
         PROVE  /\ Seen(new).open[k].id = ups[k + 1].id
                /\ Seen(new).open[k].op = OpensAs(ups[k + 1].kind)
    <3>1. k \in 1..D - 1 /\ Seen(new).open[k] = ops[k]
      BY <2>3, <2>7
    <3>2. ops[k] = opened[k] /\ ups[k + 1] = uis[k + 1]
      BY <1>9, <2>3, <3>1
    <3> QED BY <1>6, <2>9, <3>1, <3>2
  <2> HIDE DEF new
  <2> QED BY <2>7, <2>10, <2>11, <2>12 DEF Recorded, new
<1> QED BY <1>10, <1>11 DEF u, ups

-----------------------------------------------------------------------------
(* BalancedAccepted: what the SDK has recorded is always as Recorded says.  *)

Recs ==
  [app : Apps, buf : Seq(Cmds), uis : Seq(Uis), sdk : BOOLEAN, frame : Nat, calls : Nat]

RecType == rec \in Recs /\ rec.uis # << >>

RecInv == RecType /\ (rec.sdk => Recorded(rec.buf, rec.uis))

LEMMA UiIs ==
  ASSUME RecType
  PROVE  /\ Ui \in Uis /\ AutoId \in IdPaths /\ WindowId \in IdPaths
         /\ Salted \in Seq(Uis) /\ Salted # << >> /\ AlikeUis(rec.uis, Salted)
         /\ Len(Salted) = Len(rec.uis) /\ Depth \in Nat
<1>1. rec.uis \in Seq(Uis) /\ rec.uis # << >>
  BY DEF RecType, Recs
<1>2. Len(rec.uis) \in Nat /\ Len(rec.uis) # 0 /\ Len(rec.uis) \in 1..Len(rec.uis)
  BY <1>1, EmptySeq
<1>3. Ui = rec.uis[Len(rec.uis)] /\ Ui \in Uis
  BY <1>1, <1>2 DEF Ui, Last
<1>4. Ui.id \in Seq(Nat) /\ Ui.next \in Nat /\ Ui.next + 1 \in Nat
  BY <1>3 DEF Uis, IdPaths
<1>5. AutoId \in IdPaths /\ WindowId \in IdPaths
  BY <1>4 DEF AutoId, WindowId, IdPaths
<1>6. [Ui EXCEPT !.next = @ + 1] \in Uis
  BY <1>3, <1>4 DEF Uis
<1>7. Salted = [rec.uis EXCEPT ![Len(rec.uis)] = [Ui EXCEPT !.next = @ + 1]]
  BY <1>1, <1>2, <1>3 DEF Salted
<1>8. Salted \in Seq(Uis) /\ Len(Salted) = Len(rec.uis)
  BY <1>1, <1>2, <1>6, <1>7
<1>9. \A k \in 1..Len(rec.uis) :
        Salted[k] = IF k = Len(rec.uis) THEN [Ui EXCEPT !.next = @ + 1] ELSE rec.uis[k]
  BY <1>1, <1>7
<1>10. /\ [Ui EXCEPT !.next = @ + 1].id = Ui.id /\ [Ui EXCEPT !.next = @ + 1].kind = Ui.kind
       /\ [Ui EXCEPT !.next = @ + 1].emit = Ui.emit
  BY <1>3 DEF Uis
<1>11. AlikeUis(rec.uis, Salted)
  BY <1>3, <1>8, <1>9, <1>10 DEF AlikeUis
<1>12. Salted # << >> /\ Depth \in Nat
  BY <1>2, <1>8, EmptySeq DEF Depth
<1> QED BY <1>3, <1>5, <1>8, <1>11, <1>12

LEMMA AddIs ==
  ASSUME RecType, NEW cmds \in Seq(Cmds), NEW uis \in Seq(Uis), uis # << >>, AddCommands(cmds, uis)
  PROVE  RecType' /\ rec'.buf = rec.buf \o cmds /\ rec'.uis = uis /\ rec'.sdk = rec.sdk
<1>1. rec' = [rec EXCEPT !.buf = @ \o cmds, !.uis = uis, !.calls = @ + 1]
  BY DEF AddCommands
<1>2. rec.buf \o cmds \in Seq(Cmds) /\ rec.calls + 1 \in Nat
  BY DEF RecType, Recs
<1> QED BY <1>1, <1>2 DEF RecType, Recs

LEMMA AddOne ==
  ASSUME NEW C, NEW s \in Seq(C), NEW c \in C
  PROVE  s \o <<c>> = Append(s, c) /\ s \o << >> = s /\ <<c>> \in Seq(C) /\ << >> \in Seq(C)
OBVIOUS

LEMMA NoCallsIs ==
  ASSUME NEW calls \in Apps, NEW frame \in Nat
  PROVE  /\ NoCalls(calls, frame) \in Recs /\ NoCalls(calls, frame).uis # << >>
         /\ Recorded(NoCalls(calls, frame).buf, NoCalls(calls, frame).uis)
<1> DEFINE u == NewUi(Root, "row", FALSE)
           r == NoCalls(calls, frame)
<1>1. Root \in IdPaths /\ "row" \in UiKinds
  BY DEF Root, IdPaths, UiKinds
<1>2. u \in Uis
  BY <1>1 DEF NewUi, Uis
<1>3. /\ r.app = calls /\ r.buf = << >> /\ r.uis = <<u>> /\ r.sdk = TRUE /\ r.frame = frame /\ r.calls = 0
      /\ r = [app |-> calls, buf |-> << >>, uis |-> <<u>>, sdk |-> TRUE, frame |-> frame, calls |-> 0]
  BY DEF NoCalls
<1> HIDE DEF r, u
<1>4. <<u>> \in Seq(Uis) /\ Len(<<u>>) = 1 /\ <<u>> # << >>
  BY <1>2
<1>5. << >> \in Seq(Cmds) /\ Len(<< >>) = 0 /\ 0 \in 0..0
  OBVIOUS
<1>6. r \in Recs
  BY <1>3, <1>4, <1>5 DEF Recs
<1>7. Seen(<< >>) = [ok |-> TRUE, open |-> << >>]
  BY <1>5, CheckedIs DEF Seen
<1>8. 0 <= MaxDepth /\ 1..0 = {} /\ 1 - 1 = 0
  BY FramesAssumption
<1>9. Recorded(r.buf, r.uis)
  BY <1>3, <1>4, <1>5, <1>7, <1>8 DEF Recorded
<1> QED BY <1>3, <1>4, <1>6, <1>9 DEF r

LEMMA WidgetRecords ==
  ASSUME RecInv, NEW kind \in {"button", "link"}, Widget(kind)
  PROVE  RecInv'
<1> DEFINE c == Cmd("widget", AutoId, kind)
<1>1. RecType /\ rec.sdk /\ Recorded(rec.buf, rec.uis) /\ AddCommands(<<c>>, Salted)
  BY DEF RecInv, Widget, Drawing
<1>2. c \in Cmds /\ c.op \notin Opening /\ c.op \notin Closing
  BY <1>1, UiIs DEF Cmd, Cmds, Ops, UiKinds, Opening, Closing
<1> HIDE DEF c
<1>3. rec.buf \in Seq(Cmds) /\ rec.uis \in Seq(Uis) /\ rec.uis # << >>
  BY <1>1 DEF RecType, Recs
<1>4. <<c>> \in Seq(Cmds) /\ rec.buf \o <<c>> = Append(rec.buf, c) /\ Append(rec.buf, c) \in Seq(Cmds)
  BY <1>2, <1>3
<1>5. RecType' /\ rec'.buf = Append(rec.buf, c) /\ rec'.uis = Salted
  BY <1>1, <1>4, UiIs, AddIs
<1>6. Recorded(Append(rec.buf, c), rec.uis)
  BY <1>1, <1>2, <1>3, RecordsOther
<1>7. Recorded(Append(rec.buf, c), Salted)
  BY <1>1, <1>3, <1>4, <1>6, UiIs, RecordsAlike
<1> QED BY <1>5, <1>7 DEF RecInv

LEMMA SeparatorRecords ==
  ASSUME RecInv, Separator
  PROVE  RecInv'
<1> DEFINE c == Cmd("line", Root, "line")
<1>1. RecType /\ rec.sdk /\ Recorded(rec.buf, rec.uis) /\ AddCommands(<<c>>, rec.uis)
  BY DEF RecInv, Separator, Drawing
<1>2. c \in Cmds /\ c.op \notin Opening /\ c.op \notin Closing
  BY DEF Cmd, Cmds, Ops, UiKinds, Opening, Closing, Root, IdPaths
<1> HIDE DEF c
<1>3. rec.buf \in Seq(Cmds) /\ rec.uis \in Seq(Uis) /\ rec.uis # << >>
  BY <1>1 DEF RecType, Recs
<1>4. <<c>> \in Seq(Cmds) /\ rec.buf \o <<c>> = Append(rec.buf, c)
  BY <1>2, <1>3
<1>5. RecType' /\ rec'.buf = Append(rec.buf, c) /\ rec'.uis = rec.uis
  BY <1>1, <1>3, <1>4, AddIs
<1>6. Recorded(Append(rec.buf, c), rec.uis)
  BY <1>1, <1>2, <1>3, RecordsOther
<1> QED BY <1>5, <1>6 DEF RecInv

LEMMA ScopeRecords ==
  ASSUME RecInv, NEW kind \in {"row", "table", "menu"}, Scope(kind)
  PROVE  RecInv'
<1> DEFINE c == Cmd("begin scope", AutoId, kind)
           u == NewUi(AutoId, kind, Shallow)
           cmds == IF Shallow THEN <<c>> ELSE << >>
           ups == Append(Salted, u)
<1>1. RecType /\ rec.sdk /\ Recorded(rec.buf, rec.uis) /\ AddCommands(cmds, ups)
  BY DEF RecInv, Scope, Drawing
<1>2. c \in Cmds /\ c.op = OpensAs(u.kind) /\ c.id = u.id
  BY <1>1, UiIs DEF Cmd, Cmds, Ops, UiKinds, Opening, NewUi, OpensAs
<1>3. u \in Uis /\ u.emit = Shallow
  <2>1. Shallow \in BOOLEAN
    BY DEF Shallow
  <2> QED BY <1>1, <2>1, UiIs DEF NewUi, Uis, UiKinds
<1> HIDE DEF c, u, cmds
<1>4. rec.buf \in Seq(Cmds) /\ rec.uis \in Seq(Uis) /\ rec.uis # << >>
  BY <1>1 DEF RecType, Recs
<1>5. /\ Salted \in Seq(Uis) /\ Salted # << >> /\ Len(Salted) = Len(rec.uis)
      /\ AlikeUis(rec.uis, Salted)
  BY <1>1, UiIs
<1>6. ups \in Seq(Uis) /\ ups # << >>
  BY <1>3, <1>5
<1>7. cmds \in Seq(Cmds)
  BY <1>2 DEF cmds
<1>8. RecType' /\ rec'.buf = rec.buf \o cmds /\ rec'.uis = ups
  <2> HIDE DEF ups
  <2> QED BY <1>1, <1>6, <1>7, AddIs
<1>9. Recorded(rec.buf, Salted)
  BY <1>1, <1>4, <1>5, RecordsAlike
<1>10. CASE Shallow
  <2>1. rec.buf \o cmds = Append(rec.buf, c)
    BY <1>2, <1>4, <1>10 DEF cmds
  <2>2. Len(Salted) - 1 < MaxDepth /\ u.emit
    BY <1>3, <1>5, <1>10 DEF Shallow, Depth
  <2>3. Recorded(Append(rec.buf, c), ups)
    BY <1>2, <1>3, <1>4, <1>5, <1>9, <2>2, RecordsOpening
  <2> QED BY <1>8, <2>1, <2>3 DEF RecInv
<1>11. CASE ~Shallow
  <2>1. rec.buf \o cmds = rec.buf
    BY <1>4, <1>11 DEF cmds
  <2>2. ~(Len(Salted) - 1 < MaxDepth) /\ ~u.emit
    BY <1>3, <1>5, <1>11 DEF Shallow, Depth
  <2>3. Recorded(rec.buf, ups)
    BY <1>3, <1>5, <1>9, <2>2, RecordsTooDeep
  <2> QED BY <1>8, <2>1, <2>3 DEF RecInv
<1> QED BY <1>10, <1>11

LEMMA WindowRecords ==
  ASSUME RecInv, ~DeepWindows, ShowWindow
  PROVE  RecInv'
<1> DEFINE c == Cmd("begin window", WindowId, "window")
           u == NewUi(WindowId, "window", TRUE)
           ups == Append(rec.uis, u)
<1>1. RecType /\ rec.sdk /\ Recorded(rec.buf, rec.uis) /\ AddCommands(<<c>>, ups) /\ Shallow
  BY DEF RecInv, ShowWindow, Drawing
<1>2. c \in Cmds /\ c.op = OpensAs(u.kind) /\ c.id = u.id
  BY <1>1, UiIs DEF Cmd, Cmds, Ops, UiKinds, Opening, NewUi, OpensAs
<1>3. u \in Uis /\ u.emit
  BY <1>1, UiIs DEF NewUi, Uis, UiKinds
<1> HIDE DEF c, u
<1>4. rec.buf \in Seq(Cmds) /\ rec.uis \in Seq(Uis) /\ rec.uis # << >>
  BY <1>1 DEF RecType, Recs
<1>5. ups \in Seq(Uis) /\ ups # << >>
  BY <1>3, <1>4
<1>6. <<c>> \in Seq(Cmds) /\ rec.buf \o <<c>> = Append(rec.buf, c)
  BY <1>2, <1>4
<1>7. RecType' /\ rec'.buf = Append(rec.buf, c) /\ rec'.uis = ups
  <2> HIDE DEF ups
  <2> QED BY <1>1, <1>5, <1>6, AddIs
<1>8. Len(rec.uis) - 1 < MaxDepth
  BY <1>1 DEF Shallow, Depth
<1>9. Recorded(Append(rec.buf, c), ups)
  BY <1>1, <1>2, <1>3, <1>4, <1>8, RecordsOpening
<1> QED BY <1>7, <1>9 DEF RecInv

LEMMA LeaveRecords ==
  ASSUME RecInv, Leave
  PROVE  RecInv'
<1> DEFINE c == Cmd(IF Ui.kind = "window" THEN "end window" ELSE "end scope", Ui.id, Ui.kind)
           buf == IF ~Ui.emit THEN rec.buf ELSE Append(rec.buf, c)
           ups == Front(rec.uis)
<1>1. /\ RecType /\ rec.sdk /\ Recorded(rec.buf, rec.uis) /\ Depth > 0
      /\ rec' = [rec EXCEPT !.buf = buf, !.uis = ups]
  BY DEF RecInv, Leave
<1>2. rec.buf \in Seq(Cmds) /\ rec.uis \in Seq(Uis) /\ rec.uis # << >> /\ Len(rec.uis) \in Nat
  BY <1>1 DEF RecType, Recs
<1>3. 1 < Len(rec.uis)
  BY <1>1, <1>2 DEF Depth
<1>4. Ui \in Uis /\ Ui = Last(rec.uis)
  BY <1>1, UiIs DEF Ui
<1>5. c.op = ClosesAs(Last(rec.uis).kind) /\ c.id = Last(rec.uis).id
  BY <1>4 DEF Cmd, ClosesAs
<1>6. c \in Cmds
  BY <1>4 DEF Cmd, Cmds, Uis, Ops, Closing
<1> HIDE DEF c
<1>7. buf \in Seq(Cmds)
  BY <1>2, <1>6
<1>8. ups \in Seq(Uis) /\ ups # << >>
  <2>1. Front(rec.uis) \in Seq(Uis) /\ Len(Front(rec.uis)) = Len(rec.uis) - 1
    BY <1>2, FrontOf
  <2>2. Len(Front(rec.uis)) # 0
    BY <1>2, <1>3, <2>1
  <2> QED BY <2>1, <2>2, EmptySeq
<1>9. /\ ~Ui.emit => Recorded(rec.buf, Front(rec.uis))
      /\ Ui.emit => Recorded(Append(rec.buf, c), Front(rec.uis))
  BY <1>1, <1>2, <1>3, <1>4, <1>5, <1>6, RecordsLeaving
<1>10. Recorded(buf, ups)
  BY <1>9
<1> HIDE DEF buf, ups
<1>11. RecType' /\ rec'.buf = buf /\ rec'.uis = ups
  BY <1>1, <1>7, <1>8 DEF RecType, Recs
<1> QED BY <1>10, <1>11 DEF RecInv

LEMMA RawRecords ==
  ASSUME RecInv, NEW op \in Opening \cup Closing \cup {"widget"}, NEW id \in RawIds, Raw(op, id)
  PROVE  RecInv'
<1> DEFINE c == Cmd(op, id, "row")
<1>1. /\ RecType
      /\ rec' = [rec EXCEPT !.buf = Append(@, c), !.sdk = FALSE, !.calls = @ + 1]
  BY DEF RecInv, Raw
<1>2. c \in Cmds
  BY DEF Cmd, Cmds, Ops, UiKinds
<1> HIDE DEF c
<1>3. Append(rec.buf, c) \in Seq(Cmds) /\ rec.calls + 1 \in Nat
  BY <1>1, <1>2 DEF RecType, Recs
<1>4. RecType' /\ ~rec'.sdk
  BY <1>1, <1>3 DEF RecType, Recs
<1> QED BY <1>4 DEF RecInv

LEMMA FrameRecords ==
  ASSUME RecInv, NEW traps \in BOOLEAN, NEW at, NEW opened, Frame(traps, at, opened)
  PROVE  RecInv'
<1>1. rec.frame + 1 \in Nat /\ rec.app \in Apps
  BY DEF RecInv, RecType, Recs
<1>2. CASE rec' = [rec EXCEPT !.frame = @ + 1]
  <2>1. RecType' /\ rec'.buf = rec.buf /\ rec'.uis = rec.uis /\ rec'.sdk = rec.sdk
    BY <1>1, <1>2 DEF RecInv, RecType, Recs
  <2> QED BY <2>1 DEF RecInv
<1>3. CASE rec' = NoCalls(rec.app, rec.frame + 1)
  BY <1>1, <1>3, NoCallsIs DEF RecInv, RecType
<1> QED BY <1>2, <1>3 DEF Frame

LEMMA BalancedIfRecorded ==
  ASSUME RecInv
  PROVE  BalancedAccepted
<1>1. rec.buf \in Seq(Cmds) /\ rec.uis \in Seq(Uis)
  BY DEF RecInv, RecType, Recs
<1>2. ASSUME rec.sdk, Depth = 0 PROVE Validate(rec.buf)
  <2>1. Recorded(rec.buf, rec.uis) /\ Len(rec.uis) - 1 = 0 /\ 0 <= MaxDepth
    BY <1>2, FramesAssumption DEF RecInv, Depth
  <2>2. Seen(rec.buf).ok /\ Len(Seen(rec.buf).open) = 0
    BY <2>1 DEF Recorded
  <2>3. Seen(rec.buf) \in States(Cmds)
    <3>1. Len(rec.buf) \in 0..Len(rec.buf)
      BY <1>1
    <3> QED BY <1>1, <3>1, CheckedIs DEF Seen
  <2>4. Seen(rec.buf).open = << >>
    BY <2>2, <2>3, EmptySeq DEF States
  <2>5. Seen(rec.buf) = [ok |-> TRUE, open |-> << >>]
    BY <2>2, <2>3, <2>4 DEF States
  <2> QED BY <2>5 DEF Validate, Seen
<1> QED BY <1>1, <1>2, AcceptsPairings DEF BalancedAccepted

-----------------------------------------------------------------------------
(* ClicksActedOnce: a click the app has still to hear of is in a window     *)
(* whose last frame can be drawn, so the next frame draws it away.          *)

WinShape(w) ==
  w \in [responses : {w.responses}, last : {w.last}, links : {w.links}, error : BOOLEAN]

Shows(buf) == buf # << >> /\ Validate(buf)

ClickInv ==
  /\ WinShape(win)
  /\ clicks \in Seq([link : BOOLEAN, acts : Nat, told : Nat]) /\ Len(clicks) <= 1
  /\ Clicked(win) \subseteq DOMAIN clicks
  /\ \A n \in DOMAIN clicks :
       /\ clicks[n].acts = IF clicks[n].link THEN 1 ELSE 0
       /\ clicks[n].told <= 1
       /\ n \in Clicked(win) => clicks[n].told = 0
  /\ Clicked(win) # {} => Shows(win.last)

LEMMA NotDrawn ==
  ASSUME NEW v, WinShape(v), NEW w, w = [v EXCEPT !.error = TRUE]
  PROVE  WinShape(w) /\ w.last = v.last /\ w.responses = v.responses
<1>1. v \in [responses : {v.responses}, last : {v.last}, links : {v.links}, error : BOOLEAN]
  BY DEF WinShape
<1>2. w \in [responses : {v.responses}, last : {v.last}, links : {v.links}, error : BOOLEAN]
  BY <1>1
<1>3. w.last = v.last /\ w.responses = v.responses
  BY <1>1
<1> QED BY <1>2, <1>3 DEF WinShape

LEMMA AfterIs ==
  ASSUME NEW traps \in BOOLEAN, NEW at, NEW opened, NEW w, w = AfterFrame(traps, at, opened),
         NEW last, last = (IF traps THEN win.last ELSE rec.buf), WinShape(win)
  PROVE  /\ WinShape(w) /\ w.last = last
         /\ Shows(last) => \A r \in w.responses : r.click = IF r.id \in at THEN Len(clicks) + 1 ELSE NoClick
         /\ ~Shows(last) => w.responses = win.responses
<1> DEFINE v == [win EXCEPT !.error = traps, !.last = last]
           res == {[id |-> r.id, click |-> IF r.id \in at THEN Len(clicks) + 1 ELSE NoClick] :
                     r \in Range(Drawn(v.last, opened).out)}
           refused == [v EXCEPT !.error = TRUE]
           drawn == [v EXCEPT !.links = Links(v.last), !.responses = res]
<1>1. WinShape(v) /\ v.last = last /\ v.responses = win.responses
  <2>2. win \in [responses : {win.responses}, last : {win.last, last}, links : {win.links}, error : BOOLEAN]
    BY DEF WinShape
  <2>3. v \in [responses : {win.responses}, last : {win.last, last}, links : {win.links}, error : BOOLEAN]
    BY <2>2
  <2>4. v.last = last /\ v.responses = win.responses
    BY <2>2
  <2> QED BY <2>3, <2>4 DEF WinShape
<1>2. w = IF v.last = << >> THEN v ELSE Replay(v, at, opened)
  BY DEF AfterFrame
<1>3. Replay(v, at, opened) = IF ~Validate(v.last) THEN refused ELSE drawn
  BY DEF Replay
<1>4. \A r \in res : r.click = IF r.id \in at THEN Len(clicks) + 1 ELSE NoClick
  OBVIOUS
<1> HIDE DEF v, res
<1>5. WinShape(refused) /\ refused.last = last /\ refused.responses = win.responses
  <2>1. refused = [v EXCEPT !.error = TRUE]
    OBVIOUS
  <2> HIDE DEF refused
  <2> QED BY <1>1, <2>1, NotDrawn
<1>6. WinShape(drawn) /\ drawn.last = last /\ drawn.responses = res
  <2> DEFINE links == Links(v.last)
             Shape == [responses : {v.responses, res}, last : {v.last}, links : {v.links, links}, error : BOOLEAN]
  <2>1. v \in Shape
    BY <1>1 DEF WinShape
  <2> HIDE DEF links
  <2>2. drawn = [v EXCEPT !.links = links, !.responses = res]
    BY DEF links
  <2> HIDE DEF drawn
  <2>3. drawn \in Shape
    BY <2>1, <2>2
  <2>4. drawn.last = v.last /\ drawn.responses = res
    BY <2>1, <2>2
  <2> QED BY <1>1, <2>3, <2>4 DEF WinShape
<1> HIDE DEF refused, drawn
<1>7. CASE Shows(last)
  <2>1. w = drawn
    BY <1>1, <1>2, <1>3, <1>7 DEF Shows
  <2> QED BY <1>4, <1>6, <1>7, <2>1
<1>8. CASE ~Shows(last)
  <2>1. w = v \/ w = refused
    BY <1>1, <1>2, <1>3, <1>8 DEF Shows
  <2> QED BY <1>1, <1>5, <1>8, <2>1
<1> QED BY <1>7, <1>8

LEMMA FrameClicks ==
  ASSUME ClickInv, ~Unshowable, NEW traps \in BOOLEAN, NEW at, NEW opened, Frame(traps, at, opened),
         at = {} \/ \E id : at = {id}
  PROVE  ClickInv'
<1> DEFINE w == AfterFrame(traps, at, opened)
           last == IF traps THEN win.last ELSE rec.buf
           new  == at # {} /\ at \subseteq {r.id : r \in w.responses} /\ Len(clicks) + 1 \in Clicked(w)
           then == IF new THEN Append(clicks, [link |-> at \subseteq w.links, acts |-> 0, told |-> 0])
                   ELSE clicks
           Recs3 == [link : BOOLEAN, acts : Nat, told : Nat]
           cs == [n \in DOMAIN then |->
                    [then[n] EXCEPT !.told = IF n \in Clicked(win) THEN @ + 1 ELSE @,
                                    !.acts = IF n \in Acted(w) THEN @ + 1 ELSE @]]
<1>1. /\ clicks = << >> \/ traps \/ Shows(rec.buf)
      /\ at # {} => clicks = << >> /\ new
      /\ win' = w
      /\ clicks' = cs
  BY DEF Frame, Shows
<1>2. /\ WinShape(w) /\ w.last = last
      /\ Shows(last) => \A r \in w.responses : r.click = IF r.id \in at THEN Len(clicks) + 1 ELSE NoClick
      /\ ~Shows(last) => w.responses = win.responses
  <2> HIDE DEF w, last
  <2>1. w = AfterFrame(traps, at, opened) /\ last = (IF traps THEN win.last ELSE rec.buf)
    BY DEF w, last
  <2> QED BY <2>1, AfterIs DEF ClickInv
<1>3. Clicked(w) = {r.click : r \in w.responses} \ {NoClick}
  BY DEF Clicked
<1>4. Acted(w) = {r.click : r \in {x \in w.responses : x.id \in w.links}} \ {NoClick}
  BY DEF Acted
<1>5. Clicked(win) = {r.click : r \in win.responses} \ {NoClick}
  BY DEF Clicked
<1>6. clicks \in Seq(Recs3) /\ Len(clicks) \in Nat /\ Len(clicks) <= 1 /\ DOMAIN clicks = 1..Len(clicks)
  BY DEF ClickInv
<1>7. ~Shows(last) => Clicked(w) = Clicked(win)
  BY <1>2, <1>3, <1>5
<1> HIDE DEF w, last, Recs3
<1>8. CASE at = {}
  <2>1. ~new /\ then = clicks
    BY <1>8
  <2>2. Shows(last) => Clicked(w) = {}
    BY <1>2, <1>3, <1>8
  <2>3. Clicked(win) # {} => Shows(last)
    <3>1. Clicked(win) # {} => Shows(win.last) /\ clicks # << >>
      BY <1>6 DEF ClickInv
    <3> QED BY <1>1, <3>1 DEF last
  <2>4. Clicked(w) = {}
    BY <1>7, <2>2, <2>3
  <2>5. Acted(w) = {}
    BY <1>3, <1>4, <2>4
  <2>6. cs = [n \in 1..Len(clicks) |->
                [clicks[n] EXCEPT !.told = IF n \in Clicked(win) THEN @ + 1 ELSE @]]
    <3>1. ASSUME NEW n \in 1..Len(clicks)
          PROVE  [clicks[n] EXCEPT !.told = IF n \in Clicked(win) THEN @ + 1 ELSE @,
                                   !.acts = IF n \in Acted(w) THEN @ + 1 ELSE @]
                   = [clicks[n] EXCEPT !.told = IF n \in Clicked(win) THEN @ + 1 ELSE @]
      <4>1. clicks[n] \in Recs3
        BY <1>6
      <4> QED BY <2>5, <4>1 DEF Recs3
    <3> QED BY <1>6, <2>1, <3>1
  <2> HIDE DEF cs, new, then
  <2>7. ASSUME NEW n \in 1..Len(clicks)
        PROVE  /\ cs[n] \in Recs3 /\ cs[n].acts = clicks[n].acts /\ cs[n].link = clicks[n].link
               /\ cs[n].told <= 1
    <3>1. clicks[n] \in Recs3 /\ clicks[n].told <= 1 /\ (n \in Clicked(win) => clicks[n].told = 0)
      <4>1. clicks[n] \in Recs3 /\ n \in DOMAIN clicks
        BY <1>6
      <4> QED BY <4>1 DEF ClickInv
    <3>2. cs[n] = [clicks[n] EXCEPT !.told = IF n \in Clicked(win) THEN @ + 1 ELSE @]
      BY <2>6
    <3>3. clicks[n].told \in Nat /\ clicks[n].told + 1 \in Nat
      BY <3>1 DEF Recs3
    <3>4. cs[n] \in Recs3 /\ cs[n].acts = clicks[n].acts /\ cs[n].link = clicks[n].link
      BY <3>1, <3>2, <3>3 DEF Recs3
    <3>5. cs[n].told = IF n \in Clicked(win) THEN clicks[n].told + 1 ELSE clicks[n].told
      BY <3>1, <3>2 DEF Recs3
    <3> QED BY <3>1, <3>4, <3>5
  <2>8. cs \in Seq(Recs3) /\ Len(cs) = Len(clicks) /\ DOMAIN cs = 1..Len(clicks)
    <3>1. DOMAIN cs = 1..Len(clicks) /\ cs = [n \in 1..Len(clicks) |-> cs[n]]
      BY <2>6
    <3>2. cs \in [1..Len(clicks) -> Recs3]
      BY <2>7, <3>1
    <3> QED BY <1>6, <3>1, <3>2
  <2>9. \A n \in 1..Len(clicks) : cs[n].acts = IF cs[n].link THEN 1 ELSE 0
    BY <1>6, <2>7 DEF ClickInv
  <2>10. Clicked(win') = {}
    BY <1>1, <2>4
  <2> QED BY <1>1, <1>2, <1>6, <2>7, <2>8, <2>9, <2>10 DEF ClickInv, Recs3
<1>9. CASE at # {}
  <2>1. PICK id : at = {id}
    BY <1>9
  <2>2. clicks = << >> /\ new /\ Len(clicks) = 0 /\ Len(clicks) + 1 = 1
    <3>1. clicks = << >> /\ new
      BY <1>1, <1>9
    <3>2. Len(clicks) = 0
      BY <3>1
    <3> QED BY <3>1, <3>2
  <2>3. Clicked(win) = {}
    BY <1>6, <2>2 DEF ClickInv
  <2>4. 1 \in Clicked(w) /\ id \in {r.id : r \in w.responses}
    BY <2>1, <2>2
  <2>5. Shows(last) /\ \A r \in w.responses : r.click = IF r.id = id THEN 1 ELSE NoClick
    BY <1>2, <1>7, <2>1, <2>2, <2>3, <2>4
  <2>6. Clicked(w) = {1}
    BY <1>3, <2>4, <2>5
  <2>7. 1 \in Acted(w) <=> id \in w.links
    BY <1>4, <2>4, <2>5 DEF NoClick
  <2> DEFINE l == id \in w.links
  <2>8. l \in BOOLEAN
    OBVIOUS
  <2> DEFINE c == [link |-> l, acts |-> 0, told |-> 0]
             e == [c EXCEPT !.told = IF 1 \in Clicked(win) THEN @ + 1 ELSE @,
                            !.acts = IF 1 \in Acted(w) THEN @ + 1 ELSE @]
  <2>9. then = <<c>>
    <3>1. then = Append(clicks, [link |-> at \subseteq w.links, acts |-> 0, told |-> 0])
      BY <2>2
    <3>2. (at \subseteq w.links) = l
      BY <2>1
    <3> QED BY <2>2, <3>1, <3>2
  <2>10. 1 \in Acted(w) <=> l
    BY <2>7
  <2> HIDE DEF l
  <2>11. c \in Recs3 /\ c.link = l /\ c.acts = 0 /\ c.told = 0
    BY <2>8 DEF Recs3
  <2> HIDE DEF c
  <2>12. e \in Recs3 /\ e.link = l /\ e.acts = (IF 1 \in Acted(w) THEN 1 ELSE 0) /\ e.told = 0
    <3> DEFINE times == IF 1 \in Clicked(win) THEN c.told + 1 ELSE c.told
               acts == IF 1 \in Acted(w) THEN c.acts + 1 ELSE c.acts
    <3>1. times = 0 /\ acts = (IF 1 \in Acted(w) THEN 1 ELSE 0)
      BY <2>3, <2>11
    <3>2. times \in Nat /\ acts \in Nat
      BY <3>1
    <3>3. e = [c EXCEPT !.told = times, !.acts = acts]
      BY <2>11 DEF Recs3
    <3> HIDE DEF e, times, acts
    <3>4. e \in Recs3
      BY <2>11, <3>2, <3>3 DEF Recs3
    <3>5. e.link = c.link /\ e.told = times /\ e.acts = acts
      BY <2>11, <3>3 DEF Recs3
    <3> QED BY <2>11, <3>1, <3>4, <3>5
  <2>13. cs = [n \in {1} |-> e]
    <3> HIDE DEF then
    <3>1. DOMAIN then = {1} /\ then[1] = c
      BY <2>9
    <3> QED BY <3>1
  <2> HIDE DEF cs, e, new, then
  <2>14. cs = <<e>>
    BY <2>13
  <2>15. cs \in Seq(Recs3) /\ Len(cs) = 1 /\ DOMAIN cs = {1} /\ cs[1] = e
    BY <2>12, <2>14
  <2>16. Clicked(win') = {1} /\ Shows(win'.last)
    BY <1>1, <1>2, <2>5, <2>6
  <2>17. e.acts = (IF e.link THEN 1 ELSE 0)
    BY <2>12, <2>10
  <2> QED BY <1>1, <1>2, <2>12, <2>15, <2>16, <2>17 DEF ClickInv, Recs3
<1> QED BY <1>8, <1>9

LEMMA QuietSteps ==
  ASSUME ClickInv, UNCHANGED <<win, clicks>>
  PROVE  ClickInv'
BY DEF ClickInv, Clicked, WinShape, Shows

LEMMA FramesStep ==
  ASSUME [FNext]_fvars
  PROVE  /\ ~DeepWindows /\ RecInv => RecInv'
         /\ ~Unshowable /\ ClickInv => ClickInv'
<1>1. ASSUME NEW kind \in {"button", "link"}, Widget(kind)
      PROVE  (RecInv => RecInv') /\ UNCHANGED <<win, clicks>>
  BY <1>1, WidgetRecords DEF Widget
<1>2. ASSUME Separator PROVE (RecInv => RecInv') /\ UNCHANGED <<win, clicks>>
  BY <1>2, SeparatorRecords DEF Separator
<1>3. ASSUME NEW kind \in {"row", "table", "menu"}, Scope(kind)
      PROVE  (RecInv => RecInv') /\ UNCHANGED <<win, clicks>>
  BY <1>3, ScopeRecords DEF Scope
<1>4. ASSUME ShowWindow PROVE (~DeepWindows /\ RecInv => RecInv') /\ UNCHANGED <<win, clicks>>
  BY <1>4, WindowRecords DEF ShowWindow
<1>5. ASSUME Leave PROVE (RecInv => RecInv') /\ UNCHANGED <<win, clicks>>
  BY <1>5, LeaveRecords DEF Leave
<1>6. ASSUME NEW op \in Opening \cup Closing \cup {"widget"}, NEW id \in RawIds, Raw(op, id)
      PROVE  (RecInv => RecInv') /\ UNCHANGED <<win, clicks>>
  BY <1>6, RawRecords DEF Raw
<1>7. ASSUME NEW traps \in BOOLEAN, NEW at \in {{}} \cup {{id} : id \in Widgets},
             NEW opened \in Widgets \cup {Root}, Frame(traps, at, opened)
      PROVE  (RecInv => RecInv') /\ (~Unshowable /\ ClickInv => ClickInv')
  BY <1>7, FrameRecords, FrameClicks
<1>8. ASSUME UNCHANGED fvars PROVE (RecInv => RecInv') /\ UNCHANGED <<win, clicks>>
  BY <1>8 DEF fvars, RecInv, RecType
<1>9. UNCHANGED <<win, clicks>> /\ ClickInv => ClickInv'
  BY QuietSteps
<1> QED BY <1>1, <1>2, <1>3, <1>4, <1>5, <1>6, <1>7, <1>8, <1>9 DEF FNext

\* The host accepts exactly the streams of commands that pair up within the
\* depth, and finds the pairs; and, unless an app opens a window inside scopes
\* nested to the limit, all that the SDK records (decode.rs: validate; replay.rs:
\* match_scopes; ui.rs: Ui::scope).
THEOREM FramesBalanced == ~DeepWindows => (FSpec => []BalancedAccepted)
<1> SUFFICES ASSUME ~DeepWindows PROVE FSpec => []BalancedAccepted
  OBVIOUS
<1>1. FInit => RecInv
  BY NoCallsIs DEF FInit, RecInv, RecType
<1>2. RecInv /\ [FNext]_fvars => RecInv'
  BY FramesStep
<1>3. RecInv => BalancedAccepted
  BY BalancedIfRecorded
<1> QED BY <1>1, <1>2, <1>3, PTL DEF FSpec

\* The shell acts once on a click on a link and on no other, and the app hears of
\* a click in one frame at most, also when it fails and its last frame is drawn
\* again; unless a frame that shows nothing comes after the click (app_window.rs:
\* AppWindow::ui; desktop.rs).
THEOREM FramesClicks == ~Unshowable => (FSpec => []ClicksActedOnce)
<1> SUFFICES ASSUME ~Unshowable PROVE FSpec => []ClicksActedOnce
  OBVIOUS
<1>1. FInit => ClickInv
  BY DEF FInit, ClickInv, NewWindow, WinShape, Clicked
<1>2. ClickInv /\ [FNext]_fvars => ClickInv'
  BY FramesStep
<1>3. ClickInv => ClicksActedOnce
  BY DEF ClickInv, ClicksActedOnce
<1> QED BY <1>1, <1>2, <1>3, PTL DEF FSpec

-----------------------------------------------------------------------------
(* Drawing a span is what DrawSpan says: each step draws shorter spans, so   *)
(* that what is drawn of those of a length is known once it is known of all *)
(* shorter ones.                                                           *)

\* Where the scopes of a stream close.
Paired(cmds, closes) ==
  /\ \A i \in Openings(cmds) : closes[i] \in Closings(cmds) /\ i < closes[i]
  /\ \A j \in Closings(cmds) : \E i \in Openings(cmds) : closes[i] = j
  /\ \A i, k \in Openings(cmds) : i < k => closes[k] < closes[i] \/ closes[i] < k

NextSpan(s, x) == [table |-> s.table, at |-> s.at + 1, end |-> s.end, cx |-> x]
RestSpan(closes, s, x) ==
  [table |-> s.table, at |-> closes[s.at] + 1, end |-> s.end, cx |-> OutTo(x, s.cx)]
InnerSpan(cmds, closes, s, x, byRow) ==
  [table |-> byRow, at |-> s.at + 1, end |-> closes[s.at], cx |-> Into(x, cmds[s.at].id)]
OwnedCx(cmds, s) == [s.cx EXCEPT !.menus = @ \cup {<<cmds[s.at].id, s.cx.last>>}]

LEMMA SpanIs ==
  ASSUME NEW C, NEW cmds \in Seq(C), NEW closes, NEW s \in Spans(cmds, closes)
  PROVE  /\ s.table \in BOOLEAN /\ s.at \in Nat \ {0} /\ s.end \in 1..Len(cmds) + 1
         /\ s.cx \in Cxs(IdsOf(cmds)) /\ Len(cmds) \in Nat
         /\ s = [table |-> s.table, at |-> s.at, end |-> s.end, cx |-> s.cx]
         /\ \A i \in s.at..s.end - 1 :
              i \in Openings(cmds) => closes[i] \in i + 1..s.end - 1
         /\ s.at < s.end => s.at \in 1..Len(cmds) /\ s.at \in s.at..s.end - 1
<1>1. /\ s \in [table : BOOLEAN, at : Nat \ {0}, end : 1..Len(cmds) + 1, cx : Cxs(IdsOf(cmds))]
      /\ \A i \in s.at..s.end - 1 : cmds[i].op \in Opening => closes[i] \in i + 1..s.end - 1
  BY DEF Spans
<1>2. Len(cmds) \in Nat
  OBVIOUS
<1>3. s.table \in BOOLEAN /\ s.at \in Nat \ {0} /\ s.end \in 1..Len(cmds) + 1 /\ s.cx \in Cxs(IdsOf(cmds))
  BY <1>1
<1>4. s = [table |-> s.table, at |-> s.at, end |-> s.end, cx |-> s.cx]
  BY <1>1
<1>5. s.at < s.end => s.at \in 1..Len(cmds) /\ s.at \in s.at..s.end - 1
  BY <1>2, <1>3
<1> QED BY <1>1, <1>2, <1>3, <1>4, <1>5 DEF Openings

LEMMA SpanOf ==
  ASSUME NEW C, NEW cmds \in Seq(C), NEW closes, NEW byRow \in BOOLEAN, NEW from \in Nat \ {0},
         NEW to \in 1..Len(cmds) + 1, NEW x \in Cxs(IdsOf(cmds)),
         \A i \in from..to - 1 : i \in Openings(cmds) => closes[i] \in i + 1..to - 1
  PROVE  [table |-> byRow, at |-> from, end |-> to, cx |-> x] \in Spans(cmds, closes)
<1> DEFINE s == [table |-> byRow, at |-> from, end |-> to, cx |-> x]
<1>1. s \in [table : BOOLEAN, at : Nat \ {0}, end : 1..Len(cmds) + 1, cx : Cxs(IdsOf(cmds))]
  OBVIOUS
<1>2. s.at = from /\ s.end = to
  OBVIOUS
<1> HIDE DEF s
<1>3. Len(cmds) \in Nat /\ DOMAIN cmds = 1..Len(cmds)
  OBVIOUS
<1>4. \A i \in from..to - 1 : i \in DOMAIN cmds
  BY <1>3
<1>5. \A i \in from..to - 1 : cmds[i].op \in Opening => closes[i] \in i + 1..to - 1
  BY <1>4 DEF Openings
<1> QED BY <1>1, <1>2, <1>5 DEF Spans, s

LEMMA CxOf ==
  ASSUME NEW C, NEW cmds \in Seq(C), NEW x \in Cxs(IdsOf(cmds)), NEW y \in Cxs(IdsOf(cmds)),
         NEW i \in 1..Len(cmds)
  PROVE  /\ Into(x, cmds[i].id) \in Cxs(IdsOf(cmds)) /\ OutTo(x, y) \in Cxs(IdsOf(cmds))
         /\ Finish(x, cmds[i]) \in Cxs(IdsOf(cmds))
         /\ [x EXCEPT !.menus = @ \cup {<<cmds[i].id, x.last>>}] \in Cxs(IdsOf(cmds))
         /\ Into(x, cmds[i].id) = [x EXCEPT !.within = @ \cup {cmds[i].id}]
<1> DEFINE ids == IdsOf(cmds)
           E == [id : ids, within : SUBSET ids]
           e == [id |-> cmds[i].id, within |-> x.within]
<1>1. cmds[i].id \in ids
  BY DEF IdsOf
<1> HIDE DEF ids
<1>2. x \in [out : Seq(E), within : SUBSET ids, last : ids, menus : SUBSET (ids \X ids)]
  BY DEF Cxs, ids
<1>3. y \in [out : Seq(E), within : SUBSET ids, last : ids, menus : SUBSET (ids \X ids)]
  BY DEF Cxs, ids
<1>4. e \in E
  BY <1>1, <1>2
<1> HIDE DEF E
<1>5. Append(x.out, e) \in Seq(E)
  BY <1>2, <1>4
<1>6. Finish(x, cmds[i]) \in [out : Seq(E), within : SUBSET ids, last : ids, menus : SUBSET (ids \X ids)]
  BY <1>1, <1>2, <1>5 DEF Finish
<1>7. Into(x, cmds[i].id) \in [out : Seq(E), within : SUBSET ids, last : ids, menus : SUBSET (ids \X ids)]
  BY <1>1, <1>2 DEF Into
<1>8. OutTo(x, y) \in [out : Seq(E), within : SUBSET ids, last : ids, menus : SUBSET (ids \X ids)]
  BY <1>2, <1>3 DEF OutTo
<1>9. x.menus \cup {<<cmds[i].id, x.last>>} \in SUBSET (ids \X ids)
  BY <1>1, <1>2
<1>10. [x EXCEPT !.menus = @ \cup {<<cmds[i].id, x.last>>}]
         \in [out : Seq(E), within : SUBSET ids, last : ids, menus : SUBSET (ids \X ids)]
  BY <1>2, <1>9
<1> QED BY <1>6, <1>7, <1>8, <1>10 DEF Cxs, E, ids, Into

LEMMA SpansIn ==
  ASSUME NEW C, NEW cmds \in Seq(C), NEW closes, Paired(cmds, closes),
         NEW s \in Spans(cmds, closes), s.at < s.end, NEW x \in Cxs(IdsOf(cmds))
  PROVE  /\ s.at \notin Openings(cmds) =>
              NextSpan(s, x) \in Spans(cmds, closes)
         /\ s.at \in Openings(cmds) =>
              /\ RestSpan(closes, s, x) \in Spans(cmds, closes)
              /\ \A byRow \in BOOLEAN : InnerSpan(cmds, closes, s, x, byRow) \in Spans(cmds, closes)
              /\ closes[s.at] \in s.at + 1..s.end - 1
<1>1. /\ s.table \in BOOLEAN /\ s.at \in Nat \ {0} /\ s.end \in 1..Len(cmds) + 1
      /\ s.cx \in Cxs(IdsOf(cmds)) /\ Len(cmds) \in Nat
      /\ \A i \in s.at..s.end - 1 : i \in Openings(cmds) => closes[i] \in i + 1..s.end - 1
      /\ s.at \in 1..Len(cmds) /\ s.at \in s.at..s.end - 1
  BY SpanIs
<1>2. Into(x, cmds[s.at].id) \in Cxs(IdsOf(cmds)) /\ OutTo(x, s.cx) \in Cxs(IdsOf(cmds))
  BY <1>1, CxOf
<1>3. NextSpan(s, x) \in Spans(cmds, closes)
  <2>1. \A i \in s.at + 1..s.end - 1 : i \in Openings(cmds) => closes[i] \in i + 1..s.end - 1
    BY <1>1
  <2>2. s.at + 1 \in Nat \ {0}
    BY <1>1
  <2> QED BY <1>1, <2>1, <2>2, SpanOf DEF NextSpan
<1>4. ASSUME s.at \in Openings(cmds)
      PROVE  /\ RestSpan(closes, s, x) \in Spans(cmds, closes)
             /\ \A byRow \in BOOLEAN : InnerSpan(cmds, closes, s, x, byRow) \in Spans(cmds, closes)
             /\ closes[s.at] \in s.at + 1..s.end - 1
  <2> DEFINE e == closes[s.at]
  <2>1. e \in s.at + 1..s.end - 1
    BY <1>1, <1>4
  <2>2. e \in Nat \ {0} /\ e + 1 \in Nat \ {0} /\ s.at + 1 \in Nat \ {0} /\ e \in 1..Len(cmds) + 1
    BY <1>1, <2>1
  <2> HIDE DEF e
  <2>3. \A i \in e + 1..s.end - 1 : i \in Openings(cmds) => closes[i] \in i + 1..s.end - 1
    BY <1>1, <2>1
  <2>4. RestSpan(closes, s, x) \in Spans(cmds, closes)
    BY <1>1, <1>2, <2>2, <2>3, SpanOf DEF RestSpan, e
  <2>5. ASSUME NEW i \in s.at + 1..e - 1, i \in Openings(cmds) PROVE closes[i] \in i + 1..e - 1
    <3>1. i \in s.at..s.end - 1 /\ s.at < i /\ i < e /\ i \in Nat
      BY <1>1, <2>1
    <3>2. closes[i] \in i + 1..s.end - 1
      BY <1>1, <2>5, <3>1
    <3>3. closes[i] < e \/ e < i
      BY <1>4, <2>5, <3>1 DEF Paired, e
    <3> QED BY <1>1, <2>2, <3>1, <3>2, <3>3
  <2>6. \A byRow \in BOOLEAN : InnerSpan(cmds, closes, s, x, byRow) \in Spans(cmds, closes)
    BY <1>2, <2>2, <2>5, SpanOf DEF InnerSpan, e
  <2> QED BY <2>1, <2>4, <2>6 DEF e
<1> QED BY <1>3, <1>4

\* What DrawSpan draws, with the spans it draws next in full.
Drawing1(draw, cmds, closes, opened, s) ==
  LET c == cmds[s.at] IN
  IF s.at >= s.end THEN s.cx
  ELSE IF s.at \notin Openings(cmds)
       THEN draw[NextSpan(s, IF c.op = "widget" THEN Finish(s.cx, c) ELSE s.cx)]
  ELSE IF s.table \/ c.kind \notin {"table", "menu"}
       THEN draw[RestSpan(closes, s, draw[InnerSpan(cmds, closes, s, s.cx, FALSE)])]
  ELSE IF c.kind = "table"
       THEN draw[RestSpan(closes, s, draw[InnerSpan(cmds, closes, s, s.cx, TRUE)])]
  ELSE IF s.cx.last = Root THEN draw[RestSpan(closes, s, s.cx)]
  ELSE IF s.cx.last # opened THEN draw[RestSpan(closes, s, OwnedCx(cmds, s))]
  ELSE draw[RestSpan(closes, s, draw[InnerSpan(cmds, closes, s, OwnedCx(cmds, s), FALSE)])]

LEMMA SpanWith ==
  ASSUME NEW s, s = [table |-> s.table, at |-> s.at, end |-> s.end, cx |-> s.cx], NEW from, NEW x
  PROVE  [s EXCEPT !.at = from, !.cx = x] = [table |-> s.table, at |-> from, end |-> s.end, cx |-> x]
<1>1. s \in [table : {s.table}, at : {s.at}, end : {s.end}, cx : {s.cx}]
  BY Zenon
<1> DEFINE t == [s EXCEPT !.at = from, !.cx = x]
<1>2. t \in [table : {s.table}, at : {from}, end : {s.end}, cx : {x}]
  BY <1>1
<1> HIDE DEF t
<1>3. t = [table |-> t.table, at |-> t.at, end |-> t.end, cx |-> t.cx]
  BY <1>2
<1>4. t.table = s.table /\ t.at = from /\ t.end = s.end /\ t.cx = x
  BY <1>2
<1> QED BY <1>3, <1>4 DEF t

LEMMA DrawSpanIs ==
  ASSUME NEW C, NEW cmds \in Seq(C), NEW closes, NEW opened, NEW s \in Spans(cmds, closes), NEW draw
  PROVE  DrawSpan(draw, cmds, closes, opened, s) = Drawing1(draw, cmds, closes, opened, s)
<1> DEFINE c == cmds[s.at]
<1>1. /\ s = [table |-> s.table, at |-> s.at, end |-> s.end, cx |-> s.cx]
      /\ s.at \in Nat /\ s.end \in Nat /\ Len(cmds) \in Nat
      /\ s.at < s.end => s.at \in 1..Len(cmds)
  BY SpanIs
<1>2. \A x : [s EXCEPT !.at = @ + 1, !.cx = x] = NextSpan(s, x)
  BY <1>1, SpanWith DEF NextSpan
<1>3. \A x : [s EXCEPT !.at = closes[@] + 1, !.cx = OutTo(x, s.cx)] = RestSpan(closes, s, x)
  BY <1>1, SpanWith DEF RestSpan
<1>4. s.at < s.end => (s.at \in Openings(cmds) <=> c.op \in Opening)
  BY <1>1 DEF Openings
<1>5. "widget" \notin Opening
  BY DEF Opening
<1>6. CASE s.at >= s.end
  BY <1>6, <1>1 DEF DrawSpan, Drawing1
<1>7. CASE s.at < s.end /\ c.op = "widget"
  <2>1. s.at \notin Openings(cmds) /\ ~(s.at >= s.end)
    BY <1>1, <1>4, <1>5, <1>7
  <2>2. DrawSpan(draw, cmds, closes, opened, s) = draw[[s EXCEPT !.at = @ + 1, !.cx = Finish(s.cx, c)]]
    BY <1>5, <1>7, <2>1 DEF DrawSpan
  <2>3. Drawing1(draw, cmds, closes, opened, s) = draw[NextSpan(s, Finish(s.cx, c))]
    BY <1>7, <2>1 DEF Drawing1
  <2> QED BY <1>2, <2>2, <2>3
<1>8. CASE s.at < s.end /\ c.op \notin {"widget"} \cup Opening
  <2>1. s.at \notin Openings(cmds) /\ ~(s.at >= s.end)
    BY <1>1, <1>4, <1>5, <1>8
  <2>2. DrawSpan(draw, cmds, closes, opened, s) = draw[[s EXCEPT !.at = @ + 1, !.cx = s.cx]]
    BY <1>5, <1>8, <2>1 DEF DrawSpan
  <2>3. Drawing1(draw, cmds, closes, opened, s) = draw[NextSpan(s, s.cx)]
    BY <1>8, <2>1 DEF Drawing1
  <2> QED BY <1>2, <2>2, <2>3
<1>9. CASE s.at < s.end /\ c.op \in Opening
  <2>1. s.at \in Openings(cmds) /\ ~(s.at >= s.end) /\ c.op # "widget"
    BY <1>1, <1>4, <1>5, <1>9
  <2> DEFINE rest(x) == draw[[s EXCEPT !.at = closes[@] + 1, !.cx = OutTo(x, s.cx)]]
             inside(x, byRow) == draw[InnerSpan(cmds, closes, s, x, byRow)]
             own == OwnedCx(cmds, s)
             drawn == IF s.table \/ c.kind \notin {"table", "menu"} THEN rest(inside(s.cx, FALSE))
                      ELSE IF c.kind = "table" THEN rest(inside(s.cx, TRUE))
                      ELSE IF s.cx.last = Root THEN rest(s.cx)
                      ELSE IF s.cx.last # opened THEN rest(own)
                      ELSE rest(inside(own, FALSE))
  <2>2. DrawSpan(draw, cmds, closes, opened, s) = drawn
    BY <1>5, <1>9, <2>1 DEF DrawSpan, InnerSpan, OwnedCx
  <2>3. \A x : rest(x) = draw[RestSpan(closes, s, x)]
    BY <1>3
  <2> HIDE DEF rest, inside, own
  <2>4. drawn = Drawing1(draw, cmds, closes, opened, s)
    BY <2>1, <2>3 DEF Drawing1, inside, own
  <2> HIDE DEF drawn
  <2> QED BY <2>2, <2>4
<1> QED BY <1>1, <1>6, <1>7, <1>8, <1>9

LEMMA DrawsAlike ==
  ASSUME NEW C, NEW cmds \in Seq(C), NEW closes, Paired(cmds, closes), NEW opened,
         NEW s \in Spans(cmds, closes), NEW n \in Nat, s.end - s.at <= n + 1, NEW f, NEW g,
         \A t \in Spans(cmds, closes) :
           t.end - t.at <= n => f[t] = g[t] /\ f[t] \in Cxs(IdsOf(cmds))
  PROVE  /\ DrawSpan(f, cmds, closes, opened, s) = DrawSpan(g, cmds, closes, opened, s)
         /\ DrawSpan(f, cmds, closes, opened, s) \in Cxs(IdsOf(cmds))
<1> DEFINE S == Spans(cmds, closes)
           X == Cxs(IdsOf(cmds))
           c == cmds[s.at]
           e == closes[s.at]
           Goal == /\ Drawing1(f, cmds, closes, opened, s) = Drawing1(g, cmds, closes, opened, s)
                   /\ Drawing1(f, cmds, closes, opened, s) \in X
<1>1. /\ s.table \in BOOLEAN /\ s.at \in Nat \ {0} /\ s.end \in Nat /\ s.cx \in X /\ Len(cmds) \in Nat
      /\ s.at < s.end => s.at \in 1..Len(cmds)
  BY SpanIs
<1>2. SUFFICES Goal
  BY DrawSpanIs
<1>3. CASE s.at >= s.end
  BY <1>1, <1>3 DEF Drawing1
<1>4. CASE s.at < s.end /\ s.at \notin Openings(cmds)
  <2> DEFINE x == IF c.op = "widget" THEN Finish(s.cx, c) ELSE s.cx
             t == NextSpan(s, x)
  <2>1. x \in X
    BY <1>1, <1>4, CxOf
  <2>2. t.end = s.end /\ t.at = s.at + 1
    BY DEF NextSpan
  <2> HIDE DEF x
  <2>3. t \in S
    BY <1>4, <2>1, SpansIn
  <2> HIDE DEF t
  <2>4. t.end - t.at <= n
    BY <1>1, <2>2
  <2>5. f[t] = g[t] /\ f[t] \in X
    BY <2>3, <2>4
  <2>6. Drawing1(f, cmds, closes, opened, s) = f[t] /\ Drawing1(g, cmds, closes, opened, s) = g[t]
    BY <1>1, <1>4 DEF Drawing1, t, x
  <2> QED BY <2>5, <2>6
<1>5. CASE s.at < s.end /\ s.at \in Openings(cmds)
  <2>1. e \in s.at + 1..s.end - 1
    BY <1>1, <1>5, SpansIn
  <2>2. e \in Nat /\ s.end - (e + 1) <= n /\ e - (s.at + 1) <= n
    BY <1>1, <2>1
  <2>3. ASSUME NEW x \in X
        PROVE  f[RestSpan(closes, s, x)] = g[RestSpan(closes, s, x)] /\ f[RestSpan(closes, s, x)] \in X
    <3> DEFINE t == RestSpan(closes, s, x)
    <3>1. t \in S
      BY <1>5, SpansIn
    <3>2. t.end = s.end /\ t.at = e + 1
      BY DEF RestSpan
    <3> HIDE DEF t, e
    <3>3. t.end - t.at <= n
      BY <2>2, <3>2
    <3>4. f[t] = g[t] /\ f[t] \in X
      BY <3>1, <3>3
    <3> QED BY <3>4 DEF t
  <2>4. ASSUME NEW x \in X, NEW byRow \in BOOLEAN
        PROVE  /\ f[InnerSpan(cmds, closes, s, x, byRow)] = g[InnerSpan(cmds, closes, s, x, byRow)]
               /\ f[InnerSpan(cmds, closes, s, x, byRow)] \in X
    <3> DEFINE t == InnerSpan(cmds, closes, s, x, byRow)
    <3>1. t \in S
      BY <1>5, SpansIn
    <3>2. t.end = e /\ t.at = s.at + 1
      BY DEF InnerSpan
    <3> HIDE DEF t, e
    <3>3. t.end - t.at <= n
      BY <2>2, <3>2
    <3>4. f[t] = g[t] /\ f[t] \in X
      BY <3>1, <3>3
    <3> QED BY <3>4 DEF t
  <2>5. OwnedCx(cmds, s) \in X
    BY <1>1, <1>5, CxOf DEF OwnedCx
  <2>6. s.cx \in X /\ ~(s.at >= s.end)
    BY <1>1, <1>5
  <2> HIDE DEF X
  <2> QED BY <1>5, <2>3, <2>4, <2>5, <2>6 DEF Drawing1
<1> QED BY <1>1, <1>3, <1>4, <1>5

LEMMA RenderIs ==
  ASSUME NEW C, NEW cmds \in Seq(C), NEW closes, Paired(cmds, closes), NEW opened,
         NEW s \in Spans(cmds, closes)
  PROVE  Render(cmds, closes, opened)[s] =
           DrawSpan(Render(cmds, closes, opened), cmds, closes, opened, s)
<1> DEFINE S == Spans(cmds, closes)
           X == Cxs(IdsOf(cmds))
           L == Len(cmds) + 1
           D(f, t) == DrawSpan(f, cmds, closes, opened, t)
           G == {n \in 0..L : \E f \in [S -> X] :
                   \A t \in S : t.end - t.at <= n => f[t] = D(f, t)}
<1>1. L \in Nat /\ \A t \in S : t.end \in Nat /\ t.at \in Nat /\ t.end <= L /\ t.cx \in X
  <2>1. L \in Nat
    OBVIOUS
  <2>2. \A t \in S : t.end \in Nat /\ t.at \in Nat /\ t.end <= L /\ t.cx \in X
    BY SpanIs
  <2> QED BY <2>1, <2>2
<1>2. \A f : \A t \in S : t.end - t.at <= 0 => D(f, t) = t.cx
  <2> SUFFICES ASSUME NEW f, NEW t \in S PROVE t.end - t.at <= 0 => D(f, t) = t.cx
    OBVIOUS
  <2>1. t.end - t.at <= 0 => t.at >= t.end
    BY <1>1
  <2>2. D(f, t) = Drawing1(f, cmds, closes, opened, t)
    BY DrawSpanIs
  <2>3. t.at >= t.end => Drawing1(f, cmds, closes, opened, t) = t.cx
    BY DEF Drawing1
  <2> QED BY <2>1, <2>2, <2>3
<1>3. 0 \in G
  <2> DEFINE f == [t \in S |-> t.cx]
  <2>1. f \in [S -> X] /\ \A t \in S : f[t] = t.cx
    BY <1>1
  <2> HIDE DEF f, D
  <2>2. \A t \in S : t.end - t.at <= 0 => f[t] = D(f, t)
    BY <1>2, <2>1
  <2>3. 0 \in 0..L
    BY <1>1
  <2> QED BY <2>1, <2>2, <2>3
<1>4. ASSUME NEW n \in 0..L, n # L, n \in G PROVE n + 1 \in G
  <2>1. PICK f \in [S -> X] : \A t \in S : t.end - t.at <= n => f[t] = D(f, t)
    BY <1>4
  <2>2. ASSUME NEW t \in S PROVE D(f, t) \in X
    <3>1. L \in Nat /\ t.end - t.at <= L + 1
      BY <1>1
    <3>2. \A u \in S : u.end - u.at <= L => f[u] = f[u] /\ f[u] \in X
      OBVIOUS
    <3> HIDE DEF L
    <3> QED BY <3>1, <3>2, DrawsAlike
  <2> DEFINE g == [t \in S |-> D(f, t)]
  <2>3. g \in [S -> X] /\ \A t \in S : g[t] = D(f, t)
    BY <2>2
  <2> HIDE DEF g, D
  <2>4. n \in Nat /\ n + 1 \in 0..L
    BY <1>1, <1>4
  <2>5. \A t \in S : t.end - t.at <= n => f[t] = g[t] /\ f[t] \in X
    BY <2>1, <2>3
  <2>6. \A t \in S : t.end - t.at <= n + 1 => D(f, t) = D(g, t)
    BY <2>4, <2>5, DrawsAlike DEF D
  <2>7. \A t \in S : t.end - t.at <= n + 1 => g[t] = D(g, t)
    BY <2>3, <2>6
  <2> QED BY <2>3, <2>4, <2>7
<1> HIDE DEF G
<1>5. 0..L \subseteq G
  BY <1>1, <1>3, <1>4, UpTo
<1>6. L \in G
  BY <1>1, <1>5
<1>7. PICK f \in [S -> X] : \A t \in S : t.end - t.at <= L => f[t] = D(f, t)
  BY <1>6 DEF G
<1>8. \A t \in S : t.end - t.at <= L
  BY <1>1
<1> HIDE DEF D, L
<1>9. f = [t \in S |-> D(f, t)]
  BY <1>7, <1>8
<1> DEFINE r == CHOOSE h : h = [t \in S |-> D(h, t)]
<1>10. r = [t \in S |-> D(r, t)]
  BY <1>9, Zenon
<1>11. Render(cmds, closes, opened) = r
  BY DEF Render, D
<1> HIDE DEF r
<1>12. r[s] = D(r, s)
  BY <1>10
<1> QED BY <1>11, <1>12 DEF D

-----------------------------------------------------------------------------
(* What is drawn of a stream that pairs up: of each span, the widgets in it *)
(* that are in no menu but those of the widget whose menu is open.          *)

\* The scopes that a command is in.
ScopesAt(cmds, closes, p) == {k \in Openings(cmds) : k < p /\ p <= closes[k]}

IdsAt(cmds, closes, p) == {cmds[k].id : k \in ScopesAt(cmds, closes, p)}

\* A menu follows its widget, and is in no table directly.
Drawable(cmds, closes) ==
  /\ Paired(cmds, closes)
  /\ \A i \in DOMAIN cmds : cmds[i].op = "widget" => cmds[i].id # Root
  /\ \A k \in Openings(cmds) : cmds[k].kind = "menu" =>
       /\ k - 1 \in DOMAIN cmds /\ cmds[k - 1].op = "widget"
       /\ \A t \in ScopesAt(cmds, closes, k) :
            cmds[t].kind = "table" => \E i \in ScopesAt(cmds, closes, k) : t < i

MenuOpen(cmds, opened, k) == cmds[k].kind = "menu" => cmds[k - 1].id = opened

Shown(cmds, closes, opened) ==
  {i \in DOMAIN cmds : /\ cmds[i].op = "widget"
                       /\ \A k \in ScopesAt(cmds, closes, i) : MenuOpen(cmds, opened, k)}

ShownBy(cmds, closes, opened, p) == {j \in Shown(cmds, closes, opened) : j <= p}

NthDrawn(cmds, closes, opened, p) == Cardinality(ShownBy(cmds, closes, opened, p))

DrawnAs(cmds, closes, i) == [id |-> cmds[i].id, within |-> IdsAt(cmds, closes, i)]

MenuOf(cmds, o) ==
  \E k \in Openings(cmds) : cmds[k].kind = "menu" /\ o = <<cmds[k].id, cmds[k - 1].id>>

\* x is what has been drawn once the commands up to p have been.
DrawnTo(cmds, closes, opened, x, p) ==
  /\ x \in Cxs(IdsOf(cmds))
  /\ Len(x.out) = NthDrawn(cmds, closes, opened, p)
  /\ \A i \in Shown(cmds, closes, opened) :
       i <= p => x.out[NthDrawn(cmds, closes, opened, i)] = DrawnAs(cmds, closes, i)
  /\ \A o \in x.menus : MenuOf(cmds, o)

\* A span comes to be drawn.
Ready(cmds, closes, opened, s) ==
  /\ s \in Spans(cmds, closes) /\ s.at <= s.end
  /\ DrawnTo(cmds, closes, opened, s.cx, s.at - 1)
  /\ s.cx.within = IdsAt(cmds, closes, s.at)
  /\ s.at - 1 \in DOMAIN cmds /\ cmds[s.at - 1].op = "widget" => s.cx.last = cmds[s.at - 1].id
  /\ \A k \in ScopesAt(cmds, closes, s.at) : s.end <= closes[k] /\ MenuOpen(cmds, opened, k)
  /\ s.table => \E t \in ScopesAt(cmds, closes, s.at) :
                  cmds[t].kind = "table" /\ \A k \in ScopesAt(cmds, closes, s.at) : k <= t

LEMMA PlaceIs ==
  ASSUME NEW C, NEW cmds \in Seq(C), NEW closes, NEW opened, NEW p \in Nat
  PROVE  /\ NthDrawn(cmds, closes, opened, p) \in Nat
         /\ Shown(cmds, closes, opened) \subseteq 1..Len(cmds)
         /\ IsFiniteSet(ShownBy(cmds, closes, opened, p))
         /\ \A i \in ShownBy(cmds, closes, opened, p) :
              NthDrawn(cmds, closes, opened, i) \in 1..NthDrawn(cmds, closes, opened, p)
         /\ p + 1 \in Shown(cmds, closes, opened) =>
              NthDrawn(cmds, closes, opened, p + 1) = NthDrawn(cmds, closes, opened, p) + 1
         /\ \A q \in Nat :
              p <= q /\ (\A i \in p + 1..q : i \notin Shown(cmds, closes, opened)) =>
                NthDrawn(cmds, closes, opened, q) = NthDrawn(cmds, closes, opened, p)
<1> DEFINE S == Shown(cmds, closes, opened)
           B(q) == ShownBy(cmds, closes, opened, q)
<1>1. S \subseteq 1..Len(cmds) /\ Len(cmds) \in Nat
  <2>1. DOMAIN cmds = 1..Len(cmds) /\ Len(cmds) \in Nat
    OBVIOUS
  <2> QED BY <2>1 DEF Shown
<1>2. \A q : B(q) = {j \in S : j <= q} /\ B(q) \subseteq 1..Len(cmds)
  BY <1>1 DEF ShownBy
<1>3. \A q : IsFiniteSet(B(q)) /\ Cardinality(B(q)) \in Nat
  <2>1. IsFiniteSet(1..Len(cmds))
    BY <1>1, FS_Interval
  <2> QED BY <1>2, <2>1, FS_Subset, FS_CardinalityType
<1> HIDE DEF S, B
<1>4. ASSUME NEW i \in B(p) PROVE Cardinality(B(i)) \in 1..Cardinality(B(p))
  <2>1. i \in 1..Len(cmds) /\ i <= p /\ i \in Nat /\ i \in B(i)
    BY <1>1, <1>2, <1>4
  <2>2. B(i) \subseteq B(p)
    BY <1>1, <1>2, <2>1
  <2>3. Cardinality(B(i)) <= Cardinality(B(p))
    BY <1>3, <2>2, FS_Subset
  <2>4. B(i) # {}
    BY <2>1
  <2>5. Cardinality(B(i)) # 0
    BY <1>3, <2>4, FS_EmptySet
  <2>6. \A c, d \in Nat : c <= d /\ c # 0 => c \in 1..d
    OBVIOUS
  <2> QED BY <1>3, <2>3, <2>5, <2>6
<1>5. ASSUME p + 1 \in S PROVE Cardinality(B(p + 1)) = Cardinality(B(p)) + 1
  <2>1. \A j \in Nat : j <= p + 1 <=> j <= p \/ j = p + 1
    OBVIOUS
  <2>2. B(p + 1) = B(p) \cup {p + 1} /\ p + 1 \notin B(p)
    <3>1. \A j \in S : j \in Nat
      BY <1>1
    <3>2. B(p + 1) = {j \in S : j <= p + 1} /\ B(p) = {j \in S : j <= p} /\ ~(p + 1 <= p)
      BY <1>2
    <3> QED BY <1>5, <2>1, <3>1, <3>2
  <2> QED BY <1>3, <2>2, FS_AddElement
<1>6. ASSUME NEW q \in Nat, p <= q, \A i \in p + 1..q : i \notin S
      PROVE  Cardinality(B(q)) = Cardinality(B(p))
  <2>1. \A j \in S : j <= q <=> j <= p
    BY <1>1, <1>6
  <2>2. B(q) = B(p)
    BY <1>2, <2>1
  <2> QED BY <2>2
<1> QED BY <1>1, <1>3, <1>4, <1>5, <1>6 DEF NthDrawn, S, B

LEMMA DrawnSame ==
  ASSUME NEW C, NEW cmds \in Seq(C), NEW closes, NEW opened, NEW x, NEW y, NEW p \in Nat, NEW q \in Nat,
         DrawnTo(cmds, closes, opened, x, p), p <= q,
         \A i \in p + 1..q : i \notin Shown(cmds, closes, opened),
         y \in Cxs(IdsOf(cmds)), y.out = x.out, \A o \in y.menus : MenuOf(cmds, o)
  PROVE  DrawnTo(cmds, closes, opened, y, q)
<1>1. NthDrawn(cmds, closes, opened, q) = NthDrawn(cmds, closes, opened, p)
  BY PlaceIs
<1>2. Shown(cmds, closes, opened) \subseteq 1..Len(cmds)
  BY PlaceIs
<1>3. \A i \in Shown(cmds, closes, opened) : i <= q => i <= p
  BY <1>2
<1> QED BY <1>1, <1>3 DEF DrawnTo

LEMMA DrawnMore ==
  ASSUME NEW C, NEW cmds \in Seq(C), NEW closes, NEW opened, NEW x, NEW p \in Nat,
         DrawnTo(cmds, closes, opened, x, p), p + 1 \in Shown(cmds, closes, opened),
         x.within = IdsAt(cmds, closes, p + 1)
  PROVE  DrawnTo(cmds, closes, opened, Finish(x, cmds[p + 1]), p + 1)
<1> DEFINE S == Shown(cmds, closes, opened)
           N(q) == NthDrawn(cmds, closes, opened, q)
           e == DrawnAs(cmds, closes, p + 1)
           y == Finish(x, cmds[p + 1])
           E == [id : IdsOf(cmds), within : SUBSET IdsOf(cmds)]
<1>1. /\ N(p) \in Nat /\ N(p + 1) = N(p) + 1 /\ S \subseteq 1..Len(cmds)
      /\ \A i \in ShownBy(cmds, closes, opened, p) : N(i) \in 1..N(p)
  BY PlaceIs
<1>2. y \in Cxs(IdsOf(cmds))
  BY <1>1, CxOf DEF DrawnTo
<1>3. x \in Cxs(IdsOf(cmds)) /\ x.out \in Seq(E)
  BY DEF DrawnTo, Cxs
<1>4. y.out = Append(x.out, e) /\ y.menus = x.menus
  BY <1>3 DEF Finish, DrawnAs, Cxs
<1>5. e \in E
  <2>1. p + 1 \in DOMAIN cmds
    BY <1>1
  <2>2. IdsAt(cmds, closes, p + 1) \in SUBSET IdsOf(cmds)
    BY DEF IdsAt, ScopesAt, Openings, IdsOf
  <2>3. cmds[p + 1].id \in IdsOf(cmds)
    BY <2>1 DEF IdsOf
  <2> QED BY <2>2, <2>3 DEF DrawnAs
<1>6. Len(x.out) = N(p)
  BY DEF DrawnTo
<1> HIDE DEF e, y, E, N
<1>7. Len(y.out) = N(p + 1) /\ y.out[N(p + 1)] = e /\ \A n \in 1..N(p) : y.out[n] = x.out[n]
  BY <1>1, <1>3, <1>4, <1>5, <1>6, AppendProperties
<1>8. \A i \in S : i <= p + 1 => i = p + 1 \/ i \in ShownBy(cmds, closes, opened, p)
  BY <1>1 DEF ShownBy
<1>9. \A i \in ShownBy(cmds, closes, opened, p) : x.out[N(i)] = DrawnAs(cmds, closes, i)
  BY DEF DrawnTo, ShownBy, N
<1>10. \A i \in S : i <= p + 1 => y.out[N(i)] = DrawnAs(cmds, closes, i)
  BY <1>1, <1>7, <1>8, <1>9 DEF e
<1>11. \A o \in y.menus : MenuOf(cmds, o)
  BY <1>4 DEF DrawnTo
<1> QED BY <1>2, <1>7, <1>10, <1>11 DEF DrawnTo, N, y

LEMMA ScopesNext ==
  ASSUME NEW C, NEW cmds \in Seq(C), NEW closes, Paired(cmds, closes), NEW p \in 1..Len(cmds)
  PROVE  /\ p \notin Openings(cmds) /\ p \notin Closings(cmds) =>
              ScopesAt(cmds, closes, p + 1) = ScopesAt(cmds, closes, p)
         /\ p \in Openings(cmds) =>
              /\ ScopesAt(cmds, closes, p + 1) = ScopesAt(cmds, closes, p) \cup {p}
              /\ ScopesAt(cmds, closes, closes[p] + 1) = ScopesAt(cmds, closes, p)
              /\ \A k \in ScopesAt(cmds, closes, p) : closes[p] < closes[k]
<1>1. Openings(cmds) \subseteq 1..Len(cmds) /\ Closings(cmds) \subseteq 1..Len(cmds)
      /\ Openings(cmds) \cap Closings(cmds) = {} /\ Len(cmds) \in Nat
  BY Kinds
<1>2. \A i \in Openings(cmds) : i \in Nat /\ closes[i] \in Nat /\ closes[i] \in Closings(cmds) /\ i < closes[i]
  BY <1>1 DEF Paired
<1>3. \A i, k \in Openings(cmds) : i < k => closes[k] < closes[i] \/ closes[i] < k
  BY DEF Paired
<1>4. p \in Nat
  OBVIOUS
<1>5. ASSUME p \notin Openings(cmds), p \notin Closings(cmds)
      PROVE  ScopesAt(cmds, closes, p + 1) = ScopesAt(cmds, closes, p)
  <2>1. \A k \in Openings(cmds) : k # p /\ closes[k] # p
    BY <1>2, <1>5
  <2>2. \A k \in Openings(cmds) : k < p + 1 /\ p + 1 <= closes[k] <=> k < p /\ p <= closes[k]
    BY <1>2, <1>4, <2>1
  <2> QED BY <2>2 DEF ScopesAt
<1>6. ASSUME p \in Openings(cmds)
      PROVE  ScopesAt(cmds, closes, p + 1) = ScopesAt(cmds, closes, p) \cup {p}
  <2>1. \A k \in Openings(cmds) : closes[k] # p
    BY <1>1, <1>2, <1>6
  <2>2. \A k \in Openings(cmds) : k < p + 1 /\ p + 1 <= closes[k] <=> (k < p /\ p <= closes[k]) \/ k = p
    BY <1>2, <1>4, <2>1
  <2> QED BY <1>6, <2>2 DEF ScopesAt
<1>7. ASSUME p \in Openings(cmds), NEW k \in Openings(cmds)
      PROVE  k < closes[p] + 1 /\ closes[p] + 1 <= closes[k] <=> k < p /\ p <= closes[k]
  <2>1. k # closes[p] /\ closes[k] # p
    BY <1>1, <1>2, <1>7
  <2>2. k < p => closes[p] < closes[k] \/ closes[k] < p
    BY <1>3, <1>7
  <2>3. p < k => closes[k] < closes[p] \/ closes[p] < k
    BY <1>3, <1>7
  <2>4. k \in Nat /\ closes[k] \in Nat /\ k < closes[k] /\ closes[p] \in Nat /\ p < closes[p]
    BY <1>2, <1>7
  <2> QED BY <1>4, <2>1, <2>2, <2>3, <2>4
<1>8. p \in Openings(cmds) => ScopesAt(cmds, closes, closes[p] + 1) = ScopesAt(cmds, closes, p)
  BY <1>7 DEF ScopesAt
<1>9. ASSUME p \in Openings(cmds), NEW k \in ScopesAt(cmds, closes, p) PROVE closes[p] < closes[k]
  <2>1. k \in Openings(cmds) /\ k < p /\ p <= closes[k]
    BY <1>9 DEF ScopesAt
  <2>2. closes[p] < closes[k] \/ closes[k] < p
    BY <1>3, <1>9, <2>1
  <2> QED BY <1>2, <1>4, <2>1, <2>2
<1> QED BY <1>5, <1>6, <1>8, <1>9

LEMMA ReadyIs ==
  ASSUME NEW C, NEW cmds \in Seq(C), NEW closes, NEW opened, NEW s, Ready(cmds, closes, opened, s),
         s.at < s.end, Drawable(cmds, closes)
  PROVE  /\ s.at \in 1..Len(cmds) /\ s.at - 1 \in Nat /\ s.at \in Nat \ {0} /\ s.end \in Nat
         /\ s.table \in BOOLEAN /\ Len(cmds) \in Nat /\ s.cx \in Cxs(IdsOf(cmds))
         /\ s.at \notin Closings(cmds) /\ Paired(cmds, closes) /\ s \in Spans(cmds, closes)
<1>1. s \in Spans(cmds, closes) /\ Paired(cmds, closes)
  BY DEF Ready, Drawable
<1>2. /\ s.at \in 1..Len(cmds) /\ s.at - 1 \in Nat /\ s.at \in Nat \ {0} /\ s.end \in Nat
      /\ s.table \in BOOLEAN /\ Len(cmds) \in Nat /\ s.cx \in Cxs(IdsOf(cmds))
  BY <1>1, SpanIs
<1>3. ASSUME s.at \in Closings(cmds) PROVE FALSE
  <2>1. PICK i \in Openings(cmds) : closes[i] = s.at
    BY <1>1, <1>3 DEF Paired
  <2>2. i < s.at
    BY <1>1, <2>1 DEF Paired
  <2>3. i \in ScopesAt(cmds, closes, s.at)
    BY <1>2, <2>1, <2>2 DEF ScopesAt
  <2>4. s.end <= closes[i]
    BY <2>3 DEF Ready
  <2> QED BY <1>2, <2>1, <2>4
<1> QED BY <1>1, <1>2, <1>3

LEMMA ReadyNext ==
  ASSUME NEW C, NEW cmds \in Seq(C), NEW closes, NEW opened, NEW s, Ready(cmds, closes, opened, s),
         s.at < s.end, Drawable(cmds, closes), s.at \notin Openings(cmds),
         NEW x, x = IF cmds[s.at].op = "widget" THEN Finish(s.cx, cmds[s.at]) ELSE s.cx
  PROVE  Ready(cmds, closes, opened, NextSpan(s, x))
<1> DEFINE p == s.at
           t == NextSpan(s, x)
<1>1. /\ p \in 1..Len(cmds) /\ p - 1 \in Nat /\ p \in Nat \ {0} /\ s.end \in Nat /\ s.table \in BOOLEAN
      /\ s.cx \in Cxs(IdsOf(cmds)) /\ p \notin Closings(cmds) /\ Paired(cmds, closes)
      /\ s \in Spans(cmds, closes) /\ p \in DOMAIN cmds
  BY ReadyIs
<1>2. x \in Cxs(IdsOf(cmds))
  BY <1>1, CxOf
<1>3. t \in Spans(cmds, closes)
  BY <1>1, <1>2, SpansIn
<1>4. t.table = s.table /\ t.at = p + 1 /\ t.end = s.end /\ t.cx = x
  BY DEF NextSpan
<1>5. ScopesAt(cmds, closes, p + 1) = ScopesAt(cmds, closes, p)
  BY <1>1, ScopesNext
<1>6. DrawnTo(cmds, closes, opened, s.cx, p - 1) /\ s.cx.within = IdsAt(cmds, closes, p)
      /\ \A k \in ScopesAt(cmds, closes, p) : s.end <= closes[k] /\ MenuOpen(cmds, opened, k)
  BY DEF Ready
<1>7. (p - 1) + 1 = p /\ (p + 1) - 1 = p /\ p + 1 <= s.end /\ p - 1 <= p
  BY <1>1
<1> HIDE DEF t, p
<1>8. DrawnTo(cmds, closes, opened, x, p) /\ x.within = s.cx.within
      /\ (cmds[p].op = "widget" => x.last = cmds[p].id)
  <2>1. CASE cmds[p].op = "widget"
    <3>1. p \in Shown(cmds, closes, opened)
      BY <1>1, <1>6, <2>1 DEF Shown
    <3>2. x = Finish(s.cx, cmds[p])
      BY <2>1 DEF p
    <3>3. DrawnTo(cmds, closes, opened, Finish(s.cx, cmds[(p - 1) + 1]), (p - 1) + 1)
      BY <1>1, <1>6, <1>7, <3>1, DrawnMore
    <3>4. DrawnTo(cmds, closes, opened, x, p)
      BY <1>7, <3>2, <3>3
    <3>5. x.within = s.cx.within /\ x.last = cmds[p].id
      BY <1>1, <3>2 DEF Finish, Cxs
    <3> QED BY <3>4, <3>5
  <2>2. CASE cmds[p].op # "widget"
    <3>1. x = s.cx
      BY <2>2 DEF p
    <3>2. p \notin Shown(cmds, closes, opened)
      BY <2>2 DEF Shown
    <3>3. \A i \in (p - 1) + 1..p : i = p
      BY <1>1, <1>7
    <3>4. \A o \in s.cx.menus : MenuOf(cmds, o)
      BY <1>6 DEF DrawnTo
    <3>5. DrawnTo(cmds, closes, opened, s.cx, p)
      BY <1>1, <1>6, <1>7, <3>2, <3>3, <3>4, DrawnSame
    <3> QED BY <2>2, <3>1, <3>5
  <2> QED BY <2>1, <2>2
<1>9. IdsAt(cmds, closes, p + 1) = IdsAt(cmds, closes, p)
  BY <1>5 DEF IdsAt
<1>10. t.table => \E u \in ScopesAt(cmds, closes, p) :
                    cmds[u].kind = "table" /\ \A k \in ScopesAt(cmds, closes, p) : k <= u
  BY <1>4 DEF Ready, p
<1> QED BY <1>3, <1>4, <1>5, <1>6, <1>7, <1>8, <1>9, <1>10 DEF Ready, t, p

LEMMA ReadyInside ==
  ASSUME NEW C, NEW cmds \in Seq(C), NEW closes, NEW opened, NEW s, Ready(cmds, closes, opened, s),
         s.at < s.end, Drawable(cmds, closes), s.at \in Openings(cmds),
         MenuOpen(cmds, opened, s.at),
         NEW byRow \in BOOLEAN, byRow => cmds[s.at].kind = "table",
         NEW x \in Cxs(IdsOf(cmds)), x.out = s.cx.out, x.within = s.cx.within,
         \A o \in x.menus : MenuOf(cmds, o)
  PROVE  Ready(cmds, closes, opened, InnerSpan(cmds, closes, s, x, byRow))
<1> DEFINE p == s.at
           t == InnerSpan(cmds, closes, s, x, byRow)
           y == Into(x, cmds[p].id)
<1>1. /\ p \in 1..Len(cmds) /\ p - 1 \in Nat /\ p \in Nat \ {0} /\ s.end \in Nat
      /\ s.cx \in Cxs(IdsOf(cmds)) /\ Paired(cmds, closes) /\ s \in Spans(cmds, closes)
      /\ p \in DOMAIN cmds
  BY ReadyIs
<1>2. y \in Cxs(IdsOf(cmds)) /\ y = [x EXCEPT !.within = @ \cup {cmds[p].id}]
  BY <1>1, CxOf
<1>3. t \in Spans(cmds, closes) /\ closes[p] \in p + 1..s.end - 1
  BY <1>1, SpansIn
<1>4. t.table = byRow /\ t.at = p + 1 /\ t.end = closes[p] /\ t.cx = y
  BY DEF InnerSpan
<1>5. /\ ScopesAt(cmds, closes, p + 1) = ScopesAt(cmds, closes, p) \cup {p}
      /\ \A k \in ScopesAt(cmds, closes, p) : closes[p] < closes[k]
  BY <1>1, ScopesNext
<1>6. DrawnTo(cmds, closes, opened, s.cx, p - 1) /\ s.cx.within = IdsAt(cmds, closes, p)
      /\ \A k \in ScopesAt(cmds, closes, p) : MenuOpen(cmds, opened, k)
  BY DEF Ready
<1>7. y.out = s.cx.out /\ y.menus = x.menus /\ y.within = s.cx.within \cup {cmds[p].id}
  BY <1>2 DEF Cxs
<1>8. (p - 1) + 1 = p /\ (p + 1) - 1 = p /\ p - 1 <= p /\ p + 1 <= closes[p] /\ closes[p] \in Nat
  BY <1>1, <1>3
<1>9. cmds[p].op # "widget"
  BY DEF Openings, Opening
<1>10. \A k \in Openings(cmds) : k \in Nat /\ closes[k] \in Nat
  <2>1. Openings(cmds) \subseteq 1..Len(cmds) /\ Closings(cmds) \subseteq 1..Len(cmds)
    BY Kinds
  <2> QED BY <1>1, <2>1 DEF Paired
<1> HIDE DEF t, p, y
<1>11. DrawnTo(cmds, closes, opened, y, p)
  <2>1. \A i \in (p - 1) + 1..p : i = p
    BY <1>1, <1>8
  <2>2. p \notin Shown(cmds, closes, opened)
    BY <1>9 DEF Shown
  <2>3. \A o \in y.menus : MenuOf(cmds, o)
    BY <1>7
  <2>4. p \in Nat /\ \A i \in (p - 1) + 1..p : i \notin Shown(cmds, closes, opened)
    BY <1>1, <2>1, <2>2
  <2>5. y.out = s.cx.out
    BY <1>7
  <2> QED BY <1>1, <1>2, <1>6, <1>8, <2>3, <2>4, <2>5, DrawnSame
<1>12. y.within = IdsAt(cmds, closes, p + 1)
  BY <1>5, <1>6, <1>7 DEF IdsAt
<1>13. \A k \in ScopesAt(cmds, closes, p + 1) : closes[p] <= closes[k] /\ MenuOpen(cmds, opened, k)
  <2>1. \A k \in ScopesAt(cmds, closes, p) : k \in Openings(cmds)
    BY DEF ScopesAt
  <2>2. p \in Openings(cmds) /\ MenuOpen(cmds, opened, p)
    BY DEF p
  <2> QED BY <1>5, <1>6, <1>10, <2>1, <2>2
<1>14. byRow => \E u \in ScopesAt(cmds, closes, p + 1) :
                  cmds[u].kind = "table" /\ \A k \in ScopesAt(cmds, closes, p + 1) : k <= u
  <2>1. \A k \in ScopesAt(cmds, closes, p) : k <= p /\ k \in Nat
    BY <1>1, <1>10 DEF ScopesAt
  <2>2. p <= p
    BY <1>1
  <2> QED BY <1>5, <2>1, <2>2 DEF p
<1> QED BY <1>3, <1>4, <1>8, <1>9, <1>11, <1>12, <1>13, <1>14 DEF Ready, t

LEMMA ReadyAfter ==
  ASSUME NEW C, NEW cmds \in Seq(C), NEW closes, NEW opened, NEW s, Ready(cmds, closes, opened, s),
         s.at < s.end, Drawable(cmds, closes), s.at \in Openings(cmds),
         NEW x, DrawnTo(cmds, closes, opened, x, closes[s.at] - 1)
  PROVE  Ready(cmds, closes, opened, RestSpan(closes, s, x))
<1> DEFINE p == s.at
           q == closes[p]
           t == RestSpan(closes, s, x)
           y == OutTo(x, s.cx)
<1>1. /\ p \in 1..Len(cmds) /\ p - 1 \in Nat /\ p \in Nat \ {0} /\ s.end \in Nat
      /\ s.cx \in Cxs(IdsOf(cmds)) /\ Paired(cmds, closes) /\ s \in Spans(cmds, closes)
  BY ReadyIs
<1>2. x \in Cxs(IdsOf(cmds))
  BY DEF DrawnTo
<1>3. y \in Cxs(IdsOf(cmds))
  BY <1>1, <1>2, CxOf
<1>4. t \in Spans(cmds, closes) /\ q \in p + 1..s.end - 1
  BY <1>1, <1>2, SpansIn
<1>5. t.table = s.table /\ t.at = q + 1 /\ t.end = s.end /\ t.cx = y
  BY DEF RestSpan
<1>6. ScopesAt(cmds, closes, q + 1) = ScopesAt(cmds, closes, p)
  BY <1>1, ScopesNext
<1>7. s.cx.within = IdsAt(cmds, closes, p)
      /\ \A k \in ScopesAt(cmds, closes, p) : s.end <= closes[k] /\ MenuOpen(cmds, opened, k)
  BY DEF Ready
<1>8. y.out = x.out /\ y.menus = x.menus /\ y.within = s.cx.within
  BY <1>2 DEF Cxs, OutTo
<1>9. (q - 1) + 1 = q /\ (q + 1) - 1 = q /\ q - 1 <= q /\ q + 1 <= s.end /\ q \in Nat /\ q - 1 \in Nat
  <2> HIDE DEF p, q
  <2> QED BY <1>1, <1>4
<1>10. q \in Closings(cmds)
  BY <1>1 DEF Paired
<1>11. cmds[q].op # "widget"
  BY <1>10 DEF Closings, Closing
<1> HIDE DEF t, y, q, p
<1>12. DrawnTo(cmds, closes, opened, y, q)
  <2>1. \A i \in (q - 1) + 1..q : i = q
    BY <1>9
  <2>2. q \notin Shown(cmds, closes, opened)
    BY <1>11 DEF Shown
  <2>3. DrawnTo(cmds, closes, opened, x, q - 1)
    BY DEF q, p
  <2>4. \A o \in y.menus : MenuOf(cmds, o)
    BY <1>8 DEF DrawnTo
  <2> QED BY <1>3, <1>8, <1>9, <2>1, <2>2, <2>3, <2>4, DrawnSame
<1>13. y.within = IdsAt(cmds, closes, q + 1)
  BY <1>6, <1>7, <1>8 DEF IdsAt
<1>14. t.table => \E u \in ScopesAt(cmds, closes, q + 1) :
                    cmds[u].kind = "table" /\ \A k \in ScopesAt(cmds, closes, q + 1) : k <= u
  BY <1>5, <1>6 DEF Ready, p
<1> QED BY <1>4, <1>5, <1>6, <1>7, <1>9, <1>11, <1>12, <1>13, <1>14 DEF Ready, t

LEMMA SpanDrawn ==
  ASSUME NEW C, NEW cmds \in Seq(C), NEW closes, NEW opened, NEW s, Ready(cmds, closes, opened, s),
         Drawable(cmds, closes)
  PROVE  DrawnTo(cmds, closes, opened, Render(cmds, closes, opened)[s], s.end - 1)
<1> DEFINE draw == Render(cmds, closes, opened)
           L == Len(cmds) + 1
           R(t) == Ready(cmds, closes, opened, t)
           D(x, n) == DrawnTo(cmds, closes, opened, x, n)
           S == Spans(cmds, closes)
           G == {n \in 0..L : \A t \in S : R(t) /\ t.end - t.at <= n => D(draw[t], t.end - 1)}
<1>1. /\ \A t \in S : /\ t.end \in Nat /\ t.at \in Nat \ {0} /\ t.end <= L /\ t.table \in BOOLEAN
                      /\ t.cx \in Cxs(IdsOf(cmds))
      /\ L \in Nat /\ Paired(cmds, closes)
  <2>1. L \in Nat /\ Paired(cmds, closes)
    BY DEF Drawable
  <2> QED BY <2>1, SpanIs
<1>2. \A t \in S : draw[t] = Drawing1(draw, cmds, closes, opened, t)
  BY <1>1, RenderIs, DrawSpanIs
<1> HIDE DEF draw, L, G
<1>3. ASSUME NEW t \in S, R(t), t.at >= t.end PROVE D(draw[t], t.end - 1)
  <2>1. draw[t] = t.cx
    BY <1>2, <1>3 DEF Drawing1
  <2>2. t.at - 1 = t.end - 1
    BY <1>1, <1>3 DEF Ready
  <2> QED BY <1>3, <2>1, <2>2 DEF Ready
<1>4. 0 \in G
  BY <1>1, <1>3 DEF G
<1>5. ASSUME NEW n \in 0..L, n # L, n \in G, NEW t \in S, R(t), t.end - t.at <= n + 1, t.at < t.end
      PROVE  D(draw[t], t.end - 1)
  <2> DEFINE p == t.at
             q == closes[p]
             c == cmds[p]
  <2>1. \A u \in S : R(u) /\ u.end - u.at <= n => D(draw[u], u.end - 1)
    BY <1>5 DEF G
  <2>2. p \in 1..Len(cmds) /\ p \in Nat /\ t.end \in Nat /\ n \in Nat /\ ~(p >= t.end)
    BY <1>1, <1>5, ReadyIs
  <2>3. CASE p \notin Openings(cmds)
    <3> DEFINE x == IF c.op = "widget" THEN Finish(t.cx, c) ELSE t.cx
               u == NextSpan(t, x)
    <3>1. R(u)
      BY <1>5, <2>3, ReadyNext
    <3>2. u.at = p + 1 /\ u.end = t.end
      BY DEF NextSpan
    <3>3. draw[t] = draw[u]
      BY <1>2, <2>2, <2>3 DEF Drawing1
    <3> HIDE DEF u
    <3>4. u.end - u.at <= n
      BY <1>5, <2>2, <3>2
    <3>5. u \in S
      BY <3>1 DEF Ready
    <3> QED BY <2>1, <3>1, <3>2, <3>3, <3>4, <3>5
  <2>4. CASE p \in Openings(cmds)
    <3>1. q \in p + 1..t.end - 1
      BY <1>1, <1>5, <2>4, SpansIn
    <3>2. q \in Nat /\ t.end - (q + 1) <= n /\ q - (p + 1) <= n /\ p - 1 \in Nat /\ p - 1 <= q - 1
          /\ q - 1 \in Nat
      <4> HIDE DEF p, q
      <4>1. t.end - p <= n + 1
        BY <1>5 DEF p
      <4> QED BY <2>2, <3>1, <4>1
    <3>3. ASSUME NEW x, D(x, q - 1) PROVE D(draw[RestSpan(closes, t, x)], t.end - 1)
      <4> DEFINE u == RestSpan(closes, t, x)
      <4>1. R(u)
        BY <1>5, <2>4, <3>3, ReadyAfter
      <4>2. u.at = q + 1 /\ u.end = t.end
        BY DEF RestSpan
      <4> HIDE DEF u, q
      <4>3. u.end - u.at <= n
        BY <3>2, <4>2
      <4>4. u \in S
        BY <4>1 DEF Ready
      <4>5. D(draw[u], u.end - 1)
        BY <2>1, <4>1, <4>3, <4>4
      <4> QED BY <4>2, <4>5 DEF u
    <3>4. ASSUME MenuOpen(cmds, opened, p), NEW byRow \in BOOLEAN, byRow => c.kind = "table",
                 NEW x \in Cxs(IdsOf(cmds)), x.out = t.cx.out, x.within = t.cx.within,
                 \A o \in x.menus : MenuOf(cmds, o)
          PROVE  D(draw[InnerSpan(cmds, closes, t, x, byRow)], q - 1)
      <4> DEFINE u == InnerSpan(cmds, closes, t, x, byRow)
      <4>1. R(u)
        BY <1>5, <2>4, <3>4, ReadyInside
      <4>2. u.at = p + 1 /\ u.end = q
        BY DEF InnerSpan
      <4> HIDE DEF u, q
      <4>3. u.end - u.at <= n
        BY <3>2, <4>2
      <4>4. u \in S
        BY <4>1 DEF Ready
      <4>5. D(draw[u], u.end - 1)
        BY <2>1, <4>1, <4>3, <4>4
      <4> QED BY <4>2, <4>5 DEF u
    <3>5. t.cx \in Cxs(IdsOf(cmds)) /\ \A o \in t.cx.menus : MenuOf(cmds, o)
      BY <1>1, <1>5 DEF Ready, DrawnTo
    <3>6. CASE c.kind # "menu"
      <4>1. MenuOpen(cmds, opened, p)
        BY <3>6 DEF MenuOpen
      <4>2. D(draw[InnerSpan(cmds, closes, t, t.cx, FALSE)], q - 1)
        BY <3>4, <3>5, <4>1
      <4>3. c.kind = "table" => D(draw[InnerSpan(cmds, closes, t, t.cx, TRUE)], q - 1)
        BY <3>4, <3>5, <4>1
      <4> HIDE DEF D, c, p, q
      <4>4. \/ draw[t] = draw[RestSpan(closes, t, draw[InnerSpan(cmds, closes, t, t.cx, FALSE)])]
            \/ /\ c.kind = "table"
               /\ draw[t] = draw[RestSpan(closes, t, draw[InnerSpan(cmds, closes, t, t.cx, TRUE)])]
        BY <1>2, <2>2, <2>4, <3>6 DEF Drawing1, c, p
      <4> QED BY <3>3, <4>2, <4>3, <4>4
    <3>7. CASE c.kind = "menu"
      <4> DEFINE y == OwnedCx(cmds, t)
                 w == cmds[p - 1].id
      <4>1. p - 1 \in DOMAIN cmds /\ cmds[p - 1].op = "widget" /\ w # Root
        BY <2>4, <3>7 DEF Drawable
      <4>2. t.cx.last = w
        BY <1>5, <4>1 DEF Ready
      <4>3. ~t.table
        <5> SUFFICES ASSUME t.table PROVE FALSE
          OBVIOUS
        <5>1. PICK u \in ScopesAt(cmds, closes, p) :
                cmds[u].kind = "table" /\ \A k \in ScopesAt(cmds, closes, p) : k <= u
          BY <1>5 DEF Ready
        <5>2. PICK i \in ScopesAt(cmds, closes, p) : u < i
          BY <2>4, <3>7, <5>1 DEF Drawable
        <5>3. i <= u /\ u \in Nat /\ i \in Nat
          <6>1. Openings(cmds) \subseteq 1..Len(cmds)
            BY Kinds
          <6> QED BY <5>1, <6>1 DEF ScopesAt
        <5> QED BY <5>2, <5>3
      <4>4. y \in Cxs(IdsOf(cmds)) /\ y.out = t.cx.out /\ y.within = t.cx.within
            /\ y.menus = t.cx.menus \cup {<<c.id, w>>}
        <5>1. y \in Cxs(IdsOf(cmds))
          BY <2>2, <3>5, CxOf DEF OwnedCx
        <5> QED BY <3>5, <4>2, <5>1 DEF OwnedCx, Cxs
      <4>5. \A o \in y.menus : MenuOf(cmds, o)
        <5>1. MenuOf(cmds, <<c.id, w>>)
          BY <2>4, <3>7 DEF MenuOf
        <5> QED BY <3>5, <4>4, <5>1
      <4>6. CASE w # opened
        <5>1. ASSUME NEW i \in (p - 1) + 1..q - 1 PROVE i \notin Shown(cmds, closes, opened)
          <6>1. i \in Nat /\ p <= i /\ i <= q
            <7> HIDE DEF p, q
            <7> QED BY <2>2, <3>1, <3>2
          <6>2. CASE i = p
            BY <2>4, <6>2 DEF Shown, Openings, Opening
          <6>3. CASE i # p
            <7>1. p \in ScopesAt(cmds, closes, i)
              BY <2>2, <2>4, <6>1, <6>3 DEF ScopesAt
            <7>2. ~MenuOpen(cmds, opened, p)
              BY <3>7, <4>6 DEF MenuOpen
            <7> QED BY <7>1, <7>2 DEF Shown
          <6> QED BY <6>2, <6>3
        <5>2. D(t.cx, p - 1)
          BY <1>5 DEF Ready
        <5>3. D(y, q - 1)
          <6> HIDE DEF y, q, p
          <6> QED BY <3>2, <4>4, <4>5, <5>1, <5>2, DrawnSame
        <5>4. draw[t] = draw[RestSpan(closes, t, y)]
          BY <1>2, <2>2, <2>4, <3>7, <4>1, <4>2, <4>3, <4>6 DEF Drawing1
        <5> QED BY <3>3, <5>3, <5>4
      <4>7. CASE w = opened
        <5>1. MenuOpen(cmds, opened, p)
          BY <4>7 DEF MenuOpen
        <5>2. D(draw[InnerSpan(cmds, closes, t, y, FALSE)], q - 1)
          <6> HIDE DEF y
          <6> QED BY <3>4, <4>4, <4>5, <5>1
        <5>3. draw[t] = draw[RestSpan(closes, t, draw[InnerSpan(cmds, closes, t, y, FALSE)])]
          BY <1>2, <2>2, <2>4, <3>7, <4>1, <4>2, <4>3, <4>7 DEF Drawing1
        <5> HIDE DEF D
        <5> QED BY <3>3, <5>2, <5>3
      <4> QED BY <4>6, <4>7
    <3> QED BY <3>6, <3>7
  <2> QED BY <2>3, <2>4
<1>6. ASSUME NEW n \in 0..L, n # L, n \in G PROVE n + 1 \in G
  <2>1. n + 1 \in 0..L
    BY <1>1, <1>6
  <2>2. \A t \in S : R(t) /\ t.end - t.at <= n + 1 => D(draw[t], t.end - 1)
    <3> HIDE DEF R, D
    <3>1. \A t \in S : t.at >= t.end \/ t.at < t.end
      BY <1>1
    <3> QED BY <1>3, <1>5, <1>6, <3>1
  <2> QED BY <2>1, <2>2 DEF G
<1>7. 0..L \subseteq G
  BY <1>1, <1>4, <1>6, UpTo
<1>8. L \in G
  BY <1>1, <1>7
<1>9. s \in S /\ R(s) /\ s.end - s.at <= L
  <2>1. s \in S
    BY DEF Ready
  <2> QED BY <1>1, <2>1
<1> QED BY <1>8, <1>9 DEF G, draw

-----------------------------------------------------------------------------
(* What the SDK records.  An id is the path to it, so that the scopes a     *)
(* thing is in are those with the ids above its own; each scope at work has *)
(* the salts of what it holds, and no id is given twice.                    *)

\* The commands that give something an id.
Named(buf) == {i \in DOMAIN buf : buf[i].op \in Opening \cup {"widget"}}

IsAbove(p, id) == Len(p) < Len(id) /\ \A n \in 1..Len(p) : p[n] = id[n]

Unclosed(buf, k) == \A j \in Closings(buf) : buf[j].id # buf[k].id

\* The first n salts of the id are an id.
Given(buf, id, n) ==
  \E j \in Named(buf) : Len(buf[j].id) = n /\ \A k \in 1..n : buf[j].id[k] = id[k]

PathsGiven(buf) ==
  /\ \A i \in Named(buf) : buf[i].id \in Seq(Nat) /\ Len(buf[i].id) # 0
  /\ \A i, j \in Named(buf) : buf[i].id = buf[j].id => i = j
  /\ \A i \in Named(buf) : \A n \in 1..Len(buf[i].id) :
       buf[i].id[n] = 0 => Given(buf, buf[i].id, n)
  /\ \A j \in Closings(buf) : \E k \in Openings(buf) : buf[k].id = buf[j].id

\* An id is in the scopes above it.
PathsNest(buf) ==
  \A k \in Openings(buf), i \in Named(buf) :
    IsAbove(buf[k].id, buf[i].id) <=> k < i /\ \A j \in Closings(buf) : j < i => buf[j].id # buf[k].id

IsIn(buf, k, t) == IsAbove(buf[t].id, buf[k].id) /\ Len(buf[k].id) = Len(buf[t].id) + 1

MenusPut(buf) ==
  \A k \in Openings(buf) : buf[k].kind = "menu" =>
    /\ k - 1 \in DOMAIN buf /\ buf[k - 1].op = "widget"
    /\ \A t \in Openings(buf) : IsIn(buf, k, t) => buf[t].kind # "table"
    /\ Len(buf[k].id) = 1 \/ \E t \in Openings(buf) : IsIn(buf, k, t)

Stream(buf) == PathsGiven(buf) /\ PathsNest(buf) /\ MenusPut(buf)

\* The path to the scopes at work, and their salts.
PathToUi(uis) ==
  \A m \in 1..Len(uis) :
    /\ uis[m].id \in Seq(Nat) /\ Len(uis[m].id) = m - 1 /\ uis[m].next \in Nat \ {0}
    /\ \A k \in 1..m - 1 : uis[m].id[k] = uis[Len(uis)].id[k] /\ uis[m].id[k] < uis[k].next
    /\ m # 1 /\ (m - 1 <= MaxDepth \/ uis[m].id[m - 1] = 0) => uis[m].emit

SaltsLeft(buf, uis) ==
  \A i \in Named(buf), m \in 1..Len(uis) : IsAbove(uis[m].id, buf[i].id) => buf[i].id[m] < uis[m].next

UisOpened(buf, uis) ==
  \A m \in 2..Len(uis) :
    /\ uis[m].emit => \E k \in Openings(buf) : buf[k].id = uis[m].id
    /\ \A k \in Openings(buf) : buf[k].id = uis[m].id =>
         uis[m].emit /\ buf[k].kind = uis[m].kind /\ Unclosed(buf, k)

OpenAreUis(buf, uis) ==
  \A k \in Openings(buf) : Unclosed(buf, k) => \E m \in 2..Len(uis) : uis[m].id = buf[k].id

AtWork(buf, uis) ==
  PathToUi(uis) /\ SaltsLeft(buf, uis) /\ UisOpened(buf, uis) /\ OpenAreUis(buf, uis)

LEMMA AppendedIs ==
  ASSUME NEW C, NEW buf \in Seq(C), NEW c \in C
  PROVE  LET b == Append(buf, c)
             N == Len(buf)
         IN /\ N \in Nat /\ b \in Seq(C) /\ Len(b) = N + 1 /\ DOMAIN b = 1..N + 1 /\ DOMAIN buf = 1..N
            /\ b[N + 1] = c /\ \A i \in 1..N : b[i] = buf[i]
            /\ Named(buf) \subseteq 1..N /\ Openings(buf) \subseteq Named(buf) /\ Closings(buf) \subseteq 1..N
            /\ Named(b) = Named(buf) \cup (IF c.op \in Opening \cup {"widget"} THEN {N + 1} ELSE {})
            /\ Openings(b) = Openings(buf) \cup (IF c.op \in Opening THEN {N + 1} ELSE {})
            /\ Closings(b) = Closings(buf) \cup (IF c.op \in Closing THEN {N + 1} ELSE {})
<1> DEFINE b == Append(buf, c)
           N == Len(buf)
<1>1. /\ N \in Nat /\ b \in Seq(C) /\ Len(b) = N + 1 /\ DOMAIN b = 1..N + 1 /\ DOMAIN buf = 1..N
      /\ b[N + 1] = c /\ \A i \in 1..N : b[i] = buf[i]
  OBVIOUS
<1> HIDE DEF b, N
<1>2. \A i : i \in 1..N + 1 <=> i \in 1..N \/ i = N + 1
  BY <1>1
<1>3. N + 1 \notin 1..N
  BY <1>1
<1>4. Named(b) = Named(buf) \cup (IF c.op \in Opening \cup {"widget"} THEN {N + 1} ELSE {})
  BY <1>1, <1>2, <1>3 DEF Named
<1>5. Openings(b) = Openings(buf) \cup (IF c.op \in Opening THEN {N + 1} ELSE {})
  BY <1>1, <1>2, <1>3 DEF Openings
<1>6. Closings(b) = Closings(buf) \cup (IF c.op \in Closing THEN {N + 1} ELSE {})
  BY <1>1, <1>2, <1>3 DEF Closings
<1>7. Named(buf) \subseteq 1..N /\ Openings(buf) \subseteq Named(buf) /\ Closings(buf) \subseteq 1..N
  BY <1>1 DEF Named, Openings, Closings
<1> QED BY <1>1, <1>4, <1>5, <1>6, <1>7 DEF b, N

LEMMA SamePaths ==
  ASSUME NEW S, NEW s \in Seq(S), NEW t \in Seq(S), Len(s) = Len(t), \A i \in 1..Len(s) : s[i] = t[i]
  PROVE  s = t
OBVIOUS

\* An id that the innermost scope at work gives next: to what it holds, or to a
\* window, of which there is none yet.
GivenNext(buf, uis, salt, id) ==
  /\ Len(uis) \in Nat \ {0} /\ salt \in Nat /\ id = Append(uis[Len(uis)].id, salt)
  /\ \/ salt = uis[Len(uis)].next
     \/ salt = 0 /\ \A i \in DOMAIN buf : buf[i].id # id

IsNew(buf, uis, salt, id) ==
  /\ id \in Seq(Nat) /\ Len(id) = Len(uis) /\ id[Len(uis)] = salt
  /\ \A k \in 1..Len(uis) - 1 : id[k] = uis[Len(uis)].id[k]
  /\ \A i \in Named(buf) : buf[i].id # id /\ ~IsAbove(id, buf[i].id)
  /\ \A j \in Closings(buf) : buf[j].id # id
  /\ \A k \in Openings(buf) : IsAbove(buf[k].id, id) <=> Unclosed(buf, k)

\* Nothing has an id yet that a scope at work gives next, or any below it.
LEMMA NewId ==
  ASSUME NEW C, NEW buf \in Seq(C), NEW uis, Stream(buf), AtWork(buf, uis),
         NEW salt, NEW id, GivenNext(buf, uis, salt, id)
  PROVE  IsNew(buf, uis, salt, id)
<1> DEFINE D == Len(uis)
           top == uis[D].id
<1>1. D \in 1..D /\ D \in Nat /\ D - 1 \in Nat
  BY DEF GivenNext
<1>2. /\ \A m \in 1..D : /\ uis[m].id \in Seq(Nat) /\ Len(uis[m].id) = m - 1 /\ uis[m].next \in Nat \ {0}
                         /\ \A k \in 1..m - 1 : uis[m].id[k] = top[k]
  BY DEF AtWork, PathToUi
<1>3. top \in Seq(Nat) /\ Len(top) = D - 1 /\ uis[D].next \in Nat \ {0}
  BY <1>1, <1>2
<1> HIDE DEF top, D
<1>4. /\ id \in Seq(Nat) /\ Len(id) = D /\ id[D] = salt /\ \A k \in 1..D - 1 : id[k] = top[k]
  <2>1. id = Append(top, salt) /\ salt \in Nat
    BY DEF top, D, GivenNext
  <2>2. id \in Seq(Nat) /\ Len(id) = (D - 1) + 1 /\ id[(D - 1) + 1] = salt
        /\ \A k \in 1..D - 1 : id[k] = top[k]
    BY <1>3, <2>1, AppendProperties
  <2>3. (D - 1) + 1 = D
    BY <1>1
  <2> QED BY <2>2, <2>3
<1>5. /\ \A i \in Named(buf) : buf[i].id \in Seq(Nat) /\ Len(buf[i].id) # 0
      /\ \A i \in Named(buf) : \A n \in 1..Len(buf[i].id) :
           buf[i].id[n] = 0 => Given(buf, buf[i].id, n)
      /\ \A j \in Closings(buf) : \E k \in Openings(buf) : buf[k].id = buf[j].id
  BY DEF Stream, PathsGiven
<1>6. Openings(buf) \subseteq Named(buf) /\ Named(buf) \subseteq DOMAIN buf
  BY DEF Openings, Named
<1>7. ASSUME NEW i \in Named(buf), D <= Len(buf[i].id), \A k \in 1..D : buf[i].id[k] = id[k]
      PROVE  FALSE
  <2> DEFINE this == buf[i].id
  <2>1. this \in Seq(Nat) /\ Len(this) \in Nat
    BY <1>5
  <2>2. \A k \in 1..D - 1 : k \in 1..D
    BY <1>1
  <2>3. IsAbove(top, this)
    <3>1. D - 1 < Len(this)
      BY <1>1, <1>7, <2>1
    <3>2. \A k \in 1..D - 1 : top[k] = this[k]
      BY <1>4, <1>7, <2>2
    <3> QED BY <1>3, <3>1, <3>2 DEF IsAbove
  <2>4. this[D] < uis[D].next
    BY <1>1, <2>3 DEF AtWork, SaltsLeft, top, D
  <2>5. this[D] = salt
    BY <1>1, <1>4, <1>7
  <2>6. salt = 0 /\ \A j \in DOMAIN buf : buf[j].id # id
    BY <1>3, <2>4, <2>5 DEF D, GivenNext
  <2>7. D \in 1..Len(this)
    BY <1>1, <1>7, <2>1
  <2>8. PICK j \in Named(buf) : Len(buf[j].id) = D /\ \A k \in 1..D : buf[j].id[k] = this[k]
    BY <1>5, <2>5, <2>6, <2>7 DEF Given
  <2>9. buf[j].id = id
    <3> DEFINE other == buf[j].id
    <3>1. other \in Seq(Nat) /\ Len(other) = D
      BY <1>5, <2>8
    <3>2. \A k \in 1..D : other[k] = id[k]
      BY <1>7, <2>8
    <3> HIDE DEF other
    <3>3. other = id
      BY <1>4, <3>1, <3>2, SamePaths
    <3> QED BY <3>3 DEF other
  <2> QED BY <1>6, <2>6, <2>9
<1>8. ASSUME NEW i \in Named(buf) PROVE buf[i].id # id /\ ~IsAbove(id, buf[i].id)
  <2>1. buf[i].id # id
    <3> SUFFICES ASSUME buf[i].id = id PROVE FALSE
      OBVIOUS
    <3>1. D <= Len(buf[i].id) /\ \A k \in 1..D : buf[i].id[k] = id[k]
      BY <1>1, <1>4
    <3> QED BY <1>7, <3>1
  <2>2. ~IsAbove(id, buf[i].id)
    <3> SUFFICES ASSUME IsAbove(id, buf[i].id) PROVE FALSE
      OBVIOUS
    <3>1. Len(buf[i].id) \in Nat
      BY <1>5
    <3>2. D <= Len(buf[i].id) /\ \A k \in 1..D : buf[i].id[k] = id[k]
      BY <1>1, <1>4, <3>1 DEF IsAbove
    <3> QED BY <1>7, <3>2
  <2> QED BY <2>1, <2>2
<1>9. \A j \in Closings(buf) : buf[j].id # id
  BY <1>5, <1>6, <1>8
<1>10. ASSUME NEW k \in Openings(buf) PROVE IsAbove(buf[k].id, id) <=> Unclosed(buf, k)
  <2> DEFINE l == Len(buf[k].id)
  <2>1. buf[k].id \in Seq(Nat) /\ l \in Nat /\ l # 0
    BY <1>5, <1>6
  <2>2. ASSUME IsAbove(buf[k].id, id) PROVE Unclosed(buf, k)
    <3>1. l < D /\ \A n \in 1..l : buf[k].id[n] = id[n]
      BY <1>4, <2>2 DEF IsAbove
    <3>2. l + 1 \in 2..D /\ l + 1 \in 1..D /\ (l + 1) - 1 = l /\ \A n \in 1..l : n \in 1..D - 1
      BY <1>1, <2>1, <3>1
    <3>3. uis[l + 1].id \in Seq(Nat) /\ Len(uis[l + 1].id) = l /\ \A n \in 1..l : uis[l + 1].id[n] = top[n]
      BY <1>2, <3>2
    <3>4. \A n \in 1..l : buf[k].id[n] = uis[l + 1].id[n]
      BY <1>4, <3>1, <3>2, <3>3
    <3>5. buf[k].id = uis[l + 1].id
      BY <2>1, <3>3, <3>4, SamePaths
    <3> QED BY <3>2, <3>5 DEF AtWork, UisOpened, D
  <2>3. ASSUME Unclosed(buf, k) PROVE IsAbove(buf[k].id, id)
    <3>1. PICK m \in 2..D : uis[m].id = buf[k].id
      BY <2>3 DEF AtWork, OpenAreUis, D
    <3>2. m \in 1..D /\ m - 1 < D /\ \A n \in 1..m - 1 : n \in 1..D - 1
      BY <1>1
    <3>3. Len(buf[k].id) = m - 1 /\ \A n \in 1..m - 1 : buf[k].id[n] = id[n]
      BY <1>2, <1>4, <3>1, <3>2
    <3> QED BY <1>4, <3>2, <3>3 DEF IsAbove
  <2> QED BY <2>2, <2>3
<1> QED BY <1>4, <1>8, <1>9, <1>10 DEF top, D, IsNew

LEMMA StreamOther ==
  ASSUME NEW C, NEW buf \in Seq(C), NEW c \in C, Stream(buf), c.op \notin Opening \cup {"widget"},
         c.op \in Closing => \E k \in Openings(buf) : buf[k].id = c.id
  PROVE  Stream(Append(buf, c))
<1> DEFINE b == Append(buf, c)
           N == Len(buf)
<1>1. /\ N \in Nat /\ DOMAIN b = 1..N + 1 /\ DOMAIN buf = 1..N
      /\ b[N + 1] = c /\ (\A i \in 1..N : b[i] = buf[i])
      /\ Named(buf) \subseteq 1..N /\ Openings(buf) \subseteq Named(buf) /\ Closings(buf) \subseteq 1..N
      /\ Named(b) = Named(buf) \cup (IF c.op \in Opening \cup {"widget"} THEN {N + 1} ELSE {})
      /\ Openings(b) = Openings(buf) \cup (IF c.op \in Opening THEN {N + 1} ELSE {})
      /\ Closings(b) = Closings(buf) \cup (IF c.op \in Closing THEN {N + 1} ELSE {})
  BY AppendedIs
<1>2. Named(b) = Named(buf) /\ Openings(b) = Openings(buf)
  <2> HIDE DEF b, N
  <2> QED BY <1>1
<1> HIDE DEF b, N
<1>3. \A i \in Named(buf) : b[i] = buf[i] /\ i \in Nat /\ i <= N
  BY <1>1
<1>4. \A k \in Openings(buf) : b[k] = buf[k] /\ k \in Named(buf)
  BY <1>1, <1>3
<1>5. \A j \in Closings(buf) : b[j] = buf[j]
  BY <1>1
<1>6. PathsGiven(b)
  <2>1. \A j \in Closings(b) : \E k \in Openings(b) : b[k].id = b[j].id
    <3>1. \A j \in Closings(buf) : \E k \in Openings(b) : b[k].id = b[j].id
      BY <1>2, <1>4, <1>5 DEF Stream, PathsGiven
    <3>2. c.op \in Closing => \E k \in Openings(b) : b[k].id = b[N + 1].id
      BY <1>1, <1>2, <1>4
    <3> QED BY <1>1, <3>1, <3>2
  <2>2. /\ \A i \in Named(buf) : buf[i].id \in Seq(Nat) /\ Len(buf[i].id) # 0
        /\ \A i, j \in Named(buf) : buf[i].id = buf[j].id => i = j
        /\ \A i \in Named(buf) : \A n \in 1..Len(buf[i].id) :
             buf[i].id[n] = 0 => Given(buf, buf[i].id, n)
    BY DEF Stream, PathsGiven
  <2>3. \A id, n : Given(b, id, n) <=> Given(buf, id, n)
    BY <1>2, <1>3 DEF Given
  <2>4. \A i \in Named(b) : b[i].id \in Seq(Nat) /\ Len(b[i].id) # 0
    BY <1>2, <1>3, <2>2
  <2>5. \A i, j \in Named(b) : b[i].id = b[j].id => i = j
    BY <1>2, <1>3, <2>2
  <2>6. \A i \in Named(b) : \A n \in 1..Len(b[i].id) : b[i].id[n] = 0 => Given(b, b[i].id, n)
    BY <1>2, <1>3, <2>2, <2>3
  <2> QED BY <2>1, <2>4, <2>5, <2>6 DEF PathsGiven
<1>7. PathsNest(b)
  <2>1. ASSUME NEW k \in Openings(buf), NEW i \in Named(buf)
        PROVE  IsAbove(b[k].id, b[i].id) <=> k < i /\ \A j \in Closings(b) : j < i => b[j].id # b[k].id
    <3>1. ~(N + 1 < i)
      BY <1>1, <1>3
    <3>2. (\A j \in Closings(b) : j < i => b[j].id # b[k].id)
            <=> \A j \in Closings(buf) : j < i => buf[j].id # buf[k].id
      BY <1>1, <1>4, <1>5, <3>1
    <3> QED BY <1>3, <1>4, <3>2 DEF Stream, PathsNest
  <2> QED BY <1>2, <2>1 DEF PathsNest
<1>8. MenusPut(b)
  <2>1. ASSUME NEW k \in Openings(buf), buf[k].kind = "menu"
        PROVE  /\ k - 1 \in DOMAIN b /\ b[k - 1].op = "widget"
               /\ \A t \in Openings(buf) : IsIn(b, k, t) => b[t].kind # "table"
               /\ Len(b[k].id) = 1 \/ \E t \in Openings(buf) : IsIn(b, k, t)
    <3>1. /\ k - 1 \in DOMAIN buf /\ buf[k - 1].op = "widget"
          /\ \A t \in Openings(buf) : IsIn(buf, k, t) => buf[t].kind # "table"
          /\ Len(buf[k].id) = 1 \/ \E t \in Openings(buf) : IsIn(buf, k, t)
      BY <2>1 DEF Stream, MenusPut
    <3>2. \A t \in Openings(buf) : IsIn(b, k, t) <=> IsIn(buf, k, t)
      BY <1>4 DEF IsIn
    <3>3. k - 1 \in DOMAIN b /\ b[k - 1].op = "widget"
      BY <1>1, <3>1
    <3> QED BY <1>4, <3>1, <3>2, <3>3
  <2> QED BY <1>2, <1>4, <2>1 DEF MenusPut
<1> QED BY <1>6, <1>7, <1>8 DEF Stream, b

LEMMA StreamNamed ==
  ASSUME NEW C, NEW buf \in Seq(C), NEW uis, Stream(buf), AtWork(buf, uis),
         NEW salt, NEW id, GivenNext(buf, uis, salt, id),
         NEW c \in C, c.id = id,
         c.op \in Opening \cup {"widget"},
         c.op \in Opening /\ c.kind = "menu" =>
           /\ Len(buf) \in DOMAIN buf /\ buf[Len(buf)].op = "widget"
           /\ uis[Len(uis)].kind # "table" /\ Len(uis) - 1 < MaxDepth
  PROVE  Stream(Append(buf, c))
<1> DEFINE b == Append(buf, c)
           N == Len(buf)
           D == Len(uis)
<1>1. /\ N \in Nat /\ DOMAIN b = 1..N + 1 /\ DOMAIN buf = 1..N
      /\ b[N + 1] = c /\ (\A i \in 1..N : b[i] = buf[i])
      /\ Named(buf) \subseteq 1..N /\ Openings(buf) \subseteq Named(buf) /\ Closings(buf) \subseteq 1..N
      /\ Named(b) = Named(buf) \cup (IF c.op \in Opening \cup {"widget"} THEN {N + 1} ELSE {})
      /\ Openings(b) = Openings(buf) \cup (IF c.op \in Opening THEN {N + 1} ELSE {})
      /\ Closings(b) = Closings(buf) \cup (IF c.op \in Closing THEN {N + 1} ELSE {})
  BY AppendedIs
<1>2. Named(b) = Named(buf) \cup {N + 1} /\ Closings(b) = Closings(buf)
  <2>1. c.op \notin Closing
    BY DEF Opening, Closing
  <2> HIDE DEF b, N
  <2> QED BY <1>1, <2>1
<1>3. /\ id \in Seq(Nat) /\ Len(id) = D /\ id[D] = salt
      /\ \A k \in 1..D - 1 : id[k] = uis[D].id[k]
      /\ \A i \in Named(buf) : buf[i].id # id /\ ~IsAbove(id, buf[i].id)
      /\ \A j \in Closings(buf) : buf[j].id # id
      /\ \A k \in Openings(buf) : IsAbove(buf[k].id, id) <=> Unclosed(buf, k)
  <2>1. IsNew(buf, uis, salt, id)
    BY NewId, Zenon
  <2> QED BY <2>1 DEF IsNew
<1>4. D \in Nat \ {0} /\ D \in 1..D /\ D \in 1..Len(id) /\ salt \in Nat
  BY <1>3 DEF GivenNext
<1> HIDE DEF b, N, D
<1>5. \A i \in Named(buf) : b[i] = buf[i] /\ i \in Nat /\ i < N + 1 /\ i # N + 1
  BY <1>1
<1>6. \A k \in Openings(buf) : b[k] = buf[k] /\ k \in Named(buf)
  BY <1>1, <1>5
<1>7. \A j \in Closings(buf) : b[j] = buf[j] /\ j \in Nat /\ j < N + 1
  BY <1>1
<1>8. b[N + 1].id = id /\ ~IsAbove(id, id) /\ ~(N + 1 < N + 1)
  BY <1>1, <1>3, <1>4 DEF IsAbove
<1>9. PathsGiven(b)
  <2>1. /\ \A i \in Named(buf) : buf[i].id \in Seq(Nat) /\ Len(buf[i].id) # 0
        /\ \A i, j \in Named(buf) : buf[i].id = buf[j].id => i = j
        /\ \A i \in Named(buf) : \A n \in 1..Len(buf[i].id) :
             buf[i].id[n] = 0 => Given(buf, buf[i].id, n)
        /\ \A j \in Closings(buf) : \E k \in Openings(buf) : buf[k].id = buf[j].id
    BY DEF Stream, PathsGiven
  <2>2. \A i \in Named(b) : b[i].id \in Seq(Nat) /\ Len(b[i].id) # 0
    BY <1>2, <1>3, <1>4, <1>5, <1>8, <2>1
  <2>3. \A i, j \in Named(b) : b[i].id = b[j].id => i = j
    <3>1. \A i, j \in Named(buf) : b[i].id = b[j].id => i = j
      BY <1>5, <2>1
    <3>2. \A i \in Named(buf) : b[i].id # b[N + 1].id
      BY <1>3, <1>5, <1>8
    <3> QED BY <1>2, <3>1, <3>2
  <2>4. ASSUME NEW q, NEW n, Given(buf, q, n) PROVE Given(b, q, n)
    <3>1. PICK j \in Named(buf) : Len(buf[j].id) = n /\ \A k \in 1..n : buf[j].id[k] = q[k]
      BY <2>4 DEF Given
    <3>2. j \in Named(b) /\ b[j].id = buf[j].id
      BY <1>2, <1>5
    <3> QED BY <3>1, <3>2 DEF Given
  <2>5. ASSUME NEW n \in 1..Len(id), id[n] = 0 PROVE Given(b, id, n)
    <3>1. CASE n = D
      <4>1. N + 1 \in Named(b)
        BY <1>2
      <4> QED BY <1>3, <1>8, <3>1, <4>1 DEF Given
    <3>2. CASE n # D
      <4>1. n \in 1..D - 1 /\ n \in Nat /\ n + 1 \in 2..D /\ n + 1 \in 1..D /\ (n + 1) - 1 = n
            /\ n + 1 # 1 /\ n \in 1..n
        BY <1>3, <1>4, <3>2
      <4> DEFINE u == uis[n + 1]
      <4>2. /\ u.id \in Seq(Nat) /\ Len(u.id) = n
            /\ \A k \in 1..n : u.id[k] = uis[D].id[k]
            /\ u.id[n] = 0 => u.emit
        BY <4>1 DEF AtWork, PathToUi, D
      <4>3. \A k \in 1..n : k \in 1..D - 1
        BY <1>4, <4>1
      <4>4. \A k \in 1..n : u.id[k] = id[k]
        BY <1>3, <4>2, <4>3
      <4>5. u.id[n] = 0
        BY <2>5, <4>1, <4>4
      <4>6. u.emit
        BY <4>2, <4>5
      <4>7. PICK j \in Openings(buf) : buf[j].id = u.id
        BY <4>1, <4>6 DEF AtWork, UisOpened, D
      <4> HIDE DEF u
      <4>8. j \in Named(b) /\ b[j].id = u.id
        BY <1>2, <1>6, <4>7
      <4> QED BY <4>2, <4>4, <4>8 DEF Given
    <3> QED BY <3>1, <3>2
  <2>6. \A i \in Named(b) : \A n \in 1..Len(b[i].id) : b[i].id[n] = 0 => Given(b, b[i].id, n)
    <3>1. \A i \in Named(buf) : \A n \in 1..Len(b[i].id) : b[i].id[n] = 0 => Given(b, b[i].id, n)
      BY <1>5, <2>1, <2>4
    <3>2. \A n \in 1..Len(b[N + 1].id) : b[N + 1].id[n] = 0 => Given(b, b[N + 1].id, n)
      BY <1>8, <2>5
    <3> QED BY <1>2, <3>1, <3>2
  <2>7. ASSUME NEW j \in Closings(b) PROVE \E k \in Openings(b) : b[k].id = b[j].id
    <3>1. j \in Closings(buf) /\ b[j] = buf[j]
      BY <1>2, <1>7
    <3>2. PICK k \in Openings(buf) : buf[k].id = buf[j].id
      BY <2>1, <3>1
    <3>3. k \in Openings(b) /\ b[k] = buf[k]
      BY <1>1, <1>6, <3>2
    <3> QED BY <3>1, <3>2, <3>3
  <2> QED BY <2>2, <2>3, <2>6, <2>7 DEF PathsGiven
<1>10. PathsNest(b)
  <2>1. ASSUME NEW k \in Openings(buf), NEW i \in Named(buf)
        PROVE  IsAbove(b[k].id, b[i].id) <=> k < i /\ \A j \in Closings(b) : j < i => b[j].id # b[k].id
    <3>1. IsAbove(buf[k].id, buf[i].id) <=> k < i /\ \A j \in Closings(buf) : j < i => buf[j].id # buf[k].id
      BY DEF Stream, PathsNest
    <3>2. b[k] = buf[k] /\ b[i] = buf[i]
      BY <1>5, <1>6
    <3>3. (\A j \in Closings(b) : j < i => b[j].id # b[k].id)
            <=> \A j \in Closings(buf) : j < i => buf[j].id # buf[k].id
      BY <1>2, <1>7, <3>2
    <3> QED BY <3>1, <3>2, <3>3
  <2>2. ASSUME NEW k \in Openings(buf)
        PROVE  IsAbove(b[k].id, id) <=> k < N + 1 /\ \A j \in Closings(b) : j < N + 1 => b[j].id # b[k].id
    <3>1. Unclosed(buf, k) <=> \A j \in Closings(b) : j < N + 1 => b[j].id # b[k].id
      BY <1>2, <1>6, <1>7 DEF Unclosed
    <3> QED BY <1>3, <1>5, <1>6, <3>1
  <2>3. ASSUME NEW i \in Named(b) PROVE ~IsAbove(id, b[i].id) /\ ~(N + 1 < i)
    <3>1. CASE i \in Named(buf)
      <4>1. ~IsAbove(id, b[i].id)
        BY <1>3, <1>5, <3>1
      <4>2. ~(N + 1 < i)
        BY <1>1, <1>5, <3>1
      <4> QED BY <4>1, <4>2
    <3>2. CASE i = N + 1
      BY <1>8, <3>2
    <3> QED BY <1>2, <3>1, <3>2
  <2>4. ASSUME NEW k \in Openings(b), NEW i \in Named(b)
        PROVE  IsAbove(b[k].id, b[i].id) <=> k < i /\ \A j \in Closings(b) : j < i => b[j].id # b[k].id
    <3>1. CASE k \in Openings(buf) /\ i \in Named(buf)
      BY <2>1, <3>1
    <3>2. CASE k \in Openings(buf) /\ i = N + 1
      <4>1. b[i].id = id
        BY <1>8, <3>2
      <4>2. IsAbove(b[k].id, id) <=> k < N + 1 /\ \A j \in Closings(b) : j < N + 1 => b[j].id # b[k].id
        BY <2>2, <3>2
      <4> QED BY <3>2, <4>1, <4>2
    <3>3. CASE k = N + 1
      BY <1>8, <2>3, <3>3
    <3> QED BY <1>1, <1>2, <3>1, <3>2, <3>3
  <2> QED BY <2>4 DEF PathsNest
<1>11. MenusPut(b)
  <2>1. ASSUME NEW k \in Openings(buf), buf[k].kind = "menu"
        PROVE  /\ k - 1 \in DOMAIN b /\ b[k - 1].op = "widget"
               /\ \A t \in Openings(b) : IsIn(b, k, t) => b[t].kind # "table"
               /\ Len(b[k].id) = 1 \/ \E t \in Openings(b) : IsIn(b, k, t)
    <3>1. /\ k - 1 \in DOMAIN buf /\ buf[k - 1].op = "widget"
          /\ \A t \in Openings(buf) : IsIn(buf, k, t) => buf[t].kind # "table"
          /\ Len(buf[k].id) = 1 \/ \E t \in Openings(buf) : IsIn(buf, k, t)
      BY <2>1 DEF Stream, MenusPut
    <3>2. \A t \in Openings(buf) : IsIn(b, k, t) <=> IsIn(buf, k, t)
      BY <1>6 DEF IsIn
    <3>3. ~IsIn(b, k, N + 1)
      BY <1>3, <1>6, <1>8 DEF IsIn
    <3>4. k - 1 \in DOMAIN b /\ b[k - 1].op = "widget"
      BY <1>1, <3>1
    <3> QED BY <1>1, <1>6, <3>1, <3>2, <3>3, <3>4
  <2>2. ASSUME c.op \in Opening, c.kind = "menu"
        PROVE  /\ (N + 1) - 1 \in DOMAIN b /\ b[(N + 1) - 1].op = "widget"
               /\ \A t \in Openings(b) : IsIn(b, N + 1, t) => b[t].kind # "table"
               /\ Len(id) = 1 \/ \E t \in Openings(b) : IsIn(b, N + 1, t)
    <3>1. (N + 1) - 1 = N /\ N \in 1..N /\ N \in 1..N + 1 /\ b[N].op = "widget"
      BY <1>1, <2>2 DEF N
    <3>2. uis[D].kind # "table" /\ D - 1 <= MaxDepth
      <4>1. MaxDepth \in Nat /\ D - 1 < MaxDepth
        BY <2>2, FramesAssumption DEF D
      <4> QED BY <1>4, <2>2, <4>1 DEF D
    <3>3. ASSUME NEW t \in Openings(b), IsIn(b, N + 1, t) PROVE b[t].kind # "table"
      <4>1. IsAbove(b[t].id, id) /\ D = Len(b[t].id) + 1
        BY <1>3, <1>8, <3>3 DEF IsIn
      <4>2. t \in Openings(buf)
        BY <1>1, <1>8, <4>1
      <4>3. buf[t].id \in Seq(Nat) /\ Len(buf[t].id) # 0 /\ b[t] = buf[t]
        BY <1>6, <4>2 DEF Stream, PathsGiven
      <4>4. Len(buf[t].id) = D - 1 /\ D - 1 \in Nat /\ D \in 2..D
        BY <1>4, <4>1, <4>3
      <4>5. uis[D].id \in Seq(Nat) /\ Len(uis[D].id) = D - 1
        BY <1>4 DEF AtWork, PathToUi, D
      <4>6. \A n \in 1..D - 1 : buf[t].id[n] = uis[D].id[n]
        BY <1>3, <4>1, <4>3, <4>4 DEF IsAbove
      <4>7. buf[t].id = uis[D].id
        BY <4>3, <4>4, <4>5, <4>6, SamePaths
      <4>8. buf[t].kind = uis[D].kind
        BY <4>2, <4>4, <4>7 DEF AtWork, UisOpened, D
      <4> QED BY <3>2, <4>3, <4>8
    <3>4. ASSUME D # 1 PROVE \E t \in Openings(b) : IsIn(b, N + 1, t)
      <4>1. D \in 2..D /\ D - 1 \in Nat /\ (D - 1) + 1 = D /\ D - 1 < D
        BY <1>4, <3>4
      <4>2. uis[D].emit /\ Len(uis[D].id) = D - 1
        BY <1>4, <3>2, <3>4 DEF AtWork, PathToUi, D
      <4>3. PICK t \in Openings(buf) : buf[t].id = uis[D].id
        BY <4>1, <4>2 DEF AtWork, UisOpened, D
      <4>4. IsAbove(b[t].id, id) /\ Len(id) = Len(b[t].id) + 1
        <5> DEFINE over == uis[D].id
        <5>1. b[t].id = over /\ Len(over) = D - 1
          BY <1>6, <4>2, <4>3
        <5> HIDE DEF over
        <5>2. \A k \in 1..D - 1 : over[k] = id[k]
          BY <1>3 DEF over
        <5>3. IsAbove(over, id)
          BY <1>3, <4>1, <5>1, <5>2 DEF IsAbove
        <5> QED BY <1>3, <4>1, <5>1, <5>3
      <4> QED BY <1>1, <1>8, <4>4 DEF IsIn
    <3> QED BY <1>1, <1>3, <3>1, <3>3, <3>4
  <2> QED BY <1>1, <1>6, <1>8, <2>1, <2>2 DEF MenusPut
<1> QED BY <1>9, <1>10, <1>11 DEF Stream, b

-----------------------------------------------------------------------------
(* The scopes at work, through each of Ui's calls.                          *)

\* What becomes of the scopes at work when a salt has been used.
SaltUsed(uis, other) ==
  /\ Len(other) = Len(uis)
  /\ \A m \in 1..Len(uis) :
       /\ other[m].id = uis[m].id /\ other[m].kind = uis[m].kind /\ other[m].emit = uis[m].emit
       /\ other[m].next \in Nat /\ uis[m].next <= other[m].next

LEMMA PathAfter ==
  ASSUME NEW uis, NEW other, Len(uis) \in Nat \ {0}, PathToUi(uis), SaltUsed(uis, other)
  PROVE  PathToUi(other)
<1> DEFINE D == Len(uis)
<1>1. D \in Nat \ {0} /\ D \in 1..D /\ Len(other) = D
  BY DEF SaltUsed
<1>2. ASSUME NEW m \in 1..D
      PROVE  /\ other[m].id = uis[m].id /\ other[m].emit = uis[m].emit
             /\ other[m].next \in Nat /\ uis[m].next <= other[m].next
             /\ uis[m].id \in Seq(Nat) /\ Len(uis[m].id) = m - 1 /\ uis[m].next \in Nat \ {0}
             /\ \A k \in 1..m - 1 : uis[m].id[k] = uis[D].id[k] /\ uis[m].id[k] < uis[k].next
             /\ m # 1 /\ (m - 1 <= MaxDepth \/ uis[m].id[m - 1] = 0) => uis[m].emit
  BY DEF SaltUsed, PathToUi
<1> HIDE DEF D
<1>3. ASSUME NEW m \in 1..D
      PROVE  /\ other[m].id \in Seq(Nat) /\ Len(other[m].id) = m - 1 /\ other[m].next \in Nat \ {0}
             /\ \A k \in 1..m - 1 : other[m].id[k] = other[D].id[k] /\ other[m].id[k] < other[k].next
             /\ m # 1 /\ (m - 1 <= MaxDepth \/ other[m].id[m - 1] = 0) => other[m].emit
  <2> DEFINE this == uis[m].id
             top == uis[D].id
  <2>1. /\ this \in Seq(Nat) /\ Len(this) = m - 1 /\ uis[m].next \in Nat \ {0}
        /\ \A k \in 1..m - 1 : this[k] = top[k] /\ this[k] < uis[k].next
        /\ m # 1 /\ (m - 1 <= MaxDepth \/ this[m - 1] = 0) => uis[m].emit
        /\ other[m].id = this /\ other[D].id = top
    BY <1>1, <1>2
  <2> HIDE DEF this, top
  <2>2. other[m].next \in Nat \ {0}
    BY <1>2, <2>1
  <2>3. ASSUME NEW k \in 1..m - 1 PROVE this[k] < other[k].next
    <3>1. k \in 1..D
      BY <1>1
    <3>2. uis[k].next \in Nat /\ other[k].next \in Nat /\ uis[k].next <= other[k].next
      BY <1>2, <3>1
    <3>3. this[k] \in Nat /\ this[k] < uis[k].next
      BY <2>1
    <3> HIDE DEF D
    <3> QED BY <3>2, <3>3
  <2>4. other[m].emit = uis[m].emit
    BY <1>2
  <2> QED BY <2>1, <2>2, <2>3, <2>4
<1> QED BY <1>1, <1>3 DEF PathToUi

\* A stream in which nothing has been opened, closed or named since.
AlikeIn(buf, b) ==
  /\ Named(b) = Named(buf) /\ Openings(b) = Openings(buf)
  /\ \A i \in Named(buf) : b[i] = buf[i]
  /\ \A j \in Closings(b) : \E k \in Closings(buf) : b[j].id = buf[k].id
  /\ \A k \in Closings(buf) : \E j \in Closings(b) : b[j].id = buf[k].id

LEMMA WorkAlike ==
  ASSUME NEW buf, NEW b, NEW uis, AtWork(buf, uis), AlikeIn(buf, b)
  PROVE  AtWork(b, uis)
<1>1. Openings(buf) \subseteq Named(buf)
  BY DEF Openings, Named
<1>2. ASSUME NEW k \in Openings(buf) PROVE b[k] = buf[k] /\ (Unclosed(b, k) <=> Unclosed(buf, k))
  BY <1>1 DEF Unclosed, AlikeIn
<1>3. SaltsLeft(b, uis)
  BY DEF AtWork, SaltsLeft, AlikeIn
<1>4. UisOpened(b, uis)
  <2> SUFFICES ASSUME NEW m \in 2..Len(uis)
      PROVE  /\ uis[m].emit => \E k \in Openings(b) : b[k].id = uis[m].id
             /\ \A k \in Openings(b) : b[k].id = uis[m].id =>
                  uis[m].emit /\ b[k].kind = uis[m].kind /\ Unclosed(b, k)
    BY DEF UisOpened
  <2>1. /\ uis[m].emit => \E k \in Openings(buf) : buf[k].id = uis[m].id
        /\ \A k \in Openings(buf) : buf[k].id = uis[m].id =>
             uis[m].emit /\ buf[k].kind = uis[m].kind /\ Unclosed(buf, k)
    BY DEF AtWork, UisOpened
  <2> QED BY <1>2, <2>1 DEF AlikeIn
<1>5. OpenAreUis(b, uis)
  BY <1>2 DEF AtWork, OpenAreUis, AlikeIn
<1> QED BY <1>3, <1>4, <1>5 DEF AtWork

\* All of the scopes at work but a new one, with the id id.
AtWorkBut(b, uis, id) ==
  /\ PathToUi(uis) /\ SaltsLeft(b, uis) /\ UisOpened(b, uis)
  /\ \A k \in Openings(b) : Unclosed(b, k) => b[k].id = id \/ \E m \in 2..Len(uis) : uis[m].id = b[k].id

LEMMA WorkNamed ==
  ASSUME NEW C, NEW buf \in Seq(C), NEW uis, Stream(buf), AtWork(buf, uis),
         NEW salt, NEW id, GivenNext(buf, uis, salt, id),
         NEW c \in C, c.id = id, c.op \in Opening \cup {"widget"},
         NEW other, SaltUsed(uis, other), salt < other[Len(uis)].next
  PROVE  /\ AtWorkBut(Append(buf, c), other, id)
         /\ c.op = "widget" => AtWork(Append(buf, c), other)
<1> DEFINE b == Append(buf, c)
           N == Len(buf)
           D == Len(uis)
<1>1. /\ N \in Nat /\ b[N + 1] = c /\ (\A i \in 1..N : b[i] = buf[i])
      /\ Named(buf) \subseteq 1..N /\ Openings(buf) \subseteq Named(buf) /\ Closings(buf) \subseteq 1..N
      /\ Named(b) = Named(buf) \cup (IF c.op \in Opening \cup {"widget"} THEN {N + 1} ELSE {})
      /\ Openings(b) = Openings(buf) \cup (IF c.op \in Opening THEN {N + 1} ELSE {})
      /\ Closings(b) = Closings(buf) \cup (IF c.op \in Closing THEN {N + 1} ELSE {})
  BY AppendedIs
<1>2. Named(b) = Named(buf) \cup {N + 1} /\ Closings(b) = Closings(buf)
  <2>1. c.op \notin Closing
    BY DEF Opening, Closing
  <2> HIDE DEF b, N
  <2> QED BY <1>1, <2>1
<1>3. IsNew(buf, uis, salt, id)
  BY NewId, Zenon
<1>4. /\ id \in Seq(Nat) /\ Len(id) = D /\ id[D] = salt
      /\ \A k \in 1..D - 1 : id[k] = uis[D].id[k]
  BY <1>3 DEF IsNew
<1>5. D \in Nat \ {0} /\ D \in 1..D /\ salt \in Nat
  BY DEF GivenNext
<1> HIDE DEF b, N, D
<1>6. \A i \in Named(buf) : b[i] = buf[i]
  BY <1>1
<1>7. \A k \in Openings(buf) : b[k] = buf[k] /\ (Unclosed(b, k) <=> Unclosed(buf, k))
  BY <1>1, <1>2, <1>6 DEF Unclosed
<1>8. b[N + 1].id = id
  BY <1>1
<1>9. Len(other) = D /\ \A m \in 1..D :
        /\ other[m].id = uis[m].id /\ other[m].kind = uis[m].kind /\ other[m].emit = uis[m].emit
        /\ other[m].next \in Nat /\ uis[m].next <= other[m].next
  BY DEF SaltUsed, D
<1>10. PathToUi(other)
  BY <1>5, PathAfter DEF AtWork, D
<1>11. ASSUME NEW m \in 1..D PROVE Len(uis[m].id) = m - 1 /\ m - 1 \in Nat
  BY <1>11 DEF AtWork, PathToUi, D
<1>12. ASSUME NEW m \in 1..D, IsAbove(uis[m].id, id) PROVE id[m] < other[m].next
  <2>1. CASE m = D
    BY <1>4, <1>5, <2>1 DEF D
  <2>2. CASE m # D
    <3>1. m \in 1..D - 1
      BY <1>5, <2>2
    <3>2. uis[D].id[m] < uis[m].next /\ uis[D].id \in Seq(Nat) /\ Len(uis[D].id) = D - 1
          /\ uis[m].next \in Nat
      BY <1>5, <3>1 DEF AtWork, PathToUi, D
    <3>3. id[m] < uis[m].next
      BY <1>4, <3>1, <3>2
    <3>4. id[m] \in Nat /\ other[m].next \in Nat /\ uis[m].next <= other[m].next
      BY <1>4, <1>9, <1>12
    <3> QED BY <3>2, <3>3, <3>4
  <2> QED BY <2>1, <2>2
<1>13. SaltsLeft(b, other)
  <2>1. ASSUME NEW i \in Named(buf), NEW m \in 1..D, IsAbove(other[m].id, b[i].id)
        PROVE  b[i].id[m] < other[m].next
    <3> DEFINE this == buf[i].id
    <3>1. this \in Seq(Nat) /\ Len(this) \in Nat /\ b[i].id = this
      BY <1>6 DEF Stream, PathsGiven
    <3>2. IsAbove(uis[m].id, this)
      BY <1>9, <2>1, <3>1
    <3>3. this[m] < uis[m].next
      BY <3>2 DEF AtWork, SaltsLeft, D
    <3> HIDE DEF this
    <3>4. m \in 1..Len(this)
      BY <1>5, <1>11, <3>1, <3>2 DEF IsAbove
    <3>5. this[m] \in Nat /\ uis[m].next \in Nat
      BY <3>1, <3>4 DEF AtWork, PathToUi, D
    <3>6. other[m].next \in Nat /\ uis[m].next <= other[m].next
      BY <1>9
    <3> QED BY <3>1, <3>3, <3>5, <3>6
  <2>2. ASSUME NEW m \in 1..D, IsAbove(other[m].id, id) PROVE id[m] < other[m].next
    BY <1>9, <1>12, <2>2
  <2> QED BY <1>2, <1>8, <1>9, <2>1, <2>2 DEF SaltsLeft
<1>14. UisOpened(b, other)
  <2> SUFFICES ASSUME NEW m \in 2..D
      PROVE  /\ other[m].emit => \E k \in Openings(b) : b[k].id = other[m].id
             /\ \A k \in Openings(b) : b[k].id = other[m].id =>
                  other[m].emit /\ b[k].kind = other[m].kind /\ Unclosed(b, k)
    BY <1>9 DEF UisOpened
  <2>1. /\ uis[m].emit => \E k \in Openings(buf) : buf[k].id = uis[m].id
        /\ \A k \in Openings(buf) : buf[k].id = uis[m].id =>
             uis[m].emit /\ buf[k].kind = uis[m].kind /\ Unclosed(buf, k)
    BY DEF AtWork, UisOpened, D
  <2>2. m \in 1..D /\ m - 1 # D
    BY <1>5
  <2>3. other[m].id # id
    BY <1>4, <1>9, <1>11, <2>2
  <2>4. other[m].id = uis[m].id /\ other[m].kind = uis[m].kind /\ other[m].emit = uis[m].emit
    BY <1>9, <2>2
  <2> QED BY <1>1, <1>7, <1>8, <2>1, <2>3, <2>4
<1>15. ASSUME NEW k \in Openings(buf), Unclosed(b, k)
       PROVE  \E m \in 2..D : other[m].id = b[k].id
  <2>1. PICK m \in 2..D : uis[m].id = buf[k].id
    BY <1>7, <1>15 DEF AtWork, OpenAreUis, D
  <2>2. m \in 1..D
    BY <1>5
  <2> QED BY <1>7, <1>9, <2>1, <2>2
<1>16. AtWorkBut(b, other, id)
  BY <1>1, <1>8, <1>9, <1>10, <1>13, <1>14, <1>15 DEF AtWorkBut
<1>17. ASSUME c.op = "widget" PROVE AtWork(b, other)
  <2>1. Openings(b) = Openings(buf)
    BY <1>1, <1>17 DEF Opening
  <2> QED BY <1>9, <1>10, <1>13, <1>14, <1>15, <2>1 DEF AtWork, OpenAreUis
<1> QED BY <1>16, <1>17 DEF b

\* A scope is entered, of which the stream may have the opening command.
Entered(b, uis, u) ==
  /\ u.id \in Seq(Nat) /\ Len(u.id) = Len(uis) /\ u.next = 1
  /\ \A k \in 1..Len(uis) - 1 : u.id[k] = uis[Len(uis)].id[k]
  /\ u.id[Len(uis)] < uis[Len(uis)].next
  /\ Len(uis) <= MaxDepth \/ u.id[Len(uis)] = 0 => u.emit
  /\ \A i \in Named(b) : ~IsAbove(u.id, b[i].id)
  /\ u.emit => \E k \in Openings(b) : b[k].id = u.id
  /\ \A k \in Openings(b) : b[k].id = u.id => u.emit /\ b[k].kind = u.kind /\ Unclosed(b, k)

LEMMA WorkEntered ==
  ASSUME NEW b, NEW S, NEW uis \in Seq(S), NEW u \in S, Len(uis) # 0, AtWorkBut(b, uis, u.id),
         Entered(b, uis, u)
  PROVE  AtWork(b, Append(uis, u))
<1> DEFINE ups == Append(uis, u)
           D == Len(uis)
<1>1. D \in Nat \ {0} /\ D \in 1..D /\ Len(ups) = D + 1 /\ ups[D + 1] = u /\ \A m \in 1..D : ups[m] = uis[m]
  OBVIOUS
<1> HIDE DEF ups, D
<1>2. \A m \in 1..D + 1 : m \in 1..D \/ m = D + 1
  BY <1>1
<1>3. PathToUi(ups)
  <2> DEFINE id == u.id
             top == uis[D].id
  <2>1. /\ id \in Seq(Nat) /\ Len(id) = D /\ u.next = 1 /\ id[D] < uis[D].next
        /\ \A k \in 1..D - 1 : id[k] = top[k]
        /\ D <= MaxDepth \/ id[D] = 0 => u.emit
    BY DEF Entered, D
  <2>2. ASSUME NEW m \in 1..D
        PROVE  /\ uis[m].id \in Seq(Nat) /\ Len(uis[m].id) = m - 1 /\ uis[m].next \in Nat \ {0}
               /\ \A k \in 1..m - 1 : uis[m].id[k] = top[k] /\ uis[m].id[k] < uis[k].next
               /\ m # 1 /\ (m - 1 <= MaxDepth \/ uis[m].id[m - 1] = 0) => uis[m].emit
    BY DEF AtWorkBut, PathToUi, D
  <2> HIDE DEF id, top
  <2>3. ASSUME NEW m \in 1..D
        PROVE  /\ ups[m].id \in Seq(Nat) /\ Len(ups[m].id) = m - 1 /\ ups[m].next \in Nat \ {0}
               /\ \A k \in 1..m - 1 : ups[m].id[k] = id[k] /\ ups[m].id[k] < ups[k].next
               /\ m # 1 /\ (m - 1 <= MaxDepth \/ ups[m].id[m - 1] = 0) => ups[m].emit
    <3> DEFINE this == uis[m].id
    <3>1. /\ this \in Seq(Nat) /\ Len(this) = m - 1 /\ uis[m].next \in Nat \ {0}
          /\ \A k \in 1..m - 1 : this[k] = top[k] /\ this[k] < uis[k].next
          /\ m # 1 /\ (m - 1 <= MaxDepth \/ this[m - 1] = 0) => uis[m].emit
          /\ ups[m].id = this
      BY <1>1, <2>2
    <3> HIDE DEF this
    <3>2. \A k \in 1..m - 1 : k \in 1..D - 1 /\ k \in 1..D
      BY <1>1
    <3>3. \A k \in 1..m - 1 : this[k] = id[k] /\ this[k] < ups[k].next
      BY <1>1, <2>1, <3>1, <3>2
    <3>4. ups[m] = uis[m]
      BY <1>1
    <3> QED BY <3>1, <3>3, <3>4
  <2>4. ASSUME NEW k \in 1..D PROVE id[k] < ups[k].next
    <3>1. CASE k = D
      BY <1>1, <2>1, <3>1
    <3>2. CASE k # D
      <4>1. k \in 1..D - 1
        BY <1>1, <3>2
      <4>2. top[k] < uis[k].next
        BY <1>1, <2>2, <4>1 DEF top
      <4> QED BY <1>1, <2>1, <4>1, <4>2
    <3> QED BY <3>1, <3>2
  <2>5. (D + 1) - 1 = D /\ D + 1 # 1 /\ ups[D + 1] = u /\ ups[D + 1].id = id
    BY <1>1 DEF id
  <2>6. /\ ups[D + 1].id \in Seq(Nat) /\ Len(ups[D + 1].id) = (D + 1) - 1 /\ ups[D + 1].next \in Nat \ {0}
        /\ \A k \in 1..(D + 1) - 1 : ups[D + 1].id[k] = id[k] /\ ups[D + 1].id[k] < ups[k].next
        /\ D + 1 # 1 /\ ((D + 1) - 1 <= MaxDepth \/ ups[D + 1].id[(D + 1) - 1] = 0) => ups[D + 1].emit
    BY <2>1, <2>4, <2>5
  <2>7. ASSUME NEW m \in 1..D + 1
        PROVE  /\ ups[m].id \in Seq(Nat) /\ Len(ups[m].id) = m - 1 /\ ups[m].next \in Nat \ {0}
               /\ \A k \in 1..m - 1 : ups[m].id[k] = id[k] /\ ups[m].id[k] < ups[k].next
               /\ m # 1 /\ (m - 1 <= MaxDepth \/ ups[m].id[m - 1] = 0) => ups[m].emit
    <3>1. CASE m \in 1..D
      BY <2>3, <3>1
    <3>2. CASE m = D + 1
      BY <2>6, <3>2
    <3> QED BY <1>2, <3>1, <3>2
  <2> QED BY <1>1, <2>5, <2>7 DEF PathToUi
<1>4. SaltsLeft(b, ups)
  <2>1. \A i \in Named(b), m \in 1..D : IsAbove(ups[m].id, b[i].id) => b[i].id[m] < ups[m].next
    BY <1>1 DEF AtWorkBut, SaltsLeft, D
  <2>2. \A i \in Named(b) : ~IsAbove(ups[D + 1].id, b[i].id)
    BY <1>1 DEF Entered
  <2> QED BY <1>1, <1>2, <2>1, <2>2 DEF SaltsLeft
<1>5. \A m \in 2..D + 1 : m \in 2..D \/ m = D + 1
  BY <1>1
<1>6. \A m \in 2..D : m \in 1..D /\ m \in 2..D + 1
  BY <1>1
<1>7. UisOpened(b, ups)
  <2>1. ASSUME NEW m \in 2..D
        PROVE  /\ ups[m].emit => \E k \in Openings(b) : b[k].id = ups[m].id
               /\ \A k \in Openings(b) : b[k].id = ups[m].id =>
                    ups[m].emit /\ b[k].kind = ups[m].kind /\ Unclosed(b, k)
    BY <1>1, <1>6 DEF AtWorkBut, UisOpened, D
  <2>2. /\ ups[D + 1].emit => \E k \in Openings(b) : b[k].id = ups[D + 1].id
        /\ \A k \in Openings(b) : b[k].id = ups[D + 1].id =>
             ups[D + 1].emit /\ b[k].kind = ups[D + 1].kind /\ Unclosed(b, k)
    BY <1>1 DEF Entered
  <2> QED BY <1>1, <1>5, <2>1, <2>2 DEF UisOpened
<1>8. OpenAreUis(b, ups)
  <2> SUFFICES ASSUME NEW k \in Openings(b), Unclosed(b, k)
      PROVE  \E m \in 2..D + 1 : ups[m].id = b[k].id
    BY <1>1 DEF OpenAreUis
  <2>1. b[k].id = u.id \/ \E m \in 2..D : uis[m].id = b[k].id
    BY DEF AtWorkBut, D
  <2>2. D + 1 \in 2..D + 1
    BY <1>1
  <2> QED BY <1>1, <1>6, <2>1, <2>2
<1> QED BY <1>3, <1>4, <1>7, <1>8 DEF AtWork, ups

\* A scope is left, with its closing command if the stream has the opening one.
ScopeLeft(buf, b, u) ==
  /\ Named(b) = Named(buf) /\ Openings(b) = Openings(buf)
  /\ \A i \in Named(buf) : b[i] = buf[i]
  /\ \A j \in Closings(b) : b[j].id = u.id \/ \E k \in Closings(buf) : b[j].id = buf[k].id
  /\ \A k \in Closings(buf) : \E j \in Closings(b) : b[j].id = buf[k].id
  /\ u.emit => \E j \in Closings(b) : b[j].id = u.id

LEMMA WorkLeft ==
  ASSUME NEW buf, NEW b, NEW S, NEW uis \in Seq(S), 1 < Len(uis), AtWork(buf, uis),
         ScopeLeft(buf, b, uis[Len(uis)])
  PROVE  AtWork(b, Front(uis))
<1> DEFINE ups == Front(uis)
           D == Len(uis)
           u == uis[D]
<1>1. D \in Nat /\ D - 1 \in Nat \ {0} /\ D \in 2..D /\ D \in 1..D /\ uis # << >>
  <2>1. D \in Nat /\ 1 < D
    OBVIOUS
  <2> QED BY <2>1, EmptySeq
<1>2. Len(ups) = D - 1 /\ \A m \in 1..D - 1 : ups[m] = uis[m]
  BY <1>1, FrontOf
<1> HIDE DEF ups, D, u
<1>3. \A m \in 1..D - 1 : m \in 1..D
  BY <1>1
<1>4. \A m \in 2..D - 1 : m \in 1..D - 1 /\ m \in 2..D
  BY <1>1
<1>5. \A m \in 2..D : m = D \/ m \in 2..D - 1
  BY <1>1
<1>6. ASSUME NEW m \in 1..D
      PROVE  /\ uis[m].id \in Seq(Nat) /\ Len(uis[m].id) = m - 1 /\ uis[m].next \in Nat \ {0}
             /\ \A k \in 1..m - 1 : uis[m].id[k] = u.id[k] /\ uis[m].id[k] < uis[k].next
             /\ m # 1 /\ (m - 1 <= MaxDepth \/ uis[m].id[m - 1] = 0) => uis[m].emit
  BY <1>6 DEF AtWork, PathToUi, D, u
<1>7. PathToUi(ups)
  <2> DEFINE id == u.id
             top == uis[D - 1].id
  <2>1. D - 1 \in 1..D - 1 /\ D - 1 \in 1..D
    BY <1>1
  <2>2. \A k \in 1..(D - 1) - 1 : top[k] = id[k]
    BY <1>6, <2>1
  <2>3. ASSUME NEW m \in 1..D - 1
        PROVE  /\ ups[m].id \in Seq(Nat) /\ Len(ups[m].id) = m - 1 /\ ups[m].next \in Nat \ {0}
               /\ \A k \in 1..m - 1 : ups[m].id[k] = top[k] /\ ups[m].id[k] < ups[k].next
               /\ m # 1 /\ (m - 1 <= MaxDepth \/ ups[m].id[m - 1] = 0) => ups[m].emit
    <3> DEFINE this == uis[m].id
    <3>1. /\ this \in Seq(Nat) /\ Len(this) = m - 1 /\ uis[m].next \in Nat \ {0}
          /\ \A k \in 1..m - 1 : this[k] = id[k] /\ this[k] < uis[k].next
          /\ m # 1 /\ (m - 1 <= MaxDepth \/ this[m - 1] = 0) => uis[m].emit
      BY <1>3, <1>6
    <3>2. ups[m] = uis[m] /\ ups[m].id = this
      BY <1>2
    <3> HIDE DEF this, top, id
    <3>3. \A k \in 1..m - 1 : k \in 1..(D - 1) - 1 /\ k \in 1..D - 1
      BY <1>1
    <3>4. \A k \in 1..m - 1 : this[k] = top[k] /\ this[k] < ups[k].next
      BY <1>2, <2>2, <3>1, <3>3
    <3> QED BY <3>1, <3>2, <3>4
  <2>4. ups[D - 1].id = top
    BY <1>2, <2>1
  <2> HIDE DEF id, top
  <2> QED BY <1>2, <2>3, <2>4 DEF PathToUi
<1>8. SaltsLeft(b, ups)
  BY <1>2, <1>3 DEF AtWork, SaltsLeft, ScopeLeft, D
<1>9. Openings(buf) \subseteq Named(buf)
  BY DEF Openings, Named
<1>10. /\ Openings(b) = Openings(buf) /\ \A k \in Openings(buf) : b[k] = buf[k]
  BY <1>9 DEF ScopeLeft
<1>11. UisOpened(b, ups)
  <2> SUFFICES ASSUME NEW m \in 2..D - 1
      PROVE  /\ ups[m].emit => \E k \in Openings(b) : b[k].id = ups[m].id
             /\ \A k \in Openings(b) : b[k].id = ups[m].id =>
                  ups[m].emit /\ b[k].kind = ups[m].kind /\ Unclosed(b, k)
    BY <1>2 DEF UisOpened
  <2>1. /\ uis[m].emit => \E k \in Openings(buf) : buf[k].id = uis[m].id
        /\ \A k \in Openings(buf) : buf[k].id = uis[m].id =>
             uis[m].emit /\ buf[k].kind = uis[m].kind /\ Unclosed(buf, k)
    BY <1>4 DEF AtWork, UisOpened, D
  <2>2. uis[m].id # u.id
    <3>1. m \in 1..D /\ m # D /\ m \in Nat
      BY <1>1
    <3>2. Len(uis[m].id) = m - 1 /\ Len(uis[D].id) = D - 1
      BY <1>1, <1>6, <3>1
    <3>3. m - 1 # D - 1
      BY <1>1, <3>1
    <3> QED BY <3>2, <3>3 DEF u
  <2>3. ASSUME NEW k \in Openings(buf), buf[k].id = uis[m].id PROVE Unclosed(b, k)
    <3>1. Unclosed(buf, k)
      BY <2>1, <2>3
    <3> QED BY <1>10, <2>2, <2>3, <3>1 DEF Unclosed, ScopeLeft, u, D
  <2>4. ups[m] = uis[m]
    BY <1>2, <1>4
  <2> QED BY <1>10, <2>1, <2>3, <2>4
<1>12. OpenAreUis(b, ups)
  <2> SUFFICES ASSUME NEW k \in Openings(buf), Unclosed(b, k)
      PROVE  \E m \in 2..D - 1 : ups[m].id = b[k].id
    BY <1>2, <1>10 DEF OpenAreUis
  <2>1. Unclosed(buf, k)
    BY <1>10 DEF Unclosed, ScopeLeft
  <2>2. PICK m \in 2..D : uis[m].id = buf[k].id
    BY <2>1 DEF AtWork, OpenAreUis, D
  <2>3. m # D
    <3> SUFFICES ASSUME m = D PROVE FALSE
      OBVIOUS
    <3>1. buf[k].id = u.id
      BY <2>2 DEF u
    <3>2. u.emit
      BY <1>1, <3>1 DEF AtWork, UisOpened, u, D
    <3>3. PICK j \in Closings(b) : b[j].id = u.id
      BY <3>2 DEF ScopeLeft, u, D
    <3> QED BY <1>10, <3>1, <3>3 DEF Unclosed
  <2> QED BY <1>2, <1>4, <1>5, <1>10, <2>2, <2>3
<1> QED BY <1>7, <1>8, <1>11, <1>12 DEF AtWork, ups

-----------------------------------------------------------------------------
(* Each of Ui's calls.                                                      *)

PathInv == RecType /\ (rec.sdk => Stream(rec.buf) /\ AtWork(rec.buf, rec.uis))

LEMMA UiAtWork ==
  ASSUME PathInv, rec.sdk
  PROVE  /\ rec.buf \in Seq(Cmds) /\ rec.uis \in Seq(Uis) /\ rec.uis # << >>
         /\ Len(rec.uis) \in Nat \ {0} /\ rec.uis[Len(rec.uis)] = Ui
         /\ Stream(rec.buf) /\ AtWork(rec.buf, rec.uis) /\ PathToUi(rec.uis) /\ Ui.next \in Nat \ {0}
<1>1. rec.buf \in Seq(Cmds) /\ rec.uis \in Seq(Uis) /\ rec.uis # << >>
  BY DEF PathInv, RecType, Recs
<1>2. Len(rec.uis) \in Nat \ {0} /\ rec.uis[Len(rec.uis)] = Ui
  BY <1>1, EmptySeq DEF Ui, Last
<1>3. Stream(rec.buf) /\ AtWork(rec.buf, rec.uis) /\ PathToUi(rec.uis)
  BY DEF PathInv, AtWork
<1>4. Ui.next \in Nat \ {0}
  <2>1. Len(rec.uis) \in 1..Len(rec.uis)
    BY <1>2
  <2> QED BY <1>2, <1>3, <2>1 DEF PathToUi
<1> QED BY <1>1, <1>2, <1>3, <1>4

LEMMA SaltedIs ==
  ASSUME PathInv, rec.sdk
  PROVE  /\ SaltUsed(rec.uis, Salted) /\ SaltUsed(rec.uis, rec.uis)
         /\ Ui.next < Salted[Len(rec.uis)].next /\ Salted[Len(rec.uis)].kind = Ui.kind
         /\ Salted \in Seq(Uis) /\ Salted # << >> /\ Len(Salted) = Len(rec.uis)
<1> DEFINE uis == rec.uis
           D == Len(uis)
           u == [Ui EXCEPT !.next = @ + 1]
<1>1. uis \in Seq(Uis) /\ D \in Nat \ {0} /\ D \in 1..D /\ uis[D] = Ui /\ Ui.next \in Nat /\ Ui \in Uis
  <2>1. D \in 1..D
    BY UiAtWork
  <2> QED BY <2>1, UiAtWork
<1>2. Salted \in Seq(Uis) /\ Salted # << >> /\ Len(Salted) = D
  BY UiIs DEF PathInv
<1>3. Salted = [uis EXCEPT ![D] = u]
  BY <1>1 DEF Salted
<1>4. u.id = Ui.id /\ u.kind = Ui.kind /\ u.emit = Ui.emit /\ u.next = Ui.next + 1
  BY <1>1 DEF Uis
<1>5. \A m \in 1..D : uis[m].next \in Nat
  <2>1. \A m \in 1..D : uis[m] \in Uis
    BY <1>1
  <2>2. \A x \in Uis : x.next \in Nat
    BY DEF Uis
  <2> QED BY <2>1, <2>2
<1> HIDE DEF u, uis, D
<1>6. \A m \in 1..D : Salted[m] = IF m = D THEN u ELSE uis[m]
  BY <1>1, <1>3 DEF D
<1>7. \A n \in Nat : n <= n /\ n + 1 \in Nat /\ n <= n + 1 /\ n < n + 1
  OBVIOUS
<1>8. SaltUsed(uis, Salted)
  BY <1>1, <1>2, <1>4, <1>5, <1>6, <1>7 DEF SaltUsed, D
<1>9. SaltUsed(uis, uis)
  BY <1>5, <1>7 DEF SaltUsed, D
<1>10. Salted[D].next = Ui.next + 1 /\ Salted[D].kind = Ui.kind
  BY <1>1, <1>4, <1>6
<1> QED BY <1>1, <1>2, <1>7, <1>8, <1>9, <1>10 DEF uis, D

LEMMA WidgetPaths ==
  ASSUME PathInv, NEW kind \in {"button", "link"}, Widget(kind)
  PROVE  PathInv'
<1> DEFINE c == Cmd("widget", AutoId, kind)
<1>1. RecType /\ rec.sdk /\ AddCommands(<<c>>, Salted)
  BY DEF PathInv, Widget, Drawing
<1>2. /\ rec.buf \in Seq(Cmds) /\ rec.uis \in Seq(Uis) /\ rec.uis # << >>
      /\ Len(rec.uis) \in Nat \ {0} /\ rec.uis[Len(rec.uis)] = Ui
      /\ Stream(rec.buf) /\ AtWork(rec.buf, rec.uis) /\ Ui.next \in Nat \ {0}
  BY <1>1, UiAtWork
<1>3. /\ SaltUsed(rec.uis, Salted) /\ Ui.next < Salted[Len(rec.uis)].next
      /\ Salted \in Seq(Uis) /\ Salted # << >>
  BY <1>1, SaltedIs
<1>4. c \in Cmds /\ c.op = "widget" /\ c.id = AutoId /\ c.op \notin Opening
  BY <1>1, UiIs DEF Cmd, Cmds, Ops, UiKinds, Opening
<1> HIDE DEF c
<1>5. <<c>> \in Seq(Cmds) /\ rec.buf \o <<c>> = Append(rec.buf, c)
  BY <1>2, <1>4
<1>6. RecType' /\ rec'.buf = Append(rec.buf, c) /\ rec'.uis = Salted
  BY <1>1, <1>3, <1>5, AddIs
<1>7. GivenNext(rec.buf, rec.uis, Ui.next, AutoId)
  BY <1>2 DEF GivenNext, AutoId
<1>8. c.op \in Opening \cup {"widget"}
  BY <1>4
<1>9. Stream(Append(rec.buf, c))
  BY <1>2, <1>4, <1>7, <1>8, StreamNamed
<1>10. AtWork(Append(rec.buf, c), Salted)
  BY <1>2, <1>3, <1>4, <1>7, <1>8, WorkNamed
<1> QED BY <1>6, <1>9, <1>10 DEF PathInv

LEMMA SeparatorPaths ==
  ASSUME PathInv, Separator
  PROVE  PathInv'
<1> DEFINE c == Cmd("line", Root, "line")
           b == Append(rec.buf, c)
<1>1. RecType /\ rec.sdk /\ AddCommands(<<c>>, rec.uis)
  BY DEF PathInv, Separator, Drawing
<1>2. /\ rec.buf \in Seq(Cmds) /\ rec.uis \in Seq(Uis) /\ rec.uis # << >>
      /\ Stream(rec.buf) /\ AtWork(rec.buf, rec.uis)
  BY <1>1, UiAtWork
<1>3. c \in Cmds /\ c.op \notin Opening \cup {"widget"} /\ c.op \notin Closing /\ c.op \notin Opening
  BY DEF Cmd, Cmds, Ops, UiKinds, Opening, Closing, Root, IdPaths
<1> HIDE DEF c
<1>4. <<c>> \in Seq(Cmds) /\ rec.buf \o <<c>> = b
  BY <1>2, <1>3
<1>5. RecType' /\ rec'.buf = b /\ rec'.uis = rec.uis
  BY <1>1, <1>2, <1>4, AddIs
<1>6. Stream(b)
  BY <1>2, <1>3, StreamOther
<1>7. AlikeIn(rec.buf, b)
  <2> DEFINE N == Len(rec.buf)
  <2>1. /\ (\A i \in 1..N : b[i] = rec.buf[i])
        /\ Named(rec.buf) \subseteq 1..N /\ Closings(rec.buf) \subseteq 1..N
        /\ Named(b) = Named(rec.buf) \cup (IF c.op \in Opening \cup {"widget"} THEN {N + 1} ELSE {})
        /\ Openings(b) = Openings(rec.buf) \cup (IF c.op \in Opening THEN {N + 1} ELSE {})
        /\ Closings(b) = Closings(rec.buf) \cup (IF c.op \in Closing THEN {N + 1} ELSE {})
    BY <1>2, <1>3, AppendedIs
  <2> HIDE DEF b, N
  <2>2. Named(b) = Named(rec.buf) /\ Openings(b) = Openings(rec.buf) /\ Closings(b) = Closings(rec.buf)
    BY <1>3, <2>1
  <2> QED BY <2>1, <2>2 DEF AlikeIn
<1>8. AtWork(b, rec.uis)
  <2> HIDE DEF b
  <2> QED BY <1>2, <1>7, WorkAlike
<1> QED BY <1>5, <1>6, <1>8 DEF PathInv

\* A scope or a window is entered, with its opening command.
LEMMA EnteredPaths ==
  ASSUME PathInv, rec.sdk, NEW salt, NEW id, GivenNext(rec.buf, rec.uis, salt, id),
         NEW c \in Cmds, c.id = id, c.op \in Opening,
         c.kind = "menu" => /\ Len(rec.buf) \in DOMAIN rec.buf /\ rec.buf[Len(rec.buf)].op = "widget"
                            /\ Ui.kind # "table" /\ Len(rec.uis) - 1 < MaxDepth,
         NEW uis \in Seq(Uis), SaltUsed(rec.uis, uis), salt < uis[Len(rec.uis)].next,
         NEW u \in Uis, u.id = id, u.kind = c.kind, u.emit, u.next = 1
  PROVE  Stream(Append(rec.buf, c)) /\ AtWork(Append(rec.buf, c), Append(uis, u))
<1> DEFINE buf == rec.buf
           b == Append(buf, c)
           N == Len(buf)
           D == Len(uis)
<1>1. /\ buf \in Seq(Cmds) /\ Len(rec.uis) \in Nat \ {0} /\ rec.uis[Len(rec.uis)] = Ui
      /\ Stream(buf) /\ AtWork(buf, rec.uis)
  BY UiAtWork
<1>2. c.op \in Opening \cup {"widget"} /\ c.op \notin Closing
  BY DEF Opening, Closing
<1>3. Stream(b)
  BY <1>1, <1>2, StreamNamed
<1>4. AtWorkBut(b, uis, id)
  BY <1>1, <1>2, WorkNamed
<1>5. IsNew(buf, rec.uis, salt, id)
  BY <1>1, NewId, Zenon
<1>6. D = Len(rec.uis) /\ \A m \in 1..D : uis[m].id = rec.uis[m].id
  BY DEF SaltUsed
<1>7. /\ N \in Nat /\ b[N + 1] = c /\ (\A i \in 1..N : b[i] = buf[i])
      /\ Named(buf) \subseteq 1..N /\ Openings(buf) \subseteq Named(buf) /\ Closings(buf) \subseteq 1..N
      /\ Named(b) = Named(buf) \cup (IF c.op \in Opening \cup {"widget"} THEN {N + 1} ELSE {})
      /\ Openings(b) = Openings(buf) \cup (IF c.op \in Opening THEN {N + 1} ELSE {})
      /\ Closings(b) = Closings(buf) \cup (IF c.op \in Closing THEN {N + 1} ELSE {})
  BY <1>1, AppendedIs
<1> HIDE DEF buf, b, N, D
<1>8. Named(b) = Named(buf) \cup {N + 1} /\ Openings(b) = Openings(buf) \cup {N + 1}
      /\ Closings(b) = Closings(buf)
  BY <1>2, <1>7
<1>9. \A i \in Named(buf) : b[i] = buf[i]
  BY <1>7
<1>10. \A k \in Openings(buf) : b[k] = buf[k]
  BY <1>7, <1>9
<1>11. D \in Nat \ {0} /\ D \in 1..D
  BY <1>1, <1>6
<1>12. /\ id \in Seq(Nat) /\ Len(id) = D /\ id[D] = salt
       /\ \A k \in 1..D - 1 : id[k] = rec.uis[D].id[k]
       /\ \A i \in Named(buf) : buf[i].id # id /\ ~IsAbove(id, buf[i].id)
       /\ \A j \in Closings(buf) : buf[j].id # id
  BY <1>5, <1>6 DEF IsNew
<1>13. \A k \in 1..D - 1 : u.id[k] = uis[D].id[k]
  BY <1>6, <1>11, <1>12
<1>14. \A i \in Named(b) : ~IsAbove(u.id, b[i].id)
  <2>1. ~IsAbove(id, id)
    BY <1>11, <1>12 DEF IsAbove
  <2>2. \A i \in Named(buf) : ~IsAbove(id, b[i].id)
    BY <1>9, <1>12
  <2>3. b[N + 1].id = id
    BY <1>7
  <2> QED BY <1>8, <2>1, <2>2, <2>3
<1>15. \E k \in Openings(b) : b[k].id = u.id
  BY <1>7, <1>8
<1>16. ASSUME NEW k \in Openings(b), b[k].id = u.id PROVE b[k].kind = u.kind /\ Unclosed(b, k)
  <2>1. k = N + 1
    BY <1>7, <1>8, <1>10, <1>12, <1>16
  <2>2. \A j \in Closings(b) : b[j].id # id
    BY <1>7, <1>8, <1>12
  <2> QED BY <1>7, <1>16, <2>1, <2>2 DEF Unclosed
<1>17. u.id[D] < uis[D].next /\ u.id \in Seq(Nat) /\ Len(u.id) = D
  BY <1>6, <1>12
<1>18. Entered(b, uis, u)
  BY <1>13, <1>14, <1>15, <1>16, <1>17 DEF Entered, D
<1>19. AtWork(b, Append(uis, u))
  BY <1>4, <1>11, <1>18, WorkEntered DEF D
<1> QED BY <1>3, <1>19 DEF b, buf

\* A scope that is too deep is entered.
LEMMA DeepPaths ==
  ASSUME PathInv, rec.sdk, ~(Len(rec.uis) - 1 < MaxDepth), NEW u \in Uis, u.id = AutoId, ~u.emit, u.next = 1
  PROVE  AtWork(rec.buf, Append(Salted, u))
<1> DEFINE buf == rec.buf
           D == Len(rec.uis)
           id == AutoId
<1>1. /\ buf \in Seq(Cmds) /\ D \in Nat \ {0} /\ rec.uis[D] = Ui
      /\ Stream(buf) /\ AtWork(buf, rec.uis) /\ Ui.next \in Nat \ {0}
  BY UiAtWork
<1>2. /\ SaltUsed(rec.uis, Salted) /\ Ui.next < Salted[D].next
      /\ Salted \in Seq(Uis) /\ Salted # << >> /\ Len(Salted) = D
  BY SaltedIs
<1>3. GivenNext(buf, rec.uis, Ui.next, id)
  BY <1>1 DEF GivenNext, AutoId
<1> HIDE DEF buf, id
<1>4. IsNew(buf, rec.uis, Ui.next, id)
  BY <1>1, <1>3, NewId, Zenon
<1>5. /\ id \in Seq(Nat) /\ Len(id) = D /\ id[D] = Ui.next
      /\ \A k \in 1..D - 1 : id[k] = rec.uis[D].id[k]
      /\ \A i \in Named(buf) : buf[i].id # id /\ ~IsAbove(id, buf[i].id)
  BY <1>4 DEF IsNew
<1> HIDE DEF D
<1>6. D \in 1..D /\ ~(D <= MaxDepth) /\ MaxDepth \in Nat
  BY <1>1, FramesAssumption DEF D
<1>7. PathToUi(Salted)
  BY <1>1, <1>2, PathAfter DEF AtWork, D
<1>8. \A m \in 1..D :
        /\ Salted[m].id = rec.uis[m].id /\ Salted[m].kind = rec.uis[m].kind
        /\ Salted[m].emit = rec.uis[m].emit
        /\ Salted[m].next \in Nat /\ rec.uis[m].next <= Salted[m].next
  BY <1>2 DEF SaltUsed, D
<1>9. Openings(buf) \subseteq Named(buf)
  BY DEF Openings, Named
<1>10. SaltsLeft(buf, Salted)
  <2> SUFFICES ASSUME NEW i \in Named(buf), NEW m \in 1..D, IsAbove(Salted[m].id, buf[i].id)
      PROVE  buf[i].id[m] < Salted[m].next
    BY <1>2 DEF SaltsLeft
  <2> DEFINE this == buf[i].id
  <2>1. this \in Seq(Nat) /\ Len(this) \in Nat
    BY <1>1 DEF Stream, PathsGiven
  <2>2. IsAbove(rec.uis[m].id, this)
    BY <1>8
  <2>3. this[m] < rec.uis[m].next
    BY <1>1, <2>2 DEF AtWork, SaltsLeft, D
  <2>4. Len(rec.uis[m].id) = m - 1 /\ rec.uis[m].next \in Nat
    BY <1>1 DEF AtWork, PathToUi, D
  <2> HIDE DEF this
  <2>5. m \in 1..Len(this)
    BY <1>1, <2>1, <2>2, <2>4 DEF IsAbove
  <2>6. this[m] \in Nat
    BY <2>1, <2>5
  <2>7. Salted[m].next \in Nat /\ rec.uis[m].next <= Salted[m].next
    BY <1>8
  <2>8. this[m] < Salted[m].next
    BY <2>3, <2>4, <2>6, <2>7
  <2> QED BY <2>8 DEF this
<1>11. UisOpened(buf, Salted)
  <2>1. \A m \in 2..D : m \in 1..D
    BY <1>6
  <2> SUFFICES ASSUME NEW m \in 2..D
      PROVE  /\ Salted[m].emit => \E k \in Openings(buf) : buf[k].id = Salted[m].id
             /\ \A k \in Openings(buf) : buf[k].id = Salted[m].id =>
                  Salted[m].emit /\ buf[k].kind = Salted[m].kind /\ Unclosed(buf, k)
    BY <1>2 DEF UisOpened
  <2>2. /\ rec.uis[m].emit => \E k \in Openings(buf) : buf[k].id = rec.uis[m].id
        /\ \A k \in Openings(buf) : buf[k].id = rec.uis[m].id =>
             rec.uis[m].emit /\ buf[k].kind = rec.uis[m].kind /\ Unclosed(buf, k)
    BY <1>1 DEF AtWork, UisOpened, D
  <2>3. Salted[m].id = rec.uis[m].id /\ Salted[m].kind = rec.uis[m].kind /\ Salted[m].emit = rec.uis[m].emit
    BY <1>8, <2>1
  <2> QED BY <2>2, <2>3
<1>12. ASSUME NEW k \in Openings(buf), Unclosed(buf, k) PROVE \E m \in 2..D : Salted[m].id = buf[k].id
  <2>1. PICK m \in 2..D : rec.uis[m].id = buf[k].id
    BY <1>1, <1>12 DEF AtWork, OpenAreUis, D
  <2>2. m \in 1..D
    BY <1>1
  <2> QED BY <1>8, <2>1, <2>2
<1>13. AtWorkBut(buf, Salted, u.id)
  BY <1>2, <1>7, <1>10, <1>11, <1>12 DEF AtWorkBut
<1>14. /\ u.id = id /\ \A k \in 1..D - 1 : u.id[k] = Salted[D].id[k]
  BY <1>5, <1>6, <1>8 DEF id
<1>15. ~(id[D] = 0)
  BY <1>1, <1>5
<1>16. Entered(buf, Salted, u)
  BY <1>2, <1>5, <1>6, <1>9, <1>14, <1>15 DEF Entered
<1>17. Len(Salted) # 0
  BY <1>1, <1>2
<1> QED BY <1>2, <1>13, <1>16, <1>17, WorkEntered DEF buf

LEMMA ScopePaths ==
  ASSUME PathInv, NEW kind \in {"row", "table", "menu"}, Scope(kind)
  PROVE  PathInv'
<1> DEFINE c == Cmd("begin scope", AutoId, kind)
           u == NewUi(AutoId, kind, Shallow)
           cmds == IF Shallow THEN <<c>> ELSE << >>
           ups == Append(Salted, u)
<1>1. RecType /\ rec.sdk /\ AddCommands(cmds, ups)
  BY DEF PathInv, Scope, Drawing
<1>2. /\ rec.buf \in Seq(Cmds) /\ Len(rec.uis) \in Nat \ {0} /\ rec.uis[Len(rec.uis)] = Ui
      /\ Stream(rec.buf) /\ Ui.next \in Nat \ {0}
  BY <1>1, UiAtWork
<1>3. /\ SaltUsed(rec.uis, Salted) /\ Ui.next < Salted[Len(rec.uis)].next
      /\ Salted \in Seq(Uis)
  BY <1>1, SaltedIs
<1>4. c \in Cmds /\ c.op \in Opening /\ c.id = AutoId /\ c.kind = kind
  BY <1>1, UiIs DEF Cmd, Cmds, Ops, UiKinds, Opening
<1>5. u \in Uis /\ u.emit = Shallow /\ u.id = AutoId /\ u.kind = kind /\ u.next = 1
  <2>1. Shallow \in BOOLEAN
    BY DEF Shallow
  <2> QED BY <1>1, <2>1, UiIs DEF NewUi, Uis, UiKinds
<1>6. kind = "menu" => /\ Len(rec.buf) \in DOMAIN rec.buf /\ rec.buf[Len(rec.buf)].op = "widget"
                       /\ Ui.kind # "table"
  <2>1. kind = "menu" => rec.buf # << >> /\ Last(rec.buf).op = "widget" /\ Ui.kind # "table"
    BY DEF Scope
  <2>2. rec.buf # << >> => Len(rec.buf) \in DOMAIN rec.buf /\ Last(rec.buf) = rec.buf[Len(rec.buf)]
    BY <1>2, EmptySeq DEF Last
  <2> QED BY <2>1, <2>2
<1>7. GivenNext(rec.buf, rec.uis, Ui.next, AutoId)
  BY <1>2 DEF GivenNext, AutoId
<1> HIDE DEF c, u, cmds
<1>8. ups \in Seq(Uis) /\ ups # << >>
  BY <1>3, <1>5
<1>9. cmds \in Seq(Cmds)
  BY <1>4 DEF cmds
<1>10. RecType' /\ rec'.buf = rec.buf \o cmds /\ rec'.uis = ups
  <2> HIDE DEF ups
  <2> QED BY <1>1, <1>8, <1>9, AddIs
<1>11. CASE Shallow
  <2>1. rec.buf \o cmds = Append(rec.buf, c)
    BY <1>2, <1>4, <1>11 DEF cmds
  <2>2. Len(rec.uis) - 1 < MaxDepth
    BY <1>11 DEF Shallow, Depth
  <2>3. c.kind = "menu" => /\ Len(rec.buf) \in DOMAIN rec.buf /\ rec.buf[Len(rec.buf)].op = "widget"
                           /\ Ui.kind # "table" /\ Len(rec.uis) - 1 < MaxDepth
    BY <1>4, <1>6, <2>2
  <2>4. u.emit /\ u.kind = c.kind
    BY <1>4, <1>5, <1>11
  <2>5. Stream(Append(rec.buf, c)) /\ AtWork(Append(rec.buf, c), ups)
    BY <1>1, <1>3, <1>4, <1>5, <1>7, <2>3, <2>4, EnteredPaths
  <2> HIDE DEF ups
  <2> QED BY <1>10, <2>1, <2>5 DEF PathInv
<1>12. CASE ~Shallow
  <2>1. rec.buf \o cmds = rec.buf
    BY <1>2, <1>12 DEF cmds
  <2>2. ~(Len(rec.uis) - 1 < MaxDepth) /\ ~u.emit
    BY <1>5, <1>12 DEF Shallow, Depth
  <2>3. AtWork(rec.buf, ups)
    BY <1>1, <1>5, <2>2, DeepPaths
  <2> HIDE DEF ups
  <2> QED BY <1>2, <1>10, <2>1, <2>3 DEF PathInv
<1> QED BY <1>11, <1>12

LEMMA WindowPaths ==
  ASSUME PathInv, ShowWindow
  PROVE  PathInv'
<1> DEFINE c == Cmd("begin window", WindowId, "window")
           u == NewUi(WindowId, "window", TRUE)
           ups == Append(rec.uis, u)
<1>1. RecType /\ rec.sdk /\ AddCommands(<<c>>, ups) /\ \A i \in DOMAIN rec.buf : rec.buf[i].id # WindowId
  BY DEF PathInv, ShowWindow, Drawing
<1>2. /\ rec.buf \in Seq(Cmds) /\ rec.uis \in Seq(Uis)
      /\ Len(rec.uis) \in Nat \ {0} /\ rec.uis[Len(rec.uis)] = Ui /\ Ui.next \in Nat \ {0}
  BY <1>1, UiAtWork
<1>3. SaltUsed(rec.uis, rec.uis) /\ 0 < rec.uis[Len(rec.uis)].next
  <2>1. \A n \in Nat \ {0} : 0 < n
    OBVIOUS
  <2>2. 0 < Ui.next
    BY <1>2, <2>1
  <2>3. 0 < rec.uis[Len(rec.uis)].next
    BY <1>2, <2>2, Zenon
  <2>4. SaltUsed(rec.uis, rec.uis)
    BY <1>1, SaltedIs
  <2> QED BY <2>3, <2>4
<1>4. c \in Cmds /\ c.op \in Opening /\ c.id = WindowId /\ c.kind = "window"
  BY <1>1, UiIs DEF Cmd, Cmds, Ops, UiKinds, Opening
<1>5. u \in Uis /\ u.emit /\ u.id = WindowId /\ u.kind = "window" /\ u.next = 1
  BY <1>1, UiIs DEF NewUi, Uis, UiKinds
<1>6. GivenNext(rec.buf, rec.uis, 0, WindowId)
  BY <1>1, <1>2 DEF GivenNext, WindowId
<1> HIDE DEF c, u
<1>7. ups \in Seq(Uis) /\ ups # << >>
  BY <1>2, <1>5
<1>8. <<c>> \in Seq(Cmds) /\ rec.buf \o <<c>> = Append(rec.buf, c)
  BY <1>2, <1>4
<1>9. RecType' /\ rec'.buf = Append(rec.buf, c) /\ rec'.uis = ups
  <2> HIDE DEF ups
  <2> QED BY <1>1, <1>7, <1>8, AddIs
<1>10. Stream(Append(rec.buf, c)) /\ AtWork(Append(rec.buf, c), ups)
  <2>1. u.kind = c.kind /\ c.kind # "menu"
    BY <1>4, <1>5
  <2> QED BY <1>1, <1>2, <1>3, <1>4, <1>5, <1>6, <2>1, EnteredPaths
<1> HIDE DEF ups
<1> QED BY <1>9, <1>10 DEF PathInv

LEMMA LeavePaths ==
  ASSUME PathInv, Leave
  PROVE  PathInv'
<1> DEFINE c == Cmd(IF Ui.kind = "window" THEN "end window" ELSE "end scope", Ui.id, Ui.kind)
           b == IF ~Ui.emit THEN rec.buf ELSE Append(rec.buf, c)
           ups == Front(rec.uis)
           D == Len(rec.uis)
<1>1. RecType /\ rec.sdk /\ D - 1 > 0 /\ rec' = [rec EXCEPT !.buf = b, !.uis = ups]
  BY DEF PathInv, Leave, Depth
<1>2. /\ rec.buf \in Seq(Cmds) /\ rec.uis \in Seq(Uis) /\ rec.uis # << >>
      /\ D \in Nat \ {0} /\ rec.uis[D] = Ui /\ Stream(rec.buf) /\ AtWork(rec.buf, rec.uis)
  BY <1>1, UiAtWork
<1>3. 1 < D /\ D \in 2..D
  BY <1>1, <1>2
<1>4. Ui \in Uis
  BY <1>1, UiIs
<1>5. /\ c \in Cmds /\ c.op \in Closing /\ c.op \notin Opening \cup {"widget"} /\ c.id = Ui.id
      /\ c.op \notin Opening
  <2> DEFINE op == IF Ui.kind = "window" THEN "end window" ELSE "end scope"
  <2>1. op \in Closing /\ op \in Ops /\ op \notin Opening \cup {"widget"} /\ op \notin Opening
    BY DEF Ops, Closing, Opening
  <2>2. c = Cmd(op, Ui.id, Ui.kind)
    OBVIOUS
  <2> HIDE DEF op, c
  <2> QED BY <1>4, <2>1, <2>2 DEF Cmd, Cmds, Uis
<1> HIDE DEF c
<1>6. b \in Seq(Cmds)
  BY <1>2, <1>5
<1>7. ups \in Seq(Uis) /\ ups # << >>
  <2>1. Front(rec.uis) \in Seq(Uis) /\ Len(Front(rec.uis)) = D - 1
    BY <1>2, FrontOf
  <2>2. Len(Front(rec.uis)) # 0
    BY <1>2, <1>3, <2>1
  <2> QED BY <2>1, <2>2, EmptySeq
<1>8. Ui.emit => \E k \in Openings(rec.buf) : rec.buf[k].id = c.id
  BY <1>2, <1>3, <1>5 DEF AtWork, UisOpened
<1>9. Stream(b)
  BY <1>2, <1>5, <1>8, StreamOther
<1>10. ScopeLeft(rec.buf, b, Ui)
  <2>1. CASE ~Ui.emit
    BY <2>1 DEF ScopeLeft
  <2>2. CASE Ui.emit
    <3> DEFINE N == Len(rec.buf)
    <3>1. b = Append(rec.buf, c)
      BY <2>2
    <3>2. /\ N \in Nat /\ b[N + 1] = c /\ (\A i \in 1..N : b[i] = rec.buf[i])
          /\ Named(rec.buf) \subseteq 1..N /\ Closings(rec.buf) \subseteq 1..N
          /\ Named(b) = Named(rec.buf) \cup (IF c.op \in Opening \cup {"widget"} THEN {N + 1} ELSE {})
          /\ Openings(b) = Openings(rec.buf) \cup (IF c.op \in Opening THEN {N + 1} ELSE {})
          /\ Closings(b) = Closings(rec.buf) \cup (IF c.op \in Closing THEN {N + 1} ELSE {})
      BY <1>2, <1>5, <3>1, AppendedIs
    <3> HIDE DEF b, N
    <3>3. Named(b) = Named(rec.buf) /\ Openings(b) = Openings(rec.buf)
          /\ Closings(b) = Closings(rec.buf) \cup {N + 1}
      BY <1>5, <3>2
    <3>4. \A j \in Closings(rec.buf) : b[j] = rec.buf[j]
      BY <3>2
    <3> QED BY <1>5, <3>2, <3>3, <3>4 DEF ScopeLeft
  <2> QED BY <2>1, <2>2
<1> HIDE DEF b
<1>11. AtWork(b, ups)
  <2>1. ScopeLeft(rec.buf, b, rec.uis[Len(rec.uis)])
    BY <1>2, <1>10
  <2> QED BY <1>2, <1>3, <2>1, WorkLeft
<1> HIDE DEF ups
<1>12. RecType' /\ rec'.buf = b /\ rec'.uis = ups
  BY <1>1, <1>6, <1>7 DEF RecType, Recs
<1> QED BY <1>9, <1>11, <1>12 DEF PathInv

LEMMA NothingGiven ==
  ASSUME NEW calls \in Apps, NEW frame \in Nat
  PROVE  Stream(NoCalls(calls, frame).buf) /\ AtWork(NoCalls(calls, frame).buf, NoCalls(calls, frame).uis)
<1> DEFINE u == NewUi(Root, "row", FALSE)
           uis == <<u>>
           buf == << >>
<1>1. NoCalls(calls, frame).buf = buf /\ NoCalls(calls, frame).uis = uis
  BY DEF NoCalls
<1>2. u.id = << >> /\ u.next = 1
  BY DEF NewUi, Root
<1> HIDE DEF u
<1>3. Len(uis) = 1 /\ uis[1] = u
  OBVIOUS
<1>4. Named(buf) = {} /\ Openings(buf) = {} /\ Closings(buf) = {}
  BY DEF Named, Openings, Closings
<1>5. Stream(buf)
  BY <1>4 DEF Stream, PathsGiven, PathsNest, MenusPut
<1>6. << >> \in Seq(Nat) /\ Len(<< >>) = 0
  OBVIOUS
<1> HIDE DEF uis, buf
<1>7. PathToUi(uis)
  <2>1. \A m \in 1..1 : m = 1 /\ m - 1 = 0 /\ 1..m - 1 = {}
    OBVIOUS
  <2>2. uis[1].id \in Seq(Nat) /\ Len(uis[1].id) = 0 /\ uis[1].next \in Nat \ {0}
    <3> DEFINE this == uis[1].id
    <3>1. this = << >> /\ uis[1].next = 1
      BY <1>2, <1>3, Zenon
    <3> HIDE DEF this
    <3>2. this \in Seq(Nat) /\ Len(this) = 0
      BY <1>6, <3>1
    <3>3. uis[1].next \in Nat \ {0}
      BY <3>1
    <3> QED BY <3>2, <3>3 DEF this
  <2>3. ASSUME NEW m \in 1..1
        PROVE  /\ uis[m].id \in Seq(Nat) /\ Len(uis[m].id) = m - 1 /\ uis[m].next \in Nat \ {0}
               /\ \A k \in 1..m - 1 : uis[m].id[k] = uis[1].id[k] /\ uis[m].id[k] < uis[k].next
               /\ m # 1 /\ (m - 1 <= MaxDepth \/ uis[m].id[m - 1] = 0) => uis[m].emit
    BY <2>1, <2>2
  <2> QED BY <1>3, <2>3 DEF PathToUi
<1>8. 2..1 = {}
  OBVIOUS
<1>9. AtWork(buf, uis)
  BY <1>3, <1>4, <1>7, <1>8 DEF AtWork, SaltsLeft, UisOpened, OpenAreUis
<1> QED BY <1>1, <1>5, <1>9

LEMMA PathsStep ==
  ASSUME PathInv, [FNext]_fvars
  PROVE  PathInv'
<1>1. ASSUME NEW kind \in {"button", "link"}, Widget(kind) PROVE PathInv'
  BY <1>1, WidgetPaths
<1>2. CASE Separator
  BY <1>2, SeparatorPaths
<1>3. ASSUME NEW kind \in {"row", "table", "menu"}, Scope(kind) PROVE PathInv'
  BY <1>3, ScopePaths
<1>4. CASE ShowWindow
  BY <1>4, WindowPaths
<1>5. CASE Leave
  BY <1>5, LeavePaths
<1>6. ASSUME NEW op \in Opening \cup Closing \cup {"widget"}, NEW id \in RawIds, Raw(op, id)
      PROVE  PathInv'
  <2> DEFINE c == Cmd(op, id, "row")
  <2>1. /\ RecType
        /\ rec' = [rec EXCEPT !.buf = Append(@, c), !.sdk = FALSE, !.calls = @ + 1]
    BY <1>6 DEF PathInv, Raw
  <2>2. c \in Cmds
    BY DEF Cmd, Cmds, Ops, UiKinds
  <2> HIDE DEF c
  <2>3. Append(rec.buf, c) \in Seq(Cmds) /\ rec.calls + 1 \in Nat
    BY <2>1, <2>2 DEF RecType, Recs
  <2>4. RecType' /\ ~rec'.sdk
    BY <2>1, <2>3 DEF RecType, Recs
  <2> QED BY <2>4 DEF PathInv
<1>7. ASSUME NEW traps \in BOOLEAN, NEW at \in {{}} \cup {{id} : id \in Widgets},
             NEW opened \in Widgets \cup {Root}, Frame(traps, at, opened)
      PROVE  PathInv'
  <2>1. RecType /\ rec.frame + 1 \in Nat /\ rec.app \in Apps
    BY DEF PathInv, RecType, Recs
  <2>2. CASE rec' = [rec EXCEPT !.frame = @ + 1]
    <3>1. RecType' /\ rec'.buf = rec.buf /\ rec'.uis = rec.uis /\ rec'.sdk = rec.sdk
      BY <2>1, <2>2 DEF RecType, Recs
    <3> QED BY <3>1 DEF PathInv
  <2>3. CASE rec' = NoCalls(rec.app, rec.frame + 1)
    BY <2>1, <2>3, NoCallsIs, NothingGiven DEF PathInv, RecType
  <2> QED BY <1>7, <2>2, <2>3 DEF Frame
<1>8. CASE UNCHANGED fvars
  BY <1>8 DEF fvars, PathInv, RecType
<1> QED BY <1>1, <1>2, <1>3, <1>4, <1>5, <1>6, <1>7, <1>8 DEF FNext

-----------------------------------------------------------------------------
(* What the SDK records can be drawn, and is drawn as it was recorded.      *)

LEMMA ScopesAreAbove ==
  ASSUME NEW C, NEW buf \in Seq(C), Stream(buf), Validate(buf), NEW closes, closes = MatchScopes(buf)
  PROVE  /\ Paired(buf, closes)
         /\ \A k \in Openings(buf), i \in Named(buf) :
              k \in ScopesAt(buf, closes, i) <=> IsAbove(buf[k].id, buf[i].id)
<1>1. /\ Openings(buf) \subseteq 1..Len(buf) /\ Closings(buf) \subseteq 1..Len(buf) /\ Len(buf) \in Nat
      /\ Openings(buf) \cap Closings(buf) = {}
  BY Kinds
<1>2. PICK m \in Pairings(buf) : \A i \in Openings(buf) : closes[i] = m[i]
  BY AcceptedPairs
<1>3. /\ m \in [Openings(buf) -> Closings(buf)]
      /\ \A j \in Closings(buf) : \E i \in Openings(buf) : m[i] = j
      /\ \A i \in Openings(buf) : i < m[i] /\ Closes(buf[m[i]], buf[i])
      /\ \A i, k \in Openings(buf) : i < k => m[k] < m[i] \/ m[i] < k
  BY <1>2 DEF Pairings
<1>4. \A i \in Openings(buf) : closes[i] \in Closings(buf) /\ i < closes[i] /\ buf[closes[i]].id = buf[i].id
  BY <1>2, <1>3 DEF Closes
<1>5. Paired(buf, closes)
  BY <1>2, <1>3, <1>4 DEF Paired
<1>6. Openings(buf) \subseteq Named(buf) /\ Named(buf) \subseteq 1..Len(buf)
  <2>1. DOMAIN buf = 1..Len(buf)
    OBVIOUS
  <2> QED BY <2>1 DEF Openings, Named
<1>7. ASSUME NEW k \in Openings(buf), NEW j \in Closings(buf), buf[j].id = buf[k].id PROVE j = closes[k]
  <2>1. PICK i \in Openings(buf) : closes[i] = j
    BY <1>2, <1>3
  <2>2. buf[i].id = buf[k].id
    BY <1>4, <1>7, <2>1
  <2>3. i = k
    BY <1>6, <2>2 DEF Stream, PathsGiven
  <2> QED BY <2>1, <2>3
<1>8. ASSUME NEW k \in Openings(buf), NEW i \in Named(buf)
      PROVE  k \in ScopesAt(buf, closes, i) <=> IsAbove(buf[k].id, buf[i].id)
  <2>1. IsAbove(buf[k].id, buf[i].id) <=> k < i /\ \A j \in Closings(buf) : j < i => buf[j].id # buf[k].id
    BY DEF Stream, PathsNest
  <2>2. (\A j \in Closings(buf) : j < i => buf[j].id # buf[k].id) <=> ~(closes[k] < i)
    BY <1>4, <1>7
  <2> DEFINE e == closes[k]
  <2>3. e \in Nat /\ i \in Nat
    BY <1>1, <1>4, <1>6
  <2> HIDE DEF e
  <2>4. ~(e < i) <=> i <= e
    BY <2>3
  <2> QED BY <2>1, <2>2, <2>4 DEF ScopesAt, e
<1> QED BY <1>5, <1>8

LEMMA DrawableIs ==
  ASSUME NEW C, NEW buf \in Seq(C), Stream(buf), Validate(buf), NEW closes, closes = MatchScopes(buf)
  PROVE  Drawable(buf, closes)
<1>1. /\ Paired(buf, closes)
      /\ \A k \in Openings(buf), i \in Named(buf) :
           k \in ScopesAt(buf, closes, i) <=> IsAbove(buf[k].id, buf[i].id)
  BY ScopesAreAbove
<1>2. Openings(buf) \subseteq Named(buf) /\ \A i \in DOMAIN buf : buf[i].op = "widget" => i \in Named(buf)
  BY DEF Openings, Named
<1>3. \A i \in Named(buf) : buf[i].id \in Seq(Nat) /\ Len(buf[i].id) # 0
  BY DEF Stream, PathsGiven
<1>4. \A i \in Named(buf) : buf[i].id # Root
  <2>1. Len(Root) = 0
    BY DEF Root
  <2> QED BY <1>3, <2>1
<1>5. ASSUME NEW k \in Openings(buf), buf[k].kind = "menu"
      PROVE  /\ k - 1 \in DOMAIN buf /\ buf[k - 1].op = "widget"
             /\ \A t \in ScopesAt(buf, closes, k) :
                  buf[t].kind = "table" => \E i \in ScopesAt(buf, closes, k) : t < i
  <2>1. /\ k - 1 \in DOMAIN buf /\ buf[k - 1].op = "widget"
        /\ \A t \in Openings(buf) : IsIn(buf, k, t) => buf[t].kind # "table"
        /\ Len(buf[k].id) = 1 \/ \E t \in Openings(buf) : IsIn(buf, k, t)
    BY <1>5 DEF Stream, MenusPut
  <2>2. ASSUME NEW t \in ScopesAt(buf, closes, k), buf[t].kind = "table"
        PROVE  \E i \in ScopesAt(buf, closes, k) : t < i
    <3> DEFINE it == buf[t].id
               its == buf[k].id
    <3>1. t \in Openings(buf) /\ t \in Named(buf) /\ k \in Named(buf)
      BY <1>2 DEF ScopesAt
    <3>2. /\ IsAbove(it, its) /\ it \in Seq(Nat) /\ its \in Seq(Nat)
          /\ Len(it) \in Nat \ {0} /\ Len(its) \in Nat
      <4>1. it \in Seq(Nat) /\ its \in Seq(Nat) /\ Len(it) # 0
        BY <1>3, <3>1
      <4>2. IsAbove(it, its)
        BY <1>1, <3>1
      <4> HIDE DEF it, its
      <4> QED BY <4>1, <4>2
    <3>3. PICK i \in Openings(buf) : IsIn(buf, k, i)
      <4>1. Len(it) < Len(its)
        BY <3>2 DEF IsAbove
      <4> HIDE DEF it, its
      <4>2. Len(its) # 1
        BY <3>2, <4>1
      <4> QED BY <2>1, <4>2 DEF its
    <3> DEFINE that == buf[i].id
    <3>4. /\ IsAbove(that, its) /\ Len(its) = Len(that) + 1 /\ i \in Named(buf) /\ buf[i].kind # "table"
          /\ that \in Seq(Nat)
      BY <1>2, <1>3, <2>1, <3>3 DEF IsIn
    <3>5. i \in ScopesAt(buf, closes, k)
      BY <1>1, <3>1, <3>4
    <3>6. it # that
      <4>1. it = that => t = i
        BY <3>1, <3>4 DEF Stream, PathsGiven
      <4> QED BY <2>2, <3>4, <4>1
    <3>7. IsAbove(it, that)
      <4> HIDE DEF it, its, that
      <4>1. Len(it) < Len(its) /\ (\A n \in 1..Len(it) : it[n] = its[n])
            /\ \A n \in 1..Len(that) : that[n] = its[n]
        BY <3>2, <3>4 DEF IsAbove
      <4>2. Len(that) \in Nat /\ Len(it) <= Len(that) /\ \A n \in 1..Len(it) : n \in 1..Len(that)
        BY <3>2, <3>4, <4>1
      <4>3. \A n \in 1..Len(it) : it[n] = that[n]
        BY <4>1, <4>2
      <4>4. Len(it) # Len(that)
        BY <3>2, <3>4, <3>6, <4>3, SamePaths
      <4>5. Len(it) < Len(that)
        BY <3>2, <4>2, <4>4
      <4> QED BY <4>3, <4>5 DEF IsAbove
    <3>8. t \in ScopesAt(buf, closes, i)
      BY <1>1, <3>1, <3>4, <3>7
    <3>9. t < i
      BY <3>8 DEF ScopesAt
    <3> QED BY <3>5, <3>9
  <2> QED BY <2>1, <2>2
<1> QED BY <1>1, <1>2, <1>4, <1>5 DEF Drawable

WholeSpan(buf) == [table |-> FALSE, at |-> 1, end |-> Len(buf) + 1, cx |-> NewCx]

LEMMA WholeDrawn ==
  ASSUME NEW C, NEW buf \in Seq(C), NEW closes, Drawable(buf, closes), NEW opened
  PROVE  DrawnTo(buf, closes, opened, Render(buf, closes, opened)[WholeSpan(buf)], Len(buf))
<1> DEFINE s == WholeSpan(buf)
           L == Len(buf)
<1>1. /\ Openings(buf) \subseteq 1..L /\ Closings(buf) \subseteq 1..L /\ L \in Nat
  BY Kinds
<1>2. NewCx \in Cxs(IdsOf(buf))
  <2> DEFINE ids == IdsOf(buf)
             E == [id : ids, within : SUBSET ids]
  <2>1. Root \in ids
    BY DEF IdsOf
  <2>2. << >> \in Seq(E)
    OBVIOUS
  <2> HIDE DEF ids, E
  <2>3. NewCx \in [out : Seq(E), within : SUBSET ids, last : ids, menus : SUBSET (ids \X ids)]
    BY <2>1, <2>2 DEF NewCx
  <2> QED BY <2>3 DEF Cxs, ids, E
<1>3. s \in Spans(buf, closes)
  <2>1. ASSUME NEW i \in 1..(L + 1) - 1, i \in Openings(buf) PROVE closes[i] \in i + 1..(L + 1) - 1
    <3> DEFINE e == closes[i]
    <3>1. e \in 1..L /\ i < e
      BY <1>1, <2>1 DEF Drawable, Paired
    <3> HIDE DEF e
    <3>2. e \in i + 1..(L + 1) - 1
      BY <1>1, <3>1
    <3> QED BY <3>2 DEF e
  <2>2. 1 \in Nat \ {0} /\ L + 1 \in 1..L + 1 /\ FALSE \in BOOLEAN
    BY <1>1
  <2> DEFINE from == 1
             to == L + 1
             byRow == FALSE
             x == NewCx
  <2>3. from \in Nat \ {0} /\ to \in 1..Len(buf) + 1 /\ byRow \in BOOLEAN /\ x \in Cxs(IdsOf(buf))
    BY <1>2, <2>2
  <2>4. \A i \in from..to - 1 : i \in Openings(buf) => closes[i] \in i + 1..to - 1
    BY <2>1
  <2>5. s = [table |-> byRow, at |-> from, end |-> to, cx |-> x]
    BY DEF WholeSpan
  <2> HIDE DEF s, from, to, byRow, x
  <2> QED BY <2>3, <2>4, <2>5, SpanOf
<1>4. ScopesAt(buf, closes, 1) = {}
  <2>1. \A k \in Openings(buf) : ~(k < 1)
    BY <1>1
  <2> QED BY <2>1 DEF ScopesAt
<1>5. DrawnTo(buf, closes, opened, NewCx, 0)
  <2>1. Shown(buf, closes, opened) \subseteq 1..L
    BY PlaceIs
  <2>2. \A i \in Shown(buf, closes, opened) : ~(i <= 0)
    BY <1>1, <2>1
  <2>3. ShownBy(buf, closes, opened, 0) = {}
    BY <2>2 DEF ShownBy
  <2>4. NthDrawn(buf, closes, opened, 0) = 0
    BY <2>3, FS_EmptySet DEF NthDrawn
  <2>5. Len(NewCx.out) = 0 /\ NewCx.menus = {}
    BY DEF NewCx
  <2> QED BY <1>2, <2>2, <2>4, <2>5 DEF DrawnTo
<1>6. s.at = 1 /\ s.end = L + 1 /\ s.cx = NewCx /\ s.table = FALSE
  BY DEF WholeSpan
<1>7. 1 - 1 = 0 /\ 0 \notin DOMAIN buf /\ 1 <= L + 1 /\ (L + 1) - 1 = L
  BY <1>1
<1>8. IdsAt(buf, closes, 1) = {} /\ NewCx.within = {}
  BY <1>4 DEF IdsAt, NewCx
<1> HIDE DEF s, L
<1>9. Ready(buf, closes, opened, s)
  BY <1>3, <1>4, <1>5, <1>6, <1>7, <1>8 DEF Ready
<1>10. DrawnTo(buf, closes, opened, Render(buf, closes, opened)[s], s.end - 1)
  BY <1>9, SpanDrawn
<1> QED BY <1>6, <1>7, <1>10 DEF s, L

LEMMA AboveIs ==
  ASSUME NEW p \in Seq(Nat), NEW id \in Seq(Nat)
  PROVE  p \in Above(id) <=> IsAbove(p, id)
<1>1. Len(p) \in Nat /\ Len(id) \in Nat
  OBVIOUS
<1>2. ASSUME NEW n \in 0..Len(id) - 1
      PROVE  /\ SubSeq(id, 1, n) \in Seq(Nat) /\ Len(SubSeq(id, 1, n)) = n
             /\ \A i \in 1..n : SubSeq(id, 1, n)[i] = id[i]
  <2>1. \A i \in 1..n : id[i] \in Nat /\ 1 + i - 1 = i
    BY <1>1
  <2>2. n \in Int /\ 1 \in Int /\ n \in Nat
    OBVIOUS
  <2>3. /\ SubSeq(id, 1, n) \in Seq(Nat)
        /\ Len(SubSeq(id, 1, n)) = IF 1 <= n THEN n - 1 + 1 ELSE 0
        /\ \A i \in 1..n - 1 + 1 : SubSeq(id, 1, n)[i] = id[1 + i - 1]
    BY <2>1, <2>2, SubSeqProperties
  <2>4. (IF 1 <= n THEN n - 1 + 1 ELSE 0) = n /\ n - 1 + 1 = n
    BY <2>2
  <2> QED BY <2>1, <2>3, <2>4
<1>3. ASSUME p \in Above(id) PROVE IsAbove(p, id)
  <2>1. PICK n \in 0..Len(id) - 1 : p = SubSeq(id, 1, n)
    BY <1>3 DEF Above
  <2>2. Len(p) = n /\ \A i \in 1..n : p[i] = id[i]
    BY <1>2, <2>1
  <2>3. n < Len(id)
    BY <1>1
  <2> QED BY <2>2, <2>3 DEF IsAbove
<1>4. ASSUME IsAbove(p, id) PROVE p \in Above(id)
  <2> DEFINE n == Len(p)
             q == SubSeq(id, 1, n)
  <2>1. n < Len(id) /\ \A i \in 1..n : p[i] = id[i]
    BY <1>4 DEF IsAbove
  <2>2. n \in 0..Len(id) - 1
    BY <1>1, <2>1
  <2>3. q \in Seq(Nat) /\ Len(q) = n /\ \A i \in 1..n : q[i] = id[i]
    BY <1>2, <2>2
  <2> HIDE DEF q
  <2>4. p = q
    BY <2>1, <2>3, SamePaths
  <2> QED BY <2>2, <2>4 DEF Above, q
<1> QED BY <1>3, <1>4

LEMMA DrawnFaithfully ==
  ASSUME PathInv
  PROVE  ReplayFaithful
<1> SUFFICES ASSUME rec.sdk, Validate(rec.buf), NEW opened
    PROVE  LET cx    == Drawn(rec.buf, opened)
               shown == {i \in DOMAIN rec.buf : /\ rec.buf[i].op = "widget"
                                               /\ \A m \in InMenu(rec.buf[i].id) : OwnerOf(m) = opened}
           IN /\ Len(cx.out) = Cardinality(shown)
              /\ \A i \in shown : cx.out[Cardinality({j \in shown : j <= i})] =
                   [id |-> rec.buf[i].id, within |-> Emitted \cap Above(rec.buf[i].id)]
              /\ \A o \in cx.menus : o[2] = OwnerOf(o[1])
  BY DEF ReplayFaithful
<1> DEFINE buf == rec.buf
           closes == MatchScopes(buf)
           cx == Drawn(buf, opened)
           shown == {i \in DOMAIN buf : buf[i].op = "widget" /\ \A m \in InMenu(buf[i].id) : OwnerOf(m) = opened}
<1>1. buf \in Seq(Cmds) /\ Stream(buf) /\ Validate(buf)
  BY UiAtWork
<1>2. cx = Render(buf, closes, opened)[WholeSpan(buf)]
  BY DEF Drawn, WholeSpan
<1>3. Emitted = {buf[i].id : i \in Openings(buf)}
      /\ \A id : InMenu(id) = {buf[i].id : i \in {j \in Openings(buf) : buf[j].kind = "menu"}} \cap Above(id)
  BY DEF Emitted, InMenu
<1>4. \A id : OwnerOf(id) = buf[(CHOOSE i \in Openings(buf) : buf[i].id = id) - 1].id
  BY DEF OwnerOf, Owner
<1> HIDE DEF buf, closes, cx
<1>5. DrawnTo(buf, closes, opened, cx, Len(buf))
  <2>1. Drawable(buf, closes)
    BY <1>1, DrawableIs DEF closes
  <2> QED BY <1>1, <1>2, <2>1, WholeDrawn
<1>6. \A k \in Openings(buf), i \in Named(buf) :
        k \in ScopesAt(buf, closes, i) <=> IsAbove(buf[k].id, buf[i].id)
  BY <1>1, ScopesAreAbove DEF closes
<1>7. Openings(buf) \subseteq Named(buf) /\ \A i \in DOMAIN buf : buf[i].op = "widget" => i \in Named(buf)
  BY DEF Openings, Named
<1>8. /\ \A i \in Named(buf) : buf[i].id \in Seq(Nat)
      /\ \A i, j \in Named(buf) : buf[i].id = buf[j].id => i = j
  BY <1>1 DEF Stream, PathsGiven
<1>9. ASSUME NEW k \in Openings(buf), NEW i \in Named(buf)
      PROVE  buf[k].id \in Above(buf[i].id) <=> k \in ScopesAt(buf, closes, i)
  <2> DEFINE p == buf[k].id
             id == buf[i].id
  <2>1. p \in Seq(Nat) /\ id \in Seq(Nat)
    BY <1>7, <1>8
  <2>2. k \in ScopesAt(buf, closes, i) <=> IsAbove(p, id)
    BY <1>6
  <2> HIDE DEF p, id
  <2>3. p \in Above(id) <=> IsAbove(p, id)
    BY <2>1, AboveIs
  <2> QED BY <2>2, <2>3 DEF p, id
<1>10. ASSUME NEW k \in Openings(buf) PROVE OwnerOf(buf[k].id) = buf[k - 1].id
  <2> DEFINE i == CHOOSE i \in Openings(buf) : buf[i].id = buf[k].id
  <2>1. i \in Openings(buf) /\ buf[i].id = buf[k].id
    OBVIOUS
  <2> HIDE DEF i
  <2>2. i = k
    BY <1>7, <1>8, <2>1
  <2> QED BY <1>4, <2>2 DEF i
<1>11. ASSUME NEW i \in Named(buf)
       PROVE  (\A m \in InMenu(buf[i].id) : OwnerOf(m) = opened)
                <=> \A k \in ScopesAt(buf, closes, i) : MenuOpen(buf, opened, k)
  <2>1. ASSUME \A m \in InMenu(buf[i].id) : OwnerOf(m) = opened, NEW k \in ScopesAt(buf, closes, i),
               buf[k].kind = "menu"
        PROVE  buf[k - 1].id = opened
    <3>1. k \in Openings(buf)
      BY DEF ScopesAt
    <3>2. buf[k].id \in InMenu(buf[i].id)
      BY <1>3, <1>9, <2>1, <3>1
    <3> QED BY <1>10, <2>1, <3>1, <3>2
  <2>2. ASSUME \A k \in ScopesAt(buf, closes, i) : MenuOpen(buf, opened, k), NEW m \in InMenu(buf[i].id)
        PROVE  OwnerOf(m) = opened
    <3>1. PICK k \in Openings(buf) : buf[k].kind = "menu" /\ m = buf[k].id /\ m \in Above(buf[i].id)
      BY <1>3
    <3>2. k \in ScopesAt(buf, closes, i)
      BY <1>9, <3>1
    <3> QED BY <1>10, <2>2, <3>1, <3>2 DEF MenuOpen
  <2> QED BY <2>1, <2>2 DEF MenuOpen
<1>12. shown = Shown(buf, closes, opened)
  BY <1>7, <1>11 DEF Shown
<1> HIDE DEF shown
<1>13. shown \subseteq 1..Len(buf) /\ shown \subseteq Named(buf)
  BY <1>7, <1>12 DEF Shown
<1>14. Len(cx.out) = Cardinality(shown)
  <2>1. \A i \in shown : i <= Len(buf)
    BY <1>13
  <2>2. ShownBy(buf, closes, opened, Len(buf)) = shown
    BY <1>12, <2>1 DEF ShownBy
  <2> QED BY <1>5, <2>2 DEF DrawnTo, NthDrawn
<1>15. ASSUME NEW i \in shown
       PROVE  cx.out[Cardinality({j \in shown : j <= i})] =
                [id |-> buf[i].id, within |-> Emitted \cap Above(buf[i].id)]
  <2>1. NthDrawn(buf, closes, opened, i) = Cardinality({j \in shown : j <= i})
    BY <1>12 DEF NthDrawn, ShownBy
  <2>2. i <= Len(buf) /\ i \in Named(buf)
    BY <1>13
  <2>3. cx.out[NthDrawn(buf, closes, opened, i)] = [id |-> buf[i].id, within |-> IdsAt(buf, closes, i)]
    BY <1>5, <1>12, <2>2 DEF DrawnTo, DrawnAs
  <2>4. IdsAt(buf, closes, i) = Emitted \cap Above(buf[i].id)
    <3>1. ScopesAt(buf, closes, i) \subseteq Openings(buf)
      BY DEF ScopesAt
    <3> QED BY <1>3, <1>9, <2>2, <3>1 DEF IdsAt
  <2> QED BY <2>1, <2>3, <2>4
<1>16. ASSUME NEW o \in cx.menus PROVE o[2] = OwnerOf(o[1])
  <2>1. PICK k \in Openings(buf) : o = <<buf[k].id, buf[k - 1].id>>
    BY <1>5 DEF DrawnTo, MenuOf
  <2> QED BY <1>10, <2>1
<1> QED BY <1>14, <1>15, <1>16 DEF shown, cx, buf

\* What the SDK has recorded of a frame is drawn as it was recorded: each widget
\* once, in that order, in the scopes it was added to; each menu on the widget
\* added just before it, and what is in it only while it is open (ui.rs:
\* Ui::scope; replay.rs: Cx::render).
THEOREM FramesFaithful == FSpec => []ReplayFaithful
<1>1. FInit => PathInv
  BY NoCallsIs, NothingGiven DEF FInit, PathInv, RecType
<1>2. PathInv /\ [FNext]_fvars => PathInv'
  BY PathsStep
<1>3. PathInv => ReplayFaithful
  BY DrawnFaithfully
<1> QED BY <1>1, <1>2, <1>3, PTL DEF FSpec

=============================================================================
