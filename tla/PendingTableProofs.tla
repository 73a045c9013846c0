------------------------- MODULE PendingTableProofs -------------------------
(***************************************************************************)
(* What the methods of the pending-call table keep, for any table: its     *)
(* type, its consistency, and with the wire, that each caller is served.   *)
(***************************************************************************)
EXTENDS PendingTable, TLAPS

(* A table keeps its type, consistent or not.                              *)
LEMMA WithoutType ==
  ASSUME NEW t, TableType(t), NEW K
  PROVE  TableType(Without(t, K))
  BY Zenon DEF TableType, Without, DropGroups, Emptied, Live, Except

LEMMA ResolveType ==
  ASSUME NEW t, TableType(t), NEW S
  PROVE  TableType(ResolveIn(t, S))
<1>1. TableType(DropGroups(t, S))
  BY DEF TableType, DropGroups, Live, Except
<1> QED
  BY <1>1, WithoutType DEF ResolveIn

LEMMA InsertType ==
  ASSUME NEW t, TableType(t), NEW k \in Key, NEW n \in CallNo, NEW r \in Requests
  PROVE  TableType(Insert(t, k, n, r))
<1> USE PolicyAssumption DEF Live, With
<1>1. CASE Joins(t, r)
  BY <1>1 DEF TableType, Insert, Joins, Entry
<1>2. CASE ~Joins(t, r)
  BY <1>2 DEF TableType, Insert, Entry, Outgoing
<1> QED
  BY <1>1, <1>2

LEMMA EnqueueType ==
  ASSUME NEW t, TableType(t), NEW k \in Key, NEW n \in CallNo, NEW r \in Requests
  PROVE  TableType(EnqueueIn(t, k, n, r))
  BY WithoutType, InsertType DEF EnqueueIn

LEMMA FlushType ==
  ASSUME NEW t, TableType(t)
  PROVE  TableType(FlushIn(t))
  BY DEF FlushIn, TableType, Live

LEMMA ElapseType ==
  ASSUME NEW t, TableType(t)
  PROVE  TableType(ElapseIn(t))
<1> DEFINE e == [k \in Live(t) |-> Sooner(t.entries[k])]
<1>1. e \in [Live(t) -> Entry] /\ DOMAIN e = Live(t)
  BY DEF TableType, Entry, Sooner
<1> HIDE DEF e
<1>2. ElapseIn(t) = [entries |-> e, groups |-> t.groups, byArgs |-> t.byArgs,
                     argsOf |-> t.argsOf, staged |-> t.staged, nextSeq |-> t.nextSeq]
  BY DEF ElapseIn, e
<1> QED
  BY <1>1, <1>2 DEF TableType, Live

-----------------------------------------------------------------------------
(* Taking callers out of a consistent table leaves it consistent.          *)
LEMMA WithoutOK ==
  ASSUME NEW t, TableOK(t), NEW K
  PROVE  TableOK(Without(t, K))
<1> DEFINE u == Without(t, K)
<1> USE DEF Live, Except
<1>1. TableType(u)
  BY Zenon DEF TableOK, TableType, Without, DropGroups, Emptied
<1>2. GroupsPartition(u)
  BY DEF TableOK, TableType, GroupsPartition, Without, DropGroups, Emptied
<1>3. IndexExact(u)
  BY DEF TableOK, TableType, IndexExact, Without, DropGroups, Emptied
<1>4. GroupsAgree(u)
  <2>1. \A s \in DOMAIN u.groups : s \in DOMAIN t.groups /\ u.groups[s] = t.groups[s] \ K
    BY DEF TableOK, TableType, Without, DropGroups
  <2>2. \A s \in DOMAIN u.groups : \A k \in u.groups[s] : u.entries[k] = t.entries[k]
    <3>1. \A k \in DOMAIN t.entries \ K : u.entries[k] = t.entries[k]
      BY DEF Without
    <3>2. \A s \in DOMAIN t.groups : t.groups[s] \subseteq DOMAIN t.entries
      BY DEF TableOK, GroupsPartition
    <3> QED
      BY <2>1, <3>1, <3>2
  <2>3. \A s \in DOMAIN u.groups : s \in DOMAIN t.argsOf => s \in DOMAIN u.argsOf
    BY <2>1 DEF TableOK, TableType, Without, DropGroups, Emptied
  <2>4. \A s \in DOMAIN u.argsOf :
          s \in DOMAIN u.groups /\ s \in DOMAIN t.argsOf /\ u.argsOf[s] = t.argsOf[s]
    BY DEF TableOK, TableType, GroupsPartition, IndexExact, Without, DropGroups, Emptied
  <2> QED
    BY <2>1, <2>2, <2>3, <2>4 DEF TableOK, GroupsAgree
<1>5. StagedWanted(u)
  BY DEF TableOK, TableType, GroupsPartition, StagedWanted, Without, DropGroups, Emptied
<1> QED
  BY <1>1, <1>2, <1>3, <1>4, <1>5 DEF TableOK

(* A new call, joining or opening a request, keeps the table consistent.   *)
LEMMA InsertOK ==
  ASSUME NEW t, TableOK(t), NEW k \in Key \ Live(t), NEW n \in CallNo, NEW r \in Requests
  PROVE  TableOK(Insert(t, k, n, r))
<1> DEFINE u == Insert(t, k, n, r)
<1> USE PolicyAssumption DEF Live, With
<1>1. CASE Joins(t, r)
  <2> USE <1>1
  <2>1. TableType(u)
    BY DEF TableOK, TableType, Insert, Joins, Entry
  <2>2. GroupsPartition(u)
    <3>1. \A s \in DOMAIN u.groups : u.groups[s] # {} /\ u.groups[s] \subseteq Live(u)
      BY DEF TableOK, TableType, GroupsPartition, Insert, Joins
    <3>2. \A j \in Live(u) : \E s \in DOMAIN u.groups : j \in u.groups[s]
      BY DEF TableOK, TableType, GroupsPartition, Insert, Joins
    <3>3. \A s \in DOMAIN t.groups : k \notin t.groups[s]
      BY DEF TableOK, TableType, GroupsPartition
    <3>4. \A s1, s2 \in DOMAIN u.groups : \A j \in u.groups[s1] : j \in u.groups[s2] => s1 = s2
      BY <3>3 DEF TableOK, TableType, GroupsPartition, Insert, Joins
    <3> QED
      BY <3>1, <3>2, <3>4 DEF GroupsPartition
  <2>3. IndexExact(u)
    BY DEF TableOK, TableType, IndexExact, Insert, Joins
  <2>4. GroupsAgree(u)
    BY DEF TableOK, TableType, GroupsPartition, IndexExact, GroupsAgree, Insert, Joins
  <2>5. StagedWanted(u)
    BY DEF TableOK, TableType, GroupsPartition, IndexExact, GroupsAgree, StagedWanted, Insert, Joins
  <2> QED
    BY <2>1, <2>2, <2>3, <2>4, <2>5 DEF TableOK
<1>2. CASE ~Joins(t, r)
  <2> USE <1>2
  <2>1. TableType(u)
    BY DEF TableOK, TableType, Insert, Entry, Outgoing
  <2>2. GroupsPartition(u)
    <3>1. \A s \in DOMAIN u.groups : u.groups[s] # {} /\ u.groups[s] \subseteq Live(u)
      BY DEF TableOK, TableType, GroupsPartition, Insert
    <3>2. \A j \in Live(u) : \E s \in DOMAIN u.groups : j \in u.groups[s]
      <4>1. t.nextSeq + 1 \notin DOMAIN t.groups
        BY DEF TableOK, TableType
      <4> QED
        BY <4>1 DEF TableOK, TableType, GroupsPartition, Insert
    <3>3. \A s \in DOMAIN t.groups : k \notin t.groups[s]
      BY DEF TableOK, TableType, GroupsPartition
    <3>4. \A s1, s2 \in DOMAIN u.groups : \A j \in u.groups[s1] : j \in u.groups[s2] => s1 = s2
      BY <3>3 DEF TableOK, TableType, GroupsPartition, Insert
    <3> QED
      BY <3>1, <3>2, <3>4 DEF GroupsPartition
  <2>3. IndexExact(u)
    BY DEF TableOK, TableType, IndexExact, GroupsPartition, Insert, Joins
  <2>4. GroupsAgree(u)
    BY DEF TableOK, TableType, GroupsPartition, IndexExact, GroupsAgree, Insert
  <2>5. StagedWanted(u)
    BY DEF TableOK, TableType, GroupsPartition, StagedWanted, Insert
  <2> QED
    BY <2>1, <2>2, <2>3, <2>4, <2>5 DEF TableOK
<1> QED
  BY <1>1, <1>2

(* Replies take out the groups they answer, and no other.                  *)
LEMMA ResolveFields ==
  ASSUME NEW t, TableOK(t), NEW S
  PROVE  ResolveIn(t, S) =
           [entries |-> Except(t.entries, Members(t, S)),
            groups  |-> Except(t.groups, S),
            byArgs  |-> Except(t.byArgs, {t.argsOf[s] : s \in S \cap DOMAIN t.argsOf}),
            argsOf  |-> Except(t.argsOf, S),
            staged  |-> t.staged,
            nextSeq |-> t.nextSeq]
<1> DEFINE K == Members(t, S)
           u == ResolveIn(t, S)
<1> USE DEF Live, Except
<1>1. \A s \in DOMAIN t.groups \ S : t.groups[s] # {} /\ t.groups[s] \cap K = {}
  BY DEF TableOK, TableType, GroupsPartition, Members
<1>2. Emptied(DropGroups(t, S), K) = {}
  BY <1>1 DEF Emptied, DropGroups
<1>3. u.groups = Except(t.groups, S)
  BY <1>1, <1>2 DEF ResolveIn, Without, DropGroups, TableOK, TableType
<1>4. u.byArgs = Except(t.byArgs, {t.argsOf[s] : s \in S \cap DOMAIN t.argsOf})
  BY <1>2 DEF ResolveIn, Without, DropGroups, TableOK, TableType
<1>5. u.argsOf = Except(t.argsOf, S)
  BY <1>2 DEF ResolveIn, Without, DropGroups, TableOK, TableType
<1>6. u.staged = t.staged
  BY <1>2 DEF ResolveIn, Without, DropGroups
<1> QED
  BY <1>3, <1>4, <1>5, <1>6 DEF ResolveIn, Without, DropGroups

(* Taking in the replies to some flushed requests keeps it consistent.     *)
LEMMA ResolveOK ==
  ASSUME NEW t, TableOK(t), NEW S, \A o \in t.staged : o.seq \notin S
  PROVE  TableOK(ResolveIn(t, S))
<1> DEFINE K == Members(t, S)
           u == ResolveIn(t, S)
<1> USE DEF Live, Except
<1>1. \A s \in DOMAIN t.groups \ S : t.groups[s] # {} /\ t.groups[s] \cap K = {}
  BY DEF TableOK, TableType, GroupsPartition, Members
<1>3. u = [entries |-> Except(t.entries, K),
           groups  |-> Except(t.groups, S),
           byArgs  |-> Except(t.byArgs, {t.argsOf[s] : s \in S \cap DOMAIN t.argsOf}),
           argsOf  |-> Except(t.argsOf, S),
           staged  |-> t.staged,
           nextSeq |-> t.nextSeq]
  BY ResolveFields
<1> HIDE DEF u
<1>4. TableType(u)
  BY <1>3 DEF TableOK, TableType
<1>5. GroupsPartition(u)
  BY <1>1, <1>3 DEF TableOK, TableType, GroupsPartition, Members
<1>6. IndexExact(u)
  BY <1>3 DEF TableOK, TableType, IndexExact
<1>7. GroupsAgree(u)
  BY <1>1, <1>3 DEF TableOK, TableType, GroupsPartition, IndexExact, GroupsAgree
<1>8. StagedWanted(u)
  BY <1>1, <1>3 DEF TableOK, TableType, GroupsPartition, StagedWanted
<1> QED
  BY <1>4, <1>5, <1>6, <1>7, <1>8 DEF TableOK, u

(* A flush and the passing of time keep it consistent.                     *)
LEMMA FlushOK ==
  ASSUME NEW t, TableOK(t)
  PROVE  TableOK(FlushIn(t))
  BY DEF FlushIn, TableOK, TableType, GroupsPartition, IndexExact, GroupsAgree, StagedWanted, Live

LEMMA ElapseOK ==
  ASSUME NEW t, TableOK(t)
  PROVE  TableOK(ElapseIn(t))
<1> DEFINE e == [k \in Live(t) |-> Sooner(t.entries[k])]
           u == ElapseIn(t)
<1>1. u = [entries |-> e, groups |-> t.groups, byArgs |-> t.byArgs,
           argsOf |-> t.argsOf, staged |-> t.staged, nextSeq |-> t.nextSeq]
  BY DEF ElapseIn
<1>2. /\ e \in [Live(t) -> Entry]
      /\ \A k \in Live(t) : e[k].req = t.entries[k].req
  BY DEF TableOK, TableType, Entry, Live, Sooner
<1> HIDE DEF e
<1>3. TableType(u)
  BY <1>1, <1>2 DEF TableOK, TableType, Live
<1>4. GroupsPartition(u) /\ IndexExact(u)
  BY <1>1, <1>2 DEF TableOK, GroupsPartition, IndexExact, Live
<1>5. GroupsAgree(u)
  BY <1>1, <1>2 DEF TableOK, GroupsPartition, IndexExact, GroupsAgree, Live
<1>6. StagedWanted(u)
  BY <1>1, <1>2 DEF TableOK, GroupsPartition, StagedWanted, Live
<1> QED
  BY <1>3, <1>4, <1>5, <1>6 DEF TableOK

-----------------------------------------------------------------------------
(* With the wire: requests and the callers they serve.                     *)

LEMMA WithoutServed ==
  ASSUME NEW t, NEW out, TableServed(t, out), NEW K
  PROVE  TableServed(Without(t, K), out)
<1> DEFINE u == Without(t, K)
<1>1. TableOK(t) /\ TableOK(u)
  BY WithoutOK DEF TableServed
<1>2. /\ Live(u) = Live(t) \ K
      /\ \A k \in Live(u) : u.entries[k] = t.entries[k]
      /\ u.staged = {o \in t.staged : o.seq \notin Emptied(t, K)}
      /\ u.nextSeq = t.nextSeq
      /\ DOMAIN u.groups = DOMAIN t.groups \ Emptied(t, K)
      /\ \A s \in DOMAIN u.groups : u.groups[s] = t.groups[s] \ K
  BY DEF Without, DropGroups, Except, Live
<1> HIDE DEF u
<1>3. SentOnce(u, out)
  BY <1>2 DEF TableServed, SentOnce
<1>4. ASSUME NEW s \in DOMAIN u.groups
      PROVE  \E o \in u.staged \cup out :
                o.seq = s /\ \A k \in u.groups[s] : u.entries[k].req = o.req
  <2>1. PICK o \in t.staged \cup out :
           o.seq = s /\ \A k \in t.groups[s] : t.entries[k].req = o.req
    BY <1>2 DEF TableServed, Served
  <2>2. u.groups[s] \subseteq Live(u)
    BY <1>1 DEF TableOK, GroupsPartition
  <2> QED
    BY <2>1, <2>2, <1>2
<1> QED
  BY <1>1, <1>3, <1>4 DEF TableServed, Served, u

LEMMA InsertServed ==
  ASSUME NEW t, NEW out, TableServed(t, out), \A o \in out : o \in Outgoing,
         NEW k \in Key \ Live(t), NEW n \in CallNo, NEW r \in Requests
  PROVE  TableServed(Insert(t, k, n, r), out)
<1> DEFINE u == Insert(t, k, n, r)
           e == [no |-> n, req |-> r, left |-> Patience[r]]
<1>1. TableOK(t) /\ TableOK(u)
  BY InsertOK DEF TableServed
<1>2. u.entries = With(t.entries, k, e)
  BY DEF Insert
<1>3. \A s \in DOMAIN t.groups : \A j \in t.groups[s] : u.entries[j] = t.entries[j]
  BY <1>1, <1>2 DEF TableOK, GroupsPartition, With, Live
<1>4. CASE Joins(t, r)
  <2>1. /\ u.staged = t.staged
        /\ u.nextSeq = t.nextSeq
        /\ u.groups = With(t.groups, t.byArgs[r], t.groups[t.byArgs[r]] \cup {k})
    BY <1>4 DEF Insert
  <2> HIDE DEF u
  <2>2. ASSUME NEW s \in DOMAIN u.groups
        PROVE  \E o \in u.staged \cup out :
                  o.seq = s /\ \A j \in u.groups[s] : u.entries[j].req = o.req
    <3>1. s \in DOMAIN t.groups /\ t.groups[s] \subseteq u.groups[s]
      BY <2>1, <1>4 DEF Joins, With
    <3>2. PICK o \in t.staged \cup out :
             o.seq = s /\ \A j \in t.groups[s] : t.entries[j].req = o.req
      BY <3>1 DEF TableServed, Served
    <3>3. PICK i \in t.groups[s] : TRUE
      BY <3>1, <1>1 DEF TableOK, GroupsPartition
    <3>4. \A j \in u.groups[s] : u.entries[j].req = u.entries[i].req
      BY <3>1, <3>3, <1>1 DEF TableOK, GroupsAgree
    <3> QED
      BY <3>1, <3>2, <3>3, <3>4, <1>3, <2>1
  <2> QED
    BY <1>1, <2>1, <2>2 DEF TableServed, SentOnce, Served, u
<1>5. CASE ~Joins(t, r)
  <2> DEFINE new == [seq |-> t.nextSeq + 1, req |-> r]
  <2>1. /\ u.staged = t.staged \cup {new}
        /\ u.nextSeq = t.nextSeq + 1
        /\ u.groups = With(t.groups, t.nextSeq + 1, {k})
    BY <1>5 DEF Insert
  <2> HIDE DEF u
  <2>2. \A o \in t.staged \cup out : o.seq # t.nextSeq + 1 /\ o.seq <= t.nextSeq /\ o.seq \in Nat
    BY <1>1 DEF TableServed, SentOnce, TableOK, TableType, Outgoing
  <2>3. SentOnce(u, out)
    BY <2>1, <2>2, <1>1 DEF TableServed, SentOnce, TableOK, TableType
  <2>4. ASSUME NEW s \in DOMAIN u.groups
        PROVE  \E o \in u.staged \cup out :
                  o.seq = s /\ \A j \in u.groups[s] : u.entries[j].req = o.req
    <3>1. CASE s = t.nextSeq + 1
      <4>1. new \in u.staged \cup out /\ new.seq = s
        BY <3>1, <2>1
      <4>2. u.groups[s] = {k}
        BY <3>1, <2>1 DEF With
      <4>3. u.entries[k] = e
        BY <1>2 DEF With
      <4> QED
        BY <4>1, <4>2, <4>3
    <3>2. CASE s # t.nextSeq + 1
      <4>1. s \in DOMAIN t.groups /\ u.groups[s] = t.groups[s]
        BY <3>2, <2>1 DEF With
      <4> QED
        BY <4>1, <1>3, <2>1 DEF TableServed, Served
    <3> QED
      BY <3>1, <3>2
  <2> QED
    BY <1>1, <2>3, <2>4 DEF TableServed, Served, u
<1> QED
  BY <1>4, <1>5

LEMMA ResolveServed ==
  ASSUME NEW t, NEW out, TableServed(t, out), NEW replies, replies \subseteq out
  PROVE  TableServed(ResolveIn(t, {o.seq : o \in replies}), out \ replies)
<1> DEFINE S == {o.seq : o \in replies}
           u == ResolveIn(t, S)
<1>1. \A o \in t.staged : o.seq \notin S
  BY DEF TableServed, SentOnce
<1>2. TableOK(t) /\ TableOK(u)
  BY <1>1, ResolveOK DEF TableServed
<1>3. /\ u.staged = t.staged /\ u.nextSeq = t.nextSeq
      /\ u.groups = Except(t.groups, S)
      /\ u.entries = Except(t.entries, Members(t, S))
  <2>1. u = [entries |-> Except(t.entries, Members(t, S)),
             groups  |-> Except(t.groups, S),
             byArgs  |-> Except(t.byArgs, {t.argsOf[s] : s \in S \cap DOMAIN t.argsOf}),
             argsOf  |-> Except(t.argsOf, S),
             staged  |-> t.staged,
             nextSeq |-> t.nextSeq]
    BY <1>2, ResolveFields
  <2> HIDE DEF u
  <2> QED
    BY <2>1
<1> HIDE DEF u
<1>4. SentOnce(u, out \ replies)
  BY <1>3 DEF TableServed, SentOnce
<1>5. ASSUME NEW s \in DOMAIN u.groups
      PROVE  \E o \in u.staged \cup (out \ replies) :
                o.seq = s /\ \A k \in u.groups[s] : u.entries[k].req = o.req
  <2>1. s \in DOMAIN t.groups /\ s \notin S /\ u.groups[s] = t.groups[s]
    BY <1>3 DEF Except
  <2>2. PICK o \in t.staged \cup out :
           o.seq = s /\ \A k \in t.groups[s] : t.entries[k].req = o.req
    BY <2>1 DEF TableServed, Served
  <2>3. o \notin replies
    BY <2>1, <2>2
  <2>4. \A k \in u.groups[s] : u.entries[k] = t.entries[k]
    BY <1>2, <1>3 DEF TableOK, GroupsPartition, Except, Live
  <2> QED
    BY <2>1, <2>2, <2>3, <2>4, <1>3
<1> QED
  BY <1>2, <1>4, <1>5 DEF TableServed, Served, u

LEMMA FlushServed ==
  ASSUME NEW t, NEW out, TableServed(t, out)
  PROVE  TableServed(FlushIn(t), out \cup t.staged)
  BY FlushOK DEF TableServed, SentOnce, Served, FlushIn

LEMMA ElapseServed ==
  ASSUME NEW t, NEW out, TableServed(t, out)
  PROVE  TableServed(ElapseIn(t), out)
<1> DEFINE u == ElapseIn(t)
<1>1. TableOK(t) /\ TableOK(u)
  BY ElapseOK DEF TableServed
<1>2. /\ u.staged = t.staged /\ u.nextSeq = t.nextSeq /\ u.groups = t.groups
      /\ \A k \in Live(t) : u.entries[k].req = t.entries[k].req
  BY DEF ElapseIn, Sooner
<1> HIDE DEF u
<1>3. \A s \in DOMAIN t.groups : t.groups[s] \subseteq Live(t)
  BY <1>1 DEF TableOK, GroupsPartition
<1> QED
  BY <1>1, <1>2, <1>3 DEF TableServed, SentOnce, Served, u
=============================================================================
