---------------------------- MODULE PendingTable ----------------------------
(***************************************************************************)
(* The shell's pending-call table (ccosel-transport, struct Transport) as a *)
(* value, and its methods as operators from a table to a table.  The       *)
(* modules that run a table (Transport, RpcSystem) give it a clock, a wire  *)
(* and windows.                                                            *)
(*                                                                         *)
(* A request is one (method, args) pair, so the Rust maps keyed by         *)
(* (method, args) are keyed by a request here.  A group is the set of its  *)
(* members: a Vec that held a key twice would behave the same, since       *)
(* completing a key removes its entry.  A deadline is kept as the time     *)
(* left until it.  An entry also carries the number `no' of the call it    *)
(* stands for and its request, which the code does not store: they are     *)
(* what the properties are stated with, and no operator branches on them.  *)
(***************************************************************************)
EXTENDS Naturals

CONSTANTS
  Windows,   \* the instances that make calls, the shell itself among them
  CallIds,   \* the ids an instance may give its calls
  Requests,  \* the (method, args) pairs
  Merged,    \* the requests policy() lets identical calls share (ByArgs)
  Patience,  \* policy()'s deadline for each request, in ticks
  MaxCalls   \* bound on the calls of one run

ASSUME PolicyAssumption ==
  /\ Merged \subseteq Requests
  /\ Patience \in [Requests -> Nat]
  /\ MaxCalls \in Nat

Key    == Windows \X CallIds
\* A call opens at most one request, so MaxCalls bounds next_seq as well: the
\* u32 of the code wraps only after 2^32 requests of one page.
CallNo == 1..MaxCalls

Entry    == [no: CallNo, req: Requests, left: Nat]
Outgoing == [seq: Nat, req: Requests]

EmptyTable ==
  [entries |-> [k \in {} |-> 0],  \* PendingKey -> Entry
   groups  |-> [s \in {} |-> {}], \* wire sequence number -> members
   byArgs  |-> [r \in {} |-> 0],  \* merged request -> its live group
   argsOf  |-> [s \in {} |-> 0],  \* the reverse of byArgs
   staged  |-> {},                \* requests waiting for the next flush
   nextSeq |-> 0]

Live(t) == DOMAIN t.entries

\* The function f without the arguments in S, and f extended or changed at x.
Except(f, S)   == [x \in DOMAIN f \ S |-> f[x]]
With(f, x, y)  == [z \in DOMAIN f \cup {x} |-> IF z = x THEN y ELSE f[z]]

\* The table without the groups in S: resolving or emptying a group clears
\* both directions of the argument index.
DropGroups(t, S) ==
  [entries |-> t.entries,
   groups  |-> Except(t.groups, S),
   byArgs  |-> Except(t.byArgs, {t.argsOf[s] : s \in S \cap DOMAIN t.argsOf}),
   argsOf  |-> Except(t.argsOf, S),
   staged  |-> t.staged,
   nextSeq |-> t.nextSeq]

\* Remove the entries of K, each one detached from its group; a group left
\* empty goes with its index entries and, if not yet flushed, its request.
Emptied(t, K) == {s \in DOMAIN t.groups : t.groups[s] \subseteq K}
Without(t, K) ==
  LET d == DropGroups(t, Emptied(t, K))
  IN [entries |-> Except(t.entries, K),
      groups  |-> [s \in DOMAIN d.groups |-> d.groups[s] \ K],
      byArgs  |-> d.byArgs,
      argsOf  |-> d.argsOf,
      staged  |-> {o \in t.staged : o.seq \notin Emptied(t, K)},
      nextSeq |-> t.nextSeq]

\* Whether a call for r joins a request that is already staged or in flight.
Joins(t, r) ==
  /\ r \in Merged
  /\ r \in DOMAIN t.byArgs
  /\ t.byArgs[r] \in DOMAIN t.groups

\* Mutant: the sequence number is used before it is advanced, so it starts at 0.
InsertPostIncrement(t, k, n, r) ==
  [entries |-> With(t.entries, k, [no |-> n, req |-> r, left |-> Patience[r]]),
   groups  |-> With(t.groups, t.nextSeq, {k}),
   byArgs  |-> IF r \in Merged THEN With(t.byArgs, r, t.nextSeq) ELSE t.byArgs,
   argsOf  |-> IF r \in Merged THEN With(t.argsOf, t.nextSeq, r) ELSE t.argsOf,
   staged  |-> t.staged \cup {[seq |-> t.nextSeq, req |-> r]},
   nextSeq |-> t.nextSeq + 1]

\* Insert the entry for call n, and join a group or open one with a request.
Insert(t, k, n, r) ==
  LET entry  == [no |-> n, req |-> r, left |-> Patience[r]]
      joined == t.byArgs[r]
      seq    == t.nextSeq + 1
  IN IF Joins(t, r)
     THEN [entries |-> With(t.entries, k, entry),
           groups  |-> With(t.groups, joined, t.groups[joined] \cup {k}),
           byArgs  |-> t.byArgs,
           argsOf  |-> t.argsOf,
           staged  |-> t.staged,
           nextSeq |-> t.nextSeq]
     ELSE [entries |-> With(t.entries, k, entry),
           groups  |-> With(t.groups, seq, {k}),
           byArgs  |-> IF r \in Merged THEN With(t.byArgs, r, seq) ELSE t.byArgs,
           argsOf  |-> IF r \in Merged THEN With(t.argsOf, seq, r) ELSE t.argsOf,
           staged  |-> t.staged \cup {[seq |-> seq, req |-> r]},
           nextSeq |-> seq]

\* A repeat of a live key retires the old call first.
EnqueueIn(t, k, n, r) ==
  Insert(IF k \in Live(t) THEN Without(t, {k}) ELSE t, k, n, r)

FlushIn(t) ==
  [entries |-> t.entries, groups |-> t.groups, byArgs |-> t.byArgs,
   argsOf |-> t.argsOf, staged |-> {}, nextSeq |-> t.nextSeq]

KeysOf(t, w) == {k \in Live(t) : k[1] = w}

\* The callers waiting on the requests S.
Members(t, S) == UNION {t.groups[s] : s \in S \cap DOMAIN t.groups}

\* Mutant: complete() looks the entry up without removing it.
ResolveKeepsEntries(t, S) == DropGroups(t, S)

\* Replies for the requests S have come: their groups are taken out and every
\* member completed.
ResolveIn(t, S) == Without(DropGroups(t, S), Members(t, S))

\* One tick of time: every deadline is closer.
Sooner(e) == [no |-> e.no, req |-> e.req,
              left |-> IF e.left = 0 THEN 0 ELSE e.left - 1]
ElapseIn(t) ==
  [entries |-> [k \in Live(t) |-> Sooner(t.entries[k])],
   groups |-> t.groups, byArgs |-> t.byArgs, argsOf |-> t.argsOf,
   staged |-> t.staged, nextSeq |-> t.nextSeq]

Overdue(t) == {k \in Live(t) : t.entries[k].left = 0}

-----------------------------------------------------------------------------
(* What a table must satisfy between two calls of its methods.             *)

TableType(t) ==
  /\ t = [entries |-> t.entries, groups |-> t.groups, byArgs |-> t.byArgs,
          argsOf |-> t.argsOf, staged |-> t.staged, nextSeq |-> t.nextSeq]
  /\ Live(t) \subseteq Key
  /\ t.entries \in [Live(t) -> Entry]
  /\ DOMAIN t.groups \subseteq 1..t.nextSeq
  /\ t.groups \in [DOMAIN t.groups -> SUBSET Key]
  /\ DOMAIN t.byArgs \subseteq Merged
  /\ t.byArgs \in [DOMAIN t.byArgs -> Nat]
  /\ DOMAIN t.argsOf \subseteq 1..t.nextSeq
  /\ t.argsOf \in [DOMAIN t.argsOf -> Requests]
  /\ t.staged \subseteq Outgoing
  /\ t.nextSeq \in Nat

\* Every live call waits in exactly one group, and a group has someone
\* waiting: otherwise a reply would find nobody, or a call no reply.
GroupsPartition(t) ==
  /\ \A s \in DOMAIN t.groups : t.groups[s] # {} /\ t.groups[s] \subseteq Live(t)
  /\ \A k \in Live(t) : \E s \in DOMAIN t.groups : k \in t.groups[s]
  /\ \A s1, s2 \in DOMAIN t.groups : \A k \in t.groups[s1] :
        k \in t.groups[s2] => s1 = s2

\* by_args and args_of are each other's inverse and name live groups only.
IndexExact(t) ==
  /\ DOMAIN t.argsOf \subseteq DOMAIN t.groups
  /\ \A s \in DOMAIN t.argsOf :
        t.argsOf[s] \in DOMAIN t.byArgs /\ t.byArgs[t.argsOf[s]] = s
  /\ \A r \in DOMAIN t.byArgs :
        t.byArgs[r] \in DOMAIN t.argsOf /\ t.argsOf[t.byArgs[r]] = r

\* The callers of one request asked for the same thing, and a request that
\* must not be merged has one caller.
GroupsAgree(t) ==
  /\ \A s \in DOMAIN t.groups : \A k1, k2 \in t.groups[s] :
        t.entries[k1].req = t.entries[k2].req
  /\ \A s \in DOMAIN t.argsOf : \A k \in t.groups[s] :
        t.entries[k].req = t.argsOf[s]
  /\ \A s \in DOMAIN t.groups \ DOMAIN t.argsOf : \A k1, k2 \in t.groups[s] :
        k1 = k2
  /\ \A s \in DOMAIN t.groups \ DOMAIN t.argsOf : \A k \in t.groups[s] :
        t.entries[k].req \notin Merged

\* A staged request is one somebody waits for, and asks for what they asked.
StagedWanted(t) ==
  \A o \in t.staged :
    /\ o.seq \in DOMAIN t.groups
    /\ \A k \in t.groups[o.seq] : t.entries[k].req = o.req

\* With the requests `out' on the wire, a call in the table has its request
\* staged or on the wire: none waits for a request that was never sent, or
\* whose reply has been taken already.
Served(t, out) ==
  \A s \in DOMAIN t.groups : \E o \in t.staged \cup out :
    o.seq = s /\ \A k \in t.groups[s] : t.entries[k].req = o.req

\* No sequence number is used twice, and no request is sent twice.
SentOnce(t, out) ==
  /\ \A o \in t.staged \cup out : o.seq <= t.nextSeq
  /\ \A o1, o2 \in t.staged \cup out : o1.seq = o2.seq => o1 = o2
  /\ t.staged \cap out = {}

\* Of the calls 1..n made, each one is under one key at most.
NumbersUnique(t, n) ==
  /\ \A k \in Live(t) : t.entries[k].no <= n
  /\ \A j, k \in Live(t) : t.entries[j].no = t.entries[k].no => j = k

TableOK(t) ==
  /\ TableType(t)
  /\ GroupsPartition(t)
  /\ IndexExact(t)
  /\ GroupsAgree(t)
  /\ StagedWanted(t)

TableServed(t, out) == TableOK(t) /\ SentOnce(t, out) /\ Served(t, out)
=============================================================================
