----------------------------- MODULE CallLedger -----------------------------
(***************************************************************************)
(* What the shell promises about calls (crate docs of ccosel-transport, and *)
(* rpc_error in ccosel-abi): every call made ends in exactly one terminal   *)
(* event, or was taken back and hears nothing, and no call waits forever.   *)
(* The transport implements this; see TransportPromise there.              *)
(***************************************************************************)
EXTENDS Naturals

CONSTANT Calls

VARIABLES
  state, \* where each call is in its life
  told   \* how many events it has had

ledger == <<state, told>>

States == {"unmade", "pending", "answered", "dropped"}

Init ==
  /\ state = [n \in Calls |-> "unmade"]
  /\ told = [n \in Calls |-> 0]

Waiting == {n \in Calls : state[n] = "pending"}

\* One event for each call of A, none for those of D; N are new calls.
Step(N, A, D) ==
  /\ state' = [n \in Calls |-> IF n \in N THEN "pending"
                              ELSE IF n \in A THEN "answered"
                              ELSE IF n \in D THEN "dropped" ELSE state[n]]
  /\ told' = [n \in Calls |-> IF n \in A THEN told[n] + 1 ELSE told[n]]

\* A call is made, perhaps superseding one that used its id.
Make(n) ==
  /\ state[n] = "unmade"
  /\ \E A \in {{}} \cup {{m} : m \in Waiting} : Step({n}, A, {})

\* Some calls, n among them, are answered and some dropped together.
SettleCall(n) ==
  /\ n \in Waiting
  /\ \E A \in SUBSET Waiting : \E D \in SUBSET (Waiting \ A) :
        n \in A \cup D /\ Step({}, A, D)

Next == \E n \in Calls : Make(n) \/ SettleCall(n)

Safety == Init /\ [][Next]_ledger
Spec   == Safety /\ \A n \in Calls : WF_ledger(SettleCall(n))
=============================================================================
