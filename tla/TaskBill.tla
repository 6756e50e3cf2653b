------------------------------ MODULE TaskBill ------------------------------
(***************************************************************************)
(* What a user may expect of the bill for a task, stated without desktops, *)
(* routes, retries or transactions.  Usage is recorded and never taken     *)
(* back.  Once a task is over, what is recorded by then is due.  A task is *)
(* charged at most once, after it is over, for all that is due, for        *)
(* nothing that is not recorded as its own, and within its ceiling.        *)
(***************************************************************************)
EXTENDS Naturals

CONSTANTS
  Tasks,
  Usage,               \* identities of the pieces of usage
  TaskOf,              \* [Usage -> Tasks]
  Ceiling              \* [Tasks -> Nat], what the user agreed to

VARIABLES
  recorded,            \* the usage recorded
  due,                 \* [Tasks -> SUBSET Usage], what must be charged
  over,                \* the tasks that are over
  bill                 \* [Tasks -> [charged, usage, amount]]

account == <<recorded, due, over, bill>>

Unbilled == [charged |-> FALSE, usage |-> {}, amount |-> 0]

Of(t) == {u \in recorded : TaskOf[u] = t}

Init ==
  /\ recorded = {}
  /\ due = [t \in Tasks |-> {}]
  /\ over = {}
  /\ bill = [t \in Tasks |-> Unbilled]

Record(u) ==
  /\ u \notin recorded
  /\ recorded' = recorded \cup {u}
  /\ UNCHANGED <<due, over, bill>>

Finish(t) ==
  /\ t \notin over
  /\ over' = over \cup {t}
  /\ due' = [due EXCEPT ![t] = Of(t)]
  /\ UNCHANGED <<recorded, bill>>

Charge(t) ==
  /\ t \in over
  /\ ~bill[t].charged
  /\ bill'[t].charged
  /\ due[t] \subseteq bill'[t].usage
  /\ bill'[t].usage \subseteq Of(t)
  /\ bill'[t].amount <= Ceiling[t]
  /\ bill' = [bill EXCEPT ![t] = bill'[t]]
  /\ UNCHANGED <<recorded, due, over>>

Next ==
  \/ \E u \in Usage : Record(u)
  \/ \E t \in Tasks : Finish(t) \/ Charge(t)

Spec == Init /\ [][Next]_account
=============================================================================
