--------------------------- MODULE CreditAccount ---------------------------
(***************************************************************************)
(* What a credit wallet promises its owner, stated without buckets,        *)
(* ledgers, keys or transactions.  Credits are free, held for a task, or   *)
(* spent.  A hold is opened at most once, is closed at most once, and      *)
(* spends at most what was held; the rest becomes free again.  Nothing     *)
(* else moves credits, so a hold is never spent twice and never lost.      *)
(***************************************************************************)
EXTENDS Naturals

CONSTANT Holds            \* identities of holds, one per task reservation

VARIABLES
  free,                   \* credits that may still be held
  held,                   \* credits held by open holds
  spent,                  \* credits spent for good
  hold                    \* [Holds -> [status, amount]]

account == <<free, held, spent, hold>>

Init ==
  /\ free = 0
  /\ held = 0
  /\ spent = 0
  /\ hold = [h \in Holds |-> [status |-> "none", amount |-> 0]]

\* Credits are added: a grant, a purchase, an adjustment in credit.
Deposit ==
  /\ free' > free
  /\ UNCHANGED <<held, spent, hold>>

\* Credits are written off: a bucket expires, an adjustment in debit.
WriteOff ==
  /\ free' < free
  /\ UNCHANGED <<held, spent, hold>>

\* A hold is opened for some amount; credits found expired are written off
\* in the same step, so free may fall by more than is held.
Open(h) ==
  /\ hold[h].status = "none"
  /\ hold'[h].status = "open"
  /\ hold' = [hold EXCEPT ![h] = hold'[h]]
  /\ held' = held + hold'[h].amount
  /\ free' <= free - hold'[h].amount
  /\ free' >= 0
  /\ UNCHANGED spent

\* A hold is closed: part of it is spent, the rest is free again.
Close(h) ==
  /\ hold[h].status = "open"
  /\ hold' = [hold EXCEPT ![h].status = "closed"]
  /\ held' = held - hold[h].amount
  /\ spent' >= spent
  /\ spent' - spent <= hold[h].amount
  /\ free' + spent' = free + spent + hold[h].amount

Next ==
  \/ Deposit
  \/ WriteOff
  \/ \E h \in Holds : Open(h) \/ Close(h)

Spec == Init /\ [][Next]_account
=============================================================================
