-------------------------- MODULE MCPaymentWebhook --------------------------
(* One organization whose owner subscribes for two periods and buys a top-up. *)
EXTENDS PaymentWebhook

CONSTANTS r1, r2, s1, s2, h1, h2

Event(type, at, org) ==
  [type |-> type, at |-> at, org |-> org, payment |-> "p", topUp |-> FALSE]
Charge_(at, org) == [Event("subscription.charged", at, org) EXCEPT !.payment = <<"p1", "p2">>[at]]
TopUp(org) == [Event("payment.captured", 1, org) EXCEPT !.topUp = TRUE]
Reserve_(r, n) == [op |-> "reserve", key |-> r, amount |-> n]
Settle_(s, r, n) == [op |-> "settle", key |-> s, reservation |-> r, settled |-> n]

\* Two reservations draw on a top-up and on a period's credits.
Spending ==
  [events |-> {Charge_(1, TRUE), TopUp(TRUE)}, faults |-> 0,
   tasks |-> {Reserve_(r1, 1), Reserve_(r1, 3), Reserve_(r2, 1), Reserve_(r2, 2),
              Settle_(s1, r1, 1), Settle_(s2, r1, 1), Settle_(s2, r2, 0)}]

\* A renewal while a task holds credits.
Renewing ==
  [events |-> {Charge_(1, TRUE), Charge_(2, TRUE)}, faults |-> 0,
   tasks |-> {Reserve_(r1, 2), Settle_(s1, r1, 1)}]

\* The subscription of an organization begins, fails and ends.
Lifecycle ==
  [events |-> {Charge_(1, TRUE), Event("subscription.halted", 2, TRUE),
               Event("subscription.activated", 1, TRUE)},
   tasks |-> {}, faults |-> 1]

\* The subscription of a single user.
Personal ==
  [events |-> {Event("subscription.authenticated", 1, FALSE), Charge_(1, FALSE),
               Event("subscription.cancelled", 2, FALSE)},
   tasks |-> {}, faults |-> 1]

\* The payments of a single user.
Paying_ ==
  [events |-> {TopUp(FALSE), Event("payment.failed", 1, FALSE),
               Event("subscription.completed", 1, FALSE), Event("refund.created", 2, FALSE)},
   tasks |-> {}, faults |-> 1]

mcScenarios == {Spending, Renewing, Lifecycle, Personal, Paying_}
mcBucketKeys ==
  {<<"cycle", 1>>, <<"cycle", 2>>, <<"rollover", 1>>, <<"rollover", 2>>, <<"topup", "p">>}
=============================================================================
