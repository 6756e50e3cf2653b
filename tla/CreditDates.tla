---------------------------- MODULE CreditDates ----------------------------
(***************************************************************************)
(* When credits expire: the clock of the database, the expires_at and the  *)
(* plan_cycle of a bucket, in the stores of users and of organizations.    *)
(***************************************************************************)
EXTENDS Naturals

CONSTANT MaxTime            \* bound: the clock runs from 1 to MaxTime

VARIABLE now                \* the clock that expires_at is compared with

Times == 1 .. MaxTime
Never == MaxTime + 1        \* expires_at IS NULL: after every other bucket
NoCycle == 0                \* plan_cycle IS NULL: not a subscription's credits
=============================================================================
