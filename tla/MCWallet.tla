------------------------------ MODULE MCWallet ------------------------------
(***************************************************************************)
(* A wallet small enough for TLC: a monthly grant that expires and a       *)
(* top-up that does not, an adjustment either way, a renewal with a        *)
(* rollover, two reservations that together exceed the balance, and two    *)
(* settlement keys that may both name the same reservation.                *)
(***************************************************************************)
EXTENDS Wallet, TLC

MCRequests ==
  {[op |-> "grant", key |-> "monthly", amount |-> 5, expires |-> 2, cycle |-> 1],
   [op |-> "grant", key |-> "topup", amount |-> 1, expires |-> Never, cycle |-> NoCycle]}
  \cup [op : {"adjust"}, key : {"adjust"}, amount : {1}, direction : {"credit", "debit"}]
  \cup [op : {"reserve"}, key : {"r1"}, amount : {2}]
  \cup [op : {"reserve"}, key : {"r2"}, amount : {3}]
  \cup [op : {"settle"}, key : {"s1"}, reservation : {"r1"}, billable : {14, 35}]
  \cup [op : {"settle"}, key : {"s2"}, reservation : {"r1", "r2"}, billable : {0}]

MCRollovers == [key : {"renewal"}, period : {2}, limit : {2}, expires : {3}]

ConnectionSymmetry == Permutations(Clients)
=============================================================================
