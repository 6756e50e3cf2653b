-------------------------- MODULE OrganizationPool --------------------------
(***************************************************************************)
(* The pooled wallet of an organization as the in-memory store keeps it    *)
(* (packages/billing/src/organization-memory.ts): no transactions and no   *)
(* reserved column, each operation runs to its end before the next.  The   *)
(* PostgreSQL store promises its callers the same.                         *)
(*                                                                         *)
(* A bucket is named by the idempotency key that made it.  The ledger is   *)
(* the set of its entries: the key and the three deltas.                   *)
(***************************************************************************)
EXTENDS CreditDates, BucketDraw

CONSTANTS
  BucketKeys,     \* idempotency keys of grants and rollovers
  ReserveKeys,
  SettleKeys,
  Requests,       \* what callers ask for: records with an op and the key it uses
  Legacy,         \* credits from before there were buckets
  NoReservation

VARIABLES wallet, buckets, reservations, settlements, ledger

pool == <<wallet, buckets, reservations, settlements, ledger>>

Entry(key, available, reserved, consumed) ==
  [key |-> key, available |-> available, reserved |-> reserved, consumed |-> consumed]

Init ==
  /\ now = 1
  /\ wallet = [available |-> Legacy, reserved |-> 0, consumed |-> 0]
  /\ buckets = [b \in BucketKeys |->
       [made |-> 0, remaining |-> 0, expires |-> Never, cycle |-> NoCycle]]
  /\ reservations = [r \in ReserveKeys |->
       [status |-> "none", amount |-> 0, settled |-> 0, from |-> [b \in BucketKeys |-> 0]]]
  /\ settlements = [s \in SettleKeys |-> NoReservation]
  /\ ledger = IF Legacy = 0 THEN {} ELSE {Entry(<<"legacy", 0>>, Legacy, 0, 0)}

Exists(b) == buckets[b].made > 0
Count == Cardinality({b \in BucketKeys : Exists(b)})
NewBucket(amount, expires, cycle) ==
  [made |-> Count + 1, remaining |-> amount, expires |-> expires, cycle |-> cycle]

Stale == [b \in BucketKeys |-> IF buckets[b].expires <= now THEN buckets[b].remaining ELSE 0]

\* One entry for each bucket, ever.
Expiries ==
  {Entry(<<"expiry", b>>, -Stale[b], 0, 0) :
     b \in {x \in BucketKeys : /\ Stale[x] > 0
                               /\ \A e \in ledger : e.key # <<"expiry", x>>}}

\* getWallet and listBuckets write expired credits off as they read.
Read ==
  /\ wallet' = [wallet EXCEPT !.available = @ - Total(Stale)]
  /\ buckets' = [b \in BucketKeys |-> [buckets[b] EXCEPT !.remaining = @ - Stale[b]]]
  /\ ledger' = ledger \cup Expiries
  /\ UNCHANGED <<now, reservations, settlements>>

Grant(q) ==
  /\ ~Exists(q.key)
  /\ wallet' = [wallet EXCEPT !.available = @ + q.amount]
  /\ buckets' = [buckets EXCEPT ![q.key] = NewBucket(q.amount, q.expires, q.cycle)]
  /\ ledger' = ledger \cup {Entry(<<"entry", q.key>>, q.amount, 0, 0)}
  /\ UNCHANGED <<now, reservations, settlements>>

\* Credits that no bucket holds are reserved when no bucket has any to give
\* (in this store, which starts without such credits, when there is no bucket).
Reserve(q) ==
  LET spendable == [b \in BucketKeys |-> buckets[b].remaining - Stale[b]]
      from == Drawn(buckets, spendable, q.amount)
  IN
  /\ reservations[q.key].status = "none"
  /\ wallet.available - Total(Stale) >= q.amount
  /\ Total(spendable) > 0 => Total(from) = q.amount
  /\ reservations' = [reservations EXCEPT ![q.key] =
       [status |-> "RESERVED", amount |-> q.amount, settled |-> 0, from |-> from]]
  /\ buckets' = [b \in BucketKeys |->
       [buckets[b] EXCEPT !.remaining = spendable[b] - from[b]]]
  /\ wallet' = [wallet EXCEPT !.available = @ - Total(Stale) - q.amount,
                              !.reserved = @ + q.amount]
  /\ ledger' = ledger \cup Expiries
       \cup {Entry(<<"entry", q.key>>, -q.amount, q.amount, 0)}
  /\ UNCHANGED <<now, settlements>>

Settle(q) ==
  LET reservation == reservations[q.reservation]
      released == reservation.amount - q.settled
      back == GivenBack(buckets, reservation.from, released)
  IN
  /\ settlements[q.key] = NoReservation
  /\ reservation.status = "RESERVED"
  /\ q.settled <= reservation.amount
  /\ settlements' = [settlements EXCEPT ![q.key] = q.reservation]
  /\ reservations' = [reservations EXCEPT ![q.reservation].status = "SETTLED",
                                          ![q.reservation].settled = q.settled]
  /\ wallet' = [available |-> wallet.available + released,
                reserved |-> wallet.reserved - q.settled - released,
                consumed |-> wallet.consumed + q.settled]
  /\ buckets' = [b \in BucketKeys |-> [buckets[b] EXCEPT !.remaining = @ + back[b]]]
  /\ ledger' = ledger \cup {Entry(<<"settlement", q.key>>, 0, -q.settled, q.settled)}
       \cup (IF released = 0 THEN {} ELSE {Entry(<<"release", q.key>>, released, -released, 0)})
  /\ UNCHANGED now

\* Subscription credits of another cycle that are not expired at the new one.
Sources(period) ==
  {b \in BucketKeys : /\ buckets[b].cycle \notin {NoCycle, period}
                      /\ buckets[b].remaining > 0
                      /\ buckets[b].expires >= period}

\* At most limit moves from a bucket of the newest cycle.  The stores differ
\* twice and both choices are allowed here: between two buckets of that cycle
\* this one takes the first made and PostgreSQL the last, and this one also
\* remembers the key of a rollover that found nothing to move.
Rollover(q) ==
  /\ ~Exists(q.key)
  /\ \E source \in Sources(q.period) :
       LET moved == Within(q.limit, buckets[source].remaining) IN
       /\ \A b \in Sources(q.period) : buckets[b].cycle <= buckets[source].cycle
       /\ buckets' = [buckets EXCEPT ![source].remaining = @ - moved,
                                     ![q.key] = NewBucket(moved, q.expires, q.period)]
       /\ ledger' = ledger \cup {Entry(<<"source", q.key>>, -moved, 0, 0),
                                 Entry(<<"target", q.key>>, moved, 0, 0)}
  /\ UNCHANGED <<now, wallet, reservations, settlements>>

Tick ==
  /\ now < MaxTime
  /\ now' = now + 1
  /\ UNCHANGED pool

Next ==
  \/ Read
  \/ Tick
  \/ \E q \in Requests :
       \/ q.op = "grant" /\ Grant(q)
       \/ q.op = "reserve" /\ Reserve(q)
       \/ q.op = "settle" /\ Settle(q)
       \/ q.op = "rollover" /\ Rollover(q)
=============================================================================
