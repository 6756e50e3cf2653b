------------------------------- MODULE Wallet -------------------------------
(***************************************************************************)
(* One user's wallet in the PostgreSQL billing store                       *)
(* (packages/db/src/postgres-billing.ts).  Every operation is one          *)
(* transaction.  grant, reserve, settle and adjust first look their        *)
(* idempotency key up in a plain SELECT and only then wait for the row     *)
(* lock of the wallet, so two transactions may both miss the same key;     *)
(* what is read and written under the lock is one atomic step here.        *)
(*                                                                         *)
(* Credits are integers of the finest unit (1e-7 credit), dollars of the   *)
(* finest dollar unit (1e-10 USD): UsdPerCredit of them make one unit of   *)
(* credit.  A bucket is named by the idempotency key that created it, a    *)
(* reservation by the key that made it.  The ledger keeps its idempotency  *)
(* keys and the running sum of each of its three delta columns.            *)
(***************************************************************************)
EXTENDS CreditDates, Sums

CONSTANTS
  Clients,        \* database connections that run a transaction at a time
  GrantKeys,      \* idempotency keys of grants
  AdjustKeys,     \* idempotency keys of administrator adjustments
  RolloverKeys,   \* idempotency keys of subscription rollovers
  ReserveKeys,    \* idempotency keys of reservations
  SettleKeys,     \* idempotency keys of settlements
  Requests,       \* what callers ask for: grants, adjustments, reservations, settlements
  Rollovers,      \* the rollovers that renewals ask for
  NoRequest,      \* a connection without a transaction
  NoReservation   \* a settlement key not used yet

BucketKeys == GrantKeys \cup AdjustKeys \cup RolloverKeys
UsdPerCredit == 10

Credits == Nat \ {0}

AllRequests ==
  [op : {"grant"}, key : GrantKeys, amount : Credits,
   expires : Times \cup {Never}, cycle : Times \cup {NoCycle}]
  \cup [op : {"adjust"}, key : AdjustKeys, amount : Credits,
        direction : {"credit", "debit"}]
  \cup [op : {"reserve"}, key : ReserveKeys, amount : Credits]
  \cup [op : {"settle"}, key : SettleKeys, reservation : ReserveKeys, billable : Nat]

AllRollovers ==
  [key : RolloverKeys, period : Times, limit : Credits, expires : Times \cup {Never}]

ASSUME ConstantsAssumption ==
  /\ MaxTime \in Nat \ {0}
  /\ \A q \in Requests : q \in AllRequests
  /\ \A r \in Rollovers : r \in AllRollovers
  /\ NoReservation \notin ReserveKeys
  /\ NoRequest \notin Requests
  /\ IsFiniteSet(BucketKeys)

VARIABLES
  wallet,         \* the row of wallets
  buckets,        \* the rows of wallet_buckets
  reservations,   \* the rows of credit_reservations
  settlements,    \* the rows of usage_settlements
  ledgerKeys,     \* idempotency keys of credit_ledger_entries
  ledgerSum,      \* sum of its available, reserved and consumed deltas
  inflight        \* the transaction each connection has begun

tables == <<wallet, buckets, reservations, settlements, ledgerKeys, ledgerSum>>
vars == <<now, tables, inflight>>

NoBucket ==
  [made |-> 0, available |-> 0, reserved |-> 0, expires |-> Never,
   cycle |-> NoCycle]

BucketRow ==
  [made : Nat, available : Nat, reserved : Nat,
   expires : Times \cup {Never}, cycle : Times \cup {NoCycle}]

TypeOK ==
  /\ now \in Times
  /\ wallet \in [available : Nat, reserved : Nat, consumed : Nat]
  /\ buckets \in [BucketKeys -> BucketRow]
  /\ reservations \in [ReserveKeys -> [status : {"none", "RESERVED", "SETTLED"},
                                       amount : Nat, from : [BucketKeys -> Nat]]]
  /\ settlements \in [SettleKeys -> [reservation : ReserveKeys \cup {NoReservation},
                                     settled : Nat, released : Nat]]
  /\ ledgerSum \in [available : Int, reserved : Int, consumed : Int]
  /\ inflight \in [Clients -> Requests \cup {NoRequest}]

Init ==
  /\ now = 1
  /\ wallet = [available |-> 0, reserved |-> 0, consumed |-> 0]
  /\ buckets = [b \in BucketKeys |-> NoBucket]
  /\ reservations = [r \in ReserveKeys |->
       [status |-> "none", amount |-> 0, from |-> [b \in BucketKeys |-> 0]]]
  /\ settlements = [s \in SettleKeys |->
       [reservation |-> NoReservation, settled |-> 0, released |-> 0]]
  /\ ledgerKeys = {}
  /\ ledgerSum = [available |-> 0, reserved |-> 0, consumed |-> 0]
  /\ inflight = [c \in Clients |-> NoRequest]

-----------------------------------------------------------------------------
(* Buckets *)

Exists(b) == buckets[b].made > 0
BucketCount == Cardinality({b \in BucketKeys : Exists(b)})
Expired(b) == buckets[b].expires <= now

\* ORDER BY expires_at NULLS LAST, created_at ASC
Before(b, c) ==
  \/ buckets[b].expires < buckets[c].expires
  \/ buckets[b].expires = buckets[c].expires /\ buckets[b].made < buckets[c].made

\* A bucket row as it is inserted.
NewBucket(amount, expires, cycle) ==
  [made |-> BucketCount + 1, available |-> amount, reserved |-> 0,
   expires |-> expires, cycle |-> cycle]

\* Mutant: SELECT of the buckets without its ORDER BY.
DrawnAnyhow(part, whole, amount) ==
  /\ \A b \in BucketKeys : part[b] <= whole[b]
  /\ Total(part) = amount

\* part takes amount out of whole, emptying each bucket before the next one.
DrawnInOrder(part, whole, amount) ==
  /\ \A b \in BucketKeys : part[b] <= whole[b]
  /\ Total(part) = amount
  /\ \A b, c \in BucketKeys :
       Before(b, c) /\ part[c] > 0 => part[b] = whole[b]

\* The same, from the last bucket to the first.
DrawnInReverse(part, whole, amount) ==
  /\ \A b \in BucketKeys : part[b] <= whole[b]
  /\ Total(part) = amount
  /\ \A b, c \in BucketKeys :
       Before(b, c) /\ part[b] > 0 => part[c] = whole[c]

\* What expireAvailableBuckets takes from each bucket.
Stale == [b \in BucketKeys |-> IF Expired(b) THEN buckets[b].available ELSE 0]
Unlogged(b) == <<"bucket-expiry", b>> \notin ledgerKeys
ExpiryKeys == {<<"bucket-expiry", b>> : b \in {x \in BucketKeys : Stale[x] > 0}}

\* Mutant: expiry takes the credits out of the wallet's row only.
StillInBucket(b) == buckets[b]

\* The row of a bucket once its expired credits are gone.
WithoutStale(b) == [buckets[b] EXCEPT !.available = @ - Stale[b]]

\* Mutant: credits held by a reservation are logged as expired too.
LoggedWithHeld ==
  [b \in BucketKeys |-> IF Unlogged(b) /\ Expired(b)
                          THEN buckets[b].available + buckets[b].reserved ELSE 0]

\* The ledger entry of an expiry is inserted ON CONFLICT DO NOTHING: only the
\* first expiry of a bucket is recorded.
LoggedExpiry == [b \in BucketKeys |-> IF Unlogged(b) THEN Stale[b] ELSE 0]

\* The account once expired credits are gone.
Swept ==
  [available |-> wallet.available - Total(Stale),
   buckets |-> [b \in BucketKeys |-> WithoutStale(b)],
   keys |-> ledgerKeys \cup ExpiryKeys,
   logged |-> Total(LoggedExpiry)]

\* CHECK (available_credits >= 0), CHECK (reserved_credits >= 0), and the parse
\* of every amount as a decimal that is not negative (parseCredits): a
\* transaction that breaks one rolls back.
ChecksHold ==
  /\ wallet'.available \in Nat /\ wallet'.reserved \in Nat /\ wallet'.consumed \in Nat
  /\ \A b \in BucketKeys : buckets'[b].available \in Nat /\ buckets'[b].reserved \in Nat

-----------------------------------------------------------------------------
(* Transactions *)

Entry(q) == <<"entry", q.key>>

\* The SELECT by idempotency key that opens the transaction finds nothing.
KeyUnused(q) ==
  CASE q.op \in {"grant", "adjust"} -> Entry(q) \notin ledgerKeys
    [] q.op = "reserve" -> reservations[q.key].status = "none"
    [] q.op = "settle"  -> settlements[q.key].reservation = NoReservation

\* A transaction that finds its key returns the stored row and changes
\* nothing; one that does not find it goes on to wait for the locks.  Only a
\* reservation that was made has an identifier for a caller to settle.
Begin(c, q) ==
  /\ inflight[c] = NoRequest
  /\ KeyUnused(q)
  /\ q.op = "settle" => reservations[q.reservation].status # "none"
  /\ inflight' = [inflight EXCEPT ![c] = q]
  /\ UNCHANGED <<now, tables>>

\* Any error, a constraint violation included, and a lost connection.
Rollback(c) ==
  /\ inflight[c] # NoRequest
  /\ inflight' = [inflight EXCEPT ![c] = NoRequest]
  /\ UNCHANGED <<now, tables>>

\* COMMIT of a transaction of the kind op.
Commits(c, op) ==
  /\ inflight[c] # NoRequest
  /\ inflight[c].op = op
  /\ inflight' = [inflight EXCEPT ![c] = NoRequest]
  /\ UNCHANGED now

\* grantCredits: no expiry first; the ledger's UNIQUE key is the last guard.
Grant(c) ==
  LET q == inflight[c] IN
  /\ Commits(c, "grant")
  /\ Entry(q) \notin ledgerKeys
  /\ ~Exists(q.key)
  /\ wallet' = [wallet EXCEPT !.available = @ + q.amount]
  /\ buckets' = [buckets EXCEPT ![q.key] = NewBucket(q.amount, q.expires, q.cycle)]
  /\ ledgerKeys' = ledgerKeys \cup {Entry(q)}
  /\ ledgerSum' = [ledgerSum EXCEPT !.available = @ + q.amount]
  /\ UNCHANGED <<reservations, settlements>>
  /\ ChecksHold

\* reserveCredits: expire, compare with the balance, allocate the earliest
\* expiring buckets, move the amount from available to reserved.
Reserve(c) ==
  LET q == inflight[c]
      swept == Swept
      spendable == [b \in BucketKeys |-> swept.buckets[b].available]
  IN
  /\ Commits(c, "reserve")
  /\ reservations[q.key].status = "none"
  /\ Entry(q) \notin swept.keys
  /\ swept.available >= q.amount
  /\ \E from \in [BucketKeys -> 0 .. q.amount] :
       /\ DrawnInOrder(from, spendable, q.amount)
       /\ reservations' = [reservations EXCEPT ![q.key] =
            [status |-> "RESERVED", amount |-> q.amount, from |-> from]]
       /\ buckets' = [b \in BucketKeys |->
            [swept.buckets[b] EXCEPT !.available = @ - from[b],
                                     !.reserved = @ + from[b]]]
  /\ wallet' = [wallet EXCEPT !.available = swept.available - q.amount,
                              !.reserved = @ + q.amount]
  /\ ledgerKeys' = swept.keys \cup {Entry(q)}
  /\ ledgerSum' = [ledgerSum EXCEPT !.available = @ - swept.logged - q.amount,
                                    !.reserved = @ + q.amount]
  /\ UNCHANGED settlements
  /\ ChecksHold

\* creditsFromUsd rounds half up to the unit of credit.
CreditsFromUsd(usd) == (usd + UsdPerCredit \div 2) \div UsdPerCredit

\* Mutant: the status that was read before the reservation was locked.
ChargeableAgain(r, settled) == settled <= reservations[r].amount

\* Read under the lock of the reservation (UNIQUE (reservation_id) of
\* usage_settlements repeats the first half).
Chargeable(r, settled) ==
  /\ reservations[r].status = "RESERVED"
  /\ settled <= reservations[r].amount

\* Mutant: what was consumed stays reserved in its bucket.
ReturnedOnly(b, used, back) ==
  [buckets[b] EXCEPT !.available = @ + back[b], !.reserved = @ - back[b]]

\* The row of a bucket after a settlement that used and gave back so much of it.
Freed(b, used, back) ==
  [buckets[b] EXCEPT !.available = @ + back[b],
                     !.reserved = @ - used[b] - back[b]]

\* settleCredits: locks the reservation and then the wallet, never expires.
\* Consumption comes off the front of the allocations, release off the back.
Settle(c) ==
  LET q == inflight[c]
      reservation == reservations[q.reservation]
      settled == CreditsFromUsd(q.billable)
      released == reservation.amount - settled
  IN
  /\ Commits(c, "settle")
  /\ settlements[q.key].reservation = NoReservation
  /\ Chargeable(q.reservation, settled)
  /\ settlements' = [settlements EXCEPT ![q.key] =
       [reservation |-> q.reservation, settled |-> settled, released |-> released]]
  /\ reservations' = [reservations EXCEPT ![q.reservation].status = "SETTLED"]
  /\ wallet' = [available |-> wallet.available + released,
                reserved  |-> wallet.reserved - settled - released,
                consumed  |-> wallet.consumed + settled]
  /\ \E used \in [BucketKeys -> 0 .. settled] :
       /\ DrawnInOrder(used, reservation.from, settled)
       /\ \E back \in [BucketKeys -> 0 .. released] :
            /\ DrawnInReverse(back, reservation.from, released)
            /\ buckets' = [b \in BucketKeys |-> Freed(b, used, back)]
  /\ ledgerKeys' = ledgerKeys \cup {<<"settlement", q.key>>}
       \cup (IF released = 0 THEN {} ELSE {<<"release", q.key>>})
  /\ ledgerSum' = [available |-> ledgerSum.available + released,
                   reserved  |-> ledgerSum.reserved - settled - released,
                   consumed  |-> ledgerSum.consumed + settled]
  /\ ChecksHold

\* adjustCredits in credit: expire, then a new bucket that never expires.
AdjustUp(c) ==
  LET q == inflight[c]
      swept == Swept
  IN
  /\ Commits(c, "adjust")
  /\ q.direction = "credit"
  /\ Entry(q) \notin swept.keys
  /\ ~Exists(q.key)
  /\ wallet' = [wallet EXCEPT !.available = swept.available + q.amount]
  /\ buckets' = [swept.buckets EXCEPT ![q.key] = NewBucket(q.amount, Never, NoCycle)]
  /\ ledgerKeys' = swept.keys \cup {Entry(q)}
  /\ ledgerSum' = [ledgerSum EXCEPT !.available = @ - swept.logged + q.amount]
  /\ UNCHANGED <<reservations, settlements>>
  /\ ChecksHold

\* adjustCredits in debit: expire, compare, take from the earliest expiring.
AdjustDown(c) ==
  LET q == inflight[c]
      swept == Swept
      spendable == [b \in BucketKeys |-> swept.buckets[b].available]
  IN
  /\ Commits(c, "adjust")
  /\ q.direction = "debit"
  /\ Entry(q) \notin swept.keys
  /\ swept.available >= q.amount
  /\ \E from \in [BucketKeys -> 0 .. q.amount] :
       /\ DrawnInOrder(from, spendable, q.amount)
       /\ buckets' = [b \in BucketKeys |->
            [swept.buckets[b] EXCEPT !.available = @ - from[b]]]
  /\ wallet' = [wallet EXCEPT !.available = swept.available - q.amount]
  /\ ledgerKeys' = swept.keys \cup {Entry(q)}
  /\ ledgerSum' = [ledgerSum EXCEPT !.available = @ - swept.logged - q.amount]
  /\ UNCHANGED <<reservations, settlements>>
  /\ ChecksHold

\* getWallet: the balance query expires buckets as it reads.
ReadBalance ==
  LET swept == Swept IN
  /\ Total(Stale) > 0
  /\ wallet' = [wallet EXCEPT !.available = swept.available]
  /\ buckets' = swept.buckets
  /\ ledgerKeys' = swept.keys
  /\ ledgerSum' = [ledgerSum EXCEPT !.available = @ - swept.logged]
  /\ UNCHANGED <<now, reservations, settlements, inflight>>
  /\ ChecksHold

\* Buckets of an earlier cycle that a rollover into period may draw from.
RolloverSources(period) ==
  {b \in BucketKeys : /\ buckets[b].cycle \notin {NoCycle, period}
                      /\ buckets[b].available > 0
                      /\ buckets[b].expires >= period}

\* ORDER BY plan_cycle DESC, created_at DESC
Newest(S) ==
  CHOOSE b \in S : \A c \in S \ {b} :
    \/ buckets[b].cycle > buckets[c].cycle
    \/ buckets[b].cycle = buckets[c].cycle /\ buckets[b].made > buckets[c].made

\* rolloverSubscriptionCredits: under the wallet lock from its first read.  It
\* moves at most limit of the newest source into a bucket of the new cycle, and
\* leaves no trace when there is nothing to move.
Rollover(r) ==
  /\ ~Exists(r.key)
  /\ RolloverSources(r.period) # {}
  /\ LET source == Newest(RolloverSources(r.period))
         moved == IF buckets[source].available < r.limit
                    THEN buckets[source].available ELSE r.limit
     IN buckets' = [buckets EXCEPT ![source].available = @ - moved,
                                   ![r.key] = NewBucket(moved, r.expires, r.period)]
  /\ ledgerKeys' = ledgerKeys \cup {<<"source", r.key>>, <<"target", r.key>>}
  /\ UNCHANGED <<now, wallet, reservations, settlements, ledgerSum, inflight>>
  /\ ChecksHold

Tick ==
  /\ now < MaxTime
  /\ now' = now + 1
  /\ UNCHANGED <<tables, inflight>>

Next ==
  \/ \E c \in Clients :
       \/ \E q \in Requests : Begin(c, q)
       \/ Rollback(c)
       \/ Grant(c)
       \/ Reserve(c)
       \/ Settle(c)
       \/ AdjustUp(c)
       \/ AdjustDown(c)
  \/ ReadBalance
  \/ \E r \in Rollovers : Rollover(r)
  \/ Tick

Spec == Init /\ [][Next]_vars

-----------------------------------------------------------------------------
(* Properties *)

Open(r) == reservations[r].status = "RESERVED"

\* The columns that the balances are the sums of, and what is held of them.
Available == [b \in BucketKeys |-> buckets[b].available]
Reserved == [b \in BucketKeys |-> buckets[b].reserved]
HeldFrom(b) == [r \in ReserveKeys |-> IF Open(r) THEN reservations[r].from[b] ELSE 0]
Held == [r \in ReserveKeys |-> IF Open(r) THEN reservations[r].amount ELSE 0]

\* A bucket's reserved_credits and the wallet's are what the open reservations
\* hold, bucket by bucket: no interleaving of reserve, settle, expiry and
\* rollover strands a held credit or frees it twice (settleCredits,
\* reserveCredits).
HeldByOpenReservations ==
  /\ \A b \in BucketKeys : buckets[b].reserved = Total(HeldFrom(b))
  /\ wallet.reserved = Total(Held)

\* The two balances the store keeps, of the wallet and of its buckets, agree
\* after every commit: a balance never shows a credit that no bucket can pay.
BucketsBackWallet ==
  /\ wallet.available = Total(Available)
  /\ wallet.reserved = Total(Reserved)

\* A reservation is charged by at most one settlement, by exactly one once it
\* is SETTLED, and what was charged and what was given back make up what was
\* reserved, whatever keys concurrent settlements use (settleCredits).
SettledOnce ==
  /\ \A s, t \in SettleKeys :
       settlements[s].reservation = settlements[t].reservation =>
         s = t \/ settlements[s].reservation = NoReservation
  /\ \A r \in ReserveKeys : reservations[r].status = "SETTLED" <=>
       \E s \in SettleKeys : settlements[s].reservation = r
  /\ \A s \in SettleKeys : settlements[s].reservation # NoReservation =>
       settlements[s].settled + settlements[s].released
         = reservations[settlements[s].reservation].amount

\* Every credit of the wallet is in the reserved and consumed columns of the
\* ledger, and the ledger never shows less available than the wallet holds.
LedgerCoversWallet ==
  /\ ledgerSum.reserved = wallet.reserved
  /\ ledgerSum.consumed = wallet.consumed
  /\ ledgerSum.available >= wallet.available

\* A reservation never holds credits of a bucket that had expired, nor of one
\* while a bucket that expires sooner still has credits to give.
SoonestUnexpiredFirst ==
  [][\A r \in ReserveKeys : reservations[r].status = "none" /\ Open(r)' =>
       \A b \in BucketKeys : reservations'[r].from[b] > 0 =>
         /\ ~Expired(b)
         /\ \A x \in BucketKeys : Before(x, b) => buckets'[x].available = 0]_vars

\* The store implements the account its owner was promised.
Account == INSTANCE CreditAccount WITH
  Holds <- ReserveKeys,
  free <- wallet.available,
  held <- wallet.reserved,
  spent <- wallet.consumed,
  hold <- [r \in ReserveKeys |->
             [status |-> CASE reservations[r].status = "none" -> "none"
                           [] reservations[r].status = "RESERVED" -> "open"
                           [] reservations[r].status = "SETTLED" -> "closed",
              amount |-> reservations[r].amount]]

ImplementsAccount == Account!Spec
=============================================================================
