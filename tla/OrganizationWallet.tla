------------------------- MODULE OrganizationWallet -------------------------
(***************************************************************************)
(* The wallet of one organization in PostgreSQL                            *)
(* (packages/db/src/postgres-organization-billing.ts).  Each operation is  *)
(* a transaction.  grant, reserve and settle lock the wallet's row, so     *)
(* they run one after the other; a rollover locks only the buckets it      *)
(* reads.  A reservation that waits for one of those buckets goes on with  *)
(* the rows its statement had found before: a bucket that the rollover has *)
(* made is not among them.                                                 *)
(*                                                                         *)
(* Two history variables: raced, a reservation has missed such a bucket;   *)
(* refused, the settlements that a CHECK has undone although the           *)
(* reservation was open and large enough.                                  *)
(***************************************************************************)
EXTENDS CreditDates, BucketDraw

CONSTANTS
  OrgBucketKeys,  \* idempotency keys of grants and rollovers
  OrgReserveKeys, \* of reservations
  OrgSettleKeys,  \* of settlements
  Legacy,         \* the balance that migration 0011 has taken over, in no bucket
  NoOrgReservation,
  Nobody          \* nobody holds the lock of the wallet's row

WalletConstants ==
  /\ MaxTime \in Nat \ {0}
  /\ Legacy \in Nat
  /\ IsFiniteSet(OrgBucketKeys) /\ IsFiniteSet(OrgReserveKeys)
  /\ NoOrgReservation \notin OrgReserveKeys

ASSUME WalletAssumption == WalletConstants

VARIABLES
  orgWallet,      \* the row of organization_wallets
  orgBuckets,     \* organization_wallet_buckets
  orgReservations, \* organization_credit_reservations
  orgSettlements, \* the reservation of each row of organization_usage_settlements
  ledger,         \* organization_credit_ledger_entries
  holder,         \* the reservation that has the wallet's lock, and the buckets it finds
  raced, refused

account == <<orgWallet, orgBuckets, orgReservations, orgSettlements, ledger>>
walletVars == <<account, holder, raced, refused>>

LedgerEntry(key, available, reserved, consumed) ==
  [key |-> key, available |-> available, reserved |-> reserved, consumed |-> consumed]

\* The wallet that ensureWallet inserts; the migration inserts one for an
\* organization with credits.
NoCredits == [available |-> 0, reserved |-> 0, consumed |-> 0]

NoOrgBucket ==
  [made |-> 0, available |-> 0, reserved |-> 0, expires |-> Never, cycle |-> NoCycle]

\* from: bucket_allocations
ReservationRow(status, amount, from) ==
  [status |-> status, amount |-> amount, settled |-> 0, from |-> from]

OrgBucketRow ==
  [made : Nat, available : Nat, reserved : Nat,
   expires : Times \cup {Never}, cycle : Times \cup {NoCycle}]

WalletTypeOK ==
  /\ now \in Times
  /\ orgWallet \in [available : Nat, reserved : Nat, consumed : Nat]
  /\ orgBuckets \in [OrgBucketKeys -> OrgBucketRow]
  /\ orgReservations \in
       [OrgReserveKeys -> [status : {"none", "RESERVED", "SETTLED"}, amount : Nat,
                           settled : Nat, from : [OrgBucketKeys -> Nat]]]
  /\ orgSettlements \in [OrgSettleKeys -> OrgReserveKeys \cup {NoOrgReservation}]
  /\ raced \in BOOLEAN

WalletInit ==
  /\ now = 1
  /\ orgWallet = [NoCredits EXCEPT !.available = Legacy]
  /\ orgBuckets = [b \in OrgBucketKeys |-> NoOrgBucket]
  /\ orgReservations =
       [r \in OrgReserveKeys |-> ReservationRow("none", 0, [b \in OrgBucketKeys |-> 0])]
  /\ orgSettlements = [s \in OrgSettleKeys |-> NoOrgReservation]
  /\ ledger = IF Legacy = 0 THEN {} ELSE {LedgerEntry(<<"legacy", 0>>, Legacy, 0, 0)}
  /\ holder = Nobody
  /\ raced = FALSE
  /\ refused = {}

-----------------------------------------------------------------------------
(* Rows *)

Made(b) == orgBuckets[b].made > 0
MadeBuckets == {b \in OrgBucketKeys : Made(b)}

NewOrgBucket(amount, expires, cycle) ==
  [made |-> Cardinality(MadeBuckets) + 1, available |-> amount, reserved |-> 0,
   expires |-> expires, cycle |-> cycle]

\* What expireBuckets finds in the rows S.
StaleIn(S) ==
  [b \in OrgBucketKeys |->
     IF b \in S /\ orgBuckets[b].expires <= now THEN orgBuckets[b].available ELSE 0]

\* Mutant: credits held by a reservation are logged as expired too.
ExpiriesWithHeld(S) ==
  {LedgerEntry(<<"expiry", b>>, -StaleIn(S)[b] - orgBuckets[b].reserved, 0, 0) :
     b \in {x \in OrgBucketKeys : /\ StaleIn(S)[x] > 0
                               /\ \A e \in ledger : e.key # <<"expiry", x>>}}

\* ON CONFLICT (organization_id, idempotency_key) DO NOTHING
Expiries(S) ==
  {LedgerEntry(<<"expiry", b>>, -StaleIn(S)[b], 0, 0) :
     b \in {x \in OrgBucketKeys : /\ StaleIn(S)[x] > 0
                               /\ \A e \in ledger : e.key # <<"expiry", x>>}}

\* CHECK (... >= 0) on every balance: a transaction that breaks one rolls back.
OrgChecksHold ==
  /\ orgWallet'.available >= 0 /\ orgWallet'.reserved >= 0
  /\ \A b \in OrgBucketKeys : orgBuckets'[b].available >= 0 /\ orgBuckets'[b].reserved >= 0

-----------------------------------------------------------------------------
(* Transactions *)

\* grantCredits, its key not used before.
OrgGrant(q) ==
  /\ holder = Nobody
  /\ ~Made(q.key)
  /\ orgWallet' = [orgWallet EXCEPT !.available = @ + q.amount]
  /\ orgBuckets' = [orgBuckets EXCEPT ![q.key] = NewOrgBucket(q.amount, q.expires, q.cycle)]
  /\ ledger' = ledger \cup {LedgerEntry(<<"entry", q.key>>, q.amount, 0, 0)}
  /\ UNCHANGED <<now, orgReservations, orgSettlements, holder, raced, refused>>

\* reserveCredits finds its key unused, locks the wallet's row and reads.
LockWallet(q) ==
  /\ holder = Nobody
  /\ orgReservations[q.key].status = "none"
  /\ holder' = [request |-> q, sees |-> MadeBuckets]
  /\ UNCHANGED <<now, account, raced, refused>>

\* The credits of the rows S that a reservation may use.
Spendable(S) ==
  [b \in OrgBucketKeys |-> IF b \in S THEN orgBuckets[b].available - StaleIn(S)[b] ELSE 0]

\* allocateBucketRows, soonest expiry first
Allocated(S, amount) == Drawn(orgBuckets, Spendable(S), amount)

\* ... expires, compares with the balance, allocates and commits.
OrgReserve ==
  LET q == holder.request
      S == holder.sees
      from == Allocated(S, q.amount)
  IN
  /\ holder # Nobody
  /\ orgWallet.available - Total(StaleIn(S)) >= q.amount
  /\ Total(Spendable(S)) > 0 => Total(from) = q.amount
  /\ orgReservations' =
       [orgReservations EXCEPT ![q.key] = ReservationRow("RESERVED", q.amount, from)]
  /\ orgBuckets' = [b \in OrgBucketKeys |->
       [orgBuckets[b] EXCEPT !.available = @ - StaleIn(S)[b] - from[b],
                          !.reserved = @ + from[b]]]
  /\ orgWallet' = [orgWallet EXCEPT !.available = @ - Total(StaleIn(S)) - q.amount,
                              !.reserved = @ + q.amount]
  /\ ledger' = ledger \cup Expiries(S)
       \cup {LedgerEntry(<<"entry", q.key>>, -q.amount, q.amount, 0)}
  /\ holder' = Nobody
  /\ raced' = (raced \/ S # MadeBuckets)
  /\ UNCHANGED <<now, orgSettlements, refused>>
  /\ OrgChecksHold

\* INSUFFICIENT_CREDITS, a failed CHECK, a lost connection.
RollBack ==
  /\ holder # Nobody
  /\ holder' = Nobody
  /\ UNCHANGED <<now, account, raced, refused>>

\* Mutant: the status is read before the reservation is locked.
MaySettleAgain(q) ==
  /\ orgSettlements[q.key] = NoOrgReservation
  /\ orgReservations[q.reservation].status # "none"
  /\ q.settled <= orgReservations[q.reservation].amount

\* Read under the lock of the reservation.
MaySettle(q) ==
  /\ orgSettlements[q.key] = NoOrgReservation
  /\ orgReservations[q.reservation].status = "RESERVED"
  /\ q.settled <= orgReservations[q.reservation].amount

\* The first loop of settleCredits: as much as was settled, of each bucket.
Used(reservation, settled) ==
  [b \in OrgBucketKeys |-> Within(settled, reservation.from[b])]

\* Its second loop.
Released(reservation, settled) ==
  GivenBack(orgBuckets, reservation.from, reservation.amount - settled)

SettledBuckets(q) ==
  LET reservation == orgReservations[q.reservation]
      back == Released(reservation, q.settled)
      used == Used(reservation, q.settled)
  IN [b \in OrgBucketKeys |-> [orgBuckets[b] EXCEPT !.available = @ + back[b],
                                              !.reserved = @ - used[b] - back[b]]]

OrgSettle(q) ==
  LET released == orgReservations[q.reservation].amount - q.settled IN
  /\ holder = Nobody
  /\ MaySettle(q)
  /\ orgSettlements' = [orgSettlements EXCEPT ![q.key] = q.reservation]
  /\ orgReservations' = [orgReservations EXCEPT ![q.reservation].status = "SETTLED",
                                          ![q.reservation].settled = q.settled]
  /\ orgWallet' = [available |-> orgWallet.available + released,
                reserved |-> orgWallet.reserved - q.settled - released,
                consumed |-> orgWallet.consumed + q.settled]
  /\ orgBuckets' = SettledBuckets(q)
  /\ ledger' = ledger \cup {LedgerEntry(<<"settlement", q.key>>, 0, -q.settled, q.settled)}
       \cup (IF released = 0
             THEN {} ELSE {LedgerEntry(<<"release", q.key>>, released, -released, 0)})
  /\ UNCHANGED <<now, holder, raced, refused>>
  /\ OrgChecksHold

\* The same settlement, undone by CHECK (reserved_credits >= 0) of a bucket.
SettleUndone(q) ==
  /\ holder = Nobody
  /\ MaySettle(q)
  /\ \E b \in OrgBucketKeys : SettledBuckets(q)[b].reserved < 0
  /\ refused' = refused \cup {q}
  /\ UNCHANGED <<now, account, holder, raced>>

\* The candidates of rolloverSubscriptionCredits.
Sources(period) ==
  {b \in OrgBucketKeys : /\ orgBuckets[b].cycle \notin {NoCycle, period}
                      /\ orgBuckets[b].available > 0
                      /\ orgBuckets[b].expires >= period}

\* ORDER BY plan_cycle DESC, created_at DESC
NewestSource(S) ==
  CHOOSE b \in S : \A c \in S \ {b} :
    \/ orgBuckets[b].cycle > orgBuckets[c].cycle
    \/ orgBuckets[b].cycle = orgBuckets[c].cycle /\ orgBuckets[b].made > orgBuckets[c].made

\* It does not touch the wallet's row, nor wait for its lock.
OrgRollover(q) ==
  /\ ~Made(q.key)
  /\ Sources(q.period) # {}
  /\ LET source == NewestSource(Sources(q.period))
         moved == Within(q.limit, orgBuckets[source].available)
     IN /\ orgBuckets' = [orgBuckets EXCEPT ![source].available = @ - moved,
                                      ![q.key] = NewOrgBucket(moved, q.expires, q.period)]
        /\ ledger' = ledger \cup {LedgerEntry(<<"source", q.key>>, -moved, 0, 0),
                                  LedgerEntry(<<"target", q.key>>, moved, 0, 0)}
  /\ UNCHANGED <<now, orgWallet, orgReservations, orgSettlements, holder, raced, refused>>

\* The time a transaction has taken is its time to the end.
OrgTick ==
  /\ now < MaxTime
  /\ holder = Nobody
  /\ now' = now + 1
  /\ UNCHANGED walletVars

-----------------------------------------------------------------------------
(* Properties of the wallet *)

Unbucketed(r) == Total(orgReservations[r].from) < orgReservations[r].amount
Kept(r) == IF orgReservations[r].status = "SETTLED" THEN orgReservations[r].settled
                                                 ELSE orgReservations[r].amount

\* Unless a rollover has overtaken a reservation: the balance is what the
\* buckets hold and what is left of the legacy credits, reserved credits are
\* those of the open reservations, and the ledger explains all of them
\* (grantCredits, reserveCredits, settleCredits, rolloverSubscriptionCredits).
BooksBalance ==
  \/ raced
  \/ /\ orgWallet.available >= Total([b \in OrgBucketKeys |-> orgBuckets[b].available])
     /\ orgWallet.available =
          Total([b \in OrgBucketKeys |-> orgBuckets[b].available]) + Legacy
          - Total([r \in OrgReserveKeys |-> IF Unbucketed(r) THEN Kept(r) ELSE 0])
     /\ orgWallet.reserved = Total([r \in OrgReserveKeys |->
          IF orgReservations[r].status = "RESERVED" THEN orgReservations[r].amount ELSE 0])
     /\ orgWallet.reserved = Balance([e \in ledger |-> e.reserved])
     /\ orgWallet.consumed = Balance([e \in ledger |-> e.consumed])
     /\ orgWallet.available <= Balance([e \in ledger |-> e.available])

\* A reservation that is open can be settled for any part of it.
SettlementsAreExact == refused = {}
=============================================================================
