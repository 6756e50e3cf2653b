--------------------------- MODULE PaymentWebhook ---------------------------
(***************************************************************************)
(* Razorpay's events about one subscription and the top-ups of its owner,  *)
(* handled by RazorpayWebhookService.handle (packages/billing/src/         *)
(* razorpay.ts) over PostgresPaymentStore and the wallet of the            *)
(* subscriber's organization, while tasks reserve and settle its credits.  *)
(*                                                                         *)
(* A handler claims its event, applies the event's effects one by one and  *)
(* answers.  When an effect fails it gives the claim back and answers with *)
(* an error, which makes the provider deliver the event again.  Handlers   *)
(* of different events run side by side, and a process may stop between    *)
(* any two effects.                                                        *)
(***************************************************************************)
EXTENDS OrganizationWallet, Sequences

CONSTANTS
  Handlers,       \* deliveries handled at a time
  Scenarios,      \* each [events, tasks, faults]: what happens in one behaviour,
                  \* and how many failures, crashes and repeated deliveries
  Monthly,        \* plan.monthlyCredits
  TopUpPeriods,   \* bound: the validityDays of a top-up, scaled down to periods
  NoEvent

Ended == {"CANCELLED", "COMPLETED", "HALTED"}
Endings == {"subscription.halted", "subscription.cancelled", "subscription.completed"}
Paying == {"subscription.charged", "payment.captured"}
EventTypes ==
  Paying \cup Endings \cup
  {"subscription.authenticated", "subscription.activated", "subscription.pending",
   "payment.failed", "refund.created", "payment.dispute.created"}

\* at: when it happens.  org: it carries an organizationId, its plan is pooled.
\* A charge is for the period that begins at "at"; a payment has a name.
AllEvents == [type : EventTypes, at : Times, org : BOOLEAN, payment : STRING, topUp : BOOLEAN]

VARIABLES
  scenario,
  owed,           \* events the provider still has to deliver, or to deliver again
  claims,         \* payment_webhook_events
  handler,        \* per delivery: the event and the effects that are left
  payments,       \* the status column of payments
  subscription,   \* the status column of subscriptions, "none" without a row
  userPlan,       \* the owner's plan
  entitlement,    \* the organization's
  personal,       \* keys of the grants to the owner's personal wallet
  faults,         \* what may still go wrong
  partial,        \* history: events begun and not handled to the end since
  overlapped,     \* history: two handlers were at work at a time
  stopped         \* history: events whose handler has stopped for good

provider == <<owed, claims>>
paymentTables == <<payments, subscription, userPlan, entitlement, personal>>
history == <<partial, overlapped, stopped>>
paymentVars == <<now, walletVars, scenario, provider, handler, paymentTables, faults, history>>

Events == scenario.events
PaymentNames == {e.payment : e \in UNION {s.events : s \in Scenarios}}
Idle == [event |-> NoEvent, left |-> <<>>]

PaymentInit ==
  /\ WalletInit
  /\ scenario \in Scenarios
  /\ owed = scenario.events
  /\ claims = {}
  /\ handler = [h \in Handlers |-> Idle]
  /\ payments = [p \in PaymentNames |-> "none"]
  /\ subscription = "none"
  /\ userPlan = "FREE"
  /\ entitlement = "none"
  /\ personal = {}
  /\ faults = scenario.faults
  /\ partial = {} /\ overlapped = FALSE /\ stopped = {}

-----------------------------------------------------------------------------
(* Events *)

\* subscription-cycle:{sub}:{period} and topup:{payment}
GrantKey(e) == IF e.type = "payment.captured" THEN <<"topup", e.payment>>
                                              ELSE <<"cycle", e.at>>

\* topUpExpiresAt of the time at which the payment is handled
TopUpExpiresAt(n) == IF n + TopUpPeriods <= MaxTime THEN n + TopUpPeriods ELSE Never

\* What the handler of e grants at the time n; it grants once, whatever n a second
\* delivery has, as the key is of the event alone.
GrantOf(e, n) ==
  [op |-> "grant", key |-> GrantKey(e), amount |-> Monthly,
   expires |-> IF e.type = "payment.captured" THEN TopUpExpiresAt(n) ELSE e.at + 1,
   cycle |-> IF e.type = "payment.captured" THEN NoCycle ELSE e.at]

RolloverOf(e) ==
  [op |-> "rollover", key |-> <<"rollover", e.at>>, period |-> e.at, limit |-> Monthly,
   expires |-> e.at + 1]

\* What the members' tasks ask of the wallet.
AllTasks ==
  [op : {"reserve"}, key : OrgReserveKeys, amount : Nat \ {0}]
  \cup [op : {"settle"}, key : OrgSettleKeys, reservation : OrgReserveKeys, settled : Nat]

\* The events of one subscription carry its notes: when a charge names an
\* organization, so does the event that ends what it began.
WebhookConstants ==
  /\ Monthly \in Nat \ {0} /\ TopUpPeriods \in Nat \ {0}
  /\ \A s \in Scenarios :
       /\ s.events \subseteq AllEvents
       /\ \A e \in s.events : e.org => {GrantKey(e), RolloverOf(e).key} \subseteq OrgBucketKeys
       /\ \A d, e \in s.events :
            d.type = "subscription.charged" /\ d.org /\ e.type \in Endings => e.org
       /\ s.tasks \subseteq AllTasks
       /\ NoEvent \notin s.events
       /\ s.faults \in Nat

ASSUME WebhookAssumption == WebhookConstants

\* The branches of handle: the calls each makes, in their order.
Effects(e) ==
  CASE e.type = "subscription.charged" ->
         IF e.org THEN <<"rollover", "payment", "subscribe", "grant", "entitle", "plan">>
                  ELSE <<"rollover", "payment", "subscribe", "grant", "plan">>
    [] e.type = "subscription.authenticated" -> <<"subscribe">>
    [] e.type \in {"subscription.activated", "subscription.pending"} -> <<"status">>
    [] e.type \in Endings ->
         IF e.org THEN <<"status", "plan", "entitle">> ELSE <<"status", "plan">>
    [] e.type = "payment.captured" -> IF e.topUp THEN <<"grant", "payment">> ELSE <<"payment">>
    [] e.type = "payment.failed" -> <<"payment">>
    [] e.type \in {"refund.created", "payment.dispute.created"} -> <<"refund">>

StatusOf(e) ==
  CASE e.type \in {"subscription.charged", "subscription.activated"} -> "ACTIVE"
    [] e.type = "subscription.authenticated" -> "AUTHENTICATED"
    [] e.type = "subscription.pending" -> "PENDING"
    [] e.type = "subscription.halted" -> "HALTED"
    [] e.type = "subscription.cancelled" -> "CANCELLED"
    [] e.type = "subscription.completed" -> "COMPLETED"

PaymentStatusOf(e) == IF e.type \in Paying THEN "CAPTURED" ELSE "FAILED"

-----------------------------------------------------------------------------
(* Effects *)

NoWallet == UNCHANGED <<now, walletVars>>

\* rolloverSubscriptionCredits of the organization; the personal one is Wallet's.
DoRollover(e) ==
  /\ UNCHANGED paymentTables
  /\ \/ e.org /\ OrgRollover(RolloverOf(e))
     \/ /\ e.org => Made(RolloverOf(e).key) \/ Sources(e.at) = {}
        /\ NoWallet

\* A grant whose key is in the ledger returns its entry.
DoGrant(e) ==
  \/ /\ e.org /\ OrgGrant(GrantOf(e, now)) /\ UNCHANGED paymentTables
  \/ /\ e.org /\ holder = Nobody /\ Made(GrantKey(e)) /\ NoWallet /\ UNCHANGED paymentTables
  \/ /\ ~e.org
     /\ personal' = personal \cup {GrantKey(e)}
     /\ NoWallet
     /\ UNCHANGED <<payments, subscription, userPlan, entitlement>>

PutPayment(e, status) ==
  /\ payments' = [payments EXCEPT ![e.payment] = status]
  /\ NoWallet
  /\ UNCHANGED <<subscription, userPlan, entitlement, personal>>

\* ON CONFLICT (provider_payment_id) DO UPDATE, whatever status the row has
SavePayment(e) == PutPayment(e, PaymentStatusOf(e))

\* The same row: the refund of a payment that is not known makes one.
SaveRefund(e) == PutPayment(e, "REFUNDED")

\* saveSubscription: INSERT ... ON CONFLICT DO UPDATE
SaveSubscription(e) ==
  /\ subscription' = StatusOf(e)
  /\ NoWallet
  /\ UNCHANGED <<payments, userPlan, entitlement, personal>>

\* updateSubscriptionStatus: an UPDATE, of no row when there is none yet.
UpdateStatus(e) ==
  /\ subscription' = IF subscription = "none" THEN "none" ELSE StatusOf(e)
  /\ NoWallet
  /\ UNCHANGED <<payments, userPlan, entitlement, personal>>

\* Mutant: a halted subscription may still recover.
PlanUnlessOver(e) == IF StatusOf(e) \in {"CANCELLED", "COMPLETED"} THEN "FREE" ELSE "PAID"

\* onPlanGranted, onSubscriptionCancelled, onSubscriptionHalted
PlanAfter(e) == IF StatusOf(e) \in Ended THEN "FREE" ELSE "PAID"

AssignPlan(e) ==
  /\ userPlan' = PlanAfter(e)
  /\ NoWallet
  /\ UNCHANGED <<payments, subscription, entitlement, personal>>

\* onOrganizationEntitlementChanged
SetEntitlement(e) ==
  /\ entitlement' = IF StatusOf(e) \in Ended THEN "CLOSED" ELSE "ACTIVE"
  /\ NoWallet
  /\ UNCHANGED <<payments, subscription, userPlan, personal>>

Apply(e, effect) ==
  \/ effect = "rollover" /\ DoRollover(e)
  \/ effect = "grant" /\ DoGrant(e)
  \/ effect = "payment" /\ SavePayment(e)
  \/ effect = "refund" /\ SaveRefund(e)
  \/ effect = "subscribe" /\ SaveSubscription(e)
  \/ effect = "status" /\ UpdateStatus(e)
  \/ effect = "plan" /\ AssignPlan(e)
  \/ effect = "entitle" /\ SetEntitlement(e)

-----------------------------------------------------------------------------
(* Deliveries *)

Busy(h) == handler[h].event # NoEvent

\* claimWebhookEvent: INSERT INTO payment_webhook_events ON CONFLICT DO NOTHING
\* inserts the row.
Claimed(e) == claims \cup {e}

\* handle, up to its branches: the events here are signed by the provider
Deliver(h, e) ==
  /\ e \in owed \ claims
  /\ now >= e.at
  /\ ~Busy(h)
  /\ owed' = owed \ {e}
  /\ claims' = Claimed(e)
  /\ handler' = [handler EXCEPT ![h] = [event |-> e, left |-> Effects(e)]]
  /\ partial' = partial \cup {e}
  /\ overlapped' = (overlapped \/ \E g \in Handlers : Busy(g))
  /\ NoWallet
  /\ UNCHANGED <<scenario, paymentTables, faults, stopped>>

\* It finds the claim: the answer is a success, { processed: false }.
Ignore(e) ==
  /\ e \in owed \cap claims
  /\ owed' = owed \ {e}
  /\ NoWallet
  /\ UNCHANGED <<scenario, claims, handler, paymentTables, faults, history>>

\* The provider delivers once more what it has delivered.
Repeat(e) ==
  /\ e \in Events \ owed
  /\ faults > 0
  /\ faults' = faults - 1
  /\ owed' = owed \cup {e}
  /\ NoWallet
  /\ UNCHANGED <<scenario, claims, handler, paymentTables, history>>

Step(h) ==
  /\ Busy(h) /\ handler[h].left # <<>>
  /\ Apply(handler[h].event, Head(handler[h].left))
  /\ handler' = [handler EXCEPT ![h].left = Tail(@)]
  /\ UNCHANGED <<scenario, provider, faults, history>>

Finish(h) ==
  /\ Busy(h) /\ handler[h].left = <<>>
  /\ handler' = [handler EXCEPT ![h] = Idle]
  /\ partial' = partial \ {handler[h].event}
  /\ NoWallet
  /\ UNCHANGED <<scenario, provider, paymentTables, faults, overlapped, stopped>>

\* Mutant: the claim is kept, so the next delivery is ignored.
KeptClaim(e) == claims

\* releaseWebhookEvent
ReleasedClaim(e) == claims \ {e}

\* An effect throws, before or (a lost answer, a mail that cannot be sent)
\* after it was applied: catch releases the claim and the answer is an error.
Fail(h) ==
  /\ Busy(h) /\ handler[h].left # <<>>
  /\ faults > 0
  /\ faults' = faults - 1
  /\ \/ Apply(handler[h].event, Head(handler[h].left))
     \/ NoWallet /\ UNCHANGED paymentTables
  /\ claims' = ReleasedClaim(handler[h].event)
  /\ owed' = owed \cup {handler[h].event}
  /\ handler' = [handler EXCEPT ![h] = Idle]
  /\ UNCHANGED <<scenario, history>>

\* The process stops, or the release throws too: no success is answered, and
\* the claim stays.
Crash(h) ==
  /\ Busy(h)
  /\ faults > 0
  /\ faults' = faults - 1
  /\ owed' = owed \cup {handler[h].event}
  /\ handler' = [handler EXCEPT ![h] = Idle]
  /\ stopped' = stopped \cup {handler[h].event}
  /\ NoWallet
  /\ UNCHANGED <<scenario, claims, paymentTables, partial, overlapped>>

-----------------------------------------------------------------------------
(* Tasks of the organization's members *)

Frame == UNCHANGED <<scenario, provider, handler, paymentTables, faults, history>>

Asked(q) == q \in scenario.tasks
BeginReserve(q) == Asked(q) /\ q.op = "reserve" /\ LockWallet(q) /\ Frame
Commit == OrgReserve /\ Frame
Abort == RollBack /\ Frame
Charge(q) == Asked(q) /\ q.op = "settle" /\ OrgSettle(q) /\ Frame
Undo(q) == Asked(q) /\ q.op = "settle" /\ SettleUndone(q) /\ Frame
Pass == OrgTick /\ Frame

Tasks == UNION {s.tasks : s \in Scenarios}
AllScenarioEvents == UNION {s.events : s \in Scenarios}

PaymentNext ==
  \/ \E h \in Handlers :
       \/ \E e \in AllScenarioEvents : Deliver(h, e)
       \/ Step(h)
       \/ Finish(h)
       \/ Fail(h)
       \/ Crash(h)
  \/ \E e \in AllScenarioEvents : Ignore(e) \/ Repeat(e)
  \/ \E q \in Tasks : BeginReserve(q) \/ Charge(q) \/ Undo(q)
  \/ Commit
  \/ Abort
  \/ Pass

\* A handler and a transaction go on unless they stop, and who waits for the
\* wallet's lock gets it in turn; the provider delivers what it owes; time
\* passes whatever transactions run.
Fairness ==
  /\ \A h \in Handlers : SF_paymentVars(Step(h) \/ Finish(h))
  /\ WF_paymentVars(\E h \in Handlers, e \in AllScenarioEvents : Deliver(h, e))
  /\ WF_paymentVars(Commit \/ Abort)
  /\ SF_paymentVars(Pass)

PaymentSpec == PaymentInit /\ [][PaymentNext]_paymentVars /\ Fairness

-----------------------------------------------------------------------------
(* Properties *)

\* The statuses of a row; "none": there is no row
PaymentStatuses == {"none", "CAPTURED", "FAILED", "REFUNDED"}
SubscriptionStatuses == {"none", "AUTHENTICATED", "ACTIVE", "PENDING"} \cup Ended

PaymentTypeOK ==
  /\ WalletTypeOK
  /\ scenario \in Scenarios
  /\ owed \subseteq Events /\ claims \subseteq Events
  /\ \A h \in Handlers : handler[h].event \in Events \cup {NoEvent}
  /\ payments \in [PaymentNames -> PaymentStatuses]
  /\ subscription \in SubscriptionStatuses
  /\ userPlan \in {"FREE", "PAID"} /\ entitlement \in {"none", "ACTIVE", "CLOSED"}
  /\ faults \in Nat /\ overlapped \in BOOLEAN
  /\ partial \subseteq Events /\ stopped \subseteq Events

\* Once a subscription has ended the paid plan and the organization's
\* entitlement are gone ("paid access ends immediately", razorpay.ts), in
\* whatever order and however often its events came, failed and were retried,
\* if they were handled one at a time and none was left half done.  Ended is what
\* its row says now: a charge handled after the end makes the row ACTIVE again.
EndedIsFree ==
  subscription \in Ended /\ partial = {} /\ ~overlapped =>
    userPlan = "FREE" /\ entitlement # "ACTIVE"

\* What the customer has paid for reaches a wallet, whatever fails on the way,
\* unless a handler stopped for good and left its claim behind (handle, the
\* release in its catch, the keys of its grants).
PayingEvents == {e \in AllScenarioEvents : e.type = "subscription.charged" \/ e.topUp}
Credited(e) == Made(GrantKey(e)) \/ GrantKey(e) \in personal
PaidIsCredited ==
  <>(\A e \in PayingEvents \cap Events : Credited(e) \/ e \in stopped)

\* What the tasks and the paid events may ask of the wallet
PoolRequests ==
  Tasks \cup {GrantOf(e, n) : e \in PayingEvents, n \in Times}
        \cup {RolloverOf(e) : e \in PayingEvents}

\* Each transaction of the organization's wallet does what the store without
\* transactions does, and nothing else changes its balances, until a rollover
\* overtakes a reservation (PostgresOrganizationBillingStore against
\* InMemoryOrganizationBillingStore).
Pool == INSTANCE OrganizationPool WITH
  Requests <- PoolRequests,
  BucketKeys <- OrgBucketKeys, ReserveKeys <- OrgReserveKeys, SettleKeys <- OrgSettleKeys,
  NoReservation <- NoOrgReservation, wallet <- orgWallet, reservations <- orgReservations,
  settlements <- orgSettlements,
  buckets <- [b \in OrgBucketKeys |->
                [made |-> orgBuckets[b].made, remaining |-> orgBuckets[b].available,
                 expires |-> orgBuckets[b].expires, cycle |-> orgBuckets[b].cycle]]

AgreesWithPool == [][raced' \/ Pool!Next]_<<now, account>>
=============================================================================
