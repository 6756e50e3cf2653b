# Astra Code: TLA+ models

Models of the parts of Astra Code (this repository) whose correctness depends on
the order in which things happen: credits of users and organizations, payments,
the billing of tasks, relays, rooms, sign-in, agent tasks and mail. Each component
has a module that follows its source and a TLC configuration that explores a small
instance completely; nine of them have theorems that the TLA+ proof system
(tlapm 1.4.5) checks for every value of the constants. `PROJECT.json` maps every definition to the
lines it models and lists runs, mutants, findings, hazards and theorems.

    tlasany Wallet.tla
    tlc -workers 2 -config MCWallet.cfg MCWallet
    tlapm WalletProofs.tla

## 1. The system

Astra Code is a TypeScript monorepo: a desktop application that runs coding tasks
in a workspace, an API with billing, accounts and a model gateway, and a relay
through which a phone or another member of a room drives a desktop.

| Component | State it keeps | Operations | Interacts with |
|---|---|---|---|
| Wallet store (`packages/db/src/postgres-billing.ts`) | wallet row, bucket rows with expiry, reservations, settlements, ledger | grant, reserve, settle, adjust, read balance, rollover | billing service, Razorpay webhooks, admin |
| Organization wallet (`postgres-organization-billing.ts`, `organization-memory.ts`) | the same tables for an organization | grant, reserve, settle, rollover | payment webhooks, organization service |
| Billing flow (`desktop-runtime.ts`, `billing-route.ts`, `model-route.ts`) | active reservations, usage receipts | reserve, run, record receipts, settle | wallet, runner, gateway |
| Agent task runner (`packages/agent-core`) | task state, budget, token, pending approvals, session | start, cancel, resolvePermission | model, workspace, event and session ports |
| Codex task runner (`codex-task-runner.ts`, `packages/codex-runtime`) | the active task, pending requests | start, cancel, resolvePermission, notifications | child process over JSON-RPC |
| Relay broker (`packages/remote-protocol/src/relay.ts`) | connections, queues, pending lists, seen ids, revocations | connect, send, receive, heartbeat, disconnect, revoke | WebSocket server |
| Relay transport (`websocket-relay.ts`, `websocket-client.ts`, `desktop-bridge.ts`) | sockets, listeners, heartbeats | flush, publish, handleMessage | broker, desktop runtime |
| Rooms and devices (`access.ts`, `remote-route.ts`) | organizations, seats, members, invitations, devices, file imports | invite, redeem, set role, suspend, leave, import | relay revocation, workspace |
| Authentication (`packages/auth`) | users, sessions, devices, one-time codes | login, refresh, logout, revoke, reset | every route |
| Payments (`packages/billing/src/razorpay.ts`) | claimed events, payments, subscriptions | webhook handling | wallets, plans, entitlements, email |
| Email (`packages/email`) | deliveries, campaigns | send, run a campaign | provider |
| Workspace (`packages/workspace`) | files, temporary files, backups | write a batch, run a command, verify | runner |
| Model gateway, plans, catalogues, plugins, UI | mostly stateless | | |

What is hard in each of them:

* **Wallet.** Every operation is a transaction, but its idempotency key is looked
  up before the row lock is taken, so retries race; buckets expire while
  reservations hold part of them; two sets of balances (wallet and buckets) and a
  ledger must agree. Correct: credits are held, spent and returned exactly once,
  the soonest expiring credits go first, the balances agree.
* **Relay broker.** Connections of both roles come, go, expire and are revoked
  between the messages; a message may wait in one of two places. Correct: bounded
  queues, order, no repetition, silence after a revocation.
* **Agent task.** One asynchronous function with some thirty awaits; approvals,
  a cancellation and the deadline may arrive at each of them and every port may
  fail. Correct: nothing unapproved, nothing after a stop, no spending above what
  was agreed, only the allowed transitions, one outcome that log and session
  agree on, and an end.
* **Billing flow.** Reserve, run and settle are three requests; the settlement may
  fail, receipts may come after it. Correct: what a task costs is charged once and
  no reservation stays open.
* **Transport.** Listeners are installed after an await, host actions are
  authorized asynchronously. Correct: actions are started in the order sent.
* **Rooms.** A call reads its permission and its rows in some statements and writes
  in a later one; grants outlive the membership they were checked against; an
  import is approved, written and reported in three requests. Correct: an owner at
  any time, imports written only once approved, rejections that last, and
  whatever is not overtaken does what the service in memory does.
* **Authentication.** Rows are read, changed and written back whole, with awaits in
  between. Correct: what was revoked stays revoked, a link or code works once, guesses
  are counted.
* **Payments.** Events are claimed, then worked on in several steps; they come
  twice, side by side or out of order, and handlers fail and crash. Correct: what
  was paid is credited, what has ended is not used, the books balance.
* **Codex runner.** The child process may exit, cancel races completion, starts
  overlap and share a file. Correct: a stop ends a task and, unless its start
  throws, decides its outcome, an ended one leaves nothing behind, and a task is
  billed for its own usage.
* **Email.** A delivery is looked up, sent and saved in three steps, by processes
  that restart. Correct: nobody is mailed twice, and a campaign that is done has
  dealt with each addressee.
* **Workspace batch.** Several files, each replaced in two steps. Correct: all or
  none of them.

The full list of hazards, each at its line, is in `PROJECT.json`.

## 2. Modules

| Module | What it is |
|---|---|
| `CreditAccount` | abstract: free, held and spent credits; holds opened and closed once |
| `CreditDates` | the clock and the dates of buckets, shared by all stores of credits |
| `Sums` | sums over the rows of a table, counted |
| `Wallet` | the PostgreSQL billing store |
| `MCWallet` | its instance for TLC |
| `WalletProofs` | its theorems, and those of `PaymentWebhook`, which rest on the same facts about sums and draws |
| `TaskBill` | abstract: usage recorded, due when a task is over, charged once |
| `TaskBilling` | `startTask` with the reservation, model and settlement routes; instantiates `CreditAccount` |
| `MCTaskBilling` | its instance |
| `TaskBillingProofs` | its theorems |
| `MessageChannel` | abstract: an ordered channel that never repeats a message |
| `RelayBroker` | `RemoteRelayBroker` |
| `MCRelayBroker` | its instance |
| `RelayBrokerProofs` | its theorems |
| `AgentTask` | one run of `AgentTaskRunner` |
| `MCAgentTask` | its instance |
| `AgentTaskProofs` | its theorems |
| `BucketDraw` | how an amount is drawn from buckets and given back |
| `OrganizationPool` | the organization's billing store in memory: no transactions; the specification of the next one |
| `OrganizationWallet` | the PostgreSQL store of the organization |
| `PaymentWebhook` | the handler of provider events, composed with `OrganizationWallet` (EXTENDS) |
| `MCPaymentWebhook` | its instance |
| `RoomRows` | the rows of rooms and the permissions read from them, shared by the next two |
| `RoomAccess` | the service in memory: every call at once; the specification of the next one |
| `RoomStore` | routes, PostgreSQL store, relay grants and the importing desktop |
| `MCRoomStore` | its instance |
| `RoomStoreProofs` | its theorems |
| `AuthTables` | the tables of accounts and the statements on them |
| `AuthSessions` | the requests, each a program of such statements |
| `MCAuthSessions` | its instance |
| `AuthSessionsProofs` | its theorems |
| `CodexTask` | the Codex runner with its process, JSON-RPC session, runtime token and routes |
| `MCCodexTask` | its instance |
| `CodexTaskProofs` | its theorems |
| `EmailCampaign` | campaigns, notices and letters |
| `MCEmailCampaign` | its instance |
| `EmailCampaignProofs` | its theorems |

### Wallet

A step is what one transaction does under the row lock. `Begin` is the unlocked
lookup of the idempotency key that opens it; between `Begin` and the commit other
connections may commit anything, which is the race that the code leaves open and
that its UNIQUE constraints close. `Rollback` is any error and a lost connection.
`Swept` is `expireAvailableBuckets`, called by reserve, adjust and the balance
query inside their own transactions and by no other operation. `DrawnInOrder`
describes the result of `allocateBucketRows` over rows sorted by expiry (`NULLS
LAST`) and creation. `ChecksHold` stands for the CHECK constraints and for the
decimal parser that refuses a negative amount: a transaction that would break
them does not commit. The ledger keeps its keys and the sums of its three delta
columns. Sums over rows are counted (`Sums`): `Total(f)` is the number of units of the
amounts `f`, so that what a sum does when one row changes follows from facts about finite
sets.

Credits are integers of the finest unit. Ten of the finest dollar units make one;
`CreditsFromUsd` rounds half up as `roundDivide` does. Replays with the same key
and other values, which the code answers with an error, change nothing and are
not steps. Time stamps become a clock from 1 to `MaxTime`.

### TaskBilling

A step is what the desktop or the API does between two awaits that matter here.
`pc` says where `startTask` of each task stands; `reserve` and `settle` are the
calls as the API sees them, so that a call whose answer is lost goes on there.
The two settlement calls are the one in the `try` block and the one in `catch`;
both use the task's one key. `CountJobs` and `HoldCredits` are the count of open
reservations and the reservation, between which other tasks act; `ListReceipts`
and `Settle` are the query of the receipts and the transaction. `Admit`, `Meter`
and `Save` are the look at the reservation, the usage from the gateway, and the
row. `ShownFirst` is the difference between the two model routes: the Codex route
writes the completion and saves then, the model route the other way round.

The wallet is not modelled a second time. It appears as `CreditAccount`, which
`Wallet` implements, with the reservation of a task as a hold; `ImplementsAccount`
checks that the flow uses it that way. The receipts are the set of requests with a
row and the sum of their costs by task. Costs are in tenths of a credit, the unit
in which `CreditsFromUsd` rounds. A refusal by the plan other than the job limit,
a refused session and a failing database are `ReserveFails` and `SettleFails`; a
request that is refused, fails or brings no usage is `NoUsage`. `owed` is history:
the receipts at the first settlement. The end "unsettled" is a throw like any other; it
marks a second settlement that found the user signed out. Left out: billing to an
organization, the choice of a model, and the time to live of tokens.

### RelayBroker

Methods of the broker never await, so each is one step. Connections are numbered
in the order in which they are opened, the iteration order of the Map that `send`
and `revokeWhere` scan. The one pending list of a session is kept as one sequence
per sending role, which is how `deliverPending` reads it; its length counts both.
`Evict` is what `requireConnection` does to a connection whose grant is revoked or
has expired: it deletes it and the call fails. `SendRefused` is the BACKPRESSURE
path, on which the id stays in `seen`. `accepted` and `handed` are history: what
was taken and what `receive` returned.

### AgentTask

`pc` is the await at which the runner stands. Awaits between which nothing is
read or written are one; the points at which no callback can run are listed in
`Synchronous`. Actions follow the code from one await to the next: `RequestModel`
is the loop head (token, wall time, budget), `Receipt` the usage event with
`recordCost` and the request for an extension, `StreamEnds` the runaway guard,
`Act` the decision and `authorize`, `Wait` the registration of the resolver,
`Verified` the branches after the verification. `Throw` is the catch block: it
reads the deadline flag, then the token, then the error. `PortFails` lets the
port that is awaited fail anywhere in the try block; `CloseFails` and `Save` do
the same for the catch block and for the session store. The environment is the
user (`Cancel`, `Answer`, also late and for earlier requests) and the clock
(`Elapse`, `Deadline`).

Left out: message texts, summaries, the content of decisions (an action is the
fingerprint the runaway guard computes), and the structured session state.
`AgentTaskRunner` serves the `legacy-test` runtime mode of the desktop; the
default is the Codex runner.

### OrganizationPool, OrganizationWallet, PaymentWebhook

`OrganizationPool` is the store that keeps everything in Maps: each operation is a
step. `OrganizationWallet` is the PostgreSQL store; its tables are `orgWallet`,
`orgBuckets`, `orgReservations`, `orgSettlements` and `ledger`, its transactions
`OrgGrant`, `OrgReserve`, `OrgSettle` and `OrgRollover`. `LockWallet` takes the wallet's
row for a reservation (`SELECT ... FOR UPDATE`) and `Spendable` is the set of
buckets its statement has found by then; `OrgReserve` and `RollBack` end it. Grants
and settlements find the wallet locked or not, and a rollover locks buckets only, so
it may run inside a reservation: a bucket that it makes is missed by the statement
that waits (`raced`). Only a reservation sweeps
what has expired, from the rows it sees (`StaleIn`, `Expiries`). `SettleUndone` is a transaction
that `OrgChecksHold`, the CHECK constraints, undoes.

`PaymentWebhook` handles an event in steps: `Deliver` claims it (`ON CONFLICT DO
NOTHING`), `Step` applies the next of `Effects(e)`, in the order of `handle`:
rollover, grant, row of the payment, row of the subscription, plan, entitlement,
`Finish` answers. `Fail` is an effect that throws, with the release of the claim;
`Crash` loses the process and keeps the claim; `Ignore` is a delivery that finds
its claim taken; `Repeat` a delivery after an answer. The grants go to the
organization's wallet for a pooled plan with an organization and to the owner's
otherwise, which appears as the set of its keys (`Wallet` models it).

### RoomStore against RoomAccess

The two implementations of `RemoteAccessPort` are modelled apart: `RoomAccess` is
`RemoteAccessService` (synchronous, every call a step), `RoomStore` is
`PostgresRemoteAccessService` behind the routes. `Begin` reads what the call reads
before its write, `Checked` and the operators `May...` are those conditions, `Requests`
the calls there are, and `AuthorizeRoomAction` the check of a relay action; the
write is a step of its own and its enabling condition is what its transaction or its
WHERE clause checks again. Calls of a single statement or transaction
(`RegisterDevice`, `Heartbeat`, `SetEntitlement`, `Redeem`) are one step. A call
whose conditions no longer hold at the write ends with `Fail`. `RevokeMember` and
`RevokeHost` are what the routes do at the relay after the row has changed.
`StartImport` to `ReportComplete` follow `importRoomFile` of the desktop;
`WriteFiles` is where the workspace changes.

`AgreesWithMemory` is the refinement, restricted to steps for which it can hold: a
write that nothing overtook since its call has read, and every call of one
statement. `Lenient` and `RedeemsInactive` name the two differences between the
implementations (section 4); the second is about a redemption that makes a member.

### AuthTables and AuthSessions

`AuthTables` has the rows (the account, identities, devices, sessions, tokens,
one-time codes, the window of sign-ins) and one operator per statement.
`AuthSessions` gives each request its program, the sequence of its statements in
the order of the source; `call[c].next` is the index of the next statement and a step
executes it, so other requests act between any two awaits. `Continue` goes on to the
one after it, `Leap` over those that the source's conditions leave out, `Refuse` ends
the request with an error. A `Promise.all` over listed sessions is one step per
session in any order. What a request has read stays in `call[c]` and is written
back whole, as the code does with `{ ...record, ... }`. `before` and `chain` are
history: which requests were over when one began, and from which requests a session
descends. Secrets are the name of the request that made them.

### CodexTask

`task[t].pc` is the await of `start`, `session[t]` the process, its pending
requests and whether it was stopped. Ids of JSON-RPC are kept as numbers, for the
code looks an id up among its own requests before it asks whether the message is a
request of the process (`AskedDesktop`, `Stage`). `Exited` is the exit handler,
which fails what is pending; it completes no task. `WriteConfig` writes the one
`config.toml` of the Codex home with the task's parameters, which the process reads
at its start; `ModelCall` is the responses route with the token of the process and
the task it names. `Finalized` is `finalize` with its outcomes. `task[t].cause`
remembers which step of the start threw first, and `listening` whether the listeners
are installed, which stay until the client has been stopped.

### EmailCampaign

`job[r]` is where a request to send is: `List` the eligible users, `Begin`, then per
user `Pick` (skip who has a row), `Look` (memory, then `email_events`),
`ResolveSender`, `Mail`, `Remember`, `Save`, `Record`, and `Close`. Notices of
payment events (`Notify`) and letters (`Write`: a code, a welcome, a link, an invitation,
an administrator's test) share `Look` to `Save`. The key of a test names the id of
its request, which each process counts anew (`given`), so two tests may have one key.
`Restart` empties a process's memory, loses its requests and begins its ids again. `delivered` counts what the provider has taken;
`excused` are the keys for which two requests were between `Look` and `Save` at
once, or whose request was lost there.

## 3. Runs

| Run | States | Question |
|---|---|---|
| `wallet` | 198,111 | do credits survive the races of two connections, expiry and rollover? |
| `payments` | 129,425 | is what was paid credited and what has ended gone, and does the organization's wallet agree with the store in memory? |
| `org_settle` | violation | can an open reservation be settled for any charge within it? |
| `task_billing` | 1,360,732 | is a task charged once, for what it used, whatever fails on the way? |
| `task_billing_codex` | violation | is every completed request in the bill? |
| `relay` | 533,048 | order, uniqueness and silence with three connections |
| `rooms` | 78,483 | do the statements of PostgreSQL do what the service in memory does, and keep owners and imports right? |
| `auth` | 797,164 | do revocations, tokens and counters hold against requests that run beside them? |
| `auth_device` | violation | is a revoked device out, whatever ran beside its revocation? |
| `agent_task` | 350,405 | safety of a whole run, and that it ends |
| `codex_task` | 411,423 | does a stop end a task and decide its outcome unless its start throws, is nothing left of one that has ended, and is usage billed to its own? |
| `campaign` | 2,042,911 | is nobody mailed twice, and nobody left out? |

Properties by component:

* `HeldByOpenReservations`, `BucketsBackWallet`, `SettledOnce`,
  `LedgerCoversWallet`, `SoonestUnexpiredFirst` and the refinement
  `ImplementsAccount` (Wallet).
* `BooksBalance` (wallet, buckets, reservations and ledger agree), `EndedIsFree`,
  the liveness property `PaidIsCredited` and the refinement `AgreesWithPool`
  (PaymentWebhook with OrganizationWallet).
* `ShownIsBilled`, `OneReceiptUnbilled`, `OneFailureIsRetried` and the refinements
  `ImplementsBill` and `ImplementsAccount` (TaskBilling).
* `WaitsOnlyForPeer`, `OneQueuePerChannel`, `RevokedIsSilent` and the refinement
  `ImplementsChannel` (RelayBroker).
* `OwnerRemains`, `ImportedInOrder`, `RejectedStays` and the
  refinement `AgreesWithMemory` (RoomStore).
* `SweepEndsSessions`, `RevocationHolds`, `TokensUsedOnce`, `GuessesBounded`
  (AuthSessions). Each names the overlaps for which the code gives no such
  promise; `RevokedDeviceIsOut` is what the documentation says without them.
* `NothingUnapproved`, `OutcomeAgrees`, `TransitionsAllowed`, `SpendingApproved`,
  `NothingAfterStop`, `StoppedIsNotFailed` and `Terminates` (AgentTask).
* `StopWins`, `EndedIsGone`, `UsageIsOwn` and the liveness property `StopEnds` (CodexTask).
* `MailedOnce`, `SentCoversList` (EmailCampaign).

The type invariants hold on the same instances. Those of the components with
proofs, and `WithinCapacity` of the relay's queues, are theorems or parts of the
invariants proved, so the runs leave them out.

Every property of a passing run has a mutant: a small change of one mapped
definition, written beside it in the module, that makes the property fail.

### Bounds, and why they are enough

* **Wallet.** Two connections are the smallest number that races. Five credits in
  an expiring bucket and one in a permanent one make the reservations of 2 and 3
  span buckets and exceed what is left; three clock values let a bucket expire
  before, while and after it is held; the rollover draws from a bucket that a
  reservation holds in part; a billable amount of 14 rounds down, one of 35
  rounds up and exceeds its reservation, one of 0 returns all of it; two
  settlement keys may name one reservation.
* **Payments.** Five scenarios, each with the events that touch the same rows:
  reservations over a top-up and a period's credits, a renewal while credits are
  held, an organization's subscription that begins, halts and is activated late,
  a single user's that is cancelled, and a single user's payments with a failure
  and a refund. Two handlers are side by side; one fault or repetition falls at any
  point of the three scenarios without tasks; one credit of the migration is in no
  bucket, so that the balance exceeds the buckets; three clock values let a period
  end while its credits are held. The validity of a top-up, 365 days by default, is
  scaled down to `TopUpPeriods` = 2 periods from its payment: one paid at the
  first clock value expires at the last, with or without reservations on it, one paid
  later outlives the run.
* **TaskBilling.** Two tasks, one on each runtime, race for the job limit of one and
  for the balance: 3 credits suffice for one ceiling of 2, 4 for both. A request
  costs 14 tenths, so the Codex task is within its ceiling and the second request
  of the other task takes it above. One fault (a call that fails, an answer that is
  lost, a quit) at any point leaves the second settlement to repair it;
  `OneFailureIsRetried` says what that repairs, and with two faults says nothing.
* **Relay.** Queues of two and three messages fill both kinds of queue; three
  connections allow two of one role with one of the other, and a reconnection; the
  client's grant expires before the host's; one device can be revoked; a second
  session shows what must not be touched. The two messages that need a permission
  are interchangeable, so the run uses their symmetry.
* **Rooms.** Two users, one room, a seat for each, and three calls at a time, one of
  them the desktop's. The four plans bring together the calls that write the same
  rows: members who manage each other and leave; a host that changes while grants
  are out; a file that is approved, rejected, deleted and imported at once; and a
  member who may write but not approve. A call may be made any number of times.
* **Auth.** Four requests are the most that meet on one row in the scenarios: a
  revocation, a refresh, the refresh of its result, and a sign-in or another
  sweep. A limit of two guesses is exceeded by three; one scenario has a right password
  of an account that may not sign in yet among the wrong ones. The clock passes every time
  to live once, in the scenarios where that matters.
* **AgentTask.** Three model calls reach the runaway guard (three identical
  actions), a failed repair, and two requests in sequence; one repair, one command
  and one extension reach each budget's limit; receipts of 1 and 2, at most 4 in
  all, exceed the estimate and then the extension; the actions are a patch that
  the policy allows, a command it asks about and one it denies.
* **CodexTask.** Two tasks without mishaps show the overlap of starts; one task with
  every mishap (a refused request, an exception, garbage, an exit, an expired
  token, a sign-out) shows the rest. The process asks under the ids 0, 3 and 4:
  one that no request has, and those of `turn/start` and of the interrupt.
* **EmailCampaign.** Two users, two processes, and two requests at a time: the
  campaign sent twice, an event delivered twice, or one of each, and a letter beside an
  event, or two test letters, whose requests have ids 1 and 2 so that each process
  can give the same one; one change of a preference or an account and one restart at
  any point.

`CHECK_DEADLOCK FALSE` where the system may stop: a wallet with all keys used, a
desktop whose tasks are all over, a broker at its bound of connections and messages,
requests that have all been answered, a task that is over.

### Fairness

* `Terminates` (AgentTask). `WF_vars(Run)`: a port that is awaited answers or
  fails in the end, for commands and verification have timeouts, `fetch` has its
  own, and the runner itself is not blocked by anything else. `WF_vars(Clock)`: the
  wall time passes and the `setTimeout` of `start` fires. Nothing is assumed of the
  user: a task that waits for an approval ends through the deadline.
* `StopEnds` (CodexTask). The desktop's own steps go on, its fetches included; the
  process answers a request that waits or exits, and exits when it was killed
  (`child.kill()` in `stop`). Nothing makes it end its turn and nothing
  makes the user answer.
* `PaidIsCredited` (PaymentWebhook). The provider delivers what it owes, again after
  an error, as Razorpay does for a day; a handler goes on unless it fails or
  crashes, of which there is a bounded number; the transaction that holds the
  wallet's lock ends, and who waits for it gets it (PostgreSQL queues them, hence
  `SF`); time passes.

The other models carry no fairness; they promise safety only.

## 4. Findings

Runs that show a disagreement between the code and what the repository says:

* **A reservation over two buckets cannot be settled in full**
  (`org_settle`, postgres-organization-billing.ts:627). Each bucket is charged
  `min(settled, its part)`, so the charge is taken more than once; the CHECK of the
  bucket row undoes the transaction. A task billed to an organization stays
  reserved for good. The personal store and the store in memory spread the charge.
* **A refresh outlives the revocation of its device** (`auth_device`,
  service.ts:290). The device that refresh has read is written back after
  `revokeDevice`, together with a new session.
* **A completed request may go unbilled** (`task_billing_codex`). On the Codex
  route the desktop sees the completion before the receipt is in the table. The
  task may end and be settled in between; the receipt is saved to a task that has
  no open reservation.

Observed while modelling, in the models but not runs of their own:

* *Wallet:* when a settlement returns credits to a bucket that has expired, they are
  expired a second time and the ledger entry is skipped, for its key is taken; the
  ledger then shows more than the wallet has (`LedgerCoversWallet` allows it).
* *Relay:* `send` remembers an id before it finds the queue full, so the retry that
  BACKPRESSURE invites is refused as a message that was accepted.
* *Agent task:* only the repair budget is consulted before `REPAIRING`, so a repair
  may begin without a model call left for it; `authorize` shows a request before it
  registers the resolver, so an early answer is lost (`requestCostExtension`
  registers first).
* *Job limit:* the count of open reservations and the reservation are two steps, so
  tasks that start together may exceed the plan's limit. A task that outlives a
  sign-out keeps its credits reserved, for `settleTask` does nothing without a
  session.
* *Organization wallet:* a rollover between a reservation's lock and its statement
  makes it fail or draw from fewer buckets (`raced`). A rollover bucket may be
  rolled over once more. Late events move newer credits into a bucket that expires
  earlier.
* *Payments:* a crash after the claim loses the event (`stopped` in
  `PaidIsCredited`). A late `payment.failed` overwrites CAPTURED in PostgreSQL,
  while the store in memory keeps the first row. The end of an old subscription
  makes the user FREE though a newer one is active. A pooled plan without an
  organization fails on every delivery. `assignPlan` writes back the whole user and
  may undo a disabling. A charge that is handled after the cancellation makes the
  row ACTIVE and the plan paid again; `EndedIsFree` goes by the row and does not judge
  that.
* *Rooms:* PostgreSQL gives a removed member a role and redeems an invitation of an
  organization that is not active, which the service in memory refuses (`Lenient`,
  `RedeemsInactive`); the service in memory lets an owner be demoted, which
  PostgreSQL refuses. Seats are counted before the organization is locked and not
  when an invitation is redeemed. A rejection that arrives after the completion
  still marks the import REJECTED. The desktop compares the room's host with every
  device of its user, so it may write the import on a device that is not the host.
  A grant that is handed out and not yet used survives the removal of its member
  from the room's connections until it expires, unless it is checked again.
* *Auth:* `resend-otp` retires the mailed code and mails no new one; a right
  password beside wrong ones resets window and lockout, even for an account that is
  not yet verified or is disabled; the attempts of a code may
  go backward; a state is spent when the provider's exchange fails; a registration
  that fails after the account is saved leaves EMAIL_IN_USE without credits. Two
  refreshes with one token side by side may both succeed; `TokensUsedOnce` is about
  links, reset tokens, states and desktop codes, and not about refresh tokens.
* *Codex:* of two overlapping starts the first to end clears `active`, and the other
  task can no longer be stopped; ids of requests in both directions share one
  space; when the process exits without ending its turn, only a stop ends the task;
  the token of a task is never renewed. A stop does not decide everything: when
  `turn/start` is still pending at the stop and then fails (refused, cut off by the
  exit, or answered by mistake), or the desktop's loading of the receipts or its
  `finalize` throws, the catch of `start` emits `task.failed` after `task.cancelled`
  and throws (codex-task-runner.ts:255-261). `StopWins` names these two exceptions.
* *Email:* a failed recipient is never tried again; a campaign that failed stays
  SENDING; a user who unsubscribes after the list was made is still mailed; a
  recipient's row may say FAILED while the delivery says SENT. The key of a test letter
  has the server's request id, which restarts with the process (email-route.ts:202), so
  a test letter may be taken for an earlier one and not be sent. The statement of
  `saveRecipientState` has an untyped `CASE ... $6 ELSE NULL END` for a `timestamptz`
  column (postgres-email.ts:191), which PostgreSQL may refuse as text; the model takes
  the statement as written to succeed.

## 5. Proofs

All theorems hold for every value of the constants that satisfies the named
assumption of the module (`ConstantsAssumption`, `WalletAssumption` and
`WebhookAssumption`, `BillingAssumption`, `RelayAssumption`,
`TaskAssumption`, `TasksAssumption`, `StoreAssumption`, `EmailAssumption`, and
`TablesAssumption`, `NoRowAssumption` and `ScenariosAssumption` of the authentication),
which TLC also evaluates in each run. `ScenariosAssumption` says that the requests of a
scenario bring what their routes accept, in any number and combination;
`WebhookAssumption` that events and tasks are those the routes let through, and that the
events of one subscription name the same organization, for they all carry its notes.

**Wallet.** `TypeCorrect`, then `ReservationsSettledOnce`. The latter needs
types alone besides itself: a settlement marks its reservation SETTLED in the step
that records it, so an open reservation has none. `StoreImplementsAccount` maps
every operation to a step of `CreditAccount` or to a stutter: a grant or an
adjustment in credit deposits or, when as much expires in the same transaction,
stutters or writes off; reserve opens a hold and writes off what it finds expired;
settle closes one; the other operations stutter or write off.

`HeldIsReserved` and `BucketsPayTheWallet` are proved with one invariant,
`BooksInvariant`: the buckets are numbered, so that the order in which they are drawn is
total; what an open reservation has allocated adds up to its amount; the allocations of
the open reservations from a bucket add up to what the bucket has reserved; and the
buckets add up to the wallet. The step that is not bookkeeping is `DrawsMeet`: a
reservation draws its amount from the soonest bucket on, a settlement returns the rest
from the latest one on, and the two draws of one allocation meet without a gap or an
overlap, so that each bucket keeps exactly its part of the charge. `DrawsSoonestFirst`
is about one step, the reservation, in a state of that invariant. `LedgerCovers` is
inductive by itself, for a sweep logs at most what it expires.

**Payments.** The theorems about `PaymentWebhook` and `OrganizationWallet` are in
`WalletProofs` too. `PaymentsInvariant`, inductive, has three parts. `PaymentsTyped` is
types and `HandlersFit`: what a handler has left to do are effects its event can have.
`WalletSound` is what the wallet's transactions rely on: a row that was not made is empty
(`UnmadeEmpty`), the holder of the lock asks for a reservation not yet made and sees
buckets that are there (`HolderAsks`), holds are on buckets that were made (`HoldsOfMade`),
and buckets are numbered without repetition (`Numbered`), which makes the order of a draw
total. `EndingsInvariant` is for `EndedSubscriptionIsFree`: an entitlement was opened by a
charge that names an organization (`Opened`), so the end of the subscription names it
and closes it; and while no two handlers have overlapped (`OneByOne`), the effects that
the handler at work has left will make true what must hold when it ends (`WillBeFree`),
unless an earlier event is half done.

`WalletAgreesWithPool` is the refinement of `OrganizationPool`, transaction by
transaction: with all made buckets in sight, and none of the others holding anything, the
statement under the lock reads and writes what the store in memory does. The buckets of
that store have no reserved column, so a settlement that gets past the CHECKs agrees
with it in what it gives back to each bucket.

`PaymentsBooksBalance` adds three parts (`PoolBooks`): a reservation has drawn all of its
amount or nothing (`HoldsDrawn`); the key of every ledger entry is used, so that a
transaction's entries are new (`LedgerKnown`, with which a sum over the ledger grows by
what is added); and, unless a rollover has overtaken a reservation, `PoolBooksRight`, which
is `BooksBalance` over named sums. The step that is not bookkeeping is that a draw over
enough credits takes exactly its amount and that giving back returns exactly what is
asked (`FillsUp`, `GivesBackAll`): the units of the credits, in the order of the draw,
are numbered from 1 on, and the draw takes those up to the amount. `ExpiriesSum` bounds
what an expiry logs by what it takes.

**TaskBilling.** The invariant `Flow` has five parts: a task is settled only after
its run (`NotBefore`); what a call has listed covers what is owed and is recorded
(`Listed`); an open hold has the ceiling as its amount and no settlement, and a
settlement covers what is owed (`Unsettled`); a request with a receipt is over
(`SavedOnce`); the model route shows only what is saved, and nothing after the run
(`ShownInTime`). `WhatIsShownIsBilled` is a consequence: what is shown was saved
before the settlement, so it is owed, so it is listed. `FlowImplementsBill` maps
`Save` to `Record`, the first settlement call of a task to `Finish`, `Settle` to
`Charge` and all else to a stutter; `FlowUsesAccount` maps `HoldCredits` and
`Settle` to `Open` and `Close`.

`OneReceiptAtMostUnbilled` counts: of a task on the model route at most one request is
under way or has a receipt that nobody owes (`OneUnanswered`), for the route serves one
request of a task at a time and sends none after the run. `OneFailureAloneIsRetried`
rests on three: what is held is what the open holds add up to (`HeldIsOpen`, by counting
single credits), a task has its hold before it is active (`HeldFirst`), and a settlement
that was refused or not answered is one of the failures so far (`Failures`), so that with
one failure the second call finds the hold open and enough held to close it.

**RelayBroker.** The inductive invariant adds to the checked ones that numbers
above `opened` are not live and have empty queues, that what is accepted is in
`seen`, and that what is in transit was accepted. `OneQueuePerChannel` and
`WaitsOnlyForPeer` depend on each other: a pending list is empty while a receiver
is there, so a connection that is opened as a second receiver starts with an
empty queue. `BrokerImplementsChannel` follows: only the first receiver's queue
and the pending list hold messages, and never both kinds out of order.

**AgentTask.** The invariant `Control` says which state the task is in at every
`pc`, which decision it is on and what its listeners have been told; it gives
`TaskInvariants` (types, `NothingUnapproved`, `OutcomeAgrees`). Every step that
changes the state is a transition of the flow or a throw (`StateMoves`), from
which `TransitionsAreAllowed` and `StoppedTasksDoNotFail` follow;
`NothingHappensAfterStop` needs no invariant. `SpendingIsApproved` uses a second
invariant: the limit is the estimate plus one allowance for each checkpoint, and
there are at most as many checkpoints as approved extensions other than the open
one.

**CodexTask.** The invariant `Inv` says of each task that a request of the start
waits only at the `pc` that has sent it (so an answer, a refusal or a garbled line
finds the start where it can take it), that a process is up only from its spawn to
the end of the start, and that nothing is finalized without a completion. Of the
tasks together it says that the active one is between its thread's start and its
finally handler, and that a start that no other has overlapped excludes every other
start and is the active task while it listens. `StopAlwaysWins` needs this last
part: only then does a stop in time reach the task, and `StopHeld` is kept by every step:
cancelled, with no completion but `cancelled`, and either nothing has thrown, or what
threw first is `turn/start` or the desktop's own work, which are the exceptions that
`StopWins` names: the awaits before the turn's start are over at a stop in time. `EndedAlwaysGone` follows from
the first parts, overlapping starts included. `UsageAlwaysOwn` is inductive by
itself: a call counts only where the context that the process has read is its own.

**RoomStore.** `OwnerAlwaysRemains` needs to know what calls in flight assume:
`StillTrue` says that a call that adds the first owner finds the room without
members and is the only one of its room, and that a role or a status is changed only
of a member who is no owner, which nothing makes untrue because the store refuses to
touch owners; `MembersFirst` says that invitations and imports are of rooms that have
members. `ImportsGoInOrder` follows an import through the desktop (`DeskRight`): what
is written was approved by someone who could, and what is reported complete was
written by this device. `RejectionIsFinal` needs no invariant. `UndisturbedCallsAgree`
is the step-by-step refinement of `RoomAccess`, for the steps `AgreesWithMemory` names:
`Fresh` says that what an undisturbed call has read is still so, and each write is
then a step of the service in memory.

**EmailCampaign.** `NoMessageTwice` from `Once`: for a key that is not excused, one
request at most is between its look-up and its row, and if the provider has taken the
message then `email_events` has a row or that request is about to write it.
`SendsCoverTheirList` from `CoveredBy` (a listed user is still to come, is in hand, or
has a row) and `SaysSent` (whatever says SENT is of a message that was delivered).

**AuthSessions.** The programs are data, so the proof first says once what they have in
common (`Placed`: which statements come before which, and in which programs) and what
any step does to its request (`Does`): it goes on, ends, and keeps what it has read. The
steps are then told apart only where a property needs it. `Base` is the invariant
common to all: types; what a request holds is still a row when it writes it back
(`Ready`); a row named by a request appears by that request's own statement (`Made`); and
the requests before another one are over (`Ended`). `RowsRemain` states it. On it rest
five more:

* `TokensSpent` for `TokensWorkOnce`: a claim leaves its token used and finds it unused,
  so no two claim one; a read link is unused, so a request that comes after a successful
  one does not read it.
* `Swept` for `SweepsEndSessions`: after the list is made, a valid session is still on
  it or goes back to a request that is excused (`Outlives`), and a refresh that found
  its session later found an excused one.
* `DeviceRevoked` and `UserDisabled` for `RevocationsHold`: who writes the row back has
  read it before, and an excuse, once there, stays.
* `CodesGuessed` for the first part of `GuessesAreBounded`: as long as no two guessers of
  a code overlap, the row counts every one that is over, and the one that runs holds the
  count it will add to.
* `Timed`, `Unlocked` and `PasswordsTried` for the second: while nothing excuses a further
  wrong password of a time, the process has counted those before it and the lock, if
  there is one, ends after that time; a log-in that no other overlaps finds no lock when it
  brings its password.

Only model-checked: `Terminates`, `StopEnds` and `PaidIsCredited`, which are liveness
and beyond the prover. Every other property of a passing run is a theorem.

## 6. Plan

Models: the transport around the broker with an abstraction of the `ws`
callbacks, with the specification that host actions start in the order in which a
client sent them; the batch writer of `packages/workspace` with a crash between two
files.

## 7. Not modelled

* The WebSocket server, the client and the host bridge around the broker: what
  happens is decided by the order of callbacks of the `ws` library, whose source is
  not in the repository. Two observations from reading: the client installs its
  listener after an await (`websocket-client.ts:81`), and a stop may overtake the
  prompt it was sent after, for host actions are authorized asynchronously
  (`desktop-bridge.ts:60`).
* The batch writer, commands and Git: their outcomes are inputs of `AgentTask` and
  `RoomStore`; what a crash leaves is the file system's.
* The personal billing store in memory (tests and development only),
  `WorkspaceWriteCoordinator` (tests only), pairing codes (one Map operation) and
  session texts.
* Of modelled components: the creation of an organization and the audit log of
  rooms, sender administration, the limits of the other routes
  (the same code with other keys), billing a task to an organization from the
  desktop (the organization's wallet is in `PaymentWebhook`), mails of the webhooks
  (they are in `EmailCampaign`).
* Pure functions of text (path security, command policy, redaction, prompt
  injection screening), static catalogues (plans, pricing, modes, model catalogue),
  registries without concurrent state (MCP, plugins, skills, marketplace,
  integrations, releases), the user interfaces, and third parties (the payment
  provider, the email provider, model providers), which appear only as the inputs
  they give.
