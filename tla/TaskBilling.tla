---------------------------- MODULE TaskBilling ----------------------------
(***************************************************************************)
(* How a task of one user is paid for: startTask of the desktop            *)
(* (apps/desktop/electron/desktop-runtime.ts), the reservation and the     *)
(* settlement route (apps/api/src/billing-route.ts), the two routes that   *)
(* serve a model (model-route.ts and codex-runtime-route.ts) and the       *)
(* service that checks the plan (packages/billing/src/service.ts).  Tasks  *)
(* run side by side; a call may fail on its way, fail in the API, or lose  *)
(* its answer while the API goes on with it.                               *)
(*                                                                         *)
(* The wallet appears as what it promises, CreditAccount, which Wallet     *)
(* implements: a reservation is a hold, named by its task.  The receipts   *)
(* table is the set of the requests that have a row, with the sum of the   *)
(* cost column of each task.                                               *)
(***************************************************************************)
EXTENDS Naturals, FiniteSets

CONSTANTS
  Tasks,             \* tasks, each with a fresh id and therefore fresh keys
  Requests,          \* model requests
  TaskOf,            \* [Requests -> Tasks]
  Runtime,           \* [Tasks -> {"codex", "legacy-test"}], the desktop's runtimeMode
  Ceiling,           \* [Tasks -> Nat], creditsFromUsd(maxEstimatedCostUsd)
  Costs,             \* costs a receipt may state, in tenths of a credit
  Openings,          \* what the wallet may hold at first
  ConcurrencyLimit,  \* jobs the plan allows at a time
  MaxFaults          \* bound: calls that fail or lose their answer, quits

Runtimes == {"codex", "legacy-test"}

ASSUME BillingAssumption ==
  /\ TaskOf \in [Requests -> Tasks]
  /\ Runtime \in [Tasks -> Runtimes]
  /\ Ceiling \in [Tasks -> Nat]
  /\ Costs \subseteq Nat
  /\ Openings \subseteq Nat
  /\ ConcurrencyLimit \in Nat
  /\ MaxFaults \in Nat

VARIABLES
  signedIn,          \* authSession is set
  pc,                \* where startTask of each task stands
  active,            \* tasks with an entry in activeReservationIds
  reserve,           \* the reservation call of each task
  settle,            \* the settlement calls: one in the try block, one in catch
  request,           \* the model requests
  shown,             \* requests whose usage the desktop has been told
  receipts,          \* requests with a row in usage_receipts
  usage,             \* sum of actual_cost_usd of the receipts of each task
  free, held, spent, hold,     \* the wallet
  settlement,        \* the usage_settlements row of each reservation
  owed,              \* history: the receipts there when a task was first settled
  faults             \* failures so far

Account == INSTANCE CreditAccount WITH Holds <- Tasks

desktop == <<signedIn, pc, active>>
calls == <<reserve, settle>>
serving == <<request, shown>>
table == <<receipts, usage>>
wallet == <<free, held, spent, hold, settlement>>
vars == <<desktop, calls, serving, table, wallet, owed, faults>>

Attempts == {"try", "catch"}
\* "unsettled" is "threw" after a second settlement that found no session.
Ended == {"returned", "threw", "unsettled", "quit"}
NoCall == [stage |-> "none", listed |-> {}, usd |-> 0]
NoSettlement == [done |-> FALSE, listed |-> {}, usd |-> 0, credits |-> 0]

Places == {"idle", "reserving", "running", "settling", "resettling"} \cup Ended
Call == [stage : {"none", "sent", "listed", "accepted", "refused"},
         listed : SUBSET Requests, usd : Nat]
Request == [stage : {"unsent", "sent", "admitted", "metered", "over"}, cost : Nat]
Hold == [status : {"none", "open", "closed"}, amount : Nat]
Settlement == [done : BOOLEAN, listed : SUBSET Requests, usd : Nat, credits : Nat]

TypeOK ==
  /\ signedIn \in BOOLEAN
  /\ pc \in [Tasks -> Places]
  /\ active \in SUBSET Tasks
  /\ reserve \in [Tasks -> {"none", "sent", "counted", "accepted", "refused"}]
  /\ settle \in [Tasks -> [Attempts -> Call]]
  /\ request \in [Requests -> Request]
  /\ shown \in SUBSET Requests
  /\ receipts \in SUBSET Requests
  /\ usage \in [Tasks -> Nat]
  /\ free \in Nat /\ held \in Nat /\ spent \in Nat
  /\ hold \in [Tasks -> Hold]
  /\ settlement \in [Tasks -> Settlement]
  /\ owed \in [Tasks -> SUBSET Requests]
  /\ faults \in 0 .. MaxFaults

Init ==
  /\ signedIn = TRUE
  /\ pc = [t \in Tasks |-> "idle"]
  /\ active = {}
  /\ reserve = [t \in Tasks |-> "none"]
  /\ settle = [t \in Tasks |-> [k \in Attempts |-> NoCall]]
  /\ request = [q \in Requests |-> [stage |-> "unsent", cost |-> 0]]
  /\ shown = {}
  /\ receipts = {}
  /\ usage = [t \in Tasks |-> 0]
  /\ free \in Openings /\ held = 0 /\ spent = 0
  /\ hold = [t \in Tasks |-> [status |-> "none", amount |-> 0]]
  /\ settlement = [t \in Tasks |-> NoSettlement]
  /\ owed = [t \in Tasks |-> {}]
  /\ faults = 0

Fault == faults < MaxFaults /\ faults' = faults + 1

-----------------------------------------------------------------------------
(* The reservation *)

\* startTask without a session: the runner starts without a reservation.
StartUnpaid(t) ==
  /\ pc[t] = "idle" /\ ~signedIn
  /\ pc' = [pc EXCEPT ![t] = "running"]
  /\ UNCHANGED <<signedIn, active, calls, serving, table, wallet, owed, faults>>

Start(t) ==
  /\ pc[t] = "idle" /\ signedIn
  /\ pc' = [pc EXCEPT ![t] = "reserving"]
  /\ reserve' = [reserve EXCEPT ![t] = "sent"]
  /\ UNCHANGED <<signedIn, active, settle, serving, table, wallet, owed, faults>>

OpenReservations == {t \in Tasks : hold[t].status = "open"}

\* reserveTask counts the open reservations and asks the plan.
CountJobs(t) ==
  /\ reserve[t] = "sent"
  /\ reserve' = [reserve EXCEPT ![t] =
       IF Cardinality(OpenReservations) < ConcurrencyLimit THEN "counted" ELSE "refused"]
  /\ UNCHANGED <<desktop, settle, serving, table, wallet, owed, faults>>

Suffices(t) == free >= Ceiling[t]

\* reserveCredits; by then other tasks may have reserved.
HoldCredits(t) ==
  /\ reserve[t] = "counted" /\ hold[t].status = "none"
  /\ IF Suffices(t)
     THEN /\ hold' = [hold EXCEPT ![t] = [status |-> "open", amount |-> Ceiling[t]]]
          /\ held' = held + Ceiling[t]
          /\ free' = free - Ceiling[t]
          /\ reserve' = [reserve EXCEPT ![t] = "accepted"]
          /\ UNCHANGED <<spent, settlement>>
     ELSE reserve' = [reserve EXCEPT ![t] = "refused"] /\ UNCHANGED wallet
  /\ UNCHANGED <<desktop, settle, serving, table, owed, faults>>

\* The call does not arrive, the session is refused, or the API fails.
ReserveFails(t) ==
  /\ reserve[t] \in {"sent", "counted"} /\ Fault
  /\ reserve' = [reserve EXCEPT ![t] = "refused"]
  /\ UNCHANGED <<desktop, settle, serving, table, wallet, owed>>

Reserved(t) ==
  /\ pc[t] = "reserving" /\ reserve[t] = "accepted"
  /\ pc' = [pc EXCEPT ![t] = "running"]
  /\ active' = active \cup {t}
  /\ UNCHANGED <<signedIn, calls, serving, table, wallet, owed, faults>>

NotReserved(t) ==
  /\ pc[t] = "reserving" /\ reserve[t] = "refused"
  /\ pc' = [pc EXCEPT ![t] = "threw"]
  /\ UNCHANGED <<signedIn, active, calls, serving, table, wallet, owed, faults>>

\* fetch fails although the API goes on: the id of the reservation is unknown.
ReservationLost(t) ==
  /\ pc[t] = "reserving" /\ Fault
  /\ pc' = [pc EXCEPT ![t] = "threw"]
  /\ UNCHANGED <<signedIn, active, calls, serving, table, wallet, owed>>

-----------------------------------------------------------------------------
(* Model requests *)

Running(t) == pc[t] = "running"

\* Mutant: the runner asks the model again while it is still being answered.
Busy(t) == Running(t)

\* The runner has one request at a time, and sees the end of an answer of the
\* Codex route when the usage is shown.
Quiet(t) ==
  /\ Running(t)
  /\ \A q \in Requests : TaskOf[q] = t =>
       request[q].stage \in {"unsent", "over"} \/ q \in shown

\* The request carries the reservation and the access token.
SendRequest(q) ==
  /\ request[q].stage = "unsent" /\ Quiet(TaskOf[q])
  /\ TaskOf[q] \in active /\ signedIn
  /\ request' = [request EXCEPT ![q].stage = "sent"]
  /\ UNCHANGED <<desktop, calls, shown, table, wallet, owed, faults>>

\* The route looks at the reservation once, before it calls the gateway.
Admit(q) ==
  /\ request[q].stage = "sent" /\ hold[TaskOf[q]].status = "open"
  /\ request' = [request EXCEPT ![q].stage = "admitted"]
  /\ UNCHANGED <<desktop, calls, shown, table, wallet, owed, faults>>

\* Refused, aborted because the client has gone, failed, or without usage.
NoUsage(q) ==
  /\ request[q].stage \in {"sent", "admitted"}
  /\ request' = [request EXCEPT ![q].stage = "over"]
  /\ UNCHANGED <<desktop, calls, shown, table, wallet, owed, faults>>

\* Mutant: the model route, too, answers before it saves.
ShownUnsaved(t) == TRUE

\* The Codex route writes response.completed before it saves the receipt, the
\* model route writes the usage event after.
ShownFirst(t) == Runtime[t] = "codex"

\* What is written to a client that has gone is not seen.
SeenNow(q) == IF Running(TaskOf[q]) THEN shown \cup {q} ELSE shown

Meter(q, cost) ==
  /\ request[q].stage = "admitted"
  /\ request' = [request EXCEPT ![q] = [stage |-> "metered", cost |-> cost]]
  /\ shown' = IF ShownFirst(TaskOf[q]) THEN SeenNow(q) ELSE shown
  /\ UNCHANGED <<desktop, calls, table, wallet, owed, faults>>

Save(q) ==
  /\ request[q].stage = "metered"
  /\ request' = [request EXCEPT ![q].stage = "over"]
  /\ receipts' = receipts \cup {q}
  /\ usage' = [usage EXCEPT ![TaskOf[q]] = @ + request[q].cost]
  /\ shown' = IF ShownFirst(TaskOf[q]) THEN shown ELSE SeenNow(q)
  /\ UNCHANGED <<desktop, calls, wallet, owed, faults>>

SaveFails(q) ==
  /\ request[q].stage = "metered" /\ Fault
  /\ request' = [request EXCEPT ![q].stage = "over"]
  /\ UNCHANGED <<desktop, calls, shown, table, wallet, owed>>

-----------------------------------------------------------------------------
(* The settlement *)

\* Mutant: the receipts of every task.
AllReceipts(t) == receipts

\* listForTask
ReceiptsOf(t) == {q \in receipts : TaskOf[q] = t}

Sent(t, k) == [settle EXCEPT ![t][k].stage = "sent"]
FirstSettled(t) == \A k \in Attempts : settle[t][k].stage = "none"

\* settleTask with a reservation and a session: the call goes out.
SendSettlement(t, k) ==
  /\ pc' = [pc EXCEPT ![t] = IF k = "try" THEN "settling" ELSE "resettling"]
  /\ settle' = Sent(t, k)
  /\ owed' = IF FirstSettled(t) THEN [owed EXCEPT ![t] = ReceiptsOf(t)] ELSE owed
  /\ UNCHANGED active

\* startTask is over; finally forgets the reservation.
End(t, how) ==
  /\ pc' = [pc EXCEPT ![t] = how]
  /\ active' = active \ {t}

\* The runner's start returns, or throws; it may do so at any time, for a
\* cancelled task returns as well.  Without a session settleTask does nothing.
RunEnds(t, k) ==
  /\ Running(t)
  /\ IF t \in active /\ signedIn
     THEN SendSettlement(t, k)
     ELSE End(t, IF k = "try" THEN "returned" ELSE "threw") /\ UNCHANGED <<settle, owed>>
  /\ UNCHANGED <<signedIn, reserve, serving, table, wallet, faults>>

ListReceipts(t, k) ==
  /\ settle[t][k].stage = "sent"
  /\ settle' = [settle EXCEPT ![t][k] =
       [stage |-> "listed", listed |-> ReceiptsOf(t), usd |-> usage[t]]]
  /\ UNCHANGED <<desktop, reserve, serving, table, wallet, owed, faults>>

CreditsFromUsd(usd) == (usd + 5) \div 10

\* Mutant: what a settled reservation holds may be charged again.
ChargeableAgain(t, usd) ==
  hold[t].status # "none" /\ CreditsFromUsd(usd) <= hold[t].amount

\* The reservation is open and covers the cost; reserved_credits may not
\* become negative.
Chargeable(t, usd) ==
  /\ hold[t].status = "open"
  /\ CreditsFromUsd(usd) <= hold[t].amount
  /\ hold[t].amount <= held

\* settleCredits, with the cost of the receipts that were listed.
Settle(t, k) ==
  LET call == settle[t][k]
      credits == CreditsFromUsd(call.usd)
  IN
  /\ call.stage = "listed" /\ Chargeable(t, call.usd)
  /\ hold' = [hold EXCEPT ![t].status = "closed"]
  /\ held' = held - hold[t].amount
  /\ spent' = spent + credits
  /\ free' = free + (hold[t].amount - credits)
  /\ settlement' = [settlement EXCEPT ![t] =
       [done |-> TRUE, listed |-> call.listed, usd |-> call.usd, credits |-> credits]]
  /\ settle' = [settle EXCEPT ![t][k].stage = "accepted"]
  /\ UNCHANGED <<desktop, reserve, serving, table, owed, faults>>

\* Both attempts use one key: with the same cost the second is a replay, with
\* another it is a conflict; and what was not held cannot be charged.
NotSettled(t, k) ==
  LET call == settle[t][k]
  IN
  /\ call.stage = "listed" /\ ~Chargeable(t, call.usd)
  /\ settle' = [settle EXCEPT ![t][k].stage =
       IF settlement[t].done /\ settlement[t].usd = call.usd THEN "accepted" ELSE "refused"]
  /\ UNCHANGED <<desktop, reserve, serving, table, wallet, owed, faults>>

SettleFails(t, k) ==
  /\ settle[t][k].stage \in {"sent", "listed"} /\ Fault
  /\ settle' = [settle EXCEPT ![t][k].stage = "refused"]
  /\ UNCHANGED <<desktop, reserve, serving, table, wallet, owed>>

Settled(t) ==
  /\ pc[t] = "settling" /\ settle[t]["try"].stage = "accepted"
  /\ End(t, "returned")
  /\ UNCHANGED <<signedIn, calls, serving, table, wallet, owed, faults>>

\* Mutant: what settleTask throws is passed on.
PassOn(t) == End(t, "threw") /\ UNCHANGED <<settle, owed>>

\* catch: settle once more.
TryAgain(t) ==
  IF signedIn THEN SendSettlement(t, "catch")
              ELSE End(t, "unsettled") /\ UNCHANGED <<settle, owed>>

\* The first settlement was refused, or its answer is lost.
SettlementThrows(t) ==
  /\ pc[t] = "settling"
  /\ \/ settle[t]["try"].stage = "refused" /\ UNCHANGED faults
     \/ Fault
  /\ TryAgain(t)
  /\ UNCHANGED <<signedIn, reserve, serving, table, wallet>>

\* However the second one ends, startTask throws.
Resettled(t) ==
  /\ pc[t] = "resettling"
  /\ \/ settle[t]["catch"].stage \in {"accepted", "refused"} /\ UNCHANGED faults
     \/ Fault
  /\ End(t, "threw")
  /\ UNCHANGED <<signedIn, calls, serving, table, wallet, owed>>

-----------------------------------------------------------------------------
(* The user *)

SignInOut ==
  /\ signedIn' = ~signedIn
  /\ UNCHANGED <<pc, active, calls, serving, table, wallet, owed, faults>>

\* The desktop quits; its maps are lost, the API goes on.
Quit ==
  /\ Fault
  /\ \E t \in Tasks : pc[t] \notin Ended \cup {"idle"}
  /\ pc' = [t \in Tasks |-> IF pc[t] \in Ended \cup {"idle"} THEN pc[t] ELSE "quit"]
  /\ active' = {}
  /\ UNCHANGED <<signedIn, calls, serving, table, wallet, owed>>

Next ==
  \/ \E t \in Tasks :
       \/ StartUnpaid(t) \/ Start(t) \/ CountJobs(t) \/ HoldCredits(t) \/ ReserveFails(t)
       \/ Reserved(t) \/ NotReserved(t) \/ ReservationLost(t)
       \/ Settled(t) \/ SettlementThrows(t) \/ Resettled(t)
       \/ \E k \in Attempts :
            RunEnds(t, k) \/ ListReceipts(t, k) \/ Settle(t, k) \/ NotSettled(t, k)
            \/ SettleFails(t, k)
  \/ \E q \in Requests :
       \/ SendRequest(q) \/ Admit(q) \/ NoUsage(q) \/ Save(q) \/ SaveFails(q)
       \/ \E cost \in Costs : Meter(q, cost)
  \/ SignInOut
  \/ Quit

Spec == Init /\ [][Next]_vars

-----------------------------------------------------------------------------
(* Properties *)

Bill == INSTANCE TaskBill WITH
  Usage <- Requests,
  recorded <- receipts,
  due <- owed,
  over <- {t \in Tasks : \E k \in Attempts : settle[t][k].stage # "none"},
  bill <- [t \in Tasks |-> [charged |-> settlement[t].done, usage |-> settlement[t].listed,
                            amount |-> settlement[t].credits]]

\* The whole flow is a TaskBill: with retries, lost answers, receipts that
\* arrive late and two runs side by side, a task is charged once, for what was
\* recorded when it ended, for nothing but its own receipts, within its ceiling.
ImplementsBill == Bill!Spec

\* The wallet is used as it may be: one hold for a task, closed once.
ImplementsAccount == [][Account!Next]_<<free, held, spent, hold>>

\* Usage that the desktop was told of is in the charge.
Covered(t) == settlement[t].done =>
  {q \in shown : TaskOf[q] = t} \subseteq settlement[t].listed

\* The model route saves a receipt before it answers, and the task is settled
\* after its last answer: nothing the desktop has seen goes unbilled.
ShownIsBilled == \A t \in Tasks : Runtime[t] = "legacy-test" => Covered(t)

\* The same for every runtime, as docs/authentication-and-billing.md:11 says.
EveryRequestIsBilled == \A t \in Tasks : Covered(t)

\* A task served by the model route leaves at most one receipt unbilled: that
\* of the request that was on its way when the task ended.
OneReceiptUnbilled ==
  \A t \in Tasks : Runtime[t] = "legacy-test" /\ settlement[t].done =>
    Cardinality(ReceiptsOf(t) \ settlement[t].listed) <= 1

Overrun(t) == CreditsFromUsd(usage[t]) > Ceiling[t]

\* When the runner has returned, one failure alone never leaves a reservation
\* open: only a cost above the ceiling, a sign-out, or a second failure does.
OneFailureIsRetried ==
  \A t \in Tasks :
    /\ pc[t] \in {"returned", "threw"}
    /\ settle[t]["try"].stage # "none"
    /\ hold[t].status = "open"
    => Overrun(t) \/ faults > 1
=============================================================================
