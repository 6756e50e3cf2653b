------------------------- MODULE TaskBillingProofs -------------------------
(***************************************************************************)
(* Theorems about TaskBilling for every set of tasks and requests, every   *)
(* runtime, ceiling, cost and number of failures.                          *)
(***************************************************************************)
EXTENDS TaskBilling, FiniteSetTheorems, TLAPS

-----------------------------------------------------------------------------
(* Types *)

LEMMA RoundingIsNatural ==
  ASSUME NEW usd \in Nat
  PROVE  CreditsFromUsd(usd) \in Nat
BY DEF CreditsFromUsd

LEMMA InitType == Init => TypeOK
BY BillingAssumption
DEF Init, TypeOK, NoCall, NoSettlement, Attempts, Places, Call, Request, Hold, Settlement

\* A call changes its stage, or is made anew.
LEMMA CallType ==
  ASSUME TypeOK, NEW t \in Tasks, NEW k \in Attempts
  PROVE  /\ settle[t][k] \in Call
         /\ settle[t][k].usd \in Nat
         /\ settle[t][k].listed \in SUBSET Requests
         /\ \A stage \in {"sent", "accepted", "refused"} :
              [settle EXCEPT ![t][k].stage = stage] \in [Tasks -> [Attempts -> Call]]
         /\ \A call \in Call :
              [settle EXCEPT ![t][k] = call] \in [Tasks -> [Attempts -> Call]]
<1>1. settle[t][k] \in Call
  BY DEF TypeOK
<1>2. \A stage \in {"sent", "accepted", "refused"} :
        [settle[t][k] EXCEPT !.stage = stage] \in Call
  BY <1>1 DEF Call
<1>3. \A call \in Call : [settle EXCEPT ![t][k] = call] \in [Tasks -> [Attempts -> Call]]
  BY DEF TypeOK
<1> QED
  BY <1>1, <1>2, <1>3 DEF Call

LEMMA SendType ==
  ASSUME TypeOK, NEW t \in Tasks, NEW k \in Attempts, SendSettlement(t, k)
  PROVE  /\ pc' \in [Tasks -> Places]
         /\ settle' \in [Tasks -> [Attempts -> Call]]
         /\ owed' \in [Tasks -> SUBSET Requests]
         /\ active' \in SUBSET Tasks
<1>1. settle' \in [Tasks -> [Attempts -> Call]]
  BY CallType DEF SendSettlement, Sent
<1> QED
  BY <1>1 DEF SendSettlement, TypeOK, Places, ReceiptsOf

LEMMA EndType ==
  ASSUME TypeOK, NEW t \in Tasks, NEW how \in Ended, End(t, how)
  PROVE  pc' \in [Tasks -> Places] /\ active' \in SUBSET Tasks
BY DEF End, TypeOK, Places

LEMMA StepType == TypeOK /\ [Next]_vars => TypeOK'
<1> SUFFICES ASSUME TypeOK, [Next]_vars
             PROVE  TypeOK'
  OBVIOUS
<1> USE BillingAssumption
<1> USE DEF desktop, calls, serving, table, wallet
<1>1. ASSUME NEW t \in Tasks,
             \/ StartUnpaid(t) \/ Start(t) \/ CountJobs(t) \/ ReserveFails(t)
             \/ Reserved(t) \/ NotReserved(t) \/ ReservationLost(t)
      PROVE  TypeOK'
  <2>1. CASE StartUnpaid(t)
    BY <2>1 DEF StartUnpaid, TypeOK, Places
  <2>2. CASE Start(t)
    BY <2>2 DEF Start, TypeOK, Places
  <2>3. CASE CountJobs(t)
    BY <2>3 DEF CountJobs, TypeOK
  <2>4. CASE ReserveFails(t)
    BY <2>4 DEF ReserveFails, Fault, TypeOK
  <2>5. CASE ReservationLost(t)
    BY <2>5 DEF ReservationLost, Fault, TypeOK, Places, Ended
  <2>6. CASE Reserved(t)
    BY <2>6 DEF Reserved, TypeOK, Places
  <2>7. CASE NotReserved(t)
    BY <2>7 DEF NotReserved, TypeOK, Places, Ended
  <2> QED
    BY <1>1, <2>1, <2>2, <2>3, <2>4, <2>5, <2>6, <2>7
<1>2. ASSUME NEW t \in Tasks, HoldCredits(t)
      PROVE  TypeOK'
  <2>1. CASE Suffices(t)
    <3>1. [status |-> "open", amount |-> Ceiling[t]] \in Hold
      BY DEF Hold
    <3>2. hold' \in [Tasks -> Hold]
      BY <1>2, <2>1, <3>1 DEF HoldCredits, TypeOK
    <3>3. free' \in Nat /\ held' \in Nat
      BY <1>2, <2>1 DEF HoldCredits, Suffices, TypeOK
    <3> QED
      BY <1>2, <2>1, <3>2, <3>3 DEF HoldCredits, TypeOK
  <2>2. CASE ~Suffices(t)
    BY <1>2, <2>2 DEF HoldCredits, TypeOK
  <2> QED
    BY <2>1, <2>2
<1>3. ASSUME NEW t \in Tasks, NEW k \in Attempts, RunEnds(t, k)
      PROVE  TypeOK'
  <2>1. CASE t \in active /\ signedIn
    BY <1>3, <2>1, SendType DEF RunEnds, TypeOK
  <2>2. CASE ~(t \in active /\ signedIn)
    <3>1. pc' \in [Tasks -> Places] /\ active' \in SUBSET Tasks
      BY <1>3, <2>2, EndType DEF RunEnds, Ended
    <3> QED
      BY <1>3, <2>2, <3>1 DEF RunEnds, TypeOK
  <2> QED
    BY <2>1, <2>2
<1>4. ASSUME NEW t \in Tasks, NEW k \in Attempts, ListReceipts(t, k)
      PROVE  TypeOK'
  <2>1. [stage |-> "listed", listed |-> ReceiptsOf(t), usd |-> usage[t]] \in Call
    BY DEF TypeOK, ReceiptsOf, Call
  <2>2. settle' \in [Tasks -> [Attempts -> Call]]
    BY <1>4, <2>1, CallType DEF ListReceipts
  <2> QED
    BY <1>4, <2>2 DEF ListReceipts, TypeOK
<1>5. ASSUME NEW t \in Tasks, NEW k \in Attempts, Settle(t, k)
      PROVE  TypeOK'
  <2>1. CreditsFromUsd(settle[t][k].usd) \in Nat
    BY CallType, RoundingIsNatural
  <2>2. hold[t] \in Hold
    BY DEF TypeOK
  <2>3. held' \in Nat /\ spent' \in Nat /\ free' \in Nat
    BY <1>5, <2>1, <2>2 DEF Settle, Chargeable, TypeOK, Hold
  <2>4. [hold[t] EXCEPT !.status = "closed"] \in Hold
    BY <2>2 DEF Hold
  <2>5. hold' \in [Tasks -> Hold]
    BY <1>5, <2>4 DEF Settle, TypeOK
  <2>6. [done |-> TRUE, listed |-> settle[t][k].listed, usd |-> settle[t][k].usd,
         credits |-> CreditsFromUsd(settle[t][k].usd)] \in Settlement
    BY <2>1, CallType DEF Settlement
  <2>7. settlement' \in [Tasks -> Settlement]
    BY <1>5, <2>6 DEF Settle, TypeOK
  <2>8. settle' \in [Tasks -> [Attempts -> Call]]
    BY <1>5, CallType DEF Settle
  <2> QED
    BY <1>5, <2>3, <2>5, <2>7, <2>8 DEF Settle, TypeOK
<1>6. ASSUME NEW t \in Tasks, NEW k \in Attempts, NotSettled(t, k) \/ SettleFails(t, k)
      PROVE  TypeOK'
  <2>0. \/ settle' = [settle EXCEPT ![t][k].stage = "accepted"]
        \/ settle' = [settle EXCEPT ![t][k].stage = "refused"]
    BY <1>6 DEF NotSettled, SettleFails
  <2>1. settle' \in [Tasks -> [Attempts -> Call]]
    <3>1. CASE settle' = [settle EXCEPT ![t][k].stage = "accepted"]
      BY <3>1, CallType
    <3>2. CASE settle' = [settle EXCEPT ![t][k].stage = "refused"]
      BY <3>2, CallType
    <3> QED
      BY <2>0, <3>1, <3>2
  <2>2. faults' \in 0 .. MaxFaults
    BY <1>6 DEF NotSettled, SettleFails, Fault, TypeOK
  <2> QED
    BY <1>6, <2>1, <2>2 DEF NotSettled, SettleFails, TypeOK
<1>7. ASSUME NEW t \in Tasks, Settled(t) \/ SettlementThrows(t) \/ Resettled(t)
      PROVE  TypeOK'
  <2>1. CASE Settled(t)
    <3>1. pc' \in [Tasks -> Places] /\ active' \in SUBSET Tasks
      BY <2>1, EndType DEF Settled, Ended
    <3> QED
      BY <2>1, <3>1 DEF Settled, TypeOK
  <2>2. CASE SettlementThrows(t)
    <3>1. faults' \in 0 .. MaxFaults
      BY <2>2 DEF SettlementThrows, Fault, TypeOK
    <3>2. CASE signedIn
      BY <2>2, <3>1, <3>2, SendType DEF SettlementThrows, TryAgain, TypeOK, Attempts
    <3>3. CASE ~signedIn
      <4>1. pc' \in [Tasks -> Places] /\ active' \in SUBSET Tasks
        BY <2>2, <3>3, EndType DEF SettlementThrows, TryAgain, Ended
      <4> QED
        BY <2>2, <3>1, <3>3, <4>1 DEF SettlementThrows, TryAgain, TypeOK
    <3> QED
      BY <3>2, <3>3
  <2>3. CASE Resettled(t)
    <3>1. pc' \in [Tasks -> Places] /\ active' \in SUBSET Tasks
      BY <2>3, EndType DEF Resettled, Ended
    <3>2. faults' \in 0 .. MaxFaults
      BY <2>3 DEF Resettled, Fault, TypeOK
    <3> QED
      BY <2>3, <3>1, <3>2 DEF Resettled, TypeOK
  <2> QED
    BY <1>7, <2>1, <2>2, <2>3
<1>8. ASSUME NEW q \in Requests,
             SendRequest(q) \/ Admit(q) \/ NoUsage(q) \/ SaveFails(q)
      PROVE  TypeOK'
  <2>0. \A stage \in {"sent", "admitted", "over"} :
          [request[q] EXCEPT !.stage = stage] \in Request
    BY DEF TypeOK, Request
  <2>1. request' \in [Requests -> Request]
    BY <1>8, <2>0 DEF SendRequest, Admit, NoUsage, SaveFails, TypeOK
  <2>2. faults' \in 0 .. MaxFaults
    BY <1>8 DEF SendRequest, Admit, NoUsage, SaveFails, Fault, TypeOK
  <2> QED
    BY <1>8, <2>1, <2>2 DEF SendRequest, Admit, NoUsage, SaveFails, TypeOK
<1>9. ASSUME NEW q \in Requests, NEW cost \in Costs, Meter(q, cost)
      PROVE  TypeOK'
  <2>1. [stage |-> "metered", cost |-> cost] \in Request
    BY DEF Request
  <2> QED
    BY <1>9, <2>1 DEF Meter, SeenNow, TypeOK
<1>10. ASSUME NEW q \in Requests, Save(q)
       PROVE  TypeOK'
  <2>1. request' \in [Requests -> Request]
    BY <1>10 DEF Save, TypeOK, Request
  <2>2. usage' \in [Tasks -> Nat]
    BY <1>10 DEF Save, TypeOK, Request
  <2> QED
    BY <1>10, <2>1, <2>2 DEF Save, SeenNow, TypeOK
<1>11. CASE SignInOut \/ Quit
  <2>1. CASE SignInOut
    BY <2>1 DEF SignInOut, TypeOK
  <2>2. CASE Quit
    <3>1. pc' \in [Tasks -> Places]
      BY <2>2 DEF Quit, TypeOK, Places, Ended
    <3> QED
      BY <2>2, <3>1 DEF Quit, Fault, TypeOK
  <2> QED
    BY <1>11, <2>1, <2>2
<1>12. CASE UNCHANGED vars
  BY <1>12 DEF vars, TypeOK
<1> QED
  BY <1>1, <1>2, <1>3, <1>4, <1>5, <1>6, <1>7, <1>8, <1>9, <1>10, <1>11, <1>12 DEF Next

\* Balances, holds, settlements and calls keep their types; the balance is
\* never negative, whichever reservations and settlements race.
THEOREM TypeCorrect == Spec => []TypeOK
BY InitType, StepType, PTL DEF Spec

-----------------------------------------------------------------------------
(* The inductive invariant *)

\* A task is settled only when its run is over.
NotBefore ==
  \A t \in Tasks :
    /\ pc[t] \in {"idle", "reserving", "running"} => FirstSettled(t)
    /\ pc[t] = "settling" => settle[t]["try"].stage # "none"

\* What is owed is recorded; what a call lists is recorded and covers it.
Listed ==
  /\ \A t \in Tasks : owed[t] \subseteq ReceiptsOf(t)
  /\ \A t \in Tasks, k \in Attempts : settle[t][k].stage = "listed" =>
       owed[t] \subseteq settle[t][k].listed /\ settle[t][k].listed \subseteq ReceiptsOf(t)

\* An open hold has its ceiling as its amount, and no settlement.
Unsettled ==
  \A t \in Tasks :
    /\ hold[t].status = "open" => hold[t].amount = Ceiling[t]
    /\ hold[t].status # "closed" => ~settlement[t].done
    /\ settlement[t].done => ~FirstSettled(t) /\ owed[t] \subseteq settlement[t].listed

\* A request has a receipt only when it is over.
SavedOnce == \A q \in receipts : request[q].stage = "over"

\* The model route shows what is saved, and nothing after the run.
ShownInTime ==
  \A q \in shown : Runtime[TaskOf[q]] = "legacy-test" =>
    q \in receipts /\ (FirstSettled(TaskOf[q]) \/ q \in owed[TaskOf[q]])

Flow == NotBefore /\ Listed /\ Unsettled /\ SavedOnce /\ ShownInTime

LEMMA InitFlow == Init => Flow
BY DEF Init, Flow, NotBefore, Listed, Unsettled, SavedOnce, ShownInTime, FirstSettled,
       NoCall, NoSettlement, Attempts, ReceiptsOf

\* The steps that neither settle nor touch a receipt.
LEMMA QuietStep ==
  ASSUME TypeOK, Flow,
         settle' = settle, owed' = owed, receipts' = receipts, hold' = hold,
         settlement' = settlement, shown' = shown,
         \A t \in Tasks : \/ pc'[t] = pc[t]
                          \/ pc'[t] \in Ended
                          \/ pc[t] \in {"idle", "reserving"} /\ pc'[t] # "settling",
         \A q \in Requests : request[q].stage = "over" => request'[q].stage = "over"
  PROVE  Flow'
<1>1. NotBefore'
  BY DEF Flow, NotBefore, FirstSettled, Ended
<1>2. SavedOnce'
  BY DEF Flow, SavedOnce, TypeOK
<1>3. Listed' /\ Unsettled' /\ ShownInTime'
  BY DEF Flow, Listed, Unsettled, ShownInTime, FirstSettled, ReceiptsOf
<1> QED
  BY <1>1, <1>2, <1>3 DEF Flow

\* The first settlement of a task, and the second.
LEMMA SendStep ==
  ASSUME TypeOK, Flow, NEW t \in Tasks, NEW k \in Attempts,
         SendSettlement(t, k),
         UNCHANGED <<receipts, hold, settlement, shown, request>>,
         pc[t] = "running" \/ (pc[t] = "settling" /\ k = "catch")
  PROVE  Flow'
<1>1. pc' = [pc EXCEPT ![t] = IF k = "try" THEN "settling" ELSE "resettling"]
  BY DEF SendSettlement
<1>2. settle'[t][k].stage = "sent"
      /\ \A s \in Tasks, j \in Attempts : s # t \/ j # k => settle'[s][j] = settle[s][j]
  BY DEF SendSettlement, Sent, TypeOK, Call
<1>3. \A s \in Tasks : s # t => owed'[s] = owed[s]
  BY DEF SendSettlement, TypeOK
<1>4. owed'[t] = IF FirstSettled(t) THEN ReceiptsOf(t) ELSE owed[t]
  BY DEF SendSettlement, TypeOK
<1>5. pc[t] = "running" => FirstSettled(t)
  BY DEF Flow, NotBefore
<1>6. pc[t] = "settling" => ~FirstSettled(t)
  BY DEF Flow, NotBefore, FirstSettled, Attempts
<1>7. ~FirstSettled(t)' /\ \A s \in Tasks : s # t => (FirstSettled(s)' <=> FirstSettled(s))
  BY <1>2 DEF FirstSettled
<1>8. \A s \in Tasks : ReceiptsOf(s)' = ReceiptsOf(s)
  BY DEF ReceiptsOf
<1>9. NotBefore'
  BY <1>1, <1>2, <1>7 DEF Flow, NotBefore, TypeOK, Attempts
<1>10. Listed'
  BY <1>2, <1>3, <1>4, <1>8 DEF Flow, Listed, FirstSettled
<1>11. Unsettled'
  BY <1>3, <1>4, <1>7 DEF Flow, Unsettled
<1>12. ShownInTime'
  BY <1>3, <1>4, <1>7, <1>8, BillingAssumption DEF Flow, ShownInTime, ReceiptsOf, TypeOK
<1> QED
  BY <1>9, <1>10, <1>11, <1>12 DEF Flow, SavedOnce

\* A settlement call moves on; what is owed and recorded stays.
LEMMA CallStep ==
  ASSUME TypeOK, Flow, NEW t \in Tasks, NEW k \in Attempts,
         settle[t][k].stage \in {"sent", "listed"},
         \/ settle' = [settle EXCEPT ![t][k].stage = "accepted"]
         \/ settle' = [settle EXCEPT ![t][k].stage = "refused"]
         \/ settle' = [settle EXCEPT ![t][k] =
              [stage |-> "listed", listed |-> ReceiptsOf(t), usd |-> usage[t]]],
         UNCHANGED <<pc, owed, receipts, shown, request>>
  PROVE  /\ NotBefore' /\ Listed' /\ SavedOnce' /\ ShownInTime'
         /\ \A s \in Tasks : FirstSettled(s)' <=> FirstSettled(s)
<1>1. settle'[t][k].stage # "none"
      /\ \A s \in Tasks, j \in Attempts : s # t \/ j # k => settle'[s][j] = settle[s][j]
  BY DEF TypeOK, Call
<1>2. settle'[t][k].stage = "listed" => settle'[t][k].listed = ReceiptsOf(t)
  BY DEF TypeOK, Call
<1>3. \A s \in Tasks : FirstSettled(s)' <=> FirstSettled(s)
  BY <1>1 DEF FirstSettled
<1>4. \A s \in Tasks : ReceiptsOf(s)' = ReceiptsOf(s)
  BY DEF ReceiptsOf
<1>5. NotBefore'
  BY <1>1, <1>3 DEF Flow, NotBefore, Attempts
<1>6. Listed'
  BY <1>1, <1>2, <1>4 DEF Flow, Listed
<1>7. SavedOnce' /\ ShownInTime'
  BY <1>3, BillingAssumption DEF Flow, SavedOnce, ShownInTime, TypeOK
<1> QED
  BY <1>3, <1>5, <1>6, <1>7

LEMMA StepFlow == TypeOK /\ Flow /\ [Next]_vars => Flow'
<1> SUFFICES ASSUME TypeOK, Flow, [Next]_vars
             PROVE  Flow'
  OBVIOUS
<1> USE DEF desktop, calls, serving, table, wallet
<1>0. pc \in [Tasks -> Places] /\ hold \in [Tasks -> Hold]
  BY DEF TypeOK
<1>1. ASSUME NEW t \in Tasks,
             \/ StartUnpaid(t) \/ Start(t) \/ CountJobs(t) \/ ReserveFails(t)
             \/ Reserved(t) \/ NotReserved(t) \/ ReservationLost(t)
      PROVE  Flow'
  <2>1. UNCHANGED <<settle, owed, receipts, hold, settlement, shown, request>>
    BY <1>1 DEF StartUnpaid, Start, CountJobs, ReserveFails, Reserved, NotReserved,
                ReservationLost
  <2>2. \A s \in Tasks : \/ pc'[s] = pc[s]
                         \/ pc'[s] \in Ended
                         \/ pc[s] \in {"idle", "reserving"} /\ pc'[s] # "settling"
    <3>1. CASE StartUnpaid(t) \/ Start(t)
      BY <1>0, <3>1 DEF StartUnpaid, Start
    <3>2. CASE CountJobs(t) \/ ReserveFails(t)
      BY <3>2 DEF CountJobs, ReserveFails
    <3>3. CASE Reserved(t) \/ NotReserved(t) \/ ReservationLost(t)
      BY <1>0, <3>3 DEF Reserved, NotReserved, ReservationLost, Ended
    <3> QED
      BY <1>1, <3>1, <3>2, <3>3
  <2> QED
    BY <2>1, <2>2, QuietStep
<1>2. ASSUME NEW t \in Tasks, HoldCredits(t)
      PROVE  Flow'
  <2>1. \A s \in Tasks :
          \/ hold'[s] = hold[s]
          \/ /\ hold'[s] = [status |-> "open", amount |-> Ceiling[s]]
             /\ hold[s].status = "none"
    BY <1>0, <1>2 DEF HoldCredits
  <2>0. UNCHANGED <<settlement, settle, owed>>
    BY <1>2 DEF HoldCredits
  <2>2. ASSUME NEW s \in Tasks
        PROVE  /\ hold'[s].status = "open" => hold'[s].amount = Ceiling[s]
               /\ hold'[s].status # "closed" => ~settlement[s].done
    <3>1. CASE hold'[s] = hold[s]
      BY <3>1 DEF Flow, Unsettled
    <3>2. CASE hold'[s] = [status |-> "open", amount |-> Ceiling[s]] /\ hold[s].status = "none"
      BY <3>2 DEF Flow, Unsettled
    <3> QED
      BY <2>1, <3>1, <3>2
  <2>3. Unsettled'
    BY <2>0, <2>2 DEF Flow, Unsettled, FirstSettled
  <2> QED
    BY <1>2, <2>3 DEF HoldCredits, Flow, NotBefore, Listed, SavedOnce, ShownInTime,
                      FirstSettled, ReceiptsOf
<1>3. ASSUME NEW t \in Tasks, NEW k \in Attempts, RunEnds(t, k)
      PROVE  Flow'
  <2>1. CASE t \in active /\ signedIn
    BY <1>3, <2>1, SendStep DEF RunEnds, Running
  <2>2. CASE ~(t \in active /\ signedIn)
    <3>1. UNCHANGED <<settle, owed, receipts, hold, settlement, shown, request>>
      BY <1>3, <2>2 DEF RunEnds
    <3>2. \A s \in Tasks : pc'[s] = pc[s] \/ pc'[s] \in Ended
      BY <1>0, <1>3, <2>2 DEF RunEnds, End, Ended
    <3> QED
      BY <3>1, <3>2, QuietStep
  <2> QED
    BY <2>1, <2>2
<1>4. ASSUME NEW t \in Tasks, NEW k \in Attempts, ListReceipts(t, k)
      PROVE  Flow'
  <2>1. /\ NotBefore' /\ Listed' /\ SavedOnce' /\ ShownInTime'
        /\ \A s \in Tasks : FirstSettled(s)' <=> FirstSettled(s)
    BY <1>4, CallStep DEF ListReceipts
  <2>2. Unsettled'
    BY <1>4, <2>1 DEF ListReceipts, Flow, Unsettled
  <2> QED
    BY <2>1, <2>2 DEF Flow
<1>5. ASSUME NEW t \in Tasks, NEW k \in Attempts, Settle(t, k)
      PROVE  Flow'
  <2>1. /\ NotBefore' /\ Listed' /\ SavedOnce' /\ ShownInTime'
        /\ \A s \in Tasks : FirstSettled(s)' <=> FirstSettled(s)
    BY <1>5, CallStep DEF Settle
  <2>2. /\ hold'[t].status = "closed"
        /\ \A s \in Tasks : s # t => hold'[s] = hold[s]
    BY <1>5 DEF Settle, TypeOK, Hold
  <2>3. /\ settlement'[t].listed = settle[t][k].listed
        /\ \A s \in Tasks : s # t => settlement'[s] = settlement[s]
    BY <1>5 DEF Settle, TypeOK
  <2>4. owed[t] \subseteq settle[t][k].listed /\ ~FirstSettled(t)
    BY <1>5 DEF Settle, Flow, Listed, FirstSettled
  <2>5. Unsettled'
    BY <1>5, <2>1, <2>2, <2>3, <2>4 DEF Settle, Flow, Unsettled
  <2> QED
    BY <2>1, <2>5 DEF Flow
<1>6. ASSUME NEW t \in Tasks, NEW k \in Attempts, NotSettled(t, k) \/ SettleFails(t, k)
      PROVE  Flow'
  <2>1. /\ settle[t][k].stage \in {"sent", "listed"}
        /\ \/ settle' = [settle EXCEPT ![t][k].stage = "accepted"]
           \/ settle' = [settle EXCEPT ![t][k].stage = "refused"]
        /\ UNCHANGED <<pc, owed, receipts, shown, request, hold, settlement>>
    BY <1>6 DEF NotSettled, SettleFails
  <2>2. /\ NotBefore' /\ Listed' /\ SavedOnce' /\ ShownInTime'
        /\ \A s \in Tasks : FirstSettled(s)' <=> FirstSettled(s)
    BY <2>1, CallStep
  <2>3. Unsettled'
    BY <2>1, <2>2 DEF Flow, Unsettled
  <2> QED
    BY <2>2, <2>3 DEF Flow
<1>7. ASSUME NEW t \in Tasks, Settled(t) \/ SettlementThrows(t) \/ Resettled(t)
      PROVE  Flow'
  <2>1. CASE SettlementThrows(t) /\ signedIn
    BY <2>1, SendStep DEF SettlementThrows, TryAgain, Attempts
  <2>2. CASE Settled(t) \/ (SettlementThrows(t) /\ ~signedIn) \/ Resettled(t)
    <3>1. UNCHANGED <<settle, owed, receipts, hold, settlement, shown, request>>
      BY <2>2 DEF Settled, SettlementThrows, TryAgain, Resettled
    <3>2. \A s \in Tasks : pc'[s] = pc[s] \/ pc'[s] \in Ended
      BY <1>0, <2>2 DEF Settled, SettlementThrows, TryAgain, Resettled, End, Ended
    <3> QED
      BY <3>1, <3>2, QuietStep
  <2> QED
    BY <1>7, <2>1, <2>2
<1>8. ASSUME NEW q \in Requests,
             SendRequest(q) \/ Admit(q) \/ NoUsage(q) \/ SaveFails(q)
      PROVE  Flow'
  <2>1. UNCHANGED <<settle, owed, receipts, hold, settlement, shown, pc>>
    BY <1>8 DEF SendRequest, Admit, NoUsage, SaveFails
  <2>2. \A r \in Requests : request[r].stage = "over" => request'[r].stage = "over"
    BY <1>8 DEF SendRequest, Admit, NoUsage, SaveFails, TypeOK, Request
  <2> QED
    BY <2>1, <2>2, QuietStep
<1>9. ASSUME NEW q \in Requests, NEW cost \in Costs, Meter(q, cost)
      PROVE  Flow'
  <2>1. SavedOnce'
    BY <1>9 DEF Meter, Flow, SavedOnce, TypeOK
  <2>2. ShownInTime'
    BY <1>9 DEF Meter, SeenNow, ShownFirst, Flow, ShownInTime, FirstSettled
  <2> QED
    BY <1>9, <2>1, <2>2 DEF Meter, Flow, NotBefore, Listed, Unsettled, FirstSettled,
                            ReceiptsOf
<1>10. ASSUME NEW q \in Requests, Save(q)
       PROVE  Flow'
  <2>1. UNCHANGED <<pc, settle, owed, hold, settlement>>
    BY <1>10 DEF Save
  <2>2. SavedOnce'
    BY <1>10 DEF Save, Flow, SavedOnce, TypeOK, Request
  <2>3. \A t \in Tasks : ReceiptsOf(t) \subseteq ReceiptsOf(t)'
    BY <1>10 DEF Save, ReceiptsOf
  <2>4. Listed'
    BY <2>1, <2>3 DEF Flow, Listed
  <2>5. Running(TaskOf[q]) => FirstSettled(TaskOf[q])
    BY BillingAssumption DEF Running, Flow, NotBefore
  <2>6. ShownInTime'
    BY <1>10, <2>5 DEF Save, SeenNow, Flow, ShownInTime, FirstSettled
  <2> QED
    BY <2>1, <2>2, <2>4, <2>6 DEF Flow, NotBefore, Unsettled, FirstSettled
<1>11. CASE SignInOut \/ Quit
  <2>1. UNCHANGED <<settle, owed, receipts, hold, settlement, shown, request>>
    BY <1>11 DEF SignInOut, Quit
  <2>2. \A s \in Tasks : pc'[s] = pc[s] \/ pc'[s] \in Ended
    BY <1>0, <1>11 DEF SignInOut, Quit, Ended
  <2> QED
    BY <2>1, <2>2, QuietStep
<1>12. CASE UNCHANGED vars
  BY <1>12, QuietStep DEF vars
<1> QED
  BY <1>1, <1>2, <1>3, <1>4, <1>5, <1>6, <1>7, <1>8, <1>9, <1>10, <1>11, <1>12 DEF Next

\* Tasks are settled when they are over, for receipts that are there.
THEOREM FlowInvariant == Spec => [](TypeOK /\ Flow)
<1>1. Init => TypeOK /\ Flow
  BY InitType, InitFlow
<1>2. TypeOK /\ Flow /\ [Next]_vars => (TypeOK /\ Flow)'
  BY StepType, StepFlow
<1> QED
  BY <1>1, <1>2, PTL DEF Spec

-----------------------------------------------------------------------------
(* The properties *)

\* Nothing the desktop has been told of by the model route goes unbilled,
\* whatever fails, overtakes or is tried again.
THEOREM WhatIsShownIsBilled == Spec => []ShownIsBilled
<1>1. TypeOK /\ Flow => ShownIsBilled
  BY DEF TypeOK, Flow, Unsettled, ShownInTime, ShownIsBilled, Covered
<1> QED
  BY <1>1, FlowInvariant, PTL

LEMMA StepAccount ==
  TypeOK /\ [Next]_vars => [Account!Next]_<<free, held, spent, hold>>
<1> SUFFICES ASSUME TypeOK, [Next]_vars
             PROVE  Account!Next \/ UNCHANGED <<free, held, spent, hold>>
  OBVIOUS
<1> USE BillingAssumption DEF desktop, calls, serving, table, wallet
<1>0. hold \in [Tasks -> Hold] /\ free \in Nat /\ held \in Nat /\ spent \in Nat
  BY DEF TypeOK
<1>1. ASSUME NEW t \in Tasks, HoldCredits(t), Suffices(t)
      PROVE  Account!Open(t)
  <2>1. hold'[t] = [status |-> "open", amount |-> Ceiling[t]]
    BY <1>0, <1>1 DEF HoldCredits
  <2>2. hold' = [hold EXCEPT ![t] = hold'[t]]
    BY <1>0, <1>1, <2>1 DEF HoldCredits
  <2>3. free' = free - Ceiling[t] /\ free' >= 0 /\ held' = held + Ceiling[t]
    BY <1>0, <1>1 DEF HoldCredits, Suffices
  <2> QED
    BY <1>1, <2>1, <2>2, <2>3 DEF HoldCredits, Account!Open
<1>2. ASSUME NEW t \in Tasks, NEW k \in Attempts, Settle(t, k)
      PROVE  Account!Close(t)
  <2>1. CreditsFromUsd(settle[t][k].usd) \in Nat
    BY CallType, RoundingIsNatural
  <2>2. hold[t].amount \in Nat
    BY <1>0 DEF Hold
  <2> QED
    BY <1>0, <1>2, <2>1, <2>2 DEF Settle, Chargeable, Account!Close
<1>3. CASE \E t \in Tasks : HoldCredits(t) /\ Suffices(t)
  BY <1>1, <1>3 DEF Account!Next
<1>4. CASE \E t \in Tasks, k \in Attempts : Settle(t, k)
  BY <1>2, <1>4 DEF Account!Next
<1>5. CASE /\ ~\E t \in Tasks : HoldCredits(t) /\ Suffices(t)
           /\ ~\E t \in Tasks, k \in Attempts : Settle(t, k)
  BY <1>5 DEF Next, vars, StartUnpaid, Start, CountJobs, HoldCredits, ReserveFails, Reserved,
              NotReserved, ReservationLost, Settled, SettlementThrows, Resettled, RunEnds,
              ListReceipts, NotSettled, SettleFails, SendRequest, Admit, NoUsage, Save,
              SaveFails, Meter, SignInOut, Quit
<1> QED
  BY <1>3, <1>4, <1>5

\* The flow uses the wallet as CreditAccount allows: one hold for a task,
\* closed at most once, and never spent beyond what it holds.
THEOREM FlowUsesAccount == Spec => ImplementsAccount
BY TypeCorrect, StepAccount, PTL DEF Spec, ImplementsAccount

-----------------------------------------------------------------------------
(* The flow is a TaskBill *)

billing == <<receipts, owed, settle, settlement>>

LEMMA InitBill == Init => Bill!Init
BY DEF Init, Bill!Init, Bill!Unbilled, NoCall, NoSettlement

\* The first settlement finishes the task; the second changes nothing of the bill.
LEMMA SendFinishes ==
  ASSUME TypeOK, NEW t \in Tasks, NEW k \in Attempts, SendSettlement(t, k),
         UNCHANGED <<receipts, settlement>>
  PROVE  [Bill!Next]_Bill!account
<1>1. settle'[t][k].stage = "sent"
      /\ \A s \in Tasks, j \in Attempts : s # t \/ j # k => settle'[s][j] = settle[s][j]
  BY DEF SendSettlement, Sent, TypeOK, Call
<1>2. \A s \in Tasks : FirstSettled(s)' <=> (FirstSettled(s) /\ s # t)
  BY <1>1 DEF FirstSettled
<1> DEFINE Over == {s \in Tasks : \E j \in Attempts : settle[s][j].stage # "none"}
<1>3. Over = {s \in Tasks : ~FirstSettled(s)}
  BY DEF FirstSettled
<1>4. Over' = {s \in Tasks : ~FirstSettled(s)'}
  BY DEF FirstSettled
<1> HIDE DEF Over
<1>5. CASE FirstSettled(t)
  <2>1. t \notin Over /\ Over' = Over \cup {t}
    BY <1>2, <1>3, <1>4, <1>5
  <2>2. owed' = [owed EXCEPT ![t] = ReceiptsOf(t)]
    BY <1>5 DEF SendSettlement
  <2>3. Bill!Finish(t)
    BY <2>1, <2>2 DEF Over, Bill!Finish, Bill!Of, ReceiptsOf
  <2> QED
    BY <2>3 DEF Bill!Next
<1>6. CASE ~FirstSettled(t)
  <2>1. Over' = Over
    BY <1>2, <1>3, <1>4, <1>6
  <2>2. owed' = owed
    BY <1>6 DEF SendSettlement
  <2> QED
    BY <2>1, <2>2 DEF Over, Bill!account
<1> QED
  BY <1>5, <1>6

\* A settlement call that moves on leaves the set of finished tasks alone.
LEMMA CallKeepsOver ==
  ASSUME TypeOK, NEW t \in Tasks, NEW k \in Attempts,
         settle[t][k].stage \in {"sent", "listed"},
         \/ settle' = [settle EXCEPT ![t][k].stage = "accepted"]
         \/ settle' = [settle EXCEPT ![t][k].stage = "refused"]
         \/ settle' = [settle EXCEPT ![t][k] =
              [stage |-> "listed", listed |-> ReceiptsOf(t), usd |-> usage[t]]]
  PROVE  {s \in Tasks : \E j \in Attempts : settle'[s][j].stage # "none"}
         = {s \in Tasks : \E j \in Attempts : settle[s][j].stage # "none"}
<1>1. settle'[t][k].stage # "none" /\ settle[t][k].stage # "none"
  BY DEF TypeOK, Call
<1>2. \A s \in Tasks, j \in Attempts : s # t \/ j # k => settle'[s][j] = settle[s][j]
  BY DEF TypeOK, Call
<1> QED
  BY <1>1, <1>2

\* The accepted settlement is the charge.
LEMMA SettleCharges ==
  ASSUME TypeOK, Flow, NEW t \in Tasks, NEW k \in Attempts, Settle(t, k)
  PROVE  Bill!Charge(t)
<1> DEFINE Now == [s \in Tasks |-> [charged |-> settlement[s].done,
                     usage |-> settlement[s].listed, amount |-> settlement[s].credits]]
<1>1. /\ settlement'[t] = [done |-> TRUE, listed |-> settle[t][k].listed,
                           usd |-> settle[t][k].usd,
                           credits |-> CreditsFromUsd(settle[t][k].usd)]
      /\ \A s \in Tasks : s # t => settlement'[s] = settlement[s]
  BY DEF Settle, TypeOK
<1>2. /\ Now'[t].charged
      /\ Now'[t].usage = settle[t][k].listed
      /\ Now'[t].amount = CreditsFromUsd(settle[t][k].usd)
  BY <1>1
<1>3. Now' = [Now EXCEPT ![t] = Now'[t]]
  BY <1>1
<1>4. ~Now[t].charged /\ hold[t].amount = Ceiling[t]
  BY DEF Settle, Chargeable, Flow, Unsettled
<1>5. Now'[t].amount <= Ceiling[t]
  BY <1>2, <1>4 DEF Settle, Chargeable
<1>6. owed[t] \subseteq settle[t][k].listed /\ settle[t][k].listed \subseteq ReceiptsOf(t)
  BY DEF Settle, Flow, Listed
<1>7. owed[t] \subseteq Now'[t].usage /\ Now'[t].usage \subseteq ReceiptsOf(t)
  BY <1>2, <1>6
<1>8. t \in {s \in Tasks : \E j \in Attempts : settle[s][j].stage # "none"}
  BY DEF Settle
<1>9. {s \in Tasks : \E j \in Attempts : settle'[s][j].stage # "none"}
      = {s \in Tasks : \E j \in Attempts : settle[s][j].stage # "none"}
  BY CallKeepsOver DEF Settle
<1>10. UNCHANGED <<receipts, owed>>
  BY DEF Settle, table
<1> QED
  BY <1>2, <1>3, <1>4, <1>5, <1>7, <1>8, <1>9, <1>10 DEF Bill!Charge, Bill!Of, ReceiptsOf

LEMMA StepBill == TypeOK /\ Flow /\ [Next]_vars => [Bill!Next]_Bill!account
<1> SUFFICES ASSUME TypeOK, Flow, [Next]_vars
             PROVE  [Bill!Next]_Bill!account
  OBVIOUS
<1> USE DEF desktop, calls, serving, table, wallet
<1>1. ASSUME NEW t \in Tasks, NEW k \in Attempts, Settle(t, k)
      PROVE  [Bill!Next]_Bill!account
  BY <1>1, SettleCharges DEF Bill!Next
<1>2. ASSUME NEW t \in Tasks, NEW k \in Attempts,
             ListReceipts(t, k) \/ NotSettled(t, k) \/ SettleFails(t, k)
      PROVE  [Bill!Next]_Bill!account
  <2>1. UNCHANGED <<receipts, owed, settlement>>
    BY <1>2 DEF ListReceipts, NotSettled, SettleFails
  <2>2. /\ settle[t][k].stage \in {"sent", "listed"}
        /\ \/ settle' = [settle EXCEPT ![t][k].stage = "accepted"]
           \/ settle' = [settle EXCEPT ![t][k].stage = "refused"]
           \/ settle' = [settle EXCEPT ![t][k] =
                [stage |-> "listed", listed |-> ReceiptsOf(t), usd |-> usage[t]]]
    BY <1>2 DEF ListReceipts, NotSettled, SettleFails
  <2>3. {s \in Tasks : \E j \in Attempts : settle'[s][j].stage # "none"}
        = {s \in Tasks : \E j \in Attempts : settle[s][j].stage # "none"}
    BY <2>2, CallKeepsOver
  <2> QED
    BY <2>1, <2>3 DEF Bill!account
<1>3. ASSUME NEW t \in Tasks, SettlementThrows(t) \/ \E k \in Attempts : RunEnds(t, k)
      PROVE  [Bill!Next]_Bill!account
  <2>1. UNCHANGED <<receipts, settlement>>
    BY <1>3 DEF RunEnds, SettlementThrows
  <2>2. \/ \E j \in Attempts : SendSettlement(t, j)
        \/ UNCHANGED <<settle, owed>>
    BY <1>3 DEF RunEnds, SettlementThrows, TryAgain, Attempts
  <2>3. CASE \E j \in Attempts : SendSettlement(t, j)
    BY <2>1, <2>3, SendFinishes
  <2>4. CASE UNCHANGED <<settle, owed>>
    BY <2>1, <2>4 DEF Bill!account
  <2> QED
    BY <2>2, <2>3, <2>4
<1>4. ASSUME NEW q \in Requests, Save(q)
      PROVE  [Bill!Next]_Bill!account
  <2>1. q \notin receipts
    BY <1>4 DEF Save, Flow, SavedOnce
  <2>2. Bill!Record(q)
    BY <1>4, <2>1 DEF Save, Bill!Record
  <2> QED
    BY <2>2 DEF Bill!Next
<1>5. CASE UNCHANGED billing
  BY <1>5 DEF billing, Bill!account
<1>6. ASSUME NEW t \in Tasks,
             \/ StartUnpaid(t) \/ Start(t) \/ CountJobs(t) \/ HoldCredits(t)
             \/ ReserveFails(t) \/ Reserved(t) \/ NotReserved(t) \/ ReservationLost(t)
             \/ Settled(t) \/ Resettled(t)
      PROVE  UNCHANGED billing
  BY <1>6 DEF StartUnpaid, Start, CountJobs, HoldCredits, ReserveFails, Reserved, NotReserved,
              ReservationLost, Settled, Resettled, billing
<1>7. ASSUME NEW q \in Requests,
             \/ SendRequest(q) \/ Admit(q) \/ NoUsage(q) \/ SaveFails(q)
             \/ \E cost \in Costs : Meter(q, cost)
      PROVE  UNCHANGED billing
  BY <1>7 DEF SendRequest, Admit, NoUsage, SaveFails, Meter, billing
<1>8. CASE SignInOut \/ Quit \/ UNCHANGED vars
  BY <1>5, <1>8 DEF SignInOut, Quit, vars, billing
<1> QED
  BY <1>1, <1>2, <1>3, <1>4, <1>5, <1>6, <1>7, <1>8 DEF Next

\* The flow implements TaskBill: with retries, lost answers, late receipts and
\* tasks side by side, a task is charged at most once, when it is over, for
\* all that was recorded by then, for nothing but its own, within its ceiling.
THEOREM FlowImplementsBill == Spec => ImplementsBill
<1>1. TypeOK /\ Flow /\ [Next]_vars => [Bill!Next]_Bill!account
  BY StepBill
<1> QED
  BY <1>1, InitBill, FlowInvariant, PTL DEF Spec, ImplementsBill, Bill!Spec

-----------------------------------------------------------------------------
(* Requests on their way *)

InFlight(t) ==
  {q \in Requests : TaskOf[q] = t /\ request[q].stage \in {"sent", "admitted", "metered"}}

\* Requests whose receipt is not owed, because it came or will come too late.
Unanswered(t) ==
  InFlight(t) \cup {q \in ReceiptsOf(t) : ~FirstSettled(t) /\ q \notin owed[t]}

\* The model route serves one request of a task at a time, and none is sent
\* after the run, so at most one is too late.
OneUnanswered ==
  \A t \in Tasks : Runtime[t] = "legacy-test" => \A q, r \in Unanswered(t) : q = r

-----------------------------------------------------------------------------
(* Failures *)

\* The credits that are held, one by one.
HeldCredits == UNION {{t} \X (1 .. hold[t].amount) : t \in OpenReservations}

\* The balance "reserved" is what the open reservations hold: a reservation is
\* never refused its settlement because the balance does not cover it.
HeldIsOpen == IsFiniteSet(HeldCredits) /\ held = Cardinality(HeldCredits)

\* A task has a hold before it becomes active or is settled.
HeldFirst ==
  \A t \in Tasks :
    t \in active \/ reserve[t] = "accepted" \/ ~FirstSettled(t) => hold[t].status # "none"

\* The reservation is charged, or nothing can charge it.
Decided(t) == hold[t].status = "closed" \/ Overrun(t)

\* What a refused or an unanswered settlement says of the failures so far.
Failures ==
  \A t \in Tasks :
    /\ \A k \in Attempts :
         /\ settle[t][k].usd <= usage[t]
         /\ settle[t][k].stage = "accepted" => hold[t].status = "closed"
         /\ settle[t][k].stage = "refused" => Decided(t) \/ faults >= 1
    /\ pc[t] = "settling" => settle[t]["catch"].stage = "none"
    /\ settle[t]["try"].stage # "none" =>
         /\ pc[t] # "settling" => Decided(t) \/ faults >= 1
         /\ settle[t]["catch"].stage = "refused" => Decided(t) \/ faults >= 2
         /\ pc[t] \in {"returned", "threw"} => Decided(t) \/ faults >= 2

LEMMA InitUnanswered == Init => OneUnanswered
BY DEF Init, OneUnanswered, Unanswered, InFlight, ReceiptsOf

\* It is enough that nothing new is too late.
LEMMA FewerUnanswered ==
  ASSUME OneUnanswered, \A t \in Tasks : Unanswered(t)' \subseteq Unanswered(t)
  PROVE  OneUnanswered'
BY DEF OneUnanswered

\* The steps of the desktop and of the calls: what is owed is fixed once.
LEMMA OwedStep ==
  ASSUME TypeOK,
         UNCHANGED <<request, receipts>>,
         \A t \in Tasks : \/ (FirstSettled(t)' <=> FirstSettled(t)) /\ owed'[t] = owed[t]
                          \/ FirstSettled(t) /\ owed'[t] = ReceiptsOf(t)
  PROVE  \A t \in Tasks : Unanswered(t)' \subseteq Unanswered(t)
<1> SUFFICES ASSUME NEW t \in Tasks
             PROVE  Unanswered(t)' \subseteq Unanswered(t)
  OBVIOUS
<1>1. InFlight(t)' = InFlight(t) /\ ReceiptsOf(t)' = ReceiptsOf(t)
  BY DEF InFlight, ReceiptsOf
<1>2. CASE (FirstSettled(t)' <=> FirstSettled(t)) /\ owed'[t] = owed[t]
  BY <1>1, <1>2 DEF Unanswered
<1>3. CASE FirstSettled(t) /\ owed'[t] = ReceiptsOf(t)
  BY <1>1, <1>3 DEF Unanswered
<1> QED
  BY <1>2, <1>3

\* The first settlement fixes what is owed; the second leaves it.
LEMMA SendOwed ==
  ASSUME TypeOK, NEW t \in Tasks, NEW k \in Attempts, SendSettlement(t, k)
  PROVE  /\ settle'[t][k] = [settle[t][k] EXCEPT !.stage = "sent"]
         /\ \A s \in Tasks, j \in Attempts : s # t \/ j # k => settle'[s][j] = settle[s][j]
         /\ ~FirstSettled(t)'
         /\ \A s \in Tasks : s # t => (FirstSettled(s)' <=> FirstSettled(s))
         /\ \A s \in Tasks : \/ (FirstSettled(s)' <=> FirstSettled(s)) /\ owed'[s] = owed[s]
                             \/ FirstSettled(s) /\ owed'[s] = ReceiptsOf(s)
<1>1. /\ settle'[t][k] = [settle[t][k] EXCEPT !.stage = "sent"]
      /\ \A s \in Tasks, j \in Attempts : s # t \/ j # k => settle'[s][j] = settle[s][j]
  BY DEF SendSettlement, Sent, TypeOK
<1>2. settle'[t][k].stage = "sent"
  BY <1>1, CallType DEF Call
<1>3. ~FirstSettled(t)' /\ \A s \in Tasks : s # t => (FirstSettled(s)' <=> FirstSettled(s))
  BY <1>1, <1>2 DEF FirstSettled
<1>4. \A s \in Tasks : s # t => owed'[s] = owed[s]
  BY DEF SendSettlement, TypeOK
<1>5. owed'[t] = IF FirstSettled(t) THEN ReceiptsOf(t) ELSE owed[t]
  BY DEF SendSettlement, TypeOK
<1>6. ~FirstSettled(t) => (FirstSettled(t)' <=> FirstSettled(t)) /\ owed'[t] = owed[t]
  BY <1>3, <1>5
<1>7. FirstSettled(t) => owed'[t] = ReceiptsOf(t)
  BY <1>5
<1>8. \A s \in Tasks : \/ (FirstSettled(s)' <=> FirstSettled(s)) /\ owed'[s] = owed[s]
                       \/ FirstSettled(s) /\ owed'[s] = ReceiptsOf(s)
  BY <1>3, <1>4, <1>6, <1>7
<1> QED
  BY <1>1, <1>3, <1>8

\* A settlement call that moves on is no first one.
LEMMA CallMoves ==
  ASSUME TypeOK, NEW t \in Tasks, NEW k \in Attempts,
         settle[t][k].stage \in {"sent", "listed"},
         \/ settle' = [settle EXCEPT ![t][k].stage = "accepted"]
         \/ settle' = [settle EXCEPT ![t][k].stage = "refused"]
         \/ settle' = [settle EXCEPT ![t][k] =
              [stage |-> "listed", listed |-> ReceiptsOf(t), usd |-> usage[t]]]
  PROVE  /\ settle'[t][k].stage # "none"
         /\ \A s \in Tasks, j \in Attempts : s # t \/ j # k => settle'[s][j] = settle[s][j]
         /\ \A s \in Tasks : (FirstSettled(s)' <=> FirstSettled(s))
<1>1. settle'[t][k].stage # "none"
      /\ \A s \in Tasks, j \in Attempts : s # t \/ j # k => settle'[s][j] = settle[s][j]
  BY DEF TypeOK, Call
<1> QED
  BY <1>1 DEF FirstSettled

LEMMA StepUnanswered ==
  TypeOK /\ Flow /\ OneUnanswered /\ [Next]_vars => OneUnanswered'
<1> SUFFICES ASSUME TypeOK, Flow, OneUnanswered, [Next]_vars
             PROVE  OneUnanswered'
  OBVIOUS
<1> USE DEF desktop, calls, serving, table, wallet
<1>1. ASSUME NEW q \in Requests, SendRequest(q)
      PROVE  OneUnanswered'
  <2> DEFINE t == TaskOf[q]
  <2>0. t \in Tasks /\ UNCHANGED <<settle, owed, receipts>>
    BY <1>1, BillingAssumption DEF SendRequest
  <2>1. \A r \in Requests : r # q => request'[r] = request[r]
    BY <1>1 DEF SendRequest, TypeOK
  <2>2. \A s \in Tasks : (FirstSettled(s)' <=> FirstSettled(s)) /\ ReceiptsOf(s)' = ReceiptsOf(s)
    BY <2>0 DEF FirstSettled, ReceiptsOf
  <2>3. FirstSettled(t)
    BY <1>1, <2>0 DEF SendRequest, Quiet, Running, Flow, NotBefore
  <2>4. Runtime[t] = "legacy-test" => InFlight(t) = {}
    <3> SUFFICES ASSUME Runtime[t] = "legacy-test", NEW r \in InFlight(t)
                 PROVE  FALSE
      OBVIOUS
    <3>1. r \in shown
      BY <1>1 DEF SendRequest, Quiet, InFlight
    <3>2. request[r].stage = "over"
      BY <3>1 DEF InFlight, Flow, ShownInTime, SavedOnce
    <3> QED
      BY <3>2 DEF InFlight
  <2>5. Runtime[t] = "legacy-test" => Unanswered(t)' \subseteq {q}
    BY <2>0, <2>1, <2>2, <2>3, <2>4 DEF Unanswered, InFlight
  <2>6. \A s \in Tasks : s # t => Unanswered(s)' = Unanswered(s)
    BY <2>0, <2>1, <2>2 DEF Unanswered, InFlight
  <2> QED
    BY <2>5, <2>6 DEF OneUnanswered
<1>2. ASSUME NEW q \in Requests, Save(q)
      PROVE  OneUnanswered'
  <2>0. UNCHANGED <<settle, owed>> /\ receipts' = receipts \cup {q}
    BY <1>2 DEF Save
  <2>1. /\ request'[q].stage = "over"
        /\ \A r \in Requests : r # q => request'[r] = request[r]
    BY <1>2 DEF Save, TypeOK, Request
  <2>2. \A s \in Tasks : (FirstSettled(s)' <=> FirstSettled(s))
    BY <2>0 DEF FirstSettled
  <2>3. q \in InFlight(TaskOf[q])
    BY <1>2 DEF Save, InFlight
  <2>4. \A s \in Tasks : InFlight(s)' \subseteq InFlight(s)
    BY <2>1 DEF InFlight
  <2>5. \A s \in Tasks : \A r \in ReceiptsOf(s)' :
          r \in ReceiptsOf(s) \/ r \in InFlight(s)
    BY <2>0, <2>3 DEF ReceiptsOf
  <2>6. \A s \in Tasks : Unanswered(s)' \subseteq Unanswered(s)
    BY <2>0, <2>2, <2>4, <2>5 DEF Unanswered
  <2> QED
    BY <2>6, FewerUnanswered
<1>3. ASSUME NEW q \in Requests,
             \/ Admit(q) \/ NoUsage(q) \/ SaveFails(q)
             \/ \E cost \in Costs : Meter(q, cost)
      PROVE  OneUnanswered'
  <2>0. UNCHANGED <<settle, owed, receipts>>
    BY <1>3 DEF Admit, NoUsage, SaveFails, Meter
  <2>1. \A r \in Requests : r # q => request'[r] = request[r]
    BY <1>3 DEF Admit, NoUsage, SaveFails, Meter, TypeOK
  <2>2. request[q].stage \in {"sent", "admitted", "metered"}
    BY <1>3 DEF Admit, NoUsage, SaveFails, Meter
  <2>3. \A s \in Tasks : /\ (FirstSettled(s)' <=> FirstSettled(s))
                         /\ ReceiptsOf(s)' = ReceiptsOf(s)
                         /\ InFlight(s)' \subseteq InFlight(s)
    BY <2>0, <2>1, <2>2 DEF FirstSettled, ReceiptsOf, InFlight
  <2>4. \A s \in Tasks : Unanswered(s)' \subseteq Unanswered(s)
    BY <2>0, <2>3 DEF Unanswered
  <2> QED
    BY <2>4, FewerUnanswered
<1>4. ASSUME NEW t \in Tasks, NEW k \in Attempts,
             SendSettlement(t, k), UNCHANGED <<request, receipts>>
      PROVE  OneUnanswered'
  BY <1>4, SendOwed, OwedStep, FewerUnanswered
<1>5. ASSUME UNCHANGED <<settle, owed, request, receipts>>
      PROVE  OneUnanswered'
  <2>1. \A s \in Tasks : (FirstSettled(s)' <=> FirstSettled(s)) /\ owed'[s] = owed[s]
    BY <1>5 DEF FirstSettled
  <2> QED
    BY <1>5, <2>1, OwedStep, FewerUnanswered
<1>6. ASSUME NEW t \in Tasks, NEW k \in Attempts,
             ListReceipts(t, k) \/ Settle(t, k) \/ NotSettled(t, k) \/ SettleFails(t, k)
      PROVE  OneUnanswered'
  <2>1. /\ settle[t][k].stage \in {"sent", "listed"}
        /\ \/ settle' = [settle EXCEPT ![t][k].stage = "accepted"]
           \/ settle' = [settle EXCEPT ![t][k].stage = "refused"]
           \/ settle' = [settle EXCEPT ![t][k] =
                [stage |-> "listed", listed |-> ReceiptsOf(t), usd |-> usage[t]]]
        /\ UNCHANGED <<owed, request, receipts>>
    <3>1. CASE ListReceipts(t, k)
      BY <3>1 DEF ListReceipts
    <3>2. CASE Settle(t, k)
      BY <3>2 DEF Settle
    <3>3. CASE NotSettled(t, k) \/ SettleFails(t, k)
      BY <3>3 DEF NotSettled, SettleFails
    <3> QED
      BY <1>6, <3>1, <3>2, <3>3
  <2>2. \A s \in Tasks : (FirstSettled(s)' <=> FirstSettled(s))
    BY <2>1, CallMoves
  <2> QED
    BY <2>1, <2>2, OwedStep, FewerUnanswered
<1>7. ASSUME NEW t \in Tasks, NEW k \in Attempts, RunEnds(t, k)
      PROVE  OneUnanswered'
  BY <1>4, <1>5, <1>7 DEF RunEnds
<1>8. ASSUME NEW t \in Tasks, SettlementThrows(t)
      PROVE  OneUnanswered'
  BY <1>4, <1>5, <1>8 DEF SettlementThrows, TryAgain, Attempts
<1>9. ASSUME NEW t \in Tasks,
             \/ StartUnpaid(t) \/ Start(t) \/ CountJobs(t) \/ HoldCredits(t)
             \/ ReserveFails(t) \/ Reserved(t) \/ NotReserved(t) \/ ReservationLost(t)
             \/ Settled(t) \/ Resettled(t)
      PROVE  OneUnanswered'
  BY <1>5, <1>9 DEF StartUnpaid, Start, CountJobs, HoldCredits, ReserveFails, Reserved,
                    NotReserved, ReservationLost, Settled, Resettled
<1>10. CASE SignInOut \/ Quit \/ UNCHANGED vars
  BY <1>5, <1>10 DEF SignInOut, Quit, vars
<1> QED
  BY <1>1, <1>2, <1>3, <1>6, <1>7, <1>8, <1>9, <1>10 DEF Next

\* A task that the model route has served leaves at most the one receipt
\* unbilled whose request was on its way when the task ended.
THEOREM OneReceiptAtMostUnbilled == Spec => []OneReceiptUnbilled
<1>1. Init => OneUnanswered
  BY InitUnanswered
<1>2. TypeOK /\ Flow /\ OneUnanswered /\ [Next]_vars => OneUnanswered'
  BY StepUnanswered
<1>3. TypeOK /\ Flow /\ OneUnanswered => OneReceiptUnbilled
  <2> SUFFICES ASSUME TypeOK, Flow, OneUnanswered,
                      NEW t \in Tasks, Runtime[t] = "legacy-test", settlement[t].done
               PROVE  Cardinality(ReceiptsOf(t) \ settlement[t].listed) <= 1
    BY DEF OneReceiptUnbilled
  <2> DEFINE rest == ReceiptsOf(t) \ settlement[t].listed
  <2>1. rest \subseteq Unanswered(t)
    BY DEF Flow, Unsettled, Unanswered
  <2>2. rest = {} \/ \E q : rest = {q}
    BY <2>1 DEF OneUnanswered
  <2>3. CASE rest = {}
    BY <2>3, FS_EmptySet
  <2>4. CASE \E q : rest = {q}
    BY <2>4, FS_Singleton
  <2> QED
    BY <2>2, <2>3, <2>4
<1> QED
  BY <1>1, <1>2, <1>3, FlowInvariant, PTL DEF Spec

LEMMA PartSize ==
  ASSUME NEW t, NEW n \in Nat
  PROVE  IsFiniteSet({t} \X (1 .. n)) /\ Cardinality({t} \X (1 .. n)) = n
<1> DEFINE one == {t}
           numbers == 1 .. n
<1>1. IsFiniteSet(one) /\ Cardinality(one) = 1
  BY FS_Singleton
<1>2. IsFiniteSet(numbers) /\ Cardinality(numbers) = n
  <2>1. IsFiniteSet(1 .. n) /\ Cardinality(1 .. n) = IF 1 > n THEN 0 ELSE n - 1 + 1
    BY FS_Interval
  <2> QED
    BY <2>1
<1> HIDE DEF one, numbers
<1>3. /\ IsFiniteSet(one \X numbers)
      /\ Cardinality(one \X numbers) = Cardinality(one) * Cardinality(numbers)
  BY <1>1, <1>2, FS_Product
<1>4. IsFiniteSet(one \X numbers) /\ Cardinality(one \X numbers) = n
  BY <1>1, <1>2, <1>3
<1> QED
  BY <1>4 DEF one, numbers

\* Two sets that share nothing, and what is in both together.
LEMMA Apart ==
  ASSUME NEW S, NEW T, IsFiniteSet(S), IsFiniteSet(T), S \cap T = {}
  PROVE  IsFiniteSet(S \cup T) /\ Cardinality(S \cup T) = Cardinality(S) + Cardinality(T)
<1>1. Cardinality(S \cap T) = 0
  BY FS_EmptySet
<1>2. Cardinality(S) \in Nat /\ Cardinality(T) \in Nat
  BY FS_CardinalityType
<1>3. IsFiniteSet(S \cup T)
      /\ Cardinality(S \cup T) = Cardinality(S) + Cardinality(T) - Cardinality(S \cap T)
  BY FS_Union
<1> QED
  BY <1>1, <1>2, <1>3

LEMMA InitHeld == Init => HeldIsOpen
<1> SUFFICES ASSUME Init
             PROVE  HeldIsOpen
  OBVIOUS
<1>1. HeldCredits = {}
  BY DEF Init, HeldCredits, OpenReservations
<1> QED
  BY <1>1, FS_EmptySet DEF Init, HeldIsOpen

LEMMA StepHeld == TypeOK /\ HeldIsOpen /\ [Next]_vars => HeldIsOpen'
<1> SUFFICES ASSUME TypeOK, HeldIsOpen, [Next]_vars
             PROVE  HeldIsOpen'
  OBVIOUS
<1> USE DEF desktop, calls, serving, table, wallet
<1>0. hold \in [Tasks -> Hold] /\ held \in Nat /\ Ceiling \in [Tasks -> Nat]
  BY BillingAssumption DEF TypeOK
<1>1. ASSUME NEW t \in Tasks, HoldCredits(t), Suffices(t)
      PROVE  HeldIsOpen'
  <2> DEFINE part == {t} \X (1 .. Ceiling[t])
  <2>1. hold'[t] = [status |-> "open", amount |-> Ceiling[t]] /\ held' = held + Ceiling[t]
    BY <1>0, <1>1 DEF HoldCredits
  <2>2. \A s \in Tasks : s # t => hold'[s] = hold[s]
    BY <1>0, <1>1 DEF HoldCredits
  <2>3. OpenReservations' = OpenReservations \cup {t} /\ t \notin OpenReservations
    BY <1>1, <2>1, <2>2 DEF HoldCredits, OpenReservations
  <2>4. HeldCredits' = HeldCredits \cup part
    <3>1. \A s \in OpenReservations : hold'[s].amount = hold[s].amount
      BY <2>2, <2>3 DEF OpenReservations
    <3>2. hold'[t].amount = Ceiling[t]
      BY <2>1
    <3> QED
      BY <2>3, <3>1, <3>2 DEF HeldCredits
  <2>5. HeldCredits \cap part = {}
    BY <2>3 DEF HeldCredits
  <2>6. IsFiniteSet(part) /\ Cardinality(part) = Ceiling[t]
    BY <1>0, PartSize
  <2> HIDE DEF part
  <2> QED
    BY <2>1, <2>4, <2>5, <2>6, Apart DEF HeldIsOpen
<1>2. ASSUME NEW t \in Tasks, NEW k \in Attempts, Settle(t, k)
      PROVE  HeldIsOpen'
  <2> DEFINE n == hold[t].amount
             part == {t} \X (1 .. n)
  <2>0. n \in Nat
    BY <1>0 DEF Hold
  <2>1. hold'[t].status = "closed" /\ held' = held - n
    BY <1>0, <1>2 DEF Settle, Hold
  <2>2. \A s \in Tasks : s # t => hold'[s] = hold[s]
    BY <1>0, <1>2 DEF Settle
  <2>3. OpenReservations = OpenReservations' \cup {t} /\ t \notin OpenReservations'
    BY <1>2, <2>1, <2>2 DEF Settle, Chargeable, OpenReservations
  <2>4. HeldCredits = HeldCredits' \cup part
    <3>1. \A s \in OpenReservations' : hold'[s].amount = hold[s].amount
      BY <2>2, <2>3 DEF OpenReservations
    <3> QED
      BY <2>3, <3>1 DEF HeldCredits
  <2>5. HeldCredits' \cap part = {}
    BY <2>3 DEF HeldCredits
  <2>6. IsFiniteSet(part) /\ Cardinality(part) = n
    BY <2>0, PartSize
  <2> HIDE DEF part
  <2>7. IsFiniteSet(HeldCredits')
    BY <2>4, FS_Subset DEF HeldIsOpen
  <2>8. Cardinality(HeldCredits') \in Nat
    BY <2>7, FS_CardinalityType
  <2>9. Cardinality(HeldCredits) = Cardinality(HeldCredits') + n
    BY <2>4, <2>5, <2>6, <2>7, Apart
  <2> HIDE DEF n
  <2> QED
    BY <2>0, <2>1, <2>7, <2>8, <2>9 DEF HeldIsOpen
<1>3. ASSUME UNCHANGED <<hold, held>>
      PROVE  HeldIsOpen'
  BY <1>3 DEF HeldIsOpen, HeldCredits, OpenReservations
<1>4. CASE /\ ~\E t \in Tasks : HoldCredits(t) /\ Suffices(t)
           /\ ~\E t \in Tasks, k \in Attempts : Settle(t, k)
  <2>1. UNCHANGED <<hold, held>>
    BY <1>4 DEF Next, vars, StartUnpaid, Start, CountJobs, HoldCredits, ReserveFails, Reserved,
                NotReserved, ReservationLost, Settled, SettlementThrows, Resettled, RunEnds,
                ListReceipts, NotSettled, SettleFails, SendRequest, Admit, NoUsage, Save,
                SaveFails, Meter, SignInOut, Quit
  <2> QED
    BY <2>1, <1>3
<1> QED
  BY <1>1, <1>2, <1>4

\* Every open reservation is covered.
LEMMA HeldCovers ==
  ASSUME TypeOK, HeldIsOpen, NEW t \in Tasks, hold[t].status = "open"
  PROVE  hold[t].amount <= held
<1> DEFINE part == {t} \X (1 .. hold[t].amount)
<1>1. hold[t].amount \in Nat
  BY DEF TypeOK, Hold
<1>2. part \subseteq HeldCredits
  BY DEF HeldCredits, OpenReservations
<1>3. Cardinality(part) = hold[t].amount
  BY <1>1, PartSize
<1> HIDE DEF part
<1>4. Cardinality(part) <= Cardinality(HeldCredits)
  BY <1>2, FS_Subset DEF HeldIsOpen
<1> QED
  BY <1>3, <1>4 DEF HeldIsOpen

LEMMA InitHeldFirst == Init => HeldFirst
BY DEF Init, HeldFirst, FirstSettled, NoCall, Attempts

LEMMA StepHeldFirst == TypeOK /\ Flow /\ HeldFirst /\ [Next]_vars => HeldFirst'
<1> SUFFICES ASSUME TypeOK, Flow, HeldFirst, [Next]_vars
             PROVE  HeldFirst'
  OBVIOUS
<1> USE DEF desktop, calls, serving, table, wallet
<1>0. /\ hold \in [Tasks -> Hold] /\ active \in SUBSET Tasks
      /\ reserve \in [Tasks -> {"none", "sent", "counted", "accepted", "refused"}]
  BY DEF TypeOK
<1>1. ASSUME \A t \in Tasks :
               /\ hold[t].status # "none" => hold'[t].status # "none"
               /\ t \in active' => t \in active \/ reserve[t] = "accepted"
               /\ reserve'[t] = "accepted" => reserve[t] = "accepted" \/ hold'[t].status # "none"
               /\ FirstSettled(t) => FirstSettled(t)' \/ t \in active
      PROVE  HeldFirst'
  BY <1>1 DEF HeldFirst
<1>2. ASSUME UNCHANGED <<hold, reserve, settle>>,
             \A t \in Tasks : t \in active' => t \in active \/ reserve[t] = "accepted"
      PROVE  HeldFirst'
  BY <1>2 DEF HeldFirst, FirstSettled
<1>3. ASSUME NEW t \in Tasks, HoldCredits(t)
      PROVE  HeldFirst'
  <2>1. UNCHANGED <<active, settle>>
    BY <1>3 DEF HoldCredits
  <2>2. \A s \in Tasks : FirstSettled(s)' <=> FirstSettled(s)
    BY <2>1 DEF FirstSettled
  <2>3. \A s \in Tasks :
          /\ hold[s].status # "none" => hold'[s].status # "none"
          /\ reserve'[s] = "accepted" => reserve[s] = "accepted" \/ hold'[s].status # "none"
    <3>1. CASE Suffices(t)
      BY <1>0, <1>3, <3>1 DEF HoldCredits
    <3>2. CASE ~Suffices(t)
      BY <1>0, <1>3, <3>2 DEF HoldCredits
    <3> QED
      BY <3>1, <3>2
  <2> QED
    BY <1>1, <2>1, <2>2, <2>3
<1>4. ASSUME NEW t \in Tasks, NEW k \in Attempts, SendSettlement(t, k),
             UNCHANGED <<hold, reserve>>, t \in active \/ ~FirstSettled(t)
      PROVE  HeldFirst'
  <2>1. active' = active
    BY <1>4 DEF SendSettlement
  <2>2. \A s \in Tasks : FirstSettled(s) => FirstSettled(s)' \/ s \in active
    BY <1>4, SendOwed
  <2> QED
    BY <1>1, <1>4, <2>1, <2>2
<1>5. ASSUME NEW t \in Tasks, NEW k \in Attempts,
             ListReceipts(t, k) \/ Settle(t, k) \/ NotSettled(t, k) \/ SettleFails(t, k)
      PROVE  HeldFirst'
  <2>1. /\ settle[t][k].stage \in {"sent", "listed"}
        /\ \/ settle' = [settle EXCEPT ![t][k].stage = "accepted"]
           \/ settle' = [settle EXCEPT ![t][k].stage = "refused"]
           \/ settle' = [settle EXCEPT ![t][k] =
                [stage |-> "listed", listed |-> ReceiptsOf(t), usd |-> usage[t]]]
        /\ UNCHANGED <<active, reserve>>
        /\ hold' = hold \/ hold' = [hold EXCEPT ![t].status = "closed"]
    <3>1. CASE ListReceipts(t, k)
      BY <3>1 DEF ListReceipts
    <3>2. CASE Settle(t, k)
      BY <3>2 DEF Settle
    <3>3. CASE NotSettled(t, k) \/ SettleFails(t, k)
      BY <3>3 DEF NotSettled, SettleFails
    <3> QED
      BY <1>5, <3>1, <3>2, <3>3
  <2>2. \A s \in Tasks : FirstSettled(s)' <=> FirstSettled(s)
    BY <2>1, CallMoves
  <2>3. \A s \in Tasks : hold[s].status # "none" => hold'[s].status # "none"
    BY <1>0, <2>1 DEF Hold
  <2> QED
    BY <1>1, <2>1, <2>2, <2>3
<1>6. ASSUME NEW t \in Tasks,
             \/ StartUnpaid(t) \/ Start(t) \/ CountJobs(t) \/ ReserveFails(t)
      PROVE  HeldFirst'
  <2>1. UNCHANGED <<active, hold, settle>>
    BY <1>6 DEF StartUnpaid, Start, CountJobs, ReserveFails
  <2>2. \A s \in Tasks : reserve'[s] = "accepted" => reserve[s] = "accepted"
    BY <1>0, <1>6 DEF StartUnpaid, Start, CountJobs, ReserveFails
  <2> QED
    BY <2>1, <2>2 DEF HeldFirst, FirstSettled
<1>7. ASSUME NEW t \in Tasks,
             \/ Reserved(t) \/ NotReserved(t) \/ ReservationLost(t)
             \/ Settled(t) \/ Resettled(t)
      PROVE  HeldFirst'
  BY <1>2, <1>7 DEF Reserved, NotReserved, ReservationLost, Settled, Resettled, End
<1>8. ASSUME NEW t \in Tasks, NEW k \in Attempts, RunEnds(t, k)
      PROVE  HeldFirst'
  <2>1. CASE t \in active /\ signedIn
    BY <1>4, <1>8, <2>1 DEF RunEnds
  <2>2. CASE ~(t \in active /\ signedIn)
    BY <1>2, <1>8, <2>2 DEF RunEnds, End
  <2> QED
    BY <2>1, <2>2
<1>9. ASSUME NEW t \in Tasks, SettlementThrows(t)
      PROVE  HeldFirst'
  <2>0. ~FirstSettled(t)
    BY <1>9 DEF SettlementThrows, Flow, NotBefore, FirstSettled, Attempts
  <2>1. CASE signedIn
    BY <1>4, <1>9, <2>0, <2>1 DEF SettlementThrows, TryAgain, Attempts
  <2>2. CASE ~signedIn
    BY <1>2, <1>9, <2>2 DEF SettlementThrows, TryAgain, End
  <2> QED
    BY <2>1, <2>2
<1>10. ASSUME NEW q \in Requests,
              \/ SendRequest(q) \/ Admit(q) \/ NoUsage(q) \/ Save(q) \/ SaveFails(q)
              \/ \E cost \in Costs : Meter(q, cost)
       PROVE  HeldFirst'
  BY <1>2, <1>10 DEF SendRequest, Admit, NoUsage, Save, SaveFails, Meter
<1>11. CASE SignInOut \/ Quit \/ UNCHANGED vars
  BY <1>2, <1>11 DEF SignInOut, Quit, vars
<1> QED
  BY <1>3, <1>5, <1>6, <1>7, <1>8, <1>9, <1>10, <1>11 DEF Next

-----------------------------------------------------------------------------
(* What failures explain *)

LEMMA RoundingGrows ==
  ASSUME NEW usd \in Nat, NEW more \in Nat, usd <= more
  PROVE  CreditsFromUsd(usd) <= CreditsFromUsd(more)
BY DEF CreditsFromUsd

\* Charges, costs and failures only grow.
LEMMA StepGrows ==
  ASSUME TypeOK, [Next]_vars
  PROVE  /\ faults \in Nat /\ faults' \in Nat /\ faults <= faults'
         /\ \A t \in Tasks : /\ usage[t] \in Nat /\ usage'[t] \in Nat
                             /\ usage[t] <= usage'[t]
                             /\ hold[t].status = "closed" => hold'[t].status = "closed"
<1> USE DEF desktop, calls, serving, table, wallet
<1>0. /\ hold \in [Tasks -> Hold] /\ usage \in [Tasks -> Nat]
      /\ faults \in 0 .. MaxFaults /\ MaxFaults \in Nat
      /\ \A q \in Requests : request[q].cost \in Nat
  BY BillingAssumption DEF TypeOK, Request
<1>1. UNCHANGED faults \/ faults' = faults + 1
  BY DEF Next, vars, StartUnpaid, Start, CountJobs, HoldCredits, ReserveFails, Reserved,
         NotReserved, ReservationLost, Settled, SettlementThrows, Resettled, RunEnds,
         ListReceipts, Settle, NotSettled, SettleFails, SendRequest, Admit, NoUsage, Save,
         SaveFails, Meter, SignInOut, Quit, Fault
<1>2. \A t \in Tasks : usage'[t] \in Nat /\ usage[t] <= usage'[t]
  <2>1. ASSUME NEW q \in Requests, Save(q)
        PROVE  \A t \in Tasks : usage'[t] \in Nat /\ usage[t] <= usage'[t]
    BY <1>0, <2>1 DEF Save
  <2>2. ASSUME ~\E q \in Requests : Save(q)
        PROVE  UNCHANGED usage
    BY <2>2 DEF Next, vars, StartUnpaid, Start, CountJobs, HoldCredits, ReserveFails, Reserved,
                NotReserved, ReservationLost, Settled, SettlementThrows, Resettled, RunEnds,
                ListReceipts, Settle, NotSettled, SettleFails, SendRequest, Admit, NoUsage,
                SaveFails, Meter, SignInOut, Quit
  <2> QED
    BY <1>0, <2>1, <2>2
<1>3. \A t \in Tasks : hold[t].status = "closed" => hold'[t].status = "closed"
  <2>1. ASSUME NEW t \in Tasks, HoldCredits(t)
        PROVE  \A s \in Tasks : hold[s].status = "closed" => hold'[s].status = "closed"
    BY <1>0, <2>1 DEF HoldCredits
  <2>2. ASSUME NEW t \in Tasks, NEW k \in Attempts, Settle(t, k)
        PROVE  \A s \in Tasks : hold[s].status = "closed" => hold'[s].status = "closed"
    BY <1>0, <2>2 DEF Settle, Hold
  <2>3. ASSUME ~\E t \in Tasks : HoldCredits(t), ~\E t \in Tasks, k \in Attempts : Settle(t, k)
        PROVE  UNCHANGED hold
    BY <2>3 DEF Next, vars, StartUnpaid, Start, CountJobs, ReserveFails, Reserved,
                NotReserved, ReservationLost, Settled, SettlementThrows, Resettled, RunEnds,
                ListReceipts, NotSettled, SettleFails, SendRequest, Admit, NoUsage, Save,
                SaveFails, Meter, SignInOut, Quit
  <2> QED
    BY <2>1, <2>2, <2>3
<1> QED
  BY <1>0, <1>1, <1>2, <1>3

LEMMA DecidedStays ==
  ASSUME TypeOK, [Next]_vars, NEW t \in Tasks, Decided(t)
  PROVE  Decided(t)'
<1>1. CASE hold[t].status = "closed"
  BY <1>1, StepGrows DEF Decided
<1>2. CASE Overrun(t)
  <2>1. CreditsFromUsd(usage[t]) \in Nat /\ CreditsFromUsd(usage'[t]) \in Nat
        /\ CreditsFromUsd(usage[t]) <= CreditsFromUsd(usage'[t])
    BY StepGrows, RoundingGrows, RoundingIsNatural
  <2>2. Ceiling[t] \in Nat
    BY BillingAssumption
  <2> QED
    BY <1>2, <2>1, <2>2 DEF Decided, Overrun
<1> QED
  BY <1>1, <1>2 DEF Decided

\* A listed settlement that is refused although nothing fails.
LEMMA RefusalIsDecided ==
  ASSUME TypeOK, HeldIsOpen, HeldFirst, Flow, Failures, NEW t \in Tasks, NEW k \in Attempts,
         settle[t][k].stage = "listed", ~Chargeable(t, settle[t][k].usd)
  PROVE  Decided(t)
<1>1. hold[t].status \in {"open", "closed"}
  BY DEF TypeOK, Hold, HeldFirst, FirstSettled
<1>2. SUFFICES ASSUME hold[t].status = "open"
               PROVE  CreditsFromUsd(usage[t]) > Ceiling[t]
  BY <1>1 DEF Decided, Overrun
<1>3. hold[t].amount = Ceiling[t] /\ hold[t].amount <= held
  BY <1>2, HeldCovers DEF Flow, Unsettled
<1>4. ~(CreditsFromUsd(settle[t][k].usd) <= Ceiling[t])
  BY <1>2, <1>3 DEF Chargeable
<1>5. settle[t][k].usd \in Nat /\ usage[t] \in Nat /\ settle[t][k].usd <= usage[t]
  BY CallType DEF TypeOK, Failures
<1>6. /\ CreditsFromUsd(settle[t][k].usd) \in Nat /\ CreditsFromUsd(usage[t]) \in Nat
      /\ CreditsFromUsd(settle[t][k].usd) <= CreditsFromUsd(usage[t])
  BY <1>5, RoundingGrows, RoundingIsNatural
<1>7. Ceiling[t] \in Nat
  BY BillingAssumption
<1> QED
  BY <1>4, <1>6, <1>7

LEMMA InitFailures == Init => Failures
BY DEF Init, Failures, NoCall, Attempts

\* The steps of the desktop that send no settlement: the end of a task with an
\* open reservation is explained.
LEMMA SameCalls ==
  ASSUME TypeOK, Failures, [Next]_vars, settle' = settle,
         \A t \in Tasks :
           \/ pc'[t] = pc[t]
           \/ /\ pc'[t] # "settling"
              /\ settle[t]["try"].stage # "none" /\ pc'[t] \in {"returned", "threw"} =>
                   Decided(t)' \/ faults' >= 2
              /\ pc[t] = "settling" => Decided(t)' \/ faults' >= 1
  PROVE  Failures'
<1> SUFFICES ASSUME NEW t \in Tasks
             PROVE  /\ \A k \in Attempts :
                         /\ settle[t][k].usd <= usage'[t]
                         /\ settle[t][k].stage = "accepted" => hold'[t].status = "closed"
                         /\ settle[t][k].stage = "refused" => Decided(t)' \/ faults' >= 1
                    /\ pc'[t] = "settling" => settle[t]["catch"].stage = "none"
                    /\ settle[t]["try"].stage # "none" =>
                         /\ pc'[t] # "settling" => Decided(t)' \/ faults' >= 1
                         /\ settle[t]["catch"].stage = "refused" => Decided(t)' \/ faults' >= 2
                         /\ pc'[t] \in {"returned", "threw"} => Decided(t)' \/ faults' >= 2
  BY DEF Failures
<1>1. /\ faults \in Nat /\ faults' \in Nat /\ faults <= faults'
      /\ usage[t] \in Nat /\ usage'[t] \in Nat /\ usage[t] <= usage'[t]
      /\ hold[t].status = "closed" => hold'[t].status = "closed"
      /\ \A k \in Attempts : settle[t][k].usd \in Nat
  BY StepGrows, CallType
<1>2. Decided(t) => Decided(t)'
  BY DecidedStays
<1>3. \A k \in Attempts :
        /\ settle[t][k].usd <= usage'[t]
        /\ settle[t][k].stage = "accepted" => hold'[t].status = "closed"
        /\ settle[t][k].stage = "refused" => Decided(t)' \/ faults' >= 1
  BY <1>1, <1>2 DEF Failures
<1>4. pc'[t] = "settling" => settle[t]["catch"].stage = "none"
  BY DEF Failures
<1>5. ASSUME settle[t]["try"].stage # "none"
      PROVE  /\ pc'[t] # "settling" => Decided(t)' \/ faults' >= 1
             /\ settle[t]["catch"].stage = "refused" => Decided(t)' \/ faults' >= 2
             /\ pc'[t] \in {"returned", "threw"} => Decided(t)' \/ faults' >= 2
  BY <1>1, <1>2, <1>5 DEF Failures
<1> QED
  BY <1>3, <1>4, <1>5

\* A settlement is sent; the second only when the first is decided or failed.
LEMMA SendFailures ==
  ASSUME TypeOK, Flow, Failures, [Next]_vars, NEW t \in Tasks, NEW k \in Attempts,
         SendSettlement(t, k),
         \/ pc[t] = "running"
         \/ /\ pc[t] = "settling" /\ k = "catch"
            /\ Decided(t)' \/ faults' >= 1
  PROVE  Failures'
<1>0. /\ settle'[t][k].stage = "sent" /\ settle'[t][k].usd = settle[t][k].usd
      /\ \A s \in Tasks, j \in Attempts : s # t \/ j # k => settle'[s][j] = settle[s][j]
  <2>1. /\ settle'[t][k] = [settle[t][k] EXCEPT !.stage = "sent"]
        /\ \A s \in Tasks, j \in Attempts : s # t \/ j # k => settle'[s][j] = settle[s][j]
    BY SendOwed
  <2>2. settle[t][k] \in Call
    BY CallType
  <2> QED
    BY <2>1, <2>2 DEF Call
<1>1. /\ \A s \in Tasks : s # t => pc'[s] = pc[s]
      /\ pc'[t] = IF k = "try" THEN "settling" ELSE "resettling"
  BY DEF SendSettlement, TypeOK
<1>2. pc[t] = "running" => FirstSettled(t)
  BY DEF Flow, NotBefore
<1> SUFFICES ASSUME NEW s \in Tasks
             PROVE  /\ \A j \in Attempts :
                         /\ settle'[s][j].usd <= usage'[s]
                         /\ settle'[s][j].stage = "accepted" => hold'[s].status = "closed"
                         /\ settle'[s][j].stage = "refused" => Decided(s)' \/ faults' >= 1
                    /\ pc'[s] = "settling" => settle'[s]["catch"].stage = "none"
                    /\ settle'[s]["try"].stage # "none" =>
                         /\ pc'[s] # "settling" => Decided(s)' \/ faults' >= 1
                         /\ settle'[s]["catch"].stage = "refused" =>
                              Decided(s)' \/ faults' >= 2
                         /\ pc'[s] \in {"returned", "threw"} => Decided(s)' \/ faults' >= 2
  BY DEF Failures
<1>3. /\ faults \in Nat /\ faults' \in Nat /\ faults <= faults'
      /\ usage[s] \in Nat /\ usage'[s] \in Nat /\ usage[s] <= usage'[s]
      /\ hold[s].status = "closed" => hold'[s].status = "closed"
      /\ \A j \in Attempts : settle[s][j].usd \in Nat
  BY StepGrows, CallType
<1>4. Decided(s) => Decided(s)'
  BY DecidedStays
<1>5. \A j \in Attempts :
        /\ settle'[s][j].usd <= usage'[s]
        /\ settle'[s][j].stage = "accepted" => hold'[s].status = "closed"
        /\ settle'[s][j].stage = "refused" => Decided(s)' \/ faults' >= 1
  BY <1>0, <1>3, <1>4 DEF Failures
<1>6. CASE s # t
  BY <1>0, <1>1, <1>3, <1>4, <1>5, <1>6 DEF Failures, Attempts
<1>7. CASE s = t /\ k = "try"
  BY <1>0, <1>1, <1>2, <1>5, <1>7 DEF FirstSettled, Attempts
<1>8. CASE s = t /\ k = "catch"
  BY <1>0, <1>1, <1>2, <1>5, <1>8 DEF FirstSettled, Attempts
<1> QED
  BY <1>6, <1>7, <1>8 DEF Attempts

\* A settlement call that moves on.
LEMMA CallFailures ==
  ASSUME TypeOK, Flow, Failures, [Next]_vars, NEW t \in Tasks, NEW k \in Attempts,
         pc' = pc,
         \A s \in Tasks, j \in Attempts : s # t \/ j # k => settle'[s][j] = settle[s][j],
         settle[t][k].stage # "none",
         settle'[t][k].usd = settle[t][k].usd \/ settle'[t][k].usd = usage[t],
         settle'[t][k].stage = "accepted" => hold'[t].status = "closed",
         settle'[t][k].stage = "refused" => Decided(t)' \/ faults' >= faults + 1
  PROVE  Failures'
<1> SUFFICES ASSUME NEW s \in Tasks
             PROVE  /\ \A j \in Attempts :
                         /\ settle'[s][j].usd <= usage'[s]
                         /\ settle'[s][j].stage = "accepted" => hold'[s].status = "closed"
                         /\ settle'[s][j].stage = "refused" => Decided(s)' \/ faults' >= 1
                    /\ pc'[s] = "settling" => settle'[s]["catch"].stage = "none"
                    /\ settle'[s]["try"].stage # "none" =>
                         /\ pc'[s] # "settling" => Decided(s)' \/ faults' >= 1
                         /\ settle'[s]["catch"].stage = "refused" =>
                              Decided(s)' \/ faults' >= 2
                         /\ pc'[s] \in {"returned", "threw"} => Decided(s)' \/ faults' >= 2
  BY DEF Failures
<1>1. /\ faults \in Nat /\ faults' \in Nat /\ faults <= faults'
      /\ usage[s] \in Nat /\ usage'[s] \in Nat /\ usage[s] <= usage'[s]
      /\ hold[s].status = "closed" => hold'[s].status = "closed"
      /\ \A j \in Attempts : settle[s][j].usd \in Nat
  BY StepGrows, CallType
<1>2. Decided(s) => Decided(s)'
  BY DecidedStays
<1>3. \A j \in Attempts :
        /\ settle'[s][j].usd <= usage'[s]
        /\ settle'[s][j].stage = "accepted" => hold'[s].status = "closed"
        /\ settle'[s][j].stage = "refused" => Decided(s)' \/ faults' >= 1
  <2> SUFFICES ASSUME NEW j \in Attempts
               PROVE  /\ settle'[s][j].usd <= usage'[s]
                      /\ settle'[s][j].stage = "accepted" => hold'[s].status = "closed"
                      /\ settle'[s][j].stage = "refused" => Decided(s)' \/ faults' >= 1
    OBVIOUS
  <2>1. settle[s][j].usd <= usage[s]
    BY DEF Failures
  <2>2. CASE s = t /\ j = k
    BY <1>1, <2>1, <2>2
  <2>3. CASE s # t \/ j # k
    BY <1>1, <1>2, <2>3 DEF Failures
  <2> QED
    BY <2>2, <2>3
<1>4. pc'[s] = "settling" => settle'[s]["catch"].stage = "none"
  BY DEF Failures, Attempts
<1>5. settle'[s]["try"].stage # "none" => settle[s]["try"].stage # "none"
  BY DEF Attempts
<1>6. settle[s]["try"].stage # "none" =>
        /\ pc'[s] # "settling" => Decided(s)' \/ faults' >= 1
        /\ pc'[s] \in {"returned", "threw"} => Decided(s)' \/ faults' >= 2
  BY <1>1, <1>2 DEF Failures
<1>7. ASSUME settle[s]["try"].stage # "none", settle'[s]["catch"].stage = "refused"
      PROVE  Decided(s)' \/ faults' >= 2
  <2>1. CASE s = t /\ k = "catch"
    <3>1. pc[s] # "settling"
      BY <2>1 DEF Failures
    <3>2. Decided(s) \/ faults >= 1
      BY <1>7, <3>1 DEF Failures
    <3> QED
      BY <1>1, <1>2, <1>7, <2>1, <3>2
  <2>2. CASE s # t \/ k # "catch"
    BY <1>1, <1>2, <1>7, <2>2 DEF Failures, Attempts
  <2> QED
    BY <2>1, <2>2
<1> QED
  BY <1>3, <1>4, <1>5, <1>6, <1>7

LEMMA StepFailures ==
  TypeOK /\ Flow /\ HeldIsOpen /\ HeldFirst /\ Failures /\ [Next]_vars => Failures'
<1> SUFFICES ASSUME TypeOK, Flow, HeldIsOpen, HeldFirst, Failures, [Next]_vars
             PROVE  Failures'
  OBVIOUS
<1> USE DEF desktop, calls, serving, table, wallet
<1>0. pc \in [Tasks -> Places] /\ faults \in Nat /\ faults' \in Nat /\ faults <= faults'
  BY StepGrows DEF TypeOK
<1>1. ASSUME UNCHANGED <<settle, pc>>
      PROVE  Failures'
  BY <1>1, SameCalls
<1>2. ASSUME NEW t \in Tasks, NEW where \in {"reserving", "running", "returned", "threw"},
             settle' = settle, pc' = [pc EXCEPT ![t] = where],
             pc[t] \in {"idle", "reserving", "running"}
      PROVE  Failures'
  <2>1. settle[t]["try"].stage = "none"
    BY <1>2 DEF Flow, NotBefore, FirstSettled, Attempts
  <2>2. \A s \in Tasks : s # t => pc'[s] = pc[s]
    BY <1>0, <1>2
  <2>3. pc'[t] # "settling" /\ pc[t] # "settling"
    BY <1>0, <1>2
  <2> QED
    BY <1>2, <2>1, <2>2, <2>3, SameCalls
<1>3. ASSUME NEW t \in Tasks,
             \/ StartUnpaid(t) \/ Start(t) \/ Reserved(t) \/ NotReserved(t)
             \/ ReservationLost(t)
      PROVE  Failures'
  <2>1. CASE StartUnpaid(t)
    BY <1>2, <2>1 DEF StartUnpaid
  <2>2. CASE Start(t)
    BY <1>2, <2>2 DEF Start
  <2>3. CASE Reserved(t)
    BY <1>2, <2>3 DEF Reserved
  <2>4. CASE NotReserved(t)
    BY <1>2, <2>4 DEF NotReserved
  <2>5. CASE ReservationLost(t)
    BY <1>2, <2>5 DEF ReservationLost
  <2> QED
    BY <1>3, <2>1, <2>2, <2>3, <2>4, <2>5
<1>4. ASSUME NEW t \in Tasks, NEW k \in Attempts, RunEnds(t, k)
      PROVE  Failures'
  <2>1. CASE t \in active /\ signedIn
    BY <1>4, <2>1, SendFailures DEF RunEnds, Running
  <2>2. CASE ~(t \in active /\ signedIn)
    <3>1. settle' = settle /\ pc[t] = "running"
          /\ pc' = [pc EXCEPT ![t] = IF k = "try" THEN "returned" ELSE "threw"]
      BY <1>4, <2>2 DEF RunEnds, Running, End
    <3> QED
      BY <1>2, <3>1
  <2> QED
    BY <2>1, <2>2
<1>5. ASSUME NEW t \in Tasks, NEW k \in Attempts, ListReceipts(t, k)
      PROVE  Failures'
  <2>1. /\ settle'[t][k].stage = "listed" /\ settle'[t][k].usd = usage[t]
        /\ \A s \in Tasks, j \in Attempts : s # t \/ j # k => settle'[s][j] = settle[s][j]
    BY <1>5 DEF ListReceipts, TypeOK
  <2> QED
    BY <1>5, <2>1, CallFailures DEF ListReceipts
<1>6. ASSUME NEW t \in Tasks, NEW k \in Attempts, NEW answer \in {"accepted", "refused"},
             pc' = pc, settle[t][k].stage # "none",
             settle' = [settle EXCEPT ![t][k].stage = answer],
             answer = "accepted" => hold'[t].status = "closed",
             answer = "refused" => Decided(t)' \/ faults' >= faults + 1
      PROVE  Failures'
  <2>1. /\ settle'[t][k] = [settle[t][k] EXCEPT !.stage = answer]
        /\ \A s \in Tasks, j \in Attempts : s # t \/ j # k => settle'[s][j] = settle[s][j]
    BY <1>6 DEF TypeOK
  <2>2. settle'[t][k].stage = answer /\ settle'[t][k].usd = settle[t][k].usd
    <3>1. settle[t][k] \in Call
      BY CallType
    <3> QED
      BY <2>1, <3>1 DEF Call
  <2> QED
    BY <1>6, <2>1, <2>2, CallFailures
<1>7. ASSUME NEW t \in Tasks, NEW k \in Attempts, Settle(t, k)
      PROVE  Failures'
  <2>1. hold'[t].status = "closed"
    BY <1>7 DEF Settle, TypeOK, Hold
  <2> QED
    BY <1>6, <1>7, <2>1 DEF Settle
<1>8. ASSUME NEW t \in Tasks, NEW k \in Attempts, NotSettled(t, k)
      PROVE  Failures'
  <2>1. Decided(t)'
    BY <1>8, RefusalIsDecided, DecidedStays DEF NotSettled
  <2>2. CASE settlement[t].done /\ settlement[t].usd = settle[t][k].usd
    <3>1. hold'[t].status = "closed"
      BY <1>8, <2>2, StepGrows DEF NotSettled, Flow, Unsettled
    <3> QED
      BY <1>6, <1>8, <2>1, <2>2, <3>1 DEF NotSettled
  <2>3. CASE ~(settlement[t].done /\ settlement[t].usd = settle[t][k].usd)
    BY <1>6, <1>8, <2>1, <2>3 DEF NotSettled
  <2> QED
    BY <2>2, <2>3
<1>9. ASSUME NEW t \in Tasks, NEW k \in Attempts, SettleFails(t, k)
      PROVE  Failures'
  <2>1. /\ pc' = pc /\ settle[t][k].stage # "none"
        /\ settle' = [settle EXCEPT ![t][k].stage = "refused"]
    BY <1>9 DEF SettleFails
  <2>2. faults' >= faults + 1
    BY <1>0, <1>9 DEF SettleFails, Fault
  <2>3. "refused" \in {"accepted", "refused"} /\ "refused" # "accepted"
    OBVIOUS
  <2> QED
    BY <1>6, <2>1, <2>2, <2>3
<1>10. ASSUME NEW t \in Tasks, Settled(t)
       PROVE  Failures'
  <2>1. Decided(t)'
    BY <1>10, StepGrows DEF Settled, Failures, Decided, Attempts
  <2>2. pc'[t] = "returned" /\ \A s \in Tasks : s # t => pc'[s] = pc[s]
    BY <1>0, <1>10 DEF Settled, End
  <2> QED
    BY <1>10, <2>1, <2>2, SameCalls DEF Settled
<1>11. ASSUME NEW t \in Tasks, SettlementThrows(t)
       PROVE  Failures'
  <2>1. settle[t]["try"].stage # "none"
    BY <1>11 DEF SettlementThrows, Flow, NotBefore
  <2>2. Decided(t)' \/ faults' >= 1
    <3>1. CASE settle[t]["try"].stage = "refused"
      <4>1. Decided(t) \/ faults >= 1
        BY <3>1 DEF Failures, Attempts
      <4> QED
        BY <1>0, <4>1, DecidedStays
    <3>2. CASE Fault
      BY <1>0, <3>2 DEF Fault
    <3> QED
      BY <1>11, <3>1, <3>2 DEF SettlementThrows
  <2>3. CASE signedIn
    BY <1>11, <2>2, <2>3, SendFailures DEF SettlementThrows, TryAgain, Attempts
  <2>4. CASE ~signedIn
    <3>1. settle' = settle /\ pc'[t] = "unsettled"
          /\ \A s \in Tasks : s # t => pc'[s] = pc[s]
      BY <1>0, <1>11, <2>4 DEF SettlementThrows, TryAgain, End
    <3> QED
      BY <2>2, <3>1, SameCalls
  <2> QED
    BY <2>3, <2>4
<1>12. ASSUME NEW t \in Tasks, Resettled(t)
       PROVE  Failures'
  <2>1. settle' = settle /\ pc[t] = "resettling" /\ pc'[t] = "threw"
        /\ \A s \in Tasks : s # t => pc'[s] = pc[s]
    BY <1>0, <1>12 DEF Resettled, End
  <2>2. ASSUME settle[t]["try"].stage # "none"
        PROVE  Decided(t)' \/ faults' >= 2
    <3>1. CASE settle[t]["catch"].stage = "accepted"
      BY <3>1, StepGrows DEF Failures, Decided, Attempts
    <3>2. CASE settle[t]["catch"].stage = "refused"
      <4>1. Decided(t) \/ faults >= 2
        BY <2>2, <3>2 DEF Failures
      <4> QED
        BY <1>0, <4>1, DecidedStays
    <3>3. CASE Fault
      <4>1. Decided(t) \/ faults >= 1
        BY <2>1, <2>2 DEF Failures
      <4>2. faults' = faults + 1
        BY <3>3 DEF Fault
      <4> QED
        BY <1>0, <4>1, <4>2, DecidedStays
    <3> QED
      BY <1>12, <3>1, <3>2, <3>3 DEF Resettled
  <2> QED
    BY <2>1, <2>2, SameCalls
<1>13. CASE Quit
  <2>1. settle' = settle /\ faults' >= 1
    BY <1>0, <1>13 DEF Quit, Fault
  <2>2. \A s \in Tasks : pc'[s] = pc[s] \/ pc'[s] = "quit"
    BY <1>0, <1>13 DEF Quit
  <2> QED
    BY <2>1, <2>2, SameCalls
<1>14. CASE SignInOut \/ UNCHANGED vars
  BY <1>1, <1>14 DEF SignInOut, vars
<1>15. ASSUME NEW t \in Tasks, CountJobs(t) \/ HoldCredits(t) \/ ReserveFails(t)
       PROVE  Failures'
  BY <1>1, <1>15 DEF CountJobs, HoldCredits, ReserveFails
<1>16. ASSUME NEW q \in Requests,
              \/ SendRequest(q) \/ Admit(q) \/ NoUsage(q) \/ Save(q) \/ SaveFails(q)
              \/ \E cost \in Costs : Meter(q, cost)
       PROVE  Failures'
  BY <1>1, <1>16 DEF SendRequest, Admit, NoUsage, Save, SaveFails, Meter
<1> QED
  BY <1>3, <1>4, <1>5, <1>7, <1>8, <1>9, <1>10, <1>11, <1>12, <1>13, <1>14, <1>15, <1>16
     DEF Next

\* One failure alone never leaves the reservation of a task open that has
\* settled and returned: the second attempt makes up for it.
THEOREM OneFailureAloneIsRetried == Spec => []OneFailureIsRetried
<1>1. Init => HeldIsOpen /\ HeldFirst /\ Failures
  BY InitHeld, InitHeldFirst, InitFailures
<1>2. TypeOK /\ Flow /\ HeldIsOpen /\ HeldFirst /\ Failures /\ [Next]_vars =>
        (HeldIsOpen /\ HeldFirst /\ Failures)'
  BY StepHeld, StepHeldFirst, StepFailures
<1>3. TypeOK /\ Failures => OneFailureIsRetried
  BY DEF TypeOK, Failures, OneFailureIsRetried, Decided
<1> QED
  BY <1>1, <1>2, <1>3, FlowInvariant, PTL DEF Spec

\* The balance "reserved" is always the sum of the open reservations of tasks,
\* so it covers each of them and none is refused its settlement for want of it.
THEOREM ReservedIsHeld == Spec => []HeldIsOpen
<1>1. Init => HeldIsOpen
  BY InitHeld
<1>2. TypeOK /\ HeldIsOpen /\ [Next]_vars => HeldIsOpen'
  BY StepHeld
<1> QED
  BY <1>1, <1>2, TypeCorrect, PTL DEF Spec
=============================================================================
