-------------------------- MODULE AgentTaskProofs --------------------------
(***************************************************************************)
(* Theorems about AgentTask for every set of actions, policy, budget and   *)
(* choice of costs.                                                        *)
(***************************************************************************)
EXTENDS AgentTask, FiniteSetTheorems, SequenceTheorems, TLAPS

-----------------------------------------------------------------------------
(* The inductive invariant *)

\* Where the runner stands determines, but for what it was doing before an
\* approval, the state of the task.
StateAt ==
  /\ pc \in {"opening", "starting"} => state = "CREATED"
  /\ pc = "planning" => state = "ANALYZING"
  /\ pc \in {"loop", "requesting", "streaming"} => state \in {"PLANNING", "EXECUTING"}
  /\ pc \in {"deciding", "asking", "granting", "performing", "working", "reporting",
             "overrunGranting"} => state = "EXECUTING"
  /\ pc \in {"waiting", "overrunAsking", "overrunWaiting", "overrunDenying"} =>
       state = "WAITING_FOR_PERMISSION"
  /\ pc = "denying" => state \in {"EXECUTING", "WAITING_FOR_PERMISSION"}
  /\ pc \in {"verifying", "verified"} => state = "VERIFYING"
  /\ pc = "repairing" => state = "REPAIRING"
  /\ pc \in {"ending", "closing", "saving", "returned"} => state \in TerminalStates

\* Actions are worked on only as the policy and the answers allow.
DecisionAt ==
  /\ pc = "deciding" => decision \in Decisions
  /\ pc \in {"asking", "waiting", "granting", "performing", "working", "reporting"} =>
       decision \in Actions
  /\ pc \in {"asking", "waiting", "granting"} => Policy[decision] = "request"
  /\ pc = "granting" => asked \in approved
  /\ NothingUnapproved

\* The runaway guard stops a run at the last repetition.
RepeatsAt ==
  pc \notin {"closing", "saving", "returned", "rejected"} =>
    \A a \in Actions : repeats[a] < MaxIdenticalActions

ToldAt ==
  /\ pc \in {"ending", "closing", "saving", "returned"} => told # <<>> /\ told[1] = state
  /\ pc \notin {"ending", "closing", "saving", "returned", "rejected"} => told = <<>>

SavedAt == pc = "returned" => session = StatusOf(state)

Control == TypeOK /\ StateAt /\ DecisionAt /\ RepeatsAt /\ ToldAt /\ SavedAt

Stopped == {"CANCELLED", "FAILED", "BLOCKED"}

LEMMA Numbers ==
  /\ MaxModelCalls \in Nat /\ MaxRepairs \in Nat /\ MaxCommands \in Nat
  /\ MaxEstimatedCost \in Nat /\ Allowance \in Nat /\ MaxCheckpoints \in Nat
  /\ MaxSpend \in Nat /\ Charges \subseteq Nat
BY TaskAssumption

LEMMA InitControl == Init => Control
<1> SUFFICES ASSUME Init
             PROVE  Control
  OBVIOUS
<1>1. TypeOK
  <2>1. told \in Seq(TerminalStates) /\ repeats \in [Actions -> 0 .. MaxIdenticalActions]
    BY DEF Init, MaxIdenticalActions
  <2>2. asked = 0 /\ asked \in Nat /\ overruns \subseteq 1 .. asked
        /\ approved \subseteq answered /\ answered \subseteq 1 .. asked
    BY DEF Init
  <2>3. /\ pc \in Awaits /\ state \in TaskStates
        /\ decision \in Decisions \cup {NoDecision} /\ answer \in {NoAnswer, "yes", "no"}
        /\ session = "NONE" /\ verification = "unavailable"
        /\ abortedBy = Nobody /\ deadlineExceeded = FALSE /\ late = FALSE
    BY DEF Init, TaskStates, Awaits
  <2>4. /\ models \in 0 .. MaxModelCalls /\ repairs \in 0 .. MaxRepairs
        /\ commands \in 0 .. MaxCommands /\ checkpoints \in 0 .. MaxCheckpoints
        /\ cost \in Nat /\ limit \in Nat /\ receipts \in Nat /\ patches \in Nat
    BY Numbers DEF Init
  <2>5. QED
    BY <2>1, <2>2, <2>3, <2>4 DEF TypeOK
<1>2. StateAt /\ DecisionAt /\ ToldAt /\ SavedAt
  BY DEF Init, StateAt, DecisionAt, ToldAt, SavedAt, NothingUnapproved
<1>3. RepeatsAt
  BY DEF Init, RepeatsAt, MaxIdenticalActions
<1>4. QED
  BY <1>1, <1>2, <1>3 DEF Control

LEMMA OutcomeStops ==
  ASSUME NEW otherwise \in Stopped, NEW exceeded \in BOOLEAN, NEW aborted \in BOOLEAN
  PROVE  /\ Outcome(otherwise, exceeded, aborted) \in Stopped
         /\ aborted => Outcome(otherwise, exceeded, aborted) # "FAILED" \/ otherwise = "FAILED"
BY DEF Outcome, Stopped

\* What catch leaves behind.
LEMMA CatchEnds ==
  ASSUME Control, NEW outcome \in Stopped, Catch(outcome),
         pc \notin {"closing", "saving", "returned", "rejected"}
  PROVE  /\ pc' \in {"closing", "rejected"}
         /\ state' \in TaskStates
         /\ state' # state => <<state, state'>> \in AllowedTransitions /\ state' = outcome
         /\ told' \in Seq(TerminalStates)
         /\ pc' = "closing" => state' \in TerminalStates /\ told' # <<>> /\ told'[1] = state'
<1>1. told \in Seq(TerminalStates) /\ state \in TaskStates /\ outcome \in TerminalStates
  BY DEF Control, TypeOK, Stopped, TerminalStates
<1>2. pc' \in {"closing", "rejected"} /\ state' \in TaskStates
  BY <1>1 DEF Catch, TaskStates, TerminalStates
<1>3. state' # state => <<state, state'>> \in AllowedTransitions /\ state' = outcome
  BY DEF Catch
<1>4. told' \in Seq(TerminalStates)
  BY <1>1 DEF Catch
<1>5. ASSUME pc' = "closing"
      PROVE  state' \in TerminalStates /\ told' # <<>> /\ told'[1] = state'
  <2>1. told' = Append(told, outcome)
    BY <1>5 DEF Catch
  <2>2. CASE state \in TerminalStates
    <3>1. pc = "ending"
      BY <1>1, <2>2 DEF Control, StateAt, TerminalStates, TypeOK, Awaits, Synchronous, Over
    <3>2. told # <<>> /\ told[1] = state /\ Len(told) \in Nat
      BY <1>1, <3>1 DEF Control, ToldAt
    <3>3. Len(told) # 0
      BY <1>1, <3>2, EmptySeq
    <3>4. told'[1] = told[1]
      BY <1>1, <2>1, <3>2, <3>3
    <3>5. \A s \in TaskStates : <<state, s>> \notin AllowedTransitions
      BY <2>2 DEF AllowedTransitions, TerminalStates
    <3>6. state' = state
      BY <1>1, <3>5 DEF Catch, TaskStates, TerminalStates
    <3>7. told' # <<>>
      BY <1>1, <2>1
    <3>8. QED
      BY <2>2, <3>2, <3>4, <3>6, <3>7
  <2>3. CASE state \notin TerminalStates
    <3>1. told = <<>>
      BY <2>3 DEF Control, ToldAt, StateAt
    <3>2. state' = outcome
      BY <1>5, <2>3 DEF Catch
    <3>3. told' = <<outcome>>
      BY <2>1, <3>1
    <3>4. QED
      BY <1>1, <3>2, <3>3
  <2>4. QED
    BY <2>2, <2>3
<1>6. QED
  BY <1>2, <1>3, <1>4, <1>5

-----------------------------------------------------------------------------
(* Every step keeps it *)

\* The types of what is not part of the control.
DataType ==
  /\ session \in {"NONE", "ACTIVE", "PAUSED", "COMPLETED", "CRASHED", "CANCELLED"}
  /\ abortedBy \in {Nobody, "user", "deadline"}
  /\ deadlineExceeded \in BOOLEAN /\ late \in BOOLEAN
  /\ models \in 0 .. MaxModelCalls
  /\ repairs \in 0 .. MaxRepairs
  /\ commands \in 0 .. MaxCommands
  /\ cost \in Nat /\ limit \in Nat /\ receipts \in Nat
  /\ checkpoints \in 0 .. MaxCheckpoints
  /\ repeats \in [Actions -> 0 .. MaxIdenticalActions]
  /\ decision \in Decisions \cup {NoDecision}
  /\ verification \in {"unavailable", "passed", "failed", "cancelled"}
  /\ answer \in {NoAnswer, "yes", "no"}
  /\ asked \in Nat
  /\ overruns \subseteq 1 .. asked
  /\ approved \subseteq answered /\ answered \subseteq 1 .. asked
  /\ patches \in Nat

Running == pc \notin {"closing", "saving", "returned", "rejected"}

LEMMA TypeSplits ==
  TypeOK <=> /\ pc \in Synchronous \cup Awaits \cup Over
             /\ state \in TaskStates
             /\ told \in Seq(TerminalStates)
             /\ DataType
BY DEF TypeOK, DataType

LEMMA DataFrame ==
  ASSUME Control,
         UNCHANGED <<session, stop, budget, receipts, repeats, decision, verification, asks, patches>>
  PROVE  DataType'
BY TypeSplits DEF Control, DataType, stop, budget, asks

LEMMA CatchControl ==
  ASSUME Control, Running, NEW outcome \in Stopped, Catch(outcome), DataType'
  PROVE  Control'
<1>1. /\ pc' \in {"closing", "rejected"} /\ state' \in TaskStates
      /\ told' \in Seq(TerminalStates)
      /\ pc' = "closing" => state' \in TerminalStates /\ told' # <<>> /\ told'[1] = state'
  BY CatchEnds DEF Running
<1>2. TypeOK'
  BY <1>1 DEF TypeOK, DataType, Awaits, Over
<1>3. StateAt' /\ DecisionAt' /\ RepeatsAt' /\ SavedAt' /\ ToldAt'
  BY <1>1 DEF StateAt, DecisionAt, NothingUnapproved, RepeatsAt, SavedAt, ToldAt
<1>4. QED
  BY <1>2, <1>3 DEF Control

LEMMA ThrowControl ==
  ASSUME Control, Running, NEW otherwise \in Stopped, Throw(otherwise), DataType'
  PROVE  Control'
<1>1. PICK outcome \in Stopped : Catch(outcome)
  BY OutcomeStops DEF Throw, Control, TypeOK
<1>2. QED
  BY <1>1, CatchControl

LEMMA ConcludeControl ==
  ASSUME Control, pc \notin {"ending", "closing", "saving", "returned", "rejected"},
         NEW outcome \in TerminalStates, Conclude(outcome), DataType',
         UNCHANGED repeats
  PROVE  Control'
<1>1. told = <<>> /\ told' = <<outcome>> /\ state' = outcome /\ pc' = "ending"
  BY DEF Control, ToldAt, Conclude
<1>2. TypeOK'
  BY <1>1 DEF TypeOK, DataType, Awaits, TaskStates, TerminalStates
<1>3. StateAt' /\ DecisionAt' /\ SavedAt' /\ ToldAt'
  BY <1>1 DEF StateAt, DecisionAt, NothingUnapproved, SavedAt, ToldAt
<1>4. RepeatsAt'
  BY DEF Control, RepeatsAt
<1>5. QED
  BY <1>2, <1>3, <1>4 DEF Control

\* A step from one place of the try block to another.
LEMMA MoveControl ==
  ASSUME Control, pc \notin {"ending", "closing", "saving", "returned", "rejected"},
         pc' \in (Synchronous \cup Awaits) \ {"ending", "closing", "saving"},
         state' \in TaskStates, told' = told, DataType',
         StateAt', DecisionAt', UNCHANGED repeats
  PROVE  Control'
<1>1. told' = <<>> /\ pc' \in Synchronous \cup Awaits
      /\ pc' \notin {"ending", "closing", "saving", "returned", "rejected"}
  BY DEF Control, ToldAt, Synchronous, Awaits
<1>2. TypeOK'
  BY <1>1 DEF Control, TypeOK, DataType
<1>3. ToldAt' /\ SavedAt'
  BY <1>1 DEF ToldAt, SavedAt
<1>4. RepeatsAt'
  BY <1>1 DEF Control, RepeatsAt
<1>5. QED
  BY <1>2, <1>3, <1>4 DEF Control

\* extendCostLimit, wherever the answer comes.
LEMMA ExtendControl ==
  ASSUME Control, pc \in {"overrunAsking", "overrunWaiting"}, Extend,
         asked' = asked /\ overruns' = overruns,
         answered' \subseteq 1 .. asked /\ approved' \subseteq answered',
         answer' \in {NoAnswer, "yes", "no"},
         UNCHANGED <<session, stop, models, repairs, commands, cost, receipts, repeats,
                     decision, verification, patches>>
  PROVE  Control'
<1>1. limit' \in Nat /\ checkpoints' \in 0 .. MaxCheckpoints
  BY Numbers DEF Extend, Control, TypeOK
<1>2. DataType'
  BY <1>1 DEF Control, TypeOK, DataType, stop
<1>3. CASE Throw("BLOCKED")
  BY <1>2, <1>3, ThrowControl DEF Running, Stopped
<1>4. CASE pc' = "overrunGranting" /\ state' = "EXECUTING" /\ told' = told
  <2>1. StateAt' /\ DecisionAt' /\ state' \in TaskStates
    BY <1>4 DEF StateAt, DecisionAt, NothingUnapproved, TaskStates
  <2>2. QED
    BY <1>2, <1>4, <2>1, MoveControl DEF Synchronous, Awaits
<1>5. QED
  BY <1>3, <1>4 DEF Extend

\* An abort wakes a task that waits, and only such a task.
LEMMA WakeControl ==
  ASSUME Control, pc \in Awaits, NEW exceeded \in BOOLEAN,
         WakeWaiting(exceeded) \/ UNCHANGED control,
         abortedBy' \in {Nobody, "user", "deadline"},
         deadlineExceeded' \in BOOLEAN, late' \in BOOLEAN,
         UNCHANGED <<session, budget, receipts, repeats, decision, verification, asks, patches>>
  PROVE  Control'
<1>1. DataType'
  BY DEF Control, TypeOK, DataType, budget, asks
<1>2. CASE UNCHANGED control
  BY <1>1, <1>2 DEF control, asks, Control, TypeOK, DataType, StateAt, DecisionAt, RepeatsAt,
     ToldAt, SavedAt, NothingUnapproved
<1>3. CASE ~UNCHANGED control
  <2>1. pc \in {"waiting", "overrunWaiting"} /\ Catch(Outcome("CANCELLED", exceeded, TRUE))
    BY <1>3 DEF WakeWaiting
  <2>2. Outcome("CANCELLED", exceeded, TRUE) \in Stopped
    BY OutcomeStops DEF Stopped
  <2>3. QED
    BY <1>1, <2>1, <2>2, CatchControl DEF Running
<1>4. QED
  BY <1>2, <1>3

LEMMA NextControl == Control /\ [Next]_vars => Control'
<1> SUFFICES ASSUME Control, [Next]_vars
             PROVE  Control'
  OBVIOUS
<1>1. CASE UNCHANGED vars
  BY <1>1 DEF Control, vars, control, stop, budget, asks, TypeOK, StateAt, DecisionAt, RepeatsAt,
     ToldAt, SavedAt, NothingUnapproved
<1> DEFINE Quiet == UNCHANGED <<session, stop, budget, receipts, repeats, decision,
                               verification, asks, patches>>
<1>2. CASE PortFails \/ OverrunDenied \/ LoopStops
  <2>1. Quiet /\ Running /\ (Throw("FAILED") \/ Throw("BLOCKED"))
    BY <1>2 DEF PortFails, OverrunDenied, LoopStops, Running, Awaits
  <2>2. QED
    BY <2>1, DataFrame, ThrowControl DEF Stopped
<1>3. CASE Ended \/ CloseFails
  <2>1. Quiet /\ pc \in {"ending", "closing"} /\ pc' \in {"saving", "rejected"}
        /\ state' = state /\ told' = told
    BY <1>3 DEF Ended, CloseFails, Goto
  <2>2. DataType'
    BY <2>1, DataFrame
  <2>3. QED
    BY <2>1, <2>2 DEF Control, TypeOK, DataType, StateAt, DecisionAt, RepeatsAt, ToldAt, SavedAt,
       NothingUnapproved, Awaits, Over
<1>4. CASE Save \/ Open
  BY <1>4 DEF Save, Open, Goto, Control, TypeOK, StateAt, DecisionAt, RepeatsAt, ToldAt, SavedAt,
     NothingUnapproved, Awaits, Over, TerminalStates, StatusOf, stop, budget, asks
<1>5. CASE Started \/ Requested \/ Wait \/ Granted \/ OverrunGranted \/ Reported \/ Repair
  <2>1. Quiet /\ pc \notin {"ending", "closing", "saving", "returned", "rejected"}
    BY <1>5 DEF Started, Requested, Wait, Granted, OverrunGranted, Reported, Repair
  <2>2. DataType'
    BY <2>1, DataFrame
  <2>3. CASE Throw("CANCELLED")
    BY <2>1, <2>2, <2>3, ThrowControl DEF Running, Stopped
  <2>4. CASE ~Throw("CANCELLED")
    <3>1. /\ pc' \in (Synchronous \cup Awaits) \ {"ending", "closing", "saving"}
          /\ state' \in TaskStates /\ told' = told /\ StateAt'
      BY <1>5, <2>4 DEF Started, Requested, Wait, Granted, OverrunGranted, Reported, Repair,
         Goto, Control, StateAt, Synchronous, Awaits, TaskStates
    <3>2. DecisionAt'
      BY <1>5, <2>1, <2>4 DEF Started, Requested, Wait, Granted, OverrunGranted, Reported, Repair,
         Goto, Control, DecisionAt, NothingUnapproved, asks
    <3>3. QED
      BY <2>1, <2>2, <3>1, <3>2, MoveControl
  <2>5. QED
    BY <2>3, <2>4
<1>6. CASE Denied
  BY <1>6, DataFrame, ConcludeControl DEF Denied, TerminalStates
<1>7. CASE RequestModel
  <2>1. models < MaxModelCalls
    BY <1>7, Numbers DEF RequestModel, LoopContinues, Exhausted, Control, TypeOK
  <2>2. DataType'
    BY <1>7, <2>1, Numbers DEF RequestModel, Control, TypeOK, DataType, stop, asks
  <2>3. StateAt' /\ DecisionAt' /\ state' \in TaskStates
    BY <1>7 DEF RequestModel, Goto, Control, TypeOK, StateAt, DecisionAt, NothingUnapproved
  <2>4. QED
    BY <1>7, <2>2, <2>3, MoveControl DEF RequestModel, Goto, Synchronous, Awaits
<1>8. CASE \E d \in Decisions : Decide(d)
  <2>1. PICK d \in Decisions : Decide(d)
    BY <1>8
  <2>2. DataType'
    BY <2>1 DEF Decide, Control, TypeOK, DataType, stop, budget, asks
  <2>3. StateAt' /\ DecisionAt' /\ state' \in TaskStates /\ pc' = pc /\ told' = told /\ pc = "streaming"
    BY <2>1 DEF Decide, Control, TypeOK, StateAt, DecisionAt, NothingUnapproved, control
  <2>4. QED
    BY <2>1, <2>2, <2>3, MoveControl DEF Decide, Synchronous, Awaits
<1>9. CASE \E charge \in Charges : Receipt(charge)
  <2>1. PICK charge \in Charges : Receipt(charge)
    BY <1>9
  <2>2. cost' \in Nat /\ receipts' \in Nat
    BY <2>1, Numbers DEF Receipt, Control, TypeOK
  <2>3. asked' \in Nat /\ overruns' \subseteq 1 .. asked' /\ answered' \subseteq 1 .. asked'
        /\ approved' \subseteq answered' /\ answer' \in {NoAnswer, "yes", "no"}
    <3>1. CASE UNCHANGED asks
      BY <3>1 DEF asks, Control, TypeOK
    <3>2. CASE asked' = asked + 1 /\ overruns' = overruns \cup {asked'} /\ answer' = NoAnswer
               /\ UNCHANGED <<approved, answered>>
      BY <3>2 DEF Control, TypeOK
    <3>3. QED
      BY <2>1, <3>1, <3>2 DEF Receipt
  <2>4. DataType'
    BY <2>1, <2>2, <2>3 DEF Receipt, Control, TypeOK, DataType, stop
  <2>5. pc = "streaming" /\ UNCHANGED <<repeats, decision>>
    BY <2>1 DEF Receipt
  <2>6. CASE Throw("FAILED") \/ Throw("BLOCKED")
    BY <2>4, <2>5, <2>6, ThrowControl DEF Running, Stopped
  <2>7. CASE UNCHANGED control
    <3>1. StateAt' /\ DecisionAt' /\ pc' = pc /\ told' = told /\ state' \in TaskStates
      BY <2>5, <2>7 DEF control, Control, TypeOK, StateAt, DecisionAt, NothingUnapproved
    <3>2. QED
      BY <2>4, <2>5, <3>1, MoveControl DEF Synchronous, Awaits
  <2>8. CASE state' = "WAITING_FOR_PERMISSION" /\ pc' = "overrunAsking" /\ told' = told
    <3>1. StateAt' /\ DecisionAt' /\ state' \in TaskStates
      BY <2>8 DEF StateAt, DecisionAt, NothingUnapproved, TaskStates
    <3>2. QED
      BY <2>4, <2>5, <2>8, <3>1, MoveControl DEF Synchronous, Awaits
  <2>9. QED
    BY <2>1, <2>6, <2>7, <2>8 DEF Receipt
<1>10. CASE StreamEnds
  <2>1. pc = "streaming" /\ repeats \in [Actions -> 0 .. MaxIdenticalActions]
        /\ \A a \in Actions : repeats[a] < MaxIdenticalActions
    BY <1>10 DEF StreamEnds, Control, TypeOK, RepeatsAt
  <2>2. repeats' \in [Actions -> 0 .. MaxIdenticalActions]
    BY <1>10, <2>1 DEF StreamEnds, MaxIdenticalActions
  <2>3. DataType'
    BY <1>10, <2>2 DEF StreamEnds, Control, TypeOK, DataType, stop, budget, asks
  <2>4. CASE Throw("FAILED") \/ Throw("BLOCKED")
    BY <2>1, <2>3, <2>4, ThrowControl DEF Running, Stopped
  <2>5. CASE /\ pc' = "deciding" /\ state' = "EXECUTING" /\ told' = told
             /\ \/ repeats' = repeats
                \/ /\ repeats' = [repeats EXCEPT ![decision] = @ + 1]
                   /\ repeats'[decision] < MaxIdenticalActions
             /\ decision' = decision /\ decision \in Decisions
    <3>1. \A a \in Actions : repeats'[a] < MaxIdenticalActions
      BY <2>1, <2>5
    <3>2. StateAt' /\ DecisionAt' /\ RepeatsAt' /\ SavedAt' /\ ToldAt'
      BY <2>1, <2>5, <3>1 DEF Control, StateAt, DecisionAt, NothingUnapproved, RepeatsAt, SavedAt, ToldAt
    <3>3. TypeOK'
      BY <2>3, <2>5 DEF Control, TypeOK, DataType, Synchronous, TaskStates
    <3>4. QED
      BY <3>2, <3>3 DEF Control
  <2>6. QED
    BY <1>10, <2>4, <2>5 DEF StreamEnds, Decisions
<1>11. CASE Act
  <2>1. /\ pc = "deciding" /\ state = "EXECUTING" /\ UNCHANGED <<told, repeats, decision, approved>>
        /\ pc' \in {"loop", "verifying", "performing", "denying", "asking"}
        /\ state' = IF pc' = "verifying" THEN "VERIFYING" ELSE state
        /\ pc' = "performing" => decision \in Actions /\ Policy[decision] = "allow"
        /\ pc' = "asking" => decision \in Actions /\ Policy[decision] = "request"
    <3>1. decision \in Actions => Policy[decision] \in {"allow", "request", "deny"}
      BY TaskAssumption
    <3>2. pc = "deciding" /\ state = "EXECUTING" /\ UNCHANGED <<repeats, decision>>
      BY <1>11 DEF Act, Control, StateAt
    <3>3. told' = told /\ approved' = approved
      BY <1>11 DEF Act, Goto, asks
    <3>4. QED
      BY <1>11, <3>1, <3>2, <3>3 DEF Act, Goto
  <2>2. asked' \in Nat /\ overruns' \subseteq 1 .. asked' /\ answered' \subseteq 1 .. asked'
        /\ approved' \subseteq answered' /\ answer' \in {NoAnswer, "yes", "no"}
    <3>1. CASE UNCHANGED asks
      BY <3>1 DEF asks, Control, TypeOK
    <3>2. CASE asked' = asked + 1 /\ UNCHANGED <<overruns, answer, approved, answered>>
      BY <3>2 DEF Control, TypeOK
    <3>3. QED
      BY <1>11, <3>1, <3>2 DEF Act
  <2>3. DataType'
    BY <1>11, <2>2 DEF Act, Control, TypeOK, DataType, stop, budget
  <2>4. StateAt' /\ state' \in TaskStates /\ pc' \in (Synchronous \cup Awaits) \ {"ending", "closing", "saving"}
    <3>1. state' \in {"EXECUTING", "VERIFYING"} /\ (pc' # "verifying" => state' = "EXECUTING")
      BY <2>1
    <3>2. QED
      BY <2>1, <3>1 DEF StateAt, TaskStates, Synchronous, Awaits
  <2>5. DecisionAt'
    <3>1. decision' = decision
      BY <2>1
    <3>2. QED
      BY <2>1, <3>1 DEF DecisionAt, NothingUnapproved
  <2>6. QED
    BY <2>1, <2>3, <2>4, <2>5, MoveControl
<1>12. CASE OverrunAsked
  <2>1. pc = "overrunAsking" /\ UNCHANGED asks
    BY <1>12 DEF OverrunAsked
  <2>2. CASE Extend
    BY <1>12, <2>1, <2>2, ExtendControl DEF OverrunAsked, asks, Control, TypeOK
  <2>3. CASE UNCHANGED <<limit, checkpoints>>
    <3>1. DataType'
      BY <1>12, <2>3, DataFrame DEF OverrunAsked, budget
    <3>2. CASE Throw("CANCELLED")
      BY <2>1, <3>1, <3>2, ThrowControl DEF Running, Stopped
    <3>3. CASE Goto("overrunDenying") \/ Goto("overrunWaiting")
      <4>1. StateAt' /\ DecisionAt' /\ state' \in TaskStates /\ told' = told
        BY <2>1, <3>3 DEF Goto, Control, TypeOK, StateAt, DecisionAt, NothingUnapproved
      <4>2. UNCHANGED repeats
        BY <1>12 DEF OverrunAsked
      <4>3. QED
        BY <2>1, <3>1, <3>3, <4>1, <4>2, MoveControl DEF Goto, Synchronous, Awaits
    <3>4. CASE Extend
      BY <2>2, <3>4
    <3>5. QED
      BY <1>12, <3>2, <3>3, <3>4 DEF OverrunAsked
  <2>4. QED
    BY <1>12, <2>2, <2>3 DEF OverrunAsked
<1>13. CASE Perform
  <2>1. pc = "performing" /\ state = "EXECUTING" /\ UNCHANGED <<repeats, decision, approved, asked>>
    BY <1>13 DEF Perform, asks, Control, StateAt
  <2>2. commands' \in 0 .. MaxCommands
    BY <1>13, Numbers DEF Perform, Exhausted, Control, TypeOK
  <2>3. DataType'
    BY <1>13, <2>2 DEF Perform, Control, TypeOK, DataType, stop, asks
  <2>4. CASE Throw("BLOCKED")
    BY <2>1, <2>3, <2>4, ThrowControl DEF Running, Stopped
  <2>5. CASE Goto("working")
    <3>1. StateAt' /\ state' \in TaskStates /\ told' = told
      BY <2>1, <2>5 DEF Goto, Control, TypeOK, StateAt
    <3>2. DecisionAt'
      BY <2>1, <2>5 DEF Goto, Control, DecisionAt, NothingUnapproved
    <3>3. QED
      BY <2>1, <2>3, <2>5, <3>1, <3>2, MoveControl DEF Goto, Synchronous, Awaits
  <2>6. QED
    BY <1>13, <2>4, <2>5 DEF Perform
<1>14. CASE Worked \/ \E result \in {"passed", "failed", "unavailable", "cancelled"} : Verify(result)
  <2>1. /\ pc \in {"working", "verifying"}
        /\ pc' = IF pc = "working" THEN "reporting" ELSE "verified"
        /\ UNCHANGED <<state, told, repeats, decision, approved, asked>>
    BY <1>14 DEF Worked, Verify, Goto, asks
  <2>2. DataType'
    <3>1. patches' \in Nat /\ verification' \in {"unavailable", "passed", "failed", "cancelled"}
      BY <1>14 DEF Worked, Verify, Control, TypeOK
    <3>2. UNCHANGED <<session, stop, budget, receipts, repeats, decision, asks>>
      BY <1>14 DEF Worked, Verify
    <3>3. QED
      BY <3>1, <3>2 DEF Control, TypeOK, DataType, stop, budget, asks
  <2>3. StateAt' /\ DecisionAt' /\ state' \in TaskStates
    BY <2>1 DEF Control, TypeOK, StateAt, DecisionAt, NothingUnapproved
  <2>4. QED
    BY <2>1, <2>2, <2>3, MoveControl DEF Synchronous, Awaits
<1>15. CASE Verified
  <2>1. pc = "verified" /\ UNCHANGED repeats
    BY <1>15 DEF Verified
  <2>2. repairs' \in 0 .. MaxRepairs
    BY <1>15, Numbers DEF Verified, Exhausted, Control, TypeOK
  <2>3. DataType'
    BY <1>15, <2>2 DEF Verified, Control, TypeOK, DataType, stop, asks
  <2>4. CASE Throw("CANCELLED")
    BY <2>1, <2>3, <2>4, ThrowControl DEF Running, Stopped
  <2>5. CASE Conclude("COMPLETED") \/ Conclude("BLOCKED")
    BY <2>1, <2>3, <2>5, ConcludeControl DEF TerminalStates
  <2>6. CASE pc' = "repairing" /\ state' = "REPAIRING" /\ told' = told
    <3>1. StateAt' /\ DecisionAt' /\ state' \in TaskStates
      BY <2>6 DEF StateAt, DecisionAt, NothingUnapproved, TaskStates
    <3>2. QED
      BY <2>1, <2>3, <2>6, <3>1, MoveControl DEF Synchronous, Awaits
  <2>7. QED
    BY <1>15, <2>4, <2>5, <2>6 DEF Verified
<1>16. CASE \E id \in 1 .. asked, yes \in BOOLEAN : Answer(id, yes)
  <2>1. PICK id \in 1 .. asked, yes \in BOOLEAN : Answer(id, yes)
    BY <1>16
  <2>2. /\ answered' \subseteq 1 .. asked /\ approved' \subseteq answered'
        /\ approved \subseteq approved' /\ (yes => id \in approved')
        /\ asked' = asked /\ overruns' = overruns /\ answer' \in {NoAnswer, "yes", "no"}
        /\ UNCHANGED <<session, stop, models, repairs, commands, cost, receipts, repeats,
                       decision, verification, patches>>
    BY <2>1 DEF Answer, Control, TypeOK
  <2>3. CASE pc = "overrunWaiting" /\ Extend
    BY <2>2, <2>3, ExtendControl
  <2>4. CASE UNCHANGED <<limit, checkpoints>>
    <3>1. DataType'
      BY <2>2, <2>4 DEF Control, TypeOK, DataType, stop
    <3>2. CASE pc = "waiting" /\ Resolves(id)
      <4>1. /\ pc' = IF yes THEN "granting" ELSE "denying"
            /\ state' = IF yes THEN "EXECUTING" ELSE state
            /\ told' = told
            /\ yes => asked \in approved'
        BY <2>1, <2>2, <3>2 DEF Answer, Resolves
      <4>2. StateAt' /\ DecisionAt' /\ state' \in TaskStates
        BY <2>2, <3>2, <4>1 DEF Control, StateAt, DecisionAt, NothingUnapproved, TaskStates
      <4>3. QED
        BY <2>2, <3>1, <3>2, <4>1, <4>2, MoveControl DEF Synchronous, Awaits
    <3>3. CASE pc = "overrunWaiting" /\ Goto("overrunDenying")
      <4>1. StateAt' /\ DecisionAt' /\ state' \in TaskStates
        BY <3>3 DEF Goto, Control, TypeOK, StateAt, DecisionAt, NothingUnapproved
      <4>2. QED
        BY <2>2, <3>1, <3>3, <4>1, MoveControl DEF Goto, Synchronous, Awaits
    <3>4. CASE UNCHANGED control
      BY <2>2, <3>1, <3>4 DEF control, Control, TypeOK, DataType, StateAt, DecisionAt, RepeatsAt,
         ToldAt, SavedAt, NothingUnapproved
    <3>5. QED
      BY <2>1, <2>3, <2>4, <3>2, <3>3, <3>4 DEF Answer
  <2>5. QED
    BY <2>1, <2>3, <2>4 DEF Answer
<1>17. CASE Cancel \/ Elapse \/ Deadline
  <2>1. PICK exceeded \in BOOLEAN : WakeWaiting(exceeded) \/ UNCHANGED control
    BY <1>17 DEF Cancel, Elapse, Deadline, Control, TypeOK
  <2>2. /\ pc \in Awaits
        /\ abortedBy' \in {Nobody, "user", "deadline"}
        /\ deadlineExceeded' \in BOOLEAN /\ late' \in BOOLEAN
        /\ UNCHANGED <<session, budget, receipts, repeats, decision, verification, asks, patches>>
    BY <1>17 DEF Cancel, Elapse, Deadline, Control, TypeOK
  <2>3. QED
    BY <2>1, <2>2, WakeControl
<1>18. QED
  BY <1>1, <1>2, <1>3, <1>4, <1>5, <1>6, <1>7, <1>8, <1>9, <1>10, <1>11, <1>12, <1>13, <1>14,
     <1>15, <1>16, <1>17 DEF Next, Run, User, Clock

\* The state, the decision, the history and the budgets of a task always fit
\* together; an action is never worked on against the policy and the user; and a
\* task that returns has told of the state that it and its session stay in.
THEOREM TaskInvariants == Spec => [](TypeOK /\ NothingUnapproved /\ OutcomeAgrees)
<1>1. Control => TypeOK /\ NothingUnapproved /\ OutcomeAgrees
  BY DEF Control, DecisionAt, OutcomeAgrees, ToldAt, StateAt, SavedAt
<1>2. QED
  BY <1>1, InitControl, NextControl, PTL DEF Spec

\* Once a task has returned, what it told its listeners first is the state it
\* ended in, and its session has the status of that state, whatever failed on
\* the way.
THEOREM EndsAreTold == Spec => []OutcomeAgrees
BY TaskInvariants, PTL

-----------------------------------------------------------------------------
(* What a step may do *)

LEMMA FlowIsAllowed ==
  {<<"CREATED", "ANALYZING">>, <<"ANALYZING", "PLANNING">>,
   <<"PLANNING", "WAITING_FOR_PERMISSION">>, <<"EXECUTING", "WAITING_FOR_PERMISSION">>,
   <<"WAITING_FOR_PERMISSION", "EXECUTING">>, <<"PLANNING", "EXECUTING">>,
   <<"EXECUTING", "VERIFYING">>, <<"EXECUTING", "BLOCKED">>,
   <<"WAITING_FOR_PERMISSION", "BLOCKED">>, <<"VERIFYING", "COMPLETED">>,
   <<"VERIFYING", "BLOCKED">>, <<"VERIFYING", "REPAIRING">>, <<"REPAIRING", "EXECUTING">>}
  \subseteq AllowedTransitions
BY DEF AllowedTransitions

\* A step that changes the state is a throw or one of the transitions of the flow.
Moves ==
  \/ Running /\ \E otherwise \in Stopped : Throw(otherwise)
  \/ Running /\ abortedBy = Nobody /\ \E outcome \in Stopped : Catch(outcome)
  \/ <<state, state'>> \in AllowedTransitions /\ state' # "FAILED"

LEMMA StateMoves ==
  ASSUME Control, Next, state' # state
  PROVE  Moves
<1>1. Stopped = {"CANCELLED", "FAILED", "BLOCKED"}
  BY DEF Stopped
<1>2. CASE PortFails \/ OverrunDenied \/ LoopStops
  BY <1>1, <1>2 DEF PortFails, OverrunDenied, LoopStops, Running, Awaits, Moves
<1>3. CASE Started \/ Repair \/ Denied
  BY <1>3, FlowIsAllowed DEF Started, Repair, Denied, Conclude, Control, StateAt, Moves
<1>4. CASE Wait \/ OverrunAsked
  BY <1>1, <1>4, FlowIsAllowed DEF Wait, OverrunAsked, Extend, Goto, Control, StateAt, Running, Moves
<1>5. CASE StreamEnds \/ \E charge \in Charges : Receipt(charge)
  BY <1>1, <1>5, FlowIsAllowed DEF StreamEnds, Receipt, control, Control, StateAt, Running, Moves
<1>6. CASE Act \/ Perform
  BY <1>1, <1>6, FlowIsAllowed DEF Act, Perform, Goto, Control, StateAt, Running, Moves
<1>7. CASE Verified
  BY <1>1, <1>7, FlowIsAllowed DEF Verified, Conclude, Control, StateAt, Running, Moves
<1>8. CASE \E id \in 1 .. asked, yes \in BOOLEAN : Answer(id, yes)
  BY <1>1, <1>8, FlowIsAllowed DEF Answer, Extend, Goto, control, Control, StateAt, Running, Moves
<1>9. CASE Cancel \/ Elapse \/ Deadline
  <2>1. PICK exceeded \in BOOLEAN : WakeWaiting(exceeded) /\ abortedBy = Nobody /\ ~UNCHANGED control
    BY <1>9 DEF Cancel, Elapse, Deadline, control, Control, TypeOK
  <2>2. Outcome("CANCELLED", exceeded, TRUE) \in Stopped
    BY <1>1, OutcomeStops
  <2>3. QED
    BY <2>1, <2>2 DEF WakeWaiting, Running, Moves
<1>10. CASE \/ Open \/ RequestModel \/ Requested \/ Granted \/ OverrunGranted
            \/ Worked \/ Reported \/ Ended \/ CloseFails \/ Save
            \/ \E d \in Decisions : Decide(d)
            \/ \E result \in {"passed", "failed", "unavailable", "cancelled"} : Verify(result)
  BY <1>10 DEF Open, RequestModel, Requested, Granted, OverrunGranted, Worked, Reported, Ended,
     CloseFails, Save, Decide, Verify, Goto, control
<1>11. QED
  BY <1>2, <1>3, <1>4, <1>5, <1>6, <1>7, <1>8, <1>9, <1>10 DEF Next, Run, User, Clock

LEMMA StepTransitions ==
  Control /\ [Next]_vars => [state' # state => <<state, state'>> \in AllowedTransitions]_vars
<1> SUFFICES ASSUME Control, Next, state' # state
             PROVE  <<state, state'>> \in AllowedTransitions
  BY DEF vars, control
<1>1. ASSUME Running, NEW otherwise \in Stopped, Throw(otherwise)
      PROVE  \E outcome \in Stopped : Catch(outcome)
  BY <1>1, OutcomeStops DEF Throw, Control, TypeOK
<1>2. ASSUME Running, NEW outcome \in Stopped, Catch(outcome)
      PROVE  <<state, state'>> \in AllowedTransitions
  BY <1>2, CatchEnds DEF Running
<1>3. QED
  BY <1>1, <1>2, StateMoves DEF Moves

\* The runner never asks for a transition that the contract refuses.
THEOREM TransitionsAreAllowed == Spec => TransitionsAllowed
BY InitControl, NextControl, StepTransitions, PTL DEF Spec, TransitionsAllowed

LEMMA StepNotFailed ==
  Control /\ [Next]_vars =>
    [abortedBy # Nobody /\ state \notin TerminalStates => state' # "FAILED"]_vars
<1> SUFFICES ASSUME Control, Next, abortedBy # Nobody, state \notin TerminalStates
             PROVE  state' # "FAILED"
  BY DEF vars, control
<1>1. ASSUME NEW otherwise \in Stopped, Throw(otherwise)
      PROVE  state' # "FAILED"
  BY <1>1 DEF Throw, Outcome, Catch, TerminalStates, Control, TypeOK
<1>2. CASE state' = state
  BY <1>2 DEF TerminalStates
<1>3. QED
  BY <1>1, <1>2, StateMoves DEF Moves

\* Once aborted, a task does not end as FAILED.
THEOREM StoppedTasksDoNotFail == Spec => StoppedIsNotFailed
BY InitControl, NextControl, StepNotFailed, PTL DEF Spec, StoppedIsNotFailed

LEMMA StepAfterStop ==
  [Next]_vars => [abortedBy # Nobody => UNCHANGED <<models, patches>>]_vars
<1> SUFFICES ASSUME Next, abortedBy # Nobody
             PROVE  UNCHANGED <<models, patches>>
  OBVIOUS
<1>1. ~RequestModel /\ (Worked => UNCHANGED <<models, patches>>)
  BY DEF RequestModel, LoopContinues, Worked, budget
<1>2. QED
  BY <1>1 DEF Next, Run, User, Clock, Open, Started, LoopStops, Requested, StreamEnds, Decide,
     Receipt, Act, Wait, Granted, Denied, OverrunAsked, OverrunGranted, OverrunDenied, Perform,
     Reported, Repair, Verified, Verify, PortFails, Ended, CloseFails, Save, Cancel, Answer,
     Elapse, Deadline, budget

\* After an abort no model call starts and no patch stays.
THEOREM NothingHappensAfterStop == Spec => NothingAfterStop
BY StepAfterStop, PTL DEF Spec, NothingAfterStop

-----------------------------------------------------------------------------
(* What the user agreed to spend *)

\* The request to extend the cost limit that is still to be answered.
OpenOverrun == IF pc \in {"overrunAsking", "overrunWaiting"} THEN {asked} ELSE {}

\* The requests to extend the limit that the user agreed to, but for the open one.
Agreed == (approved \cap overruns) \ OpenOverrun

\* The limit was extended once for each checkpoint, and each took an approval of
\* its own.
Spending ==
  /\ limit = MaxEstimatedCost + Allowance * checkpoints
  /\ checkpoints <= Cardinality(Agreed)
  /\ pc \in {"overrunAsking", "overrunWaiting"} => asked \in overruns
  /\ pc = "overrunAsking" /\ answer = "yes" => asked \in approved

LEMMA InitSpending == Init => Spending
<1> SUFFICES ASSUME Init
             PROVE  Spending
  OBVIOUS
<1>1. Agreed = {} /\ Cardinality({}) = 0
  BY FS_EmptySet DEF Init, Agreed
<1>2. Allowance * 0 = 0
  BY Numbers
<1>3. QED
  BY <1>1, <1>2, Numbers DEF Init, Spending

LEMMA SomeFinite ==
  ASSUME NEW n \in Nat, NEW S \in SUBSET (1 .. n)
  PROVE  IsFiniteSet(S) /\ Cardinality(S) \in Nat
<1>1. IsFiniteSet(1 .. n)
  BY FS_Interval
<1>2. IsFiniteSet(S)
  BY <1>1, FS_Subset
<1>3. QED
  BY <1>2, FS_CardinalityType

LEMMA AgreedFinite ==
  ASSUME Control
  PROVE  IsFiniteSet(Agreed) /\ Cardinality(Agreed) \in Nat
<1>1. asked \in Nat /\ Agreed \in SUBSET (1 .. asked)
  BY DEF Agreed, Control, TypeOK
<1>2. QED
  BY <1>1, SomeFinite

LEMMA AgreedFiniteAfter ==
  ASSUME Control'
  PROVE  IsFiniteSet(Agreed') /\ Cardinality(Agreed') \in Nat
<1>1. asked' \in Nat /\ Agreed' \in SUBSET (1 .. asked')
  BY DEF Agreed, Control, TypeOK
<1>2. QED
  BY <1>1, SomeFinite

\* A step without an extension forgets no approval.
LEMMA SpendingStays ==
  ASSUME Control, Control', Spending, limit' = limit, checkpoints' = checkpoints,
         Agreed \subseteq Agreed'
  PROVE  limit' = MaxEstimatedCost + Allowance * checkpoints' /\ checkpoints' <= Cardinality(Agreed')
<1>1. IsFiniteSet(Agreed') /\ Cardinality(Agreed') \in Nat
  BY AgreedFiniteAfter
<1>2. Cardinality(Agreed) <= Cardinality(Agreed') /\ Cardinality(Agreed) \in Nat
  BY <1>1, FS_Subset, AgreedFinite
<1>3. QED
  BY <1>1, <1>2, Numbers DEF Spending, Control, TypeOK

\* extendCostLimit after the approval of the open request.
LEMMA ExtendSpends ==
  ASSUME Control, Control', Spending, pc \in {"overrunAsking", "overrunWaiting"},
         Extend, asked' = asked, overruns' = overruns, approved \subseteq approved',
         asked \in approved'
  PROVE  Spending'
<1>1. Agreed \subseteq Agreed'
  BY DEF Agreed, OpenOverrun, Extend, Catch, Throw
<1>2. pc' \notin {"overrunAsking", "overrunWaiting"}
  BY DEF Extend, Throw, Catch
<1>3. CASE limit' = limit /\ checkpoints' = checkpoints
  BY <1>1, <1>2, <1>3, SpendingStays DEF Spending
<1>4. CASE limit' = limit + Allowance /\ checkpoints' = checkpoints + 1
  <2>1. Agreed \cup {asked} \subseteq Agreed' /\ asked \notin Agreed
    BY <1>1, <1>2 DEF Agreed, OpenOverrun, Spending
  <2>2. IsFiniteSet(Agreed) /\ IsFiniteSet(Agreed') /\ Cardinality(Agreed') \in Nat
        /\ Cardinality(Agreed) \in Nat
    BY AgreedFinite, AgreedFiniteAfter
  <2>3. Cardinality(Agreed \cup {asked}) = Cardinality(Agreed) + 1
    BY <2>1, <2>2, FS_AddElement
  <2>4. Cardinality(Agreed) + 1 <= Cardinality(Agreed')
    BY <2>1, <2>2, <2>3, FS_Subset
  <2>5. Allowance * (checkpoints + 1) = Allowance * checkpoints + Allowance
    BY Numbers DEF Control, TypeOK
  <2>6. Allowance * checkpoints \in Nat
    BY Numbers DEF Control, TypeOK
  <2>7. QED
    BY <1>2, <1>4, <2>2, <2>4, <2>5, <2>6, Numbers DEF Spending, Control, TypeOK
<1>5. QED
  BY <1>3, <1>4 DEF Extend

LEMMA NextSpending == Control /\ Control' /\ Spending /\ [Next]_vars => Spending'
<1> SUFFICES ASSUME Control, Control', Spending, [Next]_vars
             PROVE  Spending'
  OBVIOUS
<1>1. ASSUME UNCHANGED <<asked, overruns, approved, limit, checkpoints>>,
             pc' \in {"overrunAsking", "overrunWaiting"} => pc \in {"overrunAsking", "overrunWaiting"},
             pc' = "overrunAsking" => pc = "overrunAsking" /\ answer' = answer
      PROVE  Spending'
  <2>1. Agreed \subseteq Agreed'
    BY <1>1 DEF Agreed, OpenOverrun
  <2>2. QED
    BY <1>1, <2>1, SpendingStays DEF Spending
<1>2. CASE \/ Open \/ Started \/ LoopStops \/ RequestModel \/ Requested \/ StreamEnds
           \/ \E d \in Decisions : Decide(d)
           \/ Wait \/ Granted \/ Denied \/ OverrunGranted \/ OverrunDenied
           \/ Perform \/ Worked \/ Reported \/ Repair \/ Verified
           \/ \E result \in {"passed", "failed", "unavailable", "cancelled"} : Verify(result)
           \/ PortFails \/ Ended \/ CloseFails \/ Save
  <2>1. pc' \notin {"overrunAsking", "overrunWaiting"} \/ UNCHANGED pc
    BY <1>2 DEF Open, Started, LoopStops, RequestModel, Requested, StreamEnds, Decide, Wait,
       Granted, Denied, OverrunGranted, OverrunDenied, Perform, Worked, Reported, Repair,
       Verified, Verify, PortFails, Ended, CloseFails, Save, Throw, Catch, Conclude, Goto,
       control
  <2>2. UNCHANGED <<asked, overruns, approved, limit, checkpoints, answer>>
    BY <1>2 DEF Open, Started, LoopStops, RequestModel, Requested, StreamEnds, Decide, Wait,
       Granted, Denied, OverrunGranted, OverrunDenied, Perform, Worked, Reported, Repair,
       Verified, Verify, PortFails, Ended, CloseFails, Save, asks, budget
  <2>3. QED
    BY <1>1, <2>1, <2>2
<1>3. CASE Act
  <2>1. /\ pc = "deciding" /\ pc' \notin {"overrunAsking", "overrunWaiting"}
        /\ UNCHANGED <<overruns, approved, limit, checkpoints>>
    BY <1>3 DEF Act, Goto, asks, budget
  <2>2. Agreed \subseteq Agreed'
    BY <2>1 DEF Agreed, OpenOverrun
  <2>3. QED
    BY <2>1, <2>2, SpendingStays DEF Spending
<1>4. ASSUME NEW charge \in Charges, Receipt(charge)
      PROVE  Spending'
  <2>1. CASE UNCHANGED asks /\ pc' \notin {"overrunAsking", "overrunWaiting"}
    BY <1>1, <1>4, <2>1 DEF Receipt, asks
  <2>2. CASE /\ pc = "streaming" /\ pc' = "overrunAsking" /\ asked' = asked + 1
             /\ overruns' = overruns \cup {asked'} /\ answer' = NoAnswer /\ approved' = approved
    <3>1. asked + 1 \notin approved
      BY DEF Control, TypeOK
    <3>2. Agreed \subseteq Agreed'
      BY <2>2, <3>1 DEF Agreed, OpenOverrun
    <3>3. limit' = limit /\ checkpoints' = checkpoints
      BY <1>4 DEF Receipt
    <3>4. QED
      BY <2>2, <3>2, <3>3, SpendingStays DEF Spending, NoAnswer
  <2>3. QED
    BY <1>4, <2>1, <2>2 DEF Receipt, Throw, Catch, control, asks
<1>5. CASE OverrunAsked
  <2>1. CASE answer = "yes" /\ Extend
    BY <1>5, <2>1, ExtendSpends DEF OverrunAsked, Spending, asks
  <2>2. CASE UNCHANGED <<limit, checkpoints>> /\ pc' # "overrunAsking"
    BY <1>1, <1>5, <2>2 DEF OverrunAsked, asks
  <2>3. QED
    BY <1>5, <2>1, <2>2 DEF OverrunAsked, Throw, Catch, Goto
<1>6. ASSUME NEW id \in 1 .. asked, NEW yes \in BOOLEAN, Answer(id, yes)
      PROVE  Spending'
  <2>1. approved \subseteq approved' /\ asked' = asked /\ overruns' = overruns
    BY <1>6 DEF Answer
  <2>2. CASE pc = "overrunWaiting" /\ Resolves(id) /\ yes /\ Extend
    BY <1>6, <2>1, <2>2, ExtendSpends DEF Answer, Resolves
  <2>3. CASE /\ UNCHANGED <<limit, checkpoints>>
             /\ pc' \in {"overrunAsking", "overrunWaiting"} => pc' = pc
             /\ pc' = "overrunAsking" /\ answer' # answer => Resolves(id) /\ (answer' = "yes" => yes)
    <3>1. Agreed \subseteq Agreed'
      BY <2>1, <2>3 DEF Agreed, OpenOverrun
    <3>2. pc' = "overrunAsking" /\ answer' = "yes" => asked \in approved'
      BY <1>6, <2>1, <2>3 DEF Answer, Resolves, Spending
    <3>3. QED
      BY <2>1, <2>3, <3>1, <3>2, SpendingStays DEF Spending
  <2>4. QED
    BY <1>6, <2>2, <2>3 DEF Answer, Goto, control
<1>7. CASE Cancel \/ Elapse \/ Deadline
  <2>1. UNCHANGED <<asked, overruns, approved, limit, checkpoints, answer>>
    BY <1>7 DEF Cancel, Elapse, Deadline, asks, budget
  <2>2. pc' \notin {"overrunAsking", "overrunWaiting"} \/ UNCHANGED pc
    BY <1>7 DEF Cancel, Elapse, Deadline, WakeWaiting, Catch, control
  <2>3. QED
    BY <1>1, <2>1, <2>2
<1>8. CASE UNCHANGED vars
  BY <1>1, <1>8 DEF vars, control, asks, budget
<1>9. QED
  BY <1>2, <1>3, <1>4, <1>5, <1>6, <1>7, <1>8 DEF Next, Run, User, Clock

\* A model call starts only within the limit.
LEMMA StepSpends ==
  Control /\ Spending /\ [Next]_vars =>
    [models' # models =>
       cost <= MaxEstimatedCost + Allowance * Cardinality(approved \cap overruns)]_vars
<1> SUFFICES ASSUME Control, Spending, Next, models' # models
             PROVE  cost <= MaxEstimatedCost + Allowance * Cardinality(approved \cap overruns)
  BY DEF vars, budget
<1>1. RequestModel
  BY DEF Next, Run, User, Clock, Open, Started, LoopStops, Requested, StreamEnds, Decide,
     Receipt, Act, Wait, Granted, Denied, OverrunAsked, OverrunGranted, OverrunDenied, Perform,
     Worked, Reported, Repair, Verified, Verify, PortFails, Ended, CloseFails, Save, Cancel,
     Answer, Elapse, Deadline, budget
<1>2. Agreed = approved \cap overruns
  BY <1>1 DEF RequestModel, Agreed, OpenOverrun
<1>3. cost <= limit
  BY <1>1 DEF RequestModel, LoopContinues, Exhausted, Control, TypeOK
<1>4. Allowance * checkpoints <= Allowance * Cardinality(Agreed)
  <2>1. PICK more \in Nat : Cardinality(Agreed) = checkpoints + more
    BY AgreedFinite DEF Spending, Control, TypeOK
  <2>2. Allowance * (checkpoints + more) = Allowance * checkpoints + Allowance * more
    BY Numbers DEF Control, TypeOK
  <2>3. Allowance * more \in Nat /\ Allowance * checkpoints \in Nat
    BY Numbers DEF Control, TypeOK
  <2>4. QED
    BY <2>1, <2>2, <2>3
<1>5. Allowance * checkpoints \in Nat /\ Allowance * Cardinality(Agreed) \in Nat
  BY AgreedFinite, Numbers DEF Control, TypeOK
<1>6. QED
  BY <1>2, <1>3, <1>4, <1>5, Numbers DEF Spending, Control, TypeOK

\* No model call starts above what the user agreed to spend.
THEOREM SpendingIsApproved == Spec => SpendingApproved
<1>1. Init => Control /\ Spending
  BY InitControl, InitSpending
<1>2. Control /\ Spending /\ [Next]_vars => (Control /\ Spending)'
  BY NextControl, NextSpending
<1>3. QED
  BY <1>1, <1>2, StepSpends, PTL DEF Spec, SpendingApproved
=============================================================================
