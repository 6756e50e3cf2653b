----------------------------- MODULE AgentTask -----------------------------
(***************************************************************************)
(* One task of AgentTaskRunner (packages/agent-core/src/agent-runner.ts):  *)
(* the loop of model decisions, workspace actions, approvals, verification *)
(* and repairs, with the user, the deadline timer and failing ports around *)
(* it.                                                                     *)
(*                                                                         *)
(* The runner is one asynchronous function: between two awaits nothing     *)
(* else runs.  pc names the await it stands at, or one of the Synchronous  *)
(* points, at which no callback can come in between.  Awaits with nothing  *)
(* read or written between them are one.  A port that is awaited may       *)
(* answer or fail; emit fails when the event log cannot be written, after  *)
(* the listeners have seen the event.                                      *)
(***************************************************************************)
EXTENDS Integers, Sequences, FiniteSets

CONSTANTS
  Actions,          \* decisions that act on the workspace, told apart by their fingerprint
  Kind,             \* [Actions -> {"read", "patch", "command"}]
  Policy,           \* [Actions -> {"allow", "request", "deny"}], the permission port
  Charges,          \* what a usage receipt may cost
  MaxModelCalls, MaxRepairs, MaxCommands, MaxEstimatedCost,     \* TaskBudget
  Allowance,        \* overrunAllowanceUsd, NoAllowance when it is not configured
  MaxCheckpoints,   \* maxCostCheckpoints
  MaxSpend          \* bound: what all receipts of the task cost

NoAllowance == 0
MaxIdenticalActions == 3
Nobody == "nobody"
NoDecision == "none"
NoAnswer == "none"
Decisions == Actions \cup {"finish", "message"}

TaskStates == {"CREATED", "ANALYZING", "PLANNING", "WAITING_FOR_PERMISSION", "EXECUTING",
               "VERIFYING", "REPAIRING", "COMPLETED", "FAILED", "CANCELLED", "BLOCKED"}
TerminalStates == {"COMPLETED", "FAILED", "CANCELLED", "BLOCKED"}

Synchronous == {"planning", "loop", "deciding", "performing"}
Over == {"returned", "rejected"}
Awaits == {"opening", "starting", "requesting", "streaming", "asking", "waiting", "granting",
           "denying", "working", "reporting", "overrunAsking", "overrunWaiting",
           "overrunGranting", "overrunDenying", "verifying", "verified", "repairing",
           "ending", "closing", "saving"}

ASSUME TaskAssumption ==
  /\ Kind \in [Actions -> {"read", "patch", "command"}]
  /\ Policy \in [Actions -> {"allow", "request", "deny"}]
  /\ Charges \subseteq Nat \ {0}
  /\ {MaxModelCalls, MaxRepairs, MaxCommands, MaxEstimatedCost, Allowance,
      MaxCheckpoints, MaxSpend} \subseteq Nat
  /\ {"finish", "message", NoDecision} \cap Actions = {}

VARIABLES
  pc,
  state,              \* TaskStateController
  session,            \* status of the agent session in the session store
  abortedBy,          \* who cancelled the token first
  deadlineExceeded,
  late,               \* the wall time of the budget has passed
  models, repairs, commands,            \* BudgetTracker
  cost, limit, checkpoints,             \* BudgetTracker
  receipts,           \* total of the receipts port
  repeats,            \* RunawayLoopGuard
  decision,
  verification,
  answer,             \* resolution of the approval promise nobody awaits yet
  asked,              \* requests for permission shown, numbered from 1
  overruns,           \* history: the requests among them to extend the cost limit
  approved, answered, \* history: requests the user has approved, has answered
  patches,            \* history: patches applied to the workspace
  told                \* history: terminal events the listeners have seen

control == <<pc, state, told>>
budget == <<models, repairs, commands, cost, limit, checkpoints>>
stop == <<abortedBy, deadlineExceeded, late>>
asks == <<answer, asked, overruns, approved, answered>>
vars == <<control, session, stop, budget, receipts, repeats, decision, verification,
          asks, patches>>

TypeOK ==
  /\ pc \in Synchronous \cup Awaits \cup Over
  /\ state \in TaskStates
  /\ session \in {"NONE", "ACTIVE", "PAUSED", "COMPLETED", "CRASHED", "CANCELLED"}
  /\ abortedBy \in {Nobody, "user", "deadline"}
  /\ deadlineExceeded \in BOOLEAN /\ late \in BOOLEAN
  /\ models \in 0 .. MaxModelCalls
  /\ repairs \in 0 .. MaxRepairs
  /\ commands \in 0 .. MaxCommands
  /\ cost \in Nat /\ limit \in Nat /\ receipts \in Nat
  /\ checkpoints \in 0 .. MaxCheckpoints
  /\ repeats \in [Actions -> 0 .. MaxIdenticalActions]
  /\ decision \in Decisions \cup {NoDecision}
  /\ verification \in {"unavailable", "passed", "failed", "cancelled"}
  /\ answer \in {NoAnswer, "yes", "no"}
  /\ asked \in Nat
  /\ overruns \subseteq 1 .. asked
  /\ approved \subseteq answered /\ answered \subseteq 1 .. asked
  /\ patches \in Nat
  /\ told \in Seq(TerminalStates)

Init ==
  /\ pc = "opening"
  /\ state = "CREATED"
  /\ session = "NONE"
  /\ abortedBy = Nobody /\ deadlineExceeded = FALSE /\ late = FALSE
  /\ models = 0 /\ repairs = 0 /\ commands = 0
  /\ cost = 0 /\ limit = MaxEstimatedCost /\ checkpoints = 0
  /\ receipts = 0
  /\ repeats = [a \in Actions |-> 0]
  /\ decision = NoDecision
  /\ verification = "unavailable"
  /\ answer = NoAnswer /\ asked = 0 /\ overruns = {} /\ approved = {} /\ answered = {}
  /\ patches = 0
  /\ told = <<>>

-----------------------------------------------------------------------------
(* How a run ends *)

\* allowedTransitions: what transition does not refuse.
AllowedTransitions ==
  LET stopped == {"CANCELLED", "FAILED", "BLOCKED"} IN
  UNION {{"CREATED"} \X {"ANALYZING", "CANCELLED", "FAILED"},
         {"ANALYZING"} \X ({"PLANNING", "WAITING_FOR_PERMISSION"} \cup stopped),
         {"PLANNING"} \X ({"WAITING_FOR_PERMISSION", "EXECUTING"} \cup stopped),
         {"WAITING_FOR_PERMISSION"} \X ({"EXECUTING"} \cup stopped),
         {"EXECUTING"} \X ({"VERIFYING", "WAITING_FOR_PERMISSION"} \cup stopped),
         {"VERIFYING"} \X ({"REPAIRING", "COMPLETED"} \cup stopped),
         {"REPAIRING"} \X ({"EXECUTING", "VERIFYING"} \cup stopped)}

\* The session status a task leaves behind.
StatusOf(s) ==
  CASE s = "COMPLETED" -> "COMPLETED"
    [] s = "CANCELLED" -> "CANCELLED"
    [] s = "FAILED" -> "CRASHED"
    [] s = "BLOCKED" -> "PAUSED"
    [] OTHER -> "ACTIVE"

\* Mutant: an error that is not the cancellation's own counts first.
OutcomeOfError(otherwise, exceeded, aborted) == IF exceeded THEN "BLOCKED" ELSE otherwise

\* What catch makes of an error: the deadline before a cancellation before the
\* error itself, BLOCKED for an exceeded budget or a runaway loop, else FAILED.
Outcome(otherwise, exceeded, aborted) ==
  IF exceeded THEN "BLOCKED" ELSE IF aborted THEN "CANCELLED" ELSE otherwise

\* Mutant: catch sets the state whatever it is.
CatchAnyway(outcome) ==
  /\ state' = outcome
  /\ told' = Append(told, outcome)
  /\ pc' = "closing"

\* catch: a terminal state is kept, any other must allow the transition, or the
\* whole run throws.  The terminal event is shown and then appended.
Catch(outcome) ==
  LET handled == state \in TerminalStates \/ <<state, outcome>> \in AllowedTransitions IN
  /\ state' = IF <<state, outcome>> \in AllowedTransitions THEN outcome ELSE state
  /\ told' = IF handled THEN Append(told, outcome) ELSE told
  /\ pc' = IF handled THEN "closing" ELSE "rejected"

Throw(otherwise) == Catch(Outcome(otherwise, deadlineExceeded, abortedBy # Nobody))

\* The try block ends the task itself.
Conclude(outcome) ==
  /\ state' = outcome
  /\ told' = Append(told, outcome)
  /\ pc' = "ending"

Goto(next) == pc' = next /\ UNCHANGED <<state, told>>

\* An awaited port fails anywhere in the try block.
PortFails ==
  /\ pc \in Awaits \ {"opening", "waiting", "overrunWaiting", "closing", "saving"}
  /\ Throw("FAILED")
  /\ UNCHANGED <<session, stop, budget, receipts, repeats, decision, verification, asks,
                 patches>>

\* The terminal event is in the log.
Ended ==
  /\ pc \in {"ending", "closing"}
  /\ Goto("saving")
  /\ UNCHANGED <<session, stop, budget, receipts, repeats, decision, verification, asks,
                 patches>>

\* The append in catch fails.
CloseFails ==
  /\ pc = "closing"
  /\ Goto("rejected")
  /\ UNCHANGED <<session, stop, budget, receipts, repeats, decision, verification, asks,
                 patches>>

\* saveCheckpoint, updateSession and the final diff; each of them may fail.
Save ==
  /\ pc = "saving"
  /\ \/ Goto("returned") /\ session' = StatusOf(state)
     \/ Goto("rejected") /\ session' \in {session, StatusOf(state)}
  /\ UNCHANGED <<stop, budget, receipts, repeats, decision, verification, asks, patches>>

-----------------------------------------------------------------------------
(* From the start to the next decision of the model *)

\* The session becomes ACTIVE, then the Git baseline is captured.
Open ==
  /\ pc = "opening"
  /\ \/ Goto("starting") /\ session' = "ACTIVE"
     \/ Goto("rejected") /\ session' \in {session, "ACTIVE"}
  /\ UNCHANGED <<stop, budget, receipts, repeats, decision, verification, asks, patches>>

Started ==
  /\ \/ pc = "starting" /\ pc' = "planning" /\ state' = "ANALYZING"
     \/ pc = "planning" /\ pc' = "loop" /\ state' = "PLANNING"
  /\ UNCHANGED <<told, session, stop, budget, receipts, repeats, decision, verification,
                 asks, patches>>

\* Mutant: the cost of the calls so far is not looked at.
CountOnly(count, max) == late \/ count >= max

\* assertWallTime or consume throws.
Exhausted(count, max) == late \/ count >= max \/ cost > limit

LoopStops ==
  /\ pc = "loop"
  /\ \/ abortedBy # Nobody /\ Throw("FAILED")
     \/ abortedBy = Nobody /\ Exhausted(models, MaxModelCalls) /\ Throw("BLOCKED")
  /\ UNCHANGED <<session, stop, budget, receipts, repeats, decision, verification, asks,
                 patches>>

\* Mutant: the loop does not look at the token.
LoopGoesOn == ~Exhausted(models, MaxModelCalls)

LoopContinues == abortedBy = Nobody /\ ~Exhausted(models, MaxModelCalls)

RequestModel ==
  /\ pc = "loop"
  /\ LoopContinues
  /\ models' = models + 1
  /\ decision' = NoDecision
  /\ Goto("requesting")
  /\ UNCHANGED <<session, stop, repairs, commands, cost, limit, checkpoints, receipts,
                 repeats, verification, asks, patches>>

Requested ==
  /\ pc = "requesting"
  /\ Goto("streaming")
  /\ UNCHANGED <<session, stop, budget, receipts, repeats, decision, verification, asks,
                 patches>>

\* The stream carries a decision; the gateway sends one a request.
Decide(d) ==
  /\ pc = "streaming"
  /\ abortedBy = Nobody
  /\ decision = NoDecision
  /\ decision' = d
  /\ UNCHANGED <<control, session, stop, budget, receipts, repeats, verification, asks,
                 patches>>

\* The stream carries a usage receipt.  It is kept whether or not usage.received
\* can be appended; then the cost is recorded, and an exceeded limit is either
\* an error or asks for an extension.
Receipt(charge) ==
  LET spent == cost + charge IN
  /\ pc = "streaming"
  /\ abortedBy = Nobody
  /\ receipts + charge <= MaxSpend
  /\ receipts' = receipts + charge
  /\ \/ Throw("FAILED") /\ UNCHANGED <<cost, asks>>
     \/ spent <= limit /\ cost' = spent /\ UNCHANGED <<control, asks>>
     \/ /\ spent > limit /\ Allowance = NoAllowance
        /\ cost' = spent
        /\ Throw("BLOCKED")
        /\ UNCHANGED asks
     \/ /\ spent > limit /\ Allowance # NoAllowance
        /\ cost' = spent
        /\ state' = "WAITING_FOR_PERMISSION"
        /\ pc' = "overrunAsking"
        /\ asked' = asked + 1
        /\ overruns' = overruns \cup {asked'}
        /\ answer' = NoAnswer
        /\ UNCHANGED <<told, approved, answered>>
  /\ UNCHANGED <<session, stop, models, repairs, commands, limit, checkpoints, repeats,
                 decision, verification, patches>>

\* The stream ends, without a decision or with one more of an identical action
\* than the runaway guard lets pass.
StreamEnds ==
  /\ pc = "streaming"
  /\ \/ decision = NoDecision /\ Throw("FAILED") /\ UNCHANGED repeats
     \/ /\ decision \in Actions
        /\ repeats' = [repeats EXCEPT ![decision] = @ + 1]
        /\ \/ repeats'[decision] >= MaxIdenticalActions /\ Throw("BLOCKED")
           \/ /\ repeats'[decision] < MaxIdenticalActions
              /\ pc' = "deciding" /\ state' = "EXECUTING" /\ UNCHANGED told
     \/ /\ decision \in {"finish", "message"}
        /\ pc' = "deciding" /\ state' = "EXECUTING"
        /\ UNCHANGED <<told, repeats>>
  /\ UNCHANGED <<session, stop, budget, receipts, decision, verification, asks, patches>>

-----------------------------------------------------------------------------
(* Decisions and permissions *)

\* What the decision calls for; a request is shown to the user before it is
\* appended to the event log.
Act ==
  /\ pc = "deciding"
  /\ \/ decision = "message" /\ Goto("loop") /\ UNCHANGED asks
     \/ /\ decision = "finish"
        /\ pc' = "verifying" /\ state' = "VERIFYING"
        /\ UNCHANGED <<told, asks>>
     \/ decision \in Actions /\ Policy[decision] = "allow" /\ Goto("performing") /\ UNCHANGED asks
     \/ /\ decision \in Actions /\ Policy[decision] # "allow"
        /\ asked' = asked + 1
        /\ Goto(IF Policy[decision] = "deny" THEN "denying" ELSE "asking")
        /\ UNCHANGED <<overruns, answer, approved, answered>>
  /\ UNCHANGED <<session, stop, budget, receipts, repeats, decision, verification, patches>>

\* The request is in the log: from here on, and not before, an answer finds the
\* task waiting for it.
Wait ==
  /\ pc = "asking"
  /\ \/ abortedBy # Nobody /\ Throw("CANCELLED")
     \/ /\ abortedBy = Nobody
        /\ pc' = "waiting" /\ state' = "WAITING_FOR_PERMISSION" /\ UNCHANGED told
  /\ UNCHANGED <<session, stop, budget, receipts, repeats, decision, verification, asks,
                 patches>>

Granted ==
  /\ pc = "granting"
  /\ Goto("performing")
  /\ UNCHANGED <<session, stop, budget, receipts, repeats, decision, verification, asks,
                 patches>>

Denied ==
  /\ pc = "denying"
  /\ Conclude("BLOCKED")
  /\ UNCHANGED <<session, stop, budget, receipts, repeats, decision, verification, asks,
                 patches>>

\* extendCostLimit, after the user agreed.
Extend ==
  \/ /\ checkpoints >= MaxCheckpoints
     /\ Throw("BLOCKED")
     /\ UNCHANGED <<limit, checkpoints>>
  \/ /\ checkpoints < MaxCheckpoints
     /\ limit' = limit + Allowance
     /\ checkpoints' = checkpoints + 1
     /\ pc' = "overrunGranting" /\ state' = "EXECUTING" /\ UNCHANGED told

\* The approval promise of an extension is made before the request is shown, so
\* an answer that comes while the request is appended is kept, and counts before
\* a cancellation.
OverrunAsked ==
  /\ pc = "overrunAsking"
  /\ \/ answer = "yes" /\ Extend
     \/ answer = "no" /\ Goto("overrunDenying") /\ UNCHANGED <<limit, checkpoints>>
     \/ /\ answer = NoAnswer
        /\ IF abortedBy # Nobody THEN Throw("CANCELLED") ELSE Goto("overrunWaiting")
        /\ UNCHANGED <<limit, checkpoints>>
  /\ UNCHANGED <<session, stop, models, repairs, commands, cost, receipts, repeats, decision,
                 verification, asks, patches>>

OverrunGranted ==
  /\ pc = "overrunGranting"
  /\ Goto("streaming")
  /\ UNCHANGED <<session, stop, budget, receipts, repeats, decision, verification, asks,
                 patches>>

OverrunDenied ==
  /\ pc = "overrunDenying"
  /\ Throw("BLOCKED")
  /\ UNCHANGED <<session, stop, budget, receipts, repeats, decision, verification, asks,
                 patches>>

\* Mutant: whatever request is answered, the one that is open is resolved.
ResolvesAny(id) == pc \in {"waiting", "overrunAsking", "overrunWaiting"}

\* resolvePermission finds the request of that id pending.
Resolves(id) == id = asked /\ pc \in {"waiting", "overrunAsking", "overrunWaiting"}

\* The user, or a remote client, answers a request that was shown, now or late.
Answer(id, yes) ==
  /\ pc \in Awaits
  /\ id \in 1 .. asked
  /\ answered' = answered \cup {id}
  /\ approved' = IF yes THEN approved \cup {id} ELSE approved
  /\ \/ /\ Resolves(id) /\ pc = "waiting"
        /\ pc' = IF yes THEN "granting" ELSE "denying"
        /\ state' = IF yes THEN "EXECUTING" ELSE state
        /\ UNCHANGED <<told, answer, limit, checkpoints>>
     \/ /\ Resolves(id) /\ pc = "overrunWaiting"
        /\ IF yes THEN Extend ELSE Goto("overrunDenying") /\ UNCHANGED <<limit, checkpoints>>
        /\ UNCHANGED answer
     \/ /\ Resolves(id) /\ pc = "overrunAsking"
        /\ answer' = IF answer # NoAnswer THEN answer ELSE IF yes THEN "yes" ELSE "no"
        /\ UNCHANGED <<control, limit, checkpoints>>
     \/ ~Resolves(id) /\ UNCHANGED <<control, answer, limit, checkpoints>>
  /\ UNCHANGED <<session, stop, models, repairs, commands, cost, receipts, repeats, decision,
                 verification, asked, overruns, patches>>

-----------------------------------------------------------------------------
(* Acting and verifying *)

\* executeDecision once the action is authorized; a command takes its budget.
Perform ==
  /\ pc = "performing"
  /\ \/ Kind[decision] # "command" /\ Goto("working") /\ UNCHANGED commands
     \/ /\ Kind[decision] = "command" /\ Exhausted(commands, MaxCommands)
        /\ Throw("BLOCKED")
        /\ UNCHANGED commands
     \/ /\ Kind[decision] = "command" /\ ~Exhausted(commands, MaxCommands)
        /\ commands' = commands + 1
        /\ Goto("working")
  /\ UNCHANGED <<session, stop, models, repairs, cost, limit, checkpoints, receipts, repeats,
                 decision, verification, asks, patches>>

\* The workspace answers.  writeBatch rolls a patch back when the token was
\* aborted before its last file was in place.
Worked ==
  /\ pc = "working"
  /\ Kind[decision] = "patch" => abortedBy = Nobody
  /\ patches' = IF Kind[decision] = "patch" THEN patches + 1 ELSE patches
  /\ Goto("reporting")
  /\ UNCHANGED <<session, stop, budget, receipts, repeats, decision, verification, asks>>

Reported ==
  /\ pc = "reporting"
  /\ Goto("loop")
  /\ UNCHANGED <<session, stop, budget, receipts, repeats, decision, verification, asks,
                 patches>>

\* verifyProject: the command is killed when the token is aborted.
Verify(result) ==
  /\ pc = "verifying"
  /\ result \in {"passed", "failed"} => abortedBy = Nobody
  /\ result = "cancelled" => abortedBy # Nobody
  /\ verification' = result
  /\ Goto("verified")
  /\ UNCHANGED <<session, stop, budget, receipts, repeats, decision, asks, patches>>

Verified ==
  /\ pc = "verified"
  /\ \/ verification = "passed" /\ Conclude("COMPLETED") /\ UNCHANGED repairs
     \/ verification = "cancelled" /\ Throw("CANCELLED") /\ UNCHANGED repairs
     \/ verification = "unavailable" /\ Conclude("BLOCKED") /\ UNCHANGED repairs
     \/ /\ verification = "failed" /\ Exhausted(repairs, MaxRepairs)
        /\ Conclude("BLOCKED")
        /\ UNCHANGED repairs
     \/ /\ verification = "failed" /\ ~Exhausted(repairs, MaxRepairs)
        /\ repairs' = repairs + 1
        /\ pc' = "repairing" /\ state' = "REPAIRING" /\ UNCHANGED told
  /\ UNCHANGED <<session, stop, models, commands, cost, limit, checkpoints, receipts, repeats,
                 decision, verification, asks, patches>>

Repair ==
  /\ pc = "repairing"
  /\ pc' = "loop" /\ state' = "EXECUTING"
  /\ UNCHANGED <<told, session, stop, budget, receipts, repeats, decision, verification, asks,
                 patches>>

-----------------------------------------------------------------------------
(* The user and the clock *)

\* Mutant: a task that waits for the user does not hear of it.
Deaf(exceeded) == UNCHANGED control

\* waitForCancellation rejects while the task waits for an answer; anywhere else
\* the token is only marked.
WakeWaiting(exceeded) ==
  IF pc \in {"waiting", "overrunWaiting"} THEN Catch(Outcome("CANCELLED", exceeded, TRUE))
                                          ELSE UNCHANGED control

\* cancel, or the caller's signal.
Cancel ==
  /\ pc \in Awaits
  /\ abortedBy = Nobody
  /\ abortedBy' = "user"
  /\ WakeWaiting(deadlineExceeded)
  /\ UNCHANGED <<session, deadlineExceeded, late, budget, receipts, repeats, decision,
                 verification, asks, patches>>

Elapse ==
  /\ pc \in Awaits
  /\ ~late
  /\ late' = TRUE
  /\ UNCHANGED <<control, session, abortedBy, deadlineExceeded, budget, receipts, repeats,
                 decision, verification, asks, patches>>

\* The timer that start has set.
Deadline ==
  /\ pc \in Awaits
  /\ late
  /\ ~deadlineExceeded
  /\ deadlineExceeded' = TRUE
  /\ abortedBy' = IF abortedBy = Nobody THEN "deadline" ELSE abortedBy
  /\ IF abortedBy = Nobody THEN WakeWaiting(TRUE) ELSE UNCHANGED control
  /\ UNCHANGED <<session, late, budget, receipts, repeats, decision, verification, asks,
                 patches>>

-----------------------------------------------------------------------------

Run ==
  \/ Open \/ Started \/ LoopStops \/ RequestModel \/ Requested \/ StreamEnds
  \/ \E d \in Decisions : Decide(d)
  \/ \E charge \in Charges : Receipt(charge)
  \/ Act \/ Wait \/ Granted \/ Denied \/ OverrunAsked \/ OverrunGranted \/ OverrunDenied
  \/ Perform \/ Worked \/ Reported \/ Repair \/ Verified
  \/ \E result \in {"passed", "failed", "unavailable", "cancelled"} : Verify(result)
  \/ PortFails \/ Ended \/ CloseFails \/ Save

User == Cancel \/ \E id \in 1 .. asked, yes \in BOOLEAN : Answer(id, yes)

Clock == Elapse \/ Deadline

Next == Run \/ User \/ Clock

\* Every port answers or fails in the end and the timer of start fires; the user
\* may do nothing for ever.
Fairness == WF_vars(Run) /\ WF_vars(Clock)

Spec == Init /\ [][Next]_vars /\ Fairness

-----------------------------------------------------------------------------
(* Properties *)

\* The runner never asks TaskStateController for a transition that the contract's
\* table refuses, whichever callback comes between two awaits.
TransitionsAllowed == [][state' # state => <<state, state'>> \in AllowedTransitions]_vars

\* The task works on the workspace only on an action that the policy allows, or
\* for whose own request the user has said yes: no late answer to an earlier
\* request opens a later one (authorize, resolvePermission).
NothingUnapproved ==
  pc \in {"performing", "working", "reporting"} =>
    \/ Policy[decision] = "allow"
    \/ Policy[decision] = "request" /\ asked \in approved

\* The model is called again only when the cost so far is within the estimate and
\* the extensions that the user agreed to (recordCost, consume, extendCostLimit).
SpendingApproved ==
  [][models' # models =>
       cost <= MaxEstimatedCost + Allowance * Cardinality(approved \cap overruns)]_vars

\* After a cancellation or the deadline no model call starts and no patch stays.
NothingAfterStop == [][abortedBy # Nobody => UNCHANGED <<models, patches>>]_vars

\* Whatever fails after a cancellation or the deadline, the task does not end as
\* FAILED (the catch of run, which reads the flags).
StoppedIsNotFailed ==
  [][abortedBy # Nobody /\ state \notin TerminalStates => state' # "FAILED"]_vars

\* A task that has returned has told its listeners first of the state it stayed
\* in, and its session is left in the status of that state.
OutcomeAgrees ==
  pc = "returned" =>
    /\ state \in TerminalStates
    /\ told # <<>> /\ told[1] = state
    /\ session = StatusOf(state)

\* Every run ends, also one whose user never answers.
Terminates == <>(pc \in Over)
=============================================================================
