------------------------------- MODULE CodexTask -------------------------------
(***************************************************************************)
(* CodexTaskRunner (apps/desktop/electron/codex-task-runner.ts): tasks of  *)
(* one workspace, each run by a Codex process of its own that the packages *)
(* codex-runtime supervises over stdio, and the scoped runtime tokens of   *)
(* apps/api/src/codex-runtime-route.ts that the process calls models with. *)
(*                                                                         *)
(* Every await is a step boundary.  The process and the API's network are  *)
(* the environment: the process answers a request, or refuses it, or dies, *)
(* or writes a line that is no JSON; it ends its turn when it likes.       *)
(***************************************************************************)
EXTENDS Naturals, FiniteSets, TLC

CONSTANTS
  Tasks,          \* the tasks that may be started
  NoTask,         \* no task
  Scenarios,      \* each [tasks, reserved, regretted, asks, faults]: the tasks that are
                  \* started, those with a reservation, those that the user may stop,
                  \* what a process asks, by message id, and what may go wrong
  MaxStops        \* bound: times the user presses stop, per task

Faults == {"refused", "thrown", "garbled", "exited", "expired", "signedOut"}

Kinds == {"safe", "sensitive", "destructive", "prohibited", "change", "web", "other"}

ASSUME TasksAssumption == NoTask \notin Tasks /\ MaxStops \in Nat

ASSUME ScenariosAssumption ==
  \A s \in Scenarios :
    /\ s.reserved \cup s.regretted \subseteq s.tasks /\ s.tasks \subseteq Tasks
    /\ s.faults \subseteq Faults
    /\ DOMAIN s.asks \subseteq Nat
    /\ \A i \in DOMAIN s.asks : s.asks[i] \in Kinds

VARIABLES
  scenario,
  active,         \* CodexTaskRunner.active
  task,           \* per task: where its start is, and its ActiveCodexTask
  session,        \* per task: its process and the ManagedCodexSession
  asked,          \* per task and message id: how far the desktop is with it
  config,         \* the task whose parameters config.toml holds
  token,          \* per task: its runtime token
  signedIn,       \* the desktop has an access token, and the API accepts it
  receipts,       \* usage receipts: the process that used, the task that is billed
  alone,          \* history: per task, no other start has overlapped its own
  inTime          \* history: per task, stop was pressed while its turn was open

history == <<alone, inTime>>
vars == <<scenario, active, task, session, asked, config, token, signedIn, receipts,
          alone, inTime>>

\* ManagedCodexSession numbers its requests: the start sends three, in this
\* order, and the interrupts follow.
Initialize == 1
ThreadStart == 2
TurnStart == 3
Interrupt(n) == TurnStart + n

Asks == DOMAIN scenario.asks

Mishap(fault) == fault \in scenario.faults

\* What a start keeps: ActiveCodexTask, where the start is, whether the client hears
\* the process for it, and what it has emitted.  cause is history: what has thrown
\* in it, if anything.
TaskStates ==
  [pc : {"idle", "refused", "preparing", "scoping", "spawning", "initializing", "threading",
         "turning", "awaiting", "loading", "finalizing", "throwing", "leaving", "stopping",
         "ended"},
   listening : BOOLEAN,
   completion : {"open", "completed", "failed", "cancelled"},
   cancelled : BOOLEAN,
   cause : {"none", "request", "turn/start", "desktop"},
   result : {"none", "CANCELLED", "FAILED", "COMPLETED", "BLOCKED", "thrown"},
   events : SUBSET {"task.started", "task.completed", "task.blocked", "task.failed",
                    "task.cancelled"},
   stops : 0..MaxStops]

\* ManagedCodexSession and its process: waiting is the keys of pending
SessionStates ==
  [process : {"none", "up", "exited"},
   stopped : BOOLEAN,
   waiting : SUBSET (1..(TurnStart + MaxStops)),
   context : Tasks \cup {NoTask},
   turn : {"none", "open", "over"}]

\* A request of the process: where it is, or what it has been answered
AskStates ==
  {"no", "mistaken", "unheard", "authorizing", "fetching", "pending"}
    \cup {"error", "dropped", "accept", "decline", "cancel", "success", "failure"}

\* A scoped token lives five minutes
TokenStates == {"none", "live", "expired"}

\* A usage receipt: the process whose call it was, and the task it names
Receipt(process, billed) == [by |-> process, task |-> billed]

Idle == [pc |-> "idle", listening |-> FALSE, completion |-> "open", cancelled |-> FALSE,
         cause |-> "none", result |-> "none", events |-> {}, stops |-> 0]
NoSession == [process |-> "none", stopped |-> FALSE, waiting |-> {}, context |-> NoTask,
              turn |-> "none"]

Init ==
  /\ scenario \in Scenarios
  /\ active = NoTask
  /\ task = [t \in Tasks |-> Idle]
  /\ session = [t \in Tasks |-> NoSession]
  /\ asked = [t \in Tasks |-> [i \in Asks |-> "no"]]
  /\ config = NoTask
  /\ token = [t \in Tasks |-> "none"]
  /\ signedIn \in BOOLEAN
  /\ receipts = {}
  /\ alone = [t \in Tasks |-> TRUE]
  /\ inTime = [t \in Tasks |-> FALSE]

\* Nothing else changes besides task
TaskOnly ==
  UNCHANGED <<scenario, active, session, asked, config, token, signedIn, receipts, history>>

\* ... besides task and session
SessionOnly ==
  UNCHANGED <<scenario, active, asked, config, token, signedIn, receipts, history>>

-----------------------------------------------------------------------------
(* The API's runtime routes *)

Under == {"idle", "refused", "ended"}
Running(t) == task[t].pc \notin Under

\* CodexRuntimeTokenService.verify, then AuthService.authenticate
Verified(t) == token[t] = "live" /\ signedIn

\* requireAuthorizedReservation: the reservation is the task's own and RESERVED.
\* The desktop settles it when the start has ended, and not before.
ReservationHolds(t) == t \in scenario.reserved /\ Running(t)

\* /v1/runtime/codex/authorize, where the room's policy may still say no
Authorized(t) == Verified(t) /\ ReservationHolds(t)

\* authorizeRuntimeAction asks only with a token
MayAuthorize(t) == token[t] = "none" \/ Authorized(t)

\* Mutant: the context of the token is not compared
AnyContext(t) == session[t].context \in Tasks

\* The parameters of the call are those that the token was issued for
SameContext(t) == session[t].context = t

\* /runtime/codex/v1/responses: the task that the call is billed to
BilledTo(t) == session[t].context

ModelCall(t) ==
  /\ session[t].process = "up" /\ session[t].turn = "open"
  /\ Verified(t) /\ SameContext(t) /\ ReservationHolds(BilledTo(t))
  /\ receipts' = receipts \cup {Receipt(t, BilledTo(t))}
  /\ UNCHANGED <<scenario, active, task, session, asked, config, token, signedIn, history>>

\* Five minutes after it was issued the token expires; nothing renews it.
TokenExpires(t) ==
  /\ Mishap("expired") /\ token[t] = "live"
  /\ token' = [token EXCEPT ![t] = "expired"]
  /\ UNCHANGED <<scenario, active, task, session, asked, config, signedIn, receipts,
                 history>>

SignOut ==
  /\ Mishap("signedOut") /\ signedIn
  /\ signedIn' = FALSE
  /\ UNCHANGED <<scenario, active, task, session, asked, config, token, receipts, history>>

-----------------------------------------------------------------------------
(* What a request's answer does *)

\* The promise of a completion keeps its first value
Resolved(m, status) == IF m.completion = "open" THEN [m EXCEPT !.completion = status] ELSE m

\* The interrupt of a cancel: whether it is answered or refused, the finally
\* handler completes the task as cancelled.
Interrupted(m, ids) ==
  IF \E i \in ids : i > TurnStart THEN Resolved(m, "cancelled") ELSE m

\* A request of the start that is refused throws in the start
Thrown(m, ids) ==
  IF \E i \in ids : i <= TurnStart
  THEN [m EXCEPT !.pc = "throwing",
                 !.cause = IF TurnStart \in ids THEN "turn/start" ELSE "request"]
  ELSE m

\* Mutant: .then in place of .finally, so that only an answer completes the task
RefusedQuietly(m, ids) == Thrown(m, ids)

Refused(m, ids) == Interrupted(Thrown(m, ids), ids)

\* Session.request, when the session still runs
Sent(s, i) == [s EXCEPT !.waiting = @ \cup {i}]

\* failPending
FailPending(t, s) ==
  /\ session' = [session EXCEPT ![t] = [s EXCEPT !.waiting = {}]]
  /\ task' = [task EXCEPT ![t] = Refused(@, session[t].waiting)]

-----------------------------------------------------------------------------
(* CodexTaskRunner.start *)

\* The other starts that have not cleared active yet
Others(t) == {u \in Tasks \ {t} : Running(u) /\ task[u].pc # "stopping"}

Start(t) ==
  /\ t \in scenario.tasks /\ task[t].pc = "idle"
  /\ task' = [task EXCEPT ![t].pc = IF active # NoTask THEN "refused" ELSE "preparing"]
  /\ alone' = IF active # NoTask \/ Others(t) = {} THEN alone
              ELSE [u \in Tasks |-> alone[u] /\ u \notin Others(t) \cup {t}]
  /\ UNCHANGED <<scenario, active, session, asked, config, token, signedIn, receipts,
                 inTime>>

\* What the desktop does itself may fail: before the process it is the caller's
\* error, and from then on it is caught.
Unstarted(t) == Mishap("thrown") /\ task' = [task EXCEPT ![t].pc = "refused"]
Throws(t) ==
  /\ Mishap("thrown")
  /\ task' = [task EXCEPT ![t].pc = "throwing", ![t].cause = "desktop"]

\* captureBaseline and readManifest, then the access token
Prepared(t) ==
  /\ task[t].pc = "preparing"
  /\ \/ Unstarted(t)
     \/ task' = [task EXCEPT ![t].pc = IF signedIn /\ t \in scenario.reserved THEN "scoping"
                                                                      ELSE "spawning"]
  /\ TaskOnly

\* POST /v1/runtime/codex/token
TokenIssued(t) ==
  /\ signedIn /\ ReservationHolds(t)
  /\ token' = [token EXCEPT ![t] = "live"]

\* Whatever else the API answers, the start throws
Scoped(t) ==
  /\ task[t].pc = "scoping"
  /\ \/ Unstarted(t) /\ UNCHANGED token
     \/ /\ TokenIssued(t)
        /\ task' = [task EXCEPT ![t].pc = "spawning"]
  /\ UNCHANGED <<scenario, active, session, asked, config, signedIn, receipts, history>>

\* config.toml, which every task of this desktop shares, with the parameters of t
WriteConfig(t) == config' = t

\* CodexRuntimeSupervisor.start: the pinned artifact is checked, config.toml is
\* written for this task, and the process is started, which may fail before the
\* file is written or after it.
Spawn(t) ==
  /\ task[t].pc = "spawning"
  /\ \/ /\ Throws(t)
        /\ WriteConfig(t) \/ UNCHANGED config
        /\ UNCHANGED session
     \/ /\ WriteConfig(t)
        /\ session' = [session EXCEPT ![t] = Sent([@ EXCEPT !.process = "up"], Initialize)]
        /\ task' = [task EXCEPT ![t].pc = "initializing"]
  /\ UNCHANGED <<scenario, active, asked, token, signedIn, receipts, history>>

\* The process has read config.toml when it answers initialize
Initialized(t) ==
  /\ Initialize \in session[t].waiting
  /\ session' = [session EXCEPT ![t].waiting = {ThreadStart}, ![t].context = config]
  /\ task' = [task EXCEPT ![t].pc = "threading"]
  /\ SessionOnly

\* The thread exists: the task becomes the active one, its listeners are set and
\* the turn is asked for, all in one go.
ThreadStarted(t) ==
  /\ ThreadStart \in session[t].waiting
  /\ session' = [session EXCEPT ![t].waiting = {TurnStart}, ![t].turn = "open"]
  /\ task' = [task EXCEPT ![t].pc = "turning", ![t].listening = TRUE,
                          ![t].events = @ \cup {"task.started"}]
  /\ active' = t
  /\ UNCHANGED <<scenario, asked, config, token, signedIn, receipts, history>>

TurnStarted(t) ==
  /\ TurnStart \in session[t].waiting
  /\ session' = [session EXCEPT ![t].waiting = @ \ {TurnStart}]
  /\ task' = [task EXCEPT ![t].pc = "awaiting"]
  /\ SessionOnly

\* await completion, after which the listeners are taken away
Completed(t) ==
  /\ task[t].pc = "awaiting" /\ task[t].completion # "open"
  /\ task' = [task EXCEPT ![t].listening = FALSE,
                          ![t].pc = IF t \in scenario.reserved THEN "loading"
                                                               ELSE "finalizing"]
  /\ TaskOnly

\* loadUsageReceipts, which throws when the network does
Loaded(t) ==
  /\ task[t].pc = "loading"
  /\ \/ Throws(t)
     \/ task' = [task EXCEPT ![t].pc = "finalizing"]
  /\ TaskOnly

\* finalize: the result and the event that each completion may come to.  The
\* project is verified when the turn completed, cancelled since or not.
Outcomes(completion) ==
  CASE completion = "cancelled" -> {<<"CANCELLED", {}>>}
    [] completion = "failed" -> {<<"FAILED", {}>>}
    [] completion = "completed" -> {<<"COMPLETED", {"task.completed"}>>,
                                    <<"BLOCKED", {"task.blocked"}>>}

Finalized(t) ==
  /\ task[t].pc = "finalizing"
  /\ \/ Throws(t)
     \/ \E o \in Outcomes(task[t].completion) :
          task' = [task EXCEPT ![t].pc = "leaving", ![t].result = o[1],
                               ![t].events = @ \cup o[2]]
  /\ TaskOnly

\* catch: the failure is emitted and thrown on
Caught(t) ==
  /\ task[t].pc = "throwing"
  /\ task' = [task EXCEPT ![t].pc = "leaving", ![t].result = "thrown",
                          ![t].events = @ \cup {"task.failed"}]
  /\ TaskOnly

\* Mutant: active is cleared where a start returns its result
ClearedByResult(m) == IF m.result = "thrown" THEN active ELSE NoTask

\* this.active = undefined, whatever task is active
Cleared(m) == NoTask

\* finally: ... and the client is stopped, its listeners and the session with it
Left(t) ==
  /\ task[t].pc = "leaving"
  /\ active' = Cleared(task[t])
  /\ session' = [session EXCEPT ![t].stopped = TRUE, ![t].waiting = {}]
  /\ task' = [task EXCEPT ![t].pc = "stopping", ![t].listening = FALSE]
  /\ UNCHANGED <<scenario, asked, config, token, signedIn, receipts, history>>

\* session.stop kills the process and waits for it to exit
Stopped(t) ==
  /\ task[t].pc = "stopping" /\ session[t].process \in {"none", "exited"}
  /\ task' = [task EXCEPT ![t].pc = "ended"]
  /\ TaskOnly

-----------------------------------------------------------------------------
(* The process, and what the session makes of its lines *)

Up(t) == session[t].process = "up"

\* An interrupt is answered
InterruptAnswered(t) ==
  \E i \in session[t].waiting :
    /\ i > TurnStart
    /\ session' = [session EXCEPT ![t].waiting = @ \ {i}]
    /\ task' = [task EXCEPT ![t] = Interrupted(@, {i})]
    /\ SessionOnly

\* An error is the answer to one request
RequestRefused(t) ==
  \E i \in session[t].waiting :
    /\ Mishap("refused")
    /\ session' = [session EXCEPT ![t].waiting = @ \ {i}]
    /\ task' = [task EXCEPT ![t] = Refused(@, {i})]
    /\ SessionOnly

\* A line that is no JSON fails every request, and the process runs on
Garbled(t) ==
  /\ Mishap("garbled") /\ Up(t) /\ session[t].waiting # {}
  /\ FailPending(t, session[t])
  /\ SessionOnly

\* The process exits, by itself or because it was killed
Exited(t) ==
  /\ Up(t) /\ (session[t].stopped \/ Mishap("exited"))
  /\ FailPending(t, [session[t] EXCEPT !.process = "exited", !.stopped = TRUE])
  /\ SessionOnly

\* The client's listeners are set: when turn/start has failed they are until the
\* client is stopped.
Listening(t) == task[t].listening

\* Mutant: the turn's own status, cancelled or not
StatusAsSent(m, status) == IF status = "interrupted" THEN "cancelled" ELSE status

\* handleNotification
TurnStatus(m, status) ==
  IF status = "interrupted" \/ m.cancelled THEN "cancelled"
  ELSE IF status = "completed" THEN "completed" ELSE "failed"

TurnCompleted(t) ==
  /\ Up(t) /\ session[t].turn = "open"
  /\ session' = [session EXCEPT ![t].turn = "over"]
  /\ \E status \in {"interrupted", "completed", "failed"} :
       task' = IF Listening(t)
                THEN [task EXCEPT ![t] = Resolved(@, TurnStatus(@, status))] ELSE task
  /\ SessionOnly

\* handleServerRequest, from a request of the process to the first await.  The
\* session takes a message whose id is that of a waiting request for its answer,
\* and this one holds no turn.
FirstStage == [web |-> "fetching", other |-> "error"]
Stage(kind) == IF kind \in DOMAIN FirstStage THEN FirstStage[kind] ELSE "authorizing"

AskedDesktop(t, i) ==
  /\ Up(t) /\ session[t].turn = "open" /\ asked[t][i] = "no"
  /\ IF i \in session[t].waiting
     THEN /\ session' = [session EXCEPT ![t].waiting = @ \ {i}]
          /\ task' = [task EXCEPT ![t] = Refused(@, {i})]
          /\ asked' = [asked EXCEPT ![t][i] = "mistaken"]
     ELSE /\ asked' = [asked EXCEPT ![t][i] =
                         IF Listening(t) THEN Stage(scenario.asks[i]) ELSE "unheard"]
          /\ UNCHANGED <<session, task>>
  /\ UNCHANGED <<scenario, active, config, token, signedIn, receipts, history>>

-----------------------------------------------------------------------------
(* Approvals and web tools *)

\* Session.respond drops what it is told after the session has stopped
Reply(t, i, decision) ==
  asked' = [asked EXCEPT ![t][i] = IF session[t].stopped THEN "dropped" ELSE decision]

AsksOnly == UNCHANGED <<scenario, active, task, session, config, token, signedIn, receipts,
                        history>>

\* handleApprovalRequest, after authorizeRuntimeAction
Judged(t, i) ==
  /\ asked[t][i] = "authorizing"
  /\ \/ token[t] # "none" /\ Reply(t, i, "decline")
     \/ /\ MayAuthorize(t)
        /\ CASE scenario.asks[i] = "prohibited" -> Reply(t, i, "decline")
             [] scenario.asks[i] = "safe" -> Reply(t, i, "accept")
             [] OTHER -> asked' = [asked EXCEPT ![t][i] = "pending"]
  /\ AsksOnly

\* handleDynamicTool: the search or fetch is made for the signed-in user
Fetched(t, i) ==
  /\ asked[t][i] = "fetching"
  /\ \E result \in {"failure"} \cup (IF signedIn THEN {"success"} ELSE {}) :
       Reply(t, i, result)
  /\ AsksOnly

ApprovalDecision(kind, approved) ==
  IF approved THEN "accept" ELSE IF kind = "destructive" THEN "cancel" ELSE "decline"

ResolvePermission(t, i) ==
  /\ active = t /\ asked[t][i] = "pending"
  /\ \E approved \in BOOLEAN : Reply(t, i, ApprovalDecision(scenario.asks[i], approved))
  /\ AsksOnly

-----------------------------------------------------------------------------
(* Stopping a task *)

\* The interrupt of a session that has stopped is refused at once
Interrupting(t, m) ==
  IF session[t].stopped
  THEN task' = [task EXCEPT ![t] = Resolved(m, "cancelled")] /\ UNCHANGED session
  ELSE /\ task' = [task EXCEPT ![t] = m]
       /\ session' = [session EXCEPT ![t] = Sent(@, Interrupt(m.stops))]

\* The start waits for its turn to begin or to end
TurnOpen(t) == task[t].pc \in {"turning", "awaiting"} /\ task[t].completion = "open"

\* CodexTaskRunner.cancel, which does nothing unless the task is the active one
Cancel(t) ==
  /\ t \in scenario.regretted /\ Running(t) /\ task[t].stops < MaxStops
  /\ LET m == [task[t] EXCEPT !.stops = @ + 1] IN
       IF active = t
       THEN Interrupting(t, [m EXCEPT !.cancelled = TRUE,
                                      !.events = @ \cup {"task.cancelled"}])
       ELSE task' = [task EXCEPT ![t] = m] /\ UNCHANGED session
  /\ inTime' = [inTime EXCEPT ![t] = @ \/ TurnOpen(t)]
  /\ UNCHANGED <<scenario, active, asked, config, token, signedIn, receipts, alone>>

-----------------------------------------------------------------------------
Goes(t) ==
  \/ Prepared(t) \/ Scoped(t) \/ Spawn(t) \/ Completed(t) \/ Loaded(t)
  \/ Finalized(t) \/ Caught(t) \/ Left(t) \/ Stopped(t)

Answers(t) ==
  \/ Initialized(t) \/ ThreadStarted(t) \/ TurnStarted(t) \/ InterruptAnswered(t)
  \/ RequestRefused(t) \/ Garbled(t) \/ Exited(t)

Next ==
  \/ \E t \in Tasks :
       \/ Start(t) \/ Cancel(t) \/ Goes(t) \/ Answers(t) \/ TurnCompleted(t)
       \/ ModelCall(t) \/ TokenExpires(t)
       \/ \E i \in Asks :
            AskedDesktop(t, i) \/ Judged(t, i) \/ Fetched(t, i) \/ ResolvePermission(t, i)
  \/ SignOut

\* The desktop's own steps go on, its fetches among them; the process answers a
\* request that waits or exits, and a process that was killed exits.
Obliged(t) == session[t].waiting # {} \/ session[t].stopped

Fairness ==
  \A t \in Tasks : WF_vars(Goes(t)) /\ WF_vars(Obliged(t) /\ Answers(t))

Spec == Init /\ [][Next]_vars /\ Fairness

-----------------------------------------------------------------------------
(* Properties *)

TypeOK ==
  /\ scenario \in Scenarios
  /\ active \in Tasks \cup {NoTask} /\ config \in Tasks \cup {NoTask}
  /\ task \in [Tasks -> TaskStates] /\ session \in [Tasks -> SessionStates]
  /\ asked \in [Tasks -> [Asks -> AskStates]] /\ token \in [Tasks -> TokenStates]
  /\ signedIn \in BOOLEAN
  /\ receipts \subseteq {Receipt(t, u) : t \in Tasks, u \in Tasks}
  /\ alone \in [Tasks -> BOOLEAN] /\ inTime \in [Tasks -> BOOLEAN]

\* Stop, pressed while the turn of the only task under way is still open, decides
\* its outcome, whether the turn's end, the interrupt's answer or refusal, or the
\* exit of the process comes first: the task ends CANCELLED, and none of
\* task.completed, task.blocked and task.failed is emitted (cancel,
\* handleNotification, finalize).  With two exceptions, in which the start throws
\* and task.failed is emitted although task.cancelled was: turn/start itself fails,
\* refused, cut off by the exit of the process or answered by mistake, or the
\* desktop's own loading of receipts or finalizing does (the catch of start).
\* Even then no result is returned and the task neither completes nor is blocked.
StopWins ==
  \A t \in Tasks : inTime[t] /\ alone[t] =>
    /\ "task.cancelled" \in task[t].events
    /\ task[t].events \cap {"task.completed", "task.blocked"} = {}
    /\ \/ /\ task[t].cause = "none"
          /\ task[t].result \in {"none", "CANCELLED"}
          /\ "task.failed" \notin task[t].events
       \/ /\ task[t].cause \in {"turn/start", "desktop"}
          /\ task[t].result \in {"none", "thrown"}

\* A stop that reached the task always frees the runner, though the process may
\* have died without ending its turn, and nothing else would ever complete the
\* task (the finally of cancel; the exit handler of ManagedCodexSession).
StopEnds == \A t \in Tasks : task[t].cancelled ~> task[t].pc = "ended"

\* A start that is over leaves nothing behind, however it ended and whatever start
\* has overlapped it: its process is gone, so that nothing uses up the tokens of a
\* task that is about to be settled, and it is not the active task, which would
\* refuse every other start (the finally of start, ManagedCodexSession.stop).
EndedIsGone ==
  \A t \in Tasks : ~Running(t) => session[t].process # "up" /\ active # t

\* Tokens that one task's process uses are receipts of that task: config.toml is
\* one file for all tasks, so a process may have read another task's parameters,
\* and the responses route must refuse its calls (codex-runtime-route.ts).
UsageIsOwn == \A r \in receipts : r.by = r.task

=============================================================================
