---------------------------- MODULE CodexTaskProofs ----------------------------
(***************************************************************************)
(* Theorems about CodexTask for every set of tasks, every scenario and any *)
(* number of stops.                                                        *)
(***************************************************************************)
EXTENDS CodexTask, TLAPS

-----------------------------------------------------------------------------
(* The inductive invariant *)

\* Where a start is once it may be the active task, and once its process may run
Threaded == {"turning", "awaiting", "loading", "finalizing", "throwing", "leaving"}
Spawned == Threaded \cup {"initializing", "threading", "stopping"}
ListeningAt == {"turning", "awaiting"}

\* It has not cleared active yet
EngagedAt(pc) == pc \notin Under \cup {"stopping"}

Finished == {"task.completed", "task.blocked"}

\* A start waits for the answer of the request that it has sent last.
WaitsAt(m, s) ==
  /\ Initialize \in s.waiting => m.pc = "initializing"
  /\ ThreadStart \in s.waiting => m.pc = "threading"
  /\ TurnStart \in s.waiting => m.pc = "turning"

ProcessAt(m, s) == s.process = "up" => m.pc \in Spawned

\* Nothing is decided before the start leaves, nor finalized without a completion,
\* and what is caught has been thrown.
OutcomeAt(m) ==
  /\ m.pc \in {"loading", "finalizing"} => m.completion # "open"
  /\ m.pc \notin {"leaving", "stopping", "ended"} =>
       m.result = "none" /\ m.events \cap Finished = {}
  /\ m.pc \notin {"throwing", "leaving", "stopping", "ended"} =>
       m.cause = "none" /\ "task.failed" \notin m.events
  /\ m.pc = "throwing" => m.cause # "none"

Local(m, s) == WaitsAt(m, s) /\ ProcessAt(m, s) /\ OutcomeAt(m)

\* A stop that came in time has decided, unless something throws after it.
Decided(m) ==
  \/ /\ m.cause = "none"
     /\ m.result \in {"none", "CANCELLED"} /\ "task.failed" \notin m.events
  \/ m.cause \in {"turn/start", "desktop"} /\ m.result \in {"none", "thrown"}

\* A stop that came in time has its effect, and keeps it.
StopHeld(m) ==
  /\ m.cancelled /\ m.completion \in {"open", "cancelled"}
  /\ m.pc \in Threaded \cup {"stopping", "ended"}
  /\ m.events \cap Finished = {} /\ "task.cancelled" \in m.events
  /\ Decided(m)

\* What StopHeld and OutcomeAt read of a task, besides its pc
SameOutcome(n, m) ==
  /\ n.completion = m.completion /\ n.cancelled = m.cancelled /\ n.cause = m.cause
  /\ n.result = m.result /\ n.events = m.events

Types ==
  /\ task \in [Tasks -> TaskStates] /\ session \in [Tasks -> SessionStates]
  /\ active \in Tasks \cup {NoTask} /\ config \in Tasks \cup {NoTask}
  /\ alone \in [Tasks -> BOOLEAN] /\ inTime \in [Tasks -> BOOLEAN]

ActiveAt == \A t \in Tasks : active = t => task[t].pc \in Threaded

\* A start that no other has overlapped is the active task while it listens.
AloneAt ==
  \A t \in Tasks : alone[t] =>
    /\ task[t].pc \in ListeningAt => active = t
    /\ EngagedAt(task[t].pc) => \A u \in Tasks \ {t} : ~EngagedAt(task[u].pc)
    /\ inTime[t] => StopHeld(task[t])

Inv ==
  /\ Types
  /\ \A t \in Tasks : Local(task[t], session[t])
  /\ ActiveAt /\ AloneAt

LEMMA Numbers == NoTask \notin Tasks /\ MaxStops \in Nat
BY TasksAssumption

LEMMA InitInv == Init => Inv
<1> SUFFICES ASSUME Init
             PROVE  Inv
  OBVIOUS
<1>1. Idle \in TaskStates /\ NoSession \in SessionStates
  BY Numbers DEF Idle, TaskStates, NoSession, SessionStates
<1>2. Types
  BY <1>1 DEF Init, Types
<1>3. \A t \in Tasks : Local(task[t], session[t])
  BY DEF Init, Local, WaitsAt, ProcessAt, OutcomeAt, Idle, NoSession, Finished
<1>4. ActiveAt /\ AloneAt
  BY Numbers DEF Init, ActiveAt, AloneAt, ListeningAt, EngagedAt, Under, Idle
<1>5. QED
  BY <1>2, <1>3, <1>4 DEF Inv

-----------------------------------------------------------------------------
(* Steps of one task *)

\* A step changes what one task keeps, and what it keeps then is in order.
Moves(t) ==
  /\ \E m \in TaskStates : task' = [task EXCEPT ![t] = m]
  /\ \E s \in SessionStates : session' = [session EXCEPT ![t] = s]
  /\ config' \in Tasks \cup {NoTask}
  /\ Local(task'[t], session'[t])

LEMMA MovesKeeps ==
  ASSUME Inv, NEW t \in Tasks, Moves(t)
  PROVE  /\ task' \in [Tasks -> TaskStates] /\ session' \in [Tasks -> SessionStates]
         /\ \A u \in Tasks : Local(task[u], session[u])'
         /\ \A u \in Tasks \ {t} : task'[u] = task[u]
BY DEF Inv, Types, Moves

\* The steps that leave the active task alone
Quiet(t) ==
  /\ Moves(t) /\ UNCHANGED <<active, alone, inTime>>
  /\ task[t].pc \in Threaded => task'[t].pc \in Threaded
  /\ task'[t].pc \in ListeningAt => task[t].pc \in ListeningAt
  /\ EngagedAt(task'[t].pc) => EngagedAt(task[t].pc)
  /\ StopHeld(task[t]) => StopHeld(task'[t])

LEMMA QuietKeeps ==
  ASSUME Inv, NEW t \in Tasks, Quiet(t)
  PROVE  Inv'
<1>1. Moves(t)
  BY DEF Quiet
<1>2. Types'
  BY <1>1, MovesKeeps DEF Quiet, Moves, Types, Inv
<1>3. ActiveAt'
  BY <1>1, MovesKeeps DEF Quiet, ActiveAt, Inv
<1>4. AloneAt'
  BY <1>1, MovesKeeps DEF Quiet, AloneAt, Inv
<1>5. QED
  BY <1>1, <1>2, <1>3, <1>4, MovesKeeps DEF Inv

\* What a task is before a step, for every step of it.
LEMMA Before ==
  ASSUME Inv, NEW t \in Tasks
  PROVE  /\ task \in [Tasks -> TaskStates] /\ session \in [Tasks -> SessionStates]
         /\ task[t] \in TaskStates /\ session[t] \in SessionStates
         /\ Local(task[t], session[t])
         /\ config \in Tasks \cup {NoTask}
BY DEF Inv, Types

\* Where a start may be
Pcs == {"idle", "refused", "preparing", "scoping", "spawning", "initializing", "threading",
        "turning", "awaiting", "loading", "finalizing", "throwing", "leaving", "stopping",
        "ended"}

LEMMA Requests == {Initialize, ThreadStart, TurnStart} \subseteq 1..(TurnStart + MaxStops)
BY Numbers DEF Initialize, ThreadStart, TurnStart

Emitted == {"task.started", "task.completed", "task.blocked", "task.failed",
            "task.cancelled"}

\* A request whose number the start knows is no interrupt.
LEMMA InterruptsLater ==
  ASSUME NEW n \in 1..MaxStops
  PROVE  /\ Interrupt(n) \in 1..(TurnStart + MaxStops)
         /\ Interrupt(n) > TurnStart
         /\ Interrupt(n) \notin {Initialize, ThreadStart, TurnStart}
BY Numbers DEF Interrupt, TurnStart, ThreadStart, Initialize

\* What a step of the start makes of a task
LEMMA Rewritten ==
  ASSUME NEW m \in TaskStates, NEW pc \in Pcs, NEW events \in SUBSET Emitted,
         NEW result \in {"none", "CANCELLED", "FAILED", "COMPLETED", "BLOCKED", "thrown"}
  PROVE  /\ [m EXCEPT !.pc = pc, !.listening = FALSE] \in TaskStates
         /\ [m EXCEPT !.pc = pc, !.listening = TRUE, !.events = events] \in TaskStates
         /\ [m EXCEPT !.pc = pc, !.result = result, !.events = events] \in TaskStates
<1>1. [m EXCEPT !.pc = pc] \in TaskStates
  BY DEF TaskStates, Pcs
<1>2. \A n \in TaskStates, heard \in BOOLEAN : [n EXCEPT !.listening = heard] \in TaskStates
  BY DEF TaskStates
<1>3. \A n \in TaskStates : [n EXCEPT !.events = events] \in TaskStates
  BY DEF TaskStates, Emitted
<1>4. \A n \in TaskStates : [n EXCEPT !.result = result] \in TaskStates
  BY DEF TaskStates
<1>5. [[m EXCEPT !.pc = pc] EXCEPT !.listening = FALSE] \in TaskStates
  BY <1>1, <1>2
<1>6. [[[m EXCEPT !.pc = pc] EXCEPT !.listening = TRUE] EXCEPT !.events = events] \in TaskStates
  BY <1>1, <1>2, <1>3
<1>7. [[[m EXCEPT !.pc = pc] EXCEPT !.result = result] EXCEPT !.events = events] \in TaskStates
  BY <1>1, <1>3, <1>4
<1>8. QED
  BY <1>5, <1>6, <1>7

LEMMA ResolvedKeeps ==
  ASSUME NEW m \in TaskStates, NEW status \in {"completed", "failed", "cancelled"}
  PROVE  /\ Resolved(m, status) \in TaskStates
         /\ Resolved(m, status).completion # "open"
         /\ Resolved(m, status).completion \in {m.completion, status}
         /\ \/ Resolved(m, status) = m
            \/ /\ m.completion = "open"
               /\ Resolved(m, status) = [m EXCEPT !.completion = status]
<1>1. [m EXCEPT !.completion = status] \in TaskStates
  BY DEF TaskStates
<1>2. [m EXCEPT !.completion = status].completion = status
  BY DEF TaskStates
<1>3. QED
  BY <1>1, <1>2 DEF Resolved

\* The completion of a task changes nothing that Inv says of the others.
LEMMA ResolvedLocal ==
  ASSUME NEW m \in TaskStates, NEW s \in SessionStates, Local(m, s),
         NEW status \in {"completed", "failed", "cancelled"}
  PROVE  /\ Local(Resolved(m, status), s)
         /\ Resolved(m, status).pc = m.pc /\ Resolved(m, status).cancelled = m.cancelled
         /\ status = "cancelled" /\ StopHeld(m) => StopHeld(Resolved(m, status))
<1>1. CASE Resolved(m, status) = m
  BY <1>1
<1>2. CASE Resolved(m, status) = [m EXCEPT !.completion = status]
  <2> DEFINE r == [m EXCEPT !.completion = status]
  <2>1. /\ r.pc = m.pc /\ r.cancelled = m.cancelled /\ r.completion = status
        /\ r.result = m.result /\ r.events = m.events /\ r.cause = m.cause
    BY DEF TaskStates
  <2>2. QED
    BY <1>2, <2>1 DEF Local, WaitsAt, ProcessAt, OutcomeAt, StopHeld, Decided
<1>3. QED
  BY <1>1, <1>2, ResolvedKeeps

\* Refusing the requests ids of a task that waits for no others of its start
LEMMA RefusedKeeps ==
  ASSUME NEW m \in TaskStates, NEW s \in SessionStates, Local(m, s),
         NEW ids \in SUBSET s.waiting,
         NEW r \in SessionStates, r.waiting = s.waiting \ ids,
         r.process = "up" => s.process = "up"
  PROVE  /\ Refused(m, ids) \in TaskStates
         /\ Local(Refused(m, ids), r)
         /\ Refused(m, ids).pc \in {m.pc, "throwing"}
         /\ Refused(m, ids).pc # m.pc => m.pc \in {"initializing", "threading", "turning"}
         /\ StopHeld(m) => StopHeld(Refused(m, ids))
<1>0. ids \subseteq 1..(TurnStart + MaxStops)
  BY DEF SessionStates
<1>1. CASE \E i \in ids : i <= TurnStart
  <2> DEFINE cause == IF TurnStart \in ids THEN "turn/start" ELSE "request"
             n == [m EXCEPT !.pc = "throwing", !.cause = cause]
  <2>0. cause \in {"turn/start", "request"} /\ (TurnStart \in ids => cause = "turn/start")
    OBVIOUS
  <2>1. Thrown(m, ids) = n
    BY <1>1 DEF Thrown
  <2> HIDE DEF cause
  <2>2. n \in TaskStates
    BY <2>0 DEF TaskStates
  <2>3. /\ n.pc = "throwing" /\ n.cancelled = m.cancelled /\ n.completion = m.completion
        /\ n.result = m.result /\ n.events = m.events /\ n.cause = cause
    BY DEF TaskStates
  <2>4. PICK i \in ids : i <= TurnStart
    BY <1>1
  <2>5. i \in {Initialize, ThreadStart, TurnStart}
    BY <1>0, <2>4, Numbers DEF Initialize, ThreadStart, TurnStart
  <2>6. m.pc \in {"initializing", "threading", "turning"}
    BY <2>5 DEF Local, WaitsAt
  <2>7. ids \cap {Initialize, ThreadStart, TurnStart} =
          s.waiting \cap {Initialize, ThreadStart, TurnStart}
    BY <2>5 DEF Local, WaitsAt
  <2>8. Local(n, r)
    BY <2>0, <2>3, <2>6, <2>7 DEF Local, WaitsAt, ProcessAt, OutcomeAt, Spawned, Threaded
  <2>9. StopHeld(m) => StopHeld(n)
    <3> SUFFICES ASSUME StopHeld(m)
                 PROVE  StopHeld(n)
      OBVIOUS
    <3>1. m.pc = "turning"
      BY <2>6 DEF StopHeld, Threaded
    <3>2. i = TurnStart
      BY <2>4, <2>5, <3>1 DEF Local, WaitsAt
    <3>3. Decided(n)
      BY <2>0, <2>3, <2>4, <3>1, <3>2 DEF Local, OutcomeAt, Decided
    <3>4. QED
      BY <2>3, <3>3 DEF StopHeld, Threaded
  <2> HIDE DEF n
  <2>10. Refused(m, ids) \in {n, Resolved(n, "cancelled")}
    BY <2>1 DEF Refused, Interrupted
  <2>11. QED
    BY <2>2, <2>3, <2>6, <2>8, <2>9, <2>10, ResolvedKeeps, ResolvedLocal
<1>2. CASE ~\E i \in ids : i <= TurnStart
  <2>1. Refused(m, ids) \in {m, Resolved(m, "cancelled")}
    BY <1>2 DEF Refused, Interrupted, Thrown
  <2>2. Local(m, r)
    BY DEF Local, WaitsAt, ProcessAt
  <2>3. QED
    BY <2>1, <2>2, ResolvedKeeps, ResolvedLocal
<1>3. QED
  BY <1>1, <1>2

-----------------------------------------------------------------------------
(* The steps of the start *)

\* A step that leaves a task and its session in m and s
LEMMA QuietStep ==
  ASSUME Inv, NEW t \in Tasks, NEW m \in TaskStates, NEW s \in SessionStates,
         task' = [task EXCEPT ![t] = m], session' = [session EXCEPT ![t] = s],
         config' \in Tasks \cup {NoTask}, UNCHANGED <<active, alone, inTime>>,
         Local(m, s),
         task[t].pc \in Threaded => m.pc \in Threaded,
         m.pc \in ListeningAt => task[t].pc \in ListeningAt,
         EngagedAt(m.pc) => EngagedAt(task[t].pc),
         StopHeld(task[t]) => StopHeld(m)
  PROVE  Inv'
<1>1. task'[t] = m /\ session'[t] = s
  BY Before
<1>2. Moves(t)
  BY <1>1 DEF Moves
<1>3. Quiet(t)
  BY <1>1, <1>2 DEF Quiet
<1>4. QED
  BY <1>3, QuietKeeps

\* A step that moves pc, and may change the session, of a task
LEMMA GotoQuiet ==
  ASSUME Inv, NEW t \in Tasks, NEW pc \in Pcs, NEW s \in SessionStates,
         task' = [task EXCEPT ![t].pc = pc],
         session' = [session EXCEPT ![t] = s],
         config' \in Tasks \cup {NoTask}, UNCHANGED <<active, alone, inTime>>,
         /\ Initialize \in s.waiting => pc = "initializing"
         /\ ThreadStart \in s.waiting => pc = "threading"
         /\ TurnStart \in s.waiting => pc = "turning",
         s.process = "up" => pc \in Spawned,
         pc \in {"loading", "finalizing"} => task[t].completion # "open",
         task[t].pc \notin {"throwing", "leaving", "stopping", "ended"}, pc # "throwing",
         task[t].pc \in Threaded => pc \in Threaded,
         pc \in ListeningAt => task[t].pc \in ListeningAt,
         EngagedAt(pc) => EngagedAt(task[t].pc)
  PROVE  Inv'
<1> DEFINE m == [task[t] EXCEPT !.pc = pc]
<1>1. m \in TaskStates
  BY Before DEF TaskStates, Pcs
<1>2. m.pc = pc /\ SameOutcome(m, task[t])
  BY Before DEF TaskStates, SameOutcome
<1>3. Local(m, s)
  BY <1>2, Before DEF Local, WaitsAt, ProcessAt, OutcomeAt, SameOutcome
<1>4. StopHeld(task[t]) => StopHeld(m)
  BY <1>2 DEF StopHeld, Decided, SameOutcome
<1>5. task' = [task EXCEPT ![t] = m]
  OBVIOUS
<1> HIDE DEF m
<1>6. QED
  BY <1>1, <1>2, <1>3, <1>4, <1>5, QuietStep

\* Not even the session changes.
LEMMA PcQuiet ==
  ASSUME Inv, NEW t \in Tasks, NEW pc \in Pcs,
         task' = [task EXCEPT ![t].pc = pc], UNCHANGED session,
         config' = config, UNCHANGED <<active, alone, inTime>>,
         task[t].pc \notin {"initializing", "threading", "turning",
                            "throwing", "leaving", "stopping", "ended"},
         pc # "throwing", session[t].process = "up" => pc \in Spawned,
         pc \in {"loading", "finalizing"} => task[t].completion # "open",
         task[t].pc \in Threaded => pc \in Threaded,
         pc \in ListeningAt => task[t].pc \in ListeningAt,
         EngagedAt(pc) => EngagedAt(task[t].pc)
  PROVE  Inv'
<1>1. session' = [session EXCEPT ![t] = session[t]]
  BY Before
<1>2. {Initialize, ThreadStart, TurnStart} \cap session[t].waiting = {}
  BY Before DEF Local, WaitsAt
<1>3. QED
  BY <1>1, <1>2, Before, GotoQuiet

\* The desktop throws: a stop that came in time has a cause that undoes it.
LEMMA ThrowsKeeps ==
  ASSUME Inv, NEW t \in Tasks, Throws(t),
         task[t].pc \in {"spawning", "loading", "finalizing"},
         config' \in Tasks \cup {NoTask}, UNCHANGED <<session, active, alone, inTime>>
  PROVE  Inv'
<1> DEFINE m == [task[t] EXCEPT !.pc = "throwing", !.cause = "desktop"]
<1>1. task' = [task EXCEPT ![t] = m] /\ session' = [session EXCEPT ![t] = session[t]]
  BY Before DEF Throws
<1>2. /\ m \in TaskStates /\ m.pc = "throwing" /\ m.cause = "desktop"
      /\ m.completion = task[t].completion /\ m.cancelled = task[t].cancelled
      /\ m.result = task[t].result /\ m.events = task[t].events
  BY Before DEF TaskStates
<1> HIDE DEF m
<1>3. Local(m, session[t])
  BY <1>2, Before DEF Local, WaitsAt, ProcessAt, OutcomeAt, Spawned, Threaded
<1>4. StopHeld(task[t]) => StopHeld(m)
  BY <1>2, Before DEF StopHeld, Decided, Threaded, Local, OutcomeAt
<1>5. QED
  BY <1>1, <1>2, <1>3, <1>4, Before, QuietStep DEF Threaded, ListeningAt, EngagedAt, Under

LEMMA CompletedKeeps ==
  ASSUME Inv, NEW t \in Tasks, Completed(t)
  PROVE  Inv'
<1>1. /\ task[t].pc = "awaiting" /\ task[t].completion # "open"
      /\ UNCHANGED <<session, config, active, alone, inTime>>
  BY DEF Completed, TaskOnly, history
<1>2. PICK pc \in {"loading", "finalizing"} :
        task' = [task EXCEPT ![t].listening = FALSE, ![t].pc = pc]
  BY DEF Completed
<1> DEFINE m == [task[t] EXCEPT !.listening = FALSE, !.pc = pc]
<1>3. task' = [task EXCEPT ![t] = m] /\ session' = [session EXCEPT ![t] = session[t]]
  BY <1>1, <1>2, Before
<1>4. m \in TaskStates /\ m.pc = pc /\ SameOutcome(m, task[t])
  BY Before DEF TaskStates, SameOutcome
<1> HIDE DEF m
<1>5. Local(m, session[t])
  BY <1>1, <1>4, Before
     DEF Local, WaitsAt, ProcessAt, OutcomeAt, SameOutcome, Spawned, Threaded
<1>6. StopHeld(task[t]) => StopHeld(m)
  BY <1>4 DEF StopHeld, Decided, SameOutcome, Threaded
<1>7. QED
  BY <1>1, <1>3, <1>4, <1>5, <1>6, Before, QuietStep DEF Threaded, ListeningAt, EngagedAt, Under

LEMMA GoesKeeps ==
  ASSUME Inv, NEW t \in Tasks,
         \/ Prepared(t) \/ Scoped(t) \/ Completed(t) \/ Loaded(t)
  PROVE  Inv'
<1>1. ASSUME Unstarted(t), task[t].pc \in {"preparing", "scoping"}, UNCHANGED session,
             UNCHANGED <<config, active, alone, inTime>>
      PROVE  Inv'
  BY <1>1, Before, PcQuiet
     DEF Unstarted, Pcs, Local, ProcessAt, Spawned, Threaded, ListeningAt, EngagedAt, Under
<1>2. CASE Prepared(t)
  <2>1. CASE Unstarted(t)
    BY <1>1, <1>2, <2>1 DEF Prepared, TaskOnly, history
  <2>2. ASSUME NEW pc \in {"scoping", "spawning"}, task' = [task EXCEPT ![t].pc = pc]
        PROVE  Inv'
    BY <1>2, <2>2, Before, PcQuiet
       DEF Prepared, TaskOnly, history, Pcs, Local, ProcessAt, Spawned, Threaded,
           ListeningAt, EngagedAt, Under
  <2>3. QED
    BY <1>2, <2>1, <2>2 DEF Prepared
<1>3. CASE Scoped(t)
  <2>1. CASE Unstarted(t)
    BY <1>1, <1>3, <2>1 DEF Scoped, history
  <2>2. CASE task' = [task EXCEPT ![t].pc = "spawning"]
    BY <1>3, <2>2, Before, PcQuiet
       DEF Scoped, history, Pcs, Local, ProcessAt, Spawned, Threaded,
           ListeningAt, EngagedAt, Under
  <2>3. QED
    BY <1>3, <2>1, <2>2 DEF Scoped
<1>4. CASE Completed(t)
  BY <1>4, CompletedKeeps
<1>5. CASE Loaded(t)
  <2>1. CASE Throws(t)
    BY <1>5, <2>1, Before, ThrowsKeeps DEF Loaded, TaskOnly, history
  <2>2. CASE task' = [task EXCEPT ![t].pc = "finalizing"]
    <3>1. task[t].completion # "open"
      BY <1>5, Before DEF Loaded, Local, OutcomeAt
    <3>2. QED
      BY <1>5, <2>2, <3>1, PcQuiet
         DEF Loaded, TaskOnly, history, Pcs, Spawned, Threaded, ListeningAt, EngagedAt, Under
  <2>3. QED
    BY <1>5, <2>1, <2>2 DEF Loaded
<1>6. QED
  BY <1>2, <1>3, <1>4, <1>5

LEMMA SpawnKeeps ==
  ASSUME Inv, NEW t \in Tasks, Spawn(t)
  PROVE  Inv'
<1>1. /\ task[t].pc = "spawning" /\ UNCHANGED <<active, alone, inTime>>
  BY DEF Spawn, history
<1>2. {Initialize, ThreadStart, TurnStart} \cap session[t].waiting = {}
  BY <1>1, Before DEF Local, WaitsAt
<1>3. CASE Throws(t) /\ (WriteConfig(t) \/ UNCHANGED config) /\ UNCHANGED session
  <2>1. config' \in Tasks \cup {NoTask}
    BY <1>3, Before DEF WriteConfig
  <2>2. QED
    BY <1>1, <1>3, <2>1, ThrowsKeeps
<1>4. CASE /\ WriteConfig(t)
           /\ session' = [session EXCEPT ![t] = Sent([@ EXCEPT !.process = "up"], Initialize)]
           /\ task' = [task EXCEPT ![t].pc = "initializing"]
  <2> DEFINE s == Sent([session[t] EXCEPT !.process = "up"], Initialize)
  <2>1. s \in SessionStates
    BY Before, Requests DEF Sent, SessionStates
  <2>2. s.waiting = session[t].waiting \cup {Initialize}
    BY Before DEF Sent, SessionStates
  <2>3. /\ ThreadStart \notin s.waiting /\ TurnStart \notin s.waiting
    BY <1>2, <2>2 DEF Initialize, ThreadStart, TurnStart
  <2>4. session' = [session EXCEPT ![t] = s] /\ config' \in Tasks \cup {NoTask}
    BY <1>4 DEF WriteConfig
  <2> HIDE DEF s
  <2>5. QED
    BY <1>1, <1>4, <2>1, <2>3, <2>4, GotoQuiet
       DEF Pcs, Spawned, Threaded, ListeningAt, EngagedAt, Under
<1>5. QED
  BY <1>3, <1>4 DEF Spawn

LEMMA InitializedKeeps ==
  ASSUME Inv, NEW t \in Tasks, Initialized(t)
  PROVE  Inv'
<1> DEFINE s == [session[t] EXCEPT !.waiting = {ThreadStart}, !.context = config]
<1>1. task[t].pc = "initializing"
  BY Before DEF Initialized, Local, WaitsAt
<1>2. s \in SessionStates /\ s.waiting = {ThreadStart}
  BY Before, Requests DEF SessionStates
<1>3. /\ session' = [session EXCEPT ![t] = s] /\ task' = [task EXCEPT ![t].pc = "threading"]
      /\ config' = config /\ UNCHANGED <<active, alone, inTime>>
  BY Before DEF Initialized, SessionOnly, history
<1> HIDE DEF s
<1>4. Initialize \notin s.waiting /\ TurnStart \notin s.waiting
  BY <1>2 DEF Initialize, ThreadStart, TurnStart
<1>5. QED
  BY <1>1, <1>2, <1>3, <1>4, Before, GotoQuiet
     DEF Pcs, Spawned, Threaded, ListeningAt, EngagedAt, Under

LEMMA TurnStartedKeeps ==
  ASSUME Inv, NEW t \in Tasks, TurnStarted(t)
  PROVE  Inv'
<1> DEFINE s == [session[t] EXCEPT !.waiting = @ \ {TurnStart}]
<1>1. task[t].pc = "turning"
  BY Before DEF TurnStarted, Local, WaitsAt
<1>2. s \in SessionStates /\ s.waiting = session[t].waiting \ {TurnStart}
  BY Before DEF SessionStates
<1>3. {Initialize, ThreadStart, TurnStart} \cap s.waiting = {}
  BY <1>1, <1>2, Before DEF Local, WaitsAt
<1>4. /\ session' = [session EXCEPT ![t] = s] /\ task' = [task EXCEPT ![t].pc = "awaiting"]
      /\ config' = config /\ UNCHANGED <<active, alone, inTime>>
  BY Before DEF TurnStarted, SessionOnly, history
<1> HIDE DEF s
<1>5. QED
  BY <1>1, <1>2, <1>3, <1>4, Before, GotoQuiet
     DEF Pcs, Spawned, Threaded, ListeningAt, EngagedAt, Under

LEMMA FinalizedKeeps ==
  ASSUME Inv, NEW t \in Tasks, Finalized(t)
  PROVE  Inv'
<1>1. /\ task[t].pc = "finalizing" /\ UNCHANGED <<session, config, active, alone, inTime>>
  BY DEF Finalized, TaskOnly, history
<1>2. CASE Throws(t)
  BY <1>1, <1>2, Before, ThrowsKeeps
<1>3. ASSUME NEW o \in Outcomes(task[t].completion),
             task' = [task EXCEPT ![t].pc = "leaving", ![t].result = o[1],
                                  ![t].events = @ \cup o[2]]
      PROVE  Inv'
  <2> DEFINE events == task[t].events \cup o[2]
             result == o[1]
             m == [task[t] EXCEPT !.pc = "leaving", !.result = result, !.events = events]
  <2>1. task[t].completion \in {"completed", "failed", "cancelled"}
    BY <1>1, Before DEF Local, OutcomeAt, TaskStates
  <2>2. /\ o[1] \in {"CANCELLED", "FAILED", "COMPLETED", "BLOCKED"}
        /\ o[2] \in SUBSET Finished
        /\ task[t].completion = "cancelled" => o[1] = "CANCELLED" /\ o[2] = {}
    BY <2>1 DEF Outcomes, Finished
  <2>3. events \in SUBSET Emitted
    BY <2>2, Before DEF TaskStates, Finished, Emitted
  <2>4. task' = [task EXCEPT ![t] = m] /\ session' = [session EXCEPT ![t] = session[t]]
    BY <1>1, <1>3, Before
  <2>5. /\ events \cap Finished \subseteq (task[t].events \cap Finished) \cup o[2]
        /\ task[t].events \subseteq events
        /\ o[2] = {} => events = task[t].events
    OBVIOUS
  <2> HIDE DEF events, result
  <2>6. /\ m \in TaskStates
        /\ m.pc = "leaving" /\ m.completion = task[t].completion
        /\ m.cancelled = task[t].cancelled /\ m.cause = task[t].cause
        /\ m.result = result /\ m.events = events
    <3>1. result \in {"none", "CANCELLED", "FAILED", "COMPLETED", "BLOCKED", "thrown"}
      BY <2>2 DEF result
    <3>2. m \in TaskStates
      BY <2>3, <3>1, Before, Rewritten DEF Pcs
    <3>3. QED
      BY <3>2, Before DEF TaskStates
  <2> HIDE DEF m
  <2>7. Local(m, session[t])
    BY <1>1, <2>6, Before DEF Local, WaitsAt, ProcessAt, OutcomeAt, Spawned, Threaded
  <2>8. StopHeld(task[t]) => StopHeld(m)
    <3> SUFFICES ASSUME StopHeld(task[t])
                 PROVE  StopHeld(m)
      OBVIOUS
    <3>1. task[t].completion = "cancelled" /\ task[t].cause = "none"
          /\ "task.failed" \notin task[t].events
      BY <1>1, <2>1, Before DEF StopHeld, Local, OutcomeAt
    <3>2. result = "CANCELLED" /\ events = task[t].events
      BY <2>2, <2>5, <3>1 DEF result
    <3>3. QED
      BY <2>6, <3>1, <3>2 DEF StopHeld, Decided, Threaded
  <2>9. QED
    BY <1>1, <2>4, <2>6, <2>7, <2>8, Before, QuietStep
       DEF Threaded, ListeningAt, EngagedAt, Under
<1>4. QED
  BY <1>2, <1>3 DEF Finalized

LEMMA CaughtKeeps ==
  ASSUME Inv, NEW t \in Tasks, Caught(t)
  PROVE  Inv'
<1> DEFINE events == task[t].events \cup {"task.failed"}
           m == [task[t] EXCEPT !.pc = "leaving", !.result = "thrown", !.events = events]
<1>1. /\ task[t].pc = "throwing" /\ UNCHANGED <<session, config, active, alone, inTime>>
      /\ task' = [task EXCEPT ![t] = m] /\ session' = [session EXCEPT ![t] = session[t]]
  BY Before DEF Caught, TaskOnly, history
<1>2. events \in SUBSET Emitted
  BY Before DEF TaskStates, Emitted
<1>3. events \cap Finished = task[t].events \cap Finished /\ task[t].events \subseteq events
  BY DEF Finished
<1> HIDE DEF events
<1>4. /\ m \in TaskStates
      /\ m.pc = "leaving" /\ m.completion = task[t].completion
      /\ m.cancelled = task[t].cancelled /\ m.cause = task[t].cause
      /\ m.result = "thrown" /\ m.events = events
  <2>1. m \in TaskStates
    BY <1>2, Before, Rewritten DEF Pcs
  <2>2. QED
    BY <2>1, Before DEF TaskStates
<1> HIDE DEF m
<1>5. Local(m, session[t])
  BY <1>1, <1>4, Before DEF Local, WaitsAt, ProcessAt, OutcomeAt, Spawned, Threaded
<1>6. StopHeld(task[t]) => StopHeld(m)
  <2>1. task[t].cause # "none"
    BY <1>1, Before DEF Local, OutcomeAt
  <2>2. QED
    BY <1>3, <1>4, <2>1 DEF StopHeld, Decided, Threaded
<1>7. QED
  BY <1>1, <1>4, <1>5, <1>6, Before, QuietStep
     DEF Threaded, ListeningAt, EngagedAt, Under

LEMMA StoppedKeeps ==
  ASSUME Inv, NEW t \in Tasks, Stopped(t)
  PROVE  Inv'
<1> DEFINE m == [task[t] EXCEPT !.pc = "ended"]
<1>1. /\ task[t].pc = "stopping" /\ UNCHANGED <<session, config, active, alone, inTime>>
      /\ session[t].process \in {"none", "exited"}
      /\ task' = [task EXCEPT ![t] = m] /\ session' = [session EXCEPT ![t] = session[t]]
  BY Before DEF Stopped, TaskOnly, history
<1>2. m \in TaskStates
  BY Before DEF TaskStates
<1>3. m.pc = "ended" /\ SameOutcome(m, task[t])
  BY Before DEF TaskStates, SameOutcome
<1> HIDE DEF m
<1>4. Local(m, session[t])
  BY <1>1, <1>3, Before DEF Local, WaitsAt, ProcessAt, OutcomeAt
<1>5. StopHeld(task[t]) => StopHeld(m)
  BY <1>3 DEF StopHeld, Decided, SameOutcome
<1>6. QED
  BY <1>1, <1>2, <1>3, <1>4, <1>5, Before, QuietStep
     DEF Threaded, ListeningAt, EngagedAt, Under

\* The start clears active, and it alone has had it if nobody overlapped it.
LEMMA LeftKeeps ==
  ASSUME Inv, NEW t \in Tasks, Left(t)
  PROVE  Inv'
<1> DEFINE m == [task[t] EXCEPT !.pc = "stopping", !.listening = FALSE]
           s == [session[t] EXCEPT !.stopped = TRUE, !.waiting = {}]
<1>1. /\ task[t].pc = "leaving" /\ active' = NoTask /\ UNCHANGED <<config, alone, inTime>>
      /\ task' = [task EXCEPT ![t] = m] /\ session' = [session EXCEPT ![t] = s]
  BY Before DEF Left, Cleared, history
<1>2. m \in TaskStates /\ s \in SessionStates
  <2>1. {} \in SUBSET (1..(TurnStart + MaxStops))
    OBVIOUS
  <2>2. s \in SessionStates
    BY <2>1, Before DEF SessionStates
  <2>3. m \in TaskStates
    BY Before, Rewritten DEF Pcs, Emitted
  <2>4. QED
    BY <2>2, <2>3
<1>3. /\ m.pc = "stopping" /\ SameOutcome(m, task[t])
      /\ s.waiting = {} /\ s.process = session[t].process
  BY Before DEF TaskStates, SessionStates, SameOutcome
<1> HIDE DEF m, s
<1>4. Local(m, s)
  BY <1>3 DEF Local, WaitsAt, ProcessAt, OutcomeAt, Spawned
<1>5. task'[t] = m /\ session'[t] = s
  BY <1>1, Before
<1>6. Moves(t)
  BY <1>1, <1>2, <1>4, <1>5, Before DEF Moves
<1>7. Types'
  BY <1>1, <1>6, MovesKeeps DEF Types, Inv
<1>8. ActiveAt'
  BY <1>1, Numbers DEF ActiveAt
<1>9. AloneAt'
  <2> SUFFICES ASSUME NEW u \in Tasks, alone'[u]
               PROVE  /\ task'[u].pc \in ListeningAt => active' = u
                      /\ EngagedAt(task'[u].pc) =>
                           \A v \in Tasks \ {u} : ~EngagedAt(task'[v].pc)
                      /\ inTime'[u] => StopHeld(task'[u])
    BY DEF AloneAt
  <2>1. CASE u = t
    <3>1. StopHeld(task[t]) => StopHeld(m)
      BY <1>3 DEF StopHeld, Decided, SameOutcome
    <3>2. QED
      BY <1>1, <1>3, <1>5, <2>1, <3>1 DEF Inv, AloneAt, ListeningAt, EngagedAt
  <2>2. CASE u # t
    <3>1. task'[u] = task[u] /\ alone[u]
      BY <1>1, <1>6, <2>2, MovesKeeps
    <3>2. ~EngagedAt(task[u].pc)
      BY <1>1, <2>2, <3>1 DEF Inv, AloneAt, EngagedAt, Under
    <3>3. task[u].pc \notin ListeningAt
      BY <3>2 DEF EngagedAt, ListeningAt, Under
    <3>4. QED
      BY <1>1, <3>1, <3>2, <3>3 DEF Inv, AloneAt
  <2>3. QED
    BY <2>1, <2>2
<1>10. QED
  BY <1>6, <1>7, <1>8, <1>9, MovesKeeps DEF Inv

\* A start goes on only where no task is active, and what it overlaps is alone no more.
LEMMA StartKeeps ==
  ASSUME Inv, NEW t \in Tasks, Start(t)
  PROVE  Inv'
<1>1. /\ task[t].pc = "idle" /\ UNCHANGED <<session, config, active, inTime>>
      /\ session' = [session EXCEPT ![t] = session[t]]
  BY Before DEF Start
<1>2. PICK pc \in {"refused", "preparing"} :
        /\ task' = [task EXCEPT ![t].pc = pc]
        /\ pc = IF active # NoTask THEN "refused" ELSE "preparing"
  BY DEF Start
<1> DEFINE m == [task[t] EXCEPT !.pc = pc]
<1>3. task' = [task EXCEPT ![t] = m]
  BY <1>2
<1>4. m \in TaskStates
  BY Before DEF TaskStates
<1>5. m.pc = pc /\ SameOutcome(m, task[t])
  BY Before DEF TaskStates, SameOutcome
<1> HIDE DEF m
<1>6. Local(m, session[t])
  BY <1>1, <1>5, Before
     DEF Local, WaitsAt, ProcessAt, OutcomeAt, SameOutcome, Spawned, Threaded
<1>7. task'[t] = m /\ session'[t] = session[t]
  BY <1>1, <1>3, Before
<1>8. Moves(t)
  BY <1>1, <1>3, <1>4, <1>6, <1>7, Before DEF Moves
<1>9. Others(t) = {u \in Tasks \ {t} : EngagedAt(task[u].pc)}
  BY DEF Others, Running, EngagedAt
<1>10. /\ alone' \in [Tasks -> BOOLEAN]
       /\ \A u \in Tasks : alone'[u] => alone[u]
       /\ \A u \in Tasks : alone'[u] /\ active = NoTask /\ Others(t) # {} =>
            u \notin Others(t) \cup {t}
  BY DEF Start, Inv, Types
<1>11. Types'
  BY <1>1, <1>8, <1>10, MovesKeeps DEF Types, Inv
<1>12. ActiveAt'
  BY <1>1, <1>8, MovesKeeps DEF ActiveAt, Inv, Threaded
<1>13. AloneAt'
  <2> SUFFICES ASSUME NEW u \in Tasks, alone'[u]
               PROVE  /\ task'[u].pc \in ListeningAt => active' = u
                      /\ EngagedAt(task'[u].pc) =>
                           \A v \in Tasks \ {u} : ~EngagedAt(task'[v].pc)
                      /\ inTime'[u] => StopHeld(task'[u])
    BY DEF AloneAt
  <2>1. alone[u]
    BY <1>10
  <2>2. \A v \in Tasks \ {t} : task'[v] = task[v]
    BY <1>8, MovesKeeps
  <2>3. CASE u = t
    <3>1. task'[u].pc \notin ListeningAt
      BY <1>2, <1>5, <1>7, <2>3 DEF ListeningAt
    <3>2. inTime'[u] => StopHeld(task'[u])
      BY <1>1, <2>1, <2>3 DEF Inv, AloneAt, StopHeld, Threaded
    <3>3. ASSUME EngagedAt(m.pc) PROVE Others(t) = {}
      BY <1>2, <1>5, <1>10, <2>3, <3>3 DEF EngagedAt, Under
    <3>4. EngagedAt(task'[u].pc) => \A v \in Tasks \ {u} : ~EngagedAt(task'[v].pc)
      BY <1>7, <1>9, <2>2, <2>3, <3>3
    <3>5. QED
      BY <3>1, <3>2, <3>4
  <2>4. CASE u # t
    <3>1. task'[u] = task[u]
      BY <2>2, <2>4
    <3>2. ASSUME EngagedAt(task[u].pc) PROVE ~EngagedAt(m.pc)
      BY <1>2, <1>5, <1>9, <1>10, <2>4, <3>2 DEF EngagedAt, Under
    <3>3. QED
      BY <1>1, <1>7, <2>1, <2>2, <3>1, <3>2 DEF Inv, AloneAt
  <2>5. QED
    BY <2>3, <2>4
<1>14. QED
  BY <1>8, <1>11, <1>12, <1>13, MovesKeeps DEF Inv

\* The thread's start makes the task the active one.
LEMMA ThreadStartedKeeps ==
  ASSUME Inv, NEW t \in Tasks, ThreadStarted(t)
  PROVE  Inv'
<1> DEFINE events == task[t].events \cup {"task.started"}
           m == [task[t] EXCEPT !.pc = "turning", !.listening = TRUE, !.events = events]
           s == [session[t] EXCEPT !.waiting = {TurnStart}, !.turn = "open"]
<1>1. /\ active' = t /\ UNCHANGED <<config, alone, inTime>>
      /\ task' = [task EXCEPT ![t] = m] /\ session' = [session EXCEPT ![t] = s]
  BY Before DEF ThreadStarted, history
<1>2. task[t].pc = "threading"
  BY Before DEF ThreadStarted, Local, WaitsAt
<1>3. events \in SUBSET Emitted
  BY Before DEF TaskStates, Emitted
<1>4. s \in SessionStates /\ s.waiting = {TurnStart}
  BY Before, Requests DEF SessionStates
<1> HIDE DEF events, s
<1>5. /\ m \in TaskStates
      /\ m.pc = "turning" /\ m.events = events /\ m.completion = task[t].completion
      /\ m.cancelled = task[t].cancelled /\ m.result = task[t].result
      /\ m.cause = task[t].cause
  <2>1. m \in TaskStates
    BY <1>3, Before, Rewritten DEF Pcs
  <2>2. QED
    BY <2>1, Before DEF TaskStates
<1> HIDE DEF m
<1>6. events \cap Finished = task[t].events \cap Finished
      /\ ("task.failed" \in events => "task.failed" \in task[t].events)
  BY DEF events, Finished
<1>7. Initialize \notin s.waiting /\ ThreadStart \notin s.waiting
  BY <1>4 DEF Initialize, ThreadStart, TurnStart
<1>8. Local(m, s)
  BY <1>2, <1>5, <1>6, <1>7, Before
     DEF Local, WaitsAt, ProcessAt, OutcomeAt, Spawned, Threaded
<1>9. task'[t] = m /\ session'[t] = s
  BY <1>1, Before
<1>10. Moves(t)
  BY <1>1, <1>4, <1>5, <1>8, <1>9, Before DEF Moves
<1>11. Types'
  BY <1>1, <1>10, MovesKeeps DEF Types, Inv
<1>12. ActiveAt'
  BY <1>1, <1>5, <1>9 DEF ActiveAt, Threaded
<1>13. AloneAt'
  <2> SUFFICES ASSUME NEW u \in Tasks, alone'[u]
               PROVE  /\ task'[u].pc \in ListeningAt => active' = u
                      /\ EngagedAt(task'[u].pc) =>
                           \A v \in Tasks \ {u} : ~EngagedAt(task'[v].pc)
                      /\ inTime'[u] => StopHeld(task'[u])
    BY DEF AloneAt
  <2>1. alone[u] /\ \A v \in Tasks \ {t} : task'[v] = task[v]
    BY <1>1, <1>10, MovesKeeps
  <2>2. EngagedAt(task[t].pc) /\ EngagedAt(m.pc)
    BY <1>2, <1>5 DEF EngagedAt, Under
  <2>3. CASE u = t
    <3>1. ~StopHeld(task[t])
      BY <1>2 DEF StopHeld, Threaded
    <3>2. QED
      BY <1>1, <1>9, <2>1, <2>2, <2>3, <3>1 DEF Inv, AloneAt
  <2>4. CASE u # t
    <3>1. ~EngagedAt(task[u].pc) /\ task'[u] = task[u]
      BY <2>1, <2>2, <2>4 DEF Inv, AloneAt
    <3>2. task[u].pc \notin ListeningAt
      BY <3>1 DEF EngagedAt, ListeningAt, Under
    <3>3. QED
      BY <1>1, <2>1, <3>1, <3>2 DEF Inv, AloneAt
  <2>5. QED
    BY <2>3, <2>4
<1>14. QED
  BY <1>10, <1>11, <1>12, <1>13, MovesKeeps DEF Inv

-----------------------------------------------------------------------------
(* The steps of the process, and the user's *)

\* Requests that are answered by an error, or an interrupt that is answered at all
LEMMA RefusedStep ==
  ASSUME Inv, NEW t \in Tasks, NEW ids \in SUBSET session[t].waiting,
         NEW s \in SessionStates, s.waiting = session[t].waiting \ ids,
         s.process = "up" => session[t].process = "up",
         task' = [task EXCEPT ![t] = Refused(task[t], ids)],
         session' = [session EXCEPT ![t] = s],
         UNCHANGED <<config, active, alone, inTime>>
  PROVE  Inv'
<1> DEFINE m == Refused(task[t], ids)
<1>1. /\ m \in TaskStates /\ Local(m, s)
      /\ m.pc \in {task[t].pc, "throwing"}
      /\ m.pc # task[t].pc => task[t].pc \in {"initializing", "threading", "turning"}
      /\ StopHeld(task[t]) => StopHeld(m)
  BY Before, RefusedKeeps
<1>2. task' = [task EXCEPT ![t] = m]
  OBVIOUS
<1> HIDE DEF m
<1>3. /\ task[t].pc \in Threaded => m.pc \in Threaded
      /\ m.pc \in ListeningAt => task[t].pc \in ListeningAt
      /\ EngagedAt(m.pc) => EngagedAt(task[t].pc)
  BY <1>1 DEF Threaded, ListeningAt, EngagedAt, Under
<1>4. QED
  BY <1>1, <1>2, <1>3, Before, QuietStep

LEMMA AnswersKeeps ==
  ASSUME Inv, NEW t \in Tasks,
         \/ InterruptAnswered(t) \/ RequestRefused(t) \/ Garbled(t) \/ Exited(t)
  PROVE  Inv'
<1>1. ASSUME NEW i \in session[t].waiting,
             session' = [session EXCEPT ![t].waiting = @ \ {i}],
             task' = [task EXCEPT ![t] = Refused(@, {i})], SessionOnly
      PROVE  Inv'
  <2> DEFINE s == [session[t] EXCEPT !.waiting = @ \ {i}]
  <2>1. s \in SessionStates /\ s.waiting = session[t].waiting \ {i}
        /\ s.process = session[t].process
    BY Before DEF SessionStates
  <2>2. session' = [session EXCEPT ![t] = s]
        /\ task' = [task EXCEPT ![t] = Refused(task[t], {i})]
    BY <1>1, Before
  <2> HIDE DEF s
  <2>3. QED
    BY <1>1, <2>1, <2>2, RefusedStep DEF SessionOnly, history
<1>2. ASSUME NEW s \in SessionStates, FailPending(t, s), SessionOnly,
             s.process = "up" => session[t].process = "up"
      PROVE  Inv'
  <2> DEFINE r == [s EXCEPT !.waiting = {}]
  <2>1. {} \in SUBSET (1..(TurnStart + MaxStops))
    OBVIOUS
  <2>2. r \in SessionStates /\ r.waiting = {} /\ r.process = s.process
    BY <2>1 DEF SessionStates
  <2>3. session' = [session EXCEPT ![t] = r]
        /\ task' = [task EXCEPT ![t] = Refused(task[t], session[t].waiting)]
    BY <1>2, Before DEF FailPending
  <2> HIDE DEF r
  <2>4. QED
    BY <1>2, <2>2, <2>3, RefusedStep DEF SessionOnly, history
<1>3. CASE InterruptAnswered(t)
  <2>1. PICK i \in session[t].waiting :
          /\ i > TurnStart
          /\ session' = [session EXCEPT ![t].waiting = @ \ {i}]
          /\ task' = [task EXCEPT ![t] = Interrupted(@, {i})]
          /\ SessionOnly
    BY <1>3 DEF InterruptAnswered
  <2>2. i \in 1..(TurnStart + MaxStops)
    BY Before DEF SessionStates
  <2>3. Refused(task[t], {i}) = Interrupted(task[t], {i})
    BY <2>1, <2>2, Numbers DEF Refused, Thrown, TurnStart
  <2>4. task' = [task EXCEPT ![t] = Refused(@, {i})]
    BY <2>1, <2>3
  <2>5. QED
    BY <1>1, <2>1, <2>4
<1>4. CASE RequestRefused(t)
  BY <1>1, <1>4 DEF RequestRefused
<1>5. CASE Garbled(t)
  BY <1>2, <1>5, Before DEF Garbled
<1>6. CASE Exited(t)
  <2> DEFINE s == [session[t] EXCEPT !.process = "exited", !.stopped = TRUE]
  <2>1. s \in SessionStates /\ s.process = "exited"
    BY Before DEF SessionStates
  <2>2. FailPending(t, s) /\ SessionOnly
    BY <1>6 DEF Exited
  <2> HIDE DEF s
  <2>3. QED
    BY <1>2, <2>1, <2>2
<1>7. QED
  BY <1>3, <1>4, <1>5, <1>6

LEMMA TurnCompletedKeeps ==
  ASSUME Inv, NEW t \in Tasks, TurnCompleted(t)
  PROVE  Inv'
<1> DEFINE s == [session[t] EXCEPT !.turn = "over"]
<1>1. /\ s \in SessionStates /\ s.waiting = session[t].waiting
      /\ s.process = session[t].process
  BY Before DEF SessionStates
<1>2. session' = [session EXCEPT ![t] = s] /\ UNCHANGED <<config, active, alone, inTime>>
  BY Before DEF TurnCompleted, SessionOnly, history
<1> HIDE DEF s
<1>3. Local(task[t], s)
  BY <1>1, Before DEF Local, WaitsAt, ProcessAt
<1>4. PICK status \in {"interrupted", "completed", "failed"} :
        task' = IF Listening(t)
                THEN [task EXCEPT ![t] = Resolved(@, TurnStatus(@, status))] ELSE task
  BY DEF TurnCompleted
<1>5. CASE Listening(t)
  <2> DEFINE end == TurnStatus(task[t], status)
             m == Resolved(task[t], end)
  <2>1. end \in {"completed", "failed", "cancelled"}
        /\ (task[t].cancelled => end = "cancelled")
    BY DEF TurnStatus
  <2>2. task' = [task EXCEPT ![t] = m]
    BY <1>4, <1>5, Before
  <2> HIDE DEF end
  <2>3. m \in TaskStates
    BY <2>1, Before, ResolvedKeeps
  <2>4. Local(m, s) /\ m.pc = task[t].pc
        /\ (end = "cancelled" /\ StopHeld(task[t]) => StopHeld(m))
    BY <1>1, <1>3, <2>1, Before, ResolvedLocal
  <2> HIDE DEF m
  <2>5. StopHeld(task[t]) => StopHeld(m)
    BY <2>1, <2>4 DEF StopHeld
  <2>6. QED
    BY <1>1, <1>2, <2>2, <2>3, <2>4, <2>5, Before, QuietStep
<1>6. CASE ~Listening(t)
  <2>1. task' = [task EXCEPT ![t] = task[t]]
    BY <1>4, <1>6, Before
  <2>2. QED
    BY <1>1, <1>2, <1>3, <2>1, Before, QuietStep
<1>7. QED
  BY <1>5, <1>6

\* A request of the process that is taken for an answer refuses what it answers.
LEMMA AskedKeeps ==
  ASSUME Inv, NEW t \in Tasks, NEW i \in Asks, AskedDesktop(t, i)
  PROVE  Inv'
<1>1. UNCHANGED <<config, active, alone, inTime>>
  BY DEF AskedDesktop, history
<1>2. CASE i \in session[t].waiting
  <2> DEFINE s == [session[t] EXCEPT !.waiting = @ \ {i}]
  <2>1. s \in SessionStates /\ s.waiting = session[t].waiting \ {i}
        /\ s.process = session[t].process
    BY Before DEF SessionStates
  <2>2. session' = [session EXCEPT ![t] = s]
        /\ task' = [task EXCEPT ![t] = Refused(task[t], {i})]
    BY <1>2, Before DEF AskedDesktop
  <2> HIDE DEF s
  <2>3. QED
    BY <1>1, <1>2, <2>1, <2>2, RefusedStep
<1>3. CASE i \notin session[t].waiting
  <2>1. UNCHANGED <<task, session>>
    BY <1>3 DEF AskedDesktop
  <2>2. QED
    BY <1>1, <2>1 DEF Inv, Types, ActiveAt, AloneAt
<1>4. QED
  BY <1>2, <1>3

\* What a stop makes of a task and its session
Stop(t, m, s) ==
  /\ m \in TaskStates /\ s \in SessionStates
  /\ task' = [task EXCEPT ![t] = m] /\ session' = [session EXCEPT ![t] = s]
  /\ Local(m, s) /\ m.pc = task[t].pc
  /\ StopHeld(task[t]) => StopHeld(m)
  /\ active = t /\ TurnOpen(t) => StopHeld(m)

LEMMA CancelStops ==
  ASSUME Inv, NEW t \in Tasks, Cancel(t)
  PROVE  \E m \in TaskStates, s \in SessionStates : Stop(t, m, s)
<1> DEFINE n == task[t].stops + 1
           events == task[t].events \cup {"task.cancelled"}
           m1 == [task[t] EXCEPT !.stops = n]
           m2 == [m1 EXCEPT !.cancelled = TRUE, !.events = events]
<1>1. n \in 1..MaxStops /\ n \in 0..MaxStops
  BY Before, Numbers DEF Cancel, TaskStates
<1>2. events \in SUBSET Emitted /\ "task.cancelled" \in events
      /\ events \cap Finished = task[t].events \cap Finished
      /\ ("task.failed" \in events <=> "task.failed" \in task[t].events)
  BY Before DEF TaskStates, Emitted, Finished
<1>3. IF active = t
      THEN Interrupting(t, m2)
      ELSE task' = [task EXCEPT ![t] = m1] /\ UNCHANGED session
  <2>1. m1 = [task[t] EXCEPT !.stops = @ + 1]
    OBVIOUS
  <2>2. m1.events = task[t].events
    BY Before DEF TaskStates
  <2>3. m2 = [m1 EXCEPT !.cancelled = TRUE, !.events = @ \cup {"task.cancelled"}]
    BY <2>2
  <2> HIDE DEF m1, m2
  <2>4. QED
    BY <2>1, <2>3 DEF Cancel
<1> HIDE DEF n, events
<1>4. /\ m1 \in TaskStates /\ m1.pc = task[t].pc /\ m1.completion = task[t].completion
      /\ m1.cancelled = task[t].cancelled /\ m1.result = task[t].result
      /\ m1.events = task[t].events /\ m1.cause = task[t].cause /\ m1.stops = n
  BY <1>1, Before DEF TaskStates
<1> HIDE DEF m1
<1>5. /\ m2 \in TaskStates /\ m2.pc = m1.pc /\ m2.completion = m1.completion
      /\ m2.cancelled = TRUE /\ m2.result = m1.result
      /\ m2.events = events /\ m2.cause = m1.cause /\ m2.stops = n
  BY <1>2, <1>4 DEF TaskStates, Emitted
<1> HIDE DEF m2
<1>6. Local(m1, session[t]) /\ Local(m2, session[t])
  BY <1>2, <1>4, <1>5, Before DEF Local, WaitsAt, ProcessAt, OutcomeAt
<1>7. StopHeld(task[t]) => StopHeld(m1) /\ StopHeld(m2)
  BY <1>2, <1>4, <1>5 DEF StopHeld, Decided
<1>8. TurnOpen(t) => StopHeld(m2)
  BY <1>2, <1>4, <1>5, Before DEF TurnOpen, StopHeld, Decided, Threaded, Local, OutcomeAt
<1>9. CASE active # t
  <2>1. task' = [task EXCEPT ![t] = m1] /\ session' = [session EXCEPT ![t] = session[t]]
    BY <1>3, <1>9, Before
  <2>2. Stop(t, m1, session[t])
    BY <1>4, <1>6, <1>7, <1>9, <2>1, Before DEF Stop
  <2>3. QED
    BY <1>4, <2>2, Before
<1>10. CASE active = t /\ session[t].stopped
  <2> DEFINE m == Resolved(m2, "cancelled")
  <2>1. task' = [task EXCEPT ![t] = m] /\ session' = [session EXCEPT ![t] = session[t]]
    BY <1>3, <1>10, Before DEF Interrupting
  <2>2. /\ m \in TaskStates /\ Local(m, session[t]) /\ m.pc = m2.pc
        /\ StopHeld(m2) => StopHeld(m)
    BY <1>5, <1>6, Before, ResolvedKeeps, ResolvedLocal
  <2> HIDE DEF m
  <2>3. Stop(t, m, session[t])
    BY <1>4, <1>5, <1>7, <1>8, <2>1, <2>2, Before DEF Stop
  <2>4. QED
    BY <2>2, <2>3, Before
<1>11. CASE active = t /\ ~session[t].stopped
  <2> DEFINE s == Sent(session[t], Interrupt(n))
  <2>1. session[t].waiting \cup {Interrupt(n)} \in SUBSET (1..(TurnStart + MaxStops))
    BY <1>1, Before, InterruptsLater DEF SessionStates
  <2>2. /\ s \in SessionStates /\ s.waiting = session[t].waiting \cup {Interrupt(n)}
        /\ s.process = session[t].process
    BY <2>1, Before DEF Sent, SessionStates
  <2>3. task' = [task EXCEPT ![t] = m2] /\ session' = [session EXCEPT ![t] = s]
    BY <1>3, <1>5, <1>11, Before DEF Interrupting
  <2> HIDE DEF s
  <2>4. Local(m2, s)
    BY <1>1, <1>6, <2>2, InterruptsLater DEF Local, WaitsAt, ProcessAt
  <2>5. Stop(t, m2, s)
    BY <1>4, <1>5, <1>7, <1>8, <2>2, <2>3, <2>4 DEF Stop
  <2>6. QED
    BY <1>5, <2>2, <2>5
<1>12. QED
  BY <1>9, <1>10, <1>11, Before DEF SessionStates

LEMMA CancelKeeps ==
  ASSUME Inv, NEW t \in Tasks, Cancel(t)
  PROVE  Inv'
<1>1. PICK m \in TaskStates, s \in SessionStates : Stop(t, m, s)
  BY CancelStops
<1>2. UNCHANGED <<active, config, alone>>
      /\ inTime' = [inTime EXCEPT ![t] = @ \/ TurnOpen(t)]
  BY DEF Cancel
<1>3. task'[t] = m /\ session'[t] = s
  BY <1>1, Before DEF Stop
<1>4. Moves(t)
  BY <1>1, <1>2, <1>3, Before DEF Moves, Stop
<1>5. /\ inTime' \in [Tasks -> BOOLEAN]
      /\ \A u \in Tasks \ {t} : inTime'[u] = inTime[u]
      /\ (inTime'[t] => inTime[t] \/ TurnOpen(t))
  BY <1>2 DEF Inv, Types
<1>6. Types'
  BY <1>2, <1>4, <1>5, MovesKeeps DEF Types, Inv
<1>7. ActiveAt'
  BY <1>1, <1>2, <1>3, <1>4, MovesKeeps DEF Inv, ActiveAt, Stop
<1>8. \A u \in Tasks : task'[u].pc = task[u].pc
  BY <1>1, <1>3, <1>4, MovesKeeps DEF Stop
<1>9. AloneAt'
  <2> SUFFICES ASSUME NEW u \in Tasks, alone'[u]
               PROVE  /\ task'[u].pc \in ListeningAt => active' = u
                      /\ EngagedAt(task'[u].pc) =>
                           \A v \in Tasks \ {u} : ~EngagedAt(task'[v].pc)
                      /\ inTime'[u] => StopHeld(task'[u])
    BY DEF AloneAt
  <2>1. /\ task[u].pc \in ListeningAt => active = u
        /\ EngagedAt(task[u].pc) => \A v \in Tasks \ {u} : ~EngagedAt(task[v].pc)
        /\ inTime[u] => StopHeld(task[u])
    BY <1>2 DEF Inv, AloneAt
  <2>2. inTime'[u] => StopHeld(task'[u])
    <3>1. CASE u = t
      <4>1. CASE inTime[t]
        BY <1>1, <1>3, <2>1, <3>1, <4>1 DEF Stop
      <4>2. CASE TurnOpen(t)
        <5>1. active = t
          BY <2>1, <3>1, <4>2 DEF TurnOpen, ListeningAt
        <5>2. QED
          BY <1>1, <1>3, <3>1, <4>2, <5>1 DEF Stop
      <4>3. QED
        BY <1>5, <3>1, <4>1, <4>2
    <3>2. CASE u # t
      BY <1>4, <1>5, <2>1, <3>2, MovesKeeps
    <3>3. QED
      BY <3>1, <3>2
  <2>3. QED
    BY <1>2, <1>8, <2>1, <2>2
<1>10. QED
  BY <1>4, <1>6, <1>7, <1>9, MovesKeeps DEF Inv

LEMMA NextKeeps == Inv /\ [Next]_vars => Inv'
<1> SUFFICES ASSUME Inv, [Next]_vars
             PROVE  Inv'
  OBVIOUS
<1>1. ASSUME UNCHANGED <<active, task, session, config, alone, inTime>>
      PROVE  Inv'
  BY <1>1 DEF Inv, Types, ActiveAt, AloneAt
<1>2. ASSUME NEW t \in Tasks, Goes(t)
      PROVE  Inv'
  BY <1>2, GoesKeeps, SpawnKeeps, FinalizedKeeps, CaughtKeeps, LeftKeeps, StoppedKeeps DEF Goes
<1>3. ASSUME NEW t \in Tasks, Answers(t)
      PROVE  Inv'
  BY <1>3, InitializedKeeps, ThreadStartedKeeps, TurnStartedKeeps, AnswersKeeps DEF Answers
<1>4. ASSUME NEW t \in Tasks, NEW i \in Asks,
             Judged(t, i) \/ Fetched(t, i) \/ ResolvePermission(t, i)
      PROVE  Inv'
  BY <1>1, <1>4 DEF Judged, Fetched, ResolvePermission, AsksOnly, history
<1>5. ASSUME NEW t \in Tasks, ModelCall(t) \/ TokenExpires(t)
      PROVE  Inv'
  BY <1>1, <1>5 DEF ModelCall, TokenExpires, history
<1>6. CASE SignOut \/ UNCHANGED vars
  BY <1>1, <1>6 DEF SignOut, history, vars
<1>7. QED
  BY <1>2, <1>3, <1>4, <1>5, <1>6, StartKeeps, CancelKeeps, TurnCompletedKeeps, AskedKeeps
     DEF Next

LEMMA InvAlways == Spec => []Inv
BY InitInv, NextKeeps, PTL DEF Spec

-----------------------------------------------------------------------------
(* The rest of the types *)

Rest ==
  /\ scenario \in Scenarios /\ signedIn \in BOOLEAN
  /\ asked \in [Tasks -> [Asks -> AskStates]] /\ token \in [Tasks -> TokenStates]
  /\ receipts \subseteq {Receipt(t, u) : t \in Tasks, u \in Tasks}

LEMMA StageTypes == \A kind : Stage(kind) \in AskStates
<1> SUFFICES ASSUME NEW kind
             PROVE  Stage(kind) \in AskStates
  OBVIOUS
<1>1. DOMAIN FirstStage = {"web", "other"}
  BY DEF FirstStage
<1>2. CASE kind \in DOMAIN FirstStage
  <2>1. FirstStage[kind] \in {"fetching", "error"}
    BY <1>1, <1>2 DEF FirstStage
  <2>2. QED
    BY <1>2, <2>1 DEF Stage, AskStates
<1>3. CASE kind \notin DOMAIN FirstStage
  BY <1>3 DEF Stage, AskStates
<1>4. QED
  BY <1>2, <1>3

\* What may be recorded of a request, all that the last two sections write
LEMMA AskedTypes ==
  ASSUME Rest, NEW t \in Tasks, NEW i \in Asks, NEW at \in AskStates,
         asked' = [asked EXCEPT ![t][i] = at],
         UNCHANGED <<scenario, signedIn, token, receipts>>
  PROVE  Rest'
<1>1. Asks' = Asks
  BY DEF Asks
<1>2. [asked[t] EXCEPT ![i] = at] \in [Asks -> AskStates]
  BY DEF Rest
<1>3. asked' \in [Tasks -> [Asks -> AskStates]]
  BY <1>2 DEF Rest
<1>4. QED
  BY <1>1, <1>3 DEF Rest

LEMMA InitRest == Init => Rest
BY DEF Init, Rest, Asks, AskStates, TokenStates

LEMMA NextRest == Inv /\ Rest /\ [Next]_vars => Rest'
<1> SUFFICES ASSUME Inv, Rest, [Next]_vars
             PROVE  Rest'
  OBVIOUS
<1>1. ASSUME UNCHANGED <<scenario, asked, token, signedIn, receipts>>
      PROVE  Rest'
  BY <1>1 DEF Rest, Asks
<1>2. ASSUME NEW t \in Tasks, NEW i \in Asks, NEW decision \in AskStates,
             Reply(t, i, decision), AsksOnly
      PROVE  Rest'
  <2>1. (IF session[t].stopped THEN "dropped" ELSE decision) \in AskStates
    BY DEF AskStates
  <2>2. QED
    BY <1>2, <2>1, AskedTypes DEF Reply, AsksOnly
<1>3. ASSUME NEW t \in Tasks, Goes(t)
      PROVE  Rest'
  <2>1. CASE Scoped(t)
    <3>1. token' \in [Tasks -> TokenStates]
      BY <2>1 DEF Scoped, TokenIssued, Rest, TokenStates
    <3>2. QED
      BY <2>1, <3>1 DEF Scoped, Rest, Asks
  <2>2. CASE ~Scoped(t)
    BY <1>1, <1>3, <2>2
       DEF Goes, Prepared, Spawn, Completed, Loaded, Finalized, Caught, Left, Stopped, TaskOnly
  <2>3. QED
    BY <2>1, <2>2
<1>4. ASSUME NEW t \in Tasks, Answers(t) \/ Start(t) \/ Cancel(t) \/ TurnCompleted(t)
      PROVE  Rest'
  BY <1>1, <1>4
     DEF Answers, Initialized, ThreadStarted, TurnStarted, InterruptAnswered, RequestRefused,
         Garbled, Exited, Start, Cancel, TurnCompleted, SessionOnly
<1>5. ASSUME NEW t \in Tasks, ModelCall(t)
      PROVE  Rest'
  <2>1. BilledTo(t) \in Tasks
    BY <1>5 DEF ModelCall, BilledTo, SameContext
  <2>2. receipts' \subseteq {Receipt(u, v) : u \in Tasks, v \in Tasks}
    BY <1>5, <2>1 DEF ModelCall, Rest
  <2>3. QED
    BY <1>5, <2>2 DEF ModelCall, Rest, Asks
<1>6. ASSUME NEW t \in Tasks, TokenExpires(t)
      PROVE  Rest'
  <2>1. token' \in [Tasks -> TokenStates]
    BY <1>6 DEF TokenExpires, Rest, TokenStates
  <2>2. QED
    BY <1>6, <2>1 DEF TokenExpires, Rest, Asks
<1>7. ASSUME NEW t \in Tasks, NEW i \in Asks, AskedDesktop(t, i)
      PROVE  Rest'
  <2>1. PICK at \in AskStates : asked' = [asked EXCEPT ![t][i] = at]
    BY <1>7, StageTypes DEF AskedDesktop, AskStates
  <2>2. QED
    BY <1>7, <2>1, AskedTypes DEF AskedDesktop
<1>8. ASSUME NEW t \in Tasks, NEW i \in Asks, Judged(t, i)
      PROVE  Rest'
  <2>1. {"decline", "accept", "pending"} \subseteq AskStates
    BY DEF AskStates
  <2>2. CASE Reply(t, i, "decline") \/ Reply(t, i, "accept")
    BY <1>2, <1>8, <2>1, <2>2 DEF Judged
  <2>3. CASE asked' = [asked EXCEPT ![t][i] = "pending"]
    BY <1>8, <2>1, <2>3, AskedTypes DEF Judged, AsksOnly
  <2>4. QED
    BY <1>8, <2>2, <2>3 DEF Judged
<1>9. ASSUME NEW t \in Tasks, NEW i \in Asks, Fetched(t, i)
      PROVE  Rest'
  <2>1. {"failure", "success"} \subseteq AskStates
    BY DEF AskStates
  <2>2. QED
    BY <1>2, <1>9, <2>1 DEF Fetched
<1>10. ASSUME NEW t \in Tasks, NEW i \in Asks, ResolvePermission(t, i)
       PROVE  Rest'
  <2>1. \A kind, approved : ApprovalDecision(kind, approved) \in AskStates
    BY DEF ApprovalDecision, AskStates
  <2>2. QED
    BY <1>2, <1>10, <2>1 DEF ResolvePermission
<1>11. CASE SignOut
  <2>1. signedIn' \in BOOLEAN /\ UNCHANGED <<scenario, asked, token, receipts>>
    BY <1>11 DEF SignOut
  <2>2. QED
    BY <2>1 DEF Rest, Asks
<1>12. CASE UNCHANGED vars
  BY <1>1, <1>12 DEF vars
<1>13. QED
  BY <1>3, <1>4, <1>5, <1>6, <1>7, <1>8, <1>9, <1>10, <1>11, <1>12 DEF Next

-----------------------------------------------------------------------------
(* What the model promises *)

\* Every variable of the runner, its sessions and the API has its type.
THEOREM TypeCorrect == Spec => []TypeOK
<1>1. Inv /\ Rest => TypeOK
  BY DEF Inv, Types, Rest, TypeOK
<1>2. Spec => []Rest
  BY InitRest, NextRest, InvAlways, PTL DEF Spec
<1>3. QED
  BY <1>1, <1>2, InvAlways, PTL

\* A stop, pressed while the turn of the only task under way is open, is never
\* followed by COMPLETED, FAILED, task.completed or task.blocked, and unless
\* turn/start fails or the desktop's own loading or finalizing throws the task ends
\* CANCELLED, with no task.failed either (cancel, handleNotification, finalize, the
\* catch of start).
THEOREM StopAlwaysWins == Spec => []StopWins
<1>1. Inv => StopWins
  BY DEF Inv, AloneAt, StopHeld, Decided, Finished, StopWins
<1>2. QED
  BY <1>1, InvAlways, PTL

\* A start that is over is not the active task and has no process (the finally of
\* start, ManagedCodexSession.stop), though another start may have cleared active.
THEOREM EndedAlwaysGone == Spec => []EndedIsGone
<1>1. Inv => EndedIsGone
  <2> SUFFICES ASSUME Inv, NEW t \in Tasks, ~Running(t)
               PROVE  session[t].process # "up" /\ active # t
    BY DEF EndedIsGone
  <2>1. task[t].pc \in Under
    BY DEF Running
  <2>2. task[t].pc \notin Spawned
    BY <2>1 DEF Under, Spawned, Threaded
  <2>3. QED
    BY <2>2, Before DEF Inv, ActiveAt, Local, ProcessAt, Spawned
<1>2. QED
  BY <1>1, InvAlways, PTL

\* What a process uses is billed to its own task, whatever config.toml it has read
\* (codex-runtime-route.ts).
THEOREM UsageAlwaysOwn == Spec => []UsageIsOwn
<1>1. Init => UsageIsOwn
  BY DEF Init, UsageIsOwn
<1>2. UsageIsOwn /\ [Next]_vars => UsageIsOwn'
  <2> SUFFICES ASSUME UsageIsOwn, [Next]_vars
               PROVE  UsageIsOwn'
    OBVIOUS
  <2>1. ASSUME NEW t \in Tasks, ModelCall(t)
        PROVE  UsageIsOwn'
    <3>1. receipts' = receipts \cup {[by |-> t, task |-> t]}
      BY <2>1 DEF ModelCall, SameContext, BilledTo, Receipt
    <3>2. QED
      BY <3>1 DEF UsageIsOwn
  <2>2. CASE UNCHANGED receipts
    BY <2>2 DEF UsageIsOwn
  <2>3. CASE \E t \in Tasks : Goes(t)
    BY <2>2, <2>3
       DEF Goes, Prepared, Scoped, Spawn, Completed, Loaded, Finalized, Caught, Left,
           Stopped, TaskOnly
  <2>4. CASE \E t \in Tasks : Answers(t)
    BY <2>2, <2>4
       DEF Answers, Initialized, ThreadStarted, TurnStarted, InterruptAnswered,
           RequestRefused, Garbled, Exited, SessionOnly
  <2>5. CASE \E t \in Tasks, i \in Asks :
               AskedDesktop(t, i) \/ Judged(t, i) \/ Fetched(t, i) \/ ResolvePermission(t, i)
    BY <2>2, <2>5 DEF AskedDesktop, Judged, Fetched, ResolvePermission, AsksOnly
  <2>6. CASE \E t \in Tasks : Start(t) \/ Cancel(t) \/ TurnCompleted(t) \/ TokenExpires(t)
    BY <2>2, <2>6 DEF Start, Cancel, TurnCompleted, TokenExpires, SessionOnly
  <2>7. CASE SignOut \/ UNCHANGED vars
    BY <2>2, <2>7 DEF SignOut, vars
  <2>8. QED
    BY <2>1, <2>3, <2>4, <2>5, <2>6, <2>7 DEF Next
<1>3. QED
  BY <1>1, <1>2, PTL DEF Spec

================================================================================
