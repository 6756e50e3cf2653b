----------------------------- MODULE MCCodexTask -----------------------------
(* CodexTask on two tasks that both have a reservation, and on one task with  *)
(* every mishap, whose process asks for approvals and for web tools.          *)
EXTENDS CodexTask

CONSTANTS t1, t2

Of(tasks, reserved, asks, faults) ==
  [tasks |-> tasks, reserved |-> reserved, regretted |-> {t1}, asks |-> asks,
   faults |-> faults]

\* The ids 3 and 4 are also those of turn/start and of the first interrupt
MCScenarios ==
  {Of({t1, t2}, {t1, t2}, [i \in {} |-> "safe"], {}),
   Of({t1}, {t1}, 0 :> "destructive" @@ 3 :> "change", Faults),
   Of({t1}, {t1}, 0 :> "safe" @@ 4 :> "sensitive", Faults),
   Of({t1}, {t1}, 3 :> "other", Faults),
   Of({t1}, {}, 0 :> "prohibited" @@ 4 :> "web", Faults)}
=============================================================================
