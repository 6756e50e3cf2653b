---------------------------- MODULE MCTaskBilling ----------------------------
(***************************************************************************)
(* Two tasks of one user, one on each runtime, with two requests each.     *)
(***************************************************************************)
EXTENDS TaskBilling

MCTaskOf == [q \in Requests |-> IF q \in {"c1", "c2"} THEN "codexTask" ELSE "legacyTask"]
MCRuntime == [t \in Tasks |-> IF t = "codexTask" THEN "codex" ELSE "legacy-test"]
MCCeiling == [t \in Tasks |-> 2]
=============================================================================
