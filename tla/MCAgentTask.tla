---------------------------- MODULE MCAgentTask ----------------------------
(***************************************************************************)
(* A patch the policy allows, a command it asks about and one it denies.   *)
(* Three calls of the model are enough to reach the runaway guard, a       *)
(* repair that fails again, and two open requests one after the other; two *)
(* receipts of 2 exceed the estimate and then its one extension.           *)
(***************************************************************************)
EXTENDS AgentTask

MCKind == [a \in Actions |-> IF a = "write" THEN "patch" ELSE "command"]
MCPolicy == [a \in Actions |->
               IF a = "write" THEN "allow" ELSE IF a = "install" THEN "request" ELSE "deny"]
=============================================================================
