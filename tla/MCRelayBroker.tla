--------------------------- MODULE MCRelayBroker ---------------------------
(***************************************************************************)
(* A session with a host and a client that may prompt, either of which may *)
(* be connected more than once, a second session with a client that may    *)
(* not, three messages for queues of two, and the revocation of the device *)
(* that the client was issued for.                                         *)
(***************************************************************************)
EXTENDS RelayBroker, TLC

CONSTANTS prompt, stop, event

Host == [id |-> "host", session |-> "s1", role |-> "HOST", may |-> {}, expires |-> 3]
Client == [id |-> "client", session |-> "s1", role |-> "CLIENT",
           may |-> {"agent.prompt"}, expires |-> 2]
Viewer == [id |-> "viewer", session |-> "s2", role |-> "CLIENT", may |-> {}, expires |-> 2]

MCGrants == {Host, Client, Viewer}
MCNeeds == [m \in Messages |-> IF m \in {prompt, stop} THEN {"agent.prompt"} ELSE {}]
MCRevocations == {{Client}}

PromptSymmetry == Permutations({prompt, stop})
=============================================================================
