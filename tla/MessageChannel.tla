--------------------------- MODULE MessageChannel ---------------------------
(***************************************************************************)
(* What a relay promises the two ends of a session, stated without         *)
(* connections, grants or queues.  Each channel carries the messages of    *)
(* one role of one session.  A message is accepted at most once, what is   *)
(* in transit is handed over in the order it was accepted, nothing is      *)
(* handed over twice, and what is lost is lost with all that was in        *)
(* transit on its channel: there is never a gap that closes again.         *)
(***************************************************************************)
EXTENDS Naturals, Sequences

CONSTANTS
  Channels,               \* pairs of a session and the role that sends
  Messages

VARIABLES
  accepted,               \* [Channels -> Seq(Messages)], all ever accepted
  transit,                \* [Channels -> Seq(Messages)], accepted, not handed over
  handed                  \* [Channels -> Seq(Messages)], all ever handed over

channels == <<accepted, transit, handed>>

Init ==
  /\ accepted = [ch \in Channels |-> <<>>]
  /\ transit = [ch \in Channels |-> <<>>]
  /\ handed = [ch \in Channels |-> <<>>]

Accept(ch, m) ==
  /\ \A i \in 1 .. Len(accepted[ch]) : accepted[ch][i] # m
  /\ accepted' = [accepted EXCEPT ![ch] = Append(@, m)]
  /\ transit' = [transit EXCEPT ![ch] = Append(@, m)]
  /\ UNCHANGED handed

HandOver(ch) ==
  /\ handed' = [handed EXCEPT ![ch] = @ \o transit[ch]]
  /\ transit' = [transit EXCEPT ![ch] = <<>>]
  /\ UNCHANGED accepted

\* A connection or a whole session goes away.
Lose(lost) ==
  /\ transit' = [ch \in Channels |-> IF ch \in lost THEN <<>> ELSE transit[ch]]
  /\ UNCHANGED <<accepted, handed>>

Next ==
  \/ \E ch \in Channels : HandOver(ch) \/ \E m \in Messages : Accept(ch, m)
  \/ \E lost \in SUBSET Channels : Lose(lost)

Spec == Init /\ [][Next]_channels
=============================================================================
