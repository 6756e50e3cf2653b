---------------------------- MODULE RelayBroker ----------------------------
(***************************************************************************)
(* RemoteRelayBroker (packages/remote-protocol/src/relay.ts), the core     *)
(* that pairs the HOST and the CLIENT connections of a session and queues  *)
(* what one sends for the other.  Every method runs to its end without     *)
(* awaiting, so each is one step; the interleavings are those of the       *)
(* connections, the revocations and the clock.                             *)
(*                                                                         *)
(* Connections are numbered in the order they are opened, which is the     *)
(* iteration order of the Map that holds them.  The pending list of a      *)
(* session is kept as one sequence for each sending role: the code only    *)
(* ever scans it for one role at a time and keeps the rest in order.       *)
(***************************************************************************)
EXTENDS Integers, Sequences, FiniteSets

CONSTANTS
  Sessions,
  Grants,           \* capability tokens: id, session, role, may, expires
  Messages,
  Permissions,
  Needs,            \* [Messages -> SUBSET Permissions], what a CLIENT needs to send one
  Revocations,      \* sets of grants: all of one device, one user or one room member
  MaxQueue,         \* messages a queue or the pending list of a session holds
  MaxConnections,   \* bound: connections ever opened
  MaxTime,          \* bound: the clock runs from 1 to MaxTime
  NoGrant           \* the grant of a connection not opened yet

Roles == {"HOST", "CLIENT"}
Times == 1 .. MaxTime
Conns == 1 .. MaxConnections
Channels == Sessions \X Roles       \* a session and the role that sends

ASSUME RelayAssumption ==
  /\ MaxQueue \in Nat \ {0}
  /\ MaxConnections \in Nat
  /\ MaxTime \in Nat \ {0}
  /\ \A g \in Grants : /\ g.session \in Sessions /\ g.role \in Roles
                       /\ g.may \subseteq Permissions /\ g.expires \in Nat
  /\ Needs \in [Messages -> SUBSET Permissions]
  /\ Revocations \subseteq SUBSET Grants
  /\ NoGrant \notin Grants

VARIABLES
  now,
  opened,           \* number of connections opened so far
  live,             \* keys of the connections Map
  grant,            \* the grant of each connection opened so far
  queue,            \* the queue of each connection
  pending,          \* what a role has sent while it had no peer
  seen,             \* message ids the broker refuses to take again, by session
  revokedGrants,
  revokedSessions,
  accepted,         \* history: messages put in a queue or in pending
  handed            \* history: messages that receive has returned

vars == <<now, opened, live, grant, queue, pending, seen, revokedGrants,
          revokedSessions, accepted, handed>>

TypeOK ==
  /\ now \in Times
  /\ opened \in 0 .. MaxConnections
  /\ live \subseteq 1 .. opened
  /\ grant \in [Conns -> Grants \cup {NoGrant}]
  /\ \A c \in live : grant[c] \in Grants
  /\ queue \in [Conns -> Seq(Messages)]
  /\ pending \in [Channels -> Seq(Messages)]
  /\ seen \subseteq Sessions \X Messages
  /\ revokedGrants \subseteq Grants
  /\ revokedSessions \subseteq Sessions
  /\ accepted \in [Channels -> Seq(Messages)]
  /\ handed \in [Channels -> Seq(Messages)]

Init ==
  /\ now = 1
  /\ opened = 0
  /\ live = {}
  /\ grant = [c \in Conns |-> NoGrant]
  /\ queue = [c \in Conns |-> <<>>]
  /\ pending = [ch \in Channels |-> <<>>]
  /\ seen = {}
  /\ revokedGrants = {}
  /\ revokedSessions = {}
  /\ accepted = [ch \in Channels |-> <<>>]
  /\ handed = [ch \in Channels |-> <<>>]

-----------------------------------------------------------------------------
(* Connections *)

Other(role) == IF role = "HOST" THEN "CLIENT" ELSE "HOST"
SessionOf(c) == grant[c].session
RoleOf(c) == grant[c].role

\* The channel a connection sends on and the one it receives from.
Outgoing(g) == <<g.session, g.role>>
Incoming(g) == <<g.session, Other(g.role)>>

\* Mutant: a grant whose session was revoked with another grant is still good.
RevokedItself(g) == g \in revokedGrants

Revoked(g) == g \in revokedGrants \/ g.session \in revokedSessions

\* requireConnection lets the connection act.
Usable(c) == c \in live /\ ~Revoked(grant[c]) /\ now < grant[c].expires

\* Mutant: the connection opened last.
LastPeer(ch) ==
  CHOOSE c \in {d \in live : Incoming(grant[d]) = ch} :
    \A d \in live : Incoming(grant[d]) = ch => d <= c

\* The connections that receive from a channel; send picks the first of the Map,
\* whether or not its grant is still good.
Receivers(ch) == {c \in live : Incoming(grant[c]) = ch}
Peer(ch) == CHOOSE c \in Receivers(ch) : \A d \in Receivers(ch) : c <= d

\* connections.delete: the queue goes with the connection.
Drop(gone) ==
  /\ live' = live \ gone
  /\ queue' = [c \in Conns |-> IF c \in gone THEN <<>> ELSE queue[c]]

-----------------------------------------------------------------------------
(* Methods *)

\* Mutant: the last place of the queue is not used.
TakenButOne(waiting) == IF Len(waiting) < MaxQueue THEN Len(waiting) ELSE MaxQueue - 1

\* How many waiting messages fit in an empty queue.
Taken(waiting) == IF Len(waiting) < MaxQueue THEN Len(waiting) ELSE MaxQueue

\* connect and deliverPending: the new connection takes what its peer has sent
\* so far, as much as its queue holds.
Connect(g) ==
  LET c == opened + 1
      waiting == pending[Incoming(g)]
      taken == Taken(waiting)
  IN
  /\ now < g.expires
  /\ ~Revoked(g)
  /\ opened < MaxConnections
  /\ opened' = c
  /\ live' = live \cup {c}
  /\ grant' = [grant EXCEPT ![c] = g]
  /\ queue' = [queue EXCEPT ![c] = SubSeq(waiting, 1, taken)]
  /\ pending' = [pending EXCEPT ![Incoming(g)] = SubSeq(waiting, taken + 1, Len(waiting))]
  /\ UNCHANGED <<now, seen, revokedGrants, revokedSessions, accepted, handed>>

\* disconnect: the socket closed, its heartbeat expired, or its buffer is full.
Disconnect(c) ==
  /\ c \in live
  /\ Drop({c})
  /\ UNCHANGED <<now, opened, grant, pending, seen, revokedGrants, revokedSessions,
                 accepted, handed>>

\* requireConnection, called by heartbeat, send and receive, deletes a
\* connection whose grant is revoked or has expired, and throws.
Evict(c) ==
  /\ c \in live
  /\ ~Usable(c)
  /\ Drop({c})
  /\ UNCHANGED <<now, opened, grant, pending, seen, revokedGrants, revokedSessions,
                 accepted, handed>>

\* The checks of send before it looks for the peer.
MaySend(c, m) ==
  /\ Usable(c)
  /\ RoleOf(c) = "CLIENT" => Needs[m] \subseteq grant[c].may
  /\ <<SessionOf(c), m>> \notin seen

\* Mutant: the id of a message is forgotten.
RememberNothing(c, m) == UNCHANGED seen

\* The message id is remembered before there is a place for the message.
Remember(c, m) == seen' = seen \cup {<<SessionOf(c), m>>}

\* The pending list counts the messages of both roles.
PendingLength(s) == Len(pending[<<s, "HOST">>]) + Len(pending[<<s, "CLIENT">>])

\* There is no room for a message: in the queue of the peer, or without a peer
\* in the pending list.
Full(ch) ==
  IF Receivers(ch) # {} THEN Len(queue[Peer(ch)]) >= MaxQueue
                        ELSE PendingLength(ch[1]) >= MaxQueue

SendToPeer(c, m) ==
  LET ch == Outgoing(grant[c]) IN
  /\ MaySend(c, m)
  /\ Remember(c, m)
  /\ Receivers(ch) # {}
  /\ ~Full(ch)
  /\ queue' = [queue EXCEPT ![Peer(ch)] = Append(@, m)]
  /\ accepted' = [accepted EXCEPT ![ch] = Append(@, m)]
  /\ UNCHANGED <<now, opened, live, grant, pending, revokedGrants, revokedSessions, handed>>

SendToPending(c, m) ==
  LET ch == Outgoing(grant[c]) IN
  /\ MaySend(c, m)
  /\ Remember(c, m)
  /\ Receivers(ch) = {}
  /\ ~Full(ch)
  /\ pending' = [pending EXCEPT ![ch] = Append(@, m)]
  /\ accepted' = [accepted EXCEPT ![ch] = Append(@, m)]
  /\ UNCHANGED <<now, opened, live, grant, queue, revokedGrants, revokedSessions, handed>>

\* BACKPRESSURE: send throws, and the id stays in seen.
SendRefused(c, m) ==
  /\ MaySend(c, m)
  /\ Remember(c, m)
  /\ Full(Outgoing(grant[c]))
  /\ UNCHANGED <<now, opened, live, grant, queue, pending, revokedGrants,
                 revokedSessions, accepted, handed>>

\* receive, called by the flush of the WebSocket server.
Receive(c) ==
  /\ Usable(c)
  /\ queue[c] # <<>>
  /\ handed' = [handed EXCEPT ![Incoming(grant[c])] = @ \o queue[c]]
  /\ queue' = [queue EXCEPT ![c] = <<>>]
  /\ UNCHANGED <<now, opened, live, grant, pending, seen, revokedGrants,
                 revokedSessions, accepted>>

RevokeGrant(g) ==
  /\ g \notin revokedGrants
  /\ revokedGrants' = revokedGrants \cup {g}
  /\ Drop({c \in live : grant[c] = g})
  /\ UNCHANGED <<now, opened, grant, pending, seen, revokedSessions, accepted, handed>>

\* pending.delete: the next send or connect reads an empty list.
Cleared(sessions) ==
  [ch \in Channels |-> IF ch[1] \in sessions THEN <<>> ELSE pending[ch]]

RevokeSession(s) ==
  /\ s \notin revokedSessions
  /\ revokedSessions' = revokedSessions \cup {s}
  /\ pending' = Cleared({s})
  /\ Drop({c \in live : SessionOf(c) = s})
  /\ UNCHANGED <<now, opened, grant, seen, revokedGrants, accepted, handed>>

\* revokeDevice, revokeUser, revokeRoomMember: only a connected grant is found,
\* and its whole session is revoked while only its own connection is deleted.
RevokeWhere(grants) ==
  LET hit == {c \in live : grant[c] \in grants}
      sessions == {SessionOf(c) : c \in hit}
  IN
  /\ hit # {}
  /\ revokedGrants' = revokedGrants \cup {grant[c] : c \in hit}
  /\ revokedSessions' = revokedSessions \cup sessions
  /\ pending' = Cleared(sessions)
  /\ Drop(hit)
  /\ UNCHANGED <<now, opened, grant, seen, accepted, handed>>

Tick ==
  /\ now < MaxTime
  /\ now' = now + 1
  /\ UNCHANGED <<opened, live, grant, queue, pending, seen, revokedGrants,
                 revokedSessions, accepted, handed>>

Next ==
  \/ \E g \in Grants : Connect(g) \/ RevokeGrant(g)
  \/ \E c \in Conns :
       \/ Disconnect(c)
       \/ Evict(c)
       \/ Receive(c)
       \/ \E m \in Messages : SendToPeer(c, m) \/ SendToPending(c, m) \/ SendRefused(c, m)
  \/ \E s \in Sessions : RevokeSession(s)
  \/ \E grants \in Revocations : RevokeWhere(grants)
  \/ Tick

Spec == Init /\ [][Next]_vars

-----------------------------------------------------------------------------
(* Properties *)

\* No queue outgrows its capacity, on whichever way messages get into it: the
\* peer's queue, the pending list, or a pending list poured into a new queue.
WithinCapacity ==
  /\ \A c \in Conns : Len(queue[c]) <= MaxQueue
  /\ \A s \in Sessions : PendingLength(s) <= MaxQueue

\* A message waits in the pending list only while nobody could take it, so a
\* later message is never queued ahead of it (send, deliverPending).
WaitsOnlyForPeer ==
  \A ch \in Channels : pending[ch] # <<>> => Receivers(ch) = {}

\* With several connections of one role, all that is queued for the role is
\* with the one connection that gets the next message too.
OneQueuePerChannel ==
  \A c \in live : queue[c] # <<>> => c = Peer(Incoming(grant[c]))

\* From the step that revokes a session on, also through one of its devices, the
\* session is silent for all of its connections, those that were not deleted
\* included: nothing is accepted, handed over or kept waiting (revokeWhere,
\* requireConnection).
RevokedIsSilent ==
  [][\A ch \in Channels : ch[1] \in revokedSessions' =>
       /\ pending'[ch] = <<>>
       /\ UNCHANGED <<accepted[ch], handed[ch]>>]_vars

\* The broker implements two ordered channels for each session that never
\* repeat a message.
Channel == INSTANCE MessageChannel WITH
  transit <- [ch \in Channels |->
                IF Receivers(ch) = {} THEN pending[ch] ELSE queue[Peer(ch)] \o pending[ch]]

ImplementsChannel == Channel!Spec
=============================================================================
