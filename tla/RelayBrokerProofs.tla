------------------------- MODULE RelayBrokerProofs -------------------------
(***************************************************************************)
(* Theorems about RelayBroker for every set of sessions, grants, messages  *)
(* and revocations and every capacity of the queues.                       *)
(***************************************************************************)
EXTENDS RelayBroker, SequenceTheorems, WellFoundedInduction, TLAPS

-----------------------------------------------------------------------------
(* Facts about the operators *)

LEMMA HasLeast ==
  ASSUME NEW S, S \subseteq Nat, S # {}
  PROVE  \E x \in S : \A y \in S : x <= y
<1> DEFINE R == OpToRel(<, Nat)
<1>1. IsWellFoundedOn(R, Nat)
  BY NatLessThanWellFounded
<1>2. \A x, y \in Nat : x < y => <<x, y>> \in R
  BY DEF OpToRel
<1> HIDE DEF R
<1>3. PICK x \in S : \A y \in S : ~ (<<y, x>> \in R)
  BY <1>1, WFMin
<1>4. ASSUME NEW y \in S
      PROVE  x <= y
  <2>1. x \in Nat /\ y \in Nat
    OBVIOUS
  <2>2. ~(y < x)
    BY <1>2, <1>3, <2>1
  <2>3. QED
    BY <2>1, <2>2
<1>5. QED
  BY <1>4

LEMMA SumIsMonotonic ==
  ASSUME NEW a \in Nat, NEW b \in Nat, NEW c \in Nat, NEW d \in Nat, NEW m \in Nat,
         a <= b, c <= d, b + d <= m
  PROVE  a + c <= m
OBVIOUS

LEMMA RoomForOneMore ==
  ASSUME NEW a \in Nat, NEW b \in Nat, NEW m \in Nat, ~ (a + b >= m)
  PROVE  (a + 1) + b <= m /\ a + (b + 1) <= m
OBVIOUS

LEMMA GrantType ==
  ASSUME NEW g \in Grants
  PROVE  /\ g.session \in Sessions /\ g.role \in Roles
         /\ Outgoing(g) \in Channels /\ Incoming(g) \in Channels
         /\ Outgoing(g) # Incoming(g)
BY RelayAssumption DEF Outgoing, Incoming, Channels, Other, Roles

LEMMA LiveAreConns ==
  ASSUME TypeOK
  PROVE  live \subseteq Nat /\ live \subseteq Conns /\ opened \in Nat /\ opened <= MaxConnections
<1>1. opened \in 0 .. MaxConnections /\ live \subseteq 1 .. opened
  BY DEF TypeOK
<1>2. QED
  BY <1>1, RelayAssumption DEF Conns

\* The first of the Map exists whenever somebody receives, and is the only one
\* with nobody before it.
LEMMA PeerIsFirst ==
  ASSUME TypeOK, NEW ch, Receivers(ch) # {}
  PROVE  /\ Peer(ch) \in Receivers(ch)
         /\ Peer(ch) \in Conns
         /\ \A d \in Receivers(ch) : Peer(ch) <= d
<1>1. Receivers(ch) \subseteq Nat /\ Receivers(ch) \subseteq Conns
  BY LiveAreConns DEF Receivers
<1>3. \E c \in Receivers(ch) : \A d \in Receivers(ch) : c <= d
  BY <1>1, HasLeast
<1>4. Peer(ch) \in Receivers(ch) /\ \A d \in Receivers(ch) : Peer(ch) <= d
  BY <1>3 DEF Peer
<1>5. QED
  BY <1>1, <1>4

LEMMA LeastIsChosen ==
  ASSUME NEW S, S \subseteq Nat, NEW c \in S, \A d \in S : c <= d
  PROVE  c = CHOOSE x \in S : \A d \in S : x <= d
<1> DEFINE x == CHOOSE x \in S : \A d \in S : x <= d
<1>1. x \in S /\ \A d \in S : x <= d
  OBVIOUS
<1> HIDE DEF x
<1>2. x <= c /\ c <= x /\ c \in Nat /\ x \in Nat
  BY <1>1
<1>3. c = x
  BY <1>2
<1>4. QED
  BY <1>3 DEF x

LEMMA LeastIsMember ==
  ASSUME NEW S, S \subseteq Nat, S # {}
  PROVE  (CHOOSE x \in S : \A y \in S : x <= y) \in S
<1>1. \E x \in S : \A y \in S : x <= y
  BY HasLeast
<1>2. QED
  BY <1>1

\* What is poured into a new queue and what is left fit where they go.
LEMMA PouredType ==
  ASSUME NEW waiting \in Seq(Messages)
  PROVE  LET n == Taken(waiting) IN
         /\ n \in 0 .. Len(waiting) /\ n <= MaxQueue
         /\ SubSeq(waiting, 1, n) \in Seq(Messages)
         /\ Len(SubSeq(waiting, 1, n)) = n
         /\ SubSeq(waiting, n + 1, Len(waiting)) \in Seq(Messages)
         /\ Len(SubSeq(waiting, n + 1, Len(waiting))) = Len(waiting) - n
         /\ Len(waiting) <= MaxQueue => SubSeq(waiting, n + 1, Len(waiting)) = <<>>
<1> DEFINE n == Taken(waiting)
<1>1. Len(waiting) \in Nat
  OBVIOUS
<1>2. n \in 0 .. Len(waiting) /\ n <= MaxQueue /\ (Len(waiting) <= MaxQueue => n = Len(waiting))
  BY <1>1, RelayAssumption DEF Taken
<1> HIDE DEF n
<1>3. SubSeq(waiting, 1, n) \in Seq(Messages) /\ Len(SubSeq(waiting, 1, n)) = n
  BY <1>1, <1>2, SubSeqProperties
<1>4. /\ SubSeq(waiting, n + 1, Len(waiting)) \in Seq(Messages)
      /\ Len(SubSeq(waiting, n + 1, Len(waiting))) = Len(waiting) - n
  BY <1>1, <1>2, SubSeqProperties
<1>5. QED
  BY <1>2, <1>3, <1>4, EmptySeq DEF n

-----------------------------------------------------------------------------
(* The inductive invariant *)

\* A revoked session has nothing waiting.
RevokedHoldsNothing ==
  \A s \in revokedSessions : \A role \in Roles : pending[<<s, role>>] = <<>>

\* WaitsOnlyForPeer needs WithinCapacity, so that a new connection takes all that
\* waits for it, and OneQueuePerChannel needs WaitsOnlyForPeer, so that a
\* connection opened next to another of its role takes nothing.
Inductive ==
  /\ TypeOK
  /\ WithinCapacity
  /\ WaitsOnlyForPeer
  /\ OneQueuePerChannel
  /\ RevokedHoldsNothing

LEMMA InitInductive == Init => Inductive
<1> SUFFICES ASSUME Init
             PROVE  Inductive
  OBVIOUS
<1>1. TypeOK
  BY RelayAssumption DEF Init, TypeOK, Times
<1>2. WithinCapacity
  <2>1. Len(<<>>) = 0
    OBVIOUS
  <2>2. \A ch \in Channels : Len(pending[ch]) = 0
    BY <2>1 DEF Init
  <2>3. \A s \in Sessions : PendingLength(s) = 0
    <3>1. SUFFICES ASSUME NEW s \in Sessions
                   PROVE  PendingLength(s) = 0
      OBVIOUS
    <3>2. <<s, "HOST">> \in Channels /\ <<s, "CLIENT">> \in Channels
      BY DEF Channels, Roles
    <3>3. Len(pending[<<s, "HOST">>]) = 0 /\ Len(pending[<<s, "CLIENT">>]) = 0
      BY <2>2, <3>2
    <3>4. QED
      BY <3>3 DEF PendingLength
  <2>4. QED
    BY <2>1, <2>3, RelayAssumption DEF Init, WithinCapacity
<1>3. WaitsOnlyForPeer /\ OneQueuePerChannel /\ RevokedHoldsNothing
  BY DEF Init, WaitsOnlyForPeer, OneQueuePerChannel, RevokedHoldsNothing
<1>4. QED
  BY <1>1, <1>2, <1>3 DEF Inductive

\* Connections that go away, with the pending lists of their sessions or not.
LEMMA DropInductive ==
  ASSUME Inductive, NEW gone, NEW sessions,
         Drop(gone), UNCHANGED <<now, opened, grant, accepted, handed>>,
         pending' = Cleared(sessions),
         seen' \subseteq Sessions \X Messages,
         revokedGrants' \subseteq Grants, revokedSessions' \subseteq Sessions,
         revokedSessions' \subseteq revokedSessions \cup sessions
  PROVE  Inductive'
<1>1. TypeOK
  BY DEF Inductive
<1>2. live' = live \ gone /\ \A c \in Conns : queue'[c] = IF c \in gone THEN <<>> ELSE queue[c]
  BY DEF Drop
<1>3. queue' \in [Conns -> Seq(Messages)]
  BY <1>1 DEF TypeOK, Drop
<1>4. pending' \in [Channels -> Seq(Messages)]
  BY <1>1 DEF TypeOK, Cleared
<1>5. TypeOK'
  BY <1>1, <1>2, <1>3, <1>4 DEF TypeOK
<1>6. \A ch \in Channels : pending'[ch] = <<>> \/ pending'[ch] = pending[ch]
  BY DEF Cleared
<1>7. \A ch \in Channels : /\ Len(pending'[ch]) \in Nat /\ Len(pending[ch]) \in Nat
                            /\ Len(pending'[ch]) <= Len(pending[ch])
  <2>1. SUFFICES ASSUME NEW ch \in Channels
                 PROVE  /\ Len(pending'[ch]) \in Nat /\ Len(pending[ch]) \in Nat
                        /\ Len(pending'[ch]) <= Len(pending[ch])
    OBVIOUS
  <2>2. Len(pending'[ch]) \in Nat /\ Len(pending[ch]) \in Nat
    BY <1>1, <1>4 DEF TypeOK
  <2>3. Len(<<>>) = 0
    OBVIOUS
  <2>4. QED
    BY <1>6, <2>2, <2>3
<1>8. WithinCapacity'
  <2>1. \A c \in Conns : Len(queue'[c]) <= MaxQueue
    BY <1>2, RelayAssumption DEF Inductive, WithinCapacity
  <2>2. \A s \in Sessions : PendingLength(s)' <= MaxQueue
    <3>1. SUFFICES ASSUME NEW s \in Sessions
                   PROVE  PendingLength(s)' <= MaxQueue
      OBVIOUS
    <3>2. <<s, "HOST">> \in Channels /\ <<s, "CLIENT">> \in Channels
      BY DEF Channels, Roles
    <3>3. PendingLength(s) <= MaxQueue
      BY DEF Inductive, WithinCapacity
    <3> DEFINE host == <<s, "HOST">>
               client == <<s, "CLIENT">>
    <3>4. Len(pending[host]) + Len(pending[client]) <= MaxQueue
      BY <3>3 DEF PendingLength
    <3> HIDE DEF host, client
    <3>5. /\ Len(pending'[host]) \in Nat /\ Len(pending[host]) \in Nat
          /\ Len(pending'[host]) <= Len(pending[host])
          /\ Len(pending'[client]) \in Nat /\ Len(pending[client]) \in Nat
          /\ Len(pending'[client]) <= Len(pending[client])
      BY <1>7, <3>2 DEF host, client
    <3>6. Len(pending'[host]) + Len(pending'[client]) <= MaxQueue
      BY <3>4, <3>5, SumIsMonotonic, RelayAssumption
    <3>7. QED
      BY <3>6 DEF PendingLength, host, client
  <2>3. QED
    BY <2>1, <2>2 DEF WithinCapacity
<1>9. \A ch : Receivers(ch)' \subseteq Receivers(ch)
  BY <1>2 DEF Receivers
<1>10. WaitsOnlyForPeer'
  BY <1>6, <1>9 DEF Inductive, WaitsOnlyForPeer
<1>11. OneQueuePerChannel'
  <2>1. SUFFICES ASSUME NEW c \in live', queue'[c] # <<>>
                 PROVE  c = Peer(Incoming(grant[c]))'
    BY DEF OneQueuePerChannel
  <2> DEFINE ch == Incoming(grant[c])
  <2>2. c \in live /\ queue[c] # <<>> /\ c \in Receivers(ch) /\ c \in Receivers(ch)'
    BY <1>1, <1>2, <2>1, LiveAreConns DEF Receivers
  <2>3. c = Peer(ch)
    BY <2>2 DEF Inductive, OneQueuePerChannel
  <2>4. \A d \in Receivers(ch) : c <= d
    BY <1>1, <2>2, <2>3, PeerIsFirst
  <2>5. \A d \in Receivers(ch)' : c <= d
    BY <1>9, <2>4
  <2>6. Receivers(ch)' \subseteq Nat
    BY <1>1, <1>9, LiveAreConns DEF Receivers
  <2>7. c = CHOOSE x \in Receivers(ch)' : \A d \in Receivers(ch)' : x <= d
    BY <2>2, <2>5, <2>6, LeastIsChosen
  <2>8. Incoming(grant[c])' = ch
    OBVIOUS
  <2>9. QED
    BY <2>7, <2>8 DEF Peer
<1>12. RevokedHoldsNothing'
  BY <1>1 DEF Inductive, RevokedHoldsNothing, Cleared, Channels, Roles, TypeOK
<1>13. QED
  BY <1>5, <1>8, <1>10, <1>11, <1>12 DEF Inductive

\* Steps that leave connections, queues, pending lists and revocations alone.
LEMMA FrameInductive ==
  ASSUME Inductive, UNCHANGED <<opened, live, grant, queue, pending, revokedSessions>>, TypeOK'
  PROVE  Inductive'
<1>1. WithinCapacity' /\ WaitsOnlyForPeer'
  BY DEF Inductive, WithinCapacity, WaitsOnlyForPeer, PendingLength, Receivers
<1>2. OneQueuePerChannel' /\ RevokedHoldsNothing'
  BY DEF Inductive, OneQueuePerChannel, RevokedHoldsNothing, Peer, Receivers
<1>3. QED
  BY <1>1, <1>2 DEF Inductive

LEMMA ClearedNothing ==
  ASSUME TypeOK
  PROVE  pending = Cleared({})
BY DEF TypeOK, Cleared

LEMMA DisconnectInductive ==
  ASSUME Inductive, NEW c \in Conns, Disconnect(c) \/ Evict(c)
  PROVE  Inductive'
<1>1. TypeOK
  BY DEF Inductive
<1>2. /\ Drop({c})
      /\ UNCHANGED <<now, opened, grant, pending, seen, revokedGrants, revokedSessions,
                     accepted, handed>>
  BY DEF Disconnect, Evict
<1>3. pending' = Cleared({})
  BY <1>1, <1>2, ClearedNothing
<1>4. seen' \subseteq Sessions \X Messages /\ revokedGrants' \subseteq Grants /\ revokedSessions' \subseteq Sessions
  BY <1>1, <1>2 DEF TypeOK
<1>5. QED
  BY <1>2, <1>3, <1>4, DropInductive

LEMMA RevokeInductive ==
  ASSUME Inductive,
         \/ \E g \in Grants : RevokeGrant(g)
         \/ \E s \in Sessions : RevokeSession(s)
         \/ \E grants \in Revocations : RevokeWhere(grants)
  PROVE  Inductive'
<1>1. TypeOK
  BY DEF Inductive
<1>2. ASSUME NEW g \in Grants, RevokeGrant(g)
      PROVE  Inductive'
  <2>1. PICK gone : Drop(gone)
    BY <1>2 DEF RevokeGrant
  <2>2. /\ UNCHANGED <<now, opened, grant, pending, accepted, handed>>
        /\ seen' \subseteq Sessions \X Messages /\ revokedGrants' \subseteq Grants
        /\ revokedSessions' \subseteq Sessions /\ UNCHANGED revokedSessions
    BY <1>1, <1>2 DEF RevokeGrant, TypeOK
  <2>3. pending' = Cleared({})
    BY <1>1, <2>2, ClearedNothing
  <2>4. QED
    BY <2>1, <2>2, <2>3, DropInductive
<1>3. ASSUME NEW s \in Sessions, RevokeSession(s)
      PROVE  Inductive'
  <2>1. PICK gone : Drop(gone)
    BY <1>3 DEF RevokeSession
  <2>2. /\ UNCHANGED <<now, opened, grant, accepted, handed>>
        /\ seen' \subseteq Sessions \X Messages /\ revokedGrants' \subseteq Grants
        /\ revokedSessions' \subseteq Sessions /\ revokedSessions' = revokedSessions \cup {s}
        /\ pending' = Cleared({s})
    BY <1>1, <1>3 DEF RevokeSession, TypeOK
  <2>3. QED
    BY <2>1, <2>2, DropInductive
<1>4. ASSUME NEW grants \in Revocations, RevokeWhere(grants)
      PROVE  Inductive'
  <2> DEFINE hit == {c \in live : grant[c] \in grants}
             sessions == {SessionOf(c) : c \in hit}
  <2>1. /\ Drop(hit)
        /\ UNCHANGED <<now, opened, grant, accepted, handed, seen>>
        /\ revokedGrants' = revokedGrants \cup {grant[c] : c \in hit}
        /\ revokedSessions' = revokedSessions \cup sessions
        /\ pending' = Cleared(sessions)
    BY <1>4 DEF RevokeWhere
  <2>2. \A c \in hit : grant[c] \in Grants /\ SessionOf(c) \in Sessions
    BY <1>1, GrantType DEF TypeOK, SessionOf
  <2>3. /\ seen' \subseteq Sessions \X Messages /\ revokedGrants' \subseteq Grants
        /\ revokedSessions' \subseteq Sessions
    BY <1>1, <2>1, <2>2 DEF TypeOK
  <2> HIDE DEF hit, sessions
  <2>4. QED
    BY <2>1, <2>3, DropInductive
<1>5. QED
  BY <1>2, <1>3, <1>4

\* What the checks of send establish.
LEMMA SenderType ==
  ASSUME TypeOK, NEW c \in Conns, NEW m \in Messages, MaySend(c, m), Remember(c, m)
  PROVE  /\ grant[c] \in Grants /\ Outgoing(grant[c]) \in Channels
         /\ grant[c].session \in Sessions /\ grant[c].session \notin revokedSessions
         /\ seen' \subseteq Sessions \X Messages
<1>1. grant[c] \in Grants /\ grant[c].session \notin revokedSessions
  BY DEF TypeOK, MaySend, Usable, Revoked
<1>2. Outgoing(grant[c]) \in Channels /\ grant[c].session \in Sessions
  BY <1>1, GrantType
<1>3. seen' \subseteq Sessions \X Messages
  BY <1>2 DEF TypeOK, Remember, SessionOf
<1>4. QED
  BY <1>1, <1>2, <1>3

LEMMA SendRefusedInductive ==
  ASSUME Inductive, NEW c \in Conns, NEW m \in Messages, SendRefused(c, m)
  PROVE  Inductive'
<1>1. TypeOK /\ seen' \subseteq Sessions \X Messages
  BY SenderType DEF Inductive, SendRefused
<1>2. UNCHANGED <<now, opened, live, grant, queue, pending, revokedGrants,
                  revokedSessions, accepted, handed>>
  BY DEF SendRefused
<1>3. TypeOK'
  BY <1>1, <1>2 DEF TypeOK
<1>4. QED
  BY <1>2, <1>3, FrameInductive

LEMMA TickInductive ==
  ASSUME Inductive, Tick \/ UNCHANGED vars
  PROVE  Inductive'
<1>1. /\ UNCHANGED <<opened, live, grant, queue, pending, seen, revokedGrants,
                     revokedSessions, accepted, handed>>
      /\ now' \in Times
  BY RelayAssumption DEF Tick, vars, Inductive, TypeOK, Times
<1>2. TypeOK'
  BY <1>1 DEF Inductive, TypeOK
<1>3. QED
  BY <1>1, <1>2, FrameInductive

LEMMA SendToPeerInductive ==
  ASSUME Inductive, NEW c \in Conns, NEW m \in Messages, SendToPeer(c, m)
  PROVE  Inductive'
<1> DEFINE ch == Outgoing(grant[c])
           peer == Peer(ch)
<1>1. TypeOK
  BY DEF Inductive
<1>2. /\ ch \in Channels
      /\ seen' \subseteq Sessions \X Messages
      /\ Receivers(ch) # {}
      /\ ~ (Len(queue[peer]) >= MaxQueue)
      /\ queue' = [queue EXCEPT ![peer] = Append(@, m)]
      /\ accepted' = [accepted EXCEPT ![ch] = Append(@, m)]
      /\ UNCHANGED <<now, opened, live, grant, pending, revokedGrants, revokedSessions, handed>>
  BY <1>1, SenderType DEF SendToPeer, Full
<1>3. peer \in Receivers(ch) /\ peer \in Conns /\ \A d \in Receivers(ch) : peer <= d
  BY <1>1, <1>2, PeerIsFirst
<1> HIDE DEF ch, peer
<1>4. queue \in [Conns -> Seq(Messages)] /\ queue' \in [Conns -> Seq(Messages)]
  BY <1>1, <1>2, <1>3 DEF TypeOK
<1>5. accepted' \in [Channels -> Seq(Messages)]
  BY <1>1, <1>2 DEF TypeOK
<1>6. TypeOK'
  BY <1>1, <1>2, <1>4, <1>5 DEF TypeOK
<1>7. WithinCapacity'
  <2>1. Len(queue'[peer]) <= MaxQueue
    <3>1. queue[peer] \in Seq(Messages) /\ Len(queue[peer]) \in Nat
      BY <1>3, <1>4
    <3>2. Len(queue'[peer]) = Len(queue[peer]) + 1
      BY <1>2, <1>3, <1>4, <3>1
    <3>3. QED
      BY <1>2, <3>1, <3>2, RelayAssumption
  <2>2. \A d \in Conns : d # peer => queue'[d] = queue[d]
    BY <1>2, <1>4
  <2>3. QED
    BY <1>2, <2>1, <2>2 DEF Inductive, WithinCapacity, PendingLength
<1>8. WaitsOnlyForPeer' /\ RevokedHoldsNothing'
  BY <1>2 DEF Inductive, WaitsOnlyForPeer, RevokedHoldsNothing, Receivers
<1>9. OneQueuePerChannel'
  <2>1. SUFFICES ASSUME NEW d \in live, queue'[d] # <<>>
                 PROVE  d = Peer(Incoming(grant[d]))
    BY <1>2 DEF OneQueuePerChannel, Peer, Receivers
  <2>2. CASE d = peer
    BY <1>3, <2>2 DEF Receivers, peer
  <2>3. CASE d # peer
    <3>1. queue[d] # <<>>
      BY <1>1, <1>2, <1>4, <2>1, <2>3, LiveAreConns
    <3>2. QED
      BY <3>1 DEF Inductive, OneQueuePerChannel
  <2>4. QED
    BY <2>2, <2>3
<1>10. QED
  BY <1>6, <1>7, <1>8, <1>9 DEF Inductive

LEMMA SendToPendingInductive ==
  ASSUME Inductive, NEW c \in Conns, NEW m \in Messages, SendToPending(c, m)
  PROVE  Inductive'
<1> DEFINE ch == Outgoing(grant[c])
           session == grant[c].session
<1>1. TypeOK
  BY DEF Inductive
<1>2. /\ ch \in Channels /\ session \in Sessions /\ session \notin revokedSessions
      /\ seen' \subseteq Sessions \X Messages
      /\ Receivers(ch) = {}
      /\ ~ (PendingLength(session) >= MaxQueue)
      /\ pending' = [pending EXCEPT ![ch] = Append(@, m)]
      /\ accepted' = [accepted EXCEPT ![ch] = Append(@, m)]
      /\ UNCHANGED <<now, opened, live, grant, queue, revokedGrants, revokedSessions, handed>>
  BY <1>1, SenderType DEF SendToPending, Full, Outgoing
<1>3. ch = <<session, "HOST">> \/ ch = <<session, "CLIENT">>
  BY <1>1, GrantType, SenderType DEF SendToPending, Outgoing, Roles
<1> HIDE DEF ch, session
<1>4. pending \in [Channels -> Seq(Messages)] /\ pending' \in [Channels -> Seq(Messages)]
  BY <1>1, <1>2 DEF TypeOK
<1>5. accepted' \in [Channels -> Seq(Messages)]
  BY <1>1, <1>2 DEF TypeOK
<1>6. TypeOK'
  BY <1>1, <1>2, <1>4, <1>5 DEF TypeOK
<1>7. \A other \in Channels : other # ch => pending'[other] = pending[other]
  BY <1>2, <1>4
<1>8. ASSUME NEW s \in Sessions
      PROVE  PendingLength(s)' <= MaxQueue
  <2> DEFINE host == <<s, "HOST">>
             client == <<s, "CLIENT">>
  <2>1. host \in Channels /\ client \in Channels /\ host # client
    BY DEF Channels, Roles
  <2>2. Len(pending[host]) + Len(pending[client]) <= MaxQueue
    BY DEF Inductive, WithinCapacity, PendingLength
  <2>3. CASE s # session
    <3>1. host # ch /\ client # ch
      BY <1>3, <2>3
    <3>2. pending'[host] = pending[host] /\ pending'[client] = pending[client]
      BY <1>7, <2>1, <3>1
    <3>3. QED
      BY <2>2, <3>2 DEF PendingLength
  <2>4. CASE s = session
    <3>1. ~ (Len(pending[host]) + Len(pending[client]) >= MaxQueue)
      BY <1>2, <2>4 DEF PendingLength
    <3>2. ch = host \/ ch = client
      BY <1>3, <2>4
    <3> HIDE DEF host, client
    <3>3. Len(pending[host]) \in Nat /\ Len(pending[client]) \in Nat
      BY <1>4, <2>1
    <3>4. /\ pending[ch] \in Seq(Messages)
          /\ Len(pending'[ch]) = Len(pending[ch]) + 1
      BY <1>2, <1>4
    <3>5. CASE ch = host
      <4>1. /\ Len(pending'[client]) = Len(pending[client])
            /\ Len(pending'[host]) = Len(pending[host]) + 1
        BY <1>7, <2>1, <3>4, <3>5
      <4>2. Len(pending'[host]) + Len(pending'[client]) <= MaxQueue
        BY <3>1, <3>3, <4>1, RoomForOneMore, RelayAssumption
      <4>3. QED
        BY <4>2 DEF PendingLength, host, client
    <3>6. CASE ch = client
      <4>1. /\ Len(pending'[host]) = Len(pending[host])
            /\ Len(pending'[client]) = Len(pending[client]) + 1
        BY <1>7, <2>1, <3>4, <3>6
      <4>2. Len(pending'[host]) + Len(pending'[client]) <= MaxQueue
        BY <3>1, <3>3, <4>1, RoomForOneMore, RelayAssumption
      <4>3. QED
        BY <4>2 DEF PendingLength, host, client
    <3>7. QED
      BY <3>2, <3>5, <3>6
  <2>5. QED
    BY <2>3, <2>4
<1>9. WithinCapacity'
  BY <1>2, <1>8 DEF Inductive, WithinCapacity
<1>10. WaitsOnlyForPeer'
  BY <1>2, <1>7 DEF Inductive, WaitsOnlyForPeer, Receivers
<1>11. OneQueuePerChannel'
  BY <1>2 DEF Inductive, OneQueuePerChannel, Peer, Receivers
<1>12. RevokedHoldsNothing'
  <2>1. SUFFICES ASSUME NEW s \in revokedSessions, NEW role \in Roles
                 PROVE  pending'[<<s, role>>] = <<>>
    BY <1>2 DEF RevokedHoldsNothing
  <2>2. <<s, role>> \in Channels /\ <<s, role>> # ch
    BY <1>1, <1>2, <1>3 DEF TypeOK, Channels
  <2>3. QED
    BY <1>7, <2>2 DEF Inductive, RevokedHoldsNothing
<1>13. QED
  BY <1>6, <1>9, <1>10, <1>11, <1>12 DEF Inductive

LEMMA ReceiveInductive ==
  ASSUME Inductive, NEW c \in Conns, Receive(c)
  PROVE  Inductive'
<1>1. TypeOK
  BY DEF Inductive
<1>2. /\ c \in live /\ grant[c] \in Grants
      /\ handed' = [handed EXCEPT ![Incoming(grant[c])] = @ \o queue[c]]
      /\ queue' = [queue EXCEPT ![c] = <<>>]
      /\ UNCHANGED <<now, opened, live, grant, pending, seen, revokedGrants,
                     revokedSessions, accepted>>
  BY <1>1 DEF Receive, Usable, TypeOK
<1>3. queue \in [Conns -> Seq(Messages)] /\ queue' \in [Conns -> Seq(Messages)]
  BY <1>1, <1>2 DEF TypeOK
<1>4. handed' \in [Channels -> Seq(Messages)]
  <2>1. Incoming(grant[c]) \in Channels
    BY <1>2, GrantType
  <2>2. queue[c] \in Seq(Messages) /\ handed \in [Channels -> Seq(Messages)]
    BY <1>1, <1>3 DEF TypeOK
  <2>3. QED
    BY <1>2, <2>1, <2>2
<1>5. TypeOK'
  BY <1>1, <1>2, <1>3, <1>4 DEF TypeOK
<1>6. \A d \in Conns : queue'[d] = <<>> \/ queue'[d] = queue[d]
  BY <1>2, <1>3
<1>7. WithinCapacity'
  <2>1. Len(<<>>) = 0
    OBVIOUS
  <2>2. \A d \in Conns : Len(queue'[d]) <= MaxQueue
    BY <1>6, <2>1, RelayAssumption DEF Inductive, WithinCapacity
  <2>3. QED
    BY <1>2, <2>2 DEF Inductive, WithinCapacity, PendingLength
<1>8. WaitsOnlyForPeer' /\ RevokedHoldsNothing'
  BY <1>2 DEF Inductive, WaitsOnlyForPeer, RevokedHoldsNothing, Receivers
<1>9. OneQueuePerChannel'
  BY <1>1, <1>2, <1>6, LiveAreConns DEF Inductive, OneQueuePerChannel, Peer, Receivers
<1>10. QED
  BY <1>5, <1>7, <1>8, <1>9 DEF Inductive

LEMMA ConnectInductive ==
  ASSUME Inductive, NEW g \in Grants, Connect(g)
  PROVE  Inductive'
<1> DEFINE c == opened + 1
           ch == Incoming(g)
           waiting == pending[ch]
           n == Taken(waiting)
<1>1. TypeOK /\ ch \in Channels /\ waiting \in Seq(Messages)
  BY GrantType DEF Inductive, TypeOK
<1>2. c \in Conns /\ c \notin live /\ opened' = c /\ c \in 0 .. MaxConnections
  BY <1>1, RelayAssumption DEF Connect, TypeOK, Conns
<1>3. /\ live' = live \cup {c}
      /\ grant' = [grant EXCEPT ![c] = g]
      /\ queue' = [queue EXCEPT ![c] = SubSeq(waiting, 1, n)]
      /\ pending' = [pending EXCEPT ![ch] = SubSeq(waiting, n + 1, Len(waiting))]
      /\ UNCHANGED <<now, seen, revokedGrants, revokedSessions, accepted, handed>>
      /\ ~Revoked(g)
  BY DEF Connect
<1>4. Len(waiting) \in Nat /\ Len(waiting) <= MaxQueue
  <2>1. g.session \in Sessions /\ (ch = <<g.session, "HOST">> \/ ch = <<g.session, "CLIENT">>)
    BY GrantType DEF Incoming, Other
  <2> DEFINE host == pending[<<g.session, "HOST">>]
             client == pending[<<g.session, "CLIENT">>]
  <2>2. Len(host) + Len(client) <= MaxQueue
    BY <2>1 DEF Inductive, WithinCapacity, PendingLength
  <2>3. <<g.session, "HOST">> \in Channels /\ <<g.session, "CLIENT">> \in Channels
    BY <2>1 DEF Channels, Roles
  <2>4. host \in Seq(Messages) /\ client \in Seq(Messages)
    BY <1>1, <2>3 DEF TypeOK
  <2>5. waiting = host \/ waiting = client
    BY <2>1
  <2> HIDE DEF host, client, waiting
  <2>6. Len(host) \in Nat /\ Len(client) \in Nat
    BY <2>4
  <2>7. QED
    BY <2>2, <2>5, <2>6, RelayAssumption
<1>5. /\ SubSeq(waiting, 1, n) \in Seq(Messages)
      /\ Len(SubSeq(waiting, 1, n)) = n /\ n <= MaxQueue
      /\ SubSeq(waiting, n + 1, Len(waiting)) = <<>>
  BY <1>1, <1>4, PouredType
<1> HIDE DEF c, ch, waiting, n
<1>6. /\ pending' = [pending EXCEPT ![ch] = <<>>]
      /\ pending \in [Channels -> Seq(Messages)] /\ pending' \in [Channels -> Seq(Messages)]
  <2>1. pending \in [Channels -> Seq(Messages)]
    BY <1>1 DEF TypeOK
  <2>2. pending' = [pending EXCEPT ![ch] = <<>>]
    BY <1>3, <1>5
  <2>3. QED
    BY <1>1, <2>1, <2>2
<1>7. queue \in [Conns -> Seq(Messages)] /\ queue' \in [Conns -> Seq(Messages)]
  BY <1>1, <1>2, <1>3, <1>5 DEF TypeOK
<1>8. TypeOK'
  <2>1. grant' \in [Conns -> Grants \cup {NoGrant}] /\ \A d \in live' : grant'[d] \in Grants
    BY <1>1, <1>2, <1>3 DEF TypeOK
  <2>2. live' \subseteq 1 .. opened'
    BY <1>1, <1>2, <1>3 DEF TypeOK, c
  <2>3. QED
    BY <1>1, <1>2, <1>3, <1>6, <1>7, <2>1, <2>2 DEF TypeOK
<1>9. /\ \A d \in live : grant'[d] = grant[d] /\ queue'[d] = queue[d] /\ d < c
      /\ grant'[c] = g /\ queue'[c] = SubSeq(waiting, 1, n)
  <2>1. \A d \in live : d \in Conns /\ d < c /\ d # c
    BY <1>1, <1>2, LiveAreConns DEF c, TypeOK
  <2>2. QED
    BY <1>1, <1>2, <1>3, <1>7, <2>1 DEF TypeOK
<1>10. \A x : Receivers(x)' = IF x = ch THEN Receivers(x) \cup {c} ELSE Receivers(x)
  BY <1>2, <1>3, <1>9 DEF Receivers, ch
<1>11. WithinCapacity'
  <2>1. \A d \in Conns : Len(queue'[d]) <= MaxQueue
    BY <1>2, <1>3, <1>5, <1>7 DEF Inductive, WithinCapacity
  <2>2. ASSUME NEW s \in Sessions
        PROVE  PendingLength(s)' <= MaxQueue
    <3> DEFINE host == <<s, "HOST">>
               client == <<s, "CLIENT">>
    <3>1. Len(pending[host]) + Len(pending[client]) <= MaxQueue
      BY DEF Inductive, WithinCapacity, PendingLength
    <3>2. host \in Channels /\ client \in Channels
      BY DEF Channels, Roles
    <3> HIDE DEF host, client
    <3>3. Len(<<>>) = 0
      OBVIOUS
    <3>4. \A x \in Channels : /\ Len(pending'[x]) \in Nat /\ Len(pending[x]) \in Nat
                              /\ Len(pending'[x]) <= Len(pending[x])
      <4>1. SUFFICES ASSUME NEW x \in Channels
                     PROVE  /\ Len(pending'[x]) \in Nat /\ Len(pending[x]) \in Nat
                            /\ Len(pending'[x]) <= Len(pending[x])
        OBVIOUS
      <4>2. pending'[x] = <<>> \/ pending'[x] = pending[x]
        BY <1>6
      <4>3. Len(pending[x]) \in Nat
        BY <1>6
      <4>4. QED
        BY <3>3, <4>2, <4>3
    <3>5. /\ Len(pending'[host]) \in Nat /\ Len(pending[host]) \in Nat
          /\ Len(pending'[host]) <= Len(pending[host])
          /\ Len(pending'[client]) \in Nat /\ Len(pending[client]) \in Nat
          /\ Len(pending'[client]) <= Len(pending[client])
      BY <3>2, <3>4
    <3>6. Len(pending'[host]) + Len(pending'[client]) <= MaxQueue
      BY <3>1, <3>5, SumIsMonotonic, RelayAssumption
    <3>7. QED
      BY <3>6 DEF PendingLength, host, client
  <2>3. QED
    BY <2>1, <2>2 DEF WithinCapacity
<1>12. WaitsOnlyForPeer'
  BY <1>1, <1>6, <1>10 DEF Inductive, WaitsOnlyForPeer
<1>13. OneQueuePerChannel'
  <2>1. SUFFICES ASSUME NEW d \in live', queue'[d] # <<>>
                 PROVE  d = Peer(Incoming(grant[d]))'
    BY DEF OneQueuePerChannel
  <2>0. PICK in : in = Incoming(grant'[d])
    OBVIOUS
  <2>2. d \in Receivers(in)' /\ Receivers(in)' \subseteq Nat
    <3>1. live' \subseteq Nat
      BY <1>1, <1>2, <1>3, LiveAreConns
    <3>2. QED
      BY <2>0, <2>1, <3>1 DEF Receivers
  <2>3. \A e \in Receivers(in)' : d <= e
    <3>1. CASE d = c
      <4>1. waiting # <<>>
        <5>1. CASE waiting = <<>>
          <6>1. n = 0
            BY <1>5, <5>1, RelayAssumption DEF n, Taken
          <6>2. QED
            BY <1>5, <1>9, <2>1, <3>1, <6>1, EmptySeq
        <5>2. QED
          BY <5>1
      <4>2. Receivers(ch) = {}
        BY <1>1, <4>1 DEF Inductive, WaitsOnlyForPeer, waiting
      <4>3. in = ch
        BY <1>9, <2>0, <3>1 DEF ch
      <4>4. QED
        BY <1>10, <2>2, <3>1, <4>2, <4>3
    <3>2. CASE d # c
      <4>1. d \in live /\ queue[d] # <<>> /\ in = Incoming(grant[d]) /\ d < c
        BY <1>3, <1>9, <2>0, <2>1, <3>2
      <4>2. d = Peer(in) /\ d \in Receivers(in)
        BY <4>1 DEF Inductive, OneQueuePerChannel, Receivers
      <4>3. \A e \in Receivers(in) : d <= e
        BY <1>1, <4>2, PeerIsFirst
      <4>4. d <= c
        BY <1>1, <1>2, <4>1, LiveAreConns DEF c, TypeOK
      <4>5. QED
        BY <1>10, <4>3, <4>4
    <3>3. QED
      BY <3>1, <3>2
  <2>4. d = CHOOSE x \in Receivers(in)' : \A e \in Receivers(in)' : x <= e
    BY <2>2, <2>3, LeastIsChosen
  <2>5. QED
    BY <2>0, <2>4 DEF Peer
<1>14. RevokedHoldsNothing'
  BY <1>1, <1>3, <1>6 DEF Inductive, RevokedHoldsNothing, TypeOK, Channels
<1>15. QED
  BY <1>8, <1>11, <1>12, <1>13, <1>14 DEF Inductive

LEMMA NextInductive == Inductive /\ [Next]_vars => Inductive'
<1> SUFFICES ASSUME Inductive, [Next]_vars
             PROVE  Inductive'
  OBVIOUS
<1>1. ASSUME NEW g \in Grants, Connect(g)
      PROVE  Inductive'
  BY <1>1, ConnectInductive
<1>2. ASSUME NEW c \in Conns, Disconnect(c) \/ Evict(c) \/ Receive(c)
      PROVE  Inductive'
  BY <1>2, DisconnectInductive, ReceiveInductive
<1>3. ASSUME NEW c \in Conns, NEW m \in Messages,
             SendToPeer(c, m) \/ SendToPending(c, m) \/ SendRefused(c, m)
      PROVE  Inductive'
  BY <1>3, SendToPeerInductive, SendToPendingInductive, SendRefusedInductive
<1>4. CASE Tick \/ UNCHANGED vars
  BY <1>4, TickInductive
<1>5. QED
  BY <1>1, <1>2, <1>3, <1>4, RevokeInductive DEF Next

\* The broker never loses its shape, its queues and pending lists stay within
\* MaxQueue, a message waits only while nobody can take it, and all that is
\* queued for a role is with the one connection that gets the next message.
THEOREM RelayInvariants ==
  Spec => [](TypeOK /\ WithinCapacity /\ WaitsOnlyForPeer /\ OneQueuePerChannel)
<1>1. Inductive => TypeOK /\ WithinCapacity /\ WaitsOnlyForPeer /\ OneQueuePerChannel
  BY DEF Inductive
<1>2. QED
  BY <1>1, InitInductive, NextInductive, PTL DEF Spec

\* A message is set aside only while no connection of the other role can take
\* it, so none is left behind by a later one that goes straight through.
THEOREM WaitingIsForPeer == Spec => []WaitsOnlyForPeer
BY RelayInvariants, PTL

-----------------------------------------------------------------------------
(* A revoked session is silent *)

\* Only these steps change the histories, and only for a session in good standing.
LEMMA HistoriesMove ==
  ASSUME TypeOK, [Next]_vars, NEW ch \in Channels,
         ~ UNCHANGED <<accepted[ch], handed[ch]>>
  PROVE  ch[1] \notin revokedSessions /\ UNCHANGED revokedSessions
<1>1. ASSUME NEW c \in Conns, NEW m \in Messages, SendToPeer(c, m) \/ SendToPending(c, m)
      PROVE  ch[1] \notin revokedSessions /\ UNCHANGED revokedSessions
  <2>1. /\ MaySend(c, m) /\ Remember(c, m)
        /\ accepted' = [accepted EXCEPT ![Outgoing(grant[c])] = Append(@, m)]
        /\ UNCHANGED <<handed, revokedSessions>>
    BY <1>1 DEF SendToPeer, SendToPending
  <2>2. ch = Outgoing(grant[c])
    BY <2>1 DEF TypeOK
  <2>3. grant[c].session \notin revokedSessions
    BY <2>1, SenderType
  <2>4. QED
    BY <2>1, <2>2, <2>3 DEF Outgoing
<1>2. ASSUME NEW c \in Conns, Receive(c)
      PROVE  ch[1] \notin revokedSessions /\ UNCHANGED revokedSessions
  <2>1. /\ Usable(c) /\ UNCHANGED <<accepted, revokedSessions>>
        /\ handed' = [handed EXCEPT ![Incoming(grant[c])] = @ \o queue[c]]
    BY <1>2 DEF Receive
  <2>2. ch = Incoming(grant[c])
    BY <2>1 DEF TypeOK
  <2>3. QED
    BY <2>1, <2>2 DEF Usable, Revoked, Incoming
<1>3. UNCHANGED <<accepted, handed>> \/
      \E c \in Conns : Receive(c) \/ \E m \in Messages : SendToPeer(c, m) \/ SendToPending(c, m)
  BY DEF Next, vars, Connect, RevokeGrant, Disconnect, Evict, SendRefused, RevokeSession,
         RevokeWhere, Tick
<1>4. QED
  BY <1>1, <1>2, <1>3

LEMMA SilentStep ==
  Inductive /\ [Next]_vars /\ Inductive' =>
    [\A ch \in Channels : ch[1] \in revokedSessions' =>
       /\ pending'[ch] = <<>>
       /\ UNCHANGED <<accepted[ch], handed[ch]>>]_vars
<1> SUFFICES ASSUME Inductive, [Next]_vars, Inductive',
                    NEW ch \in Channels, ch[1] \in revokedSessions'
             PROVE  pending'[ch] = <<>> /\ UNCHANGED <<accepted[ch], handed[ch]>>
  OBVIOUS
<1>1. ch = <<ch[1], ch[2]>> /\ ch[2] \in Roles
  BY DEF Channels
<1>2. pending'[ch] = <<>>
  BY <1>1 DEF Inductive, RevokedHoldsNothing
<1>3. UNCHANGED <<accepted[ch], handed[ch]>>
  BY HistoriesMove DEF Inductive
<1>4. QED
  BY <1>2, <1>3

\* From the step that revokes a session on, nothing more passes through it.
THEOREM RevokedStaysSilent == Spec => RevokedIsSilent
BY InitInductive, NextInductive, SilentStep, PTL DEF Spec, RevokedIsSilent

-----------------------------------------------------------------------------
(* The broker implements ordered channels *)

\* What the refinement mapping calls in transit.
InTransit(ch) == IF Receivers(ch) = {} THEN pending[ch] ELSE queue[Peer(ch)] \o pending[ch]

\* Seen never forgets what was accepted, so no id is accepted twice.
AcceptedWasSeen ==
  \A ch \in Channels : \A i \in 1 .. Len(accepted[ch]) : <<ch[1], accepted[ch][i]>> \in seen

LEMMA AcceptedWasSeenInit == Init => AcceptedWasSeen
BY DEF Init, AcceptedWasSeen

LEMMA AcceptedWasSeenNext == Inductive /\ AcceptedWasSeen /\ [Next]_vars => AcceptedWasSeen'
<1> SUFFICES ASSUME Inductive, AcceptedWasSeen, [Next]_vars
             PROVE  AcceptedWasSeen'
  OBVIOUS
<1>1. CASE UNCHANGED <<accepted, seen>>
  BY <1>1 DEF AcceptedWasSeen
<1>2. ASSUME NEW c \in Conns, NEW m \in Messages, SendRefused(c, m)
      PROVE  AcceptedWasSeen'
  BY <1>2 DEF AcceptedWasSeen, SendRefused, Remember
<1>3. ASSUME NEW c \in Conns, NEW m \in Messages, SendToPeer(c, m) \/ SendToPending(c, m)
      PROVE  AcceptedWasSeen'
  <2>1. /\ seen' = seen \cup {<<SessionOf(c), m>>}
        /\ accepted' = [accepted EXCEPT ![Outgoing(grant[c])] = Append(@, m)]
    BY <1>3 DEF SendToPeer, SendToPending, Remember
  <2>2. accepted \in [Channels -> Seq(Messages)]
    BY DEF Inductive, TypeOK
  <2>3. SUFFICES ASSUME NEW ch \in Channels, NEW i \in 1 .. Len(accepted'[ch])
                 PROVE  <<ch[1], accepted'[ch][i]>> \in seen'
    BY DEF AcceptedWasSeen
  <2>4. CASE ch # Outgoing(grant[c])
    BY <2>1, <2>2, <2>3, <2>4 DEF AcceptedWasSeen
  <2>5. CASE ch = Outgoing(grant[c])
    <3>1. accepted'[ch] = Append(accepted[ch], m) /\ accepted[ch] \in Seq(Messages)
      BY <2>1, <2>2, <2>5
    <3>2. ch[1] = SessionOf(c)
      BY <2>5 DEF Outgoing, SessionOf
    <3>3. CASE i \in 1 .. Len(accepted[ch])
      BY <2>1, <3>1, <3>3 DEF AcceptedWasSeen
    <3>4. CASE i = Len(accepted[ch]) + 1
      BY <2>1, <3>1, <3>2, <3>4
    <3>5. Len(accepted[ch]) \in Nat /\ Len(accepted'[ch]) = Len(accepted[ch]) + 1
      BY <3>1
    <3>6. i \in 1 .. Len(accepted[ch]) + 1
      BY <2>3, <3>5
    <3>7. QED
      BY <3>3, <3>4, <3>5, <3>6
  <2>6. QED
    BY <2>4, <2>5
<1>4. \/ UNCHANGED <<accepted, seen>>
      \/ \E c \in Conns, m \in Messages :
           SendRefused(c, m) \/ SendToPeer(c, m) \/ SendToPending(c, m)
  BY DEF Next, vars, Connect, RevokeGrant, Disconnect, Evict, Receive, RevokeSession,
         RevokeWhere, Tick
<1>5. QED
  BY <1>1, <1>2, <1>3, <1>4

LEMMA ChannelInit == Init => Channel!Init
BY DEF Init, Channel!Init, Receivers

\* A new connection takes over what was in transit.
LEMMA ConnectKeepsTransit ==
  ASSUME Inductive, Inductive', NEW g \in Grants, Connect(g), NEW ch \in Channels
  PROVE  InTransit(ch)' = InTransit(ch)
<1> DEFINE c == opened + 1
           waiting == pending[Incoming(g)]
           n == Taken(waiting)
<1>1. /\ live' = live \cup {c}
      /\ grant' = [grant EXCEPT ![c] = g]
      /\ queue' = [queue EXCEPT ![c] = SubSeq(waiting, 1, n)]
      /\ pending' = [pending EXCEPT ![Incoming(g)] = SubSeq(waiting, n + 1, Len(waiting))]
      /\ c \in Conns /\ c \notin live /\ \A d \in live : d \in Conns /\ d < c
  <2>1. opened < MaxConnections
    BY DEF Connect
  <2>2. c \in Conns /\ c \notin live /\ \A d \in live : d \in Conns /\ d < c
    <3>1. opened \in Nat /\ live \subseteq 1 .. opened
      BY DEF Inductive, TypeOK
    <3>2. QED
      BY <2>1, <3>1, RelayAssumption DEF Conns
  <2>3. QED
    BY <2>2 DEF Connect
<1> HIDE DEF c, n
<1>2. /\ \A d \in live : grant'[d] = grant[d] /\ queue'[d] = queue[d]
      /\ grant'[c] = g /\ queue'[c] = SubSeq(waiting, 1, n)
  BY <1>1 DEF Inductive, TypeOK
<1>3. Receivers(ch)' = IF ch = Incoming(g) THEN Receivers(ch) \cup {c} ELSE Receivers(ch)
  BY <1>1, <1>2 DEF Receivers
<1>4. pending[ch] \in Seq(Messages) /\ Incoming(g) \in Channels /\ pending \in [Channels -> Seq(Messages)]
  BY GrantType DEF Inductive, TypeOK
<1>5. CASE ch # Incoming(g)
  <2>1. Receivers(ch)' = Receivers(ch) /\ pending'[ch] = pending[ch]
    BY <1>1, <1>3, <1>4, <1>5
  <2>2. Peer(ch)' = Peer(ch)
    BY <2>1 DEF Peer
  <2>3. Receivers(ch) # {} => queue'[Peer(ch)] = queue[Peer(ch)]
    BY <1>2, PeerIsFirst DEF Inductive, Receivers
  <2>4. QED
    BY <2>1, <2>2, <2>3 DEF InTransit
<1>6. CASE ch = Incoming(g) /\ Receivers(ch) # {}
  <2>1. pending[ch] = <<>> /\ Receivers(ch)' # {}
    BY <1>3, <1>6 DEF Inductive, WaitsOnlyForPeer
  <2>2. pending'[ch] = <<>>
    BY <2>1, <1>3, <1>6 DEF Inductive, WaitsOnlyForPeer
  <2>3. Peer(ch) \in Receivers(ch) /\ \A d \in Receivers(ch) : Peer(ch) <= d
    BY <1>6, PeerIsFirst DEF Inductive
  <2>4. PICK p : p = Peer(ch)
    OBVIOUS
  <2>5. p \in live /\ p < c /\ p \in Nat /\ c \in Nat
    BY <1>1, <2>3, <2>4, LiveAreConns DEF Receivers, Inductive, Conns
  <2>6. p \in Receivers(ch)' /\ \A d \in Receivers(ch)' : p <= d
    BY <1>3, <1>6, <2>3, <2>4, <2>5
  <2>7. Receivers(ch)' \subseteq Nat
    BY <1>3, <2>5, LiveAreConns DEF Receivers, Inductive
  <2>8. p = Peer(ch)'
    <3>1. p = CHOOSE x \in Receivers(ch)' : \A d \in Receivers(ch)' : x <= d
      BY <2>6, <2>7, LeastIsChosen
    <3>2. QED
      BY <3>1 DEF Peer
  <2>9. queue'[p] = queue[p]
    BY <1>2, <2>5
  <2>10. QED
    BY <1>6, <2>1, <2>2, <2>4, <2>8, <2>9 DEF InTransit
<1>7. CASE ch = Incoming(g) /\ Receivers(ch) = {}
  <2>1. Receivers(ch)' = {c}
    BY <1>3, <1>7
  <2>2. Peer(ch)' = c
    BY <2>1, <1>1, RelayAssumption DEF Peer, Conns
  <2>3. pending'[ch] = <<>>
    BY <2>1 DEF Inductive, WaitsOnlyForPeer
  <2>4. pending'[ch] = SubSeq(waiting, n + 1, Len(waiting)) /\ waiting = pending[ch]
    BY <1>1, <1>4, <1>7
  <2>5. n = Len(waiting) /\ Len(waiting) \in Nat
    <3>1. n \in 0 .. Len(waiting) /\ Len(SubSeq(waiting, n + 1, Len(waiting))) = Len(waiting) - n
      BY <1>4, <2>4, PouredType DEF n
    <3>2. Len(<<>>) = 0 /\ Len(waiting) \in Nat
      BY <1>4, <2>4
    <3>3. QED
      BY <2>3, <2>4, <3>1, <3>2
  <2>6. SubSeq(waiting, 1, Len(waiting)) = waiting
    BY <1>4, <2>4, SubSeqFull
  <2>7. queue'[c] = pending[ch]
    BY <1>2, <2>4, <2>5, <2>6
  <2>8. QED
    BY <1>4, <1>7, <2>1, <2>2, <2>3, <2>7, ConcatEmptySeq DEF InTransit
<1>8. QED
  BY <1>5, <1>6, <1>7

\* Losing connections, and the pending lists of their sessions or not, loses all
\* or nothing of what a channel carries.
LEMMA DropKeepsTransit ==
  ASSUME Inductive, Inductive', NEW gone, NEW sessions,
         Drop(gone), pending' = Cleared(sessions), UNCHANGED grant, NEW ch \in Channels
  PROVE  InTransit(ch)' = <<>> \/ InTransit(ch)' = InTransit(ch)
<1>1. /\ live' = live \ gone
      /\ \A c \in Conns : queue'[c] = IF c \in gone THEN <<>> ELSE queue[c]
      /\ pending'[ch] = <<>> \/ pending'[ch] = pending[ch]
      /\ grant' = grant
  BY DEF Drop, Cleared
<1>2. Receivers(ch)' = Receivers(ch) \ gone /\ Receivers(ch) \subseteq live
  BY <1>1 DEF Receivers
<1>3. Receivers(ch) \subseteq Nat /\ Receivers(ch) \subseteq Conns
  BY <1>2, LiveAreConns DEF Inductive
<1>4. CASE Receivers(ch) = {}
  BY <1>1, <1>2, <1>4 DEF InTransit
<1>5. CASE Receivers(ch) # {}
  <2>1. pending[ch] = <<>> /\ pending'[ch] = <<>>
    BY <1>1, <1>5 DEF Inductive, WaitsOnlyForPeer
  <2>2. PICK p : p = Peer(ch)
    OBVIOUS
  <2>3. p \in Receivers(ch) /\ \A d \in Receivers(ch) : p <= d
    BY <1>5, <2>2, PeerIsFirst DEF Inductive
  <2>4. CASE p \notin gone
    <3>1. p \in Receivers(ch)' /\ \A d \in Receivers(ch)' : p <= d
      BY <1>2, <2>3, <2>4
    <3>2. Receivers(ch)' \subseteq Nat
      BY <1>2, <1>3
    <3>3. p = CHOOSE x \in Receivers(ch)' : \A d \in Receivers(ch)' : x <= d
      BY <3>1, <3>2, LeastIsChosen
    <3>4. p = Peer(ch)'
      BY <3>3 DEF Peer
    <3>5. queue'[p] = queue[p]
      BY <1>1, <1>3, <2>3, <2>4
    <3>6. InTransit(ch)' = queue[p] \o <<>> /\ InTransit(ch) = queue[p] \o <<>>
      BY <1>5, <2>1, <2>2, <3>1, <3>4, <3>5 DEF InTransit
    <3>7. QED
      BY <3>6
  <2>5. CASE p \in gone /\ Receivers(ch)' = {}
    BY <2>1, <2>5 DEF InTransit
  <2>6. CASE p \in gone /\ Receivers(ch)' # {}
    <3>1. PICK q : q = Peer(ch)'
      OBVIOUS
    <3>2. q = CHOOSE x \in Receivers(ch)' : \A d \in Receivers(ch)' : x <= d
      BY <3>1 DEF Peer
    <3>3. Receivers(ch)' \subseteq Nat
      BY <1>2, <1>3
    <3>4. q \in Receivers(ch)'
      BY <2>6, <3>2, <3>3, LeastIsMember
    <3>5. q \in live /\ q # p /\ Incoming(grant[q]) = ch /\ q \in Conns /\ q \notin gone
      BY <1>2, <1>3, <2>6, <3>4 DEF Receivers
    <3>6. queue[q] = <<>>
      BY <2>2, <3>5 DEF Inductive, OneQueuePerChannel
    <3>7. queue'[q] = <<>>
      BY <1>1, <3>5, <3>6
    <3>8. InTransit(ch)' = <<>> \o <<>>
      BY <2>1, <2>6, <3>1, <3>7 DEF InTransit
    <3>9. <<>> \in Seq(Messages)
      OBVIOUS
    <3>10. QED
      BY <3>8, <3>9, ConcatEmptySeq
  <2>7. QED
    BY <2>4, <2>5, <2>6
<1>6. QED
  BY <1>4, <1>5

\* Then the step is a loss, or a stutter, of the channels.
LEMMA DropLoses ==
  ASSUME Inductive, Inductive', NEW gone, NEW sessions,
         Drop(gone), pending' = Cleared(sessions), UNCHANGED <<grant, accepted, handed>>
  PROVE  Channel!Next
<1>1. PICK lost : lost = {ch \in Channels : InTransit(ch)' = <<>>}
  OBVIOUS
<1>2. \A ch \in Channels : InTransit(ch)' = IF ch \in lost THEN <<>> ELSE InTransit(ch)
  BY <1>1, DropKeepsTransit
<1>3. Channel!Lose(lost)
  BY <1>2 DEF Channel!Lose, InTransit
<1>4. lost \in SUBSET Channels
  BY <1>1
<1>5. QED
  BY <1>3, <1>4 DEF Channel!Next

LEMMA SendToPeerAccepts ==
  ASSUME Inductive, AcceptedWasSeen, NEW c \in Conns, NEW m \in Messages, SendToPeer(c, m)
  PROVE  Channel!Next
<1>1. PICK ch : ch = Outgoing(grant[c])
  OBVIOUS
<1>2. PICK p : p = Peer(ch)
  OBVIOUS
<1>3. /\ MaySend(c, m) /\ Remember(c, m) /\ Receivers(ch) # {}
      /\ queue' = [queue EXCEPT ![p] = Append(@, m)]
      /\ accepted' = [accepted EXCEPT ![ch] = Append(@, m)]
      /\ UNCHANGED <<live, grant, pending, handed>>
  BY <1>1, <1>2 DEF SendToPeer
<1>4. ch \in Channels /\ ch[1] = SessionOf(c)
  BY <1>1, <1>3, SenderType DEF Inductive, Outgoing, SessionOf
<1>5. \A i \in 1 .. Len(accepted[ch]) : accepted[ch][i] # m
  BY <1>3, <1>4 DEF AcceptedWasSeen, MaySend
<1>6. p \in Receivers(ch) /\ p \in Conns
  BY <1>2, <1>3, PeerIsFirst DEF Inductive
<1>7. \A d \in Channels : UNCHANGED <<Receivers(d), Peer(d), pending[d]>>
  BY <1>3 DEF Receivers, Peer
<1>8. \A d \in Channels : d # ch => InTransit(d)' = InTransit(d)
  <2>1. SUFFICES ASSUME NEW d \in Channels, d # ch, Receivers(d) # {}
                 PROVE  queue'[Peer(d)] = queue[Peer(d)]
    BY <1>7 DEF InTransit
  <2>2. Peer(d) \in Receivers(d)
    BY <2>1, PeerIsFirst DEF Inductive
  <2>3. Peer(d) # p
    BY <1>6, <2>1, <2>2 DEF Receivers
  <2>4. QED
    BY <1>3, <2>3 DEF Inductive, TypeOK
<1>9. InTransit(ch)' = Append(InTransit(ch), m)
  <2>1. pending[ch] = <<>> /\ queue \in [Conns -> Seq(Messages)]
    BY <1>3, <1>4 DEF Inductive, WaitsOnlyForPeer, TypeOK
  <2>2. queue[p] \in Seq(Messages) /\ queue'[p] = Append(queue[p], m)
    BY <1>3, <1>6, <2>1
  <2>3. InTransit(ch) = queue[p] \o <<>> /\ InTransit(ch)' = Append(queue[p], m) \o <<>>
    BY <1>2, <1>3, <1>4, <1>7, <2>1, <2>2 DEF InTransit
  <2>4. Append(queue[p], m) \in Seq(Messages)
    BY <2>2
  <2>5. QED
    BY <2>2, <2>3, <2>4, ConcatEmptySeq
<1>10. Channel!Accept(ch, m)
  BY <1>3, <1>5, <1>8, <1>9 DEF Channel!Accept, InTransit
<1>11. QED
  BY <1>4, <1>10 DEF Channel!Next

LEMMA SendToPendingAccepts ==
  ASSUME Inductive, AcceptedWasSeen, NEW c \in Conns, NEW m \in Messages, SendToPending(c, m)
  PROVE  Channel!Next
<1>1. PICK ch : ch = Outgoing(grant[c])
  OBVIOUS
<1>2. /\ MaySend(c, m) /\ Remember(c, m) /\ Receivers(ch) = {}
      /\ pending' = [pending EXCEPT ![ch] = Append(@, m)]
      /\ accepted' = [accepted EXCEPT ![ch] = Append(@, m)]
      /\ UNCHANGED <<live, grant, queue, handed>>
  BY <1>1 DEF SendToPending
<1>3. ch \in Channels /\ ch[1] = SessionOf(c)
  BY <1>1, <1>2, SenderType DEF Inductive, Outgoing, SessionOf
<1>4. \A i \in 1 .. Len(accepted[ch]) : accepted[ch][i] # m
  BY <1>2, <1>3 DEF AcceptedWasSeen, MaySend
<1>5. \A d \in Channels : UNCHANGED <<Receivers(d), Peer(d)>>
  BY <1>2 DEF Receivers, Peer
<1>6. \A d \in Channels : pending'[d] = IF d = ch THEN Append(pending[d], m) ELSE pending[d]
  BY <1>2 DEF Inductive, TypeOK
<1>7. \A d \in Channels : d # ch => InTransit(d)' = InTransit(d)
  BY <1>2, <1>5, <1>6 DEF InTransit
<1>8. InTransit(ch)' = Append(InTransit(ch), m)
  BY <1>2, <1>3, <1>5, <1>6 DEF InTransit
<1>9. Channel!Accept(ch, m)
  BY <1>2, <1>4, <1>7, <1>8 DEF Channel!Accept, InTransit
<1>10. QED
  BY <1>3, <1>9 DEF Channel!Next

LEMMA ReceiveHandsOver ==
  ASSUME Inductive, NEW c \in Conns, Receive(c)
  PROVE  Channel!Next
<1>1. PICK ch : ch = Incoming(grant[c])
  OBVIOUS
<1>2. /\ c \in live /\ queue[c] # <<>>
      /\ handed' = [handed EXCEPT ![ch] = @ \o queue[c]]
      /\ queue' = [queue EXCEPT ![c] = <<>>]
      /\ UNCHANGED <<live, grant, pending, accepted>>
  BY <1>1 DEF Receive, Usable
<1>3. ch \in Channels /\ c \in Receivers(ch) /\ c = Peer(ch)
  BY <1>1, <1>2, GrantType DEF Inductive, TypeOK, OneQueuePerChannel, Receivers
<1>4. \A d \in Channels : UNCHANGED <<Receivers(d), Peer(d), pending[d]>>
  BY <1>2 DEF Receivers, Peer
<1>5. \A d \in Channels : d # ch => InTransit(d)' = InTransit(d)
  <2>1. SUFFICES ASSUME NEW d \in Channels, d # ch, Receivers(d) # {}
                 PROVE  queue'[Peer(d)] = queue[Peer(d)]
    BY <1>4 DEF InTransit
  <2>2. Peer(d) \in Receivers(d)
    BY <2>1, PeerIsFirst DEF Inductive
  <2>3. Peer(d) # c
    BY <1>1, <2>1, <2>2 DEF Receivers
  <2>4. QED
    BY <1>2, <2>3 DEF Inductive, TypeOK
<1>6. pending[ch] = <<>> /\ queue[c] \in Seq(Messages) /\ queue'[c] = <<>>
  BY <1>2, <1>3 DEF Inductive, WaitsOnlyForPeer, TypeOK
<1>7. InTransit(ch) = queue[c] \o <<>> /\ InTransit(ch)' = <<>> \o <<>>
  <2>1. Receivers(ch) # {} /\ Receivers(ch)' # {} /\ Peer(ch)' = c /\ pending'[ch] = <<>>
    BY <1>3, <1>4, <1>6
  <2>2. QED
    BY <1>3, <1>6, <2>1 DEF InTransit
<1>8. InTransit(ch) = queue[c] /\ InTransit(ch)' = <<>>
  <2>1. <<>> \in Seq(Messages)
    OBVIOUS
  <2>2. QED
    BY <1>6, <1>7, <2>1, ConcatEmptySeq
<1>9. Channel!HandOver(ch)
  BY <1>2, <1>3, <1>5, <1>8 DEF Channel!HandOver, InTransit
<1>10. QED
  BY <1>3, <1>9 DEF Channel!Next

LEMMA ChannelStep ==
  Inductive /\ AcceptedWasSeen /\ [Next]_vars /\ Inductive' => [Channel!Next]_(Channel!channels)
<1> SUFFICES ASSUME Inductive, AcceptedWasSeen, [Next]_vars, Inductive'
             PROVE  [Channel!Next]_(Channel!channels)
  OBVIOUS
<1>1. CASE UNCHANGED <<accepted, handed, live, grant, queue, pending>>
  BY <1>1 DEF Channel!channels, Receivers, Peer
<1>2. ASSUME NEW g \in Grants, Connect(g)
      PROVE  [Channel!Next]_(Channel!channels)
  <2>1. \A ch \in Channels : InTransit(ch)' = InTransit(ch)
    BY <1>2, ConnectKeepsTransit
  <2>2. UNCHANGED <<accepted, handed>>
    BY <1>2 DEF Connect
  <2>3. QED
    BY <2>1, <2>2 DEF Channel!channels, InTransit
<1>3. ASSUME NEW gone, NEW sessions, Drop(gone), pending' = Cleared(sessions),
             UNCHANGED <<grant, accepted, handed>>
      PROVE  [Channel!Next]_(Channel!channels)
  BY <1>3, DropLoses
<1>4. pending = Cleared({})
  BY ClearedNothing DEF Inductive
<1>5. ASSUME NEW g \in Grants, RevokeGrant(g)
      PROVE  [Channel!Next]_(Channel!channels)
  BY <1>3, <1>4, <1>5 DEF RevokeGrant
<1>6. ASSUME NEW c \in Conns, Disconnect(c) \/ Evict(c)
      PROVE  [Channel!Next]_(Channel!channels)
  BY <1>3, <1>4, <1>6 DEF Disconnect, Evict
<1>7. ASSUME NEW s \in Sessions, RevokeSession(s)
      PROVE  [Channel!Next]_(Channel!channels)
  BY <1>3, <1>7 DEF RevokeSession
<1>8. ASSUME NEW grants \in Revocations, RevokeWhere(grants)
      PROVE  [Channel!Next]_(Channel!channels)
  BY <1>3, <1>8 DEF RevokeWhere
<1>9. ASSUME NEW c \in Conns, NEW m \in Messages, SendToPeer(c, m) \/ SendToPending(c, m)
      PROVE  [Channel!Next]_(Channel!channels)
  BY <1>9, SendToPeerAccepts, SendToPendingAccepts
<1>10. ASSUME NEW c \in Conns, Receive(c)
       PROVE  [Channel!Next]_(Channel!channels)
  BY <1>10, ReceiveHandsOver
<1>11. \/ UNCHANGED <<accepted, handed, live, grant, queue, pending>>
       \/ \E g \in Grants : Connect(g) \/ RevokeGrant(g)
       \/ \E c \in Conns : \/ Disconnect(c) \/ Evict(c) \/ Receive(c)
                           \/ \E m \in Messages : SendToPeer(c, m) \/ SendToPending(c, m)
       \/ \E s \in Sessions : RevokeSession(s)
       \/ \E grants \in Revocations : RevokeWhere(grants)
  BY DEF Next, vars, SendRefused, Tick
<1>12. QED
  BY <1>1, <1>2, <1>5, <1>6, <1>7, <1>8, <1>9, <1>10, <1>11

\* The broker implements two ordered channels for each session, on which no
\* message is accepted twice and nothing overtakes, whatever connections,
\* revocations and expiries come between.
THEOREM BrokerImplementsChannel == Spec => ImplementsChannel
<1>1. Init => Inductive /\ AcceptedWasSeen /\ Channel!Init
  BY InitInductive, AcceptedWasSeenInit, ChannelInit
<1>2. Inductive /\ AcceptedWasSeen /\ [Next]_vars => Inductive' /\ AcceptedWasSeen'
  BY NextInductive, AcceptedWasSeenNext
<1>3. QED
  BY <1>1, <1>2, ChannelStep, PTL DEF Spec, ImplementsChannel, Channel!Spec
=============================================================================
