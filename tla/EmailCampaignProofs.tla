------------------------- MODULE EmailCampaignProofs -------------------------
(***************************************************************************)
(* Proofs about EmailCampaign, for every number of users, processes and    *)
(* requests: what is sent twice, and what a campaign that has ended covers.*)
(***************************************************************************)
EXTENDS EmailCampaign, TLAPS

\* From the moment it has a message to send until it has recorded the outcome.
Sending(r) == job[r].pc \in {"looking", "resolving", "mailing", "saving", "recording"}
Picks(r) == job[r].pc \in {"listed", "picking"}

JobRow == [pc : {"idle", "listed", "picking", "looking", "resolving", "mailing", "saving",
                 "recording", "done", "failed", "lost"},
           process : Processes \cup {"none"}, left : SUBSET Users,
           key : Keys \cup {NoKey}, result : DeliveryStatuses]

\* What a request has in hand.
InHand(r) ==
  /\ Sending(r) => job[r].process \in Processes /\ job[r].key \in Keys
  /\ Sending(r) /\ r \in Campaigns => \E u \in Users : job[r].key = CampaignKey(u)
  /\ Picks(r) => r \in Campaigns /\ job[r].process \in Processes
  /\ job[r].pc \in {"saving", "recording"} => job[r].result # "none"

JobsTypeOK ==
  /\ delivered \in [Keys -> Nat]
  /\ job \in [Requests -> JobRow]
  /\ listed \in [Requests -> SUBSET Users]
  /\ \A r \in Requests : InHand(r)

\* A message that is in one hand only has been sent if that hand, or email_events,
\* knows of it.
OnceAt(k) ==
  /\ delivered[k] <= 1
  /\ \A r, q \in Requests : Holds(r, k) /\ Holds(q, k) => r = q
  /\ delivered[k] = 1 => \/ events[k] # "none"
                         \/ \E r \in Requests : job[r].pc = "saving" /\ job[r].key = k
  /\ \A r \in Requests : job[r].pc \in {"resolving", "mailing"} /\ job[r].key = k =>
                           delivered[k] = 0

Once == \A k \in Keys \ excused : OnceAt(k)

\* What says SENT is of a message that was sent.
SaysSent ==
  /\ \A k \in Keys : events[k] = "SENT" => delivered[k] > 0
  /\ \A p \in Processes, k \in Keys : memory[p][k] = "SENT" => delivered[k] > 0
  /\ \A r \in Requests : job[r].pc \in {"saving", "recording"} /\ job[r].result = "SENT" =>
       delivered[job[r].key] > 0
  /\ \A u \in Users : recipients[u] = "SENT" => delivered[CampaignKey(u)] > 0

\* A user whom a send has listed is still to come, has the message in hand, or has
\* a row.
CoveredBy(r) ==
  /\ Picks(r) \/ Sending(r) =>
       \A u \in listed[r] : \/ u \in job[r].left \/ HasRow(u)
                            \/ Sending(r) /\ job[r].key = CampaignKey(u)
  /\ job[r].pc = "done" => \A u \in listed[r] : HasRow(u)

EmailInv ==
  /\ TypeOK
  /\ JobsTypeOK
  /\ Once
  /\ SaysSent
  /\ \A r \in Campaigns : CoveredBy(r)

-----------------------------------------------------------------------------
(* The keys *)

LEMMA KeysApart ==
  /\ \A u, v : CampaignKey(u) = CampaignKey(v) => u = v
  /\ \A u \in Users : CampaignKey(u) \in Keys
  /\ NoticeKey \in Keys
  /\ \A r \in Letters, id \in RequestIds : LetterKey(r, id) \in Keys
  /\ NoKey \notin Keys
<1>1. \A u, v : CampaignKey(u) = CampaignKey(v) => u = v
  BY DEF CampaignKey
<1>2. \A u \in Users : CampaignKey(u) \in [kind : {"marketing"}, for : Users]
  BY DEF CampaignKey
<1>3. \A r \in Letters, id \in RequestIds :
        LetterKey(r, id) \in [kind : {"letter"}, for : Letters]
                              \cup [kind : {"test"}, for : RequestIds]
  BY DEF LetterKey
<1>4. /\ NoKey \notin [kind : {"marketing"}, for : Users]
      /\ NoKey \notin [kind : {"letter"}, for : Letters]
      /\ NoKey \notin [kind : {"test"}, for : RequestIds] /\ NoKey # NoticeKey
  BY DEF NoKey, NoticeKey
<1> QED BY <1>1, <1>2, <1>3, <1>4 DEF Keys

-----------------------------------------------------------------------------
(* What the steps of a request do to it *)

LEMMA JobTypes ==
  ASSUME JobsTypeOK, NEW r \in Requests
  PROVE  /\ job \in [Requests -> JobRow] /\ job[r] \in JobRow
         /\ job[r].left \subseteq Users /\ job[r].key \in Keys \cup {NoKey}
         /\ job[r].result \in DeliveryStatuses
         /\ job[r].process \in Processes \cup {"none"}
BY DEF JobsTypeOK, JobRow

LEMMA IdleRow ==
  /\ Idle \in JobRow
  /\ \A pc \in {"failed", "lost"} :
       /\ [Idle EXCEPT !.pc = pc] \in JobRow
       /\ [Idle EXCEPT !.pc = pc].pc = pc
BY DEF Idle, JobRow, DeliveryStatuses

\* The request that a step is of is the only one it moves.
LEMMA OnlyIt ==
  ASSUME JobsTypeOK, NEW r \in Requests, NEW row \in JobRow,
         job' = [job EXCEPT ![r] = row]
  PROVE  /\ job' \in [Requests -> JobRow] /\ job'[r] = row
         /\ \A q \in Requests : q # r => job'[q] = job[q]
BY DEF JobsTypeOK

LEMMA ListMoves ==
  ASSUME JobsTypeOK, NEW r \in Requests, NEW p \in Processes, List(r, p)
  PROVE  /\ job' \in [Requests -> JobRow]
         /\ \A q \in Requests : q # r => job'[q] = job[q]
         /\ r \in Campaigns /\ job[r].pc = "idle"
         /\ job'[r].pc = "listed" /\ job'[r].process = p
         /\ listed' = [listed EXCEPT ![r] = job'[r].left]
<1> DEFINE row == [Idle EXCEPT !.pc = "listed", !.process = p,
                               !.left = {u \in Users : Eligible(u)}]
<1>1. row \in JobRow /\ row.pc = "listed" /\ row.process = p
      /\ row.left = {u \in Users : Eligible(u)}
  BY DEF Idle, JobRow, DeliveryStatuses
<1>2. job' = [job EXCEPT ![r] = row]
  BY DEF List
<1> HIDE DEF row
<1>3. /\ job' \in [Requests -> JobRow] /\ job'[r] = row
      /\ \A q \in Requests : q # r => job'[q] = job[q]
  BY <1>1, <1>2, OnlyIt
<1> QED BY <1>1, <1>3 DEF List

\* Notify and Write: a request that has a message at once.
LEMMA StartMoves ==
  ASSUME JobsTypeOK, NEW r \in Requests, NEW p \in Processes,
         Notify(r, p) \/ Write(r, p)
  PROVE  /\ job' \in [Requests -> JobRow]
         /\ \A q \in Requests : q # r => job'[q] = job[q]
         /\ r \notin Campaigns /\ job[r].pc = "idle"
         /\ job'[r].pc = "looking" /\ job'[r].process = p /\ job'[r].key \in Keys
<1>1. PICK k \in Keys : /\ r \notin Campaigns /\ job[r].pc = "idle"
                        /\ job' = [job EXCEPT ![r] =
                             [Idle EXCEPT !.pc = "looking", !.process = p, !.key = k]]
  BY KeysApart, EmailAssumption DEF Notify, Write
<1> DEFINE row == [Idle EXCEPT !.pc = "looking", !.process = p, !.key = k]
<1>2. row \in JobRow /\ row.pc = "looking" /\ row.process = p /\ row.key = k
  BY DEF Idle, JobRow, DeliveryStatuses
<1>3. job' = [job EXCEPT ![r] = row]
  BY <1>1
<1> HIDE DEF row
<1>4. /\ job' \in [Requests -> JobRow] /\ job'[r] = row
      /\ \A q \in Requests : q # r => job'[q] = job[q]
  BY <1>2, <1>3, OnlyIt
<1> QED BY <1>1, <1>2, <1>4

\* A step that only moves its request on.
LEMMA GotoMoves ==
  ASSUME JobsTypeOK, NEW r \in Requests,
         NEW pc \in {"picking", "mailing", "recording", "done"}, Goto(r, pc)
  PROVE  /\ job' \in [Requests -> JobRow]
         /\ \A q \in Requests : q # r => job'[q] = job[q]
         /\ job'[r].pc = pc /\ job'[r].process = job[r].process
         /\ job'[r].left = job[r].left /\ job'[r].key = job[r].key
         /\ job'[r].result = job[r].result
<1> DEFINE row == [job[r] EXCEPT !.pc = pc]
<1>1. job[r] \in JobRow
  BY JobTypes
<1>2. /\ row \in JobRow /\ row.pc = pc /\ row.process = job[r].process
      /\ row.left = job[r].left /\ row.key = job[r].key /\ row.result = job[r].result
  BY <1>1 DEF JobRow
<1>3. job' = [job EXCEPT ![r] = row]
  BY DEF Goto
<1> HIDE DEF row
<1>4. /\ job' \in [Requests -> JobRow] /\ job'[r] = row
      /\ \A q \in Requests : q # r => job'[q] = job[q]
  BY <1>2, <1>3, OnlyIt
<1> QED BY <1>2, <1>4

LEMMA PassedOver ==
  ASSUME NEW was \in JobRow, NEW u, NEW row, row = [was EXCEPT !.left = was.left \ {u}]
  PROVE  /\ row \in JobRow /\ row.pc = was.pc /\ row.process = was.process
         /\ row.left = was.left \ {u}
<1>1. was.left \ {u} \in SUBSET Users
  BY DEF JobRow
<1> QED BY <1>1 DEF JobRow

LEMMA PickMoves ==
  ASSUME JobsTypeOK, NEW r \in Requests, Pick(r)
  PROVE  /\ job' \in [Requests -> JobRow]
         /\ \A q \in Requests : q # r => job'[q] = job[q]
         /\ job[r].pc = "picking" /\ job'[r].process = job[r].process
         /\ \E u \in Users :
              /\ job'[r].left = job[r].left \ {u}
              /\ \/ HasRow(u) /\ job'[r].pc = "picking"
                 \/ job'[r].pc = "looking" /\ job'[r].key = CampaignKey(u)
<1>1. job \in [Requests -> JobRow] /\ job[r] \in JobRow /\ job[r].left \subseteq Users
  BY JobTypes
<1>2. PICK u \in job[r].left :
        \/ HasRow(u) /\ job' = [job EXCEPT ![r].left = @ \ {u}]
        \/ job' = [job EXCEPT ![r].left = @ \ {u}, ![r].pc = "looking",
                              ![r].key = CampaignKey(u)]
  BY DEF Pick
<1>3. u \in Users /\ CampaignKey(u) \in Keys /\ job[r].pc = "picking"
  BY <1>1, KeysApart DEF Pick
<1>4. CASE HasRow(u) /\ job' = [job EXCEPT ![r].left = @ \ {u}]
  <2> DEFINE row == [job[r] EXCEPT !.left = job[r].left \ {u}]
  <2>1. job' = [job EXCEPT ![r] = row]
    BY <1>1, <1>4
  <2>2. /\ row \in JobRow /\ row.pc = job[r].pc /\ row.process = job[r].process
        /\ row.left = job[r].left \ {u}
    BY <1>1, PassedOver
  <2> HIDE DEF row
  <2>3. /\ job' \in [Requests -> JobRow] /\ job'[r] = row
        /\ \A q \in Requests : q # r => job'[q] = job[q]
    BY <2>1, <2>2, OnlyIt
  <2> QED BY <1>3, <1>4, <2>2, <2>3
<1>5. CASE job' = [job EXCEPT ![r].left = @ \ {u}, ![r].pc = "looking",
                              ![r].key = CampaignKey(u)]
  <2> DEFINE k == CampaignKey(u)
             row == [job[r] EXCEPT !.left = job[r].left \ {u}, !.pc = "looking", !.key = k]
  <2>1. job' = [job EXCEPT ![r] = row]
    BY <1>1, <1>5
  <2>2. k \in Keys
    BY <1>3
  <2> HIDE DEF k
  <2>3. /\ row \in JobRow /\ row.pc = "looking" /\ row.process = job[r].process
        /\ row.left = job[r].left \ {u} /\ row.key = k
    <3>1. job[r].left \ {u} \in SUBSET Users
      BY <1>1
    <3> QED BY <1>1, <2>2, <3>1 DEF JobRow
  <2> HIDE DEF row
  <2>4. /\ job' \in [Requests -> JobRow] /\ job'[r] = row
        /\ \A q \in Requests : q # r => job'[q] = job[q]
    BY <2>1, <2>3, OnlyIt
  <2> QED BY <1>3, <2>3, <2>4 DEF k
<1> QED BY <1>2, <1>4, <1>5

\* Look and Mail: the request learns what came of its message.
LEMMA LearnMoves ==
  ASSUME JobsTypeOK, NEW r \in Requests, NEW pc \in {"resolving", "recording", "saving"},
         NEW result \in DeliveryStatuses,
         job' = [job EXCEPT ![r].pc = pc, ![r].result = result]
  PROVE  /\ job' \in [Requests -> JobRow]
         /\ \A q \in Requests : q # r => job'[q] = job[q]
         /\ job'[r].pc = pc /\ job'[r].process = job[r].process
         /\ job'[r].left = job[r].left /\ job'[r].key = job[r].key
         /\ job'[r].result = result
<1> DEFINE row == [job[r] EXCEPT !.pc = pc, !.result = result]
<1>1. job[r] \in JobRow /\ job \in [Requests -> JobRow]
  BY JobTypes
<1>2. /\ row \in JobRow /\ row.pc = pc /\ row.process = job[r].process
      /\ row.left = job[r].left /\ row.key = job[r].key /\ row.result = result
  BY <1>1 DEF JobRow
<1>3. job' = [job EXCEPT ![r] = row]
  BY <1>1
<1> HIDE DEF row
<1>4. /\ job' \in [Requests -> JobRow] /\ job'[r] = row
      /\ \A q \in Requests : q # r => job'[q] = job[q]
  BY <1>2, <1>3, OnlyIt
<1> QED BY <1>2, <1>4

LEMMA RecordMoves ==
  ASSUME JobsTypeOK, NEW r \in Campaigns, Record(r)
  PROVE  /\ job' \in [Requests -> JobRow]
         /\ \A q \in Requests : q # r => job'[q] = job[q]
         /\ job[r].pc = "recording" /\ job'[r].pc = "picking"
         /\ job'[r].process = job[r].process /\ job'[r].left = job[r].left
         /\ recipients' = [recipients EXCEPT ![job[r].key.for] = job[r].result]
<1> DEFINE row == [job[r] EXCEPT !.pc = "picking", !.key = NoKey, !.result = "none"]
<1>1. r \in Requests /\ job[r] \in JobRow
  BY JobTypes DEF Requests
<1>2. /\ row \in JobRow /\ row.pc = "picking" /\ row.process = job[r].process
      /\ row.left = job[r].left
  BY <1>1 DEF JobRow, DeliveryStatuses
<1>3. job' = [job EXCEPT ![r] = row]
  BY DEF Record
<1> HIDE DEF row
<1>4. /\ job' \in [Requests -> JobRow] /\ job'[r] = row
      /\ \A q \in Requests : q # r => job'[q] = job[q]
  BY <1>1, <1>2, <1>3, OnlyIt
<1> QED BY <1>2, <1>4 DEF Record, Row

LEMMA FailMoves ==
  ASSUME JobsTypeOK, NEW r \in Requests, Fail(r)
  PROVE  /\ job' \in [Requests -> JobRow]
         /\ \A q \in Requests : q # r => job'[q] = job[q]
         /\ job'[r].pc = "failed"
<1>1. job' = [job EXCEPT ![r] = [Idle EXCEPT !.pc = "failed"]]
  BY DEF Fail
<1> DEFINE row == [Idle EXCEPT !.pc = "failed"]
<1>2. row \in JobRow /\ row.pc = "failed"
  BY IdleRow
<1>3. job' = [job EXCEPT ![r] = row]
  BY <1>1
<1> HIDE DEF row
<1> QED BY <1>2, <1>3, OnlyIt

LEMMA RestartMoves ==
  ASSUME JobsTypeOK, NEW p \in Processes, Restart(p)
  PROVE  /\ job' \in [Requests -> JobRow]
         /\ \A r \in Requests :
              IF Busy(r) /\ job[r].process = p THEN job'[r].pc = "lost"
                                               ELSE job'[r] = job[r]
<1> DEFINE row == [Idle EXCEPT !.pc = "lost"]
<1>1. row \in JobRow /\ row.pc = "lost"
  BY IdleRow
<1>2. job' = [r \in Requests |-> IF Busy(r) /\ job[r].process = p THEN row ELSE job[r]]
  BY DEF Restart
<1> HIDE DEF row
<1> QED BY <1>1, <1>2 DEF JobsTypeOK

-----------------------------------------------------------------------------
(* Types *)

LEMMA TablesTypesStep == TypeOK /\ JobsTypeOK /\ [Next]_vars => TypeOK'
<1> SUFFICES ASSUME TypeOK, JobsTypeOK, [Next]_vars PROVE TypeOK'
  OBVIOUS
<1> USE DEF Outside, tables
<1>1. CASE Create
  BY <1>1 DEF Create, Drafted, TypeOK, CampaignStatuses
<1>2. ASSUME NEW u \in Users, SetMarketingPreference(u) \/ Disable(u) PROVE TypeOK'
  BY <1>2, EmailAssumption DEF SetMarketingPreference, Prefer, Disable, TypeOK, Preferences
<1>3. ASSUME NEW p \in Processes, Restart(p) PROVE TypeOK'
  <2>1. NoDeliveries \in [Keys -> DeliveryStatuses]
    BY DEF NoDeliveries, DeliveryStatuses
  <2> QED BY <1>3, <2>1, EmailAssumption DEF Restart, TypeOK
<1>4. ASSUME NEW p \in Processes, NEW r \in Requests, List(r, p) \/ Notify(r, p) \/ Write(r, p)
      PROVE  TypeOK'
  <2>1. given' \in [Processes -> SUBSET RequestIds]
    <3>1. CASE Write(r, p)
      <4>1. PICK id \in RequestIds : given' = [given EXCEPT ![p] = @ \cup {id}]
        BY <3>1 DEF Write
      <4> QED BY <4>1 DEF TypeOK
    <3> QED BY <1>4, <3>1 DEF List, Notify, TypeOK
  <2> QED BY <1>4, <2>1 DEF List, Notify, Write, TypeOK
<1>5. ASSUME NEW r \in Requests, Begin(r) \/ Close(r) PROVE TypeOK'
  BY <1>5 DEF Begin, Close, TypeOK, CampaignStatuses
<1>6. ASSUME NEW r \in Requests, Pick(r) \/ Look(r) \/ ResolveSender(r) \/ Mail(r)
      PROVE  TypeOK'
  BY <1>6 DEF Pick, Look, ResolveSender, Mail, TypeOK
\* What a request that is saving writes down.
<1>7. ASSUME NEW r \in Requests, job[r].pc = "saving"
      PROVE  /\ job[r].process \in Processes /\ job[r].key \in Keys
             /\ job[r].result \in DeliveryStatuses
  BY <1>7, JobTypes DEF JobsTypeOK, InHand, Sending
<1>8. ASSUME NEW r \in Requests, job[r].pc = "saving", Remember(r)
      PROVE  memory' \in [Processes -> [Keys -> DeliveryStatuses]]
  BY <1>7, <1>8 DEF Remember, TypeOK
<1>9. ASSUME NEW r \in Requests, Save(r) PROVE TypeOK'
  <2>1. memory' \in [Processes -> [Keys -> DeliveryStatuses]]
    BY <1>8, <1>9 DEF Save
  <2>2. events' \in [Keys -> DeliveryStatuses]
    BY <1>7, <1>9 DEF Save, TypeOK
  <2> QED BY <1>9, <2>1, <2>2 DEF Save, TypeOK
<1>10. ASSUME NEW r \in Requests, Record(r) PROVE TypeOK'
  <2>1. recipients' \in RecipientRows
    BY <1>10, JobTypes DEF Record, Row, TypeOK, RecipientRows
  <2> QED BY <1>10, <2>1 DEF Record, TypeOK
<1>11. ASSUME NEW r \in Requests, Fail(r) PROVE TypeOK'
  <2>1. memory' \in [Processes -> [Keys -> DeliveryStatuses]]
    BY <1>8, <1>11 DEF Fail, TypeOK
  <2> QED BY <1>11, <2>1 DEF Fail, TypeOK
<1>12. CASE UNCHANGED vars
  BY <1>12 DEF vars, TypeOK
<1> QED
  BY <1>1, <1>2, <1>3, <1>4, <1>5, <1>6, <1>9, <1>10, <1>11, <1>12 DEF Next

\* Types when a step moves one request, to where it has in hand what it needs.
LEMMA OneMoves ==
  ASSUME JobsTypeOK, NEW r \in Requests, job' \in [Requests -> JobRow],
         \A q \in Requests : q # r => job'[q] = job[q],
         Sending(r)' => job'[r].process \in Processes /\ job'[r].key \in Keys,
         Sending(r)' /\ r \in Campaigns => \E u \in Users : job'[r].key = CampaignKey(u),
         Picks(r)' => r \in Campaigns /\ job'[r].process \in Processes,
         job'[r].pc \in {"saving", "recording"} => job'[r].result # "none",
         delivered' \in [Keys -> Nat], listed' \in [Requests -> SUBSET Users]
  PROVE  JobsTypeOK'
<1>1. ASSUME NEW q \in Requests, q # r PROVE InHand(q)'
  BY <1>1 DEF JobsTypeOK, InHand, Sending, Picks
<1>2. InHand(r)'
  BY DEF InHand
<1> QED BY <1>1, <1>2 DEF JobsTypeOK

LEMMA JobsTypesStep == TypeOK /\ JobsTypeOK /\ [Next]_vars => JobsTypeOK'
<1> SUFFICES ASSUME TypeOK, JobsTypeOK, [Next]_vars PROVE JobsTypeOK'
  OBVIOUS
<1>1. /\ delivered \in [Keys -> Nat] /\ listed \in [Requests -> SUBSET Users]
      /\ \A r \in Requests : InHand(r)
  BY DEF JobsTypeOK
<1>2. ASSUME UNCHANGED <<job, delivered, listed>> PROVE JobsTypeOK'
  BY <1>2 DEF JobsTypeOK, InHand, Sending, Picks
<1>3. CASE Create \/ \E u \in Users : SetMarketingPreference(u) \/ Disable(u)
  BY <1>2, <1>3 DEF Create, SetMarketingPreference, Disable
<1>4. ASSUME NEW p \in Processes, Restart(p) PROVE JobsTypeOK'
  <2>1. /\ job' \in [Requests -> JobRow]
        /\ \A r \in Requests : job'[r].pc = "lost" \/ job'[r] = job[r]
        /\ UNCHANGED <<delivered, listed>>
    BY <1>4, RestartMoves DEF Restart
  <2>2. ASSUME NEW r \in Requests PROVE InHand(r)'
    BY <1>1, <2>1 DEF InHand, Sending, Picks
  <2> QED BY <1>1, <2>1, <2>2 DEF JobsTypeOK
<1>5. ASSUME NEW p \in Processes, NEW r \in Requests, List(r, p) PROVE JobsTypeOK'
  <2>1. /\ r \in Campaigns /\ job'[r].pc = "listed" /\ job'[r].process = p
        /\ job' \in [Requests -> JobRow]
        /\ \A q \in Requests : q # r => job'[q] = job[q]
        /\ listed' = [listed EXCEPT ![r] = job'[r].left]
    BY <1>5, ListMoves
  <2>2. job'[r].left \in SUBSET Users
    BY <2>1 DEF JobRow
  <2>3. listed' \in [Requests -> SUBSET Users]
    BY <1>1, <2>1, <2>2
  <2>4. delivered' \in [Keys -> Nat]
    BY <1>1, <1>5 DEF List
  <2>5. ~Sending(r)' /\ job'[r].pc \notin {"saving", "recording"} /\ job'[r].process \in Processes
    BY <2>1 DEF Sending
  <2> HIDE DEF Sending
  <2> QED BY <2>1, <2>3, <2>4, <2>5, OneMoves
<1>6. ASSUME NEW p \in Processes, NEW r \in Requests, Notify(r, p) \/ Write(r, p)
      PROVE  JobsTypeOK'
  <2>1. UNCHANGED <<delivered, listed>>
    BY <1>6 DEF Notify, Write
  <2> QED BY <1>1, <1>6, <2>1, StartMoves, OneMoves DEF Sending, Picks
<1>7. ASSUME NEW r \in Requests, Begin(r) \/ Close(r) PROVE JobsTypeOK'
  <2>1. /\ Goto(r, "picking") \/ Goto(r, "done")
        /\ UNCHANGED <<delivered, listed>> /\ Picks(r)
    BY <1>7 DEF Begin, Close, Picks
  <2>2. r \in Campaigns /\ job[r].process \in Processes
    BY <1>1, <2>1 DEF InHand
  <2> QED BY <1>1, <2>1, <2>2, GotoMoves, OneMoves DEF Sending, Picks
<1>8. ASSUME NEW r \in Requests, Pick(r) PROVE JobsTypeOK'
  <2>1. UNCHANGED <<delivered, listed>> /\ Picks(r)
    BY <1>8 DEF Pick, Picks
  <2>2. r \in Campaigns /\ job[r].process \in Processes
    BY <1>1, <2>1 DEF InHand
  <2>3. /\ job' \in [Requests -> JobRow]
        /\ \A q \in Requests : q # r => job'[q] = job[q]
        /\ job'[r].process = job[r].process
        /\ \/ job'[r].pc = "picking"
           \/ job'[r].pc = "looking" /\ \E u \in Users : job'[r].key = CampaignKey(u)
    BY <1>8, PickMoves
  <2>4. job'[r].pc = "looking" => job'[r].key \in Keys
    BY <2>3, KeysApart
  <2> QED BY <1>1, <2>1, <2>2, <2>3, <2>4, OneMoves DEF Sending, Picks
<1>9. ASSUME NEW r \in Requests, Sending(r)
      PROVE  /\ job[r].process \in Processes /\ job[r].key \in Keys
             /\ r \in Campaigns => \E u \in Users : job[r].key = CampaignKey(u)
  BY <1>1, <1>9 DEF InHand
<1>10. ASSUME NEW r \in Requests, Look(r) PROVE JobsTypeOK'
  <2> DEFINE found == Existing(job[r].process, job[r].key)
             pc == IF found = "none" THEN "resolving" ELSE "recording"
  <2>1. Sending(r) /\ UNCHANGED <<delivered, listed>>
    BY <1>10 DEF Look, Sending
  <2>2. found \in DeliveryStatuses
    BY <1>9, <2>1 DEF Existing, Stored, TypeOK
  <2>3. job' = [job EXCEPT ![r].pc = pc, ![r].result = found]
    BY <1>10 DEF Look
  <2>4. pc \in {"resolving", "recording", "saving"} /\ (pc = "recording" => found # "none")
        /\ pc # "saving"
    OBVIOUS
  <2> HIDE DEF found, pc
  <2>5. /\ job' \in [Requests -> JobRow]
        /\ \A q \in Requests : q # r => job'[q] = job[q]
        /\ job'[r].pc = pc /\ job'[r].process = job[r].process
        /\ job'[r].key = job[r].key /\ job'[r].result = found
    BY <2>2, <2>3, <2>4, LearnMoves
  <2> QED BY <1>1, <1>9, <2>1, <2>4, <2>5, OneMoves DEF Sending, Picks
<1>11. ASSUME NEW r \in Requests, ResolveSender(r) PROVE JobsTypeOK'
  <2>1. Sending(r) /\ UNCHANGED <<delivered, listed>> /\ Goto(r, "mailing")
    BY <1>11 DEF ResolveSender, Sending
  <2> QED BY <1>1, <1>9, <2>1, GotoMoves, OneMoves DEF Sending, Picks
<1>12. ASSUME NEW r \in Requests, Mail(r) PROVE JobsTypeOK'
  <2>1. Sending(r) /\ UNCHANGED listed
    BY <1>12 DEF Mail, Sending
  <2>2. PICK result \in {"SENT", "FAILED"} :
          job' = [job EXCEPT ![r].pc = "saving", ![r].result = result]
    BY <1>12 DEF Mail
  <2>3. result \in DeliveryStatuses /\ result # "none"
    BY DEF DeliveryStatuses
  <2>4. /\ job' \in [Requests -> JobRow]
        /\ \A q \in Requests : q # r => job'[q] = job[q]
        /\ job'[r].pc = "saving" /\ job'[r].process = job[r].process
        /\ job'[r].key = job[r].key /\ job'[r].result = result
    BY <2>2, <2>3, LearnMoves
  <2>5. delivered' \in [Keys -> Nat]
    BY <1>1, <1>9, <1>12, <2>1 DEF Mail
  <2> QED BY <1>1, <1>9, <2>1, <2>3, <2>4, <2>5, OneMoves DEF Sending, Picks
<1>13. ASSUME NEW r \in Requests, Save(r) PROVE JobsTypeOK'
  <2>1. /\ Sending(r) /\ UNCHANGED <<delivered, listed>> /\ Goto(r, "recording")
        /\ job[r].result # "none"
    BY <1>1, <1>13 DEF Save, Sending, InHand
  <2> QED BY <1>1, <1>9, <2>1, GotoMoves, OneMoves DEF Sending, Picks
<1>14. ASSUME NEW r \in Requests, Record(r) PROVE JobsTypeOK'
  <2>1. Sending(r) /\ UNCHANGED <<delivered, listed>>
    BY <1>14 DEF Record, Sending
  <2>2. CASE r \in Campaigns
    <3>1. /\ job' \in [Requests -> JobRow]
          /\ \A q \in Requests : q # r => job'[q] = job[q]
          /\ job'[r].pc = "picking" /\ job'[r].process = job[r].process
      BY <1>14, <2>2, RecordMoves
    <3> QED BY <1>1, <1>9, <2>1, <2>2, <3>1, OneMoves DEF Sending, Picks
  <2>3. CASE r \notin Campaigns
    <3>1. Goto(r, "done")
      BY <1>14, <2>3 DEF Record
    <3> QED BY <1>1, <2>1, <3>1, GotoMoves, OneMoves DEF Sending, Picks
  <2> QED BY <2>2, <2>3
<1>15. ASSUME NEW r \in Requests, Fail(r) PROVE JobsTypeOK'
  <2>1. UNCHANGED <<delivered, listed>>
    BY <1>15 DEF Fail
  <2> QED BY <1>1, <1>15, <2>1, FailMoves, OneMoves DEF Sending, Picks
<1>16. CASE UNCHANGED vars
  BY <1>2, <1>16 DEF vars
<1> QED
  BY <1>3, <1>4, <1>5, <1>6, <1>7, <1>8, <1>10, <1>11, <1>12, <1>13, <1>14, <1>15,
     <1>16 DEF Next

-----------------------------------------------------------------------------
(* A message is sent once *)

\* A step that sends nothing, gives no request a message, and loses none without
\* excusing its key.
LEMMA OnceKept ==
  ASSUME Once, UNCHANGED delivered, excused \subseteq excused',
         \A k \in Keys : events[k] # "none" => events'[k] # "none",
         \A r \in Requests, k \in Keys :
           /\ Holds(r, k)' => Holds(r, k)
           /\ job'[r].pc \in {"resolving", "mailing"} /\ job'[r].key = k =>
                job[r].pc \in {"resolving", "mailing"} /\ job[r].key = k
           /\ job[r].pc = "saving" /\ job[r].key = k =>
                \/ job'[r].pc = "saving" /\ job'[r].key = k
                \/ events'[k] # "none" \/ k \in excused'
  PROVE  Once'
<1> SUFFICES ASSUME NEW k \in Keys \ excused' PROVE OnceAt(k)'
  BY DEF Once
<1>1. OnceAt(k) /\ k \in Keys
  BY DEF Once
<1>2. delivered'[k] <= 1
  BY <1>1 DEF OnceAt
<1>3. \A r, q \in Requests : Holds(r, k)' /\ Holds(q, k)' => r = q
  BY <1>1 DEF OnceAt
<1>4. delivered'[k] = 1 => \/ events'[k] # "none"
                           \/ \E r \in Requests : job'[r].pc = "saving" /\ job'[r].key = k
  BY <1>1 DEF OnceAt
<1>5. \A r \in Requests : job'[r].pc \in {"resolving", "mailing"} /\ job'[r].key = k =>
                            delivered'[k] = 0
  BY <1>1 DEF OnceAt
<1> QED BY <1>2, <1>3, <1>4, <1>5 DEF OnceAt

\* The same for a step of one request that does not save what came of a message.
LEMMA OnceKeptBy ==
  ASSUME Once, UNCHANGED <<delivered, events, excused>>, NEW r \in Requests,
         \A q \in Requests : q # r => job'[q] = job[q],
         job[r].pc # "saving", job'[r].pc \notin {"resolving", "mailing", "saving"}
  PROVE  Once'
BY OnceKept DEF Holds

LEMMA OnceStep == TypeOK /\ JobsTypeOK /\ Once /\ [Next]_vars => Once'
<1> SUFFICES ASSUME TypeOK, JobsTypeOK, Once, [Next]_vars PROVE Once'
  OBVIOUS
<1> USE DEF tables
<1>1. ASSUME UNCHANGED <<job, delivered, events, excused>> PROVE Once'
  BY <1>1, OnceKept DEF Holds
<1>2. CASE Create \/ \E u \in Users : SetMarketingPreference(u) \/ Disable(u)
  BY <1>1, <1>2 DEF Create, SetMarketingPreference, Disable
<1>3. ASSUME NEW p \in Processes, Restart(p) PROVE Once'
  <2>1. \A r \in Requests : \/ job'[r] = job[r]
                            \/ Busy(r) /\ job[r].process = p /\ job'[r].pc = "lost"
    BY <1>3, RestartMoves
  <2>2. \A r \in Requests : job[r].pc = "saving" =>
          job'[r] = job[r] \/ job[r].key \in excused'
    BY <1>3, <2>1 DEF Restart, Unsaved, Busy
  <2>3. UNCHANGED <<delivered, events>> /\ excused \subseteq excused'
    BY <1>3 DEF Restart
  <2> QED BY <2>1, <2>2, <2>3, OnceKept DEF Holds
<1>4. ASSUME NEW p \in Processes, NEW r \in Requests, List(r, p) PROVE Once'
  <2>1. UNCHANGED <<delivered, events, excused>>
    BY <1>4 DEF List
  <2> QED BY <1>4, <2>1, ListMoves, OnceKeptBy
<1>5. ASSUME NEW p \in Processes, NEW r \in Requests, Notify(r, p) \/ Write(r, p)
      PROVE  Once'
  <2>1. UNCHANGED <<delivered, events, excused>>
    BY <1>5 DEF Notify, Write
  <2> QED BY <1>5, <2>1, StartMoves, OnceKeptBy
<1>6. ASSUME NEW r \in Requests, Begin(r) \/ Close(r) PROVE Once'
  <2>1. /\ Goto(r, "picking") \/ Goto(r, "done")
        /\ UNCHANGED <<delivered, events, excused>>
    BY <1>6 DEF Begin, Close
  <2>2. job[r].pc # "saving"
    BY <1>6 DEF Begin, Close
  <2> QED BY <2>1, <2>2, GotoMoves, OnceKeptBy
<1>7. ASSUME NEW r \in Requests, Pick(r) PROVE Once'
  <2>1. UNCHANGED <<delivered, events, excused>>
    BY <1>7 DEF Pick
  <2> QED BY <1>7, <2>1, PickMoves, OnceKeptBy
<1>8. ASSUME NEW r \in Requests, ResolveSender(r) PROVE Once'
  <2>1. /\ job[r].pc = "resolving" /\ Goto(r, "mailing")
        /\ UNCHANGED <<delivered, events, excused>>
    BY <1>8 DEF ResolveSender
  <2>2. /\ job'[r].pc = "mailing" /\ job'[r].key = job[r].key
        /\ \A q \in Requests : q # r => job'[q] = job[q]
    BY <2>1, GotoMoves
  <2> QED BY <2>1, <2>2, OnceKept DEF Holds
<1>9. ASSUME NEW r \in Requests, Record(r) PROVE Once'
  <2>1. UNCHANGED <<delivered, events, excused>> /\ job[r].pc = "recording"
    BY <1>9 DEF Record
  <2>2. CASE r \in Campaigns
    BY <1>9, <2>1, <2>2, RecordMoves, OnceKeptBy
  <2>3. CASE r \notin Campaigns
    <3>1. Goto(r, "done")
      BY <1>9, <2>3 DEF Record
    <3> QED BY <2>1, <3>1, GotoMoves, OnceKeptBy
  <2> QED BY <2>2, <2>3
<1>10. ASSUME NEW r \in Requests, Save(r) PROVE Once'
  <2>1. /\ job[r].pc = "saving" /\ Goto(r, "recording")
        /\ UNCHANGED <<delivered, excused>>
        /\ events' = [events EXCEPT ![job[r].key] = IF @ = "none" THEN job[r].result ELSE @]
    BY <1>10 DEF Save
  <2>2. job[r].key \in Keys /\ job[r].result # "none" /\ events \in [Keys -> DeliveryStatuses]
    BY <2>1 DEF JobsTypeOK, InHand, Sending, TypeOK
  <2>3. /\ \A k \in Keys : events[k] # "none" => events'[k] # "none"
        /\ events'[job[r].key] # "none"
    BY <2>1, <2>2
  <2>4. job'[r].pc = "recording" /\ \A q \in Requests : q # r => job'[q] = job[q]
    BY <2>1, GotoMoves
  <2> QED BY <2>1, <2>3, <2>4, OnceKept DEF Holds
<1>11. ASSUME NEW r \in Requests, Fail(r) PROVE Once'
  <2>1. job'[r].pc = "failed" /\ \A q \in Requests : q # r => job'[q] = job[q]
    BY <1>11, FailMoves
  <2>2. /\ UNCHANGED <<delivered, events>> /\ excused \subseteq excused'
        /\ job[r].pc = "saving" => job[r].key \in excused'
    BY <1>11 DEF Fail, Unsaved
  <2> QED BY <2>1, <2>2, OnceKept DEF Holds
\* It finds no delivery and no other request with the message: none was sent.
<1>12. ASSUME NEW r \in Requests, Look(r) PROVE Once'
  <2> DEFINE found == Existing(job[r].process, job[r].key)
             pc == IF found = "none" THEN "resolving" ELSE "recording"
  <2>1. /\ job[r].pc = "looking" /\ UNCHANGED <<delivered, events>>
        /\ job' = [job EXCEPT ![r].pc = pc, ![r].result = found]
        /\ excused' = IF found = "none" /\ \E q \in Requests : Holds(q, job[r].key)
                      THEN excused \cup {job[r].key} ELSE excused
    BY <1>12 DEF Look
  <2>2. job[r].key \in Keys /\ job[r].process \in Processes
    BY <2>1 DEF JobsTypeOK, InHand, Sending
  <2>3. found \in DeliveryStatuses /\ (found = "none" => events[job[r].key] = "none")
    BY <2>2 DEF Existing, Stored, TypeOK
  <2>4. pc \in {"resolving", "recording", "saving"}
    OBVIOUS
  <2>5. pc = (IF found = "none" THEN "resolving" ELSE "recording")
    OBVIOUS
  <2> HIDE DEF found, pc
  <2>6. /\ job'[r].pc = pc /\ job'[r].key = job[r].key
        /\ \A q \in Requests : q # r => job'[q] = job[q]
    BY <2>1, <2>3, <2>4, LearnMoves
  <2>7. CASE found # "none"
    <3>1. UNCHANGED <<delivered, events, excused>> /\ job'[r].pc = "recording"
      BY <2>1, <2>5, <2>6, <2>7
    <3> QED BY <2>1, <2>6, <3>1, OnceKeptBy
  <2>8. CASE found = "none"
    <3> SUFFICES ASSUME NEW k \in Keys \ excused' PROVE OnceAt(k)'
      BY DEF Once
    <3>1. OnceAt(k) /\ k \in Keys
      BY <2>1 DEF Once
    <3>2. CASE k # job[r].key
      <4>1. \A q \in Requests : /\ Holds(q, k)' <=> Holds(q, k)
                                /\ job'[q].key = k => job'[q].pc = job[q].pc
                                /\ job'[q].key = job[q].key
        BY <2>6, <3>2 DEF Holds
      <4>2. delivered'[k] = 1 => \/ events'[k] # "none"
                                 \/ \E q \in Requests : job'[q].pc = "saving" /\ job'[q].key = k
        BY <2>1, <3>1, <4>1 DEF OnceAt
      <4> QED BY <2>1, <3>1, <4>1, <4>2 DEF OnceAt
    <3>3. CASE k = job[r].key
      <4>1. \A q \in Requests : ~Holds(q, k)
        BY <2>1, <2>8, <3>3
      <4>2. delivered[k] = 0
        <5>1. delivered[k] \in Nat /\ delivered[k] <= 1
          BY <3>1 DEF OnceAt, JobsTypeOK
        <5>2. delivered[k] # 1
          BY <2>3, <2>8, <3>1, <3>3, <4>1 DEF OnceAt, Holds
        <5> QED BY <5>1, <5>2
      <4>3. \A q \in Requests : Holds(q, k)' => q = r
        BY <2>6, <4>1 DEF Holds
      <4> QED BY <2>1, <4>2, <4>3 DEF OnceAt
    <3> QED BY <3>2, <3>3
  <2> QED BY <2>7, <2>8
\* It is the only one with the message, and the message was not sent before.
<1>13. ASSUME NEW r \in Requests, Mail(r) PROVE Once'
  <2>1. job[r].pc = "mailing" /\ UNCHANGED <<events, excused>>
    BY <1>13 DEF Mail
  <2>2. job[r].key \in Keys
    BY <2>1 DEF JobsTypeOK, InHand, Sending
  <2>3. PICK result \in {"SENT", "FAILED"} :
          job' = [job EXCEPT ![r].pc = "saving", ![r].result = result]
    BY <1>13 DEF Mail
  <2>4. /\ job'[r].pc = "saving" /\ job'[r].key = job[r].key
        /\ \A q \in Requests : q # r => job'[q] = job[q]
    BY <2>3, LearnMoves DEF DeliveryStatuses
  <2>5. /\ \A k \in Keys : k # job[r].key => delivered'[k] = delivered[k]
        /\ delivered'[job[r].key] \in {delivered[job[r].key], delivered[job[r].key] + 1}
    BY <1>13, <2>2 DEF Mail, JobsTypeOK
  <2> SUFFICES ASSUME NEW k \in Keys \ excused' PROVE OnceAt(k)'
    BY DEF Once
  <2>6. OnceAt(k) /\ k \in Keys
    BY <2>1 DEF Once
  <2>7. \A q \in Requests : Holds(q, k)' <=> Holds(q, k)
    BY <2>1, <2>4 DEF Holds
  <2>8. CASE k # job[r].key
    <3>1. delivered'[k] = delivered[k]
      BY <2>5, <2>6, <2>8
    <3>2. \A q \in Requests : job'[q].key = k => job'[q] = job[q]
      BY <2>4, <2>8
    <3>3. \A q \in Requests : job[q].key = k => job'[q] = job[q]
      BY <2>4, <2>8
    <3> QED BY <2>1, <2>6, <2>7, <3>1, <3>2, <3>3 DEF OnceAt
  <2>9. CASE k = job[r].key
    <3>1. delivered[k] = 0 /\ delivered'[k] <= 1
      BY <2>1, <2>5, <2>6, <2>9 DEF OnceAt
    <3>2. \A q \in Requests : q # r => ~Holds(q, k)
      BY <2>1, <2>6, <2>9 DEF OnceAt, Holds
    <3>3. \A q \in Requests : job'[q].key = k => job'[q].pc \notin {"resolving", "mailing"}
      BY <2>4, <3>2 DEF Holds
    <3> QED BY <2>4, <2>6, <2>7, <2>9, <3>1, <3>3 DEF OnceAt
  <2> QED BY <2>8, <2>9
<1>14. CASE UNCHANGED vars
  BY <1>1, <1>14 DEF vars
<1> QED
  BY <1>2, <1>3, <1>4, <1>5, <1>6, <1>7, <1>8, <1>9, <1>10, <1>11, <1>12, <1>13,
     <1>14 DEF Next

-----------------------------------------------------------------------------
(* What says SENT was sent *)

Says(r) == job[r].pc \in {"saving", "recording"} /\ job[r].result = "SENT"

LEMMA SentKept ==
  ASSUME SaysSent, JobsTypeOK,
         \A k \in Keys : delivered[k] > 0 => delivered'[k] > 0,
         \A k \in Keys : events'[k] = "SENT" => events[k] = "SENT" \/ delivered[k] > 0,
         \A p \in Processes, k \in Keys :
           memory'[p][k] = "SENT" => memory[p][k] = "SENT" \/ delivered[k] > 0,
         \A r \in Requests :
           Says(r)' => \/ Says(r) /\ job'[r].key = job[r].key
                       \/ delivered'[job'[r].key] > 0,
         \A u \in Users :
           recipients'[u] = "SENT" => recipients[u] = "SENT" \/ delivered[CampaignKey(u)] > 0
  PROVE  SaysSent'
<1>1. \A k \in Keys : events'[k] = "SENT" => delivered'[k] > 0
  BY DEF SaysSent
<1>2. \A p \in Processes, k \in Keys : memory'[p][k] = "SENT" => delivered'[k] > 0
  BY DEF SaysSent
<1>3. ASSUME NEW r \in Requests, Says(r)' PROVE delivered'[job'[r].key] > 0
  <2>1. CASE Says(r) /\ job'[r].key = job[r].key
    <3>1. job[r].key \in Keys /\ delivered[job[r].key] > 0
      BY <2>1 DEF Says, SaysSent, JobsTypeOK, InHand, Sending
    <3> QED BY <2>1, <3>1
  <2> QED BY <1>3, <2>1
<1>4. \A u \in Users : recipients'[u] = "SENT" => delivered'[CampaignKey(u)] > 0
  BY KeysApart DEF SaysSent
<1> QED BY <1>1, <1>2, <1>3, <1>4 DEF SaysSent, Says

\* The same for a step of one request that writes no row.
LEMMA SentKeptBy ==
  ASSUME SaysSent, JobsTypeOK, UNCHANGED <<delivered, events, memory, recipients>>,
         NEW r \in Requests, \A q \in Requests : q # r => job'[q] = job[q],
         Says(r)' => \/ Says(r) /\ job'[r].key = job[r].key
                     \/ delivered[job'[r].key] > 0
  PROVE  SaysSent'
BY SentKept DEF Says

LEMMA SentStep == TypeOK /\ JobsTypeOK /\ SaysSent /\ [Next]_vars => SaysSent'
<1> SUFFICES ASSUME TypeOK, JobsTypeOK, SaysSent, [Next]_vars PROVE SaysSent'
  OBVIOUS
<1> USE DEF tables
<1>1. ASSUME UNCHANGED <<job, delivered, events, memory, recipients>> PROVE SaysSent'
  BY <1>1, SentKept DEF Says
<1>2. CASE Create \/ \E u \in Users : SetMarketingPreference(u) \/ Disable(u)
  BY <1>1, <1>2 DEF Create, SetMarketingPreference, Disable
<1>3. ASSUME NEW p \in Processes, Restart(p) PROVE SaysSent'
  <2>1. \A r \in Requests : job'[r] = job[r] \/ job'[r].pc = "lost"
    BY <1>3, RestartMoves
  <2>2. /\ UNCHANGED <<delivered, events, recipients>>
        /\ memory' = [memory EXCEPT ![p] = NoDeliveries]
    BY <1>3 DEF Restart
  <2>3. \A q \in Processes, k \in Keys : memory'[q][k] = "SENT" => memory[q][k] = "SENT"
    BY <2>2 DEF NoDeliveries, TypeOK
  <2> QED BY <2>1, <2>2, <2>3, SentKept DEF Says
<1>4. ASSUME NEW p \in Processes, NEW r \in Requests, List(r, p) PROVE SaysSent'
  <2>1. UNCHANGED <<delivered, events, memory, recipients>>
    BY <1>4 DEF List
  <2> QED BY <1>4, <2>1, ListMoves, SentKeptBy DEF Says
<1>5. ASSUME NEW p \in Processes, NEW r \in Requests, Notify(r, p) \/ Write(r, p)
      PROVE  SaysSent'
  <2>1. UNCHANGED <<delivered, events, memory, recipients>>
    BY <1>5 DEF Notify, Write
  <2> QED BY <1>5, <2>1, StartMoves, SentKeptBy DEF Says
<1>6. ASSUME NEW r \in Requests, Begin(r) \/ Close(r) PROVE SaysSent'
  <2>1. /\ Goto(r, "picking") \/ Goto(r, "done")
        /\ UNCHANGED <<delivered, events, memory, recipients>>
    BY <1>6 DEF Begin, Close
  <2> QED BY <2>1, GotoMoves, SentKeptBy DEF Says
<1>7. ASSUME NEW r \in Requests, Pick(r) PROVE SaysSent'
  <2>1. UNCHANGED <<delivered, events, memory, recipients>>
    BY <1>7 DEF Pick
  <2> QED BY <1>7, <2>1, PickMoves, SentKeptBy DEF Says
<1>8. ASSUME NEW r \in Requests, ResolveSender(r) PROVE SaysSent'
  <2>1. Goto(r, "mailing") /\ UNCHANGED <<delivered, events, memory, recipients>>
    BY <1>8 DEF ResolveSender
  <2> QED BY <2>1, GotoMoves, SentKeptBy DEF Says
\* A delivery that is found is one that was saved.
<1>9. ASSUME NEW r \in Requests, Look(r) PROVE SaysSent'
  <2> DEFINE found == Existing(job[r].process, job[r].key)
             pc == IF found = "none" THEN "resolving" ELSE "recording"
  <2>1. /\ job[r].pc = "looking" /\ UNCHANGED <<delivered, events, memory, recipients>>
        /\ job' = [job EXCEPT ![r].pc = pc, ![r].result = found]
    BY <1>9 DEF Look
  <2>2. job[r].key \in Keys /\ job[r].process \in Processes
    BY <2>1 DEF JobsTypeOK, InHand, Sending
  <2>3. found \in DeliveryStatuses /\ (found = "SENT" => delivered[job[r].key] > 0)
    BY <2>2 DEF Existing, Stored, TypeOK, SaysSent
  <2>4. pc \in {"resolving", "recording", "saving"}
    OBVIOUS
  <2> HIDE DEF found, pc
  <2>5. /\ job'[r].key = job[r].key /\ job'[r].result = found
        /\ \A q \in Requests : q # r => job'[q] = job[q]
    BY <2>1, <2>3, <2>4, LearnMoves
  <2> QED BY <2>1, <2>3, <2>5, SentKeptBy DEF Says
\* SENT is the provider's answer to a message that it has sent.
<1>10. ASSUME NEW r \in Requests, Mail(r) PROVE SaysSent'
  <2>1. job[r].pc = "mailing" /\ UNCHANGED <<events, memory, recipients>>
    BY <1>10 DEF Mail
  <2>2. job[r].key \in Keys
    BY <2>1 DEF JobsTypeOK, InHand, Sending
  <2>3. PICK sent \in BOOLEAN, answered \in BOOLEAN :
          /\ answered => sent
          /\ delivered' = [delivered EXCEPT ![job[r].key] = IF sent THEN @ + 1 ELSE @]
          /\ job' = [job EXCEPT ![r].pc = "saving",
                                ![r].result = IF answered THEN "SENT" ELSE "FAILED"]
    BY <1>10 DEF Mail
  <2> DEFINE result == IF answered THEN "SENT" ELSE "FAILED"
  <2>4. result \in DeliveryStatuses /\ (result = "SENT" => sent)
        /\ job' = [job EXCEPT ![r].pc = "saving", ![r].result = result]
    BY <2>3 DEF DeliveryStatuses
  <2> HIDE DEF result
  <2>5. /\ job'[r].key = job[r].key /\ job'[r].result = result
        /\ \A q \in Requests : q # r => job'[q] = job[q]
    BY <2>4, LearnMoves
  <2>6. /\ \A k \in Keys : delivered[k] > 0 => delivered'[k] > 0
        /\ sent => delivered'[job[r].key] > 0
    BY <2>2, <2>3 DEF JobsTypeOK
  <2>7. \A q \in Requests : Says(q)' => \/ Says(q) /\ job'[q].key = job[q].key
                                        \/ delivered'[job'[q].key] > 0
    BY <2>4, <2>5, <2>6 DEF Says
  <2> QED BY <2>1, <2>6, <2>7, SentKept
\* What a request remembers is what came of its message.
<1>11. ASSUME NEW r \in Requests, job[r].pc = "saving", Remember(r)
       PROVE  \A p \in Processes, k \in Keys :
                memory'[p][k] = "SENT" => memory[p][k] = "SENT" \/ delivered[k] > 0
  <2>1. job[r].key \in Keys /\ job[r].process \in Processes
    BY <1>11 DEF JobsTypeOK, InHand, Sending
  <2>2. job[r].result = "SENT" => delivered[job[r].key] > 0
    BY <1>11 DEF SaysSent
  <2> QED BY <1>11, <2>1, <2>2 DEF Remember, TypeOK
<1>12. ASSUME NEW r \in Requests, Save(r) PROVE SaysSent'
  <2>1. /\ job[r].pc = "saving" /\ Remember(r) /\ Goto(r, "recording")
        /\ UNCHANGED <<delivered, recipients>>
        /\ events' = [events EXCEPT ![job[r].key] = IF @ = "none" THEN job[r].result ELSE @]
    BY <1>12 DEF Save
  <2>2. \A k \in Keys : events'[k] = "SENT" => events[k] = "SENT" \/ delivered[k] > 0
    BY <2>1 DEF SaysSent, TypeOK
  <2>3. /\ job'[r].key = job[r].key /\ job'[r].result = job[r].result
        /\ \A q \in Requests : q # r => job'[q] = job[q]
    BY <2>1, GotoMoves
  <2>4. \A q \in Requests : Says(q)' => Says(q) /\ job'[q].key = job[q].key
    BY <2>1, <2>3 DEF Says
  <2> QED BY <1>11, <2>1, <2>2, <2>4, SentKept
<1>13. ASSUME NEW r \in Requests, Record(r) PROVE SaysSent'
  <2>1. job[r].pc = "recording" /\ UNCHANGED <<delivered, events, memory>>
    BY <1>13 DEF Record
  <2>2. CASE r \in Campaigns
    <3>1. /\ job'[r].pc = "picking" /\ \A q \in Requests : q # r => job'[q] = job[q]
          /\ recipients' = [recipients EXCEPT ![job[r].key.for] = job[r].result]
      BY <1>13, <2>2, RecordMoves
    <3>2. PICK u \in Users : job[r].key = CampaignKey(u)
      BY <2>1, <2>2 DEF JobsTypeOK, InHand, Sending
    <3>3. job[r].key.for = u
      BY <3>2 DEF CampaignKey
    <3>4. job[r].result = "SENT" => delivered[CampaignKey(u)] > 0
      BY <2>1, <3>2 DEF SaysSent
    <3>5. \A v \in Users :
            recipients'[v] = "SENT" => recipients[v] = "SENT" \/ delivered[CampaignKey(v)] > 0
      BY <3>1, <3>3, <3>4 DEF TypeOK, RecipientRows
    <3> QED BY <2>1, <3>1, <3>5, SentKept DEF Says
  <2>3. CASE r \notin Campaigns
    <3>1. Goto(r, "done") /\ UNCHANGED recipients
      BY <1>13, <2>3 DEF Record
    <3> QED BY <2>1, <3>1, GotoMoves, SentKeptBy DEF Says
  <2> QED BY <2>2, <2>3
<1>14. ASSUME NEW r \in Requests, Fail(r) PROVE SaysSent'
  <2>1. job'[r].pc = "failed" /\ \A q \in Requests : q # r => job'[q] = job[q]
    BY <1>14, FailMoves
  <2>2. UNCHANGED <<delivered, events, recipients>>
    BY <1>14 DEF Fail
  <2>3. \A p \in Processes, k \in Keys :
          memory'[p][k] = "SENT" => memory[p][k] = "SENT" \/ delivered[k] > 0
    BY <1>11, <1>14 DEF Fail
  <2> QED BY <2>1, <2>2, <2>3, SentKept DEF Says
<1>15. CASE UNCHANGED vars
  BY <1>1, <1>15 DEF vars
<1> QED
  BY <1>2, <1>3, <1>4, <1>5, <1>6, <1>7, <1>8, <1>9, <1>10, <1>12, <1>13, <1>14,
     <1>15 DEF Next

-----------------------------------------------------------------------------
(* A campaign that has ended has a row for each user it had listed *)

LEMMA StillCovered ==
  ASSUME NEW r \in Requests, CoveredBy(r), job'[r] = job[r], listed'[r] = listed[r],
         \A u \in Users : HasRow(u) => HasRow(u)', JobsTypeOK
  PROVE  CoveredBy(r)'
<1>1. listed[r] \subseteq Users
  BY DEF JobsTypeOK
<1> QED BY <1>1 DEF CoveredBy, Picks, Sending, HasRow

LEMMA RowsStay ==
  ASSUME TypeOK, JobsTypeOK, [Next]_vars
  PROVE  \A u \in Users : HasRow(u) => HasRow(u)'
<1> USE DEF Outside, tables
<1>1. ASSUME NEW r \in Requests, Record(r) PROVE \A u \in Users : HasRow(u) => HasRow(u)'
  <2>1. job[r].result # "none"
    BY <1>1 DEF Record, JobsTypeOK, InHand
  <2> QED BY <1>1, <2>1 DEF Record, Row, HasRow, TypeOK, RecipientRows
<1>2. ASSUME ~\E r \in Requests : Record(r) PROVE UNCHANGED recipients
  <2>1. CASE Create \/ \E u \in Users : SetMarketingPreference(u) \/ Disable(u)
    BY <2>1 DEF Create, SetMarketingPreference, Disable
  <2>2. ASSUME NEW p \in Processes,
               \/ Restart(p)
               \/ \E r \in Requests : List(r, p) \/ Notify(r, p) \/ Write(r, p)
        PROVE  UNCHANGED recipients
    BY <2>2 DEF Restart, List, Notify, Write
  <2>3. ASSUME NEW r \in Requests,
               \/ Begin(r) \/ Pick(r) \/ Look(r) \/ ResolveSender(r) \/ Mail(r) \/ Save(r)
               \/ Close(r) \/ Fail(r)
        PROVE  UNCHANGED recipients
    BY <2>3 DEF Begin, Pick, Look, ResolveSender, Mail, Save, Close, Fail
  <2>4. CASE UNCHANGED vars
    BY <2>4 DEF vars
  <2> QED BY <1>2, <2>1, <2>2, <2>3, <2>4 DEF Next
<1> QED BY <1>1, <1>2 DEF HasRow

LEMMA CoveredStep ==
  ASSUME TypeOK, JobsTypeOK, [Next]_vars, \A r \in Campaigns : CoveredBy(r)
  PROVE  \A r \in Campaigns : CoveredBy(r)'
<1> SUFFICES ASSUME NEW c \in Campaigns PROVE CoveredBy(c)'
  OBVIOUS
<1>1. c \in Requests /\ CoveredBy(c) /\ InHand(c) /\ listed[c] \subseteq Users
  BY DEF JobsTypeOK, Requests
<1>2. \A u \in Users : HasRow(u) => HasRow(u)'
  BY RowsStay
<1>3. ASSUME job'[c] = job[c], listed'[c] = listed[c] PROVE CoveredBy(c)'
  BY <1>1, <1>2, <1>3, StillCovered
<1>4. ASSUME job'[c].pc \in {"idle", "failed", "lost"} PROVE CoveredBy(c)'
  BY <1>4 DEF CoveredBy, Picks, Sending
<1>5. ASSUME Sending(c), job'[c].key = job[c].key, job'[c].left = job[c].left,
             Sending(c)', UNCHANGED listed
      PROVE  CoveredBy(c)'
  BY <1>1, <1>2, <1>5 DEF CoveredBy, Picks, Sending, HasRow
<1>6. CASE Create \/ \E u \in Users : SetMarketingPreference(u) \/ Disable(u)
  BY <1>3, <1>6 DEF Create, SetMarketingPreference, Disable
<1>7. ASSUME NEW p \in Processes, Restart(p) PROVE CoveredBy(c)'
  <2>1. job'[c] = job[c] \/ job'[c].pc = "lost"
    BY <1>1, <1>7, RestartMoves
  <2> QED BY <1>3, <1>4, <1>7, <2>1 DEF Restart
<1>8. ASSUME NEW p \in Processes, NEW r \in Requests, List(r, p) PROVE CoveredBy(c)'
  <2>1. /\ \A q \in Requests : q # r => job'[q] = job[q]
        /\ job'[r].pc = "listed" /\ listed' = [listed EXCEPT ![r] = job'[r].left]
    BY <1>8, ListMoves
  <2>2. listed'[r] = job'[r].left /\ \A q \in Requests : q # r => listed'[q] = listed[q]
    BY <2>1 DEF JobsTypeOK
  <2>3. CASE c = r
    BY <1>1, <2>1, <2>2, <2>3 DEF CoveredBy, Picks, Sending
  <2> QED BY <1>1, <1>3, <2>1, <2>2, <2>3
<1>9. ASSUME NEW p \in Processes, NEW r \in Requests, Notify(r, p) \/ Write(r, p)
      PROVE  CoveredBy(c)'
  <2>1. c # r /\ \A q \in Requests : q # r => job'[q] = job[q]
    BY <1>9, StartMoves
  <2> QED BY <1>1, <1>3, <1>9, <2>1 DEF Notify, Write
<1>10. ASSUME NEW r \in Requests, Begin(r) PROVE CoveredBy(c)'
  <2>1. job[r].pc = "listed" /\ Goto(r, "picking") /\ UNCHANGED listed
    BY <1>10 DEF Begin
  <2>2. /\ job'[r].pc = "picking" /\ job'[r].left = job[r].left
        /\ \A q \in Requests : q # r => job'[q] = job[q]
    BY <2>1, GotoMoves
  <2>3. CASE c = r
    BY <1>1, <1>2, <2>1, <2>2, <2>3 DEF CoveredBy, Picks, Sending, HasRow
  <2> QED BY <1>1, <1>3, <2>1, <2>2, <2>3
<1>11. ASSUME NEW r \in Requests, Close(r) PROVE CoveredBy(c)'
  <2>1. job[r].pc = "picking" /\ job[r].left = {} /\ Goto(r, "done") /\ UNCHANGED listed
    BY <1>11 DEF Close
  <2>2. job'[r].pc = "done" /\ \A q \in Requests : q # r => job'[q] = job[q]
    BY <2>1, GotoMoves
  <2>3. CASE c = r
    BY <1>1, <1>2, <2>1, <2>2, <2>3 DEF CoveredBy, Picks, Sending, HasRow
  <2> QED BY <1>1, <1>3, <2>1, <2>2, <2>3
\* The user who is taken off the list has a row, or its message is in hand.
<1>12. ASSUME NEW r \in Requests, Pick(r) PROVE CoveredBy(c)'
  <2>1. job[r].pc = "picking" /\ \A q \in Requests : q # r => job'[q] = job[q]
    BY <1>12, PickMoves
  <2>2. PICK u \in Users : /\ job'[r].left = job[r].left \ {u}
                           /\ \/ HasRow(u) /\ job'[r].pc = "picking"
                              \/ job'[r].pc = "looking" /\ job'[r].key = CampaignKey(u)
    BY <1>12, PickMoves
  <2>3. UNCHANGED listed
    BY <1>12 DEF Pick
  <2>4. CASE c = r
    <3>1. \A v \in listed[c] : v \in job[c].left \/ HasRow(v)
      BY <1>1, <2>1, <2>4 DEF CoveredBy, Picks, Sending
    <3>2. \A v \in listed[c] : v \in job'[c].left \/ HasRow(v)' \/ v = u
      BY <1>1, <1>2, <2>2, <2>4, <3>1
    <3> QED BY <1>1, <1>2, <2>2, <2>3, <2>4, <3>2 DEF CoveredBy, Picks, Sending, HasRow
  <2> QED BY <1>1, <1>3, <2>1, <2>3, <2>4
<1>13. ASSUME NEW r \in Requests, Look(r) PROVE CoveredBy(c)'
  <2> DEFINE found == Existing(job[r].process, job[r].key)
             pc == IF found = "none" THEN "resolving" ELSE "recording"
  <2>1. /\ Sending(r) /\ UNCHANGED listed
        /\ job' = [job EXCEPT ![r].pc = pc, ![r].result = found]
    BY <1>13 DEF Look, Sending
  <2>2. job[r].key \in Keys /\ job[r].process \in Processes
    BY <2>1 DEF JobsTypeOK, InHand
  <2>3. found \in DeliveryStatuses
    BY <2>2 DEF Existing, Stored, TypeOK
  <2>4. pc \in {"resolving", "recording"}
    OBVIOUS
  <2> HIDE DEF found, pc
  <2>5. /\ job'[r].pc \in {"resolving", "recording"} /\ job'[r].key = job[r].key
        /\ job'[r].left = job[r].left
        /\ \A q \in Requests : q # r => job'[q] = job[q]
    BY <2>1, <2>3, <2>4, LearnMoves
  <2>6. Sending(r)'
    BY <2>5 DEF Sending
  <2>7. CASE c = r
    BY <1>5, <2>1, <2>5, <2>6, <2>7
  <2> QED BY <1>1, <1>3, <2>1, <2>5, <2>7
<1>14. ASSUME NEW r \in Requests, ResolveSender(r) \/ Save(r) PROVE CoveredBy(c)'
  <2>1. /\ Sending(r) /\ UNCHANGED listed
        /\ Goto(r, "mailing") \/ Goto(r, "recording")
    BY <1>14 DEF ResolveSender, Save, Sending
  <2>2. /\ job'[r].pc \in {"mailing", "recording"} /\ job'[r].key = job[r].key
        /\ job'[r].left = job[r].left
        /\ \A q \in Requests : q # r => job'[q] = job[q]
    BY <2>1, GotoMoves
  <2>3. Sending(r)'
    BY <2>2 DEF Sending
  <2>4. CASE c = r
    BY <1>5, <2>1, <2>2, <2>3, <2>4
  <2> QED BY <1>1, <1>3, <2>1, <2>2, <2>4
<1>15. ASSUME NEW r \in Requests, Mail(r) PROVE CoveredBy(c)'
  <2>1. Sending(r) /\ UNCHANGED listed
    BY <1>15 DEF Mail, Sending
  <2>2. PICK result \in {"SENT", "FAILED"} :
          job' = [job EXCEPT ![r].pc = "saving", ![r].result = result]
    BY <1>15 DEF Mail
  <2>3. /\ job'[r].pc = "saving" /\ job'[r].key = job[r].key /\ job'[r].left = job[r].left
        /\ \A q \in Requests : q # r => job'[q] = job[q]
    BY <2>2, LearnMoves DEF DeliveryStatuses
  <2>4. Sending(r)'
    BY <2>3 DEF Sending
  <2>5. CASE c = r
    BY <1>5, <2>1, <2>3, <2>4, <2>5
  <2> QED BY <1>1, <1>3, <2>1, <2>3, <2>5
\* The row is written before the message is out of hand.
<1>16. ASSUME NEW r \in Requests, Record(r) PROVE CoveredBy(c)'
  <2>1. job[r].pc = "recording" /\ UNCHANGED listed
    BY <1>16 DEF Record
  <2>2. CASE r \in Campaigns
    <3>1. /\ job'[r].pc = "picking" /\ job'[r].left = job[r].left
          /\ \A q \in Requests : q # r => job'[q] = job[q]
          /\ recipients' = [recipients EXCEPT ![job[r].key.for] = job[r].result]
      BY <1>16, <2>2, RecordMoves
    <3>2. CASE c = r
      <4>1. PICK u \in Users : job[r].key = CampaignKey(u)
        BY <1>1, <2>1, <3>2 DEF InHand, Sending
      <4>2. job[r].key.for = u /\ job[r].result # "none"
        BY <1>1, <2>1, <3>2, <4>1 DEF CampaignKey, InHand
      <4>3. HasRow(u)'
        BY <3>1, <4>2 DEF HasRow, TypeOK, RecipientRows
      <4>4. \A v \in listed[c] : v \in job[c].left \/ HasRow(v) \/ v = u
        BY <1>1, <2>1, <3>2, <4>1, KeysApart DEF CoveredBy, Picks, Sending
      <4>5. \A v \in listed[c] : v \in job'[c].left \/ HasRow(v)'
        BY <1>1, <1>2, <3>1, <3>2, <4>3, <4>4 DEF HasRow
      <4> QED BY <2>1, <3>1, <3>2, <4>5 DEF CoveredBy, Picks, Sending, HasRow
    <3> QED BY <1>1, <1>3, <2>1, <3>1, <3>2
  <2>3. CASE r \notin Campaigns
    <3>1. Goto(r, "done")
      BY <1>16, <2>3 DEF Record
    <3> QED BY <1>1, <1>3, <2>1, <2>3, <3>1, GotoMoves
  <2> QED BY <2>2, <2>3
<1>17. ASSUME NEW r \in Requests, Fail(r) PROVE CoveredBy(c)'
  <2>1. job'[r].pc = "failed" /\ \A q \in Requests : q # r => job'[q] = job[q]
    BY <1>17, FailMoves
  <2> QED BY <1>1, <1>3, <1>4, <1>17, <2>1 DEF Fail
<1>18. CASE UNCHANGED vars
  BY <1>3, <1>18 DEF vars
<1> QED
  BY <1>6, <1>7, <1>8, <1>9, <1>10, <1>11, <1>12, <1>13, <1>14, <1>15, <1>16, <1>17,
     <1>18 DEF Next

-----------------------------------------------------------------------------
(* The theorems *)

LEMMA EmailInvInit == Init => EmailInv
<1> SUFFICES ASSUME Init PROVE EmailInv
  OBVIOUS
<1>1. TypeOK
  BY EmailAssumption DEF Init, TypeOK, RecipientRows, NoDeliveries, DeliveryStatuses,
                         CampaignStatuses
<1>2. \A r \in Requests : job[r].pc = "idle" /\ InHand(r)
  BY DEF Init, Idle, InHand, Sending, Picks
<1>3. JobsTypeOK
  BY <1>2, IdleRow DEF Init, JobsTypeOK
<1>4. Once
  BY <1>2 DEF Init, Once, OnceAt, Holds
<1>5. SaysSent
  BY <1>2 DEF Init, SaysSent, NoDeliveries
<1>6. \A r \in Campaigns : CoveredBy(r)
  BY <1>2 DEF Requests, CoveredBy, Picks, Sending
<1> QED BY <1>1, <1>3, <1>4, <1>5, <1>6 DEF EmailInv

LEMMA EmailInvStep == EmailInv /\ [Next]_vars => EmailInv'
<1> SUFFICES ASSUME EmailInv, [Next]_vars PROVE EmailInv'
  OBVIOUS
<1>1. /\ TypeOK /\ JobsTypeOK /\ Once /\ SaysSent
      /\ \A r \in Campaigns : CoveredBy(r)
  BY DEF EmailInv
<1>2. TypeOK' /\ JobsTypeOK'
  BY <1>1, TablesTypesStep, JobsTypesStep
<1>3. Once' /\ SaysSent'
  BY <1>1, OnceStep, SentStep
<1>4. \A r \in Campaigns : CoveredBy(r)'
  BY <1>1, CoveredStep
<1> QED BY <1>2, <1>3, <1>4 DEF EmailInv

LEMMA EmailInvHolds == Spec => []EmailInv
BY EmailInvInit, EmailInvStep, PTL DEF Spec

\* Every variable has its type in every state.
THEOREM TypeCorrect == Spec => [](TypeOK /\ JobsTypeOK)
<1>1. EmailInv => TypeOK /\ JobsTypeOK
  BY DEF EmailInv
<1> QED BY <1>1, EmailInvHolds, PTL

\* A message goes out once, whichever processes restart and however often a
\* campaign is sent or an event delivered, unless two requests had it in hand at
\* once or its delivery was lost before it was saved (EmailService.send).
THEOREM NoMessageTwice == Spec => []MailedOnce
<1>1. EmailInv => MailedOnce
  <2> SUFFICES ASSUME EmailInv, NEW k \in Keys, k \notin excused PROVE ~(delivered[k] > 1)
    BY DEF MailedOnce
  <2>1. delivered[k] <= 1 /\ delivered[k] \in Nat
    BY DEF EmailInv, Once, OnceAt, JobsTypeOK
  <2> QED BY <2>1
<1> QED BY <1>1, EmailInvHolds, PTL

\* A send of a campaign that has ended has a row for each user it had listed, and
\* a row that says SENT is of a message that was sent (EmailCampaignService.send).
THEOREM SendsCoverTheirList == Spec => []SentCoversList
<1>1. EmailInv => SentCoversList
  BY DEF EmailInv, SentCoversList, CoveredBy, SaysSent
<1> QED BY <1>1, EmailInvHolds, PTL
=============================================================================
