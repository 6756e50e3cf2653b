----------------------------- MODULE EmailCampaign -----------------------------
(***************************************************************************)
(* EmailService and EmailCampaignService (packages/email) over the tables  *)
(* of db/src/postgres-email.ts: one campaign, which an administrator may   *)
(* send more than once (apps/api/src/email-route.ts), the notices that     *)
(* payment events send (apps/api/src/server.ts), and the letters that a    *)
(* request writes with a key of its own, from several API processes that   *)
(* may die and restart.                                                    *)
(*                                                                         *)
(* The mail provider takes what it is given each time: that Resend drops a *)
(* second message with the Idempotency-Key of a recent one is not assumed. *)
(***************************************************************************)
EXTENDS Naturals, FiniteSets

CONSTANTS
  Users,
  Processes,      \* the API's processes
  Campaigns,      \* requests to send the campaign
  Notices,        \* deliveries of one payment event, each of which sends its notice
  Addressee,      \* the user whom that notice is for
  Letters,        \* requests that write one letter: a verification code, a welcome,
                  \* a password reset, an invitation to a room, an administrator's test
  Tests,          \* the tests among them, all of one administrator
  RequestIds,     \* bound: the ids that a process gives to the requests of Letters
  Scenarios,      \* the sets of requests that come together
  MaxChanges,     \* bound: changes of preferences and accounts
  MaxRestarts     \* bound: restarts of processes

ASSUME EmailAssumption ==
  /\ Addressee \in Users
  /\ Campaigns \cap Notices = {} /\ Letters \cap (Campaigns \cup Notices) = {}
  /\ Tests \subseteq Letters
  /\ Scenarios \subseteq SUBSET (Campaigns \cup Notices \cup Letters)
  /\ MaxChanges \in Nat /\ MaxRestarts \in Nat

Requests == Campaigns \cup Notices \cup Letters

\* sendSubscriptionActivated, sendSubscriptionCancelled, sendPaymentFailed: one
\* message with the key of its event, for a user who need not allow it
NoticeKey == [kind |-> "transactional", for |-> Addressee]

\* sendVerificationOtp, sendWelcome, sendPasswordReset, sendRoomInvitation: the key
\* has the code, the user who can be welcomed once, the link or the invitation of
\* the request.  That of a test has the administrator and the id of the request,
\* which each process counts from req-1.
LetterKey(r, id) ==
  IF r \in Tests THEN [kind |-> "test", for |-> id] ELSE [kind |-> "letter", for |-> r]

\* campaign:<id>:<user>
CampaignKey(u) == [kind |-> "marketing", for |-> u]

\* The idempotency keys
Keys == [kind : {"marketing"}, for : Users] \cup {NoticeKey} \cup
        [kind : {"letter"}, for : Letters] \cup [kind : {"test"}, for : RequestIds]

\* marketing_preferences.marketing_allowed; "unset": no row
Preferences == {"unset", "yes", "no"}

\* email_campaigns.status; "none": no row.  Nothing schedules or cancels one.
CampaignStatuses == {"none", "DRAFT", "SENDING", "SENT"}

\* email_campaign_recipients.status and email_events.status; "none": no row.
\* Nothing fills the suppression list of a process, and a message waits nowhere.
DeliveryStatuses == {"none", "SENT", "FAILED"}

\* email_campaign_recipients of the campaign
RecipientRows == [Users -> DeliveryStatuses]

\* EmailService.deliveries when a process starts
NoDeliveries == [k \in Keys |-> "none"]

VARIABLES
  expected,       \* the requests that may come
  preference,     \* marketing_preferences.marketing_allowed, per user
  enabled,        \* the users whose account is ACTIVE
  status,         \* email_campaigns.status
  recipients,     \* email_campaign_recipients.status, per user
  events,         \* email_events.status, per idempotency key
  memory,         \* EmailService.deliveries, per process and key
  delivered,      \* how often the provider has sent the message of a key
  job,            \* per request: how far it is
  changes,
  restarts,
  given,          \* per process, the ids it has given since it started
  listed,         \* history: per request, the users it found eligible
  excused         \* history: the keys that two requests had in hand at once, or
                  \* whose delivery was lost between the provider and email_events

tables == <<status, recipients, events>>
vars == <<expected, preference, enabled, status, recipients, events, memory, delivered, job,
          changes, restarts, given, listed, excused>>

NoKey == [kind |-> "none", for |-> Addressee]
Idle == [pc |-> "idle", process |-> "none", left |-> {}, key |-> NoKey, result |-> "none"]

Init ==
  /\ expected \in Scenarios
  /\ preference \in [Users -> Preferences]
  /\ enabled = Users
  /\ status = "none"
  /\ recipients = [u \in Users |-> "none"]
  /\ events = [k \in Keys |-> "none"]
  /\ memory = [p \in Processes |-> NoDeliveries]
  /\ delivered = [k \in Keys |-> 0]
  /\ job = [r \in Requests |-> Idle]
  /\ changes = 0
  /\ restarts = 0
  /\ given = [p \in Processes |-> {}]
  /\ listed = [r \in Requests |-> {}]
  /\ excused = {}

-----------------------------------------------------------------------------
(* Users *)

\* EmailService.setMarketingPreference
Prefer(u, allowed) ==
  preference' = [preference EXCEPT ![u] = IF allowed THEN "yes" ELSE "no"]

\* POST /v1/account/email-preferences
SetMarketingPreference(u) ==
  /\ changes < MaxChanges
  /\ changes' = changes + 1
  /\ \E allowed \in BOOLEAN : Prefer(u, allowed)
  /\ UNCHANGED <<expected, enabled, tables, memory, delivered, job, restarts, given,
                 listed, excused>>

Disable(u) ==
  /\ u \in enabled /\ changes < MaxChanges
  /\ changes' = changes + 1
  /\ enabled' = enabled \ {u}
  /\ UNCHANGED <<expected, preference, tables, memory, delivered, job, restarts, given,
                 listed, excused>>

\* listPostgresCampaignUsers, filtered by preview: a user without a row has not
\* allowed marketing.
Eligible(u) == u \in enabled /\ preference[u] = "yes"

-----------------------------------------------------------------------------
(* The requests *)

Ended(r) == job[r].pc \in {"done", "failed", "lost"}
Busy(r) == job[r].pc # "idle" /\ ~Ended(r)
Goto(r, pc) == job' = [job EXCEPT ![r].pc = pc]

Outside == UNCHANGED <<expected, preference, enabled, changes, restarts, given>>

\* EmailCampaignService.create
Drafted == status' = "DRAFT"

\* POST /v1/admin/email/campaigns
Create ==
  /\ Campaigns \cap expected # {} /\ status = "none"
  /\ Drafted
  /\ UNCHANGED <<recipients, events, memory, delivered, job, listed, excused>> /\ Outside

\* EmailCampaignStore.get: without a row the answer is 404
Exists == status # "none"

\* POST /v1/admin/email/campaigns/:campaignId/send lists the users
List(r, p) ==
  /\ r \in Campaigns \cap expected /\ job[r].pc = "idle" /\ Exists
  /\ LET users == {u \in Users : Eligible(u)} IN
       /\ job' = [job EXCEPT ![r] = [Idle EXCEPT !.pc = "listed", !.process = p,
                                                 !.left = users]]
       /\ listed' = [listed EXCEPT ![r] = users]
  /\ UNCHANGED <<tables, memory, delivered, excused>> /\ Outside

\* EmailCampaignService.send: no status keeps a campaign from being sent again
Begin(r) ==
  /\ job[r].pc = "listed"
  /\ status' = "SENDING"
  /\ Goto(r, "picking")
  /\ UNCHANGED <<recipients, events, memory, delivered, listed, excused>> /\ Outside

\* getRecipientState
HasRow(u) == recipients[u] # "none"

\* The next user is passed over when there is a row for it already
Pick(r) ==
  /\ job[r].pc = "picking"
  /\ \E u \in job[r].left :
       \/ /\ HasRow(u)
          /\ job' = [job EXCEPT ![r].left = @ \ {u}]
       \/ /\ ~HasRow(u)
          /\ job' = [job EXCEPT ![r].left = @ \ {u}, ![r].pc = "looking",
                                ![r].key = CampaignKey(u)]
  /\ UNCHANGED <<tables, memory, delivered, listed, excused>> /\ Outside

\* The provider delivers an event again until it is accepted, and its claim keeps
\* two deliveries apart (PaymentWebhook)
Notify(r, p) ==
  /\ r \in Notices \cap expected /\ job[r].pc = "idle" /\ \A n \in Notices : ~Busy(n)
  /\ job' = [job EXCEPT ![r] =
              [Idle EXCEPT !.pc = "looking", !.process = p, !.key = NoticeKey]]
  /\ UNCHANGED <<tables, memory, delivered, listed, excused>> /\ Outside

\* POST /v1/admin/email/test, and the routes that end with such a letter
Write(r, p) ==
  /\ r \in Letters \cap expected /\ job[r].pc = "idle"
  /\ \E id \in RequestIds \ given[p] :
       /\ given' = [given EXCEPT ![p] = @ \cup {id}]
       /\ job' = [job EXCEPT ![r] =
                   [Idle EXCEPT !.pc = "looking", !.process = p, !.key = LetterKey(r, id)]]
  /\ UNCHANGED <<tables, memory, delivered, listed, excused, expected, preference, enabled,
                 changes, restarts>>

-----------------------------------------------------------------------------
(* EmailService.send *)

\* A request holds a key from its look at the deliveries until it has saved its own
Holds(r, k) == job[r].pc \in {"resolving", "mailing", "saving"} /\ job[r].key = k

\* Mutant: the memory of the process alone
InMemory(p, k) == memory[p][k]

\* PostgresEmailDeliveryStore.get
Stored(k) == events[k]

\* The delivery that the process remembers, or else that of email_events
Existing(p, k) == IF memory[p][k] # "none" THEN memory[p][k] ELSE Stored(k)

Look(r) ==
  /\ job[r].pc = "looking"
  /\ LET found == Existing(job[r].process, job[r].key) IN
       /\ job' = [job EXCEPT ![r].pc = IF found = "none" THEN "resolving" ELSE "recording",
                             ![r].result = found]
       /\ excused' = IF found = "none" /\ \E q \in Requests : Holds(q, job[r].key)
                      THEN excused \cup {job[r].key} ELSE excused
  /\ UNCHANGED <<tables, memory, delivered, listed>> /\ Outside

\* resolveSender: a sender identity or the fallback, without which there is no service
ResolveSender(r) ==
  /\ job[r].pc = "resolving"
  /\ Goto(r, "mailing")
  /\ UNCHANGED <<tables, memory, delivered, listed, excused>> /\ Outside

\* provider.send, whose answer may be lost though the message is sent
Mail(r) ==
  /\ job[r].pc = "mailing"
  /\ \E sent \in BOOLEAN, answered \in BOOLEAN :
       /\ answered => sent
       /\ delivered' = [delivered EXCEPT ![job[r].key] = IF sent THEN @ + 1 ELSE @]
       /\ job' = [job EXCEPT ![r].pc = "saving",
                             ![r].result = IF answered THEN "SENT" ELSE "FAILED"]
  /\ UNCHANGED <<tables, memory, listed, excused>> /\ Outside

Remember(r) ==
  memory' = [memory EXCEPT ![job[r].process][job[r].key] = job[r].result]

\* saveDelivery: ON CONFLICT DO NOTHING, so that the first delivery stays
Save(r) ==
  /\ job[r].pc = "saving"
  /\ Remember(r)
  /\ events' = [events EXCEPT ![job[r].key] = IF @ = "none" THEN job[r].result ELSE @]
  /\ Goto(r, "recording")
  /\ UNCHANGED <<status, recipients, delivered, listed, excused>> /\ Outside

\* Mutant: no row for a delivery that failed
RowIfSent(u, result) ==
  [recipients EXCEPT ![u] = IF result = "SENT" THEN result ELSE @]

\* saveRecipientState: ON CONFLICT DO UPDATE, so that the last one stays
Row(u, result) == [recipients EXCEPT ![u] = result]

\* A campaign goes on to its next user, whatever came of this one
Record(r) ==
  /\ job[r].pc = "recording"
  /\ IF r \in Campaigns
     THEN /\ recipients' = Row(job[r].key.for, job[r].result)
          /\ job' = [job EXCEPT ![r] = [@ EXCEPT !.pc = "picking", !.key = NoKey,
                                                  !.result = "none"]]
     ELSE Goto(r, "done") /\ UNCHANGED recipients
  /\ UNCHANGED <<status, events, memory, delivered, listed, excused>> /\ Outside

Close(r) ==
  /\ job[r].pc = "picking" /\ job[r].left = {}
  /\ status' = "SENT"
  /\ Goto(r, "done")
  /\ UNCHANGED <<recipients, events, memory, delivered, listed, excused>> /\ Outside

-----------------------------------------------------------------------------
(* Failures *)

\* What is saved is the provider's, and email_events does not know of it
Unsaved(rs) == {job[r].key : r \in {q \in rs : job[q].pc = "saving"}}

\* A statement fails, and the request with it.  The process has remembered the
\* delivery before it tries to save it.
Fail(r) ==
  /\ Busy(r)
  /\ IF job[r].pc = "saving" THEN Remember(r) ELSE UNCHANGED memory
  /\ excused' = excused \cup Unsaved({r})
  /\ job' = [job EXCEPT ![r] = [Idle EXCEPT !.pc = "failed"]]
  /\ UNCHANGED <<tables, delivered, listed>> /\ Outside

\* The process dies with its requests and starts again, its ids from the first
Restart(p) ==
  LET dying == {r \in Requests : Busy(r) /\ job[r].process = p} IN
    /\ restarts < MaxRestarts
    /\ restarts' = restarts + 1
    /\ memory' = [memory EXCEPT ![p] = NoDeliveries]
    /\ given' = [given EXCEPT ![p] = {}]
    /\ job' = [r \in Requests |-> IF r \in dying THEN [Idle EXCEPT !.pc = "lost"]
                                                  ELSE job[r]]
    /\ excused' = excused \cup Unsaved(dying)
    /\ UNCHANGED <<expected, preference, enabled, tables, delivered, changes, listed>>

-----------------------------------------------------------------------------
Next ==
  \/ Create
  \/ \E u \in Users : SetMarketingPreference(u) \/ Disable(u)
  \/ \E p \in Processes :
       Restart(p) \/ \E r \in Requests : List(r, p) \/ Notify(r, p) \/ Write(r, p)
  \/ \E r \in Requests :
       \/ Begin(r) \/ Pick(r) \/ Look(r) \/ ResolveSender(r) \/ Mail(r) \/ Save(r)
       \/ Record(r) \/ Close(r) \/ Fail(r)

Spec == Init /\ [][Next]_vars

-----------------------------------------------------------------------------
(* Properties *)

TypeOK ==
  /\ expected \in Scenarios
  /\ preference \in [Users -> Preferences] /\ enabled \subseteq Users
  /\ status \in CampaignStatuses
  /\ recipients \in RecipientRows /\ events \in [Keys -> DeliveryStatuses]
  /\ memory \in [Processes -> [Keys -> DeliveryStatuses]]
  /\ changes \in 0..MaxChanges /\ restarts \in 0..MaxRestarts
  /\ given \in [Processes -> SUBSET RequestIds]

\* No message is sent twice, by a campaign sent again, an event delivered again
\* or a process that has restarted, unless two requests had it in hand at once or
\* its delivery was lost before it was saved (send, saveDelivery).
MailedOnce == \A k \in Keys : delivered[k] > 1 => k \in excused

\* A send that has answered has a row for each user it had found eligible, also
\* when another send or a restart came in between, and a row that says SENT is
\* of a message that was sent (EmailCampaignService.send, saveRecipientState).
SentCoversList ==
  /\ \A r \in Campaigns : job[r].pc = "done" =>
       \A u \in listed[r] : HasRow(u)
  /\ \A u \in Users : recipients[u] = "SENT" =>
       delivered[CampaignKey(u)] > 0

=============================================================================
