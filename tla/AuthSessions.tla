---------------------------- MODULE AuthSessions ----------------------------
(***************************************************************************)
(* The requests about one account that AuthService and                     *)
(* GoogleDesktopOAuthService (packages/auth/src) serve over the tables of  *)
(* AuthTables, reached by the routes of apps/api/src/auth-route.ts.        *)
(*                                                                         *)
(* A request is a program: the sequence of statements it sends, each with  *)
(* the synchronous code up to the next one.  Between two statements any    *)
(* other request may run, so what a request has read may be old when it    *)
(* writes it back.                                                         *)
(***************************************************************************)
EXTENDS AuthTables, Sequences

CONSTANT
  Scenarios       \* each [user, identity, until, calls]: the rows at first, the
                  \* end of the clock, and the requests that may come

VARIABLES
  scenario,
  call,           \* per request: how far it is in its program and what it has read
  before,         \* history: the requests that had ended when this one began
  chain           \* history: the requests a session goes back to, up to its sign-in

history == <<before, chain>>
vars == <<now, tables, scenario, call, history>>

-----------------------------------------------------------------------------
(* The programs *)

Authenticate == <<"findAccess", "activeUser", "liveDevice", "touchDevice">>
RevokeAll == <<"listSessions", "revokeListed">>
IssueOtp == <<"activeOtp", "retireOtp", "saveOtp">>

Register == <<"emailFree", "saveUser", "saveToken">> \o IssueOtp \o <<"grantSignup", "mail">>
ResendOtp == <<"unverified", "cooldown">> \o IssueOtp
VerifyOtp == <<"unverified", "compareOtp", "countWrong", "updateUser", "useOtp",
               "mail">>
VerifyEmail == <<"readToken", "requireUser", "updateUser", "useToken">>
Login == <<"consume", "openWindow", "throttle", "password", "resetWindow", "saveDevice",
           "saveSession">>
Refresh == <<"findRefresh", "activeUser", "liveDevice", "revokeSession", "touchDevice",
             "saveSession">>
Logout == Authenticate \o <<"revokeSession">>
LogoutAll == Authenticate \o RevokeAll
RevokeDevice == Authenticate \o <<"targetDevice", "revokeDevice">> \o RevokeAll
Disable == Authenticate \o <<"requireUser", "updateUser">> \o RevokeAll
RequestReset == <<"findUser", "saveToken", "mail">>
ResetPassword == <<"readToken", "requireUser", "updateUser", "useToken">> \o RevokeAll
AssignPlan == <<"requireUser", "updateUser">>
Start == <<"saveToken">>
Callback == <<"claimToken", "saveToken">>
External == <<"findIdentity", "findByEmail", "createUser", "linked", "saveIdentity",
              "saveDevice", "saveSession">>
Exchange == <<"readToken", "claimToken">> \o External \o <<"grantSignup">>

\* registerAuthRoutes, in its order.  "me" stands for every route that only
\* authenticates.
SignUpRoutes ==
  [register |-> Register, verifyEmail |-> VerifyEmail, verifyOtp |-> VerifyOtp,
   resend |-> ResendOtp]
SessionRoutes ==
  [login |-> Login, refresh |-> Refresh, me |-> Authenticate, logout |-> Logout,
   logoutAll |-> LogoutAll, revokeDevice |-> RevokeDevice, disable |-> Disable]
RecoveryRoutes ==
  [requestReset |-> RequestReset, reset |-> ResetPassword,
   start |-> Start, callback |-> Callback, exchange |-> Exchange]

\* A plan is assigned by the payment webhooks.
Kinds == DOMAIN SignUpRoutes \cup DOMAIN SessionRoutes \cup DOMAIN RecoveryRoutes
         \cup {"plan"}

Program ==
  [kind \in Kinds |->
     IF kind \in DOMAIN SignUpRoutes THEN SignUpRoutes[kind]
     ELSE IF kind \in DOMAIN SessionRoutes THEN SessionRoutes[kind]
     ELSE IF kind \in DOMAIN RecoveryRoutes THEN RecoveryRoutes[kind]
     ELSE AssignPlan]

\* What the token of a request is, for those that present one
TokenOf == [verifyEmail |-> "link", reset |-> "reset", callback |-> "state",
            exchange |-> "code"]

\* What a request brings: a token of an earlier one (or a code), and a password, a
\* device or a plan.
Presentable(q) ==
  /\ q.kind \in Kinds
  /\ q.kind # "verifyOtp" => q.of \in Ids
  /\ q.kind = "revokeDevice" => q.with \in Ids
  /\ q.kind = "login" => q.with \in {"old", "new", "wrong"}
  /\ q.kind = "plan" => q.with \in {"FREE", "PRO"}

ASSUME ScenariosAssumption ==
  \A s \in Scenarios :
    /\ s.user \in UserRow \cup {NoRow}
    /\ s.identity \in BOOLEAN
    /\ s.until \in 0..MaxTime
    /\ DOMAIN s.calls \subseteq Calls
    /\ \A c \in DOMAIN s.calls : Presentable(s.calls[c])

Request(c) == scenario.calls[c]
Kind(c) == Request(c).kind
Expected == DOMAIN scenario.calls
Statements(c) == Program[Kind(c)]

\* A request that holds nothing it has read, or no longer does
Empty(state, compared) ==
  [state |-> state, at |-> 0, next |-> 0, user |-> NoRow, session |-> NoRow,
   device |-> "none", otp |-> NoRow, listed |-> {}, compared |-> compared]

Init ==
  /\ scenario \in Scenarios
  /\ now = 0
  /\ user = scenario.user
  /\ identity = scenario.identity
  /\ granted = (user # NoRow)
  /\ devices = [d \in Ids |-> IF d = Home /\ user # NoRow /\ user.verified
                               THEN "active" ELSE "none"]
  /\ sessions = [s \in Ids |-> IF devices[s] = "active"
                                THEN [device |-> s, at |-> 0, revoked |-> FALSE] ELSE NoRow]
  /\ otps = [o \in Ids |-> IF o = Home /\ user # NoRow
                            THEN [at |-> 0, attempts |-> 0, used |-> user.verified] ELSE NoRow]
  /\ tokens = [t \in Ids |-> IF t = Home /\ user # NoRow
                              THEN [at |-> 0, used |-> user.verified] ELSE NoRow]
  /\ window = NoRow
  /\ lockout = NoFailure
  /\ mailed = {Home}
  /\ call = [c \in Calls |-> Empty("idle", NoRow)]
  /\ before = [c \in Calls |-> {}]
  /\ chain = [s \in Ids |-> {s}]

-----------------------------------------------------------------------------
(* Going on and refusing *)

Over(c) == call[c].state \in {"ok", "refused"}

Frame == UNCHANGED <<now, scenario, history>>

Skip(c, m, n) ==
  IF m.next + n > Len(Statements(c))
  THEN Empty("ok", m.compared)
  ELSE [m EXCEPT !.next = @ + n]

Leap(c, m, n) == call' = [call EXCEPT ![c] = Skip(c, m, n)]
Continue(c, m) == Leap(c, m, 1)
Refuse(c) == call' = [call EXCEPT ![c] = Empty("refused", call[c].compared)]

At(c, step) == call[c].state = "running" /\ Statements(c)[call[c].next] = step

\* Go on with what has been read, or answer with an error.
Check(c, holds, m) ==
  /\ IF holds THEN Continue(c, m) ELSE Refuse(c)
  /\ UNCHANGED tables

\* A client has a token when the request that makes it has answered, and a
\* code when it was mailed.
Known(c) ==
  LET x == Request(c).of IN
  x \in Calls => call[x].state = "ok" /\ (Kind(c) = "verifyOtp" => x \in mailed)

Begin(c) ==
  /\ c \in Expected
  /\ call[c].state = "idle"
  /\ Known(c)
  /\ call' = [call EXCEPT ![c].state = "running", ![c].next = 1,
                          ![c].at = IF Kind(c) = "login" THEN now ELSE 0]
  /\ before' = [before EXCEPT ![c] = {Home} \cup {k \in Calls : Over(k)}]
  /\ UNCHANGED <<now, tables, scenario, chain>>

-----------------------------------------------------------------------------
(* Sessions and devices *)

FindAccess(c) ==
  LET row == sessions[Request(c).of] IN
  /\ At(c, "findAccess")
  /\ Check(c, row # NoRow /\ ~Expired(row, "access"), [call[c] EXCEPT !.session = row])
  /\ Frame

RefreshesAny(row) == row # NoRow /\ ~Expired(row, "refresh")
Refreshes(row) == row # NoRow /\ ~row.revoked /\ ~Expired(row, "refresh")

FindRefresh(c) ==
  LET row == sessions[Request(c).of] IN
  /\ At(c, "findRefresh")
  /\ Check(c, Refreshes(row), [call[c] EXCEPT !.session = row])
  /\ Frame

\* authenticate sees only here that its session is revoked.
ActiveUser(c) ==
  /\ At(c, "activeUser")
  /\ Check(c, /\ user # NoRow /\ user.status = "ACTIVE"
              /\ Kind(c) # "refresh" => ~call[c].session.revoked,
           [call[c] EXCEPT !.user = user])
  /\ Frame

LiveDevice(c) ==
  LET d == call[c].session.device IN
  /\ At(c, "liveDevice")
  /\ Check(c, devices[d] = "active", [call[c] EXCEPT !.device = devices[d]])
  /\ Frame

\* updateDevice with the device that was read and lastSeenAt = now
TouchDevice(c) ==
  /\ At(c, "touchDevice")
  /\ UpdateDevice(call[c].session.device, call[c].device)
  /\ Continue(c, call[c])
  /\ Frame

\* The session itself, by logout and by refresh
RevokeSession(c) ==
  /\ At(c, "revokeSession")
  /\ UpdateSession(Request(c).of)
  /\ Continue(c, call[c])
  /\ Frame

\* createSession.  A refresh keeps the device, a sign-in has made one.
NewSession(c) ==
  LET refreshed == Kind(c) = "refresh" IN
  /\ At(c, "saveSession")
  /\ SaveSession(c, [device |-> IF refreshed THEN call[c].session.device ELSE c,
                     at |-> IF Kind(c) = "login" THEN call[c].at ELSE now,
                     revoked |-> FALSE])
  /\ chain' = [chain EXCEPT ![c] = IF refreshed THEN {c} \cup chain[Request(c).of] ELSE {c}]
  /\ Continue(c, call[c])
  /\ UNCHANGED <<now, scenario, before>>

TargetDevice(c) ==
  /\ At(c, "targetDevice")
  /\ Check(c, devices[Request(c).with] # "none", call[c])
  /\ Frame

WriteRevoked(c) ==
  /\ At(c, "revokeDevice")
  /\ UpdateDevice(Request(c).with, "revoked")
  /\ Continue(c, call[c])
  /\ Frame

\* The sessions a request revokes: all, or those of one device
Covers(c, s) == Kind(c) = "revokeDevice" => sessions[s].device = Request(c).with

Listed(c) == {s \in LiveSessions : Covers(c, s)}

ListSessions(c) ==
  LET listed == Listed(c) IN
  /\ At(c, "listSessions")
  /\ Leap(c, [call[c] EXCEPT !.listed = listed], IF listed = {} THEN 2 ELSE 1)
  /\ UNCHANGED tables
  /\ Frame

\* Promise.all over the list, in any order
RevokeListed(c) ==
  /\ At(c, "revokeListed")
  /\ \E s \in call[c].listed :
       LET m == [call[c] EXCEPT !.listed = @ \ {s}] IN
       /\ UpdateSession(s)
       /\ IF m.listed = {} THEN Continue(c, m) ELSE call' = [call EXCEPT ![c] = m]
  /\ Frame

-----------------------------------------------------------------------------
(* The user's row *)

EmailFree(c) ==
  /\ At(c, "emailFree")
  /\ Check(c, user = NoRow, call[c])
  /\ Frame

NewUser(c) ==
  [status |-> "ACTIVE", verified |-> (Kind(c) = "exchange"),
   password |-> IF Kind(c) = "exchange" THEN "none" ELSE "old", plan |-> "FREE"]

CreateUser(c) ==
  /\ At(c, "saveUser") \/ At(c, "createUser")
  /\ \/ user = NoRow /\ SaveUser(NewUser(c)) /\ Continue(c, call[c])
     \/ user # NoRow /\ Refuse(c) /\ UNCHANGED tables
  /\ Frame

\* findUserByEmail where an account that is verified already has nothing to do
Unverified(c) ==
  /\ At(c, "unverified")
  /\ Check(c, user # NoRow /\ ~user.verified
                /\ (Kind(c) = "resend" => user.status = "ACTIVE"),
           [call[c] EXCEPT !.user = user])
  /\ Frame

FindUser(c) ==
  /\ At(c, "findUser")
  /\ Check(c, user # NoRow /\ user.status = "ACTIVE", call[c])
  /\ Frame

RequireUser(c) ==
  /\ At(c, "requireUser")
  /\ Check(c, user # NoRow, [call[c] EXCEPT !.user = user])
  /\ Frame

\* { ...user, what the request changes }
Changed(c) ==
  [call[c].user EXCEPT
     !.verified = @ \/ Kind(c) \in {"verifyOtp", "verifyEmail"},
     !.password = IF Kind(c) = "reset" THEN "new" ELSE @,
     !.status   = IF Kind(c) = "disable" THEN "DISABLED" ELSE @,
     !.plan     = IF Kind(c) = "plan" THEN Request(c).with ELSE @]

WriteUser(c) ==
  /\ At(c, "updateUser")
  /\ UpdateUser(Changed(c))
  /\ Continue(c, call[c])
  /\ Frame

GrantsSignup(c) ==
  /\ At(c, "grantSignup")
  /\ GrantSignup
  /\ Continue(c, call[c])
  /\ Frame

-----------------------------------------------------------------------------
(* Links, codes and states *)

\* save of a verification link, a reset token, a state or a desktop code
MakeToken(c) ==
  /\ At(c, "saveToken")
  /\ SaveToken(c)
  /\ Continue(c, call[c])
  /\ Frame

ReadToken(c) ==
  /\ At(c, "readToken")
  /\ Check(c, /\ Usable(Request(c).of, TokenOf[Kind(c)])
              /\ Kind(c) = "exchange" => Request(c).with = "verifier",
           call[c])
  /\ Frame

WriteUsed(c) ==
  /\ At(c, "useToken")
  /\ UseToken(Request(c).of)
  /\ Continue(c, call[c])
  /\ Frame

MailCode(c) ==
  /\ At(c, "mail")
  /\ Mail(c)
  /\ Continue(c, call[c])
  /\ Frame

\* One UPDATE reads the row and marks it.
ClaimToken(c) ==
  LET t == Request(c).of IN
  /\ At(c, "claimToken")
  /\ \/ Claimable(t, TokenOf[Kind(c)]) /\ UseToken(t) /\ Continue(c, call[c])
     \/ ~Claimable(t, TokenOf[Kind(c)]) /\ Refuse(c) /\ UNCHANGED tables
  /\ Frame

\* exchangeCode of the provider fails after the state is claimed.
ProviderFails(c) ==
  /\ At(c, "saveToken") /\ Kind(c) = "callback"
  /\ Refuse(c)
  /\ UNCHANGED tables
  /\ Frame

Cooldown(c) ==
  /\ At(c, "cooldown")
  /\ Check(c, \A o \in ActiveOtps : Expired(otps[o], "cooldown"), call[c])
  /\ Frame

\* issueEmailOtp marks the code that is open as used.
ReadActiveOtp(c) ==
  /\ At(c, "activeOtp")
  /\ \/ ActiveOtps = {} /\ Leap(c, call[c], 2)
     \/ \E o \in ActiveOtps :
          Continue(c, [call[c] EXCEPT !.otp = [id |-> o, row |-> otps[o]]])
  /\ UNCHANGED tables
  /\ Frame

RetireOtp(c) ==
  LET read == call[c].otp IN
  /\ At(c, "retireOtp") \/ At(c, "useOtp")
  /\ UpdateOtp(read.id, [read.row EXCEPT !.used = TRUE])
  /\ Continue(c, call[c])
  /\ Frame

MakeOtp(c) ==
  /\ At(c, "saveOtp")
  /\ SaveOtp(c)
  /\ Continue(c, call[c])
  /\ Frame

Spent(row) == row.attempts > OtpMax
Exceeded(row) == row.attempts >= OtpMax

\* A right code leads to the update of the user, a wrong one is counted.
CompareOtp(c) ==
  /\ At(c, "compareOtp")
  /\ \/ ActiveOtps = {} /\ Refuse(c)
     \/ \E o \in ActiveOtps :
          LET m == [call[c] EXCEPT !.otp = [id |-> o, row |-> otps[o]]] IN
          \/ (Expired(otps[o], "otp") \/ Exceeded(otps[o])) /\ Refuse(c)
          \/ /\ ~Expired(otps[o], "otp") /\ ~Exceeded(otps[o])
             /\ IF Request(c).of = o THEN Leap(c, m, 2)
                                     ELSE Continue(c, [m EXCEPT !.compared = o])
  /\ UNCHANGED tables
  /\ Frame

CountWrong(c) ==
  LET read == call[c].otp IN
  /\ At(c, "countWrong")
  /\ UpdateOtp(read.id, [read.row EXCEPT !.attempts = @ + 1])
  /\ Refuse(c)
  /\ Frame

-----------------------------------------------------------------------------
(* Signing in *)

\* login takes the time once, when it begins.
\* Without a row there is nothing to lock: the INSERT is a step of its own.
Consume(c) ==
  LET at == call[c].at IN
  /\ At(c, "consume")
  /\ \/ window = NoRow /\ Continue(c, call[c]) /\ UNCHANGED tables
     \/ window # NoRow /\ WindowOver(at) /\ OpenWindow(at) /\ Leap(c, call[c], 2)
     \/ ~WindowOver(at) /\ window.count < LoginMax /\ CountInWindow /\ Leap(c, call[c], 2)
     \/ ~WindowOver(at) /\ window.count >= LoginMax /\ Refuse(c) /\ UNCHANGED tables
  /\ Frame

OpensWindow(c) ==
  /\ At(c, "openWindow")
  /\ OpenWindow(call[c].at)
  /\ Continue(c, call[c])
  /\ Frame

Throttle(c) ==
  /\ At(c, "throttle")
  /\ \/ lockout.until > call[c].at /\ Refuse(c) /\ UNCHANGED tables
     \/ /\ lockout.until <= call[c].at
        /\ SetLockout(IF lockout.until = 0 THEN lockout ELSE NoFailure)
        /\ Continue(c, call[c])
  /\ Frame

RightPassword(c) == user # NoRow /\ user.password = Request(c).with

Password(c) ==
  /\ At(c, "password")
  /\ \/ /\ RightPassword(c)
        /\ SetLockout(NoFailure)
        /\ Continue(c, [call[c] EXCEPT !.user = user])
     \/ /\ ~RightPassword(c)
        /\ SetLockout(Failed(lockout, call[c].at))
        /\ call' = [call EXCEPT ![c] = Empty("refused", call[c].at)]
  /\ Frame

MaySignInVerified(row) == row.verified
MaySignIn(row) == row.status = "ACTIVE" /\ row.verified

ClearWindow(c) ==
  /\ At(c, "resetWindow")
  /\ ResetWindow
  /\ IF MaySignIn(call[c].user) THEN Continue(c, call[c]) ELSE Refuse(c)
  /\ Frame

MakeDevice(c) ==
  /\ At(c, "saveDevice")
  /\ SaveDevice(c)
  /\ Continue(c, call[c])
  /\ Frame

\* loginExternal looks the identity up, then the address; a disabled account
\* is refused as soon as it is read.
FindIdentity(c) ==
  /\ At(c, "findIdentity")
  /\ \/ ~identity /\ Continue(c, call[c])
     \/ identity /\ user.status = "ACTIVE" /\ Leap(c, call[c], 3)
     \/ identity /\ user.status = "DISABLED" /\ Refuse(c)
  /\ UNCHANGED tables
  /\ Frame

FindByEmail(c) ==
  /\ At(c, "findByEmail")
  /\ \/ user = NoRow /\ Continue(c, call[c])
     \/ user # NoRow /\ user.status = "ACTIVE" /\ Leap(c, call[c], 2)
     \/ user # NoRow /\ user.status = "DISABLED" /\ Refuse(c)
  /\ UNCHANGED tables
  /\ Frame

\* "existing" is looked up again.
Linked(c) ==
  /\ At(c, "linked")
  /\ Leap(c, call[c], IF identity THEN 2 ELSE 1)
  /\ UNCHANGED tables
  /\ Frame

\* INSERT ... ON CONFLICT DO NOTHING
LinkIdentity(c) ==
  /\ At(c, "saveIdentity")
  /\ SaveIdentity
  /\ Continue(c, call[c])
  /\ Frame

Tick ==
  /\ now < scenario.until
  /\ now' = now + 1
  /\ UNCHANGED <<tables, scenario, call, history>>

-----------------------------------------------------------------------------
Next ==
  \/ \E c \in Calls : Begin(c)
  \/ \E c \in Calls : FindAccess(c)
  \/ \E c \in Calls : FindRefresh(c)
  \/ \E c \in Calls : ActiveUser(c)
  \/ \E c \in Calls : LiveDevice(c)
  \/ \E c \in Calls : TouchDevice(c)
  \/ \E c \in Calls : RevokeSession(c)
  \/ \E c \in Calls : NewSession(c)
  \/ \E c \in Calls : TargetDevice(c)
  \/ \E c \in Calls : WriteRevoked(c)
  \/ \E c \in Calls : ListSessions(c)
  \/ \E c \in Calls : RevokeListed(c)
  \/ \E c \in Calls : EmailFree(c)
  \/ \E c \in Calls : CreateUser(c)
  \/ \E c \in Calls : Unverified(c)
  \/ \E c \in Calls : FindUser(c)
  \/ \E c \in Calls : RequireUser(c)
  \/ \E c \in Calls : WriteUser(c)
  \/ \E c \in Calls : GrantsSignup(c)
  \/ \E c \in Calls : MakeToken(c)
  \/ \E c \in Calls : ReadToken(c)
  \/ \E c \in Calls : WriteUsed(c)
  \/ \E c \in Calls : MailCode(c)
  \/ \E c \in Calls : ClaimToken(c)
  \/ \E c \in Calls : ProviderFails(c)
  \/ \E c \in Calls : Cooldown(c)
  \/ \E c \in Calls : ReadActiveOtp(c)
  \/ \E c \in Calls : RetireOtp(c)
  \/ \E c \in Calls : MakeOtp(c)
  \/ \E c \in Calls : CompareOtp(c)
  \/ \E c \in Calls : CountWrong(c)
  \/ \E c \in Calls : Consume(c)
  \/ \E c \in Calls : OpensWindow(c)
  \/ \E c \in Calls : Throttle(c)
  \/ \E c \in Calls : Password(c)
  \/ \E c \in Calls : ClearWindow(c)
  \/ \E c \in Calls : MakeDevice(c)
  \/ \E c \in Calls : FindIdentity(c)
  \/ \E c \in Calls : FindByEmail(c)
  \/ \E c \in Calls : Linked(c)
  \/ \E c \in Calls : LinkIdentity(c)
  \/ Tick

Spec == Init /\ [][Next]_vars

-----------------------------------------------------------------------------
(* Properties *)

Answered(kinds) == {c \in Expected : call[c].state = "ok" /\ Kind(c) \in kinds}

Began(c) == call[c].state # "idle"

\* Neither of two requests had ended when the other began.
Overlap(k, c) ==
  /\ {k, c} \subseteq Expected /\ k # c
  /\ Began(k) /\ Began(c)
  /\ k \notin before[c] /\ c \notin before[k]

\* Once a request that ends sessions has answered (logoutAll, disableAccount,
\* resetPassword, and revokeDevice for the sessions of its device), a session
\* is valid only if it goes back to a sign-in made afterwards, or if a sign-in
\* or a refresh it goes back to was served beside that request
\* (auth/service.ts:316-354, 370-379, 459-467; refresh at 278-292 takes no revoked
\* token).
SweepEndsSessions ==
  \A c \in Answered({"logoutAll", "disable", "reset", "revokeDevice"}) :
    \A s \in {t \in LiveSessions : Covers(c, t)} :
      \/ \E k \in chain[s] : Overlap(k, c)
      \/ \A k \in chain[s] : k \in Calls /\ c \in before[k]

OnDevice(k, d) ==
  LET s == Request(k).of IN
  /\ Kind(k) \in {"me", "refresh", "logout", "logoutAll", "revokeDevice", "disable"}
  /\ SessionExists(s) /\ sessions[s].device = d

\* A device stays revoked and an account disabled, unless a request that had
\* read the row before writes it back: one of the same device, or one of those
\* that write the user.  A disabled account gets no session by a sign-in that
\* begins afterwards, with its password or with Google
\* (auth/service.ts:231-264, 388-430).
RevocationHolds ==
  /\ \A c \in Answered({"revokeDevice"}) :
       \/ devices[Request(c).with] = "revoked"
       \/ \E k \in Expected : Overlap(k, c) /\ OnDevice(k, Request(c).with)
  /\ \A c \in Answered({"disable"}) :
       \/ /\ user.status = "DISABLED"
          /\ \A s \in LiveSessions : \E k \in chain[s] : Overlap(k, c)
       \/ \E k \in Expected :
            Overlap(k, c) /\ Kind(k) \in {"verifyOtp", "verifyEmail", "reset", "plan"}

\* A state of a Google sign-in leads to one desktop code and a desktop code to
\* one session, whatever runs beside it: both are claimed.  A link or a reset
\* token works once, unless two requests with it were served at a time: it is
\* read first and marked later (auth/oauth.ts:245-290, service.ts:220-229,
\* 370-379).
TokensUsedOnce ==
  \A k, c \in Answered(DOMAIN TokenOf) :
    (k # c /\ Kind(k) = Kind(c) /\ Request(k).of = Request(c).of) =>
      Overlap(k, c) /\ Kind(k) \in {"verifyEmail", "reset"}

\* At most maxAttempts wrong values are compared with one e-mailed code and at
\* most loginMaxFailures wrong passwords are tried at one time, unless two of
\* those requests were served at a time (the attempts that both have read are
\* written by each) or a request was over that brought a right password, which
\* clears the failures even of an account that may not sign in yet
\* (auth/service.ts:198-218, 231-276).
GuessesBounded ==
  /\ \A o \in Ids :
       LET wrong == {c \in Expected : Kind(c) = "verifyOtp" /\ call[c].compared = o} IN
       Cardinality(wrong) > OtpMax => \E k, c \in wrong : Overlap(k, c)
  /\ \A t \in 0..MaxTime :
       LET wrong == {c \in Expected : Kind(c) = "login" /\ call[c].compared = t} IN
       Cardinality(wrong) > LoginMax =>
         \/ \E k \in Expected, c \in wrong : Kind(k) = "login" /\ Overlap(k, c)
         \/ \E k \in Expected :
              Kind(k) = "login" /\ Request(k).with # "wrong" /\ Over(k)

\* docs/superpowers/plans/2026-09-20-astra-v1-continuation.md:27 says that the
\* refresh of a revoked device cannot authenticate: once revokeDevice has
\* answered, no session of the device is valid (auth/service.ts:332-345).
RevokedDeviceIsOut ==
  \A c \in Answered({"revokeDevice"}) :
    \A s \in LiveSessions : sessions[s].device # Request(c).with
=============================================================================
