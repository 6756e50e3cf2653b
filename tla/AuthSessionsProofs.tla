------------------------- MODULE AuthSessionsProofs -------------------------
(***************************************************************************)
(* Proofs about AuthSessions, for any set of requests, any lifetimes and   *)
(* limits, and any scenarios a request of which is one the routes accept.  *)
(*                                                                         *)
(* Every statement of a program keeps its place in it (Placed), and every  *)
(* step moves its request forward or ends it (Does).  Base says what the   *)
(* rows and the requests have to do with each other: types, what a         *)
(* request has read is there when it writes, a row is made once, and the   *)
(* requests before another are over.  On it rest the five parts that the   *)
(* properties need: TokensSpent, Swept, DeviceRevoked, UserDisabled, and   *)
(* CodesGuessed with PasswordsTried.                                       *)
(***************************************************************************)
EXTENDS AuthSessions, FiniteSetTheorems, TLAPS

-----------------------------------------------------------------------------
(* The programs *)

LEMMA KindsAre ==
  Kinds = {"register", "verifyEmail", "verifyOtp", "resend", "login", "refresh", "me", "logout",
           "logoutAll", "revokeDevice", "disable", "requestReset", "reset", "start", "callback",
           "exchange", "plan"}
BY DEF Kinds, SignUpRoutes, SessionRoutes, RecoveryRoutes

LEMMA ProgramsAre ==
  /\ Len(Program["register"]) = 8 /\ Program["register"][1] = "emailFree"
  /\ Program["register"][2] = "saveUser" /\ Program["register"][3] = "saveToken"
  /\ Program["register"][4] = "activeOtp" /\ Program["register"][5] = "retireOtp"
  /\ Program["register"][6] = "saveOtp" /\ Program["register"][7] = "grantSignup"
  /\ Program["register"][8] = "mail"
  /\ Len(Program["resend"]) = 5 /\ Program["resend"][1] = "unverified"
  /\ Program["resend"][2] = "cooldown" /\ Program["resend"][3] = "activeOtp"
  /\ Program["resend"][4] = "retireOtp" /\ Program["resend"][5] = "saveOtp"
  /\ Len(Program["verifyOtp"]) = 6 /\ Program["verifyOtp"][1] = "unverified"
  /\ Program["verifyOtp"][2] = "compareOtp" /\ Program["verifyOtp"][3] = "countWrong"
  /\ Program["verifyOtp"][4] = "updateUser" /\ Program["verifyOtp"][5] = "useOtp"
  /\ Program["verifyOtp"][6] = "mail"
  /\ Len(Program["verifyEmail"]) = 4 /\ Program["verifyEmail"][1] = "readToken"
  /\ Program["verifyEmail"][2] = "requireUser"
  /\ Program["verifyEmail"][3] = "updateUser" /\ Program["verifyEmail"][4] = "useToken"
  /\ Len(Program["login"]) = 7 /\ Program["login"][1] = "consume"
  /\ Program["login"][2] = "openWindow" /\ Program["login"][3] = "throttle"
  /\ Program["login"][4] = "password" /\ Program["login"][5] = "resetWindow"
  /\ Program["login"][6] = "saveDevice" /\ Program["login"][7] = "saveSession"
  /\ Len(Program["refresh"]) = 6 /\ Program["refresh"][1] = "findRefresh"
  /\ Program["refresh"][2] = "activeUser" /\ Program["refresh"][3] = "liveDevice"
  /\ Program["refresh"][4] = "revokeSession" /\ Program["refresh"][5] = "touchDevice"
  /\ Program["refresh"][6] = "saveSession"
  /\ Len(Program["me"]) = 4 /\ Program["me"][1] = "findAccess"
  /\ Program["me"][2] = "activeUser" /\ Program["me"][3] = "liveDevice"
  /\ Program["me"][4] = "touchDevice"
  /\ Len(Program["logout"]) = 5 /\ Program["logout"][1] = "findAccess"
  /\ Program["logout"][2] = "activeUser" /\ Program["logout"][3] = "liveDevice"
  /\ Program["logout"][4] = "touchDevice" /\ Program["logout"][5] = "revokeSession"
  /\ Len(Program["logoutAll"]) = 6 /\ Program["logoutAll"][1] = "findAccess"
  /\ Program["logoutAll"][2] = "activeUser" /\ Program["logoutAll"][3] = "liveDevice"
  /\ Program["logoutAll"][4] = "touchDevice" /\ Program["logoutAll"][5] = "listSessions"
  /\ Program["logoutAll"][6] = "revokeListed"
  /\ Len(Program["revokeDevice"]) = 8 /\ Program["revokeDevice"][1] = "findAccess"
  /\ Program["revokeDevice"][2] = "activeUser"
  /\ Program["revokeDevice"][3] = "liveDevice"
  /\ Program["revokeDevice"][4] = "touchDevice"
  /\ Program["revokeDevice"][5] = "targetDevice"
  /\ Program["revokeDevice"][6] = "revokeDevice"
  /\ Program["revokeDevice"][7] = "listSessions"
  /\ Program["revokeDevice"][8] = "revokeListed"
  /\ Len(Program["disable"]) = 8 /\ Program["disable"][1] = "findAccess"
  /\ Program["disable"][2] = "activeUser" /\ Program["disable"][3] = "liveDevice"
  /\ Program["disable"][4] = "touchDevice" /\ Program["disable"][5] = "requireUser"
  /\ Program["disable"][6] = "updateUser" /\ Program["disable"][7] = "listSessions"
  /\ Program["disable"][8] = "revokeListed"
  /\ Len(Program["requestReset"]) = 3 /\ Program["requestReset"][1] = "findUser"
  /\ Program["requestReset"][2] = "saveToken" /\ Program["requestReset"][3] = "mail"
  /\ Len(Program["reset"]) = 6 /\ Program["reset"][1] = "readToken"
  /\ Program["reset"][2] = "requireUser" /\ Program["reset"][3] = "updateUser"
  /\ Program["reset"][4] = "useToken" /\ Program["reset"][5] = "listSessions"
  /\ Program["reset"][6] = "revokeListed"
  /\ Len(Program["start"]) = 1 /\ Program["start"][1] = "saveToken"
  /\ Len(Program["callback"]) = 2 /\ Program["callback"][1] = "claimToken"
  /\ Program["callback"][2] = "saveToken"
  /\ Len(Program["exchange"]) = 10 /\ Program["exchange"][1] = "readToken"
  /\ Program["exchange"][2] = "claimToken" /\ Program["exchange"][3] = "findIdentity"
  /\ Program["exchange"][4] = "findByEmail" /\ Program["exchange"][5] = "createUser"
  /\ Program["exchange"][6] = "linked" /\ Program["exchange"][7] = "saveIdentity"
  /\ Program["exchange"][8] = "saveDevice" /\ Program["exchange"][9] = "saveSession"
  /\ Program["exchange"][10] = "grantSignup"
  /\ Len(Program["plan"]) = 2 /\ Program["plan"][1] = "requireUser"
  /\ Program["plan"][2] = "updateUser"
<1>1. \A kind \in DOMAIN SignUpRoutes : Program[kind] = SignUpRoutes[kind]
  BY DEF Program, Kinds
<1>2. \A kind \in DOMAIN SessionRoutes : Program[kind] = SessionRoutes[kind]
  BY DEF Program, Kinds, SignUpRoutes, SessionRoutes
<1>3. \A kind \in DOMAIN RecoveryRoutes : Program[kind] = RecoveryRoutes[kind]
  BY DEF Program, Kinds, SignUpRoutes, SessionRoutes, RecoveryRoutes
<1>4. Program["plan"] = AssignPlan
  BY DEF Program, Kinds, SignUpRoutes, SessionRoutes, RecoveryRoutes
<1>5. /\ Program["register"] = Register
      /\ Program["resend"] = ResendOtp
      /\ Program["verifyOtp"] = VerifyOtp
      /\ Program["verifyEmail"] = VerifyEmail
  BY <1>1 DEF SignUpRoutes
<1>6. /\ Len(Register) = 8 /\ Register[1] = "emailFree" /\ Register[2] = "saveUser"
      /\ Register[3] = "saveToken" /\ Register[4] = "activeOtp"
      /\ Register[5] = "retireOtp" /\ Register[6] = "saveOtp"
      /\ Register[7] = "grantSignup" /\ Register[8] = "mail"
  BY DEF Register, IssueOtp
<1>7. /\ Len(ResendOtp) = 5 /\ ResendOtp[1] = "unverified" /\ ResendOtp[2] = "cooldown"
      /\ ResendOtp[3] = "activeOtp" /\ ResendOtp[4] = "retireOtp"
      /\ ResendOtp[5] = "saveOtp"
  BY DEF ResendOtp, IssueOtp
<1>8. /\ Len(VerifyOtp) = 6 /\ VerifyOtp[1] = "unverified"
      /\ VerifyOtp[2] = "compareOtp" /\ VerifyOtp[3] = "countWrong"
      /\ VerifyOtp[4] = "updateUser" /\ VerifyOtp[5] = "useOtp" /\ VerifyOtp[6] = "mail"
  BY DEF VerifyOtp
<1>9. /\ Len(VerifyEmail) = 4 /\ VerifyEmail[1] = "readToken"
      /\ VerifyEmail[2] = "requireUser" /\ VerifyEmail[3] = "updateUser"
      /\ VerifyEmail[4] = "useToken"
  BY DEF VerifyEmail
<1>10. /\ Program["login"] = Login
      /\ Program["refresh"] = Refresh
      /\ Program["me"] = Authenticate
      /\ Program["logout"] = Logout
      /\ Program["logoutAll"] = LogoutAll
      /\ Program["revokeDevice"] = RevokeDevice
      /\ Program["disable"] = Disable
  BY <1>2 DEF SessionRoutes
<1>11. /\ Len(Login) = 7 /\ Login[1] = "consume" /\ Login[2] = "openWindow"
       /\ Login[3] = "throttle" /\ Login[4] = "password" /\ Login[5] = "resetWindow"
       /\ Login[6] = "saveDevice" /\ Login[7] = "saveSession"
  BY DEF Login
<1>12. /\ Len(Refresh) = 6 /\ Refresh[1] = "findRefresh" /\ Refresh[2] = "activeUser"
       /\ Refresh[3] = "liveDevice" /\ Refresh[4] = "revokeSession"
       /\ Refresh[5] = "touchDevice" /\ Refresh[6] = "saveSession"
  BY DEF Refresh
<1>13. /\ Len(Authenticate) = 4 /\ Authenticate[1] = "findAccess"
       /\ Authenticate[2] = "activeUser" /\ Authenticate[3] = "liveDevice"
       /\ Authenticate[4] = "touchDevice"
  BY DEF Authenticate
<1>14. /\ Len(Logout) = 5 /\ Logout[1] = "findAccess" /\ Logout[2] = "activeUser"
       /\ Logout[3] = "liveDevice" /\ Logout[4] = "touchDevice"
       /\ Logout[5] = "revokeSession"
  BY DEF Logout, Authenticate
<1>15. /\ Len(LogoutAll) = 6 /\ LogoutAll[1] = "findAccess"
       /\ LogoutAll[2] = "activeUser" /\ LogoutAll[3] = "liveDevice"
       /\ LogoutAll[4] = "touchDevice" /\ LogoutAll[5] = "listSessions"
       /\ LogoutAll[6] = "revokeListed"
  BY DEF LogoutAll, Authenticate, RevokeAll
<1>16. /\ Len(RevokeDevice) = 8 /\ RevokeDevice[1] = "findAccess"
       /\ RevokeDevice[2] = "activeUser" /\ RevokeDevice[3] = "liveDevice"
       /\ RevokeDevice[4] = "touchDevice" /\ RevokeDevice[5] = "targetDevice"
       /\ RevokeDevice[6] = "revokeDevice" /\ RevokeDevice[7] = "listSessions"
       /\ RevokeDevice[8] = "revokeListed"
  BY DEF RevokeDevice, Authenticate, RevokeAll
<1>17. /\ Len(Disable) = 8 /\ Disable[1] = "findAccess" /\ Disable[2] = "activeUser"
       /\ Disable[3] = "liveDevice" /\ Disable[4] = "touchDevice"
       /\ Disable[5] = "requireUser" /\ Disable[6] = "updateUser"
       /\ Disable[7] = "listSessions" /\ Disable[8] = "revokeListed"
  BY DEF Disable, Authenticate, RevokeAll
<1>18. /\ Program["requestReset"] = RequestReset
      /\ Program["reset"] = ResetPassword
      /\ Program["start"] = Start
      /\ Program["callback"] = Callback
      /\ Program["exchange"] = Exchange
  BY <1>3 DEF RecoveryRoutes
<1>19. /\ Len(RequestReset) = 3 /\ RequestReset[1] = "findUser"
       /\ RequestReset[2] = "saveToken" /\ RequestReset[3] = "mail"
  BY DEF RequestReset
<1>20. /\ Len(ResetPassword) = 6 /\ ResetPassword[1] = "readToken"
       /\ ResetPassword[2] = "requireUser" /\ ResetPassword[3] = "updateUser"
       /\ ResetPassword[4] = "useToken" /\ ResetPassword[5] = "listSessions"
       /\ ResetPassword[6] = "revokeListed"
  BY DEF ResetPassword, RevokeAll
<1>21. /\ Len(Start) = 1 /\ Start[1] = "saveToken"
  BY DEF Start
<1>22. /\ Len(Callback) = 2 /\ Callback[1] = "claimToken" /\ Callback[2] = "saveToken"
  BY DEF Callback
<1>23. /\ Len(Exchange) = 10 /\ Exchange[1] = "readToken" /\ Exchange[2] = "claimToken"
       /\ Exchange[3] = "findIdentity" /\ Exchange[4] = "findByEmail"
       /\ Exchange[5] = "createUser" /\ Exchange[6] = "linked"
       /\ Exchange[7] = "saveIdentity" /\ Exchange[8] = "saveDevice"
       /\ Exchange[9] = "saveSession" /\ Exchange[10] = "grantSignup"
  BY DEF Exchange, External
<1>24. /\ Len(AssignPlan) = 2 /\ AssignPlan[1] = "requireUser"
       /\ AssignPlan[2] = "updateUser"
  BY DEF AssignPlan
<1> QED
  BY <1>6, <1>7, <1>8, <1>9, <1>5, <1>11, <1>12, <1>13, <1>14, <1>15, <1>16, <1>17,
     <1>10, <1>19, <1>20, <1>21, <1>22, <1>23, <1>18, <1>24, <1>4

-----------------------------------------------------------------------------
(* The order of the statements *)

SignsIn == {"login", "exchange"}
Presenting == {"me", "refresh", "logout", "logoutAll", "revokeDevice", "disable"}
Sweeping == {"logoutAll", "disable", "reset", "revokeDevice"}

\* Which programs a statement is of, and what comes before it there.
Placed(kind) ==
  LET p == Program[kind] IN
  \A j \in 1 .. Len(p) :
    /\ \A i \in 1 .. Len(p) : p[i] = p[j] => i = j
    /\ p[j] \in {"findAccess", "findRefresh", "liveDevice", "touchDevice", "revokeSession"} =>
         kind \in Presenting
    /\ p[j] \in {"liveDevice", "revokeSession"} =>
         \E i \in 1 .. (j - 1) : p[i] \in {"findAccess", "findRefresh"}
    /\ p[j] = "touchDevice" => \E i \in 1 .. (j - 1) : p[i] = "liveDevice"
    /\ p[j] = "saveSession" => kind \in SignsIn \cup {"refresh"}
    /\ p[j] = "saveSession" /\ kind = "refresh" =>
         /\ \E i \in 1 .. (j - 1) : p[i] = "findRefresh"
         /\ \E i \in 1 .. (j - 1) : p[i] = "liveDevice"
    /\ p[j] = "saveSession" /\ kind = "refresh" =>
         \E i \in 1 .. (j - 1) : p[i] = "activeUser"
    /\ p[j] = "saveSession" /\ kind = "login" =>
         \E i \in 1 .. (j - 1) : p[i] = "resetWindow"
    /\ p[j] = "saveSession" /\ kind = "exchange" =>
         \E i \in 1 .. (j - 1) : p[i] = "findByEmail"
    /\ p[j] = "saveDevice" => kind \in SignsIn
    /\ p[j] = "revokeDevice" =>
         /\ kind = "revokeDevice"
         /\ \E i \in 1 .. (j - 1) : p[i] = "targetDevice"
         /\ \E i \in 1 .. (j - 1) : p[i] = "touchDevice"
    /\ p[j] = "targetDevice" => kind = "revokeDevice"
    /\ p[j] = "listSessions" =>
         kind \in Sweeping /\ j + 1 = Len(p) /\ p[j + 1] = "revokeListed"
    /\ p[j] = "revokeListed" => j > 1 /\ p[j - 1] = "listSessions"
    /\ p[j] = "updateUser" =>
         /\ kind \in {"verifyOtp", "verifyEmail", "reset", "disable", "plan"}
         /\ \E i \in 1 .. (j - 1) : p[i] \in {"unverified", "requireUser"}
    /\ p[j] \in {"readToken", "claimToken"} => kind \in DOMAIN TokenOf
    /\ p[j] = "claimToken" => kind \in {"callback", "exchange"}
    /\ p[j] = "useToken" =>
         kind \in {"verifyEmail", "reset"} /\ \E i \in 1 .. (j - 1) : p[i] = "readToken"
    /\ p[j] \in {"countWrong", "useOtp"} =>
         kind = "verifyOtp" /\ \E i \in 1 .. (j - 1) : p[i] = "compareOtp"
    /\ p[j] = "compareOtp" => kind = "verifyOtp" /\ j + 2 <= Len(p)
    /\ p[j] = "countWrong" => p[j - 1] = "compareOtp"
    /\ p[j] = "retireOtp" => j > 1 /\ p[j - 1] = "activeOtp"
    /\ p[j] \in {"consume", "throttle", "password", "resetWindow"} => kind = "login"
    /\ p[j] = "password" => j > 1 /\ p[j - 1] = "throttle"
    /\ p[j] = "resetWindow" => j > 1 /\ p[j - 1] = "password"
    /\ p[j] \in {"findIdentity", "findByEmail", "createUser"} => kind = "exchange"
    /\ j < Len(p) =>
         /\ p[j] = "listSessions" => p[j + 1] = "revokeListed"
         /\ p[j] = "activeOtp" => p[j + 1] = "retireOtp"
         /\ p[j] = "compareOtp" => p[j + 1] = "countWrong"
         /\ p[j] = "consume" => p[j + 1] = "openWindow"
         /\ p[j] = "findByEmail" => p[j + 1] = "createUser"
         /\ p[j] = "linked" => p[j + 1] = "saveIdentity"
    /\ p[j] = "findIdentity" =>
         j + 2 <= Len(p) /\ p[j + 1] = "findByEmail" /\ p[j + 2] = "createUser"

\* What has been done when a request is answered.
Includes(kind, steps) ==
  \A s \in steps : \E i \in 1 .. Len(Program[kind]) : Program[kind][i] = s

LEMMA ProgramsPlaced == \A kind \in Kinds : Placed(kind)
<1> SUFFICES ASSUME NEW kind \in Kinds
             PROVE  Placed(kind)
  OBVIOUS
<1>1. CASE kind = "register"
  BY <1>1, ProgramsAre DEF Placed, SignsIn, Presenting, Sweeping, TokenOf
<1>2. CASE kind = "resend"
  BY <1>2, ProgramsAre DEF Placed, SignsIn, Presenting, Sweeping, TokenOf
<1>3. CASE kind = "verifyOtp"
  BY <1>3, ProgramsAre DEF Placed, SignsIn, Presenting, Sweeping, TokenOf
<1>4. CASE kind = "verifyEmail"
  BY <1>4, ProgramsAre DEF Placed, SignsIn, Presenting, Sweeping, TokenOf
<1>5. CASE kind = "login"
  BY <1>5, ProgramsAre DEF Placed, SignsIn, Presenting, Sweeping, TokenOf
<1>6. CASE kind = "refresh"
  BY <1>6, ProgramsAre DEF Placed, SignsIn, Presenting, Sweeping, TokenOf
<1>7. CASE kind = "me"
  BY <1>7, ProgramsAre DEF Placed, SignsIn, Presenting, Sweeping, TokenOf
<1>8. CASE kind = "logout"
  BY <1>8, ProgramsAre DEF Placed, SignsIn, Presenting, Sweeping, TokenOf
<1>9. CASE kind = "logoutAll"
  BY <1>9, ProgramsAre DEF Placed, SignsIn, Presenting, Sweeping, TokenOf
<1>10. CASE kind = "revokeDevice"
  BY <1>10, ProgramsAre DEF Placed, SignsIn, Presenting, Sweeping, TokenOf
<1>11. CASE kind = "disable"
  BY <1>11, ProgramsAre DEF Placed, SignsIn, Presenting, Sweeping, TokenOf
<1>12. CASE kind = "requestReset"
  BY <1>12, ProgramsAre DEF Placed, SignsIn, Presenting, Sweeping, TokenOf
<1>13. CASE kind = "reset"
  BY <1>13, ProgramsAre DEF Placed, SignsIn, Presenting, Sweeping, TokenOf
<1>14. CASE kind = "start"
  BY <1>14, ProgramsAre DEF Placed, SignsIn, Presenting, Sweeping, TokenOf
<1>15. CASE kind = "callback"
  BY <1>15, ProgramsAre DEF Placed, SignsIn, Presenting, Sweeping, TokenOf
<1>16. CASE kind = "exchange"
  BY <1>16, ProgramsAre DEF Placed, SignsIn, Presenting, Sweeping, TokenOf
<1>17. CASE kind = "plan"
  BY <1>17, ProgramsAre DEF Placed, SignsIn, Presenting, Sweeping, TokenOf
<1> QED
  BY KindsAre, <1>1, <1>2, <1>3, <1>4, <1>5, <1>6, <1>7, <1>8, <1>9,
     <1>10, <1>11, <1>12, <1>13, <1>14, <1>15, <1>16, <1>17

LEMMA ProgramsInclude ==
  /\ Includes("logoutAll", {"listSessions", "revokeListed"})
  /\ Includes("disable", {"updateUser", "listSessions", "revokeListed"})
  /\ Includes("reset", {"readToken", "useToken", "listSessions", "revokeListed"})
  /\ Includes("revokeDevice", {"revokeDevice", "listSessions", "revokeListed"})
  /\ Includes("verifyEmail", {"readToken", "useToken"})
  /\ Includes("callback", {"claimToken"})
  /\ Includes("exchange", {"claimToken", "findByEmail"})
  /\ Includes("login", {"resetWindow"})
  /\ Includes("refresh", {"findRefresh", "activeUser"})
BY ProgramsAre DEF Includes

-----------------------------------------------------------------------------
(* Types *)

DeviceStates == {"none", "active", "revoked"}
OtpRead == [id : Ids, row : OtpRow]

CallRow ==
  [state : {"idle", "running", "ok", "refused"}, at : Nat, next : Nat,
   user : UserRow \cup {NoRow}, session : SessionRow \cup {NoRow}, device : DeviceStates,
   otp : OtpRead \cup {NoRow}, listed : SUBSET Ids, compared : Ids \cup Nat \cup {NoRow}]

TablesTypeOK ==
  /\ user \in UserRow \cup {NoRow}
  /\ identity \in BOOLEAN
  /\ devices \in [Ids -> DeviceStates]
  /\ sessions \in [Ids -> SessionRow \cup {NoRow}]
  /\ otps \in [Ids -> OtpRow \cup {NoRow}]
  /\ tokens \in [Ids -> TokenRow \cup {NoRow}]
  /\ window \in WindowRow \cup {NoRow}
  /\ lockout \in [attempts : Nat, until : Nat]
  /\ granted \in BOOLEAN
  /\ mailed \subseteq Ids

TypeOK ==
  /\ now \in Nat
  /\ TablesTypeOK
  /\ scenario \in Scenarios
  /\ call \in [Calls -> CallRow]
  /\ before \in [Calls -> SUBSET Ids]
  /\ chain \in [Ids -> SUBSET Ids]

\* A request is there when it has begun, and running ones stand at a statement.
Placing ==
  \A c \in Calls :
    /\ call[c].state = "idle" => call[c] = Empty("idle", NoRow)
    /\ call[c].state # "idle" => c \in Expected
    /\ call[c].state = "running" => call[c].next \in 1 .. Len(Statements(c))

LEMMA RequestTypes ==
  ASSUME TypeOK, NEW c \in Expected
  PROVE  /\ c \in Calls /\ Kind(c) \in Kinds
         /\ Kind(c) # "verifyOtp" => Request(c).of \in Ids
         /\ Kind(c) = "revokeDevice" => Request(c).with \in Ids
         /\ Kind(c) = "login" => Request(c).with \in {"old", "new", "wrong"}
         /\ Kind(c) = "plan" => Request(c).with \in {"FREE", "PRO"}
BY ScenariosAssumption DEF TypeOK, Expected, Kind, Request, Presentable

LEMMA ProgramLengths == \A kind \in Kinds : Len(Program[kind]) \in Nat \ {0}
BY KindsAre, ProgramsAre

LEMMA EmptyRow ==
  ASSUME NEW state \in {"idle", "running", "ok", "refused"}, NEW x \in Ids \cup Nat \cup {NoRow}
  PROVE  Empty(state, x) \in CallRow
BY DEF Empty, CallRow, DeviceStates

-----------------------------------------------------------------------------
(* Where a request is *)

\* The request has gone beyond a statement of its program.
Past(c, s) ==
  \/ /\ call[c].state = "ok"
     /\ \E i \in 1 .. Len(Statements(c)) : Statements(c)[i] = s
  \/ /\ call[c].state = "running"
     /\ \E i \in 1 .. (call[c].next - 1) : Statements(c)[i] = s

Others(c) == \A k \in Calls : k # c => call'[k] = call[k]

Refused(c) == call'[c] = Empty("refused", call'[c].compared)

Answers(c) == call'[c] = Empty("ok", call'[c].compared)

\* The request goes on over n statements.
Went(c, n) ==
  \/ /\ call[c].next + n <= Len(Statements(c))
     /\ call'[c].state = "running" /\ call'[c].next = call[c].next + n
     /\ call'[c].at = call[c].at
  \/ /\ call[c].next + n > Len(Statements(c))
     /\ Answers(c)

Keeps(c, m) ==
  call'[c].state = "running" =>
    /\ call'[c].user = m.user /\ call'[c].session = m.session
    /\ call'[c].device = m.device /\ call'[c].otp = m.otp /\ call'[c].listed = m.listed

LEMMA Leaping ==
  ASSUME TypeOK, Placing, NEW c \in Calls, NEW m \in CallRow, NEW n \in 1 .. 3,
         call[c].state = "running", m.state = "running", m.next = call[c].next, m.at = call[c].at,
         Leap(c, m, n)
  PROVE  /\ Others(c)
         /\ call' \in [Calls -> CallRow]
         /\ Went(c, n)
         /\ call'[c].compared = m.compared
         /\ Keeps(c, m)
<1>1. m.compared \in Ids \cup Nat \cup {NoRow} /\ m.next \in Nat
  BY DEF CallRow
<1>0. Len(Statements(c)) \in Nat
  BY RequestTypes, ProgramLengths DEF Placing, Statements
<1>2. CASE m.next + n > Len(Statements(c))
  <2>1. call' = [call EXCEPT ![c] = Empty("ok", m.compared)]
    BY <1>2 DEF Leap, Skip
  <2>2. Empty("ok", m.compared) \in CallRow
    BY <1>1, EmptyRow
  <2>3. call'[c] = Empty("ok", m.compared) /\ Others(c) /\ call' \in [Calls -> CallRow]
    BY <2>1, <2>2 DEF TypeOK, Others
  <2>4. call'[c].compared = m.compared /\ call'[c].state = "ok"
    BY <2>3 DEF Empty
  <2> QED BY <1>2, <2>3, <2>4 DEF Went, Answers, Keeps
<1>3. CASE ~(m.next + n > Len(Statements(c)))
  <2> DEFINE row == [m EXCEPT !.next = @ + n]
  <2>1. call' = [call EXCEPT ![c] = row]
    BY <1>3 DEF Leap, Skip
  <2>2. /\ row \in CallRow /\ row.next = m.next + n /\ row.compared = m.compared
        /\ row.state = m.state /\ row.at = m.at
        /\ row.user = m.user /\ row.session = m.session /\ row.device = m.device
        /\ row.otp = m.otp /\ row.listed = m.listed
    BY <1>1 DEF CallRow
  <2> HIDE DEF row
  <2>3. call'[c] = row /\ Others(c) /\ call' \in [Calls -> CallRow]
    BY <2>1, <2>2 DEF TypeOK, Others
  <2> QED BY <1>0, <1>1, <1>3, <2>2, <2>3 DEF Went, Keeps
<1> QED BY <1>2, <1>3

LEMMA Refusing ==
  ASSUME TypeOK, NEW c \in Calls, NEW x \in Ids \cup Nat \cup {NoRow},
         call' = [call EXCEPT ![c] = Empty("refused", x)]
  PROVE  Others(c) /\ call' \in [Calls -> CallRow] /\ Refused(c) /\ call'[c].compared = x
<1>1. Empty("refused", x) \in CallRow /\ Empty("refused", x).compared = x
  BY EmptyRow DEF Empty
<1> QED BY <1>1 DEF TypeOK, Others, Refused

-----------------------------------------------------------------------------
(* What a statement does *)

Step(c) ==
  \/ FindAccess(c) \/ FindRefresh(c) \/ ActiveUser(c) \/ LiveDevice(c)
  \/ TouchDevice(c) \/ RevokeSession(c) \/ NewSession(c) \/ TargetDevice(c)
  \/ WriteRevoked(c) \/ ListSessions(c) \/ RevokeListed(c) \/ EmailFree(c)
  \/ CreateUser(c) \/ Unverified(c) \/ FindUser(c) \/ RequireUser(c)
  \/ WriteUser(c) \/ GrantsSignup(c) \/ MakeToken(c) \/ ReadToken(c)
  \/ WriteUsed(c) \/ MailCode(c) \/ ClaimToken(c) \/ ProviderFails(c)
  \/ Cooldown(c) \/ ReadActiveOtp(c) \/ RetireOtp(c) \/ MakeOtp(c)
  \/ CompareOtp(c) \/ CountWrong(c) \/ Consume(c) \/ OpensWindow(c)
  \/ Throttle(c) \/ Password(c) \/ ClearWindow(c) \/ MakeDevice(c)
  \/ FindIdentity(c) \/ FindByEmail(c) \/ Linked(c) \/ LinkIdentity(c)

LEMMA NextSteps ==
  ASSUME [Next]_vars
  PROVE  \/ UNCHANGED vars
         \/ Tick
         \/ \E c \in Calls : Begin(c)
         \/ \E c \in Calls : Step(c)
BY DEF Next, Step

Moves(c) ==
  /\ Others(c)
  /\ call' \in [Calls -> CallRow]
  /\ \/ Refused(c)
     \/ Went(c, 1)
     \/ Went(c, 2) /\ \/ At(c, "listSessions") \/ At(c, "activeOtp") \/ At(c, "compareOtp")
                       \/ At(c, "consume") \/ At(c, "findByEmail") \/ At(c, "linked")
     \/ Went(c, 3) /\ At(c, "findIdentity")
     \/ /\ At(c, "revokeListed")
        /\ call'[c].state = "running" /\ call'[c].next = call[c].next
        /\ call'[c].at = call[c].at

Reads(c) ==
  call'[c].state = "running" =>
    /\ \/ call'[c].user = call[c].user
       \/ call'[c].user = user /\ user # NoRow
    /\ \/ call'[c].session = call[c].session
       \/ /\ At(c, "findAccess") \/ At(c, "findRefresh")
          /\ call'[c].session = sessions[Request(c).of] /\ SessionExists(Request(c).of)
    /\ \/ call'[c].device = call[c].device
       \/ At(c, "liveDevice") /\ call'[c].device = "active"
    /\ \/ call'[c].otp = call[c].otp
       \/ \E o \in ActiveOtps : call'[c].otp = [id |-> o, row |-> otps[o]]
    /\ \/ call'[c].listed = call[c].listed
       \/ At(c, "listSessions") /\ call'[c].listed = Listed(c)
       \/ /\ At(c, "revokeListed")
          /\ \E s \in call[c].listed : UpdateSession(s) /\ call'[c].listed = call[c].listed \ {s}

Compares(c) == call'[c].compared = call[c].compared \/ CompareOtp(c) \/ Password(c)

Writes(c) ==
  /\ UNCHANGED <<now, scenario, before>>
  /\ user' = user \/ CreateUser(c) \/ WriteUser(c)
  /\ identity' = identity \/ LinkIdentity(c)
  /\ devices' = devices \/ TouchDevice(c) \/ WriteRevoked(c) \/ MakeDevice(c)
  /\ sessions' = sessions \/ RevokeSession(c) \/ NewSession(c) \/ RevokeListed(c)
  /\ chain' = chain \/ NewSession(c)
  /\ otps' = otps \/ RetireOtp(c) \/ MakeOtp(c) \/ CountWrong(c)
  /\ tokens' = tokens \/ MakeToken(c) \/ WriteUsed(c) \/ ClaimToken(c)
  /\ window' = window \/ Consume(c) \/ OpensWindow(c) \/ ClearWindow(c)
  /\ lockout' = lockout \/ Throttle(c) \/ Password(c)
  /\ granted' = granted \/ GrantsSignup(c)
  /\ mailed' = mailed \/ MailCode(c)

Does(c) == Moves(c) /\ Reads(c) /\ Compares(c) /\ Writes(c)

\* A statement that reads nothing the request keeps
LEMMA Plain ==
  ASSUME TypeOK, Placing, NEW c \in Calls, call[c].state = "running",
         Continue(c, call[c]) \/ Refuse(c)
  PROVE  Moves(c) /\ Reads(c) /\ Compares(c)
<1>1. call[c] \in CallRow /\ call[c].compared \in Ids \cup Nat \cup {NoRow}
  BY DEF TypeOK, CallRow
<1>2. CASE Continue(c, call[c])
  BY <1>1, <1>2, Leaping DEF Continue, Moves, Reads, Compares, Keeps
<1>3. CASE Refuse(c)
  <2>1. Others(c) /\ call' \in [Calls -> CallRow] /\ Refused(c)
        /\ call'[c].compared = call[c].compared
    BY <1>1, <1>3, Refusing DEF Refuse
  <2>2. call'[c].state = "refused"
    BY <2>1 DEF Refused, Empty
  <2> QED BY <2>1, <2>2 DEF Moves, Reads, Compares
<1> QED BY <1>2, <1>3

\* One that goes on further
LEMMA PlainLeap ==
  ASSUME TypeOK, Placing, NEW c \in Calls, call[c].state = "running", NEW n \in 2 .. 3,
         Leap(c, call[c], n),
         \/ n = 2 /\ (At(c, "activeOtp") \/ At(c, "consume") \/ At(c, "findByEmail")
                      \/ At(c, "linked"))
         \/ n = 3 /\ At(c, "findIdentity")
  PROVE  Moves(c) /\ Reads(c) /\ Compares(c)
<1>1. call[c] \in CallRow
  BY DEF TypeOK
<1>2. /\ Others(c)
      /\ call' \in [Calls -> CallRow]
      /\ Went(c, n)
      /\ call'[c].compared = call[c].compared
      /\ Keeps(c, call[c])
  BY <1>1, Leaping
<1> QED BY <1>2 DEF Moves, Reads, Compares, Keeps

\* One that reads a row
LEMMA ReadingOn ==
  ASSUME TypeOK, Placing, NEW c \in Calls, call[c].state = "running", NEW m \in CallRow,
         m.state = "running", m.next = call[c].next, m.at = call[c].at,
         m.compared = call[c].compared,
         Continue(c, m) \/ Refuse(c)
  PROVE  /\ Moves(c) /\ Compares(c)
         /\ Keeps(c, m)
<1>1. call[c] \in CallRow /\ call[c].compared \in Ids \cup Nat \cup {NoRow}
  BY DEF TypeOK, CallRow
<1>2. CASE Continue(c, m)
  BY <1>1, <1>2, Leaping DEF Continue, Moves, Compares
<1>3. CASE Refuse(c)
  <2>1. Others(c) /\ call' \in [Calls -> CallRow] /\ Refused(c)
        /\ call'[c].compared = call[c].compared
    BY <1>1, <1>3, Refusing DEF Refuse
  <2>2. call'[c].state = "refused"
    BY <2>1 DEF Refused, Empty
  <2> QED BY <2>1, <2>2 DEF Moves, Compares, Keeps
<1> QED BY <1>2, <1>3

-----------------------------------------------------------------------------
(* The statements one by one *)

\* What kind of request stands at a statement.
LEMMA AtHas ==
  ASSUME TypeOK, Placing, NEW c \in Calls, NEW s, At(c, s)
  PROVE  /\ c \in Expected /\ Kind(c) \in Kinds
         /\ call[c].next \in 1 .. Len(Statements(c))
         /\ Statements(c)[call[c].next] = s
         /\ Placed(Kind(c))
         /\ s \in {"findAccess", "findRefresh", "liveDevice", "touchDevice", "revokeSession"} =>
              Kind(c) \in Presenting /\ Request(c).of \in Ids
<1>1. /\ call[c].state = "running" /\ c \in Expected
      /\ call[c].next \in 1 .. Len(Statements(c))
      /\ Statements(c)[call[c].next] = s
  BY DEF At, Placing
<1>2. Kind(c) \in Kinds /\ (Kind(c) # "verifyOtp" => Request(c).of \in Ids)
  BY <1>1, RequestTypes
<1>3. Placed(Kind(c))
  BY <1>2, ProgramsPlaced
<1> QED BY <1>1, <1>2, <1>3 DEF Placed, Statements, Presenting

LEMMA StepDoes ==
  ASSUME TypeOK, Placing, NEW c \in Calls, Step(c)
  PROVE  Does(c) /\ call[c].state = "running"
<1>0. call[c] \in CallRow
  BY DEF TypeOK
<1>1. CASE TouchDevice(c)
  <2>1. (Continue(c, call[c]) \/ Refuse(c)) /\ call[c].state = "running"
    BY <1>1 DEF TouchDevice, At
  <2>2. Writes(c)
    BY <1>1 DEF TouchDevice, UpdateDevice, Frame, tables, history, Writes
  <2> QED BY <2>1, <2>2, Plain DEF Does
<1>2. CASE RevokeSession(c)
  <2>1. (Continue(c, call[c]) \/ Refuse(c)) /\ call[c].state = "running"
    BY <1>2 DEF RevokeSession, At
  <2>2. Writes(c)
    BY <1>2 DEF RevokeSession, UpdateSession, Frame, tables, history, Writes
  <2> QED BY <2>1, <2>2, Plain DEF Does
<1>3. CASE NewSession(c)
  <2>1. (Continue(c, call[c]) \/ Refuse(c)) /\ call[c].state = "running"
    BY <1>3 DEF NewSession, At
  <2>2. Writes(c)
    BY <1>3 DEF NewSession, SaveSession, Frame, tables, history, Writes
  <2> QED BY <2>1, <2>2, Plain DEF Does
<1>4. CASE TargetDevice(c)
  <2>1. (Continue(c, call[c]) \/ Refuse(c)) /\ call[c].state = "running"
    BY <1>4 DEF TargetDevice, At, Check
  <2>2. Writes(c)
    BY <1>4 DEF TargetDevice, Check, Frame, tables, history, Writes
  <2> QED BY <2>1, <2>2, Plain DEF Does
<1>5. CASE WriteRevoked(c)
  <2>1. (Continue(c, call[c]) \/ Refuse(c)) /\ call[c].state = "running"
    BY <1>5 DEF WriteRevoked, At
  <2>2. Writes(c)
    BY <1>5 DEF WriteRevoked, UpdateDevice, Frame, tables, history, Writes
  <2> QED BY <2>1, <2>2, Plain DEF Does
<1>6. CASE EmailFree(c)
  <2>1. (Continue(c, call[c]) \/ Refuse(c)) /\ call[c].state = "running"
    BY <1>6 DEF EmailFree, At, Check
  <2>2. Writes(c)
    BY <1>6 DEF EmailFree, Check, Frame, tables, history, Writes
  <2> QED BY <2>1, <2>2, Plain DEF Does
<1>7. CASE CreateUser(c)
  <2>1. (Continue(c, call[c]) \/ Refuse(c)) /\ call[c].state = "running"
    BY <1>7 DEF CreateUser, At
  <2>2. Writes(c)
    BY <1>7 DEF CreateUser, SaveUser, Frame, tables, history, Writes
  <2> QED BY <2>1, <2>2, Plain DEF Does
<1>8. CASE FindUser(c)
  <2>1. (Continue(c, call[c]) \/ Refuse(c)) /\ call[c].state = "running"
    BY <1>8 DEF FindUser, At, Check
  <2>2. Writes(c)
    BY <1>8 DEF FindUser, Check, Frame, tables, history, Writes
  <2> QED BY <2>1, <2>2, Plain DEF Does
<1>9. CASE WriteUser(c)
  <2>1. (Continue(c, call[c]) \/ Refuse(c)) /\ call[c].state = "running"
    BY <1>9 DEF WriteUser, At
  <2>2. Writes(c)
    BY <1>9 DEF WriteUser, UpdateUser, Frame, tables, history, Writes
  <2> QED BY <2>1, <2>2, Plain DEF Does
<1>10. CASE GrantsSignup(c)
  <2>1. (Continue(c, call[c]) \/ Refuse(c)) /\ call[c].state = "running"
    BY <1>10 DEF GrantsSignup, At
  <2>2. Writes(c)
    BY <1>10 DEF GrantsSignup, GrantSignup, Frame, tables, history, Writes
  <2> QED BY <2>1, <2>2, Plain DEF Does
<1>11. CASE MakeToken(c)
  <2>1. (Continue(c, call[c]) \/ Refuse(c)) /\ call[c].state = "running"
    BY <1>11 DEF MakeToken, At
  <2>2. Writes(c)
    BY <1>11 DEF MakeToken, SaveToken, Frame, tables, history, Writes
  <2> QED BY <2>1, <2>2, Plain DEF Does
<1>12. CASE ReadToken(c)
  <2>1. (Continue(c, call[c]) \/ Refuse(c)) /\ call[c].state = "running"
    BY <1>12 DEF ReadToken, At, Check
  <2>2. Writes(c)
    BY <1>12 DEF ReadToken, Check, Frame, tables, history, Writes
  <2> QED BY <2>1, <2>2, Plain DEF Does
<1>13. CASE WriteUsed(c)
  <2>1. (Continue(c, call[c]) \/ Refuse(c)) /\ call[c].state = "running"
    BY <1>13 DEF WriteUsed, At
  <2>2. Writes(c)
    BY <1>13 DEF WriteUsed, UseToken, Frame, tables, history, Writes
  <2> QED BY <2>1, <2>2, Plain DEF Does
<1>14. CASE MailCode(c)
  <2>1. (Continue(c, call[c]) \/ Refuse(c)) /\ call[c].state = "running"
    BY <1>14 DEF MailCode, At
  <2>2. Writes(c)
    BY <1>14 DEF MailCode, Mail, Frame, tables, history, Writes
  <2> QED BY <2>1, <2>2, Plain DEF Does
<1>15. CASE ClaimToken(c)
  <2>1. (Continue(c, call[c]) \/ Refuse(c)) /\ call[c].state = "running"
    BY <1>15 DEF ClaimToken, At
  <2>2. Writes(c)
    BY <1>15 DEF ClaimToken, UseToken, Frame, tables, history, Writes
  <2> QED BY <2>1, <2>2, Plain DEF Does
<1>16. CASE ProviderFails(c)
  <2>1. (Continue(c, call[c]) \/ Refuse(c)) /\ call[c].state = "running"
    BY <1>16 DEF ProviderFails, At
  <2>2. Writes(c)
    BY <1>16 DEF ProviderFails, Frame, tables, history, Writes
  <2> QED BY <2>1, <2>2, Plain DEF Does
<1>17. CASE Cooldown(c)
  <2>1. (Continue(c, call[c]) \/ Refuse(c)) /\ call[c].state = "running"
    BY <1>17 DEF Cooldown, At, Check
  <2>2. Writes(c)
    BY <1>17 DEF Cooldown, Check, Frame, tables, history, Writes
  <2> QED BY <2>1, <2>2, Plain DEF Does
<1>18. CASE RetireOtp(c)
  <2>1. (Continue(c, call[c]) \/ Refuse(c)) /\ call[c].state = "running"
    BY <1>18 DEF RetireOtp, At
  <2>2. Writes(c)
    BY <1>18 DEF RetireOtp, UpdateOtp, Frame, tables, history, Writes
  <2> QED BY <2>1, <2>2, Plain DEF Does
<1>19. CASE MakeOtp(c)
  <2>1. (Continue(c, call[c]) \/ Refuse(c)) /\ call[c].state = "running"
    BY <1>19 DEF MakeOtp, At
  <2>2. Writes(c)
    BY <1>19 DEF MakeOtp, SaveOtp, Frame, tables, history, Writes
  <2> QED BY <2>1, <2>2, Plain DEF Does
<1>20. CASE CountWrong(c)
  <2>1. (Continue(c, call[c]) \/ Refuse(c)) /\ call[c].state = "running"
    BY <1>20 DEF CountWrong, At
  <2>2. Writes(c)
    BY <1>20 DEF CountWrong, UpdateOtp, Frame, tables, history, Writes
  <2> QED BY <2>1, <2>2, Plain DEF Does
<1>21. CASE OpensWindow(c)
  <2>1. (Continue(c, call[c]) \/ Refuse(c)) /\ call[c].state = "running"
    BY <1>21 DEF OpensWindow, At
  <2>2. Writes(c)
    BY <1>21 DEF OpensWindow, OpenWindow, Frame, tables, history, Writes
  <2> QED BY <2>1, <2>2, Plain DEF Does
<1>22. CASE Throttle(c)
  <2>1. (Continue(c, call[c]) \/ Refuse(c)) /\ call[c].state = "running"
    BY <1>22 DEF Throttle, At
  <2>2. Writes(c)
    BY <1>22 DEF Throttle, SetLockout, Frame, tables, history, Writes
  <2> QED BY <2>1, <2>2, Plain DEF Does
<1>23. CASE ClearWindow(c)
  <2>1. (Continue(c, call[c]) \/ Refuse(c)) /\ call[c].state = "running"
    BY <1>23 DEF ClearWindow, At
  <2>2. Writes(c)
    BY <1>23 DEF ClearWindow, ResetWindow, Frame, tables, history, Writes
  <2> QED BY <2>1, <2>2, Plain DEF Does
<1>24. CASE MakeDevice(c)
  <2>1. (Continue(c, call[c]) \/ Refuse(c)) /\ call[c].state = "running"
    BY <1>24 DEF MakeDevice, At
  <2>2. Writes(c)
    BY <1>24 DEF MakeDevice, SaveDevice, Frame, tables, history, Writes
  <2> QED BY <2>1, <2>2, Plain DEF Does
<1>25. CASE LinkIdentity(c)
  <2>1. (Continue(c, call[c]) \/ Refuse(c)) /\ call[c].state = "running"
    BY <1>25 DEF LinkIdentity, At
  <2>2. Writes(c)
    BY <1>25 DEF LinkIdentity, SaveIdentity, Frame, tables, history, Writes
  <2> QED BY <2>1, <2>2, Plain DEF Does
<1>26. CASE Consume(c)
  <2>1. \/ Continue(c, call[c]) \/ Refuse(c)
        \/ Leap(c, call[c], 2)
    BY <1>26 DEF Consume, Continue
  <2>2. At(c, "consume") /\ call[c].state = "running"
    BY <1>26 DEF Consume, At
  <2>3. Writes(c)
    BY <1>26 DEF Consume, OpenWindow, CountInWindow, Frame, tables, history, Writes
  <2>4. Moves(c) /\ Reads(c) /\ Compares(c)
    BY <2>1, <2>2, Plain, PlainLeap
  <2> QED BY <2>2, <2>3, <2>4 DEF Does
<1>27. CASE FindIdentity(c)
  <2>1. \/ Continue(c, call[c]) \/ Refuse(c)
        \/ Leap(c, call[c], 3)
    BY <1>27 DEF FindIdentity, Continue
  <2>2. At(c, "findIdentity") /\ call[c].state = "running"
    BY <1>27 DEF FindIdentity, At
  <2>3. Writes(c)
    BY <1>27 DEF FindIdentity, Frame, tables, history, Writes
  <2>4. Moves(c) /\ Reads(c) /\ Compares(c)
    BY <2>1, <2>2, Plain, PlainLeap
  <2> QED BY <2>2, <2>3, <2>4 DEF Does
<1>28. CASE FindByEmail(c)
  <2>1. \/ Continue(c, call[c]) \/ Refuse(c)
        \/ Leap(c, call[c], 2)
    BY <1>28 DEF FindByEmail, Continue
  <2>2. At(c, "findByEmail") /\ call[c].state = "running"
    BY <1>28 DEF FindByEmail, At
  <2>3. Writes(c)
    BY <1>28 DEF FindByEmail, Frame, tables, history, Writes
  <2>4. Moves(c) /\ Reads(c) /\ Compares(c)
    BY <2>1, <2>2, Plain, PlainLeap
  <2> QED BY <2>2, <2>3, <2>4 DEF Does
<1>29. CASE Linked(c)
  <2>1. \/ Continue(c, call[c]) \/ Refuse(c)
        \/ Leap(c, call[c], 2)
    BY <1>29 DEF Linked, Continue
  <2>2. At(c, "linked") /\ call[c].state = "running"
    BY <1>29 DEF Linked, At
  <2>3. Writes(c)
    BY <1>29 DEF Linked, Frame, tables, history, Writes
  <2>4. Moves(c) /\ Reads(c) /\ Compares(c)
    BY <2>1, <2>2, Plain, PlainLeap
  <2> QED BY <2>2, <2>3, <2>4 DEF Does
<1>30. CASE FindAccess(c)
  <2> DEFINE row == sessions[Request(c).of]
             m == [call[c] EXCEPT !.session = row]
  <2>1. /\ At(c, "findAccess") /\ call[c].state = "running"
        /\ (Continue(c, m) /\ row # NoRow) \/ Refuse(c)
    BY <1>30 DEF FindAccess, Check, At, Refreshes
  <2>2. Writes(c)
    BY <1>30 DEF FindAccess, Check, Frame, tables, history, Writes
  <2>3. CASE Refuse(c)
    BY <2>1, <2>2, <2>3, Plain DEF Does
  <2>4. CASE Continue(c, m) /\ row # NoRow
    <3>1. row \in SessionRow
      BY <2>1, <2>4, AtHas DEF TypeOK, TablesTypeOK
    <3>2. /\ m \in CallRow /\ m.state = "running" /\ m.next = call[c].next
          /\ m.at = call[c].at /\ m.compared = call[c].compared
          /\ m.user = call[c].user /\ m.session = row /\ m.device = call[c].device
          /\ m.otp = call[c].otp /\ m.listed = call[c].listed
      BY <1>0, <2>1, <3>1 DEF CallRow
    <3> HIDE DEF m
    <3>3. Moves(c) /\ Compares(c) /\ Keeps(c, m)
      BY <2>1, <2>4, <3>2, ReadingOn
    <3>4. Reads(c)
      BY <2>1, <2>4, <3>2, <3>3 DEF Keeps, Reads, SessionExists
    <3> QED BY <2>1, <2>2, <3>3, <3>4 DEF Does
  <2> QED BY <2>1, <2>3, <2>4
<1>31. CASE FindRefresh(c)
  <2> DEFINE row == sessions[Request(c).of]
             m == [call[c] EXCEPT !.session = row]
  <2>1. /\ At(c, "findRefresh") /\ call[c].state = "running"
        /\ (Continue(c, m) /\ row # NoRow) \/ Refuse(c)
    BY <1>31 DEF FindRefresh, Check, At, Refreshes
  <2>2. Writes(c)
    BY <1>31 DEF FindRefresh, Check, Frame, tables, history, Writes
  <2>3. CASE Refuse(c)
    BY <2>1, <2>2, <2>3, Plain DEF Does
  <2>4. CASE Continue(c, m) /\ row # NoRow
    <3>1. row \in SessionRow
      BY <2>1, <2>4, AtHas DEF TypeOK, TablesTypeOK
    <3>2. /\ m \in CallRow /\ m.state = "running" /\ m.next = call[c].next
          /\ m.at = call[c].at /\ m.compared = call[c].compared
          /\ m.user = call[c].user /\ m.session = row /\ m.device = call[c].device
          /\ m.otp = call[c].otp /\ m.listed = call[c].listed
      BY <1>0, <2>1, <3>1 DEF CallRow
    <3> HIDE DEF m
    <3>3. Moves(c) /\ Compares(c) /\ Keeps(c, m)
      BY <2>1, <2>4, <3>2, ReadingOn
    <3>4. Reads(c)
      BY <2>1, <2>4, <3>2, <3>3 DEF Keeps, Reads, SessionExists
    <3> QED BY <2>1, <2>2, <3>3, <3>4 DEF Does
  <2> QED BY <2>1, <2>3, <2>4
<1>32. CASE ActiveUser(c)
  <2> DEFINE m == [call[c] EXCEPT !.user = user]
  <2>1. /\ call[c].state = "running"
        /\ (Continue(c, m) /\ user # NoRow) \/ Refuse(c)
    BY <1>32 DEF ActiveUser, Check, At
  <2>2. Writes(c)
    BY <1>32 DEF ActiveUser, Check, Frame, tables, history, Writes
  <2>3. /\ m \in CallRow /\ m.state = call[c].state /\ m.next = call[c].next
        /\ m.at = call[c].at /\ m.compared = call[c].compared
        /\ m.user = user /\ m.session = call[c].session /\ m.device = call[c].device
        /\ m.otp = call[c].otp /\ m.listed = call[c].listed
    BY <1>0 DEF CallRow, TypeOK, TablesTypeOK
  <2> HIDE DEF m
  <2>4. CASE Refuse(c)
    BY <2>1, <2>2, <2>4, Plain DEF Does
  <2>5. CASE Continue(c, m) /\ user # NoRow
    <3>1. Moves(c) /\ Compares(c) /\ Keeps(c, m)
      BY <2>1, <2>3, <2>5, ReadingOn
    <3>2. Reads(c)
      BY <2>3, <2>5, <3>1 DEF Keeps, Reads
    <3> QED BY <2>1, <2>2, <3>1, <3>2 DEF Does
  <2> QED BY <2>1, <2>4, <2>5
<1>33. CASE Unverified(c)
  <2> DEFINE m == [call[c] EXCEPT !.user = user]
  <2>1. /\ call[c].state = "running"
        /\ (Continue(c, m) /\ user # NoRow) \/ Refuse(c)
    BY <1>33 DEF Unverified, Check, At
  <2>2. Writes(c)
    BY <1>33 DEF Unverified, Check, Frame, tables, history, Writes
  <2>3. /\ m \in CallRow /\ m.state = call[c].state /\ m.next = call[c].next
        /\ m.at = call[c].at /\ m.compared = call[c].compared
        /\ m.user = user /\ m.session = call[c].session /\ m.device = call[c].device
        /\ m.otp = call[c].otp /\ m.listed = call[c].listed
    BY <1>0 DEF CallRow, TypeOK, TablesTypeOK
  <2> HIDE DEF m
  <2>4. CASE Refuse(c)
    BY <2>1, <2>2, <2>4, Plain DEF Does
  <2>5. CASE Continue(c, m) /\ user # NoRow
    <3>1. Moves(c) /\ Compares(c) /\ Keeps(c, m)
      BY <2>1, <2>3, <2>5, ReadingOn
    <3>2. Reads(c)
      BY <2>3, <2>5, <3>1 DEF Keeps, Reads
    <3> QED BY <2>1, <2>2, <3>1, <3>2 DEF Does
  <2> QED BY <2>1, <2>4, <2>5
<1>34. CASE RequireUser(c)
  <2> DEFINE m == [call[c] EXCEPT !.user = user]
  <2>1. /\ call[c].state = "running"
        /\ (Continue(c, m) /\ user # NoRow) \/ Refuse(c)
    BY <1>34 DEF RequireUser, Check, At
  <2>2. Writes(c)
    BY <1>34 DEF RequireUser, Check, Frame, tables, history, Writes
  <2>3. /\ m \in CallRow /\ m.state = call[c].state /\ m.next = call[c].next
        /\ m.at = call[c].at /\ m.compared = call[c].compared
        /\ m.user = user /\ m.session = call[c].session /\ m.device = call[c].device
        /\ m.otp = call[c].otp /\ m.listed = call[c].listed
    BY <1>0 DEF CallRow, TypeOK, TablesTypeOK
  <2> HIDE DEF m
  <2>4. CASE Refuse(c)
    BY <2>1, <2>2, <2>4, Plain DEF Does
  <2>5. CASE Continue(c, m) /\ user # NoRow
    <3>1. Moves(c) /\ Compares(c) /\ Keeps(c, m)
      BY <2>1, <2>3, <2>5, ReadingOn
    <3>2. Reads(c)
      BY <2>3, <2>5, <3>1 DEF Keeps, Reads
    <3> QED BY <2>1, <2>2, <3>1, <3>2 DEF Does
  <2> QED BY <2>1, <2>4, <2>5
<1>35. CASE LiveDevice(c)
  <2> DEFINE device == devices[call[c].session.device]
             m == [call[c] EXCEPT !.device = device]
  <2>1. /\ At(c, "liveDevice") /\ call[c].state = "running"
        /\ (Continue(c, m) /\ device = "active") \/ Refuse(c)
    BY <1>35 DEF LiveDevice, Check, At
  <2>2. Writes(c)
    BY <1>35 DEF LiveDevice, Check, Frame, tables, history, Writes
  <2>3. CASE Refuse(c)
    BY <2>1, <2>2, <2>3, Plain DEF Does
  <2>4. CASE Continue(c, m) /\ device = "active"
    <3>1. /\ m \in CallRow /\ m.state = "running" /\ m.next = call[c].next
          /\ m.at = call[c].at /\ m.compared = call[c].compared
          /\ m.user = call[c].user /\ m.session = call[c].session /\ m.device = "active"
          /\ m.otp = call[c].otp /\ m.listed = call[c].listed
      BY <1>0, <2>1, <2>4 DEF CallRow, DeviceStates
    <3> HIDE DEF m
    <3>2. Moves(c) /\ Compares(c) /\ Keeps(c, m)
      BY <2>1, <2>4, <3>1, ReadingOn
    <3>3. Reads(c)
      BY <2>1, <3>1, <3>2 DEF Keeps, Reads
    <3> QED BY <2>1, <2>2, <3>2, <3>3 DEF Does
  <2> QED BY <2>1, <2>3, <2>4
<1>36. CASE Password(c)
  <2>1. call[c].state = "running"
    BY <1>36 DEF Password, At
  <2>2. Writes(c)
    BY <1>36 DEF Password, SetLockout, Frame, tables, history, Writes
  <2>3. Compares(c)
    BY <1>36 DEF Compares
  <2>4. CASE RightPassword(c)
    <3> DEFINE m == [call[c] EXCEPT !.user = user]
    <3>1. Continue(c, m) /\ user # NoRow
      BY <1>36, <2>4 DEF Password, RightPassword
    <3>2. /\ m \in CallRow /\ m.state = "running" /\ m.next = call[c].next
          /\ m.at = call[c].at /\ m.compared = call[c].compared
          /\ m.user = user /\ m.session = call[c].session /\ m.device = call[c].device
          /\ m.otp = call[c].otp /\ m.listed = call[c].listed
      BY <1>0, <2>1 DEF CallRow, TypeOK, TablesTypeOK
    <3> HIDE DEF m
    <3>3. Moves(c) /\ Keeps(c, m)
      BY <2>1, <3>1, <3>2, ReadingOn
    <3>4. Reads(c)
      BY <3>1, <3>2, <3>3 DEF Keeps, Reads
    <3> QED BY <2>1, <2>2, <2>3, <3>3, <3>4 DEF Does
  <2>5. CASE ~RightPassword(c)
    <3>1. call' = [call EXCEPT ![c] = Empty("refused", call[c].at)]
      BY <1>36, <2>5 DEF Password
    <3>2. call[c].at \in Nat
      BY <1>0 DEF CallRow
    <3>3. Others(c) /\ call' \in [Calls -> CallRow] /\ Refused(c)
      BY <3>1, <3>2, Refusing
    <3>4. call'[c].state = "refused"
      BY <3>3 DEF Refused, Empty
    <3> QED BY <2>1, <2>2, <2>3, <3>3, <3>4 DEF Moves, Reads, Does
  <2> QED BY <2>4, <2>5
<1>37. CASE ReadActiveOtp(c)
  <2>1. At(c, "activeOtp") /\ call[c].state = "running"
    BY <1>37 DEF ReadActiveOtp, At
  <2>2. Writes(c)
    BY <1>37 DEF ReadActiveOtp, Frame, tables, history, Writes
  <2>3. CASE Leap(c, call[c], 2)
    BY <2>1, <2>2, <2>3, PlainLeap DEF Does
  <2>4. CASE \E o \in ActiveOtps : Continue(c, [call[c] EXCEPT !.otp = [id |-> o, row |-> otps[o]]])
    <3>1. PICK o \in ActiveOtps : Continue(c, [call[c] EXCEPT !.otp = [id |-> o, row |-> otps[o]]])
      BY <2>4
    <3> DEFINE read == [id |-> o, row |-> otps[o]]
               m == [call[c] EXCEPT !.otp = read]
    <3>2. read \in OtpRead
      BY DEF ActiveOtps, OtpRead, TypeOK, TablesTypeOK
    <3> HIDE DEF read
    <3>3. /\ m \in CallRow /\ m.state = "running" /\ m.next = call[c].next
          /\ m.at = call[c].at /\ m.compared = call[c].compared
          /\ m.user = call[c].user /\ m.session = call[c].session
          /\ m.device = call[c].device /\ m.otp = read /\ m.listed = call[c].listed
      BY <1>0, <2>1, <3>2 DEF CallRow
    <3>4. Continue(c, m)
      BY <3>1 DEF read
    <3> HIDE DEF m
    <3>5. Moves(c) /\ Compares(c) /\ Keeps(c, m)
      BY <2>1, <3>3, <3>4, ReadingOn
    <3>6. Reads(c)
      BY <3>3, <3>5 DEF Keeps, Reads, read
    <3> QED BY <2>1, <2>2, <3>5, <3>6 DEF Does
  <2> QED BY <1>37, <2>3, <2>4 DEF ReadActiveOtp
<1>38. CASE CompareOtp(c)
  <2>1. At(c, "compareOtp") /\ call[c].state = "running"
    BY <1>38 DEF CompareOtp, At
  <2>2. Writes(c)
    BY <1>38 DEF CompareOtp, Frame, tables, history, Writes
  <2>3. CASE Refuse(c)
    BY <2>1, <2>2, <2>3, Plain DEF Does
  <2>4. CASE ~Refuse(c)
    <3>1. PICK o \in ActiveOtps :
            LET m == [call[c] EXCEPT !.otp = [id |-> o, row |-> otps[o]]] IN
            Leap(c, m, 2) \/ Continue(c, [m EXCEPT !.compared = o])
      BY <1>38, <2>4 DEF CompareOtp
    <3> DEFINE read == [id |-> o, row |-> otps[o]]
               m == [call[c] EXCEPT !.otp = read]
               mm == [m EXCEPT !.compared = o]
    <3>2. read \in OtpRead /\ o \in Ids
      BY DEF ActiveOtps, OtpRead, TypeOK, TablesTypeOK
    <3>3. Leap(c, m, 2) \/ Leap(c, mm, 1)
      BY <3>1 DEF Continue
    <3> HIDE DEF read
    <3>4. /\ m \in CallRow /\ m.state = "running" /\ m.next = call[c].next
          /\ m.at = call[c].at
          /\ m.user = call[c].user /\ m.session = call[c].session
          /\ m.device = call[c].device /\ m.otp = read /\ m.listed = call[c].listed
      BY <1>0, <2>1, <3>2 DEF CallRow
    <3> HIDE DEF m
    <3>5. /\ mm \in CallRow /\ mm.state = "running" /\ mm.next = call[c].next
          /\ mm.at = call[c].at
          /\ mm.user = call[c].user /\ mm.session = call[c].session
          /\ mm.device = call[c].device /\ mm.otp = read /\ mm.listed = call[c].listed
      BY <3>2, <3>4 DEF CallRow
    <3> HIDE DEF mm
    <3>6. CASE Leap(c, m, 2)
      <4>1. Others(c) /\ call' \in [Calls -> CallRow] /\ Went(c, 2) /\ Keeps(c, m)
        BY <2>1, <3>4, <3>6, Leaping
      <4>2. Moves(c) /\ Reads(c)
        BY <2>1, <3>4, <4>1 DEF Moves, Reads, Keeps, read
      <4> QED BY <1>38, <2>1, <2>2, <4>2 DEF Does, Compares
    <3>7. CASE Leap(c, mm, 1)
      <4>1. Others(c) /\ call' \in [Calls -> CallRow] /\ Went(c, 1) /\ Keeps(c, mm)
        BY <2>1, <3>5, <3>7, Leaping
      <4>2. Moves(c) /\ Reads(c)
        BY <2>1, <3>5, <4>1 DEF Moves, Reads, Keeps, read
      <4> QED BY <1>38, <2>1, <2>2, <4>2 DEF Does, Compares
    <3> QED BY <3>3, <3>6, <3>7
  <2> QED BY <2>3, <2>4
<1>39. CASE ListSessions(c)
  <2> DEFINE listed == Listed(c)
             m == [call[c] EXCEPT !.listed = listed]
  <2>1. At(c, "listSessions") /\ call[c].state = "running"
    BY <1>39 DEF ListSessions, At
  <2>2. Writes(c)
    BY <1>39 DEF ListSessions, Frame, tables, history, Writes
  <2>3. Leap(c, m, 1) \/ Leap(c, m, 2)
    BY <1>39 DEF ListSessions
  <2>4. listed \subseteq Ids
    BY DEF Listed, LiveSessions
  <2>5. /\ m \in CallRow /\ m.state = "running" /\ m.next = call[c].next
        /\ m.at = call[c].at /\ m.compared = call[c].compared
        /\ m.user = call[c].user /\ m.session = call[c].session
        /\ m.device = call[c].device /\ m.otp = call[c].otp /\ m.listed = Listed(c)
    BY <1>0, <2>1, <2>4 DEF CallRow
  <2> HIDE DEF m
  <2>6. /\ Others(c) /\ call' \in [Calls -> CallRow] /\ (Went(c, 1) \/ Went(c, 2))
        /\ Keeps(c, m) /\ call'[c].compared = call[c].compared
    BY <2>1, <2>3, <2>5, Leaping
  <2>7. Moves(c) /\ Reads(c) /\ Compares(c)
    BY <2>1, <2>5, <2>6 DEF Moves, Reads, Keeps, Compares
  <2> QED BY <2>1, <2>2, <2>7 DEF Does
<1>40. CASE RevokeListed(c)
  <2>1. At(c, "revokeListed") /\ call[c].state = "running"
    BY <1>40 DEF RevokeListed, At
  <2>2. PICK s \in call[c].listed :
          LET m == [call[c] EXCEPT !.listed = @ \ {s}] IN
          /\ UpdateSession(s)
          /\ IF m.listed = {} THEN Continue(c, m) ELSE call' = [call EXCEPT ![c] = m]
    BY <1>40 DEF RevokeListed
  <2>3. Writes(c)
    BY <1>40, <2>2 DEF RevokeListed, UpdateSession, Frame, tables, history, Writes
  <2> DEFINE m == [call[c] EXCEPT !.listed = @ \ {s}]
  <2>4. /\ m \in CallRow /\ m.state = "running" /\ m.next = call[c].next
        /\ m.at = call[c].at /\ m.compared = call[c].compared
        /\ m.user = call[c].user /\ m.session = call[c].session
        /\ m.device = call[c].device /\ m.otp = call[c].otp
        /\ m.listed = call[c].listed \ {s}
    BY <1>0, <2>1 DEF CallRow
  <2>5. UpdateSession(s) /\ (Continue(c, m) \/ call' = [call EXCEPT ![c] = m])
    BY <2>2
  <2> HIDE DEF m
  <2>6. CASE Continue(c, m)
    <3>1. Moves(c) /\ Compares(c) /\ Keeps(c, m)
      BY <2>1, <2>4, <2>6, ReadingOn
    <3>2. Reads(c)
      BY <2>1, <2>4, <2>5, <3>1 DEF Keeps, Reads
    <3> QED BY <2>1, <2>3, <3>1, <3>2 DEF Does
  <2>7. CASE call' = [call EXCEPT ![c] = m]
    <3>1. Others(c) /\ call' \in [Calls -> CallRow] /\ call'[c] = m
      BY <2>4, <2>7 DEF TypeOK, Others
    <3>2. Moves(c) /\ Reads(c) /\ Compares(c)
      BY <2>1, <2>4, <2>5, <3>1 DEF Moves, Reads, Compares
    <3> QED BY <2>1, <2>3, <3>2 DEF Does
  <2> QED BY <2>5, <2>6, <2>7
<1> QED
  BY <1>1, <1>2, <1>3, <1>4, <1>5, <1>6, <1>7, <1>8, <1>9, <1>10, <1>11, <1>12,
     <1>13, <1>14, <1>15, <1>16, <1>17, <1>18, <1>19, <1>20, <1>21, <1>22, <1>23,
     <1>24, <1>25, <1>26, <1>27, <1>28, <1>29, <1>30, <1>31, <1>32, <1>33, <1>34,
     <1>35, <1>36, <1>37, <1>38, <1>39, <1>40 DEF Step

-----------------------------------------------------------------------------
(* What is past *)

\* Statements that are passed over without being sent
Skippable == {"openWindow", "retireOtp", "countWrong", "createUser", "saveIdentity"}

LEMMA NewlyPast ==
  ASSUME TypeOK, Placing, NEW c \in Calls, call[c].state = "running", Moves(c),
         scenario' = scenario, NEW s, Past(c, s)'
  PROVE  \/ Past(c, s)
         \/ At(c, s) /\ call'[c].state # "refused"
         \/ s \in Skippable
         \/ s = "revokeListed" /\ At(c, "listSessions")
         \/ s = "findByEmail" /\ At(c, "findIdentity")
<1> DEFINE p == Statements(c)
           j == call[c].next
<1>1. Statements(c)' = p
  BY DEF Statements, Kind, Request
<1>2. c \in Expected /\ Kind(c) \in Kinds /\ j \in 1 .. Len(p) /\ Len(p) \in Nat
  BY RequestTypes, ProgramLengths DEF Placing, Statements
<1>3. Placed(Kind(c)) /\ p = Program[Kind(c)]
  BY <1>2, ProgramsPlaced DEF Statements
<1>4. PICK i : /\ p[i] = s
               /\ \/ call'[c].state = "ok" /\ i \in 1 .. Len(p)
                  \/ call'[c].state = "running" /\ i \in 1 .. (call'[c].next - 1)
  BY <1>1 DEF Past
<1>5. call'[c].state # "refused"
  BY <1>4
<1>6. ~Refused(c)
  BY <1>5 DEF Refused, Empty
<1> HIDE DEF p, j
<1>7. ASSUME NEW n \in 1 .. 3, Went(c, n)
      PROVE  Past(c, s) \/ \E k \in 0 .. (n - 1) : j + k <= Len(p) /\ p[j + k] = s
  <2>1. i \in 1 .. (j - 1) \/ \E k \in 0 .. (n - 1) : i = j + k /\ j + k <= Len(p)
    <3>1. CASE j + n <= Len(p) /\ call'[c].next = j + n /\ call'[c].state = "running"
      <4>1. i \in Nat /\ 1 <= i /\ i < j + n
        BY <1>2, <1>4, <3>1
      <4>2. i >= j => i - j \in 0 .. (n - 1) /\ i = j + (i - j) /\ j + (i - j) <= Len(p)
        BY <1>2, <3>1, <4>1
      <4> QED BY <1>2, <4>1, <4>2
    <3>2. CASE j + n > Len(p)
      <4>1. i \in 1 .. Len(p)
        <5>1. Answers(c)
          BY <1>2, <1>7, <3>2 DEF Went, p, j
        <5>2. call'[c].state = "ok"
          BY <5>1 DEF Answers, Empty
        <5> QED BY <1>4, <5>2
      <4>2. i >= j => i - j \in 0 .. (n - 1) /\ i = j + (i - j) /\ j + (i - j) <= Len(p)
        BY <1>2, <3>2, <4>1
      <4> QED BY <1>2, <4>1, <4>2
    <3> QED BY <1>2, <1>7, <3>1, <3>2 DEF Went, p, j
  <2> QED BY <1>4, <2>1 DEF Past, p, j
<1>8. p[j] = s => At(c, s)
  BY DEF At, p, j
<1>9. \A x : At(c, x) => p[j] = x
  BY DEF At, p, j
<1>10. CASE Went(c, 1)
  <2>1. Past(c, s) \/ p[j] = s
    BY <1>2, <1>7, <1>10
  <2> QED BY <1>5, <1>8, <2>1
<1>11. CASE /\ Went(c, 2)
            /\ \/ At(c, "listSessions") \/ At(c, "activeOtp") \/ At(c, "compareOtp")
               \/ At(c, "consume") \/ At(c, "findByEmail") \/ At(c, "linked")
  <2>1. Past(c, s) \/ p[j] = s \/ (j + 1 <= Len(p) /\ p[j + 1] = s)
    <3>1. Past(c, s) \/ \E k \in 0 .. 1 : j + k <= Len(p) /\ p[j + k] = s
      BY <1>7, <1>11
    <3> QED BY <1>2, <3>1
  <2>2. CASE j + 1 <= Len(p) /\ p[j + 1] = s
    <3>2. j < Len(p)
      BY <1>2, <2>2
    <3>3. /\ p[j] = "listSessions" => s = "revokeListed"
          /\ p[j] = "activeOtp" => s = "retireOtp"
          /\ p[j] = "compareOtp" => s = "countWrong"
          /\ p[j] = "consume" => s = "openWindow"
          /\ p[j] = "findByEmail" => s = "createUser"
          /\ p[j] = "linked" => s = "saveIdentity"
      BY <1>2, <1>3, <2>2, <3>2 DEF Placed
    <3>1. \/ s \in Skippable
          \/ s = "revokeListed" /\ p[j] = "listSessions"
      BY <1>9, <1>11, <3>3 DEF Skippable
    <3> QED BY <1>11, <1>9, <3>1
  <2> QED BY <1>5, <1>8, <2>1, <2>2
<1>12. CASE Went(c, 3) /\ At(c, "findIdentity")
  <2>1. \/ Past(c, s) \/ p[j] = s \/ (j + 1 <= Len(p) /\ p[j + 1] = s)
        \/ (j + 2 <= Len(p) /\ p[j + 2] = s)
    <3>1. Past(c, s) \/ \E k \in 0 .. 2 : j + k <= Len(p) /\ p[j + k] = s
      BY <1>7, <1>12
    <3> QED BY <1>2, <3>1
  <2>2. p[j + 1] = "findByEmail" /\ p[j + 2] = "createUser"
    BY <1>2, <1>3, <1>9, <1>12 DEF Placed
  <2> QED BY <1>5, <1>8, <1>12, <2>1, <2>2 DEF Skippable
<1>13. CASE call'[c].state = "running" /\ call'[c].next = j
  BY <1>4, <1>13 DEF Past, p, j
<1> QED BY <1>6, <1>10, <1>11, <1>12, <1>13 DEF Moves, j

LEMMA StaysPast ==
  ASSUME TypeOK, Placing, NEW c \in Calls, call[c].state = "running", Moves(c),
         scenario' = scenario, NEW s, Past(c, s), call'[c].state # "refused"
  PROVE  Past(c, s)'
<1> DEFINE p == Statements(c)
           j == call[c].next
<1>1. Statements(c)' = p
  BY DEF Statements, Kind, Request
<1>2. c \in Expected /\ Kind(c) \in Kinds /\ j \in 1 .. Len(p) /\ Len(p) \in Nat
  BY RequestTypes, ProgramLengths DEF Placing, Statements
<1>3. PICK i \in 1 .. (j - 1) : p[i] = s
  BY DEF Past
<1>4. ~Refused(c)
  BY DEF Refused, Empty
<1> HIDE DEF p, j
<1>5. \/ call'[c].state = "ok"
      \/ call'[c].state = "running" /\ \E n \in 0 .. 3 : call'[c].next = j + n
  <2>1. ASSUME NEW n \in 1 .. 3, Went(c, n)
        PROVE  call'[c].state = "ok" \/ (call'[c].state = "running" /\ call'[c].next = j + n)
    BY <2>1 DEF Went, Answers, Empty, j
  <2>2. CASE call'[c].state = "running" /\ call'[c].next = j
    BY <1>2, <2>2
  <2>3. CASE Went(c, 1)
    BY <2>1, <2>3
  <2>4. CASE Went(c, 2)
    BY <2>1, <2>4
  <2>5. CASE Went(c, 3)
    BY <2>1, <2>5
  <2> QED BY <1>4, <2>2, <2>3, <2>4, <2>5 DEF Moves, j
<1> QED BY <1>1, <1>2, <1>3, <1>5 DEF Past, p

LEMMA NotPastYet ==
  ASSUME TypeOK, Placing, NEW c \in Calls, NEW s, At(c, s)
  PROVE  ~Past(c, s)
<1>1. /\ call[c].state = "running" /\ Kind(c) \in Kinds
      /\ call[c].next \in 1 .. Len(Statements(c)) /\ Statements(c)[call[c].next] = s
      /\ Placed(Kind(c)) /\ Len(Statements(c)) \in Nat
  BY AtHas, ProgramLengths DEF At, Statements
<1> DEFINE p == Program[Kind(c)]
           j == call[c].next
<1>2. j \in 1 .. Len(p) /\ p[j] = s /\ Placed(Kind(c))
  BY <1>1 DEF Statements
<1>3. \A i \in 1 .. Len(p) : p[i] = p[j] => i = j
  <2> HIDE DEF j
  <2> QED BY <1>2 DEF Placed
<1> QED BY <1>1, <1>2, <1>3 DEF Past, Statements

\* A request that another one's step, or the clock's, leaves alone
LEMMA SamePast ==
  ASSUME NEW k, call'[k] = call[k], scenario' = scenario
  PROVE  /\ \A s : Past(k, s)' <=> Past(k, s)
         /\ \A s : At(k, s)' <=> At(k, s)
         /\ Over(k)' <=> Over(k)
         /\ Kind(k)' = Kind(k) /\ Request(k)' = Request(k)
BY DEF Past, At, Over, Statements, Kind, Request

\* What comes before a statement
LEMMA ComesAfter ==
  ASSUME TypeOK, Placing, NEW c \in Calls
  PROVE  /\ At(c, "liveDevice") \/ At(c, "revokeSession") =>
              Past(c, "findAccess") \/ Past(c, "findRefresh")
         /\ At(c, "touchDevice") => Past(c, "liveDevice")
         /\ At(c, "saveSession") /\ Kind(c) = "refresh" =>
              Past(c, "findRefresh") /\ Past(c, "liveDevice") /\ Past(c, "activeUser")
         /\ At(c, "saveSession") /\ Kind(c) = "login" => Past(c, "resetWindow")
         /\ At(c, "saveSession") /\ Kind(c) = "exchange" => Past(c, "findByEmail")
         /\ At(c, "resetWindow") => Past(c, "password")
         /\ At(c, "revokeDevice") => Past(c, "targetDevice") /\ Past(c, "touchDevice")
         /\ At(c, "updateUser") => Past(c, "unverified") \/ Past(c, "requireUser")
         /\ At(c, "useToken") => Past(c, "readToken")
         /\ At(c, "countWrong") \/ At(c, "useOtp") => Past(c, "compareOtp")
<1>1. ASSUME NEW s, At(c, s)
      PROVE  /\ Placed(Kind(c)) /\ call[c].state = "running"
             /\ call[c].next \in 1 .. Len(Program[Kind(c)])
             /\ Program[Kind(c)][call[c].next] = s
             /\ Statements(c) = Program[Kind(c)]
  BY <1>1, AtHas DEF At, Statements
<1>2. At(c, "liveDevice") \/ At(c, "revokeSession") =>
        Past(c, "findAccess") \/ Past(c, "findRefresh")
  BY <1>1 DEF Placed, Past
<1>3. At(c, "touchDevice") => Past(c, "liveDevice")
  BY <1>1 DEF Placed, Past
<1>4. /\ At(c, "saveSession") /\ Kind(c) = "refresh" =>
           Past(c, "findRefresh") /\ Past(c, "liveDevice") /\ Past(c, "activeUser")
      /\ At(c, "saveSession") /\ Kind(c) = "login" => Past(c, "resetWindow")
      /\ At(c, "saveSession") /\ Kind(c) = "exchange" => Past(c, "findByEmail")
  <2> SUFFICES ASSUME At(c, "saveSession")
               PROVE  /\ Kind(c) = "refresh" => /\ Past(c, "findRefresh")
                                                /\ Past(c, "liveDevice")
                                                /\ Past(c, "activeUser")
                      /\ Kind(c) = "login" => Past(c, "resetWindow")
                      /\ Kind(c) = "exchange" => Past(c, "findByEmail")
    OBVIOUS
  <2> DEFINE p == Program[Kind(c)]
             j == call[c].next
  <2>0. Placed(Kind(c)) /\ j \in 1 .. Len(p) /\ p[j] = "saveSession" /\ Statements(c) = p
    BY <1>1
  <2>1. /\ Kind(c) = "refresh" => /\ \E i \in 1 .. (j - 1) : p[i] = "findRefresh"
                                  /\ \E i \in 1 .. (j - 1) : p[i] = "liveDevice"
                                  /\ \E i \in 1 .. (j - 1) : p[i] = "activeUser"
        /\ Kind(c) = "login" => \E i \in 1 .. (j - 1) : p[i] = "resetWindow"
        /\ Kind(c) = "exchange" => \E i \in 1 .. (j - 1) : p[i] = "findByEmail"
    <3> HIDE DEF j
    <3> QED BY <2>0 DEF Placed
  <2> QED BY <1>1, <2>0, <2>1 DEF Past
<1>9. At(c, "resetWindow") => Past(c, "password")
  <2> SUFFICES ASSUME At(c, "resetWindow")
               PROVE  Past(c, "password")
    OBVIOUS
  <2> DEFINE p == Program[Kind(c)]
             j == call[c].next
  <2>0. Placed(Kind(c)) /\ j \in 1 .. Len(p) /\ p[j] = "resetWindow" /\ Statements(c) = p
    BY <1>1
  <2>1. j > 1 /\ p[j - 1] = "password"
    <3> HIDE DEF j
    <3> QED BY <2>0 DEF Placed
  <2>2. j - 1 \in 1 .. (j - 1)
    BY <2>0, <2>1
  <2> QED BY <1>1, <2>0, <2>1, <2>2 DEF Past
<1>5. At(c, "revokeDevice") => Past(c, "targetDevice") /\ Past(c, "touchDevice")
  <2> SUFFICES ASSUME At(c, "revokeDevice")
               PROVE  Past(c, "targetDevice") /\ Past(c, "touchDevice")
    OBVIOUS
  <2> DEFINE p == Program[Kind(c)]
             j == call[c].next
  <2>0. Placed(Kind(c)) /\ j \in 1 .. Len(p) /\ p[j] = "revokeDevice" /\ Statements(c) = p
    BY <1>1
  <2>1. /\ \E i \in 1 .. (j - 1) : p[i] = "targetDevice"
        /\ \E i \in 1 .. (j - 1) : p[i] = "touchDevice"
    <3> HIDE DEF j
    <3> QED BY <2>0 DEF Placed
  <2> QED BY <1>1, <2>0, <2>1 DEF Past
<1>6. At(c, "updateUser") => Past(c, "unverified") \/ Past(c, "requireUser")
  <2> SUFFICES ASSUME At(c, "updateUser")
               PROVE  Past(c, "unverified") \/ Past(c, "requireUser")
    OBVIOUS
  <2> DEFINE p == Program[Kind(c)]
             j == call[c].next
  <2>0. Placed(Kind(c)) /\ j \in 1 .. Len(p) /\ p[j] = "updateUser" /\ Statements(c) = p
    BY <1>1
  <2>1. \E i \in 1 .. (j - 1) : p[i] \in {"unverified", "requireUser"}
    <3> HIDE DEF j
    <3> QED BY <2>0 DEF Placed
  <2> QED BY <1>1, <2>0, <2>1 DEF Past
<1>7. At(c, "useToken") => Past(c, "readToken")
  BY <1>1 DEF Placed, Past
<1>8. At(c, "countWrong") \/ At(c, "useOtp") => Past(c, "compareOtp")
  BY <1>1 DEF Placed, Past
<1> QED BY <1>2, <1>3, <1>4, <1>5, <1>6, <1>7, <1>8, <1>9

-----------------------------------------------------------------------------
(* The invariant *)

\* The session a request came with is there, on the device it read.
HoldsSession(c) ==
  LET s == Request(c).of IN
  /\ call[c].session # NoRow /\ SessionExists(s)
  /\ sessions[s].device = call[c].session.device

\* What a request has read is there when it writes.
Ready ==
  \A c \in Calls : call[c].state = "running" =>
    /\ Past(c, "findAccess") \/ Past(c, "findRefresh") => HoldsSession(c)
    /\ Past(c, "liveDevice") =>
         call[c].device = "active" /\ devices[call[c].session.device] # "none"
    /\ Past(c, "targetDevice") => devices[Request(c).with] # "none"
    /\ Past(c, "unverified") \/ Past(c, "requireUser") \/ Past(c, "password") =>
         call[c].user # NoRow
    /\ Past(c, "compareOtp") \/ At(c, "retireOtp") =>
         call[c].otp \in OtpRead /\ otps[call[c].otp.id] # NoRow
    /\ Past(c, "readToken") => tokens[Request(c).of] # NoRow
    /\ \A s \in call[c].listed : SessionExists(s)

\* A row named by a request was made by that request.
Made ==
  \A c \in Calls : ~Over(c) =>
    /\ SessionExists(c) => Past(c, "saveSession")
    /\ tokens[c] # NoRow => Past(c, "saveToken")
    /\ otps[c] # NoRow => Past(c, "saveOtp")
    /\ devices[c] # "none" => Past(c, "saveDevice")

\* The requests before another one are over, and stay so.
Ended ==
  \A c \in Calls :
    /\ call[c].state = "idle" => before[c] = {}
    /\ \A k \in before[c] \cap Calls : Over(k)

Chained == \A s \in Ids : s \in chain[s]

Base == TypeOK /\ Placing /\ Ready /\ Made /\ Ended /\ Chained

\* A token that was claimed or marked stays used, no two requests claim one, and
\* a request reads a link only while no earlier request with it has succeeded.
TokensSpent ==
  \A c \in Calls :
    /\ Past(c, "claimToken") \/ Past(c, "useToken") =>
         tokens[Request(c).of] # NoRow /\ tokens[Request(c).of].used
    /\ Past(c, "claimToken") =>
         \A k \in Calls : k # c /\ Past(k, "claimToken") => Request(k).of # Request(c).of
    /\ Past(c, "readToken") =>
         \A k \in before[c] \cap Calls :
           k # c /\ call[k].state = "ok" /\ Kind(k) = Kind(c) /\ Kind(c) \in {"verifyEmail", "reset"} =>
             Request(k).of # Request(c).of

\* A session that outlives a request that ends sessions
Outlives(s, c) ==
  \/ \E k \in chain[s] : Overlap(k, c)
  \/ \A k \in chain[s] : k \in Calls /\ c \in before[k]

\* What a request that ends sessions leaves valid, it still has on its list or
\* it may; and so for the session that a later refresh has found.
Swept ==
  \A c \in Calls :
    /\ Past(c, "listSessions") =>
         \A s \in LiveSessions :
           Covers(c, s) =>
             Outlives(s, c) \/ (call[c].state = "running" /\ s \in call[c].listed)
    /\ call[c].state = "ok" /\ Kind(c) \in Sweeping =>
         \A k \in Calls :
           /\ Past(k, "findRefresh") /\ c \in before[k] /\ call[k].state = "running"
           /\ Covers(c, Request(k).of)
           => Outlives(Request(k).of, c)

\* A request of the same device was served beside a revocation of it.
DeviceExcused(c) ==
  \E k \in Expected : Overlap(k, c) /\ OnDevice(k, Request(c).with)

DeviceRevoked ==
  \A c \in Calls : Past(c, "revokeDevice") =>
    /\ devices[Request(c).with] = "revoked" \/ DeviceExcused(c)
    /\ \A k \in Calls :
         /\ call[k].state = "running" /\ Past(k, "liveDevice") /\ c \in before[k]
         /\ call[k].session.device = Request(c).with
         => DeviceExcused(c)

\* A writer of the user was served beside a disabling.
UserExcused(c) ==
  \E k \in Expected :
    Overlap(k, c) /\ Kind(k) \in {"verifyOtp", "verifyEmail", "reset", "plan"}

SignedIn(k) ==
  \/ Kind(k) = "login" /\ Past(k, "resetWindow")
  \/ Kind(k) = "refresh" /\ Past(k, "activeUser")
  \/ Kind(k) = "exchange" /\ Past(k, "findByEmail")

UserDisabled ==
  \A c \in Calls : Past(c, "updateUser") /\ Kind(c) = "disable" =>
    \/ UserExcused(c)
    \/ /\ user # NoRow /\ user.status = "DISABLED"
       /\ \A k \in Calls : c \in before[k] =>
            /\ call[k].user # NoRow => call[k].user.status = "DISABLED"
            /\ call[k].state = "running" => ~SignedIn(k)
            /\ ~SessionExists(k)

Guessed(o) == {c \in Expected : Kind(c) = "verifyOtp" /\ call[c].compared = o}

Apart(W) == \A k, c \in W : ~Overlap(k, c)

\* A wrong code is noted by the request that goes on to count it.
Comparing ==
  \A c \in Calls :
    /\ At(c, "countWrong") => call[c].compared = call[c].otp.id
    /\ Kind(c) = "verifyOtp" /\ call[c].compared # NoRow => Over(c) \/ At(c, "countWrong")

\* While no two of them overlap, the requests that brought a wrong value for a code
\* are all in its count, or will be when the one that runs has written it.
CodesGuessed ==
  \A o \in Ids :
    /\ IsFiniteSet(Guessed(o))
    /\ Guessed(o) # {} => otps[o] # NoRow
    /\ Apart(Guessed(o)) =>
         /\ Cardinality(Guessed(o)) <= OtpMax
         /\ (\A c \in Guessed(o) : Over(c)) /\ otps[o] # NoRow /\ ~otps[o].used =>
              Cardinality(Guessed(o)) <= otps[o].attempts
         /\ \A c \in Guessed(o) :
              ~Over(c) => Cardinality(Guessed(o)) <= call[c].otp.row.attempts + 1

Tried(t) == {c \in Expected : Kind(c) = "login" /\ call[c].compared = t}

Alone(c) == \A k \in Expected : Kind(k) = "login" => ~Overlap(k, c)

\* Nothing excuses a further wrong password at a time.
Unexcused(t) ==
  /\ \A c \in Tried(t) : Alone(c)
  /\ \A k \in Expected : Kind(k) = "login" /\ Over(k) => Request(k).with = "wrong"

\* The failures of a time are counted, and the lock is not over.
Locking(t) ==
  /\ Cardinality(Tried(t)) <= lockout.attempts
  /\ Tried(t) # {} => lockout.until = 0 \/ lockout.until > t

NoneBeyond ==
  \A k \in Expected : Kind(k) = "login" /\ call[k].state = "running" => ~Past(k, "password")

Asking(c, t) ==
  /\ Kind(c) = "login" /\ call[c].state = "running" /\ call[c].at = t
  /\ ~Past(c, "password") /\ Alone(c)

\* A log-in has its time from its beginning, and is over when it has brought a wrong
\* password.
Timed ==
  \A c \in Expected : Kind(c) = "login" =>
    /\ call[c].at <= now
    /\ call[c].compared # NoRow => Over(c) /\ call[c].compared \in 0 .. now
    /\ call[c].state = "running" =>
         /\ Past(c, "password") => Request(c).with # "wrong"
         /\ \A k \in before[c] \cap Expected :
              Kind(k) = "login" /\ call[k].compared # NoRow => call[k].compared <= call[c].at

\* The process locks no later than at the limit, and a log-in that is alone has
\* seen that there is no lock.
Unlocked ==
  /\ lockout.until = 0 => lockout.attempts < LoginMax
  /\ \A c \in Expected : At(c, "password") /\ Alone(c) => lockout.until = 0

\* The lock counts the failures of the present time, and those of the time of a
\* log-in that has still to bring its password.
PasswordsTried ==
  \A t \in Nat :
    /\ IsFiniteSet(Tried(t))
    /\ Unexcused(t) =>
         /\ Cardinality(Tried(t)) <= LoginMax
         /\ now = t /\ NoneBeyond => Locking(t)
         /\ \A c \in Expected : Asking(c, t) => Locking(t)

-----------------------------------------------------------------------------
(* Which step it is *)

LEMMA StepIs ==
  ASSUME NEW c \in Calls, Step(c)
  PROVE  /\ At(c, "findAccess") => FindAccess(c)
         /\ At(c, "findRefresh") => FindRefresh(c)
         /\ At(c, "activeUser") => ActiveUser(c)
         /\ At(c, "liveDevice") => LiveDevice(c)
         /\ At(c, "touchDevice") => TouchDevice(c)
         /\ At(c, "revokeSession") => RevokeSession(c)
         /\ At(c, "saveSession") => NewSession(c)
         /\ At(c, "targetDevice") => TargetDevice(c)
         /\ At(c, "revokeDevice") => WriteRevoked(c)
         /\ At(c, "listSessions") => ListSessions(c)
         /\ At(c, "revokeListed") => RevokeListed(c)
         /\ At(c, "unverified") => Unverified(c)
         /\ At(c, "requireUser") => RequireUser(c)
         /\ At(c, "updateUser") => WriteUser(c)
         /\ At(c, "saveToken") => MakeToken(c) \/ ProviderFails(c)
         /\ At(c, "readToken") => ReadToken(c)
         /\ At(c, "useToken") => WriteUsed(c)
         /\ At(c, "claimToken") => ClaimToken(c)
         /\ At(c, "activeOtp") => ReadActiveOtp(c)
         /\ At(c, "retireOtp") \/ At(c, "useOtp") => RetireOtp(c)
         /\ At(c, "saveOtp") => MakeOtp(c)
         /\ At(c, "compareOtp") => CompareOtp(c)
         /\ At(c, "countWrong") => CountWrong(c)
         /\ At(c, "throttle") => Throttle(c)
         /\ At(c, "password") => Password(c)
         /\ At(c, "resetWindow") => ClearWindow(c)
         /\ At(c, "saveDevice") => MakeDevice(c)
         /\ At(c, "findIdentity") => FindIdentity(c)
         /\ At(c, "findByEmail") => FindByEmail(c)
<1> DEFINE st == Statements(c)[call[c].next]
<1>1. \A x : At(c, x) => st = x
  BY DEF At
<1>2. /\ FindAccess(c) => At(c, "findAccess")
      /\ FindRefresh(c) => At(c, "findRefresh")
      /\ ActiveUser(c) => At(c, "activeUser")
      /\ LiveDevice(c) => At(c, "liveDevice")
      /\ TouchDevice(c) => At(c, "touchDevice")
      /\ RevokeSession(c) => At(c, "revokeSession")
      /\ NewSession(c) => At(c, "saveSession")
      /\ TargetDevice(c) => At(c, "targetDevice")
      /\ WriteRevoked(c) => At(c, "revokeDevice")
      /\ ListSessions(c) => At(c, "listSessions")
      /\ RevokeListed(c) => At(c, "revokeListed")
      /\ EmailFree(c) => At(c, "emailFree")
      /\ CreateUser(c) => At(c, "saveUser") \/ At(c, "createUser")
      /\ Unverified(c) => At(c, "unverified")
      /\ FindUser(c) => At(c, "findUser")
      /\ RequireUser(c) => At(c, "requireUser")
      /\ WriteUser(c) => At(c, "updateUser")
      /\ GrantsSignup(c) => At(c, "grantSignup")
      /\ MakeToken(c) => At(c, "saveToken")
      /\ ReadToken(c) => At(c, "readToken")
  BY DEF FindAccess, FindRefresh, ActiveUser, LiveDevice, TouchDevice, RevokeSession, NewSession,
         TargetDevice, WriteRevoked, ListSessions, RevokeListed, EmailFree, CreateUser,
         Unverified, FindUser, RequireUser, WriteUser, GrantsSignup, MakeToken, ReadToken
<1>3. /\ WriteUsed(c) => At(c, "useToken")
      /\ MailCode(c) => At(c, "mail")
      /\ ClaimToken(c) => At(c, "claimToken")
      /\ ProviderFails(c) => At(c, "saveToken")
      /\ Cooldown(c) => At(c, "cooldown")
      /\ ReadActiveOtp(c) => At(c, "activeOtp")
      /\ RetireOtp(c) => At(c, "retireOtp") \/ At(c, "useOtp")
      /\ MakeOtp(c) => At(c, "saveOtp")
      /\ CompareOtp(c) => At(c, "compareOtp")
      /\ CountWrong(c) => At(c, "countWrong")
      /\ Consume(c) => At(c, "consume")
      /\ OpensWindow(c) => At(c, "openWindow")
      /\ Throttle(c) => At(c, "throttle")
      /\ Password(c) => At(c, "password")
      /\ ClearWindow(c) => At(c, "resetWindow")
      /\ MakeDevice(c) => At(c, "saveDevice")
      /\ FindIdentity(c) => At(c, "findIdentity")
      /\ FindByEmail(c) => At(c, "findByEmail")
      /\ Linked(c) => At(c, "linked")
      /\ LinkIdentity(c) => At(c, "saveIdentity")
  BY DEF WriteUsed, MailCode, ClaimToken, ProviderFails, Cooldown, ReadActiveOtp, RetireOtp,
         MakeOtp, CompareOtp, CountWrong, Consume, OpensWindow, Throttle, Password, ClearWindow,
         MakeDevice, FindIdentity, FindByEmail, Linked, LinkIdentity
<1> HIDE DEF st
<1> QED BY <1>1, <1>2, <1>3 DEF Step

\* What a check that was passed has found
Found(c) ==
  /\ FindAccess(c) \/ FindRefresh(c) => SessionExists(Request(c).of)
  /\ FindRefresh(c) => ~sessions[Request(c).of].revoked
  /\ ActiveUser(c) => user # NoRow /\ user.status = "ACTIVE"
  /\ LiveDevice(c) => devices[call[c].session.device] = "active"
  /\ Unverified(c) \/ RequireUser(c) => user # NoRow
  /\ Password(c) => RightPassword(c)
  /\ TargetDevice(c) => devices[Request(c).with] # "none"
  /\ ReadToken(c) => tokens[Request(c).of] # NoRow /\ ~tokens[Request(c).of].used
  /\ ClaimToken(c) =>
       /\ tokens[Request(c).of] # NoRow /\ ~tokens[Request(c).of].used
       /\ UseToken(Request(c).of)
  /\ ClearWindow(c) => MaySignIn(call[c].user)
  /\ FindIdentity(c) \/ FindByEmail(c) => user = NoRow \/ user.status = "ACTIVE" \/ Went(c, 1)
  /\ FindByEmail(c) /\ user # NoRow => user.status = "ACTIVE"
  /\ ~ProviderFails(c) /\ ~CountWrong(c)

ReadsOtp(c) == call'[c].otp \in OtpRead /\ otps[call'[c].otp.id] # NoRow

\* What it keeps of it while it runs
Took(c) ==
  /\ FindAccess(c) \/ FindRefresh(c) => call'[c].session = sessions[Request(c).of]
  /\ LiveDevice(c) => call'[c].device = "active" /\ call'[c].session = call[c].session
  /\ Unverified(c) \/ RequireUser(c) \/ Password(c) => call'[c].user = user
  /\ CompareOtp(c) => ReadsOtp(c)
  /\ ReadActiveOtp(c) => ReadsOtp(c) \/ call'[c].next = call[c].next + 2

LEMMA RefusedState ==
  ASSUME TypeOK, NEW c \in Calls, NEW x, call' = [call EXCEPT ![c] = Empty("refused", x)]
  PROVE  call'[c].state = "refused"
BY DEF TypeOK, Empty

-----------------------------------------------------------------------------
(* What a step has found *)

LEMMA StepFinds ==
  ASSUME TypeOK, Placing, NEW c \in Calls, Step(c), call'[c].state # "refused"
  PROVE  Found(c)
<1>0. ~Refuse(c)
  BY RefusedState DEF Refuse
<1>1. FindAccess(c) => SessionExists(Request(c).of)
  BY <1>0 DEF FindAccess, Check, SessionExists
<1>2. FindRefresh(c) => SessionExists(Request(c).of) /\ ~sessions[Request(c).of].revoked
  BY <1>0 DEF FindRefresh, Check, SessionExists, Refreshes
<1>3. ActiveUser(c) => user # NoRow /\ user.status = "ACTIVE"
  BY <1>0 DEF ActiveUser, Check
<1>4. LiveDevice(c) => devices[call[c].session.device] = "active"
  BY <1>0 DEF LiveDevice, Check
<1>5. Unverified(c) \/ RequireUser(c) => user # NoRow
  BY <1>0 DEF Unverified, RequireUser, Check
<1>6. Password(c) => RightPassword(c)
  BY RefusedState DEF Password
<1>7. TargetDevice(c) => devices[Request(c).with] # "none"
  BY <1>0 DEF TargetDevice, Check
<1>8. ReadToken(c) => tokens[Request(c).of] # NoRow /\ ~tokens[Request(c).of].used
  BY <1>0 DEF ReadToken, Check, Usable
<1>9. ClaimToken(c) =>
        /\ tokens[Request(c).of] # NoRow /\ ~tokens[Request(c).of].used
        /\ UseToken(Request(c).of)
  BY <1>0 DEF ClaimToken, Claimable, Usable
<1>10. ClearWindow(c) => MaySignIn(call[c].user)
  BY <1>0 DEF ClearWindow
<1>11. FindIdentity(c) => user.status = "ACTIVE" \/ Went(c, 1)
  <2> SUFFICES ASSUME FindIdentity(c), ~identity, Continue(c, call[c])
               PROVE  Went(c, 1)
    BY <1>0 DEF FindIdentity
  <2>1. call[c] \in CallRow /\ call[c].state = "running"
    BY DEF TypeOK, FindIdentity, At
  <2> QED BY <2>1, Leaping DEF Continue
<1>12. FindByEmail(c) => user = NoRow \/ user.status = "ACTIVE"
  BY <1>0 DEF FindByEmail
<1>13. ~ProviderFails(c)
  BY <1>0 DEF ProviderFails
<1>14. ~CountWrong(c)
  BY <1>0 DEF CountWrong
<1> QED BY <1>1, <1>2, <1>3, <1>4, <1>5, <1>6, <1>7, <1>8, <1>9, <1>10, <1>11, <1>12,
           <1>13, <1>14 DEF Found

LEMMA StepTakes ==
  ASSUME TypeOK, Placing, NEW c \in Calls, Step(c), call'[c].state = "running"
  PROVE  Took(c)
<1>0. ~Refuse(c) /\ call[c] \in CallRow
  BY RefusedState DEF Refuse, TypeOK
<1>00. call[c].state = "running"
  BY StepDoes
<1>1. FindAccess(c) => call'[c].session = sessions[Request(c).of]
  <2> SUFFICES ASSUME FindAccess(c)
               PROVE  call'[c].session = sessions[Request(c).of]
    OBVIOUS
  <2>0. sessions[Request(c).of] \in SessionRow \cup {NoRow}
    BY AtHas DEF FindAccess, TypeOK, TablesTypeOK
  <2> DEFINE m == [call[c] EXCEPT !.session = sessions[Request(c).of]]
  <2>1. Continue(c, m)
    BY <1>0 DEF FindAccess, Check
  <2>2. /\ m \in CallRow /\ m.state = "running" /\ m.next = call[c].next
        /\ m.at = call[c].at /\ m.session = sessions[Request(c).of]
    BY <1>0, <1>00, <2>0 DEF CallRow, DeviceStates
  <2> HIDE DEF m
  <2>3. Keeps(c, m)
    BY <1>0, <1>00, <2>1, <2>2, Leaping DEF Continue
  <2> QED BY <2>0, <2>2, <2>3 DEF Keeps
<1>2. FindRefresh(c) => call'[c].session = sessions[Request(c).of]
  <2> SUFFICES ASSUME FindRefresh(c)
               PROVE  call'[c].session = sessions[Request(c).of]
    OBVIOUS
  <2>0. sessions[Request(c).of] \in SessionRow \cup {NoRow}
    BY AtHas DEF FindRefresh, TypeOK, TablesTypeOK
  <2> DEFINE m == [call[c] EXCEPT !.session = sessions[Request(c).of]]
  <2>1. Continue(c, m)
    BY <1>0 DEF FindRefresh, Check
  <2>2. /\ m \in CallRow /\ m.state = "running" /\ m.next = call[c].next
        /\ m.at = call[c].at /\ m.session = sessions[Request(c).of]
    BY <1>0, <1>00, <2>0 DEF CallRow, DeviceStates
  <2> HIDE DEF m
  <2>3. Keeps(c, m)
    BY <1>0, <1>00, <2>1, <2>2, Leaping DEF Continue
  <2> QED BY <2>0, <2>2, <2>3 DEF Keeps
<1>3. LiveDevice(c) => call'[c].device = "active" /\ call'[c].session = call[c].session
  <2> SUFFICES ASSUME LiveDevice(c)
               PROVE  call'[c].device = "active" /\ call'[c].session = call[c].session
    OBVIOUS
  <2>0. devices[call[c].session.device] = "active"
    BY <1>0 DEF LiveDevice, Check
  <2> DEFINE m == [call[c] EXCEPT !.device = devices[call[c].session.device]]
  <2>1. Continue(c, m)
    BY <1>0 DEF LiveDevice, Check
  <2>2. /\ m \in CallRow /\ m.state = "running" /\ m.next = call[c].next
        /\ m.at = call[c].at /\ m.device = devices[call[c].session.device] /\ m.session = call[c].session
    BY <1>0, <1>00, <2>0 DEF CallRow, DeviceStates
  <2> HIDE DEF m
  <2>3. Keeps(c, m)
    BY <1>0, <1>00, <2>1, <2>2, Leaping DEF Continue
  <2> QED BY <2>0, <2>2, <2>3 DEF Keeps
<1>4. Unverified(c) => call'[c].user = user
  <2> SUFFICES ASSUME Unverified(c)
               PROVE  call'[c].user = user
    OBVIOUS
  <2>0. user \in UserRow \cup {NoRow}
    BY DEF TypeOK, TablesTypeOK
  <2> DEFINE m == [call[c] EXCEPT !.user = user]
  <2>1. Continue(c, m)
    BY <1>0 DEF Unverified, Check
  <2>2. /\ m \in CallRow /\ m.state = "running" /\ m.next = call[c].next
        /\ m.at = call[c].at /\ m.user = user
    BY <1>0, <1>00, <2>0 DEF CallRow, DeviceStates
  <2> HIDE DEF m
  <2>3. Keeps(c, m)
    BY <1>0, <1>00, <2>1, <2>2, Leaping DEF Continue
  <2> QED BY <2>0, <2>2, <2>3 DEF Keeps
<1>5. RequireUser(c) => call'[c].user = user
  <2> SUFFICES ASSUME RequireUser(c)
               PROVE  call'[c].user = user
    OBVIOUS
  <2>0. user \in UserRow \cup {NoRow}
    BY DEF TypeOK, TablesTypeOK
  <2> DEFINE m == [call[c] EXCEPT !.user = user]
  <2>1. Continue(c, m)
    BY <1>0 DEF RequireUser, Check
  <2>2. /\ m \in CallRow /\ m.state = "running" /\ m.next = call[c].next
        /\ m.at = call[c].at /\ m.user = user
    BY <1>0, <1>00, <2>0 DEF CallRow, DeviceStates
  <2> HIDE DEF m
  <2>3. Keeps(c, m)
    BY <1>0, <1>00, <2>1, <2>2, Leaping DEF Continue
  <2> QED BY <2>0, <2>2, <2>3 DEF Keeps
<1>6. Password(c) => call'[c].user = user
  <2> SUFFICES ASSUME Password(c)
               PROVE  call'[c].user = user
    OBVIOUS
  <2>0. user \in UserRow \cup {NoRow}
    BY DEF TypeOK, TablesTypeOK
  <2> DEFINE m == [call[c] EXCEPT !.user = user]
  <2>1. Continue(c, m)
    BY RefusedState DEF Password
  <2>2. /\ m \in CallRow /\ m.state = "running" /\ m.next = call[c].next
        /\ m.at = call[c].at /\ m.user = user
    BY <1>0, <1>00, <2>0 DEF CallRow, DeviceStates
  <2> HIDE DEF m
  <2>3. Keeps(c, m)
    BY <1>0, <1>00, <2>1, <2>2, Leaping DEF Continue
  <2> QED BY <2>0, <2>2, <2>3 DEF Keeps
<1>7. CompareOtp(c) => ReadsOtp(c)
  <2> SUFFICES ASSUME CompareOtp(c)
               PROVE  ReadsOtp(c)
    OBVIOUS
  <2>1. PICK o \in ActiveOtps :
          LET m == [call[c] EXCEPT !.otp = [id |-> o, row |-> otps[o]]] IN
          Leap(c, m, 2) \/ Continue(c, [m EXCEPT !.compared = o])
    BY <1>0 DEF CompareOtp
  <2>2. o \in Ids /\ otps[o] \in OtpRow /\ otps[o] # NoRow
    BY <2>1 DEF ActiveOtps, TypeOK, TablesTypeOK
  <2> DEFINE read == [id |-> o, row |-> otps[o]]
             m == [call[c] EXCEPT !.otp = read]
             mm == [m EXCEPT !.compared = o]
  <2>3. read \in OtpRead /\ otps[read.id] # NoRow
    BY <2>2 DEF OtpRead
  <2>4. Leap(c, m, 2) \/ Continue(c, mm)
    BY <2>1
  <2> HIDE DEF read
  <2>5. /\ m \in CallRow /\ m.state = "running" /\ m.next = call[c].next
        /\ m.at = call[c].at /\ m.otp = read
    BY <1>0, <1>00, <2>3 DEF CallRow
  <2> HIDE DEF m
  <2>6. /\ mm \in CallRow /\ mm.state = "running" /\ mm.next = call[c].next
        /\ mm.at = call[c].at /\ mm.otp = read
    BY <2>2, <2>5 DEF CallRow
  <2> HIDE DEF mm
  <2>7. CASE Leap(c, m, 2)
    BY <1>0, <1>00, <2>3, <2>5, <2>7, Leaping DEF Keeps, ReadsOtp
  <2>8. CASE Continue(c, mm)
    BY <1>0, <1>00, <2>3, <2>6, <2>8, Leaping DEF Continue, Keeps, ReadsOtp
  <2> QED BY <2>4, <2>7, <2>8
<1>8. ReadActiveOtp(c) => ReadsOtp(c) \/ call'[c].next = call[c].next + 2
  <2> SUFFICES ASSUME ReadActiveOtp(c), ~(call'[c].next = call[c].next + 2)
               PROVE  ReadsOtp(c)
    OBVIOUS
  <2>1. ~Leap(c, call[c], 2)
    <3> SUFFICES ASSUME Leap(c, call[c], 2)
                 PROVE  call'[c].next = call[c].next + 2
      OBVIOUS
    <3>1. Went(c, 2)
      BY <1>0, <1>00, Leaping
    <3> QED BY <1>0, <3>1 DEF Went, Answers, Empty
  <2>2. PICK o \in ActiveOtps : Continue(c, [call[c] EXCEPT !.otp = [id |-> o, row |-> otps[o]]])
    BY <2>1 DEF ReadActiveOtp
  <2>3. o \in Ids /\ otps[o] \in OtpRow /\ otps[o] # NoRow
    BY <2>2 DEF ActiveOtps, TypeOK, TablesTypeOK
  <2> DEFINE read == [id |-> o, row |-> otps[o]]
             m == [call[c] EXCEPT !.otp = read]
  <2>4. read \in OtpRead /\ otps[read.id] # NoRow
    BY <2>3 DEF OtpRead
  <2>5. Continue(c, m)
    BY <2>2
  <2> HIDE DEF read
  <2>6. /\ m \in CallRow /\ m.state = "running" /\ m.next = call[c].next
        /\ m.at = call[c].at /\ m.otp = read
    BY <1>0, <1>00, <2>4 DEF CallRow
  <2> HIDE DEF m
  <2> QED BY <1>0, <1>00, <2>4, <2>5, <2>6, Leaping DEF Continue, Keeps, ReadsOtp
<1> QED BY <1>1, <1>2, <1>3, <1>4, <1>5, <1>6, <1>7, <1>8 DEF Took

-----------------------------------------------------------------------------
(* From one state to the next *)

LEMMA Beginning ==
  ASSUME TypeOK, Placing, NEW c \in Calls, Begin(c)
  PROVE  /\ c \in Expected /\ call[c].state = "idle"
         /\ Others(c) /\ call' \in [Calls -> CallRow]
         /\ call'[c].state = "running" /\ call'[c].next = 1
         /\ call'[c].at = (IF Kind(c) = "login" THEN now ELSE 0)
         /\ call'[c].user = NoRow /\ call'[c].session = NoRow /\ call'[c].listed = {}
         /\ call'[c].compared = NoRow
         /\ before' = [before EXCEPT ![c] = {Home} \cup {k \in Calls : Over(k)}]
         /\ UNCHANGED <<now, tables, scenario, chain>>
<1>1. /\ c \in Expected /\ call[c].state = "idle" /\ call[c] = Empty("idle", NoRow)
      /\ before' = [before EXCEPT ![c] = {Home} \cup {k \in Calls : Over(k)}]
      /\ UNCHANGED <<now, tables, scenario, chain>>
  BY DEF Begin, Placing
<1> DEFINE at == IF Kind(c) = "login" THEN now ELSE 0
           m1 == [call[c] EXCEPT !.state = "running"]
           m2 == [m1 EXCEPT !.next = 1]
           row == [m2 EXCEPT !.at = at]
<1>2. at \in Nat
  BY DEF TypeOK
<1>3. /\ call[c] \in CallRow /\ call[c].user = NoRow /\ call[c].session = NoRow
      /\ call[c].listed = {} /\ call[c].compared = NoRow
  <2>1. call[c] \in CallRow
    BY DEF TypeOK
  <2>2. LET e == Empty("idle", NoRow) IN
        e.user = NoRow /\ e.session = NoRow /\ e.listed = {} /\ e.compared = NoRow
    BY DEF Empty
  <2> QED BY <1>1, <2>1, <2>2
<1>5. call' = [call EXCEPT ![c] = row]
  <2>1. call' = [call EXCEPT ![c].state = "running", ![c].next = 1, ![c].at = at]
    BY DEF Begin
  <2> QED BY <2>1 DEF TypeOK
<1> HIDE DEF at
<1>6. /\ m1 \in CallRow /\ m1.state = "running"
      /\ m1.user = NoRow /\ m1.session = NoRow /\ m1.listed = {} /\ m1.compared = NoRow
  BY <1>3 DEF CallRow
<1> HIDE DEF m1
<1>8. /\ m2 \in CallRow /\ m2.state = "running" /\ m2.next = 1
      /\ m2.user = NoRow /\ m2.session = NoRow /\ m2.listed = {} /\ m2.compared = NoRow
  BY <1>6 DEF CallRow
<1> HIDE DEF m2
<1>9. /\ row \in CallRow /\ row.state = "running" /\ row.next = 1 /\ row.at = at
      /\ row.user = NoRow /\ row.session = NoRow /\ row.listed = {} /\ row.compared = NoRow
  BY <1>2, <1>8 DEF CallRow
<1> HIDE DEF row
<1>7. call'[c] = row /\ Others(c) /\ call' \in [Calls -> CallRow]
  BY <1>5, <1>9 DEF TypeOK, Others
<1> QED BY <1>1, <1>9, <1>7 DEF at

\* Every step is one of a request, or of no request at all.
LEMMA Steps ==
  ASSUME TypeOK, Placing, [Next]_vars
  PROVE  \/ /\ UNCHANGED <<tables, scenario, call, history>>
            /\ now' \in {now, now + 1}
         \/ \E c \in Calls : Begin(c)
         \/ \E c \in Calls : Step(c) /\ Does(c) /\ call[c].state = "running"
<1>1. CASE UNCHANGED vars
  BY <1>1 DEF vars, tables, history
<1>2. CASE Tick
  BY <1>2 DEF Tick
<1>3. CASE \E c \in Calls : Begin(c)
  BY <1>3
<1>4. CASE \E c \in Calls : Step(c)
  BY <1>4, StepDoes
<1> QED BY <1>1, <1>2, <1>3, <1>4, NextSteps

\* The same for one request
LEMMA StepsOf ==
  ASSUME TypeOK, Placing, [Next]_vars, NEW k \in Calls
  PROVE  /\ scenario' = scenario
         /\ Kind(k)' = Kind(k) /\ Request(k)' = Request(k) /\ Statements(k)' = Statements(k)
         /\ \/ call'[k] = call[k] /\ before'[k] = before[k]
            \/ Begin(k)
            \/ /\ Step(k) /\ Does(k) /\ call[k].state = "running"
               /\ before'[k] = before[k]
<1>1. CASE UNCHANGED <<tables, scenario, call, history>>
  BY <1>1 DEF history, Kind, Request, Statements
<1>2. ASSUME NEW c \in Calls, Begin(c)
      PROVE  scenario' = scenario /\ (c # k => call'[k] = call[k] /\ before'[k] = before[k])
  BY <1>2, Beginning DEF Others, TypeOK
<1>3. ASSUME NEW c \in Calls, Does(c)
      PROVE  /\ scenario' = scenario /\ before' = before
             /\ c # k => call'[k] = call[k]
  BY <1>3 DEF Does, Moves, Writes, Others
<1>4. scenario' = scenario
  BY <1>1, <1>2, <1>3, Steps
<1>5. Kind(k)' = Kind(k) /\ Request(k)' = Request(k) /\ Statements(k)' = Statements(k)
  BY <1>4 DEF Kind, Request, Statements
<1> QED BY <1>1, <1>2, <1>3, <1>4, <1>5, Steps

Firm == {"findAccess", "findRefresh", "activeUser", "liveDevice", "saveSession", "saveToken",
         "saveOtp", "saveDevice", "targetDevice", "unverified", "requireUser", "password",
         "compareOtp", "readToken", "claimToken", "useToken", "listSessions", "revokeDevice",
         "updateUser", "resetWindow"}

\* A request is past what it was past, or has just done.
LEMMA PastBefore ==
  ASSUME TypeOK, Placing, [Next]_vars, NEW k \in Calls, NEW s \in Firm, Past(k, s)'
  PROVE  \/ Past(k, s)
         \/ At(k, s) /\ Step(k) /\ Does(k) /\ Found(k) /\ (call'[k].state = "running" => Took(k))
<1>1. CASE call'[k] = call[k]
  BY <1>1, StepsOf, SamePast
<1>2. CASE Begin(k)
  <2>1. call'[k].state = "running" /\ call'[k].next = 1
    BY <1>2, Beginning
  <2> QED BY <2>1 DEF Past
<1>3. CASE Step(k) /\ Does(k) /\ call[k].state = "running"
  <2>1. \/ Past(k, s)
        \/ At(k, s) /\ call'[k].state # "refused"
    BY <1>3, StepsOf, NewlyPast DEF Does, Firm, Skippable
  <2> QED BY <1>3, <2>1, StepFinds, StepTakes
<1> QED BY <1>1, <1>2, <1>3, StepsOf

\* What it is past it stays past unless it is refused.
LEMMA PastAfter ==
  ASSUME TypeOK, Placing, [Next]_vars, NEW k \in Calls, NEW s, Past(k, s)
  PROVE  Past(k, s)' \/ (call'[k].state = "refused" /\ call[k].state = "running")
<1>1. CASE call'[k] = call[k]
  BY <1>1, StepsOf, SamePast
<1>2. CASE Begin(k)
  BY <1>2 DEF Begin, Past
<1>3. CASE Step(k) /\ Does(k) /\ call[k].state = "running"
  BY <1>3, StepsOf, StaysPast DEF Does
<1> QED BY <1>1, <1>2, <1>3, StepsOf

\* An answer is not taken back.
LEMMA StaysOver ==
  ASSUME TypeOK, Placing, [Next]_vars, NEW k \in Calls, Over(k)
  PROVE  call'[k] = call[k] /\ before'[k] = before[k] /\ Over(k)' /\ Over(k)
<1>1. call[k].state \notin {"idle", "running"}
  BY DEF Over
<1>2. call'[k] = call[k] /\ before'[k] = before[k]
  BY <1>1, StepsOf DEF Begin
<1> QED BY <1>2 DEF Over

-----------------------------------------------------------------------------
(* The tables keep their types *)

LEMMA RowsAreNoNoRow ==
  /\ NoRow \notin UserRow /\ NoRow \notin SessionRow /\ NoRow \notin OtpRow
  /\ NoRow \notin TokenRow /\ NoRow \notin WindowRow /\ NoRow \notin Ids /\ NoRow \notin Nat
BY NoRowAssumption

\* A request makes its row once.
LEMMA MadeOnce ==
  ASSUME TypeOK, Placing, Made, NEW c \in Calls
  PROVE  /\ At(c, "saveSession") => ~SessionExists(c)
         /\ At(c, "saveToken") => tokens[c] = NoRow
         /\ At(c, "saveOtp") => otps[c] = NoRow
         /\ At(c, "saveDevice") => devices[c] = "none"
<1>1. ASSUME NEW s, At(c, s)
      PROVE  ~Over(c) /\ ~Past(c, s)
  BY <1>1, NotPastYet DEF At, Over
<1> QED BY <1>1 DEF Made

LEMMA ChangedRow ==
  ASSUME TypeOK, NEW c \in Expected, call[c].user \in UserRow
  PROVE  /\ Changed(c) \in UserRow
         /\ Changed(c).status = IF Kind(c) = "disable" THEN "DISABLED" ELSE call[c].user.status
<1> DEFINE u == call[c].user
           m1 == [u EXCEPT !.verified = @ \/ Kind(c) \in {"verifyOtp", "verifyEmail"}]
           m2 == [m1 EXCEPT !.password = IF Kind(c) = "reset" THEN "new" ELSE @]
           m3 == [m2 EXCEPT !.status = IF Kind(c) = "disable" THEN "DISABLED" ELSE @]
           m4 == [m3 EXCEPT !.plan = IF Kind(c) = "plan" THEN Request(c).with ELSE @]
<1>1. Changed(c) = m4
  BY DEF Changed
<1>2. m1 \in UserRow /\ m1.status = u.status
  BY DEF UserRow
<1> HIDE DEF m1
<1>3. m2 \in UserRow /\ m2.status = u.status
  BY <1>2 DEF UserRow
<1> HIDE DEF m2
<1>4. m3 \in UserRow /\ m3.status = IF Kind(c) = "disable" THEN "DISABLED" ELSE u.status
  BY <1>3 DEF UserRow
<1> HIDE DEF m3
<1>5. Kind(c) = "plan" => Request(c).with \in {"FREE", "PRO"}
  BY RequestTypes
<1>6. m4 \in UserRow /\ m4.status = m3.status
  BY <1>4, <1>5 DEF UserRow
<1> HIDE DEF m4
<1> QED BY <1>1, <1>4, <1>6

\* How a step writes the sessions
LEMMA SessionWrites ==
  ASSUME TypeOK, Placing, Ready, Made, NEW c \in Calls, Step(c)
  PROVE  \/ sessions' = sessions /\ chain' = chain
         \/ /\ \E s \in Ids : SessionExists(s) /\ UpdateSession(s)
            /\ chain' = chain
         \/ /\ NewSession(c) /\ At(c, "saveSession") /\ ~SessionExists(c)
            /\ Kind(c) \in SignsIn \cup {"refresh"}
            /\ Kind(c) = "refresh" =>
                 HoldsSession(c) /\ Past(c, "findRefresh") /\ Past(c, "liveDevice")
<1>1. Does(c) /\ call[c].state = "running"
  BY StepDoes
<1>2. CASE RevokeSession(c)
  <2>1. At(c, "revokeSession") /\ UpdateSession(Request(c).of)
    BY <1>2 DEF RevokeSession
  <2>2. HoldsSession(c)
    BY <1>1, <2>1, ComesAfter DEF Ready
  <2>4. Request(c).of \in Ids
    BY <2>1, AtHas
  <2> QED BY <1>2, <2>1, <2>2, <2>4 DEF HoldsSession, RevokeSession, Frame, history
<1>3. CASE RevokeListed(c)
  <2>1. PICK s \in call[c].listed : UpdateSession(s)
    BY <1>3 DEF RevokeListed
  <2>2. s \in Ids /\ SessionExists(s)
    BY <1>1, <2>1 DEF Ready, TypeOK, CallRow
  <2> QED BY <1>3, <2>1, <2>2 DEF RevokeListed, Frame, history
<1>4. CASE NewSession(c)
  <2>1. At(c, "saveSession")
    BY <1>4 DEF NewSession
  <2>2. ~SessionExists(c)
    BY <2>1, MadeOnce
  <2>3. Kind(c) \in SignsIn \cup {"refresh"}
    BY <2>1, AtHas DEF Placed, Statements
  <2>4. Kind(c) = "refresh" =>
          HoldsSession(c) /\ Past(c, "findRefresh") /\ Past(c, "liveDevice")
    BY <1>1, <2>1, ComesAfter DEF Ready
  <2> QED BY <1>4, <2>1, <2>2, <2>3, <2>4
<1> QED BY <1>1, <1>2, <1>3, <1>4 DEF Does, Writes

-----------------------------------------------------------------------------
(* How a step writes the other tables *)

LEMMA LivesAfter ==
  ASSUME TypeOK, Placing, NEW c \in Calls, call[c].state = "running", Past(c, "liveDevice")
  PROVE  Past(c, "findAccess") \/ Past(c, "findRefresh")
<1> DEFINE p == Program[Kind(c)]
<1>1. /\ Statements(c) = p /\ Kind(c) \in Kinds
      /\ call[c].next \in 1 .. Len(p) /\ Len(p) \in Nat
  BY RequestTypes, ProgramLengths DEF Placing, Statements
<1>2. PICK j \in 1 .. (call[c].next - 1) : p[j] = "liveDevice"
  BY <1>1 DEF Past
<1>3. j \in 1 .. Len(p) /\ Placed(Kind(c))
  BY <1>1, <1>2, ProgramsPlaced
<1>4. PICK i \in 1 .. (j - 1) : p[i] \in {"findAccess", "findRefresh"}
  BY <1>2, <1>3 DEF Placed
<1>5. i \in 1 .. (call[c].next - 1)
  BY <1>1, <1>2, <1>4
<1> QED BY <1>1, <1>4, <1>5 DEF Past

LEMMA TokenWrites ==
  ASSUME TypeOK, Placing, Ready, Made, NEW c \in Calls, Step(c)
  PROVE  \/ tokens' = tokens
         \/ MakeToken(c) /\ At(c, "saveToken") /\ SaveToken(c) /\ tokens[c] = NoRow
         \/ /\ At(c, "useToken") \/ At(c, "claimToken")
            /\ UseToken(Request(c).of)
            /\ Request(c).of \in Ids /\ tokens[Request(c).of] # NoRow
<1>1. Does(c) /\ call[c].state = "running"
  BY StepDoes
<1>2. CASE MakeToken(c)
  BY <1>2, MadeOnce DEF MakeToken
<1>3. ASSUME At(c, "useToken") \/ At(c, "claimToken")
      PROVE  Request(c).of \in Ids
  <2>1. Kind(c) \in {"verifyEmail", "reset", "callback", "exchange"} /\ c \in Expected
    BY <1>3, AtHas DEF Placed, Statements
  <2> QED BY <2>1, RequestTypes
<1>4. CASE WriteUsed(c)
  <2>1. At(c, "useToken") /\ UseToken(Request(c).of)
    BY <1>4 DEF WriteUsed
  <2>2. Past(c, "readToken")
    BY <2>1, ComesAfter
  <2> QED BY <1>1, <1>3, <2>1, <2>2 DEF Ready
<1>5. CASE ClaimToken(c)
  <2>1. At(c, "claimToken")
    BY <1>5 DEF ClaimToken
  <2>2. CASE ~UseToken(Request(c).of)
    BY <1>5, <2>2 DEF ClaimToken, tables
  <2>3. CASE UseToken(Request(c).of) /\ tokens[Request(c).of] # NoRow
    BY <1>3, <2>1, <2>3
  <2>4. CASE tokens' = tokens
    BY <2>4
  <2> QED BY <1>5, <2>2, <2>3, <2>4 DEF ClaimToken, Claimable, Usable, tables
<1> QED BY <1>1, <1>2, <1>4, <1>5 DEF Does, Writes

LEMMA DeviceWrites ==
  ASSUME TypeOK, Placing, Ready, Made, NEW c \in Calls, Step(c)
  PROVE  \/ devices' = devices
         \/ At(c, "saveDevice") /\ SaveDevice(c) /\ devices[c] = "none"
         \/ LET d == call[c].session.device IN
            /\ At(c, "touchDevice") /\ Past(c, "liveDevice") /\ HoldsSession(c)
            /\ d \in Ids /\ devices[d] # "none" /\ UpdateDevice(d, "active")
         \/ LET d == Request(c).with IN
            /\ At(c, "revokeDevice") /\ Kind(c) = "revokeDevice"
            /\ d \in Ids /\ devices[d] # "none" /\ UpdateDevice(d, "revoked")
<1>1. Does(c) /\ call[c].state = "running"
  BY StepDoes
<1>2. CASE MakeDevice(c)
  BY <1>2, MadeOnce DEF MakeDevice
<1>3. CASE TouchDevice(c)
  <2>1. At(c, "touchDevice") /\ UpdateDevice(call[c].session.device, call[c].device)
    BY <1>3 DEF TouchDevice
  <2>2. Past(c, "liveDevice")
    BY <2>1, ComesAfter
  <2>3. call[c].device = "active" /\ devices[call[c].session.device] # "none"
    BY <1>1, <2>2 DEF Ready
  <2>4. HoldsSession(c)
    BY <1>1, <2>2, LivesAfter DEF Ready
  <2>5. call[c].session.device \in Ids
    BY <2>4 DEF HoldsSession, TypeOK, CallRow, SessionRow
  <2> QED BY <2>1, <2>2, <2>3, <2>4, <2>5
<1>4. CASE WriteRevoked(c)
  <2>1. At(c, "revokeDevice") /\ UpdateDevice(Request(c).with, "revoked")
    BY <1>4 DEF WriteRevoked
  <2>2. Kind(c) = "revokeDevice" /\ c \in Expected
    BY <2>1, AtHas DEF Placed, Statements
  <2>3. Past(c, "targetDevice")
    BY <2>1, ComesAfter
  <2> QED BY <1>1, <2>1, <2>2, <2>3, RequestTypes DEF Ready
<1> QED BY <1>1, <1>2, <1>3, <1>4 DEF Does, Writes

LEMMA OtpWrites ==
  ASSUME TypeOK, Placing, Ready, Made, NEW c \in Calls, Step(c)
  PROVE  \/ otps' = otps
         \/ At(c, "saveOtp") /\ SaveOtp(c) /\ otps[c] = NoRow
         \/ LET read == call[c].otp IN
            /\ read \in OtpRead /\ otps[read.id] # NoRow
            /\ \/ /\ At(c, "retireOtp") \/ At(c, "useOtp")
                  /\ UpdateOtp(read.id, [read.row EXCEPT !.used = TRUE])
               \/ /\ At(c, "countWrong")
                  /\ UpdateOtp(read.id, [read.row EXCEPT !.attempts = @ + 1])
<1>1. Does(c) /\ call[c].state = "running"
  BY StepDoes
<1>2. CASE MakeOtp(c)
  BY <1>2, MadeOnce DEF MakeOtp
<1>3. CASE RetireOtp(c)
  <2>1. /\ At(c, "retireOtp") \/ At(c, "useOtp")
        /\ UpdateOtp(call[c].otp.id, [call[c].otp.row EXCEPT !.used = TRUE])
    BY <1>3 DEF RetireOtp
  <2>2. Past(c, "compareOtp") \/ At(c, "retireOtp")
    BY <2>1, ComesAfter
  <2> QED BY <1>1, <2>1, <2>2 DEF Ready
<1>4. CASE CountWrong(c)
  <2>1. /\ At(c, "countWrong")
        /\ UpdateOtp(call[c].otp.id, [call[c].otp.row EXCEPT !.attempts = @ + 1])
    BY <1>4 DEF CountWrong
  <2>2. Past(c, "compareOtp")
    BY <2>1, ComesAfter
  <2> QED BY <1>1, <2>1, <2>2 DEF Ready
<1> QED BY <1>1, <1>2, <1>3, <1>4 DEF Does, Writes

LEMMA UserWrites ==
  ASSUME TypeOK, Placing, Ready, NEW c \in Calls, Step(c)
  PROVE  \/ user' = user
         \/ user = NoRow /\ user' \in UserRow
         \/ /\ At(c, "updateUser") /\ call[c].user \in UserRow
            /\ Kind(c) \in {"verifyOtp", "verifyEmail", "reset", "disable", "plan"}
            /\ user' = Changed(c) /\ Changed(c) \in UserRow
<1>1. Does(c) /\ call[c].state = "running"
  BY StepDoes
<1>2. CASE CreateUser(c)
  <2>1. NewUser(c) \in UserRow
    BY DEF NewUser, UserRow
  <2> QED BY <1>2, <2>1 DEF CreateUser, SaveUser, tables
<1>3. CASE WriteUser(c)
  <2>1. At(c, "updateUser") /\ user' = Changed(c)
    BY <1>3 DEF WriteUser, UpdateUser
  <2>2. /\ c \in Expected
        /\ Kind(c) \in {"verifyOtp", "verifyEmail", "reset", "disable", "plan"}
    BY <2>1, AtHas DEF Placed, Statements
  <2>3. Past(c, "unverified") \/ Past(c, "requireUser")
    BY <2>1, ComesAfter
  <2>4. call[c].user \in UserRow
    BY <1>1, <2>3 DEF Ready, TypeOK, CallRow
  <2>5. Changed(c) \in UserRow
    BY <2>2, <2>4, ChangedRow
  <2> QED BY <2>1, <2>2, <2>4, <2>5
<1> QED BY <1>1, <1>2, <1>3 DEF Does, Writes

-----------------------------------------------------------------------------
(* The invariant is kept *)

LEMMA TablesTyped ==
  ASSUME TypeOK, Placing, Ready, Made, NEW c \in Calls, Step(c)
  PROVE  TablesTypeOK' /\ chain' \in [Ids -> SUBSET Ids]
<1>1. Does(c) /\ call[c].state = "running" /\ call[c] \in CallRow /\ c \in Ids
  BY StepDoes DEF TypeOK, Ids
<1>2. user' \in UserRow \cup {NoRow}
  BY UserWrites DEF TypeOK, TablesTypeOK
<1>3. identity' \in BOOLEAN /\ granted' \in BOOLEAN /\ mailed' \subseteq Ids
  <2>1. identity' \in BOOLEAN
    BY <1>1 DEF Does, Writes, TypeOK, TablesTypeOK, LinkIdentity, SaveIdentity
  <2>2. granted' \in BOOLEAN
    BY <1>1 DEF Does, Writes, TypeOK, TablesTypeOK, GrantsSignup, GrantSignup
  <2>3. mailed' \subseteq Ids
    BY <1>1 DEF Does, Writes, TypeOK, TablesTypeOK, MailCode, Mail
  <2> QED BY <2>1, <2>2, <2>3
<1>4. devices' \in [Ids -> DeviceStates]
  BY <1>1, DeviceWrites DEF SaveDevice, UpdateDevice, TypeOK, TablesTypeOK, DeviceStates
<1>5. sessions' \in [Ids -> SessionRow \cup {NoRow}] /\ chain' \in [Ids -> SUBSET Ids]
  <2>1. CASE sessions' = sessions /\ chain' = chain
    BY <2>1 DEF TypeOK, TablesTypeOK
  <2>2. CASE (\E s \in Ids : SessionExists(s) /\ UpdateSession(s)) /\ chain' = chain
    <3>1. PICK s \in Ids : SessionExists(s) /\ UpdateSession(s)
      BY <2>2
    <3> DEFINE row == [sessions[s] EXCEPT !.revoked = TRUE]
    <3>2. row \in SessionRow
      BY <3>1 DEF SessionExists, TypeOK, TablesTypeOK, SessionRow
    <3>3. sessions' = [sessions EXCEPT ![s] = row]
      BY <3>1 DEF UpdateSession
    <3> HIDE DEF row
    <3> QED BY <2>2, <3>2, <3>3 DEF TypeOK, TablesTypeOK
  <2>3. CASE /\ NewSession(c) /\ Kind(c) \in SignsIn \cup {"refresh"}
             /\ Kind(c) = "refresh" => HoldsSession(c)
    <3> DEFINE row == [device |-> IF Kind(c) = "refresh" THEN call[c].session.device ELSE c,
                       at |-> IF Kind(c) = "login" THEN call[c].at ELSE now,
                       revoked |-> FALSE]
    <3>1. row.device \in Ids /\ row.at \in Nat
      BY <1>1, <2>3 DEF HoldsSession, CallRow, SessionRow, TypeOK
    <3>2. sessions' = [sessions EXCEPT ![c] = row]
      BY <2>3 DEF NewSession, SaveSession
    <3>3. row \in SessionRow
      BY <3>1 DEF SessionRow
    <3> HIDE DEF row
    <3>4. sessions' \in [Ids -> SessionRow \cup {NoRow}]
      BY <1>1, <3>2, <3>3 DEF TypeOK, TablesTypeOK
    <3>5. Kind(c) = "refresh" => Request(c).of \in Ids
      BY <1>1, RequestTypes DEF Placing
    <3>6. chain' = [chain EXCEPT ![c] = IF Kind(c) = "refresh" THEN {c} \cup chain[Request(c).of]
                                        ELSE {c}]
      BY <2>3 DEF NewSession
    <3> QED BY <1>1, <3>4, <3>5, <3>6 DEF TypeOK
  <2> QED BY <2>1, <2>2, <2>3, SessionWrites
<1>6. tokens' \in [Ids -> TokenRow \cup {NoRow}]
  <2>1. CASE SaveToken(c)
    BY <1>1, <2>1 DEF SaveToken, TypeOK, TablesTypeOK, TokenRow
  <2>2. CASE /\ UseToken(Request(c).of)
             /\ Request(c).of \in Ids /\ tokens[Request(c).of] # NoRow
    <3> DEFINE t == Request(c).of
               row == [tokens[t] EXCEPT !.used = TRUE]
    <3>1. row \in TokenRow
      BY <2>2 DEF TypeOK, TablesTypeOK, TokenRow
    <3>2. tokens' = [tokens EXCEPT ![t] = row]
      BY <2>2 DEF UseToken
    <3> HIDE DEF row
    <3> QED BY <3>1, <3>2 DEF TypeOK, TablesTypeOK
  <2> QED BY <2>1, <2>2, TokenWrites DEF TypeOK, TablesTypeOK
<1>7. otps' \in [Ids -> OtpRow \cup {NoRow}]
  <2> DEFINE read == call[c].otp
             used == [read.row EXCEPT !.used = TRUE]
             counted == [read.row EXCEPT !.attempts = @ + 1]
  <2>1. CASE SaveOtp(c)
    BY <1>1, <2>1 DEF SaveOtp, TypeOK, TablesTypeOK, OtpRow
  <2>2. CASE read \in OtpRead /\ UpdateOtp(read.id, used)
    <3>1. used \in OtpRow
      BY <2>2 DEF OtpRead, OtpRow
    <3> HIDE DEF used
    <3> QED BY <2>2, <3>1 DEF UpdateOtp, TypeOK, TablesTypeOK
  <2>3. CASE read \in OtpRead /\ UpdateOtp(read.id, counted)
    <3>1. counted \in OtpRow
      BY <2>3 DEF OtpRead, OtpRow
    <3> HIDE DEF counted
    <3> QED BY <2>3, <3>1 DEF UpdateOtp, TypeOK, TablesTypeOK
  <2>4. CASE otps' = otps
    BY <2>4 DEF TypeOK, TablesTypeOK
  <2> HIDE DEF used, counted
  <2> QED BY <2>1, <2>2, <2>3, <2>4, OtpWrites DEF used, counted
<1>8. window' \in WindowRow \cup {NoRow}
  <2>1. ASSUME OpenWindow(call[c].at)
        PROVE  window' \in WindowRow
    BY <1>1, <2>1 DEF OpenWindow, WindowRow, CallRow
  <2>2. ASSUME window \in WindowRow, CountInWindow
        PROVE  window' \in WindowRow
    BY <2>2 DEF CountInWindow, WindowRow
  <2>3. ASSUME ~WindowOver(call[c].at)
        PROVE  window \in WindowRow
    BY <2>3 DEF WindowOver, TypeOK, TablesTypeOK
  <2>4. Consume(c) => window' \in WindowRow \cup {NoRow}
    BY <2>1, <2>2, <2>3 DEF Consume, tables, TypeOK, TablesTypeOK
  <2> QED BY <1>1, <2>1, <2>4
          DEF Does, Writes, OpensWindow, ClearWindow, ResetWindow, TypeOK, TablesTypeOK
<1>9. lockout' \in [attempts : Nat, until : Nat]
  <2>1. lockout \in [attempts : Nat, until : Nat]
    BY DEF TypeOK, TablesTypeOK
  <2>2. Throttle(c) => lockout' \in [attempts : Nat, until : Nat]
    BY <2>1 DEF Throttle, SetLockout, NoFailure, tables
  <2>3. Failed(lockout, call[c].at) \in [attempts : Nat, until : Nat]
    <3>1. call[c].at \in Nat /\ Ttl["lockout"] \in Nat
      BY <1>1, TablesAssumption DEF CallRow, Lasting
    <3> QED BY <2>1, <3>1 DEF Failed
  <2>4. Password(c) => lockout' \in [attempts : Nat, until : Nat]
    BY <2>3 DEF Password, SetLockout, NoFailure
  <2> QED BY <1>1, <2>1, <2>2, <2>4 DEF Does, Writes
<1> QED BY <1>2, <1>3, <1>4, <1>5, <1>6, <1>7, <1>8, <1>9 DEF TablesTypeOK

LEMMA TypesKept ==
  ASSUME TypeOK, Placing, Ready, Made, [Next]_vars
  PROVE  TypeOK'
<1>1. CASE UNCHANGED <<tables, scenario, call, history>> /\ now' \in {now, now + 1}
  BY <1>1 DEF TypeOK, TablesTypeOK, tables, history
<1>2. ASSUME NEW c \in Calls, Begin(c)
      PROVE  TypeOK'
  <2>1. /\ call' \in [Calls -> CallRow]
        /\ before' = [before EXCEPT ![c] = {Home} \cup {k \in Calls : Over(k)}]
        /\ UNCHANGED <<now, tables, scenario, chain>>
    BY <1>2, Beginning
  <2> QED BY <2>1 DEF TypeOK, TablesTypeOK, tables, Ids
<1>3. ASSUME NEW c \in Calls, Step(c)
      PROVE  TypeOK'
  <2>1. /\ call' \in [Calls -> CallRow]
        /\ UNCHANGED <<now, scenario, before>>
    BY <1>3, StepDoes DEF Does, Moves, Writes
  <2>2. TablesTypeOK' /\ chain' \in [Ids -> SUBSET Ids]
    BY <1>3, TablesTyped
  <2> QED BY <2>1, <2>2 DEF TypeOK
<1> QED BY <1>1, <1>2, <1>3, Steps

LEMMA PlacingKept ==
  ASSUME TypeOK, Placing, Ready, Made, [Next]_vars
  PROVE  Placing'
<1> SUFFICES ASSUME NEW k \in Calls
             PROVE  /\ call'[k].state = "idle" => call'[k] = Empty("idle", NoRow)
                    /\ call'[k].state # "idle" => k \in Expected
                    /\ call'[k].state = "running" => call'[k].next \in 1 .. Len(Statements(k))
  <2>1. scenario' = scenario
    BY Steps, Beginning DEF Does, Writes
  <2>2. Expected' = Expected /\ \A c \in Calls : Statements(c)' = Statements(c)
    BY <2>1 DEF Expected, Statements, Kind, Request
  <2>3. Empty("idle", NoRow)' = Empty("idle", NoRow)
    BY DEF Empty
  <2> QED BY <2>2, <2>3 DEF Placing
<1>1. CASE call'[k] = call[k]
  BY <1>1 DEF Placing
<1>2. CASE Begin(k)
  <2>1. call'[k].state = "running" /\ call'[k].next = 1 /\ k \in Expected
    BY <1>2, Beginning
  <2>2. Len(Statements(k)) \in Nat \ {0}
    BY <2>1, RequestTypes, ProgramLengths DEF Statements
  <2> QED BY <2>1, <2>2
<1>3. CASE Step(k) /\ Does(k) /\ call[k].state = "running"
  <2>1. k \in Expected /\ call[k].next \in 1 .. Len(Statements(k)) /\ Len(Statements(k)) \in Nat
    BY <1>3, RequestTypes, ProgramLengths DEF Placing, Statements
  <2>2. ASSUME NEW n \in 1 .. 3, Went(k, n)
        PROVE  /\ call'[k].state # "idle"
               /\ call'[k].state = "running" => call'[k].next \in 1 .. Len(Statements(k))
    BY <2>1, <2>2 DEF Went, Answers, Empty
  <2>3. Refused(k) => call'[k].state = "refused"
    BY DEF Refused, Empty
  <2> QED BY <1>3, <2>1, <2>2, <2>3 DEF Does, Moves
<1> QED BY <1>1, <1>2, <1>3, StepsOf

-----------------------------------------------------------------------------
(* What is there stays there *)

LEMMA RowsStay ==
  ASSUME TypeOK, Placing, Ready, Made, [Next]_vars
  PROVE  /\ \A s \in Ids : SessionExists(s) =>
              /\ SessionExists(s)' /\ sessions'[s].device = sessions[s].device
              /\ sessions[s].revoked => sessions'[s].revoked
              /\ chain'[s] = chain[s]
         /\ \A t \in Ids : tokens[t] # NoRow =>
              tokens'[t] # NoRow /\ (tokens[t].used => tokens'[t].used)
         /\ \A o \in Ids : otps[o] # NoRow => otps'[o] # NoRow
         /\ \A d \in Ids : devices[d] # "none" => devices'[d] # "none"
         /\ user # NoRow => user' # NoRow
<1>1. CASE UNCHANGED tables /\ chain' = chain
  BY <1>1 DEF tables, SessionExists
<1>2. ASSUME NEW c \in Calls, Step(c)
      PROVE  /\ \A s \in Ids : SessionExists(s) =>
                  /\ SessionExists(s)' /\ sessions'[s].device = sessions[s].device
                  /\ sessions[s].revoked => sessions'[s].revoked
                  /\ chain'[s] = chain[s]
             /\ \A t \in Ids : tokens[t] # NoRow =>
                  tokens'[t] # NoRow /\ (tokens[t].used => tokens'[t].used)
             /\ \A o \in Ids : otps[o] # NoRow => otps'[o] # NoRow
             /\ \A d \in Ids : devices[d] # "none" => devices'[d] # "none"
             /\ user # NoRow => user' # NoRow
  <2>1. ASSUME NEW s \in Ids, SessionExists(s)
        PROVE  /\ SessionExists(s)' /\ sessions'[s].device = sessions[s].device
               /\ sessions[s].revoked => sessions'[s].revoked
               /\ chain'[s] = chain[s]
    <3>0. sessions[s] \in SessionRow /\ sessions' \in [Ids -> SessionRow \cup {NoRow}]
      BY <1>2, <2>1, TablesTyped DEF SessionExists, TypeOK, TablesTypeOK
    <3>1. CASE sessions' = sessions /\ chain' = chain
      BY <2>1, <3>1 DEF SessionExists
    <3>2. CASE (\E x \in Ids : SessionExists(x) /\ UpdateSession(x)) /\ chain' = chain
      <4>1. PICK x \in Ids : SessionExists(x) /\ UpdateSession(x)
        BY <3>2
      <4>2. CASE x # s
        BY <2>1, <3>2, <4>1, <4>2 DEF UpdateSession, SessionExists, TypeOK, TablesTypeOK
      <4>3. CASE x = s
        <5> DEFINE row == [sessions[s] EXCEPT !.revoked = TRUE]
        <5>1. row \in SessionRow /\ row.device = sessions[s].device /\ row.revoked = TRUE
          BY <3>0 DEF SessionRow
        <5>2. sessions' = [sessions EXCEPT ![s] = row]
          BY <4>1, <4>3 DEF UpdateSession
        <5> HIDE DEF row
        <5>3. sessions'[s] = row
          BY <5>2 DEF TypeOK, TablesTypeOK
        <5>4. row # NoRow
          BY <5>1, RowsAreNoNoRow
        <5> QED BY <3>2, <5>1, <5>3, <5>4 DEF SessionExists
      <4> QED BY <4>2, <4>3
    <3>3. CASE NewSession(c) /\ ~SessionExists(c)
      <4>1. s # c
        BY <2>1, <3>3
      <4> QED BY <2>1, <3>3, <4>1 DEF NewSession, SaveSession, SessionExists, TypeOK, TablesTypeOK
    <3> QED BY <1>2, <3>1, <3>2, <3>3, SessionWrites
  <2>2. ASSUME NEW t \in Ids, tokens[t] # NoRow
        PROVE  tokens'[t] # NoRow /\ (tokens[t].used => tokens'[t].used)
    <3>1. CASE tokens' = tokens
      BY <2>2, <3>1
    <3>2. CASE SaveToken(c) /\ tokens[c] = NoRow
      BY <2>2, <3>2 DEF SaveToken, TypeOK, TablesTypeOK
    <3>3. CASE UseToken(Request(c).of)
      <4>1. CASE t # Request(c).of
        BY <2>2, <3>3, <4>1 DEF UseToken, TypeOK, TablesTypeOK
      <4>2. CASE t = Request(c).of
        <5> DEFINE row == [tokens[t] EXCEPT !.used = TRUE]
        <5>1. row \in TokenRow /\ row.used = TRUE
          BY <2>2 DEF TokenRow, TypeOK, TablesTypeOK
        <5>2. tokens' = [tokens EXCEPT ![t] = row]
          BY <3>3, <4>2 DEF UseToken
        <5> HIDE DEF row
        <5>3. tokens'[t] = row
          BY <5>2 DEF TypeOK, TablesTypeOK
        <5> QED BY <5>1, <5>3, RowsAreNoNoRow
      <4> QED BY <4>1, <4>2
    <3> QED BY <1>2, <3>1, <3>2, <3>3, TokenWrites
  <2>3. ASSUME NEW o \in Ids, otps[o] # NoRow
        PROVE  otps'[o] # NoRow
    <3>1. otps' \in [Ids -> OtpRow \cup {NoRow}]
      BY <1>2, TablesTyped DEF TablesTypeOK
    <3>2. CASE otps' = otps
      BY <2>3, <3>2
    <3>3. CASE SaveOtp(c) /\ otps[c] = NoRow
      BY <2>3, <3>3 DEF SaveOtp, TypeOK, TablesTypeOK
    <3>4. ASSUME NEW row \in OtpRow, NEW id \in Ids, UpdateOtp(id, row)
          PROVE  otps'[o] # NoRow
      BY <2>3, <3>4, RowsAreNoNoRow DEF UpdateOtp, TypeOK, TablesTypeOK
    <3> DEFINE read == call[c].otp
               used == [read.row EXCEPT !.used = TRUE]
               counted == [read.row EXCEPT !.attempts = @ + 1]
    <3>5. read \in OtpRead => read.id \in Ids /\ used \in OtpRow /\ counted \in OtpRow
      <4> SUFFICES ASSUME read \in OtpRead
                   PROVE  read.id \in Ids /\ used \in OtpRow /\ counted \in OtpRow
        OBVIOUS
      <4>1. read.id \in Ids /\ read.row \in OtpRow
        BY DEF OtpRead
      <4> HIDE DEF read
      <4>2. used \in OtpRow
        BY <4>1 DEF OtpRow
      <4>3. counted \in OtpRow
        BY <4>1 DEF OtpRow
      <4> QED BY <4>1, <4>2, <4>3
    <3>6. \/ otps' = otps
          \/ SaveOtp(c) /\ otps[c] = NoRow
          \/ read \in OtpRead /\ (UpdateOtp(read.id, used) \/ UpdateOtp(read.id, counted))
      BY <1>2, OtpWrites
    <3> HIDE DEF read, used, counted
    <3> QED BY <3>2, <3>3, <3>4, <3>5, <3>6
  <2>4. ASSUME NEW d \in Ids, devices[d] # "none"
        PROVE  devices'[d] # "none"
    BY <1>2, <2>4, DeviceWrites DEF SaveDevice, UpdateDevice, TypeOK, TablesTypeOK
  <2>5. user # NoRow => user' # NoRow
    BY <1>2, UserWrites, RowsAreNoNoRow
  <2> QED BY <2>1, <2>2, <2>3, <2>4, <2>5
<1>3. ASSUME NEW c \in Calls, Begin(c)
      PROVE  UNCHANGED tables /\ chain' = chain
  BY <1>3, Beginning
<1> QED BY <1>1, <1>2, <1>3, Steps DEF history

\* Three statements are only reached from the one before them.
Leads == [retireOtp |-> "activeOtp", countWrong |-> "compareOtp", password |-> "throttle"]

LEMMA LedTo ==
  ASSUME TypeOK, Placing, NEW k \in Calls, Step(k), Does(k), call[k].state = "running",
         scenario' = scenario, NEW s \in DOMAIN Leads, At(k, s)'
  PROVE  At(k, Leads[s]) /\ Went(k, 1)
<1> DEFINE p == Program[Kind(k)]
           j == call[k].next
           i == call'[k].next
<1>1. /\ call'[k].state = "running" /\ p[i] = s
      /\ Statements(k) = p /\ Statements(k)' = p
  BY DEF At, Statements, Kind, Request
<1>2. Kind(k) \in Kinds /\ Placed(Kind(k)) /\ j \in 1 .. Len(p) /\ Len(p) \in Nat
  BY RequestTypes, ProgramLengths, ProgramsPlaced DEF Placing, Statements
<1>3. ~Refused(k) /\ ~Answers(k)
  BY <1>1 DEF Refused, Answers, Empty
<1>4. \A x : At(k, x) => p[j] = x
  BY <1>1 DEF At
<1>0. \/ s = "retireOtp" /\ Leads[s] = "activeOtp"
      \/ s = "countWrong" /\ Leads[s] = "compareOtp"
      \/ s = "password" /\ Leads[s] = "throttle"
  BY DEF Leads
<1>5. ASSUME NEW n \in 1 .. 3, Went(k, n)
      PROVE  i = j + n /\ i \in 1 .. Len(p) /\ p[i - 1] = Leads[s]
  <2>1. i = j + n /\ j + n <= Len(p)
    BY <1>1, <1>3, <1>5 DEF Went
  <2>2. i \in 1 .. Len(p)
    BY <1>2, <2>1
  <2> HIDE DEF i, j
  <2> QED BY <1>0, <1>1, <1>2, <2>1, <2>2 DEF Placed
<1>6. CASE Went(k, 1)
  <2>1. i = j + 1 /\ p[i - 1] = Leads[s] /\ i - 1 = j
    BY <1>2, <1>5, <1>6
  <2>2. At(k, Leads[s])
    BY <1>1, <2>1 DEF At
  <2> QED BY <1>6, <2>2
<1>7. ASSUME Went(k, 2), NEW x \in {"listSessions", "activeOtp", "compareOtp", "consume",
                                    "findByEmail", "linked"}, At(k, x)
      PROVE  FALSE
  <2>1. i = j + 2 /\ p[j + 1] = Leads[s] /\ j < Len(p) /\ p[j] = x
    BY <1>2, <1>4, <1>5, <1>7
  <2> HIDE DEF i, j
  <2> QED BY <1>0, <1>2, <2>1 DEF Placed
<1>8. CASE Went(k, 3) /\ At(k, "findIdentity")
  <2>1. i = j + 3 /\ p[j + 2] = Leads[s] /\ p[j] = "findIdentity"
    BY <1>2, <1>4, <1>5, <1>8
  <2> HIDE DEF i, j
  <2> QED BY <1>0, <1>2, <2>1 DEF Placed
<1>9. CASE At(k, "revokeListed") /\ i = j
  BY <1>0, <1>1, <1>4, <1>9
<1> QED BY <1>3, <1>6, <1>7, <1>8, <1>9 DEF Does, Moves

\* A request that is led to retireOtp has read a code.
LEMMA LedToRetire ==
  ASSUME TypeOK, Placing, NEW k \in Calls, Step(k), Does(k), call[k].state = "running",
         scenario' = scenario, At(k, "retireOtp")'
  PROVE  ReadsOtp(k)
<1>1. At(k, "activeOtp") /\ Went(k, 1)
  BY LedTo DEF Leads
<1>2. call'[k].state = "running" /\ ~Answers(k) /\ call[k].next \in Nat
  BY DEF At, Answers, Empty, TypeOK, CallRow
<1>3. call'[k].next # call[k].next + 2
  BY <1>1, <1>2 DEF Went
<1> QED BY <1>1, <1>2, <1>3, StepIs, StepTakes DEF Took

-----------------------------------------------------------------------------
(* The invariant of the rows and the requests *)

\* Which requests pass a check
LEMMA FoundByPresenting ==
  ASSUME TypeOK, Placing, NEW k \in Calls, k \in Expected
  PROVE  /\ \A s \in {"findAccess", "findRefresh"} :
              Past(k, s) \/ At(k, s) => Kind(k) \in Presenting /\ Request(k).of \in Ids
         /\ Past(k, "targetDevice") \/ At(k, "targetDevice") => Kind(k) = "revokeDevice"
         /\ Past(k, "readToken") \/ At(k, "readToken") =>
              Kind(k) # "verifyOtp" /\ Request(k).of \in Ids
<1> DEFINE p == Program[Kind(k)]
<1>1. Kind(k) \in Kinds /\ Placed(Kind(k)) /\ Len(p) \in Nat
  BY RequestTypes, ProgramsPlaced, ProgramLengths
<1>2. ASSUME NEW s, Past(k, s) \/ At(k, s)
      PROVE  \E i \in 1 .. Len(p) : p[i] = s
  BY <1>1, <1>2 DEF Past, At, Placing, Statements
<1>3. \A i \in 1 .. Len(p) :
        /\ p[i] \in {"findAccess", "findRefresh"} => Kind(k) \in Presenting
        /\ p[i] = "targetDevice" => Kind(k) = "revokeDevice"
        /\ p[i] = "readToken" => Kind(k) \in DOMAIN TokenOf
  BY <1>1 DEF Placed
<1>4. \A kind : kind \in Presenting \/ kind \in DOMAIN TokenOf => kind # "verifyOtp"
  BY DEF Presenting, TokenOf
<1> QED BY <1>2, <1>3, <1>4, RequestTypes

LEMMA HoldsOn ==
  ASSUME TypeOK, Placing, Ready, Made, [Next]_vars, NEW k \in Calls, k \in Expected,
         Kind(k) # "verifyOtp", HoldsSession(k), call'[k].session = call[k].session
  PROVE  HoldsSession(k)'
<1>1. Request(k).of \in Ids /\ Request(k)' = Request(k)
  BY RequestTypes, StepsOf
<1> QED BY <1>1, RowsStay DEF HoldsSession

LEMMA ReadyKept ==
  ASSUME TypeOK, Placing, Ready, Made, [Next]_vars
  PROVE  Ready'
<1> SUFFICES ASSUME NEW k \in Calls, call'[k].state = "running"
             PROVE  /\ Past(k, "findAccess")' \/ Past(k, "findRefresh")' => HoldsSession(k)'
                    /\ Past(k, "liveDevice")' =>
                         /\ call'[k].device = "active"
                         /\ devices'[call'[k].session.device] # "none"
                    /\ Past(k, "targetDevice")' => devices'[Request(k).with] # "none"
                    /\ \/ Past(k, "unverified")' \/ Past(k, "requireUser")'
                       \/ Past(k, "password")'
                       => call'[k].user # NoRow
                    /\ Past(k, "compareOtp")' \/ At(k, "retireOtp")' =>
                         call'[k].otp \in OtpRead /\ otps'[call'[k].otp.id] # NoRow
                    /\ Past(k, "readToken")' => tokens'[Request(k).of] # NoRow
                    /\ \A s \in call'[k].listed : SessionExists(s)'
  BY StepsOf DEF Ready, OtpRead, Ids, OtpRow
<1>0. Placing' /\ TypeOK'
  BY PlacingKept, TypesKept
<1>00. k \in Expected
  <2>1. Expected' = Expected
    BY StepsOf DEF Expected
  <2> QED BY <1>0, <2>1 DEF Placing
<1>000. call[k].state = "running" => call[k] \in CallRow
  BY DEF TypeOK
<1>k. ASSUME NEW s \in {"findAccess", "findRefresh", "liveDevice", "targetDevice", "unverified",
                        "requireUser", "password", "compareOtp", "readToken"}, Past(k, s)'
      PROVE  \/ Past(k, s) /\ call[k].state = "running"
             \/ /\ At(k, s) /\ call[k].state = "running"
                /\ Step(k) /\ Does(k) /\ Found(k) /\ Took(k)
  <2>1. \/ Past(k, s)
        \/ At(k, s) /\ Step(k) /\ Does(k) /\ Found(k) /\ Took(k)
    BY <1>k, PastBefore DEF Firm
  <2>2. Past(k, s) => call[k].state = "running"
    BY StaysOver DEF Past, Over
  <2> QED BY <2>1, <2>2 DEF At
<1>s. call[k].state = "running" =>
        \/ call'[k] = call[k]
        \/ Step(k) /\ Does(k)
  BY StepsOf DEF Begin
<1>1. Past(k, "findAccess")' \/ Past(k, "findRefresh")' => HoldsSession(k)'
  <2> SUFFICES ASSUME NEW s \in {"findAccess", "findRefresh"}, Past(k, s)'
               PROVE  HoldsSession(k)'
    OBVIOUS
  <2>0. Kind(k) \in Presenting /\ Kind(k) # "verifyOtp" /\ Request(k).of \in Ids
    BY <1>k, <1>00, FoundByPresenting DEF Presenting
  <2>1. ASSUME SessionExists(Request(k).of), call'[k].session = sessions[Request(k).of]
        PROVE  HoldsSession(k)'
    BY <2>0, <2>1, RowsStay, StepsOf DEF HoldsSession, SessionExists
  <2>2. CASE Past(k, s) /\ call[k].state = "running"
    <3>1. HoldsSession(k)
      BY <2>2 DEF Ready
    <3>2. CASE call'[k].session = call[k].session
      BY <1>00, <2>0, <3>1, <3>2, HoldsOn
    <3>3. CASE call'[k].session = sessions[Request(k).of] /\ SessionExists(Request(k).of)
      BY <2>1, <3>3
    <3> QED BY <1>s, <2>2, <3>2, <3>3 DEF Does, Reads
  <2>3. CASE At(k, s) /\ Step(k) /\ Found(k) /\ Took(k)
    <3>1. FindAccess(k) \/ FindRefresh(k)
      BY <2>3, StepIs
    <3> QED BY <2>1, <2>3, <3>1 DEF Found, Took
  <2> QED BY <1>k, <2>2, <2>3
<1>2. Past(k, "liveDevice")' =>
        call'[k].device = "active" /\ devices'[call'[k].session.device] # "none"
  <2> SUFFICES ASSUME Past(k, "liveDevice")'
               PROVE  call'[k].device = "active" /\ devices'[call'[k].session.device] # "none"
    OBVIOUS
  <2>1. CASE Past(k, "liveDevice") /\ call[k].state = "running"
    <3>1. /\ HoldsSession(k) /\ call[k].device = "active"
          /\ devices[call[k].session.device] # "none" /\ call[k].session.device \in Ids
      BY <1>000, <2>1, LivesAfter DEF Ready, HoldsSession, CallRow, SessionRow
    <3>2. call'[k].session.device = call[k].session.device /\ call'[k].device = "active"
      BY <1>s, <2>1, <3>1 DEF Does, Reads, HoldsSession
    <3> QED BY <3>1, <3>2, RowsStay
  <2>2. CASE At(k, "liveDevice") /\ Step(k) /\ Found(k) /\ Took(k)
    <3>1. LiveDevice(k)
      BY <2>2, StepIs
    <3>2. /\ call'[k].device = "active" /\ call'[k].session = call[k].session
          /\ devices[call[k].session.device] = "active"
      BY <2>2, <3>1 DEF Found, Took
    <3>3. HoldsSession(k) /\ call[k].session.device \in Ids
      BY <1>000, <2>2, ComesAfter DEF Ready, At, HoldsSession, CallRow, SessionRow
    <3> QED BY <3>2, <3>3, RowsStay
  <2> QED BY <1>k, <2>1, <2>2
<1>3. Past(k, "targetDevice")' => devices'[Request(k).with] # "none"
  <2> SUFFICES ASSUME Past(k, "targetDevice")'
               PROVE  devices'[Request(k).with] # "none"
    OBVIOUS
  <2>1. Request(k).with \in Ids
    BY <1>k, <1>00, FoundByPresenting, RequestTypes
  <2>2. CASE At(k, "targetDevice") /\ Step(k) /\ Found(k)
    BY <2>1, <2>2, StepIs, RowsStay DEF Found
  <2>3. CASE Past(k, "targetDevice") /\ call[k].state = "running"
    BY <2>1, <2>3, RowsStay DEF Ready
  <2> QED BY <1>k, <2>2, <2>3
<1>4. Past(k, "unverified")' \/ Past(k, "requireUser")' \/ Past(k, "password")'
      => call'[k].user # NoRow
  <2> SUFFICES ASSUME NEW s \in {"unverified", "requireUser", "password"}, Past(k, s)'
               PROVE  call'[k].user # NoRow
    OBVIOUS
  <2>1. CASE At(k, s) /\ Step(k) /\ Found(k) /\ Took(k)
    <3>1. Unverified(k) \/ RequireUser(k) \/ Password(k)
      BY <2>1, StepIs
    <3> QED BY <2>1, <3>1 DEF Found, Took, RightPassword
  <2>2. CASE Past(k, s) /\ call[k].state = "running"
    BY <1>s, <2>2 DEF Ready, Does, Reads
  <2> QED BY <1>k, <2>1, <2>2
<1>5. Past(k, "compareOtp")' \/ At(k, "retireOtp")' =>
        call'[k].otp \in OtpRead /\ otps'[call'[k].otp.id] # NoRow
  <2>1. ASSUME ReadsOtp(k)
        PROVE  call'[k].otp \in OtpRead /\ otps'[call'[k].otp.id] # NoRow
    BY <2>1, RowsStay DEF ReadsOtp, OtpRead
  <2>2. ASSUME Past(k, "compareOtp")'
        PROVE  call'[k].otp \in OtpRead /\ otps'[call'[k].otp.id] # NoRow
    <3>1. CASE At(k, "compareOtp") /\ Step(k) /\ Took(k)
      BY <2>1, <3>1, StepIs DEF Took
    <3>2. CASE Past(k, "compareOtp") /\ call[k].state = "running"
      <4>1. call[k].otp \in OtpRead /\ otps[call[k].otp.id] # NoRow
        BY <3>2 DEF Ready
      <4>2. CASE call'[k].otp = call[k].otp
        BY <4>1, <4>2, RowsStay DEF OtpRead
      <4>3. ASSUME NEW o \in ActiveOtps, call'[k].otp = [id |-> o, row |-> otps[o]]
            PROVE  ReadsOtp(k)
        BY <4>3 DEF ActiveOtps, ReadsOtp, OtpRead, TypeOK, TablesTypeOK
      <4> QED BY <1>s, <2>1, <3>2, <4>2, <4>3 DEF Does, Reads
    <3> QED BY <1>k, <2>2, <3>1, <3>2
  <2>3. ASSUME At(k, "retireOtp")'
        PROVE  call'[k].otp \in OtpRead /\ otps'[call'[k].otp.id] # NoRow
    <3>1. CASE call'[k] = call[k]
      <4>1. At(k, "retireOtp")
        BY <2>3, <3>1, StepsOf, SamePast
      <4>2. call[k].otp \in OtpRead /\ otps[call[k].otp.id] # NoRow
        BY <4>1 DEF Ready, At
      <4> QED BY <3>1, <4>2, RowsStay DEF OtpRead
    <3>2. CASE Begin(k)
      <4>1. call'[k].next = 1 /\ Kind(k) \in Kinds
        BY <1>00, <3>2, Beginning, RequestTypes
      <4>2. Program[Kind(k)][1] = "retireOtp"
        BY <2>3, <4>1, StepsOf DEF At, Statements
      <4>3. Placed(Kind(k)) /\ 1 \in 1 .. Len(Program[Kind(k)])
        BY <4>1, ProgramsPlaced, ProgramLengths
      <4> QED BY <4>2, <4>3 DEF Placed
    <3>3. CASE Step(k) /\ Does(k) /\ call[k].state = "running"
      BY <2>1, <2>3, <3>3, LedToRetire, StepsOf
    <3> QED BY <3>1, <3>2, <3>3, StepsOf
  <2> QED BY <2>2, <2>3
<1>6. Past(k, "readToken")' => tokens'[Request(k).of] # NoRow
  <2> SUFFICES ASSUME Past(k, "readToken")'
               PROVE  tokens'[Request(k).of] # NoRow
    OBVIOUS
  <2>1. Request(k).of \in Ids
    BY <1>k, <1>00, FoundByPresenting, RequestTypes
  <2>2. CASE At(k, "readToken") /\ Step(k) /\ Found(k)
    BY <2>1, <2>2, StepIs, RowsStay DEF Found
  <2>3. CASE Past(k, "readToken") /\ call[k].state = "running"
    BY <2>1, <2>3, RowsStay DEF Ready
  <2> QED BY <1>k, <2>2, <2>3
<1>7. ASSUME NEW s \in call'[k].listed
      PROVE  SessionExists(s)'
  <2>0. s \in Ids
    BY <1>0 DEF TypeOK, CallRow
  <2>1. SessionExists(s)
    <3>1. CASE call'[k] = call[k]
      BY <1>7, <3>1 DEF Ready
    <3>2. CASE Begin(k)
      BY <1>7, <3>2, Beginning
    <3>3. CASE Step(k) /\ Does(k) /\ call[k].state = "running"
      <4>1. \A x \in call[k].listed : SessionExists(x)
        BY <3>3 DEF Ready
      <4>2. \A x \in Listed(k) : SessionExists(x)
        BY DEF Listed, LiveSessions
      <4> QED BY <1>7, <3>3, <4>1, <4>2 DEF Does, Reads
    <3> QED BY <3>1, <3>2, <3>3, StepsOf
  <2> QED BY <2>0, <2>1, RowsStay
<1> QED BY <1>1, <1>2, <1>3, <1>4, <1>5, <1>6, <1>7

-----------------------------------------------------------------------------
(* What requests made, and when *)

\* A statement that was sent is past.
LEMMA DonePast ==
  ASSUME TypeOK, Placing, NEW c \in Calls, call[c].state = "running", Moves(c),
         scenario' = scenario, NEW s, At(c, s), s # "revokeListed", call'[c].state # "refused"
  PROVE  Past(c, s)'
<1> DEFINE p == Statements(c)
           j == call[c].next
<1>1. Statements(c)' = p
  BY DEF Statements, Kind, Request
<1>2. j \in 1 .. Len(p) /\ Len(p) \in Nat /\ p[j] = s
  BY RequestTypes, ProgramLengths DEF Placing, Statements, At
<1>3. ~Refused(c)
  BY DEF Refused, Empty
<1>4. \A x : At(c, x) => s = x
  BY <1>2 DEF At
<1> HIDE DEF p, j
<1>5. ASSUME NEW n \in 1 .. 3, Went(c, n)
      PROVE  Past(c, s)'
  <2>1. \/ call'[c].state = "ok"
        \/ call'[c].state = "running" /\ call'[c].next = j + n
    BY <1>5 DEF Went, Answers, Empty, j
  <2>2. CASE call'[c].state = "ok"
    BY <1>1, <1>2, <2>2 DEF Past
  <2>3. CASE call'[c].state = "running" /\ call'[c].next = j + n
    <3>1. j \in 1 .. (call'[c].next - 1)
      BY <1>2, <2>3
    <3> QED BY <1>1, <1>2, <2>3, <3>1 DEF Past
  <2> QED BY <2>1, <2>2, <2>3
<1> QED BY <1>3, <1>4, <1>5 DEF Moves

LEMMA NotIdle ==
  ASSUME TypeOK, Placing, NEW c \in Calls, Does(c)
  PROVE  call'[c].state # "idle"
<1>1. \A n \in 1 .. 3 : Went(c, n) => call'[c].state # "idle"
  BY DEF Went, Answers, Empty
<1>2. Refused(c) => call'[c].state # "idle"
  BY DEF Refused, Empty
<1> QED BY <1>1, <1>2 DEF Does, Moves

LEMMA MadeKept ==
  ASSUME TypeOK, Placing, Ready, Made, [Next]_vars
  PROVE  Made'
<1> SUFFICES ASSUME NEW k \in Calls, ~Over(k)'
             PROVE  /\ SessionExists(k)' => Past(k, "saveSession")'
                    /\ tokens'[k] # NoRow => Past(k, "saveToken")'
                    /\ otps'[k] # NoRow => Past(k, "saveOtp")'
                    /\ devices'[k] # "none" => Past(k, "saveDevice")'
  BY DEF Made
<1>0. k \in Ids /\ ~Over(k)
  BY StaysOver DEF Ids
<1>1. ASSUME NEW s, Past(k, s)
      PROVE  Past(k, s)'
  <2>1. call'[k].state # "refused"
    BY DEF Over
  <2> QED BY <1>1, <2>1, PastAfter
<1>2. \/ UNCHANGED tables
      \/ \E c \in Calls : Step(c)
  BY Steps, Beginning
<1>3. ASSUME NEW s, At(k, s), Step(k), s \in {"saveSession", "saveToken", "saveOtp", "saveDevice"}
      PROVE  Past(k, s)'
  <2>1. Does(k) /\ call[k].state = "running" /\ scenario' = scenario
    BY <1>3, StepDoes, StepsOf
  <2>2. ~Refused(k) /\ call'[k].state \in {"ok", "running"} /\ call'[k].state # "refused"
    <3>1. call'[k].state \notin {"ok", "refused"} /\ call' \in [Calls -> CallRow]
      BY <2>1 DEF Over, Does, Moves
    <3>2. call'[k].state # "idle"
      BY <2>1, NotIdle
    <3>3. call'[k].state \in {"idle", "running", "ok", "refused"}
      BY <3>1 DEF CallRow
    <3>4. Refused(k) => call'[k].state = "refused"
      BY DEF Refused, Empty
    <3> QED BY <3>1, <3>2, <3>3, <3>4
  <2> QED BY <1>3, <2>1, <2>2, DonePast DEF Does
<1>4. ASSUME SessionExists(k)'
      PROVE  Past(k, "saveSession")'
  <2>1. CASE SessionExists(k)
    BY <1>0, <1>1, <2>1 DEF Made
  <2>2. CASE ~SessionExists(k)
    <3>1. PICK c \in Calls : Step(c)
      BY <1>2, <1>4, <2>2 DEF tables, SessionExists
    <3>2. NewSession(c) /\ c = k
      BY <1>0, <1>4, <2>2, <3>1, SessionWrites
         DEF UpdateSession, NewSession, SaveSession, SessionExists, TypeOK, TablesTypeOK
    <3>3. At(k, "saveSession")
      BY <3>2 DEF NewSession
    <3> QED BY <1>3, <3>1, <3>2, <3>3
  <2> QED BY <2>1, <2>2
<1>5. ASSUME tokens'[k] # NoRow
      PROVE  Past(k, "saveToken")'
  <2>1. CASE tokens[k] # NoRow
    BY <1>0, <1>1, <2>1 DEF Made
  <2>2. CASE tokens[k] = NoRow
    <3>1. PICK c \in Calls : Step(c)
      BY <1>2, <1>5, <2>2 DEF tables
    <3>2. At(c, "saveToken") /\ c = k
      BY <1>0, <1>5, <2>2, <3>1, TokenWrites DEF SaveToken, UseToken, TypeOK, TablesTypeOK
    <3> QED BY <1>3, <3>1, <3>2
  <2> QED BY <2>1, <2>2
<1>6. ASSUME otps'[k] # NoRow
      PROVE  Past(k, "saveOtp")'
  <2>1. CASE otps[k] # NoRow
    BY <1>0, <1>1, <2>1 DEF Made
  <2>2. CASE otps[k] = NoRow
    <3>1. PICK c \in Calls : Step(c)
      BY <1>2, <1>6, <2>2 DEF tables
    <3>2. At(c, "saveOtp") /\ c = k
      BY <1>0, <1>6, <2>2, <3>1, OtpWrites DEF SaveOtp, UpdateOtp, TypeOK, TablesTypeOK
    <3> QED BY <1>3, <3>1, <3>2
  <2> QED BY <2>1, <2>2
<1>7. ASSUME devices'[k] # "none"
      PROVE  Past(k, "saveDevice")'
  <2>1. CASE devices[k] # "none"
    BY <1>0, <1>1, <2>1 DEF Made
  <2>2. CASE devices[k] = "none"
    <3>1. PICK c \in Calls : Step(c)
      BY <1>2, <1>7, <2>2 DEF tables
    <3>2. At(c, "saveDevice") /\ c = k
      BY <1>0, <1>7, <2>2, <3>1, DeviceWrites DEF SaveDevice, UpdateDevice, TypeOK, TablesTypeOK
    <3> QED BY <1>3, <3>1, <3>2
  <2> QED BY <2>1, <2>2
<1> QED BY <1>4, <1>5, <1>6, <1>7

LEMMA EndedKept ==
  ASSUME TypeOK, Placing, Ended, [Next]_vars
  PROVE  Ended'
<1> SUFFICES ASSUME NEW c \in Calls
             PROVE  /\ call'[c].state = "idle" => before'[c] = {}
                    /\ \A k \in before'[c] \cap Calls : Over(k)'
  BY DEF Ended
<1>1. CASE before'[c] = before[c]
  <2>1. \A k \in before'[c] \cap Calls : Over(k)'
    BY <1>1, StaysOver DEF Ended
  <2>2. call'[c].state = "idle" => call[c].state = "idle"
    BY StepsOf, Beginning, NotIdle
  <2> QED BY <1>1, <2>1, <2>2 DEF Ended
<1>2. CASE Begin(c)
  <2>1. /\ before'[c] = {Home} \cup {k \in Calls : Over(k)}
        /\ call'[c].state = "running"
    BY <1>2, Beginning DEF TypeOK
  <2>2. Home \notin Calls
    BY TablesAssumption
  <2>3. \A k \in Calls : Over(k) => Over(k)'
    BY StaysOver
  <2> QED BY <2>1, <2>2, <2>3
<1> QED BY <1>1, <1>2, StepsOf

LEMMA ChainedKept ==
  ASSUME TypeOK, Placing, Ready, Made, Chained, [Next]_vars
  PROVE  Chained'
<1>1. CASE chain' = chain
  BY <1>1 DEF Chained
<1>2. ASSUME NEW c \in Calls, Step(c), NewSession(c)
      PROVE  Chained'
  BY <1>2 DEF NewSession, Chained, TypeOK
<1> QED BY <1>1, <1>2, Steps, Beginning, SessionWrites DEF history

-----------------------------------------------------------------------------
(* The base of the other invariants *)

LEMMA BaseAtFirst == Init => Base
<1> SUFFICES ASSUME Init
             PROVE  Base
  OBVIOUS
<1>1. Empty("idle", NoRow) \in CallRow
  BY EmptyRow
<1>2. /\ scenario \in Scenarios /\ user \in UserRow \cup {NoRow} /\ identity \in BOOLEAN
      /\ granted \in BOOLEAN
  BY ScenariosAssumption DEF Init
<1>3. devices \in [Ids -> DeviceStates] /\ \A d \in Ids : devices[d] # "none" => d = Home
  BY DEF Init, DeviceStates
<1>4. /\ sessions \in [Ids -> SessionRow \cup {NoRow}]
      /\ \A s \in Ids : sessions[s] # NoRow => s = Home
  <2>1. \A s \in Ids : [device |-> s, at |-> 0, revoked |-> FALSE] \in SessionRow
    BY DEF SessionRow
  <2> QED BY <1>3, <2>1 DEF Init
<1>5. /\ otps \in [Ids -> OtpRow \cup {NoRow}]
      /\ \A o \in Ids : otps[o] # NoRow => o = Home
  <2>1. user # NoRow => [at |-> 0, attempts |-> 0, used |-> user.verified] \in OtpRow
    BY <1>2 DEF OtpRow, UserRow
  <2> QED BY <2>1 DEF Init
<1>6. /\ tokens \in [Ids -> TokenRow \cup {NoRow}]
      /\ \A t \in Ids : tokens[t] # NoRow => t = Home
  <2>1. user # NoRow => [at |-> 0, used |-> user.verified] \in TokenRow
    BY <1>2 DEF TokenRow, UserRow
  <2> QED BY <2>1 DEF Init
<1>7. lockout \in [attempts : Nat, until : Nat]
  BY DEF Init, NoFailure
<1>8. TablesTypeOK
  BY <1>2, <1>3, <1>4, <1>5, <1>6, <1>7 DEF Init, TablesTypeOK, Ids
<1>9. /\ call \in [Calls -> CallRow]
      /\ \A c \in Calls : call[c] = Empty("idle", NoRow) /\ call[c].state = "idle"
  BY <1>1 DEF Init, Empty
<1>10. TypeOK
  BY <1>2, <1>8, <1>9 DEF Init, TypeOK
<1>11. Placing /\ Ready
  BY <1>9 DEF Placing, Ready
<1>12. Made
  BY <1>3, <1>4, <1>5, <1>6, TablesAssumption DEF Made, SessionExists, Ids
<1>13. Ended /\ Chained
  BY <1>9 DEF Init, Ended, Chained
<1> QED BY <1>10, <1>11, <1>12, <1>13 DEF Base

LEMMA BaseKept ==
  ASSUME Base, [Next]_vars
  PROVE  Base'
BY TypesKept, PlacingKept, ReadyKept, MadeKept, EndedKept, ChainedKept DEF Base

\* What every request relies on (auth/service.ts and oauth.ts read a row, and go on
\* later): the row is there, and a session, a token, a code and a device are made
\* by one request each and are never taken away.
THEOREM RowsRemain == Spec => []Base
<1>1. Init => Base
  BY BaseAtFirst
<1>2. Base /\ [Next]_vars => Base'
  BY BaseKept
<1> QED BY <1>1, <1>2, PTL DEF Spec

-----------------------------------------------------------------------------
(* Tokens *)

\* The kinds of the requests that read, claim or mark a token
LEMMA TokenKinds ==
  ASSUME TypeOK, Placing, NEW c \in Calls, c \in Expected
  PROVE  /\ Past(c, "claimToken") \/ At(c, "claimToken") => Request(c).of \in Ids
         /\ Past(c, "useToken") \/ At(c, "useToken") => Request(c).of \in Ids
         /\ call[c].state = "ok" /\ Kind(c) \in {"callback", "exchange"} => Past(c, "claimToken")
         /\ call[c].state = "ok" /\ Kind(c) \in {"verifyEmail", "reset"} =>
              Past(c, "readToken") /\ Past(c, "useToken")
<1> DEFINE p == Program[Kind(c)]
<1>1. Kind(c) \in Kinds /\ Placed(Kind(c)) /\ Len(p) \in Nat /\ Statements(c) = p
  BY RequestTypes, ProgramsPlaced, ProgramLengths DEF Statements
<1>2. ASSUME NEW s \in {"claimToken", "useToken"}, Past(c, s) \/ At(c, s)
      PROVE  Request(c).of \in Ids
  <2>1. PICK i \in 1 .. Len(p) : p[i] = s
    BY <1>1, <1>2 DEF Past, At, Placing
  <2>2. Kind(c) \in {"verifyEmail", "reset", "callback", "exchange"}
    BY <1>1, <2>1 DEF Placed
  <2> QED BY <2>2, RequestTypes
<1>5. ASSUME NEW S, NEW kind, Includes(kind, S), kind = Kind(c), call[c].state = "ok", NEW s \in S
      PROVE  Past(c, s)
  BY <1>1, <1>5 DEF Includes, Past
<1>3. call[c].state = "ok" /\ Kind(c) \in {"callback", "exchange"} => Past(c, "claimToken")
  BY <1>5, ProgramsInclude
<1>4. call[c].state = "ok" /\ Kind(c) \in {"verifyEmail", "reset"} =>
        Past(c, "readToken") /\ Past(c, "useToken")
  BY <1>5, ProgramsInclude
<1> QED BY <1>2, <1>3, <1>4

\* Two requests do not move in one step.
LEMMA OneStep ==
  ASSUME TypeOK, Placing, NEW c \in Calls, NEW k \in Calls, k # c,
         Step(c), Step(k), ~At(c, "revokeListed")
  PROVE  FALSE
<1>1. Moves(c) /\ Moves(k) /\ call[c].state = "running" /\ call[c] \in CallRow
  BY StepDoes DEF Does, TypeOK
<1>2. call'[c] = call[c]
  BY <1>1 DEF Moves, Others
<1>3. ~Refused(c) /\ ~Answers(c)
  BY <1>1, <1>2 DEF Refused, Answers, Empty
<1>4. \A n \in 1 .. 3 : ~Went(c, n)
  BY <1>1, <1>2, <1>3 DEF Went, CallRow
<1> QED BY <1>1, <1>3, <1>4 DEF Moves

LEMMA TokensSpentKept ==
  ASSUME Base, TokensSpent, [Next]_vars
  PROVE  TokensSpent'
<1>0. TypeOK /\ Placing /\ Ready /\ Made /\ Ended /\ TypeOK' /\ Placing'
  BY BaseKept DEF Base
<1>00. Expected' = Expected
  BY <1>0, Steps, Beginning DEF Does, Writes, Expected
<1>r. \A c \in Calls : Kind(c)' = Kind(c) /\ Request(c)' = Request(c)
  BY <1>0, StepsOf
<1>e. \A c \in Calls : \A s : Past(c, s)' \/ Past(c, s) \/ At(c, s) => c \in Expected
  BY <1>0, <1>00 DEF Past, Placing, At
<1>p. ASSUME NEW c \in Calls, NEW s \in {"claimToken", "useToken", "readToken"}, Past(c, s)'
      PROVE  Past(c, s) \/ (At(c, s) /\ Step(c) /\ Does(c) /\ Found(c))
  BY <1>0, <1>p, PastBefore DEF Firm
<1>1. ASSUME NEW c \in Calls, NEW s \in {"claimToken", "useToken"}, Past(c, s)'
      PROVE  tokens'[Request(c).of] # NoRow /\ tokens'[Request(c).of].used
  <2>0. Request(c).of \in Ids
    BY <1>0, <1>1, <1>p, <1>e, TokenKinds
  <2>1. CASE Past(c, s)
    BY <1>0, <2>0, <2>1, RowsStay DEF TokensSpent
  <2>2. CASE At(c, s) /\ Step(c) /\ Found(c)
    <3>1. UseToken(Request(c).of) /\ tokens[Request(c).of] # NoRow
      <4>1. CASE s = "claimToken"
        BY <2>2, <4>1, StepIs DEF Found
      <4>2. CASE s = "useToken"
        BY <1>0, <2>2, <4>2, StepIs, ComesAfter DEF WriteUsed, Ready, At
      <4> QED BY <4>1, <4>2
    <3> DEFINE t == Request(c).of
               row == [tokens[t] EXCEPT !.used = TRUE]
    <3>2. row \in TokenRow /\ row.used = TRUE
      <4>1. tokens[t] \in TokenRow
        BY <1>0, <2>0, <3>1 DEF TypeOK, TablesTypeOK
      <4> HIDE DEF t
      <4> QED BY <4>1 DEF TokenRow
    <3>3. tokens' = [tokens EXCEPT ![t] = row]
      BY <3>1 DEF UseToken
    <3> HIDE DEF row
    <3>4. tokens'[t] = row
      BY <1>0, <2>0, <3>3 DEF TypeOK, TablesTypeOK
    <3> QED BY <3>2, <3>4, RowsAreNoNoRow
  <2> QED BY <1>1, <1>p, <2>1, <2>2
<1>2. ASSUME NEW c \in Calls, Past(c, "claimToken")',
             NEW k \in Calls, k # c, Past(k, "claimToken")'
      PROVE  Request(k).of # Request(c).of
  <2>1. ASSUME NEW x \in Calls, NEW y \in Calls, x # y, Past(x, "claimToken"),
               At(y, "claimToken"), Step(y), Found(y)
        PROVE  Request(x).of # Request(y).of
    BY <2>1, StepIs DEF Found, TokensSpent
  <2>2. CASE Past(c, "claimToken") /\ Past(k, "claimToken")
    BY <1>2, <2>2 DEF TokensSpent
  <2>3. Past(c, "claimToken") \/ Past(k, "claimToken")
    <3>1. At(c, "claimToken") => ~At(c, "revokeListed")
      BY DEF At
    <3> QED BY <1>0, <1>2, <1>p, <3>1, OneStep
  <2> QED BY <1>2, <1>p, <2>1, <2>2, <2>3
<1>3. ASSUME NEW c \in Calls, Past(c, "readToken")', NEW k \in before'[c] \cap Calls,
             k # c, call'[k].state = "ok", Kind(k) = Kind(c), Kind(c) \in {"verifyEmail", "reset"}
      PROVE  Request(k).of # Request(c).of
  <2>1. before'[c] = before[c]
    BY <1>0, <1>3, <1>p, StepsOf, Beginning DEF Past, At, Begin
  <2>2. call'[k] = call[k]
    BY <1>0, <2>1, StaysOver DEF Ended
  <2>3. CASE Past(c, "readToken")
    BY <1>3, <2>1, <2>2, <2>3 DEF TokensSpent
  <2>4. CASE At(c, "readToken") /\ Step(c) /\ Found(c)
    <3>1. ~tokens[Request(c).of].used
      BY <2>4, StepIs DEF Found
    <3>2. Past(k, "useToken")
      <4>1. k \in Expected
        BY <1>0, <1>3, <2>2 DEF Placing
      <4> QED BY <1>0, <1>3, <2>2, <4>1, TokenKinds
    <3> QED BY <3>1, <3>2 DEF TokensSpent
  <2> QED BY <1>3, <1>p, <2>3, <2>4
<1> QED
  <2>1. \A c \in Calls : Past(c, "claimToken")' \/ Past(c, "useToken")' =>
          tokens'[Request(c)'.of] # NoRow /\ tokens'[Request(c)'.of].used
    BY <1>1, <1>r
  <2>2. \A c \in Calls : Past(c, "claimToken")' =>
          \A k \in Calls : k # c /\ Past(k, "claimToken")' => Request(k)'.of # Request(c)'.of
    BY <1>2, <1>r
  <2>3. \A c \in Calls : Past(c, "readToken")' =>
          \A k \in before'[c] \cap Calls :
            k # c /\ call'[k].state = "ok" /\ Kind(k)' = Kind(c)'
            /\ Kind(c)' \in {"verifyEmail", "reset"} => Request(k)'.of # Request(c)'.of
    BY <1>3, <1>r
  <2> QED BY <2>1, <2>2, <2>3 DEF TokensSpent

\* A state of a Google sign-in and a desktop code work once, because one UPDATE
\* reads and marks the row; a link or a reset token works twice only for requests
\* served at a time (auth/oauth.ts:245-290, service.ts:220-229, 370-379).
THEOREM TokensWorkOnce == Spec => []TokensUsedOnce
<1>1. Init => TokensSpent
  <2> SUFFICES ASSUME Init
               PROVE  TokensSpent
    OBVIOUS
  <2>1. \A c \in Calls : call[c].state = "idle"
    BY DEF Init, Empty
  <2> QED BY <2>1 DEF TokensSpent, Past
<1>2. Base /\ TokensSpent /\ [Next]_vars => TokensSpent'
  BY TokensSpentKept
<1>3. Base /\ TokensSpent => TokensUsedOnce
  <2> SUFFICES ASSUME Base, TokensSpent,
                      NEW k \in Answered(DOMAIN TokenOf), NEW c \in Answered(DOMAIN TokenOf),
                      k # c, Kind(k) = Kind(c), Request(k).of = Request(c).of
               PROVE  Overlap(k, c) /\ Kind(k) \in {"verifyEmail", "reset"}
    BY DEF TokensUsedOnce
  <2>0. TypeOK /\ Placing
    BY DEF Base
  <2>1. /\ k \in Expected /\ c \in Expected /\ k \in Calls /\ c \in Calls
        /\ call[k].state = "ok" /\ call[c].state = "ok"
        /\ Kind(c) \in {"verifyEmail", "reset", "callback", "exchange"}
    BY <2>0, RequestTypes DEF Answered, TokenOf
  <2>2. Kind(c) \notin {"callback", "exchange"}
    BY <2>0, <2>1, TokenKinds DEF TokensSpent
  <2>3. Past(c, "readToken") /\ Past(k, "readToken")
    BY <2>0, <2>1, <2>2, TokenKinds
  <2>4. k \notin before[c] /\ c \notin before[k]
    BY <2>1, <2>2, <2>3 DEF TokensSpent
  <2> QED BY <2>1, <2>2, <2>4 DEF Overlap, Began
<1> QED BY <1>1, <1>2, <1>3, RowsRemain, PTL DEF Spec

-----------------------------------------------------------------------------
(* Ending sessions *)

\* What the history says of two requests stays as it is.
LEMMA OrderStays ==
  ASSUME TypeOK, Placing, Ended, [Next]_vars, NEW c \in Calls, NEW k \in Calls
  PROVE  /\ c \in before[k] => before'[k] = before[k]
         /\ Overlap(k, c) => Overlap(k, c)'
         /\ call[k].state = "running" => k \notin before[c]
         /\ Began(k) => Began(k)'
<1>0. Expected' = Expected
  BY Steps, Beginning DEF Does, Writes, Expected
<1>1. ASSUME NEW x \in Calls, Began(x)
      PROVE  before'[x] = before[x] /\ Began(x)'
  <2>1. CASE call'[x] = call[x] /\ before'[x] = before[x]
    BY <1>1, <2>1 DEF Began
  <2>2. CASE Step(x) /\ Does(x) /\ before'[x] = before[x]
    BY <2>2, NotIdle DEF Began
  <2> QED BY <1>1, <2>1, <2>2, StepsOf DEF Begin, Began
<1>2. \A x \in Calls : before[x] # {} => Began(x)
  BY DEF Ended, Began
<1>3. Overlap(k, c) => Overlap(k, c)'
  BY <1>0, <1>1 DEF Overlap
<1>4. call[k].state = "running" => k \notin before[c]
  BY DEF Ended, Over
<1> QED BY <1>1, <1>2, <1>3, <1>4

LEMMA OutlivingStays ==
  ASSUME Base, [Next]_vars, NEW c \in Calls, NEW s \in Ids, SessionExists(s), Outlives(s, c)
  PROVE  Outlives(s, c)'
<1>0. TypeOK /\ Placing /\ Ready /\ Made /\ Ended
  BY DEF Base
<1>1. chain'[s] = chain[s]
  BY <1>0, RowsStay
<1>2. ASSUME NEW k \in Calls, Overlap(k, c)
      PROVE  Overlap(k, c)'
  BY <1>0, <1>2, OrderStays
<1>3. ASSUME NEW k \in Calls, c \in before[k]
      PROVE  c \in before'[k]
  BY <1>0, <1>3, OrderStays
<1>4. \A k : Overlap(k, c) => k \in Calls
  BY <1>0, RequestTypes DEF Overlap
<1> QED BY <1>1, <1>2, <1>3, <1>4 DEF Outlives

LEMMA AtTheList ==
  ASSUME TypeOK, Placing, NEW c \in Calls
  PROVE  /\ Past(c, "listSessions") \/ At(c, "listSessions") =>
              c \in Expected /\ Kind(c) \in Sweeping
         /\ Past(c, "listSessions") /\ call[c].state = "running" => At(c, "revokeListed")
         /\ At(c, "listSessions") => call[c].next + 1 = Len(Statements(c))
         /\ c \in Expected /\ call[c].state = "ok" /\ Kind(c) \in Sweeping =>
              Past(c, "listSessions")
<1> DEFINE p == Program[Kind(c)]
           j == call[c].next
<1>1. c \in Expected => /\ Kind(c) \in Kinds /\ Placed(Kind(c)) /\ Len(p) \in Nat
                        /\ Statements(c) = p
  BY RequestTypes, ProgramsPlaced, ProgramLengths DEF Statements
<1>2. ASSUME NEW i \in 1 .. Len(p), c \in Expected, p[i] = "listSessions"
      PROVE  Kind(c) \in Sweeping /\ i + 1 = Len(p) /\ p[i + 1] = "revokeListed"
  BY <1>1, <1>2 DEF Placed
<1>3. Past(c, "listSessions") \/ At(c, "listSessions") => c \in Expected
  BY DEF Past, At, Placing
<1>4. call[c].state = "running" => j \in 1 .. Len(p) /\ c \in Expected
  BY <1>1 DEF Placing
<1>5. At(c, "listSessions") => p[j] = "listSessions" /\ j \in 1 .. Len(p)
  BY <1>1, <1>4 DEF At
<1>6. Past(c, "listSessions") =>
        \E i \in 1 .. Len(p) : p[i] = "listSessions" /\ (call[c].state = "running" => i < j)
  BY <1>1, <1>3, <1>4 DEF Past
<1>7. Past(c, "listSessions") /\ call[c].state = "running" => At(c, "revokeListed")
  <2> SUFFICES ASSUME Past(c, "listSessions"), call[c].state = "running"
               PROVE  At(c, "revokeListed")
    OBVIOUS
  <2>1. PICK i \in 1 .. Len(p) : p[i] = "listSessions" /\ i < j
    BY <1>6
  <2>2. i + 1 = Len(p) /\ p[i + 1] = "revokeListed" /\ j = i + 1
    BY <1>1, <1>2, <1>4, <2>1
  <2> QED BY <1>1, <1>4, <2>2 DEF At
<1>9. ASSUME NEW S, NEW kind, Includes(kind, S), kind = Kind(c), c \in Expected,
             call[c].state = "ok", NEW s \in S
      PROVE  Past(c, s)
  BY <1>1, <1>9 DEF Includes, Past
<1>8. c \in Expected /\ call[c].state = "ok" /\ Kind(c) \in Sweeping => Past(c, "listSessions")
  BY <1>9, ProgramsInclude DEF Sweeping
<1> QED BY <1>1, <1>2, <1>3, <1>5, <1>6, <1>7, <1>8

LEMMA Listing ==
  ASSUME TypeOK, Placing, NEW c \in Calls, ListSessions(c)
  PROVE  (call'[c].state = "running" /\ call'[c].listed = Listed(c)) \/ Listed(c) = {}
<1>0. call[c] \in CallRow /\ call[c].state = "running" /\ At(c, "listSessions")
  BY DEF TypeOK, ListSessions, At
<1>1. Listed(c) \subseteq Ids
  BY DEF Listed, LiveSessions
<1> DEFINE list == Listed(c)
           m == [call[c] EXCEPT !.listed = list]
<1>2. Leap(c, m, IF list = {} THEN 2 ELSE 1)
  BY DEF ListSessions
<1> HIDE DEF list
<1>3. /\ m \in CallRow /\ m.state = "running" /\ m.next = call[c].next
      /\ m.at = call[c].at /\ m.listed = list
  BY <1>0, <1>1 DEF CallRow, list
<1> HIDE DEF m
<1>4. CASE list # {}
  <2>1. Leap(c, m, 1)
    BY <1>2, <1>4
  <2>2. Went(c, 1) /\ Keeps(c, m)
    BY <1>0, <1>3, <2>1, Leaping
  <2>3. call[c].next + 1 = Len(Statements(c))
    BY <1>0, AtTheList
  <2>4. ~(call[c].next + 1 > Len(Statements(c)))
    <3>1. call[c].next \in Nat
      BY <1>0 DEF CallRow
    <3> QED BY <2>3, <3>1
  <2> QED BY <1>3, <2>2, <2>4 DEF Went, Keeps, list
<1> QED BY <1>4 DEF list

LEMMA Revoking ==
  ASSUME TypeOK, Placing, NEW c \in Calls, RevokeListed(c)
  PROVE  \E x \in call[c].listed :
           /\ UpdateSession(x)
           /\ \/ call'[c].state = "running" /\ call'[c].listed = call[c].listed \ {x}
              \/ call[c].listed \ {x} = {}
<1>0. call[c] \in CallRow /\ call[c].state = "running"
  BY DEF TypeOK, RevokeListed, At
<1>1. PICK x \in call[c].listed :
        LET m == [call[c] EXCEPT !.listed = @ \ {x}] IN
        /\ UpdateSession(x)
        /\ IF m.listed = {} THEN Continue(c, m) ELSE call' = [call EXCEPT ![c] = m]
  BY DEF RevokeListed
<1> DEFINE m == [call[c] EXCEPT !.listed = @ \ {x}]
<1>2. UpdateSession(x) /\ (m.listed = {} \/ call' = [call EXCEPT ![c] = m])
  BY <1>1
<1>3. m \in CallRow /\ m.state = "running" /\ m.listed = call[c].listed \ {x}
  BY <1>0 DEF CallRow
<1> HIDE DEF m
<1>4. CASE call' = [call EXCEPT ![c] = m]
  <2>1. call'[c] = m
    BY <1>4 DEF TypeOK
  <2> QED BY <1>2, <1>3, <2>1
<1> QED BY <1>2, <1>3, <1>4

-----------------------------------------------------------------------------
(* No session outlives a sweep *)

\* A session that comes to be is made by the request that names it.
LEMMA SessionMade ==
  ASSUME TypeOK, Placing, Ready, Made, [Next]_vars, NEW s \in Ids,
         ~SessionExists(s), SessionExists(s)'
  PROVE  /\ s \in Calls /\ Step(s) /\ NewSession(s) /\ At(s, "saveSession")
         /\ call[s].state = "running" /\ s \in Expected
         /\ Kind(s) \in SignsIn \cup {"refresh"}
         /\ Kind(s) # "refresh" => chain'[s] = {s} /\ sessions'[s].device = s
         /\ Kind(s) = "refresh" =>
              /\ HoldsSession(s) /\ Past(s, "findRefresh") /\ Past(s, "liveDevice")
              /\ chain'[s] = {s} \cup chain[Request(s).of]
              /\ sessions'[s].device = call[s].session.device
<1>1. PICK c \in Calls : Step(c)
  BY Steps, Beginning DEF SessionExists, tables
<1>2. sessions' # sessions
  BY DEF SessionExists
<1>3. ~\E x \in Ids : SessionExists(x) /\ UpdateSession(x)
  <2> SUFFICES ASSUME NEW x \in Ids, SessionExists(x), UpdateSession(x)
               PROVE  FALSE
    OBVIOUS
  <2> QED BY DEF SessionExists, UpdateSession, TypeOK, TablesTypeOK
<1>4. /\ NewSession(c) /\ At(c, "saveSession")
      /\ Kind(c) \in SignsIn \cup {"refresh"}
      /\ Kind(c) = "refresh" =>
           HoldsSession(c) /\ Past(c, "findRefresh") /\ Past(c, "liveDevice")
  BY <1>1, <1>2, <1>3, SessionWrites
<1> DEFINE row == [device |-> IF Kind(c) = "refresh" THEN call[c].session.device ELSE c,
                   at |-> IF Kind(c) = "login" THEN call[c].at ELSE now, revoked |-> FALSE]
<1>5. /\ sessions' = [sessions EXCEPT ![c] = row]
      /\ chain' = [chain EXCEPT ![c] = IF Kind(c) = "refresh" THEN {c} \cup chain[Request(c).of]
                                                              ELSE {c}]
  BY <1>4 DEF NewSession, SaveSession
<1>6. row.device = IF Kind(c) = "refresh" THEN call[c].session.device ELSE c
  OBVIOUS
<1> HIDE DEF row
<1>7. s = c
  BY <1>5 DEF SessionExists, TypeOK, TablesTypeOK
<1>8. sessions'[s] = row
  BY <1>5, <1>7 DEF TypeOK, TablesTypeOK
<1>9. Kind(s) # "refresh" => chain'[s] = {s}
  BY <1>5, <1>7 DEF TypeOK
<1>10. Kind(s) = "refresh" => chain'[s] = {s} \cup chain[Request(s).of]
  BY <1>5, <1>7 DEF TypeOK
<1>11. c \in Expected /\ call[c].state = "running"
  BY <1>4, AtHas DEF At
<1> QED BY <1>1, <1>4, <1>6, <1>7, <1>8, <1>9, <1>10, <1>11

\* What began before a request that has ended something is not among those that
\* ended before it.
LEMMA BesideOrBefore ==
  ASSUME TypeOK, Placing, Ended, TypeOK', [Next]_vars, NEW k \in Calls, NEW c \in Calls, k # c,
         k \in Expected, c \in Expected, call[k].state = "running", Step(k),
         call'[c].state # "idle", call[c].state # "idle"
  PROVE  \/ c \in before[k] /\ c \in before'[k] /\ Over(c) /\ call'[c] = call[c]
         \/ Overlap(k, c)'
<1>1. before'[k] = before[k] /\ Does(k)
  BY StepsOf, StepDoes DEF Begin
<1>2. before'[c] = before[c]
  BY StepsOf DEF Begin
<1>3. k \notin before[c]
  BY DEF Ended, Over
<1>4. call'[k].state # "idle"
  BY <1>1, NotIdle
<1>5. Expected' = Expected
  BY StepsOf DEF Expected
<1>6. CASE c \in before[k]
  BY <1>1, <1>6, StaysOver DEF Ended
<1>7. CASE c \notin before[k]
  BY <1>1, <1>2, <1>3, <1>4, <1>5, <1>7 DEF Overlap, Began
<1> QED BY <1>6, <1>7

\* A new session is one of a sign-in that began afterwards, or outlives the sweep.
LEMMA NewOnesOutlive ==
  ASSUME Base, Base', Swept, [Next]_vars, NEW c \in Calls, Past(c, "listSessions")',
         call[c].state # "idle", Kind(c) \in Sweeping, c \in Expected, NEW k \in Ids, ~SessionExists(k),
         SessionExists(k)', Kind(c) = "revokeDevice" => sessions'[k].device = Request(c).with
  PROVE  Outlives(k, c)'
<1>0. TypeOK /\ Placing /\ Ready /\ Made /\ Ended /\ Chained /\ TypeOK' /\ Chained'
  BY DEF Base
<1>1. /\ k \in Calls /\ Step(k) /\ call[k].state = "running" /\ k \in Expected
      /\ Kind(k) \in SignsIn \cup {"refresh"}
      /\ Kind(k) # "refresh" => chain'[k] = {k} /\ sessions'[k].device = k
      /\ Kind(k) = "refresh" =>
           /\ HoldsSession(k) /\ Past(k, "findRefresh") /\ Past(k, "liveDevice")
           /\ chain'[k] = {k} \cup chain[Request(k).of]
           /\ sessions'[k].device = call[k].session.device
  BY <1>0, SessionMade
<1>2. k # c
  BY <1>1 DEF Sweeping, SignsIn
<1>3. call'[c].state # "idle"
  BY DEF Past
<1>4. CASE Overlap(k, c)'
  BY <1>0, <1>4 DEF Outlives, Chained
<1>5. CASE c \in before[k] /\ c \in before'[k] /\ Over(c) /\ call'[c] = call[c]
  <2>1. call[c].state = "ok"
    BY <1>5 DEF Past, Over
  <2>2. CASE Kind(k) # "refresh"
    BY <1>1, <1>5, <2>2 DEF Outlives
  <2>3. CASE Kind(k) = "refresh"
    <3>1. Request(k).of \in Ids /\ chain[Request(k).of] \subseteq Ids
      BY <1>0, <1>1, <2>3, RequestTypes DEF TypeOK
    <3>2. Covers(c, Request(k).of)
      BY <1>1, <2>3 DEF Covers, HoldsSession
    <3>3. Outlives(Request(k).of, c)
      BY <1>1, <1>5, <2>1, <2>3, <3>2 DEF Swept
    <3>4. CASE \E j \in chain[Request(k).of] : Overlap(j, c)
      <4>1. PICK j \in chain[Request(k).of] : Overlap(j, c)
        BY <3>4
      <4>2. j \in Calls
        BY <1>0, <4>1, RequestTypes DEF Overlap
      <4>3. Overlap(j, c)'
        BY <1>0, <4>1, <4>2, OrderStays
      <4> QED BY <1>1, <2>3, <4>1, <4>3 DEF Outlives
    <3>5. CASE \A j \in chain[Request(k).of] : j \in Calls /\ c \in before[j]
      <4>1. ASSUME NEW j \in chain[Request(k).of]
            PROVE  j \in Calls /\ c \in before'[j]
        BY <1>0, <3>5, <4>1, OrderStays
      <4> QED BY <1>1, <1>5, <2>3, <4>1 DEF Outlives
    <3> QED BY <3>3, <3>4, <3>5 DEF Outlives
  <2> QED BY <2>2, <2>3
<1> QED BY <1>0, <1>1, <1>2, <1>3, <1>4, <1>5, BesideOrBefore

LEMMA SweptKept ==
  ASSUME Base, Swept, [Next]_vars
  PROVE  Swept'
<1>0. /\ Base' /\ TypeOK /\ Placing /\ Ready /\ Made /\ Ended
      /\ TypeOK' /\ Placing' /\ Ready'
  BY BaseKept DEF Base
<1>00. Expected' = Expected
  BY <1>0, Steps, Beginning DEF Does, Writes, Expected
<1>r. \A c \in Calls : Kind(c)' = Kind(c) /\ Request(c)' = Request(c)
  BY <1>0, StepsOf
<1>1. ASSUME NEW c \in Calls, Past(c, "listSessions")', NEW s \in LiveSessions', Covers(c, s)'
      PROVE  Outlives(s, c)' \/ (call'[c].state = "running" /\ s \in call'[c].listed)
  <2>1. \/ Past(c, "listSessions")
        \/ At(c, "listSessions") /\ Step(c)
    BY <1>0, <1>1, PastBefore DEF Firm
  <2>2. c \in Expected /\ Kind(c) \in Sweeping /\ call[c].state # "idle"
    BY <1>0, <2>1, AtTheList DEF Past, At
  <2>3. s \in Ids /\ SessionExists(s)' /\ ~sessions'[s].revoked
    BY <1>1 DEF LiveSessions
  <2>4. CASE ~SessionExists(s)
    <3>1. Kind(c) = "revokeDevice" => sessions'[s].device = Request(c).with
      BY <1>1, <1>r DEF Covers
    <3> QED BY <1>0, <1>1, <2>2, <2>3, <2>4, <3>1, NewOnesOutlive
  <2>5. CASE SessionExists(s)
    <3>1. s \in LiveSessions /\ sessions'[s].device = sessions[s].device
      BY <1>0, <2>3, <2>5, RowsStay DEF LiveSessions
    <3>2. Covers(c, s)
      BY <1>1, <1>r, <3>1 DEF Covers
    <3>3. CASE Past(c, "listSessions") /\ Outlives(s, c)
      BY <2>3, <2>5, <3>3, OutlivingStays
    <3>4. CASE /\ Past(c, "listSessions") /\ call[c].state = "running"
               /\ s \in call[c].listed
      <4>1. At(c, "revokeListed")
        BY <1>0, <3>4, AtTheList
      <4>2. CASE call'[c] = call[c]
        BY <3>4, <4>2
      <4>3. CASE Step(c)
        <5>1. RevokeListed(c)
          BY <4>1, <4>3, StepIs
        <5>2. PICK x \in call[c].listed :
                /\ UpdateSession(x)
                /\ \/ call'[c].state = "running" /\ call'[c].listed = call[c].listed \ {x}
                   \/ call[c].listed \ {x} = {}
          BY <1>0, <5>1, Revoking
        <5>3. s # x
          <6> SUFFICES ASSUME s = x
                       PROVE  FALSE
            OBVIOUS
          <6>1. sessions[s] \in SessionRow
            BY <1>0, <2>3, <2>5 DEF SessionExists, TypeOK, TablesTypeOK
          <6> DEFINE row == [sessions[s] EXCEPT !.revoked = TRUE]
          <6>2. row.revoked = TRUE
            BY <6>1 DEF SessionRow
          <6>3. sessions' = [sessions EXCEPT ![s] = row]
            BY <5>2 DEF UpdateSession
          <6> HIDE DEF row
          <6>4. sessions'[s] = row
            BY <1>0, <2>3, <6>3 DEF TypeOK, TablesTypeOK
          <6> QED BY <2>3, <6>2, <6>4
        <5> QED BY <3>4, <5>2, <5>3
      <4> QED BY <1>0, <3>4, <4>2, <4>3, StepsOf DEF Begin
    <3>5. CASE At(c, "listSessions") /\ Step(c)
      <4>1. ListSessions(c) /\ s \in Listed(c)
        BY <3>1, <3>2, <3>5, StepIs DEF Listed
      <4> QED BY <1>0, <4>1, Listing
    <3> QED BY <2>1, <3>1, <3>2, <3>3, <3>4, <3>5 DEF Swept
  <2> QED BY <2>4, <2>5
<1>2. ASSUME NEW c \in Calls, call'[c].state = "ok", Kind(c) \in Sweeping,
             NEW k \in Calls, Past(k, "findRefresh")', c \in before'[k],
             call'[k].state = "running", Covers(c, Request(k).of)'
      PROVE  Outlives(Request(k).of, c)'
  <2> DEFINE s == Request(k).of
  <2>1. \/ Past(k, "findRefresh")
        \/ At(k, "findRefresh") /\ Step(k) /\ Found(k)
    BY <1>0, <1>2, PastBefore DEF Firm
  <2>2. call[k].state = "running"
    BY <1>0, <1>2, <2>1, StaysOver DEF Past, At, Over
  <2>3. before'[k] = before[k] /\ k \in Expected
    BY <1>0, <2>2, StepsOf DEF Begin, Placing
  <2>4. call'[c] = call[c] /\ call[c].state = "ok" /\ c \in Expected
    BY <1>0, <1>2, <2>3, StaysOver DEF Ended, Placing
  <2>5. s \in Ids
    BY <1>0, <2>1, <2>3, FoundByPresenting
  <2>6. SessionExists(s)
    <3>1. CASE Past(k, "findRefresh")
      BY <1>0, <2>2, <3>1 DEF Ready, HoldsSession
    <3>2. CASE At(k, "findRefresh") /\ Step(k) /\ Found(k)
      BY <3>2, StepIs DEF Found
    <3> QED BY <2>1, <3>1, <3>2
  <2>7. Covers(c, s)
    <3>1. sessions'[s].device = sessions[s].device
      BY <1>0, <2>5, <2>6, RowsStay
    <3> QED BY <1>2, <1>r, <3>1 DEF Covers
  <2>8. Outlives(s, c)
    <3>1. CASE Past(k, "findRefresh")
      BY <1>2, <2>2, <2>3, <2>4, <2>7, <3>1 DEF Swept
    <3>2. CASE At(k, "findRefresh") /\ Step(k) /\ Found(k)
      <4>1. s \in LiveSessions
        BY <2>5, <2>6, <3>2, StepIs DEF Found, LiveSessions
      <4>2. Past(c, "listSessions")
        BY <1>0, <1>2, <2>4, AtTheList
      <4> QED BY <2>4, <2>7, <4>1, <4>2 DEF Swept
    <3> QED BY <2>1, <3>1, <3>2
  <2>9. PICK x \in Ids : x = s
    BY <2>5
  <2>10. Outlives(x, c)'
    BY <2>6, <2>8, <2>9, OutlivingStays
  <2>11. Request(k)'.of = x
    BY <1>r, <2>9
  <2> QED BY <2>10, <2>11
<1> QED
  <2>1. \A c \in Calls : Past(c, "listSessions")' =>
          \A s \in LiveSessions' : Covers(c, s)' =>
            Outlives(s, c)' \/ (call'[c].state = "running" /\ s \in call'[c].listed)
    BY <1>1
  <2>2. \A c \in Calls : call'[c].state = "ok" /\ Kind(c)' \in Sweeping =>
          \A k \in Calls :
            /\ Past(k, "findRefresh")' /\ c \in before'[k] /\ call'[k].state = "running"
            /\ Covers(c, Request(k).of)'
            => Outlives(Request(k).of, c)'
    BY <1>2, <1>r
  <2> QED BY <2>1, <2>2 DEF Swept

\* A session that is valid after a request that ends sessions was not there to be
\* ended (auth/service.ts:316-354, 370-379, 459-467; refresh at 278-292).
THEOREM SweepsEndSessions == Spec => []SweepEndsSessions
<1>1. Init => Swept
  <2> SUFFICES ASSUME Init
               PROVE  Swept
    OBVIOUS
  <2>1. \A c \in Calls : call[c].state = "idle"
    BY DEF Init, Empty
  <2> QED BY <2>1 DEF Swept, Past
<1>2. Base /\ Swept /\ [Next]_vars => Swept'
  BY SweptKept
<1>3. Base /\ Swept => SweepEndsSessions
  <2> SUFFICES ASSUME Base, Swept,
                      NEW c \in Answered({"logoutAll", "disable", "reset", "revokeDevice"}),
                      NEW s \in LiveSessions, Covers(c, s)
               PROVE  Outlives(s, c)
    BY DEF SweepEndsSessions, Outlives
  <2>1. c \in Expected /\ call[c].state = "ok" /\ Kind(c) \in Sweeping /\ c \in Calls
    BY RequestTypes DEF Answered, Sweeping, Base
  <2>2. Past(c, "listSessions")
    BY <2>1, AtTheList DEF Base
  <2> QED BY <2>1, <2>2 DEF Swept
<1> QED BY <1>1, <1>2, <1>3, RowsRemain, PTL DEF Spec

-----------------------------------------------------------------------------
(* Revoking a device *)

LEMMA ExcuseStays ==
  ASSUME Base, [Next]_vars, NEW c \in Calls, c \in Expected, Kind(c) = "revokeDevice",
         DeviceExcused(c)
  PROVE  DeviceExcused(c)'
<1>0. TypeOK /\ Placing /\ Ready /\ Made /\ Ended
  BY DEF Base
<1>1. PICK k \in Expected : Overlap(k, c) /\ OnDevice(k, Request(c).with)
  BY DEF DeviceExcused
<1>2. k \in Calls /\ Request(c)' = Request(c) /\ Request(k)' = Request(k)
      /\ Kind(k)' = Kind(k) /\ Expected' = Expected
  BY <1>0, <1>1, RequestTypes, StepsOf DEF Expected
<1>3. Overlap(k, c)'
  BY <1>0, <1>1, <1>2, OrderStays
<1>4. Kind(k) # "verifyOtp"
  BY <1>1 DEF OnDevice
<1>5. PICK s \in Ids : s = Request(k).of
  BY <1>0, <1>1, <1>4, RequestTypes
<1>6. SessionExists(s)' /\ sessions'[s].device = sessions[s].device
  BY <1>0, <1>1, <1>5, RowsStay DEF OnDevice
<1>7. OnDevice(k, Request(c).with)'
  BY <1>1, <1>2, <1>5, <1>6 DEF OnDevice
<1> QED BY <1>1, <1>2, <1>3, <1>7 DEF DeviceExcused

\* The kind of the request that revokes a device, and where it stands
LEMMA RevokingKind ==
  ASSUME TypeOK, Placing, NEW c \in Calls
  PROVE  /\ Past(c, "revokeDevice") \/ At(c, "revokeDevice") =>
              /\ c \in Expected /\ Kind(c) = "revokeDevice" /\ Request(c).with \in Ids
              /\ ~At(c, "touchDevice")
         /\ c \in Expected /\ call[c].state = "ok" /\ Kind(c) = "revokeDevice" =>
              Past(c, "revokeDevice")
<1> DEFINE p == Program[Kind(c)]
           j == call[c].next
<1>1. c \in Expected => /\ Kind(c) \in Kinds /\ Placed(Kind(c)) /\ Len(p) \in Nat
                        /\ Statements(c) = p
  BY RequestTypes, ProgramsPlaced, ProgramLengths DEF Statements
<1>2. ASSUME Past(c, "revokeDevice") \/ At(c, "revokeDevice")
      PROVE  /\ c \in Expected /\ Kind(c) = "revokeDevice" /\ Request(c).with \in Ids
             /\ ~At(c, "touchDevice")
  <2>1. c \in Expected
    BY <1>2 DEF Past, At, Placing
  <2>2. call[c].state = "running" => j \in 1 .. Len(p)
    BY <1>1, <2>1 DEF Placing
  <2>3. PICK i \in 1 .. Len(p) : p[i] = "revokeDevice"
                                 /\ (call[c].state = "running" => i <= j)
    <3> HIDE DEF j
    <3>1. CASE Past(c, "revokeDevice")
      BY <1>1, <2>1, <2>2, <3>1 DEF Past, j
    <3>2. CASE At(c, "revokeDevice")
      BY <1>1, <2>1, <2>2, <3>2 DEF At, j
    <3> QED BY <1>2, <3>1, <3>2
  <2> HIDE DEF j
  <2>4. Kind(c) = "revokeDevice" /\ \E n \in 1 .. (i - 1) : p[n] = "touchDevice"
    BY <1>1, <2>1, <2>3 DEF Placed
  <2>5. PICK n \in 1 .. (i - 1) : p[n] = "touchDevice"
    BY <2>4
  <2>6. n \in 1 .. Len(p)
    BY <1>1, <2>1, <2>3, <2>5
  <2>7. ~At(c, "touchDevice")
    <3> SUFFICES ASSUME At(c, "touchDevice")
                 PROVE  FALSE
      OBVIOUS
    <3>1. call[c].state = "running" /\ p[j] = "touchDevice" /\ j \in 1 .. Len(p)
      BY <1>1, <2>1, <2>2 DEF At, j
    <3>2. j = n
      BY <1>1, <2>1, <2>5, <2>6, <3>1 DEF Placed
    <3> QED BY <2>3, <2>5, <3>1, <3>2
  <2> QED BY <1>2, <2>1, <2>4, <2>7, RequestTypes
<1>3. ASSUME NEW S, NEW kind, Includes(kind, S), kind = Kind(c), c \in Expected,
             call[c].state = "ok", NEW s \in S
      PROVE  Past(c, s)
  BY <1>1, <1>3 DEF Includes, Past
<1>4. c \in Expected /\ call[c].state = "ok" /\ Kind(c) = "revokeDevice" =>
        Past(c, "revokeDevice")
  BY <1>3, ProgramsInclude
<1> QED BY <1>2, <1>4

LEMMA DeviceRevokedKept ==
  ASSUME Base, DeviceRevoked, [Next]_vars
  PROVE  DeviceRevoked'
<1>0. TypeOK /\ Placing /\ Ready /\ Made /\ Ended /\ TypeOK' /\ Placing'
  BY BaseKept DEF Base
<1>r. \A c \in Calls : Kind(c)' = Kind(c) /\ Request(c)' = Request(c)
  BY <1>0, StepsOf
<1>1. ASSUME NEW c \in Calls, Past(c, "revokeDevice")'
      PROVE  devices'[Request(c).with] = "revoked" \/ DeviceExcused(c)'
  <2>1. \/ Past(c, "revokeDevice")
        \/ At(c, "revokeDevice") /\ Step(c)
    BY <1>0, <1>1, PastBefore DEF Firm
  <2>2. c \in Expected /\ Kind(c) = "revokeDevice" /\ Request(c).with \in Ids
        /\ ~At(c, "touchDevice") /\ call[c].state # "idle"
    BY <1>0, <2>1, RevokingKind DEF Past, At
  <2>3. CASE DeviceExcused(c)
    BY <2>2, <2>3, ExcuseStays
  <2>4. CASE At(c, "revokeDevice") /\ Step(c)
    <3>1. UpdateDevice(Request(c).with, "revoked")
      BY <2>4, StepIs DEF WriteRevoked
    <3> QED BY <1>0, <2>2, <3>1 DEF UpdateDevice, TypeOK, TablesTypeOK
  <2>5. CASE Past(c, "revokeDevice") /\ devices[Request(c).with] = "revoked"
    <3>1. PICK d \in Ids : d = Request(c).with
      BY <2>2
    <3>2. CASE devices' = devices
      BY <2>5, <3>2
    <3>3. ASSUME NEW k \in Calls, Step(k)
          PROVE  devices'[d] = "revoked" \/ DeviceExcused(c)
      <4>0. devices \in [Ids -> DeviceStates] /\ devices[d] = "revoked"
        BY <1>0, <2>5, <3>1 DEF TypeOK, TablesTypeOK
      <4>1. CASE SaveDevice(k) /\ devices[k] = "none"
        BY <4>0, <4>1 DEF SaveDevice
      <4>2. CASE LET x == call[k].session.device IN
                 /\ At(k, "touchDevice") /\ Past(k, "liveDevice") /\ HoldsSession(k)
                 /\ x \in Ids /\ devices[x] # "none" /\ UpdateDevice(x, "active")
        <5>1. CASE call[k].session.device # d
          BY <4>0, <4>2, <5>1 DEF UpdateDevice
        <5>2. CASE call[k].session.device = d
          <6>1. k # c /\ call[k].state = "running" /\ k \in Expected /\ Kind(k) \in Presenting
            BY <1>0, <2>2, <4>2, AtHas DEF At
          <6>2. CASE c \in before[k]
            BY <2>5, <3>1, <4>2, <5>2, <6>1, <6>2 DEF DeviceRevoked
          <6>3. CASE c \notin before[k]
            <7>1. Overlap(k, c)
              BY <1>0, <2>2, <6>1, <6>3, OrderStays DEF Overlap, Began
            <7>2. OnDevice(k, d)
              BY <4>2, <5>2, <6>1 DEF OnDevice, HoldsSession, Presenting
            <7> QED BY <3>1, <6>1, <7>1, <7>2 DEF DeviceExcused
          <6> QED BY <6>2, <6>3
        <5> QED BY <5>1, <5>2
      <4>3. CASE \E x \in Ids : UpdateDevice(x, "revoked")
        BY <4>0, <4>3 DEF UpdateDevice
      <4>4. CASE devices' = devices
        BY <4>0, <4>4
      <4> QED BY <1>0, <3>3, <4>1, <4>2, <4>3, <4>4, DeviceWrites
    <3>4. devices'[d] = "revoked" \/ DeviceExcused(c)
      <4>1. devices' = devices \/ \E k \in Calls : Step(k)
        BY <1>0, Steps, Beginning DEF tables
      <4> QED BY <2>5, <3>1, <3>2, <3>3, <4>1
    <3> QED BY <2>2, <3>1, <3>4, ExcuseStays
  <2> QED BY <2>1, <2>3, <2>4, <2>5 DEF DeviceRevoked
<1>2. ASSUME NEW c \in Calls, Past(c, "revokeDevice")', NEW k \in Calls,
             call'[k].state = "running", Past(k, "liveDevice")', c \in before'[k],
             call'[k].session.device = Request(c).with
      PROVE  DeviceExcused(c)'
  <2>1. \/ Past(k, "liveDevice")
        \/ /\ At(k, "liveDevice") /\ Step(k) /\ Found(k)
           /\ call'[k].session = call[k].session
    BY <1>0, <1>2, PastBefore, StepIs DEF Firm, Took
  <2>2. call[k].state = "running"
    BY <1>0, <1>2, <2>1, StaysOver DEF Past, At, Over
  <2>3. before'[k] = before[k]
    BY <1>0, <2>2, StepsOf DEF Begin
  <2>4. Past(c, "revokeDevice")
    <3>1. call'[c] = call[c] /\ call[c].state # "running"
      BY <1>0, <1>2, <2>3, StaysOver DEF Ended, Over
    <3> QED BY <1>0, <1>2, <3>1, StepsOf, SamePast
  <2>5. c \in Expected /\ Kind(c) = "revokeDevice" /\ Request(c).with \in Ids
    BY <1>0, <2>4, RevokingKind
  <2>6. DeviceExcused(c)
    <3>1. CASE Past(k, "liveDevice")
      <4>1. HoldsSession(k)
        BY <1>0, <2>2, <3>1, LivesAfter DEF Ready
      <4>2. call'[k].session.device = call[k].session.device
        <5>1. \/ call'[k].session = call[k].session
              \/ call'[k].session = sessions[Request(k).of]
          BY <1>0, <1>2, <2>2, StepsOf DEF Begin, Does, Reads
        <5> QED BY <4>1, <5>1 DEF HoldsSession
      <4> QED BY <1>2, <2>2, <2>3, <2>4, <3>1, <4>2 DEF DeviceRevoked
    <3>2. CASE /\ At(k, "liveDevice") /\ Step(k) /\ Found(k)
               /\ call'[k].session = call[k].session
      <4>1. devices[Request(c).with] = "active"
        BY <1>2, <3>2, StepIs DEF Found
      <4> QED BY <2>4, <4>1 DEF DeviceRevoked
    <3> QED BY <2>1, <3>1, <3>2
  <2> QED BY <2>5, <2>6, ExcuseStays
<1> QED
  <2>1. \A c \in Calls : Past(c, "revokeDevice")' =>
          devices'[Request(c)'.with] = "revoked" \/ DeviceExcused(c)'
    BY <1>1, <1>r
  <2>2. \A c \in Calls : Past(c, "revokeDevice")' =>
          \A k \in Calls :
            /\ call'[k].state = "running" /\ Past(k, "liveDevice")' /\ c \in before'[k]
            /\ call'[k].session.device = Request(c)'.with
            => DeviceExcused(c)'
    BY <1>2, <1>r
  <2> QED BY <2>1, <2>2 DEF DeviceRevoked

-----------------------------------------------------------------------------
(* Disabling an account *)

\* A sign-in that has looked the account up: the index tells that the step over
\* findIdentity did not pass findByEmail.
LEMMA SigningIn ==
  ASSUME TypeOK, Placing, Ready, Placing', TypeOK', [Next]_vars, NEW k \in Calls,
         call[k].state = "running", SignedIn(k)',
         user # NoRow, user.status = "DISABLED",
         call[k].user # NoRow => call[k].user.status = "DISABLED"
  PROVE  SignedIn(k)
<1>1. Kind(k)' = Kind(k) /\ Statements(k)' = Statements(k) /\ scenario' = scenario
  BY StepsOf
<1>2. ASSUME Kind(k) = "login", Past(k, "resetWindow")'
      PROVE  Past(k, "resetWindow")
  <2>1. \/ Past(k, "resetWindow")
        \/ At(k, "resetWindow") /\ Step(k) /\ Found(k)
    BY <1>2, PastBefore DEF Firm
  <2>2. CASE At(k, "resetWindow") /\ Step(k) /\ Found(k)
    <3>1. call[k].user.status = "ACTIVE"
      BY <2>2, StepIs DEF Found, MaySignIn
    <3>2. call[k].user # NoRow
      BY <2>2, ComesAfter DEF Ready
    <3> QED BY <3>1, <3>2
  <2> QED BY <2>1, <2>2
<1>3. ASSUME Kind(k) = "refresh", Past(k, "activeUser")'
      PROVE  Past(k, "activeUser")
  <2>1. \/ Past(k, "activeUser")
        \/ At(k, "activeUser") /\ Step(k) /\ Found(k)
    BY <1>3, PastBefore DEF Firm
  <2> QED BY <2>1, StepIs DEF Found
<1>4. ASSUME Kind(k) = "exchange", Past(k, "findByEmail")'
      PROVE  Past(k, "findByEmail")
  <2>0. CASE call'[k] = call[k]
    BY <1>1, <1>4, <2>0, SamePast
  <2>1. CASE Step(k) /\ Does(k)
    <3>1. \/ Past(k, "findByEmail")
          \/ At(k, "findByEmail") /\ call'[k].state # "refused"
          \/ At(k, "findIdentity")
      BY <1>1, <1>4, <2>1, NewlyPast DEF Does, Skippable
    <3>2. CASE At(k, "findByEmail") /\ call'[k].state # "refused"
      BY <2>1, <3>2, StepIs, StepFinds DEF Found
    <3>3. CASE At(k, "findIdentity")
      <4> DEFINE p == Program[Kind(k)]
                 j == call[k].next
      <4>1. call'[k].state # "refused"
        BY <1>4 DEF Past
      <4>2. Went(k, 1)
        BY <2>1, <3>3, <4>1, StepIs, StepFinds DEF Found
      <4>3. Placed(Kind(k)) /\ j \in 1 .. Len(p) /\ p[j] = "findIdentity" /\ Statements(k) = p
        BY <3>3, AtHas DEF Statements
      <4>4. Len(p) \in Nat
        BY <3>3, AtHas, ProgramLengths
      <4>5. j + 2 <= Len(p) /\ p[j + 1] = "findByEmail"
        <5> HIDE DEF j
        <5> QED BY <4>3 DEF Placed
      <4>6. call'[k].next = j + 1 /\ call'[k].state = "running"
        BY <4>2, <4>3, <4>4, <4>5 DEF Went
      <4>7. PICK i \in 1 .. j : p[i] = "findByEmail"
        BY <1>1, <1>4, <4>3, <4>6 DEF Past
      <4>8. i = j + 1
        <5>1. i \in 1 .. Len(p) /\ j + 1 \in 1 .. Len(p)
          BY <4>3, <4>4, <4>5, <4>7
        <5> HIDE DEF j
        <5> QED BY <4>3, <4>5, <4>7, <5>1 DEF Placed
      <4> QED BY <4>3, <4>4, <4>7, <4>8
    <3> QED BY <3>1, <3>2, <3>3
  <2> QED BY <2>0, <2>1, StepsOf DEF Begin
<1> QED BY <1>1, <1>2, <1>3, <1>4 DEF SignedIn

LEMMA UserExcuseStays ==
  ASSUME Base, [Next]_vars, NEW c \in Calls, UserExcused(c)
  PROVE  UserExcused(c)'
<1>0. TypeOK /\ Placing /\ Ready /\ Made /\ Ended
  BY DEF Base
<1>1. PICK k \in Expected :
        Overlap(k, c) /\ Kind(k) \in {"verifyOtp", "verifyEmail", "reset", "plan"}
  BY DEF UserExcused
<1>2. k \in Calls /\ Kind(k)' = Kind(k) /\ Expected' = Expected
  BY <1>0, <1>1, RequestTypes, StepsOf DEF Expected
<1>3. Overlap(k, c)'
  BY <1>0, <1>1, <1>2, OrderStays
<1> QED BY <1>1, <1>2, <1>3 DEF UserExcused

\* What the requests after a disabling have read, while the account stays disabled
LEMMA StaysOut ==
  ASSUME Base, Base', [Next]_vars, user # NoRow, user.status = "DISABLED",
         NEW c \in Calls, NEW k \in Calls, c \in before'[k],
         c \in before[k] =>
           /\ call[k].user # NoRow => call[k].user.status = "DISABLED"
           /\ call[k].state = "running" => ~SignedIn(k)
           /\ ~SessionExists(k)
  PROVE  /\ call'[k].user # NoRow => call'[k].user.status = "DISABLED"
         /\ call'[k].state = "running" => ~SignedIn(k)'
         /\ ~SessionExists(k)'
<1>0. TypeOK /\ Placing /\ Ready /\ Made /\ Ended /\ TypeOK' /\ Placing'
  BY DEF Base
<1>1. CASE Begin(k)
  <2>1. /\ call'[k].user = NoRow /\ call'[k].state = "running" /\ call'[k].next = 1
        /\ sessions' = sessions /\ call[k].state = "idle"
    BY <1>0, <1>1, Beginning DEF tables
  <2>2. ~SessionExists(k)
    BY <1>0, <2>1 DEF Made, Past, Over
  <2>3. ~SignedIn(k)'
    BY <2>1 DEF SignedIn, Past
  <2> QED BY <2>1, <2>2, <2>3 DEF SessionExists
<1>2. CASE ~Begin(k)
  <2>1. c \in before[k]
    BY <1>0, <1>2, StepsOf
  <2>2. call'[k].user # NoRow => call'[k].user.status = "DISABLED"
    <3>1. CASE call'[k] = call[k]
      BY <2>1, <3>1
    <3>2. CASE Does(k) /\ call'[k].state = "running"
      BY <2>1, <3>2 DEF Does, Reads
    <3>3. CASE Does(k) /\ call'[k].state # "running"
      <4>1. \A n \in 1 .. 3 : Went(k, n) => Answers(k)
        BY <3>3 DEF Went
      <4>2. Refused(k) \/ Answers(k)
        BY <3>3, <4>1 DEF Does, Moves
      <4>3. call'[k].user = NoRow
        BY <4>2 DEF Refused, Answers, Empty
      <4> QED BY <4>3
    <3> QED BY <1>0, <1>2, <3>1, <3>2, <3>3, StepsOf
  <2>3. call'[k].state = "running" => ~SignedIn(k)'
    <3>1. call'[k].state = "running" => call[k].state = "running"
      BY <1>0, <1>2, StepsOf
    <3> QED BY <1>0, <2>1, <3>1, SigningIn
  <2>4. ~SessionExists(k)'
    <3> SUFFICES ASSUME SessionExists(k)'
                 PROVE  FALSE
      OBVIOUS
    <3>1. /\ At(k, "saveSession") /\ call[k].state = "running"
          /\ Kind(k) \in SignsIn \cup {"refresh"}
      BY <1>0, <2>1, SessionMade DEF Ids
    <3>2. SignedIn(k)
      BY <1>0, <3>1, ComesAfter DEF SignedIn, SignsIn
    <3> QED BY <2>1, <3>1, <3>2
  <2> QED BY <2>2, <2>3, <2>4
<1> QED BY <1>1, <1>2

LEMMA UserDisabledKept ==
  ASSUME Base, UserDisabled, [Next]_vars
  PROVE  UserDisabled'
<1>0. /\ TypeOK /\ Placing /\ Ready /\ Made /\ Ended /\ TypeOK' /\ Placing' /\ Ended'
      /\ Base'
  BY BaseKept DEF Base
<1>r. \A c \in Calls : Kind(c)' = Kind(c) /\ Request(c)' = Request(c)
  BY <1>0, StepsOf
<1> SUFFICES ASSUME NEW c \in Calls, Past(c, "updateUser")', Kind(c) = "disable",
                    ~UserExcused(c)'
             PROVE  /\ user' # NoRow /\ user'.status = "DISABLED"
                    /\ \A k \in Calls : c \in before'[k] =>
                         /\ call'[k].user # NoRow => call'[k].user.status = "DISABLED"
                         /\ call'[k].state = "running" => ~SignedIn(k)'
                         /\ ~SessionExists(k)'
  BY <1>r DEF UserDisabled
<1>1. ~UserExcused(c)
  BY UserExcuseStays
<1>2. c \in Expected
  BY <1>0, StepsOf DEF Past, Placing, Expected
<1>3. CASE Past(c, "updateUser")
  <2>1. /\ user # NoRow /\ user.status = "DISABLED"
        /\ \A k \in Calls : c \in before[k] =>
             /\ call[k].user # NoRow => call[k].user.status = "DISABLED"
             /\ call[k].state = "running" => ~SignedIn(k)
             /\ ~SessionExists(k)
    BY <1>1, <1>3 DEF UserDisabled
  <2>2. ASSUME NEW k \in Calls, Step(k), At(k, "updateUser"), call[k].user \in UserRow,
               Kind(k) \in {"verifyOtp", "verifyEmail", "reset", "disable", "plan"},
               user' = Changed(k), Changed(k) \in UserRow
        PROVE  user'.status = "DISABLED"
    <3>0. call[k].state = "running" /\ k \in Expected
      BY <1>0, <2>2, AtHas DEF At
    <3>1. CASE Kind(k) = "disable"
      BY <1>0, <2>2, <3>0, <3>1, ChangedRow
    <3>2. CASE Kind(k) # "disable" /\ c \in before[k]
      BY <1>0, <2>1, <2>2, <3>0, <3>2, ChangedRow, RowsAreNoNoRow
    <3>3. CASE Kind(k) # "disable" /\ c \notin before[k]
      <4>1. k # c /\ call[c].state # "idle"
        BY <1>3, <3>3 DEF Past
      <4>2. Overlap(k, c)
        BY <1>0, <1>2, <3>0, <3>3, <4>1, OrderStays DEF Overlap, Began
      <4> QED BY <1>1, <2>2, <3>0, <3>3, <4>2 DEF UserExcused
    <3> QED BY <3>1, <3>2, <3>3
  <2>3. user' # NoRow /\ user'.status = "DISABLED"
    <3>1. user' = user \/ \E k \in Calls : Step(k)
      BY <1>0, Steps, Beginning DEF tables
    <3> QED BY <1>0, <2>1, <2>2, <3>1, UserWrites, RowsAreNoNoRow
  <2> QED BY <1>0, <2>1, <2>3, StaysOut
<1>4. CASE At(c, "updateUser") /\ Step(c)
  <2>1. call[c].state = "running" /\ call[c].user \in UserRow
    <3>1. call[c].state = "running" /\ (Past(c, "unverified") \/ Past(c, "requireUser"))
      BY <1>0, <1>4, ComesAfter DEF At
    <3> QED BY <1>0, <3>1 DEF Ready, TypeOK, CallRow
  <2>2. user' = Changed(c)
    BY <1>4, StepIs DEF WriteUser, UpdateUser
  <2>3. user' # NoRow /\ user'.status = "DISABLED"
    BY <1>0, <1>2, <2>1, <2>2, ChangedRow, RowsAreNoNoRow
  <2>4. ASSUME NEW k \in Calls
        PROVE  c \notin before'[k]
    <3>1. c \notin before[k]
      BY <1>0, <2>1 DEF Ended, Over
    <3>2. before' = before
      BY <1>0, <1>4, StepDoes DEF Does, Writes
    <3> QED BY <3>1, <3>2
  <2> QED BY <2>3, <2>4
<1>5. Past(c, "updateUser") \/ (At(c, "updateUser") /\ Step(c))
  BY <1>0, PastBefore DEF Firm
<1> QED BY <1>3, <1>4, <1>5

\* A device stays revoked and an account disabled: only a request that was served
\* beside the one that did it writes back what it had read, and no sign-in that
\* begins afterwards gets a session of the disabled account
\* (auth/service.ts:231-264, 332-345, 388-430).
THEOREM RevocationsHold == Spec => []RevocationHolds
<1>1. Init => Swept /\ DeviceRevoked /\ UserDisabled
  <2> SUFFICES ASSUME Init
               PROVE  Swept /\ DeviceRevoked /\ UserDisabled
    OBVIOUS
  <2>1. \A c \in Calls : call[c].state = "idle"
    BY DEF Init, Empty
  <2> QED BY <2>1 DEF Swept, DeviceRevoked, UserDisabled, Past
<1>2. /\ Base /\ Swept /\ [Next]_vars => Swept'
      /\ Base /\ DeviceRevoked /\ [Next]_vars => DeviceRevoked'
      /\ Base /\ UserDisabled /\ [Next]_vars => UserDisabled'
  BY SweptKept, DeviceRevokedKept, UserDisabledKept
<1>3. Base /\ SweepEndsSessions /\ DeviceRevoked /\ UserDisabled => RevocationHolds
  <2> SUFFICES ASSUME Base, SweepEndsSessions, DeviceRevoked, UserDisabled
               PROVE  RevocationHolds
    OBVIOUS
  <2>0. TypeOK /\ Placing /\ Chained
    BY DEF Base
  <2>1. ASSUME NEW c \in Answered({"revokeDevice"})
        PROVE  devices[Request(c).with] = "revoked" \/ DeviceExcused(c)
    <3>1. c \in Expected /\ call[c].state = "ok" /\ Kind(c) = "revokeDevice" /\ c \in Calls
      BY <2>0, RequestTypes DEF Answered
    <3> QED BY <2>0, <3>1, RevokingKind DEF DeviceRevoked
  <2>2. ASSUME NEW c \in Answered({"disable"}), ~UserExcused(c)
        PROVE  /\ user.status = "DISABLED"
               /\ \A s \in LiveSessions : \E k \in chain[s] : Overlap(k, c)
    <3>1. c \in Expected /\ call[c].state = "ok" /\ Kind(c) = "disable" /\ c \in Calls
      BY <2>0, RequestTypes DEF Answered
    <3>2. Past(c, "updateUser")
      <4>1. \E i \in 1 .. Len(Program["disable"]) : Program["disable"][i] = "updateUser"
        BY ProgramsInclude DEF Includes
      <4> QED BY <3>1, <4>1 DEF Past, Statements
    <3>3. ASSUME NEW s \in LiveSessions
          PROVE  \E k \in chain[s] : Overlap(k, c)
      <4>1. s \in Ids /\ SessionExists(s) /\ s \in chain[s]
        BY <2>0 DEF LiveSessions, Chained
      <4>2. Covers(c, s) /\ c \in Answered({"logoutAll", "disable", "reset", "revokeDevice"})
        BY <3>1 DEF Covers, Answered
      <4>3. \/ \E k \in chain[s] : Overlap(k, c)
            \/ \A k \in chain[s] : k \in Calls /\ c \in before[k]
        BY <4>2 DEF SweepEndsSessions
      <4> QED BY <2>2, <3>1, <3>2, <4>1, <4>3 DEF UserDisabled
    <3> QED BY <2>2, <3>1, <3>2, <3>3 DEF UserDisabled
  <2> QED BY <2>1, <2>2 DEF RevocationHolds, DeviceExcused, UserExcused
<1> QED BY <1>1, <1>2, <1>3, RowsRemain, SweepsEndSessions, PTL DEF Spec

-----------------------------------------------------------------------------
(* Guessing a code *)

LEMMA Growing ==
  ASSUME NEW S, IsFiniteSet(S), NEW x
  PROVE  /\ IsFiniteSet(S \cup {x})
         /\ Cardinality(S) \in Nat /\ Cardinality(S \cup {x}) \in Nat
         /\ Cardinality(S \cup {x}) <= Cardinality(S) + 1
BY FS_AddElement, FS_CardinalityType

\* What a comparison leads to
LEMMA CompareOutcome ==
  ASSUME TypeOK, Placing, scenario' = scenario, NEW c \in Calls, CompareOtp(c)
  PROVE  \/ call'[c].compared = call[c].compared /\ ~At(c, "countWrong")'
         \/ \E o \in ActiveOtps :
              /\ call'[c].compared = o /\ At(c, "countWrong")'
              /\ call'[c].otp = [id |-> o, row |-> otps[o]] /\ ~Exceeded(otps[o])
<1>0. /\ call[c] \in CallRow /\ call[c].state = "running" /\ At(c, "compareOtp")
      /\ Step(c) /\ Does(c)
  BY StepDoes DEF TypeOK, CompareOtp, At, Step
<1>1. CASE Refuse(c)
  <2>1. call[c].compared \in Ids \cup Nat \cup {NoRow}
    BY <1>0 DEF CallRow
  <2>2. Refused(c) /\ call'[c].compared = call[c].compared
    BY <1>1, <2>1, Refusing DEF Refuse
  <2> QED BY <2>2 DEF Refused, Empty, At
<1>2. ASSUME NEW o \in ActiveOtps, ~Exceeded(otps[o]),
             LET m == [call[c] EXCEPT !.otp = [id |-> o, row |-> otps[o]]] IN
             Leap(c, m, 2) \/ Continue(c, [m EXCEPT !.compared = o])
      PROVE  \/ call'[c].compared = call[c].compared /\ ~At(c, "countWrong")'
             \/ /\ call'[c].compared = o /\ At(c, "countWrong")'
                /\ call'[c].otp = [id |-> o, row |-> otps[o]]
  <2>2. o \in Ids /\ otps[o] \in OtpRow
    BY <1>2 DEF ActiveOtps, TypeOK, TablesTypeOK
  <2> DEFINE read == [id |-> o, row |-> otps[o]]
             m == [call[c] EXCEPT !.otp = read]
             mm == [m EXCEPT !.compared = o]
  <2>3. read \in OtpRead
    BY <2>2 DEF OtpRead
  <2>4. Leap(c, m, 2) \/ Continue(c, mm)
    BY <1>2
  <2> HIDE DEF read
  <2>5. /\ m \in CallRow /\ m.state = "running" /\ m.next = call[c].next
        /\ m.at = call[c].at /\ m.otp = read /\ m.compared = call[c].compared
    BY <1>0, <2>3 DEF CallRow
  <2> HIDE DEF m
  <2>6. /\ mm \in CallRow /\ mm.state = "running" /\ mm.next = call[c].next
        /\ mm.at = call[c].at /\ mm.otp = read /\ mm.compared = o
    BY <2>2, <2>5 DEF CallRow
  <2> HIDE DEF mm
  <2>7. CASE Leap(c, m, 2)
    <3>1. call'[c].compared = call[c].compared /\ Went(c, 2)
      BY <1>0, <2>5, <2>7, Leaping
    <3>2. ~At(c, "countWrong")'
      <4> SUFFICES ASSUME At(c, "countWrong")'
                   PROVE  FALSE
        OBVIOUS
      <4>1. Went(c, 1)
        BY <1>0, LedTo DEF Leads
      <4>2. call'[c].state = "running" /\ ~Answers(c) /\ call[c].next \in Nat
        BY <1>0 DEF At, Answers, Empty, CallRow
      <4> QED BY <3>1, <4>1, <4>2 DEF Went
    <3> QED BY <3>1, <3>2
  <2>8. CASE Continue(c, mm)
    <3>1. call'[c].compared = o /\ Went(c, 1) /\ Keeps(c, mm)
      BY <1>0, <2>6, <2>8, Leaping DEF Continue
    <3> DEFINE p == Program[Kind(c)]
               j == call[c].next
    <3>2. /\ Placed(Kind(c)) /\ j \in 1 .. Len(p) /\ p[j] = "compareOtp"
          /\ Statements(c) = p /\ Statements(c)' = p /\ Len(p) \in Nat
      BY <1>0, AtHas, ProgramLengths DEF Statements, Kind, Request
    <3>3. j + 2 <= Len(p) /\ p[j + 1] = "countWrong"
      <4> HIDE DEF j
      <4> QED BY <3>2 DEF Placed
    <3>4. call'[c].state = "running" /\ call'[c].next = j + 1
      BY <3>1, <3>2, <3>3 DEF Went
    <3>5. At(c, "countWrong")'
      BY <3>2, <3>3, <3>4 DEF At
    <3> QED BY <2>6, <3>1, <3>4, <3>5 DEF Keeps, read
  <2> QED BY <2>4, <2>7, <2>8
<1>3. \/ Refuse(c)
      \/ \E o \in ActiveOtps :
           /\ ~Exceeded(otps[o])
           /\ LET m == [call[c] EXCEPT !.otp = [id |-> o, row |-> otps[o]]] IN
              Leap(c, m, 2) \/ Continue(c, [m EXCEPT !.compared = o])
  BY DEF CompareOtp
<1> QED BY <1>1, <1>2, <1>3

\* A request that stands at the count leaves it with an error.
LEMMA CountingEnds ==
  ASSUME TypeOK, Placing, Ready, NEW c \in Calls, Step(c), At(c, "countWrong")
  PROVE  LET read == call[c].otp IN
         /\ Over(c)' /\ ~Over(c) /\ c \in Expected /\ Kind(c) = "verifyOtp"
         /\ read \in OtpRead /\ read.id \in Ids /\ otps[read.id] # NoRow
         /\ otps'[read.id].attempts = read.row.attempts + 1
<1>1. CountWrong(c)
  BY StepIs
<1>2. call'[c].state = "refused"
  BY <1>1, RefusedState DEF CountWrong, Refuse
<1>3. c \in Expected /\ Kind(c) = "verifyOtp" /\ call[c].state = "running"
  BY AtHas DEF Placed, Statements, At
<1>4. call[c].otp \in OtpRead /\ otps[call[c].otp.id] # NoRow
  BY <1>3, ComesAfter DEF Ready
<1>5. call[c].otp.id \in Ids /\ call[c].otp.row \in OtpRow
  BY <1>4 DEF OtpRead
<1> DEFINE read == call[c].otp
           row == [read.row EXCEPT !.attempts = @ + 1]
<1>6. row.attempts = read.row.attempts + 1
  BY <1>5 DEF OtpRow
<1>7. otps' = [otps EXCEPT ![read.id] = row]
  BY <1>1 DEF CountWrong, UpdateOtp
<1> HIDE DEF row
<1>8. otps'[read.id] = row
  BY <1>5, <1>7 DEF TypeOK, TablesTypeOK
<1> QED BY <1>2, <1>3, <1>4, <1>5, <1>6, <1>8 DEF Over

\* Only a comparison writes what the request has compared.
LEMMA ComparedBy ==
  ASSUME TypeOK, Placing, Comparing, [Next]_vars, NEW c \in Calls,
         Kind(c) = "verifyOtp", call'[c].compared # call[c].compared
  PROVE  /\ Step(c) /\ Does(c) /\ CompareOtp(c) /\ call[c].state = "running" /\ c \in Expected
         /\ call[c].compared = NoRow
         /\ \E o \in ActiveOtps :
              /\ call'[c].compared = o /\ At(c, "countWrong")'
              /\ call'[c].otp = [id |-> o, row |-> otps[o]] /\ ~Exceeded(otps[o])
<1>0. call[c].state = "idle" => call[c].compared = NoRow
  BY DEF Placing, Empty
<1>1. ~Begin(c)
  BY <1>0, Beginning
<1>2. Step(c) /\ Does(c) /\ call[c].state = "running" /\ scenario' = scenario
  BY <1>1, StepsOf
<1>3. c \in Expected
  BY <1>2 DEF Placing
<1>4. ~Password(c)
  BY AtHas DEF Password, Placed, Statements
<1>5. CompareOtp(c)
  BY <1>2, <1>4 DEF Does, Compares
<1>6. call[c].compared = NoRow
  <2>1. ~Over(c) /\ ~At(c, "countWrong")
    BY <1>2, <1>5 DEF Over, CompareOtp, At
  <2> QED BY <2>1 DEF Comparing
<1> QED BY <1>2, <1>3, <1>5, <1>6, CompareOutcome

\* No program begins with a step that needs another one before it.
LEMMA NotFirst ==
  ASSUME TypeOK, Placing, [Next]_vars, NEW k \in Calls, Begin(k), NEW s \in DOMAIN Leads
  PROVE  ~At(k, s)'
<1> SUFFICES ASSUME At(k, s)'
             PROVE  FALSE
  OBVIOUS
<1> DEFINE p == Program[Kind(k)]
<1>1. k \in Expected /\ p[1] = s
  BY Beginning, StepsOf DEF At, Statements
<1>2. Placed(Kind(k)) /\ Len(p) \in Nat \ {0}
  BY <1>1, RequestTypes, ProgramLengths, ProgramsPlaced
<1>3. 1 \in 1 .. Len(p)
  BY <1>2
<1>4. s = "retireOtp" \/ s = "countWrong" \/ s = "password"
  BY DEF Leads
<1>5. /\ p[1] = "retireOtp" => 1 > 1
      /\ p[1] = "countWrong" => \E i \in 1 .. (1 - 1) : p[i] = "compareOtp"
      /\ p[1] = "password" => 1 > 1
  BY <1>2, <1>3 DEF Placed
<1> QED BY <1>1, <1>4, <1>5

LEMMA ComparingKept ==
  ASSUME Base, Base', Comparing, [Next]_vars
  PROVE  Comparing'
<1>0. TypeOK /\ Placing /\ Ready /\ TypeOK' /\ Placing'
  BY DEF Base
<1> SUFFICES ASSUME NEW c \in Calls
             PROVE  /\ At(c, "countWrong")' => call'[c].compared = call'[c].otp.id
                    /\ Kind(c) = "verifyOtp" /\ call'[c].compared # NoRow =>
                         Over(c)' \/ At(c, "countWrong")'
  BY <1>0, StepsOf DEF Comparing
<1>1. scenario' = scenario
  BY <1>0, StepsOf
<1>2. CASE call'[c] = call[c]
  BY <1>1, <1>2, SamePast DEF Comparing
<1>3. CASE Begin(c)
  <2>1. call'[c].compared = NoRow /\ call'[c].state = "running" /\ call'[c].next = 1
    BY <1>0, <1>3, Beginning
  <2>2. ~At(c, "countWrong")'
    BY <1>0, <1>3, NotFirst DEF Leads
  <2> QED BY <2>1, <2>2
<1>4. CASE Step(c) /\ Does(c) /\ call[c].state = "running"
  <2>1. CASE At(c, "countWrong")'
    <3>1. CompareOtp(c)
      BY <1>0, <1>1, <1>4, <2>1, LedTo, StepIs DEF Leads
    <3>2. PICK o \in ActiveOtps :
            call'[c].compared = o /\ call'[c].otp = [id |-> o, row |-> otps[o]]
      BY <1>0, <1>1, <2>1, <3>1, CompareOutcome
    <3> QED BY <2>1, <3>2
  <2>2. CASE ~At(c, "countWrong")' /\ Kind(c) = "verifyOtp" /\ call'[c].compared # NoRow
    <3>1. call'[c].compared = call[c].compared
      BY <1>0, <2>2, ComparedBy
    <3>2. At(c, "countWrong")
      BY <1>4, <2>2, <3>1 DEF Comparing, Over
    <3> QED BY <1>0, <1>4, <2>2, <3>2, CountingEnds
  <2> QED BY <2>1, <2>2
<1> QED BY <1>0, <1>2, <1>3, <1>4, StepsOf

-----------------------------------------------------------------------------
(* The guesses at one code *)

LEMMA GuessesOf ==
  ASSUME TypeOK, NEW o
  PROVE  \A c \in Guessed(o) : /\ c \in Calls /\ c \in Expected /\ Kind(c) = "verifyOtp"
                               /\ call[c].compared = o
BY RequestTypes DEF Guessed

\* The requests that compared a code are the same, or one joins them.
LEMMA GuessedGrows ==
  ASSUME TypeOK, Placing, Comparing, [Next]_vars, NEW o \in Ids
  PROVE  \/ Guessed(o)' = Guessed(o)
         \/ \E c \in Calls :
              /\ call[c].state = "running" /\ c \in Expected /\ Kind(c) = "verifyOtp"
              /\ o \in ActiveOtps /\ ~Exceeded(otps[o])
              /\ At(c, "countWrong")' /\ call'[c].compared = o
              /\ call'[c].otp = [id |-> o, row |-> otps[o]]
              /\ c \notin Guessed(o) /\ Guessed(o)' = Guessed(o) \cup {c}
              /\ \A k \in Calls : k # c => call'[k] = call[k]
<1>0. Expected' = Expected
  BY Steps, Beginning DEF Does, Writes, Expected
<1>1. \A x \in Expected : x \in Calls /\ Kind(x)' = Kind(x)
  BY RequestTypes, StepsOf
<1>2. CASE \A x \in Calls : Kind(x) = "verifyOtp" => call'[x].compared = call[x].compared
  <2>1. \A x : x \in Guessed(o)' <=> x \in Guessed(o)
    BY <1>0, <1>1, <1>2 DEF Guessed
  <2> QED BY <2>1
<1>3. ASSUME NEW c \in Calls, Kind(c) = "verifyOtp", call'[c].compared # call[c].compared
      PROVE  \/ Guessed(o)' = Guessed(o)
             \/ /\ call[c].state = "running" /\ c \in Expected
                /\ o \in ActiveOtps /\ ~Exceeded(otps[o])
                /\ At(c, "countWrong")' /\ call'[c].compared = o
                /\ call'[c].otp = [id |-> o, row |-> otps[o]]
                /\ c \notin Guessed(o) /\ Guessed(o)' = Guessed(o) \cup {c}
                /\ \A k \in Calls : k # c => call'[k] = call[k]
  <2>1. PICK x \in ActiveOtps :
          /\ call'[c].compared = x /\ At(c, "countWrong")'
          /\ call'[c].otp = [id |-> x, row |-> otps[x]] /\ ~Exceeded(otps[x])
    BY <1>3, ComparedBy
  <2>2. /\ call[c].compared = NoRow /\ c \in Expected /\ call[c].state = "running"
        /\ \A k \in Calls : k # c => call'[k] = call[k]
    BY <1>3, ComparedBy DEF Does, Moves, Others
  <2>3. NoRow # o
    BY RowsAreNoNoRow
  <2>4. CASE x = o
    <3>1. \A y : y \in Guessed(o)' <=> y \in Guessed(o) \cup {c}
      BY <1>0, <1>1, <1>3, <2>1, <2>2, <2>4 DEF Guessed
    <3>2. c \notin Guessed(o)
      BY <2>2, <2>3 DEF Guessed
    <3>3. Guessed(o)' = Guessed(o) \cup {c}
      BY <3>1
    <3> QED BY <2>1, <2>2, <2>4, <3>2, <3>3
  <2>5. CASE x # o
    <3>1. \A y : y \in Guessed(o)' <=> y \in Guessed(o)
      BY <1>0, <1>1, <1>3, <2>1, <2>2, <2>3, <2>5 DEF Guessed
    <3> QED BY <3>1
  <2> QED BY <2>4, <2>5
<1> QED BY <1>2, <1>3

LEMMA ApartBefore ==
  ASSUME Base, [Next]_vars, NEW o \in Ids, Guessed(o) \subseteq Guessed(o)', Apart(Guessed(o))'
  PROVE  Apart(Guessed(o))
<1> SUFFICES ASSUME NEW k \in Guessed(o), NEW c \in Guessed(o), Overlap(k, c)
             PROVE  FALSE
  BY DEF Apart
<1>1. k \in Calls /\ c \in Calls
  BY GuessesOf DEF Base
<1>2. Overlap(k, c)'
  BY <1>1, OrderStays DEF Base
<1> QED BY <1>2 DEF Apart

\* A code is counted by the request that compared it.
LEMMA CountedBy ==
  ASSUME Base, Comparing, NEW k \in Calls, Step(k), At(k, "countWrong"), NEW o \in Ids,
         call[k].otp.id = o
  PROVE  /\ k \in Guessed(o) /\ ~Over(k)
         /\ otps'[o].attempts = call[k].otp.row.attempts + 1
<1>1. /\ ~Over(k) /\ k \in Expected /\ Kind(k) = "verifyOtp"
      /\ otps'[o].attempts = call[k].otp.row.attempts + 1
  BY CountingEnds DEF Base
<1>2. call[k].compared = o
  BY DEF Comparing
<1> QED BY <1>1, <1>2 DEF Guessed

\* One more request compares it.
LEMMA GuessAdded ==
  ASSUME Base, Base', Comparing, CodesGuessed, [Next]_vars, NEW o \in Ids, NEW c \in Calls,
         call[c].state = "running", c \in Expected, Kind(c) = "verifyOtp",
         o \in ActiveOtps, ~Exceeded(otps[o]), At(c, "countWrong")',
         call'[c].otp = [id |-> o, row |-> otps[o]],
         c \notin Guessed(o), Guessed(o)' = Guessed(o) \cup {c},
         \A k \in Calls : k # c => call'[k] = call[k]
  PROVE  /\ IsFiniteSet(Guessed(o))' /\ (Guessed(o) # {} => otps[o] # NoRow)'
         /\ Apart(Guessed(o))' =>
              /\ Cardinality(Guessed(o))' <= OtpMax
              /\ (/\ \A x \in Guessed(o) : Over(x)
                  /\ otps[o] # NoRow /\ ~otps[o].used)' =>
                   Cardinality(Guessed(o))' <= otps'[o].attempts
              /\ \A x \in Guessed(o)' :
                   ~Over(x)' => Cardinality(Guessed(o))' <= call'[x].otp.row.attempts + 1
<1>0. TypeOK /\ Placing /\ Ready /\ Made /\ Ended
  BY DEF Base
<1>1. PICK W : W = Guessed(o)
  OBVIOUS
<1>2. IsFiniteSet(W) /\ Guessed(o)' = W \cup {c}
  BY <1>1 DEF CodesGuessed
<1>3. /\ IsFiniteSet(W \cup {c})
      /\ Cardinality(W) \in Nat /\ Cardinality(W \cup {c}) \in Nat
      /\ Cardinality(W \cup {c}) <= Cardinality(W) + 1
  BY <1>2, Growing
<1>4. otps[o] # NoRow /\ ~otps[o].used /\ otps[o] \in OtpRow
  BY <1>0 DEF ActiveOtps, TypeOK, TablesTypeOK
<1>5. otps'[o] # NoRow
  BY <1>0, <1>4, RowsStay
<1>6. ASSUME Apart(Guessed(o))'
      PROVE  /\ Cardinality(W \cup {c}) <= OtpMax
             /\ Cardinality(W \cup {c}) <= otps[o].attempts + 1
             /\ \A x \in W : Over(x) /\ Over(x)'
  <2>1. ASSUME NEW x \in W
        PROVE  Over(x)
    <3> SUFFICES ASSUME ~Over(x)
                 PROVE  FALSE
      OBVIOUS
    <3>1. x \in Calls /\ x \in Expected /\ Kind(x) = "verifyOtp" /\ call[x].compared = o /\ x # c
      BY <1>0, <1>1, <2>1, GuessesOf
    <3>2. At(x, "countWrong")
      BY <3>1, RowsAreNoNoRow DEF Comparing
    <3>3. Overlap(x, c)
      BY <1>0, <3>1, <3>2, OrderStays DEF Overlap, Began, At
    <3>4. Overlap(x, c)'
      BY <1>0, <3>1, <3>3, OrderStays
    <3> QED BY <1>2, <1>6, <2>1, <3>4 DEF Apart
  <2>2. ASSUME NEW x \in W
        PROVE  Over(x)'
    BY <1>0, <1>1, <2>1, <2>2, GuessesOf, StaysOver
  <2>3. Apart(Guessed(o))
    BY <1>1, <1>2, <1>6, ApartBefore
  <2>4. Cardinality(W) <= otps[o].attempts
    BY <1>1, <1>4, <2>1, <2>3 DEF CodesGuessed
  <2>5. otps[o].attempts < OtpMax /\ otps[o].attempts \in Nat
    BY <1>4, TablesAssumption DEF Exceeded, OtpRow
  <2>6. Cardinality(W \cup {c}) <= OtpMax /\ Cardinality(W \cup {c}) <= otps[o].attempts + 1
    BY <1>3, <2>4, <2>5, TablesAssumption
  <2> QED BY <2>1, <2>2, <2>6
<1>7. call'[c].otp.row = otps[o] /\ ~Over(c)'
  BY DEF At, Over
<1> QED BY <1>2, <1>3, <1>5, <1>6, <1>7

\* The others only end.
LEMMA GuessesSame ==
  ASSUME Base, Base', Comparing, CodesGuessed, [Next]_vars, NEW o \in Ids,
         Guessed(o)' = Guessed(o)
  PROVE  /\ IsFiniteSet(Guessed(o))' /\ (Guessed(o) # {} => otps[o] # NoRow)'
         /\ Apart(Guessed(o))' =>
              /\ Cardinality(Guessed(o))' <= OtpMax
              /\ (/\ \A x \in Guessed(o) : Over(x)
                  /\ otps[o] # NoRow /\ ~otps[o].used)' =>
                   Cardinality(Guessed(o))' <= otps'[o].attempts
              /\ \A x \in Guessed(o)' :
                   ~Over(x)' => Cardinality(Guessed(o))' <= call'[x].otp.row.attempts + 1
<1>0. TypeOK /\ Placing /\ Ready /\ Made /\ Ended /\ TypeOK'
  BY DEF Base
<1>1. PICK W : W = Guessed(o)
  OBVIOUS
<1>2. IsFiniteSet(W) /\ Guessed(o)' = W
  BY <1>1 DEF CodesGuessed
<1>3. W # {} => otps[o] # NoRow /\ otps'[o] # NoRow
  BY <1>0, <1>1, RowsStay DEF CodesGuessed
<1>4. ASSUME Apart(Guessed(o))'
      PROVE  /\ Cardinality(W) <= OtpMax
             /\ (\A c \in W : Over(c)) /\ otps[o] # NoRow /\ ~otps[o].used =>
                  Cardinality(W) <= otps[o].attempts
             /\ \A c \in W : ~Over(c) => Cardinality(W) <= call[c].otp.row.attempts + 1
  <2>1. Apart(Guessed(o))
    BY <1>1, <1>2, <1>4, ApartBefore
  <2> QED BY <1>1, <2>1 DEF CodesGuessed
<1>5. ASSUME NEW x \in W
      PROVE  \/ Over(x) /\ call'[x] = call[x] /\ Over(x)'
             \/ ~Over(x) /\ call'[x] = call[x] /\ ~Over(x)'
             \/ ~Over(x) /\ Step(x) /\ At(x, "countWrong") /\ call[x].otp.id = o /\ Over(x)'
  <2>1. x \in Calls /\ x \in Expected /\ Kind(x) = "verifyOtp" /\ call[x].compared = o
    BY <1>0, <1>1, <1>5, GuessesOf
  <2>2. CASE Over(x)
    BY <1>0, <2>1, <2>2, StaysOver
  <2>3. CASE ~Over(x)
    <3>1. At(x, "countWrong") /\ call[x].otp.id = o
      BY <2>1, <2>3, RowsAreNoNoRow DEF Comparing
    <3>2. CASE call'[x] = call[x]
      BY <2>3, <3>2 DEF Over
    <3>3. CASE Step(x)
      BY <1>0, <2>1, <2>3, <3>1, <3>3, CountingEnds
    <3> QED BY <1>0, <2>1, <3>1, <3>2, <3>3, StepsOf DEF Begin, At
  <2> QED BY <2>2, <2>3
<1>6. ASSUME Apart(Guessed(o))', NEW x \in W, ~Over(x)'
      PROVE  Cardinality(W) <= call'[x].otp.row.attempts + 1
  BY <1>4, <1>5, <1>6
<1>7. ASSUME Apart(Guessed(o))', \A x \in W : Over(x)', otps'[o] # NoRow, ~otps'[o].used
      PROVE  Cardinality(W) <= otps'[o].attempts
  <2>1. ASSUME NEW k \in Calls, Step(k), At(k, "countWrong"), call[k].otp.id = o
        PROVE  Cardinality(W) <= otps'[o].attempts
    BY <1>1, <1>4, <1>7, <2>1, CountedBy
  <2>2. CASE otps'[o] = otps[o]
    <3>1. CASE \A x \in W : Over(x)
      BY <1>4, <1>7, <2>2, <3>1
    <3>2. ASSUME NEW x \in W, ~Over(x)
          PROVE  Cardinality(W) <= otps'[o].attempts
      BY <1>0, <1>1, <1>5, <1>7, <2>1, <3>2, GuessesOf
    <3> QED BY <3>1, <3>2
  <2>3. CASE otps'[o] # otps[o]
    <3>1. PICK k \in Calls : Step(k)
      BY <1>0, <2>3, Steps, Beginning DEF tables
    <3>2. CASE SaveOtp(k) /\ otps[k] = NoRow
      <4>1. o = k
        BY <1>0, <2>3, <3>2 DEF SaveOtp, TypeOK, TablesTypeOK
      <4>2. W = {}
        BY <1>3, <3>2, <4>1
      <4>3. otps'[o] \in OtpRow
        BY <1>0, <1>7 DEF TypeOK, TablesTypeOK
      <4> QED BY <4>2, <4>3, FS_EmptySet DEF OtpRow
    <3>3. CASE LET read == call[k].otp IN
               read \in OtpRead /\ UpdateOtp(read.id, [read.row EXCEPT !.used = TRUE])
      <4> DEFINE read == call[k].otp
                 row == [read.row EXCEPT !.used = TRUE]
      <4>1. read.row \in OtpRow /\ otps' = [otps EXCEPT ![read.id] = row]
        BY <3>3 DEF OtpRead, UpdateOtp
      <4>2. row.used = TRUE
        BY <4>1 DEF OtpRow
      <4> HIDE DEF row
      <4>3. otps'[o] = row
        BY <1>0, <2>3, <4>1 DEF TypeOK, TablesTypeOK
      <4> QED BY <1>7, <4>2, <4>3
    <3>4. CASE /\ At(k, "countWrong")
               /\ UpdateOtp(call[k].otp.id, [call[k].otp.row EXCEPT !.attempts = @ + 1])
      <4> DEFINE read == call[k].otp
                 row == [read.row EXCEPT !.attempts = @ + 1]
      <4>1. otps' = [otps EXCEPT ![read.id] = row]
        BY <3>4 DEF UpdateOtp
      <4> HIDE DEF row
      <4>2. read.id = o
        BY <1>0, <2>3, <4>1 DEF TypeOK, TablesTypeOK
      <4> QED BY <2>1, <3>1, <3>4, <4>2
    <3> QED BY <1>0, <2>3, <3>1, <3>2, <3>3, <3>4, OtpWrites
  <2> QED BY <2>2, <2>3
<1> QED BY <1>2, <1>3, <1>4, <1>6, <1>7

LEMMA CodesGuessedKept ==
  ASSUME Base, Comparing, CodesGuessed, [Next]_vars
  PROVE  CodesGuessed'
<1>0. Base' /\ TypeOK /\ Placing
  BY BaseKept DEF Base
<1>1. ASSUME NEW o \in Ids
      PROVE  /\ IsFiniteSet(Guessed(o))' /\ (Guessed(o) # {} => otps[o] # NoRow)'
             /\ Apart(Guessed(o))' =>
                  /\ Cardinality(Guessed(o))' <= OtpMax
                  /\ (/\ \A x \in Guessed(o) : Over(x)
                      /\ otps[o] # NoRow /\ ~otps[o].used)' =>
                       Cardinality(Guessed(o))' <= otps'[o].attempts
                  /\ \A x \in Guessed(o)' :
                       ~Over(x)' => Cardinality(Guessed(o))' <= call'[x].otp.row.attempts + 1
  <2>1. CASE Guessed(o)' = Guessed(o)
    BY <1>0, <2>1, GuessesSame
  <2>2. CASE Guessed(o)' # Guessed(o)
    <3>1. PICK c \in Calls :
            /\ call[c].state = "running" /\ c \in Expected /\ Kind(c) = "verifyOtp"
            /\ o \in ActiveOtps /\ ~Exceeded(otps[o])
            /\ At(c, "countWrong")' /\ call'[c].compared = o
            /\ call'[c].otp = [id |-> o, row |-> otps[o]]
            /\ c \notin Guessed(o) /\ Guessed(o)' = Guessed(o) \cup {c}
            /\ \A k \in Calls : k # c => call'[k] = call[k]
      BY <1>0, <2>2, GuessedGrows
    <3> QED BY <1>0, <3>1, GuessAdded
  <2> QED BY <2>1, <2>2
<1> QED BY <1>1 DEF CodesGuessed

-----------------------------------------------------------------------------
(* Log-ins and the lock *)

LEMMA Clock ==
  ASSUME TypeOK, Placing, [Next]_vars
  PROVE  /\ now \in Nat /\ now' \in {now, now + 1}
         /\ now' # now => UNCHANGED <<tables, scenario, call, history>>
         /\ Expected' = Expected
BY Steps, Beginning DEF TypeOK, Does, Writes, Expected

LEMMA LoginKind ==
  ASSUME TypeOK, Placing, NEW c \in Calls, At(c, "throttle") \/ At(c, "password")
  PROVE  Kind(c) = "login" /\ c \in Expected /\ call[c].state = "running"
BY AtHas DEF Placed, Statements, At

LEMMA LockoutRow ==
  ASSUME TypeOK
  PROVE  /\ lockout.attempts \in Nat /\ lockout.until \in Nat
         /\ NoFailure.attempts = 0 /\ NoFailure.until = 0
         /\ \A at \in Nat :
              /\ Failed(lockout, at).attempts = lockout.attempts + 1
              /\ Failed(lockout, at).until =
                   IF lockout.attempts + 1 >= LoginMax THEN at + Ttl["lockout"] ELSE lockout.until
BY DEF TypeOK, TablesTypeOK, NoFailure, Failed

\* What the throttle does
LEMMA ThrottleOutcome ==
  ASSUME TypeOK, Placing, NEW c \in Calls, Throttle(c)
  PROVE  /\ Kind(c) = "login" /\ c \in Expected /\ call[c].state = "running"
         /\ \/ call'[c].state = "refused" /\ lockout' = lockout
            \/ /\ lockout.until <= call[c].at
               /\ lockout' = IF lockout.until = 0 THEN lockout ELSE NoFailure
<1>1. At(c, "throttle")
  BY DEF Throttle
<1>2. CASE lockout.until > call[c].at
  BY <1>1, <1>2, LoginKind, RefusedState, LockoutRow DEF Throttle, tables, Refuse, TypeOK, CallRow
<1>3. CASE lockout.until <= call[c].at
  BY <1>1, <1>3, LoginKind, LockoutRow DEF Throttle, SetLockout, TypeOK, CallRow
<1>4. lockout.until \in Nat /\ call[c].at \in Nat
  BY LockoutRow DEF TypeOK, CallRow
<1> QED BY <1>2, <1>3, <1>4

\* What the comparison of a password does
LEMMA PasswordOutcome ==
  ASSUME TypeOK, Placing, scenario' = scenario, NEW c \in Calls, Password(c)
  PROVE  /\ Kind(c) = "login" /\ c \in Expected /\ call[c].state = "running" /\ At(c, "password")
         /\ call[c].at \in Nat
         /\ \/ /\ Request(c).with # "wrong" /\ lockout' = NoFailure
               /\ call'[c].compared = call[c].compared /\ Past(c, "password")'
            \/ /\ lockout' = Failed(lockout, call[c].at)
               /\ call'[c].state = "refused" /\ call'[c].compared = call[c].at
<1>1. /\ At(c, "password") /\ Kind(c) = "login" /\ c \in Expected /\ call[c].state = "running"
      /\ Step(c) /\ Does(c) /\ call[c] \in CallRow /\ call[c].at \in Nat
  BY LoginKind, StepDoes DEF Password, Step, TypeOK, CallRow
<1>2. CASE RightPassword(c)
  <2>1. Request(c).with # "wrong"
    BY <1>2 DEF RightPassword, TypeOK, TablesTypeOK, UserRow
  <2>2. Continue(c, [call[c] EXCEPT !.user = user]) /\ lockout' = NoFailure
    BY <1>2 DEF Password, SetLockout
  <2> DEFINE m == [call[c] EXCEPT !.user = user]
  <2>3. /\ m \in CallRow /\ m.state = "running" /\ m.next = call[c].next
        /\ m.at = call[c].at /\ m.compared = call[c].compared
    BY <1>1 DEF CallRow, TypeOK, TablesTypeOK
  <2>4. Continue(c, m)
    BY <2>2
  <2> HIDE DEF m
  <2>5. call'[c].compared = call[c].compared /\ Went(c, 1)
    BY <1>1, <2>3, <2>4, Leaping DEF Continue
  <2>6. call'[c].state # "refused"
    BY <2>5 DEF Went, Answers, Empty
  <2>7. Past(c, "password")'
    BY <1>1, <2>6, DonePast DEF Does
  <2> QED BY <1>1, <2>1, <2>2, <2>5, <2>7
<1>3. CASE ~RightPassword(c)
  <2>1. /\ lockout' = Failed(lockout, call[c].at)
        /\ call' = [call EXCEPT ![c] = Empty("refused", call[c].at)]
    BY <1>3 DEF Password, SetLockout
  <2>2. Refused(c) /\ call'[c].compared = call[c].at
    BY <1>1, <2>1, Refusing
  <2> QED BY <1>1, <2>1, <2>2 DEF Refused, Empty
<1> QED BY <1>2, <1>3

\* The lockout is written by these two.
LEMMA LockoutBy ==
  ASSUME TypeOK, Placing, [Next]_vars, lockout' # lockout
  PROVE  \E k \in Calls : Step(k) /\ Does(k) /\ (Throttle(k) \/ Password(k))
BY Steps, Beginning DEF tables, Does, Writes

\* How the time of a request and what it has tried change
LEMMA AtStays ==
  ASSUME TypeOK, Placing, NEW c \in Calls, Does(c)
  PROVE  call'[c].state = "running" => call'[c].at = call[c].at
<1>1. \A n \in 1 .. 3 : Went(c, n) /\ call'[c].state = "running" => call'[c].at = call[c].at
  BY DEF Went, Answers, Empty
<1>2. Refused(c) => call'[c].state # "running"
  BY DEF Refused, Empty
<1> QED BY <1>1, <1>2 DEF Does, Moves

LEMMA IdleIsEmpty ==
  ASSUME Placing, NEW c \in Calls, call[c].state # "running", ~Over(c), TypeOK
  PROVE  call[c].state = "idle" /\ call[c].compared = NoRow /\ call[c].at = 0
<1>1. call[c].state = "idle"
  BY DEF TypeOK, CallRow, Over
<1> QED BY <1>1 DEF Placing, Empty

LEMMA TriedBy ==
  ASSUME TypeOK, Placing, Timed, [Next]_vars, NEW c \in Calls, c \in Expected,
         Kind(c) = "login", call'[c].compared # call[c].compared
  PROVE  /\ Step(c) /\ Does(c) /\ Password(c) /\ call[c].compared = NoRow
         /\ call'[c].compared = call[c].at
<1>1. ~Begin(c)
  BY IdleIsEmpty, Beginning DEF Over
<1>2. Step(c) /\ Does(c) /\ call[c].state = "running" /\ scenario' = scenario
  BY <1>1, StepsOf
<1>3. ~CompareOtp(c)
  BY AtHas DEF CompareOtp, Placed, Statements
<1>4. Password(c)
  BY <1>2, <1>3 DEF Does, Compares
<1>5. call[c].compared = NoRow
  BY <1>2 DEF Timed, Over
<1> QED BY <1>2, <1>4, <1>5, PasswordOutcome

LEMMA TimedKept ==
  ASSUME Base, Timed, [Next]_vars
  PROVE  Timed'
<1>0. TypeOK /\ Placing /\ Ended
  BY DEF Base
<1>c. now \in Nat /\ now' \in Nat /\ now <= now' /\ Expected' = Expected
  BY <1>0, Clock
<1>s. scenario' = scenario
  BY <1>0, Steps, Beginning DEF Does, Writes
<1>r. \A x \in Expected : x \in Calls /\ Kind(x)' = Kind(x) /\ Request(x)' = Request(x)
  BY <1>0, RequestTypes, StepsOf
<1> SUFFICES ASSUME NEW c \in Expected, Kind(c) = "login"
             PROVE  /\ call'[c].at <= now'
                    /\ call'[c].compared # NoRow =>
                         Over(c)' /\ call'[c].compared \in 0 .. now'
                    /\ call'[c].state = "running" =>
                         /\ Past(c, "password")' => Request(c).with # "wrong"
                         /\ \A k \in before'[c] \cap Expected :
                              Kind(k) = "login" /\ call'[k].compared # NoRow =>
                                call'[k].compared <= call'[c].at
  BY <1>c, <1>r DEF Timed
<1>1. c \in Calls /\ call[c] \in CallRow /\ call[c].at \in Nat
  BY <1>0, <1>r DEF TypeOK, CallRow
<1>2. call'[c].at <= now'
  <2>1. CASE call'[c] = call[c]
    BY <1>c, <1>1, <2>1 DEF Timed
  <2>2. CASE Begin(c)
    BY <1>0, <1>c, <1>1, <2>2, Beginning
  <2>3. CASE Does(c)
    <3>1. call'[c].at = call[c].at \/ call'[c].at = 0
      BY <2>3 DEF Does, Moves, Refused, Went, Answers, Empty
    <3> QED BY <1>c, <1>1, <3>1 DEF Timed
  <2> QED BY <1>0, <1>1, <2>1, <2>2, <2>3, StepsOf
<1>3. call'[c].compared # NoRow => Over(c)' /\ call'[c].compared \in 0 .. now'
  <2>1. CASE call'[c].compared = call[c].compared /\ call[c].compared # NoRow
    <3>1. Over(c) /\ call[c].compared \in 0 .. now
      BY <2>1 DEF Timed
    <3> QED BY <1>0, <1>1, <1>c, <2>1, <3>1, StaysOver
  <2>2. CASE call'[c].compared # call[c].compared
    <3>1. Password(c) /\ call'[c].compared = call[c].at /\ call[c].at # NoRow
      BY <1>0, <1>1, <2>2, TriedBy, RowsAreNoNoRow
    <3>2. call[c].compared = NoRow
      BY <1>0, <1>1, <2>2, TriedBy
    <3>3. call'[c].state = "refused"
      BY <1>0, <1>1, <1>s, <3>1, <3>2, PasswordOutcome
    <3> QED BY <1>1, <1>c, <3>1, <3>3 DEF Over, Timed
  <2> QED BY <2>1, <2>2
<1>4. ASSUME call'[c].state = "running", Past(c, "password")'
      PROVE  Request(c).with # "wrong"
  <2>1. CASE Past(c, "password")
    <3>1. call[c].state = "running"
      BY <1>0, <1>1, <1>4, <2>1, StaysOver DEF Past, Over
    <3> QED BY <2>1, <3>1 DEF Timed
  <2>2. CASE At(c, "password") /\ Step(c) /\ Found(c)
    <3>1. RightPassword(c)
      BY <1>1, <2>2, StepIs DEF Found
    <3> QED BY <1>0, <3>1 DEF RightPassword, TypeOK, TablesTypeOK, UserRow
  <2> QED BY <1>0, <1>1, <1>4, <2>1, <2>2, PastBefore DEF Firm
<1>5. ASSUME call'[c].state = "running", NEW k \in before'[c] \cap Expected,
             Kind(k) = "login", call'[k].compared # NoRow
      PROVE  call'[k].compared <= call'[c].at
  <2>0. k \in Calls
    BY <1>r
  <2>1. CASE Begin(c)
    <3>1. call'[c].at = now /\ k \in {Home} \cup {x \in Calls : Over(x)}
      BY <1>0, <1>1, <1>5, <2>1, Beginning DEF TypeOK
    <3>2. Over(k)
      BY <2>0, <3>1, TablesAssumption
    <3>3. call'[k] = call[k]
      BY <1>0, <2>0, <3>2, StaysOver
    <3> QED BY <1>5, <3>1, <3>3 DEF Timed
  <2>2. CASE ~Begin(c)
    <3>1. before'[c] = before[c] /\ call[c].state = "running" /\ call'[c].at = call[c].at
      BY <1>0, <1>1, <1>5, <2>2, StepsOf, AtStays
    <3>2. call'[k] = call[k]
      BY <1>0, <1>1, <1>5, <2>0, <3>1, StaysOver DEF Ended
    <3> QED BY <1>5, <3>1, <3>2 DEF Timed
  <2> QED BY <2>1, <2>2
<1> QED BY <1>2, <1>3, <1>4, <1>5

-----------------------------------------------------------------------------
(* The lock *)

LEMMA Beside ==
  ASSUME Base, [Next]_vars, NEW k \in Calls, NEW c \in Calls, k # c, Kind(k) = "login",
         call[k].state = "running", call[c].state = "running"
  PROVE  ~Alone(c)
<1>1. k \in Expected /\ c \in Expected
  BY DEF Base, Placing
<1>2. k \notin before[c] /\ c \notin before[k]
  BY OrderStays DEF Base
<1>3. Overlap(k, c)
  BY <1>1, <1>2 DEF Overlap, Began
<1> QED BY <1>1, <1>3 DEF Alone

LEMMA AloneBefore ==
  ASSUME Base, [Next]_vars, NEW c \in Calls, Alone(c)'
  PROVE  Alone(c)
<1> SUFFICES ASSUME NEW k \in Expected, Kind(k) = "login", Overlap(k, c)
             PROVE  FALSE
  BY DEF Alone
<1>1. k \in Calls /\ Expected' = Expected
  BY RequestTypes, Clock DEF Base
<1>2. Kind(k)' = Kind(k)
  BY <1>1, StepsOf DEF Base
<1>3. Overlap(k, c)'
  BY <1>1, OrderStays DEF Base
<1> QED BY <1>1, <1>2, <1>3 DEF Alone

\* A log-in that stays where it is, at its password, while another one writes the lock
LEMMA UnlockedKept ==
  ASSUME Base, Timed, Unlocked, [Next]_vars
  PROVE  Unlocked'
<1>0. /\ TypeOK /\ Placing /\ Expected' = Expected /\ LoginMax \in Nat \ {0}
      /\ scenario' = scenario
  BY Clock, TablesAssumption, Steps, Beginning DEF Base, Does, Writes
<1>1. ASSUME lockout'.until = 0
      PROVE  lockout'.attempts < LoginMax
  <2>1. CASE lockout' = lockout
    BY <1>1, <2>1 DEF Unlocked
  <2>2. ASSUME NEW k \in Calls, Throttle(k)
        PROVE  lockout'.attempts < LoginMax
    <3>1. lockout' = lockout \/ lockout' = NoFailure
      BY <1>0, <2>2, ThrottleOutcome
    <3> QED BY <1>0, <1>1, <2>1, <3>1, LockoutRow
  <2>3. ASSUME NEW k \in Calls, Password(k)
        PROVE  lockout'.attempts < LoginMax
    <3>1. call[k].at \in Nat /\ (lockout' = NoFailure \/ lockout' = Failed(lockout, call[k].at))
      BY <1>0, <2>3, PasswordOutcome
    <3>2. CASE lockout' = NoFailure
      BY <1>0, <3>2, LockoutRow
    <3>3. CASE lockout' = Failed(lockout, call[k].at)
      <4>1. lockout'.attempts = lockout.attempts + 1 /\ lockout.attempts \in Nat
        BY <1>0, <3>1, <3>3, LockoutRow
      <4>2. lockout.attempts + 1 >= LoginMax => lockout'.until = call[k].at + Ttl["lockout"]
        BY <1>0, <3>1, <3>3, LockoutRow
      <4>3. Ttl["lockout"] \in Nat \ {0}
        BY TablesAssumption DEF Lasting
      <4> QED BY <1>0, <1>1, <3>1, <4>1, <4>2, <4>3
    <3> QED BY <3>1, <3>2, <3>3
  <2> QED BY <1>0, <2>1, <2>2, <2>3, LockoutBy
<1>2. ASSUME NEW c \in Expected, At(c, "password")', Alone(c)'
      PROVE  lockout'.until = 0
  <2>0. c \in Calls
    BY <1>0, RequestTypes
  <2>1. CASE Begin(c)
    BY <1>0, <1>2, <2>0, <2>1, NotFirst DEF Leads
  <2>2. CASE Step(c) /\ Does(c) /\ call[c].state = "running"
    <3>1. Throttle(c)
      BY <1>0, <1>2, <2>0, <2>2, LedTo, StepIs DEF Leads
    <3>2. lockout' = IF lockout.until = 0 THEN lockout ELSE NoFailure
      BY <1>0, <1>2, <2>0, <3>1, ThrottleOutcome DEF At
    <3> QED BY <1>0, <3>2, LockoutRow
  <2>3. CASE call'[c] = call[c] /\ ~(Step(c) /\ Does(c))
    <3>1. At(c, "password") /\ Alone(c)
      BY <1>0, <1>2, <2>0, <2>3, AloneBefore, SamePast
    <3>2. ASSUME NEW k \in Calls, Step(k), Does(k), Throttle(k) \/ Password(k)
          PROVE  FALSE
      <4>1. Kind(k) = "login" /\ call[k].state = "running" /\ k # c
        BY <1>0, <2>3, <3>2, ThrottleOutcome, PasswordOutcome
      <4> QED BY <2>0, <3>1, <4>1, Beside DEF At
    <3>3. lockout' = lockout
      BY <1>0, <3>2, LockoutBy
    <3> QED BY <3>1, <3>3 DEF Unlocked
  <2> QED BY <1>0, <2>0, <2>1, <2>2, <2>3, StepsOf, StepDoes
<1> QED BY <1>0, <1>1, <1>2 DEF Unlocked

-----------------------------------------------------------------------------
(* The passwords of one time *)

LEMMA TriesOf ==
  ASSUME TypeOK, Timed, NEW t \in Nat
  PROVE  \A c \in Tried(t) : /\ c \in Calls /\ c \in Expected /\ Kind(c) = "login"
                             /\ call[c].compared = t /\ Over(c) /\ t <= now
BY RequestTypes, RowsAreNoNoRow DEF Tried, Timed, TypeOK

\* The log-ins that failed at a time are the same, or one joins them.
LEMMA TriedGrows ==
  ASSUME TypeOK, Placing, Timed, [Next]_vars, NEW t \in Nat
  PROVE  \/ Tried(t)' = Tried(t)
         \/ \E c \in Calls :
              /\ Step(c) /\ Password(c) /\ call[c].at = t /\ c \notin Tried(t)
              /\ call'[c].compared = t /\ Tried(t)' = Tried(t) \cup {c}
              /\ lockout' = Failed(lockout, t)
              /\ \A k \in Calls : k # c => call'[k] = call[k]
<1>0. Expected' = Expected /\ scenario' = scenario
  BY Clock, Steps, Beginning DEF Does, Writes
<1>1. \A x \in Expected : x \in Calls /\ Kind(x)' = Kind(x)
  BY RequestTypes, StepsOf
<1>2. CASE \A x \in Expected : Kind(x) = "login" => call'[x].compared = call[x].compared
  <2>1. \A x : x \in Tried(t)' <=> x \in Tried(t)
    BY <1>0, <1>1, <1>2 DEF Tried
  <2> QED BY <2>1
<1>3. ASSUME NEW c \in Expected, Kind(c) = "login", call'[c].compared # call[c].compared
      PROVE  \/ Tried(t)' = Tried(t)
             \/ /\ c \in Calls /\ Step(c) /\ Password(c) /\ call[c].at = t /\ c \notin Tried(t)
                /\ call'[c].compared = t /\ Tried(t)' = Tried(t) \cup {c}
                /\ lockout' = Failed(lockout, t)
                /\ \A k \in Calls : k # c => call'[k] = call[k]
  <2>1. /\ c \in Calls /\ Step(c) /\ Does(c) /\ Password(c) /\ call[c].compared = NoRow
        /\ call'[c].compared = call[c].at
    BY <1>1, <1>3, TriedBy
  <2>2. \A k \in Calls : k # c => call'[k] = call[k]
    BY <2>1 DEF Does, Moves, Others
  <2>3. NoRow # t
    BY RowsAreNoNoRow
  <2>4. CASE call[c].at = t
    <3>1. lockout' = Failed(lockout, t)
      BY <1>0, <1>3, <2>1, <2>4, PasswordOutcome
    <3>2. \A y : y \in Tried(t)' <=> y \in Tried(t) \cup {c}
      BY <1>0, <1>1, <1>3, <2>1, <2>2, <2>4 DEF Tried
    <3>3. c \notin Tried(t)
      BY <2>1, <2>3 DEF Tried
    <3>4. Tried(t)' = Tried(t) \cup {c}
      BY <3>2
    <3> QED BY <2>1, <2>2, <2>4, <3>1, <3>3, <3>4
  <2>5. CASE call[c].at # t
    <3>1. \A y : y \in Tried(t)' <=> y \in Tried(t)
      BY <1>0, <1>1, <1>3, <2>1, <2>2, <2>3, <2>5 DEF Tried
    <3> QED BY <3>1
  <2> QED BY <2>4, <2>5
<1> QED BY <1>2, <1>3

LEMMA UnexcusedBefore ==
  ASSUME Base, Timed, [Next]_vars, NEW t \in Nat, Unexcused(t)'
  PROVE  Unexcused(t)
<1>0. TypeOK /\ Placing /\ Expected' = Expected
  BY Clock DEF Base
<1>1. \A x \in Expected : x \in Calls /\ Kind(x)' = Kind(x) /\ Request(x)' = Request(x)
  BY <1>0, RequestTypes, StepsOf
<1>2. ASSUME NEW c \in Tried(t)
      PROVE  Alone(c)
  <2>1. c \in Tried(t)' /\ c \in Calls
    BY <1>0, <1>2, TriedGrows, TriesOf
  <2> QED BY <2>1, AloneBefore DEF Unexcused
<1>3. ASSUME NEW k \in Expected, Kind(k) = "login", Over(k)
      PROVE  Request(k).with = "wrong"
  <2>1. Over(k)'
    BY <1>0, <1>1, <1>3, StaysOver
  <2> QED BY <1>0, <1>1, <1>3, <2>1 DEF Unexcused
<1> QED BY <1>2, <1>3 DEF Unexcused

\* A right password that has been noted excuses, when its log-in ends.
LEMMA NoneBeyondBefore ==
  ASSUME Base, Timed, [Next]_vars, NEW t \in Nat, Unexcused(t)', NoneBeyond'
  PROVE  NoneBeyond
<1> SUFFICES ASSUME NEW k \in Expected, Kind(k) = "login", call[k].state = "running",
                    Past(k, "password")
             PROVE  FALSE
  BY DEF NoneBeyond
<1>0. TypeOK /\ Placing /\ Expected' = Expected /\ k \in Calls
  BY Clock, RequestTypes DEF Base
<1>1. Kind(k)' = Kind(k) /\ Request(k)' = Request(k)
  BY <1>0, StepsOf
<1>2. Request(k).with # "wrong"
  BY DEF Timed
<1>3. Past(k, "password")' \/ call'[k].state = "refused"
  BY <1>0, PastAfter
<1>4. ~Over(k)'
  BY <1>0, <1>1, <1>2 DEF Unexcused
<1>5. Past(k, "password")' /\ call'[k].state = "running"
  BY <1>3, <1>4 DEF Past, Over
<1> QED BY <1>0, <1>1, <1>5 DEF NoneBeyond

LEMMA LockingSame ==
  ASSUME Base, Timed, [Next]_vars, NEW t \in Nat, Locking(t), lockout' = lockout
  PROVE  Locking(t)'
<1>0. TypeOK /\ Placing
  BY DEF Base
<1>1. lockout.attempts \in Nat /\ Failed(lockout, t).attempts = lockout.attempts + 1
  BY <1>0, LockoutRow
<1>2. Tried(t)' = Tried(t)
  BY <1>0, <1>1, TriedGrows
<1> QED BY <1>2 DEF Locking

\* A lock that is over was not of this time.
LEMMA LockingReset ==
  ASSUME Base, Timed, [Next]_vars, NEW t \in Nat, Locking(t),
         NEW k \in Calls, Throttle(k), lockout' # lockout, call[k].at <= t
  PROVE  Locking(t)'
<1>0. TypeOK /\ Placing
  BY DEF Base
<1>1. /\ lockout.until <= call[k].at /\ lockout' = NoFailure /\ lockout.until # 0
  BY <1>0, ThrottleOutcome
<1>2. lockout.until \in Nat /\ call[k].at \in Nat /\ lockout.attempts \in Nat
  BY <1>0, LockoutRow DEF TypeOK, CallRow
<1>3. Tried(t) = {}
  BY <1>1, <1>2 DEF Locking
<1>4. /\ Failed(lockout, t).attempts = lockout.attempts + 1
      /\ NoFailure.attempts = 0 /\ NoFailure.until = 0
  BY <1>0, LockoutRow
<1>5. Tried(t)' = {}
  BY <1>0, <1>1, <1>2, <1>3, <1>4, TriedGrows
<1> QED BY <1>1, <1>4, <1>5, FS_EmptySet DEF Locking

\* A wrong password
LEMMA LockingCounts ==
  ASSUME Base, Timed, Unlocked, [Next]_vars, NEW t \in Nat, Locking(t), IsFiniteSet(Tried(t)),
         Unexcused(t)', Unexcused(t),
         NEW k \in Calls, Password(k), lockout' = Failed(lockout, call[k].at),
         call'[k].state = "refused", call'[k].compared = call[k].at, call[k].at <= t
  PROVE  Locking(t)'
<1>0. TypeOK /\ Placing /\ Ended
  BY DEF Base
<1>1. /\ Kind(k) = "login" /\ k \in Expected /\ call[k].state = "running" /\ At(k, "password")
      /\ call[k].at \in Nat
  BY <1>0, LoginKind DEF Password, TypeOK, CallRow
<1>2. /\ lockout.attempts \in Nat /\ lockout.until \in Nat
      /\ lockout'.attempts = lockout.attempts + 1
      /\ lockout'.until = IF lockout.attempts + 1 >= LoginMax
                          THEN call[k].at + Ttl["lockout"] ELSE lockout.until
      /\ Ttl["lockout"] \in Nat \ {0}
  BY <1>0, <1>1, LockoutRow, TablesAssumption DEF Lasting
<1>3. PICK W : W = Tried(t)
  OBVIOUS
<1>4. /\ IsFiniteSet(W \cup {k})
      /\ Cardinality(W) \in Nat /\ Cardinality(W \cup {k}) \in Nat
      /\ Cardinality(W \cup {k}) <= Cardinality(W) + 1
  BY <1>3, Growing
<1>5. CASE call[k].at = t
  <2>1. k \notin W
    BY <1>0, <1>1, <1>3, TriesOf DEF Over
  <2>2. Tried(t)' # Tried(t)
    <3>1. k \in Tried(t)'
      BY <1>0, <1>1, <1>5, Clock, StepsOf DEF Tried
    <3> QED BY <1>3, <2>1, <3>1
  <2>3. Tried(t)' = W \cup {k}
    BY <1>0, <1>1, <1>3, <2>2, TriedGrows
  <2>4. Alone(k)
    BY <2>3, AloneBefore DEF Unexcused
  <2>5. lockout.until = 0
    BY <1>1, <2>4 DEF Unlocked
  <2>6. Cardinality(W) <= lockout.attempts
    BY <1>3 DEF Locking
  <2>7. Cardinality(W \cup {k}) <= lockout'.attempts
    BY <1>2, <1>4, <2>6
  <2>8. lockout'.until = 0 \/ lockout'.until > t
    BY <1>1, <1>2, <1>5, <2>5
  <2> QED BY <2>3, <2>7, <2>8 DEF Locking
<1>6. CASE call[k].at # t
  <2>1. Tried(t)' = Tried(t)
    <3> SUFFICES ASSUME NEW c \in Calls, call[c].at = t,
                        \A x \in Calls : x # c => call'[x] = call[x]
                 PROVE  FALSE
      BY <1>0, TriedGrows
    <3> QED BY <1>1, <1>6
  <2>2. W = {}
    <3> SUFFICES ASSUME NEW c \in W
                 PROVE  FALSE
      OBVIOUS
    <3>1. c \in Calls /\ c \in Expected /\ Kind(c) = "login" /\ call[c].compared = t /\ Over(c)
      BY <1>0, <1>3, TriesOf
    <3>2. ~Overlap(k, c)
      BY <1>1, <1>3 DEF Unexcused, Alone
    <3>3. k \notin before[c]
      BY <1>0, <1>1, <3>1, OrderStays
    <3>4. k # c /\ Began(k) /\ Began(c)
      BY <1>1, <3>1 DEF Over, Began
    <3>5. c \in before[k]
      BY <1>1, <3>1, <3>2, <3>3, <3>4 DEF Overlap
    <3>6. call[c].compared <= call[k].at
      BY <1>1, <3>1, <3>5, RowsAreNoNoRow DEF Timed
    <3> QED BY <1>1, <1>6, <3>1, <3>6
  <2> QED BY <1>2, <1>3, <2>1, <2>2, FS_EmptySet DEF Locking
<1> QED BY <1>5, <1>6

\* The lock goes on counting while its time is the present one,
LEMMA LockingNow ==
  ASSUME Base, Timed, Unlocked, [Next]_vars, NEW t \in Nat, Locking(t), IsFiniteSet(Tried(t)),
         Unexcused(t)', Unexcused(t), now = t, NoneBeyond'
  PROVE  Locking(t)'
<1>0. TypeOK /\ Placing /\ Expected' = Expected /\ scenario' = scenario
  BY Clock, Steps, Beginning DEF Base, Does, Writes
<1>1. CASE lockout' = lockout
  BY <1>1, LockingSame
<1>2. ASSUME lockout' # lockout, NEW k \in Calls, Throttle(k)
      PROVE  Locking(t)'
  <2>1. call[k].at <= t
    BY <1>0, <1>2, ThrottleOutcome DEF Timed
  <2> QED BY <1>2, <2>1, LockingReset
<1>3. ASSUME NEW k \in Calls, Password(k)
      PROVE  Locking(t)'
  <2>0. /\ Kind(k) = "login" /\ k \in Expected /\ call[k].at <= t
        /\ Kind(k)' = Kind(k) /\ Request(k)' = Request(k)
    BY <1>0, <1>3, PasswordOutcome, StepsOf DEF Timed
  <2>1. CASE Request(k).with # "wrong" /\ Past(k, "password")'
    <3>1. ~Over(k)'
      BY <1>0, <2>0, <2>1 DEF Unexcused
    <3>2. call'[k].state = "running"
      BY <2>1, <3>1 DEF Past, Over
    <3> QED BY <1>0, <2>0, <2>1, <3>2 DEF NoneBeyond
  <2>2. CASE /\ lockout' = Failed(lockout, call[k].at)
             /\ call'[k].state = "refused" /\ call'[k].compared = call[k].at
    BY <1>3, <2>0, <2>2, LockingCounts
  <2> QED BY <1>0, <1>3, <2>1, <2>2, PasswordOutcome
<1> QED BY <1>0, <1>1, <1>2, <1>3, LockoutBy

\* and while a log-in of its time, with no other beside it, has still to try.
LEMMA LockingAsked ==
  ASSUME Base, Timed, Unlocked, [Next]_vars, NEW t \in Nat, Locking(t),
         NEW c \in Calls, Asking(c, t), Asking(c, t)'
  PROVE  Locking(t)'
<1>0. TypeOK /\ Placing /\ scenario' = scenario
  BY Steps, Beginning DEF Base, Does, Writes
<1>1. CASE lockout' = lockout
  BY <1>1, LockingSame
<1>2. ASSUME lockout' # lockout, NEW k \in Calls, Throttle(k) \/ Password(k)
      PROVE  Locking(t)'
  <2>1. Kind(k) = "login" /\ call[k].state = "running"
    BY <1>0, <1>2, ThrottleOutcome, PasswordOutcome
  <2>2. k = c
    BY <2>1, Beside DEF Asking
  <2>3. ~Password(c)
    BY <1>0, PasswordOutcome DEF Asking
  <2>4. call[c].at = t /\ Throttle(c)
    BY <1>2, <2>2, <2>3 DEF Asking
  <2> QED BY <1>2, <2>4, LockingReset
<1> QED BY <1>0, <1>1, <1>2, LockoutBy

LEMMA PasswordsTriedKept ==
  ASSUME Base, Timed, Unlocked, PasswordsTried, [Next]_vars
  PROVE  PasswordsTried'
<1>0. /\ TypeOK /\ Placing /\ Ended /\ Expected' = Expected /\ scenario' = scenario
      /\ now \in Nat /\ now' \in {now, now + 1} /\ LoginMax \in Nat \ {0}
  BY Clock, TablesAssumption, Steps, Beginning DEF Base, Does, Writes
<1> SUFFICES ASSUME NEW t \in Nat
             PROVE  /\ IsFiniteSet(Tried(t))'
                    /\ Unexcused(t)' =>
                         /\ Cardinality(Tried(t))' <= LoginMax
                         /\ now' = t /\ NoneBeyond' => Locking(t)'
                         /\ \A c \in Expected : Asking(c, t)' => Locking(t)'
  BY <1>0 DEF PasswordsTried
<1>1. PICK W : W = Tried(t)
  OBVIOUS
<1>2. IsFiniteSet(W)
  BY <1>1 DEF PasswordsTried
<1>3. IsFiniteSet(Tried(t))'
  <2>1. \A c : IsFiniteSet(W \cup {c})
    BY <1>2, Growing
  <2>2. Tried(t)' = W \/ \E c : Tried(t)' = W \cup {c}
    BY <1>0, <1>1, TriedGrows
  <2> QED BY <1>2, <2>1, <2>2
<1>4. ASSUME Unexcused(t)'
      PROVE  /\ Unexcused(t) /\ Cardinality(W) <= LoginMax
             /\ now = t /\ NoneBeyond => Locking(t)
             /\ \A c \in Expected : Asking(c, t) => Locking(t)
  <2>1. Unexcused(t)
    BY <1>4, UnexcusedBefore
  <2> QED BY <1>1, <2>1 DEF PasswordsTried
<1>5. ASSUME Unexcused(t)'
      PROVE  Cardinality(Tried(t))' <= LoginMax
  <2>1. CASE Tried(t)' = W
    BY <1>4, <1>5, <2>1
  <2>2. ASSUME NEW c \in Calls, Password(c), call[c].at = t, Tried(t)' = W \cup {c}
        PROVE  Cardinality(W \cup {c}) <= LoginMax
    <3>1. Kind(c) = "login" /\ c \in Expected /\ call[c].state = "running" /\ At(c, "password")
      BY <1>0, <2>2, LoginKind DEF Password
    <3>2. Alone(c)
      BY <1>5, <2>2, AloneBefore DEF Unexcused
    <3>3. ~Past(c, "password")
      BY <1>0, <3>1, NotPastYet
    <3>4. Locking(t)
      BY <1>4, <1>5, <2>2, <3>1, <3>2, <3>3 DEF Asking
    <3>5. lockout.attempts < LoginMax /\ lockout.attempts \in Nat
      BY <1>0, <3>1, <3>2, LockoutRow DEF Unlocked
    <3>6. /\ Cardinality(W) \in Nat /\ Cardinality(W \cup {c}) \in Nat
          /\ Cardinality(W \cup {c}) <= Cardinality(W) + 1
      BY <1>2, Growing
    <3>7. Cardinality(W) <= lockout.attempts
      BY <1>1, <3>4 DEF Locking
    <3> QED BY <1>0, <3>5, <3>6, <3>7
  <2>3. CASE Tried(t)' # W
    <3>1. PICK c \in Calls : Password(c) /\ call[c].at = t /\ Tried(t)' = W \cup {c}
      BY <1>0, <1>1, <2>3, TriedGrows
    <3> QED BY <2>2, <3>1
  <2> QED BY <2>1, <2>3
<1>6. ASSUME Unexcused(t)', now' = t, NoneBeyond'
      PROVE  Locking(t)'
  <2>1. CASE now' = now
    <3>1. Locking(t)
      BY <1>4, <1>6, <2>1, NoneBeyondBefore
    <3> QED BY <1>1, <1>2, <1>4, <1>6, <2>1, <3>1, LockingNow
  <2>2. CASE now' # now
    <3>1. lockout' = lockout
      BY <1>0, <2>2, Clock DEF tables
    <3>2. W = {}
      BY <1>0, <1>1, <1>6, <2>2, TriesOf
    <3>3. Locking(t)
      BY <1>0, <1>1, <3>2, FS_EmptySet, LockoutRow DEF Locking
    <3> QED BY <3>1, <3>3, LockingSame
  <2> QED BY <2>1, <2>2
<1>7. ASSUME Unexcused(t)', NEW c \in Expected, Asking(c, t)'
      PROVE  Locking(t)'
  <2>0. /\ c \in Calls /\ Kind(c) = "login" /\ Alone(c) /\ Kind(c)' = Kind(c)
        /\ call'[c].state = "running" /\ call'[c].at = t /\ ~Past(c, "password")' /\ Alone(c)'
    BY <1>0, <1>7, RequestTypes, StepsOf, AloneBefore DEF Asking
  <2>1. CASE Begin(c)
    <3>1. now = t /\ lockout' = lockout /\ call[c].state = "idle" /\ Others(c)
      BY <1>0, <2>0, <2>1, Beginning DEF tables
    <3>2. NoneBeyond
      <4> SUFFICES ASSUME NEW k \in Expected, Kind(k) = "login", call[k].state = "running"
                   PROVE  FALSE
        BY DEF NoneBeyond
      <4>1. k \in Calls /\ k # c /\ Kind(k)' = Kind(k)
        BY <1>0, <3>1, RequestTypes, StepsOf
      <4>2. before'[c] = {Home} \cup {x \in Calls : Over(x)} /\ before'[k] = before[k]
        BY <1>0, <2>0, <2>1, <4>1, Beginning DEF TypeOK
      <4>3. k \notin before'[c]
        BY <4>1, <4>2, TablesAssumption DEF Over
      <4>4. c \notin before'[k]
        BY <1>0, <2>0, <3>1, <4>1, <4>2 DEF Ended, Over
      <4>5. call'[k] = call[k]
        BY <3>1, <4>1 DEF Others
      <4>6. Overlap(k, c)'
        BY <1>0, <1>7, <2>0, <4>1, <4>3, <4>4, <4>5 DEF Overlap, Began
      <4> QED BY <1>0, <2>0, <4>1, <4>6 DEF Alone
    <3> QED BY <1>4, <1>7, <3>1, <3>2, LockingSame
  <2>2. CASE call'[c] = call[c]
    <3>1. Asking(c, t)
      BY <1>0, <2>0, <2>2, SamePast DEF Asking
    <3> QED BY <1>4, <1>7, <2>0, <3>1, LockingAsked
  <2>3. CASE Step(c) /\ Does(c) /\ call[c].state = "running"
    <3>1. call[c].at = t
      BY <1>0, <2>0, <2>3, AtStays
    <3>2. ~Past(c, "password")
      BY <1>0, <2>0, <2>3, StaysPast DEF Does
    <3>3. Asking(c, t)
      BY <2>0, <2>3, <3>1, <3>2 DEF Asking
    <3> QED BY <1>4, <1>7, <2>0, <3>3, LockingAsked
  <2> QED BY <1>0, <2>0, <2>1, <2>2, <2>3, StepsOf
<1> QED BY <1>3, <1>5, <1>6, <1>7

-----------------------------------------------------------------------------
(* Guesses are bounded *)

LEMMA GuessesAtFirst ==
  Init => Comparing /\ CodesGuessed /\ Timed /\ Unlocked /\ PasswordsTried
<1> SUFFICES ASSUME Init
             PROVE  Comparing /\ CodesGuessed /\ Timed /\ Unlocked /\ PasswordsTried
  OBVIOUS
<1>0. TypeOK /\ Expected \subseteq Calls
  BY BaseAtFirst, RequestTypes DEF Base
<1>1. \A c \in Calls : call[c].state = "idle" /\ call[c].compared = NoRow /\ call[c].at = 0
  BY DEF Init, Empty
<1>2. \A c \in Calls : \A s : ~At(c, s) /\ ~Past(c, s)
  BY <1>1 DEF At, Past
<1>3. \A o \in Ids : Guessed(o) = {}
  BY <1>0, <1>1, RowsAreNoNoRow DEF Guessed
<1>4. \A t \in Nat : Tried(t) = {}
  BY <1>0, <1>1, RowsAreNoNoRow DEF Tried
<1>5. now = 0 /\ lockout.attempts = 0 /\ lockout.until = 0
  BY <1>0, LockoutRow DEF Init
<1>6. LoginMax \in Nat \ {0} /\ OtpMax \in Nat \ {0}
  BY TablesAssumption
<1>7. Comparing
  BY <1>1, <1>2 DEF Comparing
<1>8. CodesGuessed
  <2>1. \A o \in Ids : otps[o] # NoRow => otps[o].attempts \in Nat
    BY <1>0 DEF TypeOK, TablesTypeOK, OtpRow
  <2> QED BY <1>3, <1>6, <2>1, FS_EmptySet DEF CodesGuessed
<1>9. Timed
  BY <1>0, <1>1, <1>5 DEF Timed
<1>10. Unlocked
  BY <1>0, <1>2, <1>5, <1>6 DEF Unlocked
<1>11. \A t \in Nat : Locking(t)
  BY <1>4, <1>5, FS_EmptySet DEF Locking
<1>12. PasswordsTried
  BY <1>4, <1>6, <1>11, FS_EmptySet DEF PasswordsTried
<1> QED BY <1>7, <1>8, <1>9, <1>10, <1>12

\* No code is guessed more often than its limit and no password more often than
\* its own at one time, but by requests beside each other or with a right password
\* among them: GuessesBounded of AuthSessions (auth/service.ts:198-218, 231-276).
THEOREM GuessesAreBounded == Spec => []GuessesBounded
<1> DEFINE Counted == Comparing /\ CodesGuessed /\ Timed /\ Unlocked /\ PasswordsTried
<1>1. Init => Base /\ Counted
  BY BaseAtFirst, GuessesAtFirst
<1>2. Base /\ Counted /\ [Next]_vars => Base' /\ Counted'
  BY BaseKept, ComparingKept, CodesGuessedKept, TimedKept, UnlockedKept, PasswordsTriedKept
<1>3. Base /\ Counted => GuessesBounded
  <2> SUFFICES ASSUME Base, Counted
               PROVE  GuessesBounded
    OBVIOUS
  <2>1. ASSUME NEW o \in Ids, Cardinality(Guessed(o)) > OtpMax
        PROVE  \E k, c \in Guessed(o) : Overlap(k, c)
    <3>1. Cardinality(Guessed(o)) \in Nat /\ OtpMax \in Nat
      BY FS_CardinalityType, TablesAssumption DEF CodesGuessed
    <3>2. ~Apart(Guessed(o))
      BY <2>1, <3>1 DEF CodesGuessed
    <3> QED BY <3>2 DEF Apart
  <2>2. ASSUME NEW t \in 0 .. MaxTime, Cardinality(Tried(t)) > LoginMax
        PROVE  \/ \E k \in Expected, c \in Tried(t) : Kind(k) = "login" /\ Overlap(k, c)
               \/ \E k \in Expected :
                    Kind(k) = "login" /\ Request(k).with # "wrong" /\ Over(k)
    <3>1. t \in Nat /\ LoginMax \in Nat
      BY TablesAssumption
    <3>2. Cardinality(Tried(t)) \in Nat
      BY <3>1, FS_CardinalityType DEF PasswordsTried
    <3>3. ~Unexcused(t)
      BY <2>2, <3>1, <3>2 DEF PasswordsTried
    <3> QED BY <3>3 DEF Unexcused, Alone
  <2> QED BY <2>1, <2>2 DEF GuessesBounded, Guessed, Tried
<1> HIDE DEF Counted
<1> QED BY <1>1, <1>2, <1>3, PTL DEF Spec
=============================================================================
