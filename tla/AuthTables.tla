----------------------------- MODULE AuthTables -----------------------------
(***************************************************************************)
(* The rows behind one account: PostgresAuthStore (packages/db/src/        *)
(* postgres-auth.ts), PostgresOAuthTransactionStore (postgres-oauth.ts)    *)
(* and PostgresRateLimitStore (postgres-rate-limit.ts).  Each statement is *)
(* one step, and two statements of a request are two steps.                *)
(*                                                                         *)
(* A row that a request makes is named by that request.                    *)
(***************************************************************************)
EXTENDS Naturals, FiniteSets

CONSTANTS
  Calls,          \* requests to the service
  Home,           \* names the rows that are there when the behaviour begins
  Ttl,            \* what lasts how long
  MaxTime,        \* bound of the clock
  LoginMax,       \* loginMaxFailures
  OtpMax,         \* otpMaxAttempts
  NoRow

Lasting == {"access", "refresh", "link", "reset", "state", "code", "otp", "cooldown",
            "window", "lockout"}

ASSUME TablesAssumption ==
  /\ Home \notin Calls
  /\ Ttl \in [Lasting -> Nat \ {0}]
  /\ MaxTime \in Nat
  /\ LoginMax \in Nat \ {0}
  /\ OtpMax \in Nat \ {0}

Ids == Calls \cup {Home}

UserRow == [status : {"ACTIVE", "DISABLED"}, verified : BOOLEAN,
            password : {"none", "old", "new"}, plan : {"FREE", "PRO"}]
SessionRow == [device : Ids, at : Nat, revoked : BOOLEAN]
OtpRow == [at : Nat, attempts : Nat, used : BOOLEAN]
TokenRow == [at : Nat, used : BOOLEAN]
WindowRow == [at : Nat, count : Nat]

ASSUME NoRowAssumption ==
  NoRow \notin UserRow \cup SessionRow \cup OtpRow \cup TokenRow \cup WindowRow
              \cup Ids \cup Nat

VARIABLES
  now,
  user,           \* the row of users
  identity,       \* the user has a row in identities
  devices,        \* device_sessions: "none", "active", "revoked"
  sessions,       \* auth_sessions
  otps,           \* email_verification_otps
  tokens,         \* email_verification_tokens, password_reset_tokens,
                  \* oauth_transactions and oauth_desktop_codes
  window,         \* the row of rate_limit_windows for this e-mail address
  lockout,        \* loginFailures of the process, for this e-mail address
  granted,        \* the wallet has the entry signup:{user}:FREE
  mailed          \* the requests whose code, link or welcome was mailed

tables ==
  <<user, identity, devices, sessions, otps, tokens, window, lockout, granted, mailed>>

Expired(row, what) == now >= row.at + Ttl[what]

SessionExists(s) == sessions[s] # NoRow
LiveSessions == {s \in Ids : SessionExists(s) /\ ~sessions[s].revoked}

\* users.email is unique: a second INSERT fails.
SaveUser(row) ==
  /\ user' = row
  /\ UNCHANGED <<identity, devices, sessions, otps, tokens, window, lockout, granted, mailed>>

\* UPDATE users SET every column = what the request has read and changed
UpdateUser(row) ==
  /\ user' = row
  /\ UNCHANGED <<identity, devices, sessions, otps, tokens, window, lockout, granted, mailed>>

SaveIdentity ==
  /\ identity' = TRUE
  /\ UNCHANGED <<user, devices, sessions, otps, tokens, window, lockout, granted, mailed>>

SaveDevice(d) ==
  /\ devices' = [devices EXCEPT ![d] = "active"]
  /\ UNCHANGED <<user, identity, sessions, otps, tokens, window, lockout, granted, mailed>>

\* UPDATE device_sessions SET last_seen_at, revoked_at = what the request holds
UpdateDevice(d, state) ==
  /\ devices' = [devices EXCEPT ![d] = state]
  /\ UNCHANGED <<user, identity, sessions, otps, tokens, window, lockout, granted, mailed>>

SaveSession(s, row) ==
  /\ sessions' = [sessions EXCEPT ![s] = row]
  /\ UNCHANGED <<user, identity, devices, otps, tokens, window, lockout, granted, mailed>>

\* Only revoked_at is written, and always with a time.
UpdateSession(s) ==
  /\ sessions' = [sessions EXCEPT ![s].revoked = TRUE]
  /\ UNCHANGED <<user, identity, devices, otps, tokens, window, lockout, granted, mailed>>

SaveOtp(o) ==
  /\ otps' = [otps EXCEPT ![o] = [at |-> now, attempts |-> 0, used |-> FALSE]]
  /\ UNCHANGED <<user, identity, devices, sessions, tokens, window, lockout, granted, mailed>>

UpdateOtp(o, row) ==
  /\ otps' = [otps EXCEPT ![o] = row]
  /\ UNCHANGED <<user, identity, devices, sessions, tokens, window, lockout, granted, mailed>>

\* WHERE used_at IS NULL ORDER BY sent_at DESC LIMIT 1: codes sent at one time
\* are in any order
ActiveOtps ==
  LET open == {o \in Ids : otps[o] # NoRow /\ ~otps[o].used}
  IN {o \in open : \A p \in open : otps[p].at <= otps[o].at}

SaveToken(t) ==
  /\ tokens' = [tokens EXCEPT ![t] = [at |-> now, used |-> FALSE]]
  /\ UNCHANGED <<user, identity, devices, sessions, otps, window, lockout, granted, mailed>>

UseToken(t) ==
  /\ tokens' = [tokens EXCEPT ![t].used = TRUE]
  /\ UNCHANGED <<user, identity, devices, sessions, otps, window, lockout, granted, mailed>>

\* The condition of the claims and of the reads before a use
Usable(t, what) == tokens[t] # NoRow /\ ~tokens[t].used /\ ~Expired(tokens[t], what)

\* UPDATE ... WHERE consumed_at IS NULL AND expires_at > now RETURNING *
ClaimableBlindly(t, what) == tokens[t] # NoRow /\ ~Expired(tokens[t], what)
Claimable(t, what) == Usable(t, what)

-----------------------------------------------------------------------------
(* The limiter *)

WindowOver(at) == window = NoRow \/ at >= window.at + Ttl["window"]

\* The branch of a window that is over, in the transaction of consume
OpenWindow(at) ==
  /\ window' = [at |-> at, count |-> 1]
  /\ UNCHANGED <<user, identity, devices, sessions, otps, tokens, lockout, granted, mailed>>

\* A row that is there is locked from the read to the COMMIT.
CountInWindow ==
  /\ window' = [window EXCEPT !.count = @ + 1]
  /\ UNCHANGED <<user, identity, devices, sessions, otps, tokens, lockout, granted, mailed>>

ResetWindow ==
  /\ window' = NoRow
  /\ UNCHANGED <<user, identity, devices, sessions, otps, tokens, lockout, granted, mailed>>

SetLockout(row) ==
  /\ lockout' = row
  /\ UNCHANGED <<user, identity, devices, sessions, otps, tokens, window, granted, mailed>>

\* recordLoginFailure
Failed(row, at) ==
  LET attempts == row.attempts + 1
  IN [attempts |-> attempts,
      until |-> IF attempts >= LoginMax THEN at + Ttl["lockout"] ELSE row.until]

NoFailure == [attempts |-> 0, until |-> 0]

\* The sign-up credits: grantCredits with the key signup:{user}:FREE
GrantSignup ==
  /\ granted' = TRUE
  /\ UNCHANGED <<user, identity, devices, sessions, otps, tokens, window, lockout, mailed>>

\* EmailService.send keeps a failure of the provider for itself.
Mail(c) ==
  /\ mailed' \in {mailed, mailed \cup {c}}
  /\ UNCHANGED <<user, identity, devices, sessions, otps, tokens, window, lockout, granted>>
=============================================================================
