--------------------------- MODULE MCAuthSessions ---------------------------
(***************************************************************************)
(* One account and up to four requests a behaviour.  Each scenario brings  *)
(* together the requests that read and write the same rows.                *)
(***************************************************************************)
EXTENDS AuthSessions, TLC

CONSTANTS c1, c2, c3, c4

mcTtl ==
  [access |-> 1, refresh |-> 2, link |-> 1, reset |-> 1, state |-> 1, code |-> 1,
   otp |-> 2, cooldown |-> 1, window |-> 1, lockout |-> 1]

Member == [status |-> "ACTIVE", verified |-> TRUE, password |-> "old", plan |-> "FREE"]
Newcomer == [Member EXCEPT !.verified = FALSE]

Ask(kind, of, with) == [kind |-> kind, of |-> of, with |-> with]
Say(kind, of) == Ask(kind, of, "nothing")

Of(row, linked, until, a, b, c, d) ==
  [user |-> row, identity |-> linked, until |-> until,
   calls |-> (c1 :> a) @@ (c2 :> b) @@ (c3 :> c) @@ (c4 :> d)]

SignIn(password) == Ask("login", Home, password)
Guess(code) == Say("verifyOtp", code)

\* Ending sessions beside requests that make them
Sweeps ==
  {Of(Member, FALSE, 0, Say("logoutAll", Home), Say("refresh", Home), Say("refresh", c2),
      SignIn("old")),
   Of(Member, FALSE, 0, Say("requestReset", Home), Say("reset", c1), Say("refresh", Home),
      SignIn("old")),
   Of(Member, FALSE, 0, Ask("revokeDevice", Home, Home), Say("refresh", Home),
      Say("me", Home), Say("refresh", c2)),
   Of(Member, FALSE, 0, SignIn("old"), Ask("revokeDevice", c1, Home),
      Say("logoutAll", Home), Say("logout", Home)),
   Of(Member, FALSE, 0, Say("disable", Home), SignIn("old"), Say("refresh", Home),
      Ask("plan", Home, "PRO")),
   Of(Member, FALSE, 2, Say("logout", Home), Say("refresh", Home), Say("me", Home),
      Say("me", c2))}

\* Registering, and the codes and links that verify the address
Registrations ==
  {Of(NoRow, FALSE, 0, Say("register", Home), Say("register", Home), Say("verifyEmail", c1),
      Say("verifyEmail", c1)),
   Of(NoRow, FALSE, 1, Say("register", Home), Guess(c1), Say("verifyEmail", c1),
      SignIn("old")),
   Of(Newcomer, FALSE, 0, Guess("wrong"), Guess("wrong"), Guess("wrong"), Guess(Home)),
   Of(Newcomer, FALSE, 2, Say("resend", Home), Say("resend", Home), Guess(Home), Guess("wrong"))}

\* Passwords tried and passwords reset
Passwords ==
  {Of(Member, FALSE, 1, SignIn("wrong"), SignIn("wrong"), SignIn("wrong"), SignIn("old")),
   Of(Newcomer, FALSE, 1, SignIn("wrong"), SignIn("old"), SignIn("wrong"), SignIn("wrong")),
   Of(Member, FALSE, 1, Say("requestReset", Home), Say("reset", c1), Say("reset", c1),
      SignIn("new"))}

\* Signing in with Google
WithGoogle ==
  {Of(NoRow, FALSE, 1, Say("start", Home), Say("callback", c1), Say("callback", c1),
      Ask("exchange", c2, "verifier")),
   Of(NoRow, FALSE, 0, Say("start", Home), Say("callback", c1),
      Ask("exchange", c2, "verifier"), Ask("exchange", c2, "verifier")),
   Of(NoRow, FALSE, 0, Say("start", Home), Say("callback", c1),
      Ask("exchange", c2, "verifier"), Say("register", Home)),
   Of(Member, TRUE, 0, Say("start", Home), Say("callback", c1),
      Ask("exchange", c2, "verifier"), Say("disable", Home)),
   Of(Member, FALSE, 0, Say("start", Home), Say("callback", c1),
      Ask("exchange", c2, "another"), Ask("exchange", c2, "verifier"))}

mcScenarios == Sweeps \cup Registrations \cup Passwords \cup WithGoogle
=============================================================================
