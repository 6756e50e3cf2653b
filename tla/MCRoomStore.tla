---------------------------- MODULE MCRoomStore -----------------------------
(* One room of two users: alice owns the organization and runs the desktop. *)
EXTENDS RoomStore, TLC

CONSTANTS alice, bob, r1, i1, f1, m1, d1, d2, desktop, c1, c2

mcOwnerOf == [d \in {d1, d2} |-> IF d = d1 THEN alice ELSE bob]
mcInvitedTo == [i \in {i1} |-> r1]
mcInvitee == [i \in {i1} |-> bob]
mcStoredIn == [f \in {f1} |-> r1]
mcSourceOf == [m \in {m1} |-> f1]

CreateRoom == [op |-> "createRoom", user |-> alice, room |-> r1, device |-> d1]
Invite == [op |-> "invite", user |-> alice, invitation |-> i1]
MakeAdmin == [op |-> "setRole", user |-> alice, room |-> r1, target |-> bob, role |-> "ADMIN"]
MakeViewer == [op |-> "setRole", user |-> bob, room |-> r1, target |-> alice, role |-> "VIEWER"]
Status(u, v, s) == [op |-> "setStatus", user |-> u, room |-> r1, target |-> v, status |-> s]
Leave_(u) == [op |-> "leave", user |-> u, room |-> r1]
Handoff_(d) == [op |-> "handoff", user |-> alice, room |-> r1, device |-> d]
OfImport(op, u) == [op |-> op, user |-> u, import |-> m1]
OfFile(op) == [op |-> op, user |-> alice, file |-> f1]
Only(op) == [op |-> op]

\* Members manage each other and leave.
Membership ==
  {CreateRoom, Invite, MakeAdmin, MakeViewer, Status(alice, bob, "SUSPENDED"),
   Status(alice, bob, "ACTIVE"), Status(bob, alice, "REMOVED"), Leave_(alice), Leave_(bob)}

\* The room changes its host while members hold relay grants.
Hosting ==
  {CreateRoom, Invite, Handoff_(d2), Status(alice, bob, "REMOVED"), Only("entitlement"),
   [op |-> "grant", user |-> bob, room |-> r1, device |-> d1],
   [op |-> "grant", user |-> bob, room |-> r1, device |-> d2],
   [op |-> "revokeDevice", user |-> bob, device |-> d2]}

\* A file is approved, rejected, deleted and imported at the same time.
Importing ==
  {CreateRoom, OfFile("upload"), OfFile("delete"), OfImport("preview", alice),
   OfImport("approve", alice), OfImport("reject", alice), Only("heartbeat"), Only("import")}

\* A member who may write files, but not approve what replaces one.
Approving ==
  {CreateRoom, Invite, OfFile("upload"), OfImport("preview", bob), OfImport("approve", bob),
   OfImport("approve", alice), OfImport("reject", bob), Leave_(bob)}

mcPlans == {Membership, Hosting, Importing, Approving}
mcSymmetry == Permutations({c1, c2})
=============================================================================
