------------------------------ MODULE RoomRows ------------------------------
(***************************************************************************)
(* The rows that one organization's Rooms are made of, as the access port  *)
(* (packages/remote-protocol/src/access.ts) declares them.  Both of its    *)
(* implementations keep these rows: RoomAccess is the one in memory,       *)
(* RoomStore the one in PostgreSQL.                                        *)
(*                                                                         *)
(* A row that does not exist has the status "none".  Nothing ever deletes  *)
(* a row or changes the status of a seat, so a seat is just a member of    *)
(* the set seats.                                                          *)
(***************************************************************************)
EXTENDS Integers, FiniteSets

CONSTANTS
  Users, Devices, Rooms, Invitations, Files, Imports,
  Founder,        \* the user who owns the organization
  OwnerOf,        \* the user who registered each device
  InvitedTo,      \* the room an invitation is for
  Invitee,        \* the user whose address an invitation names
  StoredIn,       \* the room a file is uploaded to
  SourceOf,       \* the file an import proposal is about
  Overwrites,     \* the proposals whose manifest replaces an existing path
  Rejects,        \* the proposals whose manifest holds a rejected entry
  SeatLimit,      \* seats of the organization's plan
  MaxBinding      \* bound on the number of times a room is handed over

ASSUME RowsAssumption ==
  /\ Founder \in Users
  /\ OwnerOf \in [Devices -> Users]
  /\ InvitedTo \in [Invitations -> Rooms]
  /\ Invitee \in [Invitations -> Users]
  /\ StoredIn \in [Files -> Rooms]
  /\ SourceOf \in [Imports -> Files]
  /\ Overwrites \subseteq Imports
  /\ Rejects \subseteq Imports
  /\ SeatLimit \in Nat
  /\ MaxBinding \in Nat \ {0}

VARIABLES
  organization,   \* its status
  seats,          \* the users with a seat in it
  devices,        \* registered devices and when each was last heard of
  rooms,          \* who hosts each room
  members,        \* the explicit memberships of each room
  invitations,    \* invitations to a room
  files,          \* files uploaded to a room
  imports         \* proposals to bring a file into the host's project

rows == <<organization, seats, devices, rooms, members, invitations, files, imports>>

Roles == {"VIEWER", "AGENT_USER", "EDITOR", "ADMIN"}
MemberStatuses == {"ACTIVE", "SUSPENDED", "REMOVED"}
OrganizationStatuses == {"ACTIVE", "SUSPENDED", "CLOSED"}

\* A redeemed invitation stays open: a second redemption finds its user a member.
InvitationStates == {"none", "open", "expired"}

\* A file that is not accepted has no row; a deleted one keeps it.
FileStates == {"none", "SAFE", "DELETED"}

NoMember == [role |-> "VIEWER", status |-> "none"]
NoRoom == [host |-> CHOOSE d \in Devices : TRUE, binding |-> 0]
NoImport == [status |-> "none", approvedBy |-> {}]

RowsTypeOK ==
  /\ organization \in OrganizationStatuses
  /\ seats \subseteq Users
  /\ devices \in [Devices -> [status : {"none", "active", "revoked"},
                              seen : {"never", "recently", "long ago"}]]
  /\ rooms \in [Rooms -> [host : Devices, binding : 0 .. MaxBinding]]
  /\ members \in [Rooms -> [Users -> [role : Roles \cup {"OWNER"},
                                      status : MemberStatuses \cup {"none"}]]]
  /\ invitations \in [Invitations -> InvitationStates]
  /\ files \in [Files -> FileStates]
  /\ imports \in [Imports ->
       [status : {"none", "PREVIEW", "APPROVED", "REJECTED", "IMPORTED"},
        approvedBy : SUBSET Users]]

\* The state createOrganization leaves: the owner's plan allows Rooms, the owner
\* has the first seat.
RowsInit ==
  /\ organization = "ACTIVE"
  /\ seats = {Founder}
  /\ devices = [d \in Devices |-> [status |-> "none", seen |-> "never"]]
  /\ rooms = [r \in Rooms |-> NoRoom]
  /\ members = [r \in Rooms |-> [u \in Users |-> NoMember]]
  /\ invitations = [i \in Invitations |-> "none"]
  /\ files = [f \in Files |-> "none"]
  /\ imports = [m \in Imports |-> NoImport]

-----------------------------------------------------------------------------

ViewPermissions == {"room.view", "files.read"}
WorkPermissions == ViewPermissions \cup {"agent.prompt", "files.write"}
AdminPermissions ==
  WorkPermissions \cup {"destructive.approve", "members.invite", "members.manage",
                        "room.settings.manage"}

\* What a role may do in a room (EDITOR adds terminal and git writes, which no
\* operation here asks for).
Permissions(role) ==
  CASE role = "VIEWER" -> ViewPermissions
    [] role \in {"AGENT_USER", "EDITOR"} -> WorkPermissions
    [] role \in {"ADMIN", "OWNER"} -> AdminPermissions

\* assertPermission, requirePermission with a room.
May(u, r, permission) ==
  /\ organization = "ACTIVE"
  /\ members[r][u].status = "ACTIVE"
  /\ permission \in Permissions(members[r][u].role)

\* The same without a room: the seat of the user decides.
MayInOrganization(u, permission) ==
  /\ organization = "ACTIVE"
  /\ u \in seats
  /\ permission \in Permissions(IF u = Founder THEN "OWNER" ELSE "AGENT_USER")

RoomExists(r) == rooms[r].binding > 0
ImportExists(m) == imports[m].status # "none"
IsMember(r, u) == members[r][u].status # "none"
ActiveOwners(r) ==
  {u \in Users : members[r][u].role = "OWNER" /\ members[r][u].status = "ACTIVE"}

\* roomHostAvailability(device) = 'ONLINE': heard of within the last two minutes.
Online(d) == devices[d].status = "active" /\ devices[d].seen = "recently"

RoomOf(m) == StoredIn[SourceOf[m]]
=============================================================================
