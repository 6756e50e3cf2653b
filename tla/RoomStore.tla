----------------------------- MODULE RoomStore ------------------------------
(***************************************************************************)
(* Rooms in production: PostgresRemoteAccessService behind the routes of   *)
(* apps/api/src/remote-route.ts, the relay grants those routes hand out    *)
(* and revoke, and a desktop that brings an approved file into its         *)
(* workspace (importRoomFile of desktop-runtime.ts).                       *)
(*                                                                         *)
(* A call first reads (the permission of its caller, the rows it is about) *)
(* and then writes, in a later statement.  Other calls may run in between: *)
(* the write knows only what its WHERE clause repeats.  The reads of one   *)
(* call are one step here.                                                 *)
(*                                                                         *)
(* undisturbed is a history variable: nothing was written since the call   *)
(* has read.                                                               *)
(***************************************************************************)
EXTENDS RoomRows

CONSTANTS
  Calls,          \* calls in progress at a time
  Desktop,        \* the call of the desktop that imports
  ThisDevice,     \* the device this desktop runs on
  Plans,          \* sets of requests: what users do in one behaviour
  NoCall

\* The requests that do not first read and then write.
Atomic == {"heartbeat", "entitlement", "import"}

\* What the routes let through (the Zod schemas of remote-route.ts), but for the
\* completion of an import: its desktop asks for that.
Requests ==
  [op : {"createRoom", "handoff", "grant"}, user : Users, room : Rooms, device : Devices]
  \cup [op : {"invite"}, user : Users, invitation : Invitations]
  \cup [op : {"setRole"}, user : Users, room : Rooms, target : Users, role : Roles]
  \cup [op : {"setStatus"}, user : Users, room : Rooms, target : Users,
        status : MemberStatuses]
  \cup [op : {"leave"}, user : Users, room : Rooms]
  \cup [op : {"upload", "delete"}, user : Users, file : Files]
  \cup [op : {"preview", "approve", "reject"}, user : Users, import : Imports]
  \cup [op : {"revokeDevice"}, user : Users, device : Devices]
  \cup [op : Atomic]

ASSUME StoreAssumption ==
  /\ Desktop \in Calls
  /\ ThisDevice \in Devices
  /\ Plans \subseteq SUBSET Requests
  /\ NoCall \notin Requests

VARIABLES
  plan,           \* the requests that users make, in any order and any number of times
  call,           \* the request each call is serving, once it has read
  undisturbed,
  grants,         \* relay grants that are neither revoked nor expired
  connected,      \* those a relay connection is open with
  desk,           \* the import that the desktop performs
  written         \* the imports whose files a device has in its workspace

relay == <<grants, connected>>
host == <<desk, written>>
vars == <<plan, rows, call, undisturbed, relay, host>>

User == OwnerOf[ThisDevice]
Idle == [step |-> "idle", import |-> CHOOSE m \in Imports : TRUE, device |-> ThisDevice]
Grant(q) == [user |-> q.user, room |-> q.room, device |-> q.device]

Init ==
  /\ plan \in Plans
  /\ RowsInit
  /\ call = [c \in Calls |-> NoCall]
  /\ undisturbed = [c \in Calls |-> TRUE]
  /\ grants = {} /\ connected = {}
  /\ desk = Idle
  /\ written = {}

-----------------------------------------------------------------------------
(* What a call reads *)

MayCreateRoom(q) ==
  /\ MayInOrganization(q.user, "room.settings.manage")
  /\ devices[q.device].status = "active" /\ OwnerOf[q.device] = q.user

\* The seats are counted before the organization's row is locked.
MayInvite(q) ==
  /\ May(q.user, InvitedTo[q.invitation], "members.invite")
  /\ Cardinality(seats) < SeatLimit

\* requireMember, for the member that the call is about.
TargetFound(q) == IsMember(q.room, q.target)

\* Mutant: the owner is treated like any other member.
MayManageAnyone(q) ==
  /\ May(q.user, q.room, "members.manage")
  /\ TargetFound(q)

\* setMemberRole and updateMemberStatus; neither looks at the target's status.
MayManage(q) ==
  /\ May(q.user, q.room, "members.manage")
  /\ TargetFound(q)
  /\ members[q.room][q.target].role # "OWNER"

\* Mutant: a room moves to any device of the organization.
MayHandToAnyone(q) ==
  /\ May(q.user, q.room, "room.settings.manage")
  /\ devices[q.device].status = "active"
  /\ rooms[q.room].binding < MaxBinding

MayHandOff(q) ==
  /\ May(q.user, q.room, "room.settings.manage")
  /\ devices[q.device].status = "active"
  /\ members[q.room][OwnerOf[q.device]].status = "ACTIVE"
  /\ rooms[q.room].binding < MaxBinding

MayUpload(q) == May(q.user, StoredIn[q.file], "files.write")
MayDelete(q) == May(q.user, StoredIn[q.file], "files.write")

MayPreview(q) ==
  /\ May(q.user, RoomOf(q.import), "files.write")
  /\ files[SourceOf[q.import]] = "SAFE"

MayApprove(q) ==
  /\ May(q.user, RoomOf(q.import), "files.write")
  /\ imports[q.import].status = "PREVIEW"
  /\ q.import \notin Rejects
  /\ q.import \in Overwrites => May(q.user, RoomOf(q.import), "destructive.approve")

MayReject(q) ==
  /\ May(q.user, RoomOf(q.import), "files.write")
  /\ ImportExists(q.import) /\ imports[q.import].status # "IMPORTED"

MayComplete(q) ==
  /\ imports[q.import].status = "APPROVED"
  /\ rooms[RoomOf(q.import)].host = q.device
  /\ OwnerOf[q.device] = q.user
  /\ Online(q.device)

AuthorizeRoomAction(u, r, permission) == RoomExists(r) /\ May(u, r, permission)

\* /v1/relay/grants of a client for the host of a room.
MayConnect(q) ==
  /\ AuthorizeRoomAction(q.user, q.room, "room.view")
  /\ rooms[q.room].host = q.device
  /\ devices[q.device].status = "active"

Checked(q) ==
  CASE q.op = "createRoom" -> MayCreateRoom(q)
    [] q.op = "invite" -> MayInvite(q)
    [] q.op \in {"setRole", "setStatus"} -> MayManage(q)
    [] q.op = "leave" -> RoomExists(q.room)
    [] q.op = "handoff" -> MayHandOff(q)
    [] q.op = "upload" -> MayUpload(q)
    [] q.op = "delete" -> MayDelete(q)
    [] q.op = "preview" -> MayPreview(q)
    [] q.op = "approve" -> MayApprove(q)
    [] q.op = "reject" -> MayReject(q)
    [] q.op = "complete" -> MayComplete(q)
    [] q.op = "grant" -> MayConnect(q)
    [] q.op = "revokeDevice" -> OwnerOf[q.device] = q.user

Read(c, q) ==
  /\ call[c] = NoCall
  /\ Checked(q)
  /\ call' = [call EXCEPT ![c] = q]
  /\ undisturbed' = [undisturbed EXCEPT ![c] = TRUE]

\* The user acts, the clock or a webhook, in this behaviour.
Asked(op) == \E q \in plan : q.op = op

Begin(c, q) ==
  /\ c # Desktop
  /\ q.op \notin Atomic
  /\ Read(c, q)
  /\ UNCHANGED <<plan, rows, relay, host>>

-----------------------------------------------------------------------------
(* What it writes *)

\* Every write disturbs the calls that have read before it.
Disturbs(c) == undisturbed' = [d \in Calls |-> d = c /\ undisturbed[c]]

\* The desktop learns how its call went.
Answered(c, next) ==
  desk' = IF c = Desktop THEN [desk EXCEPT !.step = next] ELSE desk

\* The statement of a call that is serving a request of the kind op; more is
\* what is left to do for it.
Writes(c, op, more) ==
  /\ call[c] # NoCall
  /\ call[c].op = op
  /\ call' = [call EXCEPT ![c] = more]
  /\ Disturbs(c)
  /\ UNCHANGED <<plan, written>>

\* Two statements and no transaction: first the room, then its owner.
InsertRoom(c) ==
  LET q == call[c] IN
  /\ Writes(c, "createRoom", [q EXCEPT !.op = "addOwner"])
  /\ ~RoomExists(q.room)
  /\ rooms' = [rooms EXCEPT ![q.room] = [host |-> q.device, binding |-> 1]]
  /\ UNCHANGED <<organization, seats, devices, members, invitations, files, imports, relay, desk>>

Put(r, u, role, status) ==
  members' = [members EXCEPT ![r][u] = [role |-> role, status |-> status]]

InsertOwner(c) ==
  LET q == call[c] IN
  /\ Writes(c, "addOwner", NoCall)
  /\ Put(q.room, q.user, "OWNER", "ACTIVE")
  /\ UNCHANGED <<organization, seats, devices, rooms, invitations, files, imports, relay, desk>>

\* UNIQUE (idempotency_key).
InsertInvitation(c) ==
  LET q == call[c] IN
  /\ Writes(c, "invite", NoCall)
  /\ invitations[q.invitation] = "none"
  /\ invitations' = [invitations EXCEPT ![q.invitation] = "open"]
  /\ UNCHANGED <<organization, seats, devices, rooms, members, files, imports, relay, desk>>

SetRole(c) ==
  LET q == call[c] IN
  /\ Writes(c, "setRole", NoCall)
  /\ Put(q.room, q.target, q.role, members[q.room][q.target].status)
  /\ UNCHANGED <<organization, seats, devices, rooms, invitations, files, imports, relay, desk>>

\* What the route still has to do after a member was suspended or removed, or
\* has left.
RevokeMember(r, u) == [op |-> "revokeMember", room |-> r, target |-> u]

SetStatus(c) ==
  LET q == call[c] IN
  /\ Writes(c, "setStatus", IF q.status = "ACTIVE" THEN NoCall
                                                   ELSE RevokeMember(q.room, q.target))
  /\ Put(q.room, q.target, members[q.room][q.target].role, q.status)
  /\ UNCHANGED <<organization, seats, devices, rooms, invitations, files, imports, relay, desk>>

\* Read in the transaction of leaveRoom.
MayLeave(r, u) ==
  /\ IsMember(r, u)
  /\ members[r][u].role = "OWNER" => Cardinality(ActiveOwners(r)) > 1

Leave(c) ==
  LET q == call[c] IN
  /\ Writes(c, "leave", RevokeMember(q.room, q.user))
  /\ MayLeave(q.room, q.user)
  /\ Put(q.room, q.user, members[q.room][q.user].role, "REMOVED")
  /\ UNCHANGED <<organization, seats, devices, rooms, invitations, files, imports, relay, desk>>

Handoff(c) ==
  LET q == call[c] IN
  /\ Writes(c, "handoff", NoCall)
  /\ rooms[q.room].binding < MaxBinding
  /\ rooms' = [rooms EXCEPT ![q.room] = [host |-> q.device, binding |-> @.binding + 1]]
  /\ UNCHANGED <<organization, seats, devices, members, invitations, files, imports, relay, desk>>

\* UNIQUE (room_id, checksum_sha256).
InsertFile(c) ==
  LET q == call[c] IN
  /\ Writes(c, "upload", NoCall)
  /\ files[q.file] = "none"
  /\ files' = [files EXCEPT ![q.file] = "SAFE"]
  /\ UNCHANGED <<organization, seats, devices, rooms, members, invitations, imports, relay, desk>>

DeleteFile(c) ==
  LET q == call[c] IN
  /\ Writes(c, "delete", NoCall)
  /\ files[q.file] = "SAFE"
  /\ files' = [files EXCEPT ![q.file] = "DELETED"]
  /\ UNCHANGED <<organization, seats, devices, rooms, members, invitations, imports, relay, desk>>

PutImport(m, row) ==
  /\ imports' = [imports EXCEPT ![m] = row]
  /\ UNCHANGED <<organization, seats, devices, rooms, members, invitations, files, relay>>

InsertImport(c) ==
  LET q == call[c] IN
  /\ Writes(c, "preview", NoCall)
  /\ imports[q.import].status = "none"
  /\ PutImport(q.import, [status |-> "PREVIEW", approvedBy |-> {}])
  /\ UNCHANGED desk

\* Mutant: the status is not read again.
StillNew(m) == TRUE

\* AND status = 'PREVIEW'
StillPreview(m) == imports[m].status = "PREVIEW"

Approve(c) ==
  LET q == call[c] IN
  /\ Writes(c, "approve", NoCall)
  /\ StillPreview(q.import)
  /\ PutImport(q.import, [status |-> "APPROVED", approvedBy |-> {q.user}])
  /\ Answered(c, "approved")

\* No status in the WHERE clause.
Reject(c) ==
  LET q == call[c] IN
  /\ Writes(c, "reject", NoCall)
  /\ PutImport(q.import, [imports[q.import] EXCEPT !.status = "REJECTED"])
  /\ UNCHANGED desk

Complete(c) ==
  LET q == call[c] IN
  /\ Writes(c, "complete", NoCall)
  /\ imports[q.import].status = "APPROVED"
  /\ PutImport(q.import, [imports[q.import] EXCEPT !.status = "IMPORTED"])
  /\ Answered(c, "idle")

\* What its route still has to do after a device was revoked.
RevokeHost(d) == [op |-> "revokeHost", device |-> d]

RevokeDevice(c) ==
  LET q == call[c] IN
  /\ Writes(c, "revokeDevice", RevokeHost(q.device))
  /\ devices[q.device].status # "none"
  /\ devices' = [devices EXCEPT ![q.device].status = "revoked"]
  /\ UNCHANGED <<organization, seats, rooms, members, invitations, files, imports, relay, desk>>

\* The route hands the grant out: nothing is written.
IssueGrant(c) ==
  LET q == call[c] IN
  /\ call[c] # NoCall
  /\ q.op = "grant"
  /\ grants' = grants \cup {Grant(q)}
  /\ call' = [call EXCEPT ![c] = NoCall]
  /\ UNCHANGED <<plan, rows, undisturbed, connected, host>>

\* The broker closes the connections it finds and revokes their grants; a grant
\* that nobody has connected with stays good.
RevokeConnections(c) ==
  LET q == call[c]
      gone == {g \in connected :
                 \/ q.op = "revokeMember" /\ g.room = q.room /\ g.user = q.target
                 \/ q.op = "revokeHost" /\ g.device = q.device}
  IN
  /\ call[c] # NoCall
  /\ q.op \in {"revokeMember", "revokeHost"}
  /\ grants' = grants \ gone
  /\ connected' = connected \ gone
  /\ call' = [call EXCEPT ![c] = NoCall]
  /\ UNCHANGED <<plan, rows, undisturbed, host>>

\* A constraint, a WHERE clause that matches no row, a lost connection, or an
\* audit record that cannot be inserted: the route answers with the error and
\* does nothing more.
Fail(c) ==
  /\ call[c] # NoCall
  /\ call' = [call EXCEPT ![c] = NoCall]
  /\ Answered(c, "idle")
  /\ UNCHANGED <<plan, rows, undisturbed, relay, written>>

-----------------------------------------------------------------------------
(* Calls of one statement or of one transaction that locks what it reads *)

DisturbsAll ==
  /\ undisturbed' = [c \in Calls |-> FALSE]
  /\ UNCHANGED <<plan, call, relay, host>>

PutDevice(d, row) ==
  /\ devices' = [devices EXCEPT ![d] = row]
  /\ UNCHANGED <<organization, seats, rooms, members, invitations, files, imports>>

\* registerDevice of a new key; with a known key it only renames the device.
RegisterDevice(d) ==
  /\ devices[d].status = "none"
  /\ PutDevice(d, [devices[d] EXCEPT !.status = "active"])
  /\ DisturbsAll

Heartbeat(d) ==
  /\ Asked("heartbeat")
  /\ devices[d].status = "active"
  /\ PutDevice(d, [devices[d] EXCEPT !.seen = "recently"])
  /\ DisturbsAll

FallSilent(d) ==
  /\ devices[d].seen = "recently"
  /\ PutDevice(d, [devices[d] EXCEPT !.seen = "long ago"])
  /\ DisturbsAll

SetEntitlement(status) ==
  /\ Asked("entitlement")
  /\ organization # status
  /\ organization' = status
  /\ UNCHANGED <<seats, devices, rooms, members, invitations, files, imports>>
  /\ DisturbsAll

\* redeemInvitation: the status of the organization is not looked at.
Redeem(i) ==
  LET r == InvitedTo[i]
      u == Invitee[i]
  IN
  /\ invitations[i] = "open"
  /\ ~IsMember(r, u)
  /\ seats' = seats \cup {u}
  /\ Put(r, u, "AGENT_USER", "ACTIVE")
  /\ UNCHANGED <<organization, devices, rooms, invitations, files, imports>>
  /\ DisturbsAll

Expire(i) ==
  /\ invitations[i] = "open"
  /\ invitations' = [invitations EXCEPT ![i] = "expired"]
  /\ UNCHANGED <<organization, seats, devices, rooms, members, files, imports>>
  /\ DisturbsAll

Connect(g) ==
  /\ g \in grants
  /\ connected' = connected \cup {g}
  /\ UNCHANGED <<plan, rows, call, undisturbed, grants, host>>

ExpireGrant(g) ==
  /\ g \in grants
  /\ grants' = grants \ {g}
  /\ connected' = connected \ {g}
  /\ UNCHANGED <<plan, rows, call, undisturbed, host>>

-----------------------------------------------------------------------------
(* importRoomFile on the desktop *)

\* listRooms: those the user is an active member of
Listed(r) == RoomExists(r) /\ members[r][User].status = "ACTIVE"

\* getRoom
HostOnline(r) == Online(rooms[r].host)

\* assertLocalRoomHost: the room's host is online and one of the user's devices.
LocalHost(r) ==
  /\ Listed(r)
  /\ HostOnline(r)
  /\ OwnerOf[rooms[r].host] = User

\* listRoomFileImports
MayListImports(r) == May(User, r, "files.read")

\* getRoomFile: a deleted file has no content any more
MayFetch(f) == May(User, StoredIn[f], "files.read") /\ files[f] = "SAFE"

\* What the desktop asks the API for: .../approve and .../complete
Approval(m) == [op |-> "approve", user |-> User, import |-> m]
Completion(m, d) == [op |-> "complete", user |-> User, import |-> m, device |-> d]

\* What the listed status calls for.
NextStep(m) ==
  CASE imports[m].status = "PREVIEW" -> "approve"
    [] imports[m].status = "APPROVED" -> "approved"
    [] OTHER -> "idle"

StartImport(m) ==
  /\ Asked("import")
  /\ desk.step = "idle"
  /\ LocalHost(RoomOf(m))
  /\ MayListImports(RoomOf(m))
  /\ desk' = [step |-> NextStep(m), import |-> m, device |-> rooms[RoomOf(m)].host]
  /\ UNCHANGED <<plan, rows, call, undisturbed, relay, written>>

RequestApproval ==
  /\ desk.step = "approve"
  /\ Read(Desktop, Approval(desk.import))
  /\ desk' = [desk EXCEPT !.step = "approving"]
  /\ UNCHANGED <<plan, rows, relay, written>>

\* The file is fetched and checked against the manifest, then the batch is
\* written.
WriteFiles ==
  LET m == desk.import IN
  /\ desk.step = "approved"
  /\ MayFetch(SourceOf[m])
  /\ written' = written \cup {<<m, ThisDevice>>}
  /\ desk' = [desk EXCEPT !.step = "written"]
  /\ UNCHANGED <<plan, rows, call, undisturbed, relay>>

\* Mutant: completion is reported before the files are written.
ReportEarly(step) == step \in {"approved", "written"}

Reportable(step) == step = "written"

\* For the host device that assertLocalRoomHost returned at the start.
ReportComplete ==
  /\ Reportable(desk.step)
  /\ Read(Desktop, Completion(desk.import, desk.device))
  /\ desk' = [desk EXCEPT !.step = "completing"]
  /\ UNCHANGED <<plan, rows, relay, written>>

\* A request that fails ends the import; what was written stays.
GiveUp ==
  /\ desk.step \in {"approve", "approved", "written"}
  /\ desk' = [desk EXCEPT !.step = "idle"]
  /\ UNCHANGED <<plan, rows, call, undisturbed, relay, written>>

-----------------------------------------------------------------------------

Next ==
  \/ \E c \in Calls, q \in plan : Begin(c, q)
  \/ \E c \in Calls :
       \/ InsertRoom(c) \/ InsertOwner(c) \/ InsertInvitation(c) \/ SetRole(c)
       \/ SetStatus(c) \/ Leave(c) \/ Handoff(c) \/ InsertFile(c) \/ DeleteFile(c)
       \/ InsertImport(c) \/ Approve(c) \/ Reject(c) \/ Complete(c)
       \/ RevokeDevice(c) \/ IssueGrant(c) \/ RevokeConnections(c) \/ Fail(c)
  \/ \E d \in Devices : RegisterDevice(d) \/ Heartbeat(d) \/ FallSilent(d)
  \/ \E s \in OrganizationStatuses : SetEntitlement(s)
  \/ \E i \in Invitations : Redeem(i) \/ Expire(i)
  \/ \E g \in grants : Connect(g) \/ ExpireGrant(g)
  \/ \E m \in Imports : StartImport(m)
  \/ RequestApproval \/ WriteFiles \/ ReportComplete \/ GiveUp

Spec == Init /\ [][Next]_vars

-----------------------------------------------------------------------------
(* Properties *)

\* A room that has members has an active owner, whatever members do to each
\* other and to themselves at the same time (setMemberRole, updateMemberStatus,
\* leaveRoom).
OwnerRemains ==
  \A r \in Rooms : (\E u \in Users : IsMember(r, u)) => ActiveOwners(r) # {}

\* A rejection is final: an approval or a completion that read the proposal
\* before it was rejected does not undo it.
RejectedStays ==
  [][\A m \in Imports : imports[m].status = "REJECTED" => imports'[m].status = "REJECTED"]_vars

\* Nothing of a proposal reaches the workspace before a member has approved it,
\* and none is recorded as imported before its files are there.
ImportedInOrder ==
  \A m \in Imports :
    /\ <<m, ThisDevice>> \in written => imports[m].approvedBy # {}
    /\ imports[m].status = "IMPORTED" => <<m, ThisDevice>> \in written

\* A room is there for its members only once it has one.
VisibleRooms ==
  [r \in Rooms |-> IF \E u \in Users : IsMember(r, u) THEN rooms[r] ELSE NoRoom]

Access == INSTANCE RoomAccess WITH rooms <- VisibleRooms

\* The method of the implementation in memory that a call stands for.
InMemory(q) ==
  CASE q.op = "createRoom" -> UNCHANGED Access!vars
    [] q.op = "addOwner" -> Access!CreateRoom(q.user, q.room, q.device)
    [] q.op = "invite" -> Access!InviteMember(q.user, q.invitation)
    [] q.op = "setRole" -> Access!SetMemberRole(q.user, q.room, q.target, q.role)
    [] q.op = "setStatus" -> Access!UpdateMemberStatus(q.user, q.room, q.target, q.status)
    [] q.op = "leave" -> Access!LeaveRoom(q.user, q.room)
    [] q.op = "handoff" -> Access!HandoffRoom(q.user, q.room, q.device)
    [] q.op = "upload" -> Access!UploadRoomFile(q.user, q.file)
    [] q.op = "delete" -> Access!DeleteRoomFile(q.user, q.file)
    [] q.op = "preview" -> Access!CreateRoomFileImport(q.user, q.import)
    [] q.op = "approve" -> Access!ApproveRoomFileImport(q.user, q.import)
    [] q.op = "reject" -> Access!RejectRoomFileImport(q.user, q.import)
    [] q.op = "complete" -> Access!CompleteRoomFileImport(q.import, q.device)
    [] q.op = "revokeDevice" -> Access!RevokeDevice(q.device)

InMemoryAtOnce ==
  \/ \E d \in Devices :
       Access!RegisterDevice(d) \/ Access!Heartbeat(d) \/ Access!FallSilent(d)
  \/ \E i \in Invitations : Access!RedeemInvitation(i) \/ Access!Expire(i)
  \/ Access!SetOrganizationEntitlement(organization')

\* Where PostgreSQL does what the implementation in memory refuses: it gives a
\* removed member a role, and redeems in an organization that is not active.
Lenient(q) == q.op = "setRole" /\ members[q.room][q.target].status = "REMOVED"
RedeemsInactive == organization # "ACTIVE" /\ members' # members

\* A call that no other write overtakes does exactly what the implementation in
\* memory would have done at once; so does every call of one statement.
AgreesWithMemory ==
  [][/\ \A c \in Calls :
          (rows' # rows /\ call'[c] # call[c] /\ undisturbed[c] /\ ~Lenient(call[c]))
            => InMemory(call[c])
     /\ (rows' # rows /\ call' = call /\ ~RedeemsInactive) => InMemoryAtOnce]_vars
=============================================================================
