--------------------------- MODULE RoomStoreProofs ---------------------------
(***************************************************************************)
(* Proofs about RoomStore, for every number of users, rooms, files and     *)
(* calls: a room keeps an active owner, an import goes through in order, a *)
(* rejection is final, and a call that no other write overtakes does what  *)
(* the implementation in memory would have done.                           *)
(***************************************************************************)
EXTENDS RoomStore, FiniteSetTheorems, TLAPS

\* What a call that has read can be serving: a request, or the rest of one.
ToRead == {q \in Requests : q.op \notin Atomic}
Rest == [op : {"addOwner"}, user : Users, room : Rooms, device : Devices]
        \cup [op : {"revokeMember"}, room : Rooms, target : Users]
        \cup [op : {"revokeHost"}, device : Devices]
ToComplete == [op : {"complete"}, user : Users, import : Imports, device : Devices]
Served == ToRead \cup Rest \cup ToComplete

CallsTypeOK ==
  /\ plan \in Plans
  /\ call \in [Calls -> Served \cup {NoCall}]
  /\ undisturbed \in [Calls -> BOOLEAN]

\* The desktop has an import in hand whenever it is at one, or waits for the API.
DeskTypeOK ==
  /\ desk \in [step : {"idle", "approve", "approving", "approved", "written", "completing"},
               import : Imports \cup {Idle.import}, device : Devices]
  /\ desk.step # "idle" \/ call[Desktop] # NoCall => desk.import \in Imports

TypeOK == RowsTypeOK /\ CallsTypeOK /\ DeskTypeOK

HasMembers(r) == \E u \in Users : IsMember(r, u)

\* What is left of a room comes from members it has: invitations, proposals.
MembersFirst ==
  /\ \A r \in Rooms : HasMembers(r) => RoomExists(r)
  /\ \A i \in Invitations : invitations[i] # "none" => HasMembers(InvitedTo[i])
  /\ \A m \in Imports : ImportExists(m) => HasMembers(RoomOf(m))

\* What a call has read that no other call can make untrue.
StillTrue(q) ==
  /\ q.op = "addOwner" => RoomExists(q.room) /\ ~HasMembers(q.room)
  /\ q.op \in {"setRole", "setStatus"} =>
       IsMember(q.room, q.target) /\ members[q.room][q.target].role # "OWNER"
  /\ q.op = "invite" => HasMembers(InvitedTo[q.invitation])
  /\ q.op \in {"preview", "reject"} => HasMembers(RoomOf(q.import))

CallsRight ==
  /\ \A c \in Calls : call[c] # NoCall => StillTrue(call[c])
  /\ \A c, d \in Calls :
       /\ call[c] # NoCall /\ call[d] # NoCall
       /\ call[c].op = "addOwner" /\ call[d].op = "addOwner"
       /\ call[c].room = call[d].room
       => c = d

RoomInv == TypeOK /\ MembersFirst /\ CallsRight /\ OwnerRemains

\* What a call has read is still so while nobody has written.
StillRead(q) ==
  IF q.op = "addOwner"
  THEN /\ MayInOrganization(q.user, "room.settings.manage")
       /\ devices[q.device].status = "active" /\ OwnerOf[q.device] = q.user
       /\ rooms[q.room] = [host |-> q.device, binding |-> 1]
  ELSE q.op \notin {"revokeMember", "revokeHost"} => Checked(q)

Fresh ==
  \A c \in Calls, q \in Served :
    q # NoCall /\ call[c] = q /\ undisturbed[c] => StillRead(q)

\* Where an import is, between its approval and its completion.
DeskRight ==
  /\ desk.step \in {"approved", "written", "completing"} => imports[desk.import].approvedBy # {}
  /\ desk.step \in {"written", "completing"} => <<desk.import, ThisDevice>> \in written
  /\ \A c \in Calls : call[c] # NoCall /\ call[c].op = "complete" =>
       c = Desktop
  /\ call[Desktop] # NoCall =>
       \/ desk.step = "approving" /\ call[Desktop].op = "approve"
          /\ call[Desktop].import = desk.import
       \/ desk.step = "completing" /\ call[Desktop].op = "complete"
          /\ call[Desktop].import = desk.import

ApprovedBySome ==
  \A m \in Imports :
    /\ imports[m].status \in {"APPROVED", "IMPORTED"} => imports[m].approvedBy # {}
    /\ imports[m].status = "none" => imports[m].approvedBy = {}

ImportInv == TypeOK /\ DeskRight /\ ApprovedBySome /\ ImportedInOrder

-----------------------------------------------------------------------------
(* The fields of what a call serves *)

LEMMA Fields ==
  ASSUME NEW q \in Served
  PROVE  /\ q.op \in {"createRoom", "handoff", "grant", "addOwner"} =>
              q.user \in Users /\ q.room \in Rooms /\ q.device \in Devices
         /\ q.op = "invite" => q.user \in Users /\ q.invitation \in Invitations
         /\ q.op = "setRole" => /\ q.user \in Users /\ q.room \in Rooms
                                /\ q.target \in Users /\ q.role \in Roles
         /\ q.op = "setStatus" => /\ q.user \in Users /\ q.room \in Rooms
                                  /\ q.target \in Users /\ q.status \in MemberStatuses
         /\ q.op = "leave" => q.user \in Users /\ q.room \in Rooms
         /\ q.op \in {"upload", "delete"} => q.user \in Users /\ q.file \in Files
         /\ q.op \in {"preview", "approve", "reject"} =>
              q.user \in Users /\ q.import \in Imports
         /\ q.op = "complete" =>
              q.user \in Users /\ q.import \in Imports /\ q.device \in Devices
         /\ q.op = "revokeDevice" => q.user \in Users /\ q.device \in Devices
         /\ q.op \notin Atomic
<1>1. CASE q \in ToRead
  <2>1. CASE q \in [op : {"createRoom", "handoff", "grant"}, user : Users, room : Rooms,
                    device : Devices]
    BY <1>1, <2>1 DEF ToRead
  <2>2. CASE q \in [op : {"invite"}, user : Users, invitation : Invitations]
    BY <1>1, <2>2 DEF ToRead
  <2>3. CASE q \in [op : {"setRole"}, user : Users, room : Rooms, target : Users,
                    role : Roles]
    BY <1>1, <2>3 DEF ToRead
  <2>4. CASE q \in [op : {"setStatus"}, user : Users, room : Rooms, target : Users,
                    status : MemberStatuses]
    BY <1>1, <2>4 DEF ToRead
  <2>5. CASE q \in [op : {"leave"}, user : Users, room : Rooms]
    BY <1>1, <2>5 DEF ToRead
  <2>6. CASE q \in [op : {"upload", "delete"}, user : Users, file : Files]
    BY <1>1, <2>6 DEF ToRead
  <2>7. CASE q \in [op : {"preview", "approve", "reject"}, user : Users, import : Imports]
    BY <1>1, <2>7 DEF ToRead
  <2>8. CASE q \in [op : {"revokeDevice"}, user : Users, device : Devices]
    BY <1>1, <2>8 DEF ToRead
  <2>9. q \notin [op : Atomic]
    BY <1>1 DEF ToRead
  <2> QED BY <1>1, <2>1, <2>2, <2>3, <2>4, <2>5, <2>6, <2>7, <2>8, <2>9 DEF ToRead, Requests
<1>2. CASE q \in Rest
  <2>1. CASE q \in [op : {"addOwner"}, user : Users, room : Rooms, device : Devices]
    BY <2>1 DEF Atomic
  <2>2. CASE q \in [op : {"revokeMember"}, room : Rooms, target : Users]
    BY <2>2 DEF Atomic
  <2>3. CASE q \in [op : {"revokeHost"}, device : Devices]
    BY <2>3 DEF Atomic
  <2> QED BY <1>2, <2>1, <2>2, <2>3 DEF Rest
<1>3. CASE q \in ToComplete
  BY <1>3 DEF ToComplete, Atomic
<1> QED BY <1>1, <1>2, <1>3 DEF Served

LEMMA OwnerServed ==
  ASSUME NEW q \in Served, q.op = "createRoom"
  PROVE  [q EXCEPT !.op = "addOwner"] \in Served
<1>1. q \in [op : {"createRoom", "handoff", "grant"}, user : Users, room : Rooms,
             device : Devices]
  BY DEF Served, ToRead, Requests, Rest, ToComplete
<1>2. [q EXCEPT !.op = "addOwner"] \in
        [op : {"addOwner"}, user : Users, room : Rooms, device : Devices]
  BY <1>1
<1> QED BY <1>2 DEF Rest, Served

LEMMA RestServed ==
  /\ \A r \in Rooms, u \in Users : RevokeMember(r, u) \in Served
  /\ \A d \in Devices : RevokeHost(d) \in Served
  /\ \A m \in Imports, d \in Devices : /\ Approval(m) \in Served
                                      /\ Completion(m, d) \in Served
<1> USE DEF Served
<1>2. ASSUME NEW r \in Rooms, NEW u \in Users PROVE RevokeMember(r, u) \in Rest
  BY DEF Rest, RevokeMember
<1>3. ASSUME NEW d \in Devices PROVE RevokeHost(d) \in Rest
  BY DEF Rest, RevokeHost
<1>4. ASSUME NEW m \in Imports, NEW d \in Devices
      PROVE  Approval(m) \in ToRead /\ Completion(m, d) \in ToComplete
  <2>1. User \in Users
    BY StoreAssumption, RowsAssumption DEF User
  <2>2. Approval(m) \in [op : {"preview", "approve", "reject"}, user : Users,
                         import : Imports]
    BY <2>1 DEF Approval
  <2>3. Approval(m) \in Requests /\ Approval(m).op = "approve"
    BY <2>2 DEF Requests, Approval
  <2> QED BY <2>1, <2>3 DEF ToRead, ToComplete, Completion, Atomic
<1> QED BY <1>2, <1>3, <1>4

-----------------------------------------------------------------------------
(* Types *)

LEMMA WritesTypes ==
  ASSUME CallsTypeOK, NEW c \in Calls, NEW op, NEW more,
         call[c] \in Served => more \in Served \cup {NoCall}, Writes(c, op, more)
  PROVE  /\ CallsTypeOK'
         /\ call[c] \in Served /\ call[c].op = op
BY DEF CallsTypeOK, Writes, Disturbs

LEMMA ReadTypes ==
  ASSUME CallsTypeOK, NEW c \in Calls, NEW q \in Served, Read(c, q), UNCHANGED plan
  PROVE  CallsTypeOK'
BY DEF CallsTypeOK, Read

LEMMA DisturbsTypes ==
  ASSUME CallsTypeOK, DisturbsAll
  PROVE  CallsTypeOK'
BY DEF CallsTypeOK, DisturbsAll

\* The rows of RowsTypeOK
MemberRow == [role : Roles \cup {"OWNER"}, status : MemberStatuses \cup {"none"}]
DeviceRow == [status : {"none", "active", "revoked"}, seen : {"never", "recently", "long ago"}]
RoomRow == [host : Devices, binding : 0 .. MaxBinding]
ImportRow == [status : {"none", "PREVIEW", "APPROVED", "REJECTED", "IMPORTED"},
              approvedBy : SUBSET Users]

LEMMA RowTypes ==
  RowsTypeOK <=> /\ organization \in OrganizationStatuses
                 /\ seats \subseteq Users
                 /\ devices \in [Devices -> DeviceRow]
                 /\ rooms \in [Rooms -> RoomRow]
                 /\ members \in [Rooms -> [Users -> MemberRow]]
                 /\ invitations \in [Invitations -> InvitationStates]
                 /\ files \in [Files -> FileStates]
                 /\ imports \in [Imports -> ImportRow]
BY Zenon DEF RowsTypeOK, DeviceRow, RoomRow, MemberRow, ImportRow

LEMMA RowTypesNext ==
  RowsTypeOK' <=> /\ organization' \in OrganizationStatuses
                  /\ seats' \subseteq Users
                  /\ devices' \in [Devices -> DeviceRow]
                  /\ rooms' \in [Rooms -> RoomRow]
                  /\ members' \in [Rooms -> [Users -> MemberRow]]
                  /\ invitations' \in [Invitations -> InvitationStates]
                  /\ files' \in [Files -> FileStates]
                  /\ imports' \in [Imports -> ImportRow]
BY Zenon DEF RowsTypeOK, DeviceRow, RoomRow, MemberRow, ImportRow

LEMMA PutTypes ==
  ASSUME RowsTypeOK, NEW r \in Rooms, NEW u \in Users, NEW role \in Roles \cup {"OWNER"},
         NEW status \in MemberStatuses \cup {"none"}, Put(r, u, role, status)
  PROVE  members' \in [Rooms -> [Users -> MemberRow]]
<1>1. [role |-> role, status |-> status] \in MemberRow
  BY DEF MemberRow
<1>2. members \in [Rooms -> [Users -> MemberRow]]
  BY RowTypes
<1> QED BY <1>1, <1>2 DEF Put

LEMMA MemberTypes ==
  ASSUME RowsTypeOK, NEW r \in Rooms, NEW u \in Users
  PROVE  /\ members[r][u].role \in Roles \cup {"OWNER"}
         /\ members[r][u].status \in MemberStatuses \cup {"none"}
<1>1. members[r][u] \in MemberRow
  BY RowTypes
<1> QED BY <1>1 DEF MemberRow

LEMMA PutDeviceTypes ==
  ASSUME RowsTypeOK, NEW d \in Devices,
         \/ devices' = [devices EXCEPT ![d].status = "active"]
         \/ devices' = [devices EXCEPT ![d].status = "revoked"]
         \/ devices' = [devices EXCEPT ![d].seen = "recently"]
         \/ devices' = [devices EXCEPT ![d].seen = "long ago"]
  PROVE  devices' \in [Devices -> DeviceRow]
<1>1. devices \in [Devices -> DeviceRow]
  BY RowTypes
<1> QED BY <1>1 DEF DeviceRow

LEMMA PutImportTypes ==
  ASSUME RowsTypeOK, NEW m \in Imports, NEW row \in ImportRow, PutImport(m, row)
  PROVE  RowsTypeOK'
<1>1. imports' \in [Imports -> ImportRow]
  BY RowTypes DEF PutImport
<1> QED BY <1>1, RowTypes, RowTypesNext DEF PutImport

\* A request that a user makes is served by a call that is not the desktop's.
LEMMA BeginServes ==
  ASSUME CallsTypeOK, NEW c \in Calls, NEW q \in plan, Begin(c, q)
  PROVE  q \in ToRead /\ q \in Served
BY StoreAssumption DEF CallsTypeOK, Begin, ToRead, Served

LEMMA InitTypes == Init => TypeOK
<1> SUFFICES ASSUME Init PROVE TypeOK
  OBVIOUS
<1>1. CallsTypeOK
  BY DEF Init, CallsTypeOK
<1>2. NoRoom \in [host : Devices, binding : 0 .. MaxBinding]
  <2>1. (CHOOSE d \in Devices : TRUE) \in Devices
    BY StoreAssumption
  <2> QED BY <2>1, RowsAssumption DEF NoRoom
<1>3. members \in [Rooms -> [Users -> [role : Roles \cup {"OWNER"},
                                      status : MemberStatuses \cup {"none"}]]]
  BY DEF Init, RowsInit, NoMember, Roles
<1>4. imports \in [Imports ->
        [status : {"none", "PREVIEW", "APPROVED", "REJECTED", "IMPORTED"},
         approvedBy : SUBSET Users]]
  BY DEF Init, RowsInit, NoImport
<1>5. DeskTypeOK
  BY StoreAssumption DEF Init, DeskTypeOK, Idle
<1>6. RowsTypeOK
  BY <1>2, <1>3, <1>4, RowsAssumption
  DEF Init, RowsInit, RowsTypeOK, OrganizationStatuses, FileStates, InvitationStates
<1> QED BY <1>1, <1>5, <1>6 DEF TypeOK

LEMMA DeskTypesStep ==
  TypeOK /\ [Next]_vars => DeskTypeOK'
<1> SUFFICES ASSUME RowsTypeOK, CallsTypeOK, DeskTypeOK, [Next]_vars
             PROVE  DeskTypeOK'
  BY DEF TypeOK
<1> USE StoreAssumption DEF DeskTypeOK
<1>1. ASSUME NEW c \in Calls, NEW q \in plan, Begin(c, q) PROVE DeskTypeOK'
  BY <1>1 DEF Begin, Read, host, CallsTypeOK
<1>2. ASSUME NEW c \in Calls,
             \/ InsertRoom(c) \/ InsertOwner(c) \/ InsertInvitation(c) \/ SetRole(c)
             \/ SetStatus(c) \/ Leave(c) \/ Handoff(c) \/ InsertFile(c) \/ DeleteFile(c)
             \/ InsertImport(c) \/ Reject(c) \/ RevokeDevice(c)
      PROVE  DeskTypeOK'
  <2>1. desk' = desk
    BY <1>2 DEF InsertRoom, InsertOwner, InsertInvitation, SetRole, SetStatus, Leave, Handoff,
                InsertFile, DeleteFile, InsertImport, Reject, RevokeDevice
  <2>2. \E op, more : Writes(c, op, more)
    BY <1>2 DEF InsertRoom, InsertOwner, InsertInvitation, SetRole, SetStatus, Leave, Handoff,
                InsertFile, DeleteFile, InsertImport, Reject, RevokeDevice
  <2>3. call'[Desktop] # NoCall => call[Desktop] # NoCall
    BY <2>2 DEF Writes, CallsTypeOK
  <2> QED BY <2>1, <2>3
<1>3. ASSUME NEW c \in Calls, Approve(c) \/ Complete(c) PROVE DeskTypeOK'
  BY <1>3 DEF Approve, Complete, Writes, Answered, CallsTypeOK
<1>4. ASSUME NEW c \in Calls, IssueGrant(c) \/ RevokeConnections(c) PROVE DeskTypeOK'
  BY <1>4 DEF IssueGrant, RevokeConnections, host, CallsTypeOK
<1>5. ASSUME NEW c \in Calls, Fail(c) PROVE DeskTypeOK'
  BY <1>5 DEF Fail, Answered, CallsTypeOK
<1>6. ASSUME NEW d \in Devices, RegisterDevice(d) \/ Heartbeat(d) \/ FallSilent(d)
      PROVE  DeskTypeOK'
  BY <1>6 DEF RegisterDevice, Heartbeat, FallSilent, DisturbsAll, host
<1>7. ASSUME NEW s \in OrganizationStatuses, SetEntitlement(s) PROVE DeskTypeOK'
  BY <1>7 DEF SetEntitlement, DisturbsAll, host
<1>8. ASSUME NEW i \in Invitations, Redeem(i) \/ Expire(i) PROVE DeskTypeOK'
  BY <1>8 DEF Redeem, Expire, DisturbsAll, host
<1>9. ASSUME NEW g, Connect(g) \/ ExpireGrant(g) PROVE DeskTypeOK'
  BY <1>9 DEF Connect, ExpireGrant, host
<1>10. ASSUME NEW m \in Imports, StartImport(m) PROVE DeskTypeOK'
  <2>1. NextStep(m) \in {"idle", "approve", "approved"}
    BY DEF NextStep
  <2>2. RoomOf(m) \in Rooms
    BY RowsAssumption DEF RoomOf
  <2>3. rooms[RoomOf(m)].host \in Devices
    BY <2>2, RowTypes DEF RoomRow
  <2> QED BY <1>10, <2>1, <2>3 DEF StartImport
<1>11. CASE RequestApproval
  BY <1>11 DEF RequestApproval, Read, CallsTypeOK
<1>12. CASE ReportComplete
  BY <1>12 DEF ReportComplete, Reportable, Read, CallsTypeOK
<1>13. CASE WriteFiles \/ GiveUp
  BY <1>13 DEF WriteFiles, GiveUp
<1>14. CASE UNCHANGED vars
  BY <1>14 DEF vars, host
<1> QED
  BY <1>1, <1>2, <1>3, <1>4, <1>5, <1>6, <1>7, <1>8, <1>9, <1>10, <1>11, <1>12, <1>13,
     <1>14 DEF Next

LEMMA TypesStep ==
  TypeOK /\ [Next]_vars => RowsTypeOK' /\ CallsTypeOK'
<1> SUFFICES ASSUME RowsTypeOK, CallsTypeOK, DeskTypeOK, [Next]_vars
             PROVE  RowsTypeOK' /\ CallsTypeOK'
  BY DEF TypeOK
<1> USE Fields, RowTypes, RowTypesNext
<1>1. ASSUME NEW c \in Calls, NEW q \in plan, Begin(c, q)
      PROVE  RowsTypeOK' /\ CallsTypeOK'
  <2>1. CallsTypeOK'
    BY <1>1, BeginServes, ReadTypes DEF Begin
  <2> QED BY <1>1, <2>1 DEF Begin, rows
<1>2. ASSUME NEW c \in Calls, InsertRoom(c) PROVE RowsTypeOK' /\ CallsTypeOK'
  <2>1. CallsTypeOK' /\ call[c] \in Served /\ call[c].op = "createRoom"
    <3> DEFINE more == [call[c] EXCEPT !.op = "addOwner"]
    <3>1. Writes(c, "createRoom", more)
      BY <1>2 DEF InsertRoom
    <3>2. call[c] \in Served /\ call[c].op = "createRoom"
      BY <3>1 DEF Writes, CallsTypeOK
    <3>3. more \in Served
      BY <3>2, OwnerServed
    <3> HIDE DEF more
    <3> QED BY <3>1, <3>2, <3>3, WritesTypes
  <2>2. [host |-> call[c].device, binding |-> 1] \in RoomRow
    BY <2>1, RowsAssumption DEF RoomRow
  <2> QED BY <1>2, <2>1, <2>2 DEF InsertRoom
<1>3. ASSUME NEW c \in Calls, InsertOwner(c) PROVE RowsTypeOK' /\ CallsTypeOK'
  <2>1. CallsTypeOK' /\ call[c] \in Served /\ call[c].op = "addOwner"
    BY <1>3, WritesTypes DEF InsertOwner
  <2>2. Put(call[c].room, call[c].user, "OWNER", "ACTIVE")
    BY <1>3 DEF InsertOwner
  <2> QED BY <1>3, <2>1, <2>2, PutTypes DEF InsertOwner, MemberStatuses
<1>4. ASSUME NEW c \in Calls, InsertInvitation(c) PROVE RowsTypeOK' /\ CallsTypeOK'
  <2>1. CallsTypeOK' /\ call[c] \in Served /\ call[c].op = "invite"
    BY <1>4, WritesTypes DEF InsertInvitation
  <2> QED BY <1>4, <2>1 DEF InsertInvitation, InvitationStates
<1>5. ASSUME NEW c \in Calls, SetRole(c) PROVE RowsTypeOK' /\ CallsTypeOK'
  <2>1. CallsTypeOK' /\ call[c] \in Served /\ call[c].op = "setRole"
    BY <1>5, WritesTypes DEF SetRole
  <2>2. Put(call[c].room, call[c].target, call[c].role,
            members[call[c].room][call[c].target].status)
    BY <1>5 DEF SetRole
  <2> QED BY <1>5, <2>1, <2>2, MemberTypes, PutTypes DEF SetRole
<1>6. ASSUME NEW c \in Calls, SetStatus(c) PROVE RowsTypeOK' /\ CallsTypeOK'
  <2>1. CallsTypeOK' /\ call[c] \in Served /\ call[c].op = "setStatus"
    BY <1>6, RestServed, WritesTypes DEF SetStatus, Writes, CallsTypeOK
  <2>2. Put(call[c].room, call[c].target, members[call[c].room][call[c].target].role,
            call[c].status)
    BY <1>6 DEF SetStatus
  <2> QED BY <1>6, <2>1, <2>2, MemberTypes, PutTypes DEF SetStatus
<1>7. ASSUME NEW c \in Calls, Leave(c) PROVE RowsTypeOK' /\ CallsTypeOK'
  <2>1. CallsTypeOK' /\ call[c] \in Served /\ call[c].op = "leave"
    BY <1>7, RestServed, WritesTypes DEF Leave, Writes, CallsTypeOK
  <2>2. Put(call[c].room, call[c].user, members[call[c].room][call[c].user].role,
            "REMOVED")
    BY <1>7 DEF Leave
  <2>3. "REMOVED" \in MemberStatuses \cup {"none"}
    BY DEF MemberStatuses
  <2>4. members' \in [Rooms -> [Users -> MemberRow]]
    BY <2>1, <2>2, <2>3, MemberTypes, PutTypes
  <2> QED BY <1>7, <2>1, <2>4 DEF Leave
<1>8. ASSUME NEW c \in Calls, Handoff(c) PROVE RowsTypeOK' /\ CallsTypeOK'
  <2>1. CallsTypeOK' /\ call[c] \in Served /\ call[c].op = "handoff"
    BY <1>8, WritesTypes DEF Handoff
  <2>2. rooms[call[c].room].binding \in 0 .. MaxBinding
    BY <2>1 DEF RoomRow
  <2>3. [host |-> call[c].device, binding |-> rooms[call[c].room].binding + 1] \in RoomRow
    BY <1>8, <2>1, <2>2, RowsAssumption DEF Handoff, RoomRow
  <2> QED BY <1>8, <2>1, <2>3 DEF Handoff
<1>9. ASSUME NEW c \in Calls, InsertFile(c) \/ DeleteFile(c)
      PROVE  RowsTypeOK' /\ CallsTypeOK'
  <2>1. CallsTypeOK' /\ call[c] \in Served /\ call[c].op \in {"upload", "delete"}
    BY <1>9, WritesTypes DEF InsertFile, DeleteFile
  <2>2. files' \in [Files -> FileStates]
    BY <1>9, <2>1 DEF InsertFile, DeleteFile, FileStates
  <2> QED BY <1>9, <2>1, <2>2 DEF InsertFile, DeleteFile
<1>10. ASSUME NEW c \in Calls, InsertImport(c) \/ Approve(c) \/ Reject(c) \/ Complete(c)
       PROVE  RowsTypeOK' /\ CallsTypeOK'
  <2>1. /\ CallsTypeOK' /\ call[c] \in Served
        /\ call[c].op \in {"preview", "approve", "reject", "complete"}
    BY <1>10, WritesTypes DEF InsertImport, Approve, Reject, Complete
  <2>2. call[c].import \in Imports /\ call[c].user \in Users
    BY <2>1
  <2>3. imports[call[c].import] \in ImportRow
    BY <2>2
  <2>4. /\ [status |-> "PREVIEW", approvedBy |-> {}] \in ImportRow
        /\ [status |-> "APPROVED", approvedBy |-> {call[c].user}] \in ImportRow
        /\ [imports[call[c].import] EXCEPT !.status = "REJECTED"] \in ImportRow
        /\ [imports[call[c].import] EXCEPT !.status = "IMPORTED"] \in ImportRow
    BY <2>2, <2>3 DEF ImportRow
  <2>5. \E row \in ImportRow : PutImport(call[c].import, row)
    BY <1>10, <2>4 DEF InsertImport, Approve, Reject, Complete
  <2> QED BY <2>1, <2>2, <2>5, PutImportTypes
<1>11. ASSUME NEW c \in Calls, RevokeDevice(c) PROVE RowsTypeOK' /\ CallsTypeOK'
  <2>1. CallsTypeOK' /\ call[c] \in Served /\ call[c].op = "revokeDevice"
    BY <1>11, RestServed, WritesTypes DEF RevokeDevice, Writes, CallsTypeOK
  <2> QED BY <1>11, <2>1, PutDeviceTypes DEF RevokeDevice
<1>12. ASSUME NEW c \in Calls, IssueGrant(c) \/ RevokeConnections(c) \/ Fail(c)
       PROVE  RowsTypeOK' /\ CallsTypeOK'
  BY <1>12 DEF IssueGrant, RevokeConnections, Fail, CallsTypeOK, rows
<1>13. ASSUME NEW d \in Devices, RegisterDevice(d) \/ Heartbeat(d) \/ FallSilent(d)
       PROVE  RowsTypeOK' /\ CallsTypeOK'
  <2>1. CallsTypeOK'
    BY <1>13, DisturbsTypes DEF RegisterDevice, Heartbeat, FallSilent
  <2>2. devices[d] \in DeviceRow
    OBVIOUS
  <2>3. /\ [devices[d] EXCEPT !.status = "active"] \in DeviceRow
        /\ [devices[d] EXCEPT !.seen = "recently"] \in DeviceRow
        /\ [devices[d] EXCEPT !.seen = "long ago"] \in DeviceRow
    BY <2>2 DEF DeviceRow
  <2>4. \E row \in DeviceRow : PutDevice(d, row)
    BY <1>13, <2>3 DEF RegisterDevice, Heartbeat, FallSilent
  <2>5. PICK row \in DeviceRow : PutDevice(d, row)
    BY <2>4
  <2> QED BY <2>1, <2>5 DEF PutDevice
<1>14. ASSUME NEW s \in OrganizationStatuses, SetEntitlement(s)
       PROVE  RowsTypeOK' /\ CallsTypeOK'
  BY <1>14, DisturbsTypes DEF SetEntitlement
<1>15. ASSUME NEW i \in Invitations, Redeem(i) PROVE RowsTypeOK' /\ CallsTypeOK'
  <2>1. InvitedTo[i] \in Rooms /\ Invitee[i] \in Users
    BY RowsAssumption
  <2>2. Put(InvitedTo[i], Invitee[i], "AGENT_USER", "ACTIVE")
    BY <1>15 DEF Redeem
  <2>3. CallsTypeOK'
    BY <1>15, DisturbsTypes DEF Redeem
  <2> QED BY <1>15, <2>1, <2>2, <2>3, PutTypes DEF Redeem, Roles, MemberStatuses
<1>16. ASSUME NEW i \in Invitations, Expire(i) PROVE RowsTypeOK' /\ CallsTypeOK'
  BY <1>16, DisturbsTypes DEF Expire, InvitationStates
<1>17. ASSUME NEW g, Connect(g) \/ ExpireGrant(g) PROVE RowsTypeOK' /\ CallsTypeOK'
  BY <1>17 DEF Connect, ExpireGrant, CallsTypeOK, rows
<1>18. ASSUME NEW m \in Imports, StartImport(m) PROVE RowsTypeOK' /\ CallsTypeOK'
  BY <1>18 DEF StartImport, CallsTypeOK, rows
<1>19. CASE RequestApproval
  <2>1. desk.import \in Imports
    BY <1>19 DEF RequestApproval, DeskTypeOK
  <2>2. Approval(desk.import) \in Served /\ Desktop \in Calls
    BY <2>1, RestServed, StoreAssumption
  <2>3. CallsTypeOK'
    BY <1>19, <2>2, ReadTypes DEF RequestApproval
  <2> QED BY <1>19, <2>3 DEF RequestApproval, rows
<1>20. CASE ReportComplete
  <2>1. desk.import \in Imports /\ desk.device \in Devices
    BY <1>20 DEF ReportComplete, Reportable, DeskTypeOK
  <2>2. Completion(desk.import, desk.device) \in Served /\ Desktop \in Calls
    BY <2>1, RestServed, StoreAssumption
  <2>3. CallsTypeOK'
    BY <1>20, <2>2, ReadTypes DEF ReportComplete
  <2> QED BY <1>20, <2>3 DEF ReportComplete, rows
<1>21. CASE WriteFiles \/ GiveUp
  BY <1>21 DEF WriteFiles, GiveUp, CallsTypeOK, rows
<1>22. CASE UNCHANGED vars
  BY <1>22 DEF vars, CallsTypeOK, rows
<1> QED
  BY <1>1, <1>2, <1>3, <1>4, <1>5, <1>6, <1>7, <1>8, <1>9, <1>10, <1>11, <1>12, <1>13,
     <1>14, <1>15, <1>16, <1>17, <1>18, <1>19, <1>20, <1>21, <1>22 DEF Next

-----------------------------------------------------------------------------
(* An active owner remains *)

\* What a step does to memberships when only the rooms of "new" get their first
\* member: nobody stops being a member, and nobody who is one becomes an owner.
MembersKept(new) ==
  /\ \A r \in Rooms, u \in Users : IsMember(r, u) => IsMember(r, u)'
  /\ \A r \in Rooms, u \in Users :
       IsMember(r, u) /\ members[r][u].role # "OWNER" => members'[r][u].role # "OWNER"
  /\ \A r \in Rooms : HasMembers(r)' => HasMembers(r) \/ r \in new
  /\ OwnerRemains'

LEMMA PutCells ==
  ASSUME RowsTypeOK, NEW r \in Rooms, NEW u \in Users, NEW role, NEW status,
         Put(r, u, role, status)
  PROVE  \A s \in Rooms, v \in Users :
           members'[s][v] = IF s = r /\ v = u THEN [role |-> role, status |-> status]
                                              ELSE members[s][v]
<1>1. members \in [Rooms -> [Users -> MemberRow]]
  BY RowTypes
<1> QED BY <1>1 DEF Put

\* A member is given a role that is not the owner's, or keeps its own, while
\* another active owner remains.
LEMMA PutKeeps ==
  ASSUME RowsTypeOK, OwnerRemains, NEW r \in Rooms, NEW u \in Users, NEW role,
         NEW status \in MemberStatuses, Put(r, u, role, status), HasMembers(r),
         role = "OWNER" => members[r][u].role = "OWNER",
         ActiveOwners(r) \ {u} # {}
  PROVE  MembersKept({})
<1>1. \A s \in Rooms, v \in Users :
        members'[s][v] = IF s = r /\ v = u THEN [role |-> role, status |-> status]
                                           ELSE members[s][v]
  BY PutCells
<1>2. status # "none"
  BY DEF MemberStatuses
<1>3. \A s \in Rooms, v \in Users : IsMember(s, v) => IsMember(s, v)'
  BY <1>1, <1>2 DEF IsMember
<1>4. \A s \in Rooms : HasMembers(s)' => HasMembers(s)
  BY <1>1 DEF HasMembers, IsMember
<1>5. \A s \in Rooms : ActiveOwners(s) \ {u} \subseteq ActiveOwners(s)'
  BY <1>1 DEF ActiveOwners
<1>6. ASSUME NEW s \in Rooms, HasMembers(s)' PROVE ActiveOwners(s)' # {}
  <2>1. CASE s = r
    BY <2>1, <1>5
  <2>2. CASE s # r
    <3>1. ActiveOwners(s)' = ActiveOwners(s)
      BY <2>2, <1>1 DEF ActiveOwners
    <3>2. HasMembers(s)
      BY <1>4, <1>6
    <3>3. \E v \in Users : IsMember(s, v)
      BY <3>2 DEF HasMembers
    <3>4. ActiveOwners(s) # {}
      BY <3>3 DEF OwnerRemains
    <3> QED BY <3>1, <3>4
  <2> QED BY <2>1, <2>2
<1>7. OwnerRemains'
  BY <1>6 DEF OwnerRemains, HasMembers
<1>8. \A s \in Rooms, v \in Users :
        IsMember(s, v) /\ members[s][v].role # "OWNER" => members'[s][v].role # "OWNER"
  BY <1>1
<1> QED BY <1>3, <1>4, <1>7, <1>8 DEF MembersKept

LEMMA SameMembers ==
  ASSUME OwnerRemains, UNCHANGED members
  PROVE  MembersKept({})
BY DEF MembersKept, OwnerRemains, HasMembers, IsMember, ActiveOwners

\* One who is not an active owner is not the last of them, and the owner who
\* leaves is not either.
LEMMA OthersOwn ==
  ASSUME OwnerRemains, NEW r \in Rooms, NEW u \in Users, HasMembers(r),
         \/ members[r][u].role # "OWNER" \/ members[r][u].status # "ACTIVE"
         \/ Cardinality(ActiveOwners(r)) > 1
  PROVE  ActiveOwners(r) \ {u} # {}
<1>1. ActiveOwners(r) # {}
  BY DEF OwnerRemains, HasMembers
<1>2. CASE u \notin ActiveOwners(r)
  BY <1>1, <1>2
<1>3. CASE u \in ActiveOwners(r)
  <2>1. Cardinality(ActiveOwners(r)) > 1
    BY <1>3 DEF ActiveOwners
  <2>2. Cardinality({u}) = 1
    BY FS_Singleton
  <2>3. ActiveOwners(r) # {u}
    BY <2>1, <2>2
  <2> QED BY <1>3, <2>3
<1> QED BY <1>2, <1>3

LEMMA StillKept ==
  ASSUME NEW new \in SUBSET Rooms, MembersKept(new), NEW q \in Served, StillTrue(q),
         \A r \in Rooms : RoomExists(r) => RoomExists(r)',
         q.op = "addOwner" => q.room \notin new
  PROVE  StillTrue(q)'
<1> USE Fields, RowsAssumption
<1>1. \A r \in Rooms : HasMembers(r) => HasMembers(r)'
  BY DEF MembersKept, HasMembers
<1>2. q.op = "addOwner" => RoomExists(q.room)' /\ ~HasMembers(q.room)'
  BY DEF StillTrue, MembersKept
<1>3. q.op \in {"setRole", "setStatus"} =>
        IsMember(q.room, q.target)' /\ members'[q.room][q.target].role # "OWNER"
  BY DEF StillTrue, MembersKept
<1>4. q.op = "invite" => HasMembers(InvitedTo[q.invitation])'
  BY <1>1 DEF StillTrue
<1>5. q.op \in {"preview", "reject"} => HasMembers(RoomOf(q.import))'
  <2>1. q.op \in {"preview", "reject"} => RoomOf(q.import) \in Rooms
    BY DEF RoomOf
  <2> QED BY <2>1, <1>1 DEF StillTrue, RoomOf
<1> QED BY <1>2, <1>3, <1>4, <1>5 DEF StillTrue

\* A call goes on as it was, ends, reads anew, or has inserted its room.
CallsGoOn ==
  \A c \in Calls :
    \/ call'[c] = call[c]
    \/ call'[c] = NoCall
    \/ StillTrue(call'[c]) /\ call'[c].op # "addOwner"
    \/ /\ call'[c].op = "addOwner"
       /\ ~RoomExists(call'[c].room) /\ RoomExists(call[c].room)'
       /\ \A d \in Calls : d # c => call'[d] = call[d]

LEMMA InvKept ==
  ASSUME RoomInv, TypeOK', CallsGoOn, NEW new \in SUBSET Rooms, MembersKept(new),
         \A r \in Rooms : RoomExists(r) => RoomExists(r)',
         \A r \in new : RoomExists(r)',
         \A c \in Calls : call'[c] # NoCall /\ call'[c].op = "addOwner" =>
                            call'[c].room \notin new,
         \A i \in Invitations : invitations'[i] # "none" =>
                            invitations[i] # "none" \/ HasMembers(InvitedTo[i]),
         \A m \in Imports : ImportExists(m)' => ImportExists(m) \/ HasMembers(RoomOf(m))
  PROVE  RoomInv'
<1>1. \A r \in Rooms : HasMembers(r) => HasMembers(r)'
  BY DEF MembersKept, HasMembers
<1>2. MembersFirst'
  <2>1. \A r \in Rooms : HasMembers(r)' => RoomExists(r)'
    BY DEF MembersKept, RoomInv, MembersFirst
  <2>2. ASSUME NEW i \in Invitations, invitations'[i] # "none"
        PROVE  HasMembers(InvitedTo[i])'
    <3>1. InvitedTo[i] \in Rooms
      BY RowsAssumption
    <3> QED BY <3>1, <2>2, <1>1 DEF RoomInv, MembersFirst
  <2>3. ASSUME NEW m \in Imports, ImportExists(m)' PROVE HasMembers(RoomOf(m))'
    <3>1. RoomOf(m) \in Rooms
      BY RowsAssumption DEF RoomOf
    <3>2. HasMembers(RoomOf(m))
      BY <2>3 DEF RoomInv, MembersFirst
    <3> QED BY <3>1, <3>2, <1>1 DEF RoomOf
  <2> QED BY <2>1, <2>2, <2>3 DEF MembersFirst
<1>3. ASSUME NEW c \in Calls, call'[c] # NoCall PROVE StillTrue(call[c])'
  <2> DEFINE q == call'[c]
  <2>1. q \in Served
    BY <1>3 DEF TypeOK, CallsTypeOK
  <2>2. \A k \in Served : StillTrue(k) /\ (k.op = "addOwner" => k.room \notin new)
                            => StillTrue(k)'
    BY StillKept
  <2>3. CASE call'[c] = call[c]
    <3>1. StillTrue(call[c]) /\ call[c] \in Served
      BY <1>3, <2>1, <2>3 DEF RoomInv, CallsRight
    <3>2. call[c].op = "addOwner" => call[c].room \notin new
      BY <1>3, <2>3
    <3> QED BY <2>2, <2>3, <3>1, <3>2 DEF StillTrue
  <2>4. CASE StillTrue(call'[c]) /\ call'[c].op # "addOwner"
    BY <2>1, <2>2, <2>4 DEF StillTrue
  <2>5. CASE /\ call'[c].op = "addOwner"
             /\ ~RoomExists(call'[c].room) /\ RoomExists(call[c].room)'
    <3>1. call'[c].room \in Rooms
      BY <2>1, <2>5, Fields
    <3>2. ~HasMembers(call'[c].room) /\ call'[c].room \notin new
      BY <1>3, <2>5, <3>1 DEF RoomInv, MembersFirst
    <3>3. \A r \in Rooms : ~HasMembers(r) /\ r \notin new => ~HasMembers(r)'
      BY DEF MembersKept
    <3>4. ~HasMembers(call[c].room)'
      BY <3>1, <3>2, <3>3 DEF HasMembers, IsMember
    <3> QED BY <2>5, <3>4 DEF StillTrue, RoomExists, HasMembers
  <2> QED BY <1>3, <2>3, <2>4, <2>5 DEF CallsGoOn
<1>4. ASSUME NEW c \in Calls, NEW d \in Calls, call'[c] # NoCall, call'[d] # NoCall,
             call'[c].op = "addOwner", call'[d].op = "addOwner",
             call'[c].room = call'[d].room
      PROVE  c = d
  <2>1. \A e \in Calls : call[e] # NoCall /\ call[e].op = "addOwner" =>
                           RoomExists(call[e].room)
    BY DEF RoomInv, CallsRight, StillTrue
  <2>2. CASE call'[c] = call[c] /\ call'[d] = call[d]
    BY <1>4, <2>2 DEF RoomInv, CallsRight
  <2>3. CASE call'[c] # call[c]
    <3>1. /\ ~RoomExists(call'[c].room)
          /\ \A e \in Calls : e # c => call'[e] = call[e]
      BY <1>4, <2>3 DEF CallsGoOn
    <3> QED BY <1>4, <2>1, <3>1
  <2>4. CASE call'[d] # call[d]
    <3>1. /\ ~RoomExists(call'[d].room)
          /\ \A e \in Calls : e # d => call'[e] = call[e]
      BY <1>4, <2>4 DEF CallsGoOn
    <3> QED BY <1>4, <2>1, <3>1
  <2> QED BY <2>2, <2>3, <2>4
<1>5. CallsRight'
  BY <1>3, <1>4 DEF CallsRight
<1> QED BY <1>2, <1>5 DEF RoomInv, MembersKept

LEMMA Ends ==
  ASSUME CallsTypeOK, NEW c \in Calls, NEW op, Writes(c, op, NoCall)
  PROVE  CallsGoOn /\ \A d \in Calls : call'[d] # NoCall /\ call'[d].op = "addOwner" =>
                                      d # c /\ call'[d] = call[d]
BY DEF CallsTypeOK, Writes, CallsGoOn

LEMMA Moves ==
  ASSUME CallsTypeOK, NEW c \in Calls, NEW op, NEW more, Writes(c, op, more),
         StillTrue(more), more.op # "addOwner"
  PROVE  CallsGoOn
BY DEF CallsTypeOK, Writes, CallsGoOn

LEMMA RestTrue ==
  /\ \A r, u : StillTrue(RevokeMember(r, u)) /\ RevokeMember(r, u).op = "revokeMember"
  /\ \A d : StillTrue(RevokeHost(d)) /\ RevokeHost(d).op = "revokeHost"
BY DEF StillTrue, RevokeMember, RevokeHost

\* A step that leaves memberships, rooms, invitations and proposals alone.
LEMMA QuietKeeps ==
  ASSUME RoomInv, TypeOK', CallsGoOn, UNCHANGED <<members, invitations>>,
         \A r \in Rooms : RoomExists(r) => RoomExists(r)',
         \A m \in Imports : ImportExists(m)' => ImportExists(m) \/ HasMembers(RoomOf(m))
  PROVE  RoomInv'
<1>1. MembersKept({})
  BY SameMembers DEF RoomInv
<1> QED BY <1>1, InvKept

LEMMA RoomInvStep == RoomInv /\ [Next]_vars => RoomInv'
<1> SUFFICES ASSUME RoomInv, [Next]_vars PROVE RoomInv'
  OBVIOUS
<1>1. TypeOK /\ RowsTypeOK /\ CallsTypeOK
  BY DEF RoomInv, TypeOK
<1>2. TypeOK'
  BY <1>1, TypesStep, DeskTypesStep DEF TypeOK
<1>3. OwnerRemains /\ MembersFirst /\ CallsRight
  BY DEF RoomInv
<1>4. ASSUME NEW r \in Rooms, NEW u \in Users, May(u, r, "members.invite")
                                             \/ May(u, r, "files.write")
      PROVE  HasMembers(r)
  BY <1>4 DEF May, HasMembers, IsMember
<1>5. ASSUME NEW q \in Served, Checked(q), q.op # "addOwner" PROVE StillTrue(q)
  <2>1. q.op \in {"setRole", "setStatus"} =>
          IsMember(q.room, q.target) /\ members[q.room][q.target].role # "OWNER"
    BY <1>5 DEF Checked, MayManage, TargetFound
  <2>2. q.op = "invite" => HasMembers(InvitedTo[q.invitation])
    BY <1>4, <1>5, Fields, RowsAssumption DEF Checked, MayInvite
  <2>3. ASSUME q.op \in {"preview", "reject"} PROVE HasMembers(RoomOf(q.import))
    <3>1. q.import \in Imports /\ q.user \in Users
      BY <2>3, Fields
    <3>2. May(q.user, RoomOf(q.import), "files.write")
      BY <1>5, <2>3 DEF Checked, MayPreview, MayReject
    <3>3. RoomOf(q.import) \in Rooms
      BY <3>1, RowsAssumption DEF RoomOf
    <3> QED BY <3>1, <3>2, <3>3, <1>4
  <2> QED BY <1>5, <2>1, <2>2, <2>3 DEF StillTrue
<1>6. ASSUME NEW c \in Calls, NEW q \in Served, Read(c, q), q.op # "addOwner",
             UNCHANGED rows
      PROVE  RoomInv'
  <2>1. CallsGoOn
    BY <1>1, <1>5, <1>6 DEF Read, CallsGoOn, CallsTypeOK
  <2> QED BY <1>2, <1>6, <2>1, QuietKeeps DEF rows, RoomExists, ImportExists
<1>7. ASSUME NEW c \in Calls, NEW q \in plan, Begin(c, q) PROVE RoomInv'
  <2>1. q \in ToRead /\ q \in Served
    BY <1>1, <1>7, BeginServes
  <2>2. q.op # "addOwner"
    BY <2>1 DEF ToRead, Requests, Atomic
  <2> QED BY <1>6, <1>7, <2>1, <2>2 DEF Begin
<1>8. ASSUME NEW c \in Calls, InsertRoom(c) PROVE RoomInv'
  <2>1. call[c] \in Served /\ call[c].op = "createRoom"
    BY <1>1, <1>8 DEF InsertRoom, Writes, CallsTypeOK
  <2>2. /\ ~RoomExists(call[c].room) /\ call[c].room \in Rooms
        /\ rooms' = [rooms EXCEPT ![call[c].room] = [host |-> call[c].device, binding |-> 1]]
    BY <1>8, <2>1, Fields DEF InsertRoom
  <2>3. call[c] \in [op : {"createRoom", "handoff", "grant"}, user : Users, room : Rooms,
                    device : Devices]
    BY <2>1 DEF Served, ToRead, Requests, Rest, ToComplete
  <2>4. /\ call'[c].op = "addOwner" /\ call'[c].room = call[c].room
        /\ \A d \in Calls : d # c => call'[d] = call[d]
    BY <1>1, <1>8, <2>3 DEF InsertRoom, Writes, CallsTypeOK
  <2>5. /\ \A r \in Rooms : RoomExists(r) => RoomExists(r)'
        /\ rooms'[call'[c].room].binding > 0
    BY <1>1, <2>2, <2>4, RowTypes DEF RoomExists
  <2>6. CallsGoOn
    BY <2>2, <2>4, <2>5 DEF CallsGoOn, RoomExists
  <2> QED BY <1>2, <1>8, <2>5, <2>6, QuietKeeps DEF InsertRoom, ImportExists
<1>9. ASSUME NEW c \in Calls, InsertOwner(c) PROVE RoomInv'
  <2> DEFINE q == call[c]
  <2>1. q \in Served /\ q.op = "addOwner" /\ q # NoCall
    BY <1>1, <1>9 DEF InsertOwner, Writes, CallsTypeOK
  <2>2. q.room \in Rooms /\ q.user \in Users
    BY <2>1, Fields
  <2>3. RoomExists(q.room) /\ ~HasMembers(q.room)
    BY <2>1, <1>3 DEF CallsRight, StillTrue
  <2>4. \A s \in Rooms, v \in Users :
          members'[s][v] = IF s = q.room /\ v = q.user
                           THEN [role |-> "OWNER", status |-> "ACTIVE"] ELSE members[s][v]
    BY <1>1, <1>9, <2>2, PutCells DEF InsertOwner
  <2>5. MembersKept({q.room})
    <3>1. \A r \in Rooms, u \in Users : IsMember(r, u) => IsMember(r, u)'
      BY <2>4 DEF IsMember
    <3>2. \A r \in Rooms, u \in Users :
            IsMember(r, u) /\ members[r][u].role # "OWNER" => members'[r][u].role # "OWNER"
      BY <2>3, <2>4 DEF HasMembers
    <3>3. \A r \in Rooms : HasMembers(r)' => HasMembers(r) \/ r \in {q.room}
      BY <2>4 DEF HasMembers, IsMember
    <3>4. ASSUME NEW r \in Rooms, HasMembers(r)' PROVE ActiveOwners(r)' # {}
      <4>1. CASE r = q.room
        BY <4>1, <2>2, <2>4 DEF ActiveOwners
      <4>2. CASE r # q.room
        <5>1. HasMembers(r)
          BY <3>3, <3>4, <4>2
        <5>2. ActiveOwners(r) # {}
          BY <5>1, <1>3 DEF OwnerRemains, HasMembers
        <5>3. ActiveOwners(r)' = ActiveOwners(r)
          BY <4>2, <2>4 DEF ActiveOwners
        <5> QED BY <5>2, <5>3
      <4> QED BY <4>1, <4>2
    <3>5. OwnerRemains'
      BY <3>4 DEF OwnerRemains, HasMembers
    <3> QED BY <3>1, <3>2, <3>3, <3>5 DEF MembersKept
  <2>6. CallsGoOn /\ \A d \in Calls : call'[d] # NoCall /\ call'[d].op = "addOwner" =>
                                     d # c /\ call'[d] = call[d]
    <3>1. Writes(c, "addOwner", NoCall)
      BY <1>9 DEF InsertOwner
    <3> QED BY <1>1, <3>1, Ends
  <2>7. \A d \in Calls : call'[d] # NoCall /\ call'[d].op = "addOwner" =>
                           call'[d].room \notin {q.room}
    BY <2>1, <2>6, <1>3 DEF CallsRight
  <2>8. UNCHANGED <<rooms, invitations, imports>>
    BY <1>9 DEF InsertOwner
  <2> HIDE DEF q
  <2> QED BY <1>2, <2>2, <2>3, <2>5, <2>6, <2>7, <2>8, InvKept DEF RoomExists, ImportExists
<1>10. ASSUME NEW c \in Calls, InsertInvitation(c) PROVE RoomInv'
  <2>1. call[c] \in Served /\ call[c].op = "invite" /\ call[c] # NoCall
    BY <1>1, <1>10 DEF InsertInvitation, Writes, CallsTypeOK
  <2>2. HasMembers(InvitedTo[call[c].invitation])
    BY <2>1, <1>3 DEF CallsRight, StillTrue
  <2>3. CallsGoOn
    <3>1. Writes(c, "invite", NoCall)
      BY <1>10 DEF InsertInvitation
    <3> QED BY <1>1, <3>1, Ends
  <2>4. \A i \in Invitations : invitations'[i] # "none" =>
                            invitations[i] # "none" \/ HasMembers(InvitedTo[i])
    BY <1>1, <1>10, <2>1, <2>2, Fields, RowTypes DEF InsertInvitation
  <2>5. UNCHANGED <<rooms, members, imports>>
    BY <1>10 DEF InsertInvitation
  <2>6. MembersKept({})
    BY <1>3, <2>5, SameMembers
  <2> QED BY <1>2, <2>3, <2>4, <2>5, <2>6, InvKept DEF RoomExists, ImportExists
<1>11. ASSUME NEW r \in Rooms, NEW u \in Users, NEW role, NEW status \in MemberStatuses,
              Put(r, u, role, status), HasMembers(r),
              role = "OWNER" => members[r][u].role = "OWNER",
              \/ members[r][u].role # "OWNER" \/ members[r][u].status # "ACTIVE"
              \/ Cardinality(ActiveOwners(r)) > 1,
              CallsGoOn, UNCHANGED <<rooms, invitations, imports>>
       PROVE  RoomInv'
  <2>1. MembersKept({})
    BY <1>1, <1>3, <1>11, OthersOwn, PutKeeps
  <2> QED BY <1>2, <1>11, <2>1, InvKept DEF RoomExists, ImportExists
<1>12. ASSUME NEW c \in Calls, SetRole(c) PROVE RoomInv'
  <2> DEFINE q == call[c]
  <2>1. q \in Served /\ q.op = "setRole" /\ q # NoCall
    BY <1>1, <1>12 DEF SetRole, Writes, CallsTypeOK
  <2>2. q.room \in Rooms /\ q.target \in Users /\ q.role \in Roles
    BY <2>1, Fields
  <2>3. IsMember(q.room, q.target) /\ members[q.room][q.target].role # "OWNER"
    BY <2>1, <1>3 DEF CallsRight, StillTrue
  <2>4. members[q.room][q.target].status \in MemberStatuses /\ HasMembers(q.room)
    BY <1>1, <2>2, <2>3, MemberTypes DEF IsMember, HasMembers
  <2>5. q.role # "OWNER"
    BY <2>2 DEF Roles
  <2>6. /\ Put(q.room, q.target, q.role, members[q.room][q.target].status)
        /\ UNCHANGED <<rooms, invitations, imports>>
    BY <1>12 DEF SetRole
  <2>7. CallsGoOn
    <3>1. Writes(c, "setRole", NoCall)
      BY <1>12 DEF SetRole
    <3> QED BY <1>1, <3>1, Ends
  <2> HIDE DEF q
  <2> QED BY <1>11, <2>2, <2>3, <2>4, <2>5, <2>6, <2>7
<1>13. ASSUME NEW c \in Calls, SetStatus(c) PROVE RoomInv'
  <2> DEFINE q == call[c]
  <2>1. q \in Served /\ q.op = "setStatus" /\ q # NoCall
    BY <1>1, <1>13 DEF SetStatus, Writes, CallsTypeOK
  <2>2. q.room \in Rooms /\ q.target \in Users /\ q.status \in MemberStatuses
    BY <2>1, Fields
  <2>3. IsMember(q.room, q.target) /\ members[q.room][q.target].role # "OWNER"
    BY <2>1, <1>3 DEF CallsRight, StillTrue
  <2>4. HasMembers(q.room)
    BY <2>2, <2>3 DEF HasMembers
  <2>5. /\ Put(q.room, q.target, members[q.room][q.target].role, q.status)
        /\ UNCHANGED <<rooms, invitations, imports>>
    BY <1>13 DEF SetStatus
  <2>6. CallsGoOn
    <3>1. \/ Writes(c, "setStatus", NoCall)
          \/ Writes(c, "setStatus", RevokeMember(q.room, q.target))
      BY <1>13 DEF SetStatus
    <3> QED BY <1>1, <3>1, Ends, Moves, RestTrue
  <2> HIDE DEF q
  <2> QED BY <1>11, <2>2, <2>3, <2>4, <2>5, <2>6
<1>14. ASSUME NEW c \in Calls, Leave(c) PROVE RoomInv'
  <2> DEFINE q == call[c]
  <2>1. q \in Served /\ q.op = "leave" /\ q # NoCall
    BY <1>1, <1>14 DEF Leave, Writes, CallsTypeOK
  <2>2. q.room \in Rooms /\ q.user \in Users /\ "REMOVED" \in MemberStatuses
    BY <2>1, Fields DEF MemberStatuses
  <2>3. /\ IsMember(q.room, q.user)
        /\ members[q.room][q.user].role # "OWNER" \/ Cardinality(ActiveOwners(q.room)) > 1
    BY <1>14 DEF Leave, MayLeave
  <2>4. HasMembers(q.room)
    BY <2>2, <2>3 DEF HasMembers
  <2>5. /\ Put(q.room, q.user, members[q.room][q.user].role, "REMOVED")
        /\ UNCHANGED <<rooms, invitations, imports>>
    BY <1>14 DEF Leave
  <2>6. CallsGoOn
    BY <1>1, <1>14, Ends, Moves, RestTrue DEF Leave
  <2> HIDE DEF q
  <2> QED BY <1>11, <2>2, <2>3, <2>4, <2>5, <2>6
<1>15. ASSUME NEW i \in Invitations, Redeem(i) PROVE RoomInv'
  <2>1. InvitedTo[i] \in Rooms /\ Invitee[i] \in Users /\ "ACTIVE" \in MemberStatuses
    BY RowsAssumption DEF MemberStatuses
  <2>2. HasMembers(InvitedTo[i])
    BY <1>15, <1>3 DEF Redeem, MembersFirst
  <2>3. members[InvitedTo[i]][Invitee[i]].status # "ACTIVE"
    BY <1>15 DEF Redeem, IsMember
  <2>4. /\ Put(InvitedTo[i], Invitee[i], "AGENT_USER", "ACTIVE")
        /\ UNCHANGED <<rooms, invitations, imports, call>>
    BY <1>15 DEF Redeem, DisturbsAll
  <2>5. CallsGoOn
    BY <2>4 DEF CallsGoOn
  <2> QED BY <1>11, <2>1, <2>2, <2>3, <2>4, <2>5
<1>16. ASSUME NEW c \in Calls, Handoff(c) PROVE RoomInv'
  <2>1. call[c] \in Served /\ call[c].op = "handoff"
    BY <1>1, <1>16 DEF Handoff, Writes, CallsTypeOK
  <2>2. call[c].room \in Rooms
    BY <2>1, Fields
  <2>3. rooms \in [Rooms -> RoomRow] /\ rooms[call[c].room].binding \in 0 .. MaxBinding
    BY <1>1, <2>2, RowTypes DEF RoomRow
  <2>4. \A r \in Rooms : RoomExists(r) => RoomExists(r)'
    BY <1>16, <2>2, <2>3, RowsAssumption DEF Handoff, RoomExists
  <2>5. CallsGoOn
    <3>1. Writes(c, "handoff", NoCall)
      BY <1>16 DEF Handoff
    <3> QED BY <1>1, <3>1, Ends
  <2> QED BY <1>2, <1>16, <2>4, <2>5, QuietKeeps DEF Handoff, ImportExists
<1>17. ASSUME NEW c \in Calls, InsertFile(c) \/ DeleteFile(c) \/ RevokeDevice(c)
       PROVE  RoomInv'
  <2>1. CallsGoOn
    <3>1. \/ Writes(c, "upload", NoCall) \/ Writes(c, "delete", NoCall)
          \/ Writes(c, "revokeDevice", RevokeHost(call[c].device))
      BY <1>17 DEF InsertFile, DeleteFile, RevokeDevice
    <3> QED BY <1>1, <3>1, Ends, Moves, RestTrue
  <2> QED BY <1>2, <1>17, <2>1, QuietKeeps
          DEF InsertFile, DeleteFile, RevokeDevice, RoomExists, ImportExists
<1>18. ASSUME NEW c \in Calls, InsertImport(c) \/ Approve(c) \/ Reject(c) \/ Complete(c)
       PROVE  RoomInv'
  <2>1. CallsGoOn
    <3>1. \/ Writes(c, "preview", NoCall) \/ Writes(c, "approve", NoCall)
          \/ Writes(c, "reject", NoCall) \/ Writes(c, "complete", NoCall)
      BY <1>18 DEF InsertImport, Approve, Reject, Complete
    <3> QED BY <1>1, <3>1, Ends
  <2>2. UNCHANGED <<members, invitations, rooms>>
    BY <1>18 DEF InsertImport, Approve, Reject, Complete, PutImport
  <2>3. ASSUME NEW m \in Imports, ImportExists(m)'
        PROVE  ImportExists(m) \/ HasMembers(RoomOf(m))
    <3>1. /\ call[c] \in Served /\ call[c] # NoCall
          /\ call[c].op \in {"preview", "approve", "reject", "complete"}
      BY <1>1, <1>18 DEF InsertImport, Approve, Reject, Complete, Writes, CallsTypeOK
    <3>2. m # call[c].import => imports'[m] = imports[m]
      BY <1>1, <1>18, <2>3, RowTypes
      DEF InsertImport, Approve, Reject, Complete, PutImport
    <3>3. CASE m = call[c].import /\ call[c].op \in {"approve", "complete"}
      BY <1>18, <3>3 DEF InsertImport, Approve, Reject, Complete, Writes, StillPreview,
                         ImportExists
    <3>4. CASE m = call[c].import /\ call[c].op \in {"preview", "reject"}
      BY <3>1, <3>4, <1>3 DEF CallsRight, StillTrue
    <3> QED BY <2>3, <3>1, <3>2, <3>3, <3>4 DEF ImportExists
  <2> QED BY <1>2, <2>1, <2>2, <2>3, QuietKeeps DEF RoomExists
<1>19. ASSUME NEW c \in Calls, IssueGrant(c) \/ RevokeConnections(c) \/ Fail(c)
       PROVE  RoomInv'
  <2>1. CallsGoOn
    BY <1>1, <1>19 DEF IssueGrant, RevokeConnections, Fail, CallsGoOn, CallsTypeOK
  <2>2. UNCHANGED rows
    BY <1>19 DEF IssueGrant, RevokeConnections, Fail
  <2> QED BY <1>2, <2>1, <2>2, QuietKeeps DEF rows, RoomExists, ImportExists
<1>20. ASSUME UNCHANGED <<members, invitations, rooms, imports, call>> PROVE RoomInv'
  <2>1. CallsGoOn
    BY <1>20 DEF CallsGoOn
  <2> QED BY <1>2, <1>20, <2>1, QuietKeeps DEF RoomExists, ImportExists
<1>21. ASSUME NEW d \in Devices, RegisterDevice(d) \/ Heartbeat(d) \/ FallSilent(d)
       PROVE  RoomInv'
  BY <1>20, <1>21 DEF RegisterDevice, Heartbeat, FallSilent, PutDevice, DisturbsAll
<1>22. ASSUME NEW s \in OrganizationStatuses, SetEntitlement(s) PROVE RoomInv'
  BY <1>20, <1>22 DEF SetEntitlement, DisturbsAll
<1>23. ASSUME NEW i \in Invitations, Expire(i) PROVE RoomInv'
  <2>1. CallsGoOn
    BY <1>23 DEF Expire, DisturbsAll, CallsGoOn
  <2>2. UNCHANGED <<members, rooms, imports>>
    BY <1>23 DEF Expire
  <2>3. MembersKept({})
    BY <1>3, <2>2, SameMembers
  <2>4. \A j \in Invitations : invitations'[j] # "none" => invitations[j] # "none"
    BY <1>1, <1>23, RowTypes DEF Expire
  <2> QED BY <1>2, <2>1, <2>2, <2>3, <2>4, InvKept DEF RoomExists, ImportExists
<1>24. ASSUME NEW g, Connect(g) \/ ExpireGrant(g) PROVE RoomInv'
  BY <1>20, <1>24 DEF Connect, ExpireGrant, rows
<1>25. ASSUME NEW m \in Imports, StartImport(m) PROVE RoomInv'
  BY <1>20, <1>25 DEF StartImport, rows
<1>26. CASE RequestApproval
  <2>1. desk.import \in Imports
    BY <1>1, <1>26 DEF RequestApproval, TypeOK, DeskTypeOK
  <2>2. Approval(desk.import) \in Served /\ Desktop \in Calls
    BY <2>1, RestServed, StoreAssumption
  <2>3. Approval(desk.import).op # "addOwner"
    BY DEF Approval
  <2>4. Read(Desktop, Approval(desk.import)) /\ UNCHANGED rows
    BY <1>26 DEF RequestApproval
  <2> QED BY <1>6, <2>2, <2>3, <2>4
<1>27. CASE ReportComplete
  <2>1. desk.import \in Imports /\ desk.device \in Devices
    BY <1>1, <1>27 DEF ReportComplete, Reportable, TypeOK, DeskTypeOK
  <2>2. Completion(desk.import, desk.device) \in Served /\ Desktop \in Calls
    BY <2>1, RestServed, StoreAssumption
  <2>3. Completion(desk.import, desk.device).op # "addOwner"
    BY DEF Completion
  <2>4. Read(Desktop, Completion(desk.import, desk.device)) /\ UNCHANGED rows
    BY <1>27 DEF ReportComplete
  <2> QED BY <1>6, <2>2, <2>3, <2>4
<1>28. CASE WriteFiles \/ GiveUp
  BY <1>20, <1>28 DEF WriteFiles, GiveUp, rows
<1>29. CASE UNCHANGED vars
  BY <1>20, <1>29 DEF vars, rows
<1> QED
  BY <1>7, <1>8, <1>9, <1>10, <1>12, <1>13, <1>14, <1>15, <1>16, <1>17, <1>18, <1>19, <1>21,
     <1>22, <1>23, <1>24, <1>25, <1>26, <1>27, <1>28, <1>29 DEF Next

LEMMA RoomInvInit == Init => RoomInv
<1> SUFFICES ASSUME Init PROVE RoomInv
  OBVIOUS
<1>1. TypeOK
  BY InitTypes
<1>2. \A r \in Rooms, u \in Users : ~IsMember(r, u)
  BY DEF Init, RowsInit, IsMember, NoMember
<1>3. OwnerRemains /\ MembersFirst
  BY <1>2 DEF Init, RowsInit, OwnerRemains, MembersFirst, HasMembers, ImportExists, NoImport
<1>4. CallsRight
  BY DEF Init, CallsRight
<1> QED BY <1>1, <1>3, <1>4 DEF RoomInv

LEMMA RoomInvHolds == Spec => []RoomInv
BY RoomInvInit, RoomInvStep, PTL DEF Spec

\* Every variable has its type in every state, whatever the requests are.
THEOREM TypeCorrect == Spec => []TypeOK
<1>1. RoomInv => TypeOK
  BY DEF RoomInv
<1> QED BY <1>1, RoomInvHolds, PTL

\* A room that has members has an active owner in every state, although the
\* permission to change a member is read in an earlier statement than the change
\* (updateMemberStatus, setMemberRole, leaveRoom).
THEOREM OwnerAlwaysRemains == Spec => []OwnerRemains
<1>1. RoomInv => OwnerRemains
  BY DEF RoomInv
<1> QED BY <1>1, RoomInvHolds, PTL

-----------------------------------------------------------------------------
(* What happens to an import *)

LEMMA ImportsWritten ==
  ASSUME [Next]_vars
  PROVE  \/ UNCHANGED imports
         \/ \E c \in Calls : InsertImport(c) \/ Approve(c) \/ Reject(c) \/ Complete(c)
<1>1. ASSUME NEW c \in Calls, NEW q \in plan, Begin(c, q) PROVE UNCHANGED imports
  BY <1>1 DEF Begin, rows
<1>2. ASSUME NEW c \in Calls,
             \/ InsertRoom(c) \/ InsertOwner(c) \/ InsertInvitation(c) \/ SetRole(c)
             \/ SetStatus(c) \/ Leave(c) \/ Handoff(c) \/ InsertFile(c) \/ DeleteFile(c)
             \/ RevokeDevice(c) \/ IssueGrant(c) \/ RevokeConnections(c) \/ Fail(c)
      PROVE  UNCHANGED imports
  BY <1>2 DEF InsertRoom, InsertOwner, InsertInvitation, SetRole, SetStatus, Leave, Handoff,
              InsertFile, DeleteFile, RevokeDevice, IssueGrant, RevokeConnections, Fail, rows
<1>3. ASSUME NEW d \in Devices, RegisterDevice(d) \/ Heartbeat(d) \/ FallSilent(d)
      PROVE  UNCHANGED imports
  BY <1>3 DEF RegisterDevice, Heartbeat, FallSilent, PutDevice
<1>4. ASSUME NEW s \in OrganizationStatuses, SetEntitlement(s) PROVE UNCHANGED imports
  BY <1>4 DEF SetEntitlement
<1>5. ASSUME NEW i \in Invitations, Redeem(i) \/ Expire(i) PROVE UNCHANGED imports
  BY <1>5 DEF Redeem, Expire
<1>6. ASSUME NEW g, Connect(g) \/ ExpireGrant(g) PROVE UNCHANGED imports
  BY <1>6 DEF Connect, ExpireGrant, rows
<1>7. ASSUME NEW m \in Imports, StartImport(m) PROVE UNCHANGED imports
  BY <1>7 DEF StartImport, rows
<1>8. CASE RequestApproval \/ WriteFiles \/ ReportComplete \/ GiveUp \/ UNCHANGED vars
  BY <1>8 DEF RequestApproval, WriteFiles, ReportComplete, GiveUp, vars, rows
<1> QED BY <1>1, <1>2, <1>3, <1>4, <1>5, <1>6, <1>7, <1>8 DEF Next

\* The proposal a call writes about, and what each of the four writes does to it.
LEMMA ImportCells ==
  ASSUME RowsTypeOK, CallsTypeOK, NEW c \in Calls,
         InsertImport(c) \/ Approve(c) \/ Reject(c) \/ Complete(c)
  PROVE  /\ call[c] # NoCall /\ call[c].import \in Imports
         /\ \A m \in Imports : m # call[c].import => imports'[m] = imports[m]
         /\ LET was == imports[call[c].import]
                is == imports'[call[c].import]
            IN  \/ /\ InsertImport(c) /\ was.status = "none"
                   /\ is.status = "PREVIEW" /\ is.approvedBy = {}
                \/ /\ Approve(c) /\ was.status = "PREVIEW"
                   /\ is.status = "APPROVED" /\ is.approvedBy # {}
                \/ /\ Reject(c)
                   /\ is.status = "REJECTED" /\ is.approvedBy = was.approvedBy
                \/ /\ Complete(c) /\ was.status = "APPROVED"
                   /\ is.status = "IMPORTED" /\ is.approvedBy = was.approvedBy
<1>1. /\ call[c] # NoCall /\ call[c] \in Served
      /\ call[c].op \in {"preview", "approve", "reject", "complete"}
  BY DEF InsertImport, Approve, Reject, Complete, Writes, CallsTypeOK
<1>2. call[c].import \in Imports
  BY <1>1, Fields
<1>3. imports \in [Imports -> ImportRow] /\ imports[call[c].import] \in ImportRow
  BY <1>2, RowTypes
<1>4. \A m \in Imports : m # call[c].import => imports'[m] = imports[m]
  BY <1>2, <1>3 DEF InsertImport, Approve, Reject, Complete, PutImport
<1> DEFINE was == imports[call[c].import]
           is == imports'[call[c].import]
<1>5. CASE InsertImport(c)
  BY <1>1, <1>2, <1>3, <1>4, <1>5 DEF InsertImport, PutImport
<1>6. CASE Approve(c)
  BY <1>1, <1>2, <1>3, <1>4, <1>6 DEF Approve, PutImport, StillPreview
<1>7. CASE Reject(c)
  <2>1. is = [was EXCEPT !.status = "REJECTED"]
    BY <1>2, <1>3, <1>7 DEF Reject, PutImport
  <2>2. is.status = "REJECTED" /\ is.approvedBy = was.approvedBy
    BY <1>3, <2>1 DEF ImportRow
  <2> QED BY <1>1, <1>2, <1>4, <1>7, <2>2
<1>8. CASE Complete(c)
  <2>1. is = [was EXCEPT !.status = "IMPORTED"] /\ was.status = "APPROVED"
    BY <1>2, <1>3, <1>8 DEF Complete, PutImport
  <2>2. is.status = "IMPORTED" /\ is.approvedBy = was.approvedBy
    BY <1>3, <2>1 DEF ImportRow
  <2> QED BY <1>1, <1>2, <1>4, <1>8, <2>1, <2>2
<1> QED BY <1>1, <1>2, <1>4, <1>5, <1>6, <1>7, <1>8

\* A rejection is final, although rejectRoomFileImport, approveRoomFileImport and
\* completeRoomFileImport read the proposal in an earlier statement.
THEOREM RejectionIsFinal == Spec => RejectedStays
<1>1. ASSUME TypeOK, [Next]_vars, NEW m \in Imports, imports[m].status = "REJECTED"
      PROVE  imports'[m].status = "REJECTED"
  <2>1. CASE UNCHANGED imports
    BY <1>1, <2>1
  <2>2. CASE \E c \in Calls : InsertImport(c) \/ Approve(c) \/ Reject(c) \/ Complete(c)
    <3>1. PICK c \in Calls : InsertImport(c) \/ Approve(c) \/ Reject(c) \/ Complete(c)
      BY <2>2
    <3> QED BY <1>1, <3>1, ImportCells DEF TypeOK
  <2> QED BY <1>1, <2>1, <2>2, ImportsWritten
<1>2. TypeOK /\ [Next]_vars =>
        [\A m \in Imports : imports[m].status = "REJECTED" => imports'[m].status = "REJECTED"]_vars
  BY <1>1
<1> QED BY <1>2, TypeCorrect, PTL DEF Spec, RejectedStays

\* Only the desktop completes an import, and it is waiting for the answer then.
LEMMA DeskCalls ==
  ASSUME CallsTypeOK, DeskRight, NEW c \in Calls, call[c] # NoCall
  PROVE  /\ call[c].op = "complete" => c = Desktop
         /\ c = Desktop => /\ desk.step \in {"approving", "completing"}
                           /\ call[c].import = desk.import
                           /\ desk.step = "approving" <=> call[c].op = "approve"
                           /\ desk.step = "completing" <=> call[c].op = "complete"
BY DEF DeskRight

LEMMA ImportsStep ==
  ASSUME ImportInv, [Next]_vars
  PROVE  /\ ApprovedBySome'
         /\ \A m \in Imports :
              /\ imports[m].approvedBy # {} => imports'[m].approvedBy # {}
              /\ imports'[m].status = "IMPORTED" => <<m, ThisDevice>> \in written
<1>1. RowsTypeOK /\ CallsTypeOK /\ ApprovedBySome /\ DeskRight
  BY DEF ImportInv, TypeOK
<1>2. \A m \in Imports : imports[m].status = "IMPORTED" => <<m, ThisDevice>> \in written
  BY DEF ImportInv, ImportedInOrder
<1>3. CASE UNCHANGED imports
  BY <1>1, <1>2, <1>3 DEF ApprovedBySome
<1>4. ASSUME NEW c \in Calls,
             InsertImport(c) \/ Approve(c) \/ Reject(c) \/ Complete(c)
      PROVE  /\ ApprovedBySome'
             /\ \A m \in Imports :
                  /\ imports[m].approvedBy # {} => imports'[m].approvedBy # {}
                  /\ imports'[m].status = "IMPORTED" => <<m, ThisDevice>> \in written
  <2>1. Complete(c) => <<call[c].import, ThisDevice>> \in written
    <3>1. Complete(c) => call[c] # NoCall /\ call[c].op = "complete"
      BY DEF Complete, Writes
    <3> QED BY <1>1, <3>1, DeskCalls DEF DeskRight
  <2> QED BY <1>1, <1>2, <1>4, <2>1, ImportCells DEF ApprovedBySome
<1> QED BY <1>3, <1>4, ImportsWritten

LEMMA DeskRightStep ==
  ASSUME ImportInv, [Next]_vars
  PROVE  DeskRight'
<1>1. /\ CallsTypeOK /\ DeskRight /\ DeskTypeOK /\ Desktop \in Calls
      /\ \A m \in Imports : imports[m].status = "APPROVED" => imports[m].approvedBy # {}
  BY StoreAssumption DEF ImportInv, TypeOK, ApprovedBySome
<1>2. \A m \in Imports : imports[m].approvedBy # {} => imports'[m].approvedBy # {}
  BY ImportsStep
<1>3. ASSUME NEW c \in Calls, NEW op, NEW more, Writes(c, op, more)
      PROVE  /\ call[c] # NoCall /\ call[c].op = op /\ UNCHANGED written
             /\ call'[c] = more
             /\ \A d \in Calls : d # c => call'[d] = call[d]
  BY <1>1, <1>3 DEF Writes, CallsTypeOK
\* The desktop goes on as it was, and no other call becomes a completion.
<1>4. ASSUME UNCHANGED <<desk, written>>, call'[Desktop] = call[Desktop],
             \A c \in Calls : \/ call'[c] = call[c] \/ call'[c] = NoCall
                              \/ call'[c].op # "complete"
      PROVE  DeskRight'
  <2>1. desk.step \in {"approved", "written", "completing"} =>
          imports'[desk.import].approvedBy # {}
    BY <1>1, <1>2 DEF DeskRight, DeskTypeOK
  <2> QED BY <1>1, <1>4, <2>1 DEF DeskRight
<1>5. ASSUME NEW c \in Calls, NEW q \in plan, Begin(c, q) PROVE DeskRight'
  <2>1. q \in ToRead
    BY <1>1, <1>5, BeginServes
  <2>2. q.op # "complete"
    BY <2>1 DEF ToRead, Requests, Atomic
  <2> QED BY <1>1, <1>4, <1>5, <2>2 DEF Begin, Read, host, CallsTypeOK
<1>6. ASSUME NEW c \in Calls,
             \/ InsertRoom(c) \/ InsertOwner(c) \/ InsertInvitation(c) \/ SetRole(c)
             \/ SetStatus(c) \/ Leave(c) \/ Handoff(c) \/ InsertFile(c) \/ DeleteFile(c)
             \/ InsertImport(c) \/ Reject(c) \/ RevokeDevice(c)
      PROVE  DeskRight'
  <2>1. UNCHANGED desk
    BY <1>6 DEF InsertRoom, InsertOwner, InsertInvitation, SetRole, SetStatus, Leave, Handoff,
                InsertFile, DeleteFile, InsertImport, Reject, RevokeDevice
  <2>2. PICK op, more :
          /\ op \in {"createRoom", "addOwner", "invite", "setRole", "setStatus", "leave",
                     "handoff", "upload", "delete", "preview", "reject", "revokeDevice"}
          /\ Writes(c, op, more)
    BY <1>6 DEF InsertRoom, InsertOwner, InsertInvitation, SetRole, SetStatus, Leave, Handoff,
                InsertFile, DeleteFile, InsertImport, Reject, RevokeDevice
  <2>3. c # Desktop
    BY <1>1, <1>3, <2>2, DeskCalls
  <2>4. more = NoCall \/ more.op # "complete"
    <3>1. CASE more = NoCall \/ ~InsertRoom(c)
      BY <1>1, <1>3, <1>6, <2>2, <3>1
      DEF InsertOwner, InsertInvitation, SetRole, SetStatus, Leave, Handoff,
          InsertFile, DeleteFile, InsertImport, Reject, RevokeDevice, RevokeMember, RevokeHost
    <3>2. CASE InsertRoom(c)
      <4>1. call[c] \in Served /\ call[c].op = "createRoom"
        BY <1>1, <3>2 DEF InsertRoom, Writes, CallsTypeOK
      <4>2. call[c] \in [op : {"createRoom", "handoff", "grant"}, user : Users,
                         room : Rooms, device : Devices]
        BY <4>1 DEF Served, ToRead, Requests, Rest, ToComplete
      <4> QED BY <1>1, <1>3, <2>2, <3>2, <4>2 DEF InsertRoom, Writes, CallsTypeOK
    <3> QED BY <3>1, <3>2
  <2> QED BY <1>1, <1>3, <1>4, <2>1, <2>2, <2>3, <2>4
<1>7. ASSUME NEW c \in Calls, Approve(c) PROVE DeskRight'
  <2>1. /\ Writes(c, "approve", NoCall)
        /\ Answered(c, "approved")
    BY <1>7 DEF Approve
  <2>2. /\ call[c] # NoCall /\ call[c].op = "approve"
        /\ UNCHANGED written /\ call'[c] = NoCall
        /\ \A d \in Calls : d # c => call'[d] = call[d]
    BY <1>3, <2>1
  <2>3. CASE c = Desktop
    <3>1. desk.step = "approving" /\ call[c].import = desk.import
      BY <1>1, <2>2, <2>3, DeskCalls
    <3>2. /\ desk' = [desk EXCEPT !.step = "approved"]
          /\ desk'.step = "approved" /\ desk'.import = desk.import
      BY <1>1, <2>1, <2>3 DEF Answered, DeskTypeOK
    <3>3. imports'[desk.import].approvedBy # {}
      BY <1>1, <1>7, <3>1, ImportCells DEF ImportInv, TypeOK, Approve, InsertImport, Reject,
         Complete, Writes
    <3> QED BY <1>1, <2>2, <2>3, <3>2, <3>3 DEF DeskRight
  <2>4. CASE c # Desktop
    BY <1>1, <1>4, <2>1, <2>2, <2>4 DEF Answered
  <2> QED BY <2>3, <2>4
<1>8. ASSUME NEW c \in Calls, call[c] # NoCall, call'[c] = NoCall, UNCHANGED written,
             \A d \in Calls : d # c => call'[d] = call[d],
             Answered(c, "idle")
      PROVE  DeskRight'
  <2>1. CASE c = Desktop
    <3>1. desk'.step = "idle"
      BY <1>1, <1>8, <2>1 DEF Answered, DeskTypeOK
    <3> QED BY <1>1, <1>8, <2>1, <3>1 DEF DeskRight
  <2>2. CASE c # Desktop
    BY <1>1, <1>4, <1>8, <2>2 DEF Answered
  <2> QED BY <2>1, <2>2
<1>9. ASSUME NEW c \in Calls, Complete(c) \/ Fail(c) PROVE DeskRight'
  BY <1>1, <1>8, <1>9 DEF Complete, Fail, Writes, CallsTypeOK
<1>10. ASSUME NEW c \in Calls, IssueGrant(c) \/ RevokeConnections(c) PROVE DeskRight'
  <2>1. call[c] # NoCall /\ call[c].op \in {"grant", "revokeMember", "revokeHost"}
    BY <1>10 DEF IssueGrant, RevokeConnections
  <2>2. c # Desktop
    BY <1>1, <2>1, DeskCalls
  <2> QED BY <1>1, <1>4, <1>10, <2>2 DEF IssueGrant, RevokeConnections, host, CallsTypeOK
<1>11. ASSUME UNCHANGED <<call, desk, written>> PROVE DeskRight'
  BY <1>4, <1>11
<1>12. ASSUME NEW d \in Devices, RegisterDevice(d) \/ Heartbeat(d) \/ FallSilent(d)
       PROVE  DeskRight'
  BY <1>11, <1>12 DEF RegisterDevice, Heartbeat, FallSilent, DisturbsAll, host
<1>13. ASSUME NEW s \in OrganizationStatuses, SetEntitlement(s) PROVE DeskRight'
  BY <1>11, <1>13 DEF SetEntitlement, DisturbsAll, host
<1>14. ASSUME NEW i \in Invitations, Redeem(i) \/ Expire(i) PROVE DeskRight'
  BY <1>11, <1>14 DEF Redeem, Expire, DisturbsAll, host
<1>15. ASSUME NEW g, Connect(g) \/ ExpireGrant(g) PROVE DeskRight'
  BY <1>11, <1>15 DEF Connect, ExpireGrant, host
<1>16. ASSUME NEW m \in Imports, StartImport(m) PROVE DeskRight'
  <2>1. /\ desk.step = "idle" /\ UNCHANGED <<call, written, imports>>
        /\ desk'.step = NextStep(m) /\ desk'.import = m
    BY <1>16 DEF StartImport, rows
  <2>2. /\ NextStep(m) \in {"idle", "approve", "approved"}
        /\ NextStep(m) = "approved" => imports[m].status = "APPROVED"
    BY DEF NextStep
  <2>3. call[Desktop] = NoCall
    BY <1>1, <2>1 DEF DeskRight
  <2> QED BY <1>1, <2>1, <2>2, <2>3 DEF DeskRight
<1>17. CASE RequestApproval
  <2>1. desk.step = "approve" /\ desk.import \in Imports /\ UNCHANGED written
    BY <1>1, <1>17 DEF RequestApproval, DeskTypeOK
  <2>2. desk'.step = "approving" /\ desk'.import = desk.import
    BY <1>1, <1>17 DEF RequestApproval, DeskTypeOK
  <2>3. /\ call'[Desktop] = Approval(desk.import)
        /\ \A c \in Calls : c # Desktop => call'[c] = call[c]
    BY <1>1, <1>17 DEF RequestApproval, Read, CallsTypeOK
  <2> QED BY <1>1, <2>1, <2>2, <2>3 DEF DeskRight, Approval
<1>18. CASE ReportComplete
  <2>1. desk.step = "written" /\ UNCHANGED <<written, imports>>
    BY <1>18 DEF ReportComplete, Reportable, rows
  <2>2. desk'.step = "completing" /\ desk'.import = desk.import
    BY <1>1, <1>18 DEF ReportComplete, DeskTypeOK
  <2>3. /\ call'[Desktop] = Completion(desk.import, desk.device)
        /\ \A c \in Calls : c # Desktop => call'[c] = call[c]
    BY <1>1, <1>18 DEF ReportComplete, Read, CallsTypeOK
  <2> QED BY <1>1, <2>1, <2>2, <2>3 DEF DeskRight, Completion
<1>19. CASE WriteFiles
  <2>1. desk.step = "approved" /\ UNCHANGED <<call, imports>>
        /\ written' = written \cup {<<desk.import, ThisDevice>>}
    BY <1>19 DEF WriteFiles, rows
  <2>2. desk'.step = "written" /\ desk'.import = desk.import
    BY <1>1, <1>19 DEF WriteFiles, DeskTypeOK
  <2> QED BY <1>1, <2>1, <2>2 DEF DeskRight
<1>20. CASE GiveUp
  <2>1. desk'.step = "idle" /\ UNCHANGED <<call, written>>
    BY <1>1, <1>20 DEF GiveUp, DeskTypeOK
  <2>2. call[Desktop] = NoCall
    BY <1>1, <1>20 DEF GiveUp, DeskRight
  <2> QED BY <1>1, <2>1, <2>2 DEF DeskRight
<1>21. CASE UNCHANGED vars
  BY <1>11, <1>21 DEF vars, host
<1> QED
  BY <1>5, <1>6, <1>7, <1>9, <1>10, <1>12, <1>13, <1>14, <1>15, <1>16, <1>17, <1>18, <1>19,
     <1>20, <1>21 DEF Next

LEMMA WrittenStep ==
  ASSUME [Next]_vars
  PROVE  \/ UNCHANGED written
         \/ WriteFiles /\ written' = written \cup {<<desk.import, ThisDevice>>}
<1>1. ASSUME NEW c \in Calls, NEW q \in plan, Begin(c, q) PROVE UNCHANGED written
  BY <1>1 DEF Begin, host
<1>2. ASSUME NEW c \in Calls,
             \/ InsertRoom(c) \/ InsertOwner(c) \/ InsertInvitation(c) \/ SetRole(c)
             \/ SetStatus(c) \/ Leave(c) \/ Handoff(c) \/ InsertFile(c) \/ DeleteFile(c)
             \/ InsertImport(c) \/ Approve(c) \/ Reject(c) \/ Complete(c) \/ RevokeDevice(c)
      PROVE  UNCHANGED written
  BY <1>2 DEF InsertRoom, InsertOwner, InsertInvitation, SetRole, SetStatus, Leave, Handoff,
              InsertFile, DeleteFile, InsertImport, Approve, Reject, Complete, RevokeDevice,
              Writes
<1>3. ASSUME NEW c \in Calls, IssueGrant(c) \/ RevokeConnections(c) \/ Fail(c)
      PROVE  UNCHANGED written
  BY <1>3 DEF IssueGrant, RevokeConnections, Fail, host
<1>4. ASSUME NEW d \in Devices, RegisterDevice(d) \/ Heartbeat(d) \/ FallSilent(d)
      PROVE  UNCHANGED written
  BY <1>4 DEF RegisterDevice, Heartbeat, FallSilent, DisturbsAll, host
<1>5. ASSUME NEW s \in OrganizationStatuses, SetEntitlement(s) PROVE UNCHANGED written
  BY <1>5 DEF SetEntitlement, DisturbsAll, host
<1>6. ASSUME NEW i \in Invitations, Redeem(i) \/ Expire(i) PROVE UNCHANGED written
  BY <1>6 DEF Redeem, Expire, DisturbsAll, host
<1>7. ASSUME NEW g, Connect(g) \/ ExpireGrant(g) PROVE UNCHANGED written
  BY <1>7 DEF Connect, ExpireGrant, host
<1>8. ASSUME NEW m \in Imports, StartImport(m) PROVE UNCHANGED written
  BY <1>8 DEF StartImport
<1>9. CASE RequestApproval \/ ReportComplete \/ GiveUp \/ UNCHANGED vars
  BY <1>9 DEF RequestApproval, ReportComplete, GiveUp, vars, host
<1>10. CASE WriteFiles
  BY <1>10 DEF WriteFiles
<1> QED BY <1>1, <1>2, <1>3, <1>4, <1>5, <1>6, <1>7, <1>8, <1>9, <1>10 DEF Next

LEMMA ImportInvStep == ImportInv /\ [Next]_vars => ImportInv'
<1> SUFFICES ASSUME ImportInv, [Next]_vars PROVE ImportInv'
  OBVIOUS
<1>1. TypeOK /\ DeskRight /\ ImportedInOrder
  BY DEF ImportInv
<1>2. TypeOK'
  BY <1>1, TypesStep, DeskTypesStep DEF TypeOK
<1>3. /\ ApprovedBySome'
      /\ \A m \in Imports :
           /\ imports[m].approvedBy # {} => imports'[m].approvedBy # {}
           /\ imports'[m].status = "IMPORTED" => <<m, ThisDevice>> \in written
  BY ImportsStep
<1>4. DeskRight'
  BY DeskRightStep
<1>5. ASSUME NEW m \in Imports PROVE
        /\ <<m, ThisDevice>> \in written' => imports'[m].approvedBy # {}
        /\ imports'[m].status = "IMPORTED" => <<m, ThisDevice>> \in written'
  <2>1. <<m, ThisDevice>> \in written => imports[m].approvedBy # {}
    BY <1>1 DEF ImportedInOrder
  <2>2. CASE UNCHANGED written
    BY <1>3, <2>1, <2>2
  <2>3. CASE WriteFiles /\ written' = written \cup {<<desk.import, ThisDevice>>}
    <3>1. desk.import \in Imports /\ imports[desk.import].approvedBy # {}
      BY <1>1, <2>3 DEF WriteFiles, DeskRight, TypeOK, DeskTypeOK
    <3> QED BY <1>3, <2>1, <2>3, <3>1
  <2> QED BY <2>2, <2>3, WrittenStep
<1>6. ImportedInOrder'
  BY <1>5 DEF ImportedInOrder
<1> QED BY <1>2, <1>3, <1>4, <1>6 DEF ImportInv

LEMMA ImportInvInit == Init => ImportInv
<1> SUFFICES ASSUME Init PROVE ImportInv
  OBVIOUS
<1>1. TypeOK
  BY InitTypes
<1>2. DeskRight
  BY StoreAssumption DEF Init, DeskRight, Idle
<1>3. ApprovedBySome /\ ImportedInOrder
  BY DEF Init, RowsInit, NoImport, ApprovedBySome, ImportedInOrder
<1> QED BY <1>1, <1>2, <1>3 DEF ImportInv

\* Files of a proposal reach the workspace after a member approved it, and it is
\* recorded as imported after they are there (importRoomFile).
THEOREM ImportsGoInOrder == Spec => []ImportedInOrder
<1>1. ImportInv => ImportedInOrder
  BY DEF ImportInv
<1> QED BY <1>1, ImportInvInit, ImportInvStep, PTL DEF Spec

-----------------------------------------------------------------------------
(* What a call has read *)

\* The writes of calls, and the calls of one statement.
RowWrite(c) ==
  \/ InsertRoom(c) \/ InsertOwner(c) \/ InsertInvitation(c) \/ SetRole(c)
  \/ SetStatus(c) \/ Leave(c) \/ Handoff(c) \/ InsertFile(c) \/ DeleteFile(c)
  \/ InsertImport(c) \/ Approve(c) \/ Reject(c) \/ Complete(c) \/ RevokeDevice(c)

AtOnce ==
  \/ \E d \in Devices : RegisterDevice(d) \/ Heartbeat(d) \/ FallSilent(d)
  \/ \E s \in OrganizationStatuses : SetEntitlement(s)
  \/ \E i \in Invitations : Redeem(i) \/ Expire(i)

LEMMA ServedOps ==
  ASSUME NEW q \in Served
  PROVE  q.op \in {"createRoom", "handoff", "grant", "invite", "setRole", "setStatus",
                   "leave", "upload", "delete", "preview", "approve", "reject",
                   "revokeDevice", "addOwner", "revokeMember", "revokeHost", "complete"}
<1>1. CASE q \in ToRead
  <2>1. q \in Requests /\ q.op \notin Atomic
    BY <1>1 DEF ToRead
  <2> QED BY <2>1 DEF Requests
<1>2. CASE q \in Rest \cup ToComplete
  BY <1>2 DEF Rest, ToComplete
<1> QED BY <1>1, <1>2 DEF Served

LEMMA SameRead ==
  ASSUME NEW q \in Served, UNCHANGED rows, StillRead(q)
  PROVE  StillRead(q)'
<1> USE DEF rows
<1>1. CASE q.op = "addOwner"
  BY <1>1 DEF StillRead, MayInOrganization
<1>2. CASE q.op \in {"revokeMember", "revokeHost"}
  BY <1>2 DEF StillRead
<1>3. CASE q.op \notin {"addOwner", "revokeMember", "revokeHost"}
  <2>1. Checked(q)
    BY <1>3 DEF StillRead
  <2>2. CASE q.op \in {"createRoom", "invite", "leave", "revokeDevice"}
    BY <2>1, <2>2 DEF StillRead, Checked, MayCreateRoom, MayInOrganization, MayInvite, May,
                      RoomExists
  <2>3. CASE q.op \in {"setRole", "setStatus"}
    BY <2>1, <2>3 DEF StillRead, Checked, MayManage, TargetFound, IsMember, May
  <2>4. CASE q.op \in {"handoff", "upload", "delete", "grant"}
    BY <2>1, <2>4 DEF StillRead, Checked, MayHandOff, MayUpload, MayDelete, MayConnect,
                      AuthorizeRoomAction, RoomExists, May
  <2>5. CASE q.op \in {"preview", "approve"}
    BY <2>1, <2>5 DEF StillRead, Checked, MayPreview, MayApprove, May
  <2>6. CASE q.op \in {"reject", "complete"}
    BY <2>1, <2>6 DEF StillRead, Checked, MayReject, MayComplete, ImportExists, Online, May
  <2> QED BY <1>3, <2>2, <2>3, <2>4, <2>5, <2>6, ServedOps
<1> QED BY <1>1, <1>2, <1>3

\* A write ends what was to be done, or leaves a rest of it; it disturbs all
\* other calls.
LEMMA RowWriteCalls ==
  ASSUME CallsTypeOK, NEW c \in Calls, RowWrite(c)
  PROVE  /\ call[c] \in Served /\ call[c] # NoCall
         /\ call'[c] # call[c]
         /\ \A d \in Calls : d # c => call'[d] = call[d] /\ ~undisturbed'[d]
         /\ undisturbed'[c] = undisturbed[c]
         /\ InsertRoom(c) => call'[c] = [call[c] EXCEPT !.op = "addOwner"]
         /\ ~InsertRoom(c) => \/ call'[c] = NoCall
                              \/ call'[c].op \in {"revokeMember", "revokeHost"}
<1>1. ASSUME NEW op, NEW more, Writes(c, op, more)
      PROVE  /\ call[c] \in Served /\ call[c] # NoCall /\ call[c].op = op
             /\ call'[c] = more
             /\ \A d \in Calls : d # c => call'[d] = call[d] /\ ~undisturbed'[d]
             /\ undisturbed'[c] = undisturbed[c]
  BY <1>1 DEF CallsTypeOK, Writes, Disturbs
<1>2. CASE InsertRoom(c)
  <2> DEFINE more == [call[c] EXCEPT !.op = "addOwner"]
  <2>1. Writes(c, "createRoom", more)
    BY <1>2 DEF InsertRoom
  <2>2. call[c] \in Served /\ call[c].op = "createRoom" /\ call'[c] = more
    BY <1>1, <2>1
  <2>3. call[c] \in [op : {"createRoom", "handoff", "grant"}, user : Users,
                     room : Rooms, device : Devices]
    BY <2>2 DEF Served, ToRead, Requests, Rest, ToComplete
  <2>4. more.op = "addOwner"
    BY <2>3
  <2> HIDE DEF more
  <2>5. call'[c] # call[c]
    BY <2>2, <2>4
  <2>6. call'[c] = more
    BY <2>2
  <2> QED BY <1>1, <1>2, <2>1, <2>5, <2>6 DEF more
<1>3. CASE ~InsertRoom(c)
  <2>1. \E op, more :
          /\ Writes(c, op, more)
          /\ \/ more = NoCall
             \/ more.op \in {"revokeMember", "revokeHost"} /\ op # more.op
    BY <1>3 DEF RowWrite, InsertOwner, InsertInvitation, SetRole, SetStatus, Leave, Handoff,
                InsertFile, DeleteFile, InsertImport, Approve, Reject, Complete, RevokeDevice,
                RevokeMember, RevokeHost
  <2>2. PICK op, more :
          /\ Writes(c, op, more)
          /\ \/ more = NoCall
             \/ more.op \in {"revokeMember", "revokeHost"} /\ op # more.op
    BY <2>1
  <2>3. /\ call[c] \in Served /\ call[c] # NoCall /\ call[c].op = op
        /\ call'[c] = more
    BY <1>1, <2>2
  <2>4. call'[c] # call[c]
    BY <2>2, <2>3
  <2> QED BY <1>1, <1>3, <2>2, <2>3, <2>4
<1> QED BY <1>2, <1>3

LEMMA AtOnceCalls ==
  ASSUME AtOnce
  PROVE  UNCHANGED call /\ \A c \in Calls : ~undisturbed'[c]
BY DEF AtOnce, RegisterDevice, Heartbeat, FallSilent, SetEntitlement, Redeem, Expire,
       DisturbsAll

\* A step that writes no row ends calls, or starts one that reads.
LEMMA OtherSteps ==
  ASSUME CallsTypeOK, DeskTypeOK, [Next]_vars, ~AtOnce, \A c \in Calls : ~RowWrite(c)
  PROVE  /\ UNCHANGED rows
         /\ \A c \in Calls :
              \/ call'[c] = call[c] /\ undisturbed'[c] = undisturbed[c]
              \/ call'[c] = NoCall
              \/ Checked(call'[c]) /\ call'[c].op # "addOwner"
<1>1. ASSUME NEW c \in Calls, NEW q \in Served, Read(c, q), q.op # "addOwner"
      PROVE  \A d \in Calls :
               \/ call'[d] = call[d] /\ undisturbed'[d] = undisturbed[d]
               \/ call'[d] = NoCall
               \/ Checked(call'[d]) /\ call'[d].op # "addOwner"
  BY <1>1 DEF Read, CallsTypeOK
<1>2. ASSUME NEW c \in Calls, NEW q \in plan, Begin(c, q) PROVE UNCHANGED rows
  BY <1>2 DEF Begin
<1>3. ASSUME NEW c \in Calls, NEW q \in plan, Begin(c, q)
      PROVE  \A d \in Calls :
               \/ call'[d] = call[d] /\ undisturbed'[d] = undisturbed[d]
               \/ call'[d] = NoCall
               \/ Checked(call'[d]) /\ call'[d].op # "addOwner"
  <2>1. q \in ToRead /\ q \in Served
    BY <1>3, BeginServes
  <2>2. q.op # "addOwner"
    BY <2>1 DEF ToRead, Requests, Atomic
  <2> QED BY <1>1, <1>3, <2>1, <2>2 DEF Begin
<1>4. CASE RequestApproval
  <2>1. desk.import \in Imports
    BY <1>4 DEF RequestApproval, DeskTypeOK
  <2>2. Approval(desk.import) \in Served /\ Desktop \in Calls
    BY <2>1, RestServed, StoreAssumption
  <2>3. Approval(desk.import).op # "addOwner"
    BY DEF Approval
  <2> QED BY <1>1, <1>4, <2>2, <2>3 DEF RequestApproval
<1>5. CASE ReportComplete
  <2>1. desk.import \in Imports /\ desk.device \in Devices
    BY <1>5 DEF ReportComplete, Reportable, DeskTypeOK
  <2>2. Completion(desk.import, desk.device) \in Served /\ Desktop \in Calls
    BY <2>1, RestServed, StoreAssumption
  <2>3. Completion(desk.import, desk.device).op # "addOwner"
    BY DEF Completion
  <2> QED BY <1>1, <1>5, <2>2, <2>3 DEF ReportComplete
<1>6. ASSUME NEW c \in Calls, IssueGrant(c) \/ RevokeConnections(c) \/ Fail(c)
      PROVE  /\ UNCHANGED rows
             /\ \A d \in Calls : \/ call'[d] = call[d] /\ undisturbed'[d] = undisturbed[d]
                                 \/ call'[d] = NoCall
  BY <1>6 DEF IssueGrant, RevokeConnections, Fail, CallsTypeOK
<1>7. ASSUME NEW g, Connect(g) \/ ExpireGrant(g) PROVE UNCHANGED <<rows, call, undisturbed>>
  BY <1>7 DEF Connect, ExpireGrant
<1>8. ASSUME NEW m \in Imports, StartImport(m) PROVE UNCHANGED <<rows, call, undisturbed>>
  BY <1>8 DEF StartImport
<1>9. CASE WriteFiles \/ GiveUp \/ UNCHANGED vars
  BY <1>9 DEF WriteFiles, GiveUp, vars
<1> QED
  BY <1>2, <1>3, <1>4, <1>5, <1>6, <1>7, <1>8, <1>9 DEF Next, RowWrite, AtOnce

LEMMA FreshStep == RoomInv /\ Fresh /\ [Next]_vars => Fresh'
<1> SUFFICES ASSUME RoomInv, Fresh, [Next]_vars, NEW c \in Calls, NEW q \in Served,
                    q # NoCall, call'[c] = q, undisturbed'[c]
             PROVE  StillRead(q)'
  BY DEF Fresh
<1>1. RowsTypeOK /\ CallsTypeOK /\ DeskTypeOK
  BY DEF RoomInv, TypeOK
<1>2. ASSUME NEW d \in Calls, RowWrite(d) PROVE StillRead(q)'
  <2>1. /\ c = d /\ call[c] \in Served /\ call[c] # NoCall /\ undisturbed[c]
        /\ InsertRoom(c) => q = [call[c] EXCEPT !.op = "addOwner"]
        /\ ~InsertRoom(c) => q.op \in {"revokeMember", "revokeHost"}
    BY <1>1, <1>2, RowWriteCalls
  <2>2. CASE ~InsertRoom(c)
    BY <2>1, <2>2 DEF StillRead
  <2>3. CASE InsertRoom(c)
    <3> DEFINE p == call[c]
    <3>1. p \in Served /\ p.op = "createRoom"
      BY <2>1, <2>3 DEF InsertRoom, Writes
    <3>2. p \in [op : {"createRoom", "handoff", "grant"}, user : Users,
                 room : Rooms, device : Devices]
      BY <3>1 DEF Served, ToRead, Requests, Rest, ToComplete
    <3>3. /\ q.op = "addOwner" /\ q.user = p.user /\ q.room = p.room
          /\ q.device = p.device /\ p.room \in Rooms
      BY <2>1, <2>3, <3>2
    <3>4. StillRead(p)
      BY <2>1 DEF Fresh
    <3>5. MayCreateRoom(p)
      BY <3>1, <3>4 DEF StillRead, Checked
    <3>6. rooms'[p.room] = [host |-> p.device, binding |-> 1]
      BY <1>1, <2>3, <3>3, RowTypes DEF InsertRoom
    <3>7. UNCHANGED <<organization, seats, devices>>
      BY <2>3 DEF InsertRoom
    <3> HIDE DEF p
    <3> QED BY <3>3, <3>5, <3>6, <3>7 DEF StillRead, MayCreateRoom, MayInOrganization
  <2> QED BY <2>2, <2>3
<1>3. CASE AtOnce
  BY <1>3, AtOnceCalls
<1>4. CASE ~AtOnce /\ \A d \in Calls : ~RowWrite(d)
  <2>1. /\ UNCHANGED rows
        /\ \/ call[c] = q /\ undisturbed[c]
           \/ Checked(q) /\ q.op # "addOwner"
    BY <1>1, <1>4, OtherSteps
  <2>2. StillRead(q)
    BY <2>1 DEF Fresh, StillRead
  <2> QED BY <2>1, <2>2, SameRead
<1> QED BY <1>2, <1>3, <1>4

-----------------------------------------------------------------------------
(* What the implementation in memory would have done *)

LEMMA SameOperators ==
  /\ \A u, r, permission : Access!May(u, r, permission) <=> May(u, r, permission)
  /\ \A u, permission :
       Access!MayInOrganization(u, permission) <=> MayInOrganization(u, permission)
  /\ \A r, u : Access!IsMember(r, u) <=> IsMember(r, u)
  /\ \A m : Access!ImportExists(m) <=> ImportExists(m)
  /\ \A d : Access!Online(d) <=> Online(d)
  /\ \A r : Access!ActiveOwners(r) = ActiveOwners(r)
  /\ \A m : Access!RoomOf(m) = RoomOf(m)
  /\ \A S : Access!Cardinality(S) = Cardinality(S)
<1>1. \A role : Access!Permissions(role) = Permissions(role)
  BY DEF Access!Permissions, Permissions, Access!ViewPermissions, ViewPermissions,
         Access!WorkPermissions, WorkPermissions, Access!AdminPermissions, AdminPermissions
<1>2. \A S : Access!Cardinality(S) = Cardinality(S)
  BY Zenon DEF Access!Cardinality, Cardinality
<1> QED
  BY <1>1, <1>2 DEF Access!May, May, Access!MayInOrganization, MayInOrganization, Access!IsMember,
              IsMember, Access!ImportExists, ImportExists, Access!Online, Online,
              Access!ActiveOwners, ActiveOwners, Access!RoomOf, RoomOf

\* The rooms stay visible, and as they are, when no room gets its first member.
LEMMA SameRooms ==
  ASSUME \A r \in Rooms : HasMembers(r)' <=> HasMembers(r),
         \A r \in Rooms : HasMembers(r) => rooms'[r] = rooms[r]
  PROVE  UNCHANGED VisibleRooms
BY DEF VisibleRooms, HasMembers

LEMMA RoomsAsTheyAre ==
  ASSUME UNCHANGED <<rooms, members>>
  PROVE  UNCHANGED VisibleRooms
BY SameRooms DEF HasMembers, IsMember

LEMMA PutSame ==
  ASSUME RowsTypeOK, NEW r \in Rooms, NEW u \in Users, NEW role,
         NEW status \in MemberStatuses, Put(r, u, role, status), HasMembers(r),
         UNCHANGED rooms
  PROVE  UNCHANGED VisibleRooms /\ Access!SetMember(r, u, role, status)
<1>1. \A s \in Rooms, v \in Users :
        members'[s][v] = IF s = r /\ v = u THEN [role |-> role, status |-> status]
                                           ELSE members[s][v]
  BY PutCells
<1>2. status # "none"
  BY DEF MemberStatuses
<1>3. \A s \in Rooms : HasMembers(s)' <=> HasMembers(s)
  BY <1>1, <1>2 DEF HasMembers, IsMember
<1> QED BY <1>3, SameRooms DEF Put, Access!SetMember

LEMMA MayMember ==
  ASSUME NEW u \in Users, NEW r, NEW permission, May(u, r, permission)
  PROVE  HasMembers(r)
BY DEF May, HasMembers, IsMember

\* The write of a call that has read what is still so is the method's.
LEMMA WriteInMemory ==
  ASSUME RoomInv, NEW c \in Calls, RowWrite(c), StillRead(call[c]), ~Lenient(call[c])
  PROVE  InMemory(call[c])
<1> DEFINE q == call[c]
<1>1. RowsTypeOK /\ CallsTypeOK /\ MembersFirst
  BY DEF RoomInv, TypeOK
<1>2. q \in Served /\ q # NoCall
  BY <1>1, RowWriteCalls
<1>3. StillTrue(q)
  BY <1>2 DEF RoomInv, CallsRight
<1>4. q.op \notin {"addOwner", "revokeMember", "revokeHost"} => Checked(q)
  BY DEF StillRead
<1>5. CASE InsertRoom(c)
  <2>1. q.op = "createRoom" /\ ~RoomExists(q.room)
    BY <1>5 DEF InsertRoom, Writes
  <2>2. q.room \in Rooms /\ ~HasMembers(q.room)
    BY <1>1, <1>2, <2>1, Fields DEF MembersFirst
  <2>3. \A r \in Rooms : HasMembers(r) => rooms'[r] = rooms[r]
    BY <1>1, <1>5, <2>2, RowTypes DEF InsertRoom
  <2>4. UNCHANGED <<organization, seats, devices, members, invitations, files, imports>>
    BY <1>5 DEF InsertRoom
  <2>5. UNCHANGED VisibleRooms
    BY <2>3, <2>4, SameRooms DEF HasMembers, IsMember
  <2> QED BY <2>1, <2>4, <2>5 DEF InMemory, Access!vars, Access!rows
<1>6. CASE InsertOwner(c)
  <2>1. q.op = "addOwner"
    BY <1>6 DEF InsertOwner, Writes
  <2>2. q.room \in Rooms /\ q.user \in Users /\ q.device \in Devices
    BY <1>2, <2>1, Fields
  <2>3. /\ MayInOrganization(q.user, "room.settings.manage")
        /\ devices[q.device].status = "active" /\ OwnerOf[q.device] = q.user
        /\ rooms[q.room] = [host |-> q.device, binding |-> 1]
    BY <2>1 DEF StillRead
  <2>4. ~HasMembers(q.room)
    BY <1>3, <2>1 DEF StillTrue
  <2>5. /\ UNCHANGED <<organization, seats, devices, rooms, invitations, files, imports>>
        /\ Put(q.room, q.user, "OWNER", "ACTIVE")
    BY <1>6 DEF InsertOwner
  <2>6. \A s \in Rooms, v \in Users :
          members'[s][v] = IF s = q.room /\ v = q.user
                           THEN [role |-> "OWNER", status |-> "ACTIVE"] ELSE members[s][v]
    BY <1>1, <2>2, <2>5, PutCells
  <2>7. \A r \in Rooms : HasMembers(r)' <=> HasMembers(r) \/ r = q.room
    BY <2>2, <2>6 DEF HasMembers, IsMember
  <2>8. VisibleRooms' = [VisibleRooms EXCEPT ![q.room] = [host |-> q.device, binding |-> 1]]
    BY <2>2, <2>3, <2>5, <2>7 DEF VisibleRooms, HasMembers
  <2>9. ~Access!RoomExists(q.room)
    BY <2>2, <2>4 DEF Access!RoomExists, VisibleRooms, HasMembers, NoRoom
  <2>10. Access!MayInOrganization(q.user, "room.settings.manage")
    BY <2>3, SameOperators
  <2>11. Access!CreateRoom(q.user, q.room, q.device)
    BY <2>3, <2>5, <2>8, <2>9, <2>10 DEF Access!CreateRoom, Access!SetMember, Put
  <2> QED BY <2>1, <2>11 DEF InMemory
<1>7. CASE InsertInvitation(c)
  <2>1. q.op = "invite" /\ UNCHANGED <<rooms, members>>
    BY <1>7 DEF InsertInvitation, Writes
  <2>2. MayInvite(q)
    BY <1>4, <2>1 DEF Checked
  <2>3. Access!InviteMember(q.user, q.invitation)
    BY <1>7, <2>1, <2>2, SameOperators, RoomsAsTheyAre
    DEF InsertInvitation, MayInvite, Access!InviteMember
  <2> QED BY <2>1, <2>3 DEF InMemory
<1>8. CASE SetRole(c)
  <2>1. q.op = "setRole"
    BY <1>8 DEF SetRole, Writes
  <2>2. q.room \in Rooms /\ q.target \in Users /\ q.role \in Roles
    BY <1>2, <2>1, Fields
  <2>3. May(q.user, q.room, "members.manage") /\ IsMember(q.room, q.target)
    BY <1>4, <2>1 DEF Checked, MayManage, TargetFound
  <2>4. /\ members[q.room][q.target].status \notin {"none", "REMOVED"}
        /\ members[q.room][q.target].status \in MemberStatuses
    BY <1>1, <2>1, <2>2, <2>3, MemberTypes DEF Lenient, IsMember
  <2>5. HasMembers(q.room)
    BY <2>2, <2>3 DEF HasMembers
  <2>6. /\ Put(q.room, q.target, q.role, members[q.room][q.target].status)
        /\ UNCHANGED <<organization, seats, devices, rooms, invitations, files, imports>>
    BY <1>8 DEF SetRole
  <2>7. /\ UNCHANGED VisibleRooms
        /\ Access!SetMember(q.room, q.target, q.role, members[q.room][q.target].status)
    BY <1>1, <2>2, <2>4, <2>5, <2>6, PutSame
  <2>8. Access!SetMemberRole(q.user, q.room, q.target, q.role)
    BY <2>3, <2>4, <2>6, <2>7, SameOperators DEF Access!SetMemberRole
  <2> QED BY <2>1, <2>8 DEF InMemory
<1>9. CASE SetStatus(c)
  <2>1. q.op = "setStatus"
    BY <1>9 DEF SetStatus, Writes
  <2>2. q.room \in Rooms /\ q.target \in Users /\ q.status \in MemberStatuses
    BY <1>2, <2>1, Fields
  <2>3. /\ May(q.user, q.room, "members.manage") /\ IsMember(q.room, q.target)
        /\ members[q.room][q.target].role # "OWNER"
    BY <1>4, <2>1 DEF Checked, MayManage, TargetFound
  <2>4. HasMembers(q.room)
    BY <2>2, <2>3 DEF HasMembers
  <2>5. /\ Put(q.room, q.target, members[q.room][q.target].role, q.status)
        /\ UNCHANGED <<organization, seats, devices, rooms, invitations, files, imports>>
    BY <1>9 DEF SetStatus
  <2>6. /\ UNCHANGED VisibleRooms
        /\ Access!SetMember(q.room, q.target, members[q.room][q.target].role, q.status)
    BY <1>1, <2>2, <2>4, <2>5, PutSame
  <2>7. Access!UpdateMemberStatus(q.user, q.room, q.target, q.status)
    BY <2>3, <2>5, <2>6, SameOperators DEF Access!UpdateMemberStatus
  <2> QED BY <2>1, <2>7 DEF InMemory
<1>10. CASE Leave(c)
  <2>1. q.op = "leave"
    BY <1>10 DEF Leave, Writes
  <2>2. q.room \in Rooms /\ q.user \in Users /\ "REMOVED" \in MemberStatuses
    BY <1>2, <2>1, Fields DEF MemberStatuses
  <2>3. /\ IsMember(q.room, q.user)
        /\ members[q.room][q.user].role = "OWNER" => Cardinality(ActiveOwners(q.room)) > 1
    BY <1>10 DEF Leave, MayLeave
  <2>4. HasMembers(q.room)
    BY <2>2, <2>3 DEF HasMembers
  <2>5. /\ Put(q.room, q.user, members[q.room][q.user].role, "REMOVED")
        /\ UNCHANGED <<organization, seats, devices, rooms, invitations, files, imports>>
    BY <1>10 DEF Leave
  <2>6. /\ UNCHANGED VisibleRooms
        /\ Access!SetMember(q.room, q.user, members[q.room][q.user].role, "REMOVED")
    BY <1>1, <2>2, <2>4, <2>5, PutSame
  <2>7. Access!LeaveRoom(q.user, q.room)
    BY <2>3, <2>5, <2>6, SameOperators DEF Access!LeaveRoom
  <2> QED BY <2>1, <2>7 DEF InMemory
<1>11. CASE Handoff(c)
  <2>1. q.op = "handoff"
    BY <1>11 DEF Handoff, Writes
  <2>2. q.room \in Rooms /\ q.user \in Users /\ q.device \in Devices
    BY <1>2, <2>1, Fields
  <2>3. /\ May(q.user, q.room, "room.settings.manage")
        /\ devices[q.device].status = "active"
        /\ members[q.room][OwnerOf[q.device]].status = "ACTIVE"
    BY <1>4, <2>1 DEF Checked, MayHandOff
  <2>4. HasMembers(q.room)
    BY <2>2, <2>3, MayMember
  <2>5. UNCHANGED <<organization, seats, devices, members, invitations, files, imports>>
    BY <1>11 DEF Handoff
  <2>6. /\ \A r \in Rooms : HasMembers(r)' <=> HasMembers(r)
        /\ \A r \in Rooms : r # q.room => rooms'[r] = rooms[r]
        /\ rooms'[q.room] = [host |-> q.device, binding |-> rooms[q.room].binding + 1]
    BY <1>1, <1>11, <2>2, <2>5, RowTypes DEF Handoff, HasMembers, IsMember
  <2>7. VisibleRooms[q.room] = rooms[q.room]
    BY <2>2, <2>4 DEF VisibleRooms, HasMembers
  <2>8. VisibleRooms' = [VisibleRooms EXCEPT ![q.room] =
                           [host |-> q.device, binding |-> rooms[q.room].binding + 1]]
    BY <2>2, <2>4, <2>6 DEF VisibleRooms, HasMembers
  <2>9. Access!HandoffRoom(q.user, q.room, q.device)
    BY <2>2, <2>3, <2>5, <2>7, <2>8, SameOperators DEF Access!HandoffRoom
  <2> QED BY <2>1, <2>9 DEF InMemory
<1>12. CASE InsertFile(c)
  <2>1. q.op = "upload" /\ UNCHANGED <<rooms, members>>
    BY <1>12 DEF InsertFile, Writes
  <2>2. MayUpload(q)
    BY <1>4, <2>1 DEF Checked
  <2>3. Access!UploadRoomFile(q.user, q.file)
    BY <1>12, <2>1, <2>2, SameOperators, RoomsAsTheyAre
    DEF InsertFile, MayUpload, Access!UploadRoomFile
  <2> QED BY <2>1, <2>3 DEF InMemory
<1>13. CASE DeleteFile(c)
  <2>1. q.op = "delete" /\ UNCHANGED <<rooms, members>>
    BY <1>13 DEF DeleteFile, Writes
  <2>2. MayDelete(q)
    BY <1>4, <2>1 DEF Checked
  <2>3. Access!DeleteRoomFile(q.user, q.file)
    BY <1>13, <2>1, <2>2, SameOperators, RoomsAsTheyAre
    DEF DeleteFile, MayDelete, Access!DeleteRoomFile
  <2> QED BY <2>1, <2>3 DEF InMemory
<1>14. ASSUME NEW m \in Imports, NEW row, PutImport(m, row) PROVE Access!SetImport(m, row)
  BY <1>14, RoomsAsTheyAre DEF PutImport, Access!SetImport
<1>15. CASE InsertImport(c)
  <2>1. q.op = "preview" /\ q.import \in Imports /\ imports[q.import].status = "none"
    BY <1>2, <1>15, Fields DEF InsertImport, Writes
  <2>2. MayPreview(q)
    BY <1>4, <2>1 DEF Checked
  <2>3. Access!SetImport(q.import, [status |-> "PREVIEW", approvedBy |-> {}])
    BY <1>14, <1>15, <2>1 DEF InsertImport
  <2>4. Access!CreateRoomFileImport(q.user, q.import)
    BY <2>1, <2>2, <2>3, SameOperators DEF MayPreview, Access!CreateRoomFileImport
  <2> QED BY <2>1, <2>4 DEF InMemory
<1>16. CASE Approve(c)
  <2>1. q.op = "approve" /\ q.import \in Imports
    BY <1>2, <1>16, Fields DEF Approve, Writes
  <2>2. MayApprove(q)
    BY <1>4, <2>1 DEF Checked
  <2>3. Access!SetImport(q.import, [status |-> "APPROVED", approvedBy |-> {q.user}])
    BY <1>14, <1>16, <2>1 DEF Approve
  <2>4. Access!ApproveRoomFileImport(q.user, q.import)
    BY <2>2, <2>3, SameOperators DEF MayApprove, Access!ApproveRoomFileImport
  <2> QED BY <2>1, <2>4 DEF InMemory
<1>17. CASE Reject(c)
  <2>1. q.op = "reject" /\ q.import \in Imports
    BY <1>2, <1>17, Fields DEF Reject, Writes
  <2>2. MayReject(q)
    BY <1>4, <2>1 DEF Checked
  <2>3. Access!SetImport(q.import, [imports[q.import] EXCEPT !.status = "REJECTED"])
    BY <1>14, <1>17, <2>1 DEF Reject
  <2>4. Access!RejectRoomFileImport(q.user, q.import)
    BY <2>2, <2>3, SameOperators DEF MayReject, Access!RejectRoomFileImport
  <2> QED BY <2>1, <2>4 DEF InMemory
<1>18. CASE Complete(c)
  <2>1. q.op = "complete" /\ q.import \in Imports
    BY <1>2, <1>18, Fields DEF Complete, Writes
  <2>2. MayComplete(q)
    BY <1>4, <2>1 DEF Checked
  <2>3. RoomOf(q.import) \in Rooms /\ HasMembers(RoomOf(q.import))
    BY <1>1, <2>1, <2>2, RowsAssumption DEF MembersFirst, ImportExists, MayComplete, RoomOf
  <2>4. VisibleRooms[RoomOf(q.import)].host = q.device
    BY <2>2, <2>3 DEF VisibleRooms, HasMembers, MayComplete
  <2>5. Access!SetImport(q.import, [imports[q.import] EXCEPT !.status = "IMPORTED"])
    BY <1>14, <1>18, <2>1 DEF Complete
  <2>6. Access!CompleteRoomFileImport(q.import, q.device)
    BY <2>2, <2>4, <2>5, SameOperators DEF MayComplete, Access!CompleteRoomFileImport
  <2> QED BY <2>1, <2>6 DEF InMemory
<1>19. CASE RevokeDevice(c)
  <2>1. q.op = "revokeDevice" /\ UNCHANGED <<rooms, members>>
    BY <1>19 DEF RevokeDevice, Writes
  <2>2. Access!RevokeDevice(q.device)
    BY <1>19, <2>1, RoomsAsTheyAre DEF RevokeDevice, Access!RevokeDevice
  <2> QED BY <2>1, <2>2 DEF InMemory
<1> QED
  BY <1>5, <1>6, <1>7, <1>8, <1>9, <1>10, <1>11, <1>12, <1>13, <1>15, <1>16, <1>17, <1>18,
     <1>19 DEF RowWrite

LEMMA AtOnceInMemory ==
  ASSUME RoomInv, AtOnce, ~RedeemsInactive
  PROVE  InMemoryAtOnce
<1>1. RowsTypeOK /\ MembersFirst
  BY DEF RoomInv, TypeOK
<1>2. ASSUME NEW d \in Devices, RegisterDevice(d) \/ Heartbeat(d) \/ FallSilent(d)
      PROVE  InMemoryAtOnce
  <2>1. UNCHANGED VisibleRooms
    BY <1>2, RoomsAsTheyAre DEF RegisterDevice, Heartbeat, FallSilent, PutDevice
  <2>2. CASE RegisterDevice(d)
    BY <2>1, <2>2 DEF RegisterDevice, PutDevice, InMemoryAtOnce, Access!RegisterDevice
  <2>3. CASE Heartbeat(d)
    BY <2>1, <2>3 DEF Heartbeat, PutDevice, InMemoryAtOnce, Access!Heartbeat
  <2>4. CASE FallSilent(d)
    BY <2>1, <2>4 DEF FallSilent, PutDevice, InMemoryAtOnce, Access!FallSilent
  <2> QED BY <1>2, <2>2, <2>3, <2>4
<1>3. ASSUME NEW s \in OrganizationStatuses, SetEntitlement(s) PROVE InMemoryAtOnce
  <2>1. UNCHANGED VisibleRooms
    BY <1>3, RoomsAsTheyAre DEF SetEntitlement
  <2> QED BY <1>3, <2>1 DEF SetEntitlement, InMemoryAtOnce, Access!SetOrganizationEntitlement
<1>4. ASSUME NEW i \in Invitations, Redeem(i) PROVE InMemoryAtOnce
  <2> DEFINE r == InvitedTo[i]
             u == Invitee[i]
  <2>1. r \in Rooms /\ u \in Users /\ "ACTIVE" \in MemberStatuses
    BY RowsAssumption DEF MemberStatuses
  <2>2. /\ invitations[i] = "open" /\ ~IsMember(r, u) /\ seats' = seats \cup {u}
        /\ Put(r, u, "AGENT_USER", "ACTIVE")
        /\ UNCHANGED <<organization, devices, rooms, invitations, files, imports>>
    BY <1>4 DEF Redeem
  <2>3. HasMembers(r)
    BY <1>1, <2>2 DEF MembersFirst
  <2>4. members' # members
    <3>1. \A s \in Rooms, v \in Users :
            members'[s][v] = IF s = r /\ v = u THEN [role |-> "AGENT_USER", status |-> "ACTIVE"]
                                               ELSE members[s][v]
      BY <1>1, <2>1, <2>2, PutCells
    <3>2. members[r][u].status = "none"
      BY <2>2 DEF IsMember
    <3> QED BY <2>1, <3>1, <3>2
  <2>5. organization = "ACTIVE"
    BY <2>4 DEF RedeemsInactive
  <2>6. UNCHANGED VisibleRooms /\ Access!SetMember(r, u, "AGENT_USER", "ACTIVE")
    BY <1>1, <2>1, <2>2, <2>3, PutSame
  <2>7. Access!RedeemInvitation(i)
    BY <2>2, <2>5, <2>6, SameOperators DEF Access!RedeemInvitation
  <2> QED BY <2>7 DEF InMemoryAtOnce
<1>5. ASSUME NEW i \in Invitations, Expire(i) PROVE InMemoryAtOnce
  <2>1. UNCHANGED VisibleRooms
    BY <1>5, RoomsAsTheyAre DEF Expire
  <2>2. Access!Expire(i)
    BY <1>5, <2>1 DEF Expire, Access!Expire
  <2> QED BY <2>2 DEF InMemoryAtOnce
<1> QED BY <1>2, <1>3, <1>4, <1>5 DEF AtOnce

\* Rows change as the implementation in memory changes them, when nothing was
\* written since a call has read: the step-by-step part of the refinement of
\* RoomAccess by PostgresRemoteAccessService.
THEOREM UndisturbedCallsAgree == Spec => AgreesWithMemory
<1>1. ASSUME RoomInv, Fresh, [Next]_vars
      PROVE  /\ \A c \in Calls :
                  (rows' # rows /\ call'[c] # call[c] /\ undisturbed[c] /\ ~Lenient(call[c]))
                    => InMemory(call[c])
             /\ (rows' # rows /\ call' = call /\ ~RedeemsInactive) => InMemoryAtOnce
  <2>1. CallsTypeOK /\ DeskTypeOK
    BY <1>1 DEF RoomInv, TypeOK
  <2>2. ASSUME NEW d \in Calls, RowWrite(d)
        PROVE  /\ \A c \in Calls :
                    (call'[c] # call[c] /\ undisturbed[c] /\ ~Lenient(call[c]))
                      => InMemory(call[c])
               /\ call' # call
    <3>1. /\ call[d] \in Served /\ call[d] # NoCall /\ call'[d] # call[d]
          /\ \A c \in Calls : c # d => call'[c] = call[c]
      BY <2>1, <2>2, RowWriteCalls
    <3>2. undisturbed[d] => StillRead(call[d])
      BY <1>1, <3>1 DEF Fresh
    <3>3. undisturbed[d] /\ ~Lenient(call[d]) => InMemory(call[d])
      BY <1>1, <2>2, <3>2, WriteInMemory
    <3> QED BY <3>1, <3>3
  <2>3. CASE AtOnce
    BY <1>1, <2>3, AtOnceCalls, AtOnceInMemory
  <2>4. CASE ~AtOnce /\ \A d \in Calls : ~RowWrite(d)
    BY <1>1, <2>1, <2>4, OtherSteps
  <2> QED BY <2>2, <2>3, <2>4
<1>2. RoomInv /\ Fresh /\ [Next]_vars =>
        [/\ \A c \in Calls :
              (rows' # rows /\ call'[c] # call[c] /\ undisturbed[c] /\ ~Lenient(call[c]))
                => InMemory(call[c])
         /\ (rows' # rows /\ call' = call /\ ~RedeemsInactive) => InMemoryAtOnce]_vars
  BY <1>1
<1>3. Init => Fresh
  BY DEF Init, Fresh
<1> QED BY <1>2, <1>3, FreshStep, RoomInvHolds, PTL DEF Spec, AgreesWithMemory
=============================================================================
