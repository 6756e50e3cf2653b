----------------------------- MODULE RoomAccess -----------------------------
(***************************************************************************)
(* What an access port promises: RemoteAccessService, the implementation   *)
(* in memory, whose every method runs to its end before another starts.  A *)
(* method that throws changes nothing and has no step here.                *)
(***************************************************************************)
EXTENDS RoomRows

vars == rows

SetMember(r, u, role, status) ==
  members' = [members EXCEPT ![r][u] = [role |-> role, status |-> status]]

RegisterDevice(d) ==
  /\ devices[d].status = "none"
  /\ devices' = [devices EXCEPT ![d].status = "active"]
  /\ UNCHANGED <<organization, seats, rooms, members, invitations, files, imports>>

Heartbeat(d) ==
  /\ devices[d].status = "active"
  /\ devices' = [devices EXCEPT ![d].seen = "recently"]
  /\ UNCHANGED <<organization, seats, rooms, members, invitations, files, imports>>

RevokeDevice(d) ==
  /\ devices[d].status # "none"
  /\ devices' = [devices EXCEPT ![d].status = "revoked"]
  /\ UNCHANGED <<organization, seats, rooms, members, invitations, files, imports>>

SetOrganizationEntitlement(status) ==
  /\ organization' = status
  /\ UNCHANGED <<seats, devices, rooms, members, invitations, files, imports>>

\* Only the seat of the organization's owner passes, and it is copied.
CreateRoom(u, r, d) ==
  /\ MayInOrganization(u, "room.settings.manage")
  /\ devices[d].status # "none" /\ OwnerOf[d] = u
  /\ ~RoomExists(r)
  /\ rooms' = [rooms EXCEPT ![r] = [host |-> d, binding |-> 1]]
  /\ SetMember(r, u, "OWNER", "ACTIVE")
  /\ UNCHANGED <<organization, seats, devices, invitations, files, imports>>

InviteMember(u, i) ==
  /\ May(u, InvitedTo[i], "members.invite")
  /\ invitations[i] = "none"
  /\ Cardinality(seats) < SeatLimit
  /\ invitations' = [invitations EXCEPT ![i] = "open"]
  /\ UNCHANGED <<organization, seats, devices, rooms, members, files, imports>>

\* Only the first redemption of a user makes rows.
RedeemInvitation(i) ==
  LET r == InvitedTo[i]
      u == Invitee[i]
  IN
  /\ invitations[i] = "open"
  /\ organization = "ACTIVE"
  /\ ~IsMember(r, u)
  /\ seats' = seats \cup {u}
  /\ SetMember(r, u, "AGENT_USER", "ACTIVE")
  /\ UNCHANGED <<organization, devices, rooms, invitations, files, imports>>

SetMemberRole(u, r, v, role) ==
  /\ May(u, r, "members.manage")
  /\ members[r][v].status \notin {"none", "REMOVED"}
  /\ SetMember(r, v, role, members[r][v].status)
  /\ UNCHANGED <<organization, seats, devices, rooms, invitations, files, imports>>

\* suspendMember, restoreMember and removeMember, from any status.
UpdateMemberStatus(u, r, v, status) ==
  /\ May(u, r, "members.manage")
  /\ IsMember(r, v)
  /\ members[r][v].role # "OWNER"
  /\ SetMember(r, v, members[r][v].role, status)
  /\ UNCHANGED <<organization, seats, devices, rooms, invitations, files, imports>>

LeaveRoom(u, r) ==
  /\ IsMember(r, u)
  /\ members[r][u].role = "OWNER" => Cardinality(ActiveOwners(r)) > 1
  /\ SetMember(r, u, members[r][u].role, "REMOVED")
  /\ UNCHANGED <<organization, seats, devices, rooms, invitations, files, imports>>

HandoffRoom(u, r, d) ==
  /\ May(u, r, "room.settings.manage")
  /\ devices[d].status = "active"
  /\ members[r][OwnerOf[d]].status = "ACTIVE"
  /\ rooms' = [rooms EXCEPT ![r] = [host |-> d, binding |-> @.binding + 1]]
  /\ UNCHANGED <<organization, seats, devices, members, invitations, files, imports>>

UploadRoomFile(u, f) ==
  /\ May(u, StoredIn[f], "files.write")
  /\ files[f] = "none"
  /\ files' = [files EXCEPT ![f] = "SAFE"]
  /\ UNCHANGED <<organization, seats, devices, rooms, members, invitations, imports>>

DeleteRoomFile(u, f) ==
  /\ May(u, StoredIn[f], "files.write")
  /\ files[f] = "SAFE"
  /\ files' = [files EXCEPT ![f] = "DELETED"]
  /\ UNCHANGED <<organization, seats, devices, rooms, members, invitations, imports>>

SetImport(m, row) ==
  /\ imports' = [imports EXCEPT ![m] = row]
  /\ UNCHANGED <<organization, seats, devices, rooms, members, invitations, files>>

CreateRoomFileImport(u, m) ==
  /\ May(u, RoomOf(m), "files.write")
  /\ files[SourceOf[m]] = "SAFE"
  /\ imports[m].status = "none"
  /\ SetImport(m, [status |-> "PREVIEW", approvedBy |-> {}])

ApproveRoomFileImport(u, m) ==
  /\ May(u, RoomOf(m), "files.write")
  /\ imports[m].status = "PREVIEW"
  /\ m \notin Rejects
  /\ m \in Overwrites => May(u, RoomOf(m), "destructive.approve")
  /\ SetImport(m, [status |-> "APPROVED", approvedBy |-> {u}])

RejectRoomFileImport(u, m) ==
  /\ May(u, RoomOf(m), "files.write")
  /\ ImportExists(m) /\ imports[m].status # "IMPORTED"
  /\ SetImport(m, [imports[m] EXCEPT !.status = "REJECTED"])

\* The caller is the user of the device; it need not be a member any more.
CompleteRoomFileImport(m, d) ==
  /\ imports[m].status = "APPROVED"
  /\ rooms[RoomOf(m)].host = d
  /\ Online(d)
  /\ SetImport(m, [imports[m] EXCEPT !.status = "IMPORTED"])

\* Time: an invitation expires, a device is not heard of.
Expire(i) ==
  /\ invitations[i] = "open"
  /\ invitations' = [invitations EXCEPT ![i] = "expired"]
  /\ UNCHANGED <<organization, seats, devices, rooms, members, files, imports>>

FallSilent(d) ==
  /\ devices[d].seen = "recently"
  /\ devices' = [devices EXCEPT ![d].seen = "long ago"]
  /\ UNCHANGED <<organization, seats, rooms, members, invitations, files, imports>>

Next ==
  \/ \E d \in Devices : RegisterDevice(d) \/ Heartbeat(d) \/ RevokeDevice(d) \/ FallSilent(d)
  \/ \E status \in OrganizationStatuses : SetOrganizationEntitlement(status)
  \/ \E i \in Invitations : RedeemInvitation(i) \/ Expire(i)
  \/ \E u \in Users, i \in Invitations : InviteMember(u, i)
  \/ \E u \in Users, r \in Rooms :
       \/ LeaveRoom(u, r)
       \/ \E d \in Devices : CreateRoom(u, r, d) \/ HandoffRoom(u, r, d)
       \/ \E v \in Users : \/ \E role \in Roles : SetMemberRole(u, r, v, role)
                           \/ \E s \in MemberStatuses : UpdateMemberStatus(u, r, v, s)
  \/ \E u \in Users, f \in Files : UploadRoomFile(u, f) \/ DeleteRoomFile(u, f)
  \/ \E u \in Users, m \in Imports :
       \/ CreateRoomFileImport(u, m)
       \/ ApproveRoomFileImport(u, m)
       \/ RejectRoomFileImport(u, m)
  \/ \E m \in Imports, d \in Devices : CompleteRoomFileImport(m, d)

Spec == RowsInit /\ [][Next]_vars
=============================================================================
