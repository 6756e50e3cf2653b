CONSTANTS
  alice = alice
  bob = bob
  r1 = r1
  i1 = i1
  f1 = f1
  m1 = m1
  d1 = d1
  d2 = d2
  desktop = desktop
  c1 = c1
  c2 = c2
  Users = {alice, bob}
  Devices = {d1, d2}
  Rooms = {r1}
  Invitations = {i1}
  Files = {f1}
  Imports = {m1}
  Founder = alice
  OwnerOf <- mcOwnerOf
  InvitedTo <- mcInvitedTo
  Invitee <- mcInvitee
  StoredIn <- mcStoredIn
  SourceOf <- mcSourceOf
  Overwrites = {m1}
  Rejects = {}
  SeatLimit = 2
  MaxBinding = 2
  Calls = {desktop, c1, c2}
  Desktop = desktop
  ThisDevice = d1
  Plans <- mcPlans
  NoCall = NoCall
SYMMETRY mcSymmetry
SPECIFICATION Spec
INVARIANTS OwnerRemains ImportedInOrder
PROPERTIES RejectedStays AgreesWithMemory
