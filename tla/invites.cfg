SPECIFICATION Spec
CONSTANTS
  u1 = u1
  u2 = u2
  u3 = u3
  User = {u1, u2, u3}
  Founder = u1
  Acting = {u1, u2}
  MaxTasks = 0
  MaxInvites = 1
  Anyone = Anyone
  AskedRole = {"admin", "owner"}
CHECK_DEADLOCK FALSE
INVARIANTS
  MembersWereInvited
PROPERTIES
  InviteOutcomeStands
  NobodyReturnsUninvited
