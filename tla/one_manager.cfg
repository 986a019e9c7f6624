SPECIFICATION Spec
CONSTANTS
  u1 = u1
  u2 = u2
  u3 = u3
  User = {u1, u2, u3}
  Founder = u1
  Acting = {u1}
  MaxTasks = 1
  MaxInvites = 2
  Anyone = Anyone
  AskedRole = {"member"}
CHECK_DEADLOCK FALSE
SYMMETRY GuestSymmetry
INVARIANTS
  WorkspaceHasOwner
  AssigneeIsMember
