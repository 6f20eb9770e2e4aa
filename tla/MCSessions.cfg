SPECIFICATION Spec
CONSTANTS
  u1 = u1 u2 = u2 u3 = u3 k1 = k1 k2 = k2 l1 = l1 r1 = r1 r2 = r2 old = old
  Users = {u1, u2, u3}
  Tokens = {k1, k2}
  Logins = {l1}
  Changes = {r1, r2}
  Passwords = {old}
  Absent = Absent
  NoUser = NoUser
  UserInputs <- FewUserInputs
  MaxEra = 2
SYMMETRY Symmetry
INVARIANTS
  SessionsFollowRevocations
  NoChangeIsLost
CHECK_DEADLOCK FALSE
