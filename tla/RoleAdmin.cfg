SPECIFICATION LiveSpec
CONSTANTS
  Role = {r1, r2}
  First = {r1}
  System = {}
  Perm = {p1}
  User = {u1}
  Nobody = Nobody
  Request = {q1, q2}
INVARIANTS TypeOK RoleInv
PROPERTIES KeepsARole RevokedGone Answered
