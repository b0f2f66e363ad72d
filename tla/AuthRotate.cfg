SPECIFICATION Spec
CONSTANTS
  Token = {t1, t2, t3}
  NoToken = NoToken
  Request = {r1, r2}
  Free = Free
SYMMETRY AuthSymmetry
INVARIANTS RotatedOnce
