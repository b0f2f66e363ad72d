SPECIFICATION Spec
CONSTANTS
  Token = {t1, t2}
  NoToken = NoToken
  Request = {r1, r2}
  Free = Free
SYMMETRY AuthSymmetry
PROPERTIES DeactivationKillsSessions
