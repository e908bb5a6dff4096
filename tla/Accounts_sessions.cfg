\* Two requests at a time, two sessions, one reset link, two passwords a user.
SPECIFICATION Spec
CONSTANTS
  root = root ann = ann s1 = s1 s2 = s2 t1 = t1 w1 = w1 w2 = w2
  Nobody = Nobody Absent = Absent
  User <- MCUser
  Root = root
  Session <- MCSession
  ResetToken <- MCOneToken
  Slot <- MCSlot
  Flag <- MCFlag
  RoleBody <- MCRole
  MaxHash = 1
SYMMETRY MCSymmetry
INVARIANTS TypeOK EndedSessionsStayOut ResetAtMostOnce RolesNest
PROPERTY OnlyStaleRequestsTakeTheLastAdmin
