\* One request at a time.
SPECIFICATION Spec
CONSTANTS
  root = root ann = ann s1 = s1 s2 = s2 t1 = t1 w1 = w1 w2 = w2
  Nobody = Nobody Absent = Absent
  User <- MCUser
  Root = root
  Session <- MCSession
  ResetToken <- MCOneToken
  Slot <- MCOneSlot
  Flag <- MCFlag
  RoleBody <- MCNoRole
  MaxHash = 1
INVARIANT ChangesEndSessions
