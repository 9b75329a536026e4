CONSTANTS
  s = s
  u = u
  Users = {s, u}
  Participants = {p1}
  Member <- MCMember
  Role <- MCRole
  Nil = Nil
  Same = Same
  Kinds = {"due_soon"}
  Dates = {1, 3}
  Weekend = {2}
  MaxDay = 3
SPECIFICATION CardFairSpec
INVARIANTS
  ProtectedSchedule
PROPERTIES
  EachReminderEnds
CHECK_DEADLOCK FALSE
