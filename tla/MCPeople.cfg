CONSTANTS
  root = root  ann = ann  a1 = a1  a2 = a2
  l1 = l1  l2 = l2  x1 = x1  x2 = x2  x3 = x3
  daughter = daughter  son = son
  Subjects <- MCSubjects
  Accounts <- MCAccounts
  Admins <- MCAdmins
  Logins <- MCLogins
  Sessions <- MCSessions
  None = None
  Parents <- MCParents
  Children <- MCChildren
  Invites <- MCInvites
  Nobody = Nobody
SPECIFICATION PeopleSpec
SYMMETRY Symmetry
CONSTRAINTS TwoRequests InOrder OneSpoiled
CHECK_DEADLOCK FALSE
INVARIANTS
  OneAccountPerPerson
  ProfileOfTheRole
  ImpersonatesUsersOnly
  AtMostTwoParents
  LinkedByInvite
