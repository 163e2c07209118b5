SPECIFICATION Spec
CONSTANTS
  Users = {u1}
  Tokens = {t1, t2, t3}
  Requests = {r1, r2}
  Passwords = {p1}
  NoUser = NoUser
  NoToken = NoToken
  NoPassword = NoPassword
  MaxFailedAttempts = 5
  Workload = {"login", "refresh", "logout", "reset"}
SYMMETRY TokenSymmetry
INVARIANTS TypeOK RotationLinked LogoutEndsSession OnlyBulkUpdatesDeadlock
PROPERTIES DeadFamilyStaysDead ImplementsConcurrentChains
