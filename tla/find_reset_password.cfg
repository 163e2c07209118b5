SPECIFICATION Spec
CONSTANTS
  Users = {u1}
  Tokens = {t1, t2}
  Requests = {r1, r2}
  Passwords = {p1, p2}
  NoUser = NoUser
  NoToken = NoToken
  NoPassword = NoPassword
  MaxFailedAttempts = 5
  Workload = {"login", "reset"}
CHECK_DEADLOCK FALSE
PROPERTIES ResetChangesPassword
