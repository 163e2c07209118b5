SPECIFICATION FairSpec
CONSTANTS
  Users = {u1}
  Tokens = {t1, t2}
  Requests = {r1, r2}
  Passwords = {p1}
  NoUser = NoUser
  NoToken = NoToken
  NoPassword = NoPassword
  MaxFailedAttempts = 5
  Workload = {"login", "refresh", "logout", "reset"}
PROPERTIES EveryRequestAnswered
