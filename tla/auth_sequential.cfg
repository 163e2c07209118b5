SPECIFICATION Spec
CONSTANTS
  Users = {u1}
  Tokens = {t1, t2, t3}
  Requests = {r1}
  Passwords = {p1, p2}
  NoUser = NoUser
  NoToken = NoToken
  NoPassword = NoPassword
  MaxFailedAttempts = 5
  Workload = {"login", "refresh", "logout", "change", "reset", "deactivate", "expire", "fail", "lose"}
SYMMETRY TokenSymmetry
INVARIANTS IInv OneLiveTokenPerFamily
PROPERTIES InactiveUserStaysOut ResetEndsAllSessions ImplementsSerialChains
