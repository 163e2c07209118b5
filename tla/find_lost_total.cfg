SPECIFICATION Spec
CONSTANTS
  Projects = {p1}
  Payments = {x1, x2}
  Amounts = {1, 2}
  Requests = {r1, r2}
  NoProject = NoProject
  NoPayment = NoPayment
  Workload = {"delete_payment"}
INVARIANTS TotalIsSum
CHECK_DEADLOCK FALSE
