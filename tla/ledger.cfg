SPECIFICATION Spec
CONSTANTS
  Projects = {p1}
  Payments = {x1, x2}
  Amounts = {1, 2}
  Requests = {r1, r2}
  NoProject = NoProject
  NoPayment = NoPayment
  Workload = {"create_payment", "update_payment", "delete_payment", "create_project", "change_status", "delete_project"}
SYMMETRY LedgerSymmetry
INVARIANTS TypeOK
PROPERTIES LedgerHeals DeletedProjectFrozen StatusFollowsMatrix ImplementsBooks
