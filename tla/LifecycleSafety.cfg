SPECIFICATION Spec
CONSTANTS
  Orders = {o1}
  Charge = 1
  Funds = 0
  AdminStatuses = {"PENDING", "CANCELED"}
  Endings = {"Completed", "Canceled"}
  AutoSubmit = {TRUE, FALSE}
  Links = {{1, 2}}
  Jobs = {p1, p2}
  NoJob = NoJob
  MaxRemote = 1
  MaxRequests = 2
  MaxCrashes = 1
SYMMETRY MCSymmetry
INVARIANTS TypeOK BalanceReconciles MoneyFollowsStatus SubmittedOnce
CHECK_DEADLOCK FALSE
