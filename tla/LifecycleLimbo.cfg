SPECIFICATION Spec
CONSTANTS
  Orders = {o1}
  Charge = 1
  Funds = 1
  AdminStatuses = {"CANCELED"}
  Endings = {"Completed"}
  AutoSubmit = {TRUE}
  Links = {{1, 2}}
  Jobs = {p1, p2}
  NoJob = NoJob
  MaxRemote = 1
  MaxRequests = 2
  MaxCrashes = 1
INVARIANT CanceledNotCharged
CHECK_DEADLOCK FALSE
