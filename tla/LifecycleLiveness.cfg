SPECIFICATION FairSpec
CONSTANTS
  Orders = {o1}
  Charge = 1
  Funds = 1
  AdminStatuses = {"PENDING"}
  Endings = {"Completed"}
  AutoSubmit = {TRUE}
  Links = {{}, {1}}
  Jobs = {p1, p2}
  NoJob = NoJob
  MaxRemote = 1
  MaxRequests = 2
  MaxCrashes = 1
PROPERTIES JobsEnd PendingIsResolved CompletionRecorded
CHECK_DEADLOCK FALSE
