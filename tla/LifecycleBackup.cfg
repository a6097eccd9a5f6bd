SPECIFICATION FairSpec
CONSTANTS
  Orders = {o1}
  Charge = 1
  Funds = 1
  AdminStatuses = {"CANCELED"}
  Endings = {"Completed"}
  AutoSubmit = {TRUE}
  Links = {{1, 2}}
  Jobs = {p1, p2}
  NoJob = NoJob
  MaxRemote = 1
  MaxRequests = 0
  MaxCrashes = 0
PROPERTY BackupRecorded
CHECK_DEADLOCK FALSE
