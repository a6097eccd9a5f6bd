SPECIFICATION FairSpec
CONSTANTS
  Users = {u}
  Keys = {k}
  Quantities = {1}
  MinQuantity = 1
  MaxQuantity = 1
  Prices = {2}
  Amounts = {3}
  Enabled = {TRUE, FALSE}
  AutoVerify = {TRUE, FALSE}
  Jobs = {p1, p2}
  NoJob = NoJob
  MaxIntents = 1
  MaxDeposits = 1
  MaxCrashes = 1
PROPERTIES JobsEnd PaidIsCredited FailedIntentsRetried
