SPECIFICATION Spec
CONSTANTS
  Users = {u}
  Keys = {k}
  Quantities = {1, 2}
  MinQuantity = 1
  MaxQuantity = 2
  Prices = {2}
  Amounts = {3}
  Enabled = {TRUE}
  AutoVerify = {TRUE}
  Jobs = {p1, p2}
  NoJob = NoJob
  MaxIntents = 1
  MaxDeposits = 2
  MaxCrashes = 0
SYMMETRY MCSymmetry
INVARIANTS TypeOK EveryOrderPaidOnce CreditedIffApproved FulfilledHasOrder
PROPERTIES SettledStaysSettled ImplementsPrepaidShop ImplementsAuditedWallets
