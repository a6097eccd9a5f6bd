SPECIFICATION FairSpec
CONSTANTS
  Alice = Alice
  Bob = Bob
  Users = {Alice, Bob}
  NoUser = NoUser
  ReferredBy <- MCReferredBy
  Amounts = {100}
  MethodPercents = {1}
  Coupons = {k}
  NoCoupon = NoCoupon
  Offers <- MCOffers
  Settings <- MCSettings
  MaxDeposits = 2
  MaxAborts = 1
INVARIANTS TypeOK DepositTellsItsCredits EarningsMatchLog RedemptionsCounted
PROPERTIES ImplementsAtomicRewards PaidDepositsSettle
