SPECIFICATION FairSpec
CONSTANTS
  Users = {a, b}
  Sessions = {s1, s2}
  NoSession = NoSession
  NoUser = NoUser
  Amounts <- MCAmounts
  MaxRows = 2
INVARIANTS TypeOK ReadStaysCurrent LocksGuardDrafts
PROPERTIES ImplementsAuditedWallets TransactionsEnd
