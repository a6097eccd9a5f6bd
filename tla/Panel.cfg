\* The store, the sessions, the support desk, the campaigns and rounding, each alone.
SPECIFICATION PanelSpec
CONSTANTS
  Buyers = {buyer}
  BuyKeys = {k1, k2}
  Inputs = {"na me"}
  Sanitized <- MCSanitized
  Pools = {pool}
  StorePrices = {1, 2}
  Opening = 1
  Stocked = 1
  Clerks = {c1, c2}
  MaxErrands = 4
  MaxCodes = 2
  MaxStoreIntents = 1
  desktop = desktop
  phone = phone
  onPhone = onPhone
  Browsers = {desktop, phone}
  Tabs = {left, right, onPhone}
  BrowserOf <- MCBrowserOf
  MaxVisits = 4
  Delivered = {auto, manual}
  AtProvider = {auto}
  Tickets = {help}
  OrderLists = {{auto, manual}}
  HandStatuses = {"CLOSED"}
  Words = {"Completed"}
  Desks = {d1, d2}
  Polls = {poll1}
  MaxCalls = 2
  MaxEvents = 1
  Ticks = {t1, t2}
  BatchSize = 2
  PerTick = 2
  Audiences = {1, 3}
  MaxCampaigns = 2
  MaxOutages = 1
  Rates <- MCRates
  Lots <- MCLots
  TopUps <- MCTopUps
  Percents <- MCPercents
  MaxBookings = 4
INVARIANTS
  PanelTypeOK
  ExchangedOnce
  RevokedTogether
  TabsStaySignedIn
  OneOpenRefill
  AuditTellsRefills
  NobodySkipped
  FractionsAccounted
PROPERTIES
  StoreSellsOnce
  PurchasesEnd
  SupportAnswers
  CampaignsComplete
CHECK_DEADLOCK FALSE
