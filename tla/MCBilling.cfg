\* Calls, a settlement and the closure of one account; one operation may fail.
SPECIFICATION BillingSpec
CONSTANTS
  c1 = c1  c2 = c2  p1 = p1  g1 = g1  h1 = h1  u1 = u1
  NoKey = NoKey  NoPayment = NoPayment  NoId = NoId  NoPlan = NoPlan
  Calls <- MCCalls
  Payments <- MCPayments
  Refs <- MCRefs
  Users = {u1}
  Opening <- MCOpening
  Keys = {}
  Costs = {2}
  GatewayIds = {g1}
  Slots = {h1}
  Offers <- MCOffers
  Plans = {"pro"}
  GatewaySettings = {TRUE}
  OperatorConfirms = TRUE
  MaxFailures = 1
SYMMETRY Symmetry
INVARIANTS
  LedgerMatchesBalance
PROPERTIES
  ImplementsCreditAccount
