\* One operation may fail: what was paid for is credited all the same.
SPECIFICATION FairSpec
CONSTANTS
  p1 = p1  p2 = p2  g1 = g1  g2 = g2  h1 = h1  h2 = h2  u1 = u1
  NoPayment = NoPayment  NoId = NoId  NoPlan = NoPlan
  Payments <- MCOnePayment
  Refs <- MCOnePayment
  GatewayIds = {g1, g2}
  Slots = {h1, h2}
  Plans = {"pro"}
  Users = {u1}
  Opening <- MCOpening
  Offers <- MCPacks
  GatewaySettings = {TRUE}
  OperatorConfirms = FALSE
  MaxFailures = 1
PROPERTIES
  PaidOrdersAreCredited
