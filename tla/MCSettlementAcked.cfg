\* A handler dies between the claim and the grant; the webhook is delivered again.
SPECIFICATION Spec
CONSTANTS
  p1 = p1  p2 = p2  g1 = g1  g2 = g2  h1 = h1  h2 = h2  u1 = u1
  NoPayment = NoPayment  NoId = NoId  NoPlan = NoPlan
  Payments <- MCPayments
  Refs <- MCPayments
  GatewayIds = {g1, g2}
  Slots = {h1, h2}
  Plans = {"pro"}
  Users = {u1}
  Opening <- MCOpening
  Offers <- MCPacks
  GatewaySettings = {TRUE}
  OperatorConfirms = FALSE
  MaxFailures = 1
SYMMETRY Symmetry
INVARIANTS
  AcknowledgedMeansCredited
