\* Three calls of two customers, retries among them; handlers may die anywhere.
SPECIFICATION Spec
CONSTANTS
  c1 = c1  c2 = c2  c3 = c3  u1 = u1  u2 = u2  k1 = k1
  NoKey = NoKey
  Calls <- MCCalls
  Refs <- MCCalls
  Users = {u1, u2}
  Opening <- MCOpening
  Keys = {k1}
  Costs = {2, 3}
  MaxFailures = 1
SYMMETRY Symmetry
INVARIANTS
  TypeOK
  NoOverspend
  ChargedOncePerEvent
  BilledMeansPaid
  RefusalTakesNothing
  ReplayIsTheOriginal
PROPERTIES
  ImplementsCreditAccount
