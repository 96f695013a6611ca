\* Two requests at a time, of two customers with two keys and two projects.
CONSTANTS
  s1 = s1
  s2 = s2
  u1 = u1
  u2 = u2
  k1 = k1
  k2 = k2
  q1 = q1
  q2 = q2
  Slots = {s1, s2}
  Users = {u1, u2}
  Keys = {k1, k2}
  Projects = {q1, q2}
  Calls <- Reported
  Clock <- Instants
  MonthDays <- Calendar
  Grains = 1
  ModelRates <- Models
  MaxRequests = 4
SPECIFICATION Spec
SYMMETRY Same
INVARIANTS
  TypeOK
  KeysFollowTheirProjects
  ClosedMeansClosed
  SummaryNeverOverstates
  SpendIsFair
  ViewsLoseNothing
CHECK_DEADLOCK FALSE
