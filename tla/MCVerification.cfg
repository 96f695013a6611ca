\* Two requests at a time, two addresses, a number that gets texts and one that does not.
CONSTANTS
  s1 = s1
  s2 = s2
  a1 = a1
  a2 = a2
  n1 = n1
  n2 = n2
  Slots = {s1, s2}
  Accounts = {a1, a2}
  Numbers = {n1, n2}
  SmsNumbers = {n1}
  Keys <- LimitedKeys
  Limit <- Limits
  Window = 2
  CodeLife = 1
  LinkLife = 1
  Grace = 0
  MaxAttempts = 1
  Start = 1
  MaxCodes = 2
  MaxRequests = 5
  MaxNow = 2
  MaxOutages = 1
SPECIFICATION Spec
SYMMETRY Same
INVARIANTS
  TypeOK
  VerifiedMeansProven
  ProofOpensOneAccount
  GuessesAreBounded
  RatesAreCapped
CHECK_DEADLOCK FALSE
