\* README.md:570-573 against a renewal that overlaps the revocation.
SPECIFICATION Spec
CONSTANTS
  t1 = t1  t2 = t2  h1 = h1  h2 = h2
  NoToken = NoToken
  Tokens <- MCTokens
  Slots <- MCSlots
  MaxRevocations = 1
SYMMETRY Symmetry
INVARIANTS
  NoRenewalSurvives
