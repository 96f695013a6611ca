\* Two handlers at once over two refresh tokens; sessions end twice.
SPECIFICATION Spec
CONSTANTS
  t1 = t1  t2 = t2  h1 = h1  h2 = h2
  NoToken = NoToken
  Tokens <- MCTokens
  Slots <- MCSlots
  MaxRevocations = 2
SYMMETRY Symmetry
INVARIANTS
  TypeOK
  OneContinuation
  OnlyOverlapSurvives
  ReuseDetection
PROPERTIES
  EndedForGood
