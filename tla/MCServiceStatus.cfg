\* A reporter and a probe loop at once, one reader, two systems; each instant is a day.
CONSTANTS
  r1 = r1
  p1 = p1
  g1 = g1
  Reporters = {r1}
  Probers = {p1}
  Pages = {g1}
  Systems = {"tts", "stt"}
  Probed <- PollsTts
  Reported = {"operational","down"}
  StaleAfter = 0
  DayLength = 1
  MaxNow = 1
  MaxReports = 3
SPECIFICATION Spec
INVARIANTS
  TypeOK
  StripKeepsTheWorst
  NoGreenFromSilence
