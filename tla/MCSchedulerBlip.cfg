\* Two customers, two days: what a blip does to a report.
CONSTANTS
  w1 = w1
  w2 = w2
  o1 = o1
  u1 = u1
  u2 = u2
  Workers = {w1, w2}
  Operators = {o1}
  Users = {u1, u2}
  Customers = {u1, u2}
  DailyJobs <- Nudges
  Filtered = {}
  Unreported = {}
  Broadcasts = {"announcement"}
  ByHand = {"onboarding_nudges", "announcement"}
  HoursPerDay = 2
  DaysPerMonth = 2
  SchedulerHour = 1
  ReportDay = 1
  CatchupDays = 2
  Concurrency = 2
  Caps = {2}
  MaxNow = 3
  MaxTrouble = 2
SPECIFICATION Spec
INVARIANT
  BlipIsRetried
