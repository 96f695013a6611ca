\* Two workers and an operator, one customer and two jobs of a day, one that
\* looks at each customer and one whose query does; any two operations fail,
\* anywhere.  No report is due: Blip has one.
CONSTANTS
  w1 = w1
  w2 = w2
  o1 = o1
  u1 = u1
  u2 = u2
  Workers = {w1, w2}
  Operators = {o1}
  Users = {u1}
  Customers = {u1}
  DailyJobs <- Dailies
  Filtered = {"verification_reminders"}
  Unreported = {}
  Broadcasts = {"announcement"}
  ByHand = {"verification_reminders"}
  HoursPerDay = 2
  DaysPerMonth = 2
  SchedulerHour = 1
  ReportDay = 2
  CatchupDays = 1
  Concurrency = 1
  Caps = {1}
  MaxNow = 1
  MaxTrouble = 2
SPECIFICATION FairSpec
INVARIANTS
  TypeOK
  OneRunPerPeriod
  ToldOnce
  NobodyLeftOutSilently
PROPERTY
  DueRunsFinish
