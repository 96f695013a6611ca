----------------------------- MODULE UsageViews ------------------------------
(* What is read out of the usage: the chart of a range, the overview against *)
(* the period before and the monthly report of a customer, and what all of   *)
(* them have consumed of the engines. Time is in minutes from the first day  *)
(* of the calendar.                                                          *)
EXTENDS Integers, Sequences, FiniteSets, FiniteSetsExt

CONSTANT MonthDays   \* the days of the months, in order

ASSUME CalendarAssumption == MonthDays \in Seq(28..31) /\ MonthDays # <<>>

Hour == 60
Day == 24 * Hour
Step == [daily |-> Day, hourly |-> Hour, minute |-> 1]
MaxSpan == [daily |-> 731 * Day, hourly |-> 62 * Day, minute |-> 2 * Day]
DefaultSpan == [daily |-> 30 * Day, hourly |-> 2 * Day, minute |-> 6 * Hour]

(* A log is a sequence of records with the instant and the cost of each.     *)
During(log, from, to) == {i \in DOMAIN log : from <= log[i].at /\ log[i].at < to}
Spent(log, S) == SumFunctionOnSet([i \in S |-> log[i].cost], S)

------------------------------------------------------------------------------
(* The chart: buckets from the one of `from` to the one of `to`.             *)
Truncate(t, g) == t - (t % Step[g])
InRange(from, to, g) == from <= to /\ to - from <= MaxSpan[g]
DefaultFrom(to, g) == to - DefaultSpan[g]

(* *Mistake:* the bucket that is still going on is not listed.               *)
LabelledBefore(b, from, to, g) ==
  Truncate(from, g) <= b /\ b < Truncate(to, g) /\ (b - Truncate(from, g)) % Step[g] = 0
Labelled(b, from, to, g) ==
  Truncate(from, g) <= b /\ b <= Truncate(to, g) /\ (b - Truncate(from, g)) % Step[g] = 0

Matched(log, from, to, g) == {i \in DOMAIN log : Truncate(from, g) <= log[i].at /\ log[i].at <= to}
Bucket(log, b, from, to, g) == {i \in Matched(log, from, to, g) : Truncate(log[i].at, g) = b}
Charted(log, from, to, g) ==
  {i \in Matched(log, from, to, g) : Labelled(Truncate(log[i].at, g), from, to, g)}

------------------------------------------------------------------------------
(* The overview: so many days up to now, against as many before.             *)
Current(log, now, days) == During(log, now - days * Day, now)
Previous(log, now, days) == During(log, now - 2 * days * Day, now - days * Day)

------------------------------------------------------------------------------
(* The monthly report. The next month is found by a jump over the longest.   *)
FirstDay[m \in 1..(Len(MonthDays) + 1)] ==
  IF m = 1 THEN 0 ELSE FirstDay[m - 1] + Day * MonthDays[m - 1]
MonthOf(t) == CHOOSE m \in 1..Len(MonthDays) : FirstDay[m] <= t /\ t < FirstDay[m + 1]
MonthStart(t) == FirstDay[MonthOf(t)]

(* *Mistake:* a month is thirty days.                                        *)
FollowingByThirty(start) == MonthStart(start + 30 * Day)
Following(start) == MonthStart(start + 32 * Day)
PreviousMonth(start) == MonthStart(start - Day)
Report(log, start) ==
  [current |-> During(log, start, Following(start)),
   previous |-> During(log, PreviousMonth(start), start)]

------------------------------------------------------------------------------
(* The engines: grouped by account and provider, and the groups added up.    *)
Consuming(log, from, to) ==
  {i \in DOMAIN log : log[i].call.engine # "none" /\ from <= log[i].at /\ log[i].at <= to}
Consumed(log, S) == SumFunctionOnSet([i \in S |-> log[i].call.consumed], S)

RowOf(r) == [engine |-> r.call.engine, user |-> r.user, provider |-> r.call.provider]
Rows(log, S, e) == {row \in {RowOf(log[i]) : i \in S} : row.engine = e}
Group(log, S, row) == {i \in S : RowOf(log[i]) = row}

GroupSums(log, S, rows) ==
  SumFunctionOnSet([row \in rows |-> Consumed(log, Group(log, S, row))], rows)

EngineTotal(log, S, e) == GroupSums(log, S, Rows(log, S, e))
ByProvider(log, S, e, provider) ==
  GroupSums(log, S, {row \in Rows(log, S, e) : row.provider = provider})
=============================================================================
